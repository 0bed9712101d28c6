-------------------------- MODULE Ext4BlocksProofs --------------------------
(***************************************************************************)
(* Theorems about the blocks the formatter writes: every operation keeps a *)
(* partition of them among the inodes, and what an inode's blocks hold is  *)
(* its data, behind the extents that lead to it (Owned).  With what        *)
(* close() writes this is the invariant of the making of an image          *)
(* (BlockInv).  And about the names: every operation keeps the links of an *)
(* inode the number of its names (Linked).                                 *)
(***************************************************************************)
EXTENDS Ext4ImageProofs

-----------------------------------------------------------------------------
(* What a block belongs to.                                                *)

\* The blocks that a file of count blocks from start takes: its data, and the
\* leaf blocks behind them.
Area(start, count) == Span(start, count + Len(Extents(start, count, start + count).blocks))

\* A block of a directory is full.
FullBlock(records) ==
  /\ RecSum(records) = BlockSize
  /\ \A k \in DOMAIN records : records[k].rec >= Header

\* The data of an inode are in the count blocks from start: its extents say so,
\* what they need of the disk was written before cur, a file has as many as its
\* size asks for and in them what the entry gave that gave it its time, and those
\* of a directory are full.
HasData(inode, start, count, cur, disk) ==
  /\ start \in Nat /\ count \in Nat
  /\ inode.root = Extents(start, count, start + count).root
  /\ \A b \in Area(start, count) : b < cur
  /\ TreeOnDisk(start, count, start + count, disk)
  /\ inode.kind = "file" =>
       /\ inode.size \in Nat /\ count = CeilDiv(inode.size, BlockSize)
       /\ \A k \in 1 .. count : disk[start + k - 1] = <<<<inode.time>>, k>>
  /\ inode.kind = "dir" => \A k \in 1 .. count : FullBlock(disk[start + k - 1])

Holds(f, n, start, count) == HasData(f.inodes[n], start, count, f.cur, f.disk)

\* Every inode has blocks of its own.
Spans(f, first, at, many) ==
  /\ \A n \in DOMAIN f.inodes : Holds(f, n, at[n], many[n]) /\ first <= at[n]
  /\ \A m \in DOMAIN f.inodes : \A n \in DOMAIN f.inodes \ {m} :
       Area(at[m], many[m]) \cap Area(at[n], many[n]) = {}

\* What the data of an inode are known by.
SameData(a, b) == a.root = b.root /\ a.kind = b.kind /\ a.size = b.size /\ a.time = b.time
NoData(a) == a.root = NoExtents /\ (a.kind = "file" => a.size = 0)

\* From f to g the inodes keep their data or lose them, but for x, whose data
\* are where f was about to write.
Writes(f, g, x, count) ==
  /\ f.cur \in Nat /\ g.cur \in Nat /\ f.cur <= g.cur
  /\ \A b \in DOMAIN f.disk : g.disk[b] = f.disk[b]
  /\ \A n \in DOMAIN g.inodes \ {x} :
       \/ n \in DOMAIN f.inodes /\ SameData(g.inodes[n], f.inodes[n])
       \/ NoData(g.inodes[n])
  /\ x \in DOMAIN g.inodes => Holds(g, x, f.cur, count)

\* No blocks, no area.
LEMMA NoArea ==
  ASSUME NEW s \in Nat
  PROVE  /\ Area(s, 0) = {} /\ Extents(s, 0, s + 0).root = NoExtents
         /\ Extents(s, 0, s + 0).blocks = <<>>
PROOF
<1> DEFINE x == Extents(s, 0, s + 0)
<1>1. x = [root |-> NoExtents, blocks |-> <<>>]
  BY DEF Extents
<1> HIDE DEF x
<1>2. x.root = NoExtents /\ x.blocks = <<>> /\ Len(x.blocks) = 0
  BY <1>1
<1>3. Area(s, 0) = s .. s - 1
  <2>1. Area(s, 0) = Span(s, 0 + Len(x.blocks))
    BY DEF Area, x
  <2>2. 0 + Len(x.blocks) = 0
    BY <1>2
  <2>3. s + 0 - 1 = s - 1
    OBVIOUS
  <2> QED
    BY <2>1, <2>2, <2>3 DEF Span
<1>4. s .. s - 1 = {}
  OBVIOUS
<1> QED
  BY <1>2, <1>3, <1>4 DEF x

\* The leaf blocks of a file.
LEMMA TreeBlocksAre ==
  ASSUME NEW s \in Nat, NEW c \in Nat, NEW cur \in Nat
  PROVE  LET b == Extents(s, c, cur).blocks
         IN Len(b) \in Nat /\ DOMAIN b = 1 .. Len(b) /\ \E X : b \in Seq(X)
PROOF
<1> DEFINE b == Extents(s, c, cur).blocks
           leaves == Leaves(s, c)
           l == LeafBlocks(leaves)
<1>1. b = <<>> \/ b = l
  BY DEF Extents
<1>2. leaves \in Seq({leaves[i] : i \in DOMAIN leaves})
  BY LeavesAre
<1>3. Len(leaves) \in Nat
  <2> HIDE DEF leaves
  <2> QED
    BY <1>2
<1> DEFINE m == CeilDiv(Len(leaves), PerLeafBlock)
<1>4. l = [i \in 1 .. m |-> l[i]]
  <2> HIDE DEF leaves
  <2> QED
    BY <1>2, LeafBlocksHold
<1>5. m \in Nat
  <2> HIDE DEF leaves
  <2> QED
    BY <1>3, CutPoints, PerLeafBlockPositive
<1> HIDE DEF b, l, m
<1>6. l \in Seq({l[k] : k \in 1 .. m})
  BY <1>4, <1>5, ListIs
<1>7. PICK X : b \in Seq(X)
  <2>1. <<>> \in Seq({})
    OBVIOUS
  <2> QED
    BY <1>1, <1>6, <2>1
<1>8. Len(b) \in Nat /\ DOMAIN b = 1 .. Len(b)
  BY <1>7
<1> QED
  BY <1>7, <1>8 DEF b

\* An area begins at its start.
LEMMA AreaIs ==
  ASSUME NEW s \in Nat, NEW c \in Nat
  PROVE  /\ \A b \in Area(s, c) : b \in Nat /\ s <= b
         /\ \A k \in 1 .. c : s + k - 1 \in Area(s, c)
         /\ \A i \in DOMAIN Extents(s, c, s + c).blocks : s + c + i - 1 \in Area(s, c)
PROOF
<1> DEFINE blocks == Extents(s, c, s + c).blocks
           l == Len(blocks)
<1>1. l \in Nat /\ DOMAIN blocks = 1 .. l
  <2>1. s + c \in Nat
    OBVIOUS
  <2> QED
    BY <2>1, TreeBlocksAre
<1>2. Area(s, c) = s .. s + (c + l) - 1
  BY DEF Area, Span
<1> HIDE DEF blocks, l
<1>3. \A b \in Area(s, c) : b \in Nat /\ s <= b
  BY <1>1, <1>2
<1>4. \A k \in 1 .. c : s + k - 1 \in Area(s, c)
  BY <1>1, <1>2
<1>5. \A i \in DOMAIN blocks : s + c + i - 1 \in Area(s, c)
  BY <1>1, <1>2
<1> QED
  BY <1>3, <1>4, <1>5 DEF blocks

\* What an inode holds stays while the disk keeps its blocks.
LEMMA HoldsStill ==
  ASSUME NEW f, NEW g, NEW n, NEW s, NEW c, Holds(f, n, s, c), NEW first \in Nat, first <= s,
         f.cur \in Nat, g.cur \in Nat, f.cur <= g.cur, DOMAIN f.disk = first .. f.cur - 1,
         \A b \in DOMAIN f.disk : g.disk[b] = f.disk[b],
         SameData(g.inodes[n], f.inodes[n])
  PROVE  Holds(g, n, s, c)
PROOF
<1>1. s \in Nat /\ c \in Nat
  BY DEF Holds, HasData
<1>2. ASSUME NEW b \in Area(s, c) PROVE b < f.cur /\ b < g.cur /\ g.disk[b] = f.disk[b]
  <2>1. b \in Nat /\ s <= b
    BY <1>1, AreaIs
  <2>2. b < f.cur
    BY DEF Holds, HasData
  <2>3. b < g.cur
    BY <2>1, <2>2
  <2>4. b \in DOMAIN f.disk
    BY <1>1, <2>1, <2>2
  <2> QED
    BY <2>2, <2>3, <2>4
<1>3. TreeOnDisk(s, c, s + c, g.disk)
  <2> DEFINE blocks == Extents(s, c, s + c).blocks
  <2>1. SUFFICES ASSUME NEW i \in DOMAIN blocks
                 PROVE  g.disk[s + c + i - 1] = blocks[i]
    BY DEF TreeOnDisk
  <2>2. f.disk[s + c + i - 1] = blocks[i]
    BY DEF Holds, HasData, TreeOnDisk
  <2>3. s + c + i - 1 \in Area(s, c)
    BY <1>1, AreaIs
  <2> QED
    BY <2>2, <2>3, <1>2
<1>4. ASSUME g.inodes[n].kind = "dir", NEW k \in 1 .. c PROVE FullBlock(g.disk[s + k - 1])
  <2>1. f.inodes[n].kind = "dir"
    BY <1>4 DEF SameData
  <2>2. FullBlock(f.disk[s + k - 1])
    BY <2>1 DEF Holds, HasData
  <2>3. s + k - 1 \in Area(s, c)
    BY <1>1, AreaIs
  <2> QED
    BY <2>2, <2>3, <1>2
<1>5. ASSUME g.inodes[n].kind = "file", NEW k \in 1 .. c
      PROVE  g.disk[s + k - 1] = <<<<g.inodes[n].time>>, k>>
  <2>1. f.inodes[n].kind = "file" /\ g.inodes[n].time = f.inodes[n].time
    BY <1>5 DEF SameData
  <2>2. f.disk[s + k - 1] = <<<<f.inodes[n].time>>, k>>
    BY <2>1 DEF Holds, HasData
  <2>3. s + k - 1 \in Area(s, c)
    BY <1>1, AreaIs
  <2> QED
    BY <2>1, <2>2, <2>3, <1>2
<1> QED
  BY <1>1, <1>2, <1>3, <1>4, <1>5 DEF Holds, HasData, SameData

\* An inode without data has them anywhere.
LEMMA NoDataHolds ==
  ASSUME NEW s \in Nat, NEW inode, NoData(inode), NEW cur, NEW disk
  PROVE  HasData(inode, s, 0, cur, disk) /\ Area(s, 0) = {}
PROOF
<1>1. /\ Area(s, 0) = {} /\ Extents(s, 0, s + 0).root = NoExtents
      /\ Extents(s, 0, s + 0).blocks = <<>>
  BY NoArea
<1>2. CeilDiv(0, BlockSize) = 0
  <2>1. BlockSize \in Nat \ {0}
    BY BlockSizeAssumption
  <2>2. 0 + BlockSize - 1 \in Nat /\ BlockSize * 0 <= 0 + BlockSize - 1
        /\ 0 + BlockSize - 1 < BlockSize * (0 + 1)
    BY <2>1
  <2>3. (0 + BlockSize - 1) \div BlockSize = 0
    BY <2>1, <2>2, DivUnique
  <2> QED
    BY <2>3 DEF CeilDiv
<1>3. TreeOnDisk(s, 0, s + 0, disk)
  <2>1. \A i \in DOMAIN <<>> : FALSE
    OBVIOUS
  <2> QED
    BY <1>1, <2>1 DEF TreeOnDisk
<1> QED
  BY <1>1, <1>2, <1>3 DEF HasData, NoData

\* A block that is of an inode after the step was, or it is one of x that was
\* just written.
Follows(f, g, x, at, many, at2, many2) ==
  \A n \in DOMAIN g.inodes : \A b \in Area(at2[n], many2[n]) :
    \/ /\ b < f.cur /\ n \in DOMAIN f.inodes /\ b \in Area(at[n], many[n])
       /\ ~NoData(g.inodes[n])
    \/ n = x /\ f.cur <= b

\* So every inode has blocks of its own after such a step, too.
LEMMA SpansStep ==
  ASSUME NEW first \in Nat, NEW f, NEW g, NEW x, NEW count, Writes(f, g, x, count),
         first <= f.cur, DOMAIN f.disk = first .. f.cur - 1,
         NEW at, NEW many, Spans(f, first, at, many)
  PROVE  \E at2, many2 : Spans(g, first, at2, many2) /\ Follows(f, g, x, at, many, at2, many2)
PROOF
<1> DEFINE Old(n) == /\ n # x /\ n \in DOMAIN f.inodes /\ SameData(g.inodes[n], f.inodes[n])
                     /\ ~NoData(g.inodes[n])
           at2 == [n \in DOMAIN g.inodes |->
                     IF n = x THEN f.cur ELSE IF Old(n) THEN at[n] ELSE first]
           many2 == [n \in DOMAIN g.inodes |->
                     IF n = x THEN count ELSE IF Old(n) THEN many[n] ELSE 0]
<1>1. /\ f.cur \in Nat /\ g.cur \in Nat /\ f.cur <= g.cur
      /\ \A b \in DOMAIN f.disk : g.disk[b] = f.disk[b]
      /\ \A n \in DOMAIN g.inodes \ {x} : Old(n) \/ NoData(g.inodes[n])
      /\ x \in DOMAIN g.inodes => Holds(g, x, f.cur, count)
  BY DEF Writes
<1>2. ASSUME NEW n \in DOMAIN g.inodes
      PROVE  /\ Holds(g, n, at2[n], many2[n]) /\ first <= at2[n]
             /\ Old(n) => /\ at2[n] = at[n] /\ many2[n] = many[n]
                          /\ \A b \in Area(at2[n], many2[n]) : b < f.cur
             /\ n = x => \A b \in Area(at2[n], many2[n]) : b >= f.cur
             /\ n # x /\ ~Old(n) => Area(at2[n], many2[n]) = {}
  <2>1. CASE n = x
    <3>1. at2[n] = f.cur /\ many2[n] = count /\ ~Old(n)
      BY <2>1
    <3>2. Holds(g, n, f.cur, count)
      BY <1>1, <2>1
    <3>3. \A b \in Area(f.cur, count) : b >= f.cur
      <4>1. f.cur \in Nat /\ count \in Nat
        BY <3>2 DEF Holds, HasData
      <4>2. \A b \in Area(f.cur, count) : b \in Nat /\ f.cur <= b
        BY <4>1, AreaIs
      <4> QED
        BY <4>1, <4>2
    <3> HIDE DEF at2, many2, Old
    <3> QED
      BY <2>1, <3>1, <3>2, <3>3
  <2>2. CASE n # x /\ Old(n)
    <3>1. at2[n] = at[n] /\ many2[n] = many[n]
      BY <2>2
    <3>2. Holds(f, n, at[n], many[n]) /\ first <= at[n]
      BY <2>2 DEF Spans
    <3>3. Holds(g, n, at[n], many[n])
      BY <1>1, <2>2, <3>2, HoldsStill
    <3>4. \A b \in Area(at[n], many[n]) : b < f.cur
      BY <3>2 DEF Holds, HasData
    <3> HIDE DEF at2, many2, Old
    <3> QED
      BY <2>2, <3>1, <3>2, <3>3, <3>4
  <2>3. CASE n # x /\ ~Old(n)
    <3>1. at2[n] = first /\ many2[n] = 0
      <4> HIDE DEF Old
      <4> QED
        BY <2>3
    <3>2. NoData(g.inodes[n])
      BY <1>1, <2>3
    <3>3. Holds(g, n, first, 0) /\ Area(first, 0) = {}
      BY <3>2, NoDataHolds DEF Holds
    <3> HIDE DEF at2, many2, Old
    <3> QED
      BY <2>3, <3>1, <3>3
  <2> HIDE DEF at2, many2, Old
  <2> QED
    BY <2>1, <2>2, <2>3
<1>3. ASSUME NEW m \in DOMAIN g.inodes, NEW n \in DOMAIN g.inodes \ {m}
      PROVE  Area(at2[m], many2[m]) \cap Area(at2[n], many2[n]) = {}
  <2>1. ASSUME NEW i \in DOMAIN g.inodes
        PROVE  \A b \in Area(at2[i], many2[i]) : b \in Nat
    <3>1. at2[i] \in Nat /\ many2[i] \in Nat
      <4> HIDE DEF at2, many2
      <4> QED
        BY <1>2 DEF Holds, HasData
    <3> HIDE DEF at2, many2
    <3> QED
      BY <3>1, AreaIs
  <2>2. CASE Old(m) /\ Old(n)
    <3>1. Area(at[m], many[m]) \cap Area(at[n], many[n]) = {}
      BY <2>2 DEF Spans
    <3>2. at2[m] = at[m] /\ many2[m] = many[m] /\ at2[n] = at[n] /\ many2[n] = many[n]
      <4> HIDE DEF at2, many2, Old
      <4> QED
        BY <2>2, <1>2
    <3> HIDE DEF at2, many2, Old
    <3> QED
      BY <3>1, <3>2
  <2>3. CASE (m # x /\ ~Old(m)) \/ (n # x /\ ~Old(n))
    <3> HIDE DEF at2, many2, Old
    <3> QED
      BY <2>3, <1>2
  <2>4. CASE m = x /\ Old(n)
    <3> HIDE DEF at2, many2, Old
    <3>1. \A b \in Area(at2[m], many2[m]) : b >= f.cur
      BY <2>4, <1>2
    <3>2. \A b \in Area(at2[n], many2[n]) : b < f.cur
      BY <2>4, <1>2
    <3> QED
      BY <3>1, <3>2, <2>1, <1>1
  <2>5. CASE n = x /\ Old(m)
    <3> HIDE DEF at2, many2, Old
    <3>1. \A b \in Area(at2[n], many2[n]) : b >= f.cur
      BY <2>5, <1>2
    <3>2. \A b \in Area(at2[m], many2[m]) : b < f.cur
      BY <2>5, <1>2
    <3> QED
      BY <3>1, <3>2, <2>1, <1>1
  <2> QED
    BY <2>2, <2>3, <2>4, <2>5
<1>5. ASSUME NEW n \in DOMAIN g.inodes, NEW b \in Area(at2[n], many2[n]), n # x
      PROVE  /\ b < f.cur /\ n \in DOMAIN f.inodes /\ b \in Area(at[n], many[n])
             /\ ~NoData(g.inodes[n])
  <2>1. Old(n) /\ at2[n] = at[n] /\ many2[n] = many[n] /\ b < f.cur
    <3> HIDE DEF at2, many2, Old
    <3> QED
      BY <1>2, <1>5
  <2>2. n \in DOMAIN f.inodes /\ ~NoData(g.inodes[n])
    BY <2>1
  <2>3. b \in Area(at2[n], many2[n])
    OBVIOUS
  <2> HIDE DEF at2, many2, Old
  <2> QED
    BY <2>1, <2>2, <2>3
<1> HIDE DEF at2, many2, Old
<1>4. Spans(g, first, at2, many2)
  BY <1>2, <1>3 DEF Spans
<1>6. Follows(f, g, x, at, many, at2, many2)
  <2>1. ASSUME x \in DOMAIN g.inodes, NEW b \in Area(at2[x], many2[x]) PROVE f.cur <= b
    <3>1. at2[x] \in Nat /\ many2[x] \in Nat
      BY <1>2, <2>1 DEF Holds, HasData
    <3>2. b \in Nat /\ b >= f.cur
      BY <1>2, <2>1, <3>1, AreaIs
    <3> QED
      BY <1>1, <3>2
  <2> QED
    BY <1>5, <2>1 DEF Follows
<1> QED
  BY <1>4, <1>6

\* The blocks written since the first.
Written(f, first) == first .. f.cur - 1

\* A node has an inode, a hard link's the inode of its target too; all but the
\* root have a name, and what blocks it has were written.
NodeOwned(f, first, i) ==
  /\ f.tree.nodes[i].inode \in DOMAIN f.inodes
  /\ f.tree.nodes[i].link \in {0} \cup DOMAIN f.inodes
  /\ i # Root => f.tree.nodes[i].name \in DOMAIN NameBytes
  /\ f.tree.nodes[i].blocks \subseteq Written(f, first)

SameNode(a, b) ==
  a.inode = b.inode /\ a.link = b.link /\ a.name = b.name /\ a.blocks = b.blocks

Fields == {"tree", "inodes", "disk", "cur", "deleted", "deferred", "err"}
Shaped(a) == {"kind", "links", "root", "size", "time"} \subseteq DOMAIN a

\* The inodes are a list, and at least those that are reserved.
InodesListed(f) ==
  /\ \E X : f.inodes \in Seq(X)
  /\ Len(f.inodes) >= FirstInode - 1
  /\ \A n \in DOMAIN f.inodes : Shaped(f.inodes[n])

\* What is to be marked free was written.
FreedWritten(f, first) ==
  /\ f.deleted \subseteq Written(f, first)
  /\ \A n \in DOMAIN f.deferred : f.deferred[n] \subseteq Written(f, first)

\* The blocks that are kept in mind for inode m: those of its node, and those of
\* a node that is gone while there are links to it.
HeldBy(f, m, b) ==
  \/ b \in DeferredOf(f, m)
  \/ \E i \in DOMAIN f.tree.nodes : Refers(f, i) = m /\ b \in f.tree.nodes[i].blocks

\* What an inode has is marked free for none, and kept in mind for no other.
Apart(f, at, many) ==
  \A n \in DOMAIN f.inodes : \A b \in Area(at[n], many[n]) :
    b \notin f.deleted /\ \A m : HeldBy(f, m, b) => m = n

\* What the blocks of an image from the first on belong to.
Owned(f, first) ==
  /\ Fields \subseteq DOMAIN f
  /\ f.cur \in Nat /\ first <= f.cur
  /\ DOMAIN f.disk = Written(f, first)
  /\ InodesListed(f)
  /\ \A i \in DOMAIN f.tree.nodes : NodeOwned(f, first, i)
  /\ FreedWritten(f, first)
  /\ \E at, many : Spans(f, first, at, many) /\ Apart(f, at, many)

\* From f to g only blocks of inodes that have no more data are to be marked
\* free, and none but those of an inode are kept in mind for it.
FreesOnly(g, f) ==
  /\ \A b \in g.deleted :
       b \in f.deleted \/ \E m : HeldBy(f, m, b) /\ NoData(g.inodes[m])
  /\ \A m \in DOMAIN g.deferred : \A b \in g.deferred[m] : HeldBy(f, m, b)

\* A node that is new in g has none but the blocks that were written for x.
NewNode(g, f, first, x, i) ==
  /\ NodeOwned(g, first, i)
  /\ \A b \in g.tree.nodes[i].blocks : Refers(g, i) = x /\ f.cur <= b

\* The list of inodes.
LEMMA InodesAre ==
  ASSUME NEW f, InodesListed(f)
  PROVE  Len(f.inodes) \in Nat /\ DOMAIN f.inodes = 1 .. Len(f.inodes)
PROOF
<1>1. PICK X : f.inodes \in Seq(X)
  BY DEF InodesListed
<1> QED
  BY <1>1

\* A step that frees nothing.
LEMMA FreesNothing ==
  ASSUME NEW f, NEW g, g.deleted = f.deleted, g.deferred = f.deferred
  PROVE  FreesOnly(g, f)
  BY DEF FreesOnly, HeldBy, DeferredOf

\* What is kept in mind was written.
LEMMA HeldWritten ==
  ASSUME NEW first, NEW f, FreedWritten(f, first),
         \A i \in DOMAIN f.tree.nodes : NodeOwned(f, first, i),
         NEW m, NEW b, HeldBy(f, m, b)
  PROVE  b \in Written(f, first)
  BY DEF HeldBy, DeferredOf, FreedWritten, NodeOwned

\* A step that writes at most the data of inode x keeps every block owned.
LEMMA OwnedStep ==
  ASSUME NEW first \in Nat, NEW f, Owned(f, first),
         NEW g, NEW x, NEW count, Writes(f, g, x, count),
         Fields \subseteq DOMAIN g, DOMAIN g.disk = Written(g, first),
         InodesListed(g), Len(f.inodes) <= Len(g.inodes),
         \A i \in DOMAIN g.tree.nodes :
           \/ i \in DOMAIN f.tree.nodes /\ SameNode(g.tree.nodes[i], f.tree.nodes[i])
           \/ NewNode(g, f, first, x, i),
         FreesOnly(g, f)
  PROVE  Owned(g, first)
PROOF
<1>1. /\ f.cur \in Nat /\ first <= f.cur /\ DOMAIN f.disk = first .. f.cur - 1
      /\ InodesListed(f) /\ FreedWritten(f, first)
      /\ \A i \in DOMAIN f.tree.nodes : NodeOwned(f, first, i)
  BY DEF Owned, Written
<1>2. g.cur \in Nat /\ f.cur <= g.cur
  BY DEF Writes
<1>3. first <= g.cur
  BY <1>1, <1>2
<1>8. ASSUME NEW m, NEW b, HeldBy(g, m, b)
      PROVE  HeldBy(f, m, b) \/ (m = x /\ f.cur <= b)
  <2>1. CASE b \in DeferredOf(g, m)
    BY <2>1 DEF FreesOnly, DeferredOf
  <2>2. CASE \E i \in DOMAIN g.tree.nodes : Refers(g, i) = m /\ b \in g.tree.nodes[i].blocks
    <3>1. PICK i \in DOMAIN g.tree.nodes : Refers(g, i) = m /\ b \in g.tree.nodes[i].blocks
      BY <2>2
    <3>2. CASE i \in DOMAIN f.tree.nodes /\ SameNode(g.tree.nodes[i], f.tree.nodes[i])
      BY <3>1, <3>2 DEF HeldBy, SameNode, Refers
    <3>3. CASE NewNode(g, f, first, x, i)
      BY <3>1, <3>3 DEF NewNode
    <3> QED
      BY <3>2, <3>3
  <2> QED
    BY <1>8, <2>1, <2>2 DEF HeldBy
<1>9. \A m, b : HeldBy(f, m, b) => b \in Nat /\ b < f.cur
  <2>1. \A m, b : HeldBy(f, m, b) => b \in first .. f.cur - 1
    BY <1>1, HeldWritten DEF Written
  <2> QED
    BY <1>1, <2>1
<1>10. \A b \in f.deleted : b \in Nat /\ b < f.cur
  BY <1>1 DEF FreedWritten, Written
<1>4. \E at, many : Spans(g, first, at, many) /\ Apart(g, at, many)
  <2>1. PICK at, many : Spans(f, first, at, many) /\ Apart(f, at, many)
    BY DEF Owned
  <2>2. PICK at2, many2 : Spans(g, first, at2, many2) /\ Follows(f, g, x, at, many, at2, many2)
    BY <1>1, <2>1, SpansStep
  <2>3. ASSUME NEW n \in DOMAIN g.inodes, NEW b \in Area(at2[n], many2[n])
        PROVE  b \notin g.deleted /\ \A m : HeldBy(g, m, b) => m = n
    <3>0. at2[n] \in Nat /\ many2[n] \in Nat
      BY <2>2 DEF Spans, Holds, HasData
    <3>1. b \in Nat
      BY <3>0, AreaIs
    <3>2. CASE /\ b < f.cur /\ n \in DOMAIN f.inodes /\ b \in Area(at[n], many[n])
               /\ ~NoData(g.inodes[n])
      <4>1. b \notin f.deleted /\ \A m : HeldBy(f, m, b) => m = n
        BY <2>1, <3>2 DEF Apart
      <4>2. b \notin g.deleted
        BY <3>2, <4>1 DEF FreesOnly
      <4>3. ~(f.cur <= b)
        BY <1>1, <3>1, <3>2
      <4> QED
        BY <1>8, <4>1, <4>2, <4>3
    <3>3. CASE n = x /\ f.cur <= b
      <4>1. ~(b < f.cur)
        BY <1>1, <3>1, <3>3
      <4>2. b \notin g.deleted
        BY <1>9, <1>10, <4>1 DEF FreesOnly
      <4> QED
        BY <1>8, <1>9, <3>3, <4>1, <4>2
    <3> QED
      BY <2>2, <3>2, <3>3 DEF Follows
  <2>4. Apart(g, at2, many2)
    BY <2>3 DEF Apart
  <2> QED
    BY <2>2, <2>4
<1>5. DOMAIN f.inodes \subseteq DOMAIN g.inodes
  <2>1. /\ Len(f.inodes) \in Nat /\ DOMAIN f.inodes = 1 .. Len(f.inodes)
        /\ Len(g.inodes) \in Nat /\ DOMAIN g.inodes = 1 .. Len(g.inodes)
    BY <1>1, InodesAre
  <2> QED
    BY <2>1
<1>6. Written(f, first) \subseteq Written(g, first)
  BY <1>1, <1>2 DEF Written
<1>7. ASSUME NEW i \in DOMAIN g.tree.nodes PROVE NodeOwned(g, first, i)
  <2>1. ASSUME i \in DOMAIN f.tree.nodes, SameNode(g.tree.nodes[i], f.tree.nodes[i])
        PROVE  NodeOwned(g, first, i)
    <3>1. NodeOwned(f, first, i)
      BY <1>1, <2>1
    <3> QED
      BY <1>5, <1>6, <2>1, <3>1 DEF NodeOwned, SameNode
  <2> QED
    BY <2>1 DEF NewNode
<1>11. FreedWritten(g, first)
  <2>1. \A m, b : HeldBy(f, m, b) => b \in Written(f, first)
    BY <1>1, HeldWritten
  <2>2. f.deleted \subseteq Written(f, first)
    BY <1>1 DEF FreedWritten
  <2> HIDE DEF Written
  <2> QED
    BY <1>6, <2>1, <2>2 DEF FreesOnly, FreedWritten
<1> QED
  BY <1>2, <1>3, <1>4, <1>7, <1>11 DEF Owned

\* The same where nothing is written.
LEMMA OwnedStill ==
  ASSUME NEW first \in Nat, NEW f, Owned(f, first), NEW g,
         Fields \subseteq DOMAIN g, g.disk = f.disk, g.cur = f.cur,
         InodesListed(g), Len(g.inodes) = Len(f.inodes),
         \A n \in DOMAIN f.inodes :
           SameData(g.inodes[n], f.inodes[n]) \/ NoData(g.inodes[n]),
         \A i \in DOMAIN g.tree.nodes :
           \/ i \in DOMAIN f.tree.nodes /\ SameNode(g.tree.nodes[i], f.tree.nodes[i])
           \/ NodeOwned(g, first, i) /\ g.tree.nodes[i].blocks = {},
         FreesOnly(g, f)
  PROVE  Owned(g, first)
PROOF
<1>1. f.cur \in Nat /\ DOMAIN f.disk = Written(f, first) /\ InodesListed(f)
  BY DEF Owned
<1>2. /\ DOMAIN f.inodes = 1 .. Len(f.inodes) /\ Len(f.inodes) \in Nat
      /\ DOMAIN g.inodes = 1 .. Len(f.inodes)
  BY <1>1, InodesAre
<1>3. 0 \notin DOMAIN g.inodes
  BY <1>2
<1>4. Writes(f, g, 0, 0)
  BY <1>1, <1>2, <1>3 DEF Writes
<1>5. DOMAIN g.disk = Written(g, first)
  BY <1>1 DEF Written
<1>6. Len(f.inodes) <= Len(g.inodes)
  BY <1>2
<1>7. \A i \in DOMAIN g.tree.nodes :
        \/ i \in DOMAIN f.tree.nodes /\ SameNode(g.tree.nodes[i], f.tree.nodes[i])
        \/ NewNode(g, f, first, 0, i)
  BY DEF NewNode
<1> QED
  BY <1>4, <1>5, <1>6, <1>7, OwnedStep

\* A child that leaves changes no node but its parent's list.
LEMMA RemoveChildKeeps ==
  ASSUME NEW t, Sound(t), NEW p \in DOMAIN t.nodes, NEW n,
         NEW u, u = RemoveChild(t, p, n)
  PROVE  /\ DOMAIN u.nodes = DOMAIN t.nodes
         /\ \A i \in DOMAIN t.nodes : SameNode(u.nodes[i], t.nodes[i])
PROOF
<1>1. CASE Positions(t, p, n) = {}
  BY <1>1 DEF RemoveChild, SameNode
<1>2. CASE Positions(t, p, n) # {}
  <2> DEFINE m == Min(Positions(t, p, n))
             c == RemoveAt(t.nodes[p].children, m)
  <2>1. t = [nodes |-> t.nodes, index |-> t.index]
    BY NodesOf
  <2>2. u.nodes = [t.nodes EXCEPT ![p].children = c]
    BY <1>2, <2>1 DEF RemoveChild
  <2>3. PICK X : WellFormed(X, t)
    BY DEF Sound
  <2>4. \A i \in DOMAIN t.nodes : t.nodes[i] \in Nodes(X)
    BY <2>3 DEF WellFormed, Trees
  <2> HIDE DEF c
  <2> QED
    BY <2>2, <2>4 DEF SameNode, Nodes
<1> QED
  BY <1>1, <1>2

\* A list of which only entries are changed.
LEMMA ListAgain ==
  ASSUME NEW X, NEW old \in Seq(X), NEW s, s = [k \in DOMAIN old |-> s[k]]
  PROVE  (\E Y : s \in Seq(Y)) /\ Len(s) = Len(old) /\ DOMAIN s = DOMAIN old
PROOF
<1>1. Len(old) \in Nat /\ DOMAIN old = 1 .. Len(old)
  OBVIOUS
<1>2. s = [k \in 1 .. Len(old) |-> s[k]]
  BY <1>1
<1>3. s \in Seq({s[k] : k \in 1 .. Len(old)}) /\ Len(s) = Len(old) /\ DOMAIN s = 1 .. Len(old)
  BY <1>1, <1>2, ListIs
<1> QED
  BY <1>1, <1>3

\* An inode whose count of links changes is still where its data are.
LEMMA LinksChange ==
  ASSUME NEW f, InodesListed(f), NEW ino, NEW v
  PROVE  LET inodes == [f.inodes EXCEPT ![ino].links = v]
         IN /\ \E X : inodes \in Seq(X)
            /\ Len(inodes) = Len(f.inodes)
            /\ \A n \in DOMAIN f.inodes :
                 Shaped(inodes[n]) /\ SameData(inodes[n], f.inodes[n])
PROOF
<1> DEFINE inodes == [f.inodes EXCEPT ![ino].links = v]
<1>1. PICK X : f.inodes \in Seq(X)
  BY DEF InodesListed
<1>2. \A n \in DOMAIN f.inodes : Shaped(f.inodes[n])
  BY DEF InodesListed
<1>3. DOMAIN inodes = DOMAIN f.inodes /\ DOMAIN f.inodes = 1 .. Len(f.inodes)
      /\ Len(f.inodes) \in Nat
  BY <1>1
<1>4. \A n \in DOMAIN f.inodes :
        inodes[n] = IF n = ino THEN [f.inodes[n] EXCEPT !.links = v] ELSE f.inodes[n]
  OBVIOUS
<1>5. \A n \in DOMAIN f.inodes :
              Shaped(inodes[n]) /\ SameData(inodes[n], f.inodes[n])
  BY <1>2, <1>4 DEF Shaped, SameData
<1>6. (\E Y : inodes \in Seq(Y)) /\ Len(inodes) = Len(f.inodes)
  <2>1. inodes = [n \in DOMAIN f.inodes |-> inodes[n]]
    OBVIOUS
  <2> HIDE DEF inodes
  <2> QED
    BY <1>1, <2>1, ListAgain
<1> QED
  BY <1>5, <1>6

\* A node that leaves its parent takes no blocks along.
LEMMA LeaveParentOwned ==
  ASSUME NEW first \in Nat, NEW f, SoundFormatter(f), Owned(f, first),
         NEW i \in DOMAIN f.tree.nodes \ {Root}
  PROVE  LET g == LeaveParent(f, i)
         IN /\ Owned(g, first)
            /\ DOMAIN g.tree.nodes = DOMAIN f.tree.nodes
            /\ \A j \in DOMAIN f.tree.nodes : SameNode(g.tree.nodes[j], f.tree.nodes[j])
            /\ Len(g.inodes) = Len(f.inodes)
PROOF
<1> DEFINE node == f.tree.nodes[i]
           up == f.tree.nodes[node.parent].inode
           links == f.inodes[up].links
           v == IF IsDir(InodeAt(f, i)) /\ links > 2 THEN links - 1 ELSE links
           inodes == [f.inodes EXCEPT ![up].links = v]
           u == RemoveChild(f.tree, node.parent, node.name)
           g == LeaveParent(f, i)
<1>1. g = [f EXCEPT !.inodes = inodes, !.tree = u]
  BY DEF LeaveParent
<1>2. Fields \subseteq DOMAIN f /\ InodesListed(f)
  BY DEF Owned
<1>3. node.parent \in DOMAIN f.tree.nodes /\ Sound(f.tree)
  BY DEF SoundFormatter, Sound
<1>4. /\ DOMAIN u.nodes = DOMAIN f.tree.nodes
      /\ \A j \in DOMAIN f.tree.nodes : SameNode(u.nodes[j], f.tree.nodes[j])
  <2> HIDE DEF node
  <2> QED
    BY <1>3, RemoveChildKeeps
<1>5. /\ \E X : inodes \in Seq(X)
      /\ Len(inodes) = Len(f.inodes)
      /\ \A n \in DOMAIN f.inodes :
           Shaped(inodes[n]) /\ SameData(inodes[n], f.inodes[n])
  <2> HIDE DEF v, up
  <2> QED
    BY <1>2, LinksChange
<1> HIDE DEF u, inodes
<1>6. /\ g.disk = f.disk /\ g.cur = f.cur /\ g.inodes = inodes /\ g.tree = u
      /\ g.deleted = f.deleted /\ g.deferred = f.deferred /\ Fields \subseteq DOMAIN g
  <2> HIDE DEF g
  <2> QED
    BY <1>1, <1>2 DEF Fields
<1> HIDE DEF g
<1>7. InodesListed(g)
  <2>1. DOMAIN inodes = DOMAIN f.inodes
    <3>1. PICK X : f.inodes \in Seq(X)
      BY <1>2 DEF InodesListed
    <3>2. PICK Y : inodes \in Seq(Y)
      BY <1>5
    <3> QED
      BY <3>1, <3>2, <1>5
  <2> QED
    BY <1>2, <1>5, <1>6, <2>1 DEF InodesListed
<1>8. FreesOnly(g, f)
  BY <1>6, FreesNothing
<1>9. Owned(g, first)
  BY <1>4, <1>5, <1>6, <1>7, <1>8, OwnedStill
<1> QED
  BY <1>4, <1>5, <1>6, <1>9 DEF g

\* A reference less: the inode loses its data only with its last one, and what
\* it held is to be marked free.
LEMMA DropReferenceOwned ==
  ASSUME NEW first \in Nat, NEW f, Owned(f, first), NEW i \in DOMAIN f.tree.nodes
  PROVE  LET g == DropReference(f, i)
         IN Owned(g, first) /\ Len(g.inodes) = Len(f.inodes)
PROOF
<1> DEFINE node == f.tree.nodes[i]
           ino  == IF node.link # 0 THEN node.link ELSE node.inode
           left == IF f.inodes[ino].links > 0 THEN f.inodes[ino].links - 1 ELSE 0
           held == DeferredOf(f, ino) \cup node.blocks
           rest == Restrict(f.deferred, DOMAIN f.deferred \ {ino})
           kept == IF held = {} THEN rest
                   ELSE [n \in DOMAIN rest \cup {ino} |-> IF n = ino THEN held ELSE rest[n]]
           freed == [f.inodes EXCEPT ![ino] = [Unused EXCEPT !.dtime = "clock"]]
           less == [f.inodes EXCEPT ![ino].links = left]
           g == DropReference(f, i)
<1>1. Fields \subseteq DOMAIN f /\ InodesListed(f) /\ NodeOwned(f, first, i)
  BY DEF Owned
<1>2. \A b \in held : HeldBy(f, ino, b)
  <2>1. Refers(f, i) = ino
    BY DEF Refers
  <2> HIDE DEF ino
  <2> QED
    BY <2>1 DEF HeldBy
<1>3. DOMAIN rest = DOMAIN f.deferred \ {ino}
      /\ \A n \in DOMAIN rest : rest[n] = f.deferred[n]
  <2> HIDE DEF ino
  <2> QED
    BY DEF Restrict
<1> HIDE DEF rest
<1>4. \A n \in DOMAIN rest : \A b \in rest[n] : HeldBy(f, n, b)
  BY <1>3 DEF HeldBy, DeferredOf
<1> HIDE DEF held
<1>5. \A n \in DOMAIN kept : \A b \in kept[n] : HeldBy(f, n, b)
  <2>1. CASE held = {}
    BY <1>4, <2>1
  <2>2. CASE held # {}
    <3>1. kept = [n \in DOMAIN rest \cup {ino} |-> IF n = ino THEN held ELSE rest[n]]
      BY <2>2
    <3> HIDE DEF kept, ino
    <3> QED
      BY <1>2, <1>4, <3>1
  <2> QED
    BY <2>1, <2>2
<1> HIDE DEF kept
<1>6. CASE ino < FirstInode
  <2>1. g = f
    BY <1>6 DEF DropReference
  <2> QED
    BY <2>1
<1>7. CASE ~(ino < FirstInode) /\ left = 0
  <2>1. g = [f EXCEPT !.inodes = freed, !.deleted = f.deleted \cup held, !.deferred = rest]
    BY <1>7 DEF DropReference, held, rest
  <2>2. /\ \E X : freed \in Seq(X)
        /\ Len(freed) = Len(f.inodes) /\ DOMAIN freed = DOMAIN f.inodes
        /\ \A n \in DOMAIN f.inodes :
             Shaped(freed[n]) /\ (SameData(freed[n], f.inodes[n]) \/ NoData(freed[n]))
        /\ NoData(freed[ino])
    <3> DEFINE gone == [Unused EXCEPT !.dtime = "clock"]
    <3>1. Shaped(gone) /\ NoData(gone)
      BY DEF Unused, Shaped, NoData
    <3>0. ino \in DOMAIN f.inodes
      BY <1>1, <1>7 DEF NodeOwned, FirstInode
    <3>2. PICK X : f.inodes \in Seq(X)
      BY <1>1 DEF InodesListed
    <3>3. \A n \in DOMAIN f.inodes : Shaped(f.inodes[n])
      BY <1>1 DEF InodesListed
    <3> HIDE DEF gone, ino
    <3>4. freed = [f.inodes EXCEPT ![ino] = gone]
      BY DEF gone
    <3> HIDE DEF freed
    <3>5. DOMAIN freed = DOMAIN f.inodes /\ DOMAIN f.inodes = 1 .. Len(f.inodes)
          /\ Len(f.inodes) \in Nat
      BY <3>2, <3>4
    <3>6. \A n \in DOMAIN f.inodes : freed[n] = IF n = ino THEN gone ELSE f.inodes[n]
      BY <3>4
    <3>7. \A n \in DOMAIN f.inodes :
             Shaped(freed[n]) /\ (SameData(freed[n], f.inodes[n]) \/ NoData(freed[n]))
      BY <3>1, <3>3, <3>6 DEF SameData
    <3>8. freed \in Seq({freed[n] : n \in 1 .. Len(f.inodes)}) /\ Len(freed) = Len(f.inodes)
      <4>1. freed = [n \in 1 .. Len(f.inodes) |-> freed[n]]
        BY <3>4, <3>5
      <4> QED
        BY <3>5, <4>1, ListIs
    <3> QED
      BY <3>0, <3>1, <3>5, <3>6, <3>7, <3>8
  <2> HIDE DEF freed
  <2>3. /\ g.disk = f.disk /\ g.cur = f.cur /\ g.inodes = freed /\ g.tree = f.tree
        /\ g.deleted = f.deleted \cup held /\ g.deferred = rest /\ Fields \subseteq DOMAIN g
    <3> HIDE DEF g
    <3> QED
      BY <1>1, <2>1 DEF Fields
  <2> HIDE DEF g
  <2>4. InodesListed(g)
    BY <1>1, <2>2, <2>3 DEF InodesListed
  <2>5. FreesOnly(g, f)
    <3> HIDE DEF ino
    <3> QED
      BY <1>2, <1>4, <2>2, <2>3 DEF FreesOnly
  <2>6. \A j \in DOMAIN f.tree.nodes : SameNode(f.tree.nodes[j], f.tree.nodes[j])
    BY DEF SameNode
  <2>7. Owned(g, first)
    BY <2>2, <2>3, <2>4, <2>5, <2>6, OwnedStill
  <2> QED
    BY <2>2, <2>3, <2>7 DEF g
<1>8. CASE ~(ino < FirstInode) /\ left # 0
  <2>1. g = [f EXCEPT !.inodes = less, !.deferred = kept]
    BY <1>8 DEF DropReference, held, rest, kept
  <2>2. /\ \E X : less \in Seq(X)
        /\ Len(less) = Len(f.inodes)
        /\ \A n \in DOMAIN f.inodes :
             Shaped(less[n]) /\ SameData(less[n], f.inodes[n])
    <3> HIDE DEF left, ino
    <3> QED
      BY <1>1, LinksChange
  <2> HIDE DEF less
  <2>3. /\ g.disk = f.disk /\ g.cur = f.cur /\ g.inodes = less /\ g.tree = f.tree
        /\ g.deleted = f.deleted /\ g.deferred = kept /\ Fields \subseteq DOMAIN g
    <3> HIDE DEF g
    <3> QED
      BY <1>1, <2>1 DEF Fields
  <2> HIDE DEF g
  <2>4. InodesListed(g)
    <3>1. DOMAIN less = DOMAIN f.inodes
      <4>1. PICK X : f.inodes \in Seq(X)
        BY <1>1 DEF InodesListed
      <4>2. PICK Y : less \in Seq(Y)
        BY <2>2
      <4> QED
        BY <4>1, <4>2, <2>2
    <3> QED
      BY <1>1, <2>2, <2>3, <3>1 DEF InodesListed
  <2>5. FreesOnly(g, f)
    BY <1>5, <2>3 DEF FreesOnly
  <2>6. \A j \in DOMAIN f.tree.nodes : SameNode(f.tree.nodes[j], f.tree.nodes[j])
    BY DEF SameNode
  <2>7. Owned(g, first)
    BY <2>2, <2>3, <2>4, <2>5, <2>6, OwnedStill
  <2> QED
    BY <2>2, <2>3, <2>7 DEF g
<1> QED
  BY <1>6, <1>7, <1>8

-----------------------------------------------------------------------------
(* The operations of the formatter keep every block owned.                 *)

\* A formatter whose tree is sound and whose blocks are owned.
Keeps(f, first) == SoundFormatter(f) /\ Owned(f, first)

\* An error is no change to either.
LEMMA FailsKeeps ==
  ASSUME NEW first \in Nat, NEW f, Keeps(f, first), NEW why
  PROVE  Keeps(Fails(f, why), first) /\ Len(Fails(f, why).inodes) = Len(f.inodes)
PROOF
<1> DEFINE g == Fails(f, why)
<1>1. Fields \subseteq DOMAIN f
  BY DEF Keeps, Owned
<1>2. g = [f EXCEPT !.err = why]
  BY DEF Fails
<1> HIDE DEF g
<1>3. /\ DOMAIN g = DOMAIN f /\ g.tree = f.tree /\ g.disk = f.disk /\ g.cur = f.cur
      /\ g.inodes = f.inodes /\ g.deleted = f.deleted /\ g.deferred = f.deferred
  BY <1>1, <1>2 DEF Fields
<1>4. SoundFormatter(g)
  BY <1>3 DEF Keeps, SoundFormatter
<1>5. Owned(g, first)
  <2>1. InodesListed(g) /\ FreesOnly(g, f)
    BY <1>3, FreesNothing DEF Keeps, Owned, InodesListed
  <2>2. /\ Fields \subseteq DOMAIN g /\ Len(g.inodes) = Len(f.inodes)
        /\ \A n \in DOMAIN f.inodes : SameData(g.inodes[n], f.inodes[n])
        /\ \A i \in DOMAIN g.tree.nodes : SameNode(g.tree.nodes[i], f.tree.nodes[i])
    BY <1>1, <1>3 DEF SameData, SameNode
  <2> QED
    BY <1>3, <2>1, <2>2, OwnedStill DEF Keeps
<1> QED
  BY <1>3, <1>4, <1>5 DEF Keeps, g

\* What removing nodes leaves of f in g.
Less(g, f, first) ==
  /\ Keeps(g, first)
  /\ DOMAIN g.tree.nodes = DOMAIN f.tree.nodes
  /\ Len(g.inodes) = Len(f.inodes)

\* One node leaves the tree.
LEMMA DetachKeeps ==
  ASSUME NEW first \in Nat, NEW f, Keeps(f, first), NEW i \in DOMAIN f.tree.nodes \ {Root}
  PROVE  Less(Detach(f, i), f, first)
PROOF
<1> DEFINE h == LeaveParent(f, i)
           g == DropReference(h, i)
<1>1. /\ Owned(h, first) /\ DOMAIN h.tree.nodes = DOMAIN f.tree.nodes
      /\ Len(h.inodes) = Len(f.inodes)
  BY LeaveParentOwned DEF Keeps
<1>2. Owned(g, first) /\ Len(g.inodes) = Len(h.inodes)
  <2> HIDE DEF h
  <2> QED
    BY <1>1, DropReferenceOwned
<1>3. Detach(f, i) = g
  BY DEF Detach
<1>4. SoundFormatter(g) /\ DOMAIN g.tree.nodes = DOMAIN f.tree.nodes
  <2> HIDE DEF g
  <2> QED
    BY <1>3, DetachSound DEF Keeps
<1> HIDE DEF g, h
<1> QED
  BY <1>1, <1>2, <1>3, <1>4 DEF Keeps, Less

\* And so do all the nodes of a list.
LEMMA DetachAllKeeps ==
  ASSUME NEW first \in Nat, NEW f, Keeps(f, first),
         NEW order \in Seq(DOMAIN f.tree.nodes \ {Root})
  PROVE  Less(FoldLeft(Detach, f, order), f, first)
PROOF
<1>1. FoldLeft(Detach, f, order) = Detaching!Fold(f, f, order)
  BY DEF Detaching!Fold, DetachIn, FoldLeft, MapThenFoldSet, Max,
         Detaching!Largest
<1>2. Len(order) \in Nat /\ DOMAIN order = 1 .. Len(order)
  OBVIOUS
<1>2a. \A m \in 1 .. Len(order) : order[m] \in DOMAIN f.tree.nodes \ {Root}
  OBVIOUS
<1>3. PICK g : Detaching!Trace(f, f, Len(order), order, g)
  BY <1>2, Detaching!FoldTrace
<1>t. /\ g[0] = f /\ Detaching!Fold(f, f, order) = g[Len(order)]
      /\ \A m \in 1 .. Len(order) : g[m] = DetachIn(f, g[m - 1], order[m])
  BY <1>3 DEF Detaching!Trace
<1> DEFINE P == {m \in 0 .. Len(order) : Less(g[m], f, first)}
<1>4. 0 \in P
  BY <1>2, <1>t DEF Less
<1>5. ASSUME NEW m \in 1 .. Len(order), m - 1 \in P PROVE m \in P
  <2>1. g[m] = Detach(g[m - 1], order[m])
    BY <1>t DEF DetachIn
  <2>2. Less(g[m - 1], f, first)
    BY <1>5
  <2>3. order[m] \in DOMAIN g[m - 1].tree.nodes \ {Root}
    BY <1>2a, <2>2 DEF Less
  <2>4. Less(g[m], g[m - 1], first)
    BY <2>1, <2>2, <2>3, DetachKeeps DEF Less
  <2>5. Less(g[m], f, first)
    BY <2>2, <2>4 DEF Less
  <2> QED
    BY <2>5
<1>6. 0 .. Len(order) \subseteq P
  <2> HIDE DEF P
  <2> QED
    BY <1>2, <1>4, <1>5, Detaching!Upwards
<1>7. Less(g[Len(order)], f, first)
  BY <1>2, <1>6
<1> QED
  BY <1>1, <1>t, <1>7

\* unlink() of anything but the root itself.
LEMMA UnlinkKeeps ==
  ASSUME NEW first \in Nat, NEW f, Keeps(f, first), NEW S, NEW path \in Seq(S),
         NEW whiteout \in BOOLEAN, path # <<>> \/ whiteout
  PROVE  LET g == Unlink(f, path, whiteout)
         IN Keeps(g, first) /\ Len(g.inodes) = Len(f.inodes)
PROOF
<1> DEFINE g == Unlink(f, path, whiteout)
<1>1. \/ g = f
      \/ g = Fails(f, "NotDirectory")
      \/ \E order \in Seq(DOMAIN f.tree.nodes \ {Root}) : g = FoldLeft(Detach, f, order)
  BY UnlinkOrder DEF Keeps
<1> HIDE DEF g
<1>2. CASE g = f
  BY <1>2 DEF g
<1>3. CASE g = Fails(f, "NotDirectory")
  BY <1>3, FailsKeeps DEF g
<1>4. CASE \E order \in Seq(DOMAIN f.tree.nodes \ {Root}) : g = FoldLeft(Detach, f, order)
  BY <1>4, DetachAllKeeps DEF Less, g
<1> QED
  BY <1>1, <1>2, <1>3, <1>4

\* One entry more in a list.
LEMMA AppendIs ==
  ASSUME NEW X, NEW s \in Seq(X), NEW v
  PROVE  LET g == Append(s, v)
         IN /\ \E Y : g \in Seq(Y)
            /\ Len(s) \in Nat /\ Len(g) = Len(s) + 1 /\ DOMAIN g = 1 .. Len(s) + 1
            /\ \A k \in 1 .. Len(s) : g[k] = s[k]
            /\ g[Len(s) + 1] = v
PROOF
<1> DEFINE Y == X \cup {v}
<1>1. s \in Seq(Y) /\ v \in Y
  OBVIOUS
<1> HIDE DEF Y
<1>2. Append(s, v) \in Seq(Y) /\ Len(Append(s, v)) = Len(s) + 1 /\ Len(s) \in Nat
  BY <1>1
<1>3. /\ DOMAIN Append(s, v) = 1 .. Len(s) + 1
      /\ \A k \in 1 .. Len(s) : Append(s, v)[k] = s[k]
      /\ Append(s, v)[Len(s) + 1] = v
  BY <1>1
<1> QED
  BY <1>2, <1>3

\* A child that is added changes no node but its parent's list.
LEMMA AddChildKeeps ==
  ASSUME NEW t, Sound(t), NEW p \in DOMAIN t.nodes,
         NEW ino, NEW name, NEW blocks, NEW link,
         NEW u, u = AddChild(t, p, Node(ino, name, blocks, link))
  PROVE  LET i == Len(t.nodes) + 1
         IN /\ DOMAIN u.nodes = DOMAIN t.nodes \cup {i} /\ i \notin DOMAIN t.nodes /\ i # Root
            /\ \A j \in DOMAIN t.nodes : SameNode(u.nodes[j], t.nodes[j])
            /\ SameNode(u.nodes[i], Node(ino, name, blocks, link))
PROOF
<1> DEFINE i == Len(t.nodes) + 1
           node == [Node(ino, name, blocks, link) EXCEPT !.parent = p]
           c == Append(t.nodes[p].children, i)
           m == [t.nodes EXCEPT ![p].children = c]
<1>1. PICK X : WellFormed(X, t)
  BY DEF Sound
<1>2. t.nodes \in Seq(Nodes(X)) /\ Len(t.nodes) \in Nat /\ DOMAIN t.nodes = 1 .. Len(t.nodes)
  BY <1>1 DEF WellFormed, Trees
<1>3. u.nodes = Append(m, node)
  BY DEF AddChild
<1> HIDE DEF c
<1>4. /\ DOMAIN m = DOMAIN t.nodes
      /\ \A j \in DOMAIN t.nodes : SameNode(m[j], t.nodes[j])
  <2>1. \A j \in DOMAIN t.nodes : t.nodes[j] \in Nodes(X)
    BY <1>2
  <2> QED
    BY <2>1 DEF SameNode, Nodes
<1>5. m = [j \in DOMAIN t.nodes |-> m[j]]
  OBVIOUS
<1> HIDE DEF m
<1>6. (\E Y : m \in Seq(Y)) /\ Len(m) = Len(t.nodes)
  BY <1>2, <1>5, ListAgain
<1>7. PICK Y : m \in Seq(Y)
  BY <1>6
<1>8. SameNode(node, Node(ino, name, blocks, link))
  BY DEF SameNode, Node
<1> HIDE DEF node
<1>9. /\ DOMAIN u.nodes = 1 .. Len(t.nodes) + 1
      /\ \A j \in 1 .. Len(t.nodes) : u.nodes[j] = m[j]
      /\ u.nodes[i] = node
  BY <1>3, <1>6, <1>7, AppendIs
<1>10. 1 .. Len(t.nodes) + 1 = 1 .. Len(t.nodes) \cup {i} /\ i \notin 1 .. Len(t.nodes)
  BY <1>2
<1>11. i # Root
  BY <1>2, <1>10 DEF Sound
<1> QED
  BY <1>2, <1>4, <1>8, <1>9, <1>10, <1>11

\* From f to h only blocks were written.
Wrote(h, f, first) ==
  /\ SoundFormatter(h) /\ Fields \subseteq DOMAIN h
  /\ h.tree = f.tree /\ h.inodes = f.inodes /\ h.deleted = f.deleted /\ h.deferred = f.deferred
  /\ h.cur \in Nat /\ f.cur <= h.cur
  /\ DOMAIN h.disk = Written(h, first)
  /\ \A b \in DOMAIN f.disk : h.disk[b] = f.disk[b]

\* A formatter that wrote nothing is one.
LEMMA NothingWrote ==
  ASSUME NEW first \in Nat, NEW f, Keeps(f, first)
  PROVE  Wrote(f, f, first)
  BY DEF Keeps, Owned, Wrote

\* Which changes no owner.
LEMMA WroteKeeps ==
  ASSUME NEW first \in Nat, NEW f, Keeps(f, first), NEW h, Wrote(h, f, first)
  PROVE  Keeps(h, first)
PROOF
<1>1. /\ f.cur \in Nat /\ first <= f.cur /\ InodesListed(f)
  BY DEF Keeps, Owned
<1>2. /\ h.inodes = f.inodes /\ h.tree = f.tree /\ h.deleted = f.deleted
      /\ h.deferred = f.deferred /\ h.cur \in Nat /\ f.cur <= h.cur
  BY DEF Wrote
<1>3. Len(f.inodes) \in Nat /\ DOMAIN f.inodes = 1 .. Len(f.inodes)
  BY <1>1, InodesAre
<1>4. 0 \notin DOMAIN h.inodes
  BY <1>2, <1>3
<1>5. Writes(f, h, 0, 0)
  BY <1>1, <1>4 DEF Writes, Wrote, SameData
<1>6. InodesListed(h)
  BY <1>1, <1>2 DEF InodesListed
<1>8. FreesOnly(h, f)
  BY <1>2, FreesNothing
<1>9. Len(f.inodes) <= Len(h.inodes)
  BY <1>2, <1>3
<1>10. \A i \in DOMAIN h.tree.nodes :
         i \in DOMAIN f.tree.nodes /\ SameNode(h.tree.nodes[i], f.tree.nodes[i])
  BY <1>2 DEF SameNode
<1>11. Fields \subseteq DOMAIN h /\ DOMAIN h.disk = Written(h, first)
  BY DEF Wrote
<1>12. Owned(h, first)
  BY <1>5, <1>6, <1>8, <1>9, <1>10, <1>11, OwnedStep DEF Keeps
<1> QED
  BY <1>12 DEF Keeps, Wrote

\* The blocks that are written follow those that were.
LEMMA WriteIs ==
  ASSUME NEW first \in Nat, NEW f, Keeps(f, first), NEW X, NEW blocks \in Seq(X)
  PROVE  LET h == Write(f, blocks)
         IN /\ Wrote(h, f, first)
            /\ h.cur = f.cur + Len(blocks)
            /\ \A k \in 1 .. Len(blocks) : h.disk[f.cur + k - 1] = blocks[k]
PROOF
<1> DEFINE h == Write(f, blocks)
           l == Len(blocks)
           new == [b \in f.cur .. f.cur + l - 1 |-> blocks[b - f.cur + 1]]
           disk == Over(new, f.disk)
<1>1. /\ Fields \subseteq DOMAIN f /\ f.cur \in Nat /\ first <= f.cur
      /\ DOMAIN f.disk = first .. f.cur - 1 /\ SoundFormatter(f)
  BY DEF Keeps, Owned, Written
<1>2. l \in Nat
  OBVIOUS
<1>3. h = [f EXCEPT !.disk = disk, !.cur = f.cur + l]
  BY DEF Write
<1>4. /\ DOMAIN disk = first .. f.cur + l - 1
      /\ \A b \in DOMAIN f.disk : disk[b] = f.disk[b]
      /\ \A k \in 1 .. l : disk[f.cur + k - 1] = blocks[k]
  <2> HIDE DEF l
  <2>1. DOMAIN new = f.cur .. f.cur + l - 1
    OBVIOUS
  <2>2. /\ DOMAIN disk = DOMAIN new \cup DOMAIN f.disk
        /\ \A b \in DOMAIN disk : disk[b] = IF b \in DOMAIN new THEN new[b] ELSE f.disk[b]
    <3> HIDE DEF new
    <3> QED
      BY DEF Over
  <2>3. \A k \in 1 .. l : new[f.cur + k - 1] = blocks[k]
    <3> SUFFICES ASSUME NEW k \in 1 .. l PROVE new[f.cur + k - 1] = blocks[k]
      OBVIOUS
    <3> DEFINE c == f.cur
               b == c + k - 1
    <3>1. c \in Nat /\ l \in Nat
      BY <1>1, <1>2
    <3> HIDE DEF c
    <3>2. b \in c .. c + l - 1 /\ b - c + 1 = k
      BY <3>1
    <3> HIDE DEF b
    <3>3. new[b] = blocks[b - c + 1]
      BY <3>2 DEF c
    <3> QED
      BY <3>2, <3>3 DEF b, c
  <2> HIDE DEF new, disk
  <2>4. DOMAIN disk = first .. f.cur + l - 1
    BY <1>1, <1>2, <2>1, <2>2
  <2>5. \A b \in DOMAIN f.disk : disk[b] = f.disk[b]
    BY <1>1, <1>2, <2>1, <2>2
  <2>6. \A k \in 1 .. l : f.cur + k - 1 \in DOMAIN new
    BY <1>1, <1>2, <2>1
  <2> QED
    BY <2>2, <2>3, <2>4, <2>5, <2>6
<1> HIDE DEF l, h, disk
<1>5. /\ DOMAIN h = DOMAIN f /\ h.tree = f.tree /\ h.inodes = f.inodes
      /\ h.deleted = f.deleted /\ h.deferred = f.deferred
      /\ h.disk = disk /\ h.cur = f.cur + l
  BY <1>1, <1>3 DEF Fields
<1>6. Wrote(h, f, first)
  <2>1. h.cur \in Nat /\ f.cur <= h.cur
    BY <1>1, <1>2, <1>5
  <2>2. DOMAIN h.disk = Written(h, first)
    <3>1. h.cur - 1 = f.cur + l - 1
      BY <1>1, <1>2, <1>5
    <3>2. DOMAIN h.disk = first .. f.cur + l - 1
      BY <1>4, <1>5
    <3> QED
      BY <3>1, <3>2 DEF Written
  <2> QED
    BY <1>1, <1>4, <1>5, <2>1, <2>2 DEF Wrote, SoundFormatter
<1> QED
  BY <1>4, <1>5, <1>6 DEF h, l

\* A file's blocks and the leaf blocks over them.
LEMMA FileWrote ==
  ASSUME NEW first \in Nat, NEW f, Keeps(f, first), NEW X, NEW data \in Seq(X),
         NEW count, count = Len(data)
  PROVE  LET h == Write(f, data \o Extents(f.cur, count, f.cur + count).blocks)
         IN /\ Wrote(h, f, first)
            /\ \A b \in Area(f.cur, count) : b < h.cur
            /\ TreeOnDisk(f.cur, count, f.cur + count, h.disk)
            /\ \A k \in 1 .. count : h.disk[f.cur + k - 1] = data[k]
            /\ Span(f.cur, count) \subseteq Written(h, first)
PROOF
<1> DEFINE tree == Extents(f.cur, count, f.cur + count).blocks
           w == data \o tree
           h == Write(f, w)
           l == Len(tree)
<1>1. f.cur \in Nat /\ first <= f.cur /\ count \in Nat
  BY DEF Keeps, Owned
<1>2. l \in Nat /\ DOMAIN tree = 1 .. l /\ \E Y : tree \in Seq(Y)
  <2> DEFINE cur == f.cur
             end == cur + count
  <2>1. cur \in Nat /\ end \in Nat
    BY <1>1
  <2> HIDE DEF cur, end
  <2>2. LET b == Extents(cur, count, end).blocks
        IN Len(b) \in Nat /\ DOMAIN b = 1 .. Len(b) /\ \E Y : b \in Seq(Y)
    BY <1>1, <2>1, TreeBlocksAre
  <2> QED
    BY <2>2 DEF cur, end
<1>3. PICK Y : tree \in Seq(Y)
  BY <1>2
<1> HIDE DEF tree
<1>4. /\ w \in Seq(X \cup Y) /\ Len(w) = count + l
      /\ \A k \in 1 .. count : w[k] = data[k]
      /\ \A i \in 1 .. l : w[count + i] = tree[i]
  <2>1. data \in Seq(X \cup Y) /\ tree \in Seq(X \cup Y)
    BY <1>3
  <2>2. /\ w \in Seq(X \cup Y) /\ Len(w) = Len(data) + Len(tree)
        /\ \A k \in 1 .. Len(data) + Len(tree) :
             w[k] = IF k <= Len(data) THEN data[k] ELSE tree[k - Len(data)]
    BY <2>1, ConcatProperties
  <2>3. \A i \in 1 .. l : count + i \in 1 .. Len(data) + Len(tree) /\ count + i - count = i
                          /\ ~(count + i <= count)
    BY <1>1, <1>2
  <2>4. \A k \in 1 .. count : k \in 1 .. Len(data) + Len(tree) /\ k <= Len(data)
    BY <1>1, <1>2
  <2> HIDE DEF w, l
  <2>5. Len(data) = count /\ Len(tree) = l
    BY DEF l
  <2>6. Len(w) = count + l
    BY <2>2, <2>5
  <2>7. \A k \in 1 .. count : w[k] = data[k]
    BY <2>2, <2>4
  <2>8. ASSUME NEW i \in 1 .. l PROVE w[count + i] = tree[i]
    <3> DEFINE k == count + i
    <3>1. k \in 1 .. Len(data) + Len(tree) /\ k - count = i /\ ~(k <= count)
      BY <2>3
    <3> HIDE DEF k
    <3>2. w[k] = IF k <= Len(data) THEN data[k] ELSE tree[k - Len(data)]
      BY <2>2, <3>1
    <3>3. w[k] = tree[k - count]
      BY <2>5, <3>1, <3>2
    <3> QED
      BY <3>1, <3>3 DEF k
  <2> QED
    BY <2>2, <2>6, <2>7, <2>8
<1> HIDE DEF w, l
<1>5. /\ Wrote(h, f, first) /\ h.cur = f.cur + (count + l)
      /\ \A k \in 1 .. count + l : h.disk[f.cur + k - 1] = w[k]
  BY <1>4, WriteIs
<1> HIDE DEF h
<1>6. \A b \in Area(f.cur, count) : b < h.cur
  <2>1. Area(f.cur, count) = f.cur .. f.cur + (count + l) - 1
    BY DEF Area, Span, l, tree
  <2> QED
    BY <1>1, <1>2, <1>5, <2>1
<1>7. TreeOnDisk(f.cur, count, f.cur + count, h.disk)
  <2>1. ASSUME NEW i \in DOMAIN tree PROVE h.disk[f.cur + count + i - 1] = tree[i]
    <3>1. i \in 1 .. l /\ count + i \in 1 .. count + l
      BY <1>1, <1>2
    <3>2. h.disk[f.cur + (count + i) - 1] = w[count + i]
      BY <1>5, <3>1
    <3>3. f.cur + (count + i) - 1 = f.cur + count + i - 1
      BY <1>1, <3>1
    <3> QED
      BY <1>4, <3>1, <3>2, <3>3
  <2> QED
    BY <2>1 DEF TreeOnDisk, tree
<1>8. \A k \in 1 .. count : h.disk[f.cur + k - 1] = data[k]
  <2>1. \A k \in 1 .. count : k \in 1 .. count + l
    BY <1>1, <1>2
  <2> QED
    BY <1>4, <1>5, <2>1
<1>9. Span(f.cur, count) \subseteq Written(h, first)
  BY <1>1, <1>2, <1>5 DEF Span, Written
<1> QED
  BY <1>5, <1>6, <1>7, <1>8, <1>9 DEF h, w, tree

\* Where nothing is written, every block still belongs to what it did.
LEMMA CountKeeps ==
  ASSUME NEW first \in Nat, NEW f, Keeps(f, first), NEW ino, NEW v
  PROVE  LET g == [f EXCEPT !.inodes[ino].links = v]
         IN Keeps(g, first) /\ Len(g.inodes) = Len(f.inodes)
PROOF
<1> DEFINE inodes == [f.inodes EXCEPT ![ino].links = v]
           g == [f EXCEPT !.inodes[ino].links = v]
<1>1. /\ Fields \subseteq DOMAIN f /\ InodesListed(f)
      /\ SoundFormatter(f) /\ Owned(f, first)
  BY DEF Keeps, Owned
<1>2. /\ \E X : inodes \in Seq(X)
      /\ Len(inodes) = Len(f.inodes)
      /\ \A n \in DOMAIN f.inodes :
           Shaped(inodes[n]) /\ SameData(inodes[n], f.inodes[n])
  BY <1>1, LinksChange
<1>3. g = [f EXCEPT !.inodes = inodes]
  BY <1>1 DEF Fields
<1> HIDE DEF g, inodes
<1>4. /\ DOMAIN g = DOMAIN f /\ g.tree = f.tree /\ g.disk = f.disk /\ g.cur = f.cur
      /\ g.inodes = inodes /\ g.deleted = f.deleted /\ g.deferred = f.deferred
  BY <1>1, <1>3 DEF Fields
<1>5. InodesListed(g)
  <2>1. PICK X : f.inodes \in Seq(X)
    BY <1>1 DEF InodesListed
  <2>2. PICK Y : inodes \in Seq(Y)
    BY <1>2
  <2>3. DOMAIN inodes = DOMAIN f.inodes
    BY <1>2, <2>1, <2>2
  <2> QED
    BY <1>1, <1>2, <1>4, <2>3 DEF InodesListed
<1>6. FreesOnly(g, f)
  BY <1>4, FreesNothing
<1>7. \A j \in DOMAIN f.tree.nodes : SameNode(f.tree.nodes[j], f.tree.nodes[j])
  BY DEF SameNode
<1>8. Owned(g, first)
  BY <1>1, <1>2, <1>4, <1>5, <1>6, <1>7, OwnedStill
<1>9. SoundFormatter(g)
  BY <1>1, <1>4 DEF SoundFormatter
<1> QED
  BY <1>2, <1>4, <1>8, <1>9 DEF Keeps, g

\* A new inode and its node, the data of the inode being what was written.
LEMMA RegisterKeeps ==
  ASSUME NEW first \in Nat, NEW f, Keeps(f, first), NEW h, Wrote(h, f, first),
         NEW p \in DOMAIN f.tree.nodes, NEW name \in DOMAIN NameBytes,
         NEW inode, Shaped(inode), NEW count, HasData(inode, f.cur, count, h.cur, h.disk),
         NEW blocks, blocks \subseteq Written(h, first), \A b \in blocks : f.cur <= b
  PROVE  Keeps(Register(h, p, name, inode, blocks), first)
PROOF
<1> DEFINE g == Register(h, p, name, inode, blocks)
           up == h.tree.nodes[p].inode
           more == IF IsDir(inode)
                      THEN [h.inodes EXCEPT ![up].links = h.inodes[up].links + 1]
                   ELSE h.inodes
           new == IF inode.owner = "inherit"
                  THEN [inode EXCEPT !.owner = h.inodes[up].owner] ELSE inode
           inodes == Append(more, new)
           x == Len(h.inodes) + 1
           u == AddChild(h.tree, p, Node(x, name, blocks, 0))
<1>1. Keeps(h, first)
  BY WroteKeeps
<1>2. CASE h.inodes[up].links >= MaxLinks
  <2>1. g = Fails(h, "MaximumLinksExceeded")
    BY <1>2 DEF Register
  <2> HIDE DEF g
  <2> QED
    BY <1>1, <2>1, FailsKeeps DEF g
<1>3. CASE ~(h.inodes[up].links >= MaxLinks)
  <2>1. g = [h EXCEPT !.inodes = inodes, !.tree = u]
    BY <1>3 DEF Register
  <2>2. /\ Fields \subseteq DOMAIN h /\ InodesListed(h)
        /\ Len(h.inodes) \in Nat /\ DOMAIN h.inodes = 1 .. Len(h.inodes)
        /\ h.inodes = f.inodes /\ h.tree = f.tree /\ Sound(h.tree) /\ p \in DOMAIN h.tree.nodes
        /\ Len(h.inodes) >= FirstInode - 1
    <3>1. Fields \subseteq DOMAIN h /\ InodesListed(h) /\ Sound(h.tree)
      BY <1>1 DEF Keeps, Owned, SoundFormatter
    <3>2. h.inodes = f.inodes /\ h.tree = f.tree
      BY DEF Wrote
    <3> QED
      BY <3>1, <3>2, InodesAre DEF InodesListed
  <2>3. /\ \E X : more \in Seq(X)
        /\ Len(more) = Len(h.inodes)
        /\ \A n \in DOMAIN h.inodes :
             Shaped(more[n]) /\ SameData(more[n], h.inodes[n])
    <3>1. CASE IsDir(inode)
      <4> DEFINE l == h.inodes[up].links + 1
                 ch == [h.inodes EXCEPT ![up].links = l]
      <4>1. more = ch
        BY <3>1
      <4> HIDE DEF l, more, up
      <4>2. /\ \E X : ch \in Seq(X)
            /\ Len(ch) = Len(h.inodes)
            /\ \A n \in DOMAIN h.inodes :
                 Shaped(ch[n]) /\ SameData(ch[n], h.inodes[n])
        BY <2>2, LinksChange
      <4> QED
        BY <4>1, <4>2
    <3>2. CASE ~IsDir(inode)
      <4>1. more = h.inodes
        BY <3>2
      <4> HIDE DEF more
      <4> QED
        BY <2>2, <4>1 DEF InodesListed, SameData
    <3> QED
      BY <3>1, <3>2
  <2>4. Shaped(new) /\ SameData(new, inode)
    <3>1. CASE inode.owner = "inherit"
      <4> DEFINE o == h.inodes[up].owner
      <4>1. new = [inode EXCEPT !.owner = o]
        BY <3>1
      <4> HIDE DEF o, new
      <4> QED
        BY <4>1 DEF Shaped, SameData
    <3>2. CASE ~(inode.owner = "inherit")
      <4>1. new = inode
        BY <3>2
      <4> QED
        BY <4>1 DEF SameData
    <3> QED
      BY <3>1, <3>2
  <2> HIDE DEF more, new
  <2>5. /\ \E Y : inodes \in Seq(Y)
        /\ Len(inodes) = x /\ DOMAIN inodes = 1 .. x
        /\ \A k \in 1 .. Len(h.inodes) : inodes[k] = more[k]
        /\ inodes[x] = new
    <3>1. PICK X : more \in Seq(X)
      BY <2>3
    <3>2. LET a == Append(more, new)
          IN /\ \E Y : a \in Seq(Y)
             /\ Len(more) \in Nat /\ Len(a) = Len(more) + 1 /\ DOMAIN a = 1 .. Len(more) + 1
             /\ \A k \in 1 .. Len(more) : a[k] = more[k]
             /\ a[Len(more) + 1] = new
      BY <3>1, AppendIs
    <3> HIDE DEF inodes
    <3> QED
      BY <2>3, <3>2 DEF inodes
  <2>6. LET i == Len(h.tree.nodes) + 1
        IN /\ DOMAIN u.nodes = DOMAIN h.tree.nodes \cup {i} /\ i # Root
           /\ \A j \in DOMAIN h.tree.nodes : SameNode(u.nodes[j], h.tree.nodes[j])
           /\ SameNode(u.nodes[i], Node(x, name, blocks, 0))
    <3> HIDE DEF x
    <3> QED
      BY <2>2, AddChildKeeps
  <2> HIDE DEF inodes, u, x
  <2>7. /\ DOMAIN g = DOMAIN h /\ g.tree = u /\ g.inodes = inodes /\ g.disk = h.disk
        /\ g.cur = h.cur /\ g.deleted = h.deleted /\ g.deferred = h.deferred
    <3> HIDE DEF g
    <3> QED
      BY <2>1, <2>2 DEF Fields
  <2> HIDE DEF g
  <2>8. SoundFormatter(g)
    <3>1. SoundFormatter(h)
      BY DEF Wrote
    <3> QED
      BY <3>1, <2>2, RegisterSound DEF Grown, g
  <2>9. x \in Nat /\ x = Len(h.inodes) + 1
    BY <2>2 DEF x
  <2>10. InodesListed(g)
    <3>1. ASSUME NEW n \in DOMAIN g.inodes PROVE Shaped(g.inodes[n])
      <4>1. CASE n = x
        BY <2>4, <2>5, <2>7, <4>1 DEF Shaped
      <4>2. CASE n # x
        <5>1. n \in 1 .. Len(h.inodes)
          BY <2>2, <2>5, <2>7, <2>9, <4>2
        <5> QED
          BY <2>2, <2>3, <2>5, <2>7, <5>1
      <4> QED
        BY <4>1, <4>2
    <3>2. Len(g.inodes) >= FirstInode - 1
      BY <2>2, <2>5, <2>7, <2>9 DEF FirstInode
    <3> QED
      BY <2>5, <2>7, <3>1, <3>2 DEF InodesListed
  <2>11. Writes(f, g, x, count)
    <3>1. /\ f.cur \in Nat /\ g.cur \in Nat /\ f.cur <= g.cur
          /\ \A b \in DOMAIN f.disk : g.disk[b] = f.disk[b]
      BY <2>7 DEF Keeps, Owned, Wrote
    <3>2. ASSUME NEW n \in DOMAIN g.inodes \ {x}
          PROVE  n \in DOMAIN f.inodes /\ SameData(g.inodes[n], f.inodes[n])
      <4>1. n \in 1 .. Len(h.inodes)
        BY <2>2, <2>5, <2>7, <2>9
      <4> QED
        BY <2>2, <2>3, <2>5, <2>7, <4>1
    <3>3. Holds(g, x, f.cur, count)
      <4>1. SameData(g.inodes[x], inode)
        BY <2>4, <2>5, <2>7
      <4> QED
        BY <2>7, <4>1 DEF Holds, HasData, SameData
    <3> QED
      BY <3>1, <3>2, <3>3 DEF Writes
  <2>12. \A i \in DOMAIN g.tree.nodes :
           \/ i \in DOMAIN f.tree.nodes /\ SameNode(g.tree.nodes[i], f.tree.nodes[i])
           \/ NewNode(g, f, first, x, i)
    <3> SUFFICES ASSUME NEW i \in DOMAIN g.tree.nodes, i \notin DOMAIN f.tree.nodes
                 PROVE  NewNode(g, f, first, x, i)
      BY <2>2, <2>6, <2>7
    <3>1. i # Root /\ SameNode(g.tree.nodes[i], Node(x, name, blocks, 0))
      BY <2>2, <2>6, <2>7
    <3>2. /\ g.tree.nodes[i].inode = x /\ g.tree.nodes[i].link = 0
          /\ g.tree.nodes[i].name = name /\ g.tree.nodes[i].blocks = blocks
      BY <3>1 DEF SameNode, Node
    <3>3. x \in DOMAIN g.inodes
      BY <2>5, <2>7, <2>9, <2>2
    <3>4. Written(g, first) = Written(h, first)
      BY <2>7 DEF Written
    <3>5. NodeOwned(g, first, i)
      BY <3>1, <3>2, <3>3, <3>4 DEF NodeOwned
    <3> QED
      BY <3>2, <3>5 DEF NewNode, Refers
  <2>13. FreesOnly(g, f)
    BY <2>7, FreesNothing DEF Wrote
  <2>14. Fields \subseteq DOMAIN g /\ DOMAIN g.disk = Written(g, first)
         /\ Len(f.inodes) <= Len(g.inodes)
    BY <2>2, <2>5, <2>7, <2>9 DEF Wrote, Written
  <2>15. Owned(g, first)
    BY <2>10, <2>11, <2>12, <2>13, <2>14, OwnedStep DEF Keeps
  <2> QED
    BY <2>8, <2>15 DEF Keeps, g
<1> QED
  BY <1>2, <1>3

\* What an entry says of a file that create() makes.
Makes(e) ==
  /\ e.kind \in {"dir", "file", "symlink"} /\ e.size \in Nat
  /\ e.kind = "file" => e.data = <<e.time>>

\* An entry below p.
LEMMA AddKeeps ==
  ASSUME NEW first \in Nat, NEW f, Keeps(f, first), NEW p \in DOMAIN f.tree.nodes,
         NEW name \in DOMAIN NameBytes, NEW e, Makes(e)
  PROVE  Keeps(Add(f, p, name, e), first)
PROOF
<1> DEFINE g == Add(f, p, name, e)
           fresh == Fresh(e)
<1>1. f.cur \in Nat /\ first <= f.cur
  BY DEF Keeps, Owned
<1>2. /\ DOMAIN fresh = {"kind", "mode", "owner", "time", "links", "root", "size",
                         "target", "dtime"}
      /\ fresh.kind = e.kind /\ fresh.root = NoExtents /\ fresh.size = 0
      /\ fresh.time = e.time
  BY DEF Fresh, Unused
<1> HIDE DEF fresh
<1>3. CASE e.kind = "dir"
  <2> DEFINE inode == [fresh EXCEPT !.links = 2]
  <2>1. g = Register(f, p, name, inode, {})
    BY <1>3 DEF Add, fresh
  <2>2. Shaped(inode) /\ inode.kind = "dir" /\ inode.root = NoExtents
    BY <1>2, <1>3 DEF Shaped
  <2> HIDE DEF inode, g
  <2>3. HasData(inode, f.cur, 0, f.cur, f.disk)
    <3>1. NoData(inode)
      BY <2>2 DEF NoData
    <3> QED
      BY <1>1, <3>1, NoDataHolds
  <2>4. Wrote(f, f, first)
    BY NothingWrote
  <2> QED
    BY <2>1, <2>2, <2>3, <2>4, RegisterKeeps DEF g
<1>4. CASE e.kind # "dir" /\ e.kind = "file" /\ e.size > MaxFileSize
  <2>1. \E why : g = Fails(f, why)
    BY <1>4 DEF Add
  <2> HIDE DEF g
  <2> QED
    BY <2>1, FailsKeeps DEF g
<1>5. CASE e.kind # "dir" /\ ~(e.kind = "file" /\ e.size > MaxFileSize)
  <2> DEFINE count == IF e.kind = "symlink" /\ e.size < InlineBytes THEN 0
                      ELSE CeilDiv(e.size, BlockSize)
             data == [k \in 1 .. count |-> <<e.data, k>>]
             tree == Extents(f.cur, count, f.cur + count)
             h == Write(f, data \o tree.blocks)
             target == IF e.kind = "symlink" /\ count = 0 THEN e.data ELSE <<>>
             inode == [fresh EXCEPT !.root = tree.root, !.size = e.size, !.target = target]
  <2>1. g = Register(h, p, name, inode, Span(f.cur, count))
    BY <1>5 DEF Add, WithData, fresh
  <2>2. /\ count \in Nat
        /\ e.kind = "file" => count = CeilDiv(e.size, BlockSize)
    <3>1. BlockSize \in Nat \ {0}
      BY BlockSizeAssumption
    <3>2. CeilDiv(e.size, BlockSize) \in Nat
      BY <3>1, CutPoints DEF Makes
    <3> QED
      BY <3>2
  <2>3. /\ DOMAIN inode = DOMAIN fresh /\ inode.kind = e.kind /\ inode.size = e.size
        /\ inode.root = tree.root /\ inode.time = e.time
    <3> HIDE DEF target, tree
    <3> QED
      BY <1>2
  <2> HIDE DEF inode, count
  <2>4. data \in Seq({<<e.data, k>> : k \in Nat}) /\ Len(data) = count
    <3> DEFINE X == {<<e.data, k>> : k \in Nat}
    <3>1. \A k \in 1 .. count : <<e.data, k>> \in X
      BY <2>2
    <3> HIDE DEF X
    <3>2. [k \in 1 .. count |-> <<e.data, k>>] \in Seq(X)
      BY <2>2, <3>1
    <3>3. Len([k \in 1 .. count |-> <<e.data, k>>]) = count
      BY <2>2
    <3> QED
      BY <3>2, <3>3 DEF X
  <2>8. \A k \in 1 .. count : data[k] = <<e.data, k>>
    OBVIOUS
  <2> HIDE DEF data
  <2>5. /\ Wrote(h, f, first)
        /\ \A b \in Area(f.cur, count) : b < h.cur
        /\ TreeOnDisk(f.cur, count, f.cur + count, h.disk)
        /\ Span(f.cur, count) \subseteq Written(h, first)
    BY <2>4, FileWrote
  <2>10. \A b \in Span(f.cur, count) : f.cur <= b
    BY <1>1, <2>2 DEF Span
  <2>9. \A k \in 1 .. count : h.disk[f.cur + k - 1] = data[k]
    BY <2>4, FileWrote
  <2>6. HasData(inode, f.cur, count, h.cur, h.disk)
    <3>1. inode.kind = "file" => inode.size \in Nat /\ count = CeilDiv(inode.size, BlockSize)
      BY <2>2, <2>3 DEF Makes
    <3>4. ASSUME inode.kind = "file", NEW k \in 1 .. count
          PROVE  h.disk[f.cur + k - 1] = <<<<inode.time>>, k>>
      <4>1. e.data = <<inode.time>>
        BY <2>3, <3>4 DEF Makes
      <4> HIDE DEF h
      <4> QED
        BY <2>8, <2>9, <4>1
    <3>2. inode.kind # "dir"
      BY <1>5, <2>3
    <3>3. inode.root = Extents(f.cur, count, f.cur + count).root
      BY <2>3
    <3> HIDE DEF h
    <3> QED
      BY <1>1, <2>2, <2>5, <3>1, <3>2, <3>3, <3>4 DEF HasData
  <2>7. Shaped(inode)
    BY <1>2, <2>3 DEF Shaped
  <2> HIDE DEF g, h
  <2> QED
    BY <2>1, <2>5, <2>6, <2>7, <2>10, RegisterKeeps DEF g
<1> QED
  BY <1>3, <1>4, <1>5

\* The parents that are missing.
LEMMA MakeParentsKeeps ==
  ASSUME NEW first \in Nat, NEW path \in Seq(DOMAIN NameBytes), path # <<>>,
         NEW f, Keeps(f, first)
  PROVE  Keeps(MakeParents(f, path), first)
PROOF
<1> DEFINE h == MakeParents(f, path)
<1>1. \/ h = Fails(f, "NotDirectory")
      \/ \E n, g : ParentsMade(f, path, n, g) /\ h = g[n]
  BY MakeParentsSteps DEF Keeps
<1> HIDE DEF h
<1>2. CASE h = Fails(f, "NotDirectory")
  BY <1>2, FailsKeeps DEF h
<1>3. CASE \E n, g : ParentsMade(f, path, n, g) /\ h = g[n]
  <2>1. PICK n, g : ParentsMade(f, path, n, g) /\ h = g[n]
    BY <1>3
  <2>2. /\ n \in Nat /\ g[0] = f
        /\ \A m \in 1 .. n : SoundFormatter(g[m - 1]) /\ MadeFrom(g[m], g[m - 1], path)
    BY <2>1 DEF ParentsMade
  <2> DEFINE P == {m \in 0 .. n : Keeps(g[m], first)}
  <2>3. 0 \in P
    BY <2>2
  <2>4. Makes(Implied)
    BY DEF Makes, Implied
  <2>5. \A x \in 1 .. Len(path) : path[x] \in DOMAIN NameBytes
    OBVIOUS
  <2>6. ASSUME NEW m \in 1 .. n, m - 1 \in P PROVE m \in P
    <3> DEFINE a == g[m - 1]
    <3>1. Keeps(a, first) /\ MadeFrom(g[m], a, path)
      BY <2>2, <2>6
    <3> HIDE DEF a
    <3>2. CASE g[m] = a
      BY <3>1, <3>2
    <3>3. CASE g[m] # a
      <4>1. PICK p \in DOMAIN a.tree.nodes, x \in 1 .. Len(path) :
              g[m] = Add(a, p, path[x], Implied)
        BY <3>1, <3>3 DEF MadeFrom
      <4> DEFINE name == path[x]
      <4>2. name \in DOMAIN NameBytes
        BY <2>5
      <4> HIDE DEF name
      <4>3. Keeps(Add(a, p, name, Implied), first)
        BY <2>4, <3>1, <4>2, AddKeeps
      <4> QED
        BY <4>1, <4>3 DEF name
    <3> QED
      BY <3>2, <3>3
  <2>7. 0 .. n \subseteq P
    <3> HIDE DEF P
    <3> QED
      BY <2>2, <2>3, <2>6, Making!Upwards
  <2> QED
    BY <2>1, <2>2, <2>7 DEF h
<1> QED
  BY <1>1, <1>2, <1>3

\* A directory that is told of again takes a mode and an owner.
LEMMA RestateKeeps ==
  ASSUME NEW first \in Nat, NEW f, Keeps(f, first), NEW i, NEW e
  PROVE  Keeps(Restate(f, i, e), first)
PROOF
<1> DEFINE ino == f.tree.nodes[i].inode
           a == [f.inodes EXCEPT ![ino].mode = e.mode]
           inodes == [a EXCEPT ![ino].owner = e.owner]
           g == Restate(f, i, e)
<1>1. /\ Fields \subseteq DOMAIN f /\ InodesListed(f)
      /\ SoundFormatter(f) /\ Owned(f, first)
  BY DEF Keeps, Owned
<1>2. CASE e.owner = "inherit"
  BY <1>2 DEF Restate
<1>3. CASE e.owner # "inherit"
  <2>1. g = [f EXCEPT !.inodes = inodes]
    <3> DEFINE x == [f EXCEPT !.inodes[ino].mode = e.mode]
    <3>1. g = [x EXCEPT !.inodes[ino].owner = e.owner]
      BY <1>3 DEF Restate
    <3>2. x = [f EXCEPT !.inodes = a]
      BY <1>1 DEF Fields
    <3> HIDE DEF x, ino, a, g
    <3>3. x.inodes = a
      BY <1>1, <3>2 DEF Fields
    <3>4. g = [x EXCEPT !.inodes = inodes]
      BY <3>1, <3>3
    <3> QED
      BY <1>1, <3>2, <3>4 DEF Fields
  <2>2. \A n \in DOMAIN f.inodes : Shaped(f.inodes[n])
    BY <1>1 DEF InodesListed
  <2>3. /\ DOMAIN inodes = DOMAIN f.inodes
        /\ \A n \in DOMAIN f.inodes : Shaped(inodes[n]) /\ SameData(inodes[n], f.inodes[n])
    <3> HIDE DEF ino
    <3>1. /\ DOMAIN a = DOMAIN f.inodes
          /\ \A n \in DOMAIN f.inodes : Shaped(a[n]) /\ SameData(a[n], f.inodes[n])
      BY <2>2 DEF Shaped, SameData
    <3> HIDE DEF a
    <3>2. /\ DOMAIN inodes = DOMAIN a
          /\ \A n \in DOMAIN a : Shaped(inodes[n]) /\ SameData(inodes[n], a[n])
      BY <3>1 DEF Shaped, SameData
    <3> QED
      BY <3>1, <3>2 DEF SameData
  <2>4. (\E Y : inodes \in Seq(Y)) /\ Len(inodes) = Len(f.inodes)
    <3>1. PICK X : f.inodes \in Seq(X)
      BY <1>1 DEF InodesListed
    <3>2. inodes = [n \in DOMAIN f.inodes |-> inodes[n]]
      <4>1. DOMAIN a = DOMAIN f.inodes
        OBVIOUS
      <4>2. inodes = [n \in DOMAIN a |-> inodes[n]]
        <5> HIDE DEF a
        <5> QED
          OBVIOUS
      <4> HIDE DEF inodes, a
      <4> QED
        BY <4>1, <4>2
    <3> HIDE DEF inodes
    <3> QED
      BY <3>1, <3>2, ListAgain
  <2> HIDE DEF inodes, g
  <2>5. /\ DOMAIN g = DOMAIN f /\ g.tree = f.tree /\ g.disk = f.disk /\ g.cur = f.cur
        /\ g.inodes = inodes /\ g.deleted = f.deleted /\ g.deferred = f.deferred
    BY <1>1, <2>1 DEF Fields
  <2>6. InodesListed(g)
    BY <1>1, <2>3, <2>4, <2>5 DEF InodesListed
  <2>7. FreesOnly(g, f)
    BY <2>5, FreesNothing
  <2>8. \A j \in DOMAIN f.tree.nodes : SameNode(f.tree.nodes[j], f.tree.nodes[j])
    BY DEF SameNode
  <2>9. Owned(g, first)
    BY <1>1, <2>3, <2>4, <2>5, <2>6, <2>7, <2>8, OwnedStill
  <2>10. SoundFormatter(g)
    BY <1>1, <2>5 DEF SoundFormatter
  <2> QED
    BY <2>9, <2>10 DEF Keeps, g
<1> QED
  BY <1>2, <1>3

\* The last of a path is one of its names.
LEMMA LastIs ==
  ASSUME NEW S, NEW path \in Seq(S), path # <<>>
  PROVE  Last(path) \in S
PROOF
<1>1. Len(path) \in Nat /\ Len(path) # 0 /\ \A k \in 1 .. Len(path) : path[k] \in S
  OBVIOUS
<1>2. Len(path) \in 1 .. Len(path)
  BY <1>1
<1> QED
  BY <1>1, <1>2 DEF Last

\* create()
LEMMA CreateKeeps ==
  ASSUME NEW first \in Nat, NEW path \in Seq(DOMAIN NameBytes), NEW f, Keeps(f, first),
         NEW e, Makes(e), path # <<>> \/ e.kind = "dir"
  PROVE  Keeps(Create(f, path, e), first)
PROOF
<1> DEFINE i == Lookup(f.tree, path)
           over == i # 0 /\ IsDir(InodeAt(f, i))
           g == MakeParents(Unlink(f, path, FALSE), path)
<1>s. SoundFormatter(f)
  BY DEF Keeps
<1>1. CASE e.kind = "dir" /\ over
  <2>1. Create(f, path, e) = Restate(f, i, e)
    BY <1>1 DEF Create
  <2> QED
    BY <2>1, RestateKeeps
<1>2. CASE e.kind = "dir" /\ ~over /\ i # 0
  <2>1. Create(f, path, e) = Fails(f, "NotDirectory")
    BY <1>2 DEF Create
  <2> QED
    BY <2>1, FailsKeeps
<1>3. CASE /\ ~(e.kind = "dir" /\ i # 0)
           /\ over /\ e.kind # "symlink" /\ f.tree.nodes[i].link = 0
  <2>1. Create(f, path, e) = Fails(f, "NotFile")
    BY <1>3 DEF Create
  <2> QED
    BY <2>1, FailsKeeps
<1>4. CASE /\ ~(e.kind = "dir" /\ i # 0)
           /\ ~(over /\ e.kind # "symlink" /\ f.tree.nodes[i].link = 0)
  <2>1. path # <<>>
    <3>1. path = <<>> => i = Root
      BY <1>s, LookupNode DEF SoundFormatter
    <3> QED
      BY <1>4, <3>1 DEF Root
  <2>2. Keeps(Unlink(f, path, FALSE), first)
    BY <2>1, UnlinkKeeps
  <2>3. SoundFormatter(g) /\ (g.err = "" => Lookup(g.tree, Front(path)) # 0)
    BY <2>1, <2>2, MakeParentsSound DEF Keeps
  <2>k. Keeps(g, first)
    BY <2>1, <2>2, MakeParentsKeeps
  <2> HIDE DEF g
  <2>4. CASE g.err # ""
    <3>1. Create(f, path, e) = g
      BY <1>4, <2>4 DEF Create, g
    <3> QED
      BY <2>k, <3>1
  <2>5. CASE g.err = ""
    <3> DEFINE p == Lookup(g.tree, Front(path))
               name == Last(path)
    <3>1. Create(f, path, e) = Add(g, p, name, e)
      BY <1>4, <2>5 DEF Create, g
    <3>2. p \in DOMAIN g.tree.nodes
      <4>1. Front(path) \in Seq(DOMAIN NameBytes)
        BY <2>1, FrontIs
      <4> QED
        BY <4>1, <2>3, <2>5, LookupNode DEF SoundFormatter
    <3>3. name \in DOMAIN NameBytes
      BY <2>1, LastIs
    <3> HIDE DEF p, name
    <3>4. Keeps(Add(g, p, name, e), first)
      BY <2>k, <3>2, <3>3, AddKeeps
    <3> QED
      BY <3>1, <3>4
  <2> QED
    BY <2>4, <2>5
<1> QED
  BY <1>1, <1>2, <1>3, <1>4

\* link()
LEMMA LinkKeeps ==
  ASSUME NEW first \in Nat, NEW path \in Seq(DOMAIN NameBytes), path # <<>>,
         NEW target \in Seq(DOMAIN NameBytes), NEW f, Keeps(f, first)
  PROVE  Keeps(Link(f, path, target), first)
PROOF
<1> DEFINE i == Lookup(f.tree, target)
           ino == f.tree.nodes[i].inode
           h == [f EXCEPT !.inodes[ino].links = @ + 1]
           g == Unlink(h, path, FALSE)
           p == Lookup(g.tree, Front(path))
<1>1. Keeps(h, first) /\ Len(h.inodes) = Len(f.inodes)
  <2> DEFINE v == f.inodes[ino].links + 1
  <2>1. h = [f EXCEPT !.inodes[ino].links = v]
    OBVIOUS
  <2> HIDE DEF h, v, ino
  <2> QED
    BY <2>1, CountKeeps
<1>2. Keeps(g, first) /\ Len(g.inodes) = Len(h.inodes)
  <2> HIDE DEF h
  <2> QED
    BY <1>1, UnlinkKeeps
<1>3. CASE \/ i = 0 \/ IsDir(InodeAt(f, i)) \/ p = 0 \/ InodeAt(g, p).links >= MaxLinks
  <2>1. \E why : Link(f, path, target) = Fails(f, why) \/ Link(f, path, target) = Fails(g, why)
    <3> HIDE DEF g, p, i, ino
    <3> QED
      BY <1>3 DEF Link, g, h, p, i, ino
  <2> HIDE DEF g
  <2> QED
    BY <1>2, <2>1, FailsKeeps
<1>4. CASE ~ \/ i = 0 \/ IsDir(InodeAt(f, i)) \/ p = 0 \/ InodeAt(g, p).links >= MaxLinks
  <2> DEFINE name == Last(path)
             u == AddChild(g.tree, p, Node(RootInode, name, {}, ino))
             z == [g EXCEPT !.tree = u]
  <2>1. Link(f, path, target) = z
    BY <1>4 DEF Link
  <2>2. p \in DOMAIN g.tree.nodes
    <3>1. Front(path) \in Seq(DOMAIN NameBytes)
      BY FrontIs
    <3>2. SoundFormatter(g)
      BY <1>2 DEF Keeps
    <3> HIDE DEF g
    <3> QED
      BY <3>2, <1>4, <3>1, LookupNode DEF SoundFormatter
  <2>3. ino \in DOMAIN f.inodes
    <3>1. i \in DOMAIN f.tree.nodes
      BY <1>4, LookupNode DEF Keeps, SoundFormatter
    <3> HIDE DEF i
    <3> QED
      BY <3>1 DEF Keeps, Owned, NodeOwned
  <2>4. name \in DOMAIN NameBytes
    BY LastIs
  <2> HIDE DEF g, h, p, ino, name
  <2>5. /\ Fields \subseteq DOMAIN g /\ InodesListed(g)
        /\ SoundFormatter(g) /\ Owned(g, first) /\ Sound(g.tree)
    BY <1>2 DEF Keeps, Owned, SoundFormatter
  <2>6. ino \in DOMAIN g.inodes /\ RootInode \in DOMAIN g.inodes
    <3>1. Len(g.inodes) \in Nat /\ DOMAIN g.inodes = 1 .. Len(g.inodes)
          /\ Len(g.inodes) >= FirstInode - 1
      BY <2>5, InodesAre DEF InodesListed
    <3>2. DOMAIN f.inodes = 1 .. Len(f.inodes)
      BY InodesAre DEF Keeps, Owned
    <3> QED
      BY <1>1, <1>2, <2>3, <3>1, <3>2 DEF RootInode, FirstInode
  <2>7. LET j == Len(g.tree.nodes) + 1
        IN /\ DOMAIN u.nodes = DOMAIN g.tree.nodes \cup {j} /\ j # Root
           /\ \A k \in DOMAIN g.tree.nodes : SameNode(u.nodes[k], g.tree.nodes[k])
           /\ SameNode(u.nodes[j], Node(RootInode, name, {}, ino))
    BY <2>2, <2>5, AddChildKeeps
  <2>8. Sound(u)
    BY <2>2, <2>5, AddChildSound
  <2> HIDE DEF u
  <2>9. /\ DOMAIN z = DOMAIN g /\ z.tree = u /\ z.inodes = g.inodes /\ z.disk = g.disk
        /\ z.cur = g.cur /\ z.deleted = g.deleted /\ z.deferred = g.deferred
    BY <2>5 DEF Fields
  <2> HIDE DEF z
  <2>10. SoundFormatter(z)
    BY <2>5, <2>8, <2>9 DEF SoundFormatter
  <2>11. \A k \in DOMAIN z.tree.nodes :
           \/ k \in DOMAIN g.tree.nodes /\ SameNode(z.tree.nodes[k], g.tree.nodes[k])
           \/ NodeOwned(z, first, k) /\ z.tree.nodes[k].blocks = {}
    <3> SUFFICES ASSUME NEW k \in DOMAIN z.tree.nodes, k \notin DOMAIN g.tree.nodes
                 PROVE  NodeOwned(z, first, k) /\ z.tree.nodes[k].blocks = {}
      BY <2>7, <2>9
    <3>1. k # Root /\ SameNode(z.tree.nodes[k], Node(RootInode, name, {}, ino))
      BY <2>7, <2>9
    <3>2. /\ z.tree.nodes[k].inode = RootInode /\ z.tree.nodes[k].link = ino
          /\ z.tree.nodes[k].name = name /\ z.tree.nodes[k].blocks = {}
      BY <3>1 DEF SameNode, Node
    <3> QED
      BY <2>4, <2>6, <2>9, <3>1, <3>2 DEF NodeOwned
  <2>12. /\ InodesListed(z) /\ FreesOnly(z, g)
         /\ \A n \in DOMAIN g.inodes : SameData(z.inodes[n], g.inodes[n])
    BY <2>5, <2>9, FreesNothing DEF InodesListed, SameData
  <2>13. Owned(z, first)
    BY <2>5, <2>9, <2>11, <2>12, OwnedStill
  <2> QED
    BY <2>1, <2>10, <2>13 DEF Keeps
<1> QED
  BY <1>3, <1>4

\* What with_options() starts from.
LEMMA FirstKeeps ==
  ASSUME NEW b \in Nat
  PROVE  Keeps([tree |-> NewTree(RootInode),
                inodes |-> [n \in 1 .. FirstInode - 1 |->
                              IF n = RootInode THEN RootDir ELSE Unused],
                disk |-> <<>>, cur |-> b, deleted |-> {}, deferred |-> <<>>, err |-> ""], b)
PROOF
<1> DEFINE inodes == [n \in 1 .. FirstInode - 1 |-> IF n = RootInode THEN RootDir ELSE Unused]
           f == [tree |-> NewTree(RootInode), inodes |-> inodes,
                 disk |-> <<>>, cur |-> b, deleted |-> {}, deferred |-> <<>>, err |-> ""]
<1>2. /\ f.tree = NewTree(RootInode) /\ f.inodes = inodes /\ f.disk = <<>> /\ f.cur = b
      /\ f.deleted = {} /\ f.deferred = <<>> /\ {"err"} \cup Fields \subseteq DOMAIN f
  BY DEF Fields
<1>3. SoundFormatter(f)
  BY <1>2, NewTreeSound DEF SoundFormatter, Fields
<1> HIDE DEF f
<1>6. ASSUME NEW n \in 1 .. FirstInode - 1 PROVE Shaped(inodes[n]) /\ NoData(inodes[n])
  <2>1. Shaped(Unused) /\ NoData(Unused)
    BY DEF Shaped, NoData, Unused
  <2>2. Shaped(RootDir) /\ NoData(RootDir)
    BY DEF Shaped, NoData, RootDir, Unused
  <2> QED
    BY <2>1, <2>2
<1>7. /\ \E X : inodes \in Seq(X)
      /\ Len(inodes) = FirstInode - 1 /\ DOMAIN inodes = 1 .. FirstInode - 1
  <2> DEFINE X == {RootDir, Unused}
             n == FirstInode - 1
  <2>1. n \in Nat
    BY DEF FirstInode
  <2>2. \A k \in 1 .. n : inodes[k] \in X
    OBVIOUS
  <2> HIDE DEF X, n
  <2>3. inodes \in Seq(X) /\ Len(inodes) = n /\ DOMAIN inodes = 1 .. n
    BY <2>1, <2>2 DEF n
  <2> QED
    BY <2>3 DEF n
<1> HIDE DEF inodes
<1>8. InodesListed(f)
  BY <1>2, <1>6, <1>7 DEF InodesListed
<1>9. Spans(f, b, [n \in DOMAIN inodes |-> b], [n \in DOMAIN inodes |-> 0])
  <2>1. Area(b, 0) = {}
    BY NoArea
  <2>2. ASSUME NEW n \in DOMAIN inodes PROVE Holds(f, n, b, 0)
    BY <1>2, <1>6, <1>7, NoDataHolds DEF Holds
  <2> QED
    BY <1>2, <2>1, <2>2 DEF Spans
<1>10. ASSUME NEW i \in DOMAIN f.tree.nodes PROVE NodeOwned(f, b, i)
  <2>1. f.tree.nodes = <<Node(RootInode, "/", {}, 0)>>
    BY <1>2 DEF NewTree
  <2>2. i = 1 /\ f.tree.nodes[1] = Node(RootInode, "/", {}, 0)
    BY <2>1
  <2>3. i = Root /\ f.tree.nodes[i].inode = RootInode /\ f.tree.nodes[i].link = 0
        /\ f.tree.nodes[i].blocks = {}
    BY <2>2 DEF Node, Root
  <2>4. RootInode \in DOMAIN f.inodes
    BY <1>2, <1>7 DEF RootInode, FirstInode
  <2> QED
    BY <2>3, <2>4 DEF NodeOwned
<1>11. /\ FreedWritten(f, b) /\ DOMAIN f.disk = Written(f, b)
  <2>1. DOMAIN <<>> = {} /\ b .. b - 1 = {}
    OBVIOUS
  <2> QED
    BY <1>2, <2>1 DEF FreedWritten, Written
<1>12. Owned(f, b)
  <2>1. Apart(f, [n \in DOMAIN inodes |-> b], [n \in DOMAIN inodes |-> 0])
    BY <1>2, NoArea DEF Apart
  <2> QED
    BY <1>2, <1>8, <1>9, <1>10, <1>11, <2>1 DEF Owned
<1>13. Keeps(f, b)
  BY <1>3, <1>12 DEF Keeps
<1> QED
  BY <1>13 DEF f, inodes

\* with_options()
LEMMA NewFormatterKeeps ==
  ASSUME NEW b \in Nat
  PROVE  Keeps(NewFormatter(b), b)
PROOF
<1> DEFINE f == [tree |-> NewTree(RootInode),
                 inodes |-> [n \in 1 .. FirstInode - 1 |->
                               IF n = RootInode THEN RootDir ELSE Unused],
                 disk |-> <<>>, cur |-> b, deleted |-> {}, deferred |-> <<>>, err |-> ""]
           e == [Implied EXCEPT !.mode = "0700", !.time = "epoch"]
           path == <<LostFound>>
<1>1. NewFormatter(b) = Create(f, path, e)
  BY DEF NewFormatter
<1>2. Keeps(f, b)
  BY FirstKeeps
<1>3. path \in Seq(DOMAIN NameBytes) /\ path # <<>>
  <2>1. LostFound \in DOMAIN NameBytes
    BY FormatterAssumption
  <2> QED
    BY <2>1
<1>4. Makes(e)
  BY DEF Makes, Implied
<1> HIDE DEF f, e, path
<1>5. Keeps(Create(f, path, e), b)
  BY <1>2, <1>3, <1>4, CreateKeeps
<1> QED
  BY <1>1, <1>5

\* A directory that is written.
LEMMA CommitDirectoryKeeps ==
  ASSUME NEW first \in Nat, NEW f, Keeps(f, first), NEW i \in DOMAIN f.tree.nodes
  PROVE  /\ Keeps(CommitDirectory(f, i), first)
         /\ DOMAIN CommitDirectory(f, i).tree.nodes = DOMAIN f.tree.nodes
         /\ Len(CommitDirectory(f, i).inodes) = Len(f.inodes)
PROOF
<1> DEFINE ino == f.tree.nodes[i].inode
           g == CommitDirectory(f, i)
<1>1. CASE f.inodes[ino].links = 0 \/ f.tree.nodes[i].link # 0 \/ ~IsDir(f.inodes[ino])
  BY <1>1 DEF CommitDirectory
<1>2. CASE ~(f.inodes[ino].links = 0 \/ f.tree.nodes[i].link # 0 \/ ~IsDir(f.inodes[ino]))
  <2> DEFINE data == Pack(EntriesOf(f, i))
             count == Len(data)
             tree == Extents(f.cur, count, f.cur + count)
             h == Write(f, data \o tree.blocks)
             z == count * BlockSize
             span == Span(f.cur, count)
  <2>1. g = [h EXCEPT !.inodes[ino].root = tree.root, !.inodes[ino].size = z,
                      !.tree.nodes[i].blocks = span]
    BY <1>2 DEF CommitDirectory
  <2>2. /\ Fields \subseteq DOMAIN f /\ InodesListed(f)
        /\ SoundFormatter(f) /\ Sound(f.tree) /\ f.cur \in Nat
        /\ Len(f.inodes) \in Nat /\ DOMAIN f.inodes = 1 .. Len(f.inodes)
        /\ \A j \in DOMAIN f.tree.nodes : NodeOwned(f, first, j)
    BY InodesAre DEF Keeps, Owned, SoundFormatter
  <2>3. NodesNamed(f)
    BY <2>2 DEF NodesNamed, NodeOwned
  <2>4. WellFilled(data) /\ data \in Seq(Seq(Records(Nat)))
    <3>1. EntriesOf(f, i) \in Seq([name : DOMAIN NameBytes, inode : Nat]) /\ EntriesOf(f, i) # <<>>
      BY <2>2, <2>3, EntriesAre
    <3> QED
      BY <3>1, PackWellFilled
  <2> HIDE DEF data
  <2>5. /\ count \in Nat /\ DOMAIN data = 1 .. count
        /\ \A k \in 1 .. count : FullBlock(data[k])
    <3>1. count \in Nat /\ DOMAIN data = 1 .. count
      BY <2>4
    <3> QED
      BY <2>4, <3>1 DEF WellFilled, FullBlock, RecSum
  <2>6. /\ Wrote(h, f, first)
        /\ \A b \in Area(f.cur, count) : b < h.cur
        /\ TreeOnDisk(f.cur, count, f.cur + count, h.disk)
        /\ \A k \in 1 .. count : h.disk[f.cur + k - 1] = data[k]
        /\ span \subseteq Written(h, first)
    BY <2>4, FileWrote
  <2>7. tree.root = Extents(f.cur, count, f.cur + count).root
    OBVIOUS
  <2> DEFINE root == tree.root
  <2> HIDE DEF count, tree, h, z, span
  <2>8. /\ h.inodes = f.inodes /\ h.tree = f.tree /\ Fields \subseteq DOMAIN h
        /\ h.cur \in Nat /\ f.cur <= h.cur /\ DOMAIN h.disk = Written(h, first)
        /\ \A b \in DOMAIN f.disk : h.disk[b] = f.disk[b]
        /\ h.deleted = f.deleted /\ h.deferred = f.deferred
    BY <2>6 DEF Wrote
  <2> DEFINE a == [f.inodes EXCEPT ![ino].root = root]
             inodes == [a EXCEPT ![ino].size = z]
             u == [f.tree EXCEPT !.nodes[i].blocks = span]
  <2>9. g = [h EXCEPT !.inodes = inodes, !.tree = u]
    <3> DEFINE x == [h EXCEPT !.inodes[ino].root = root]
               y == [x EXCEPT !.inodes[ino].size = z]
    <3>1. g = [y EXCEPT !.tree.nodes[i].blocks = span]
      BY <2>1
    <3> HIDE DEF ino, root
    <3>2. x = [h EXCEPT !.inodes = a] /\ x.inodes = a /\ DOMAIN x = DOMAIN h
      BY <2>8 DEF Fields
    <3> HIDE DEF x, a
    <3>3. y = [x EXCEPT !.inodes = inodes] /\ y.inodes = inodes /\ DOMAIN y = DOMAIN h
      BY <2>8, <3>2 DEF Fields
    <3>4. y.tree = h.tree
      BY <2>8, <3>2, <3>3 DEF Fields
    <3> HIDE DEF y, inodes
    <3>5. g = [y EXCEPT !.tree = u]
      BY <2>8, <3>1, <3>3, <3>4 DEF Fields
    <3>6. y = [h EXCEPT !.inodes = inodes]
      BY <2>8, <3>2, <3>3 DEF Fields
    <3> HIDE DEF u, g
    <3> QED
      BY <3>5, <3>6
  <2>10. ino \in DOMAIN f.inodes /\ Shaped(f.inodes[ino]) /\ f.inodes[ino].kind = "dir"
    BY <1>2, <2>2 DEF NodeOwned, InodesListed, IsDir
  <2>11. /\ DOMAIN inodes = DOMAIN f.inodes
         /\ \A n \in DOMAIN f.inodes \ {ino} : inodes[n] = f.inodes[n]
         /\ Shaped(inodes[ino]) /\ inodes[ino].root = root /\ inodes[ino].kind = "dir"
    <3> HIDE DEF ino, root
    <3>1. /\ DOMAIN a = DOMAIN f.inodes
          /\ \A n \in DOMAIN f.inodes \ {ino} : a[n] = f.inodes[n]
          /\ Shaped(a[ino]) /\ a[ino].root = root /\ a[ino].kind = "dir"
      BY <2>10 DEF Shaped
    <3> HIDE DEF a
    <3> QED
      BY <2>10, <3>1 DEF Shaped
  <2>12. (\E Y : inodes \in Seq(Y)) /\ Len(inodes) = Len(f.inodes)
    <3>1. PICK X : f.inodes \in Seq(X)
      BY <2>2 DEF InodesListed
    <3>2. inodes = [n \in DOMAIN f.inodes |-> inodes[n]]
      <4>1. inodes = [n \in DOMAIN a |-> inodes[n]]
        <5> HIDE DEF a
        <5> QED
          OBVIOUS
      <4>2. DOMAIN a = DOMAIN f.inodes
        OBVIOUS
      <4> HIDE DEF inodes, a
      <4> QED
        BY <4>1, <4>2
    <3> HIDE DEF inodes
    <3> QED
      BY <3>1, <3>2, ListAgain
  <2>13. /\ Sound(u) /\ DOMAIN u.nodes = DOMAIN f.tree.nodes
         /\ \A j \in DOMAIN f.tree.nodes \ {i} : SameNode(u.nodes[j], f.tree.nodes[j])
         /\ u.nodes[i].inode = ino /\ u.nodes[i].link = f.tree.nodes[i].link
         /\ u.nodes[i].name = f.tree.nodes[i].name /\ u.nodes[i].blocks = span
    <3>1. Sound(u)
      BY <2>2, BlocksSound
    <3>2. PICK X : WellFormed(X, f.tree)
      BY <2>2 DEF Sound
    <3>3. f.tree.nodes[i] \in Nodes(X)
      BY <3>2 DEF WellFormed, Trees
    <3>4. f.tree = [nodes |-> f.tree.nodes, index |-> f.tree.index]
      BY <2>2, NodesOf
    <3> DEFINE m == [f.tree.nodes EXCEPT ![i].blocks = span]
    <3>5. u.nodes = m
      BY <3>4
    <3>6. /\ DOMAIN m = DOMAIN f.tree.nodes
          /\ \A j \in DOMAIN f.tree.nodes \ {i} : m[j] = f.tree.nodes[j]
          /\ m[i] = [f.tree.nodes[i] EXCEPT !.blocks = span]
      OBVIOUS
    <3> HIDE DEF m, u
    <3> QED
      BY <3>1, <3>3, <3>5, <3>6 DEF Nodes, SameNode
  <2> HIDE DEF inodes, u, g, root
  <2>14. /\ DOMAIN g = DOMAIN h /\ g.tree = u /\ g.inodes = inodes /\ g.disk = h.disk
         /\ g.cur = h.cur /\ g.deleted = f.deleted /\ g.deferred = f.deferred
    BY <2>8, <2>9 DEF Fields
  <2>15. SoundFormatter(g)
    BY <2>6, <2>13, <2>14 DEF Wrote, SoundFormatter
  <2>16. InodesListed(g)
    <3>1. ASSUME NEW n \in DOMAIN inodes PROVE Shaped(inodes[n])
      BY <2>2, <2>11 DEF InodesListed
    <3> QED
      BY <2>2, <2>12, <2>14, <3>1 DEF InodesListed
  <2>17. Writes(f, g, ino, count)
    <3>1. \A n \in DOMAIN g.inodes \ {ino} :
            n \in DOMAIN f.inodes /\ SameData(g.inodes[n], f.inodes[n])
      BY <2>11, <2>14 DEF SameData
    <3>2. Holds(g, ino, f.cur, count)
      <4>1. \A k \in 1 .. count : FullBlock(h.disk[f.cur + k - 1])
        BY <2>5, <2>6
      <4>2. inodes[ino].root = Extents(f.cur, count, f.cur + count).root
        BY <2>7, <2>11 DEF root
      <4>3. HasData(inodes[ino], f.cur, count, h.cur, h.disk)
        BY <2>2, <2>5, <2>6, <2>11, <4>1, <4>2 DEF HasData
      <4> QED
        BY <2>14, <4>3 DEF Holds
    <3> QED
      BY <2>2, <2>8, <2>14, <3>1, <3>2 DEF Writes
  <2>18. Written(g, first) = Written(h, first) /\ Written(f, first) \subseteq Written(g, first)
    BY <2>2, <2>8, <2>14 DEF Written
  <2>19. FreesOnly(g, f)
    BY <2>14, FreesNothing
  <2>20. NewNode(g, f, first, ino, i)
    <3>1. NodeOwned(g, first, i)
      BY <2>2, <2>6, <2>11, <2>13, <2>14, <2>18 DEF NodeOwned
    <3>2. Refers(g, i) = ino
      BY <1>2, <2>13, <2>14 DEF Refers
    <3>3. \A b \in span : f.cur <= b
      BY <2>2, <2>5 DEF Span, span
    <3> QED
      BY <2>13, <2>14, <3>1, <3>2, <3>3 DEF NewNode
  <2>21. /\ Fields \subseteq DOMAIN g /\ DOMAIN g.disk = Written(g, first)
         /\ Len(f.inodes) <= Len(g.inodes)
    BY <2>2, <2>8, <2>12, <2>14, <2>18
  <2>22. \A j \in DOMAIN g.tree.nodes :
           \/ j \in DOMAIN f.tree.nodes /\ SameNode(g.tree.nodes[j], f.tree.nodes[j])
           \/ NewNode(g, f, first, ino, j)
    BY <2>13, <2>14, <2>20
  <2>23. Owned(g, first)
    BY <2>16, <2>17, <2>19, <2>21, <2>22, OwnedStep DEF Keeps
  <2> QED
    BY <2>12, <2>13, <2>14, <2>15, <2>23 DEF Keeps, g
<1> QED
  BY <1>1, <1>2

\* commit_directories()
LEMMA CommitKeeps ==
  ASSUME NEW first \in Nat, NEW f, Keeps(f, first)
  PROVE  Keeps(CommitDirectories(f), first)
PROOF
<1> DEFINE order == Walk(f.tree)
           D == DOMAIN f.tree.nodes
<1>1. CommitDirectories(f) = Committing!Fold(f, f, order)
  BY DEF CommitDirectories, Committing!Fold, CommitIn, FoldLeft, MapThenFoldSet, Max,
         Committing!Largest
<1>2. order \in Seq(D)
  BY WalkNodes DEF Keeps, SoundFormatter
<1> HIDE DEF order, D
<1>3. /\ Len(order) \in Nat /\ DOMAIN order = 1 .. Len(order)
      /\ \A m \in 1 .. Len(order) : order[m] \in D
  BY <1>2
<1>4. PICK g : Committing!Trace(f, f, Len(order), order, g)
  BY <1>3, Committing!FoldTrace
<1>5. /\ g[0] = f /\ Committing!Fold(f, f, order) = g[Len(order)]
      /\ \A m \in 1 .. Len(order) : g[m] = CommitDirectory(g[m - 1], order[m])
  BY <1>4 DEF Committing!Trace, CommitIn
<1> DEFINE Good(h) == Keeps(h, first) /\ DOMAIN h.tree.nodes = D
           P == {m \in 0 .. Len(order) : Good(g[m])}
<1>6. 0 \in P
  BY <1>3, <1>5 DEF D
<1>7. ASSUME NEW m \in 1 .. Len(order), m - 1 \in P PROVE m \in P
  <2>1. Good(g[m - 1])
    BY <1>7
  <2>2. Good(g[m])
    BY <1>3, <1>5, <2>1, CommitDirectoryKeeps
  <2> HIDE DEF Good
  <2> QED
    BY <2>2
<1>8. 0 .. Len(order) \subseteq P
  <2> HIDE DEF P
  <2> QED
    BY <1>3, <1>6, <1>7, Committing!Upwards
<1> QED
  BY <1>1, <1>3, <1>5, <1>8

-----------------------------------------------------------------------------
(* The making of an image.                                                 *)

\* Where the blocks begin that the formatter writes.
First == DescriptorBlocks(size) + 1

\* What is known of the making of an image: every block that was written
\* belongs to an inode or to the directory it was written for, the links that
\* are put off lead somewhere, and what close() wrote, it wrote from that.
BlockInv ==
  /\ source \in DOMAIN Entries /\ size \in Nat
  /\ Keeps(fmt, First)
  /\ pending \in Seq(Links(Paths))
  /\ Finished => image = Closed(fmt.disk, fmt.inodes, Unused, fmt.deleted, fmt.cur, size)

\* The descriptors of an image take some blocks.
LEMMA DescriptorsAre ==
  ASSUME NEW s \in Nat
  PROVE  DescriptorBlocks(s) \in Nat
PROOF
<1>1. BlockSize \in Nat \ {0} /\ BlocksPerGroup \in Nat \ {0} /\ Reserve \in Nat
  BY BlockSizeAssumption, LayoutAssumption
<1>2. PerDescriptorBlock \in Nat \ {0}
  BY BlockSizeAssumption DEF PerDescriptorBlock
<1>3. BlockCount(s) \in Nat
  BY <1>1, CutPoints DEF BlockCount
<1>4. GroupCount(s) \in Nat
  BY <1>1, <1>3, CutPoints DEF GroupCount
<1>5. CeilDiv(GroupCount(s), PerDescriptorBlock) \in Nat
  BY <1>2, <1>4, CutPoints
<1> DEFINE d == CeilDiv(GroupCount(s), PerDescriptorBlock)
<1> HIDE DEF d
<1>6. d * Reserve \in Nat
  BY <1>1, <1>5 DEF d
<1> QED
  BY <1>6 DEF DescriptorBlocks, d

\* They begin somewhere.
LEMMA FirstIs == BlockInv => First \in Nat
PROOF
<1> SUFFICES ASSUME BlockInv PROVE First \in Nat
  OBVIOUS
<1>1. size \in Nat
  BY DEF BlockInv
<1>2. DescriptorBlocks(size) \in Nat
  BY <1>1, DescriptorsAre
<1> QED
  BY <1>2 DEF First

\* A step along a link, and the walk along all of them.
FollowIn(links, path, l) == Follow(links, path)
Following == INSTANCE Folding WITH Op <- FollowIn

\* Following the links leads to a path.
LEMMA ResolvedIs ==
  ASSUME NEW links \in Seq(Links(Paths)), NEW path \in Paths
  PROVE  Resolved(links, path) \in Paths
PROOF
<1>1. Resolved(links, path) = Following!Fold(links, path, links)
  BY DEF Resolved, Following!Fold, FollowIn, FoldLeft, MapThenFoldSet, Max,
         Following!Largest
<1>2. Len(links) \in Nat /\ DOMAIN links = 1 .. Len(links)
  OBVIOUS
<1>3. PICK g : Following!Trace(links, path, Len(links), links, g)
  BY <1>2, Following!FoldTrace
<1>4. /\ g[0] = path /\ Following!Fold(links, path, links) = g[Len(links)]
      /\ \A m \in 1 .. Len(links) : g[m] = Follow(links, g[m - 1])
  BY <1>3 DEF Following!Trace, FollowIn
<1>5. ASSUME NEW p \in Paths PROVE Follow(links, p) \in Paths
  <2>1. CASE LinksAt(links, p) = {}
    BY <2>1 DEF Follow
  <2>2. CASE LinksAt(links, p) # {}
    <3> DEFINE i == CHOOSE i \in LinksAt(links, p) : TRUE
    <3>1. i \in LinksAt(links, p)
      BY <2>2
    <3>2. Follow(links, p) = links[i].target
      BY <2>2 DEF Follow
    <3> HIDE DEF i
    <3>3. i \in DOMAIN links
      BY <3>1 DEF LinksAt
    <3>4. links[i] \in Links(Paths)
      BY <3>3
    <3> QED
      BY <3>2, <3>4 DEF Links
  <2> QED
    BY <2>1, <2>2
<1> DEFINE P == {m \in 0 .. Len(links) : g[m] \in Paths}
<1>6. 0 \in P
  BY <1>2, <1>4
<1>7. ASSUME NEW m \in 1 .. Len(links), m - 1 \in P PROVE m \in P
  BY <1>4, <1>5, <1>7
<1>8. 0 .. Len(links) \subseteq P
  <2> HIDE DEF P
  <2> QED
    BY <1>2, <1>6, <1>7, Following!Upwards
<1> QED
  BY <1>1, <1>2, <1>4, <1>8

\* Other targets for the links that are put off.
LEMMA Retargeted ==
  ASSUME NEW links \in Seq(Links(Paths)), NEW more, more = [i \in DOMAIN links |-> more[i]],
         \A i \in DOMAIN links : more[i].target \in Paths
                                 /\ more[i] = [link |-> links[i].link, target |-> more[i].target]
  PROVE  more \in Seq(Links(Paths))
PROOF
<1>1. Len(links) \in Nat /\ DOMAIN links = 1 .. Len(links)
  OBVIOUS
<1>2. ASSUME NEW i \in 1 .. Len(links) PROVE more[i] \in Links(Paths)
  <2>1. links[i] \in Links(Paths)
    BY <1>1
  <2>2. more[i].target \in Paths
        /\ more[i] = [link |-> links[i].link, target |-> more[i].target]
    BY <1>1
  <2> QED
    BY <2>1, <2>2 DEF Links
<1>3. [i \in 1 .. Len(links) |-> more[i]] \in Seq(Links(Paths))
  BY <1>1, <1>2
<1> QED
  BY <1>1, <1>3

\* The image is finished only by close().
LEMMA NotFinished == ImportTar \/ UnpackLayers => ~Finished'
PROOF
<1>1. ASSUME NEW e, Read(e) PROVE phase = "entries"
  BY <1>1 DEF Read
<1>2. ASSUME NEW g, NEW next, Take(g, next), next \in {"entries", "links"} PROVE ~Finished'
  BY <1>2 DEF Take, Finished
<1>3. ASSUME NEW e, Make(e) PROVE ~Finished'
  BY <1>2, <1>3 DEF Make
<1>4. ImportTar => ~Finished'
  <2>1. ASSUME NEW e, SkipEntry(e) \/ RefuseEntry(e) \/ SkipSpecial(e) \/ DeferLink(e)
        PROVE  ~Finished'
    BY <1>1, <2>1 DEF SkipEntry, RefuseEntry, SkipSpecial, DeferLink, Finished
  <2>2. ASSUME NEW e, MakeEntry(e) PROVE ~Finished'
    BY <1>3, <2>2 DEF MakeEntry
  <2>3. EndOfArchive => ~Finished'
    BY DEF EndOfArchive, Finished
  <2>4. MakeLink => ~Finished'
    BY <1>2 DEF MakeLink
  <2> QED
    BY <2>1, <2>2, <2>3, <2>4 DEF ImportTar
<1>5. UnpackLayers => ~Finished'
  <2>1. ASSUME NEW e, SkipLayerEntry(e) \/ KeepLink(e) PROVE ~Finished'
    BY <1>1, <2>1 DEF SkipLayerEntry, KeepLink, Finished
  <2>2. ASSUME NEW e, Whiteout(e) PROVE ~Finished'
    BY <1>2, <2>2 DEF Whiteout
  <2>3. ASSUME NEW e, MakeLayerEntry(e) PROVE ~Finished'
    BY <1>3, <2>3 DEF MakeLayerEntry
  <2>4. EndOfLayer => ~Finished'
    BY DEF EndOfLayer, Finished
  <2>5. MakeAnyLink => ~Finished'
    BY <1>2 DEF MakeAnyLink
  <2>6. NextLayer => ~Finished'
    BY DEF NextLayer, Finished
  <2> QED
    BY <2>1, <2>2, <2>3, <2>4, <2>5, <2>6 DEF UnpackLayers
<1> QED
  BY <1>4, <1>5

\* The new formatter.
LEMMA BlockInvInit == Init => BlockInv
PROOF
<1> SUFFICES ASSUME Init PROVE BlockInv
  OBVIOUS
<1>1. source \in DOMAIN Entries /\ size \in Nat
  BY ImportAssumption DEF Init
<1>2. First \in Nat
  BY <1>1, DescriptorsAre DEF First
<1>3. Keeps(fmt, First)
  BY <1>2, NewFormatterKeeps DEF Init, First
<1>4. pending \in Seq(Links(Paths))
  BY DEF Init
<1>5. ~Finished
  BY DEF Init, Finished
<1> QED
  BY <1>1, <1>3, <1>4, <1>5 DEF BlockInv

\* An entry of an archive that a file is made of.
LEMMA ToldMakes ==
  ASSUME NEW e \in Entries[source], source \in DOMAIN Entries,
         e.type \in {"dir", "file", "symlink"}, NEW n
  PROVE  Makes(Told(e, n)) /\ Told(e, n).kind = e.type
PROOF
<1>1. e.size \in Nat
  BY ImportAssumption
<1> QED
  BY <1>1 DEF Makes, Told

\* A directory, a file or a symlink.
LEMMA MakeBlocks ==
  ASSUME BlockInv, NEW e, Make(e), source = "tar" => e.path # <<>>
  PROVE  Keeps(fmt, First)'
PROOF
<1>1. e \in Entries[source] /\ e.type \in {"dir", "file", "symlink"}
  BY DEF Make, Read
<1>2. e.path \in Paths /\ (e.path = <<>> => e.type = "dir")
  BY <1>1, EntryPath DEF BlockInv
<1>3. fmt' = Create(fmt, e.path, Told(e, Len(seen) + 1)) /\ size' = size
  BY DEF Make, Take
<1> DEFINE told == Told(e, Len(seen) + 1)
           path == e.path
<1>4. told.kind = e.type /\ Makes(told)
  BY <1>1, ToldMakes DEF BlockInv
<1>5. Keeps(fmt, First) /\ First \in Nat
  BY FirstIs DEF BlockInv
<1>6. path \in Seq(DOMAIN NameBytes) /\ (path # <<>> \/ told.kind = "dir")
  BY <1>2, <1>4 DEF Paths
<1> HIDE DEF told, path
<1>7. Keeps(Create(fmt, path, told), First)
  BY <1>4, <1>5, <1>6, CreateKeeps
<1>8. First' = First
  BY <1>3 DEF First
<1> QED
  BY <1>3, <1>7, <1>8 DEF told, path

\* Every step of write_ext4_from_tar().
LEMMA BlockInvTar == BlockInv /\ ImportTar => BlockInv'
PROOF
<1> SUFFICES ASSUME BlockInv, ImportTar PROVE BlockInv'
  OBVIOUS
<1>0. /\ source \in DOMAIN Entries /\ size \in Nat /\ Keeps(fmt, First)
      /\ pending \in Seq(Links(Paths)) /\ First \in Nat
  BY FirstIs DEF BlockInv
<1>s. source' = source /\ size' = size
  BY DEF ImportTar, SkipEntry, RefuseEntry, SkipSpecial, MakeEntry, Make, DeferLink,
         EndOfArchive, MakeLink
<1>t. First' = First
  BY <1>s DEF First
<1>f. ~Finished'
  BY NotFinished
<1>q. Keeps(fmt, First)' /\ pending' \in Seq(Links(Paths)) => BlockInv'
  BY <1>0, <1>s, <1>f DEF BlockInv
<1>1. ASSUME NEW e \in Entries[source], SkipEntry(e) \/ RefuseEntry(e) \/ SkipSpecial(e)
      PROVE  BlockInv'
  <2>1. fmt' = fmt /\ pending' = pending
    BY <1>1 DEF SkipEntry, RefuseEntry, SkipSpecial
  <2> QED
    BY <1>0, <1>t, <1>q, <2>1
<1>2. ASSUME NEW e \in Entries[source], MakeEntry(e) PROVE BlockInv'
  <2>1. Make(e) /\ e.path # <<>> /\ pending' = pending
    BY <1>2 DEF MakeEntry, Make
  <2> QED
    BY <1>0, <1>q, <2>1, MakeBlocks
<1>3. ASSUME NEW e \in Entries[source], DeferLink(e) PROVE BlockInv'
  <2>1. e.path \in Paths /\ e.path # <<>> /\ fmt' = fmt
    BY <1>0, <1>3, EntryPath DEF DeferLink
  <2>2. e.target \in Paths
    BY <1>0, <1>3, ImportAssumption DEF DeferLink, Paths
  <2> DEFINE l == [link |-> e.path, target |-> e.target]
  <2>3. l \in Links(Paths)
    BY <2>1, <2>2 DEF Links
  <2>4. pending' = pending \/ pending' = Append(pending, l)
    BY <1>3 DEF DeferLink
  <2> HIDE DEF l
  <2>5. pending' \in Seq(Links(Paths))
    BY <1>0, <2>3, <2>4, AppendProperties
  <2> QED
    BY <1>0, <1>t, <1>q, <2>1, <2>5
<1>4. CASE EndOfArchive
  <2>1. fmt' = fmt /\ pending' = pending
    BY <1>4 DEF EndOfArchive
  <2> QED
    BY <1>0, <1>t, <1>q, <2>1
<1>5. CASE MakeLink
  <2>1. pending # <<>> /\ pending' = Tail(pending)
    BY <1>5 DEF MakeLink
  <2>2. Head(pending) \in Links(Paths) /\ Tail(pending) \in Seq(Links(Paths))
    BY <1>0, <2>1
  <2> DEFINE path == Head(pending).link
             target == Head(pending).target
  <2>3. path \in Seq(DOMAIN NameBytes) /\ path # <<>> /\ target \in Seq(DOMAIN NameBytes)
    BY <2>2 DEF Links, Paths
  <2>4. fmt' = Link(fmt, path, target)
    BY <1>5 DEF MakeLink, Take
  <2> HIDE DEF path, target
  <2>5. Keeps(Link(fmt, path, target), First)
    BY <1>0, <2>3, LinkKeeps
  <2> QED
    BY <1>t, <1>q, <2>1, <2>2, <2>4, <2>5
<1> QED
  BY <1>1, <1>2, <1>3, <1>4, <1>5 DEF ImportTar

\* Every step of unpack_tar().
LEMMA BlockInvLayers == BlockInv /\ UnpackLayers => BlockInv'
PROOF
<1> SUFFICES ASSUME BlockInv, UnpackLayers PROVE BlockInv'
  OBVIOUS
<1>0. /\ source \in DOMAIN Entries /\ size \in Nat /\ Keeps(fmt, First)
      /\ pending \in Seq(Links(Paths)) /\ First \in Nat
  BY FirstIs DEF BlockInv
<1>s. source' = source /\ size' = size
  BY DEF UnpackLayers, Whiteout, SkipLayerEntry, MakeLayerEntry, Make, KeepLink,
         EndOfLayer, MakeAnyLink, NextLayer
<1>t. First' = First
  BY <1>s DEF First
<1>f. ~Finished'
  BY NotFinished
<1>q. Keeps(fmt, First)' /\ pending' \in Seq(Links(Paths)) => BlockInv'
  BY <1>0, <1>s, <1>f DEF BlockInv
<1>i. \A i \in DOMAIN pending : /\ pending[i] \in Links(Paths)
                                /\ pending[i].link \in Paths \ {<<>>}
                                /\ pending[i].target \in Paths
  <2>1. TAKE i \in DOMAIN pending
  <2>2. pending[i] \in Links(Paths)
    BY <1>0
  <2> QED
    BY <2>2 DEF Links
<1>1. ASSUME NEW e \in Entries[source], Whiteout(e) PROVE BlockInv'
  <2> DEFINE path == e.path
             opaque == e.type = "opaque"
  <2>1. fmt' = Unlink(fmt, path, opaque) /\ pending' = pending
    BY <1>1 DEF Whiteout, Take
  <2>2. path \in Seq(DOMAIN NameBytes) /\ (path # <<>> \/ opaque)
    BY <1>0, <1>1, EntryPath DEF Whiteout, Paths
  <2>3. opaque \in BOOLEAN
    OBVIOUS
  <2> HIDE DEF path, opaque
  <2>4. Keeps(Unlink(fmt, path, opaque), First)
    BY <1>0, <2>2, <2>3, UnlinkKeeps
  <2> QED
    BY <1>0, <1>t, <1>q, <2>1, <2>4
<1>2. ASSUME NEW e \in Entries[source], SkipLayerEntry(e) PROVE BlockInv'
  <2>1. fmt' = fmt /\ pending' = pending
    BY <1>2 DEF SkipLayerEntry
  <2> QED
    BY <1>0, <1>t, <1>q, <2>1
<1>3. ASSUME NEW e \in Entries[source], MakeLayerEntry(e) PROVE BlockInv'
  <2>1. Make(e) /\ source # "tar" /\ pending' = pending
    BY <1>3 DEF MakeLayerEntry, Make
  <2> QED
    BY <1>0, <1>q, <2>1, MakeBlocks
<1>4. ASSUME NEW e \in Entries[source], KeepLink(e) PROVE BlockInv'
  <2>1. e.path \in Paths /\ e.path # <<>> /\ fmt' = fmt
    BY <1>0, <1>4, EntryPath DEF KeepLink
  <2>2. e.target \in Paths
    BY <1>0, <1>4, ImportAssumption DEF KeepLink, Paths
  <2>3. CASE LinksAt(pending, e.path) = {}
    <3> DEFINE l == [link |-> e.path, target |-> e.target]
    <3>1. pending' = Append(pending, l)
      BY <1>4, <2>3 DEF KeepLink
    <3>2. l \in Links(Paths)
      BY <2>1, <2>2 DEF Links
    <3> HIDE DEF l
    <3>3. pending' \in Seq(Links(Paths))
      BY <1>0, <3>1, <3>2, AppendProperties
    <3> QED
      BY <1>0, <1>t, <1>q, <2>1, <3>3
  <2>4. CASE LinksAt(pending, e.path) # {}
    <3> DEFINE at == LinksAt(pending, e.path)
               more == [i \in DOMAIN pending |->
                          IF i \in at THEN [pending[i] EXCEPT !.target = e.target]
                          ELSE pending[i]]
    <3>1. pending' = more
      BY <1>4, <2>4 DEF KeepLink
    <3>2. \A i \in DOMAIN pending :
            /\ more[i].target \in Paths
            /\ more[i] = [link |-> pending[i].link, target |-> more[i].target]
      <4> SUFFICES ASSUME NEW i \in DOMAIN pending
                   PROVE  /\ more[i].target \in Paths
                          /\ more[i] = [link |-> pending[i].link, target |-> more[i].target]
        OBVIOUS
      <4>1. pending[i] \in Links(Paths)
        BY <1>i
      <4> HIDE DEF at
      <4> QED
        BY <2>2, <4>1 DEF Links
    <3>3. more = [i \in DOMAIN pending |-> more[i]]
      <4> HIDE DEF at
      <4> QED
        OBVIOUS
    <3> HIDE DEF more
    <3>4. more \in Seq(Links(Paths))
      BY <1>0, <3>2, <3>3, Retargeted
    <3> QED
      BY <1>0, <1>t, <1>q, <2>1, <3>1, <3>4
  <2> QED
    BY <2>3, <2>4
<1>5. CASE EndOfLayer
  <2> DEFINE more == [i \in DOMAIN pending |->
                        [pending[i] EXCEPT !.target = Resolved(pending, @)]]
  <2>1. fmt' = fmt /\ pending' = more
    BY <1>5 DEF EndOfLayer
  <2>2. \A i \in DOMAIN pending :
          /\ more[i].target \in Paths
          /\ more[i] = [link |-> pending[i].link, target |-> more[i].target]
    <3> SUFFICES ASSUME NEW i \in DOMAIN pending
                 PROVE  /\ more[i].target \in Paths
                        /\ more[i] = [link |-> pending[i].link, target |-> more[i].target]
      OBVIOUS
    <3> DEFINE t == Resolved(pending, pending[i].target)
    <3>1. pending[i] \in Links(Paths) /\ pending[i].target \in Paths
      BY <1>i
    <3>2. t \in Paths
      BY <1>0, <3>1, ResolvedIs
    <3>3. more[i] = [pending[i] EXCEPT !.target = t]
      OBVIOUS
    <3> HIDE DEF t, more
    <3> QED
      BY <3>1, <3>2, <3>3 DEF Links
  <2>3. more = [i \in DOMAIN pending |-> more[i]]
    OBVIOUS
  <2> HIDE DEF more
  <2>4. more \in Seq(Links(Paths))
    BY <1>0, <2>2, <2>3, Retargeted
  <2> QED
    BY <1>0, <1>t, <1>q, <2>1, <2>4
<1>6. CASE MakeAnyLink
  <2>1. PICK i \in DOMAIN pending :
          /\ fmt' = Link(fmt, pending[i].link, pending[i].target)
          /\ pending' = RemoveAt(pending, i)
    BY <1>6 DEF MakeAnyLink, Take
  <2> DEFINE path == pending[i].link
             target == pending[i].target
  <2>2. pending' \in Seq(Links(Paths))
    BY <1>0, <2>1, OneLinkLess
  <2>3. path \in Seq(DOMAIN NameBytes) /\ path # <<>> /\ target \in Seq(DOMAIN NameBytes)
    BY <1>i DEF Paths
  <2>4. fmt' = Link(fmt, path, target)
    BY <2>1
  <2> HIDE DEF path, target
  <2>5. Keeps(Link(fmt, path, target), First)
    BY <1>0, <2>3, LinkKeeps
  <2> QED
    BY <1>t, <1>q, <2>2, <2>4, <2>5
<1>7. CASE NextLayer
  <2>1. fmt' = fmt /\ pending' = pending
    BY <1>7 DEF NextLayer
  <2> QED
    BY <1>0, <1>t, <1>q, <2>1
<1> QED
  BY <1>1, <1>2, <1>3, <1>4, <1>5, <1>6, <1>7 DEF UnpackLayers

\* In every state of the making of an image from any archive, every block that
\* was written has one owner, and the finished image is what close() makes of
\* the formatter.
THEOREM BlocksKept == Spec => []BlockInv
PROOF
<1>1. BlockInv /\ [Next]_vars => BlockInv'
  <2> SUFFICES ASSUME BlockInv, [Next]_vars PROVE BlockInv'
    OBVIOUS
  <2>1. CASE ImportTar
    BY <2>1, BlockInvTar
  <2>2. CASE UnpackLayers
    BY <2>2, BlockInvLayers
  <2>3. CASE Close
    <3> DEFINE g == CommitDirectories(fmt)
    <3>1. First \in Nat /\ Keeps(fmt, First)
      BY FirstIs DEF BlockInv
    <3>2. Keeps(g, First)
      BY <3>1, CommitKeeps
    <3>3. /\ source' = source /\ size' = size /\ pending' = pending /\ fmt' = g
          /\ image' = Closed(g.disk, g.inodes, Unused, g.deleted, g.cur, size)
      BY <2>3 DEF Close
    <3> HIDE DEF g
    <3>4. First' = First
      BY <3>3 DEF First
    <3> QED
      BY <3>2, <3>3, <3>4 DEF BlockInv
  <2>4. CASE OpenImage
    <3>1. /\ phase = "closed" /\ source' = source /\ size' = size /\ pending' = pending
          /\ fmt' = fmt /\ image' = image
      BY <2>4 DEF OpenImage
    <3>2. First' = First
      BY <3>1 DEF First
    <3>3. Finished
      BY <3>1 DEF Finished
    <3> QED
      BY <3>1, <3>2, <3>3 DEF BlockInv
  <2>5. CASE UNCHANGED vars
    BY <2>5 DEF vars, BlockInv, First, Finished
  <2> QED
    BY <2>1, <2>2, <2>3, <2>4, <2>5 DEF Next
<1> QED
  BY <1>1, BlockInvInit, PTL DEF Spec

-----------------------------------------------------------------------------
(* The counts of links.                                                    *)

\* The attached nodes that stand for inode n.
NamesOf(f, n) == {i \in Attached(f.tree) : Refers(f, i) = n}

\* An inode counts its names; a directory has one at most and counts its own
\* entries too.
Counts(a, names) ==
  /\ a.links \in Nat
  /\ a.kind = "none" => a.links = 0
  /\ IF a.kind = "dir" THEN names <= 1 /\ names <= a.links ELSE a.links = names

\* One that is not reserved does, with the name that link() is about to give
\* to inode extra.
CountedAt(f, extra, n) ==
  Counts(f.inodes[n], Cardinality(NamesOf(f, n)) + (IF n = extra THEN 1 ELSE 0))

\* Every node but the root hangs below a directory, or what is left of it.
Hanging(f) ==
  \A i \in DOMAIN f.tree.nodes \ {Root} :
    LET n == f.tree.nodes[f.tree.nodes[i].parent].inode
    IN n < FirstInode \/ f.inodes[n].kind \in {"dir", "none"}

\* The root and hard links have a reserved inode of their own.
Reserved(f) ==
  \A i \in DOMAIN f.tree.nodes :
    /\ i = Root => f.tree.nodes[i].link = 0
    /\ i = Root \/ f.tree.nodes[i].link # 0 => f.tree.nodes[i].inode < FirstInode

Linked(f, extra) ==
  /\ Distinct(f.tree) /\ Hanging(f) /\ Reserved(f)
  /\ \A n \in DOMAIN f.inodes : n >= FirstInode => CountedAt(f, extra, n)

\* What removing nodes leaves of f in g.
Fewer(g, f) ==
  /\ DOMAIN g.tree.nodes = DOMAIN f.tree.nodes
  /\ \A j \in DOMAIN f.tree.nodes :
       SameNode(g.tree.nodes[j], f.tree.nodes[j])
       /\ g.tree.nodes[j].parent = f.tree.nodes[j].parent
  /\ DOMAIN g.inodes = DOMAIN f.inodes
  /\ \A n \in DOMAIN f.inodes :
       g.inodes[n].kind = f.inodes[n].kind \/ g.inodes[n].kind = "none"
  /\ FindsAtLeast(f.tree, g.tree)

\* Removing more leaves less.
LEMMA FewerStill ==
  ASSUME NEW f, NEW g, NEW h, Fewer(g, f), Fewer(h, g)
  PROVE  Fewer(h, f)
  BY DEF Fewer, SameNode, FindsAtLeast

\* There are finitely many names.
LEMMA NamesFinite ==
  ASSUME NEW f, Sound(f.tree), NEW n
  PROVE  IsFiniteSet(NamesOf(f, n)) /\ Cardinality(NamesOf(f, n)) \in Nat
PROOF
<1>1. DOMAIN f.tree.nodes = 1 .. Len(f.tree.nodes) /\ Len(f.tree.nodes) \in Nat
  BY NodesOf
<1>2. IsFiniteSet(1 .. Len(f.tree.nodes))
  BY <1>1, FS_Interval
<1>3. NamesOf(f, n) \subseteq 1 .. Len(f.tree.nodes)
  BY <1>1 DEF NamesOf, Attached
<1> QED
  BY <1>2, <1>3, FS_Subset, FS_CardinalityType

\* A node less is a name less for its inode.
LEMMA NamesLess ==
  ASSUME NEW f, Sound(f.tree), NEW i \in Attached(f.tree),
         NEW g, Sound(g.tree),
         \A j \in DOMAIN f.tree.nodes : SameNode(g.tree.nodes[j], f.tree.nodes[j]),
         Attached(g.tree) = Attached(f.tree) \ {i}, NEW n
  PROVE  LET was == Cardinality(NamesOf(f, n))
             is  == Cardinality(NamesOf(g, n))
         IN /\ was \in Nat /\ is \in Nat
            /\ n = Refers(f, i) => was = is + 1
            /\ n # Refers(f, i) => was = is
PROOF
<1>1. \A j \in Attached(f.tree) : Refers(g, j) = Refers(f, j)
  BY DEF Attached, SameNode, Refers
<1>2. NamesOf(g, n) = NamesOf(f, n) \ {i}
  BY <1>1 DEF NamesOf
<1>3. IsFiniteSet(NamesOf(f, n)) /\ IsFiniteSet(NamesOf(g, n))
      /\ Cardinality(NamesOf(f, n)) \in Nat /\ Cardinality(NamesOf(g, n)) \in Nat
  BY NamesFinite
<1>4. CASE n = Refers(f, i)
  <2>1. i \in NamesOf(f, n)
    BY <1>4 DEF NamesOf
  <2>2. Cardinality(NamesOf(f, n) \ {i}) = Cardinality(NamesOf(f, n)) - 1
    BY <1>3, <2>1, FS_RemoveElement
  <2> QED
    BY <1>2, <1>3, <1>4, <2>2
<1>5. CASE n # Refers(f, i)
  <2>1. NamesOf(g, n) = NamesOf(f, n)
    BY <1>2, <1>5 DEF NamesOf
  <2> QED
    BY <1>3, <1>5, <2>1
<1> QED
  BY <1>4, <1>5

\* A node more is a name more for its inode.
LEMMA NamesMore ==
  ASSUME NEW f, Sound(f.tree), NEW g, Sound(g.tree),
         NEW i, i \notin DOMAIN f.tree.nodes,
         \A j \in DOMAIN f.tree.nodes : SameNode(g.tree.nodes[j], f.tree.nodes[j]),
         Attached(g.tree) = Attached(f.tree) \cup {i}, NEW n
  PROVE  LET was == Cardinality(NamesOf(f, n))
             is  == Cardinality(NamesOf(g, n))
         IN /\ was \in Nat /\ is \in Nat
            /\ n = Refers(g, i) => is = was + 1
            /\ n # Refers(g, i) => is = was
PROOF
<1>1. \A j \in Attached(f.tree) : Refers(g, j) = Refers(f, j)
  BY DEF Attached, SameNode, Refers
<1>0. i \notin NamesOf(f, n)
  BY DEF NamesOf, Attached
<1>3. IsFiniteSet(NamesOf(f, n)) /\ IsFiniteSet(NamesOf(g, n))
      /\ Cardinality(NamesOf(f, n)) \in Nat /\ Cardinality(NamesOf(g, n)) \in Nat
  BY NamesFinite
<1>4. CASE n = Refers(g, i)
  <2>1. NamesOf(g, n) = NamesOf(f, n) \cup {i}
    BY <1>1, <1>4 DEF NamesOf
  <2>2. Cardinality(NamesOf(f, n) \cup {i}) = Cardinality(NamesOf(f, n)) + 1
    BY <1>0, <1>3, FS_AddElement
  <2> QED
    BY <1>3, <1>4, <2>1, <2>2
<1>5. CASE n # Refers(g, i)
  <2>1. NamesOf(g, n) = NamesOf(f, n)
    BY <1>1, <1>5 DEF NamesOf
  <2> QED
    BY <1>3, <1>5, <2>1
<1> QED
  BY <1>4, <1>5

\* What a node that leaves its parent does to the count of inode a.
LeavesCount(a, b) ==
  /\ b.kind = a.kind
  /\ b.links = a.links \/ (a.kind = "dir" /\ b.links \in Nat /\ b.links >= 2)

\* It takes one off the parent's, which is a directory.
LEMMA LeaveParentCounts ==
  ASSUME NEW f, InodesListed(f), Fields \subseteq DOMAIN f, Hanging(f),
         NEW i \in DOMAIN f.tree.nodes \ {Root},
         NEW n \in DOMAIN f.inodes,
         NEW extra, n >= FirstInode => CountedAt(f, extra, n)
  PROVE  LET h == LeaveParent(f, i)
         IN /\ DOMAIN h.inodes = DOMAIN f.inodes
            /\ h.inodes[n].kind = f.inodes[n].kind
            /\ n >= FirstInode => LeavesCount(f.inodes[n], h.inodes[n])
PROOF
<1> DEFINE node == f.tree.nodes[i]
           up == f.tree.nodes[node.parent].inode
           links == f.inodes[up].links
           v == IF IsDir(InodeAt(f, i)) /\ links > 2 THEN links - 1 ELSE links
           inodes == [f.inodes EXCEPT ![up].links = v]
           h == LeaveParent(f, i)
<1>1. h.inodes = inodes
  BY DEF LeaveParent, Fields
<1>2. Shaped(f.inodes[n])
  BY DEF InodesListed
<1>3. n >= FirstInode /\ n = up => f.inodes[n].kind \in {"dir", "none"}
  <2>1. \A m : m >= FirstInode /\ m \in Nat => ~(m < FirstInode)
    BY DEF FirstInode
  <2>2. n \in Nat
    BY InodesAre
  <2> QED
    BY <2>1, <2>2 DEF Hanging
<1>4. n >= FirstInode => /\ f.inodes[n].links \in Nat
                         /\ f.inodes[n].kind = "none" => f.inodes[n].links = 0
  BY DEF CountedAt, Counts
<1> HIDE DEF h
<1>5. CASE n # up
  <2>1. h.inodes[n] = f.inodes[n] /\ DOMAIN h.inodes = DOMAIN f.inodes
    BY <1>1, <1>5
  <2> QED
    BY <2>1 DEF LeavesCount, h
<1>6. CASE n = up
  <2>1. /\ h.inodes[n] = [f.inodes[n] EXCEPT !.links = v] /\ DOMAIN h.inodes = DOMAIN f.inodes
    BY <1>1, <1>6
  <2> DEFINE l == f.inodes[n].links
  <2>2. v = l \/ (l > 2 /\ v = l - 1)
    BY <1>6
  <2> HIDE DEF v, l, up
  <2>3. h.inodes[n].links = v /\ h.inodes[n].kind = f.inodes[n].kind
    BY <1>2, <2>1 DEF Shaped
  <2>4. ASSUME n >= FirstInode
        PROVE  v = l \/ (f.inodes[n].kind = "dir" /\ v \in Nat /\ v >= 2)
    <3>1. l \in Nat /\ (f.inodes[n].kind = "none" => l = 0)
      BY <1>4, <2>4 DEF l
    <3>2. f.inodes[n].kind \in {"dir", "none"}
      BY <1>3, <1>6, <2>4
    <3> QED
      BY <2>2, <3>1, <3>2
  <2>5. n >= FirstInode => LeavesCount(f.inodes[n], h.inodes[n])
    BY <2>3, <2>4 DEF LeavesCount, l
  <2> QED
    BY <2>1, <2>3, <2>5 DEF h
<1> QED
  BY <1>5, <1>6

\* What a reference less does to the count of inode a.
DropsCount(a, b) ==
  \/ ~(a.links > 1) /\ b.kind = "none" /\ b.links = 0
  \/ a.links > 1 /\ b.kind = a.kind /\ b.links = a.links - 1

\* It takes one off the inode's own, and the last one takes the inode.
LEMMA DropReferenceCounts ==
  ASSUME NEW f, InodesListed(f), Fields \subseteq DOMAIN f,
         NEW i \in DOMAIN f.tree.nodes,
         NEW n \in DOMAIN f.inodes, n >= FirstInode => f.inodes[n].links \in Nat
  PROVE  LET g == DropReference(f, i)
         IN /\ g.tree = f.tree
            /\ DOMAIN g.inodes = DOMAIN f.inodes
            /\ n # Refers(f, i) => g.inodes[n] = f.inodes[n]
            /\ g.inodes[n].kind = f.inodes[n].kind \/ g.inodes[n].kind = "none"
            /\ n >= FirstInode /\ n = Refers(f, i) => DropsCount(f.inodes[n], g.inodes[n])
PROOF
<1> DEFINE node == f.tree.nodes[i]
           ino  == IF node.link # 0 THEN node.link ELSE node.inode
           l == f.inodes[ino].links
           left == IF l > 0 THEN l - 1 ELSE 0
           gone == [Unused EXCEPT !.dtime = "clock"]
           freed == [f.inodes EXCEPT ![ino] = gone]
           less == [f.inodes EXCEPT ![ino].links = left]
           g == DropReference(f, i)
<1>1. ino = Refers(f, i)
  BY DEF Refers
<1>2. Shaped(f.inodes[n]) /\ n \in Nat
  BY InodesAre DEF InodesListed
<1>3. n >= FirstInode => ~(n < FirstInode)
  BY <1>2 DEF FirstInode
<1>g. gone.kind = "none" /\ gone.links = 0
  BY DEF Unused
<1> HIDE DEF gone
<1>4. CASE ino < FirstInode
  <2>1. g = f
    BY <1>4 DEF DropReference
  <2> QED
    BY <1>1, <1>3, <1>4, <2>1
<1>5. CASE ~(ino < FirstInode) /\ left = 0
  <2>1. g.inodes = freed /\ g.tree = f.tree
    BY <1>5 DEF DropReference, Fields, gone
  <2> HIDE DEF g
  <2>2. n # ino => g.inodes[n] = f.inodes[n]
    BY <2>1
  <2>3. n = ino => g.inodes[n] = gone
    BY <2>1
  <2>4. n >= FirstInode /\ n = ino => ~(f.inodes[n].links > 1)
    BY <1>5
  <2>5. DOMAIN g.inodes = DOMAIN f.inodes
    BY <2>1
  <2> HIDE DEF ino
  <2> QED
    BY <1>1, <1>g, <2>1, <2>2, <2>3, <2>4, <2>5 DEF DropsCount, g
<1>6. CASE ~(ino < FirstInode) /\ left # 0
  <2>1. g.inodes = less /\ g.tree = f.tree
    BY <1>6 DEF DropReference, Fields
  <2> HIDE DEF g
  <2>2. n # ino => g.inodes[n] = f.inodes[n]
    BY <2>1
  <2>3. n = ino => g.inodes[n] = [f.inodes[n] EXCEPT !.links = left]
    BY <2>1
  <2>a. l \in Nat => l > 1 /\ left = l - 1
    <3> HIDE DEF l
    <3> QED
      BY <1>6
  <2>4. n >= FirstInode /\ n = ino => f.inodes[n].links > 1 /\ left = f.inodes[n].links - 1
    <3> SUFFICES ASSUME n >= FirstInode /\ n = ino
                 PROVE  l > 1 /\ left = l - 1
      BY DEF l
    <3>1. l \in Nat
      OBVIOUS
    <3> HIDE DEF l, left
    <3> QED
      BY <2>a, <3>1
  <2>5. DOMAIN g.inodes = DOMAIN f.inodes
    BY <2>1
  <2> HIDE DEF ino, left
  <2>6. n = ino => g.inodes[n].kind = f.inodes[n].kind /\ g.inodes[n].links = left
    BY <1>2, <2>3 DEF Shaped
  <2> QED
    BY <1>1, <2>1, <2>2, <2>4, <2>5, <2>6 DEF DropsCount, g
<1> QED
  BY <1>4, <1>5, <1>6

\* A name less and a reference less keep the count right.
LEMMA CountsLess ==
  ASSUME NEW a, NEW b, NEW c, NEW k \in Nat,
         Counts(a, k + 1), LeavesCount(a, b), DropsCount(b, c)
  PROVE  Counts(c, k)
PROOF
<1>1. CASE a.kind = "dir"
  <2>1. a.links \in Nat /\ k + 1 <= 1 /\ k + 1 <= a.links
    BY <1>1 DEF Counts
  <2>2. b.kind = "dir" /\ b.links \in Nat
    BY <1>1, <2>1 DEF LeavesCount
  <2>3. CASE c.kind = "none" /\ c.links = 0
    BY <2>1, <2>3 DEF Counts
  <2>4. CASE b.links > 1 /\ c.kind = b.kind /\ c.links = b.links - 1
    BY <2>1, <2>2, <2>4 DEF Counts
  <2> QED
    BY <2>3, <2>4 DEF DropsCount
<1>2. CASE a.kind # "dir"
  <2>1. a.links = k + 1 /\ a.kind # "none"
    BY <1>2 DEF Counts
  <2>2. b.links = k + 1 /\ b.kind = a.kind
    BY <1>2, <2>1 DEF LeavesCount
  <2>3. CASE ~(b.links > 1) /\ c.kind = "none" /\ c.links = 0
    BY <2>2, <2>3 DEF Counts
  <2>4. CASE b.links > 1 /\ c.kind = b.kind /\ c.links = b.links - 1
    BY <1>2, <2>1, <2>2, <2>4 DEF Counts
  <2> QED
    BY <2>3, <2>4 DEF DropsCount
<1> QED
  BY <1>1, <1>2

\* So does an entry less.
LEMMA CountsLeave ==
  ASSUME NEW a, NEW b, NEW k \in Nat, Counts(a, k), LeavesCount(a, b)
  PROVE  Counts(b, k)
PROOF
<1>1. CASE a.kind = "dir"
  <2>1. a.links \in Nat /\ k <= 1 /\ k <= a.links
    BY <1>1 DEF Counts
  <2>2. b.kind = "dir" /\ b.links \in Nat /\ (b.links = a.links \/ b.links >= 2)
    BY <1>1, <2>1 DEF LeavesCount
  <2> QED
    BY <2>1, <2>2 DEF Counts
<1>2. CASE a.kind # "dir"
  BY <1>2 DEF Counts, LeavesCount
<1> QED
  BY <1>1, <1>2

\* What is left hangs below directories as it did.
LEMMA FewerHangs ==
  ASSUME NEW first \in Nat, NEW f, Keeps(f, first), Hanging(f), Reserved(f), NEW g, Fewer(g, f)
  PROVE  Hanging(g) /\ Reserved(g)
PROOF
<1>1. ASSUME NEW i \in DOMAIN f.tree.nodes \ {Root}
      PROVE  LET n == g.tree.nodes[g.tree.nodes[i].parent].inode
             IN n < FirstInode \/ g.inodes[n].kind \in {"dir", "none"}
  <2> DEFINE p == f.tree.nodes[i].parent
             n == f.tree.nodes[p].inode
  <2>1. p \in DOMAIN f.tree.nodes
    BY DEF Keeps, SoundFormatter, Sound
  <2>2. n \in DOMAIN f.inodes
    BY <2>1 DEF Keeps, Owned, NodeOwned
  <2>3. g.tree.nodes[i].parent = p /\ g.tree.nodes[p].inode = n
    BY <2>1 DEF Fewer, SameNode
  <2>4. n < FirstInode \/ f.inodes[n].kind \in {"dir", "none"}
    BY DEF Hanging
  <2>5. g.inodes[n].kind = f.inodes[n].kind \/ g.inodes[n].kind = "none"
    BY <2>2 DEF Fewer
  <2> HIDE DEF n, p
  <2> QED
    BY <2>3, <2>4, <2>5
<1>2. Hanging(g)
  BY <1>1 DEF Hanging, Fewer
<1>3. Reserved(g)
  BY DEF Reserved, Fewer, SameNode
<1> QED
  BY <1>2, <1>3

\* What is left when node i was detached.
DetachedFrom(g, f, extra, first, i) ==
  /\ Keeps(g, first)
  /\ Len(g.inodes) = Len(f.inodes)
  /\ Linked(g, extra)
  /\ Fewer(g, f)
  /\ Attached(g.tree) = Attached(f.tree) \ {i}
  /\ ~Indexed(g.tree, f.tree.nodes[i].parent, NameOf(f.tree, i))

\* One node leaves the tree, and one name its inode.
LEMMA DetachLinked ==
  ASSUME NEW first \in Nat, NEW f, Keeps(f, first), NEW extra, Linked(f, extra),
         NEW i \in Attached(f.tree)
  PROVE  DetachedFrom(Detach(f, i), f, extra, first, i)
PROOF
<1> DEFINE t == f.tree
           p == t.nodes[i].parent
           h == LeaveParent(f, i)
           g == DropReference(h, i)
<1>0. Detach(f, i) = g
  BY DEF Detach
<1>1. /\ Sound(t) /\ Distinct(t) /\ InodesListed(f) /\ Fields \subseteq DOMAIN f
      /\ i \in DOMAIN t.nodes \ {Root} /\ p \in DOMAIN t.nodes
  BY DEF Keeps, SoundFormatter, Owned, Linked, Attached, Sound
<1>2. h.tree = RemoveChild(t, p, NameOf(t, i))
  BY <1>1 DEF LeaveParent, Fields, NameOf
<1>3. /\ Owned(h, first) /\ DOMAIN h.tree.nodes = DOMAIN t.nodes
      /\ Len(h.inodes) = Len(f.inodes)
  BY <1>1, LeaveParentOwned DEF Keeps
<1>4. /\ DOMAIN h.inodes = DOMAIN f.inodes
      /\ \A n \in DOMAIN f.inodes :
           /\ h.inodes[n].kind = f.inodes[n].kind
           /\ n >= FirstInode => LeavesCount(f.inodes[n], h.inodes[n])
  <2>1. \A n \in DOMAIN f.inodes : n >= FirstInode => CountedAt(f, extra, n)
    BY DEF Linked
  <2>2. ASSUME NEW n \in DOMAIN f.inodes
        PROVE  /\ DOMAIN h.inodes = DOMAIN f.inodes
               /\ h.inodes[n].kind = f.inodes[n].kind
               /\ n >= FirstInode => LeavesCount(f.inodes[n], h.inodes[n])
    BY <1>1, <2>1, LeaveParentCounts DEF Linked
  <2>3. DOMAIN h.inodes = DOMAIN f.inodes
    BY <1>1, <1>3, InodesAre DEF Owned
  <2> HIDE DEF h
  <2> QED
    BY <2>2, <2>3
<1> HIDE DEF h
<1>5. /\ DOMAIN h.tree.nodes = DOMAIN t.nodes
      /\ \A j \in DOMAIN t.nodes :
           SameNode(h.tree.nodes[j], t.nodes[j]) /\ h.tree.nodes[j].parent = t.nodes[j].parent
      /\ Distinct(h.tree)
      /\ Attached(h.tree) = Attached(t) \ {i}
      /\ FindsAtLeast(t, h.tree)
      /\ ~Indexed(h.tree, p, NameOf(t, i))
  <2>1. \A j \in DOMAIN t.nodes : SameNode(h.tree.nodes[j], t.nodes[j])
    <3> DEFINE u == h.tree
               x == NameOf(t, i)
    <3>1. u = RemoveChild(t, p, x)
      BY <1>2
    <3> HIDE DEF u, x, p, t
    <3> QED
      BY <1>1, <3>1, RemoveChildKeeps DEF u
  <2>2. /\ \A j \in DOMAIN t.nodes : h.tree.nodes[j].parent = t.nodes[j].parent
        /\ Distinct(h.tree)
        /\ Attached(h.tree) = Attached(t) \ {i}
        /\ FindsAtLeast(t, h.tree)
        /\ ~Indexed(h.tree, p, NameOf(t, i))
    BY <1>1, <1>2, RemoveAttached
  <2> QED
    BY <1>3, <2>1, <2>2
<1>6. Keeps(g, first) /\ Len(g.inodes) = Len(f.inodes)
  <2>1. Less(Detach(f, i), f, first)
    BY <1>1, DetachKeeps
  <2> QED
    BY <1>0, <2>1 DEF Less
<1>7. Refers(h, i) = Refers(f, i)
  BY <1>1, <1>5 DEF SameNode, Refers
<1>c. \A n \in DOMAIN f.inodes : n >= FirstInode => h.inodes[n].links \in Nat
  <2> SUFFICES ASSUME NEW n \in DOMAIN f.inodes, n >= FirstInode
               PROVE  h.inodes[n].links \in Nat
    OBVIOUS
  <2>1. f.inodes[n].links \in Nat
    BY DEF Linked, CountedAt, Counts
  <2>2. LeavesCount(f.inodes[n], h.inodes[n])
    BY <1>4
  <2> QED
    BY <2>1, <2>2 DEF LeavesCount
<1>8. /\ g.tree = h.tree
      /\ DOMAIN g.inodes = DOMAIN f.inodes
      /\ \A n \in DOMAIN f.inodes :
           /\ n # Refers(f, i) => g.inodes[n] = h.inodes[n]
           /\ g.inodes[n].kind = h.inodes[n].kind \/ g.inodes[n].kind = "none"
           /\ n >= FirstInode /\ n = Refers(f, i) => DropsCount(h.inodes[n], g.inodes[n])
  <2>1. Fields \subseteq DOMAIN h /\ InodesListed(h) /\ i \in DOMAIN h.tree.nodes
    BY <1>1, <1>3 DEF Owned
  <2>2. ASSUME NEW n \in DOMAIN f.inodes
        PROVE  /\ g.tree = h.tree
               /\ DOMAIN g.inodes = DOMAIN f.inodes
               /\ n # Refers(f, i) => g.inodes[n] = h.inodes[n]
               /\ g.inodes[n].kind = h.inodes[n].kind \/ g.inodes[n].kind = "none"
               /\ n >= FirstInode /\ n = Refers(f, i) => DropsCount(h.inodes[n], g.inodes[n])
    BY <1>4, <1>7, <1>c, <2>1, <2>2, DropReferenceCounts
  <2>3. 1 \in DOMAIN f.inodes
    BY <1>1, InodesAre DEF InodesListed, FirstInode
  <2> HIDE DEF g
  <2> QED
    BY <2>2, <2>3
<1> HIDE DEF g
<1>9. Fewer(g, f)
  BY <1>4, <1>5, <1>8 DEF Fewer
<1>10. Hanging(g) /\ Reserved(g)
  BY <1>9, FewerHangs DEF Linked
<1>11. ASSUME NEW n \in DOMAIN g.inodes, n >= FirstInode
       PROVE  CountedAt(g, extra, n)
  <2> DEFINE was == Cardinality(NamesOf(f, n))
             is  == Cardinality(NamesOf(g, n))
             x == IF n = extra THEN 1 ELSE 0
  <2>1. /\ was \in Nat /\ is \in Nat
        /\ n = Refers(f, i) => was = is + 1
        /\ n # Refers(f, i) => was = is
    <3>1. Sound(g.tree)
      BY <1>6 DEF Keeps, SoundFormatter
    <3>2. \A j \in DOMAIN f.tree.nodes : SameNode(g.tree.nodes[j], f.tree.nodes[j])
      BY <1>9 DEF Fewer
    <3>3. Attached(g.tree) = Attached(f.tree) \ {i}
      BY <1>5, <1>8
    <3> HIDE DEF t
    <3> QED
      BY <1>1, <3>1, <3>2, <3>3, NamesLess DEF t
  <2>2. n \in DOMAIN f.inodes /\ Counts(f.inodes[n], was + x)
    BY <1>8, <1>11 DEF Linked, CountedAt
  <2>3. LeavesCount(f.inodes[n], h.inodes[n])
    BY <1>4, <1>11, <2>2
  <2> HIDE DEF was, is
  <2>4. x \in Nat
    OBVIOUS
  <2> HIDE DEF x
  <2>5. CASE n = Refers(f, i)
    <3>1. was + x = (is + x) + 1 /\ is + x \in Nat
      BY <2>1, <2>4, <2>5
    <3>2. DropsCount(h.inodes[n], g.inodes[n])
      BY <1>8, <1>11, <2>2, <2>5
    <3>3. Counts(f.inodes[n], (is + x) + 1)
      BY <2>2, <3>1
    <3>4. Counts(g.inodes[n], is + x)
      BY <2>3, <3>1, <3>2, <3>3, CountsLess
    <3> QED
      BY <3>4 DEF CountedAt, is, x
  <2>6. CASE n # Refers(f, i)
    <3>1. was + x = is + x /\ is + x \in Nat
      BY <2>1, <2>4, <2>6
    <3>2. g.inodes[n] = h.inodes[n]
      BY <1>8, <2>2, <2>6
    <3>3. Counts(g.inodes[n], is + x)
      BY <2>2, <2>3, <3>1, <3>2, CountsLeave
    <3> QED
      BY <3>3 DEF CountedAt, is, x
  <2> QED
    BY <2>5, <2>6
<1>12. Linked(g, extra)
  BY <1>5, <1>8, <1>10, <1>11 DEF Linked
<1> QED
  BY <1>0, <1>5, <1>6, <1>8, <1>9, <1>12 DEF DetachedFrom

\* What does not touch the tree, the kinds and the counts keeps the links.
LEMMA SameLinked ==
  ASSUME NEW f, NEW extra, Linked(f, extra), NEW g, g.tree = f.tree,
         DOMAIN g.inodes = DOMAIN f.inodes,
         \A n \in DOMAIN f.inodes :
           g.inodes[n].kind = f.inodes[n].kind /\ g.inodes[n].links = f.inodes[n].links,
         \A i \in DOMAIN f.tree.nodes \ {Root} :
           f.tree.nodes[f.tree.nodes[i].parent].inode \in DOMAIN f.inodes
  PROVE  Linked(g, extra) /\ Fewer(g, f)
PROOF
<1>1. \A n : NamesOf(g, n) = NamesOf(f, n)
  BY DEF NamesOf, Refers
<1>2. \A n \in DOMAIN g.inodes : n >= FirstInode => CountedAt(g, extra, n)
  BY <1>1 DEF Linked, CountedAt, Counts
<1>3. Distinct(g.tree) /\ Reserved(g)
  BY DEF Linked, Reserved
<1>4. Hanging(g)
  BY DEF Linked, Hanging
<1>5. Fewer(g, f)
  BY DEF Fewer, SameNode, FindsAtLeast
<1> QED
  BY <1>2, <1>3, <1>4, <1>5 DEF Linked

\* The inode of a node's parent is one of the list.
LEMMA ParentInode ==
  ASSUME NEW first \in Nat, NEW f, Keeps(f, first)
  PROVE  \A i \in DOMAIN f.tree.nodes \ {Root} :
           f.tree.nodes[f.tree.nodes[i].parent].inode \in DOMAIN f.inodes
  BY DEF Keeps, SoundFormatter, Sound, Owned, NodeOwned

\* What is left when the nodes of a set were detached.
DetachedAll(g, f, extra, first, gone) ==
  /\ Keeps(g, first)
  /\ Len(g.inodes) = Len(f.inodes)
  /\ Linked(g, extra)
  /\ Fewer(g, f)
  /\ Attached(g.tree) = Attached(f.tree) \ gone

\* One more of them.
LEMMA DetachOneMore ==
  ASSUME NEW first \in Nat, NEW f, NEW extra, NEW gone, NEW g,
         DetachedAll(g, f, extra, first, gone),
         NEW i \in Attached(f.tree), i \notin gone
  PROVE  LET h == Detach(g, i)
         IN /\ DetachedAll(h, f, extra, first, gone \cup {i})
            /\ ~Indexed(h.tree, f.tree.nodes[i].parent, NameOf(f.tree, i))
PROOF
<1> DEFINE h == Detach(g, i)
<1>1. Keeps(g, first) /\ Linked(g, extra) /\ i \in Attached(g.tree)
  BY DEF DetachedAll
<1>2. DetachedFrom(h, g, extra, first, i)
  BY <1>1, DetachLinked
<1> HIDE DEF h
<1>3. Fewer(h, g) /\ Fewer(g, f)
  BY <1>2 DEF DetachedFrom, DetachedAll
<1>4. Fewer(h, f)
  BY <1>3, FewerStill
<1>5. Attached(h.tree) = Attached(f.tree) \ (gone \cup {i})
  BY <1>2 DEF DetachedFrom, DetachedAll
<1>6. /\ g.tree.nodes[i].parent = f.tree.nodes[i].parent
      /\ NameOf(g.tree, i) = NameOf(f.tree, i)
  BY <1>3 DEF Fewer, SameNode, NameOf, Attached
<1>7. DetachedAll(h, f, extra, first, gone \cup {i})
  BY <1>2, <1>4, <1>5 DEF DetachedFrom, DetachedAll
<1>8. ~Indexed(h.tree, f.tree.nodes[i].parent, NameOf(f.tree, i))
  BY <1>2, <1>6 DEF DetachedFrom
<1> QED
  BY <1>7, <1>8 DEF h

\* All the nodes of a list, each of which is attached and on it once.
LEMMA DetachAllLinked ==
  ASSUME NEW first \in Nat, NEW f, Keeps(f, first), NEW extra, Linked(f, extra),
         NEW order \in Seq(Attached(f.tree)), Once(order)
  PROVE  LET g == FoldLeft(Detach, f, order)
             i == order[Len(order)]
         IN /\ \E gone : DetachedAll(g, f, extra, first, gone)
            /\ order # <<>> =>
                 ~Indexed(g.tree, f.tree.nodes[i].parent, NameOf(f.tree, i))
PROOF
<1>1. FoldLeft(Detach, f, order) = Detaching!Fold(f, f, order)
  BY DEF Detaching!Fold, DetachIn, FoldLeft, MapThenFoldSet, Max,
         Detaching!Largest
<1> DEFINE l == Len(order)
<1>2. l \in Nat /\ DOMAIN order = 1 .. l /\ (order # <<>> => l # 0)
  OBVIOUS
<1>2a. \A m \in 1 .. l : order[m] \in Attached(f.tree)
  OBVIOUS
<1>3. PICK g : Detaching!Trace(f, f, l, order, g)
  BY <1>2, Detaching!FoldTrace
<1>t. /\ g[0] = f /\ Detaching!Fold(f, f, order) = g[l]
      /\ \A m \in 1 .. l : g[m] = Detach(g[m - 1], order[m])
  BY <1>3 DEF Detaching!Trace, DetachIn
<1> HIDE DEF l
<1> DEFINE Gone(m) == {order[k] : k \in 1 .. m}
           Good(m) == DetachedAll(g[m], f, extra, first, Gone(m))
           P == {m \in 0 .. l : Good(m)}
<1>4. 0 \in P
  <2>1. Gone(0) = {} /\ g[0] = f
    BY <1>t
  <2>2. Fewer(f, f)
    BY DEF Fewer, SameNode, FindsAtLeast
  <2>3. DetachedAll(f, f, extra, first, {})
    BY <2>2 DEF DetachedAll
  <2>4. Good(0)
    BY <2>1, <2>3
  <2> HIDE DEF Good
  <2> QED
    BY <1>2, <2>4
<1>5. ASSUME NEW m \in 1 .. l, Good(m - 1)
      PROVE  /\ Good(m)
             /\ ~Indexed(g[m].tree, f.tree.nodes[order[m]].parent, NameOf(f.tree, order[m]))
  <2> DEFINE gone == Gone(m - 1)
             i == order[m]
             was == g[m - 1]
  <2>1. g[m] = Detach(was, i)
    BY <1>t
  <2>2. i \notin gone
    <3>1. \A k \in 1 .. m - 1 : k \in DOMAIN order /\ m \in DOMAIN order /\ k # m
      BY <1>2
    <3> QED
      BY <3>1 DEF Once
  <2>3. i \in Attached(f.tree)
    BY <1>2a
  <2>4. Gone(m) = gone \cup {i}
    <3>1. \A k : k \in 1 .. m <=> (k \in 1 .. m - 1 \/ k = m)
      BY <1>2
    <3> QED
      BY <3>1
  <2>5. DetachedAll(was, f, extra, first, gone)
    BY <1>5
  <2> HIDE DEF gone, i, was, Gone
  <2>6. /\ DetachedAll(Detach(was, i), f, extra, first, gone \cup {i})
        /\ ~Indexed(Detach(was, i).tree, f.tree.nodes[i].parent, NameOf(f.tree, i))
    BY <2>2, <2>3, <2>5, DetachOneMore
  <2> QED
    BY <2>1, <2>4, <2>6 DEF i
<1>6. 0 .. l \subseteq P
  <2>1. ASSUME NEW m \in 1 .. l, m - 1 \in P PROVE m \in P
    <3>1. Good(m - 1)
      BY <2>1
    <3> HIDE DEF Good
    <3>2. Good(m)
      BY <1>5, <3>1
    <3> QED
      BY <3>2
  <2> HIDE DEF P
  <2> QED
    BY <1>2, <1>4, <2>1, Detaching!Upwards
<1>7. Good(l)
  <2> HIDE DEF Good
  <2> QED
    BY <1>2, <1>6
<1>8. order # <<>> => ~Indexed(g[l].tree, f.tree.nodes[order[l]].parent, NameOf(f.tree, order[l]))
  <2>1. order # <<>> => l \in 1 .. l /\ l - 1 \in 0 .. l
    BY <1>2
  <2>2. order # <<>> => Good(l - 1)
    <3> HIDE DEF Good
    <3> QED
      BY <1>6, <2>1
  <2> HIDE DEF Good
  <2> QED
    BY <1>5, <2>1, <2>2
<1>9. \E gone : DetachedAll(g[l], f, extra, first, gone)
  BY <1>7
<1> HIDE DEF Good, P
<1> QED
  BY <1>1, <1>t, <1>8, <1>9 DEF l

\* What unlink() leaves of f in g.
UnlinkedFrom(g, f, extra, first) ==
  /\ Keeps(g, first)
  /\ Len(g.inodes) = Len(f.inodes)
  /\ Linked(g, extra)
  /\ Fewer(g, f)

\* Nothing is left of f but f.
LEMMA UnlinkedNothing ==
  ASSUME NEW first \in Nat, NEW f, Keeps(f, first), NEW extra, Linked(f, extra)
  PROVE  /\ UnlinkedFrom(f, f, extra, first)
         /\ \A why : UnlinkedFrom(Fails(f, why), f, extra, first)
PROOF
<1>1. UnlinkedFrom(f, f, extra, first)
  BY DEF UnlinkedFrom, Fewer, SameNode, FindsAtLeast
<1>2. ASSUME NEW why PROVE UnlinkedFrom(Fails(f, why), f, extra, first)
  <2> DEFINE g == Fails(f, why)
  <2>1. Keeps(g, first) /\ Len(g.inodes) = Len(f.inodes)
    BY FailsKeeps
  <2>2. g.tree = f.tree /\ g.inodes = f.inodes
    BY DEF Fails, Keeps, Owned, Fields
  <2> HIDE DEF g
  <2>3. Linked(g, extra) /\ Fewer(g, f)
    BY <2>2, ParentInode, SameLinked
  <2> QED
    BY <2>1, <2>3 DEF UnlinkedFrom, g
<1> QED
  BY <1>1, <1>2


\* The nodes that unlink() detaches are attached, each is on the list once, and
\* the last one is the node at the path, unless only its children are to go.
LEMMA UnlinkListAttached ==
  ASSUME NEW t, Sound(t), Distinct(t), NEW S, NEW path \in Seq(S),
         NEW whiteout \in BOOLEAN, path # <<>> \/ whiteout, Lookup(t, path) # 0,
         NEW order, order = IF whiteout THEN Front(PostOrder(t, Lookup(t, path)))
                            ELSE PostOrder(t, Lookup(t, path))
  PROVE  /\ order \in Seq(Attached(t)) /\ Once(order)
         /\ ~whiteout => order # <<>> /\ order[Len(order)] = Lookup(t, path)
PROOF
<1> DEFINE i == Lookup(t, path)
           all == PostOrder(t, i)
<1>1. i \in DOMAIN t.nodes
  BY LookupNode
<1>2. path # <<>> => i \in Attached(t)
  BY FoundAttached
<1>3. Visits(t, all, i)
  BY <1>1, PostOrderVisits
<1>4. PICK below \in Seq({j \in DOMAIN t.nodes : j > i}) : all = Append(below, i)
  BY <1>1, PostOrderNodes
<1> HIDE DEF i, all
<1>n. i \in Nat /\ DOMAIN t.nodes \subseteq Nat
  BY <1>1, NodesOf
<1>5. /\ Len(below) \in Nat /\ DOMAIN below = 1 .. Len(below)
      /\ \A k \in 1 .. Len(below) : below[k] \in DOMAIN t.nodes /\ below[k] > i
      /\ all \in Seq(Nat) /\ all # <<>> /\ Len(all) = Len(below) + 1
      /\ DOMAIN all = 1 .. Len(below) + 1
      /\ \A k \in 1 .. Len(below) : all[k] = below[k]
      /\ all[Len(below) + 1] = i
  BY <1>4, <1>n
<1>6. \A k \in 1 .. Len(below) : below[k] \in Attached(t)
  <2> SUFFICES ASSUME NEW k \in 1 .. Len(below) PROVE below[k] \in Attached(t)
    OBVIOUS
  <2>1. Holding(all, below[k])
    BY <1>5 DEF Holding
  <2>2. below[k] # i
    BY <1>5, <1>n
  <2> QED
    BY <1>3, <2>1, <2>2 DEF Visits
<1>7. CASE whiteout
  <2> DEFINE r == Front(all)
  <2>1. order = r
    BY <1>7 DEF i, all
  <2>2. /\ r \in Seq(Nat) /\ Len(r) = Len(all) - 1
        /\ \A m \in 1 .. Len(all) - 1 : r[m] = all[m]
    BY <1>5, FrontIs
  <2> HIDE DEF r
  <2> DEFINE l == Len(below)
  <2>3. l \in Nat /\ Len(all) - 1 = l /\ \A m \in 1 .. l : m \in 1 .. l + 1
    BY <1>5
  <2>4. Len(r) = l /\ DOMAIN r = 1 .. l
    BY <2>2, <2>3
  <2>5. \A m \in DOMAIN r : m \in DOMAIN all /\ r[m] = all[m] /\ r[m] \in Attached(t)
    BY <1>5, <1>6, <2>2, <2>3, <2>4
  <2>6. r \in Seq(Attached(t))
    <3> DEFINE A == Attached(t)
    <3>1. \A m \in 1 .. Len(r) : r[m] \in A
      BY <2>4, <2>5
    <3> HIDE DEF A
    <3> QED
      BY <2>2, <3>1 DEF A
  <2>7. Once(r)
    <3>1. Once(all)
      BY <1>3 DEF Visits
    <3> QED
      BY <2>5, <3>1 DEF Once
  <2> QED
    BY <1>7, <2>1, <2>6, <2>7
<1>8. CASE ~whiteout
  <2>1. order = all
    BY <1>8 DEF i, all
  <2>2. \A m \in 1 .. Len(below) + 1 : all[m] \in Attached(t)
    BY <1>2, <1>5, <1>6, <1>8
  <2>3. order \in Seq(Attached(t))
    BY <1>5, <2>1, <2>2
  <2> QED
    BY <1>3, <1>5, <2>1, <2>3 DEF Visits, i
<1> QED
  BY <1>7, <1>8

\* unlink() leaves the links right and nothing at the path.
LEMMA UnlinkLinked ==
  ASSUME NEW first \in Nat, NEW f, Keeps(f, first), NEW extra, Linked(f, extra),
         NEW S, NEW path \in Seq(S), NEW whiteout \in BOOLEAN, path # <<>> \/ whiteout
  PROVE  LET g == Unlink(f, path, whiteout)
         IN /\ UnlinkedFrom(g, f, extra, first)
            /\ ~whiteout => Lookup(g.tree, path) = 0
PROOF
<1> DEFINE i == Lookup(f.tree, path)
           g == Unlink(f, path, whiteout)
           order == IF whiteout THEN Front(PostOrder(f.tree, i)) ELSE PostOrder(f.tree, i)
<1>1. Sound(f.tree) /\ Distinct(f.tree)
  BY DEF Keeps, SoundFormatter, Linked
<1>2. CASE i = 0
  <2>1. g = f
    BY <1>2 DEF Unlink
  <2> QED
    BY <1>2, <2>1, UnlinkedNothing
<1>3. CASE i # 0 /\ whiteout /\ ~IsDir(InodeAt(f, i))
  <2>1. g = Fails(f, "NotDirectory")
    BY <1>3 DEF Unlink
  <2> HIDE DEF g
  <2> QED
    BY <1>3, <2>1, UnlinkedNothing DEF g
<1>4. CASE i # 0 /\ ~(whiteout /\ ~IsDir(InodeAt(f, i)))
  <2>1. g = FoldLeft(Detach, f, order)
    BY <1>4 DEF Unlink
  <2>2. /\ order \in Seq(Attached(f.tree)) /\ Once(order)
        /\ ~whiteout => order # <<>> /\ order[Len(order)] = i
    BY <1>1, <1>4, UnlinkListAttached
  <2> HIDE DEF order, g, i
  <2>3. /\ \E gone : DetachedAll(g, f, extra, first, gone)
        /\ ~whiteout => ~Indexed(g.tree, f.tree.nodes[i].parent, NameOf(f.tree, i))
    BY <2>1, <2>2, DetachAllLinked
  <2>4. UnlinkedFrom(g, f, extra, first)
    BY <2>3 DEF UnlinkedFrom, DetachedAll
  <2>5. ASSUME ~whiteout, Lookup(g.tree, path) # 0 PROVE FALSE
    <3> DEFINE q == Lookup(g.tree, Front(path))
               n == Last(path)
    <3>1. Lookup(g.tree, path) = StepTo(g.tree, q, n)
      BY <2>5, LookupBelow
    <3>2. q # 0 /\ Indexed(g.tree, q, n)
      BY <2>5, <3>1 DEF StepTo
    <3>3. Lookup(f.tree, Front(path)) = q
      <4>1. FindsAtLeast(f.tree, g.tree)
        BY <2>4 DEF UnlinkedFrom, Fewer
      <4>2. Front(path) \in Seq(S)
        BY <2>5, FrontIs
      <4> QED
        BY <3>2, <4>1, <4>2, LookupStays
    <3> HIDE DEF q, n
    <3>4. f.tree.nodes[i].parent = q /\ NameOf(f.tree, i) = n
      BY <1>1, <1>4, <2>5, <3>3, FoundAttached DEF i, n
    <3> QED
      BY <2>3, <2>5, <3>2, <3>4
  <2> QED
    BY <2>4, <2>5 DEF g
<1> QED
  BY <1>2, <1>3, <1>4

\* A child i is added below p that is attached and found by its name.
Attaches(u, t, p, name, i) ==
  /\ Distinct(u)
  /\ Attached(u) = Attached(t) \cup {i}
  /\ \A j \in DOMAIN t.nodes : u.nodes[j].parent = t.nodes[j].parent
  /\ u.nodes[i].parent = p
  /\ u.index[<<p, name>>] = i
  /\ \A x : ~Indexed(u, i, x)

\* As one of a name is that its parent has no child of.
LEMMA AddAttached ==
  ASSUME NEW t, Sound(t), Distinct(t), NEW p \in DOMAIN t.nodes,
         NEW ino, NEW name, NEW blocks, NEW link, ~Indexed(t, p, name),
         NEW u, u = AddChild(t, p, Node(ino, name, blocks, link)),
         NEW i, i = Len(t.nodes) + 1
  PROVE  Attaches(u, t, p, name, i)
PROOF
<1>1. PICK X : WellFormed(X, t)
  BY DEF Sound
<1> DEFINE Y == X \cup {ino, name, blocks, link}
           node == Node(ino, name, blocks, link)
<1>2. WellFormed(Y, t)
  BY <1>1, Wider
<1>3. node \in Nodes(Y) /\ node.children = <<>> /\ node.name = name
  BY DEF Node, Nodes
<1> HIDE DEF Y, node
<1>4. u = AddChild(t, p, node)
  BY DEF node
<1>5. /\ DOMAIN u.nodes = DOMAIN t.nodes \cup {i}
      /\ i \notin DOMAIN t.nodes
      /\ \A q \in DOMAIN t.nodes :
           /\ NameOf(u, q) = NameOf(t, q) /\ u.nodes[q].parent = t.nodes[q].parent
           /\ q # p => Children(u, q) = Children(t, q)
      /\ Children(u, p) = Append(Children(t, p), i)
      /\ NameOf(u, i) = name /\ Children(u, i) = <<>> /\ u.nodes[i].parent = p
  BY <1>2, <1>3, <1>4, AddChildEffect
<1>6. Sound(u) /\ Indexed(u, p, name)
  BY AddChildSound
<1>7. /\ Children(t, p) \in Seq(Nat) /\ Len(Children(t, p)) \in Nat
      /\ DOMAIN Children(t, p) = 1 .. Len(Children(t, p))
      /\ \A q \in DOMAIN t.nodes : \A k \in DOMAIN Children(t, q) :
           Children(t, q)[k] \in DOMAIN t.nodes
      /\ i \in Nat /\ i # Root
  BY <1>5, NodesOf DEF Sound
<1> DEFINE l == Len(Children(t, p))
<1>8. /\ DOMAIN Children(u, p) = 1 .. l + 1 /\ l \in Nat
      /\ \A k \in 1 .. l : Children(u, p)[k] = Children(t, p)[k]
      /\ Children(u, p)[l + 1] = i
  <2> DEFINE c == Children(t, p)
  <2> HIDE DEF c, node
  <2>1. Children(u, p) = Append(c, i)
    BY <1>5 DEF c
  <2>2. /\ Len(c) \in Nat /\ DOMAIN Append(c, i) = 1 .. Len(c) + 1
        /\ \A k \in 1 .. Len(c) : Append(c, i)[k] = c[k]
        /\ Append(c, i)[Len(c) + 1] = i
    BY <1>7, AppendIs DEF c
  <2> QED
    BY <2>1, <2>2 DEF c
<1> HIDE DEF l
<1>l. DOMAIN Children(t, p) = 1 .. l
  BY <1>7 DEF l
\* No child of p has the name.
<1>9. \A k \in DOMAIN Children(t, p) : NameOf(t, Children(t, p)[k]) # name
  BY DEF Sound, IndexExact
<1>10. ASSUME NEW q \in DOMAIN u.nodes, NEW k \in DOMAIN Children(u, q)
       PROVE  \/ q = p /\ k = l + 1 /\ Children(u, q)[k] = i
              \/ /\ q \in DOMAIN t.nodes /\ k \in DOMAIN Children(t, q)
                 /\ Children(u, q)[k] = Children(t, q)[k]
  <2>1. CASE q = i
    BY <1>5, <1>10, <2>1
  <2>2. CASE q = p
    <3>1. k \in 1 .. l \/ k = l + 1
      BY <1>8, <1>10, <2>2
    <3> QED
      BY <1>8, <1>l, <2>2, <3>1
  <2>3. CASE q # i /\ q # p
    BY <1>5, <1>10, <2>3
  <2> QED
    BY <2>1, <2>2, <2>3
<1>11. Distinct(u)
  <2> SUFFICES ASSUME NEW q \in DOMAIN u.nodes, NEW k \in DOMAIN Children(u, q)
               PROVE  /\ u.nodes[Children(u, q)[k]].parent = q
                      /\ \A m \in DOMAIN Children(u, q) :
                           NameOf(u, Children(u, q)[k]) = NameOf(u, Children(u, q)[m]) => k = m
    BY DEF Distinct
  <2>1. u.nodes[Children(u, q)[k]].parent = q
    BY <1>5, <1>7, <1>10 DEF Distinct
  <2>2. ASSUME NEW m \in DOMAIN Children(u, q),
               NameOf(u, Children(u, q)[k]) = NameOf(u, Children(u, q)[m])
        PROVE  k = m
    <3>1. CASE /\ q \in DOMAIN t.nodes /\ k \in DOMAIN Children(t, q)
               /\ Children(u, q)[k] = Children(t, q)[k]
               /\ m \in DOMAIN Children(t, q)
               /\ Children(u, q)[m] = Children(t, q)[m]
      <4>1. NameOf(t, Children(t, q)[k]) = NameOf(t, Children(t, q)[m])
        BY <1>5, <1>7, <2>2, <3>1
      <4> QED
        BY <3>1, <4>1 DEF Distinct
    <3>2. CASE q = p /\ k = l + 1 /\ m = l + 1
      BY <3>2
    <3>3. CASE /\ q = p /\ k = l + 1 /\ Children(u, q)[k] = i
               /\ m \in DOMAIN Children(t, q) /\ Children(u, q)[m] = Children(t, q)[m]
      BY <1>5, <1>7, <1>9, <2>2, <3>3
    <3>4. CASE /\ q = p /\ m = l + 1 /\ Children(u, q)[m] = i
               /\ k \in DOMAIN Children(t, q) /\ Children(u, q)[k] = Children(t, q)[k]
      BY <1>5, <1>7, <1>9, <2>2, <3>4
    <3> QED
      BY <1>10, <2>2, <3>1, <3>2, <3>3, <3>4
  <2> QED
    BY <2>1, <2>2
<1>12. ASSUME NEW j \in DOMAIN t.nodes \ {Root}
       PROVE  Listed(u, u.nodes[j].parent, j) <=> Listed(t, t.nodes[j].parent, j)
  <2> DEFINE q == t.nodes[j].parent
  <2>1. u.nodes[j].parent = q /\ j # i /\ q \in DOMAIN t.nodes /\ q \in DOMAIN u.nodes
    BY <1>5 DEF Sound
  <2>2. Listed(u, q, j) => Listed(t, q, j)
    BY <1>10, <2>1 DEF Listed
  <2>3. Listed(t, q, j) => Listed(u, q, j)
    <3>1. CASE q = p
      <4>1. \A k \in DOMAIN Children(t, p) :
              k \in DOMAIN Children(u, p) /\ Children(u, p)[k] = Children(t, p)[k]
        BY <1>8, <1>l
      <4> QED
        BY <3>1, <4>1 DEF Listed
    <3>2. CASE q # p
      BY <1>5, <2>1, <3>2 DEF Listed
    <3> QED
      BY <3>1, <3>2
  <2> HIDE DEF q
  <2> QED
    BY <2>1, <2>2, <2>3 DEF q
<1>13. Listed(u, p, i)
  BY <1>8 DEF Listed
<1>14. Attached(u) = Attached(t) \cup {i}
  BY <1>5, <1>7, <1>12, <1>13 DEF Attached
<1>15. u.index[<<p, name>>] = i
  <2>1. FirstNamed(u, p, name, u.index[<<p, name>>])
    BY <1>6 DEF Sound, IndexExact, Indexed
  <2>2. PICK k \in DOMAIN Children(u, p) :
          Children(u, p)[k] = u.index[<<p, name>>] /\ NameOf(u, Children(u, p)[k]) = name
    BY <2>1 DEF FirstNamed, Positions
  <2>3. k \notin DOMAIN Children(t, p) \/ Children(u, p)[k] # Children(t, p)[k]
    BY <1>5, <1>7, <1>9, <2>2
  <2>4. p \in DOMAIN u.nodes
    BY <1>5
  <2> QED
    BY <1>10, <2>2, <2>3, <2>4
<1>16. ASSUME NEW x, Indexed(u, i, x) PROVE FALSE
  <2>1. FirstNamed(u, i, x, u.index[<<i, x>>])
    BY <1>6, <1>16 DEF Sound, IndexExact, Indexed
  <2>2. DOMAIN Children(u, i) = {}
    BY <1>5
  <2> QED
    BY <2>1, <2>2 DEF FirstNamed, Positions
<1> QED
  BY <1>5, <1>11, <1>14, <1>15, <1>16 DEF Attaches

\* Node p is a directory, or what is left of one.
UnderDirectory(f, p) ==
  LET n == f.tree.nodes[p].inode
  IN n < FirstInode \/ f.inodes[n].kind \in {"dir", "none"}

\* The counts that a further name for inode x calls for.
CountsFor(g, f, x) ==
  \A n \in DOMAIN g.inodes : n >= FirstInode =>
    Counts(g.inodes[n], Cardinality(NamesOf(f, n)) + (IF n = x THEN 1 ELSE 0))

\* A new node keeps the links right when its inode counts it.
LEMMA AddNodeLinked ==
  ASSUME NEW first \in Nat, NEW f, Keeps(f, first), Distinct(f.tree), Hanging(f), Reserved(f),
         NEW g, Keeps(g, first), NEW p \in DOMAIN f.tree.nodes,
         NEW ino, NEW name, NEW blocks, NEW link, ~Indexed(f.tree, p, name),
         g.tree = AddChild(f.tree, p, Node(ino, name, blocks, link)),
         link # 0 => ino < FirstInode,
         UnderDirectory(f, p),
         DOMAIN f.inodes \subseteq DOMAIN g.inodes,
         \A n \in DOMAIN f.inodes : g.inodes[n].kind = f.inodes[n].kind,
         CountsFor(g, f, IF link # 0 THEN link ELSE ino)
  PROVE  Linked(g, 0)
PROOF
<1> DEFINE t == f.tree
           u == g.tree
           i == Len(t.nodes) + 1
           x == IF link # 0 THEN link ELSE ino
<1>1. Sound(t) /\ Sound(u) /\ Distinct(t)
  BY DEF Keeps, SoundFormatter
<1>2. /\ Distinct(u)
      /\ Attached(u) = Attached(t) \cup {i}
      /\ \A j \in DOMAIN t.nodes : u.nodes[j].parent = t.nodes[j].parent
      /\ u.nodes[i].parent = p
  <2>1. /\ u = AddChild(t, p, Node(ino, name, blocks, link)) /\ i = Len(t.nodes) + 1
        /\ ~Indexed(t, p, name) /\ p \in DOMAIN t.nodes
    OBVIOUS
  <2> HIDE DEF t, u, i
  <2>2. Attaches(u, t, p, name, i)
    BY <1>1, <2>1, AddAttached
  <2> QED
    BY <2>2 DEF Attaches
<1>3. /\ DOMAIN u.nodes = DOMAIN t.nodes \cup {i} /\ i \notin DOMAIN t.nodes /\ i # Root
      /\ \A j \in DOMAIN t.nodes : SameNode(u.nodes[j], t.nodes[j])
      /\ SameNode(u.nodes[i], Node(ino, name, blocks, link))
  <2> HIDE DEF t
  <2> QED
    BY <1>1, AddChildKeeps DEF t
<1> HIDE DEF i
<1>4. u.nodes[i].inode = ino /\ u.nodes[i].link = link /\ Refers(g, i) = x
  BY <1>3 DEF SameNode, Node, Refers
<1>5. \A n \in DOMAIN g.inodes : n >= FirstInode => CountedAt(g, 0, n)
  <2> SUFFICES ASSUME NEW n \in DOMAIN g.inodes, n >= FirstInode PROVE CountedAt(g, 0, n)
    OBVIOUS
  <2> DEFINE was == Cardinality(NamesOf(f, n))
             is == Cardinality(NamesOf(g, n))
  <2>1. /\ was \in Nat /\ is \in Nat
        /\ n = x => is = was + 1
        /\ n # x => is = was
    <3> HIDE DEF t, u, x
    <3> QED
      BY <1>1, <1>2, <1>3, <1>4, NamesMore DEF t, u
  <2>2. Counts(g.inodes[n], was + (IF n = x THEN 1 ELSE 0))
    BY DEF CountsFor
  <2>3. n # 0
    BY DEF FirstInode
  <2> HIDE DEF was, is, x
  <2>4. is + (IF n = 0 THEN 1 ELSE 0) = was + (IF n = x THEN 1 ELSE 0)
    BY <2>1, <2>3
  <2>5. Counts(g.inodes[n], is + (IF n = 0 THEN 1 ELSE 0))
    BY <2>2, <2>4
  <2> QED
    BY <2>5 DEF CountedAt, is
<1> HIDE DEF x
<1>6. Hanging(g)
  <2> SUFFICES ASSUME NEW j \in DOMAIN u.nodes \ {Root}
               PROVE  UnderDirectory(g, u.nodes[j].parent)
    BY DEF Hanging, UnderDirectory
  <2>1. ASSUME NEW q \in DOMAIN t.nodes, UnderDirectory(f, q)
        PROVE  UnderDirectory(g, q)
    <3> DEFINE n == t.nodes[q].inode
    <3>1. n \in DOMAIN f.inodes
      BY DEF Keeps, Owned, NodeOwned
    <3>2. u.nodes[q].inode = n
      BY <1>3 DEF SameNode
    <3>3. g.inodes[n].kind = f.inodes[n].kind
      BY <3>1
    <3> HIDE DEF n
    <3> QED
      BY <2>1, <3>2, <3>3 DEF UnderDirectory, n
  <2>2. CASE j = i
    BY <1>2, <2>1, <2>2
  <2>3. CASE j # i
    <3>1. j \in DOMAIN t.nodes \ {Root} /\ t.nodes[j].parent \in DOMAIN t.nodes
      BY <1>1, <1>3, <2>3 DEF Sound
    <3>2. UnderDirectory(f, t.nodes[j].parent)
      BY <3>1 DEF Hanging, UnderDirectory
    <3> QED
      BY <1>2, <2>1, <3>1, <3>2
  <2> QED
    BY <2>2, <2>3
<1>7. Reserved(g)
  <2> SUFFICES ASSUME NEW j \in DOMAIN u.nodes
               PROVE  /\ j = Root => u.nodes[j].link = 0
                      /\ j = Root \/ u.nodes[j].link # 0 => u.nodes[j].inode < FirstInode
    BY DEF Reserved
  <2>1. CASE j = i
    BY <1>3, <1>4, <2>1
  <2>2. CASE j # i
    BY <1>3, <2>2 DEF Reserved, SameNode
  <2> QED
    BY <2>1, <2>2
<1> QED
  BY <1>2, <1>5, <1>6, <1>7 DEF Linked

\* What was made is found below p, with nothing below it.
NewChild(g, p, name, kind) ==
  LET i == g.tree.index[<<p, name>>]
  IN /\ i \in DOMAIN g.tree.nodes
     /\ InodeAt(g, i).kind = kind
     /\ \A x : ~Indexed(g.tree, i, x)

\* A new inode and its node.
LEMMA RegisterLinked ==
  ASSUME NEW first \in Nat, NEW f, Keeps(f, first), Linked(f, 0),
         NEW p \in DOMAIN f.tree.nodes, IsDir(InodeAt(f, p)),
         NEW name, ~Indexed(f.tree, p, name),
         NEW inode, Shaped(inode), inode.kind # "none",
         inode.links = IF IsDir(inode) THEN 2 ELSE 1,
         NEW blocks, Keeps(Register(f, p, name, inode, blocks), first)
  PROVE  LET g == Register(f, p, name, inode, blocks)
         IN /\ Linked(g, 0)
            /\ g.err = "MaximumLinksExceeded" \/ NewChild(g, p, name, inode.kind)
PROOF
<1> DEFINE g == Register(f, p, name, inode, blocks)
           up == f.tree.nodes[p].inode
           more == IF IsDir(inode)
                      THEN [f.inodes EXCEPT ![up].links = f.inodes[up].links + 1]
                   ELSE f.inodes
           new == IF inode.owner = "inherit"
                  THEN [inode EXCEPT !.owner = f.inodes[up].owner] ELSE inode
           x == Len(f.inodes) + 1
           u == AddChild(f.tree, p, Node(x, name, blocks, 0))
<1>1. /\ Fields \subseteq DOMAIN f /\ InodesListed(f) /\ Sound(f.tree)
      /\ \A j \in DOMAIN f.tree.nodes : NodeOwned(f, first, j)
  BY DEF Keeps, Owned, SoundFormatter
<1>2. CASE f.inodes[up].links >= MaxLinks
  <2>1. g = Fails(f, "MaximumLinksExceeded")
    BY <1>2 DEF Register
  <2>2. g.err = "MaximumLinksExceeded"
    BY <1>1, <2>1 DEF Fails, Fields
  <2>3. Linked(g, 0)
    BY <2>1, UnlinkedNothing DEF UnlinkedFrom
  <2> QED
    BY <2>2, <2>3
<1>3. CASE ~(f.inodes[up].links >= MaxLinks)
  <2>1. g = [f EXCEPT !.inodes = Append(more, new), !.tree = u]
    BY <1>3 DEF Register
  <2>2. g.inodes = Append(more, new) /\ g.tree = u
    <3> HIDE DEF u, more, new
    <3> QED
      BY <1>1, <2>1 DEF Fields
  <2>3. new.kind = inode.kind /\ new.links = inode.links
    BY DEF Shaped
  <2>4. up \in DOMAIN f.inodes /\ f.inodes[up].kind = "dir"
    BY <1>1 DEF NodeOwned, InodeAt, IsDir
  <2>5. /\ \E X : more \in Seq(X)
        /\ Len(more) = Len(f.inodes)
        /\ \A n \in DOMAIN f.inodes :
             /\ more[n].kind = f.inodes[n].kind
             /\ more[n].links = f.inodes[n].links
                \/ (n = up /\ more[n].links = f.inodes[n].links + 1)
    <3>1. CASE IsDir(inode)
      <4> DEFINE v == f.inodes[up].links + 1
                 inodes == [f.inodes EXCEPT ![up].links = v]
      <4>1. more = inodes
        BY <3>1
      <4> HIDE DEF v
      <4>2. /\ \E X : inodes \in Seq(X)
            /\ Len(inodes) = Len(f.inodes)
            /\ \A n \in DOMAIN f.inodes :
                 Shaped(inodes[n]) /\ SameData(inodes[n], f.inodes[n])
        BY <1>1, LinksChange
      <4>3. \A n \in DOMAIN f.inodes : Shaped(f.inodes[n])
        BY <1>1 DEF InodesListed
      <4>4. ASSUME NEW n \in DOMAIN f.inodes
            PROVE  /\ inodes[n].kind = f.inodes[n].kind
                   /\ inodes[n].links = f.inodes[n].links
                      \/ (n = up /\ inodes[n].links = f.inodes[n].links + 1)
        <5>1. CASE n = up
          <6>1. inodes[n] = [f.inodes[n] EXCEPT !.links = v]
            BY <5>1
          <6> QED
            BY <4>3, <5>1, <6>1 DEF Shaped, v
        <5>2. CASE n # up
          BY <5>2
        <5> QED
          BY <5>1, <5>2
      <4> HIDE DEF more, inodes
      <4> QED
        BY <4>1, <4>2, <4>4
    <3>2. CASE ~IsDir(inode)
      BY <1>1, <3>2 DEF InodesListed
    <3> QED
      BY <3>1, <3>2
  <2> DEFINE l == Len(f.inodes)
  <2>6. l \in Nat /\ l >= FirstInode - 1 /\ DOMAIN f.inodes = 1 .. l
    BY <1>1, InodesAre DEF InodesListed
  <2>7. /\ DOMAIN g.inodes = 1 .. l + 1
        /\ \A n \in 1 .. l : g.inodes[n] = more[n]
        /\ g.inodes[x] = new
    <3>1. PICK X : more \in Seq(X)
      BY <2>5
    <3> HIDE DEF more, new, l
    <3>2. /\ DOMAIN Append(more, new) = 1 .. Len(more) + 1
          /\ \A k \in 1 .. Len(more) : Append(more, new)[k] = more[k]
          /\ Append(more, new)[Len(more) + 1] = new
      BY <3>1, AppendIs
    <3> QED
      BY <2>2, <2>5, <3>2 DEF l
  <2> HIDE DEF g, u, more, new, up
  <2>8. NamesOf(f, x) = {}
    <3>1. \A j \in DOMAIN f.tree.nodes : Refers(f, j) \in DOMAIN f.inodes
      BY <1>1 DEF NodeOwned, Refers
    <3> QED
      BY <2>6, <3>1 DEF NamesOf, Attached
  <2>9. CountsFor(g, f, x)
    <3> SUFFICES ASSUME NEW n \in DOMAIN g.inodes, n >= FirstInode
                 PROVE  Counts(g.inodes[n],
                               Cardinality(NamesOf(f, n)) + (IF n = x THEN 1 ELSE 0))
      BY DEF CountsFor
    <3>1. CASE n = x
      <4>1. Cardinality(NamesOf(f, n)) = 0
        BY <2>8, <3>1, FS_EmptySet
      <4>2. Cardinality(NamesOf(f, n)) + (IF n = x THEN 1 ELSE 0) = 1
        BY <3>1, <4>1
      <4>3. g.inodes[n].kind = inode.kind /\ g.inodes[n].links = inode.links
        BY <2>3, <2>7, <3>1
      <4>4. Counts(g.inodes[n], 1)
        BY <4>3 DEF Counts, IsDir
      <4> QED
        BY <4>2, <4>4
    <3>2. CASE n # x
      <4> DEFINE k == Cardinality(NamesOf(f, n))
      <4>1. n \in DOMAIN f.inodes /\ g.inodes[n] = more[n]
        BY <2>6, <2>7, <3>2
      <4>2. Counts(f.inodes[n], k + (IF n = 0 THEN 1 ELSE 0))
        BY <4>1 DEF Linked, CountedAt
      <4>3. k \in Nat
        BY <1>1, NamesFinite
      <4> HIDE DEF k
      <4>4. k + (IF n = 0 THEN 1 ELSE 0) = k /\ k + (IF n = x THEN 1 ELSE 0) = k
        BY <2>6, <3>2, <4>1, <4>3
      <4>5. Counts(f.inodes[n], k)
        BY <4>2, <4>4
      <4>6. Counts(g.inodes[n], k)
        <5>1. /\ g.inodes[n].kind = f.inodes[n].kind
              /\ g.inodes[n].links = f.inodes[n].links
                 \/ (n = up /\ g.inodes[n].links = f.inodes[n].links + 1)
          BY <2>5, <4>1
        <5>2. CASE g.inodes[n].links = f.inodes[n].links
          BY <4>5, <5>1, <5>2 DEF Counts
        <5>3. CASE n = up /\ g.inodes[n].links = f.inodes[n].links + 1
          <6>1. f.inodes[n].kind = "dir"
            BY <2>4, <5>3
          <6> QED
            BY <4>3, <4>5, <5>1, <5>3, <6>1 DEF Counts
        <5> QED
          BY <5>1, <5>2, <5>3
      <4>7. Counts(g.inodes[n], k + (IF n = x THEN 1 ELSE 0))
        BY <4>4, <4>6
      <4> QED
        BY <4>7 DEF k
    <3> QED
      BY <3>1, <3>2
  <2>10. Linked(g, 0)
    <3>1. UnderDirectory(f, p)
      BY <2>4 DEF UnderDirectory, up
    <3>2. /\ DOMAIN f.inodes \subseteq DOMAIN g.inodes
          /\ \A n \in DOMAIN f.inodes : g.inodes[n].kind = f.inodes[n].kind
      BY <2>5, <2>6, <2>7
    <3>3. CountsFor(g, f, IF 0 # 0 THEN 0 ELSE x)
      BY <2>9
    <3>4. Keeps(g, first)
      BY DEF g
    <3>5. g.tree = AddChild(f.tree, p, Node(x, name, blocks, 0))
      BY <2>2 DEF u
    <3> HIDE DEF x
    <3> QED
      BY <3>1, <3>2, <3>3, <3>4, <3>5, AddNodeLinked DEF Linked
  <2>11. NewChild(g, p, name, inode.kind)
    <3> DEFINE i == Len(f.tree.nodes) + 1
    <3>1. u.index[<<p, name>>] = i /\ \A y : ~Indexed(u, i, y)
      <4> DEFINE t == f.tree
      <4>1. /\ u = AddChild(t, p, Node(x, name, blocks, 0)) /\ i = Len(t.nodes) + 1
            /\ ~Indexed(t, p, name) /\ p \in DOMAIN t.nodes /\ Sound(t) /\ Distinct(t)
        BY <1>1 DEF u, Linked
      <4> HIDE DEF t, i, x
      <4>2. Attaches(u, t, p, name, i)
        BY <4>1, AddAttached
      <4> QED
        BY <4>2 DEF Attaches
    <3>2. i \in DOMAIN u.nodes /\ u.nodes[i].inode = x
      <4>1. i \in DOMAIN u.nodes /\ SameNode(u.nodes[i], Node(x, name, blocks, 0))
        BY <1>1, AddChildKeeps DEF u
      <4> QED
        BY <4>1 DEF SameNode, Node
    <3> HIDE DEF i
    <3> QED
      BY <2>2, <2>3, <2>7, <3>1, <3>2 DEF NewChild, InodeAt
  <2> QED
    BY <2>10, <2>11 DEF g
<1> QED
  BY <1>2, <1>3

\* An entry below directory p.
LEMMA AddLinked ==
  ASSUME NEW first \in Nat, NEW f, Keeps(f, first), Linked(f, 0),
         NEW p \in DOMAIN f.tree.nodes, IsDir(InodeAt(f, p)),
         NEW name \in DOMAIN NameBytes, ~Indexed(f.tree, p, name),
         NEW e, Makes(e)
  PROVE  LET g == Add(f, p, name, e)
         IN /\ Linked(g, 0)
            /\ \/ g.err \in {"MaximumLinksExceeded", "FileTooBig"}
               \/ NewChild(g, p, name, e.kind)
PROOF
<1> DEFINE g == Add(f, p, name, e)
           fresh == Fresh(e)
<1>1. /\ DOMAIN fresh = {"kind", "mode", "owner", "time", "links", "root", "size",
                         "target", "dtime"}
      /\ fresh.kind = e.kind /\ fresh.links = 1
  BY DEF Fresh, Unused
<1> HIDE DEF fresh
<1>2. Keeps(g, first)
  BY AddKeeps
<1>3. e.kind # "none"
  BY DEF Makes
<1>4. CASE e.kind = "dir"
  <2> DEFINE inode == [fresh EXCEPT !.links = 2]
  <2>1. g = Register(f, p, name, inode, {})
    BY <1>4 DEF Add, fresh
  <2>2. Shaped(inode) /\ inode.kind = e.kind /\ inode.links = 2
    BY <1>1 DEF Shaped
  <2> HIDE DEF inode, g
  <2>3. inode.links = IF IsDir(inode) THEN 2 ELSE 1
    BY <1>4, <2>2 DEF IsDir
  <2> DEFINE none == {}
  <2>4. g = Register(f, p, name, inode, none)
    BY <2>1
  <2> HIDE DEF none
  <2>5. /\ Linked(g, 0)
        /\ g.err = "MaximumLinksExceeded" \/ NewChild(g, p, name, inode.kind)
    BY <1>2, <1>3, <2>2, <2>3, <2>4, RegisterLinked
  <2> QED
    BY <2>2, <2>5 DEF g
<1>5. CASE e.kind # "dir" /\ e.kind = "file" /\ e.size > MaxFileSize
  <2>1. PICK why \in {"FileTooBig", "MaximumLinksExceeded"} : g = Fails(f, why)
    BY <1>5 DEF Add
  <2>2. g.err = why
    BY <2>1 DEF Fails, Keeps, Owned, Fields
  <2>3. Linked(g, 0)
    BY <2>1, UnlinkedNothing DEF UnlinkedFrom
  <2> QED
    BY <2>2, <2>3
<1>6. CASE e.kind # "dir" /\ ~(e.kind = "file" /\ e.size > MaxFileSize)
  <2> DEFINE count == IF e.kind = "symlink" /\ e.size < InlineBytes THEN 0
                      ELSE CeilDiv(e.size, BlockSize)
             data == [k \in 1 .. count |-> <<e.data, k>>]
             tree == Extents(f.cur, count, f.cur + count)
             h == Write(f, data \o tree.blocks)
             target == IF e.kind = "symlink" /\ count = 0 THEN e.data ELSE <<>>
             inode == [fresh EXCEPT !.root = tree.root, !.size = e.size, !.target = target]
             span == Span(f.cur, count)
  <2>1. g = Register(h, p, name, inode, span)
    BY <1>6 DEF Add, WithData, fresh
  <2>2. count \in Nat
    <3>1. BlockSize \in Nat \ {0}
      BY BlockSizeAssumption
    <3>2. CeilDiv(e.size, BlockSize) \in Nat
      BY <3>1, CutPoints DEF Makes
    <3> QED
      BY <3>2
  <2>3. Shaped(inode) /\ inode.kind = e.kind /\ inode.links = 1
    <3> HIDE DEF target, tree
    <3> QED
      BY <1>1 DEF Shaped
  <2> HIDE DEF inode, count
  <2>4. data \in Seq({<<e.data, k>> : k \in Nat}) /\ Len(data) = count
    <3> DEFINE X == {<<e.data, k>> : k \in Nat}
    <3>1. \A k \in 1 .. count : <<e.data, k>> \in X
      BY <2>2
    <3> HIDE DEF X
    <3>2. [k \in 1 .. count |-> <<e.data, k>>] \in Seq(X)
      BY <2>2, <3>1
    <3>3. Len([k \in 1 .. count |-> <<e.data, k>>]) = count
      BY <2>2
    <3> QED
      BY <3>2, <3>3 DEF X
  <2> HIDE DEF data
  <2>5. Wrote(h, f, first)
    BY <2>4, FileWrote
  <2> HIDE DEF h, g, span
  <2>6. Keeps(h, first) /\ h.tree = f.tree /\ h.inodes = f.inodes
    BY <2>5, WroteKeeps DEF Wrote
  <2>7. Linked(h, 0)
    BY <2>6, ParentInode, SameLinked
  <2>8. /\ p \in DOMAIN h.tree.nodes /\ IsDir(InodeAt(h, p))
        /\ ~Indexed(h.tree, p, name)
    BY <2>6 DEF InodeAt
  <2>9. inode.links = IF IsDir(inode) THEN 2 ELSE 1
    BY <1>6, <2>3 DEF IsDir
  <2>10. /\ Linked(g, 0)
         /\ g.err = "MaximumLinksExceeded" \/ NewChild(g, p, name, inode.kind)
    BY <1>2, <1>3, <2>1, <2>3, <2>6, <2>7, <2>8, <2>9, RegisterLinked
  <2> QED
    BY <2>3, <2>10 DEF g
<1> QED
  BY <1>4, <1>5, <1>6

\* The links are right, and the next name of path, the m-th, can be made below
\* what the names before it lead to.
Ready(f, path, m) ==
  LET p == Lookup(f.tree, SubSeq(path, 1, m - 1))
  IN /\ Linked(f, 0)
     /\ p \in DOMAIN f.tree.nodes /\ IsDir(InodeAt(f, p))
     /\ ~Indexed(f.tree, p, path[m])

\* They are unless something failed.
ReadyIf(f, path, m) == f.err = "" => Ready(f, path, m)

\* Once it is made, so can the one after it.
LEMMA MakeOneLinked ==
  ASSUME NEW first \in Nat, NEW path \in Seq(DOMAIN NameBytes),
         NEW f, Keeps(f, first), Linked(f, 0), NEW m \in 1 .. Len(path) - 1,
         ReadyIf(f, path, m)
  PROVE  LET g == MakeOneOf(path, f, m)
         IN Keeps(g, first) /\ Linked(g, 0) /\ ReadyIf(g, path, m + 1)
PROOF
<1> DEFINE g == MakeOneOf(path, f, m)
           v == SubSeq(path, 1, m - 1)
           w == SubSeq(path, 1, m)
           p == Lookup(f.tree, v)
           name == path[m]
<1>0. /\ Len(path) \in Nat /\ m \in 1 .. Len(path) /\ (m + 1) - 1 = m
      /\ name \in DOMAIN NameBytes
  <2>1. Len(path) \in Nat /\ \A k \in 1 .. Len(path) : path[k] \in DOMAIN NameBytes
    OBVIOUS
  <2>2. m \in 1 .. Len(path) /\ (m + 1) - 1 = m
    BY <2>1
  <2> QED
    BY <2>1, <2>2
<1>1. CASE f.err # ""
  <2>1. g = f
    BY <1>1 DEF MakeOneOf
  <2> HIDE DEF g
  <2> QED
    BY <1>1, <2>1 DEF ReadyIf, g
<1>2. CASE f.err = ""
  <2>1. /\ w \in Seq(DOMAIN NameBytes) /\ w # <<>> /\ Front(w) = v /\ Last(w) = name
        /\ v \in Seq(DOMAIN NameBytes)
    BY <1>0, PrefixIs
  <2>2. /\ Linked(f, 0) /\ p \in DOMAIN f.tree.nodes /\ IsDir(InodeAt(f, p))
        /\ ~Indexed(f.tree, p, name)
    BY <1>2 DEF Ready, ReadyIf
  <2>3. g = Add(f, p, name, Implied)
    BY <1>2 DEF MakeOneOf
  <2> HIDE DEF g, p, v, w, name
  <2>4. Makes(Implied) /\ Implied.kind = "dir"
    BY DEF Makes, Implied
  <2>5. Keeps(g, first) /\ Linked(g, 0)
    BY <1>0, <2>2, <2>3, <2>4, AddKeeps, AddLinked
  <2>6. ASSUME g.err = ""
        PROVE  Ready(g, path, m + 1)
    <3>1. g.err \notin {"MaximumLinksExceeded", "FileTooBig"}
      BY <2>6
    <3>x. Indexed(g.tree, p, name)
      BY <2>2, <2>3, <2>6, AddSound DEF Grown, Keeps
    <3>2. Linked(g, 0) /\ NewChild(g, p, name, "dir")
      BY <1>0, <2>2, <2>3, <2>4, <3>1, AddLinked
    <3>3. FindsAtLeast(g.tree, f.tree) /\ Indexed(g.tree, p, name)
      BY <2>2, <2>3, <3>x, AddSound DEF Grown, Keeps
    <3>4. p # 0
      <4>1. p \in 1 .. Len(f.tree.nodes) /\ Len(f.tree.nodes) \in Nat
        BY <2>2, NodesOf DEF Keeps, SoundFormatter
      <4> QED
        BY <4>1
    <3>5. Lookup(g.tree, v) = p
      BY <2>1, <3>3, <3>4, LookupStays DEF p
    <3>6. Lookup(g.tree, w) = g.tree.index[<<p, name>>]
      BY <2>1, <3>3, <3>4, <3>5, LookupBelow DEF StepTo
    <3> DEFINE q == Lookup(g.tree, w)
    <3>7. q \in DOMAIN g.tree.nodes /\ IsDir(InodeAt(g, q)) /\ ~Indexed(g.tree, q, path[m + 1])
      BY <3>2, <3>6 DEF NewChild, IsDir
    <3>8. SubSeq(path, 1, (m + 1) - 1) = w
      BY <1>0 DEF w
    <3> HIDE DEF q
    <3>9. Lookup(g.tree, SubSeq(path, 1, (m + 1) - 1)) = q
      BY <3>8 DEF q
    <3> QED
      BY <3>2, <3>7, <3>9 DEF Ready
  <2> QED
    BY <2>5, <2>6 DEF g, ReadyIf
<1> QED
  BY <1>1, <1>2
=============================================================================
