-------------------------- MODULE Ext4LayoutProofs --------------------------
(***************************************************************************)
(* Theorems about the finished image.  Layout: the tables, the bitmaps and *)
(* the data of the groups are apart and within the image, and what their   *)
(* descriptors count adds up.  With the invariant of the making of an      *)
(* image they give one owner for every block, directories filled with      *)
(* records, counts that are those of the bitmaps, inodes and data that the *)
(* reader finds again, links that count names, and bits for all that is    *)
(* used.                                                                   *)
(***************************************************************************)
EXTENDS Ext4BlocksProofs

-----------------------------------------------------------------------------
(* The layout of an image.                                                 *)

\* A set of numbers has a least one.
LEMMA LeastOf ==
  ASSUME NEW S \in SUBSET Nat, S # {}
  PROVE  \E m \in S : \A n \in S : m <= n
PROOF
<1>1. PICK k : k \in S
  OBVIOUS
<1>2. k \in Nat
  BY <1>1
<1> DEFINE P == {j + 1 : j \in {j \in S : j <= k}}
<1>3. P \in SUBSET (1 .. k + 1) /\ P # {} /\ k + 1 \in Nat
  BY <1>1, <1>2
<1>4. Min(P) \in P /\ \A j \in P : Min(P) <= j
  BY <1>3, LeastExists
<1>5. PICK m \in S : m <= k /\ Min(P) = m + 1
  BY <1>4
<1>6. ASSUME NEW n \in S PROVE m <= n
  <2>1. CASE n <= k
    <3>1. n + 1 \in P
      BY <2>1
    <3> HIDE DEF P
    <3>2. m + 1 <= n + 1 /\ m \in Nat /\ n \in Nat
      BY <1>4, <1>5, <3>1
    <3> QED
      BY <3>2
  <2>2. CASE ~(n <= k)
    <3>1. m \in Nat /\ n \in Nat /\ m <= k
      BY <1>5
    <3> QED
      BY <1>2, <2>2, <3>1
  <2> QED
    BY <2>1, <2>2
<1> QED
  BY <1>5, <1>6

\* Enough boxes for all.
LEMMA BoxesHold ==
  ASSUME NEW n \in Nat, NEW d \in Nat \ {0}
  PROVE  /\ CeilDiv(n, d) \in Nat /\ n <= CeilDiv(n, d) * d
         /\ CeilDiv(n, d) * d < n + d
         /\ n > 0 => CeilDiv(n, d) > 0
PROOF
<1> DEFINE q == (n + d - 1) \div d
<1>1. n + d - 1 \in Nat
  OBVIOUS
<1>2. q \in Nat /\ d * q <= n + d - 1 /\ n + d - 1 < d * q + d
  BY <1>1, DivMod
<1> HIDE DEF q
<1>3. d * q = q * d /\ d * q \in Nat
  BY <1>2
<1>4. n <= q * d /\ q * d < n + d
  BY <1>2, <1>3
<1>5. n > 0 => q > 0
  <2>1. q = 0 => q * d = 0
    OBVIOUS
  <2> QED
    BY <1>2, <1>4, <2>1
<1> QED
  BY <1>2, <1>4, <1>5 DEF CeilDiv, q

\* More things fill as many boxes or more.
LEMMA BoxesGrow ==
  ASSUME NEW d \in Nat \ {0}, NEW k \in Nat, NEW n \in Nat, k * d < n
  PROVE  k + 1 <= CeilDiv(n, d)
PROOF
<1> DEFINE c == CeilDiv(n, d)
<1>1. c \in Nat /\ n <= c * d
  BY BoxesHold
<1> HIDE DEF c
<1>2. ASSUME c <= k PROVE FALSE
  <2>1. c * d <= k * d /\ c * d \in Nat /\ k * d \in Nat
    BY <1>1, <1>2
  <2> QED
    BY <1>1, <2>1
<1>3. k + 1 <= c
  BY <1>1, <1>2
<1> QED
  BY <1>3 DEF c

\* More takes no fewer.
LEMMA BoxesKeepOrder ==
  ASSUME NEW d \in Nat \ {0}, NEW a \in Nat, NEW b \in Nat, a <= b
  PROVE  CeilDiv(a, d) <= CeilDiv(b, d)
PROOF
<1> DEFINE x == CeilDiv(a, d)
           y == CeilDiv(b, d)
<1>1. x \in Nat /\ y \in Nat /\ x * d < a + d /\ b <= y * d
  BY BoxesHold
<1> HIDE DEF x, y
<1>2. ASSUME y + 1 <= x PROVE FALSE
  <2>1. (y + 1) * d <= x * d
    BY <1>1, <1>2
  <2>2. (y + 1) * d = y * d + d /\ y * d \in Nat /\ x * d \in Nat
    BY <1>1
  <2> QED
    BY <1>1, <2>1, <2>2
<1>3. x <= y
  BY <1>1, <1>2
<1> QED
  BY <1>3 DEF x, y

\* The groups that optimize_block_group_layout() chooses hold all blocks and
\* all inodes, and their own tables and bitmaps besides.
LEMMA OptimizeHolds ==
  ASSUME NEW blocks \in Nat, NEW inodes \in Nat \ {0}
  PROVE  LET o == Optimize(blocks, inodes)
             per == BlocksPerGroup - o.inodes \div InodesPerBlock - 2
         IN /\ o.inodes \in InodesPerGroup
            /\ o.groups \in Nat \ {0}
            /\ per \in Nat \ {0}
            /\ blocks <= o.groups * per
            /\ inodes <= o.groups * o.inodes
PROOF
<1> DEFINE PerGroup(n) == BlocksPerGroup - n \div InodesPerBlock - 2
           Wanted(n) == Greatest(blocks, ((inodes - 1) \div n) * PerGroup(n) + 1)
           Groups(n) == CeilDiv(Wanted(n), PerGroup(n))
           Best(n) == \A m \in InodesPerGroup :
                        Groups(n) < Groups(m) \/ (Groups(n) = Groups(m) /\ n <= m)
<1>0. /\ BlocksPerGroup \in Nat \ {0} /\ InodesPerBlock \in Nat \ {0}
      /\ InodesPerGroup \subseteq Nat \ {0} /\ InodesPerGroup # {}
      /\ \A n \in InodesPerGroup : n \div InodesPerBlock + 2 < BlocksPerGroup
  BY LayoutAssumption
<1>1. ASSUME NEW n \in InodesPerGroup
      PROVE  PerGroup(n) \in Nat \ {0}
  <2>1. n \in Nat
    BY <1>0
  <2>2. n \div InodesPerBlock \in Nat
    BY <1>0, <2>1, DivMod
  <2>3. n \div InodesPerBlock + 2 < BlocksPerGroup
    BY <1>0
  <2> DEFINE t == n \div InodesPerBlock
  <2> HIDE DEF t
  <2>4. BlocksPerGroup - t - 2 \in Nat \ {0}
    BY <1>0, <2>2, <2>3 DEF t
  <2> QED
    BY <2>4 DEF t
<1>2. ASSUME NEW n \in InodesPerGroup
      PROVE  /\ Groups(n) \in Nat \ {0} /\ blocks <= Groups(n) * PerGroup(n)
             /\ inodes <= Groups(n) * n
  <2> DEFINE d == PerGroup(n)
             q == (inodes - 1) \div n
             w == Wanted(n)
             c == Groups(n)
  <2>1. d \in Nat \ {0}
    BY <1>1
  <2>2. n \in Nat \ {0} /\ inodes - 1 \in Nat
    BY <1>0
  <2>3. q \in Nat /\ inodes - 1 < n * q + n
    BY <2>2, DivMod
  <2> HIDE DEF d, q
  <2>4. q * d \in Nat /\ q * d + 1 \in Nat /\ q * d + 1 > 0
    BY <2>1, <2>3
  <2>5. w = Greatest(blocks, q * d + 1)
    BY DEF d, q
  <2>6. w \in Nat /\ blocks <= w /\ q * d < w
    <3> HIDE DEF w
    <3> DEFINE z == q * d
    <3>1. w = Greatest(blocks, z + 1) /\ z \in Nat
      BY <2>4, <2>5
    <3> HIDE DEF z
    <3>2. w \in Nat /\ blocks <= w /\ z < w
      BY <3>1 DEF Greatest
    <3> QED
      BY <3>2 DEF z
  <2>7. c = CeilDiv(w, d)
    BY DEF d
  <2> HIDE DEF w, c
  <2>8. c \in Nat /\ w <= c * d /\ q + 1 <= c
    BY <2>1, <2>3, <2>6, <2>7, BoxesHold, BoxesGrow
  <2>9. c \in Nat \ {0}
    BY <2>3, <2>8
  <2>10. blocks <= c * d
    <3>1. c * d \in Nat
      BY <2>1, <2>8
    <3> QED
      BY <2>6, <2>8, <3>1
  <2>11. inodes <= c * n
    <3>1. (q + 1) * n <= c * n
      BY <2>2, <2>3, <2>8
    <3>2. (q + 1) * n = n * q + n /\ (q + 1) * n \in Nat /\ c * n \in Nat
      BY <2>2, <2>3, <2>8
    <3>3. inodes - 1 < (q + 1) * n
      BY <2>3, <3>2
    <3> DEFINE x == (q + 1) * n
               y == c * n
    <3>4. x \in Nat /\ y \in Nat /\ x <= y /\ inodes - 1 < x
      BY <3>1, <3>2, <3>3
    <3> HIDE DEF x, y
    <3>5. inodes <= y
      BY <3>4
    <3> QED
      BY <3>5 DEF y
  <2> QED
    BY <2>9, <2>10, <2>11 DEF c, d
<1>3. \E n \in InodesPerGroup : Best(n)
  <2> DEFINE S == {Groups(n) : n \in InodesPerGroup}
  <2>1. S \in SUBSET Nat /\ S # {}
    <3>1. \A n \in InodesPerGroup : Groups(n) \in Nat
      BY <1>2
    <3> HIDE DEF Groups
    <3> QED
      BY <1>0, <3>1
  <2>2. PICK k \in S : \A j \in S : k <= j
    <3> HIDE DEF S
    <3> QED
      BY <2>1, LeastOf
  <2> DEFINE T == {n \in InodesPerGroup : Groups(n) = k}
  <2>3. T \in SUBSET Nat /\ T # {}
    <3> HIDE DEF Groups
    <3> QED
      BY <1>0, <2>2
  <2>4. PICK n \in T : \A m \in T : n <= m
    <3> HIDE DEF T
    <3> QED
      BY <2>3, LeastOf
  <2>5. ASSUME NEW m \in InodesPerGroup
        PROVE  Groups(n) < Groups(m) \/ (Groups(n) = Groups(m) /\ n <= m)
    <3>1. Groups(n) = k /\ k \in Nat /\ Groups(m) \in Nat /\ k <= Groups(m)
      <4>1. Groups(m) \in S
        OBVIOUS
      <4>2. Groups(n) = k
        BY <2>4
      <4> HIDE DEF Groups
      <4>3. Groups(m) \in Nat /\ k \in Nat
        <5> HIDE DEF S
        <5> QED
          BY <2>1, <2>2, <4>1
      <4>4. k <= Groups(m)
        <5> HIDE DEF S
        <5> QED
          BY <2>2, <4>1
      <4> QED
        BY <4>2, <4>3, <4>4
    <3>2. CASE Groups(m) = k
      <4>1. m \in T
        BY <3>2
      <4>2. n <= m
        <5> HIDE DEF T
        <5> QED
          BY <2>4, <4>1
      <4> HIDE DEF Groups
      <4> QED
        BY <3>1, <3>2, <4>2
    <3>3. CASE Groups(m) # k
      <4> HIDE DEF Groups
      <4> QED
        BY <3>1, <3>3
    <3> QED
      BY <3>2, <3>3
  <2>6. n \in InodesPerGroup
    BY <2>4
  <2> QED
    BY <2>5, <2>6
<1> DEFINE best == CHOOSE n \in InodesPerGroup : Best(n)
           o == Optimize(blocks, inodes)
<1>4. best \in InodesPerGroup
  <2> HIDE DEF Best
  <2> QED
    BY <1>3
<1>5. o = [groups |-> Groups(best), inodes |-> best]
  BY DEF Optimize
<1> HIDE DEF best, o
<1>6. o.groups = Groups(best) /\ o.inodes = best
  BY <1>5
<1>7. PerGroup(best) = BlocksPerGroup - o.inodes \div InodesPerBlock - 2
  BY <1>6
<1> HIDE DEF Groups, PerGroup
<1>8. /\ o.groups \in Nat \ {0} /\ PerGroup(best) \in Nat \ {0}
      /\ blocks <= o.groups * PerGroup(best) /\ inodes <= o.groups * o.inodes
  BY <1>1, <1>2, <1>4, <1>6
<1> QED
  BY <1>4, <1>6, <1>7, <1>8 DEF o

\* Where close() puts what it writes: the tables of the groups that hold data
\* behind the blocks written, their bitmaps behind those, all of it within
\* these groups and the image, and a group beyond them has room for its own.
LaidOut(p, written, inodes) ==
  /\ p.dataGroups \in Nat \ {0} /\ p.groups \in Nat /\ p.dataGroups <= p.groups
  /\ p.table \in Nat /\ p.inodes \in InodesPerGroup /\ p.table = p.inodes \div InodesPerBlock
  /\ p.firstTable = written
  /\ p.bitmaps = written + p.dataGroups * p.table
  /\ p.used = p.bitmaps + 2 * p.dataGroups /\ p.used \in Nat
  /\ p.used <= p.dataGroups * BlocksPerGroup
  /\ p.blocks \in Nat /\ p.used <= p.blocks
  /\ p.descriptors \in Nat /\ p.reserved \in Nat /\ p.descriptors <= p.reserved
  /\ inodes <= p.dataGroups * p.inodes
  /\ \A g \in 0 .. p.groups - 1 : GroupStart(g) + p.table + 2 <= p.blocks

\* The blocks of an image are those of its size, and the last group has room
\* for its table and bitmaps.
LEMMA TailGrows ==
  ASSUME NEW s \in Nat, NEW tail \in Nat, tail < BlocksPerGroup, NEW g \in Nat,
         g * BlocksPerGroup < s \div BlockSize
  PROVE  LET b == FinalBlocks(CeilDiv(s, BlockSize), tail)
         IN b \in Nat /\ g * BlocksPerGroup + tail <= b /\ s \div BlockSize <= b
PROOF
<1> DEFINE d == BlocksPerGroup
           c == CeilDiv(s, BlockSize)
           f == s \div BlockSize
           q == c \div d
           x == g * d
           y == d * q
<1>1. d \in Nat \ {0} /\ BlockSize \in Nat \ {0}
  BY LayoutAssumption, BlockSizeAssumption
<1>2. f \in Nat /\ BlockSize * f <= s
  BY <1>1, DivMod
<1>3. c \in Nat /\ s <= c * BlockSize
  BY <1>1, BoxesHold
<1>4. f <= c
  <2> HIDE DEF f, c
  <2>1. ASSUME c < f PROVE FALSE
    <3>1. c + 1 <= f
      BY <1>2, <1>3, <2>1
    <3>2. (c + 1) * BlockSize <= f * BlockSize
      BY <1>1, <1>2, <1>3, <3>1
    <3>3. (c + 1) * BlockSize = c * BlockSize + BlockSize /\ f * BlockSize = BlockSize * f
          /\ c * BlockSize \in Nat /\ BlockSize * f \in Nat
      BY <1>1, <1>2, <1>3
    <3> QED
      BY <1>1, <1>2, <1>3, <3>2, <3>3
  <2> QED
    BY <1>2, <1>3, <2>1
<1>5. q \in Nat /\ y <= c /\ c < y + d
  <2> HIDE DEF c
  <2> QED
    BY <1>1, <1>3, DivMod
<1>6. c % d = c - y
  <2> HIDE DEF c
  <2> QED
    BY <1>1, <1>3
<1>7. x \in Nat /\ y \in Nat
  <2> HIDE DEF q, d
  <2> QED
    BY <1>1, <1>5
<1>8. x < c
  <2> HIDE DEF f, c, x
  <2>1. x < f
    BY DEF x, f
  <2> QED
    BY <1>2, <1>3, <1>4, <1>7, <2>1
<1>9. x = y \/ x + d <= y \/ y < x
  <2> HIDE DEF q, d, f, c
  <2>1. g = q \/ g + 1 <= q \/ q + 1 <= g
    BY <1>5
  <2>2. CASE g = q
    BY <1>1, <1>5, <2>2
  <2>3. CASE g + 1 <= q
    <3>1. (g + 1) * d <= q * d
      BY <1>1, <1>5, <2>3
    <3>2. (g + 1) * d = x + d /\ q * d = y
      BY <1>1, <1>5
    <3> QED
      BY <3>1, <3>2
  <2>4. CASE q + 1 <= g
    <3>1. (q + 1) * d <= g * d
      BY <1>1, <1>5, <2>4
    <3>2. (q + 1) * d = y + d
      BY <1>1, <1>5
    <3> QED
      BY <1>1, <1>7, <3>1, <3>2
  <2> QED
    BY <2>1, <2>2, <2>3, <2>4
<1>10. ~(y < x)
  <2> HIDE DEF f, c
  <2>1. ASSUME y < x PROVE FALSE
    <3>1. q < g
      <4> HIDE DEF q
      <4>1. ASSUME g <= q PROVE FALSE
        <5>1. g * d <= q * d
          BY <1>1, <1>5, <4>1
        <5>2. q * d = y
          BY <1>1, <1>5
        <5> QED
          BY <1>7, <2>1, <5>1, <5>2
      <4> QED
        BY <1>5, <4>1
    <3>2. (q + 1) * d <= g * d
      <4> HIDE DEF q
      <4> QED
        BY <1>1, <1>5, <3>1
    <3>3. (q + 1) * d = y + d
      <4> HIDE DEF q
      <4> QED
        BY <1>1, <1>5
    <3> HIDE DEF x, y
    <3>4. y + d <= x
      BY <3>2, <3>3 DEF x
    <3> QED
      BY <1>1, <1>3, <1>5, <1>7, <1>8, <3>4
  <2> QED
    BY <2>1
<1> DEFINE r == c - y
<1>11. FinalBlocks(c, tail) = IF r # 0 /\ r < tail THEN c - r + tail ELSE c
  BY <1>6 DEF FinalBlocks, d
<1>12. tail < d
  BY DEF d
<1>14. f <= FinalBlocks(c, tail)
  <2> HIDE DEF x, y, c, d, q, f
  <2>1. c <= FinalBlocks(c, tail) /\ FinalBlocks(c, tail) \in Nat
    BY <1>3, <1>5, <1>7, <1>11
  <2> QED
    BY <1>2, <1>3, <1>4, <2>1
<1> HIDE DEF x, y, c, d, q
<1>13. FinalBlocks(c, tail) \in Nat /\ x + tail <= FinalBlocks(c, tail)
  <2>1. CASE x = y
    <3>1. r # 0
      BY <1>3, <1>7, <1>8, <2>1
    <3> QED
      BY <1>3, <1>5, <1>7, <1>8, <1>11, <2>1, <3>1
  <2>2. CASE x + d <= y
    <3>1. c \in Nat /\ r \in Nat /\ c - r = y
      BY <1>3, <1>5, <1>7
    <3> QED
      BY <1>1, <1>3, <1>5, <1>7, <1>11, <1>12, <2>2, <3>1
  <2> QED
    BY <1>9, <1>10, <2>1, <2>2
<1> QED
  BY <1>13, <1>14 DEF x, c, d, f

\* What close() plans is laid out like this.
LEMMA PlanIs ==
  ASSUME NEW written \in Nat, NEW inodes \in Nat \ {0}, NEW s \in Nat
  PROVE  LaidOut(Plan(written, inodes, s), written, inodes)
PROOF
<1> DEFINE best == Optimize(written, inodes)
           G == best.groups
           n == best.inodes
           d == BlocksPerGroup
           t == n \div InodesPerBlock
           bitmaps == written + G * t
           used == bitmaps + 2 * G
           least == IF G = 1 THEN d ELSE (G - 1) * d + 1
           m == Greatest(least, used)
           grown == Greatest(s, m * BlockSize)
           blocks == FinalBlocks(CeilDiv(grown, BlockSize), t + 2)
           groups == CeilDiv(grown \div BlockSize, d)
           p == Plan(written, inodes, s)
<1>1. /\ n \in InodesPerGroup /\ G \in Nat \ {0} /\ d - t - 2 \in Nat \ {0}
      /\ written <= G * (d - t - 2) /\ inodes <= G * n
  BY OptimizeHolds
<1>2. /\ p.dataGroups = G /\ p.inodes = n /\ p.table = t /\ p.firstTable = written
      /\ p.bitmaps = bitmaps /\ p.used = used /\ p.blocks = blocks /\ p.groups = groups
      /\ p.descriptors = CeilDiv(groups, PerDescriptorBlock)
      /\ p.reserved = DescriptorBlocks(blocks * BlockSize)
  BY DEF Plan
<1>0. InodesPerGroup \subseteq Nat \ {0}
  BY LayoutAssumption
<1>3. /\ d \in Nat \ {0} /\ InodesPerBlock \in Nat \ {0} /\ n \in Nat \ {0}
      /\ BlockSize \in Nat \ {0}
  <2>1. n \in Nat \ {0}
    <3> HIDE DEF n
    <3> QED
      BY <1>0, <1>1
  <2> QED
    BY <2>1, LayoutAssumption, BlockSizeAssumption
<1>4. t \in Nat
  <2> HIDE DEF n
  <2> QED
    BY <1>3, DivMod
<1>5. t + 2 < d
  <2> HIDE DEF t, d
  <2> QED
    BY <1>1, <1>3, <1>4
<1> HIDE DEF G, n, t, d, best
<1>6. bitmaps \in Nat /\ used \in Nat
  BY <1>1, <1>4
<1>7. used <= G * d
  <2> DEFINE k == d - t - 2
  <2>1. d = k + t + 2 /\ k \in Nat
    BY <1>1, <1>3, <1>4
  <2> HIDE DEF k
  <2>2. G * (k + t + 2) = G * k + G * t + G * 2
    BY <1>1, <1>4, <2>1
  <2>3. G * d = G * k + G * t + 2 * G
    <3>1. d = k + t + 2
      BY <1>1, <1>3, <1>4 DEF k
    <3>2. G * 2 = 2 * G
      BY <1>1
    <3> QED
      BY <2>2, <3>1, <3>2
  <2>4. written <= G * k
    BY <1>1 DEF k
  <2>5. G * k \in Nat /\ G * t \in Nat
    BY <1>1, <1>4, <2>1
  <2> QED
    BY <1>1, <2>3, <2>4, <2>5
<1>8. least \in Nat \ {0} /\ (G - 1) * d < least
  <2>1. CASE G = 1
    BY <1>3, <2>1
  <2>2. CASE G # 1
    <3>1. (G - 1) * d \in Nat
      BY <1>1, <1>3
    <3> QED
      BY <2>2, <3>1
  <2> QED
    BY <2>1, <2>2
<1> HIDE DEF bitmaps, used, least
<1>9. m \in Nat \ {0} /\ least <= m /\ used <= m
  BY <1>6, <1>8 DEF Greatest
<1> HIDE DEF m
<1>10. m * BlockSize \in Nat
  BY <1>3, <1>9
<1>11. grown \in Nat /\ m * BlockSize <= grown
  BY <1>10 DEF Greatest
<1> HIDE DEF grown
<1> DEFINE f == grown \div BlockSize
<1>12. f \in Nat /\ m <= f
  <2>1. f \in Nat /\ grown < BlockSize * f + BlockSize
    BY <1>3, <1>11, DivMod
  <2> HIDE DEF f
  <2>2. ASSUME f + 1 <= m PROVE FALSE
    <3>1. (f + 1) * BlockSize <= m * BlockSize
      BY <1>3, <1>9, <2>1, <2>2
    <3>2. (f + 1) * BlockSize = BlockSize * f + BlockSize /\ BlockSize * f \in Nat
      BY <1>3, <2>1
    <3> QED
      BY <1>3, <1>10, <1>11, <2>1, <3>1, <3>2
  <2> QED
    BY <1>9, <2>1, <2>2
<1>13. (G - 1) * d < f
  <2> DEFINE x == (G - 1) * d
  <2>1. x \in Nat /\ x < least
    BY <1>1, <1>3, <1>8
  <2> HIDE DEF x, f
  <2>2. x < f
    BY <1>8, <1>9, <1>12, <2>1
  <2> QED
    BY <2>2 DEF x
<1>14. groups \in Nat /\ groups * d < f + d /\ G <= groups
  <2> HIDE DEF f
  <2>1. groups = CeilDiv(f, d)
    BY DEF f
  <2>2. G - 1 \in Nat /\ G - 1 + 1 = G
    BY <1>1
  <2> HIDE DEF groups
  <2>3. groups \in Nat /\ groups * d < f + d
    BY <1>3, <1>12, <2>1, BoxesHold
  <2> DEFINE k == G - 1
  <2> HIDE DEF k
  <2>4. k \in Nat /\ k + 1 = G /\ k * d < f
    BY <1>13, <2>2 DEF k
  <2>5. k + 1 <= groups
    BY <1>3, <1>12, <2>1, <2>4, BoxesGrow
  <2> QED
    BY <2>3, <2>4, <2>5
<1> HIDE DEF groups
<1>15. ASSUME NEW g \in 0 .. groups - 1
       PROVE  g * d + (t + 2) <= blocks /\ blocks \in Nat /\ f <= blocks
  <2>1. g \in Nat /\ g + 1 <= groups
    BY <1>14
  <2>2. g * d < f
    <3> HIDE DEF f
    <3>1. (g + 1) * d <= groups * d
      BY <1>3, <1>14, <2>1
    <3>2. (g + 1) * d = g * d + d /\ g * d \in Nat /\ groups * d \in Nat
      BY <1>3, <1>14, <2>1
    <3> QED
      BY <1>3, <1>12, <1>14, <3>1, <3>2
  <2>3. t + 2 \in Nat /\ t + 2 < BlocksPerGroup
    BY <1>4, <1>5 DEF d
  <2>4. g * BlocksPerGroup < grown \div BlockSize
    BY <2>2 DEF d
  <2> QED
    BY <1>11, <2>1, <2>3, <2>4, TailGrows DEF d
<1> HIDE DEF blocks
<1>16. blocks \in Nat /\ used <= blocks
  <2> HIDE DEF f
  <2>1. 0 \in 0 .. groups - 1
    BY <1>1, <1>14
  <2>2. blocks \in Nat /\ f <= blocks
    BY <1>15, <2>1
  <2> QED
    BY <1>6, <1>9, <1>12, <2>2
<1>17. CeilDiv(groups, PerDescriptorBlock) \in Nat
  <2>1. PerDescriptorBlock \in Nat \ {0}
    BY BlockSizeAssumption DEF PerDescriptorBlock
  <2> QED
    BY <1>14, <2>1, CutPoints
<1>19. /\ DescriptorBlocks(blocks * BlockSize) \in Nat
       /\ CeilDiv(groups, PerDescriptorBlock) <= DescriptorBlocks(blocks * BlockSize)
  <2>1. PerDescriptorBlock \in Nat \ {0} /\ Reserve \in Nat \ {0}
    BY BlockSizeAssumption, LayoutAssumption DEF PerDescriptorBlock
  <2> DEFINE x == blocks * BlockSize
             c == CeilDiv(x, BlockSize)
             k == CeilDiv(c, d)
             e == CeilDiv(k, PerDescriptorBlock)
  <2>2. x \in Nat
    BY <1>3, <1>16
  <2>3. DescriptorBlocks(x) = e * Reserve
    BY DEF DescriptorBlocks, GroupCount, BlockCount, d
  <2>4. c \in Nat /\ x <= c * BlockSize
    <3> HIDE DEF x
    <3> QED
      BY <1>3, <2>2, BoxesHold
  <2>5. blocks <= c
    <3> HIDE DEF c
    <3>1. ASSUME c + 1 <= blocks PROVE FALSE
      <4>1. (c + 1) * BlockSize <= blocks * BlockSize
        BY <1>3, <1>16, <2>4, <3>1
      <4>2. (c + 1) * BlockSize = c * BlockSize + BlockSize /\ c * BlockSize \in Nat
        BY <1>3, <2>4
      <4> QED
        BY <1>3, <2>2, <2>4, <4>1, <4>2
    <3> QED
      BY <1>16, <2>4, <3>1
  <2>6. f <= c
    <3> HIDE DEF f, c
    <3>1. 0 \in 0 .. groups - 1
      BY <1>1, <1>14
    <3>2. f <= blocks
      BY <1>15, <3>1
    <3> QED
      BY <1>12, <1>16, <2>4, <2>5, <3>2
  <2>7. k \in Nat /\ groups <= k
    <3> HIDE DEF f, c
    <3>1. groups = CeilDiv(f, d)
      BY DEF groups, f
    <3> QED
      BY <1>3, <1>12, <2>4, <2>6, <3>1, BoxesHold, BoxesKeepOrder
  <2>8. e \in Nat /\ CeilDiv(groups, PerDescriptorBlock) <= e
    <3> HIDE DEF k
    <3> QED
      BY <1>14, <2>1, <2>7, BoxesHold, BoxesKeepOrder
  <2> HIDE DEF e
  <2>9. e * Reserve \in Nat /\ e <= e * Reserve
    BY <2>1, <2>8
  <2> QED
    BY <1>17, <2>3, <2>8, <2>9 DEF x
<1>18. ASSUME NEW g \in 0 .. groups - 1 PROVE GroupStart(g) + t + 2 <= blocks
  <2> DEFINE x == g * d
  <2>1. x + (t + 2) <= blocks
    BY <1>15
  <2>2. x \in Nat
    BY <1>3, <1>14
  <2> HIDE DEF x
  <2>3. x + t + 2 <= blocks
    BY <1>4, <1>16, <2>1, <2>2
  <2> QED
    BY <2>3 DEF GroupStart, x, d
<1> HIDE DEF p
<1> QED
  BY <1>1, <1>2, <1>4, <1>6, <1>7, <1>14, <1>16, <1>17, <1>18, <1>19
     DEF LaidOut, p, t, d, used, bitmaps

-----------------------------------------------------------------------------
(* The finished image.                                                     *)

\* The descriptor blocks that close() reserves for the image as it has grown
\* are among those left free for the size that was asked for.
ReserveKept == Finished => image.plan.reserved <= DescriptorBlocks(size)

\* Where the table and the bitmaps of a group are.
GroupAt(p, g) ==
  IF g < p.dataGroups
    THEN [table |-> p.firstTable + g * p.table, bitmap |-> p.bitmaps + 2 * g]
  ELSE [table |-> GroupStart(g), bitmap |-> GroupStart(g) + p.table]

\* A finished image is laid out by its plan.
LEMMA ImageIs ==
  ASSUME BlockInv, Finished
  PROVE  LET p == image.plan
         IN /\ LaidOut(p, fmt.cur, Len(fmt.inodes))
            /\ image.super = SuperBlock(p, image.groups)
            /\ image.groups = Descriptors(p, fmt.inodes, fmt.deleted)
            /\ DOMAIN image.groups = 0 .. p.groups - 1
            /\ \A g \in 0 .. p.groups - 1 :
                 /\ image.groups[g].table = GroupAt(p, g).table
                 /\ image.groups[g].bitmap = GroupAt(p, g).bitmap
PROOF
<1> DEFINE p == Plan(fmt.cur, Len(fmt.inodes), size)
           D == Descriptors(p, fmt.inodes, fmt.deleted)
<1>1. image = Closed(fmt.disk, fmt.inodes, Unused, fmt.deleted, fmt.cur, size)
  BY DEF BlockInv
<1>2. image.plan = p /\ image.groups = D /\ image.super = SuperBlock(p, D)
  BY <1>1 DEF Closed
<1>3. Owned(fmt, First) /\ size \in Nat
  BY DEF BlockInv, Keeps
<1>4. fmt.cur \in Nat /\ Len(fmt.inodes) \in Nat /\ Len(fmt.inodes) >= FirstInode - 1
  BY <1>3, InodesAre DEF Owned, InodesListed
<1>5. Len(fmt.inodes) \in Nat \ {0}
  BY <1>4 DEF FirstInode
<1>6. LaidOut(p, fmt.cur, Len(fmt.inodes))
  BY <1>3, <1>4, <1>5, PlanIs
<1> HIDE DEF p
<1>7. DOMAIN D = 0 .. p.groups - 1
  BY DEF Descriptors
<1>8. ASSUME NEW g \in 0 .. p.groups - 1
      PROVE  D[g].table = GroupAt(p, g).table /\ D[g].bitmap = GroupAt(p, g).bitmap
  <2>1. D[g] = IF g < p.dataGroups THEN DataGroup(p, fmt.inodes, fmt.deleted, g)
               ELSE EmptyGroup(p, g)
    BY DEF Descriptors
  <2>2. CASE g < p.dataGroups
    <3>1. D[g] = DataGroup(p, fmt.inodes, fmt.deleted, g)
      BY <2>1, <2>2
    <3> HIDE DEF D
    <3> QED
      BY <2>2, <3>1 DEF DataGroup, GroupAt
  <2>3. CASE ~(g < p.dataGroups)
    <3>1. D[g] = EmptyGroup(p, g)
      BY <2>1, <2>3
    <3> HIDE DEF D
    <3> QED
      BY <2>3, <3>1 DEF EmptyGroup, GroupAt
  <2> QED
    BY <2>2, <2>3
<1> HIDE DEF D
<1> QED
  BY <1>2, <1>6, <1>7, <1>8 DEF D

\* The tables and the bitmaps of the groups are apart from each other and from
\* the blocks written before, all within the image.
LEMMA GroupsApart ==
  ASSUME NEW p, NEW written \in Nat, NEW inodes \in Nat, LaidOut(p, written, inodes),
         NEW g \in 0 .. p.groups - 1
  PROVE  /\ GroupAt(p, g).table \in Nat /\ GroupAt(p, g).bitmap \in Nat
         /\ written <= GroupAt(p, g).table
         /\ GroupAt(p, g).table + p.table <= GroupAt(p, g).bitmap
         /\ GroupAt(p, g).bitmap + 2 <= p.blocks
         /\ p.bitmaps <= GroupAt(p, g).bitmap
         /\ g < p.dataGroups =>
              /\ GroupAt(p, g).table + p.table <= p.bitmaps
              /\ GroupAt(p, g).bitmap + 2 <= p.used
         /\ g >= p.dataGroups => p.used <= GroupAt(p, g).table
         /\ \A h \in 0 .. g - 1 :
              /\ GroupAt(p, h).table + p.table <= GroupAt(p, g).table
              /\ GroupAt(p, h).bitmap + 2 <= GroupAt(p, g).bitmap
              /\ g >= p.dataGroups => GroupAt(p, h).bitmap + 2 <= GroupAt(p, g).table
PROOF
<1> DEFINE G == p.dataGroups
           t == p.table
           d == BlocksPerGroup
           x == G * t
           y == G * d
<1>1. /\ G \in Nat \ {0} /\ t \in Nat /\ p.firstTable = written /\ p.bitmaps = written + x
      /\ p.used = p.bitmaps + 2 * G /\ p.used \in Nat /\ p.used <= y
      /\ p.blocks \in Nat /\ p.used <= p.blocks /\ p.groups \in Nat
      /\ \A k \in 0 .. p.groups - 1 : GroupStart(k) + t + 2 <= p.blocks
  BY DEF LaidOut
<1>2. d \in Nat \ {0} /\ t + 2 <= d
  <2>1. p.inodes \in InodesPerGroup /\ t = p.inodes \div InodesPerBlock
    BY DEF LaidOut
  <2>2. d \in Nat \ {0} /\ p.inodes \div InodesPerBlock + 2 < d
    BY <2>1, LayoutAssumption
  <2> HIDE DEF d, t
  <2> QED
    BY <1>1, <2>1, <2>2
<1>3. x \in Nat /\ y \in Nat
  <2> HIDE DEF G, t, d
  <2> QED
    BY <1>1, <1>2
<1> HIDE DEF G, t, d, x, y
<1>4. ASSUME NEW k \in Nat, k < G
      PROVE  /\ k * t \in Nat /\ k * t + t <= x
  <2>1. (k + 1) * t <= G * t
    BY <1>1, <1>4
  <2>2. (k + 1) * t = k * t + t
    BY <1>1
  <2>3. k * t \in Nat
    BY <1>1
  <2> QED
    BY <2>1, <2>2, <2>3 DEF x
<1>5. ASSUME NEW k \in Nat, NEW h \in Nat, h < k, NEW z \in Nat
      PROVE  h * z + z <= k * z /\ h * z \in Nat /\ k * z \in Nat
  <2>1. (h + 1) * z <= k * z
    BY <1>5
  <2>2. (h + 1) * z = h * z + z
    OBVIOUS
  <2> QED
    BY <2>1, <2>2
<1>6. ASSUME NEW k \in 0 .. p.groups - 1, k < G
      PROVE  /\ GroupAt(p, k).table = written + k * t
             /\ GroupAt(p, k).bitmap = written + x + 2 * k
             /\ k \in Nat /\ k * t \in Nat /\ k * t + t <= x
  <2>1. k < p.dataGroups
    BY <1>6 DEF G
  <2>2. GroupAt(p, k) = [table |-> p.firstTable + k * t, bitmap |-> p.bitmaps + 2 * k]
    BY <2>1 DEF GroupAt, t
  <2>3. k \in Nat
    BY <1>1
  <2> QED
    BY <1>1, <1>4, <1>6, <2>2, <2>3
<1>7. ASSUME NEW k \in 0 .. p.groups - 1, ~(k < G)
      PROVE  /\ GroupAt(p, k).table = k * d
             /\ GroupAt(p, k).bitmap = k * d + t
             /\ k \in Nat /\ k * d \in Nat /\ y <= k * d /\ k * d + t + 2 <= p.blocks
  <2>1. ~(k < p.dataGroups)
    BY <1>7 DEF G
  <2>2. GroupAt(p, k) = [table |-> k * d, bitmap |-> k * d + t]
    BY <2>1 DEF GroupAt, GroupStart, t, d
  <2>3. k \in Nat
    BY <1>1
  <2>4. k * d \in Nat
    BY <1>2, <2>3
  <2>5. y <= k * d
    <3>1. G * d <= k * d
      BY <1>1, <1>2, <1>7, <2>3
    <3> QED
      BY <3>1 DEF y
  <2>6. k * d + t + 2 <= p.blocks
    BY <1>1 DEF GroupStart, d
  <2> QED
    BY <2>2, <2>3, <2>4, <2>5, <2>6
<1>8. CASE g < G
  <2>1. /\ GroupAt(p, g).table = written + g * t
        /\ GroupAt(p, g).bitmap = written + x + 2 * g
        /\ g \in Nat /\ g * t \in Nat /\ g * t + t <= x
    BY <1>6, <1>8
  <2>2. ASSUME NEW h \in 0 .. g - 1
        PROVE  /\ GroupAt(p, h).table + t <= GroupAt(p, g).table
               /\ GroupAt(p, h).bitmap + 2 <= GroupAt(p, g).bitmap
    <3>1. h \in 0 .. p.groups - 1 /\ h < G /\ h < g /\ h \in Nat
      BY <1>1, <1>8, <2>1
    <3>2. /\ GroupAt(p, h).table = written + h * t
          /\ GroupAt(p, h).bitmap = written + x + 2 * h
          /\ h * t \in Nat
      BY <1>6, <3>1
    <3>3. h * t + t <= g * t
      BY <1>1, <1>5, <2>1, <3>1
    <3> QED
      BY <1>1, <1>3, <2>1, <3>1, <3>2, <3>3
  <2>3. 2 * g + 2 <= 2 * G
    BY <1>1, <1>8, <2>1
  <2> QED
    BY <1>1, <1>3, <1>8, <2>1, <2>2, <2>3 DEF t, G
<1>9. CASE ~(g < G)
  <2>1. /\ GroupAt(p, g).table = g * d
        /\ GroupAt(p, g).bitmap = g * d + t
        /\ g \in Nat /\ g * d \in Nat /\ y <= g * d /\ g * d + t + 2 <= p.blocks
    BY <1>7, <1>9
  <2>2. ASSUME NEW h \in 0 .. g - 1
        PROVE  /\ GroupAt(p, h).table + t <= GroupAt(p, g).table
               /\ GroupAt(p, h).bitmap + 2 <= GroupAt(p, g).table
               /\ GroupAt(p, h).bitmap + 2 <= GroupAt(p, g).bitmap
    <3>1. h \in 0 .. p.groups - 1 /\ h < g /\ h \in Nat
      BY <1>1, <2>1
    <3>2. CASE h < G
      <4>1. /\ GroupAt(p, h).table = written + h * t
            /\ GroupAt(p, h).bitmap = written + x + 2 * h
            /\ h * t \in Nat /\ h * t + t <= x
        BY <1>6, <3>1, <3>2
      <4>2. 2 * h + 2 <= 2 * G
        BY <1>1, <3>1, <3>2
      <4> QED
        BY <1>1, <1>3, <2>1, <3>1, <4>1, <4>2
    <3>3. CASE ~(h < G)
      <4>1. /\ GroupAt(p, h).table = h * d
            /\ GroupAt(p, h).bitmap = h * d + t
            /\ h * d \in Nat
        BY <1>7, <3>1, <3>3
      <4>2. h * d + d <= g * d
        BY <1>2, <1>5, <2>1, <3>1
      <4> QED
        BY <1>1, <1>2, <2>1, <4>1, <4>2
    <3> QED
      BY <3>2, <3>3
  <2>3. p.bitmaps \in Nat /\ p.bitmaps <= p.used /\ p.used <= y /\ written <= p.bitmaps
    BY <1>1, <1>3
  <2> QED
    BY <1>1, <1>3, <1>9, <2>1, <2>2, <2>3 DEF t, G
<1> QED
  BY <1>8, <1>9

\* What was written before close() is still there after it, and behind it are
\* the inodes.
LEMMA DiskIs ==
  ASSUME BlockInv, Finished, ReserveKept
  PROVE  /\ \A b \in DOMAIN fmt.disk : b \in DOMAIN image.disk /\ image.disk[b] = fmt.disk[b]
         /\ \A b \in fmt.cur .. image.plan.bitmaps - 1 :
              /\ b \in DOMAIN image.disk
              /\ image.disk[b] = TableBlock(fmt.inodes, Unused, b - fmt.cur)
PROOF
<1> DEFINE p == image.plan
           tables == [b \in p.firstTable .. p.bitmaps - 1 |->
                        TableBlock(fmt.inodes, Unused, b - p.firstTable)]
           spots == UNION {{image.groups[g].bitmap, image.groups[g].bitmap + 1} :
                             g \in DOMAIN image.groups}
           maps == [b \in spots |-> "bitmap"]
           head == [b \in 0 .. p.descriptors |-> IF b = 0 THEN "super" ELSE "groups"]
<1>1. image = Closed(fmt.disk, fmt.inodes, Unused, fmt.deleted, fmt.cur, size)
  BY DEF BlockInv
<1>2. image.disk = Over(head, Over(maps, Over(tables, fmt.disk)))
  <2> DEFINE q == Plan(fmt.cur, Len(fmt.inodes), size)
             D == Descriptors(q, fmt.inodes, fmt.deleted)
  <2>1. /\ image.plan = q /\ image.groups = D
        /\ image.disk =
             Over([b \in 0 .. q.descriptors |-> IF b = 0 THEN "super" ELSE "groups"],
               Over([b \in UNION {{D[g].bitmap, D[g].bitmap + 1} : g \in DOMAIN D}
                       |-> "bitmap"],
                 Over([b \in q.firstTable .. q.bitmaps - 1 |->
                         TableBlock(fmt.inodes, Unused, b - q.firstTable)], fmt.disk)))
    BY <1>1 DEF Closed
  <2> HIDE DEF q, D
  <2> QED
    BY <2>1
<1>3. /\ LaidOut(p, fmt.cur, Len(fmt.inodes))
      /\ DOMAIN image.groups = 0 .. p.groups - 1
      /\ \A g \in 0 .. p.groups - 1 : image.groups[g].bitmap = GroupAt(p, g).bitmap
  BY ImageIs
<1>4. /\ fmt.cur \in Nat /\ First \in Nat /\ First <= fmt.cur /\ Len(fmt.inodes) \in Nat
      /\ DOMAIN fmt.disk = First .. fmt.cur - 1
  BY FirstIs, InodesAre DEF BlockInv, Keeps, Owned, Written
<1>5. p.descriptors \in Nat /\ p.descriptors < First
  <2>1. DescriptorBlocks(size) \in Nat
    BY DescriptorsAre DEF BlockInv
  <2>2. p.descriptors \in Nat /\ p.reserved \in Nat /\ p.descriptors <= p.reserved
    BY <1>3 DEF LaidOut
  <2>3. p.reserved <= DescriptorBlocks(size)
    BY DEF ReserveKept
  <2> HIDE DEF p
  <2>4. First = DescriptorBlocks(size) + 1
    BY DEF First
  <2> QED
    BY <2>1, <2>2, <2>3, <2>4
<1>6. p.firstTable = fmt.cur /\ p.bitmaps \in Nat /\ fmt.cur <= p.bitmaps
  <2>1. /\ p.firstTable = fmt.cur /\ p.bitmaps = fmt.cur + p.dataGroups * p.table
        /\ p.dataGroups \in Nat /\ p.table \in Nat
    BY <1>3 DEF LaidOut
  <2> HIDE DEF p
  <2>2. p.dataGroups * p.table \in Nat
    BY <2>1
  <2> QED
    BY <1>4, <2>1, <2>2
<1>7. \A b \in spots : b \in Nat /\ p.bitmaps <= b
  <2>1. ASSUME NEW g \in DOMAIN image.groups
        PROVE  image.groups[g].bitmap \in Nat /\ p.bitmaps <= image.groups[g].bitmap
    <3>1. g \in 0 .. p.groups - 1 /\ image.groups[g].bitmap = GroupAt(p, g).bitmap
      BY <1>3
    <3> HIDE DEF p
    <3>2. GroupAt(p, g).bitmap \in Nat /\ p.bitmaps <= GroupAt(p, g).bitmap
      BY <1>3, <1>4, <3>1, GroupsApart
    <3> QED
      BY <3>1, <3>2
  <2>2. ASSUME NEW b \in spots PROVE b \in Nat /\ p.bitmaps <= b
    <3>1. PICK g \in DOMAIN image.groups :
            b = image.groups[g].bitmap \/ b = image.groups[g].bitmap + 1
      BY <2>2
    <3> HIDE DEF p
    <3> QED
      BY <1>6, <2>1, <3>1
  <2> QED
    BY <2>2
<1> HIDE DEF p, spots
<1>8. DOMAIN head = 0 .. p.descriptors /\ DOMAIN maps = spots
      /\ DOMAIN tables = fmt.cur .. p.bitmaps - 1
  BY <1>6
<1>9. \A b \in DOMAIN tables : tables[b] = TableBlock(fmt.inodes, Unused, b - fmt.cur)
  BY <1>6
<1> HIDE DEF head, maps, tables
<1>10. ASSUME NEW b, b \notin DOMAIN head, b \notin DOMAIN maps,
              b \in DOMAIN tables \/ b \in DOMAIN fmt.disk
       PROVE  b \in DOMAIN image.disk
              /\ image.disk[b] = IF b \in DOMAIN tables THEN tables[b] ELSE fmt.disk[b]
  BY <1>2, <1>10 DEF Over
<1>11. ASSUME NEW b \in DOMAIN fmt.disk
       PROVE  b \in DOMAIN image.disk /\ image.disk[b] = fmt.disk[b]
  <2>1. b \notin DOMAIN head /\ b \notin DOMAIN maps /\ b \notin DOMAIN tables
    BY <1>4, <1>5, <1>6, <1>7, <1>8
  <2> QED
    BY <1>10, <2>1
<1>12. ASSUME NEW b \in fmt.cur .. p.bitmaps - 1
       PROVE  b \in DOMAIN image.disk
              /\ image.disk[b] = TableBlock(fmt.inodes, Unused, b - fmt.cur)
  <2>1. b \notin DOMAIN head /\ b \notin DOMAIN maps /\ b \in DOMAIN tables
    BY <1>4, <1>5, <1>6, <1>7, <1>8
  <2> QED
    BY <1>9, <1>10, <2>1
<1> QED
  BY <1>11, <1>12 DEF p

-----------------------------------------------------------------------------
(* Directories and data in the finished image.                             *)

\* The data of an inode in the finished image.
LEMMA DataAre ==
  ASSUME BlockInv, Finished, ReserveKept,
         NEW n \in DOMAIN fmt.inodes, NEW s, NEW c, Holds(fmt, n, s, c), First <= s
  PROVE  LET e == ParseExtents(fmt.inodes[n].root, image.disk)
         IN /\ s \in Nat /\ c \in Nat
            /\ e = Leaves(s, c)
            /\ BlocksOf(e) = [k \in 1 .. c |-> s + k - 1]
            /\ DataOf(n) \subseteq Area(s, c)
            /\ \A b \in Area(s, c) : b \in DOMAIN fmt.disk /\ image.disk[b] = fmt.disk[b]
PROOF
<1> DEFINE t == Extents(s, c, s + c)
           e == ParseExtents(fmt.inodes[n].root, image.disk)
<1>1. /\ s \in Nat /\ c \in Nat /\ fmt.inodes[n].root = t.root
      /\ \A b \in Area(s, c) : b < fmt.cur
      /\ TreeOnDisk(s, c, s + c, fmt.disk)
  BY DEF Holds, HasData
<1>2. First \in Nat /\ fmt.cur \in Nat /\ DOMAIN fmt.disk = First .. fmt.cur - 1
  BY FirstIs DEF BlockInv, Keeps, Owned, Written
<1>3. ASSUME NEW b \in Area(s, c)
      PROVE  b \in DOMAIN fmt.disk /\ image.disk[b] = fmt.disk[b]
  <2>1. b \in Nat /\ s <= b /\ b < fmt.cur
    BY <1>1, AreaIs
  <2>2. b \in DOMAIN fmt.disk
    BY <1>1, <1>2, <2>1
  <2> QED
    BY <2>2, DiskIs
<1>4. TreeOnDisk(s, c, s + c, image.disk)
  <2>1. ASSUME NEW i \in DOMAIN t.blocks
        PROVE  image.disk[s + c + i - 1] = t.blocks[i]
    <3>1. fmt.disk[s + c + i - 1] = t.blocks[i]
      BY <1>1 DEF TreeOnDisk
    <3>2. s + c + i - 1 \in Area(s, c)
      BY <1>1, AreaIs
    <3> QED
      BY <1>3, <3>1, <3>2
  <2> QED
    BY <2>1 DEF TreeOnDisk
<1>5. e = Leaves(s, c)
  <2>1. s + c \in Nat
    BY <1>1
  <2> QED
    BY <1>1, <1>4, <2>1, ExtentsReadBack
<1>6. BlocksOf(e) = [k \in 1 .. c |-> s + k - 1]
  BY <1>1, <1>5, DataBlocks
<1>7. TreeBlocks(t.root) \subseteq Area(s, c)
  <2> DEFINE leaves == Leaves(s, c)
             l == LeafBlocks(leaves)
             entries == [i \in DOMAIN l |-> [block |-> l[i][1].block, leaf |-> s + c + i - 1]]
  <2>1. \/ t.root.depth = 0
        \/ t = [root |-> [depth |-> 1, entries |-> entries], blocks |-> l]
    <3>1. \/ t = [root |-> NoExtents, blocks |-> <<>>]
          \/ t = [root |-> [depth |-> 0, entries |-> leaves], blocks |-> <<>>]
          \/ t = [root |-> [depth |-> 1, entries |-> entries], blocks |-> l]
      BY DEF Extents
    <3>2. NoExtents.depth = 0
      BY DEF NoExtents
    <3> HIDE DEF t, entries, l, leaves
    <3>3. CASE t = [root |-> NoExtents, blocks |-> <<>>]
      BY <3>2, <3>3
    <3>4. CASE t = [root |-> [depth |-> 0, entries |-> leaves], blocks |-> <<>>]
      BY <3>4
    <3> QED
      BY <3>1, <3>3, <3>4
  <2>2. CASE t.root.depth = 0
    BY <2>2 DEF TreeBlocks
  <2>3. CASE t = [root |-> [depth |-> 1, entries |-> entries], blocks |-> l]
    <3>1. ASSUME NEW i \in DOMAIN l PROVE s + c + i - 1 \in Area(s, c)
      <4>1. i \in DOMAIN t.blocks
        <5> HIDE DEF t, l, entries
        <5> QED
          BY <2>3, <3>1
      <4> QED
        BY <1>1, <4>1, AreaIs
    <3>2. DOMAIN entries = DOMAIN l /\ \A i \in DOMAIN l : entries[i].leaf = s + c + i - 1
      BY DEF entries
    <3> HIDE DEF t, l, entries
    <3>3. t.root.entries = entries
      BY <2>3
    <3>4. TreeBlocks(t.root) \subseteq {entries[i].leaf : i \in DOMAIN entries}
      BY <3>3 DEF TreeBlocks
    <3> QED
      BY <3>1, <3>2, <3>4
  <2> QED
    BY <2>1, <2>2, <2>3
<1>8. ToSet(BlocksOf(e)) \subseteq Area(s, c)
  <2> HIDE DEF e
  <2> DEFINE f == [k \in 1 .. c |-> s + k - 1]
  <2>1. ToSet(BlocksOf(e)) = {f[k] : k \in DOMAIN f}
    BY <1>6 DEF ToSet
  <2>2. \A k \in 1 .. c : s + k - 1 \in Area(s, c)
    BY <1>1, AreaIs
  <2> QED
    BY <2>1, <2>2
<1>9. DataOf(n) = TreeBlocks(fmt.inodes[n].root) \cup ToSet(BlocksOf(e))
  BY DEF DataOf
<1> HIDE DEF e, t
<1>10. DataOf(n) \subseteq Area(s, c)
  BY <1>1, <1>7, <1>8, <1>9
<1> QED
  BY <1>1, <1>3, <1>5, <1>6, <1>10 DEF e

\* An inode with a name is one of those there are.
LEMMA NamedAre ==
  ASSUME BlockInv
  PROVE  NamedInodes \subseteq DOMAIN fmt.inodes
PROOF
<1>1. ASSUME NEW i \in DOMAIN fmt.tree.nodes PROVE Refers(fmt, i) \in DOMAIN fmt.inodes
  <2>1. NodeOwned(fmt, First, i)
    BY DEF BlockInv, Keeps, Owned
  <2> QED
    BY <2>1 DEF NodeOwned, Refers
<1>2. Visible(fmt) \subseteq DOMAIN fmt.tree.nodes
  BY DEF Visible
<1> QED
  BY <1>1, <1>2 DEF NamedInodes

\* Every block of every directory that close() leaves behind is filled with
\* records to its end, whatever was made, replaced and taken away before.
THEOREM DirectoriesFilled == Spec => [](ReserveKept => DirsWellFilled)
PROOF
<1>1. BlockInv => (ReserveKept => DirsWellFilled)
  <2>1. SUFFICES ASSUME BlockInv, ReserveKept, Finished,
                        NEW n \in NamedInodes, IsDir(fmt.inodes[n])
                 PROVE  LET blocks == BlocksOf(ParseExtents(fmt.inodes[n].root, image.disk))
                        IN WellFilled([k \in DOMAIN blocks |-> image.disk[blocks[k]]])
    BY DEF DirsWellFilled
  <2>2. n \in DOMAIN fmt.inodes
    BY <2>1, NamedAre
  <2>3. PICK at, many : Spans(fmt, First, at, many)
    BY <2>1 DEF BlockInv, Keeps, Owned
  <2> DEFINE s == at[n]
             c == many[n]
  <2>4. Holds(fmt, n, s, c) /\ First <= s
    BY <2>2, <2>3 DEF Spans
  <2> HIDE DEF s, c
  <2> DEFINE blocks == BlocksOf(ParseExtents(fmt.inodes[n].root, image.disk))
             d == [k \in DOMAIN blocks |-> image.disk[blocks[k]]]
  <2>5. /\ s \in Nat /\ c \in Nat /\ blocks = [k \in 1 .. c |-> s + k - 1]
        /\ \A b \in Area(s, c) : image.disk[b] = fmt.disk[b]
    BY <2>1, <2>2, <2>4, DataAre
  <2> HIDE DEF blocks
  <2>6. ASSUME NEW k \in DOMAIN d PROVE FullBlock(d[k])
    <3>1. k \in 1 .. c /\ d[k] = image.disk[s + k - 1]
      BY <2>5
    <3>2. s + k - 1 \in Area(s, c)
      BY <2>5, <3>1, AreaIs
    <3>3. FullBlock(fmt.disk[s + k - 1])
      BY <2>1, <2>4, <3>1 DEF Holds, HasData, IsDir
    <3> QED
      BY <2>5, <3>1, <3>2, <3>3
  <2> HIDE DEF d
  <2>7. WellFilled(d)
    BY <2>6 DEF WellFilled, FullBlock, RecSum
  <2> QED
    BY <2>7 DEF d, blocks
<1> QED
  BY <1>1, BlocksKept, PTL

\* What a group that holds data has in use is counted from nothing up: what it
\* clears again, it had set.
LEMMA UsedCounted ==
  ASSUME BlockInv, Finished, ReserveKept, NEW g \in DOMAIN image.groups
  PROVE  image.groups[g].used \in Nat
PROOF
<1> DEFINE p == image.plan
<1>1. /\ LaidOut(p, fmt.cur, Len(fmt.inodes))
      /\ image.groups = Descriptors(p, fmt.inodes, fmt.deleted)
      /\ DOMAIN image.groups = 0 .. p.groups - 1
  BY ImageIs
<1>2. /\ p.table \in Nat /\ p.used \in Nat /\ p.reserved \in Nat /\ p.groups \in Nat
      /\ p.dataGroups \in Nat /\ p.firstTable = fmt.cur
      /\ p.bitmaps = fmt.cur + p.dataGroups * p.table /\ p.used = p.bitmaps + 2 * p.dataGroups
      /\ p.descriptors \in Nat
  BY <1>1 DEF LaidOut
<1>3. /\ fmt.cur \in Nat /\ First \in Nat /\ First <= fmt.cur
      /\ fmt.deleted \subseteq First .. fmt.cur - 1
  BY FirstIs DEF BlockInv, Keeps, Owned, FreedWritten, Written
<1>4. p.reserved < First
  <2>1. DescriptorBlocks(size) \in Nat
    BY DescriptorsAre DEF BlockInv
  <2>2. p.reserved <= DescriptorBlocks(size)
    BY DEF ReserveKept
  <2> HIDE DEF p
  <2>3. First = DescriptorBlocks(size) + 1
    BY DEF First
  <2> QED
    BY <1>2, <2>1, <2>2, <2>3
<1> HIDE DEF p
<1>5. fmt.cur <= p.used
  <2>1. p.dataGroups * p.table \in Nat
    BY <1>2
  <2> QED
    BY <1>2, <1>3, <2>1
<1>6. g \in Nat /\ g \in 0 .. p.groups - 1
  BY <1>1, <1>2
<1>7. CASE g < p.dataGroups
  <2>1. image.groups[g] = DataGroup(p, fmt.inodes, fmt.deleted, g)
    BY <1>1, <1>6, <1>7 DEF Descriptors
  <2> DEFINE set == {b \in InGroup(g) : b < p.used}
             padded == set \cup {b \in InGroup(g) : b >= GroupStart(g) + RealBlocks(p, g)}
             freed == padded \cap Freed(p, fmt.deleted, g)
  <2>2. image.groups[g].used = Cardinality(set) - Cardinality(freed)
    BY <2>1 DEF DataGroup
  <2>3. freed \subseteq set
    <3>1. SUFFICES ASSUME NEW b \in InGroup(g),
                          b \in p.descriptors + 1 .. p.reserved \/ b \in fmt.deleted
                   PROVE  b < p.used
      BY DEF Freed
    <3>2. b < fmt.cur /\ b \in Int
      BY <1>2, <1>3, <1>4, <3>1
    <3> QED
      BY <1>2, <1>3, <1>5, <3>2
  <2>4. IsFiniteSet(set)
    <3>1. GroupStart(g) \in Nat /\ BlocksPerGroup \in Nat
      <4>1. BlocksPerGroup \in Nat
        BY LayoutAssumption
      <4> QED
        BY <1>6, <4>1 DEF GroupStart
    <3>2. GroupStart(g) + BlocksPerGroup - 1 \in Int
      BY <3>1
    <3>3. IsFiniteSet(InGroup(g))
      BY <3>1, <3>2, FS_Interval DEF InGroup
    <3> QED
      BY <3>3, FS_Subset
  <2> HIDE DEF set, freed
  <2>5. IsFiniteSet(freed) /\ Cardinality(freed) <= Cardinality(set)
    BY <2>3, <2>4, FS_Subset
  <2>6. Cardinality(set) \in Nat /\ Cardinality(freed) \in Nat
    BY <2>4, <2>5, FS_CardinalityType
  <2> QED
    BY <2>2, <2>5, <2>6
<1>8. CASE ~(g < p.dataGroups)
  <2>1. image.groups[g] = EmptyGroup(p, g)
    BY <1>1, <1>6, <1>8 DEF Descriptors
  <2>2. image.groups[g].used = p.table + 2
    BY <2>1 DEF EmptyGroup
  <2> QED
    BY <1>2, <2>2
<1> QED
  BY <1>7, <1>8

\* The superblock counts all blocks of the plan.
LEMMA BlocksCounted ==
  ASSUME BlockInv, Finished, ReserveKept
  PROVE  image.super.blocks \in Nat /\ image.plan.blocks <= image.super.blocks
PROOF
<1> DEFINE p == image.plan
           f == [g \in DOMAIN image.groups |-> image.groups[g].used]
<1>1. /\ LaidOut(p, fmt.cur, Len(fmt.inodes))
      /\ image.super = SuperBlock(p, image.groups)
      /\ DOMAIN image.groups = 0 .. p.groups - 1
  BY ImageIs
<1>2. p.blocks \in Nat /\ p.groups \in Nat
  BY <1>1 DEF LaidOut
<1> HIDE DEF p
<1>3. DOMAIN f = 0 .. p.groups - 1
  BY <1>1
<1>4. \A g \in DOMAIN f : f[g] \in Nat
  BY UsedCounted
<1>5. image.super.blocks = Greatest(p.blocks, SumFunction(f))
  BY <1>1 DEF SuperBlock
<1> HIDE DEF f
<1>6. IsFiniteSet(DOMAIN f)
  <2>1. 0 \in Int /\ p.groups - 1 \in Int
    BY <1>2
  <2> QED
    BY <1>3, <2>1, FS_Interval
<1>7. SumFunction(f) \in Nat
  <2>1. Steps!SumOver(f, DOMAIN f) \in Nat
    <3> DEFINE S == DOMAIN f
    <3>1. \A e \in S : f[e] \in Nat
      BY <1>4
    <3>2. Steps!Finite(S)
      BY <1>6 DEF IsFiniteSet, Steps!Finite
    <3> HIDE DEF S
    <3>3. Steps!SumOver(f, S) \in Nat
      BY <3>1, <3>2, Steps!SumType
    <3> QED
      BY <3>3 DEF S
  <2>2. SumFunction(f) = Steps!SumOver(f, DOMAIN f)
    BY SumsAre DEF Steps!SumAll
  <2> QED
    BY <2>1, <2>2
<1> DEFINE x == SumFunction(f)
<1> HIDE DEF x
<1>8. x \in Nat /\ image.super.blocks = Greatest(p.blocks, x)
  BY <1>5, <1>7 DEF x
<1> QED
  BY <1>2, <1>8 DEF Greatest, p

\* No two tables or bitmaps share a block.
LEMMA GroupsDisjoint ==
  ASSUME BlockInv, Finished, NEW g \in DOMAIN image.groups
  PROVE  /\ \A b \in TableBlocks(g) \cup BitmapBlocks(g) :
              b \in Nat /\ fmt.cur <= b /\ b < image.plan.blocks
         /\ \A h \in DOMAIN image.groups : TableBlocks(g) \cap BitmapBlocks(h) = {}
         /\ \A h \in DOMAIN image.groups \ {g} :
              /\ TableBlocks(g) \cap TableBlocks(h) = {}
              /\ BitmapBlocks(g) \cap BitmapBlocks(h) = {}
PROOF
<1> DEFINE p == image.plan
           t == p.table
           T(h) == GroupAt(p, h).table
           B(h) == GroupAt(p, h).bitmap
<1>1. /\ LaidOut(p, fmt.cur, Len(fmt.inodes))
      /\ DOMAIN image.groups = 0 .. p.groups - 1
      /\ \A h \in 0 .. p.groups - 1 :
           /\ image.groups[h].table = GroupAt(p, h).table
           /\ image.groups[h].bitmap = GroupAt(p, h).bitmap
  BY ImageIs
<1>2. fmt.cur \in Nat /\ Len(fmt.inodes) \in Nat
  BY InodesAre DEF BlockInv, Keeps, Owned
<1>3. /\ p.groups \in Nat /\ t \in Nat /\ p.bitmaps \in Nat /\ p.used \in Nat
      /\ p.dataGroups \in Nat /\ p.blocks \in Nat
  <2>1. /\ p.groups \in Nat /\ t \in Nat /\ p.dataGroups \in Nat /\ p.blocks \in Nat
        /\ p.used \in Nat /\ p.bitmaps = fmt.cur + p.dataGroups * t
    BY <1>1 DEF LaidOut
  <2> HIDE DEF p, t
  <2>2. p.dataGroups * t \in Nat
    BY <2>1
  <2> QED
    BY <1>2, <2>1, <2>2
<1>4. ASSUME NEW h \in 0 .. p.groups - 1
      PROVE  TableBlocks(h) = T(h) .. T(h) + t - 1 /\ BitmapBlocks(h) = B(h) .. B(h) + 2 - 1
  BY <1>1 DEF TableBlocks, BitmapBlocks, Span
<1>5. ASSUME NEW k \in 0 .. p.groups - 1
      PROVE  /\ T(k) \in Nat /\ B(k) \in Nat /\ fmt.cur <= T(k)
             /\ T(k) + t <= B(k) /\ B(k) + 2 <= p.blocks
             /\ p.bitmaps <= B(k)
             /\ k < p.dataGroups => T(k) + t <= p.bitmaps
             /\ \A h \in 0 .. k - 1 :
                  /\ T(h) + t <= T(k) /\ B(h) + 2 <= B(k)
                  /\ k >= p.dataGroups => B(h) + 2 <= T(k)
  <2> HIDE DEF p
  <2> QED
    BY <1>1, <1>2, GroupsApart
<1> HIDE DEF p, t, T, B
<1>6. g \in 0 .. p.groups - 1 /\ g \in Nat
  BY <1>1, <1>3
<1>7. ASSUME NEW b \in TableBlocks(g) \cup BitmapBlocks(g)
      PROVE  b \in Nat /\ fmt.cur <= b /\ b < p.blocks
  <2>1. b \in T(g) .. T(g) + t - 1 \/ b \in B(g) .. B(g) + 2 - 1
    BY <1>4, <1>6
  <2>2. T(g) \in Nat /\ B(g) \in Nat /\ fmt.cur <= T(g) /\ T(g) + t <= B(g)
        /\ B(g) + 2 <= p.blocks
    BY <1>5, <1>6
  <2> QED
    BY <1>2, <1>3, <2>1, <2>2
<1>8. ASSUME NEW h \in 0 .. p.groups - 1, NEW k \in 0 .. p.groups - 1, h < k
      PROVE  /\ TableBlocks(h) \cap TableBlocks(k) = {}
             /\ BitmapBlocks(h) \cap BitmapBlocks(k) = {}
             /\ TableBlocks(h) \cap BitmapBlocks(k) = {}
             /\ TableBlocks(k) \cap BitmapBlocks(h) = {}
  <2>1. h \in 0 .. k - 1 /\ k \in Nat
    BY <1>3, <1>8
  <2>2. /\ T(h) \in Nat /\ B(h) \in Nat /\ T(h) + t <= B(h) /\ p.bitmaps <= B(h)
    BY <1>5
  <2>3. /\ T(k) \in Nat /\ B(k) \in Nat /\ T(h) + t <= T(k) /\ B(h) + 2 <= B(k)
        /\ k < p.dataGroups => T(k) + t <= p.bitmaps
        /\ k >= p.dataGroups => B(h) + 2 <= T(k)
    BY <1>5, <2>1
  <2>4. /\ TableBlocks(h) = T(h) .. T(h) + t - 1 /\ BitmapBlocks(h) = B(h) .. B(h) + 2 - 1
        /\ TableBlocks(k) = T(k) .. T(k) + t - 1 /\ BitmapBlocks(k) = B(k) .. B(k) + 2 - 1
    BY <1>4
  <2>5. TableBlocks(h) \cap TableBlocks(k) = {}
    BY <1>3, <2>2, <2>3, <2>4
  <2>6. BitmapBlocks(h) \cap BitmapBlocks(k) = {}
    BY <1>3, <2>2, <2>3, <2>4
  <2>7. TableBlocks(h) \cap BitmapBlocks(k) = {}
    BY <1>3, <2>2, <2>3, <2>4
  <2>8. TableBlocks(k) \cap BitmapBlocks(h) = {}
    <3>1. CASE k < p.dataGroups
      <4>1. T(k) + t <= B(h)
        BY <1>3, <2>2, <2>3, <3>1
      <4> QED
        BY <1>3, <2>2, <2>3, <2>4, <4>1
    <3>2. CASE ~(k < p.dataGroups)
      <4>1. B(h) + 2 <= T(k)
        BY <1>3, <2>1, <2>3, <3>2
      <4> QED
        BY <1>3, <2>2, <2>3, <2>4, <4>1
    <3> QED
      BY <3>1, <3>2
  <2> QED
    BY <2>5, <2>6, <2>7, <2>8
<1>9. TableBlocks(g) \cap BitmapBlocks(g) = {}
  <2>1. T(g) \in Nat /\ B(g) \in Nat /\ T(g) + t <= B(g)
    BY <1>5, <1>6
  <2>2. TableBlocks(g) = T(g) .. T(g) + t - 1 /\ BitmapBlocks(g) = B(g) .. B(g) + 2 - 1
    BY <1>4, <1>6
  <2> QED
    BY <1>3, <2>1, <2>2
<1>10. ASSUME NEW h \in 0 .. p.groups - 1, h # g
       PROVE  /\ TableBlocks(g) \cap TableBlocks(h) = {}
              /\ BitmapBlocks(g) \cap BitmapBlocks(h) = {}
              /\ TableBlocks(g) \cap BitmapBlocks(h) = {}
  <2>1. h < g \/ g < h
    BY <1>3, <1>6, <1>10
  <2>2. CASE g < h
    BY <1>6, <1>8, <2>2
  <2>3. CASE h < g
    <3>1. /\ TableBlocks(h) \cap TableBlocks(g) = {}
          /\ BitmapBlocks(h) \cap BitmapBlocks(g) = {}
          /\ TableBlocks(g) \cap BitmapBlocks(h) = {}
      BY <1>6, <1>8, <2>3
    <3> QED
      BY <3>1
  <2> QED
    BY <2>1, <2>2, <2>3
<1>11. \A h \in DOMAIN image.groups : TableBlocks(g) \cap BitmapBlocks(h) = {}
  BY <1>1, <1>9, <1>10
<1>12. \A h \in DOMAIN image.groups \ {g} :
         /\ TableBlocks(g) \cap TableBlocks(h) = {}
         /\ BitmapBlocks(g) \cap BitmapBlocks(h) = {}
  BY <1>1, <1>10
<1> QED
  BY <1>7, <1>11, <1>12 DEF p

\* No block of the finished image has two uses: the superblock and the
\* descriptors, the data of the inodes with a name, the tables and the bitmaps
\* are apart, and within the image.
THEOREM BlocksHaveOneOwner == Spec => [](ReserveKept => BlocksOwnedOnce)
PROOF
<1>1. ASSUME BlockInv, ReserveKept, Finished PROVE BlocksOwnedOnce
  <2> DEFINE groups == DOMAIN image.groups
             Users == {<<"head", 0>>} \cup {<<"data", n>> : n \in NamedInodes}
                      \cup {<<"table", g>> : g \in groups} \cup {<<"bitmap", g>> : g \in groups}
             Used(u) == CASE u[1] = "head" -> HeadBlocks
                          [] u[1] = "data" -> DataOf(u[2])
                          [] u[1] = "table" -> TableBlocks(u[2])
                          [] u[1] = "bitmap" -> BitmapBlocks(u[2])
             p == image.plan
  <2>1. /\ First \in Nat /\ fmt.cur \in Nat /\ First <= fmt.cur
        /\ DOMAIN fmt.disk = First .. fmt.cur - 1
    BY <1>1, FirstIs DEF BlockInv, Keeps, Owned, Written
  <2>2. p.blocks \in Nat /\ fmt.cur <= p.blocks /\ p.descriptors \in Nat
        /\ p.reserved \in Nat /\ p.descriptors <= p.reserved
    <3>1. LaidOut(p, fmt.cur, Len(fmt.inodes))
      BY <1>1, ImageIs
    <3>2. /\ p.blocks \in Nat /\ p.used <= p.blocks /\ p.used = p.bitmaps + 2 * p.dataGroups
          /\ p.bitmaps = fmt.cur + p.dataGroups * p.table
          /\ p.dataGroups \in Nat /\ p.table \in Nat /\ p.descriptors \in Nat
          /\ p.reserved \in Nat /\ p.descriptors <= p.reserved
      BY <3>1 DEF LaidOut
    <3> HIDE DEF p
    <3> DEFINE x == p.dataGroups * p.table
    <3>3. x \in Nat /\ p.bitmaps = fmt.cur + x
      BY <3>2
    <3> HIDE DEF x
    <3>4. fmt.cur <= p.bitmaps /\ p.bitmaps \in Nat
      BY <2>1, <3>3
    <3>5. fmt.cur <= p.used /\ p.used \in Nat
      BY <2>1, <3>2, <3>4
    <3> QED
      BY <2>1, <3>2, <3>5
  <2>3. image.super.blocks \in Nat /\ p.blocks <= image.super.blocks
    BY <1>1, BlocksCounted
  <2>4. \A b \in HeadBlocks : b \in Nat /\ b < First
    <3>1. DescriptorBlocks(size) \in Nat /\ First = DescriptorBlocks(size) + 1
      BY <1>1, DescriptorsAre DEF BlockInv, First
    <3>2. p.reserved <= DescriptorBlocks(size)
      BY <1>1 DEF ReserveKept
    <3>3. HeadBlocks = 0 .. p.descriptors
      BY DEF HeadBlocks
    <3> HIDE DEF p
    <3> QED
      BY <2>2, <3>1, <3>2, <3>3
  <2>5. PICK at, many : Spans(fmt, First, at, many)
    BY <1>1 DEF BlockInv, Keeps, Owned
  <2>6. ASSUME NEW n \in NamedInodes
        PROVE  /\ n \in DOMAIN fmt.inodes
               /\ DataOf(n) \subseteq Area(at[n], many[n])
               /\ \A b \in DataOf(n) : b \in Nat /\ First <= b /\ b < fmt.cur
    <3>1. n \in DOMAIN fmt.inodes
      BY <1>1, NamedAre
    <3>2. Holds(fmt, n, at[n], many[n]) /\ First <= at[n]
      BY <2>5, <3>1 DEF Spans
    <3>3. /\ DataOf(n) \subseteq Area(at[n], many[n])
          /\ \A b \in Area(at[n], many[n]) : b \in DOMAIN fmt.disk
      BY <1>1, <3>1, <3>2, DataAre
    <3> QED
      BY <2>1, <3>1, <3>3
  <2>7. ASSUME NEW m \in NamedInodes, NEW n \in NamedInodes, m # n
        PROVE  DataOf(m) \cap DataOf(n) = {}
    <3>1. Area(at[m], many[m]) \cap Area(at[n], many[n]) = {}
      BY <2>5, <2>6, <2>7 DEF Spans
    <3> QED
      BY <2>6, <3>1
  <2>8. ASSUME NEW g \in groups
        PROVE  /\ \A b \in TableBlocks(g) \cup BitmapBlocks(g) :
                    b \in Nat /\ fmt.cur <= b /\ b < p.blocks
               /\ \A h \in groups : TableBlocks(g) \cap BitmapBlocks(h) = {}
               /\ \A h \in groups \ {g} :
                    /\ TableBlocks(g) \cap TableBlocks(h) = {}
                    /\ BitmapBlocks(g) \cap BitmapBlocks(h) = {}
    BY <1>1, <2>8, GroupsDisjoint
  <2> HIDE DEF groups, p
  <2>9. /\ Used(<<"head", 0>>) = HeadBlocks
        /\ \A n : Used(<<"data", n>>) = DataOf(n)
        /\ \A g : Used(<<"table", g>>) = TableBlocks(g)
        /\ \A g : Used(<<"bitmap", g>>) = BitmapBlocks(g)
    OBVIOUS
  <2> HIDE DEF Used
  <2>10. ASSUME NEW u \in Users
         PROVE  /\ \/ u = <<"head", 0>>
                   \/ \E n \in NamedInodes : u = <<"data", n>>
                   \/ \E g \in groups : u = <<"table", g>> \/ u = <<"bitmap", g>>
                /\ \A b \in Used(u) : b < image.super.blocks
    <3>1. \/ u = <<"head", 0>>
          \/ \E n \in NamedInodes : u = <<"data", n>>
          \/ \E g \in groups : u = <<"table", g>> \/ u = <<"bitmap", g>>
      OBVIOUS
    <3>2. \A b \in Used(u) : b \in Nat /\ b < p.blocks
      <4>1. CASE u = <<"head", 0>>
        BY <2>1, <2>2, <2>4, <2>9, <4>1
      <4>2. ASSUME NEW n \in NamedInodes, u = <<"data", n>>
            PROVE  \A b \in Used(u) : b \in Nat /\ b < p.blocks
        BY <2>1, <2>2, <2>6, <2>9, <4>2
      <4>3. ASSUME NEW g \in groups, u = <<"table", g>> \/ u = <<"bitmap", g>>
            PROVE  \A b \in Used(u) : b \in Nat /\ b < p.blocks
        BY <2>8, <2>9, <4>3
      <4> QED
        BY <3>1, <4>1, <4>2, <4>3
    <3>3. \A b \in Used(u) : b < image.super.blocks
      BY <2>2, <2>3, <3>2
    <3> QED
      BY <3>1, <3>3
  <2>11. ASSUME NEW u \in Users, NEW v \in Users, u # v PROVE Used(u) \cap Used(v) = {}
    <3>1. ASSUME NEW w \in Users, w # <<"head", 0>>
          PROVE  HeadBlocks \cap Used(w) = {}
      <4>1. ASSUME NEW n \in NamedInodes, w = <<"data", n>> PROVE HeadBlocks \cap Used(w) = {}
        BY <2>1, <2>4, <2>6, <2>9, <4>1
      <4>2. ASSUME NEW g \in groups, w = <<"table", g>> \/ w = <<"bitmap", g>>
            PROVE  HeadBlocks \cap Used(w) = {}
        BY <2>1, <2>4, <2>8, <2>9, <4>2
      <4> QED
        BY <2>10, <3>1, <4>1, <4>2
    <3>2. ASSUME NEW n \in NamedInodes, NEW w \in Users, w # <<"data", n>>
          PROVE  DataOf(n) \cap Used(w) = {}
      <4>1. CASE w = <<"head", 0>>
        BY <2>1, <2>4, <2>6, <2>9, <4>1
      <4>2. ASSUME NEW m \in NamedInodes, w = <<"data", m>> PROVE DataOf(n) \cap Used(w) = {}
        <5>1. m # n
          BY <3>2, <4>2
        <5> QED
          BY <2>7, <2>9, <4>2, <5>1
      <4>3. ASSUME NEW g \in groups, w = <<"table", g>> \/ w = <<"bitmap", g>>
            PROVE  DataOf(n) \cap Used(w) = {}
        BY <2>1, <2>6, <2>8, <2>9, <4>3
      <4> QED
        BY <2>10, <4>1, <4>2, <4>3
    <3>3. ASSUME NEW g \in groups, NEW h \in groups
          PROVE  /\ Used(<<"table", g>>) \cap Used(<<"bitmap", h>>) = {}
                 /\ g # h => Used(<<"table", g>>) \cap Used(<<"table", h>>) = {}
                 /\ g # h => Used(<<"bitmap", g>>) \cap Used(<<"bitmap", h>>) = {}
      BY <2>8, <2>9
    <3>4. CASE u = <<"head", 0>>
      BY <2>9, <2>11, <3>1, <3>4
    <3>5. CASE v = <<"head", 0>>
      BY <2>9, <2>11, <3>1, <3>5
    <3>6. ASSUME NEW n \in NamedInodes, u = <<"data", n>> PROVE Used(u) \cap Used(v) = {}
      BY <2>9, <2>11, <3>2, <3>6
    <3>7. ASSUME NEW n \in NamedInodes, v = <<"data", n>> PROVE Used(u) \cap Used(v) = {}
      BY <2>9, <2>11, <3>2, <3>7
    <3>8. ASSUME NEW g \in groups, u = <<"table", g>> \/ u = <<"bitmap", g>>,
                 NEW h \in groups, v = <<"table", h>> \/ v = <<"bitmap", h>>
          PROVE  Used(u) \cap Used(v) = {}
      <4>1. CASE u = <<"table", g>> /\ v = <<"table", h>>
        BY <2>11, <3>3, <4>1
      <4>2. CASE u = <<"table", g>> /\ v = <<"bitmap", h>>
        BY <3>3, <4>2
      <4>3. CASE u = <<"bitmap", g>> /\ v = <<"table", h>>
        BY <3>3, <4>3
      <4>4. CASE u = <<"bitmap", g>> /\ v = <<"bitmap", h>>
        BY <2>11, <3>3, <4>4
      <4> QED
        BY <3>8, <4>1, <4>2, <4>3, <4>4
    <3> QED
      BY <2>10, <3>4, <3>5, <3>6, <3>7, <3>8
  <2> QED
    BY <2>10, <2>11 DEF BlocksOwnedOnce, Used, groups
<1>2. BlockInv => (ReserveKept => BlocksOwnedOnce)
  <2>1. ~Finished => BlocksOwnedOnce
    BY DEF BlocksOwnedOnce
  <2> QED
    BY <1>1, <2>1
<1> QED
  BY <1>2, BlocksKept, PTL

\* The reader finds inode n in its group, at its place in the table, as the
\* formatter wrote it.
LEMMA InodeRead ==
  ASSUME BlockInv, Finished, ReserveKept, NEW n \in DOMAIN fmt.inodes
  PROVE  ReadInode(image, n) = fmt.inodes[n]
PROOF
<1> DEFINE p == image.plan
           G == p.dataGroups
           t == p.table
           per == p.inodes
           I == InodesPerBlock
           q == (n - 1) \div per
           slot == (n - 1) % per
           i == slot \div I
           j == slot % I
           l == Len(fmt.inodes)
<1>1. /\ LaidOut(p, fmt.cur, l)
      /\ image.super = SuperBlock(p, image.groups)
      /\ DOMAIN image.groups = 0 .. p.groups - 1
      /\ \A g \in 0 .. p.groups - 1 : image.groups[g].table = GroupAt(p, g).table
  BY ImageIs
<1>2. /\ G \in Nat \ {0} /\ p.groups \in Nat /\ G <= p.groups /\ t \in Nat
      /\ per \in InodesPerGroup /\ t = per \div I
      /\ p.firstTable = fmt.cur /\ p.bitmaps = fmt.cur + G * t
      /\ l <= G * per
  BY <1>1 DEF LaidOut
<1>3. image.super.inodesPerGroup = per
  <2> HIDE DEF p
  <2> QED
    BY <1>1 DEF SuperBlock, per
<1>4. l \in Nat /\ n \in 1 .. l /\ fmt.cur \in Nat
  BY InodesAre DEF BlockInv, Keeps, Owned
<1>5. I \in Nat \ {0} /\ per \in Nat \ {0} /\ per % I = 0
  <2> HIDE DEF per
  <2> QED
    BY <1>2, LayoutAssumption DEF I
<1> HIDE DEF I
<1>6. ReadInode(image, n) =
        IF image.groups[q].table + i \in DOMAIN image.disk
        THEN image.disk[image.groups[q].table + i][j + 1] ELSE Unused
  <2> HIDE DEF per
  <2> QED
    BY <1>3 DEF ReadInode, I
<1>7. GroupAt(p, q).table = IF q < G THEN p.firstTable + q * t ELSE GroupStart(q)
  <2> HIDE DEF q, p
  <2> QED
    BY DEF GroupAt, G, t
<1> HIDE DEF p, G, t, per, l
<1>8. per = I * t
  <2>1. per \in Nat /\ I \in Nat \ {0}
    BY <1>5
  <2>2. per = I * (per \div I) + (per % I)
    BY <2>1
  <2>3. I * (per \div I) \in Nat
    BY <1>2, <2>1
  <2> QED
    BY <1>2, <1>5, <2>2, <2>3
<1>9. q \in Nat /\ slot \in 0 .. per - 1 /\ n - 1 = per * q + slot
  <2>1. n - 1 \in Nat /\ per \in Nat \ {0}
    BY <1>4, <1>5
  <2>2. q \in Nat /\ slot \in 0 .. per - 1
    BY <2>1
  <2> DEFINE m == n - 1
  <2>4. m \in Nat /\ q = m \div per /\ slot = m % per
    BY <2>1
  <2> HIDE DEF m, q, slot
  <2>3. m = per * q + slot
    <3>1. m = per * (m \div per) + (m % per)
      BY <2>1, <2>4
    <3> QED
      BY <2>4, <3>1
  <2> QED
    BY <2>2, <2>3 DEF m
<1> HIDE DEF q, slot
<1>10. i \in Nat /\ j \in 0 .. I - 1 /\ slot = I * i + j
  <2>1. slot \in Nat /\ I \in Nat \ {0}
    BY <1>5, <1>9
  <2> QED
    BY <2>1
<1> HIDE DEF i, j
<1>11. q < G
  <2>1. ASSUME G <= q PROVE FALSE
    <3>1. G * per <= q * per
      BY <1>2, <1>5, <1>9, <2>1
    <3>2. q * per = per * q /\ per * q \in Nat /\ G * per \in Nat
      BY <1>2, <1>5, <1>9
    <3> QED
      BY <1>2, <1>4, <1>9, <3>1, <3>2
  <2> QED
    BY <1>2, <1>9, <2>1
<1>12. i < t
  <2>1. ASSUME t <= i PROVE FALSE
    <3>1. I * t <= I * i
      BY <1>2, <1>5, <1>10, <2>1
    <3>2. I * t \in Nat /\ I * i \in Nat
      BY <1>2, <1>5, <1>10
    <3> QED
      BY <1>5, <1>8, <1>9, <1>10, <3>1, <3>2
  <2> QED
    BY <1>2, <1>10, <2>1
<1> DEFINE k == q * t + i
<1>13. k \in Nat /\ k < G * t /\ G * t \in Nat
  <2>1. (q + 1) * t <= G * t
    BY <1>2, <1>9, <1>11
  <2>2. (q + 1) * t = q * t + t /\ q * t \in Nat /\ G * t \in Nat
    BY <1>2, <1>9
  <2> QED
    BY <1>2, <1>10, <1>12, <2>1, <2>2
<1>14. image.groups[q].table + i = fmt.cur + k
  <2>1. q \in 0 .. p.groups - 1
    BY <1>2, <1>9, <1>11
  <2>2. image.groups[q].table = fmt.cur + q * t
    BY <1>1, <1>2, <1>7, <1>11, <2>1
  <2>3. q * t \in Nat
    BY <1>2, <1>9
  <2> QED
    BY <1>4, <1>10, <2>2, <2>3
<1>15. k * I + (j + 1) = n
  <2>1. k * I = q * (t * I) + i * I
    BY <1>2, <1>5, <1>9, <1>10
  <2>2. t * I = per /\ i * I = I * i
    BY <1>2, <1>5, <1>8, <1>10
  <2>3. k * I = q * per + I * i
    BY <2>1, <2>2
  <2>4. q * per = per * q /\ per * q \in Nat /\ I * i \in Nat
    BY <1>5, <1>9, <1>10
  <2>5. k * I = per * q + I * i
    BY <2>3, <2>4
  <2> DEFINE x == per * q
             y == I * i
             z == k * I
  <2>6. z = x + y /\ n - 1 = x + slot /\ slot = y + j /\ x \in Nat /\ y \in Nat
    BY <1>9, <1>10, <2>4, <2>5
  <2> HIDE DEF x, y, z
  <2>8. j \in Nat
    BY <1>5, <1>10
  <2>7. z + (j + 1) = n
    <3>1. n \in Nat
      BY <1>4
    <3> QED
      BY <2>6, <2>8, <3>1
  <2> QED
    BY <2>7 DEF z
<1> HIDE DEF k
<1>17. /\ fmt.cur + k \in DOMAIN image.disk
       /\ image.disk[fmt.cur + k] = TableBlock(fmt.inodes, Unused, k)
  <2>1. \A b \in fmt.cur .. p.bitmaps - 1 :
          /\ b \in DOMAIN image.disk
          /\ image.disk[b] = TableBlock(fmt.inodes, Unused, b - fmt.cur)
    BY DiskIs DEF p
  <2>2. ASSUME NEW b, b = fmt.cur + k
        PROVE  b \in DOMAIN image.disk /\ image.disk[b] = TableBlock(fmt.inodes, Unused, k)
    <3>1. b \in fmt.cur .. p.bitmaps - 1 /\ b - fmt.cur = k
      <4> DEFINE x == G * t
      <4>1. x \in Nat /\ k < x /\ p.bitmaps = fmt.cur + x
        BY <1>2, <1>13
      <4> HIDE DEF x
      <4> QED
        BY <1>4, <1>13, <2>2, <4>1
    <3> QED
      BY <2>1, <3>1
  <2> QED
    BY <2>2
<1>18. TableBlock(fmt.inodes, Unused, k)[j + 1] = fmt.inodes[n]
  <2>1. j + 1 \in 1 .. I
    BY <1>5, <1>10
  <2>2. TableBlock(fmt.inodes, Unused, k)[j + 1]
        = IF k * I + (j + 1) <= l THEN fmt.inodes[k * I + (j + 1)] ELSE Unused
    BY <2>1 DEF TableBlock, I, l
  <2> QED
    BY <1>4, <1>15, <2>2
<1> QED
  BY <1>6, <1>14, <1>17, <1>18

\* Every inode that the formatter made is what the reader reads.
THEOREM InodesReadBack ==
  Spec => [](Finished /\ ReserveKept =>
               \A n \in DOMAIN fmt.inodes : ReadInode(image, n) = fmt.inodes[n])
PROOF
<1>1. BlockInv => (Finished /\ ReserveKept =>
                     \A n \in DOMAIN fmt.inodes : ReadInode(image, n) = fmt.inodes[n])
  BY InodeRead
<1> QED
  BY <1>1, BlocksKept, PTL

\* A read of part of a file of the image is put together from the bytes it
\* asked for.
THEOREM RangesAreRead == Spec => [](ReserveKept => RangesReadBack)
PROOF
<1>1. ASSUME BlockInv, ReserveKept, phase = "read", NEW n \in FirstInode .. Len(fmt.inodes),
             ReadInode(image, n).kind = "file",
             NEW start \in {0, BlockSize - 1, 3 * BlockSize}, NEW count \in {1, BlockSize + 1},
             start + count <= ReadInode(image, n).size
      PROVE  LET extents == ParseExtents(ReadInode(image, n).root, image.disk)
                 blocks  == BlocksOf(extents)
             IN BytesOf(Chunks(extents, start, count)) =
                  [b \in 1 .. count |->
                     LET at == start + b - 1
                     IN blocks[at \div BlockSize + 1] * BlockSize + (at % BlockSize)]
  <2>1. Finished
    BY <1>1 DEF Finished
  <2>2. n \in DOMAIN fmt.inodes
    <3>1. Len(fmt.inodes) \in Nat /\ DOMAIN fmt.inodes = 1 .. Len(fmt.inodes)
      BY <1>1, InodesAre DEF BlockInv, Keeps, Owned
    <3> QED
      BY <3>1 DEF FirstInode
  <2>3. ReadInode(image, n) = fmt.inodes[n]
    BY <1>1, <2>1, <2>2, InodeRead
  <2>4. PICK at, many : Spans(fmt, First, at, many)
    BY <1>1 DEF BlockInv, Keeps, Owned
  <2> DEFINE s == at[n]
             c == many[n]
             size1 == fmt.inodes[n].size
             extents == ParseExtents(fmt.inodes[n].root, image.disk)
             blocks == BlocksOf(extents)
  <2>5. Holds(fmt, n, s, c) /\ First <= s
    BY <2>2, <2>4 DEF Spans
  <2> HIDE DEF s, c
  <2>6. /\ s \in Nat /\ c \in Nat /\ extents = Leaves(s, c)
        /\ blocks = [k \in 1 .. c |-> s + k - 1]
    BY <1>1, <2>1, <2>2, <2>5, DataAre
  <2>7. size1 \in Nat /\ c = CeilDiv(size1, BlockSize) /\ start + count <= size1
    BY <1>1, <2>3, <2>5 DEF Holds, HasData
  <2> HIDE DEF size1, extents, blocks
  <2>8. start \in Nat /\ count \in Nat /\ BlockSize \in Nat \ {0}
    BY BlockSizeAssumption
  <2>9. start + count <= c * BlockSize /\ c * BlockSize \in Nat
    <3>1. size1 <= c * BlockSize
      BY <2>7, <2>8, BoxesHold
    <3>2. c * BlockSize \in Nat
      BY <2>6, <2>8
    <3> DEFINE x == c * BlockSize
    <3> HIDE DEF x
    <3>3. x \in Nat /\ size1 <= x
      BY <3>1, <3>2 DEF x
    <3>4. start + count <= x
      BY <2>7, <2>8, <3>3
    <3> QED
      BY <3>3, <3>4 DEF x
  <2>10. BytesOf(Chunks(extents, start, count))
         = [b \in 1 .. count |-> s * BlockSize + start + b - 1]
    <3>1. BytesOf(Chunks(Leaves(s, c), start, count))
            = [b \in 1 .. count |-> s * BlockSize + start + b - 1]
      <4>1. s \in Nat /\ c \in Nat
        BY <2>6
      <4>2. start \in Nat /\ count \in Nat
        BY <2>8
      <4>3. start + count <= c * BlockSize
        BY <2>9
      <4> QED
        BY ONLY <4>1, <4>2, <4>3, RangeRead
    <3>2. extents = Leaves(s, c)
      BY <2>6
    <3> QED
      BY <3>1, <3>2, Zenon
  <2>11. ASSUME NEW b \in 1 .. count
         PROVE  LET x == start + b - 1
                IN s * BlockSize + start + b - 1
                   = blocks[x \div BlockSize + 1] * BlockSize + (x % BlockSize)
    <3> DEFINE x == start + b - 1
               q == x \div BlockSize
               r == x % BlockSize
    <3>1. x \in Nat /\ x < c * BlockSize
      <4> DEFINE y == c * BlockSize
      <4>1. y \in Nat /\ start + count <= y
        BY <2>9
      <4> HIDE DEF y
      <4>2. x \in Nat /\ x < y
        BY <2>8, <4>1
      <4> QED
        BY <4>2 DEF y
    <3>2. q \in Nat /\ r \in Nat /\ x = BlockSize * q + r
      <4> HIDE DEF x
      <4> QED
        BY <2>8, <3>1
    <3> HIDE DEF q, r
    <3>3. q < c
      <4>1. ASSUME c <= q PROVE FALSE
        <5>1. c * BlockSize <= q * BlockSize
          BY <2>6, <2>8, <3>2, <4>1
        <5>2. q * BlockSize = BlockSize * q /\ BlockSize * q \in Nat
          BY <2>8, <3>2
        <5> HIDE DEF x
        <5> QED
          BY <2>9, <3>1, <3>2, <5>1, <5>2
      <4> QED
        BY <2>6, <3>2, <4>1
    <3>4. q + 1 \in 1 .. c
      BY <2>6, <3>2, <3>3
    <3>5. blocks[q + 1] = s + q
      BY <2>6, <3>2, <3>4
    <3>6. (s + q) * BlockSize + r = s * BlockSize + x
      <4> HIDE DEF x
      <4> DEFINE y == s * BlockSize
                 z == BlockSize * q
      <4>1. (s + q) * BlockSize = y + z /\ y \in Nat /\ z \in Nat
        BY <2>6, <2>8, <3>2
      <4>2. x = z + r
        BY <3>2
      <4> HIDE DEF z
      <4>3. (s + q) * BlockSize + r = y + x
        BY <3>2, <4>1, <4>2
      <4> QED
        BY <4>3 DEF y
    <3>7. s * BlockSize + x = s * BlockSize + start + b - 1
      <4> DEFINE y == s * BlockSize
      <4>1. y \in Nat
        BY <2>6, <2>8
      <4> HIDE DEF y
      <4>2. y + x = y + start + b - 1
        BY <2>8, <4>1
      <4> QED
        BY <4>2 DEF y
    <3> QED
      BY <3>5, <3>6, <3>7 DEF q, r
  <2>12. BytesOf(Chunks(extents, start, count)) =
           [b \in 1 .. count |->
              LET x == start + b - 1
              IN blocks[x \div BlockSize + 1] * BlockSize + (x % BlockSize)]
    BY <2>10, <2>11
  <2> QED
    BY <2>3, <2>12 DEF extents, blocks
<1>2. BlockInv => (ReserveKept => RangesReadBack)
  BY <1>1 DEF RangesReadBack
<1> QED
  BY <1>2, BlocksKept, PTL

\* Every file of the finished image has, block for block, the body of the
\* entry it was made from, which is the one that gave it its time.
THEOREM FilesKeepTheirData ==
  Spec => [](Finished /\ ReserveKept =>
    \A n \in DOMAIN fmt.inodes :
      LET inode == ReadInode(image, n)
      IN inode.kind = "file" =>
           Body(image.disk, inode) =
             [k \in 1 .. CeilDiv(inode.size, BlockSize) |-> <<<<inode.time>>, k>>])
PROOF
<1>1. ASSUME BlockInv, Finished, ReserveKept, NEW n \in DOMAIN fmt.inodes,
             ReadInode(image, n).kind = "file"
      PROVE  Body(image.disk, ReadInode(image, n)) =
               [k \in 1 .. CeilDiv(ReadInode(image, n).size, BlockSize) |->
                  <<<<ReadInode(image, n).time>>, k>>]
  <2>1. ReadInode(image, n) = fmt.inodes[n]
    BY <1>1, InodeRead
  <2>2. PICK at, many : Spans(fmt, First, at, many)
    BY <1>1 DEF BlockInv, Keeps, Owned
  <2> DEFINE s == at[n]
             c == many[n]
             inode == fmt.inodes[n]
             blocks == BlocksOf(ParseExtents(inode.root, image.disk))
  <2>3. Holds(fmt, n, s, c) /\ First <= s
    BY <2>2 DEF Spans
  <2> HIDE DEF s, c
  <2>4. /\ s \in Nat /\ c \in Nat /\ blocks = [k \in 1 .. c |-> s + k - 1]
        /\ \A b \in Area(s, c) : image.disk[b] = fmt.disk[b]
    BY <1>1, <2>3, DataAre
  <2>5. /\ c = CeilDiv(inode.size, BlockSize)
        /\ \A k \in 1 .. c : fmt.disk[s + k - 1] = <<<<inode.time>>, k>>
    BY <1>1, <2>1, <2>3 DEF Holds, HasData
  <2> HIDE DEF blocks
  <2>6. ASSUME NEW k \in 1 .. c PROVE image.disk[blocks[k]] = <<<<inode.time>>, k>>
    <3>1. s + k - 1 \in Area(s, c)
      BY <2>4, AreaIs
    <3> QED
      BY <2>4, <2>5, <3>1
  <2>7. Body(image.disk, inode) = [k \in 1 .. c |-> image.disk[blocks[k]]]
    BY <2>4 DEF Body, blocks
  <2> HIDE DEF inode
  <2>8. Body(image.disk, inode) = [k \in 1 .. c |-> <<<<inode.time>>, k>>]
    BY <2>6, <2>7
  <2> QED
    BY <2>1, <2>5, <2>8 DEF inode
<1>2. BlockInv => (Finished /\ ReserveKept =>
        \A n \in DOMAIN fmt.inodes :
          LET inode == ReadInode(image, n)
          IN inode.kind = "file" =>
               Body(image.disk, inode) =
                 [k \in 1 .. CeilDiv(inode.size, BlockSize) |-> <<<<inode.time>>, k>>])
  BY <1>1
<1> QED
  BY <1>2, BlocksKept, PTL

-----------------------------------------------------------------------------
(* The counts of the finished image.                                       *)

\* What division leaves.
LEMMA ModIs ==
  ASSUME NEW n \in Nat, NEW d \in Nat \ {0}, NEW q \in Nat, NEW r \in 0 .. d - 1,
         n = d * q + r
  PROVE  n % d = r
PROOF
<1>1. d * q <= n /\ n < d * (q + 1)
  <2>1. d * (q + 1) = d * q + d /\ d * q \in Nat
    OBVIOUS
  <2> QED
    BY <2>1
<1>2. n \div d = q
  BY <1>1, DivUnique
<1>3. n = d * (n \div d) + (n % d) /\ n % d \in Nat
  OBVIOUS
<1> DEFINE x == d * q
           y == n % d
<1>4. x \in Nat /\ n = x + y /\ n = x + r /\ y \in Nat
  BY <1>2, <1>3
<1> HIDE DEF x, y
<1>5. y = r
  BY <1>4
<1> QED
  BY <1>5 DEF y

\* The blocks of a group that exist are what is left of the image, or all.
LEMMA RealAre ==
  ASSUME NEW p, NEW written, NEW inodes, LaidOut(p, written, inodes),
         p.blocks <= p.groups * BlocksPerGroup, NEW g \in 0 .. p.groups - 1
  PROVE  LET r == RealBlocks(p, g)
         IN /\ r \in Nat /\ r <= BlocksPerGroup /\ p.table + 2 <= r
            /\ GroupStart(g) \in Nat
            /\ g # p.groups - 1 => r = BlocksPerGroup
            /\ g = p.groups - 1 => GroupStart(g) + r = p.blocks
            /\ (IF g = p.groups - 1 /\ p.blocks % BlocksPerGroup # 0
                  THEN p.blocks % BlocksPerGroup ELSE BlocksPerGroup) = r
            /\ {b \in InGroup(g) : b < p.blocks} = GroupStart(g) .. GroupStart(g) + r - 1
PROOF
<1> DEFINE d == BlocksPerGroup
           r == RealBlocks(p, g)
           s == GroupStart(g)
<1>1. /\ p.groups \in Nat /\ p.table \in Nat /\ p.blocks \in Nat
      /\ \A k \in 0 .. p.groups - 1 : GroupStart(k) + p.table + 2 <= p.blocks
      /\ p.inodes \in InodesPerGroup /\ p.table = p.inodes \div InodesPerBlock
  BY DEF LaidOut
<1>2. d \in Nat \ {0} /\ p.table + 2 < d
  BY <1>1, LayoutAssumption
<1>3. g \in Nat /\ s \in Nat /\ s = g * d
  BY <1>1, <1>2 DEF GroupStart
<1>4. s + p.table + 2 <= p.blocks
  BY <1>1
<1>5. InGroup(g) = s .. s + d - 1
  BY DEF InGroup
<1>6. r = IF g # p.groups - 1 THEN d ELSE Least(d, Greatest(p.blocks, s) - s)
  BY DEF RealBlocks
<1>7. CASE g # p.groups - 1
  <2>1. g + 1 \in 0 .. p.groups - 1
    BY <1>1, <1>3, <1>7
  <2>2. GroupStart(g + 1) = s + d
    <3>1. (g + 1) * d = g * d + d
      BY <1>2, <1>3
    <3> QED
      BY <3>1 DEF GroupStart
  <2> HIDE DEF s
  <2>3. s + d + p.table + 2 <= p.blocks
    BY <1>1, <2>1, <2>2
  <2>4. r = d
    BY <1>6, <1>7
  <2> HIDE DEF r, d
  <2>5. {b \in s .. s + d - 1 : b < p.blocks} = s .. s + r - 1
    BY <1>1, <1>2, <1>3, <2>3, <2>4
  <2> QED
    BY <1>1, <1>2, <1>3, <1>5, <1>7, <2>4, <2>5 DEF s, r, d
<1>8. CASE g = p.groups - 1
  <2>1. p.blocks <= s + d
    <3>1. p.groups = g + 1
      BY <1>1, <1>8
    <3>2. (g + 1) * d = g * d + d
      BY <1>2, <1>3
    <3> QED
      BY <1>3, <3>1, <3>2
  <2> HIDE DEF s
  <2>2. r = p.blocks - s /\ r \in Nat /\ r <= d /\ p.table + 2 <= r /\ s + r = p.blocks
    <3> DEFINE x == p.blocks
               t == p.table
    <3>1. x \in Nat /\ t \in Nat /\ s + t + 2 <= x /\ x <= s + d
      BY <1>1, <1>4, <2>1
    <3>2. r = Least(d, Greatest(x, s) - s)
      BY <1>6, <1>8
    <3> HIDE DEF x, t, r, d
    <3>3. Greatest(x, s) = x
      BY <1>3, <3>1 DEF Greatest
    <3>4. r = x - s
      BY <1>2, <1>3, <3>1, <3>2, <3>3 DEF Least
    <3>5. r = x - s /\ r \in Nat /\ r <= d /\ t + 2 <= r /\ s + r = x
      BY <1>2, <1>3, <3>1, <3>4
    <3> QED
      BY <3>5 DEF x, t
  <2>3. (IF p.blocks % d # 0 THEN p.blocks % d ELSE d) = r
    <3> DEFINE x == p.blocks
               q == x \div d
    <3> HIDE DEF r, d
    <3>1. x \in Nat /\ x = d * g + r
      <4>1. d * g = g * d
        BY <1>2, <1>3
      <4> QED
        BY <1>1, <1>3, <2>2, <4>1
    <3> HIDE DEF x
    <3>2. CASE r < d
      <4>1. x % d = r
        <5>1. r \in 0 .. d - 1
          BY <1>2, <2>2, <3>2
        <5> QED
          BY <1>2, <1>3, <3>1, <5>1, ModIs
      <4>2. r # 0
        BY <1>1, <2>2
      <4> QED
        BY <4>1, <4>2 DEF x
    <3>3. CASE r = d
      <4>1. x % d = 0
        <5>1. x = d * (g + 1) + 0 /\ g + 1 \in Nat /\ 0 \in 0 .. d - 1
          <6>1. d * (g + 1) = d * g + d /\ d * (g + 1) \in Nat
            BY <1>2, <1>3
          <6> QED
            BY <1>2, <1>3, <3>1, <3>3, <6>1
        <5> QED
          BY <1>2, <3>1, <5>1, ModIs
      <4> QED
        BY <3>3, <4>1 DEF x
    <3> QED
      BY <1>2, <2>2, <3>2, <3>3
  <2> HIDE DEF r, d
  <2>4. {b \in s .. s + d - 1 : b < p.blocks} = s .. s + r - 1
    BY <1>1, <1>2, <1>3, <2>2
  <2> QED
    BY <1>3, <1>5, <1>8, <2>2, <2>3, <2>4 DEF s, r, d
<1> QED
  BY <1>7, <1>8

\* An interval has as many elements as its bounds say.
LEMMA IntervalCount ==
  ASSUME NEW n \in Nat, NEW a \in Int, NEW b \in Int, b = a + n - 1
  PROVE  IsFiniteSet(a .. b) /\ Cardinality(a .. b) = n
PROOF
<1>1. /\ IsFiniteSet(a .. b)
      /\ Cardinality(a .. b) = IF a > b THEN 0 ELSE b - a + 1
  BY FS_Interval
<1> DEFINE c == Cardinality(a .. b)
<1>2. c = IF a > b THEN 0 ELSE b - a + 1
  BY <1>1
<1> HIDE DEF c
<1>3. c = n
  BY <1>2
<1> QED
  BY <1>1, <1>3 DEF c

\* What a group's descriptor says is what its bitmaps say.
GroupCounted(g) ==
  LET group == image.groups[g]
      r == RealBlocks(image.plan, g)
      real == {b \in InGroup(g) : b < image.plan.blocks}
  IN /\ group.used \in Nat /\ group.free \in Nat /\ group.used + group.free = r
     /\ group.free = Cardinality(real \ group.bits)
     /\ Cardinality(group.inodes) \in Nat /\ group.freeInodes \in Nat
     /\ Cardinality(group.inodes) + group.freeInodes = image.plan.inodes

\* A group that holds data.
LEMMA DataGroupCounted ==
  ASSUME BlockInv, Finished, ReserveKept,
         image.plan.blocks <= image.plan.groups * BlocksPerGroup,
         NEW g \in DOMAIN image.groups, g < image.plan.dataGroups
  PROVE  GroupCounted(g)
PROOF
<1> DEFINE p == image.plan
           group == image.groups[g]
           s == GroupStart(g)
           r == RealBlocks(p, g)
           real == {b \in InGroup(g) : b < p.blocks}
           freed == Freed(p, fmt.deleted, g)
           set == {b \in InGroup(g) : b < p.used}
           padded == set \cup {b \in InGroup(g) : b >= s + r}
           mine == {n \in g * p.inodes + 1 .. (g + 1) * p.inodes : n <= Len(fmt.inodes)}
           live == {n \in mine : n <= 10 \/ fmt.inodes[n].links > 0}
           used == Cardinality(set) - Cardinality(padded \cap freed)
<1>1. /\ LaidOut(p, fmt.cur, Len(fmt.inodes))
      /\ image.groups = Descriptors(p, fmt.inodes, fmt.deleted)
      /\ DOMAIN image.groups = 0 .. p.groups - 1
  BY ImageIs
<1>2. group = DataGroup(p, fmt.inodes, fmt.deleted, g)
  <2>1. g \in 0 .. p.groups - 1
    BY <1>1
  <2> QED
    BY <1>1, <2>1 DEF Descriptors
<1>3. /\ group.bits = padded \ freed /\ group.inodes = live /\ group.used = used
      /\ group.free = Greatest(r, used) - used
      /\ group.freeInodes = p.inodes - Cardinality(live)
  BY <1>2 DEF DataGroup
<1>4. /\ r \in Nat /\ s \in Nat /\ real = s .. s + r - 1
  <2>1. g \in 0 .. p.groups - 1
    BY <1>1
  <2> HIDE DEF p
  <2> QED
    BY <1>1, <2>1, RealAre DEF p
<1>5. p.used \in Nat /\ p.blocks \in Nat /\ p.used <= p.blocks /\ p.inodes \in Nat
  <2>1. p.inodes \in InodesPerGroup /\ InodesPerGroup \subseteq Nat
    BY <1>1, LayoutAssumption DEF LaidOut
  <2> QED
    BY <1>1, <2>1 DEF LaidOut
<1>6. group.used \in Nat
  BY UsedCounted
<1>7. \A b \in freed : b < p.used /\ b \in InGroup(g)
  <2>1. /\ fmt.cur \in Nat /\ First \in Nat /\ First <= fmt.cur
        /\ fmt.deleted \subseteq First .. fmt.cur - 1
    BY FirstIs DEF BlockInv, Keeps, Owned, FreedWritten, Written
  <2>2. fmt.cur <= p.used
    <3>1. /\ p.table \in Nat /\ p.dataGroups \in Nat
          /\ p.used = p.bitmaps + 2 * p.dataGroups
          /\ p.bitmaps = fmt.cur + p.dataGroups * p.table
      BY <1>1 DEF LaidOut
    <3> HIDE DEF p
    <3> DEFINE x == p.dataGroups * p.table
    <3>2. x \in Nat /\ p.bitmaps = fmt.cur + x
      BY <3>1
    <3> HIDE DEF x
    <3> QED
      BY <2>1, <3>1, <3>2
  <2>3. p.descriptors \in Nat /\ p.reserved \in Nat /\ p.reserved < First
    <3>1. DescriptorBlocks(size) \in Nat /\ First = DescriptorBlocks(size) + 1
      BY DescriptorsAre DEF BlockInv, First
    <3>2. p.descriptors \in Nat /\ p.reserved \in Nat /\ p.reserved <= DescriptorBlocks(size)
      BY <1>1 DEF LaidOut, ReserveKept
    <3> HIDE DEF p
    <3> QED
      BY <3>1, <3>2
  <2>4. ASSUME NEW b \in freed PROVE b < p.used /\ b \in InGroup(g)
    <3>1. /\ b \in InGroup(g)
          /\ b \in p.descriptors + 1 .. p.reserved \/ b \in fmt.deleted
      BY <2>4 DEF Freed
    <3> HIDE DEF p
    <3>2. b \in Int /\ b < fmt.cur
      BY <2>1, <2>3, <3>1
    <3> QED
      BY <1>5, <2>1, <2>2, <3>1, <3>2
  <2> QED
    BY <2>4
<1> HIDE DEF freed, p, r, s, group
<1>8. set \subseteq real
  <2>1. \A b \in InGroup(g) : b \in Int
    BY LayoutAssumption, <1>4 DEF InGroup, s
  <2> QED
    BY <1>5, <2>1
<1>9. IsFiniteSet(real) /\ Cardinality(real) = r
  <2> DEFINE e == s + r - 1
  <2>1. s \in Int /\ e \in Int /\ e = s + r - 1
    BY <1>4
  <2>2. real = s .. e
    BY <1>4
  <2> HIDE DEF e, real
  <2> QED
    BY <1>4, <2>1, <2>2, IntervalCount
<1>10. padded \cap freed = set \cap freed
  BY <1>7
<1>11. real \cap (padded \ freed) = set \ freed
  <2>1. \A b \in real : ~(b >= s + r)
    <3> HIDE DEF real
    <3> QED
      BY <1>4
  <2> HIDE DEF real
  <2> QED
    BY <1>8, <2>1
<1> HIDE DEF real, set, padded
<1>12. /\ IsFiniteSet(set) /\ IsFiniteSet(set \ freed)
       /\ Cardinality(set \ freed) = Cardinality(set) - Cardinality(set \cap freed)
       /\ Cardinality(set \ freed) <= r
  <2>1. IsFiniteSet(set)
    BY <1>8, <1>9, FS_Subset
  <2>2. /\ IsFiniteSet(set \ freed)
        /\ Cardinality(set \ freed) = Cardinality(set) - Cardinality(set \cap freed)
    BY <2>1, FS_Difference
  <2>3. Cardinality(set \ freed) <= Cardinality(real)
    <3>1. set \ freed \in SUBSET real
      BY <1>8
    <3> QED
      BY <1>9, <3>1, FS_Subset
  <2> QED
    BY <1>9, <2>1, <2>2, <2>3
<1>13. group.used = Cardinality(set \ freed)
  BY <1>3, <1>10, <1>12
<1>14. Cardinality(real \ group.bits) = r - group.used
  <2>1. Cardinality(real \ group.bits)
        = Cardinality(real) - Cardinality(real \cap group.bits)
    BY <1>9, FS_Difference
  <2>2. real \cap group.bits = set \ freed
    BY <1>3, <1>11
  <2> QED
    BY <1>9, <1>13, <2>1, <2>2
<1>15. group.free = r - group.used /\ group.free \in Nat /\ group.used + group.free = r
  <2> DEFINE x == group.used
  <2>1. x \in Nat /\ x <= r /\ group.free = Greatest(r, x) - x
    BY <1>3, <1>6, <1>12, <1>13
  <2> HIDE DEF x
  <2>2. Greatest(r, x) = r
    BY <1>4, <2>1 DEF Greatest
  <2>3. group.free = r - x /\ group.free \in Nat /\ x + group.free = r
    BY <1>4, <2>1, <2>2
  <2> QED
    BY <2>3 DEF x
<1>16. /\ Cardinality(group.inodes) \in Nat /\ group.freeInodes \in Nat
       /\ Cardinality(group.inodes) + group.freeInodes = p.inodes
  <2> DEFINE a == g * p.inodes
             all == a + 1 .. a + p.inodes
  <2>1. a \in Nat /\ g \in Nat
    <3>1. p.groups \in Nat
      BY <1>1 DEF LaidOut
    <3>2. g \in Nat
      BY <1>1, <3>1
    <3> QED
      BY <1>5, <3>2
  <2>2. (g + 1) * p.inodes = a + p.inodes
    BY <1>5, <2>1
  <2> HIDE DEF a
  <2>3. live \subseteq all
    BY <2>2 DEF a
  <2>4. IsFiniteSet(all) /\ Cardinality(all) = p.inodes
    <3> DEFINE m == p.inodes
               b == a + 1
               e == a + m
    <3>1. m \in Nat /\ b \in Int /\ e \in Int /\ e = b + m - 1
      BY <1>5, <2>1
    <3>2. all = b .. e
      OBVIOUS
    <3> HIDE DEF m, b, e, all
    <3>3. IsFiniteSet(all) /\ Cardinality(all) = m
      BY <3>1, <3>2, IntervalCount
    <3> QED
      BY <3>3 DEF m
  <2> HIDE DEF live, mine, all
  <2>5. IsFiniteSet(live) /\ Cardinality(live) <= p.inodes
    BY <2>3, <2>4, FS_Subset
  <2>6. Cardinality(live) \in Nat
    BY <2>5, FS_CardinalityType
  <2> QED
    BY <1>3, <1>5, <2>5, <2>6
<1> QED
  BY <1>6, <1>14, <1>15, <1>16 DEF GroupCounted, group, p, r, real

\* A group beyond the data.
LEMMA EmptyGroupCounted ==
  ASSUME BlockInv, Finished, ReserveKept,
         image.plan.blocks <= image.plan.groups * BlocksPerGroup,
         NEW g \in DOMAIN image.groups, ~(g < image.plan.dataGroups)
  PROVE  GroupCounted(g)
PROOF
<1> DEFINE p == image.plan
           group == image.groups[g]
           s == GroupStart(g)
           r == RealBlocks(p, g)
           real == {b \in InGroup(g) : b < p.blocks}
           rest == p.blocks % BlocksPerGroup
           have == IF g = p.groups - 1 /\ rest # 0 THEN rest ELSE BlocksPerGroup
           own == p.table + 2
           bits == {b \in InGroup(g) : b < s + own \/ b >= s + have}
<1>1. /\ LaidOut(p, fmt.cur, Len(fmt.inodes))
      /\ image.groups = Descriptors(p, fmt.inodes, fmt.deleted)
      /\ DOMAIN image.groups = 0 .. p.groups - 1
  BY ImageIs
<1>2. group = EmptyGroup(p, g)
  <2>1. g \in 0 .. p.groups - 1
    BY <1>1
  <2> QED
    BY <1>1, <2>1 DEF Descriptors
<1>3. /\ group.bits = bits /\ group.inodes = {} /\ group.used = own
      /\ group.free = Greatest(have, own) - own
      /\ group.freeInodes = p.inodes
  BY <1>2 DEF EmptyGroup
<1>4. /\ r \in Nat /\ s \in Nat /\ own <= r /\ have = r /\ real = s .. s + r - 1
  <2>1. g \in 0 .. p.groups - 1
    BY <1>1
  <2> HIDE DEF p
  <2> QED
    BY <1>1, <2>1, RealAre DEF p
<1>5. own \in Nat /\ p.inodes \in Nat
  <2>1. p.inodes \in InodesPerGroup /\ InodesPerGroup \subseteq Nat
    BY <1>1, LayoutAssumption DEF LaidOut
  <2>2. p.table \in Nat
    BY <1>1 DEF LaidOut
  <2> DEFINE t == p.table
             i == p.inodes
  <2>3. t \in Nat /\ own = t + 2 /\ i \in Nat
    BY <2>1, <2>2
  <2> HIDE DEF own, t
  <2> QED
    BY <2>3
<1> HIDE DEF p, group, s, r, have, own
<1>6. real \ group.bits = s + own .. s + r - 1
  <2>1. real \ bits = {b \in real : ~(b < s + own \/ b >= s + r)}
    BY <1>4
  <2> HIDE DEF real, bits
  <2>2. {b \in real : ~(b < s + own \/ b >= s + r)} = s + own .. s + r - 1
    BY <1>4, <1>5
  <2> QED
    BY <1>3, <2>1, <2>2
<1>7. Cardinality(s + own .. s + r - 1) = r - own
  <2> DEFINE a == s + own
             b == s + r - 1
             n == r - own
  <2>1. n \in Nat /\ a \in Int /\ b \in Int /\ b = a + n - 1
    BY <1>4, <1>5
  <2> HIDE DEF a, b, n
  <2>2. Cardinality(a .. b) = n
    BY <2>1, IntervalCount
  <2> QED
    BY <2>2 DEF a, b, n
<1>8. Greatest(have, own) = r
  BY <1>4, <1>5 DEF Greatest
<1>9. group.free = r - own /\ group.free \in Nat /\ own + group.free = r
  BY <1>3, <1>4, <1>5, <1>8
<1>10. Cardinality(group.inodes) = 0
  BY <1>3, FS_EmptySet
<1>11. group.used \in Nat /\ group.used + group.free = r
  BY <1>3, <1>5, <1>9
<1>12. Cardinality(group.inodes) \in Nat /\ group.freeInodes \in Nat
  BY <1>3, <1>5, <1>10
<1>13. Cardinality(group.inodes) + group.freeInodes = p.inodes
  BY <1>3, <1>5, <1>10
<1>14. group.free = Cardinality(real \ group.bits)
  BY <1>6, <1>7, <1>9
<1> QED
  BY <1>9, <1>11, <1>12, <1>13, <1>14 DEF GroupCounted, group, p, r, real

\* The blocks that exist, group by group, are the blocks of the image.
LEMMA RealSum ==
  ASSUME NEW p, NEW written, NEW inodes, LaidOut(p, written, inodes),
         p.blocks <= p.groups * BlocksPerGroup
  PROVE  SumFunction([g \in 0 .. p.groups - 1 |-> RealBlocks(p, g)]) = p.blocks
PROOF
<1> DEFINE d == BlocksPerGroup
           n == p.groups
           x == p.blocks
           f == [g \in 0 .. n - 1 |-> RealBlocks(p, g)]
           P == [k \in 0 .. n |-> IF k = n THEN x ELSE k * d]
<1>1. n \in Nat \ {0} /\ x \in Nat /\ d \in Nat \ {0}
  <2>1. p.dataGroups \in Nat \ {0} /\ n \in Nat /\ p.dataGroups <= n /\ x \in Nat
    BY DEF LaidOut
  <2>2. d \in Nat \ {0}
    BY LayoutAssumption
  <2> HIDE DEF n, x, d
  <2>3. n # 0
    BY <2>1
  <2> QED
    BY <2>1, <2>2, <2>3
<1>2. ASSUME NEW g \in 0 .. n - 1
      PROVE  /\ f[g] \in Nat /\ g * d \in Nat
             /\ g # n - 1 => f[g] = d
             /\ g = n - 1 => g * d + f[g] = x
  <2>1. f[g] = RealBlocks(p, g) /\ GroupStart(g) = g * d
    BY DEF GroupStart
  <2> QED
    BY <2>1, RealAre
<1> HIDE DEF n, x, d, f
<1>3. P[0] = 0
  <2>1. 0 \in 0 .. n /\ 0 # n /\ 0 * d = 0
    BY <1>1
  <2> QED
    BY <2>1
<1>4. ASSUME NEW k \in 1 .. n
      PROVE  f[0 + k - 1] \in Nat /\ P[k] \in Nat /\ P[k] = P[k - 1] + f[0 + k - 1]
  <2>1. k - 1 \in 0 .. n - 1 /\ 0 + k - 1 = k - 1 /\ k \in Nat /\ k \in 0 .. n
        /\ k - 1 \in 0 .. n /\ k - 1 # n
    BY <1>1
  <2>2. P[k - 1] = (k - 1) * d
    BY <2>1
  <2>3. k * d = (k - 1) * d + d /\ k * d \in Nat
    BY <1>1, <2>1
  <2>4. /\ f[k - 1] \in Nat /\ (k - 1) * d \in Nat
        /\ k - 1 # n - 1 => f[k - 1] = d
        /\ k - 1 = n - 1 => (k - 1) * d + f[k - 1] = x
    BY <1>2, <2>1
  <2>5. CASE k = n
    <3>1. P[k] = x
      BY <2>1, <2>5
    <3>2. (k - 1) * d + f[k - 1] = x
      BY <2>4, <2>5
    <3> HIDE DEF P
    <3> QED
      BY <1>1, <2>1, <2>2, <2>4, <3>1, <3>2
  <2>6. CASE k # n
    <3>1. P[k] = k * d
      BY <2>1, <2>6
    <3>2. f[k - 1] = d
      BY <1>1, <2>1, <2>4, <2>6
    <3> HIDE DEF P
    <3> QED
      BY <1>1, <2>1, <2>2, <2>3, <2>4, <3>1, <3>2
  <2> QED
    BY <2>5, <2>6
<1>5. DOMAIN f = 0 .. 0 + n - 1
  BY <1>1 DEF f
<1>6. P[n] = x
  BY <1>1
<1> HIDE DEF P
<1>7. Steps!Running(0, n, f, P)
  BY <1>3, <1>4, <1>5 DEF Steps!Running
<1>8. Steps!SumAll(f) = P[n]
  <2>1. 0 \in Int /\ n \in Nat
    BY <1>1
  <2> QED
    BY <1>7, <2>1, Steps!SumRunning
<1> QED
  BY <1>6, <1>8, SumsAre DEF f, n, x

\* Of each of n groups, h counts what f and g count.
Together(n, f, g, h) ==
  /\ DOMAIN f = 0 .. n - 1 /\ DOMAIN g = 0 .. n - 1 /\ DOMAIN h = 0 .. n - 1
  /\ \A e \in 0 .. n - 1 : f[e] \in Nat /\ g[e] \in Nat /\ h[e] = f[e] + g[e]

\* Two counts of the groups that make a third, group by group, do so in all.
LEMMA SumsOfTwo ==
  ASSUME NEW n \in Nat, NEW f, NEW g, NEW h, Together(n, f, g, h)
  PROVE  /\ SumFunction(f) \in Nat /\ SumFunction(g) \in Nat
         /\ SumFunction(h) = SumFunction(f) + SumFunction(g)
PROOF
<1> USE DEF Together
<1> DEFINE S == 0 .. n - 1
<1>1. Steps!Finite(S)
  <2>1. 0 \in Int /\ n - 1 \in Int
    OBVIOUS
  <2>2. IsFiniteSet(S)
    BY <2>1, FS_Interval
  <2> QED
    BY <2>2 DEF IsFiniteSet, Steps!Finite
<1>2. \A e \in S : f[e] \in Nat /\ g[e] \in Nat /\ h[e] = f[e] + g[e]
  OBVIOUS
<1>3. /\ SumFunction(f) = Steps!SumOver(f, S)
      /\ SumFunction(g) = Steps!SumOver(g, S)
      /\ SumFunction(h) = Steps!SumOver(h, S)
  BY SumsAre DEF Steps!SumAll
<1> HIDE DEF S
<1>4. Steps!SumOver(h, S)
      = Steps!SumOver(f, S) + Steps!SumOver(g, S)
  BY <1>1, <1>2, Steps!SumPlus
<1>5. Steps!SumOver(f, S) \in Nat
  BY <1>1, <1>2, Steps!SumType
<1>6. Steps!SumOver(g, S) \in Nat
  BY <1>1, <1>2, Steps!SumType
<1> QED
  BY <1>3, <1>4, <1>5, <1>6

\* The same number n times.
LEMMA SumsOfOne ==
  ASSUME NEW n \in Nat, NEW c \in Nat, NEW f, DOMAIN f = 0 .. n - 1,
         \A e \in 0 .. n - 1 : f[e] = c
  PROVE  SumFunction(f) = n * c
PROOF
<1> DEFINE P == [k \in 0 .. n |-> k * c]
<1>1. P[0] = 0
  <2>1. 0 \in 0 .. n /\ 0 * c = 0
    OBVIOUS
  <2> QED
    BY <2>1
<1>2. ASSUME NEW k \in 1 .. n
      PROVE  f[0 + k - 1] \in Nat /\ P[k] \in Nat /\ P[k] = P[k - 1] + f[0 + k - 1]
  <2>1. k - 1 \in 0 .. n - 1 /\ 0 + k - 1 = k - 1 /\ k \in 0 .. n /\ k - 1 \in 0 .. n
        /\ k \in Nat
    OBVIOUS
  <2>2. k * c = (k - 1) * c + c /\ k * c \in Nat
    BY <2>1
  <2>3. P[k] = k * c /\ P[k - 1] = (k - 1) * c
    BY <2>1
  <2>4. f[k - 1] = c
    BY <2>1
  <2> HIDE DEF P
  <2> QED
    BY <2>1, <2>2, <2>3, <2>4
<1>3. P[n] = n * c
  OBVIOUS
<1>4. DOMAIN f = 0 .. 0 + n - 1
  OBVIOUS
<1> HIDE DEF P
<1>5. Steps!Running(0, n, f, P)
  BY <1>1, <1>2, <1>4 DEF Steps!Running
<1>6. Steps!SumAll(f) = P[n]
  <2>1. 0 \in Int
    OBVIOUS
  <2> QED
    BY <1>5, <2>1, Steps!SumRunning
<1> QED
  BY <1>3, <1>6, SumsAre

\* What the superblock and the descriptors count as free is what the bitmaps
\* leave clear, when the groups cover the image.
THEOREM CountsAdded == Spec => [](ReserveKept /\ GroupsCoverImage => CountsAgree)
PROOF
<1>1. ASSUME BlockInv, ReserveKept, GroupsCoverImage, Finished PROVE CountsAgree
  <2> DEFINE p == image.plan
             groups == image.groups
             n == p.groups
             used == [g \in DOMAIN groups |-> groups[g].used]
             free == [g \in DOMAIN groups |-> groups[g].free]
             real == [g \in 0 .. n - 1 |-> RealBlocks(p, g)]
             live == [g \in DOMAIN groups |-> Cardinality(groups[g].inodes)]
             unused == [g \in DOMAIN groups |-> groups[g].freeInodes]
             all == [g \in 0 .. n - 1 |-> p.inodes]
             x == image.super.blocks
  <2>1. /\ LaidOut(p, fmt.cur, Len(fmt.inodes))
        /\ image.super = SuperBlock(p, groups)
        /\ DOMAIN groups = 0 .. n - 1
    BY <1>1, ImageIs
  <2>2. n \in Nat /\ p.blocks \in Nat /\ p.inodes \in Nat
    <3>1. p.inodes \in InodesPerGroup /\ InodesPerGroup \subseteq Nat
      BY <2>1, LayoutAssumption DEF LaidOut
    <3> QED
      BY <2>1, <3>1 DEF LaidOut
  <2>3. x \in Nat /\ p.blocks <= x /\ x <= n * BlocksPerGroup
    BY <1>1, BlocksCounted DEF GroupsCoverImage
  <2>4. p.blocks <= n * BlocksPerGroup
    <3>1. n * BlocksPerGroup \in Nat
      <4>1. BlocksPerGroup \in Nat
        BY LayoutAssumption
      <4> QED
        BY <2>2, <4>1
    <3> DEFINE y == n * BlocksPerGroup
               z == p.blocks
    <3>2. y \in Nat /\ z \in Nat /\ x \in Nat /\ z <= x /\ x <= y
      BY <2>2, <2>3, <3>1
    <3> HIDE DEF x, y, z
    <3>3. z <= y
      BY <3>2
    <3> QED
      BY <3>3 DEF y, z
  <2>5. ASSUME NEW g \in DOMAIN groups PROVE GroupCounted(g)
    BY <1>1, <2>4, <2>5, DataGroupCounted, EmptyGroupCounted
  <2>6. /\ x = Greatest(p.blocks, SumFunction(used))
        /\ image.super.free = x - SumFunction(used)
        /\ image.super.freeInodes = n * p.inodes - SumFunction(live)
    BY <2>1 DEF SuperBlock
  <2>7. SumFunction(real) = p.blocks
    BY <2>1, <2>4, RealSum
  <2>8. /\ SumFunction(used) \in Nat /\ SumFunction(free) \in Nat
        /\ SumFunction(real) = SumFunction(used) + SumFunction(free)
    <3>1. \A e \in 0 .. n - 1 : used[e] \in Nat /\ free[e] \in Nat
                                /\ real[e] = used[e] + free[e]
      BY <2>1, <2>5 DEF GroupCounted
    <3>2. DOMAIN used = 0 .. n - 1 /\ DOMAIN free = 0 .. n - 1 /\ DOMAIN real = 0 .. n - 1
      BY <2>1
    <3> HIDE DEF n, used, free, real
    <3>3. Together(n, used, free, real)
      BY <3>1, <3>2 DEF Together
    <3> QED
      BY <2>2, <3>3, SumsOfTwo
  <2>9. /\ SumFunction(live) \in Nat /\ SumFunction(unused) \in Nat
        /\ SumFunction(all) = SumFunction(live) + SumFunction(unused)
    <3>1. \A e \in 0 .. n - 1 : live[e] \in Nat /\ unused[e] \in Nat
                                /\ all[e] = live[e] + unused[e]
      BY <2>1, <2>5 DEF GroupCounted
    <3>2. DOMAIN live = 0 .. n - 1 /\ DOMAIN unused = 0 .. n - 1 /\ DOMAIN all = 0 .. n - 1
      BY <2>1
    <3> HIDE DEF n, live, unused, all
    <3>3. Together(n, live, unused, all)
      BY <3>1, <3>2 DEF Together
    <3> QED
      BY <2>2, <3>3, SumsOfTwo
  <2>10. SumFunction(all) = n * p.inodes
    <3> DEFINE i == p.inodes
    <3>1. DOMAIN all = 0 .. n - 1 /\ \A e \in 0 .. n - 1 : all[e] = i
      OBVIOUS
    <3>2. i \in Nat
      BY <2>2
    <3> HIDE DEF all, i, n
    <3>3. SumFunction(all) = n * i
      BY <2>2, <3>1, <3>2, SumsOfOne
    <3> QED
      BY <3>3 DEF i
  <2>11. x = p.blocks /\ image.super.free = SumFunction(free)
    <3> DEFINE u == SumFunction(used)
               v == SumFunction(free)
               z == p.blocks
               w == image.super.free
    <3>1. u \in Nat /\ v \in Nat /\ z \in Nat /\ z = u + v /\ x = Greatest(z, u) /\ w = x - u
      BY <2>2, <2>6, <2>7, <2>8
    <3> HIDE DEF u, v, z, w, x
    <3>2. x = z /\ w = v
      BY <3>1 DEF Greatest
    <3> QED
      BY <3>2 DEF z, w, v
  <2>12. image.super.freeInodes = SumFunction(unused)
    <3> DEFINE u == SumFunction(live)
               v == SumFunction(unused)
               z == n * p.inodes
               w == image.super.freeInodes
    <3>1. u \in Nat /\ v \in Nat /\ z = u + v /\ w = z - u
      BY <2>6, <2>9, <2>10
    <3> HIDE DEF u, v, z, w
    <3>2. w = v
      BY <3>1
    <3> QED
      BY <3>2 DEF w, v
  <2>13. ASSUME NEW g \in DOMAIN groups
         PROVE  /\ groups[g].free = Cardinality({b \in InGroup(g) : b < x} \ groups[g].bits)
                /\ groups[g].freeInodes = p.inodes - Cardinality(groups[g].inodes)
    <3> DEFINE a == Cardinality(groups[g].inodes)
               b == groups[g].freeInodes
               c == p.inodes
    <3>1. a \in Nat /\ b \in Nat /\ a + b = c
          /\ groups[g].free = Cardinality({e \in InGroup(g) : e < p.blocks} \ groups[g].bits)
      BY <2>5 DEF GroupCounted
    <3> HIDE DEF a, b, c
    <3>2. b = c - a
      BY <3>1
    <3> QED
      BY <2>11, <3>1, <3>2 DEF a, b, c
  <2> QED
    BY <2>11, <2>12, <2>13 DEF CountsAgree
<1>2. BlockInv => (ReserveKept /\ GroupsCoverImage => CountsAgree)
  <2>1. ~Finished => CountsAgree
    BY DEF CountsAgree
  <2> QED
    BY <1>1, <2>1
<1> QED
  BY <1>2, BlocksKept, PTL

-----------------------------------------------------------------------------
(* What the bitmaps mark.                                                  *)

MarkedBlocks == UNION {image.groups[g].bits : g \in DOMAIN image.groups}
MarkedInodes == UNION {image.groups[g].inodes : g \in DOMAIN image.groups}

\* The multiple of d that a number is in.
LEMMA InOneOf ==
  ASSUME NEW n \in Nat, NEW d \in Nat \ {0}, NEW m \in Nat, n < m * d
  PROVE  \E g \in 0 .. m - 1 : g * d <= n /\ n <= g * d + d - 1
PROOF
<1> DEFINE g == n \div d
<1>1. g \in Nat /\ d * g <= n /\ n < d * g + d
  BY DivMod
<1> HIDE DEF g
<1>2. g < m
  <2>1. SUFFICES ASSUME m <= g PROVE FALSE
    BY <1>1
  <2>2. d * m <= d * g
    BY <1>1, <2>1, Z3
  <2>3. d * m = m * d /\ d * m \in Nat /\ d * g \in Nat
    BY <1>1
  <2> QED
    BY <1>1, <2>2, <2>3
<1>3. d * g = g * d /\ g * d \in Nat
  BY <1>1
<1>4. g \in 0 .. m - 1
  BY <1>1, <1>2
<1> QED
  BY <1>1, <1>3, <1>4

\* What close() wrote in one piece, and where the descriptors are in it.
LEMMA PlanBounds ==
  ASSUME BlockInv, Finished, ReserveKept
  PROVE  LET p == image.plan
         IN /\ First \in Nat /\ fmt.cur \in Nat /\ First <= fmt.cur
            /\ p.used \in Nat /\ fmt.cur <= p.bitmaps /\ p.bitmaps <= p.used
            /\ p.bitmaps \in Nat
            /\ p.descriptors \in Nat /\ p.reserved \in Nat
            /\ p.descriptors <= p.reserved /\ p.reserved < First
            /\ fmt.deleted \subseteq First .. fmt.cur - 1
PROOF
<1> DEFINE p == image.plan
<1>1. /\ First \in Nat /\ fmt.cur \in Nat /\ First <= fmt.cur
      /\ fmt.deleted \subseteq First .. fmt.cur - 1
  BY FirstIs DEF BlockInv, Keeps, Owned, FreedWritten, Written
<1>2. LaidOut(p, fmt.cur, Len(fmt.inodes))
  BY ImageIs
<1>3. /\ p.used \in Nat /\ p.used = p.bitmaps + 2 * p.dataGroups
      /\ p.bitmaps = fmt.cur + p.dataGroups * p.table
      /\ p.dataGroups \in Nat /\ p.table \in Nat /\ p.descriptors \in Nat
      /\ p.reserved \in Nat /\ p.descriptors <= p.reserved
  BY <1>2 DEF LaidOut
<1>4. DescriptorBlocks(size) \in Nat /\ First = DescriptorBlocks(size) + 1
  BY DescriptorsAre DEF BlockInv, First
<1>5. p.reserved <= DescriptorBlocks(size)
  BY DEF ReserveKept
<1> HIDE DEF p
<1>6. p.reserved < First
  BY <1>3, <1>4, <1>5
<1> DEFINE x == p.dataGroups * p.table
<1>7. x \in Nat /\ p.bitmaps = fmt.cur + x
  BY <1>3
<1> HIDE DEF x
<1>8. fmt.cur <= p.bitmaps /\ p.bitmaps \in Nat
  BY <1>1, <1>7
<1>9. p.bitmaps <= p.used
  BY <1>3, <1>8
<1> QED
  BY <1>1, <1>3, <1>6, <1>8, <1>9 DEF p

\* A block written in that piece is marked, but for the descriptors it does
\* not need and the blocks that are freed.
LEMMA WrittenMarked ==
  ASSUME BlockInv, Finished, ReserveKept,
         NEW b \in Nat, b < image.plan.used, b \notin fmt.deleted,
         b <= image.plan.descriptors \/ First <= b
  PROVE  b \in MarkedBlocks
PROOF
<1> DEFINE p == image.plan
<1>1. /\ LaidOut(p, fmt.cur, Len(fmt.inodes))
      /\ image.groups = Descriptors(p, fmt.inodes, fmt.deleted)
      /\ DOMAIN image.groups = 0 .. p.groups - 1
  BY ImageIs
<1>2. /\ p.dataGroups \in Nat /\ p.groups \in Nat /\ p.dataGroups <= p.groups
      /\ p.used \in Nat /\ p.used <= p.dataGroups * BlocksPerGroup
  BY <1>1 DEF LaidOut
<1>3. BlocksPerGroup \in Nat \ {0}
  BY LayoutAssumption
<1>4. /\ First \in Nat /\ p.descriptors \in Nat /\ p.reserved \in Nat /\ p.reserved < First
  BY PlanBounds
<1>5. b < p.used /\ (b <= p.descriptors \/ First <= b)
  OBVIOUS
<1>6. \A g \in DOMAIN image.groups : g < p.dataGroups =>
        image.groups[g].bits =
          ({c \in InGroup(g) : c < p.used}
             \cup {c \in InGroup(g) : c >= GroupStart(g) + RealBlocks(p, g)})
          \ Freed(p, fmt.deleted, g)
  <2> SUFFICES ASSUME NEW g \in DOMAIN image.groups, g < p.dataGroups
               PROVE  image.groups[g].bits =
                        ({c \in InGroup(g) : c < p.used}
                           \cup {c \in InGroup(g) : c >= GroupStart(g) + RealBlocks(p, g)})
                        \ Freed(p, fmt.deleted, g)
    OBVIOUS
  <2>1. g \in 0 .. p.groups - 1
    BY <1>1
  <2> HIDE DEF p
  <2>2. image.groups[g] = DataGroup(p, fmt.inodes, fmt.deleted, g)
    BY <1>1, <2>1 DEF Descriptors
  <2> QED
    BY <2>2 DEF DataGroup
<1> HIDE DEF p
<1>7. b < p.dataGroups * BlocksPerGroup
  <2> DEFINE x == p.dataGroups * BlocksPerGroup
  <2>1. x \in Nat /\ p.used <= x
    BY <1>2, <1>3
  <2> HIDE DEF x
  <2>2. b < x
    BY <1>2, <1>5, <2>1
  <2> QED
    BY <2>2 DEF x
<1>8. PICK g \in 0 .. p.dataGroups - 1 :
        g * BlocksPerGroup <= b /\ b <= g * BlocksPerGroup + BlocksPerGroup - 1
  BY <1>2, <1>3, <1>7, InOneOf
<1>9. g \in DOMAIN image.groups /\ g < p.dataGroups
  BY <1>1, <1>2, <1>8
<1>10. b \in InGroup(g)
  <2> DEFINE x == g * BlocksPerGroup
  <2>1. x \in Nat /\ x <= b /\ b <= x + BlocksPerGroup - 1
    BY <1>2, <1>3, <1>8
  <2>2. InGroup(g) = x .. x + BlocksPerGroup - 1
    BY DEF InGroup, GroupStart
  <2> HIDE DEF x
  <2> QED
    BY <1>3, <2>1, <2>2
<1>11. b \notin Freed(p, fmt.deleted, g)
  <2>1. b \notin p.descriptors + 1 .. p.reserved
    BY <1>4, <1>5
  <2> QED
    BY <2>1 DEF Freed
<1>12. b \in image.groups[g].bits
  BY <1>5, <1>6, <1>9, <1>10, <1>11
<1> QED
  BY <1>9, <1>12 DEF MarkedBlocks

\* So are the tables and the bitmaps of every group.
LEMMA TablesMarked ==
  ASSUME BlockInv, Finished, ReserveKept, NEW g \in DOMAIN image.groups,
         NEW b \in TableBlocks(g) \cup BitmapBlocks(g)
  PROVE  b \in MarkedBlocks
PROOF
<1> DEFINE p == image.plan
           t == GroupAt(p, g).table
           m == GroupAt(p, g).bitmap
<1>1. /\ LaidOut(p, fmt.cur, Len(fmt.inodes))
      /\ image.groups = Descriptors(p, fmt.inodes, fmt.deleted)
      /\ DOMAIN image.groups = 0 .. p.groups - 1
      /\ image.groups[g].table = t /\ image.groups[g].bitmap = m
  BY ImageIs
<1>2. /\ First \in Nat /\ fmt.cur \in Nat /\ First <= fmt.cur /\ p.used \in Nat
      /\ p.bitmaps \in Nat /\ fmt.deleted \subseteq First .. fmt.cur - 1
  BY PlanBounds
<1>3. b \in Nat /\ fmt.cur <= b
  BY GroupsDisjoint
<1>4. /\ p.dataGroups \in Nat /\ p.groups \in Nat /\ p.table \in Nat
      /\ p.firstTable = fmt.cur /\ p.bitmaps = fmt.cur + p.dataGroups * p.table
      /\ p.used = p.bitmaps + 2 * p.dataGroups
      /\ p.inodes \in InodesPerGroup /\ p.table = p.inodes \div InodesPerBlock
  BY <1>1 DEF LaidOut
<1>5. g \in Nat /\ g \in 0 .. p.groups - 1
  BY <1>1, <1>4
<1>6. \/ b \in t .. t + p.table - 1
      \/ b \in m .. m + 2 - 1
  BY <1>1 DEF TableBlocks, BitmapBlocks, Span
<1>7. CASE g < p.dataGroups
  <2> DEFINE x == g * p.table
             y == p.dataGroups * p.table
  <2>1. x \in Nat /\ y \in Nat /\ x + p.table <= y
    <3>1. (g + 1) * p.table <= p.dataGroups * p.table
      <4>1. g + 1 <= p.dataGroups
        BY <1>4, <1>5, <1>7
      <4> DEFINE k == p.table
                 n == p.dataGroups
                 q == g + 1
      <4>2. k \in Nat /\ n \in Nat /\ q \in Nat /\ q <= n
        BY <1>4, <1>5, <4>1
      <4> HIDE DEF k, n, q
      <4>3. q * k <= n * k
        BY <4>2, Z3
      <4> QED
        BY <4>3 DEF k, n, q
    <3>2. (g + 1) * p.table = g * p.table + p.table
      BY <1>4, <1>5
    <3> QED
      BY <1>4, <1>5, <3>1, <3>2
  <2>2. t = fmt.cur + x /\ m = p.bitmaps + 2 * g
    BY <1>4, <1>7 DEF GroupAt
  <2>3. p.bitmaps = fmt.cur + y /\ g + 1 <= p.dataGroups
    BY <1>4, <1>5, <1>7
  <2> HIDE DEF p, t, m, x, y
  <2>4. b < p.used
    BY <1>2, <1>3, <1>4, <1>5, <1>6, <2>1, <2>2, <2>3
  <2>5. b \notin fmt.deleted /\ First <= b
    BY <1>2, <1>3
  <2> QED
    BY <1>3, <2>4, <2>5, WrittenMarked DEF p
<1>8. CASE ~(g < p.dataGroups)
  <2> DEFINE s == GroupStart(g)
             rest == p.blocks % BlocksPerGroup
             have == IF g = p.groups - 1 /\ rest # 0 THEN rest ELSE BlocksPerGroup
  <2>1. t = s /\ m = s + p.table
    BY <1>8 DEF GroupAt
  <2>2. image.groups[g].bits = {c \in InGroup(g) : c < s + (p.table + 2) \/ c >= s + have}
    <3>1. image.groups[g] = EmptyGroup(p, g)
      BY <1>1, <1>5, <1>8 DEF Descriptors
    <3> QED
      BY <3>1 DEF EmptyGroup
  <2>3. BlocksPerGroup \in Nat /\ p.table + 2 < BlocksPerGroup
    BY <1>4, LayoutAssumption
  <2>4. s \in Nat
    BY <1>5, <2>3 DEF GroupStart
  <2>5. InGroup(g) = s .. s + BlocksPerGroup - 1
    BY DEF InGroup
  <2> HIDE DEF p, t, m, s, have
  <2>6. s <= b /\ b < s + (p.table + 2)
    BY <1>3, <1>4, <1>6, <2>1, <2>4
  <2>7. b \in InGroup(g)
    BY <1>3, <1>4, <2>3, <2>4, <2>5, <2>6
  <2>8. b \in image.groups[g].bits
    BY <2>2, <2>6, <2>7
  <2> QED
    BY <2>8 DEF MarkedBlocks
<1> QED
  BY <1>7, <1>8

\* And the data of every inode: what is to be freed is of none that has any.
LEMMA DataMarked ==
  ASSUME BlockInv, Finished, ReserveKept, NEW n \in DOMAIN fmt.inodes, NEW b \in DataOf(n)
  PROVE  b \in MarkedBlocks
PROOF
<1>1. PICK at, many : Spans(fmt, First, at, many) /\ Apart(fmt, at, many)
  BY DEF BlockInv, Keeps, Owned
<1>2. Holds(fmt, n, at[n], many[n]) /\ First <= at[n]
  BY <1>1 DEF Spans
<1>3. b \in Area(at[n], many[n])
  BY <1>2, DataAre
<1>4. at[n] \in Nat /\ many[n] \in Nat /\ b < fmt.cur
  BY <1>2, <1>3 DEF Holds, HasData
<1>5. b \in Nat /\ at[n] <= b
  BY <1>3, <1>4, AreaIs
<1>6. b \notin fmt.deleted
  BY <1>1, <1>3 DEF Apart
<1>7. /\ First \in Nat /\ fmt.cur \in Nat /\ image.plan.used \in Nat
      /\ fmt.cur <= image.plan.bitmaps /\ image.plan.bitmaps <= image.plan.used
      /\ image.plan.bitmaps \in Nat
  BY PlanBounds
<1>8. b < image.plan.used /\ First <= b
  BY <1>2, <1>4, <1>5, <1>7
<1> QED
  BY <1>5, <1>6, <1>8, WrittenMarked

\* An inode that is reserved or has links is marked.
LEMMA InodeMarked ==
  ASSUME BlockInv, Finished, NEW n \in DOMAIN fmt.inodes, n <= 10 \/ fmt.inodes[n].links > 0
  PROVE  n \in MarkedInodes
PROOF
<1> DEFINE p == image.plan
<1>1. /\ LaidOut(p, fmt.cur, Len(fmt.inodes))
      /\ image.groups = Descriptors(p, fmt.inodes, fmt.deleted)
      /\ DOMAIN image.groups = 0 .. p.groups - 1
  BY ImageIs
<1>2. /\ p.dataGroups \in Nat /\ p.groups \in Nat /\ p.dataGroups <= p.groups
      /\ p.inodes \in InodesPerGroup /\ Len(fmt.inodes) <= p.dataGroups * p.inodes
  BY <1>1 DEF LaidOut
<1>3. p.inodes \in Nat \ {0}
  BY <1>2, LayoutAssumption
<1>4. DOMAIN fmt.inodes = 1 .. Len(fmt.inodes) /\ Len(fmt.inodes) \in Nat
  BY InodesAre DEF BlockInv, Keeps, Owned
<1> HIDE DEF p
<1> DEFINE i == n - 1
<1>5. i \in Nat /\ i < p.dataGroups * p.inodes
  <2> DEFINE x == p.dataGroups * p.inodes
  <2>1. x \in Nat /\ Len(fmt.inodes) <= x
    BY <1>2, <1>3
  <2> HIDE DEF x
  <2>2. i \in Nat /\ i < x
    BY <1>4, <2>1
  <2> QED
    BY <2>2 DEF x
<1> HIDE DEF i
<1>6. PICK g \in 0 .. p.dataGroups - 1 :
        g * p.inodes <= i /\ i <= g * p.inodes + p.inodes - 1
  BY <1>2, <1>3, <1>5, InOneOf
<1>7. g \in DOMAIN image.groups /\ g < p.dataGroups /\ g \in 0 .. p.groups - 1
  BY <1>1, <1>2, <1>6
<1>8. image.groups[g].inodes =
        {k \in {j \in g * p.inodes + 1 .. (g + 1) * p.inodes : j <= Len(fmt.inodes)} :
           k <= 10 \/ fmt.inodes[k].links > 0}
  <2>1. image.groups[g] = DataGroup(p, fmt.inodes, fmt.deleted, g)
    BY <1>1, <1>7 DEF Descriptors
  <2> QED
    BY <2>1 DEF DataGroup
<1>9. n \in g * p.inodes + 1 .. (g + 1) * p.inodes
  <2> DEFINE x == g * p.inodes
  <2>0. (g + 1) * p.inodes = x + p.inodes /\ x \in Nat
    <3> DEFINE k == p.inodes
    <3>1. k \in Nat /\ g \in Nat
      BY <1>2, <1>3
    <3> HIDE DEF k
    <3>2. (g + 1) * k = g * k + k /\ g * k \in Nat
      BY <3>1
    <3> QED
      BY <3>2 DEF k
  <2>1. (g + 1) * p.inodes = x + p.inodes /\ x \in Nat /\ x <= i /\ i <= x + p.inodes - 1
    BY <1>6, <2>0
  <2> HIDE DEF x
  <2>2. n \in x + 1 .. x + p.inodes
    BY <1>3, <1>4, <2>1 DEF i
  <2> QED
    BY <2>1, <2>2 DEF x
<1>10. n <= Len(fmt.inodes)
  BY <1>4
<1>11. n \in image.groups[g].inodes
  BY <1>8, <1>9, <1>10
<1> QED
  BY <1>7, <1>11 DEF MarkedInodes

\* All of a path.
LEMMA WholeIs ==
  ASSUME NEW S, NEW path \in Seq(S), path # <<>>
  PROVE  SubSeq(path, 1, Len(path)) = path
PROOF
<1>1. Len(path) \in Nat /\ Len(path) >= 1 /\ DOMAIN path = 1 .. Len(path)
      /\ \A k \in 1 .. Len(path) : path[k] \in S
  OBVIOUS
<1> DEFINE l == Len(path)
           w == SubSeq(path, 1, l)
<1>2. /\ w \in Seq(S)
      /\ Len(w) = IF 1 <= l THEN l - 1 + 1 ELSE 0
      /\ \A i \in 1 .. l - 1 + 1 : w[i] = path[1 + i - 1]
  BY <1>1, SubSeqProperties
<1> HIDE DEF l, w
<1>3. l - 1 + 1 = l /\ (\A i \in 1 .. l : 1 + i - 1 = i) /\ 1 <= l
  BY <1>1 DEF l
<1>4. Len(w) = Len(path) /\ \A i \in 1 .. Len(path) : w[i] = path[i]
  BY <1>2, <1>3 DEF l
<1>5. w = path
  BY <1>1, <1>2, <1>4
<1> QED
  BY <1>5 DEF l, w

\* The first names of a path.
LEMMA FirstOnes ==
  ASSUME NEW path \in Seq(DOMAIN NameBytes), NEW k \in Nat, k < Len(path)
  PROVE  LET w == SubSeq(path, 1, k + 1)
             v == SubSeq(path, 1, k)
         IN /\ w \in Seq(DOMAIN NameBytes) /\ w # <<>> /\ Front(w) = v /\ Last(w) = path[k + 1]
            /\ v \in Seq(DOMAIN NameBytes)
PROOF
<1> DEFINE m == k + 1
<1>1. m \in 1 .. Len(path) /\ m - 1 = k
  OBVIOUS
<1> HIDE DEF m
<1>2. /\ SubSeq(path, 1, m) \in Seq(DOMAIN NameBytes) /\ SubSeq(path, 1, m) # <<>>
      /\ Front(SubSeq(path, 1, m)) = SubSeq(path, 1, m - 1)
      /\ Last(SubSeq(path, 1, m)) = path[m]
      /\ SubSeq(path, 1, m - 1) \in Seq(DOMAIN NameBytes)
  BY <1>1, PrefixIs
<1>3. /\ SubSeq(path, 1, m) \in Seq(DOMAIN NameBytes) /\ SubSeq(path, 1, m) # <<>>
      /\ Front(SubSeq(path, 1, m)) = SubSeq(path, 1, k)
      /\ Last(SubSeq(path, 1, m)) = path[m]
      /\ SubSeq(path, 1, k) \in Seq(DOMAIN NameBytes)
  BY <1>1, <1>2, Zenon
<1> QED
  BY <1>3 DEF m

\* The last name of a path that is not there can be made once its parents are.
LEMMA MakeParentsLinked ==
  ASSUME NEW first \in Nat, NEW path \in Seq(DOMAIN NameBytes), path # <<>>,
         NEW f, Keeps(f, first), Linked(f, 0), Lookup(f.tree, path) = 0
  PROVE  LET g == MakeParents(f, path)
         IN Linked(g, 0) /\ ReadyIf(g, path, Len(path))
PROOF
<1> DEFINE h == MakeParents(f, path)
           l == Len(path)
<1>1. \/ h = Fails(f, "NotDirectory")
      \/ \E n, g : ParentsMade(f, path, n, g) /\ h = g[n]
  BY MakeParentsSteps DEF Keeps
<1>0. l \in Nat /\ l >= 1
  OBVIOUS
<1>s. Sound(f.tree)
  BY DEF Keeps, SoundFormatter
<1> HIDE DEF h, l
<1>2. CASE h = Fails(f, "NotDirectory")
  <2>1. h.err = "NotDirectory"
    BY <1>2 DEF Fails, Keeps, Owned, Fields
  <2>2. h.err # ""
    BY <2>1
  <2>3. Linked(h, 0)
    BY <1>2, UnlinkedNothing DEF UnlinkedFrom
  <2> QED
    BY <2>2, <2>3 DEF ReadyIf, h
<1>3. CASE \E n, g : ParentsMade(f, path, n, g) /\ h = g[n]
  <2>1. PICK n, g : ParentsMade(f, path, n, g) /\ h = g[n]
    BY <1>3
  <2>2. PICK have : MadeBelow(f, path, have, n, g) /\ g[0] = f
    BY <2>1 DEF ParentsMade
  <2>3. /\ have \in Nat /\ n \in Nat /\ have + n = l - 1
        /\ \A m \in 1 .. n : g[m] = MakeOneOf(path, g[m - 1], have + m)
        /\ \A m \in 1 .. n : have + m \in 1 .. l - 1
    BY <1>0, <2>2 DEF MadeBelow, l
  <2> DEFINE v == SubSeq(path, 1, have)
             w == SubSeq(path, 1, have + 1)
             p == Lookup(f.tree, v)
             name == path[have + 1]
  <2>4. /\ w \in Seq(DOMAIN NameBytes) /\ w # <<>> /\ Front(w) = v /\ Last(w) = name
        /\ v \in Seq(DOMAIN NameBytes)
    <3>1. have < Len(path)
      BY <1>0, <2>3 DEF l
    <3> QED
      BY <2>3, <3>1, FirstOnes
  <2>5. Lookup(f.tree, w) = 0
    <3>1. CASE have + 1 = l
      <4>1. w = path
        BY <3>1, WholeIs DEF l
      <4> HIDE DEF w
      <4> QED
        BY <4>1
    <3>2. CASE have + 1 # l
      <4>1. have + 1 \in have + 1 .. Len(path) - 1
        BY <1>0, <2>3, <3>2 DEF l
      <4> QED
        BY <2>2, <4>1 DEF MadeBelow
    <3> QED
      BY <3>1, <3>2
  <2>6. p # 0 /\ IsDir(InodeAt(f, p))
    BY <2>2 DEF MadeBelow
  <2> HIDE DEF v, w, name
  <2>7. p \in DOMAIN f.tree.nodes
    BY <1>s, <2>4, <2>6, LookupNode
  <2>8. ~Indexed(f.tree, p, name)
    BY <1>s, <2>4, <2>5, <2>6, LookupChild DEF p
  <2>9. Ready(f, path, have + 1)
    <3>1. SubSeq(path, 1, (have + 1) - 1) = v
      <4>1. (have + 1) - 1 = have
        BY <2>3
      <4> QED
        BY <4>1 DEF v
    <3>2. Lookup(f.tree, SubSeq(path, 1, (have + 1) - 1)) = p
      BY <3>1
    <3> HIDE DEF p
    <3> QED
      BY <2>6, <2>7, <2>8, <3>2 DEF Ready, name
  <2> DEFINE Good(m) == /\ Keeps(g[m], first) /\ Linked(g[m], 0)
                        /\ ReadyIf(g[m], path, have + m + 1)
             P == {m \in 0 .. n : Good(m)}
  <2>10. 0 \in P
    <3>1. have + 0 + 1 = have + 1
      BY <2>3
    <3>2. ReadyIf(f, path, have + 0 + 1)
      BY <2>9, <3>1 DEF ReadyIf
    <3>3. Good(0)
      BY <2>2, <3>2
    <3> HIDE DEF Good
    <3> QED
      BY <2>3, <3>3
  <2>11. ASSUME NEW m \in 1 .. n, m - 1 \in P PROVE m \in P
    <3> DEFINE x == have + m
               a == g[m - 1]
    <3>1. Good(m - 1)
      BY <2>11
    <3>2. have + (m - 1) + 1 = x /\ x \in 1 .. Len(path) - 1 /\ have + m + 1 = x + 1
      BY <2>3 DEF l
    <3>3. Keeps(a, first) /\ Linked(a, 0) /\ ReadyIf(a, path, x)
      <4> DEFINE y == have + (m - 1) + 1
      <4>1. Keeps(a, first) /\ Linked(a, 0) /\ ReadyIf(a, path, y)
        BY <3>1
      <4>2. y = x
        BY <3>2
      <4> HIDE DEF y, x, a
      <4> QED
        BY <4>1, <4>2
    <3>4. g[m] = MakeOneOf(path, a, x)
      BY <2>3
    <3> HIDE DEF a
    <3>5. LET b == MakeOneOf(path, a, x)
          IN Keeps(b, first) /\ Linked(b, 0) /\ ReadyIf(b, path, x + 1)
      <4>1. x \in 1 .. Len(path) - 1
        BY <3>2
      <4> HIDE DEF x
      <4> QED
        BY <3>3, <4>1, MakeOneLinked
    <3>6. Good(m)
      BY <3>2, <3>4, <3>5
    <3> HIDE DEF Good
    <3> QED
      BY <3>6
  <2>12. 0 .. n \subseteq P
    <3> HIDE DEF P
    <3> QED
      BY <2>3, <2>10, <2>11, Making!Upwards
  <2>13. Good(n)
    <3> HIDE DEF Good
    <3> QED
      BY <2>3, <2>12
  <2>14. have + n + 1 = l
    BY <1>0, <2>3
  <2> QED
    BY <2>1, <2>13, <2>14 DEF h, l
<1> QED
  BY <1>1, <1>2, <1>3

\* A directory that is told of again has the links it had.
LEMMA RestateLinked ==
  ASSUME NEW first \in Nat, NEW f, Keeps(f, first), Linked(f, 0), NEW i, NEW e
  PROVE  Linked(Restate(f, i, e), 0)
PROOF
<1> DEFINE ino == f.tree.nodes[i].inode
           a == [f.inodes EXCEPT ![ino].mode = e.mode]
           inodes == [a EXCEPT ![ino].owner = e.owner]
           g == Restate(f, i, e)
<1>1. /\ Fields \subseteq DOMAIN f
      /\ \A n \in DOMAIN f.inodes : Shaped(f.inodes[n])
  BY DEF Keeps, Owned, InodesListed
<1>2. CASE e.owner = "inherit"
  BY <1>2 DEF Restate
<1>3. CASE e.owner # "inherit"
  <2>1. g.inodes = inodes /\ g.tree = f.tree
    <3> DEFINE x == [f EXCEPT !.inodes[ino].mode = e.mode]
    <3>1. g = [x EXCEPT !.inodes[ino].owner = e.owner]
      BY <1>3 DEF Restate
    <3>2. x = [f EXCEPT !.inodes = a]
      BY <1>1 DEF Fields
    <3> HIDE DEF x, ino, a, g
    <3>3. x.inodes = a /\ x.tree = f.tree /\ DOMAIN x = DOMAIN f
      BY <1>1, <3>2 DEF Fields
    <3>4. g = [x EXCEPT !.inodes = inodes]
      BY <3>1, <3>3
    <3> QED
      BY <1>1, <3>3, <3>4 DEF Fields
  <2>2. /\ DOMAIN inodes = DOMAIN f.inodes
        /\ \A n \in DOMAIN f.inodes :
             inodes[n].kind = f.inodes[n].kind /\ inodes[n].links = f.inodes[n].links
    <3> HIDE DEF ino
    <3>1. /\ DOMAIN a = DOMAIN f.inodes
          /\ \A n \in DOMAIN f.inodes :
               Shaped(a[n]) /\ a[n].kind = f.inodes[n].kind /\ a[n].links = f.inodes[n].links
      BY <1>1 DEF Shaped
    <3> HIDE DEF a
    <3>2. /\ DOMAIN inodes = DOMAIN a
          /\ \A n \in DOMAIN a :
               inodes[n].kind = a[n].kind /\ inodes[n].links = a[n].links
      BY <3>1 DEF Shaped
    <3> QED
      BY <3>1, <3>2
  <2> HIDE DEF inodes, g
  <2>3. Linked(g, 0)
    BY <2>1, <2>2, ParentInode, SameLinked
  <2> QED
    BY <2>3 DEF g
<1> QED
  BY <1>2, <1>3

\* create() keeps the links right, even where it fails.
LEMMA CreateLinked ==
  ASSUME NEW first \in Nat, NEW path \in Seq(DOMAIN NameBytes), NEW f, Keeps(f, first),
         Linked(f, 0), NEW e, Makes(e), path # <<>> \/ e.kind = "dir"
  PROVE  Linked(Create(f, path, e), 0)
PROOF
<1> DEFINE i == Lookup(f.tree, path)
           over == i # 0 /\ IsDir(InodeAt(f, i))
           clear == Unlink(f, path, FALSE)
           g == MakeParents(clear, path)
<1>s. SoundFormatter(f)
  BY DEF Keeps
<1>f. \A why : Linked(Fails(f, why), 0)
  BY UnlinkedNothing DEF UnlinkedFrom
<1>1. CASE e.kind = "dir" /\ over
  <2>1. Create(f, path, e) = Restate(f, i, e)
    BY <1>1 DEF Create
  <2> QED
    BY <2>1, RestateLinked
<1>2. CASE e.kind = "dir" /\ ~over /\ i # 0
  <2>1. Create(f, path, e) = Fails(f, "NotDirectory")
    BY <1>2 DEF Create
  <2> QED
    BY <1>f, <2>1
<1>3. CASE /\ ~(e.kind = "dir" /\ i # 0)
           /\ over /\ e.kind # "symlink" /\ f.tree.nodes[i].link = 0
  <2>1. Create(f, path, e) = Fails(f, "NotFile")
    BY <1>3 DEF Create
  <2> QED
    BY <1>f, <2>1
<1>4. CASE /\ ~(e.kind = "dir" /\ i # 0)
           /\ ~(over /\ e.kind # "symlink" /\ f.tree.nodes[i].link = 0)
  <2>1. path # <<>>
    <3>1. path = <<>> => i = Root
      BY <1>s, LookupNode DEF SoundFormatter
    <3> QED
      BY <1>4, <3>1 DEF Root
  <2>2. Keeps(clear, first) /\ Linked(clear, 0) /\ Lookup(clear.tree, path) = 0
    BY <2>1, UnlinkLinked DEF UnlinkedFrom
  <2>3. Keeps(g, first) /\ Linked(g, 0) /\ ReadyIf(g, path, Len(path))
    <3> HIDE DEF clear
    <3> QED
      BY <2>1, <2>2, MakeParentsKeeps, MakeParentsLinked
  <2> HIDE DEF g
  <2>4. CASE g.err # ""
    <3>1. Create(f, path, e) = g
      BY <1>4, <2>4 DEF Create, g, clear
    <3> QED
      BY <2>3, <3>1
  <2>5. CASE g.err = ""
    <3> DEFINE p == Lookup(g.tree, Front(path))
               name == Last(path)
               h == Add(g, p, name, e)
    <3>1. Create(f, path, e) = h
      BY <1>4, <2>5 DEF Create, g, clear
    <3>2. Ready(g, path, Len(path))
      BY <2>3, <2>5 DEF ReadyIf
    <3>3. SubSeq(path, 1, Len(path) - 1) = Front(path) /\ path[Len(path)] = Last(path)
      BY <2>1 DEF Front, Last
    <3>4. /\ p \in DOMAIN g.tree.nodes /\ IsDir(InodeAt(g, p))
          /\ ~Indexed(g.tree, p, name)
      BY <3>2, <3>3 DEF Ready
    <3>5. name \in DOMAIN NameBytes
      BY <2>1, LastIs
    <3> HIDE DEF p, name, h
    <3>6. Linked(h, 0)
      BY <2>3, <3>4, <3>5, AddLinked DEF h
    <3> QED
      BY <3>1, <3>6
  <2> QED
    BY <2>4, <2>5
<1> QED
  BY <1>1, <1>2, <1>3, <1>4

\* The formatter once the target of a link counts its new name.
Counted(f, ino) == [f EXCEPT !.inodes[ino].links = @ + 1]

\* It is what removes the path that the name is to have that needs the count.
LEMMA CountedLinked ==
  ASSUME NEW first \in Nat, NEW f, Keeps(f, first), Linked(f, 0),
         NEW S, NEW target \in Seq(S), Lookup(f.tree, target) # 0,
         ~IsDir(InodeAt(f, Lookup(f.tree, target)))
  PROVE  LET i == Lookup(f.tree, target)
             ino == f.tree.nodes[i].inode
             h == Counted(f, ino)
         IN /\ Keeps(h, first) /\ Len(h.inodes) = Len(f.inodes)
            /\ ino \in DOMAIN f.inodes
            /\ h.tree = f.tree
            /\ Linked(h, ino)
PROOF
<1> DEFINE i == Lookup(f.tree, target)
           ino == f.tree.nodes[i].inode
           v == f.inodes[ino].links + 1
           inodes == [f.inodes EXCEPT ![ino].links = v]
           h == Counted(f, ino)
<1>1. h = [f EXCEPT !.inodes[ino].links = v]
  BY DEF Counted
<1>2. Keeps(h, first) /\ Len(h.inodes) = Len(f.inodes)
  <2> HIDE DEF h, v, ino
  <2> QED
    BY <1>1, CountKeeps
<1>s. Sound(f.tree) /\ Fields \subseteq DOMAIN f /\ InodesListed(f)
  BY DEF Keeps, SoundFormatter, Owned
<1>3. i \in DOMAIN f.tree.nodes /\ (target = <<>> => i = Root)
  BY <1>s, LookupNode
<1>a. target # <<>> => i \in Attached(f.tree)
  BY <1>s, FoundAttached DEF Linked
<1>k. InodeAt(f, i).kind # "dir"
  BY DEF IsDir
<1>4. InodeAt(f, i) = f.inodes[ino]
  BY DEF InodeAt
<1> HIDE DEF i
<1>5. ino \in DOMAIN f.inodes
  BY <1>3 DEF Keeps, Owned, NodeOwned
<1>6. ino >= FirstInode => i # Root /\ f.tree.nodes[i].link = 0
  <2>1. i = Root \/ f.tree.nodes[i].link # 0 => ino < FirstInode
    BY <1>3 DEF Linked, Reserved
  <2>2. DOMAIN f.inodes \subseteq Nat
    BY <1>s, InodesAre DEF InodesListed
  <2> HIDE DEF ino
  <2>3. ino \in Nat
    BY <1>5, <2>2
  <2> QED
    BY <2>1, <2>3 DEF FirstInode
<1>7. ino >= FirstInode => i \in NamesOf(f, ino)
  BY <1>3, <1>6, <1>a DEF NamesOf, Refers
<1>8. h.inodes = inodes /\ h.tree = f.tree
  <2> HIDE DEF v, ino
  <2>1. h = [f EXCEPT !.inodes = inodes]
    BY <1>1, <1>s DEF Fields
  <2> HIDE DEF inodes
  <2> QED
    BY <1>s, <2>1 DEF Fields
<1>9. /\ DOMAIN inodes = DOMAIN f.inodes
      /\ \A n \in DOMAIN f.inodes :
           /\ inodes[n].kind = f.inodes[n].kind
           /\ inodes[n].links = IF n = ino THEN v ELSE f.inodes[n].links
  <2> HIDE DEF v, ino
  <2> QED
    BY <1>s DEF InodesListed, Shaped
<1> HIDE DEF inodes, h, ino
<1>10. \A n \in DOMAIN h.inodes : n >= FirstInode => CountedAt(h, ino, n)
  <2> SUFFICES ASSUME NEW n \in DOMAIN h.inodes, n >= FirstInode PROVE CountedAt(h, ino, n)
    OBVIOUS
  <2> DEFINE k == Cardinality(NamesOf(f, n))
  <2>1. NamesOf(h, n) = NamesOf(f, n)
    BY <1>8 DEF NamesOf, Refers
  <2>2. k \in Nat
    BY <1>s, NamesFinite
  <2>3. n \in DOMAIN f.inodes /\ Counts(f.inodes[n], k + (IF n = 0 THEN 1 ELSE 0))
    BY <1>8, <1>9 DEF Linked, CountedAt
  <2>4. n # 0
    BY DEF FirstInode
  <2>5. n = ino => k # 0
    <3> SUFFICES ASSUME n = ino PROVE k # 0
      OBVIOUS
    <3>1. NamesOf(f, n) # {}
      BY <1>7
    <3>2. IsFiniteSet(NamesOf(f, n))
      BY <1>s, NamesFinite
    <3> QED
      BY <3>1, <3>2, FS_EmptySet
  <2> HIDE DEF k
  <2>6. k + (IF n = 0 THEN 1 ELSE 0) = k
    BY <2>2, <2>4
  <2>7. Counts(f.inodes[n], k)
    BY <2>3, <2>6
  <2> DEFINE c == k + (IF n = ino THEN 1 ELSE 0)
  <2>8. Counts(h.inodes[n], c)
    <3>1. CASE n = ino
      <4>1. h.inodes[n].kind = f.inodes[n].kind /\ h.inodes[n].links = v
        BY <1>8, <1>9, <2>3, <3>1
      <4>2. f.inodes[n].kind # "dir" /\ v = f.inodes[n].links + 1 /\ c = k + 1
        BY <1>4, <1>k, <3>1
      <4>3. f.inodes[n].links = k /\ k > 0 /\ f.inodes[n].kind # "none"
        BY <2>2, <2>5, <2>7, <3>1, <4>2 DEF Counts
      <4> HIDE DEF v, c
      <4> QED
        BY <2>2, <4>1, <4>2, <4>3 DEF Counts
    <3>2. CASE n # ino
      <4>1. h.inodes[n].kind = f.inodes[n].kind /\ h.inodes[n].links = f.inodes[n].links
        BY <1>8, <1>9, <2>3, <3>2
      <4>2. c = k
        BY <2>2, <3>2
      <4> HIDE DEF c
      <4> QED
        BY <2>7, <4>1, <4>2 DEF Counts
    <3> QED
      BY <3>1, <3>2
  <2> QED
    BY <2>1, <2>8 DEF CountedAt, k
<1>11. Distinct(h.tree) /\ Hanging(h) /\ Reserved(h)
  <2>1. Distinct(h.tree) /\ Reserved(h)
    BY <1>8 DEF Linked, Reserved
  <2>2. \A j \in DOMAIN f.tree.nodes \ {Root} :
          f.tree.nodes[f.tree.nodes[j].parent].inode \in DOMAIN f.inodes
    BY ParentInode
  <2>3. Hanging(h)
    BY <1>8, <1>9, <2>2 DEF Linked, Hanging
  <2> QED
    BY <2>1, <2>3
<1> QED
  BY <1>2, <1>5, <1>8, <1>10, <1>11 DEF Linked, h, ino, i

\* The links are right unless something failed.
LinkedIf(f) == f.err = "" => Linked(f, 0)

\* A hard link hangs below a directory, or what is left of one.
LinksInDirectories(f) ==
  \A i \in DOMAIN f.tree.nodes :
    f.tree.nodes[i].link # 0 => UnderDirectory(f, f.tree.nodes[i].parent)

\* link()
LEMMA LinkLinked ==
  ASSUME NEW first \in Nat, NEW path \in Seq(DOMAIN NameBytes), path # <<>>,
         NEW target \in Seq(DOMAIN NameBytes), NEW f, Keeps(f, first), Linked(f, 0),
         LinksInDirectories(Link(f, path, target))
  PROVE  LinkedIf(Link(f, path, target))
PROOF
<1> DEFINE i == Lookup(f.tree, target)
           ino == f.tree.nodes[i].inode
           h == Counted(f, ino)
           g == Unlink(h, path, FALSE)
           p == Lookup(g.tree, Front(path))
           name == Last(path)
           u == AddChild(g.tree, p, Node(RootInode, name, {}, ino))
           z == [g EXCEPT !.tree = u]
<1>k. Keeps(Link(f, path, target), first)
  BY LinkKeeps
<1>s. SoundFormatter(f) /\ Fields \subseteq DOMAIN f
  BY DEF Keeps, Owned
<1>e. \A why : Fails(f, why).err = why
  BY <1>s DEF Fails, Fields
<1>1. CASE i = 0
  <2>1. Link(f, path, target) = Fails(f, "NotFound")
    BY <1>1 DEF Link
  <2>2. Link(f, path, target).err = "NotFound"
    BY <1>e, <2>1
  <2>3. Link(f, path, target).err # ""
    BY <2>2
  <2> QED
    BY <2>3 DEF LinkedIf
<1>2. CASE i # 0 /\ IsDir(InodeAt(f, i))
  <2>1. Link(f, path, target) = Fails(f, "CannotHardlinkDirectory")
    BY <1>2 DEF Link
  <2>2. Link(f, path, target).err = "CannotHardlinkDirectory"
    BY <1>e, <2>1
  <2>3. Link(f, path, target).err # ""
    BY <2>2
  <2> QED
    BY <2>3 DEF LinkedIf
<1>3. CASE i # 0 /\ ~IsDir(InodeAt(f, i))
  <2>1. /\ Keeps(h, first) /\ Linked(h, ino) /\ ino \in DOMAIN f.inodes
    BY <1>3, CountedLinked
  <2>2. UnlinkedFrom(g, h, ino, first) /\ Lookup(g.tree, path) = 0
    <3> HIDE DEF h, ino
    <3> QED
      BY <2>1, UnlinkLinked
  <2>3. Link(f, path, target) =
          IF p = 0 THEN Fails(g, "NotFound")
          ELSE IF InodeAt(g, p).links >= MaxLinks THEN Fails(g, "MaximumLinksExceeded")
          ELSE z
    BY <1>3 DEF Link, Counted
  <2> HIDE DEF i
  <2>n. ino \in Nat /\ ino # 0
    <3>1. DOMAIN f.inodes = 1 .. Len(f.inodes) /\ Len(f.inodes) \in Nat
      BY InodesAre DEF Keeps, Owned, InodesListed
    <3> HIDE DEF ino
    <3> QED
      BY <2>1, <3>1
  <2> HIDE DEF h, ino, g
  <2>4. /\ Keeps(g, first) /\ Linked(g, ino) /\ Sound(g.tree) /\ Fields \subseteq DOMAIN g
        /\ Distinct(g.tree) /\ Hanging(g) /\ Reserved(g)
    BY <2>2 DEF UnlinkedFrom, Keeps, Owned, SoundFormatter, Linked
  <2>e. \A why : Fails(g, why).err = why
    BY <2>4 DEF Fails, Fields
  <2>5. CASE p = 0
    <3>1. Link(f, path, target) = Fails(g, "NotFound")
      BY <2>3, <2>5
    <3>2. Link(f, path, target).err = "NotFound"
      BY <2>e, <3>1
    <3>3. Link(f, path, target).err # ""
      BY <3>2
    <3> QED
      BY <3>3 DEF LinkedIf
  <2>6. CASE p # 0 /\ InodeAt(g, p).links >= MaxLinks
    <3>1. Link(f, path, target) = Fails(g, "MaximumLinksExceeded")
      BY <2>3, <2>6
    <3>2. Link(f, path, target).err = "MaximumLinksExceeded"
      BY <2>e, <3>1
    <3>3. Link(f, path, target).err # ""
      BY <3>2
    <3> QED
      BY <3>3 DEF LinkedIf
  <2>7. CASE p # 0 /\ ~(InodeAt(g, p).links >= MaxLinks)
    <3>1. Link(f, path, target) = z
      BY <2>3, <2>7
    <3>2. Keeps(z, first) /\ LinksInDirectories(z)
      BY <1>k, <3>1
    <3>3. z.tree = u /\ z.inodes = g.inodes
      <4> HIDE DEF u
      <4> QED
        BY <2>4 DEF Fields
    <3>4. Front(path) \in Seq(DOMAIN NameBytes) /\ name \in DOMAIN NameBytes
      BY FrontIs, LastIs
    <3>5. p \in DOMAIN g.tree.nodes /\ ~Indexed(g.tree, p, name)
      <4>1. p \in DOMAIN g.tree.nodes
        BY <2>4, <2>7, <3>4, LookupNode
      <4>2. ~Indexed(g.tree, p, name)
        BY <2>2, <2>4, <2>7, LookupChild
      <4> QED
        BY <4>1, <4>2
    <3> HIDE DEF p, name, z
    <3>6. LET j == Len(g.tree.nodes) + 1
          IN /\ DOMAIN u.nodes = DOMAIN g.tree.nodes \cup {j}
             /\ \A k \in DOMAIN g.tree.nodes : SameNode(u.nodes[k], g.tree.nodes[k])
             /\ SameNode(u.nodes[j], Node(RootInode, name, {}, ino))
      BY <2>4, <3>5, AddChildKeeps
    <3> DEFINE j == Len(g.tree.nodes) + 1
    <3>7. u.nodes[j].parent = p
      <4> DEFINE t == g.tree
      <4>1. /\ u = AddChild(t, p, Node(RootInode, name, {}, ino)) /\ j = Len(t.nodes) + 1
            /\ ~Indexed(t, p, name) /\ p \in DOMAIN t.nodes /\ Sound(t) /\ Distinct(t)
        BY <2>4, <3>5
      <4> HIDE DEF t, j, u
      <4>2. Attaches(u, t, p, name, j)
        BY <4>1, AddAttached
      <4> QED
        BY <4>2 DEF Attaches
    <3>8. UnderDirectory(g, p)
      <4>1. j \in DOMAIN z.tree.nodes /\ z.tree.nodes[j].link = ino
        BY <3>3, <3>6 DEF SameNode, Node
      <4>2. z.tree.nodes[j].parent = p
        BY <3>3, <3>7
      <4> HIDE DEF j
      <4>3. UnderDirectory(z, p)
        BY <2>n, <3>2, <4>1, <4>2 DEF LinksInDirectories
      <4>4. z.tree.nodes[p].inode = g.tree.nodes[p].inode
        BY <3>3, <3>5, <3>6 DEF SameNode
      <4> QED
        BY <3>3, <4>3, <4>4 DEF UnderDirectory
    <3> HIDE DEF j
    <3>9. CountsFor(z, g, IF ino # 0 THEN ino ELSE RootInode)
      <4>1. CountsFor(z, g, ino)
        BY <2>4, <3>3 DEF Linked, CountedAt, CountsFor
      <4> QED
        BY <2>n, <4>1
    <3>10. Linked(z, 0)
      <4>1. RootInode < FirstInode
        BY DEF RootInode, FirstInode
      <4>2. z.tree = AddChild(g.tree, p, Node(RootInode, name, {}, ino))
        BY <3>3
      <4>3. /\ DOMAIN g.inodes \subseteq DOMAIN z.inodes
            /\ \A n \in DOMAIN g.inodes : z.inodes[n].kind = g.inodes[n].kind
        BY <3>3
      <4> QED
        BY <2>4, <3>2, <3>5, <3>8, <3>9, <4>1, <4>2, <4>3, AddNodeLinked
    <3> QED
      BY <3>1, <3>10 DEF LinkedIf
  <2> QED
    BY <2>5, <2>6, <2>7
<1> QED
  BY <1>1, <1>2, <1>3

\* Nodes that differ in their blocks alone.
OnlyBlocks(a, b) ==
  /\ a.inode = b.inode /\ a.link = b.link /\ a.name = b.name
  /\ a.parent = b.parent /\ a.children = b.children

\* The blocks of a node and the data of an inode say nothing about links.
LEMMA BlocksLinked ==
  ASSUME NEW first \in Nat, NEW f, Keeps(f, first), Linked(f, 0), NEW g,
         DOMAIN g.tree.nodes = DOMAIN f.tree.nodes,
         \A i \in DOMAIN f.tree.nodes : OnlyBlocks(g.tree.nodes[i], f.tree.nodes[i]),
         DOMAIN g.inodes = DOMAIN f.inodes,
         \A n \in DOMAIN f.inodes :
           g.inodes[n].kind = f.inodes[n].kind /\ g.inodes[n].links = f.inodes[n].links
  PROVE  Linked(g, 0)
PROOF
<1> DEFINE t == f.tree
           u == g.tree
<1>s. Sound(t)
  BY DEF Keeps, SoundFormatter
<1>1. /\ DOMAIN u.nodes = DOMAIN t.nodes
      /\ \A i \in DOMAIN t.nodes : OnlyBlocks(u.nodes[i], t.nodes[i])
  OBVIOUS
<1>2. \A p \in DOMAIN t.nodes : \A k \in DOMAIN Children(t, p) :
        Children(t, p)[k] \in DOMAIN t.nodes
  BY <1>s DEF Sound, WellFormed
<1>3. \A p \in DOMAIN t.nodes : Children(u, p) = Children(t, p)
  BY <1>1 DEF Children, OnlyBlocks
<1>4. Distinct(u)
  <2>1. Distinct(t)
    BY DEF Linked
  <2> HIDE DEF t, u
  <2> QED
    BY <1>1, <1>2, <1>3, <2>1 DEF Distinct, OnlyBlocks, NameOf
<1>5. Attached(u) = Attached(t)
  <2>1. \A i \in DOMAIN t.nodes \ {Root} :
          t.nodes[i].parent \in DOMAIN t.nodes
          /\ u.nodes[i].parent = t.nodes[i].parent
    BY <1>s, <1>1 DEF Sound, OnlyBlocks
  <2> HIDE DEF t, u
  <2>2. \A i \in DOMAIN t.nodes \ {Root} :
          Listed(u, u.nodes[i].parent, i) <=> Listed(t, t.nodes[i].parent, i)
    BY <1>3, <2>1 DEF Listed
  <2> QED
    BY <1>1, <2>2 DEF Attached
<1>6. \A n : NamesOf(g, n) = NamesOf(f, n)
  <2>1. \A i \in Attached(t) : Refers(g, i) = Refers(f, i)
    BY <1>1 DEF Attached, Refers, OnlyBlocks
  <2> QED
    BY <1>5, <2>1 DEF NamesOf
<1>7. \A n \in DOMAIN g.inodes : n >= FirstInode => CountedAt(g, 0, n)
  BY <1>6 DEF Linked, CountedAt, Counts
<1>8. Reserved(g)
  BY <1>1 DEF Linked, Reserved, OnlyBlocks
<1>9. Hanging(g)
  <2>1. \A i \in DOMAIN t.nodes \ {Root} :
          /\ t.nodes[i].parent \in DOMAIN t.nodes
          /\ u.nodes[i].parent = t.nodes[i].parent
          /\ u.nodes[t.nodes[i].parent].inode = t.nodes[t.nodes[i].parent].inode
          /\ t.nodes[t.nodes[i].parent].inode \in DOMAIN f.inodes
    BY <1>s, <1>1, ParentInode DEF Sound, OnlyBlocks
  <2>2. ASSUME NEW i \in DOMAIN t.nodes \ {Root}
        PROVE  LET n == u.nodes[u.nodes[i].parent].inode
               IN n < FirstInode \/ g.inodes[n].kind \in {"dir", "none"}
    <3> DEFINE n == t.nodes[t.nodes[i].parent].inode
    <3>1. n < FirstInode \/ f.inodes[n].kind \in {"dir", "none"}
      BY DEF Linked, Hanging
    <3>2. u.nodes[u.nodes[i].parent].inode = n /\ g.inodes[n].kind = f.inodes[n].kind
      BY <2>1
    <3> HIDE DEF n, t, u
    <3> QED
      BY <3>1, <3>2
  <2> HIDE DEF t
  <2> QED
    BY <1>1, <2>2 DEF Hanging
<1> QED
  BY <1>4, <1>7, <1>8, <1>9 DEF Linked

\* A directory that is written.
LEMMA CommitDirectoryLinked ==
  ASSUME NEW first \in Nat, NEW f, Keeps(f, first), Linked(f, 0), NEW i \in DOMAIN f.tree.nodes
  PROVE  Linked(CommitDirectory(f, i), 0)
PROOF
<1> DEFINE ino == f.tree.nodes[i].inode
           g == CommitDirectory(f, i)
<1>1. CASE f.inodes[ino].links = 0 \/ f.tree.nodes[i].link # 0 \/ ~IsDir(f.inodes[ino])
  BY <1>1 DEF CommitDirectory
<1>2. CASE ~(f.inodes[ino].links = 0 \/ f.tree.nodes[i].link # 0 \/ ~IsDir(f.inodes[ino]))
  <2> DEFINE data == Pack(EntriesOf(f, i))
             tree == Extents(f.cur, Len(data), f.cur + Len(data))
             h == Write(f, data \o tree.blocks)
             root == tree.root
             z == Len(data) * BlockSize
             span == Span(f.cur, Len(data))
  <2>1. g = [h EXCEPT !.inodes[ino].root = root, !.inodes[ino].size = z,
                      !.tree.nodes[i].blocks = span]
    BY <1>2 DEF CommitDirectory
  <2>2. /\ Fields \subseteq DOMAIN f /\ InodesListed(f) /\ Sound(f.tree)
    BY DEF Keeps, Owned, SoundFormatter
  <2>3. DOMAIN h = DOMAIN f /\ h.tree = f.tree /\ h.inodes = f.inodes
    BY <2>2 DEF Write, Fields
  <2> HIDE DEF h, root, z, span
  <2> DEFINE a == [f.inodes EXCEPT ![ino].root = root]
             inodes == [a EXCEPT ![ino].size = z]
             u == [f.tree EXCEPT !.nodes[i].blocks = span]
  <2>4. g.inodes = inodes /\ g.tree = u
    <3> DEFINE x == [h EXCEPT !.inodes[ino].root = root]
               y == [x EXCEPT !.inodes[ino].size = z]
    <3>1. g = [y EXCEPT !.tree.nodes[i].blocks = span]
      BY <2>1
    <3> HIDE DEF ino, root
    <3>2. x = [h EXCEPT !.inodes = a] /\ x.inodes = a /\ DOMAIN x = DOMAIN h
      BY <2>2, <2>3 DEF Fields
    <3> HIDE DEF x, a
    <3>3. y = [x EXCEPT !.inodes = inodes] /\ y.inodes = inodes /\ DOMAIN y = DOMAIN h
      BY <2>2, <2>3, <3>2 DEF Fields
    <3>4. y.tree = h.tree
      BY <2>2, <2>3, <3>2, <3>3 DEF Fields
    <3> HIDE DEF y, inodes
    <3>5. g = [y EXCEPT !.tree = u]
      BY <2>2, <2>3, <3>1, <3>3, <3>4 DEF Fields
    <3> HIDE DEF u, g
    <3> QED
      BY <2>2, <2>3, <3>3, <3>5 DEF Fields
  <2>5. /\ DOMAIN inodes = DOMAIN f.inodes
        /\ \A n \in DOMAIN f.inodes :
             inodes[n].kind = f.inodes[n].kind /\ inodes[n].links = f.inodes[n].links
    <3>1. \A n \in DOMAIN f.inodes : Shaped(f.inodes[n])
      BY <2>2 DEF InodesListed
    <3> HIDE DEF ino, root
    <3>2. /\ DOMAIN a = DOMAIN f.inodes
          /\ \A n \in DOMAIN f.inodes :
               Shaped(a[n]) /\ a[n].kind = f.inodes[n].kind /\ a[n].links = f.inodes[n].links
      BY <3>1 DEF Shaped
    <3> HIDE DEF a
    <3> QED
      BY <3>2 DEF Shaped
  <2>6. /\ DOMAIN u.nodes = DOMAIN f.tree.nodes
        /\ \A j \in DOMAIN f.tree.nodes : OnlyBlocks(u.nodes[j], f.tree.nodes[j])
    <3>1. PICK X : WellFormed(X, f.tree)
      BY <2>2 DEF Sound
    <3>2. \A j \in DOMAIN f.tree.nodes : f.tree.nodes[j] \in Nodes(X)
      BY <3>1 DEF WellFormed, Trees
    <3>3. f.tree = [nodes |-> f.tree.nodes, index |-> f.tree.index]
      BY <2>2, NodesOf
    <3> DEFINE m == [f.tree.nodes EXCEPT ![i].blocks = span]
    <3>4. u.nodes = m
      BY <3>3
    <3>5. /\ DOMAIN m = DOMAIN f.tree.nodes
          /\ \A j \in DOMAIN f.tree.nodes \ {i} : m[j] = f.tree.nodes[j]
          /\ m[i] = [f.tree.nodes[i] EXCEPT !.blocks = span]
      OBVIOUS
    <3> HIDE DEF m, u
    <3> QED
      BY <3>2, <3>4, <3>5 DEF Nodes, OnlyBlocks
  <2> HIDE DEF inodes, u, g
  <2>7. Linked(g, 0)
    BY <2>4, <2>5, <2>6, BlocksLinked
  <2> QED
    BY <2>7 DEF g
<1> QED
  BY <1>1, <1>2

\* commit_directories()
LEMMA CommitLinked ==
  ASSUME NEW first \in Nat, NEW f, Keeps(f, first), Linked(f, 0)
  PROVE  Linked(CommitDirectories(f), 0)
PROOF
<1> DEFINE order == Walk(f.tree)
           D == DOMAIN f.tree.nodes
<1>1. CommitDirectories(f) = Committing!Fold(f, f, order)
  BY DEF CommitDirectories, Committing!Fold, CommitIn, FoldLeft, MapThenFoldSet, Max,
         Committing!Largest
<1>2. order \in Seq(D)
  BY WalkNodes DEF Keeps, SoundFormatter
<1> HIDE DEF order, D
<1>3. /\ Len(order) \in Nat /\ DOMAIN order = 1 .. Len(order)
      /\ \A m \in 1 .. Len(order) : order[m] \in D
  BY <1>2
<1>4. PICK g : Committing!Trace(f, f, Len(order), order, g)
  BY <1>3, Committing!FoldTrace
<1>5. /\ g[0] = f /\ Committing!Fold(f, f, order) = g[Len(order)]
      /\ \A m \in 1 .. Len(order) : g[m] = CommitDirectory(g[m - 1], order[m])
  BY <1>4 DEF Committing!Trace, CommitIn
<1> DEFINE Good(h) == Keeps(h, first) /\ Linked(h, 0) /\ DOMAIN h.tree.nodes = D
           P == {m \in 0 .. Len(order) : Good(g[m])}
<1>6. 0 \in P
  BY <1>3, <1>5 DEF D
<1>7. ASSUME NEW m \in 1 .. Len(order), m - 1 \in P PROVE m \in P
  <2>1. Good(g[m - 1])
    BY <1>7
  <2>2. Good(g[m])
    BY <1>3, <1>5, <2>1, CommitDirectoryKeeps, CommitDirectoryLinked
  <2> HIDE DEF Good
  <2> QED
    BY <2>2
<1>8. 0 .. Len(order) \subseteq P
  <2> HIDE DEF P
  <2> QED
    BY <1>3, <1>6, <1>7, Committing!Upwards
<1> QED
  BY <1>1, <1>3, <1>5, <1>8

\* with_options()
LEMMA NewFormatterLinked ==
  ASSUME NEW b \in Nat
  PROVE  Linked(NewFormatter(b), 0)
PROOF
<1> DEFINE inodes == [n \in 1 .. FirstInode - 1 |-> IF n = RootInode THEN RootDir ELSE Unused]
           f == [tree |-> NewTree(RootInode), inodes |-> inodes,
                 disk |-> <<>>, cur |-> b, deleted |-> {}, deferred |-> <<>>, err |-> ""]
           e == [Implied EXCEPT !.mode = "0700", !.time = "epoch"]
           path == <<LostFound>>
<1>1. NewFormatter(b) = Create(f, path, e)
  BY DEF NewFormatter
<1>2. f.tree = NewTree(RootInode) /\ f.inodes = inodes
  OBVIOUS
<1>3. Keeps(f, b)
  BY FirstKeeps
<1>4. path \in Seq(DOMAIN NameBytes) /\ path # <<>>
  <2>1. LostFound \in DOMAIN NameBytes
    BY FormatterAssumption
  <2> QED
    BY <2>1
<1>5. Makes(e)
  BY DEF Makes, Implied
<1> HIDE DEF f, e, path
<1>6. f.tree.nodes = <<Node(RootInode, "/", {}, 0)>>
  BY <1>2 DEF NewTree
<1> DEFINE t == f.tree
<1>7. /\ DOMAIN t.nodes = {Root} /\ Children(t, Root) = <<>>
      /\ t.nodes[Root].inode = RootInode /\ t.nodes[Root].link = 0
  <2>1. DOMAIN t.nodes = {1} /\ t.nodes[1] = Node(RootInode, "/", {}, 0)
    BY <1>6
  <2> HIDE DEF t
  <2> QED
    BY <2>1 DEF Node, Root, Children
<1>8. Distinct(t)
  <2>1. DOMAIN Children(t, Root) = {}
    BY <1>7
  <2> HIDE DEF t
  <2> QED
    BY <1>7, <2>1 DEF Distinct
<1>9. \A n \in DOMAIN f.inodes : ~(n >= FirstInode)
  BY <1>2 DEF FirstInode
<1>10. Linked(f, 0)
  BY <1>7, <1>8, <1>9 DEF Linked, Hanging, Reserved, RootInode, FirstInode
<1>11. Linked(Create(f, path, e), 0)
  BY <1>3, <1>4, <1>5, <1>10, CreateLinked
<1> QED
  BY <1>1, <1>11

-----------------------------------------------------------------------------
(* What is counted and what shows.                                         *)

\* What shows is attached.
LEMMA VisibleAttached ==
  ASSUME NEW f, Sound(f.tree)
  PROVE  Visible(f) \subseteq Attached(f.tree) \cup {Root}
PROOF
<1> DEFINE t == f.tree
           D == DOMAIN t.nodes
           n == Len(t.nodes)
           Leads(j) == LET p == t.nodes[j].parent
                       IN /\ j \in ToSet(Children(t, p))
                          /\ t.nodes[p].link = 0 /\ IsDir(InodeAt(f, p))
           Step(h, j) == LET p == t.nodes[j].parent
                         IN j = Root \/ (/\ j \in ToSet(Children(t, p))
                                         /\ t.nodes[p].link = 0 /\ IsDir(InodeAt(f, p))
                                         /\ h[p])
           Up(h, j) == h[t.nodes[j].parent]
           F == CHOOSE h : h = [j \in D |-> Step(h, j)]
           Solves(h, m) == /\ h = [j \in D |-> h[j]]
                           /\ \A j \in D : j <= m => h[j] = Step(h, j)
           P == {m \in 0 .. n : \E h : Solves(h, m)}
<1>1. n \in Nat /\ D = 1 .. n
  BY NodesOf
<1>2. Visible(f) = {i \in D : F[i]}
  BY DEF Visible
<1>3. ASSUME NEW j \in D \ {Root}, Leads(j)
      PROVE  t.nodes[j].parent \in D /\ t.nodes[j].parent < j
  <2> DEFINE p == t.nodes[j].parent
  <2>1. p \in D /\ j \in ToSet(Children(t, p))
    BY <1>3 DEF Sound
  <2> HIDE DEF p
  <2>2. PICK k \in DOMAIN Children(t, p) : Children(t, p)[k] = j
    BY <2>1 DEF ToSet
  <2>3. j > p
    BY <2>1, <2>2 DEF Sound
  <2>4. j \in Nat /\ p \in Nat
    BY <1>1, <2>1
  <2> QED
    BY <2>1, <2>3, <2>4 DEF p
<1>4. \A h, j : Step(h, j) = (j = Root \/ (Leads(j) /\ Up(h, j)))
  OBVIOUS
<1> HIDE DEF Step, Leads
<1>5. 0 \in P
  <2> DEFINE h == [j \in D |-> TRUE]
  <2>1. h = [j \in D |-> h[j]]
    OBVIOUS
  <2>2. \A j \in D : ~(j <= 0)
    BY <1>1
  <2> HIDE DEF h
  <2>3. Solves(h, 0)
    BY <2>1, <2>2
  <2> HIDE DEF Solves
  <2> QED
    BY <1>1, <2>3
<1>6. ASSUME NEW m \in 1 .. n, m - 1 \in P PROVE m \in P
  <2>1. PICK h : Solves(h, m - 1)
    BY <1>6
  <2> DEFINE k == [h EXCEPT ![m] = Step(h, m)]
  <2>2. m \in D
    BY <1>1
  <2>3. /\ \A j \in D : j # m => k[j] = h[j]
        /\ k[m] = Step(h, m)
        /\ k = [j \in D |-> k[j]]
    BY <2>1, <2>2
  <2> HIDE DEF k
  <2>4. ASSUME NEW j \in D, j <= m PROVE Step(k, j) = Step(h, j)
    <3>1. CASE j = Root
      BY <1>4, <3>1
    <3>2. CASE ~Leads(j)
      BY <1>4, <3>2
    <3>3. CASE j # Root /\ Leads(j)
      <4>1. t.nodes[j].parent \in D /\ t.nodes[j].parent # m
        BY <1>1, <1>3, <2>4, <3>3
      <4>2. Up(k, j) = Up(h, j)
        BY <2>3, <4>1
      <4> HIDE DEF Up
      <4> QED
        BY <1>4, <4>2
    <3> QED
      BY <3>1, <3>2, <3>3
  <2>5. ASSUME NEW j \in D, j <= m PROVE k[j] = Step(k, j)
    <3>1. CASE j = m
      BY <2>3, <2>4, <2>5, <3>1
    <3>2. CASE j # m
      <4>1. j <= m - 1
        BY <1>1, <2>5, <3>2
      <4>2. h[j] = Step(h, j)
        BY <2>1, <4>1
      <4> QED
        BY <2>3, <2>4, <2>5, <3>2, <4>2
    <3> QED
      BY <3>1, <3>2
  <2>6. Solves(k, m)
    BY <2>3, <2>5
  <2> HIDE DEF Solves
  <2> QED
    BY <2>6
<1>7. n \in P
  <2> HIDE DEF P
  <2>1. 0 .. n \subseteq P
    <3> HIDE DEF n
    <3> QED
      BY <1>1, <1>5, <1>6, Steps!Upwards
  <2> QED
    BY <1>1, <2>1
<1>8. PICK h : Solves(h, n)
  <2> HIDE DEF Solves
  <2> QED
    BY <1>7
<1>9. h = [j \in D |-> Step(h, j)]
  <2>1. \A j \in D : h[j] = Step(h, j)
    BY <1>1, <1>8
  <2>2. h = [j \in D |-> h[j]]
    BY <1>8
  <2> HIDE DEF D
  <2> QED
    BY <2>1, <2>2
<1>10. F = [j \in D |-> Step(F, j)]
  <2> HIDE DEF D
  <2> QED
    BY <1>9
<1> HIDE DEF F
<1>11. ASSUME NEW i \in D, F[i], i # Root PROVE i \in Attached(t)
  <2>1. F[i] = Step(F, i)
    <3> HIDE DEF D
    <3> QED
      BY <1>10
  <2>2. Step(F, i)
    BY <1>11, <2>1
  <2>3. Leads(i)
    BY <1>4, <1>11, <2>2
  <2>4. i \in ToSet(Children(t, t.nodes[i].parent))
    BY <2>3 DEF Leads
  <2>5. Listed(t, t.nodes[i].parent, i)
    <3> DEFINE s == Children(t, t.nodes[i].parent)
    <3>1. i \in {s[k] : k \in DOMAIN s}
      BY <2>4 DEF ToSet
    <3> QED
      BY <3>1 DEF Listed
  <2> QED
    BY <1>11, <2>5 DEF Attached
<1> QED
  BY <1>2, <1>11

\* A file has as many links as it has names, a directory has one name at most,
\* and what was removed has none.
LinksCounted ==
  phase # "failed" =>
    \A n \in DOMAIN fmt.inodes : n >= FirstInode =>
      LET names == Cardinality(NamesOf(fmt, n))
          inode == fmt.inodes[n]
      IN /\ IF IsDir(inode) THEN names <= 1 /\ names <= inode.links ELSE inode.links = names
         /\ inode.kind = "none" => names = 0

LinkInv == phase # "failed" => Linked(fmt, 0)

\* No hard link is made below a file.
LinksHung == phase # "failed" => LinksInDirectories(fmt)

\* What a formatter operation leaves.
LEMMA TakenLinked ==
  ASSUME NEW g, NEW next, Take(g, next), LinkedIf(g)
  PROVE  LinkInv'
PROOF
<1>1. fmt' = g /\ (phase' # "failed" => g.err = "")
  BY DEF Take
<1> QED
  BY <1>1 DEF LinkInv, LinkedIf

\* A directory, a file or a symlink.
LEMMA MakeLinked ==
  ASSUME BlockInv, LinkInv, NEW e, Make(e), source = "tar" => e.path # <<>>
  PROVE  LinkInv'
PROOF
<1>1. e \in Entries[source] /\ e.type \in {"dir", "file", "symlink"} /\ phase = "entries"
  BY DEF Make, Read
<1>2. e.path \in Paths /\ (e.path = <<>> => e.type = "dir")
  BY <1>1, EntryPath DEF BlockInv
<1> DEFINE told == Told(e, Len(seen) + 1)
           path == e.path
<1>3. Take(Create(fmt, path, told), "entries")
  BY DEF Make
<1>4. told.kind = e.type /\ Makes(told)
  BY <1>1, ToldMakes DEF BlockInv
<1>5. Keeps(fmt, First) /\ First \in Nat /\ Linked(fmt, 0)
  BY <1>1, FirstIs DEF BlockInv, LinkInv
<1>6. path \in Seq(DOMAIN NameBytes) /\ (path # <<>> \/ told.kind = "dir")
  BY <1>2, <1>4 DEF Paths
<1> HIDE DEF told, path
<1>7. LinkedIf(Create(fmt, path, told))
  BY <1>4, <1>5, <1>6, CreateLinked DEF LinkedIf
<1> QED
  BY <1>3, <1>7, TakenLinked

\* A hard link.
LEMMA MakeLinkLinked ==
  ASSUME BlockInv, LinkInv, phase = "links", LinksHung',
         NEW path \in Paths \ {<<>>}, NEW target \in Paths,
         Take(Link(fmt, path, target), "links")
  PROVE  LinkInv'
PROOF
<1>1. Keeps(fmt, First) /\ First \in Nat /\ Linked(fmt, 0)
  BY FirstIs DEF BlockInv, LinkInv
<1>2. fmt' = Link(fmt, path, target)
  BY DEF Take
<1>3. CASE phase' = "failed"
  BY <1>3 DEF LinkInv
<1>4. CASE phase' # "failed"
  <2>1. LinksInDirectories(Link(fmt, path, target))
    BY <1>2, <1>4 DEF LinksHung
  <2>2. path \in Seq(DOMAIN NameBytes) /\ path # <<>> /\ target \in Seq(DOMAIN NameBytes)
    BY DEF Paths
  <2>3. LinkedIf(Link(fmt, path, target))
    BY <1>1, <2>1, <2>2, LinkLinked
  <2> QED
    BY <2>3, TakenLinked
<1> QED
  BY <1>3, <1>4

\* The new formatter.
LEMMA LinkInvInit == Init => LinkInv
PROOF
<1> SUFFICES ASSUME Init PROVE LinkInv
  OBVIOUS
<1>1. source \in DOMAIN Entries /\ size \in Nat
  BY ImportAssumption DEF Init
<1>2. First \in Nat
  BY <1>1, DescriptorsAre DEF First
<1>3. fmt = NewFormatter(First)
  BY DEF Init, First
<1>4. Linked(NewFormatter(First), 0)
  BY <1>2, NewFormatterLinked
<1> QED
  BY <1>3, <1>4 DEF LinkInv

\* Every step of write_ext4_from_tar().
LEMMA LinkInvTar == BlockInv /\ LinkInv /\ LinksHung' /\ ImportTar => LinkInv'
PROOF
<1> SUFFICES ASSUME BlockInv, LinkInv, LinksHung', ImportTar PROVE LinkInv'
  OBVIOUS
<1>1. ASSUME NEW e \in Entries[source], SkipEntry(e) \/ SkipSpecial(e) \/ DeferLink(e)
      PROVE  LinkInv'
  <2>1. fmt' = fmt /\ phase = "entries"
    BY <1>1 DEF SkipEntry, SkipSpecial, DeferLink, Read
  <2> QED
    BY <2>1 DEF LinkInv
<1>2. ASSUME NEW e \in Entries[source], RefuseEntry(e) PROVE LinkInv'
  BY <1>2 DEF RefuseEntry, LinkInv
<1>3. ASSUME NEW e \in Entries[source], MakeEntry(e) PROVE LinkInv'
  <2>1. Make(e) /\ e.path # <<>>
    BY <1>3 DEF MakeEntry
  <2> QED
    BY <2>1, MakeLinked
<1>4. CASE EndOfArchive
  <2>1. fmt' = fmt /\ phase = "entries"
    BY <1>4 DEF EndOfArchive
  <2> QED
    BY <2>1 DEF LinkInv
<1>5. CASE MakeLink
  <2>1. pending # <<>> /\ pending \in Seq(Links(Paths)) /\ phase = "links"
    BY <1>5 DEF MakeLink, BlockInv
  <2>2. Head(pending) \in Links(Paths)
    BY <2>1
  <2> DEFINE path == Head(pending).link
             target == Head(pending).target
  <2>3. path \in Paths \ {<<>>} /\ target \in Paths
    BY <2>2 DEF Links
  <2>4. Take(Link(fmt, path, target), "links")
    BY <1>5 DEF MakeLink
  <2> HIDE DEF path, target
  <2> QED
    BY <2>1, <2>3, <2>4, MakeLinkLinked
<1> QED
  BY <1>1, <1>2, <1>3, <1>4, <1>5 DEF ImportTar

\* Every step of unpack_tar().
LEMMA LinkInvLayers == BlockInv /\ LinkInv /\ LinksHung' /\ UnpackLayers => LinkInv'
PROOF
<1> SUFFICES ASSUME BlockInv, LinkInv, LinksHung', UnpackLayers PROVE LinkInv'
  OBVIOUS
<1>1. ASSUME NEW e \in Entries[source], Whiteout(e) PROVE LinkInv'
  <2> DEFINE path == e.path
             opaque == e.type = "opaque"
             g == Unlink(fmt, path, opaque)
  <2>1. Take(g, "entries") /\ phase = "entries"
    BY <1>1 DEF Whiteout, Read
  <2>2. path \in Seq(DOMAIN NameBytes) /\ (path # <<>> \/ opaque)
    BY <1>1, EntryPath DEF BlockInv, Whiteout, Paths
  <2>3. opaque \in BOOLEAN
    OBVIOUS
  <2>4. Keeps(fmt, First) /\ First \in Nat /\ Linked(fmt, 0)
    BY <2>1, FirstIs DEF BlockInv, LinkInv
  <2> HIDE DEF path, opaque
  <2>5. Linked(g, 0)
    BY <2>2, <2>3, <2>4, UnlinkLinked DEF UnlinkedFrom
  <2> HIDE DEF g
  <2> QED
    BY <2>1, <2>5, TakenLinked DEF LinkedIf
<1>2. ASSUME NEW e \in Entries[source], SkipLayerEntry(e) \/ KeepLink(e) PROVE LinkInv'
  <2>1. fmt' = fmt /\ phase = "entries"
    BY <1>2 DEF SkipLayerEntry, KeepLink, Read
  <2> QED
    BY <2>1 DEF LinkInv
<1>3. ASSUME NEW e \in Entries[source], MakeLayerEntry(e) PROVE LinkInv'
  <2>1. Make(e) /\ source # "tar"
    BY <1>3 DEF MakeLayerEntry
  <2> QED
    BY <2>1, MakeLinked
<1>4. CASE EndOfLayer \/ NextLayer
  <2>1. fmt' = fmt /\ phase \in {"entries", "links"}
    BY <1>4 DEF EndOfLayer, NextLayer
  <2> QED
    BY <2>1 DEF LinkInv
<1>5. CASE MakeAnyLink
  <2>1. PICK i \in DOMAIN pending : Take(Link(fmt, pending[i].link, pending[i].target), "links")
    BY <1>5 DEF MakeAnyLink
  <2>2. pending[i] \in Links(Paths) /\ phase = "links"
    BY <1>5 DEF MakeAnyLink, BlockInv
  <2> DEFINE path == pending[i].link
             target == pending[i].target
  <2>3. path \in Paths \ {<<>>} /\ target \in Paths
    BY <2>2 DEF Links
  <2>4. Take(Link(fmt, path, target), "links")
    BY <2>1
  <2> HIDE DEF path, target
  <2> QED
    BY <2>2, <2>3, <2>4, MakeLinkLinked
<1> QED
  BY <1>1, <1>2, <1>3, <1>4, <1>5 DEF UnpackLayers

\* As long as no hard link is made below a file, the links are right.
LEMMA LinksKept == Spec /\ []LinksHung => []LinkInv
PROOF
<1>1. BlockInv /\ LinkInv /\ LinksHung' /\ [Next]_vars => LinkInv'
  <2> SUFFICES ASSUME BlockInv, LinkInv, LinksHung', [Next]_vars PROVE LinkInv'
    OBVIOUS
  <2>1. CASE ImportTar
    BY <2>1, LinkInvTar
  <2>2. CASE UnpackLayers
    BY <2>2, LinkInvLayers
  <2>3. CASE Close
    <3> DEFINE g == CommitDirectories(fmt)
    <3>1. Keeps(fmt, First) /\ First \in Nat /\ Linked(fmt, 0)
      BY <2>3, FirstIs DEF BlockInv, LinkInv, Close
    <3>2. fmt' = g
      BY <2>3 DEF Close
    <3>3. Linked(g, 0)
      BY <3>1, CommitLinked
    <3> HIDE DEF g
    <3> QED
      BY <3>2, <3>3 DEF LinkInv
  <2>4. CASE OpenImage
    BY <2>4 DEF OpenImage, LinkInv
  <2>5. CASE UNCHANGED vars
    BY <2>5 DEF vars, LinkInv
  <2> QED
    BY <2>1, <2>2, <2>3, <2>4, <2>5 DEF Next
<1> QED
  BY <1>1, LinkInvInit, BlocksKept, PTL DEF Spec

\* As long as no hard link is made below a file, the link count of every inode
\* that is not reserved is the number of its names, those below other links
\* included, or, for a directory, which has one at most, no less than that; no
\* name is left of an inode that was removed (formatter.rs:528, 713, 796, 812). What is
\* linked, replaced, whited out or unlinked along the way, in whatever order, is
\* counted once.
THEOREM LinksAreCounted == Spec /\ []LinksHung => []LinksCounted
PROOF
<1>1. BlockInv /\ LinkInv => LinksCounted
  <2> SUFFICES ASSUME BlockInv, LinkInv, phase # "failed",
                      NEW n \in DOMAIN fmt.inodes, n >= FirstInode
               PROVE  LET names == Cardinality(NamesOf(fmt, n))
                          inode == fmt.inodes[n]
                      IN /\ IF IsDir(inode) THEN names <= 1 /\ names <= inode.links
                            ELSE inode.links = names
                         /\ inode.kind = "none" => names = 0
    BY DEF LinksCounted
  <2> DEFINE names == Cardinality(NamesOf(fmt, n))
  <2>1. Sound(fmt.tree)
    BY DEF BlockInv, Keeps, SoundFormatter
  <2>2. names \in Nat /\ n # 0
    BY <2>1, NamesFinite DEF FirstInode
  <2>3. Counts(fmt.inodes[n], names + (IF n = 0 THEN 1 ELSE 0))
    BY DEF LinkInv, Linked, CountedAt
  <2> HIDE DEF names
  <2>4. names + (IF n = 0 THEN 1 ELSE 0) = names
    BY <2>2
  <2>5. Counts(fmt.inodes[n], names)
    BY <2>3, <2>4
  <2>6. /\ IF IsDir(fmt.inodes[n]) THEN names <= 1 /\ names <= fmt.inodes[n].links
           ELSE fmt.inodes[n].links = names
        /\ fmt.inodes[n].kind = "none" => names = 0
    BY <2>2, <2>5 DEF Counts, IsDir
  <2> QED
    BY <2>6 DEF names
<1> QED
  BY <1>1, BlocksKept, LinksKept, PTL

\* So the inode of everything that shows is counted.
LEMMA NamedCounted ==
  ASSUME BlockInv, LinkInv, Finished, NEW n \in NamedInodes
  PROVE  n \in DOMAIN fmt.inodes /\ (n <= 10 \/ fmt.inodes[n].links > 0)
PROOF
<1>1. n \in DOMAIN fmt.inodes /\ n \in Nat
  <2>1. DOMAIN fmt.inodes = 1 .. Len(fmt.inodes) /\ Len(fmt.inodes) \in Nat
    BY InodesAre DEF BlockInv, Keeps, Owned
  <2> QED
    BY <2>1, NamedAre
<1>2. PICK i \in Visible(fmt) : Refers(fmt, i) = n
  BY DEF NamedInodes
<1>3. Sound(fmt.tree) /\ Linked(fmt, 0)
  BY DEF BlockInv, Keeps, SoundFormatter, LinkInv, Finished
<1>4. CASE i = Root
  <2>1. fmt.tree.nodes[Root].inode < FirstInode
    BY <1>3 DEF Sound, Linked, Reserved
  <2>2. fmt.tree.nodes[Root].link = 0
    BY <1>3 DEF Sound, Linked, Reserved
  <2>3. n < FirstInode
    BY <1>2, <1>4, <2>1, <2>2 DEF Refers
  <2> QED
    BY <1>1, <2>3 DEF FirstInode
<1>5. CASE i # Root /\ n >= FirstInode
  <2>1. i \in NamesOf(fmt, n)
    BY <1>2, <1>3, <1>5, VisibleAttached DEF NamesOf
  <2> DEFINE k == Cardinality(NamesOf(fmt, n))
  <2>2. k \in Nat /\ k # 0
    <3>1. IsFiniteSet(NamesOf(fmt, n)) /\ k \in Nat
      BY <1>3, NamesFinite
    <3> QED
      BY <2>1, <3>1, FS_EmptySet
  <2>3. Counts(fmt.inodes[n], k + (IF n = 0 THEN 1 ELSE 0))
    BY <1>1, <1>3, <1>5 DEF Linked, CountedAt
  <2> HIDE DEF k
  <2>4. k + (IF n = 0 THEN 1 ELSE 0) > 0
    BY <2>2
  <2> DEFINE c == k + (IF n = 0 THEN 1 ELSE 0)
  <2>5. Counts(fmt.inodes[n], c) /\ c > 0 /\ c \in Nat
    BY <2>2, <2>3, <2>4
  <2> HIDE DEF c
  <2>6. fmt.inodes[n].links > 0
    BY <2>5 DEF Counts
  <2> QED
    BY <1>1, <2>6
<1>6. CASE ~(n >= FirstInode)
  BY <1>1, <1>6 DEF FirstInode
<1> QED
  BY <1>4, <1>5, <1>6

\* Where close() keeps the reserved blocks and no hard link is made below a
\* file, nothing that is used is marked free (formatter.rs:1020-1082): no block
\* of the descriptors, of a table, of a bitmap or of the data of a named inode,
\* and no inode that has a name. What the formatter freed is of no inode.
THEOREM UsedMarked ==
  Spec /\ []LinksHung => [](ReserveKept => UsedAreMarked)
PROOF
<1>1. ASSUME BlockInv, Finished, ReserveKept, NEW b \in HeadBlocks PROVE b \in MarkedBlocks
  <2>1. /\ First \in Nat /\ fmt.cur \in Nat /\ First <= fmt.cur /\ image.plan.used \in Nat
        /\ fmt.cur <= image.plan.bitmaps /\ image.plan.bitmaps <= image.plan.used
        /\ image.plan.bitmaps \in Nat /\ image.plan.descriptors \in Nat
        /\ image.plan.reserved \in Nat
        /\ image.plan.descriptors <= image.plan.reserved /\ image.plan.reserved < First
        /\ fmt.deleted \subseteq First .. fmt.cur - 1
    BY <1>1, PlanBounds
  <2>2. b \in 0 .. image.plan.descriptors
    BY <1>1 DEF HeadBlocks
  <2>3. b \in Nat /\ b < image.plan.used /\ b \notin fmt.deleted /\ b <= image.plan.descriptors
    BY <2>1, <2>2
  <2> QED
    BY <1>1, <2>3, WrittenMarked
<1>2. BlockInv /\ LinkInv => (ReserveKept => UsedAreMarked)
  <2> SUFFICES ASSUME BlockInv, LinkInv, Finished, ReserveKept PROVE UsedAreMarked
    BY DEF UsedAreMarked
  <2>1. HeadBlocks \subseteq MarkedBlocks
    BY <1>1
  <2>2. \A g \in DOMAIN image.groups : TableBlocks(g) \cup BitmapBlocks(g) \subseteq MarkedBlocks
    BY TablesMarked
  <2>3. \A n \in NamedInodes : DataOf(n) \subseteq MarkedBlocks /\ n \in MarkedInodes
    BY NamedCounted, DataMarked, InodeMarked
  <2> QED
    BY <2>1, <2>2, <2>3 DEF UsedAreMarked, MarkedBlocks, MarkedInodes
<1> QED
  BY <1>2, BlocksKept, LinksKept, PTL
=============================================================================
