--------------------------- MODULE Ext4ImageProofs ---------------------------
(***************************************************************************)
(* Theorems about the making of an image.                                  *)
(*                                                                         *)
(* FileTree: whatever add_child and remove_child are called with, the hash *)
(* index answers what the scan it replaced would answer.  Formatter and    *)
(* Ext4Image: every operation calls them with what they are made for, so   *)
(* that the index is exact from the first entry of an archive to the       *)
(* closed image.  Extents: every block of a file of any size is in exactly *)
(* one extent, every extent is in the leaf its index entry names, and what *)
(* is written of them is what a reader finds.  DirBlocks: the records of   *)
(* any number of entries fill whole blocks.                                *)
(***************************************************************************)
EXTENDS Ext4Image, FiniteSetTheorems, SequenceTheorems, FunctionTheorems, TLAPS

\* Nodes and trees whose names, inodes and blocks are in X, whatever X is.
Nodes(X) ==
  [inode : X, name : X, children : Seq(Nat), parent : Nat, blocks : X, link : X]

Trees(X) ==
  [nodes : Seq(Nodes(X)), index : UNION {[E -> Nat] : E \in SUBSET (Nat \X X)}]

\* A tree whose nodes name nodes of it as their children.
WellFormed(X, t) ==
  /\ t \in Trees(X)
  /\ \A p \in DOMAIN t.nodes : \A k \in DOMAIN Children(t, p) :
       Children(t, p)[k] \in DOMAIN t.nodes

-----------------------------------------------------------------------------
(* The least position.  Of the sets {j \in P : j <= k}, for k in P, one is *)
(* strictly below no other.                                                *)

\* Of the positions in a set one is least.
LEMMA LeastExists ==
  ASSUME NEW n \in Nat, NEW P \in SUBSET (1 .. n), P # {}
  PROVE  /\ Min(P) \in P
         /\ \A k \in P : Min(P) <= k
PROOF
<1> DEFINE Upto(k) == {j \in P : j <= k}
           S == 1 .. n
           T == {Upto(k) : k \in P}
<1>1. IsFiniteSet(S)
  BY FS_Interval
<1>2. \A k \in P : Upto(k) \in FiniteSubsetsOf(S)
  <2>1. FiniteSubsetsOf(S) = SUBSET S
    BY <1>1, FS_FiniteSubsetsOfFinite
  <2> QED
    BY <2>1
<1>3. T \subseteq FiniteSubsetsOf(S) /\ T # {}
  BY <1>2
<1>4. IsWellFoundedOn(StrictSubsetOrdering(S), FiniteSubsetsOf(S))
  BY FS_StrictSubsetOrderingWellFounded
<1>5. PICK U \in T : \A V \in T : ~ (<<V, U>> \in StrictSubsetOrdering(S))
  <2> HIDE DEF T, S
  <2> QED
    BY <1>3, <1>4, WFMin
<1>6. PICK m \in P : U = Upto(m)
  BY <1>5
<1>7. \A k \in P : m <= k
  <2> SUFFICES ASSUME NEW k \in P, k < m PROVE FALSE
    OBVIOUS
  <2>1. Upto(k) \subseteq Upto(m) /\ Upto(k) # Upto(m)
    <3>1. m \in Upto(m) /\ m \notin Upto(k)
      OBVIOUS
    <3>2. \A j \in P : j <= k => j <= m
      OBVIOUS
    <3> QED
      BY <3>1, <3>2
  <2>2. Upto(k) \in SUBSET S /\ Upto(m) \in SUBSET S
    OBVIOUS
  <2>3. <<Upto(k), Upto(m)>> \in StrictSubsetOrdering(S)
    BY <2>1, <2>2 DEF StrictSubsetOrdering
  <2> QED
    BY <2>3, <1>5, <1>6
<1> QED
  BY <1>7 DEF Min

\* The positions of a name are positions of children.
LEMMA PositionsBounded ==
  ASSUME NEW X, NEW t, WellFormed(X, t), NEW p \in DOMAIN t.nodes, NEW n
  PROVE  /\ Children(t, p) \in Seq(Nat)
         /\ Len(Children(t, p)) \in Nat
         /\ DOMAIN Children(t, p) = 1 .. Len(Children(t, p))
         /\ Positions(t, p, n) \in SUBSET (1 .. Len(Children(t, p)))
PROOF
<1>1. t.nodes \in Seq(Nodes(X))
  BY DEF WellFormed, Trees
<1>2. t.nodes[p] \in Nodes(X)
  BY <1>1
<1>3. Children(t, p) \in Seq(Nat)
  BY <1>2 DEF Children, Nodes
<1> QED
  BY <1>3 DEF Positions

-----------------------------------------------------------------------------

\* The index of an exact tree is the scan: a name is indexed iff a child has
\* it, and it maps to the first of them (file_tree.rs 42-43, lookup() and
\* children_by_name()).
THEOREM IndexIsScan ==
  ASSUME NEW X, NEW t, WellFormed(X, t), IndexExact(t),
         NEW p \in DOMAIN t.nodes, NEW n
  PROVE  /\ Indexed(t, p, n) <=> Positions(t, p, n) # {}
         /\ Indexed(t, p, n)
              => t.index[<<p, n>>] = Children(t, p)[Min(Positions(t, p, n))]
PROOF
<1>1. ASSUME Positions(t, p, n) # {} PROVE Indexed(t, p, n)
  BY <1>1 DEF IndexExact, Positions
<1>2. ASSUME Indexed(t, p, n)
      PROVE  /\ Positions(t, p, n) # {}
             /\ t.index[<<p, n>>] = Children(t, p)[Min(Positions(t, p, n))]
  <2>1. FirstNamed(t, p, n, t.index[<<p, n>>])
    BY <1>2 DEF IndexExact, Indexed
  <2>2. PICK k \in Positions(t, p, n) :
          /\ Children(t, p)[k] = t.index[<<p, n>>]
          /\ \A j \in Positions(t, p, n) : k <= j
    BY <2>1 DEF FirstNamed
  <2>3. Min(Positions(t, p, n)) \in Positions(t, p, n) /\ Min(Positions(t, p, n)) <= k
    BY <2>2, PositionsBounded, LeastExists
  <2>4. Min(Positions(t, p, n)) = k
    BY <2>2, <2>3, PositionsBounded
  <2> QED
    BY <2>2, <2>4
<1> QED
  BY <1>1, <1>2

\* A new tree has an exact index: both are empty.
THEOREM NewTreeExact ==
  ASSUME NEW X, NEW ino \in X, {"/", {}, 0} \subseteq X
  PROVE  WellFormed(X, NewTree(ino)) /\ IndexExact(NewTree(ino))
PROOF
<1> DEFINE t == NewTree(ino)
<1>1. t.nodes \in Seq(Nodes(X)) /\ t.index = <<>>
  BY DEF NewTree, Node, Nodes
<1>2. DOMAIN t.nodes = {1} /\ Children(t, 1) = <<>>
  BY DEF NewTree, Node, Children
<1>3. t.index \in [{} -> Nat]
  BY <1>1
<1>4. t \in Trees(X)
  BY <1>1, <1>3 DEF NewTree, Trees
<1> HIDE DEF t
<1>5. WellFormed(X, t) /\ IndexExact(t)
  BY <1>1, <1>2, <1>4 DEF WellFormed, IndexExact
<1> QED
  BY <1>5 DEF t

\* What add_child changes: one more node, one more child of p.
LEMMA AddChildEffect ==
  ASSUME NEW X, NEW t, WellFormed(X, t), NEW p \in DOMAIN t.nodes,
         NEW node \in Nodes(X), node.children = <<>>,
         NEW u, u = AddChild(t, p, node), NEW i, i = Len(t.nodes) + 1
  PROVE  /\ u.nodes \in Seq(Nodes(X))
         /\ DOMAIN u.nodes = DOMAIN t.nodes \cup {i}
         /\ i \notin DOMAIN t.nodes
         /\ \A q \in DOMAIN t.nodes :
              /\ NameOf(u, q) = NameOf(t, q) /\ u.nodes[q].parent = t.nodes[q].parent
              /\ q # p => Children(u, q) = Children(t, q)
         /\ Children(u, p) = Append(Children(t, p), i)
         /\ NameOf(u, i) = node.name /\ Children(u, i) = <<>> /\ u.nodes[i].parent = p
PROOF
<1>1. /\ t.nodes \in Seq(Nodes(X)) /\ Len(t.nodes) \in Nat
      /\ DOMAIN t.nodes = 1 .. Len(t.nodes)
  BY DEF WellFormed, Trees
<1> DEFINE x == [t.nodes[p] EXCEPT !.children = Append(@, i)]
           y == [node EXCEPT !.parent = p]
           z == [t.nodes EXCEPT ![p] = x]
<1>2. t.nodes[p] \in Nodes(X) /\ p \in Nat /\ i \in Nat
  BY <1>1
<1>3. /\ x \in Nodes(X) /\ x.name = NameOf(t, p) /\ x.parent = t.nodes[p].parent
      /\ x.children = Append(Children(t, p), i)
  <2> DEFINE c == Append(t.nodes[p].children, i)
  <2>1. t.nodes[p].children \in Seq(Nat)
    BY <1>2 DEF Nodes
  <2>2. c \in Seq(Nat)
    BY <2>1, <1>2, AppendProperties
  <2> HIDE DEF c
  <2>3. [t.nodes[p] EXCEPT !.children = c] \in Nodes(X)
    BY <2>2, <1>2 DEF Nodes
  <2>4. x = [t.nodes[p] EXCEPT !.children = c]
    BY DEF c
  <2>5. x.children = c /\ x.name = t.nodes[p].name /\ x.parent = t.nodes[p].parent
    BY <2>4, <1>2 DEF Nodes
  <2> QED
    BY <2>3, <2>4, <2>5 DEF c, NameOf, Children
<1>4. /\ y \in Nodes(X) /\ y.name = node.name /\ y.children = <<>> /\ y.parent = p
  BY <1>2 DEF Nodes
<1>5. u.nodes = Append(z, y)
  BY DEF AddChild
<1>6. z \in Seq(Nodes(X)) /\ Len(z) = Len(t.nodes)
  BY <1>1, <1>3, ExceptSeq
<1>7. \A q \in DOMAIN t.nodes : z[q] = IF q = p THEN x ELSE t.nodes[q]
  OBVIOUS
<1> HIDE DEF x, y, z
<1>8. /\ u.nodes \in Seq(Nodes(X))
      /\ DOMAIN u.nodes = DOMAIN t.nodes \cup {i}
      /\ i \notin DOMAIN t.nodes
      /\ \A q \in DOMAIN t.nodes : u.nodes[q] = z[q]
      /\ u.nodes[i] = y
  BY <1>1, <1>4, <1>5, <1>6
<1> QED
  BY <1>3, <1>4, <1>7, <1>8 DEF NameOf, Children

\* add_child keeps the index exact: or_insert keeps an earlier child of the
\* name in the index, as a scan would keep finding it (file_tree.rs 115-127).
THEOREM AddChildExact ==
  ASSUME NEW X, NEW t, WellFormed(X, t), IndexExact(t), NEW p \in DOMAIN t.nodes,
         NEW node \in Nodes(X), node.children = <<>>
  PROVE  WellFormed(X, AddChild(t, p, node)) /\ IndexExact(AddChild(t, p, node))
PROOF
<1> DEFINE u == AddChild(t, p, node)
           i == Len(t.nodes) + 1
           c == Children(t, p)
           e0 == <<p, node.name>>
<1>1. /\ u.nodes \in Seq(Nodes(X))
      /\ DOMAIN u.nodes = DOMAIN t.nodes \cup {i}
      /\ i \notin DOMAIN t.nodes
      /\ \A q \in DOMAIN t.nodes :
           /\ NameOf(u, q) = NameOf(t, q)
           /\ q # p => Children(u, q) = Children(t, q)
      /\ Children(u, p) = Append(c, i)
      /\ NameOf(u, i) = node.name /\ Children(u, i) = <<>>
  BY AddChildEffect
<1>2. /\ c \in Seq(Nat) /\ Len(c) \in Nat /\ DOMAIN c = 1 .. Len(c)
      /\ \A k \in DOMAIN c : c[k] \in DOMAIN t.nodes
  BY PositionsBounded DEF WellFormed
<1>3. /\ u.index = Reindex(t.index, p, node.name, i)
      /\ u = [nodes |-> u.nodes, index |-> u.index]
  BY DEF AddChild
<1>4. i \in Nat /\ p \in Nat /\ node.name \in X
  <2>1. t.nodes \in Seq(Nodes(X))
    BY DEF WellFormed, Trees
  <2>2. Len(t.nodes) \in Nat /\ DOMAIN t.nodes = 1 .. Len(t.nodes)
    BY <2>1
  <2>3. node.name \in X
    BY DEF Nodes
  <2> QED
    BY <2>2, <2>3
<1>5. PICK E \in SUBSET (Nat \X X) : t.index \in [E -> Nat]
  BY DEF WellFormed, Trees
<1>6. /\ DOMAIN u.index = DOMAIN t.index \cup {e0}
      /\ \A e \in DOMAIN t.index : u.index[e] = t.index[e]
      /\ e0 \notin DOMAIN t.index => u.index[e0] = i
  BY <1>3 DEF Reindex
<1>7. u.index \in [E \cup {e0} -> Nat]
  BY <1>3, <1>4, <1>5 DEF Reindex
<1>8. E \cup {e0} \in SUBSET (Nat \X X)
  BY <1>4
<1>9. u \in Trees(X)
  BY <1>1, <1>3, <1>7, <1>8 DEF Trees
<1> HIDE DEF u
<1>10. /\ Len(Children(u, p)) = Len(c) + 1
       /\ DOMAIN Children(u, p) = 1 .. Len(c) + 1
       /\ \A k \in DOMAIN c : Children(u, p)[k] = c[k]
       /\ Children(u, p)[Len(c) + 1] = i
  BY <1>1, <1>2, <1>4
<1>11. WellFormed(X, u)
  <2> SUFFICES ASSUME NEW q \in DOMAIN u.nodes, NEW k \in DOMAIN Children(u, q)
               PROVE  Children(u, q)[k] \in DOMAIN u.nodes
    BY <1>9 DEF WellFormed
  <2>1. CASE q = p
    BY <2>1, <1>1, <1>2, <1>10
  <2>2. CASE q # p
    BY <2>2, <1>1 DEF WellFormed
  <2> QED
    BY <2>1, <2>2
<1>12. \A n : /\ Positions(t, p, n) \subseteq Positions(u, p, n)
              /\ \A k \in Positions(u, p, n) :
                   k \in Positions(t, p, n) \/ (k = Len(c) + 1 /\ n = node.name)
  BY <1>1, <1>2, <1>10 DEF Positions
<1>13. ASSUME NEW e \in DOMAIN u.index
       PROVE  e[1] \in DOMAIN u.nodes /\ FirstNamed(u, e[1], e[2], u.index[e])
  <2>1. CASE e \in DOMAIN t.index /\ e[1] # p
    <3>1. e[1] \in DOMAIN t.nodes /\ FirstNamed(t, e[1], e[2], t.index[e])
      BY <2>1 DEF IndexExact
    <3>2. Children(u, e[1]) = Children(t, e[1])
      BY <2>1, <3>1, <1>1
    <3>3. Positions(u, e[1], e[2]) = Positions(t, e[1], e[2])
      BY <3>1, <3>2, <1>1 DEF Positions, WellFormed
    <3> QED
      BY <2>1, <3>1, <3>2, <3>3, <1>1, <1>6 DEF FirstNamed
  <2>2. CASE e \in DOMAIN t.index /\ e[1] = p
    <3>1. FirstNamed(t, p, e[2], t.index[e])
      BY <2>2 DEF IndexExact
    <3>2. PICK k \in Positions(t, p, e[2]) :
            c[k] = t.index[e] /\ \A j \in Positions(t, p, e[2]) : k <= j
      BY <3>1 DEF FirstNamed
    <3>3. k \in 1 .. Len(c)
      BY <3>2, PositionsBounded
    <3>4. \A j \in Positions(u, p, e[2]) : k <= j
      BY <3>2, <3>3, <1>2, <1>12
    <3> QED
      BY <2>2, <3>2, <3>3, <3>4, <1>1, <1>2, <1>6, <1>10, <1>12 DEF FirstNamed
  <2>3. CASE e \notin DOMAIN t.index
    <3>1. e = e0 /\ u.index[e] = i
      BY <2>3, <1>6
    <3>2. Positions(t, p, node.name) = {}
      BY <2>3, <3>1, IndexIsScan DEF Indexed
    <3>3. Len(c) + 1 \in Positions(u, p, node.name)
      BY <1>1, <1>2, <1>10 DEF Positions
    <3>4. \A j \in Positions(u, p, node.name) : Len(c) + 1 <= j
      BY <3>2, <1>2, <1>12
    <3> QED
      BY <3>1, <3>3, <3>4, <1>1, <1>10 DEF FirstNamed
  <2> QED
    BY <2>1, <2>2, <2>3
<1>14. ASSUME NEW q \in DOMAIN u.nodes, NEW k \in DOMAIN Children(u, q)
       PROVE  <<q, NameOf(u, Children(u, q)[k])>> \in DOMAIN u.index
  <2>1. CASE q # p
    <3>1. q \in DOMAIN t.nodes /\ Children(u, q) = Children(t, q)
      BY <2>1, <1>1
    <3>2. Children(t, q)[k] \in DOMAIN t.nodes
      BY <3>1 DEF WellFormed
    <3>3. <<q, NameOf(t, Children(t, q)[k])>> \in DOMAIN t.index
      BY <3>1 DEF IndexExact, Indexed
    <3> QED
      BY <3>1, <3>2, <3>3, <1>1, <1>6
  <2>2. CASE q = p /\ k \in DOMAIN c
    <3>1. <<p, NameOf(t, c[k])>> \in DOMAIN t.index
      BY <2>2 DEF IndexExact, Indexed
    <3> QED
      BY <2>2, <3>1, <1>1, <1>2, <1>6, <1>10
  <2>3. CASE q = p /\ k \notin DOMAIN c
    <3>1. k = Len(c) + 1
      BY <2>3, <1>2, <1>10
    <3> QED
      BY <2>3, <3>1, <1>1, <1>6, <1>10
  <2> QED
    BY <2>1, <2>2, <2>3
<1>15. IndexExact(u)
  BY <1>13, <1>14 DEF IndexExact, Indexed
<1> QED
  BY <1>11, <1>15 DEF u

\* RemoveAt leaves a gap at m and moves what follows down by one.
LEMMA RemoveAtValue ==
  ASSUME NEW c \in Seq(Nat), NEW m \in 1 .. Len(c)
  PROVE  /\ RemoveAt(c, m) \in Seq(Nat)
         /\ Len(RemoveAt(c, m)) = Len(c) - 1
         /\ \A k \in 1 .. Len(c) - 1 :
              RemoveAt(c, m)[k] = c[IF k < m THEN k ELSE k + 1]
PROOF
<1> DEFINE a == SubSeq(c, 1, m - 1)
           b == SubSeq(c, m + 1, Len(c))
           less == RemoveAt(c, m)
<1>0. Len(c) \in Nat /\ m \in Nat /\ 1 <= m /\ m <= Len(c)
  OBVIOUS
<1>1. /\ a \in Seq(Nat) /\ Len(a) = m - 1
      /\ \A k \in 1 .. m - 1 : a[k] = c[k]
  BY SubSeqProperties
<1>2. /\ b \in Seq(Nat) /\ Len(b) = Len(c) - m
      /\ \A k \in 1 .. Len(c) - m : b[k] = c[m + k]
  <2>1. \A i \in m + 1 .. Len(c) : c[i] \in Nat
    BY <1>0
  <2>2. /\ b \in Seq(Nat)
        /\ Len(b) = IF m + 1 <= Len(c) THEN Len(c) - (m + 1) + 1 ELSE 0
        /\ \A k \in 1 .. Len(c) - (m + 1) + 1 : b[k] = c[m + 1 + k - 1]
    BY <1>0, <2>1, SubSeqProperties
  <2> HIDE DEF b
  <2>3. Len(b) = Len(c) - m
    BY <2>2, <1>0
  <2>4. ASSUME NEW k \in 1 .. Len(c) - m PROVE b[k] = c[m + k]
    <3>1. k \in 1 .. Len(c) - (m + 1) + 1 /\ m + 1 + k - 1 = m + k
      BY <1>0
    <3> QED
      BY <3>1, <2>2
  <2> QED
    BY <2>2, <2>3, <2>4
<1>3. less = a \o b
  BY DEF RemoveAt
<1> HIDE DEF a, b, less
<1>4. /\ less \in Seq(Nat) /\ Len(less) = Len(a) + Len(b)
      /\ \A k \in 1 .. Len(a) + Len(b) :
           less[k] = IF k <= Len(a) THEN a[k] ELSE b[k - Len(a)]
  BY <1>1, <1>2, <1>3, ConcatProperties
<1>5. Len(less) = Len(c) - 1 /\ Len(a) + Len(b) = Len(c) - 1
  BY <1>0, <1>1, <1>2, <1>4
<1>6. ASSUME NEW k \in 1 .. Len(c) - 1
      PROVE  less[k] = c[IF k < m THEN k ELSE k + 1]
  <2>0. less[k] = IF k <= Len(a) THEN a[k] ELSE b[k - Len(a)]
    BY <1>4, <1>5
  <2>1. CASE k < m
    <3>1. k <= Len(a) /\ k \in 1 .. m - 1
      BY <2>1, <1>0, <1>1
    <3> QED
      BY <3>1, <2>0, <2>1, <1>1
  <2>2. CASE ~(k < m)
    <3>1. /\ ~(k <= Len(a)) /\ k - Len(a) \in 1 .. Len(c) - m
          /\ m + (k - Len(a)) = k + 1
      BY <2>2, <1>0, <1>1
    <3> QED
      BY <3>1, <2>0, <2>2, <1>2
  <2> QED
    BY <2>1, <2>2
<1>7. less \in Seq(Nat) /\ Len(less) = Len(c) - 1
  BY <1>4, <1>5
<1> QED
  BY <1>6, <1>7 DEF less

\* t when p has lost its m-th child.
Without(t, p, m) == [t EXCEPT !.nodes[p].children = RemoveAt(@, m)]

\* What remove_child changes when p has a child named n.
LEMMA RemoveChildEffect ==
  ASSUME NEW X, NEW t, WellFormed(X, t), NEW p \in DOMAIN t.nodes, NEW n,
         Positions(t, p, n) # {},
         NEW m, m = Min(Positions(t, p, n)),
         NEW v, v = Without(t, p, m)
  PROVE  /\ v.nodes \in Seq(Nodes(X)) /\ v.index = t.index
         /\ v = [nodes |-> v.nodes, index |-> v.index]
         /\ DOMAIN v.nodes = DOMAIN t.nodes
         /\ \A q \in DOMAIN t.nodes :
              /\ NameOf(v, q) = NameOf(t, q) /\ v.nodes[q].parent = t.nodes[q].parent
              /\ q # p => Children(v, q) = Children(t, q)
         /\ DOMAIN Children(v, p) = 1 .. Len(Children(t, p)) - 1
         /\ \A k \in 1 .. Len(Children(t, p)) - 1 :
              Children(v, p)[k] = Children(t, p)[IF k < m THEN k ELSE k + 1]
PROOF
<1> DEFINE c == Children(t, p)
           less == RemoveAt(c, m)
           x == [t.nodes[p] EXCEPT !.children = less]
           z == [t.nodes EXCEPT ![p] = x]
<1>1. /\ c \in Seq(Nat) /\ Len(c) \in Nat /\ DOMAIN c = 1 .. Len(c)
      /\ Positions(t, p, n) \in SUBSET (1 .. Len(c))
  BY PositionsBounded
<1>2. m \in 1 .. Len(c)
  BY <1>1, LeastExists
<1>3. /\ less \in Seq(Nat) /\ Len(less) = Len(c) - 1
      /\ \A k \in 1 .. Len(c) - 1 : less[k] = c[IF k < m THEN k ELSE k + 1]
  BY <1>1, <1>2, RemoveAtValue
<1>4. t.nodes \in Seq(Nodes(X)) /\ t.nodes[p] \in Nodes(X)
  BY DEF WellFormed, Trees
<1>5. t = [nodes |-> t.nodes, index |-> t.index]
  BY DEF WellFormed, Trees
<1>6. v = [nodes |-> z, index |-> t.index]
  BY <1>5 DEF Children, Without
<1>7. /\ x \in Nodes(X) /\ x.name = NameOf(t, p) /\ x.children = less
      /\ x.parent = t.nodes[p].parent
  <2> HIDE DEF less
  <2> QED
    BY <1>3, <1>4 DEF Nodes, NameOf
<1>6a. v.nodes = z /\ v.index = t.index
  BY <1>6
<1>8. z \in Seq(Nodes(X)) /\ DOMAIN z = DOMAIN t.nodes
  BY <1>4, <1>7, ExceptSeq
<1>9. \A q \in DOMAIN t.nodes : z[q] = IF q = p THEN x ELSE t.nodes[q]
  OBVIOUS
<1> HIDE DEF x, z, less
<1>10. \A q \in DOMAIN t.nodes : v.nodes[q] = IF q = p THEN x ELSE t.nodes[q]
  BY <1>6a, <1>9
<1>11. Children(v, p) = less
  BY <1>7, <1>10 DEF Children
<1>12. DOMAIN less = 1 .. Len(c) - 1
  BY <1>3
<1>13. \A q \in DOMAIN t.nodes :
         /\ NameOf(v, q) = NameOf(t, q) /\ v.nodes[q].parent = t.nodes[q].parent
         /\ q # p => Children(v, q) = Children(t, q)
  BY <1>7, <1>10 DEF NameOf, Children
<1>14. v.nodes \in Seq(Nodes(X)) /\ DOMAIN v.nodes = DOMAIN t.nodes
  BY <1>6a, <1>8
<1>15. v = [nodes |-> v.nodes, index |-> v.index]
  BY <1>6, <1>6a
<1> QED
  BY <1>3, <1>6a, <1>11, <1>12, <1>13, <1>14, <1>15

\* remove_child keeps the index exact: the next child of that name takes the
\* place of the one that left, or the entry goes (file_tree.rs 129-158).
THEOREM RemoveChildExact ==
  ASSUME NEW X, NEW t, WellFormed(X, t), IndexExact(t), NEW p \in DOMAIN t.nodes, NEW n
  PROVE  WellFormed(X, RemoveChild(t, p, n)) /\ IndexExact(RemoveChild(t, p, n))
PROOF
<1>1. CASE Positions(t, p, n) = {}
  BY <1>1 DEF RemoveChild
<1>2. CASE Positions(t, p, n) # {}
  <2> DEFINE P == Positions(t, p, n)
             c == Children(t, p)
             e0 == <<p, n>>
  <2>m. PICK m : m = Min(P)
    OBVIOUS
  <2>v. PICK v : v = Without(t, p, m)
    OBVIOUS
  <2>u. PICK u : u = [v EXCEPT !.index = Unindex(v, p, n)]
    OBVIOUS
  <2> DEFINE Old(k) == IF k < m THEN k ELSE k + 1
  <2>1. RemoveChild(t, p, n) = u
    BY <1>2, <2>m, <2>v, <2>u DEF RemoveChild, Without
  <2>2. /\ v.nodes \in Seq(Nodes(X)) /\ v.index = t.index
        /\ v = [nodes |-> v.nodes, index |-> v.index]
        /\ DOMAIN v.nodes = DOMAIN t.nodes
        /\ \A q \in DOMAIN t.nodes :
             /\ NameOf(v, q) = NameOf(t, q)
             /\ q # p => Children(v, q) = Children(t, q)
        /\ DOMAIN Children(v, p) = 1 .. Len(c) - 1
        /\ \A k \in 1 .. Len(c) - 1 : Children(v, p)[k] = c[Old(k)]
    BY <1>2, <2>m, <2>v, RemoveChildEffect
  <2>3. /\ c \in Seq(Nat) /\ Len(c) \in Nat /\ DOMAIN c = 1 .. Len(c)
        /\ P \in SUBSET (1 .. Len(c))
        /\ \A k \in DOMAIN c : c[k] \in DOMAIN t.nodes
    BY PositionsBounded DEF WellFormed
  <2>4. m \in 1 .. Len(c) /\ m \in P
    BY <1>2, <2>m, <2>3, LeastExists
  <2>5. NameOf(t, c[m]) = n
    BY <2>4 DEF Positions
  <2>6. u.nodes = v.nodes /\ u.index = Unindex(v, p, n)
        /\ u = [nodes |-> u.nodes, index |-> u.index]
    BY <2>2, <2>u
  <2> HIDE DEF P, c
  <2>7. \A k \in 1 .. Len(c) - 1 : Old(k) \in 1 .. Len(c) /\ Old(k) # m
    BY <2>3, <2>4
  <2>8. \A q \in DOMAIN t.nodes :
          /\ NameOf(u, q) = NameOf(t, q)
          /\ Children(u, q) = Children(v, q)
    BY <2>2, <2>6 DEF NameOf, Children
  <2>9. \A q \in DOMAIN t.nodes : \A k \in DOMAIN Children(u, q) :
          Children(u, q)[k] \in DOMAIN t.nodes
    <3> SUFFICES ASSUME NEW q \in DOMAIN t.nodes, NEW k \in DOMAIN Children(u, q)
                 PROVE  Children(u, q)[k] \in DOMAIN t.nodes
      OBVIOUS
    <3>1. CASE q = p
      BY <3>1, <2>2, <2>3, <2>7, <2>8
    <3>2. CASE q # p
      BY <3>2, <2>2, <2>8 DEF WellFormed
    <3> QED
      BY <3>1, <3>2
  <2>10. \A x : Positions(u, p, x)
           = {k \in 1 .. Len(c) - 1 : NameOf(t, c[Old(k)]) = x}
    <3> SUFFICES ASSUME NEW x
                 PROVE  Positions(u, p, x)
                          = {k \in 1 .. Len(c) - 1 : NameOf(t, c[Old(k)]) = x}
      OBVIOUS
    <3>1. \A k \in 1 .. Len(c) - 1 : NameOf(u, Children(u, p)[k]) = NameOf(t, c[Old(k)])
      BY <2>2, <2>3, <2>7, <2>8
    <3> QED
      BY <3>1, <2>2, <2>8 DEF Positions
  <2>11. Positions(v, p, n) = Positions(u, p, n)
    BY <2>2, <2>6 DEF Positions, Children, NameOf
  <2>12. \A x : Positions(u, p, x) \in SUBSET (1 .. Len(c) - 1)
    BY <2>10
  <2> DEFINE R == Positions(u, p, n)
             first == Children(u, p)[Min(R)]
  <2>13. Children(u, p) = Children(v, p)
    BY <2>8
  <2>14. u.index = IF R = {} THEN [e \in DOMAIN t.index \ {e0} |-> t.index[e]]
                   ELSE [t.index EXCEPT ![e0] = first]
    BY <2>2, <2>6, <2>11, <2>13 DEF Unindex, Restrict
  <2>15. R # {} => /\ Min(R) \in R /\ \A k \in R : Min(R) <= k
                   /\ first \in DOMAIN t.nodes
    <3> SUFFICES ASSUME R # {}
                 PROVE  /\ Min(R) \in R /\ \A k \in R : Min(R) <= k
                        /\ first \in DOMAIN t.nodes
      OBVIOUS
    <3>1. R \in SUBSET (1 .. Len(c))
      BY <2>3, <2>12
    <3>2. Min(R) \in R /\ \A k \in R : Min(R) <= k
      BY <3>1, <2>3, LeastExists
    <3> QED
      BY <3>2, <2>9 DEF Positions
  <2> HIDE DEF R, first
  <2>16. u \in Trees(X)
    <3>1. PICK E \in SUBSET (Nat \X X) : t.index \in [E -> Nat]
      BY DEF WellFormed, Trees
    <3>2. DOMAIN t.nodes \subseteq Nat
      BY DEF WellFormed, Trees
    <3>3. CASE R = {}
      <4>1. u.index \in [E \ {e0} -> Nat]
        BY <3>1, <3>3, <2>14
      <4>2. E \ {e0} \in SUBSET (Nat \X X)
        BY <3>1
      <4> QED
        BY <4>1, <4>2, <2>2, <2>6 DEF Trees
    <3>4. CASE R # {}
      <4>1. u.index \in [E -> Nat]
        BY <3>1, <3>2, <3>4, <2>14, <2>15
      <4> QED
        BY <4>1, <2>2, <2>6 DEF Trees
    <3> QED
      BY <3>3, <3>4
  <2>17. WellFormed(X, u)
    BY <2>2, <2>6, <2>9, <2>16 DEF WellFormed
  <2>18. \A e : e # e0 => /\ (e \in DOMAIN u.index <=> e \in DOMAIN t.index)
                          /\ e \in DOMAIN t.index => u.index[e] = t.index[e]
    BY <2>14
  <2>19. ASSUME NEW e \in DOMAIN u.index
         PROVE  e[1] \in DOMAIN u.nodes /\ FirstNamed(u, e[1], e[2], u.index[e])
    <3>1. CASE e = e0
      <4>1. R # {}
        BY <3>1, <2>14
      <4>2. e0 \in DOMAIN t.index
        BY <3>1, <4>1, <2>14
      <4>3. u.index[e0] = first
        BY <4>1, <4>2, <2>14
      <4>4. FirstNamed(u, p, n, first)
        BY <4>1, <2>15 DEF FirstNamed, R, first
      <4> QED
        BY <3>1, <4>3, <4>4, <2>2, <2>6
    <3>2. CASE e # e0 /\ e[1] # p
      <4>1. /\ e \in DOMAIN t.index /\ u.index[e] = t.index[e]
            /\ e[1] \in DOMAIN t.nodes /\ FirstNamed(t, e[1], e[2], t.index[e])
        BY <3>2, <2>18 DEF IndexExact
      <4>2. Children(u, e[1]) = Children(t, e[1])
        BY <3>2, <4>1, <2>2, <2>8
      <4>3. Positions(u, e[1], e[2]) = Positions(t, e[1], e[2])
        BY <4>1, <4>2, <2>8 DEF Positions, WellFormed
      <4> QED
        BY <4>1, <4>2, <4>3, <2>2, <2>6 DEF FirstNamed
    <3>3. CASE e # e0 /\ e[1] = p
      <4>1. /\ e \in DOMAIN t.index /\ u.index[e] = t.index[e]
            /\ FirstNamed(t, p, e[2], t.index[e])
        BY <3>3, <2>18 DEF IndexExact
      <4>2. PICK k \in Positions(t, p, e[2]) :
              c[k] = t.index[e] /\ \A j \in Positions(t, p, e[2]) : k <= j
        BY <4>1 DEF FirstNamed, c
      <4>3. k \in 1 .. Len(c) /\ NameOf(t, c[k]) = e[2]
        BY <4>2, <2>3 DEF Positions, c
      <4>4. e[2] # n
        <5>1. e = <<e[1], e[2]>>
          BY <4>1 DEF WellFormed, Trees
        <5> QED
          BY <5>1, <3>3
      <4>5. k # m
        BY <4>3, <4>4, <2>5
      <4> DEFINE h == IF k < m THEN k ELSE k - 1
      <4>6. h \in 1 .. Len(c) - 1 /\ Old(h) = k
        BY <4>3, <4>5, <2>3, <2>4
      <4>7. h \in Positions(u, p, e[2])
        BY <4>3, <4>6, <2>10
      <4>8. Children(u, p)[h] = u.index[e]
        BY <4>1, <4>2, <4>6, <2>2, <2>13
      <4>9. ASSUME NEW j \in Positions(u, p, e[2]) PROVE h <= j
        <5>1. j \in 1 .. Len(c) - 1 /\ NameOf(t, c[Old(j)]) = e[2]
          BY <2>10
        <5>2. Old(j) \in Positions(t, p, e[2])
          BY <5>1, <2>3, <2>7 DEF Positions, c
        <5>3. k <= Old(j)
          BY <5>2, <4>2
        <5> QED
          BY <5>1, <5>3, <4>3, <4>5, <2>3, <2>4
      <4> HIDE DEF h
      <4> QED
        BY <3>3, <4>7, <4>8, <4>9, <2>2, <2>6 DEF FirstNamed
    <3> QED
      BY <3>1, <3>2, <3>3
  <2>20. ASSUME NEW q \in DOMAIN u.nodes, NEW k \in DOMAIN Children(u, q)
         PROVE  <<q, NameOf(u, Children(u, q)[k])>> \in DOMAIN u.index
    <3>1. q \in DOMAIN t.nodes
      BY <2>2, <2>6
    <3>2. CASE q # p
      <4>1. Children(u, q) = Children(t, q)
        BY <3>1, <3>2, <2>2, <2>8
      <4>2. Children(t, q)[k] \in DOMAIN t.nodes
        BY <3>1, <4>1 DEF WellFormed
      <4>3. <<q, NameOf(t, Children(t, q)[k])>> \in DOMAIN t.index
        BY <3>1, <4>1 DEF IndexExact, Indexed
      <4> QED
        BY <3>2, <4>1, <4>2, <4>3, <2>8, <2>18
    <3>3. CASE q = p
      <4> DEFINE x == NameOf(t, c[Old(k)])
      <4>1. k \in 1 .. Len(c) - 1 /\ Children(u, p)[k] = c[Old(k)]
        BY <3>3, <2>2, <2>13
      <4>2. Old(k) \in DOMAIN c /\ c[Old(k)] \in DOMAIN t.nodes
        BY <4>1, <2>3, <2>7
      <4>3. NameOf(u, Children(u, p)[k]) = x
        BY <4>1, <4>2, <2>8
      <4>4. <<p, x>> \in DOMAIN t.index
        BY <4>2 DEF IndexExact, Indexed, c
      <4>5. CASE x = n
        <5>1. R # {}
          BY <4>1, <4>5, <2>10 DEF R
        <5>2. DOMAIN u.index = DOMAIN t.index
          BY <5>1, <2>14
        <5> QED
          BY <3>3, <4>3, <4>4, <5>2
      <4>6. CASE x # n
        BY <3>3, <4>3, <4>4, <4>6, <2>18
      <4> QED
        BY <4>5, <4>6
    <3> QED
      BY <3>2, <3>3
  <2>21. IndexExact(u)
    BY <2>19, <2>20 DEF IndexExact, Indexed
  <2> QED
    BY <2>1, <2>17, <2>21
<1> QED
  BY <1>1, <1>2

-----------------------------------------------------------------------------
(* Sound trees.                                                            *)

\* A tree as the formatter keeps it: a child comes after its parent, so that
\* every walk down ends, and only the root has no parent.
Sound(t) ==
  /\ \E X : WellFormed(X, t)
  /\ IndexExact(t)
  /\ Root \in DOMAIN t.nodes
  /\ \A i \in DOMAIN t.nodes \ {Root} : t.nodes[i].parent \in DOMAIN t.nodes
  /\ \A p \in DOMAIN t.nodes : \A k \in DOMAIN Children(t, p) : Children(t, p)[k] > p

\* Whatever t finds, u finds.
FindsAtLeast(u, t) ==
  \A e \in DOMAIN t.index : e \in DOMAIN u.index /\ u.index[e] = t.index[e]

\* What is well-formed over a set is well-formed over a larger one.
LEMMA Wider ==
  ASSUME NEW X, NEW Y, X \subseteq Y, NEW t, WellFormed(X, t)
  PROVE  WellFormed(Y, t)
PROOF
<1>1. Nodes(X) \subseteq Nodes(Y)
  BY DEF Nodes
<1>2. t.nodes \in Seq(Nodes(Y))
  <2>1. t.nodes \in Seq(Nodes(X))
    BY DEF WellFormed, Trees
  <2> QED
    BY <1>1, <2>1
<1>3. PICK E \in SUBSET (Nat \X X) : t.index \in [E -> Nat]
  BY DEF WellFormed, Trees
<1>4. E \in SUBSET (Nat \X Y)
  OBVIOUS
<1>5. t = [nodes |-> t.nodes, index |-> t.index]
  BY DEF WellFormed, Trees
<1>6. t \in Trees(Y)
  BY <1>2, <1>3, <1>4, <1>5 DEF Trees
<1> QED
  BY <1>6 DEF WellFormed

\* The parts of a sound tree.
LEMMA NodesOf ==
  ASSUME NEW t, Sound(t)
  PROVE  /\ Len(t.nodes) \in Nat /\ DOMAIN t.nodes = 1 .. Len(t.nodes)
         /\ t = [nodes |-> t.nodes, index |-> t.index]
         /\ \A p \in DOMAIN t.nodes :
              /\ Children(t, p) \in Seq(Nat)
              /\ \A k \in DOMAIN Children(t, p) : Children(t, p)[k] \in DOMAIN t.nodes
         /\ \A e \in DOMAIN t.index :
              t.index[e] \in DOMAIN t.nodes /\ t.index[e] > e[1] /\ e[1] \in DOMAIN t.nodes
PROOF
<1>1. PICK X : WellFormed(X, t)
  BY DEF Sound
<1>2. /\ Len(t.nodes) \in Nat /\ DOMAIN t.nodes = 1 .. Len(t.nodes)
      /\ t = [nodes |-> t.nodes, index |-> t.index]
  BY <1>1 DEF WellFormed, Trees
<1>3. \A p \in DOMAIN t.nodes :
        /\ Children(t, p) \in Seq(Nat)
        /\ \A k \in DOMAIN Children(t, p) : Children(t, p)[k] \in DOMAIN t.nodes
  BY <1>1, PositionsBounded DEF WellFormed
<1>4. ASSUME NEW e \in DOMAIN t.index
      PROVE  t.index[e] \in DOMAIN t.nodes /\ t.index[e] > e[1] /\ e[1] \in DOMAIN t.nodes
  <2>1. e[1] \in DOMAIN t.nodes /\ FirstNamed(t, e[1], e[2], t.index[e])
    BY <1>4 DEF Sound, IndexExact
  <2>2. PICK k \in DOMAIN Children(t, e[1]) : Children(t, e[1])[k] = t.index[e]
    BY <2>1 DEF FirstNamed, Positions
  <2> QED
    BY <1>3, <2>1, <2>2 DEF Sound
<1> QED
  BY <1>2, <1>3, <1>4

\* FileTree::new()
LEMMA NewTreeSound == ASSUME NEW ino PROVE Sound(NewTree(ino))
PROOF
<1> DEFINE t == NewTree(ino)
<1>1. WellFormed({ino, "/", {}, 0}, t) /\ IndexExact(t)
  BY NewTreeExact
<1>2. DOMAIN t.nodes = {1} /\ Children(t, 1) = <<>>
  BY DEF NewTree, Node, Children
<1> HIDE DEF t
<1>3. Sound(t)
  BY <1>1, <1>2 DEF Sound, Root
<1> QED
  BY <1>3 DEF t

\* add_child() of a new node.
LEMMA AddChildSound ==
  ASSUME NEW t, Sound(t), NEW p \in DOMAIN t.nodes,
         NEW ino, NEW name, NEW blocks, NEW link,
         NEW u, u = AddChild(t, p, Node(ino, name, blocks, link))
  PROVE  /\ Sound(u)
         /\ FindsAtLeast(u, t)
         /\ Indexed(u, p, name)
         /\ DOMAIN t.nodes \subseteq DOMAIN u.nodes
PROOF
<1>1. PICK X : WellFormed(X, t)
  BY DEF Sound
<1> DEFINE Y == X \cup {ino, name, blocks, link}
           node == Node(ino, name, blocks, link)
           i == Len(t.nodes) + 1
<1>2. WellFormed(Y, t)
  BY <1>1, Wider
<1>3. node \in Nodes(Y) /\ node.children = <<>> /\ node.name = name
  BY DEF Node, Nodes
<1> HIDE DEF Y, node
<1>u. u = AddChild(t, p, node)
  BY DEF node
<1>4. WellFormed(Y, u) /\ IndexExact(u)
  BY <1>2, <1>3, <1>u, AddChildExact DEF Sound
<1>5. /\ DOMAIN u.nodes = DOMAIN t.nodes \cup {i}
      /\ i \notin DOMAIN t.nodes
      /\ \A q \in DOMAIN t.nodes :
           /\ u.nodes[q].parent = t.nodes[q].parent
           /\ q # p => Children(u, q) = Children(t, q)
      /\ Children(u, p) = Append(Children(t, p), i)
      /\ Children(u, i) = <<>> /\ u.nodes[i].parent = p
  BY <1>2, <1>3, <1>u, AddChildEffect
<1>6. /\ Len(t.nodes) \in Nat /\ DOMAIN t.nodes = 1 .. Len(t.nodes)
      /\ Children(t, p) \in Seq(Nat)
  BY NodesOf
<1>7. \A j \in DOMAIN u.nodes \ {Root} : u.nodes[j].parent \in DOMAIN u.nodes
  BY <1>5 DEF Sound
<1>8. ASSUME NEW q \in DOMAIN u.nodes, NEW k \in DOMAIN Children(u, q)
      PROVE  Children(u, q)[k] > q
  <2>1. CASE q = i
    BY <2>1, <1>5
  <2>2. CASE q # i /\ q # p
    BY <2>2, <1>5 DEF Sound
  <2>3. CASE q = p
    <3>1. CASE k \in DOMAIN Children(t, p)
      BY <2>3, <3>1, <1>5, <1>6 DEF Sound
    <3>2. CASE k \notin DOMAIN Children(t, p)
      <4>1. Children(u, p)[k] = i
        BY <2>3, <3>2, <1>5, <1>6
      <4> QED
        BY <2>3, <4>1, <1>6
    <3> QED
      BY <3>1, <3>2
  <2> QED
    BY <2>1, <2>2, <2>3
<1>9. Sound(u)
  BY <1>4, <1>5, <1>7, <1>8 DEF Sound
<1>10. u.index = Reindex(t.index, p, name, i)
  BY <1>u, <1>3 DEF AddChild
<1> QED
  BY <1>5, <1>9, <1>10 DEF FindsAtLeast, Indexed, Reindex

\* remove_child()
LEMMA RemoveChildSound ==
  ASSUME NEW t, Sound(t), NEW p \in DOMAIN t.nodes, NEW n,
         NEW u, u = RemoveChild(t, p, n)
  PROVE  Sound(u) /\ DOMAIN u.nodes = DOMAIN t.nodes
PROOF
<1>1. PICK X : WellFormed(X, t)
  BY DEF Sound
<1>2. WellFormed(X, u) /\ IndexExact(u)
  BY <1>1, RemoveChildExact DEF Sound
<1>3. CASE Positions(t, p, n) = {}
  BY <1>3 DEF RemoveChild
<1>4. CASE Positions(t, p, n) # {}
  <2>m. PICK m : m = Min(Positions(t, p, n))
    OBVIOUS
  <2>v. PICK v : v = Without(t, p, m)
    OBVIOUS
  <2>1. u = [v EXCEPT !.index = Unindex(v, p, n)]
    BY <1>4, <2>m, <2>v DEF RemoveChild, Without
  <2>2. /\ v = [nodes |-> v.nodes, index |-> v.index]
        /\ DOMAIN v.nodes = DOMAIN t.nodes
        /\ \A q \in DOMAIN t.nodes :
              /\ v.nodes[q].parent = t.nodes[q].parent
              /\ q # p => Children(v, q) = Children(t, q)
        /\ DOMAIN Children(v, p) = 1 .. Len(Children(t, p)) - 1
        /\ \A k \in 1 .. Len(Children(t, p)) - 1 :
             Children(v, p)[k] = Children(t, p)[IF k < m THEN k ELSE k + 1]
    BY <1>1, <1>4, <2>m, <2>v, RemoveChildEffect
  <2>3. u.nodes = v.nodes
    BY <2>1, <2>2
  <2>4. Children(t, p) \in Seq(Nat)
    BY NodesOf
  <2>5. m \in 1 .. Len(Children(t, p))
    BY <1>1, <1>4, <2>m, PositionsBounded, LeastExists
  <2>6. \A j \in DOMAIN u.nodes \ {Root} : u.nodes[j].parent \in DOMAIN u.nodes
    BY <2>2, <2>3 DEF Sound
  <2>7. ASSUME NEW q \in DOMAIN u.nodes, NEW k \in DOMAIN Children(u, q)
        PROVE  Children(u, q)[k] > q
    <3>1. Children(u, q) = Children(v, q)
      BY <2>3 DEF Children
    <3>2. CASE q # p
      BY <3>1, <3>2, <2>2, <2>3 DEF Sound
    <3>3. CASE q = p
      <4>1. k \in 1 .. Len(Children(t, p)) - 1
        BY <3>1, <3>3, <2>2
      <4>2. PICK j \in 1 .. Len(Children(t, p)) : Children(u, p)[k] = Children(t, p)[j]
        BY <3>1, <3>3, <4>1, <2>2, <2>4, <2>5
      <4> QED
        BY <3>3, <4>2, <2>4 DEF Sound
    <3> QED
      BY <3>2, <3>3
  <2> QED
    BY <1>2, <2>2, <2>3, <2>6, <2>7 DEF Sound
<1> QED
  BY <1>3, <1>4

\* A node's blocks are its own matter.
LEMMA BlocksSound ==
  ASSUME NEW t, Sound(t), NEW i, NEW b
  PROVE  Sound([t EXCEPT !.nodes[i].blocks = b])
PROOF
<1> DEFINE u == [t EXCEPT !.nodes[i].blocks = b]
<1>1. PICK X : WellFormed(X, t)
  BY DEF Sound
<1> DEFINE Y == X \cup {b}
           x == [t.nodes[i] EXCEPT !.blocks = b]
           z == [t.nodes EXCEPT ![i] = x]
<1>2. WellFormed(Y, t)
  BY <1>1, Wider
<1>3. t = [nodes |-> t.nodes, index |-> t.index]
  BY NodesOf
<1>4. u.nodes = z /\ u.index = t.index /\ u = [nodes |-> z, index |-> t.index]
  BY <1>3
<1>5. CASE i \notin DOMAIN t.nodes
  <2>1. z = t.nodes
    BY <1>2, <1>5 DEF WellFormed, Trees
  <2> QED
    BY <1>3, <1>4, <2>1
<1>6. CASE i \in DOMAIN t.nodes
  <2> HIDE DEF Y
  <2>1. t.nodes \in Seq(Nodes(Y)) /\ t.nodes[i] \in Nodes(Y)
    BY <1>2, <1>6 DEF WellFormed, Trees
  <2>b. b \in Y
    BY DEF Y
  <2>2. /\ x \in Nodes(Y) /\ x.name = t.nodes[i].name
        /\ x.children = t.nodes[i].children /\ x.parent = t.nodes[i].parent
    BY <2>1, <2>b DEF Nodes
  <2> HIDE DEF x
  <2>3. z \in Seq(Nodes(Y)) /\ DOMAIN z = DOMAIN t.nodes
    BY <2>1, <2>2, <1>6, ExceptSeq
  <2>4. \A q \in DOMAIN t.nodes :
          z[q].name = t.nodes[q].name /\ z[q].children = t.nodes[q].children
          /\ z[q].parent = t.nodes[q].parent
    BY <2>2, <1>6
  <2> HIDE DEF z, u
  <2>5. u \in Trees(Y)
    BY <1>2, <1>4, <2>3 DEF WellFormed, Trees
  <2>6. DOMAIN u.nodes = DOMAIN t.nodes
    BY <1>4, <2>3
  <2>7. \A q \in DOMAIN t.nodes :
          NameOf(u, q) = NameOf(t, q) /\ Children(u, q) = Children(t, q)
          /\ u.nodes[q].parent = t.nodes[q].parent
    BY <1>4, <2>4 DEF NameOf, Children
  <2>8. WellFormed(Y, u)
    BY <1>2, <2>5, <2>6, <2>7 DEF WellFormed
  <2>9. \A q \in DOMAIN t.nodes : \A n : Positions(u, q, n) = Positions(t, q, n)
    BY <1>2, <2>7 DEF Positions, WellFormed
  <2>10. IndexExact(u)
    <3>1. \A e \in DOMAIN u.index :
            e[1] \in DOMAIN u.nodes /\ FirstNamed(u, e[1], e[2], u.index[e])
      <4> SUFFICES ASSUME NEW e \in DOMAIN u.index
                   PROVE  e[1] \in DOMAIN u.nodes /\ FirstNamed(u, e[1], e[2], u.index[e])
        OBVIOUS
      <4>1. /\ e[1] \in DOMAIN t.nodes /\ FirstNamed(t, e[1], e[2], t.index[e])
            /\ u.index[e] = t.index[e]
        BY <1>4 DEF Sound, IndexExact
      <4> QED
        BY <4>1, <2>6, <2>7, <2>9 DEF FirstNamed
    <3>2. \A p \in DOMAIN u.nodes : \A k \in DOMAIN Children(u, p) :
            Indexed(u, p, NameOf(u, Children(u, p)[k]))
      BY <1>2, <1>4, <2>6, <2>7 DEF Sound, IndexExact, Indexed, WellFormed
    <3> QED
      BY <3>1, <3>2 DEF IndexExact
  <2>11. Sound(u)
    BY <2>6, <2>7, <2>8, <2>10 DEF Sound
  <2> QED
    BY <2>11 DEF u
<1> QED
  BY <1>5, <1>6

-----------------------------------------------------------------------------
(* Lookups.                                                                *)

\* One component of a lookup.
StepTo(t, i, n) == IF i # 0 /\ Indexed(t, i, n) THEN t.index[<<i, n>>] ELSE 0

Steps == INSTANCE Folding WITH Op <- StepTo

\* The nodes a lookup passes through.
Passes(t, path, g) ==
  /\ DOMAIN g = 0 .. Len(path) /\ g[0] = Root
  /\ \A m \in 1 .. Len(path) : g[m] = StepTo(t, g[m - 1], path[m])

\* A lookup ends with the last of them.
LEMMA LookupPasses ==
  ASSUME NEW t, NEW S, NEW path \in Seq(S)
  PROVE  \E g : Passes(t, path, g) /\ Lookup(t, path) = g[Len(path)]
PROOF
<1>1. Lookup(t, path) = Steps!Fold(t, Root, path)
  BY DEF Lookup, Steps!Fold, StepTo, FoldLeft, MapThenFoldSet, Max,
         Steps!Largest
<1>2. Len(path) \in Nat /\ DOMAIN path = 1 .. Len(path)
  OBVIOUS
<1>3. \E g : Steps!Trace(t, Root, Len(path), path, g)
  BY <1>2, Steps!FoldTrace
<1> QED
  BY <1>1, <1>3 DEF Passes, Steps!Trace

\* It passes through nodes, and leaves the root at once.
LEMMA PassesNodes ==
  ASSUME NEW t, Sound(t), NEW S, NEW path \in Seq(S), NEW g, Passes(t, path, g)
  PROVE  \A m \in 0 .. Len(path) :
           g[m] \in {0} \cup DOMAIN t.nodes /\ (m # 0 => g[m] # Root)
PROOF
<1> DEFINE P == {m \in 0 .. Len(path) :
                   g[m] \in {0} \cup DOMAIN t.nodes /\ (m # 0 => g[m] # Root)}
<1>1. Len(path) \in Nat
  OBVIOUS
<1>2. 0 \in P
  BY DEF Passes, Sound
<1>3. ASSUME NEW m \in 1 .. Len(path), m - 1 \in P PROVE m \in P
  <2>1. g[m] = StepTo(t, g[m - 1], path[m])
    BY DEF Passes
  <2>2. CASE g[m] = 0
    BY <2>2 DEF Root
  <2>3. CASE g[m] # 0
    <3>1. <<g[m - 1], path[m]>> \in DOMAIN t.index /\ g[m] = t.index[<<g[m - 1], path[m]>>]
      BY <2>1, <2>3 DEF StepTo, Indexed
    <3>2. g[m] \in DOMAIN t.nodes /\ g[m] > g[m - 1] /\ g[m - 1] \in 1 .. Len(t.nodes)
      BY <3>1, NodesOf
    <3>3. DOMAIN t.nodes = 1 .. Len(t.nodes) /\ Len(t.nodes) \in Nat
      BY NodesOf
    <3> QED
      BY <3>2, <3>3 DEF Root
  <2> QED
    BY <2>2, <2>3
<1>4. 0 .. Len(path) \subseteq P
  <2> HIDE DEF P
  <2> QED
    BY <1>1, <1>2, <1>3, Steps!Upwards
<1> QED
  BY <1>4

\* Where one tree finds what another does, the lookups of paths that begin
\* the same pass through the same nodes.
LEMMA PassesAlike ==
  ASSUME NEW t, NEW u, FindsAtLeast(u, t),
         NEW path, NEW other, NEW k \in Nat,
         Len(path) \in Nat, k <= Len(path), Len(other) \in Nat, k <= Len(other),
         \A m \in 1 .. k : path[m] = other[m],
         NEW g, Passes(t, path, g), NEW h, Passes(u, other, h)
  PROVE  \A m \in 0 .. k : g[m] # 0 => h[m] = g[m]
PROOF
<1> DEFINE P == {m \in 0 .. k : g[m] # 0 => h[m] = g[m]}
<1>1. 1 .. k \subseteq 1 .. Len(path) /\ 1 .. k \subseteq 1 .. Len(other)
  OBVIOUS
<1>2. 0 \in P
  BY DEF Passes
<1>3. ASSUME NEW m \in 1 .. k, m - 1 \in P PROVE m \in P
  <2> SUFFICES ASSUME g[m] # 0 PROVE h[m] = g[m]
    OBVIOUS
  <2>1. /\ g[m] = StepTo(t, g[m - 1], path[m])
        /\ h[m] = StepTo(u, h[m - 1], path[m])
    BY <1>1 DEF Passes
  <2>2. /\ g[m - 1] # 0 /\ <<g[m - 1], path[m]>> \in DOMAIN t.index
        /\ g[m] = t.index[<<g[m - 1], path[m]>>]
    BY <2>1 DEF StepTo, Indexed
  <2>3. h[m - 1] = g[m - 1]
    BY <1>3, <2>2
  <2> QED
    BY <2>1, <2>2, <2>3 DEF StepTo, Indexed, FindsAtLeast
<1>4. 0 .. k \subseteq P
  <2> HIDE DEF P
  <2> QED
    BY <1>2, <1>3, Steps!Upwards
<1> QED
  BY <1>4

\* A lookup finds a node, and the root by no name.
LEMMA LookupNode ==
  ASSUME NEW t, Sound(t), NEW S, NEW path \in Seq(S)
  PROVE  /\ Lookup(t, path) \in {0} \cup DOMAIN t.nodes
         /\ path # <<>> => Lookup(t, path) # Root
         /\ path = <<>> => Lookup(t, path) = Root
PROOF
<1>1. PICK g : Passes(t, path, g) /\ Lookup(t, path) = g[Len(path)]
  BY LookupPasses
<1>2. Len(path) \in Nat /\ (path = <<>> <=> Len(path) = 0)
  OBVIOUS
<1>3. Lookup(t, path) \in {0} \cup DOMAIN t.nodes /\ (path # <<>> => Lookup(t, path) # Root)
  BY <1>1, <1>2, PassesNodes
<1> QED
  BY <1>1, <1>2, <1>3 DEF Passes

\* What is found stays found where it was when the index grows.
LEMMA LookupStays ==
  ASSUME NEW t, NEW u, FindsAtLeast(u, t), NEW S, NEW path \in Seq(S), Lookup(t, path) # 0
  PROVE  Lookup(u, path) = Lookup(t, path)
PROOF
<1>1. PICK g : Passes(t, path, g) /\ Lookup(t, path) = g[Len(path)]
  BY LookupPasses
<1>2. PICK h : Passes(u, path, h) /\ Lookup(u, path) = h[Len(path)]
  BY LookupPasses
<1>3. Len(path) \in Nat /\ Len(path) <= Len(path)
  OBVIOUS
<1>4. \A m \in 0 .. Len(path) : g[m] # 0 => h[m] = g[m]
  BY <1>1, <1>2, <1>3, PassesAlike
<1> QED
  BY <1>1, <1>2, <1>3, <1>4

\* The path of the parent.
LEMMA FrontIs ==
  ASSUME NEW S, NEW path \in Seq(S), path # <<>>
  PROVE  /\ Front(path) \in Seq(S) /\ Len(Front(path)) = Len(path) - 1
         /\ \A m \in 1 .. Len(path) - 1 : Front(path)[m] = path[m]
         /\ Len(path) \in Nat /\ Len(path) >= 1
PROOF
<1>1. Len(path) \in Nat /\ Len(path) >= 1
  OBVIOUS
<1>2. \A i \in 1 .. Len(path) - 1 : path[i] \in S
  OBVIOUS
<1>3. /\ SubSeq(path, 1, Len(path) - 1) \in Seq(S)
      /\ Len(SubSeq(path, 1, Len(path) - 1)) =
           IF 1 <= Len(path) - 1 THEN Len(path) - 1 - 1 + 1 ELSE 0
      /\ \A m \in 1 .. Len(path) - 1 - 1 + 1 :
           SubSeq(path, 1, Len(path) - 1)[m] = path[1 + m - 1]
  BY <1>1, <1>2, SubSeqProperties
<1>4. Len(path) - 1 - 1 + 1 = Len(path) - 1 /\ \A m \in 1 .. Len(path) - 1 : 1 + m - 1 = m
  BY <1>1
<1>5. Len(SubSeq(path, 1, Len(path) - 1)) = Len(path) - 1
  <2> DEFINE k == Len(path)
  <2>1. (IF 1 <= k - 1 THEN k - 1 - 1 + 1 ELSE 0) = k - 1
    <3> HIDE DEF k
    <3>1. k \in Nat /\ k >= 1
      BY <1>1 DEF k
    <3> QED
      BY <3>1
  <2> QED
    BY <1>3, <2>1
<1> QED
  BY <1>1, <1>3, <1>4, <1>5 DEF Front

\* A path is looked up below its parent.
LEMMA LookupBelow ==
  ASSUME NEW t, NEW S, NEW path \in Seq(S), path # <<>>
  PROVE  Lookup(t, path) = StepTo(t, Lookup(t, Front(path)), Last(path))
PROOF
<1>1. PICK h : Passes(t, path, h) /\ Lookup(t, path) = h[Len(path)]
  BY LookupPasses
<1>2. /\ Front(path) \in Seq(S) /\ Len(Front(path)) = Len(path) - 1
      /\ \A m \in 1 .. Len(path) - 1 : Front(path)[m] = path[m]
      /\ Len(path) \in Nat /\ Len(path) >= 1
  BY FrontIs
<1>3. PICK g : Passes(t, Front(path), g) /\ Lookup(t, Front(path)) = g[Len(path) - 1]
  BY <1>2, LookupPasses
<1>4. FindsAtLeast(t, t)
  BY DEF FindsAtLeast
<1> DEFINE k == Len(path) - 1
<1>a. /\ k \in Nat /\ k <= Len(path) /\ k <= Len(Front(path)) /\ k \in 0 .. k
      /\ Len(Front(path)) \in Nat
      /\ \A m \in 1 .. k : Front(path)[m] = path[m] /\ path[m] = Front(path)[m]
  BY <1>2
<1>b. \A m \in 0 .. k : g[m] # 0 => h[m] = g[m]
  <2> HIDE DEF k
  <2>1. Passes(t, path, h) /\ Passes(t, Front(path), g) /\ Len(path) \in Nat
    BY <1>1, <1>2, <1>3
  <2> QED
    BY <1>a, <1>4, <2>1, PassesAlike
<1>c. \A m \in 0 .. k : h[m] # 0 => g[m] = h[m]
  <2> HIDE DEF k
  <2>1. Passes(t, path, h) /\ Passes(t, Front(path), g) /\ Len(path) \in Nat
    BY <1>1, <1>2, <1>3
  <2> QED
    BY <1>a, <1>4, <2>1, PassesAlike
<1>5. g[Len(path) - 1] # 0 => h[Len(path) - 1] = g[Len(path) - 1]
  BY <1>a, <1>b
<1>6. h[Len(path) - 1] # 0 => g[Len(path) - 1] = h[Len(path) - 1]
  BY <1>a, <1>c
<1>7. h[Len(path)] = StepTo(t, h[Len(path) - 1], path[Len(path)])
  BY <1>1, <1>2 DEF Passes
<1>8. g[Len(path) - 1] = h[Len(path) - 1]
  BY <1>5, <1>6
<1> QED
  BY <1>1, <1>3, <1>7, <1>8 DEF Last

-----------------------------------------------------------------------------
(* The nodes below a node.                                                 *)

\* Sequences are put together one after another.
LEMMA FlattenSteps ==
  ASSUME NEW seqs, NEW n \in Nat \ {0}, Len(seqs) = n
  PROVE  \E F : /\ FlattenSeq(seqs) = F[n]
                /\ F[1] = seqs[1]
                /\ \A i \in 2 .. n : F[i] = F[i - 1] \o seqs[i]
PROOF
<1> DEFINE Step(h, i) == IF i = 1 THEN seqs[i] ELSE h[i - 1] \o seqs[i]
           F == CHOOSE h : h = [i \in 1 .. n |-> Step(h, i)]
           Solves(h, m) == /\ h = [i \in 1 .. n |-> h[i]]
                           /\ \A i \in 1 .. m : h[i] = Step(h, i)
           P == {m \in 0 .. n : \E h : Solves(h, m)}
<1>1. FlattenSeq(seqs) = F[n]
  BY DEF FlattenSeq
<1>2. 0 \in P
  <2>1. Solves([i \in 1 .. n |-> 0], 0)
    OBVIOUS
  <2> HIDE DEF Solves
  <2> QED
    BY <2>1
<1>3. ASSUME NEW m \in 1 .. n, m - 1 \in P PROVE m \in P
  <2>1. PICK h : Solves(h, m - 1)
    BY <1>3
  <2> DEFINE k == [h EXCEPT ![m] = Step(h, m)]
  <2>2. /\ k = [i \in 1 .. n |-> k[i]] /\ k[m] = Step(h, m)
        /\ \A i \in 1 .. n : i # m => k[i] = h[i]
    BY <2>1
  <2> HIDE DEF k
  <2>3. ASSUME NEW i \in 1 .. m PROVE k[i] = Step(k, i)
    <3>0. i \in 1 .. n /\ (i # 1 => i - 1 \in 1 .. n /\ i - 1 # m)
      OBVIOUS
    <3>1. CASE i = m
      BY <3>0, <3>1, <2>2
    <3>2. CASE i # m
      <4>1. i \in 1 .. m - 1
        BY <3>2
      <4>2. h[i] = Step(h, i)
        BY <2>1, <4>1
      <4> QED
        BY <3>0, <3>2, <4>2, <2>2
    <3> QED
      BY <3>1, <3>2
  <2>4. Solves(k, m)
    BY <2>2, <2>3
  <2> HIDE DEF Solves
  <2> QED
    BY <2>4
<1>4. n \in P
  <2> HIDE DEF P
  <2>1. 0 .. n \subseteq P
    BY <1>2, <1>3, Steps!Upwards
  <2> QED
    BY <2>1
<1>5. PICK h : Solves(h, n)
  <2> HIDE DEF Solves
  <2> QED
    BY <1>4
<1>6. h = [i \in 1 .. n |-> Step(h, i)]
  BY <1>5
<1>7. F = [i \in 1 .. n |-> Step(F, i)]
  <2> HIDE DEF Step
  <2> QED
    BY <1>6
<1> HIDE DEF F
<1>8. \A i \in 1 .. n : F[i] = Step(F, i)
  <2> HIDE DEF Step
  <2> QED
    BY <1>7
<1>9. F[1] = seqs[1]
  BY <1>8
<1>10. ASSUME NEW i \in 2 .. n PROVE F[i] = F[i - 1] \o seqs[i]
  <2>1. i \in 1 .. n /\ i # 1
    OBVIOUS
  <2> QED
    BY <1>8, <2>1
<1> QED
  BY <1>1, <1>9, <1>10

\* Sequences over S put together are a sequence over S.
LEMMA FlattenType ==
  ASSUME NEW S, NEW seqs \in Seq(Seq(S))
  PROVE  FlattenSeq(seqs) \in Seq(S)
PROOF
<1> DEFINE n == Len(seqs)
<1>1. n \in Nat /\ \A i \in 1 .. n : seqs[i] \in Seq(S)
  OBVIOUS
<1>2. CASE n = 0
  <2>1. seqs = <<>>
    BY <1>2
  <2> QED
    BY <2>1 DEF FlattenSeq
<1>3. CASE n # 0
  <2>1. PICK F : /\ FlattenSeq(seqs) = F[n]
                 /\ F[1] = seqs[1]
                 /\ \A i \in 2 .. n : F[i] = F[i - 1] \o seqs[i]
    <3> HIDE DEF n
    <3>1. n \in Nat \ {0} /\ Len(seqs) = n
      BY <1>1, <1>3 DEF n
    <3> QED
      BY <3>1, FlattenSteps
  <2> DEFINE Q == {m \in 0 .. n : m # 0 => F[m] \in Seq(S)}
  <2>2. ASSUME NEW m \in 1 .. n, m - 1 \in Q PROVE m \in Q
    <3>1. CASE m = 1
      BY <3>1, <1>1, <2>1
    <3>2. CASE m # 1
      <4>1. F[m - 1] \in Seq(S) /\ seqs[m] \in Seq(S)
        BY <2>2, <3>2, <1>1
      <4>2. F[m - 1] \o seqs[m] \in Seq(S)
        BY <4>1, ConcatProperties
      <4>3. F[m] = F[m - 1] \o seqs[m]
        <5> HIDE DEF n
        <5>1. m \in 2 .. n
          BY <1>1, <3>2
        <5> QED
          BY <2>1, <5>1
      <4>4. F[m] \in Seq(S)
        BY <4>2, <4>3
      <4> QED
        BY <4>4
    <3> QED
      BY <3>1, <3>2
  <2>3. 0 .. n \subseteq Q
    <3>1. 0 \in Q
      BY <1>1
    <3> HIDE DEF Q, n
    <3> QED
      BY <1>1, <2>2, <3>1, Steps!Upwards
  <2>4. n \in Q
    <3> HIDE DEF Q, n
    <3> QED
      BY <1>1, <2>3
  <2> QED
    BY <1>3, <2>1, <2>4
<1> QED
  BY <1>2, <1>3

\* F lists below every node what is below its children, and then the node.
PostOrdered(t, F) ==
  \A j \in DOMAIN t.nodes :
    F[j] = Append(FlattenSeq([k \in DOMAIN Children(t, j) |-> F[Children(t, j)[k]]]), j)

\* Which is the order that unlink() visits the nodes in.
LEMMA PostOrderIs ==
  ASSUME NEW t, Sound(t)
  PROVE  \E F : PostOrdered(t, F) /\ \A i \in DOMAIN t.nodes : PostOrder(t, i) = F[i]
PROOF
<1> DEFINE D == DOMAIN t.nodes
           n == Len(t.nodes)
           After(j) == {k \in D : k > j}
           Under(h, j) == FlattenSeq([k \in DOMAIN Children(t, j) |-> h[Children(t, j)[k]]])
           Step(h, j) == Append(Under(h, j), j)
           F == CHOOSE h : h = [j \in D |-> Step(h, j)]
           Solves(h, m) == /\ h = [j \in D |-> h[j]]
                           /\ \A j \in D : j > n - m => h[j] = Step(h, j)
           P == {m \in 0 .. n : \E h : Solves(h, m)}
<1>1. /\ n \in Nat /\ D = 1 .. n
      /\ \A j \in D : /\ Children(t, j) \in Seq(Nat)
                      /\ \A k \in DOMAIN Children(t, j) : Children(t, j)[k] \in After(j)
  BY NodesOf DEF Sound
<1>2. \A i \in DOMAIN t.nodes : PostOrder(t, i) = F[i]
  BY DEF PostOrder
<1>3. 0 \in P
  <2>1. Solves([j \in D |-> 0], 0)
    BY <1>1
  <2> HIDE DEF Solves
  <2> QED
    BY <1>1, <2>1
<1>4. ASSUME NEW m \in 1 .. n, m - 1 \in P PROVE m \in P
  <2>1. PICK h : Solves(h, m - 1)
    BY <1>4
  <2> DEFINE new == n - m + 1
             k == [h EXCEPT ![new] = Step(h, new)]
  <2>2. new \in D
    BY <1>1
  <2>3. \A j \in D : j # new => k[j] = h[j]
    BY <2>1
  <2>3a. k[new] = Step(h, new)
    BY <2>1, <2>2
  <2> HIDE DEF k
  <2>4. ASSUME NEW j \in D, j >= new PROVE Under(k, j) = Under(h, j)
    <3>1. \A c \in DOMAIN Children(t, j) : k[Children(t, j)[c]] = h[Children(t, j)[c]]
      BY <1>1, <2>2, <2>3, <2>4
    <3> QED
      BY <3>1
  <2>5. ASSUME NEW j \in D, j > n - m PROVE k[j] = Step(k, j)
    <3>0. j >= new
      BY <2>5, <1>1
    <3>1. CASE j = new
      <4>1. Under(k, new) = Under(h, new)
        <5>1. new >= new
          BY <1>1
        <5> HIDE DEF Under, D, new
        <5> QED
          BY <5>1, <2>2, <2>4
      <4> HIDE DEF Under, new
      <4> QED
        BY <3>1, <2>3a, <4>1
    <3>2. CASE j # new
      <4>1. j > n - (m - 1)
        <5> HIDE DEF D, n
        <5> QED
          BY <3>0, <3>2, <1>1
      <4>2. h[j] = Step(h, j)
        BY <2>1, <4>1
      <4> HIDE DEF Under
      <4> QED
        BY <3>0, <3>2, <4>2, <2>3, <2>4
    <3> QED
      BY <3>1, <3>2
  <2>6. Solves(k, m)
    <3>1. k = [j \in D |-> k[j]]
      BY <2>1 DEF k
    <3> HIDE DEF Step
    <3> QED
      BY <2>5, <3>1
  <2> HIDE DEF Solves
  <2> QED
    BY <1>1, <2>6
<1>5. n \in P
  <2> HIDE DEF P
  <2>1. 0 .. n \subseteq P
    <3> HIDE DEF n
    <3> QED
      BY <1>1, <1>3, <1>4, Steps!Upwards
  <2> QED
    BY <1>1, <2>1
<1>6. PICK h : Solves(h, n)
  <2> HIDE DEF Solves
  <2> QED
    BY <1>5
<1>7. h = [j \in D |-> Step(h, j)]
  <2>1. \A j \in D : j > n - n
    BY <1>1
  <2> HIDE DEF Step
  <2> QED
    BY <1>6, <2>1
<1>8. F = [j \in D |-> Step(F, j)]
  <2> HIDE DEF Step, D
  <2> QED
    BY <1>7
<1> HIDE DEF F
<1>9. PostOrdered(t, F)
  BY <1>8 DEF PostOrdered
<1> QED
  BY <1>2, <1>9

\* What unlink() visits: nodes after the one it is called for, and then that.
LEMMA PostOrderNodes ==
  ASSUME NEW t, Sound(t), NEW i \in DOMAIN t.nodes
  PROVE  \E below \in Seq({j \in DOMAIN t.nodes : j > i}) :
           PostOrder(t, i) = Append(below, i)
PROOF
<1> DEFINE D == DOMAIN t.nodes
           n == Len(t.nodes)
           After(j) == {k \in D : k > j}
           Under(h, j) == FlattenSeq([k \in DOMAIN Children(t, j) |-> h[Children(t, j)[k]]])
<1>1. /\ n \in Nat /\ D = 1 .. n
      /\ \A j \in D : /\ Children(t, j) \in Seq(Nat)
                      /\ \A k \in DOMAIN Children(t, j) : Children(t, j)[k] \in After(j)
  BY NodesOf DEF Sound
<1>2. PICK F : PostOrdered(t, F) /\ \A j \in DOMAIN t.nodes : PostOrder(t, j) = F[j]
  BY PostOrderIs
<1>9. \A j \in D : F[j] = Append(Under(F, j), j)
  BY <1>2 DEF PostOrdered
<1> DEFINE Q == {m \in 0 .. n : \A j \in D : j > n - m => Under(F, j) \in Seq(After(j))}
<1> HIDE DEF Under
<1>10. ASSUME NEW m \in 1 .. n, m - 1 \in Q PROVE m \in Q
  <2> SUFFICES ASSUME NEW j \in D, j > n - m PROVE Under(F, j) \in Seq(After(j))
    OBVIOUS
  <2>1. ASSUME NEW c \in DOMAIN Children(t, j) PROVE F[Children(t, j)[c]] \in Seq(After(j))
    <3> DEFINE x == Children(t, j)[c]
    <3>1. x \in D /\ x > j
      BY <1>1, <2>1
    <3> HIDE DEF x
    <3>2. x > n - (m - 1)
      BY <1>1, <3>1
    <3>3. Under(F, x) \in Seq(After(x))
      BY <1>10, <3>1, <3>2
    <3>4. After(x) \subseteq After(j) /\ x \in After(j)
      BY <1>1, <3>1
    <3>5. Under(F, x) \in Seq(After(j))
      <4> HIDE DEF After
      <4> QED
        BY <3>3, <3>4
    <3>6. F[x] \in Seq(After(j))
      <4>1. F[x] = Append(Under(F, x), x)
        BY <1>9, <3>1
      <4> HIDE DEF After, Q, D
      <4> QED
        BY <3>4, <3>5, <4>1, AppendProperties
    <3> QED
      BY <3>6 DEF x
  <2>2. [c \in DOMAIN Children(t, j) |-> F[Children(t, j)[c]]] \in Seq(Seq(After(j)))
    <3> DEFINE seqs == [c \in DOMAIN Children(t, j) |-> F[Children(t, j)[c]]]
    <3>1. Children(t, j) \in Seq(Nat) /\ Len(Children(t, j)) \in Nat
          /\ DOMAIN Children(t, j) = 1 .. Len(Children(t, j))
      BY <1>1
    <3>2. \A c \in 1 .. Len(Children(t, j)) : F[Children(t, j)[c]] \in Seq(After(j))
      BY <2>1, <3>1
    <3>3. [c \in 1 .. Len(Children(t, j)) |-> F[Children(t, j)[c]]] \in Seq(Seq(After(j)))
      <4> HIDE DEF After
      <4> QED
        BY <3>1, <3>2
    <3> QED
      BY <3>1, <3>3
  <2> HIDE DEF After
  <2> QED
    BY <2>2, FlattenType DEF Under
<1>11. 0 \in Q
  BY <1>1
<1>12. 0 .. n \subseteq Q
  <2> HIDE DEF Q, n
  <2> QED
    BY <1>1, <1>10, <1>11, Steps!Upwards
<1>13. Under(F, i) \in Seq(After(i))
  <2>1. n \in Q
    <3> HIDE DEF Q
    <3> QED
      BY <1>1, <1>12
  <2>2. i > n - n
    BY <1>1
  <2> QED
    BY <2>1, <2>2
<1> QED
  BY <1>2, <1>9, <1>13

-----------------------------------------------------------------------------
(* The formatter's operations.                                             *)

\* A formatter whose tree is sound.  Nothing is said of its other fields.
SoundFormatter(f) == {"tree", "err"} \subseteq DOMAIN f /\ Sound(f.tree)

\* One node leaves the tree.
LEMMA DetachSound ==
  ASSUME NEW f, SoundFormatter(f), NEW i \in DOMAIN f.tree.nodes \ {Root}
  PROVE  LET g == Detach(f, i)
         IN /\ SoundFormatter(g)
            /\ DOMAIN g.tree.nodes = DOMAIN f.tree.nodes
            /\ g.err = f.err
PROOF
<1> DEFINE p == f.tree.nodes[i].parent
           n == f.tree.nodes[i].name
           h == LeaveParent(f, i)
           u == RemoveChild(f.tree, p, n)
<1>1. p \in DOMAIN f.tree.nodes
  BY DEF SoundFormatter, Sound
<1>2. Sound(u) /\ DOMAIN u.nodes = DOMAIN f.tree.nodes
  <2> HIDE DEF n, p
  <2>1. Sound(f.tree)
    BY DEF SoundFormatter
  <2> QED
    BY <1>1, <2>1, RemoveChildSound
<1>3. h.tree = u /\ h.err = f.err /\ DOMAIN h = DOMAIN f
  BY DEF LeaveParent, SoundFormatter
<1> HIDE DEF h, u
<1>4. LET g == DropReference(h, i)
      IN g.tree = h.tree /\ g.err = h.err /\ DOMAIN g = DOMAIN h
  BY <1>3 DEF DropReference, SoundFormatter
<1> QED
  BY <1>2, <1>3, <1>4 DEF Detach, h, SoundFormatter

\* Detach as a step of a fold.
DetachIn(c, f, i) == Detach(f, i)
Detaching == INSTANCE Folding WITH Op <- DetachIn

\* And so do all the nodes of a list.
LEMMA DetachAllSound ==
  ASSUME NEW f, SoundFormatter(f), NEW order \in Seq(DOMAIN f.tree.nodes \ {Root})
  PROVE  LET g == FoldLeft(Detach, f, order)
         IN /\ SoundFormatter(g)
            /\ DOMAIN g.tree.nodes = DOMAIN f.tree.nodes
            /\ g.err = f.err
PROOF
<1> DEFINE Good(g) == /\ SoundFormatter(g)
                      /\ DOMAIN g.tree.nodes = DOMAIN f.tree.nodes
                      /\ g.err = f.err
<1>1. FoldLeft(Detach, f, order) = Detaching!Fold(f, f, order)
  BY DEF Detaching!Fold, DetachIn, FoldLeft, MapThenFoldSet, Max,
         Detaching!Largest
<1>2. Len(order) \in Nat /\ DOMAIN order = 1 .. Len(order)
  OBVIOUS
<1>2a. \A m \in 1 .. Len(order) : order[m] \in DOMAIN f.tree.nodes \ {Root}
  OBVIOUS
<1>3. PICK g : Detaching!Trace(f, f, Len(order), order, g)
  BY <1>2, Detaching!FoldTrace
<1>t. /\ g[0] = f /\ Detaching!Fold(f, f, order) = g[Len(order)]
      /\ \A m \in 1 .. Len(order) : g[m] = DetachIn(f, g[m - 1], order[m])
  BY <1>3 DEF Detaching!Trace
<1> DEFINE P == {m \in 0 .. Len(order) : Good(g[m])}
<1>4. 0 \in P
  BY <1>2, <1>t
<1>5. ASSUME NEW m \in 1 .. Len(order), m - 1 \in P PROVE m \in P
  <2>1. g[m] = Detach(g[m - 1], order[m])
    BY <1>t DEF DetachIn
  <2>2. SoundFormatter(g[m - 1]) /\ order[m] \in DOMAIN g[m - 1].tree.nodes \ {Root}
    BY <1>2a, <1>5
  <2>3. Good(g[m])
    BY <1>5, <2>1, <2>2, DetachSound
  <2> HIDE DEF Good
  <2> QED
    BY <2>3
<1>6. 0 .. Len(order) \subseteq P
  <2> HIDE DEF P
  <2> QED
    BY <1>2, <1>4, <1>5, Detaching!Upwards
<1>7. Good(g[Len(order)])
  BY <1>2, <1>6
<1> QED
  BY <1>1, <1>t, <1>7

\* The nodes that unlink() detaches.
LEMMA UnlinkOrder ==
  ASSUME NEW f, SoundFormatter(f), NEW S, NEW path \in Seq(S),
         NEW whiteout \in BOOLEAN, path # <<>> \/ whiteout
  PROVE  \/ Unlink(f, path, whiteout) = f
         \/ Unlink(f, path, whiteout) = Fails(f, "NotDirectory")
         \/ \E order \in Seq(DOMAIN f.tree.nodes \ {Root}) :
              Unlink(f, path, whiteout) = FoldLeft(Detach, f, order)
PROOF
<1> DEFINE i == Lookup(f.tree, path)
           t == f.tree
<1>1. i \in {0} \cup DOMAIN t.nodes /\ (path # <<>> => i # Root)
  BY LookupNode DEF SoundFormatter
<1> HIDE DEF i
<1>2. CASE i = 0
  BY <1>2 DEF Unlink, i
<1>3. CASE i # 0 /\ whiteout /\ ~IsDir(InodeAt(f, i))
  BY <1>3 DEF Unlink, i
<1>4. CASE i # 0 /\ ~(whiteout /\ ~IsDir(InodeAt(f, i)))
  <2>1. PICK below \in Seq({j \in DOMAIN t.nodes : j > i}) : PostOrder(t, i) = Append(below, i)
    BY <1>1, <1>4, PostOrderNodes DEF SoundFormatter
  <2>2. i \in Nat /\ i >= Root /\ \A j \in DOMAIN t.nodes : j > i => j # Root
    BY <1>1, <1>4, NodesOf DEF SoundFormatter, Root
  <2> DEFINE D == DOMAIN t.nodes \ {Root}
  <2>3. below \in Seq(D)
    <3>1. {j \in DOMAIN t.nodes : j > i} \subseteq D
      BY <2>2
    <3> HIDE DEF D, t
    <3> QED
      BY <2>1, <3>1
  <2> DEFINE order == IF whiteout THEN Front(PostOrder(t, i)) ELSE PostOrder(t, i)
  <2>5. order \in Seq(D)
    <3>1. CASE whiteout
      <4> DEFINE w == Append(below, i)
                 T == Nat \cup D \cup {i}
      <4>1. w \in Seq(T) /\ w # <<>> /\ Len(w) - 1 = Len(below) /\ Len(below) \in Nat
            /\ \A m \in 1 .. Len(below) : w[m] = below[m] /\ below[m] \in D
        <5> HIDE DEF D
        <5> QED
          BY <2>3
      <4> HIDE DEF w, D
      <4>2. /\ Front(w) \in Seq(T) /\ Len(Front(w)) = Len(w) - 1
            /\ \A m \in 1 .. Len(w) - 1 : Front(w)[m] = w[m]
        <5> HIDE DEF T
        <5> QED
          BY <4>1, FrontIs
      <4> DEFINE v == Front(w)
      <4> HIDE DEF v, T
      <4>3. v \in Seq(T) /\ Len(v) = Len(below) /\ \A m \in 1 .. Len(below) : v[m] \in D
        BY <4>1, <4>2 DEF v
      <4>4. v \in Seq(D)
        BY <4>3
      <4> QED
        BY <2>1, <3>1, <4>4 DEF v, w
    <3>2. CASE ~whiteout
      <4>1. i \in D
        BY <3>2, <1>1, <1>4
      <4>2. Append(below, i) \in Seq(D)
        <5> HIDE DEF D
        <5> QED
          BY <2>3, <4>1, AppendProperties
      <4> QED
        BY <3>2, <2>1, <4>2
    <3> QED
      BY <3>1, <3>2
  <2>6. Unlink(f, path, whiteout) = FoldLeft(Detach, f, order)
    BY <1>4 DEF Unlink, i
  <2> HIDE DEF order
  <2> QED
    BY <2>5, <2>6
<1> QED
  BY <1>2, <1>3, <1>4

\* unlink() of anything but the root itself.
LEMMA UnlinkSound ==
  ASSUME NEW f, SoundFormatter(f), NEW S, NEW path \in Seq(S),
         NEW whiteout \in BOOLEAN, path # <<>> \/ whiteout
  PROVE  SoundFormatter(Unlink(f, path, whiteout))
PROOF
<1> DEFINE g == Unlink(f, path, whiteout)
<1>1. \/ g = f
      \/ g = Fails(f, "NotDirectory")
      \/ \E order \in Seq(DOMAIN f.tree.nodes \ {Root}) : g = FoldLeft(Detach, f, order)
  BY UnlinkOrder
<1> HIDE DEF g
<1>2. CASE g = Fails(f, "NotDirectory")
  BY <1>2 DEF Fails, SoundFormatter, g
<1>3. CASE \E order \in Seq(DOMAIN f.tree.nodes \ {Root}) : g = FoldLeft(Detach, f, order)
  BY <1>3, DetachAllSound DEF g
<1> QED
  BY <1>1, <1>2, <1>3 DEF g

\* What g has of f and, where nothing failed, the name it was to get.
Grown(g, f, p, name) ==
  /\ SoundFormatter(g)
  /\ FindsAtLeast(g.tree, f.tree)
  /\ g.err = "" => Indexed(g.tree, p, name)

\* A new node below p.
LEMMA RegisterSound ==
  ASSUME NEW f, SoundFormatter(f), NEW p \in DOMAIN f.tree.nodes, NEW name,
         NEW inode, NEW blocks
  PROVE  Grown(Register(f, p, name, inode, blocks), f, p, name)
PROOF
<1> DEFINE g == Register(f, p, name, inode, blocks)
           up == f.tree.nodes[p].inode
           ino == Len(f.inodes) + 1
           u == AddChild(f.tree, p, Node(ino, name, blocks, 0))
<1>1. CASE f.inodes[up].links >= MaxLinks
  <2>1. g = Fails(f, "MaximumLinksExceeded")
    BY <1>1 DEF Register
  <2>2. FindsAtLeast(f.tree, f.tree)
    BY DEF FindsAtLeast
  <2>3. g.tree = f.tree /\ DOMAIN g = DOMAIN f /\ g.err = "MaximumLinksExceeded"
    BY <2>1 DEF Fails, SoundFormatter
  <2> HIDE DEF g
  <2> QED
    BY <2>2, <2>3 DEF Grown, SoundFormatter, g
<1>2. CASE ~(f.inodes[up].links >= MaxLinks)
  <2>1. g.tree = u /\ DOMAIN g = DOMAIN f
    <3> HIDE DEF u
    <3> QED
      BY <1>2 DEF Register, SoundFormatter, u
  <2>2. Sound(u) /\ FindsAtLeast(u, f.tree) /\ Indexed(u, p, name)
    <3> HIDE DEF ino
    <3> QED
      BY AddChildSound DEF SoundFormatter
  <2> HIDE DEF g, u
  <2> QED
    BY <2>1, <2>2 DEF Grown, SoundFormatter, g
<1> QED
  BY <1>1, <1>2

\* An entry below p.
LEMMA AddSound ==
  ASSUME NEW f, SoundFormatter(f), NEW p \in DOMAIN f.tree.nodes, NEW name, NEW e
  PROVE  Grown(Add(f, p, name, e), f, p, name)
PROOF
<1> DEFINE g == Add(f, p, name, e)
<1>1. CASE e.kind = "dir"
  <2>1. g = Register(f, p, name, [Fresh(e) EXCEPT !.links = 2], {})
    BY <1>1 DEF Add
  <2> HIDE DEF g
  <2> QED
    BY <2>1, RegisterSound DEF g
<1>2. CASE e.kind # "dir" /\ e.kind = "file" /\ e.size > MaxFileSize
  <2>1. PICK why \in {"FileTooBig", "MaximumLinksExceeded"} : g = Fails(f, why)
    BY <1>2 DEF Add
  <2>2. FindsAtLeast(f.tree, f.tree)
    BY DEF FindsAtLeast
  <2>3. g.tree = f.tree /\ DOMAIN g = DOMAIN f /\ g.err = why
    BY <2>1 DEF Fails, SoundFormatter
  <2> HIDE DEF g
  <2> QED
    BY <2>2, <2>3 DEF Grown, SoundFormatter, g
<1>3. CASE e.kind # "dir" /\ ~(e.kind = "file" /\ e.size > MaxFileSize)
  <2>1. PICK data, count, inode, blocks :
          g = Register(WithData(f, data, count).f, p, name, inode, blocks)
    BY <1>3 DEF Add
  <2> DEFINE h == WithData(f, data, count).f
  <2>2. h.tree = f.tree /\ DOMAIN h = DOMAIN f
    BY DEF WithData, Write, SoundFormatter
  <2> HIDE DEF h
  <2>3. SoundFormatter(h) /\ p \in DOMAIN h.tree.nodes
    BY <2>2 DEF SoundFormatter
  <2>4. Grown(g, h, p, name)
    <3> HIDE DEF g
    <3> QED
      BY <2>1, <2>3, RegisterSound DEF h
  <2> HIDE DEF g
  <2> QED
    BY <2>2, <2>4 DEF Grown, g
<1> QED
  BY <1>1, <1>2, <1>3

\* The beginnings of a path.
LEMMA PrefixIs ==
  ASSUME NEW S, NEW path \in Seq(S), NEW m \in 1 .. Len(path)
  PROVE  /\ SubSeq(path, 1, m) \in Seq(S) /\ SubSeq(path, 1, m) # <<>>
         /\ Front(SubSeq(path, 1, m)) = SubSeq(path, 1, m - 1)
         /\ Last(SubSeq(path, 1, m)) = path[m]
         /\ SubSeq(path, 1, m - 1) \in Seq(S)
         /\ m - 1 = 0 => SubSeq(path, 1, m - 1) = <<>>
PROOF
<1>0. /\ Len(path) \in Nat /\ m \in Nat /\ m >= 1 /\ m <= Len(path)
      /\ \A i \in 1 .. Len(path) : path[i] \in S
  OBVIOUS
<1>1. /\ SubSeq(path, 1, m) \in Seq(S) /\ Len(SubSeq(path, 1, m)) = m
      /\ \A i \in 1 .. m : SubSeq(path, 1, m)[i] = path[i]
  <2>1. \A i \in 1 .. m : path[i] \in S
    BY <1>0
  <2>2. /\ SubSeq(path, 1, m) \in Seq(S)
        /\ Len(SubSeq(path, 1, m)) = IF 1 <= m THEN m - 1 + 1 ELSE 0
        /\ \A i \in 1 .. m - 1 + 1 : SubSeq(path, 1, m)[i] = path[1 + i - 1]
    BY <1>0, <2>1, SubSeqProperties
  <2>3. m - 1 + 1 = m /\ \A i \in 1 .. m : 1 + i - 1 = i
    BY <1>0
  <2> QED
    BY <1>0, <2>2, <2>3
<1>2. /\ SubSeq(path, 1, m - 1) \in Seq(S) /\ Len(SubSeq(path, 1, m - 1)) = m - 1
      /\ \A i \in 1 .. m - 1 : SubSeq(path, 1, m - 1)[i] = path[i]
  <2>1. \A i \in 1 .. m - 1 : path[i] \in S
    BY <1>0
  <2>2. /\ SubSeq(path, 1, m - 1) \in Seq(S)
        /\ Len(SubSeq(path, 1, m - 1)) = IF 1 <= m - 1 THEN m - 1 - 1 + 1 ELSE 0
        /\ \A i \in 1 .. m - 1 - 1 + 1 : SubSeq(path, 1, m - 1)[i] = path[1 + i - 1]
    BY <1>0, <2>1, SubSeqProperties
  <2>3. m - 1 - 1 + 1 = m - 1 /\ \A i \in 1 .. m - 1 : 1 + i - 1 = i
    BY <1>0
  <2>4. (IF 1 <= m - 1 THEN m - 1 - 1 + 1 ELSE 0) = m - 1
    BY <1>0
  <2> QED
    BY <1>0, <2>2, <2>3, <2>4
<1> DEFINE w == SubSeq(path, 1, m)
           v == SubSeq(path, 1, m - 1)
<1>3. w # <<>> /\ Last(w) = path[m]
  <2> HIDE DEF w
  <2>1. w \in Seq(S) /\ Len(w) = m /\ w[m] = path[m]
    BY <1>0, <1>1 DEF w
  <2> QED
    BY <1>0, <2>1 DEF Last
<1>4. Front(w) = v
  <2> HIDE DEF w, v
  <2>1. /\ w \in Seq(S) /\ Len(w) = m /\ w # <<>>
        /\ \A i \in 1 .. m - 1 : w[i] = path[i]
    BY <1>0, <1>1, <1>3 DEF w
  <2>2. /\ v \in Seq(S) /\ Len(v) = m - 1
        /\ \A i \in 1 .. m - 1 : v[i] = path[i]
    BY <1>2 DEF v
  <2>3. /\ Front(w) \in Seq(S) /\ Len(Front(w)) = m - 1
        /\ \A i \in 1 .. m - 1 : Front(w)[i] = w[i]
    BY <2>1, FrontIs
  <2> QED
    BY <2>1, <2>2, <2>3
<1>5. m - 1 = 0 => v = <<>>
  <2> HIDE DEF v
  <2>1. v \in Seq(S) /\ Len(v) = m - 1
    BY <1>2 DEF v
  <2> QED
    BY <2>1
<1> QED
  BY <1>1, <1>2, <1>3, <1>4, <1>5

\* A child is found where its parent is.
LEMMA LookupChild ==
  ASSUME NEW t, Sound(t), NEW S, NEW path \in Seq(S), path # <<>>,
         NEW p, p # 0, Lookup(t, Front(path)) = p, Indexed(t, p, Last(path))
  PROVE  Lookup(t, path) # 0
PROOF
<1>1. Lookup(t, path) = t.index[<<p, Last(path)>>]
  BY LookupBelow DEF StepTo
<1>2. t.index[<<p, Last(path)>>] \in 1 .. Len(t.nodes) /\ Len(t.nodes) \in Nat
  BY NodesOf DEF Indexed
<1> QED
  BY <1>1, <1>2

\* A bounded set of numbers has a greatest one.
LEMMA GreatestExists ==
  ASSUME NEW n \in Nat, NEW P \in SUBSET (0 .. n), P # {}
  PROVE  Max(P) \in P /\ \A y \in P : Max(P) >= y
PROOF
<1> DEFINE R == {n + 1 - x : x \in P}
<1>1. /\ R \in SUBSET (1 .. n + 1)
      /\ R # {}
      /\ n + 1 \in Nat
  <2>1. ASSUME NEW x \in P PROVE n + 1 - x \in 1 .. n + 1
    <3>1. x \in 0 .. n
      OBVIOUS
    <3> QED
      BY <3>1
  <2>2. R # {}
    OBVIOUS
  <2>3. R \in SUBSET (1 .. n + 1)
    BY <2>1
  <2>4. n + 1 \in Nat
    OBVIOUS
  <2> HIDE DEF R
  <2> QED
    BY <2>2, <2>3, <2>4
<1>2. Min(R) \in R /\ \A k \in R : Min(R) <= k
  <2> HIDE DEF R
  <2> QED
    BY <1>1, LeastExists
<1>3. PICK x \in P : Min(R) = n + 1 - x
  BY <1>2
<1>4. ASSUME NEW y \in P PROVE x >= y
  <2>1. n + 1 - y \in R
    OBVIOUS
  <2>2. n + 1 - x <= n + 1 - y
    BY <1>2, <1>3, <2>1
  <2>3. x \in Nat /\ y \in Nat
    OBVIOUS
  <2> QED
    BY <2>2, <2>3
<1> QED
  BY <1>4 DEF Max

\* One of the parents that are made.
MakeOneOf(path, g, n) ==
  IF g.err # "" THEN g ELSE Add(g, Lookup(g.tree, SubSeq(path, 1, n - 1)), path[n], Implied)
Making == INSTANCE Folding WITH Op <- MakeOneOf

\* It is found when it was made.
LEMMA MakeOneSound ==
  ASSUME NEW S, NEW path \in Seq(S), NEW m \in 1 .. Len(path),
         NEW f, SoundFormatter(f),
         f.err = "" => Lookup(f.tree, SubSeq(path, 1, m - 1)) # 0
  PROVE  LET g == MakeOneOf(path, f, m)
         IN /\ SoundFormatter(g)
            /\ g.err = "" => Lookup(g.tree, SubSeq(path, 1, m)) # 0
PROOF
<1> DEFINE g == MakeOneOf(path, f, m)
           w == SubSeq(path, 1, m)
           v == SubSeq(path, 1, m - 1)
           p == Lookup(f.tree, v)
<1>1. CASE f.err # ""
  BY <1>1 DEF MakeOneOf
<1>2. CASE f.err = ""
  <2>1. /\ w \in Seq(S) /\ w # <<>> /\ Front(w) = v /\ Last(w) = path[m] /\ v \in Seq(S)
    BY PrefixIs
  <2> HIDE DEF w, v
  <2>2. p # 0
    BY <1>2 DEF v
  <2>3. p \in DOMAIN f.tree.nodes
    BY <2>1, <2>2, LookupNode DEF SoundFormatter
  <2> HIDE DEF p
  <2>4. g = Add(f, p, path[m], Implied)
    BY <1>2 DEF MakeOneOf, v, p
  <2> HIDE DEF g
  <2>5. Grown(g, f, p, path[m])
    BY <2>3, <2>4, AddSound
  <2>6. SoundFormatter(g) /\ FindsAtLeast(g.tree, f.tree)
    BY <2>5 DEF Grown
  <2>7. ASSUME g.err = "" PROVE Lookup(g.tree, w) # 0
    <3>1. Indexed(g.tree, p, Last(w))
      BY <2>1, <2>5, <2>7 DEF Grown
    <3>2. Lookup(g.tree, v) = p
      BY <2>1, <2>2, <2>6, LookupStays DEF p
    <3> QED
      BY <2>1, <2>2, <2>6, <3>1, <3>2, LookupChild DEF SoundFormatter
  <2> QED
    BY <2>6, <2>7 DEF g, w
<1> QED
  BY <1>1, <1>2

\* Every parent is made below one that is there, or an error is kept.
MadeFrom(g, f, path) ==
  \/ g = f
  \/ \E p \in DOMAIN f.tree.nodes : \E x \in 1 .. Len(path) :
       g = Add(f, p, path[x], Implied)

\* A step of the fold makes one of them or keeps an error.
LEMMA MakeOneMade ==
  ASSUME NEW S, NEW path \in Seq(S), NEW m \in 1 .. Len(path),
         NEW f, SoundFormatter(f),
         f.err = "" => Lookup(f.tree, SubSeq(path, 1, m - 1)) # 0
  PROVE  MadeFrom(MakeOneOf(path, f, m), f, path)
PROOF
<1>1. CASE f.err # ""
  BY <1>1 DEF MakeOneOf, MadeFrom
<1>2. CASE f.err = ""
  <2> DEFINE v == SubSeq(path, 1, m - 1)
             p == Lookup(f.tree, v)
  <2>1. v \in Seq(S)
    BY PrefixIs
  <2>2. p # 0
    BY <1>2
  <2>3. MakeOneOf(path, f, m) = Add(f, p, path[m], Implied)
    BY <1>2 DEF MakeOneOf
  <2> HIDE DEF v
  <2>4. p \in DOMAIN f.tree.nodes
    BY <2>1, <2>2, LookupNode DEF SoundFormatter
  <2> HIDE DEF p
  <2> QED
    BY <2>1, <2>3, <2>4 DEF MadeFrom
<1> QED
  BY <1>1, <1>2

\* They are those below the deepest parent that is there, a directory.
MadeBelow(f, path, have, n, g) ==
  /\ have \in 0 .. Len(path) - 1 /\ n = Len(path) - 1 - have
  /\ Lookup(f.tree, SubSeq(path, 1, have)) # 0
  /\ IsDir(InodeAt(f, Lookup(f.tree, SubSeq(path, 1, have))))
  /\ \A j \in have + 1 .. Len(path) - 1 : Lookup(f.tree, SubSeq(path, 1, j)) = 0
  /\ \A m \in 1 .. n : g[m] = MakeOneOf(path, g[m - 1], have + m)

\* The parents of path are made one after another.
ParentsMade(f, path, n, g) ==
  /\ n \in Nat /\ g[0] = f
  /\ \A m \in 1 .. n : SoundFormatter(g[m - 1]) /\ MadeFrom(g[m], g[m - 1], path)
  /\ SoundFormatter(g[n])
  /\ g[n].err = "" => Lookup(g[n].tree, Front(path)) # 0
  /\ \E have : MadeBelow(f, path, have, n, g)

\* What make_parents leaves is the last of such formatters.
LEMMA MakeParentsSteps ==
  ASSUME NEW S, NEW path \in Seq(S), path # <<>>, NEW f, SoundFormatter(f)
  PROVE  \/ MakeParents(f, path) = Fails(f, "NotDirectory")
         \/ \E n, g : ParentsMade(f, path, n, g) /\ MakeParents(f, path) = g[n]
PROOF
<1> DEFINE k == Len(path) - 1
           E == {n \in 0 .. k : Exists(f, SubSeq(path, 1, n))}
           have == Max(E)
           order == [n \in 1 .. k - have |-> have + n]
<1>1. Len(path) \in Nat /\ k \in Nat /\ 1 \in 1 .. Len(path)
  <2>1. Len(path) \in Nat /\ Len(path) # 0
    OBVIOUS
  <2> QED
    BY <2>1
<1>2. have \in E /\ \A j \in E : have >= j
  <2>1. 0 \in E
    <3>1. SubSeq(path, 1, 1 - 1) = <<>> /\ 1 - 1 = 0
      BY <1>1, PrefixIs
    <3>2. <<>> \in Seq(S)
      OBVIOUS
    <3>3. Lookup(f.tree, <<>>) = Root
      BY <3>2, LookupNode DEF SoundFormatter
    <3>4. Exists(f, SubSeq(path, 1, 0))
      <4>1. SubSeq(path, 1, 0) = <<>>
        <5>1. 1 - 1 = 0
          OBVIOUS
        <5> QED
          BY <3>1, <5>1
      <4> DEFINE w == SubSeq(path, 1, 0)
      <4>2. w = <<>>
        BY <4>1
      <4> HIDE DEF w
      <4>3. Lookup(f.tree, w) = Root
        BY <3>3, <4>2
      <4>4. Lookup(f.tree, w) # 0
        BY <4>3 DEF Root
      <4> QED
        BY <4>4 DEF Exists, w
    <3> HIDE DEF k
    <3> QED
      BY <1>1, <3>4
  <2>2. E \in SUBSET (0 .. k)
    OBVIOUS
  <2> HIDE DEF E, k
  <2> QED
    BY <1>1, <2>1, <2>2, GreatestExists
<1>3. have \in 0 .. k /\ Lookup(f.tree, SubSeq(path, 1, have)) # 0
  <2> HIDE DEF have
  <2> QED
    BY <1>2 DEF Exists
<1>m. \A j \in have + 1 .. k : Lookup(f.tree, SubSeq(path, 1, j)) = 0
  <2> HIDE DEF have, k
  <2> SUFFICES ASSUME NEW j \in have + 1 .. k, Lookup(f.tree, SubSeq(path, 1, j)) # 0
               PROVE  FALSE
    OBVIOUS
  <2>1. j \in 0 .. k /\ ~(have >= j)
    BY <1>1, <1>3
  <2>2. Exists(f, SubSeq(path, 1, j))
    BY DEF Exists
  <2> QED
    BY <1>2, <2>1, <2>2
<1> HIDE DEF have
<1>4. CASE ~IsDir(InodeAt(f, Lookup(f.tree, SubSeq(path, 1, have))))
  BY <1>4 DEF MakeParents, have
<1>5. CASE IsDir(InodeAt(f, Lookup(f.tree, SubSeq(path, 1, have))))
  <2>1. MakeParents(f, path) = Making!Fold(path, f, order)
    BY <1>5 DEF MakeParents, have, Making!Fold, MakeOneOf, FoldLeft, MapThenFoldSet, Max,
                Making!Largest
  <2>2. k - have \in Nat /\ DOMAIN order = 1 .. k - have
    BY <1>1, <1>3
  <2>3. PICK g : Making!Trace(path, f, k - have, order, g)
    <3> HIDE DEF order, k
    <3> QED
      BY <2>2, Making!FoldTrace
  <2>4. /\ g[0] = f /\ Making!Fold(path, f, order) = g[k - have]
        /\ \A m \in 1 .. k - have : g[m] = MakeOneOf(path, g[m - 1], order[m])
    BY <2>3 DEF Making!Trace
  <2> DEFINE Good(m) == /\ SoundFormatter(g[m])
                        /\ g[m].err = "" => Lookup(g[m].tree, SubSeq(path, 1, have + m)) # 0
             P == {m \in 0 .. k - have : Good(m)}
  <2>i. \A m \in 0 .. k - have : m \in P <=> Good(m)
    <3> HIDE DEF Good, k
    <3> QED
      OBVIOUS
  <2>5. 0 \in P
    <3>1. have + 0 = have
      BY <1>3
    <3>2. Good(0)
      BY <1>3, <2>4, <3>1
    <3> HIDE DEF Good
    <3> QED
      BY <2>2, <3>2
  <2>6. ASSUME NEW m \in 1 .. k - have, m - 1 \in P PROVE m \in P
    <3>1. /\ have + m \in 1 .. Len(path) /\ have + (m - 1) = have + m - 1
          /\ order[m] = have + m
      BY <1>1, <1>3
    <3>2. g[m] = MakeOneOf(path, g[m - 1], have + m)
      <4> HIDE DEF order
      <4> QED
        BY <2>4, <3>1
    <3>3. Good(m - 1)
      <4> HIDE DEF Good
      <4> QED
        BY <2>6
    <3> DEFINE h == g[m - 1]
               x == have + m
             y == have + (m - 1)
    <3>y. y = x - 1
      BY <1>1, <1>3
    <3> HIDE DEF y, order
    <3>4. /\ SoundFormatter(h) /\ x \in 1 .. Len(path)
          /\ h.err = "" => Lookup(h.tree, SubSeq(path, 1, x - 1)) # 0
      BY <3>1, <3>3, <3>y DEF y
    <3>5. g[m] = MakeOneOf(path, h, x)
      BY <3>2
    <3> HIDE DEF h, x
    <3>s. SoundFormatter(MakeOneOf(path, h, x))
          /\ (MakeOneOf(path, h, x).err = "" =>
                Lookup(MakeOneOf(path, h, x).tree, SubSeq(path, 1, x)) # 0)
      BY <3>4, MakeOneSound
    <3>6. SoundFormatter(g[m]) /\ (g[m].err = "" => Lookup(g[m].tree, SubSeq(path, 1, x)) # 0)
      BY <3>5, <3>s
    <3>7. Good(m)
      BY <3>6 DEF x
    <3> HIDE DEF Good
    <3> QED
      BY <3>7
  <2>7. 0 .. k - have \subseteq P
    <3> HIDE DEF P, k
    <3> QED
      BY <2>2, <2>5, <2>6, Making!Upwards
  <2>8. Good(k - have)
    <3> HIDE DEF Good
    <3> QED
      BY <2>2, <2>7
  <2>9. SubSeq(path, 1, have + (k - have)) = Front(path)
    <3>1. have + (k - have) = Len(path) - 1
      BY <1>1, <1>3
    <3> QED
      BY <3>1 DEF Front
  <2>10. ASSUME NEW m \in 1 .. k - have
         PROVE  SoundFormatter(g[m - 1]) /\ MadeFrom(g[m], g[m - 1], path)
    <3>1. /\ have + m \in 1 .. Len(path) /\ have + (m - 1) = have + m - 1
          /\ order[m] = have + m /\ m - 1 \in 0 .. k - have
      BY <1>1, <1>3
    <3>2. g[m] = MakeOneOf(path, g[m - 1], have + m)
      <4> HIDE DEF order
      <4> QED
        BY <2>4, <3>1
    <3>3. Good(m - 1)
      <4> HIDE DEF Good, P
      <4> QED
        BY <2>i, <2>7, <3>1
    <3> DEFINE h == g[m - 1]
               x == have + m
               y == have + (m - 1)
    <3>y. y = x - 1
      BY <1>1, <1>3
    <3> HIDE DEF y, order
    <3>4. /\ SoundFormatter(h) /\ x \in 1 .. Len(path)
          /\ h.err = "" => Lookup(h.tree, SubSeq(path, 1, x - 1)) # 0
      BY <3>1, <3>3, <3>y DEF y
    <3>5. g[m] = MakeOneOf(path, h, x)
      BY <3>2
    <3> HIDE DEF h, x
    <3>6. MadeFrom(g[m], h, path)
      BY <3>4, <3>5, MakeOneMade
    <3> QED
      BY <3>4, <3>6 DEF h
  <2>12. \A m \in 1 .. k - have : g[m] = MakeOneOf(path, g[m - 1], have + m)
    <3>1. \A m \in 1 .. k - have : order[m] = have + m
      OBVIOUS
    <3> HIDE DEF order, k
    <3> QED
      BY <2>4, <3>1
  <2>13. MadeBelow(f, path, have, k - have, g)
    BY <1>3, <1>5, <1>m, <2>12 DEF MadeBelow
  <2>11. ParentsMade(f, path, k - have, g)
    <3>1. SoundFormatter(g[k - have])
          /\ (g[k - have].err = "" => Lookup(g[k - have].tree, Front(path)) # 0)
      BY <2>8, <2>9
    <3> HIDE DEF k, Good
    <3> QED
      BY <2>2, <2>4, <2>10, <2>13, <3>1 DEF ParentsMade
  <2> QED
    BY <2>1, <2>4, <2>11
<1> QED
  BY <1>4, <1>5

\* The parent of path is there when its parents were made.
LEMMA MakeParentsSound ==
  ASSUME NEW S, NEW path \in Seq(S), path # <<>>, NEW f, SoundFormatter(f)
  PROVE  LET g == MakeParents(f, path)
         IN /\ SoundFormatter(g)
            /\ g.err = "" => Lookup(g.tree, Front(path)) # 0
PROOF
<1> DEFINE h == MakeParents(f, path)
<1>1. \/ h = Fails(f, "NotDirectory")
      \/ \E n, g : ParentsMade(f, path, n, g) /\ h = g[n]
  BY MakeParentsSteps
<1> HIDE DEF h
<1>2. CASE h = Fails(f, "NotDirectory")
  BY <1>2 DEF Fails, SoundFormatter, h
<1>3. CASE \E n, g : ParentsMade(f, path, n, g) /\ h = g[n]
  BY <1>3 DEF ParentsMade, h
<1> QED
  BY <1>1, <1>2, <1>3

\* create()
LEMMA CreateSound ==
  ASSUME NEW S, NEW path \in Seq(S), NEW f, SoundFormatter(f), NEW e,
         path # <<>> \/ e.kind = "dir"
  PROVE  SoundFormatter(Create(f, path, e))
PROOF
<1> DEFINE i == Lookup(f.tree, path)
           over == i # 0 /\ IsDir(InodeAt(f, i))
           g == MakeParents(Unlink(f, path, FALSE), path)
<1>1. CASE e.kind = "dir" /\ over
  <2>1. Create(f, path, e) = Restate(f, i, e)
    BY <1>1 DEF Create
  <2> QED
    BY <2>1 DEF Restate, SoundFormatter
<1>2. CASE e.kind = "dir" /\ ~over /\ i # 0
  <2>1. Create(f, path, e) = Fails(f, "NotDirectory")
    BY <1>2 DEF Create
  <2> QED
    BY <2>1 DEF Fails, SoundFormatter
<1>3. CASE /\ ~(e.kind = "dir" /\ i # 0)
           /\ over /\ e.kind # "symlink" /\ f.tree.nodes[i].link = 0
  <2>1. Create(f, path, e) = Fails(f, "NotFile")
    BY <1>3 DEF Create
  <2> QED
    BY <2>1 DEF Fails, SoundFormatter
<1>4. CASE /\ ~(e.kind = "dir" /\ i # 0)
           /\ ~(over /\ e.kind # "symlink" /\ f.tree.nodes[i].link = 0)
  <2>1. path # <<>>
    <3>1. path = <<>> => i = Root
      BY LookupNode DEF SoundFormatter
    <3> QED
      BY <1>4, <3>1 DEF Root
  <2>2. SoundFormatter(Unlink(f, path, FALSE))
    BY <2>1, UnlinkSound
  <2>3. SoundFormatter(g) /\ (g.err = "" => Lookup(g.tree, Front(path)) # 0)
    BY <2>1, <2>2, MakeParentsSound
  <2> HIDE DEF g
  <2>4. CASE g.err # ""
    <3>1. Create(f, path, e) = g
      BY <1>4, <2>4 DEF Create, g
    <3> QED
      BY <2>3, <3>1
  <2>5. CASE g.err = ""
    <3>1. Create(f, path, e) = Add(g, Lookup(g.tree, Front(path)), Last(path), e)
      BY <1>4, <2>5 DEF Create, g
    <3>2. Lookup(g.tree, Front(path)) \in DOMAIN g.tree.nodes
      <4>1. Front(path) \in Seq(S)
        BY <2>1, FrontIs
      <4> QED
        BY <4>1, <2>3, <2>5, LookupNode DEF SoundFormatter
    <3> QED
      BY <2>3, <3>1, <3>2, AddSound DEF Grown
  <2> QED
    BY <2>4, <2>5
<1> QED
  BY <1>1, <1>2, <1>3, <1>4

\* link()
LEMMA LinkSound ==
  ASSUME NEW S, NEW path \in Seq(S), path # <<>>, NEW target, NEW f, SoundFormatter(f)
  PROVE  SoundFormatter(Link(f, path, target))
PROOF
<1> DEFINE i == Lookup(f.tree, target)
           ino == f.tree.nodes[i].inode
           h == [f EXCEPT !.inodes[ino].links = @ + 1]
           g == Unlink(h, path, FALSE)
           p == Lookup(g.tree, Front(path))
<1>1. SoundFormatter(h)
  BY DEF SoundFormatter
<1>2. SoundFormatter(g)
  <2> HIDE DEF h
  <2> QED
    BY <1>1, UnlinkSound
<1>3. ASSUME NEW x, SoundFormatter(x), NEW why PROVE SoundFormatter(Fails(x, why))
  BY <1>3 DEF Fails, SoundFormatter
<1>4. CASE \/ i = 0 \/ IsDir(InodeAt(f, i)) \/ p = 0 \/ InodeAt(g, p).links >= MaxLinks
  <2>1. \E why : Link(f, path, target) = Fails(f, why) \/ Link(f, path, target) = Fails(g, why)
    <3> HIDE DEF g, p, i, ino
    <3> QED
      BY <1>4 DEF Link, g, h, p, i, ino
  <2> HIDE DEF g
  <2> QED
    BY <1>2, <1>3, <2>1
<1>5. CASE ~ \/ i = 0 \/ IsDir(InodeAt(f, i)) \/ p = 0 \/ InodeAt(g, p).links >= MaxLinks
  <2> DEFINE u == AddChild(g.tree, p, Node(RootInode, Last(path), {}, ino))
  <2>1. Link(f, path, target) = [g EXCEPT !.tree = u]
    BY <1>5 DEF Link
  <2>2. p \in DOMAIN g.tree.nodes
    <3>1. Front(path) \in Seq(S)
      BY FrontIs
    <3> HIDE DEF g
    <3> QED
      BY <1>2, <1>5, <3>1, LookupNode DEF SoundFormatter
  <2>3. Sound(u)
    <3> HIDE DEF g, p, ino
    <3> QED
      BY <1>2, <2>2, AddChildSound DEF SoundFormatter
  <2> HIDE DEF u, g
  <2> QED
    BY <1>2, <2>1, <2>3 DEF SoundFormatter
<1> QED
  BY <1>4, <1>5

\* with_options()
LEMMA NewFormatterSound ==
  ASSUME NEW b
  PROVE  SoundFormatter(NewFormatter(b))
PROOF
<1> DEFINE f == [tree |-> NewTree(RootInode),
          inodes |-> [n \in 1 .. FirstInode - 1 |->
                        IF n = RootInode THEN RootDir ELSE Unused],
          disk |-> <<>>, cur |-> b, deleted |-> {}, deferred |-> <<>>,
          err |-> ""]
           e == [Implied EXCEPT !.mode = "0700", !.time = "epoch"]
<1>1. SoundFormatter(f)
  BY NewTreeSound DEF SoundFormatter
<1>2. NewFormatter(b) = Create(f, <<LostFound>>, e)
  BY DEF NewFormatter
<1> DEFINE path == <<LostFound>>
           S == {LostFound}
<1>3. path \in Seq(S) /\ path # <<>>
  OBVIOUS
<1> HIDE DEF f, e, path, S
<1>4. SoundFormatter(Create(f, path, e))
  BY <1>1, <1>3, CreateSound
<1> QED
  BY <1>2, <1>4 DEF path

\* One level more of the walk.
DeeperIn(t, w, d) ==
  LET Below(i) == IF t.nodes[i].link # 0 THEN <<>> ELSE Children(t, i)
      next == FlattenSeq([k \in DOMAIN w.level |-> Below(w.level[k])])
  IN [order |-> w.order \o next, level |-> next]
Deepening == INSTANCE Folding WITH Op <- DeeperIn

\* The walk is a sequence of nodes.
LEMMA WalkNodes ==
  ASSUME NEW t, Sound(t)
  PROVE  Walk(t) \in Seq(DOMAIN t.nodes)
PROOF
<1> DEFINE D == DOMAIN t.nodes
           first == [order |-> <<Root>>, level |-> <<Root>>]
           Good(w) == w.order \in Seq(D) /\ w.level \in Seq(D)
<1>1. Walk(t) = Deepening!Fold(t, first, t.nodes).order
  BY DEF Walk, Deepening!Fold, DeeperIn, FoldLeft, MapThenFoldSet, Max,
         Deepening!Largest
<1>2. Len(t.nodes) \in Nat /\ D = 1 .. Len(t.nodes)
  BY NodesOf
<1>3. PICK g : Deepening!Trace(t, first, Len(t.nodes), t.nodes, g)
  BY <1>2, Deepening!FoldTrace
<1>4. /\ g[0] = first /\ Deepening!Fold(t, first, t.nodes) = g[Len(t.nodes)]
      /\ \A m \in 1 .. Len(t.nodes) : g[m] = DeeperIn(t, g[m - 1], t.nodes[m])
  BY <1>3 DEF Deepening!Trace
<1> DEFINE P == {m \in 0 .. Len(t.nodes) : Good(g[m])}
<1>5. 0 \in P
  <2>1. Root \in D
    BY DEF Sound
  <2>2. Good(first)
    <3> HIDE DEF D
    <3> QED
      BY <2>1
  <2> HIDE DEF Good, first
  <2> QED
    BY <1>2, <1>4, <2>2
<1>6. ASSUME NEW m \in 1 .. Len(t.nodes), m - 1 \in P PROVE m \in P
  <2> DEFINE w == g[m - 1]
             Below(i) == IF t.nodes[i].link # 0 THEN <<>> ELSE Children(t, i)
             next == FlattenSeq([k \in DOMAIN w.level |-> Below(w.level[k])])
  <2>1. g[m] = DeeperIn(t, w, t.nodes[m])
    BY <1>4
  <2>2. Good(w)
    <3> HIDE DEF Good
    <3> QED
      BY <1>6
  <2>3. g[m] = [order |-> w.order \o next, level |-> next]
    BY <2>1 DEF DeeperIn
  <2> HIDE DEF w
  <2>4. ASSUME NEW i \in D PROVE Below(i) \in Seq(D)
    <3>1. /\ Children(t, i) \in Seq(Nat)
          /\ \A k \in DOMAIN Children(t, i) : Children(t, i)[k] \in D
      BY NodesOf
    <3> DEFINE c == Children(t, i)
    <3>2. c \in Seq(D)
      <4> HIDE DEF c, D
      <4>1. c \in Seq(Nat) /\ \A k \in DOMAIN c : c[k] \in D
        BY <3>1 DEF c
      <4> QED
        BY <4>1
    <3> HIDE DEF D
    <3> QED
      BY <3>2
  <2>5. [k \in DOMAIN w.level |-> Below(w.level[k])] \in Seq(Seq(D))
    <3> HIDE DEF D, Below
    <3>1. w.level \in Seq(D)
      BY <2>2
    <3> DEFINE l == w.level
    <3>2. /\ Len(l) \in Nat /\ DOMAIN l = 1 .. Len(l)
          /\ \A k \in 1 .. Len(l) : Below(l[k]) \in Seq(D)
      BY <2>4, <3>1
    <3> HIDE DEF l
    <3>3. [k \in 1 .. Len(l) |-> Below(l[k])] \in Seq(Seq(D))
      BY <3>2
    <3> QED
      BY <3>2, <3>3 DEF l
  <2>6. next \in Seq(D)
    <3> HIDE DEF D, Below
    <3> QED
      BY <2>5, FlattenType
  <2> HIDE DEF next
  <2>7. w.order \o next \in Seq(D)
    <3> HIDE DEF D
    <3> QED
      BY <2>2, <2>6, ConcatProperties
  <2>8. Good(g[m])
    <3> HIDE DEF D
    <3> QED
      BY <2>3, <2>6, <2>7
  <2> HIDE DEF Good
  <2> QED
    BY <2>8
<1>7. 0 .. Len(t.nodes) \subseteq P
  <2> HIDE DEF P
  <2> QED
    BY <1>2, <1>5, <1>6, Deepening!Upwards
<1>8. Good(g[Len(t.nodes)])
  <2> HIDE DEF Good
  <2> QED
    BY <1>2, <1>7
<1> HIDE DEF D
<1> QED
  BY <1>1, <1>4, <1>8 DEF D

\* Writing a directory changes only the blocks of its node.
LEMMA CommitDirectorySound ==
  ASSUME NEW f, SoundFormatter(f), NEW i
  PROVE  SoundFormatter(CommitDirectory(f, i))
PROOF
<1> DEFINE g == CommitDirectory(f, i)
<1>1. CASE g = f
  BY <1>1
<1>2. CASE g # f
  <2>1. PICK blocks, ino, root, x, b :
          g = [Write(f, blocks) EXCEPT
                 !.inodes[ino].root = root, !.inodes[ino].size = x,
                 !.tree.nodes[i].blocks = b]
    BY <1>2 DEF CommitDirectory
  <2> DEFINE h == Write(f, blocks)
  <2>2. h.tree = f.tree /\ DOMAIN h = DOMAIN f
    BY DEF Write, SoundFormatter
  <2> HIDE DEF h
  <2>3. g.tree = [f.tree EXCEPT !.nodes[i].blocks = b] /\ DOMAIN g = DOMAIN f
    <3>1. g = [h EXCEPT !.inodes[ino].root = root, !.inodes[ino].size = x,
                        !.tree.nodes[i].blocks = b]
      BY <2>1 DEF h
    <3> HIDE DEF g
    <3> QED
      BY <2>2, <3>1 DEF SoundFormatter
  <2> HIDE DEF g
  <2>4. Sound([f.tree EXCEPT !.nodes[i].blocks = b])
    BY BlocksSound DEF SoundFormatter
  <2> QED
    BY <2>3, <2>4 DEF SoundFormatter, g
<1> QED
  BY <1>1, <1>2

\* The same as a step of a fold.
CommitIn(c, f, i) == CommitDirectory(f, i)
Committing == INSTANCE Folding WITH Op <- CommitIn

\* commit_directories()
LEMMA CommitSound ==
  ASSUME NEW f, SoundFormatter(f)
  PROVE  SoundFormatter(CommitDirectories(f))
PROOF
<1> DEFINE order == Walk(f.tree)
<1>1. CommitDirectories(f) = Committing!Fold(f, f, order)
  BY DEF CommitDirectories, Committing!Fold, CommitIn, FoldLeft, MapThenFoldSet, Max,
         Committing!Largest
<1>2. Len(order) \in Nat /\ DOMAIN order = 1 .. Len(order)
  <2>1. order \in Seq(DOMAIN f.tree.nodes)
    BY WalkNodes DEF SoundFormatter
  <2> HIDE DEF order
  <2> QED
    BY <2>1
<1> HIDE DEF order
<1>3. PICK g : Committing!Trace(f, f, Len(order), order, g)
  BY <1>2, Committing!FoldTrace
<1>4. /\ g[0] = f /\ Committing!Fold(f, f, order) = g[Len(order)]
      /\ \A m \in 1 .. Len(order) : g[m] = CommitDirectory(g[m - 1], order[m])
  BY <1>3 DEF Committing!Trace, CommitIn
<1> DEFINE P == {m \in 0 .. Len(order) : SoundFormatter(g[m])}
<1>5. 0 \in P
  BY <1>2, <1>4
<1>6. ASSUME NEW m \in 1 .. Len(order), m - 1 \in P PROVE m \in P
  BY <1>4, <1>6, CommitDirectorySound
<1>7. 0 .. Len(order) \subseteq P
  <2> HIDE DEF P
  <2> QED
    BY <1>2, <1>5, <1>6, Committing!Upwards
<1> QED
  BY <1>1, <1>2, <1>4, <1>7

-----------------------------------------------------------------------------
(* The making of an image.                                                 *)

Paths == Seq(DOMAIN NameBytes)
Links(T) == [link : Paths \ {<<>>}, target : T]

\* The formatter's tree is sound, and so are the links that are put off.
TreeInv ==
  /\ SoundFormatter(fmt)
  /\ \E T : pending \in Seq(Links(T))

\* An entry has a path, and in a layer the root is only ever a directory.
LEMMA EntryPath ==
  ASSUME NEW e, e \in Entries[source], source \in DOMAIN Entries
  PROVE  /\ e.path \in Paths
         /\ source # "tar" /\ e.path = <<>> =>
              e.type \notin {"file", "symlink", "hardlink", "whiteout"}
  BY ImportAssumption DEF Paths

\* A link put off is one more.
LEMMA OneMoreLink ==
  ASSUME NEW links, NEW T, links \in Seq(Links(T)), NEW path \in Paths, path # <<>>, NEW target
  PROVE  \E U : Append(links, [link |-> path, target |-> target]) \in Seq(Links(U))
PROOF
<1> DEFINE U == T \cup {target}
           l == [link |-> path, target |-> target]
<1>1. Links(T) \subseteq Links(U) /\ l \in Links(U)
  BY DEF Links
<1> HIDE DEF U, l
<1>2. links \in Seq(Links(U))
  BY <1>1
<1>3. Append(links, l) \in Seq(Links(U))
  BY <1>1, <1>2, AppendProperties
<1> QED
  BY <1>3 DEF l

\* Whatever becomes of the targets, the links stay links.
LEMMA OtherTargets ==
  ASSUME NEW links, NEW T, links \in Seq(Links(T)),
         NEW more, more = [i \in DOMAIN links |-> more[i]],
         \A i \in DOMAIN links : more[i] = [link |-> links[i].link, target |-> more[i].target]
  PROVE  \E U : more \in Seq(Links(U))
PROOF
<1> DEFINE U == {more[i].target : i \in DOMAIN links}
<1>1. Len(links) \in Nat /\ DOMAIN links = 1 .. Len(links)
  OBVIOUS
<1>2. ASSUME NEW i \in 1 .. Len(links) PROVE more[i] \in Links(U)
  <2>1. links[i] \in Links(T) /\ more[i].target \in U
    BY <1>1
  <2>2. more[i] = [link |-> links[i].link, target |-> more[i].target]
    BY <1>1
  <2> HIDE DEF U
  <2> QED
    BY <2>1, <2>2 DEF Links
<1> HIDE DEF U
<1>3. [i \in 1 .. Len(links) |-> more[i]] \in Seq(Links(U))
  BY <1>1, <1>2
<1> QED
  BY <1>1, <1>3

\* A link that is made is put off no longer.
LEMMA OneLinkLess ==
  ASSUME NEW R, NEW links \in Seq(R), NEW i \in DOMAIN links
  PROVE  RemoveAt(links, i) \in Seq(R)
PROOF
<1>1. /\ Len(links) \in Nat /\ i \in 1 .. Len(links)
      /\ \A j \in 1 .. Len(links) : links[j] \in R
  OBVIOUS
<1>2. SubSeq(links, 1, i - 1) \in Seq(R)
  <2>1. \A j \in 1 .. i - 1 : links[j] \in R
    BY <1>1
  <2> QED
    BY <1>1, <2>1, SubSeqProperties
<1>3. SubSeq(links, i + 1, Len(links)) \in Seq(R)
  <2>1. \A j \in i + 1 .. Len(links) : links[j] \in R
    BY <1>1
  <2> QED
    BY <1>1, <2>1, SubSeqProperties
<1> QED
  BY <1>2, <1>3, ConcatProperties DEF RemoveAt

\* The new formatter.
LEMMA TreeInvInit == Init => TreeInv
PROOF
<1> SUFFICES ASSUME Init PROVE TreeInv
  OBVIOUS
<1>1. SoundFormatter(fmt)
  BY NewFormatterSound DEF Init
<1>2. pending \in Seq(Links({}))
  BY DEF Init
<1> QED
  BY <1>1, <1>2 DEF TreeInv

\* A directory, a file or a symlink.
LEMMA MakeSound ==
  ASSUME TreeInv, source \in DOMAIN Entries, NEW e, Make(e), source = "tar" => e.path # <<>>
  PROVE  TreeInv'
PROOF
<1>1. e \in Entries[source] /\ e.type \in {"dir", "file", "symlink"}
  BY DEF Make, Read
<1>2. e.path \in Paths /\ (e.path = <<>> => e.type = "dir")
  BY <1>1, EntryPath
<1>3. fmt' = Create(fmt, e.path, Told(e, Len(seen) + 1)) /\ pending' = pending
  BY DEF Make, Take
<1> DEFINE told == Told(e, Len(seen) + 1)
           path == e.path
<1>4. told.kind = e.type
  BY DEF Told
<1> HIDE DEF told
<1>5. SoundFormatter(Create(fmt, path, told))
  <2>1. path \in Seq(DOMAIN NameBytes) /\ SoundFormatter(fmt)
    BY <1>2 DEF Paths, TreeInv
  <2>2. path # <<>> \/ told.kind = "dir"
    BY <1>2, <1>4
  <2> HIDE DEF path
  <2> QED
    BY <2>1, <2>2, CreateSound
<1> QED
  BY <1>3, <1>5 DEF TreeInv, told

\* Every step of write_ext4_from_tar().
LEMMA TreeInvTar == TreeInv /\ source \in DOMAIN Entries /\ ImportTar => TreeInv'
PROOF
<1> SUFFICES ASSUME TreeInv, source \in DOMAIN Entries, ImportTar PROVE TreeInv'
  OBVIOUS
<1>s. SoundFormatter(fmt)
  BY DEF TreeInv
<1>1. ASSUME NEW e \in Entries[source], SkipEntry(e) \/ RefuseEntry(e) \/ SkipSpecial(e)
      PROVE  TreeInv'
  BY <1>1 DEF SkipEntry, RefuseEntry, SkipSpecial, TreeInv
<1>2. ASSUME NEW e \in Entries[source], MakeEntry(e) PROVE TreeInv'
  BY <1>2, MakeSound DEF MakeEntry
<1>3. ASSUME NEW e \in Entries[source], DeferLink(e) PROVE TreeInv'
  <2>1. e.path \in Paths /\ e.path # <<>>
    BY <1>3, EntryPath DEF DeferLink
  <2>2. PICK T : pending \in Seq(Links(T))
    BY DEF TreeInv
  <2>3. \E U : Append(pending, [link |-> e.path, target |-> e.target]) \in Seq(Links(U))
    BY <2>1, <2>2, OneMoreLink
  <2> QED
    BY <1>3, <2>2, <2>3 DEF DeferLink, TreeInv
<1>4. CASE EndOfArchive
  BY <1>4 DEF EndOfArchive, TreeInv
<1>5. CASE MakeLink
  <2>1. PICK T : pending \in Seq(Links(T))
    BY DEF TreeInv
  <2>2. pending # <<>> /\ pending' = Tail(pending)
    BY <1>5 DEF MakeLink
  <2>3. Head(pending) \in Links(T) /\ Tail(pending) \in Seq(Links(T))
    BY <2>1, <2>2
  <2> DEFINE path == Head(pending).link
             target == Head(pending).target
  <2>4. path \in Seq(DOMAIN NameBytes) /\ path # <<>>
    BY <2>3 DEF Links, Paths
  <2>5. fmt' = Link(fmt, path, target)
    BY <1>5 DEF MakeLink, Take
  <2> HIDE DEF path, target
  <2>6. SoundFormatter(Link(fmt, path, target))
    BY <1>s, <2>4, LinkSound
  <2> QED
    BY <2>2, <2>3, <2>5, <2>6 DEF TreeInv
<1> QED
  BY <1>1, <1>2, <1>3, <1>4, <1>5 DEF ImportTar

\* Every step of unpack_tar().
LEMMA TreeInvLayers == TreeInv /\ source \in DOMAIN Entries /\ UnpackLayers => TreeInv'
PROOF
<1> SUFFICES ASSUME TreeInv, source \in DOMAIN Entries, UnpackLayers PROVE TreeInv'
  OBVIOUS
<1>s. SoundFormatter(fmt)
  BY DEF TreeInv
<1>t. PICK T : pending \in Seq(Links(T))
  BY DEF TreeInv
<1>1. ASSUME NEW e \in Entries[source], Whiteout(e) PROVE TreeInv'
  <2> DEFINE path == e.path
             opaque == e.type = "opaque"
  <2>1. fmt' = Unlink(fmt, path, opaque) /\ pending' = pending
    BY <1>1 DEF Whiteout, Take
  <2>2. path \in Seq(DOMAIN NameBytes) /\ (path # <<>> \/ opaque)
    BY <1>1, EntryPath DEF Whiteout, Paths
  <2>3. opaque \in BOOLEAN
    OBVIOUS
  <2> HIDE DEF path, opaque
  <2>4. SoundFormatter(Unlink(fmt, path, opaque))
    BY <1>s, <2>2, <2>3, UnlinkSound
  <2> QED
    BY <2>1, <2>4 DEF TreeInv
<1>2. ASSUME NEW e \in Entries[source], SkipLayerEntry(e) PROVE TreeInv'
  BY <1>2 DEF SkipLayerEntry, TreeInv
<1>3. ASSUME NEW e \in Entries[source], MakeLayerEntry(e) PROVE TreeInv'
  BY <1>3, MakeSound DEF MakeLayerEntry
<1>4. ASSUME NEW e \in Entries[source], KeepLink(e) PROVE TreeInv'
  <2>1. e.path \in Paths /\ e.path # <<>>
    BY <1>4, EntryPath DEF KeepLink
  <2>2. fmt' = fmt
    BY <1>4 DEF KeepLink
  <2>3. CASE LinksAt(pending, e.path) = {}
    <3>1. pending' = Append(pending, [link |-> e.path, target |-> e.target])
      BY <1>4, <2>3 DEF KeepLink
    <3>2. \E U : Append(pending, [link |-> e.path, target |-> e.target]) \in Seq(Links(U))
      BY <1>t, <2>1, OneMoreLink
    <3> QED
      BY <1>s, <2>2, <3>1, <3>2 DEF TreeInv
  <2>4. CASE LinksAt(pending, e.path) # {}
    <3> DEFINE at == LinksAt(pending, e.path)
               more == [i \in DOMAIN pending |->
                          IF i \in at THEN [pending[i] EXCEPT !.target = e.target]
                          ELSE pending[i]]
    <3>1. pending' = more
      BY <1>4, <2>4 DEF KeepLink
    <3>2. \A i \in DOMAIN pending :
            more[i] = [link |-> pending[i].link, target |-> more[i].target]
      <4> SUFFICES ASSUME NEW i \in DOMAIN pending
                   PROVE  more[i] = [link |-> pending[i].link, target |-> more[i].target]
        OBVIOUS
      <4>1. pending[i] \in Links(T)
        BY <1>t
      <4> HIDE DEF at
      <4> QED
        BY <4>1 DEF Links
    <3>3. more = [i \in DOMAIN pending |-> more[i]]
      <4> HIDE DEF at
      <4> QED
        OBVIOUS
    <3> HIDE DEF more
    <3>4. \E U : more \in Seq(Links(U))
      BY <1>t, <3>2, <3>3, OtherTargets
    <3> QED
      BY <1>s, <2>2, <3>1, <3>4 DEF TreeInv
  <2> QED
    BY <2>3, <2>4
<1>5. CASE EndOfLayer
  <2> DEFINE more == [i \in DOMAIN pending |->
                        [pending[i] EXCEPT !.target = Resolved(pending, @)]]
  <2>1. fmt' = fmt /\ pending' = more
    BY <1>5 DEF EndOfLayer
  <2>2. \A i \in DOMAIN pending :
          more[i] = [link |-> pending[i].link, target |-> more[i].target]
    <3> SUFFICES ASSUME NEW i \in DOMAIN pending
                 PROVE  more[i] = [link |-> pending[i].link, target |-> more[i].target]
      OBVIOUS
    <3>1. pending[i] \in Links(T)
      BY <1>t
    <3> QED
      BY <3>1 DEF Links
  <2>3. more = [i \in DOMAIN pending |-> more[i]]
    OBVIOUS
  <2> HIDE DEF more
  <2>4. \E U : more \in Seq(Links(U))
    BY <1>t, <2>2, <2>3, OtherTargets
  <2> QED
    BY <1>s, <2>1, <2>4 DEF TreeInv
<1>6. CASE MakeAnyLink
  <2>1. PICK i \in DOMAIN pending :
          /\ fmt' = Link(fmt, pending[i].link, pending[i].target)
          /\ pending' = RemoveAt(pending, i)
    BY <1>6 DEF MakeAnyLink, Take
  <2> DEFINE path == pending[i].link
             target == pending[i].target
  <2>2. pending[i] \in Links(T) /\ pending' \in Seq(Links(T))
    BY <1>t, <2>1, OneLinkLess
  <2>3. path \in Seq(DOMAIN NameBytes) /\ path # <<>>
    BY <2>2 DEF Links, Paths
  <2>4. fmt' = Link(fmt, path, target)
    BY <2>1
  <2> HIDE DEF path, target
  <2>5. SoundFormatter(Link(fmt, path, target))
    BY <1>s, <2>3, LinkSound
  <2> QED
    BY <2>2, <2>4, <2>5 DEF TreeInv
<1>7. CASE NextLayer
  BY <1>7 DEF NextLayer, TreeInv
<1> QED
  BY <1>1, <1>2, <1>3, <1>4, <1>5, <1>6, <1>7 DEF UnpackLayers

\* The index of the tree finds what a scan would, in every state of the making
\* of an image from any archive, and every child is listed after its parent.
THEOREM TreeStaysIndexed == Spec => []TreeIndexed
PROOF
<1> DEFINE Inv == source \in DOMAIN Entries /\ TreeInv
<1>1. Init => Inv
  BY TreeInvInit DEF Init
<1>2. Inv /\ [Next]_vars => Inv'
  <2> SUFFICES ASSUME Inv, [Next]_vars PROVE Inv'
    OBVIOUS
  <2>1. CASE ImportTar
    <3>1. source' = source
      BY <2>1 DEF ImportTar, SkipEntry, RefuseEntry, SkipSpecial, MakeEntry, Make, DeferLink,
                  EndOfArchive, MakeLink
    <3> QED
      BY <2>1, <3>1, TreeInvTar
  <2>2. CASE UnpackLayers
    <3>1. source' = source
      BY <2>2 DEF UnpackLayers, Whiteout, SkipLayerEntry, MakeLayerEntry, Make, KeepLink,
                  EndOfLayer, MakeAnyLink, NextLayer
    <3> QED
      BY <2>2, <3>1, TreeInvLayers
  <2>3. CASE Close
    <3>1. fmt' = CommitDirectories(fmt) /\ UNCHANGED <<source, pending>>
      BY <2>3 DEF Close
    <3>2. SoundFormatter(CommitDirectories(fmt))
      BY CommitSound DEF TreeInv
    <3> QED
      BY <3>1, <3>2 DEF TreeInv
  <2>4. CASE OpenImage
    BY <2>4 DEF OpenImage, TreeInv
  <2>5. CASE UNCHANGED vars
    BY <2>5 DEF vars, TreeInv
  <2> QED
    BY <2>1, <2>2, <2>3, <2>4, <2>5 DEF Next
<1>3. Inv => TreeIndexed
  BY DEF TreeInv, SoundFormatter, Sound, TreeIndexed
<1> QED
  BY <1>1, <1>2, <1>3, PTL DEF Spec

-----------------------------------------------------------------------------
(* Division.                                                               *)

USE BlockSizeAssumption, MaxLenAssumption

\* What division is.
LEMMA DivMod ==
  ASSUME NEW n \in Nat, NEW d \in Nat \ {0}
  PROVE  /\ n \div d \in Nat
         /\ d * (n \div d) <= n
         /\ n < d * (n \div d) + d
BY Z3

\* And that nothing else is.
LEMMA DivUnique ==
  ASSUME NEW n \in Nat, NEW d \in Nat \ {0}, NEW q \in Nat, d * q <= n, n < d * (q + 1)
  PROVE  n \div d = q
BY Z3

\* Rounding up: n items fill CeilDiv(n, d) boxes of d, and item j is in one.
LEMMA CeilDivBoxes ==
  ASSUME NEW n \in Nat, NEW d \in Nat \ {0}
  PROVE  /\ CeilDiv(n, d) \in Nat
         /\ \A j \in Nat : j < n => j \div d < CeilDiv(n, d)
         /\ \A i \in Nat : i < CeilDiv(n, d) => d * i < n
<1>1. CeilDiv(n, d) \in Nat
  BY Z3 DEF CeilDiv
<1>2. ASSUME NEW j \in Nat, j < n PROVE j \div d < CeilDiv(n, d)
  BY <1>2, Z3 DEF CeilDiv
<1>3. ASSUME NEW i \in Nat, i < CeilDiv(n, d) PROVE d * i < n
  BY <1>3, Z3 DEF CeilDiv
<1>. QED BY <1>1, <1>2, <1>3

-----------------------------------------------------------------------------
(* Extents.                                                                *)

\* Block j of a file is in extent e.
Covers(e, j) == e.block <= j /\ j < e.block + e.len

\* The extent of block j is number j / MaxLen, no other extent has it, and it
\* leads to where the block was written (extent.rs 27-60).
THEOREM ExtentOfBlock ==
  ASSUME NEW start \in Nat, NEW count \in Nat, NEW j \in Nat, j < count
  PROVE  LET leaves == Leaves(start, count)
             i      == j \div MaxLen + 1
         IN /\ i \in DOMAIN leaves
            /\ \A k \in DOMAIN leaves : Covers(leaves[k], j) <=> k = i
            /\ leaves[i].start + (j - leaves[i].block) = start + j
<1> DEFINE leaves == Leaves(start, count)
           i      == j \div MaxLen + 1
           number == CeilDiv(count, MaxLen)
<1>1. /\ j \div MaxLen \in Nat
      /\ MaxLen * (j \div MaxLen) <= j
      /\ j < MaxLen * (j \div MaxLen) + MaxLen
  BY DivMod
<1>2. number \in Nat /\ j \div MaxLen < number
  BY CeilDivBoxes
<1>3. DOMAIN leaves = 1 .. number
  BY DEF Leaves
<1>4. i \in DOMAIN leaves
  BY <1>1, <1>2, <1>3
<1>5. ASSUME NEW k \in DOMAIN leaves
      PROVE  /\ leaves[k].block = (k - 1) * MaxLen
             /\ leaves[k].start = start + (k - 1) * MaxLen
             /\ leaves[k].len = Least(MaxLen, count - (k - 1) * MaxLen)
  BY <1>3, <1>5 DEF Leaves
<1>6. ASSUME NEW k \in DOMAIN leaves, Covers(leaves[k], j) PROVE k = i
  <2>1. k - 1 \in Nat /\ (k - 1) * MaxLen \in Nat /\ k \in Int
    BY <1>2, <1>3, Z3
  <2>2. (k - 1) * MaxLen <= j /\ j < (k - 1) * MaxLen + MaxLen
    BY <1>5, <1>6, <2>1 DEF Covers, Least
  <2>3. MaxLen * (k - 1) <= j /\ j < MaxLen * ((k - 1) + 1)
    BY <2>1, <2>2, Z3
  <2>4. j \div MaxLen = k - 1
    BY <2>1, <2>3, DivUnique
  <2>. QED BY <2>1, <2>4
<1>7. Covers(leaves[i], j) /\ leaves[i].start + (j - leaves[i].block) = start + j
  <2>1. /\ leaves[i].block = (j \div MaxLen) * MaxLen
        /\ leaves[i].start = start + (j \div MaxLen) * MaxLen
        /\ leaves[i].len = Least(MaxLen, count - (j \div MaxLen) * MaxLen)
    <3>1. i - 1 = j \div MaxLen
      BY <1>1
    <3>2. /\ leaves[i].block = (i - 1) * MaxLen
          /\ leaves[i].start = start + (i - 1) * MaxLen
          /\ leaves[i].len = Least(MaxLen, count - (i - 1) * MaxLen)
      BY <1>4, <1>5
    <3> HIDE DEF i, leaves
    <3>. QED BY <3>1, <3>2, Zenon
  <2> DEFINE q == (j \div MaxLen) * MaxLen
  <2>2. q \in Nat /\ q <= j /\ j < q + MaxLen
    BY <1>1, Z3
  <2> HIDE DEF q
  <2>3. /\ leaves[i].block = q /\ leaves[i].start = start + q
        /\ leaves[i].len = Least(MaxLen, count - q)
    BY <2>1 DEF q
  <2>. QED BY <2>2, <2>3 DEF Covers, Least
<1>. QED BY <1>4, <1>6, <1>7

\* Every extent has a length its field can hold, and lies within the blocks
\* that were written for the file.
THEOREM ExtentsFit ==
  ASSUME NEW start \in Nat, NEW count \in Nat,
         NEW i \in DOMAIN Leaves(start, count)
  PROVE  LET e == Leaves(start, count)[i]
         IN /\ e.len \in 1 .. MaxLen
            /\ start <= e.start
            /\ e.start + e.len <= start + count
<1> DEFINE leaves == Leaves(start, count)
           number == CeilDiv(count, MaxLen)
           q      == (i - 1) * MaxLen
<1>1. number \in Nat /\ DOMAIN leaves = 1 .. number
  BY CeilDivBoxes DEF Leaves
<1>2. i - 1 \in Nat /\ i - 1 < number
  BY <1>1
<1>3. q \in Nat /\ q < count
  <2>1. MaxLen * (i - 1) < count
    BY <1>2, CeilDivBoxes
  <2>. QED BY <1>2, <2>1, Z3
<1>4. /\ leaves[i].start = start + q
      /\ leaves[i].len = Least(MaxLen, count - q)
  BY <1>1 DEF Leaves
<1> HIDE DEF q
<1>. QED BY <1>3, <1>4 DEF Least

-----------------------------------------------------------------------------
(* Leaf blocks.                                                            *)

\* A leaf block has room for an extent.
LEMMA PerLeafBlockPositive == PerLeafBlock \in Nat \ {0}
BY Z3 DEF PerLeafBlock

\* No leaf block holds more extents than fit, and extent l is in block
\* (l - 1) / PerLeafBlock, where its place says (extent.rs 153-240).
THEOREM ExtentInLeafBlock ==
  ASSUME NEW S, NEW leaves \in Seq(S), NEW l \in 1 .. Len(leaves)
  PROVE  LET blocks == LeafBlocks(leaves)
             b      == (l - 1) \div PerLeafBlock + 1
             place  == l - (b - 1) * PerLeafBlock
         IN /\ b \in DOMAIN blocks
            /\ place \in 1 .. Len(blocks[b]) /\ Len(blocks[b]) <= PerLeafBlock
            /\ blocks[b][place] = leaves[l]
<1> DEFINE blocks == LeafBlocks(leaves)
           b      == (l - 1) \div PerLeafBlock + 1
           c      == b - 1
           q      == c * PerLeafBlock
           top    == Least(b * PerLeafBlock, Len(leaves))
           number == CeilDiv(Len(leaves), PerLeafBlock)
<1>1. PerLeafBlock \in Nat \ {0} /\ Len(leaves) \in Nat /\ l - 1 \in Nat /\ l - 1 < Len(leaves)
  BY PerLeafBlockPositive
<1>2. /\ (l - 1) \div PerLeafBlock \in Nat
      /\ PerLeafBlock * ((l - 1) \div PerLeafBlock) <= l - 1
      /\ l - 1 < PerLeafBlock * ((l - 1) \div PerLeafBlock) + PerLeafBlock
  BY <1>1, DivMod
<1>3. number \in Nat /\ (l - 1) \div PerLeafBlock < number
  BY <1>1, CeilDivBoxes
<1> HIDE DEF number
<1>4. /\ c = (l - 1) \div PerLeafBlock /\ b = c + 1 /\ c \in Nat /\ c < number
      /\ PerLeafBlock * c <= l - 1
      /\ l - 1 < PerLeafBlock * c + PerLeafBlock
  <2>1. c = (l - 1) \div PerLeafBlock /\ b = c + 1
    BY <1>2
  <2> HIDE DEF b, c
  <2>. QED BY <1>2, <1>3, <2>1
<1> HIDE DEF b
<1>5. DOMAIN blocks = 1 .. number /\ b \in DOMAIN blocks
  BY <1>3, <1>4 DEF LeafBlocks, number
<1>6. blocks[b] = SubSeq(leaves, q + 1, top)
  BY <1>5 DEF LeafBlocks
<1> HIDE DEF c, blocks
<1>7. /\ q \in Nat /\ q <= l - 1 /\ l - 1 < q + PerLeafBlock
      /\ b * PerLeafBlock = q + PerLeafBlock
  BY <1>1, <1>4, Z3
<1> HIDE DEF q
<1>8. top \in Nat /\ l <= top /\ top <= q + PerLeafBlock /\ top <= Len(leaves)
  BY <1>1, <1>7 DEF Least
<1> HIDE DEF top
<1>9. /\ Len(blocks[b]) = top - q
      /\ \A p \in 1 .. top - q : blocks[b][p] = leaves[q + p]
  BY <1>1, <1>6, <1>7, <1>8
<1>10. l - q \in 1 .. top - q /\ q + (l - q) = l
  BY <1>1, <1>7, <1>8
<1>11. /\ b \in DOMAIN blocks
       /\ l - q \in 1 .. Len(blocks[b]) /\ Len(blocks[b]) <= PerLeafBlock
       /\ blocks[b][l - q] = leaves[l]
  BY <1>1, <1>5, <1>7, <1>8, <1>9, <1>10
<1>. QED BY <1>11, Zenon DEF b, c, q, blocks

-----------------------------------------------------------------------------
(* Extents, and the blocks a reader finds by them.                         *)

\* A function on 1 .. n is a sequence of n elements.
LEMMA ListIs ==
  ASSUME NEW n \in Nat, NEW s, s = [k \in 1 .. n |-> s[k]]
  PROVE  s \in Seq({s[k] : k \in 1 .. n}) /\ Len(s) = n /\ DOMAIN s = 1 .. n
PROOF
<1> DEFINE X == {s[k] : k \in 1 .. n}
<1>1. \A k \in 1 .. n : s[k] \in X
  OBVIOUS
<1> HIDE DEF X
<1>2. [k \in 1 .. n |-> s[k]] \in Seq(X)
  BY <1>1
<1>3. s \in Seq(X) /\ DOMAIN s = 1 .. n
  BY <1>2
<1> QED
  BY <1>3 DEF X

\* Two pieces of s make one.
Joined(s, a, b) ==
  [k \in 1 .. a |-> s[k]] \o [j \in 1 .. b |-> s[a + j]] = [k \in 1 .. a + b |-> s[k]]

\* They do, one after the other.
LEMMA TwoPieces ==
  ASSUME NEW s, NEW a \in Nat, NEW b \in Nat
  PROVE  Joined(s, a, b)
PROOF
<1> DEFINE X == {s[k] : k \in Nat}
           u == [k \in 1 .. a |-> s[k]]
           v == [j \in 1 .. b |-> s[a + j]]
           w == [k \in 1 .. a + b |-> s[k]]
<1>1. \A k \in Nat : s[k] \in X
  OBVIOUS
<1> HIDE DEF X
<1>2. u \in Seq(X) /\ Len(u) = a /\ \A k \in 1 .. a : u[k] = s[k]
  BY <1>1
<1>3. v \in Seq(X) /\ Len(v) = b /\ \A k \in 1 .. b : v[k] = s[a + k]
  BY <1>1
<1>4. w \in Seq(X) /\ Len(w) = a + b /\ \A k \in 1 .. a + b : w[k] = s[k]
  <2>1. a + b \in Nat
    OBVIOUS
  <2> QED
    BY <1>1, <2>1
<1> HIDE DEF u, v, w
<1>5. /\ u \o v \in Seq(X) /\ Len(u \o v) = a + b
      /\ \A k \in 1 .. a + b : (u \o v)[k] = IF k <= a THEN u[k] ELSE v[k - a]
  BY <1>2, <1>3, ConcatProperties
<1>6. ASSUME NEW k \in 1 .. a + b PROVE (u \o v)[k] = w[k]
  <2>1. CASE k <= a
    <3>1. k \in 1 .. a
      BY <2>1
    <3>2. (u \o v)[k] = u[k]
      BY <2>1, <1>5
    <3>3. u[k] = s[k]
      BY <1>2, <3>1
    <3> QED
      BY <1>4, <3>2, <3>3
  <2>2. CASE ~(k <= a)
    <3> DEFINE j == k - a
    <3>1. j \in 1 .. b /\ a + j = k
      BY <2>2
    <3>2. (u \o v)[k] = v[j]
      BY <2>2, <1>5
    <3> HIDE DEF j
    <3>3. v[j] = s[a + j]
      BY <3>1, <1>3
    <3> QED
      BY <3>1, <3>2, <3>3, <1>4
  <2> QED
    BY <2>1, <2>2
<1>7. u \o v = w
  BY <1>4, <1>5, <1>6
<1> QED
  BY <1>7 DEF u, v, w, Joined

\* The n pieces of s, the i-th of which ends at P[i].
Cut(seqs, n, P, s) ==
  /\ seqs = [i \in 1 .. n |-> seqs[i]]
  /\ P[0] = 0 /\ \A i \in 1 .. n : P[i] \in Nat /\ P[i - 1] <= P[i]
  /\ \A i \in 1 .. n : seqs[i] = [j \in 1 .. P[i] - P[i - 1] |-> s[P[i - 1] + j]]

\* Pieces cut out of a sequence one after another make it up again.
LEMMA FlattenCut ==
  ASSUME NEW n \in Nat, NEW seqs, NEW P, NEW s, Cut(seqs, n, P, s)
  PROVE  FlattenSeq(seqs) = [k \in 1 .. P[n] |-> s[k]]
PROOF
<1> USE DEF Cut
<1>1. Len(seqs) = n
  BY ListIs
<1>2. CASE n = 0
  <2>1. seqs = <<>>
    BY <1>1, <1>2, ListIs
  <2>2. FlattenSeq(seqs) = <<>>
    BY <2>1 DEF FlattenSeq
  <2>3. P[n] = 0
    BY <1>2
  <2>4. [k \in 1 .. 0 |-> s[k]] = <<>>
    OBVIOUS
  <2> QED
    BY <2>2, <2>3, <2>4
<1>3. CASE n # 0
  <2>1. PICK F : /\ FlattenSeq(seqs) = F[n]
                 /\ F[1] = seqs[1]
                 /\ \A i \in 2 .. n : F[i] = F[i - 1] \o seqs[i]
    <3>1. n \in Nat \ {0}
      BY <1>3
    <3> QED
      BY <1>1, <3>1, FlattenSteps
  <2> DEFINE Upto(m) == [k \in 1 .. P[m] |-> s[k]]
             Q == {m \in 0 .. n : m # 0 => F[m] = Upto(m)}
  <2>2. 0 \in Q
    OBVIOUS
  <2>3. ASSUME NEW m \in 1 .. n, m - 1 \in Q PROVE m \in Q
    <3> DEFINE a == P[m - 1]
               b == P[m] - P[m - 1]
    <3>1. a \in Nat /\ b \in Nat /\ a + b = P[m]
      <4>1. m - 1 = 0 \/ m - 1 \in 1 .. n
        OBVIOUS
      <4>2. P[m - 1] \in Nat
        BY <4>1
      <4> QED
        BY <4>2
    <3>2. seqs[m] = [j \in 1 .. b |-> s[a + j]]
      OBVIOUS
    <3>3. [k \in 1 .. a |-> s[k]] \o seqs[m] = Upto(m)
      <4> HIDE DEF a, b
      <4>0. a \in Nat /\ b \in Nat
        BY <3>1
      <4>j. Joined(s, a, b)
        BY <4>0, TwoPieces
      <4>1. [k \in 1 .. a |-> s[k]] \o [j \in 1 .. b |-> s[a + j]]
              = [k \in 1 .. a + b |-> s[k]]
        BY <4>j DEF Joined
      <4>2. [k \in 1 .. a + b |-> s[k]] = Upto(m)
        BY <3>1
      <4> HIDE DEF Upto
      <4> QED
        BY <3>2, <4>1, <4>2
    <3>4. CASE m = 1
      <4>1. a = 0
        BY <3>4 DEF a
      <4>2. seqs[1] = Upto(1)
        <5> HIDE DEF a, b
        <5>1. b = P[m]
          BY <3>1, <4>1
        <5>2. \A j \in 1 .. b : a + j = j
          BY <3>1, <4>1
        <5> QED
          BY <3>2, <3>4, <5>1, <5>2
      <4>3. F[m] = Upto(m)
        BY <2>1, <3>4, <4>2
      <4> HIDE DEF Upto
      <4> QED
        BY <4>3
    <3>5. CASE m # 1
      <4>1. F[m - 1] = Upto(m - 1)
        <5> HIDE DEF Upto
        <5>1. m - 1 # 0
          BY <3>5
        <5> QED
          BY <2>3, <5>1
      <4>2. F[m - 1] = [k \in 1 .. a |-> s[k]]
        BY <4>1 DEF a
      <4>3. F[m] = F[m - 1] \o seqs[m]
        <5>1. m \in 2 .. n
          BY <3>5
        <5> QED
          BY <2>1, <5>1
      <4>4. F[m] = Upto(m)
        <5> HIDE DEF Upto
        <5> QED
          BY <3>3, <4>2, <4>3
      <4> HIDE DEF Upto
      <4> QED
        BY <4>4
    <3> QED
      BY <3>4, <3>5
  <2>4. 0 .. n \subseteq Q
    <3> HIDE DEF Q
    <3> QED
      BY <2>2, <2>3, Steps!Upwards
  <2>5. F[n] = Upto(n)
    <3> HIDE DEF Upto
    <3> QED
      BY <1>3, <2>4
  <2> QED
    BY <2>1, <2>5
<1> QED
  BY <1>2, <1>3

\* Where the pieces of length d of n things begin and end.
LEMMA CutPoints ==
  ASSUME NEW n \in Nat, NEW d \in Nat \ {0}
  PROVE  /\ CeilDiv(n, d) \in Nat
         /\ Least(0 * d, n) = 0
         /\ Least(CeilDiv(n, d) * d, n) = n
         /\ \A i \in 1 .. CeilDiv(n, d) :
              LET low == (i - 1) * d
              IN /\ low \in Nat /\ low < n /\ Least(low, n) = low
                 /\ Least(i * d, n) \in Nat /\ low <= Least(i * d, n)
                 /\ Least(i * d, n) - low = Least(d, n - low)
                 /\ i * d = low + d
PROOF
<1> DEFINE c == CeilDiv(n, d)
<1>1. c \in Nat /\ \A i \in Nat : i < c => d * i < n
  BY CeilDivBoxes
<1>2. c * d >= n
  <2>1. n + d - 1 \in Nat
    OBVIOUS
  <2>2. n + d - 1 < d * c + d
    BY <2>1, DivMod DEF CeilDiv
  <2> HIDE DEF c
  <2>3. d * c \in Nat /\ d * c = c * d
    BY <1>1
  <2> QED
    BY <2>2, <2>3
<1> HIDE DEF c
<1>3. c * d \in Nat
  BY <1>1
<1>4. Least(c * d, n) = n
  BY <1>2, <1>3 DEF Least
<1>5. ASSUME NEW i \in 1 .. c
      PROVE  LET low == (i - 1) * d
              IN /\ low \in Nat /\ low < n /\ Least(low, n) = low
                 /\ Least(i * d, n) \in Nat /\ low <= Least(i * d, n)
                 /\ Least(i * d, n) - low = Least(d, n - low)
                 /\ i * d = low + d
  <2> DEFINE j == i - 1
             low == j * d
  <2>1. j \in Nat /\ j < c
    BY <1>1
  <2>2. d * j < n
    BY <1>1, <2>1
  <2> HIDE DEF j
  <2>3. low \in Nat /\ low < n
    BY <2>1, <2>2
  <2>4. i * d = low + d
    <3>1. i = j + 1
      BY DEF j
    <3> QED
      BY <3>1, <2>1
  <2>5. low = (i - 1) * d
    BY DEF j
  <2> HIDE DEF low
  <2>6. /\ low \in Nat /\ low < n /\ Least(low, n) = low
        /\ Least(i * d, n) \in Nat /\ low <= Least(i * d, n)
        /\ Least(i * d, n) - low = Least(d, n - low)
        /\ i * d = low + d
    BY <2>3, <2>4 DEF Least
  <2> QED
    BY <2>5, <2>6
<1>6. Least(0 * d, n) = 0
  BY DEF Least
<1> QED
  BY <1>1, <1>4, <1>5, <1>6 DEF c

\* A piece of a sequence.
LEMMA PieceIs ==
  ASSUME NEW S, NEW s \in Seq(S), NEW a \in Nat, NEW b \in Nat, a <= b, b <= Len(s)
  PROVE  SubSeq(s, a + 1, b) = [j \in 1 .. b - a |-> s[a + j]]
PROOF
<1>1. SubSeq(s, a + 1, b) = [j \in 1 .. b - (a + 1) + 1 |-> s[j + (a + 1) - 1]]
  OBVIOUS
<1>2. b - (a + 1) + 1 = b - a
  OBVIOUS
<1>3. \A j \in 1 .. b - a : j + (a + 1) - 1 = a + j
  OBVIOUS
<1> QED
  BY <1>1, <1>2, <1>3

\* The extents of a file are a sequence.
LEMMA LeavesAre ==
  ASSUME NEW start \in Nat, NEW count \in Nat
  PROVE  LET leaves == Leaves(start, count)
         IN /\ Len(leaves) = CeilDiv(count, MaxLen)
            /\ DOMAIN leaves = 1 .. CeilDiv(count, MaxLen)
            /\ leaves \in Seq({leaves[i] : i \in DOMAIN leaves})
            /\ leaves = [i \in 1 .. CeilDiv(count, MaxLen) |-> leaves[i]]
PROOF
<1> DEFINE leaves == Leaves(start, count)
           m == CeilDiv(count, MaxLen)
<1>1. m \in Nat
  BY CeilDivBoxes, MaxLenAssumption
<1>2. leaves = [i \in 1 .. m |-> leaves[i]]
  BY DEF Leaves
<1> HIDE DEF leaves, m
<1>3. /\ leaves \in Seq({leaves[k] : k \in 1 .. m})
      /\ Len(leaves) = m /\ DOMAIN leaves = 1 .. m
  BY <1>1, <1>2, ListIs
<1> QED
  BY <1>2, <1>3 DEF leaves, m

\* The leaf blocks hold the extents, one block after another.
LEMMA LeafBlocksHold ==
  ASSUME NEW S, NEW leaves \in Seq(S)
  PROVE  /\ FlattenSeq(LeafBlocks(leaves)) = leaves
         /\ LeafBlocks(leaves) = [i \in 1 .. CeilDiv(Len(leaves), PerLeafBlock)
                                    |-> LeafBlocks(leaves)[i]]
PROOF
<1> DEFINE n == Len(leaves)
           m == CeilDiv(n, PerLeafBlock)
           P == [i \in 0 .. m |-> Least(i * PerLeafBlock, n)]
           seqs == LeafBlocks(leaves)
<1>1. n \in Nat /\ DOMAIN leaves = 1 .. n
  OBVIOUS
<1> HIDE DEF n
<1>2. m \in Nat
  BY <1>1, CutPoints, PerLeafBlockPositive
<1>3. seqs = [i \in 1 .. m |-> seqs[i]]
  BY DEF LeafBlocks, n
<1>4. P[0] = 0 /\ P[m] = n
  <2>1. 0 \in 0 .. m /\ m \in 0 .. m
    BY <1>2
  <2>2. Least(0 * PerLeafBlock, n) = 0 /\ Least(m * PerLeafBlock, n) = n
    BY <1>1, CutPoints, PerLeafBlockPositive
  <2> HIDE DEF m
  <2> QED
    BY <2>1, <2>2
<1>5. ASSUME NEW i \in 1 .. m
      PROVE  /\ P[i] \in Nat /\ P[i - 1] <= P[i]
             /\ seqs[i] = [j \in 1 .. P[i] - P[i - 1] |-> leaves[P[i - 1] + j]]
  <2> DEFINE low == (i - 1) * PerLeafBlock
             high == Least(i * PerLeafBlock, n)
  <2>1. low \in Nat /\ low < n /\ Least(low, n) = low /\ high \in Nat /\ low <= high
    BY <1>1, CutPoints, PerLeafBlockPositive
  <2>2. P[i] = high /\ P[i - 1] = low
    <3> HIDE DEF m
    <3>1. i \in 0 .. m /\ i - 1 \in 0 .. m
      BY <1>2
    <3> QED
      BY <3>1, <2>1
  <2>3. high <= n
    <3>1. i * PerLeafBlock \in Nat
      BY <1>2, PerLeafBlockPositive
    <3> QED
      BY <1>1, <3>1 DEF Least
  <2>4. seqs[i] = SubSeq(leaves, low + 1, high)
    BY DEF LeafBlocks, n
  <2> HIDE DEF low, high, seqs, P, m
  <2>5. SubSeq(leaves, low + 1, high) = [j \in 1 .. high - low |-> leaves[low + j]]
    BY <2>1, <2>3, PieceIs DEF n
  <2> QED
    BY <2>1, <2>2, <2>4, <2>5
<1> HIDE DEF seqs, P, m
<1>6. FlattenSeq(seqs) = [k \in 1 .. P[m] |-> leaves[k]]
  <2>1. \A i \in 1 .. m : P[i] \in Nat /\ P[i - 1] <= P[i]
    BY <1>5
  <2>2. \A i \in 1 .. m : seqs[i] = [j \in 1 .. P[i] - P[i - 1] |-> leaves[P[i - 1] + j]]
    BY <1>5
  <2>3. P[0] = 0
    BY <1>4
  <2>4. Cut(seqs, m, P, leaves)
    BY <1>3, <2>1, <2>2, <2>3 DEF Cut
  <2> QED
    BY <1>2, <2>4, FlattenCut
<1>7. [k \in 1 .. n |-> leaves[k]] = leaves
  BY <1>1
<1> QED
  BY <1>3, <1>4, <1>6, <1>7 DEF seqs, m, n

\* The extent tree of a file whose leaf blocks are at cur of a disk.
TreeOnDisk(start, count, cur, disk) ==
  \A i \in DOMAIN Extents(start, count, cur).blocks :
    disk[cur + i - 1] = Extents(start, count, cur).blocks[i]

\* parse_extents() finds the extents that write_extents() recorded, in the
\* inode and in the blocks it points to.
THEOREM ExtentsReadBack ==
  ASSUME NEW start \in Nat, NEW count \in Nat, NEW cur \in Nat, NEW disk,
         TreeOnDisk(start, count, cur, disk)
  PROVE  ParseExtents(Extents(start, count, cur).root, disk) = Leaves(start, count)
PROOF
<1> DEFINE leaves == Leaves(start, count)
           blocks == LeafBlocks(leaves)
           tree == Extents(start, count, cur)
<1>0. Len(leaves) = CeilDiv(count, MaxLen) /\ DOMAIN leaves = 1 .. CeilDiv(count, MaxLen)
  BY LeavesAre
<1>1. CASE count = 0
  <2>1. leaves = <<>>
    <3>1. CeilDiv(0, MaxLen) \in Nat /\ \A j \in Nat : j < CeilDiv(0, MaxLen) => MaxLen * j < 0
      BY CeilDivBoxes, MaxLenAssumption
    <3>2. CeilDiv(0, MaxLen) = 0
      <4> DEFINE c == CeilDiv(0, MaxLen)
      <4>1. c \in Nat /\ \A j \in Nat : j < c => MaxLen * j < 0
        BY <3>1
      <4> HIDE DEF c
      <4>2. c > 0 => MaxLen * 0 < 0
        BY <4>1
      <4> QED
        BY <4>1, <4>2, MaxLenAssumption DEF c
    <3>a. leaves = [i \in 1 .. CeilDiv(0, MaxLen) |-> leaves[i]]
      BY <1>1, LeavesAre, Zenon
    <3>3. leaves = [i \in 1 .. 0 |-> leaves[i]]
      BY <3>a, <3>2
    <3> HIDE DEF leaves
    <3> QED
      BY <3>3
  <2>2. tree.root = NoExtents
    BY <1>1 DEF Extents
  <2> HIDE DEF leaves, tree
  <2> QED
    BY <2>1, <2>2 DEF ParseExtents, NoExtents, leaves, tree
<1>2. CASE count # 0 /\ Len(leaves) <= Inline
  <2>1. tree.root = [depth |-> 0, entries |-> leaves]
    BY <1>2 DEF Extents
  <2> HIDE DEF leaves, tree
  <2> QED
    BY <2>1 DEF ParseExtents, leaves, tree
<1>3. CASE count # 0 /\ ~(Len(leaves) <= Inline)
  <2>1. /\ tree.root = [depth |-> 1, entries |->
                          [i \in DOMAIN blocks |->
                             [block |-> blocks[i][1].block, leaf |-> cur + i - 1]]]
        /\ tree.blocks = blocks
    BY <1>3 DEF Extents
  <2>2. \A i \in DOMAIN blocks : disk[cur + i - 1] = blocks[i]
    BY <2>1 DEF TreeOnDisk
  <2>3. FlattenSeq(blocks) = leaves /\ blocks = [i \in DOMAIN blocks |-> blocks[i]]
    <3>1. leaves \in Seq({leaves[i] : i \in DOMAIN leaves})
      BY LeavesAre
    <3> HIDE DEF leaves
    <3> QED
      BY <3>1, LeafBlocksHold
  <2> HIDE DEF leaves, tree, blocks
  <2>4. DOMAIN tree.root.entries = DOMAIN blocks
    BY <2>1
  <2>5. \A i \in DOMAIN blocks : tree.root.entries[i].leaf = cur + i - 1
    BY <2>1
  <2>6. [i \in DOMAIN tree.root.entries |-> disk[tree.root.entries[i].leaf]] = blocks
    BY <2>2, <2>3, <2>4, <2>5
  <2>7. ParseExtents(tree.root, disk) = FlattenSeq(blocks)
    BY <2>1, <2>6 DEF ParseExtents
  <2> QED
    BY <2>3, <2>7 DEF leaves, tree
<1> QED
  BY <1>1, <1>2, <1>3

\* The blocks of the extents of a file are those that its data were written to,
\* in their order.
THEOREM DataBlocks ==
  ASSUME NEW start \in Nat, NEW count \in Nat
  PROVE  BlocksOf(Leaves(start, count)) = [k \in 1 .. count |-> start + k - 1]
PROOF
<1> DEFINE leaves == Leaves(start, count)
           m == CeilDiv(count, MaxLen)
           P == [i \in 0 .. m |-> Least(i * MaxLen, count)]
           s == [k \in Nat |-> start + k - 1]
           seqs == [i \in DOMAIN leaves |->
                      [j \in 1 .. leaves[i].len |-> leaves[i].start + j - 1]]
<1>1. DOMAIN leaves = 1 .. m
  BY LeavesAre
<1>2. m \in Nat
  BY CutPoints, MaxLenAssumption
<1>3. seqs = [i \in 1 .. m |-> seqs[i]]
  <2> HIDE DEF leaves, m
  <2> QED
    BY <1>1
<1>4. P[0] = 0 /\ P[m] = count
  <2>1. 0 \in 0 .. m /\ m \in 0 .. m
    BY <1>2
  <2>2. Least(0 * MaxLen, count) = 0 /\ Least(m * MaxLen, count) = count
    BY CutPoints, MaxLenAssumption
  <2> HIDE DEF m
  <2> QED
    BY <2>1, <2>2
<1>5. ASSUME NEW i \in 1 .. m
      PROVE  /\ P[i] \in Nat /\ P[i - 1] <= P[i]
             /\ seqs[i] = [j \in 1 .. P[i] - P[i - 1] |-> s[P[i - 1] + j]]
  <2> DEFINE low == (i - 1) * MaxLen
             high == Least(i * MaxLen, count)
  <2>1. /\ low \in Nat /\ low < count /\ Least(low, count) = low /\ high \in Nat /\ low <= high
        /\ high - low = Least(MaxLen, count - low)
    BY CutPoints, MaxLenAssumption
  <2>2. P[i] = high /\ P[i - 1] = low
    <3> HIDE DEF m
    <3>1. i \in 0 .. m /\ i - 1 \in 0 .. m
      BY <1>2
    <3> QED
      BY <3>1, <2>1
  <2>3. leaves[i].len = high - low /\ leaves[i].start = start + low
    <3>1. leaves[i] = [block |-> low, start |-> start + low,
                       len |-> Least(MaxLen, count - low)]
      BY DEF Leaves
    <3> HIDE DEF leaves, low, high
    <3> QED
      BY <2>1, <3>1
  <2>4. seqs[i] = [j \in 1 .. leaves[i].len |-> leaves[i].start + j - 1]
    <3> HIDE DEF leaves, m
    <3> QED
      BY <1>1
  <2> HIDE DEF low, high, seqs, P, m, leaves
  <2>5. ASSUME NEW j \in 1 .. high - low PROVE start + low + j - 1 = s[low + j]
    <3>1. low + j \in Nat
      BY <2>1
    <3> QED
      BY <3>1, <2>1
  <2> HIDE DEF s
  <2>6. [j \in 1 .. high - low |-> start + low + j - 1] = [j \in 1 .. high - low |-> s[low + j]]
    BY <2>5
  <2> QED
    BY <2>1, <2>2, <2>3, <2>4, <2>6
<1> HIDE DEF P, m, leaves
<1>6. FlattenSeq(seqs) = [k \in 1 .. P[m] |-> s[k]]
  <2> HIDE DEF seqs, s
  <2>1. \A i \in 1 .. m : P[i] \in Nat /\ P[i - 1] <= P[i]
    BY <1>5
  <2>2. \A i \in 1 .. m : seqs[i] = [j \in 1 .. P[i] - P[i - 1] |-> s[P[i - 1] + j]]
    BY <1>5
  <2>3. P[0] = 0
    BY <1>4
  <2>4. Cut(seqs, m, P, s)
    BY <1>3, <2>1, <2>2, <2>3 DEF Cut
  <2> QED
    BY <1>2, <2>4, FlattenCut
<1>7. [k \in 1 .. count |-> s[k]] = [k \in 1 .. count |-> start + k - 1]
  OBVIOUS
<1> HIDE DEF s
<1> QED
  BY <1>4, <1>6, <1>7 DEF BlocksOf, leaves

\* The sums of this module are those of the lemmas on folds.
LEMMA SumsAre == \A f : SumFunction(f) = Steps!SumAll(f)
PROOF
<1> QED
  BY DEF SumFunction, SumFunctionOnSet, FoldFunctionOnSet, MapThenFoldSet,
         Steps!SumAll, Steps!SumOver

\* The lengths of the first i extents add up to where the next begins.
LEMMA LengthsBefore ==
  ASSUME NEW start \in Nat, NEW count \in Nat, NEW i \in 1 .. CeilDiv(count, MaxLen)
  PROVE  LET leaves == Leaves(start, count)
         IN SumFunction([k \in 1 .. i - 1 |-> leaves[k].len]) = (i - 1) * MaxLen
PROOF
<1> DEFINE leaves == Leaves(start, count)
           f == [k \in 1 .. i - 1 |-> leaves[k].len]
           P == [k \in 0 .. i - 1 |-> k * MaxLen]
<1>0. CeilDiv(count, MaxLen) \in Nat /\ MaxLen \in Nat /\ i - 1 \in Nat
  BY CutPoints, MaxLenAssumption
<1>1. P[0] = 0 /\ P[i - 1] = (i - 1) * MaxLen
  BY <1>0
<1>2. ASSUME NEW k \in 1 .. i - 1
      PROVE  f[1 + k - 1] \in Nat /\ P[k] \in Nat /\ P[k] = P[k - 1] + f[1 + k - 1]
  <2>1. k \in 1 .. CeilDiv(count, MaxLen) /\ k + 1 \in 1 .. CeilDiv(count, MaxLen)
    BY <1>0
  <2>2. leaves[k].len = Least(MaxLen, count - (k - 1) * MaxLen)
    <3>1. leaves[k] = [block |-> (k - 1) * MaxLen, start |-> start + (k - 1) * MaxLen,
                       len |-> Least(MaxLen, count - (k - 1) * MaxLen)]
      BY <2>1 DEF Leaves
    <3> HIDE DEF leaves
    <3> QED
      BY <3>1
  <2>3. k * MaxLen < count /\ k * MaxLen \in Nat
    <3> DEFINE n == k + 1
    <3>1. n \in 1 .. CeilDiv(count, MaxLen) /\ n - 1 = k
      BY <2>1
    <3> HIDE DEF n
    <3>2. (n - 1) * MaxLen \in Nat /\ (n - 1) * MaxLen < count
      BY <3>1, CutPoints, MaxLenAssumption
    <3> QED
      BY <3>1, <3>2
  <2>4. k * MaxLen = (k - 1) * MaxLen + MaxLen /\ (k - 1) * MaxLen \in Nat
    BY <2>1, CutPoints, MaxLenAssumption
  <2>5. leaves[k].len = MaxLen
    <3> HIDE DEF leaves
    <3> QED
      BY <2>2, <2>3, <2>4, <1>0 DEF Least
  <2>6. f[k] = MaxLen
    <3> HIDE DEF leaves
    <3> QED
      BY <2>5
  <2>7. P[k] = k * MaxLen /\ P[k - 1] = (k - 1) * MaxLen
    BY <1>0
  <2>8. 1 + k - 1 = k
    OBVIOUS
  <2> HIDE DEF f, P
  <2> QED
    BY <1>0, <2>3, <2>4, <2>6, <2>7, <2>8
<1>3. DOMAIN f = 1 .. 1 + (i - 1) - 1
  BY <1>0
<1> HIDE DEF f, P
<1>4. Steps!SumAll(f) = P[i - 1]
  <2>1. \A k \in 1 .. i - 1 : /\ f[1 + k - 1] \in Nat /\ P[k] \in Nat
                              /\ P[k] = P[k - 1] + f[1 + k - 1]
    BY <1>2
  <2>2. 1 \in Int /\ i - 1 \in Nat /\ P[0] = 0
    BY <1>0, <1>1
  <2>3. Steps!Running(1, i - 1, f, P)
    BY <1>3, <2>1, <2>2 DEF Steps!Running
  <2> QED
    BY <2>2, <2>3, Steps!SumRunning
<1> QED
  BY <1>1, <1>4, SumsAre DEF f

\* What of the first x bytes is among the count from offset start.
Clamped(x, start, count) ==
  IF x <= start THEN 0 ELSE IF x >= start + count THEN count ELSE x - start

\* A read of part of a file is put together from the bytes it asked for, in
\* their order, however the file is spread over extents.
THEOREM RangeRead ==
  ASSUME NEW first \in Nat, NEW blocks \in Nat, NEW start \in Nat, NEW count \in Nat,
         start + count <= blocks * BlockSize
  PROVE  BytesOf(Chunks(Leaves(first, blocks), start, count))
           = [b \in 1 .. count |-> first * BlockSize + start + b - 1]
PROOF
<1> DEFINE leaves == Leaves(first, blocks)
           m == CeilDiv(blocks, MaxLen)
           P == [i \in 0 .. m |-> Least(i * MaxLen, blocks)]
           Q == [i \in 0 .. m |-> Clamped(BlockSize * P[i], start, count)]
           s == [k \in Nat |-> first * BlockSize + start + k - 1]
           chunks == Chunks(leaves, start, count)
           seqs == [i \in DOMAIN chunks |->
                      [j \in 1 .. chunks[i].len |-> chunks[i].at + j - 1]]
<1>0. MaxLen \in Nat \ {0} /\ BlockSize \in Nat /\ BlockSize # 0
  BY MaxLenAssumption, BlockSizeAssumption
<1>1. DOMAIN leaves = 1 .. m /\ m \in Nat
  BY LeavesAre, CutPoints, <1>0
<1>2. DOMAIN chunks = 1 .. m
  <2>1. DOMAIN chunks = DOMAIN leaves
    BY DEF Chunks
  <2> QED
    BY <1>1, <2>1
<1>3. seqs = [i \in 1 .. m |-> seqs[i]]
  <2> HIDE DEF chunks, m
  <2> QED
    BY <1>2
<1>4. Q[0] = 0 /\ Q[m] = count
  <2>1. 0 \in 0 .. m /\ m \in 0 .. m
    BY <1>1
  <2>2. Least(0 * MaxLen, blocks) = 0 /\ Least(m * MaxLen, blocks) = blocks
    BY CutPoints, <1>0
  <2>3. P[0] = 0 /\ P[m] = blocks
    <3> HIDE DEF m
    <3> QED
      BY <2>1, <2>2
  <2>4. Q[0] = Clamped(BlockSize * P[0], start, count)
        /\ Q[m] = Clamped(BlockSize * P[m], start, count)
    <3> HIDE DEF m, P
    <3> QED
      BY <2>1
  <2>5. BlockSize * 0 = 0
    BY <1>0
  <2>6. BlockSize * blocks = blocks * BlockSize /\ blocks * BlockSize \in Nat
    BY <1>0
  <2>7. Clamped(0, start, count) = 0
    BY DEF Clamped
  <2>8. Clamped(BlockSize * blocks, start, count) = count
    BY <2>6 DEF Clamped
  <2> HIDE DEF P, Q, m
  <2> QED
    BY <2>3, <2>4, <2>5, <2>7, <2>8
<1>5. ASSUME NEW i \in 1 .. m
      PROVE  /\ Q[i] \in Nat /\ Q[i - 1] <= Q[i]
             /\ seqs[i] = [j \in 1 .. Q[i] - Q[i - 1] |-> s[Q[i - 1] + j]]
  <2> DEFINE low == (i - 1) * MaxLen
             high == Least(i * MaxLen, blocks)
             len == leaves[i].len
             from == BlockSize * low
             to == from + BlockSize * len
             Low == IF start >= from THEN start ELSE from
             High == Least(start + count, to)
  <2>1. /\ low \in Nat /\ low < blocks /\ Least(low, blocks) = low /\ high \in Nat
        /\ low <= high /\ high - low = Least(MaxLen, blocks - low)
    BY CutPoints, <1>0
  <2>2. P[i] = high /\ P[i - 1] = low
    <3> HIDE DEF m
    <3>1. i \in 0 .. m /\ i - 1 \in 0 .. m
      BY <1>1
    <3> QED
      BY <3>1, <2>1
  <2>3. len = high - low /\ leaves[i].start = first + low
    <3>1. leaves[i] = [block |-> low, start |-> first + low,
                       len |-> Least(MaxLen, blocks - low)]
      BY DEF Leaves
    <3> HIDE DEF leaves, low, high
    <3> QED
      BY <2>1, <3>1
  <2>4. Q[i] = Clamped(BlockSize * high, start, count)
        /\ Q[i - 1] = Clamped(BlockSize * low, start, count)
    <3>1. i \in 0 .. m /\ i - 1 \in 0 .. m
      <4> HIDE DEF m
      <4> QED
        BY <1>1
    <3> HIDE DEF m, P, low, high
    <3> QED
      BY <2>2, <3>1
  <2>5. SumFunction([k \in 1 .. i - 1 |-> leaves[k].len]) = low
    BY LengthsBefore
  <2>6. chunks[i] = [at  |-> leaves[i].start * BlockSize + Low - from,
                     len |-> IF Low < High THEN High - Low ELSE 0]
    <3>1. i \in DOMAIN leaves
      BY <1>1
    <3> HIDE DEF leaves, m
    <3>2. chunks[i] =
            LET From(h) == BlockSize * SumFunction([k \in 1 .. h - 1 |-> leaves[k].len])
                To(h)   == From(h) + BlockSize * leaves[h].len
                L(h)  == IF start >= From(h) THEN start ELSE From(h)
                H(h) == Least(start + count, To(h))
            IN [at  |-> leaves[i].start * BlockSize + L(i) - From(i),
                len |-> IF L(i) < H(i) THEN H(i) - L(i) ELSE 0]
      BY <3>1 DEF Chunks
    <3> HIDE DEF chunks
    <3> QED
      BY <2>5, <3>2
  <2> DEFINE n == IF Low < High THEN High - Low ELSE 0
  <2>7. from \in Nat /\ to \in Nat /\ from <= to /\ to = BlockSize * high
    <3>1. len \in Nat /\ low + len = high
      <4> HIDE DEF len, low, high
      <4> QED
        BY <2>1, <2>3
    <3> HIDE DEF len, low, high
    <3>2. BlockSize * low \in Nat /\ BlockSize * len \in Nat
      BY <1>0, <2>1, <3>1
    <3>3. BlockSize * (low + len) = BlockSize * low + BlockSize * len
      BY <1>0, <2>1, <3>1
    <3> QED
      BY <3>1, <3>2, <3>3
  <2>8. leaves[i].start * BlockSize = first * BlockSize + from /\ first * BlockSize \in Nat
    <3> HIDE DEF low, high, leaves
    <3>1. (first + low) * BlockSize = first * BlockSize + BlockSize * low
      BY <1>0, <2>1
    <3>2. first * BlockSize \in Nat
      BY <1>0
    <3> QED
      BY <2>3, <3>1, <3>2
  <2>9. seqs[i] = [j \in 1 .. chunks[i].len |-> chunks[i].at + j - 1]
    <3> HIDE DEF chunks, m
    <3> QED
      BY <1>2
  <2>10. Q[i] = Clamped(to, start, count) /\ Q[i - 1] = Clamped(from, start, count)
    <3> HIDE DEF Q, high, low, to
    <3> QED
      BY <2>4, <2>7
  <2>11. chunks[i].at = leaves[i].start * BlockSize + Low - from /\ chunks[i].len = n
    <3> HIDE DEF chunks, leaves, Low, High, from
    <3> QED
      BY <2>6
  <2> HIDE DEF low, high, len, from, to, leaves, Q, seqs, chunks, P, m
  <2>12. Low \in Nat /\ High \in Nat
    BY <2>7 DEF Least
  <2>13. /\ Q[i] \in Nat /\ Q[i - 1] \in Nat /\ Q[i] - Q[i - 1] = n /\ Q[i - 1] <= Q[i]
         /\ n > 0 => Low = start + Q[i - 1]
    BY <2>7, <2>10 DEF Clamped, Least
  <2> DEFINE base == first * BlockSize
             at == leaves[i].start * BlockSize + Low - from
  <2>14. n > 0 => at = base + start + Q[i - 1]
    <3> HIDE DEF n, Low
    <3> QED
      BY <2>7, <2>8, <2>12, <2>13
  <2> HIDE DEF n
  <2>15. ASSUME NEW j \in 1 .. n PROVE at + j - 1 = s[Q[i - 1] + j]
    <3>1. n > 0 /\ n \in Nat
      BY <2>13
    <3>2. Q[i - 1] + j \in Nat
      BY <2>13, <3>1
    <3>3. s[Q[i - 1] + j] = base + start + (Q[i - 1] + j) - 1
      BY <3>2
    <3>4. at = base + start + Q[i - 1]
      BY <2>14, <3>1
    <3> HIDE DEF at, base
    <3>5. base \in Nat
      BY <2>8 DEF base
    <3> QED
      BY <2>13, <3>1, <3>3, <3>4, <3>5
  <2> HIDE DEF at, s, base
  <2>16. chunks[i].at = at /\ chunks[i].len = n
    BY <2>11 DEF at
  <2>17. seqs[i] = [j \in 1 .. n |-> at + j - 1]
    BY <2>9, <2>16
  <2>18. [j \in 1 .. n |-> at + j - 1] = [j \in 1 .. n |-> s[Q[i - 1] + j]]
    BY <2>15
  <2> QED
    BY <2>13, <2>17, <2>18
<1> HIDE DEF P, Q, m, leaves
<1>6. FlattenSeq(seqs) = [k \in 1 .. Q[m] |-> s[k]]
  <2> HIDE DEF seqs, s, chunks
  <2>1. \A i \in 1 .. m : Q[i] \in Nat /\ Q[i - 1] <= Q[i]
    BY <1>5
  <2>2. \A i \in 1 .. m : seqs[i] = [j \in 1 .. Q[i] - Q[i - 1] |-> s[Q[i - 1] + j]]
    BY <1>5
  <2>3. Q[0] = 0
    BY <1>4
  <2>4. Cut(seqs, m, Q, s)
    BY <1>3, <2>1, <2>2, <2>3 DEF Cut
  <2> QED
    BY <1>1, <2>4, FlattenCut
<1>7. BytesOf(chunks) = FlattenSeq(seqs)
  <2> HIDE DEF chunks
  <2> QED
    BY DEF BytesOf
<1>8. [k \in 1 .. count |-> s[k]] = [k \in 1 .. count |-> first * BlockSize + start + k - 1]
  OBVIOUS
<1> HIDE DEF s, chunks, seqs
<1> QED
  BY <1>4, <1>6, <1>7, <1>8 DEF leaves, chunks

-----------------------------------------------------------------------------
(* The records of a directory.                                             *)

\* The bytes that the records of a block take.
RecSum(records) == SumFunction([k \in DOMAIN records |-> records[k].rec])

\* A record more takes its own bytes.
LEMMA AppendRecord ==
  ASSUME NEW R, \A r \in R : r.rec \in Nat, NEW records \in Seq(R), NEW r \in R
  PROVE  RecSum(Append(records, r)) = RecSum(records) + r.rec /\ RecSum(records) \in Nat
PROOF
<1> DEFINE n == Len(records)
           more == Append(records, r)
           f == [k \in DOMAIN records |-> records[k].rec]
           h == [k \in DOMAIN more |-> more[k].rec]
<1>1. n \in Nat /\ DOMAIN records = 1 .. n /\ DOMAIN more = 1 .. n + 1
  OBVIOUS
<1>2. \A k \in 1 .. n : records[k] \in R /\ more[k] = records[k]
  OBVIOUS
<1>3. more[n + 1] = r
  OBVIOUS
<1> HIDE DEF n, more
<1>4. \A k \in 1 .. n : f[k] \in Nat /\ h[k] = f[k]
  BY <1>1, <1>2
<1>5. h[n + 1] = r.rec /\ h[n + 1] \in Nat
  BY <1>1, <1>3
<1>6. DOMAIN f = 1 .. n /\ DOMAIN h = 1 .. n + 1
  BY <1>1
<1> HIDE DEF f, h
<1>7. Steps!Finite(1 .. n) /\ Steps!Finite(1 .. n + 1)
  <2>1. IsFiniteSet(1 .. n) /\ IsFiniteSet(1 .. n + 1)
    BY <1>1, FS_Interval
  <2> QED
    BY <2>1 DEF IsFiniteSet, Steps!Finite
<1>8. \A k \in 1 .. n + 1 : h[k] \in Nat
  BY <1>1, <1>4, <1>5
<1>9. (1 .. n + 1) \ {n + 1} = 1 .. n /\ n + 1 \in 1 .. n + 1
  BY <1>1
<1>10. Steps!SumOver(h, 1 .. n + 1) = h[n + 1] + Steps!SumOver(h, 1 .. n)
  <2> DEFINE S == 1 .. n + 1
             x == n + 1
  <2>1. Steps!Finite(S) /\ \A e \in S : h[e] \in Nat /\ x \in S
    BY <1>7, <1>8, <1>9
  <2> HIDE DEF S, x
  <2>2. Steps!SumOver(h, S) = h[x] + Steps!SumOver(h, S \ {x})
    BY <2>1, <1>9, Steps!SumWithout DEF S, x
  <2>3. S \ {x} = 1 .. n
    BY <1>9 DEF S, x
  <2> QED
    BY <2>2, <2>3 DEF S, x
<1>11. Steps!SumOver(h, 1 .. n) = Steps!SumOver(f, 1 .. n)
  BY <1>4, <1>7, Steps!SumSame
<1>12. Steps!SumOver(f, 1 .. n) \in Nat
  BY <1>4, <1>7, Steps!SumType
<1>13. Steps!SumAll(f) = Steps!SumOver(f, 1 .. n)
       /\ Steps!SumAll(h) = Steps!SumOver(h, 1 .. n + 1)
  BY <1>6 DEF Steps!SumAll
<1>14. RecSum(records) = SumFunction(f) /\ RecSum(more) = SumFunction(h)
  BY DEF RecSum, f, h
<1> QED
  BY <1>5, <1>10, <1>11, <1>12, <1>13, <1>14, SumsAre DEF more

\* A block of no record.
LEMMA NoRecords == RecSum(<<>>) = 0
PROOF
<1> DEFINE f == [k \in DOMAIN <<>> |-> <<>>[k].rec]
<1>1. DOMAIN f = {}
  OBVIOUS
<1> HIDE DEF f
<1>2. Steps!SumAll(f) = 0
  BY <1>1, Steps!SumEmpty DEF Steps!SumAll
<1> QED
  BY <1>2, SumsAre DEF RecSum, f

\* A block of one record.
LEMMA FirstRecord ==
  ASSUME NEW R, \A x \in R : x.rec \in Nat, NEW r \in R
  PROVE  RecSum(<<r>>) = r.rec
PROOF
<1>1. <<>> \in Seq(R) /\ Append(<<>>, r) = <<r>>
  OBVIOUS
<1>2. RecSum(Append(<<>>, r)) = RecSum(<<>>) + r.rec
  BY <1>1, AppendRecord
<1> QED
  BY <1>1, <1>2, NoRecords

\* The blocks of a directory that is being written: all but the last are full,
\* and what is left of the last takes a last record.
Packing(R, w) ==
  /\ w.blocks \in Seq(Seq(R))
  /\ w.left \in Nat /\ w.left <= BlockSize
  /\ w.left < BlockSize => w.left >= Trailing /\ w.blocks # <<>>
  /\ \A i \in 1 .. Len(w.blocks) :
       /\ RecSum(w.blocks[i]) =
            IF i = Len(w.blocks) /\ w.left < BlockSize THEN BlockSize - w.left ELSE BlockSize
       /\ \A k \in DOMAIN w.blocks[i] : w.blocks[i][k].rec >= Header

\* The last record takes what it is given.
LEMMA EndRecordIs == \A x : EndRecord(x).rec = x
  BY Zenon DEF EndRecord

\* The last record fills its block.
LEMMA FinishPacks ==
  ASSUME NEW R, \A r \in R : r.rec \in Nat, NEW w, Packing(R, w), w.left < BlockSize,
         EndRecord(w.left) \in R
  PROVE  /\ Packing(R, Finish(w)) /\ Finish(w).left = BlockSize
         /\ Len(Finish(w).blocks) = Len(w.blocks)
PROOF
<1> DEFINE r == EndRecord(w.left)
           n == Len(w.blocks)
           b == [w.blocks EXCEPT ![n] = Append(@, r)]
<1>1. /\ w.left \in Nat /\ w.left >= 12 /\ w.blocks \in Seq(Seq(R)) /\ w.blocks # <<>>
      /\ \A i \in 1 .. n :
           /\ RecSum(w.blocks[i]) = IF i = n THEN BlockSize - w.left ELSE BlockSize
           /\ \A k \in DOMAIN w.blocks[i] : w.blocks[i][k].rec >= Header
  BY DEF Packing, Trailing
<1>2. n \in Nat /\ n >= 1 /\ DOMAIN w.blocks = 1 .. n
  BY <1>1
<1>3. Finish(w) = [blocks |-> b, left |-> BlockSize]
  BY <1>1 DEF Finish
<1>r. r \in R /\ r.rec = w.left
  BY EndRecordIs
<1> HIDE DEF n, r
<1>4. w.blocks[n] \in Seq(R) /\ Append(w.blocks[n], r) \in Seq(R)
  BY <1>1, <1>2, <1>r
<1>5. b \in Seq(Seq(R)) /\ Len(b) = n /\ DOMAIN b = 1 .. n
      /\ b[n] = Append(w.blocks[n], r) /\ \A i \in 1 .. n - 1 : b[i] = w.blocks[i]
  BY <1>1, <1>2, <1>4 DEF n
<1> HIDE DEF b
<1>6. ASSUME NEW i \in 1 .. n
      PROVE  RecSum(b[i]) = BlockSize /\ \A k \in DOMAIN b[i] : b[i][k].rec >= Header
  <2>1. CASE i = n
    <3>1. RecSum(b[n]) = RecSum(w.blocks[n]) + r.rec
      BY <1>4, <1>5, <1>r, AppendRecord
    <3>2. RecSum(b[n]) = BlockSize
      BY <3>1, <1>1, <1>2, <1>r, BlockSizeAssumption
    <3>3. ASSUME NEW k \in DOMAIN b[n] PROVE b[n][k].rec >= Header
      <4> DEFINE old == w.blocks[n]
      <4>1. old \in Seq(R) /\ b[n] = Append(old, r)
        BY <1>4, <1>5
      <4>2. \A j \in DOMAIN old : old[j].rec >= Header
        BY <1>1, <1>2
      <4> HIDE DEF old
      <4>3. k \in 1 .. Len(old) + 1
        BY <4>1
      <4>4. CASE k = Len(old) + 1
        <5>1. b[n][k] = r
          BY <4>1, <4>4
        <5> QED
          BY <5>1, <1>1, <1>r DEF Header
      <4>5. CASE k # Len(old) + 1
        <5>1. k \in DOMAIN old /\ b[n][k] = old[k]
          BY <4>1, <4>3, <4>5
        <5> QED
          BY <5>1, <4>2
      <4> QED
        BY <4>4, <4>5
    <3> QED
      BY <2>1, <3>2, <3>3
  <2>2. CASE i # n
    <3>1. b[i] = w.blocks[i]
      BY <1>2, <1>5, <2>2
    <3> QED
      BY <3>1, <1>1, <2>2
  <2> QED
    BY <2>1, <2>2
<1>7. Finish(w).blocks = b /\ Finish(w).left = BlockSize
  BY <1>3
<1>8. ~(BlockSize < BlockSize) /\ BlockSize \in Nat /\ BlockSize <= BlockSize
  BY BlockSizeAssumption
<1>9. Packing(R, Finish(w))
  BY <1>5, <1>6, <1>7, <1>8 DEF Packing
<1> QED
  BY <1>5, <1>7, <1>9 DEF n

\* The size of an entry, and that a block has room for it.
LEMMA EntryFits ==
  ASSUME NEW name \in DOMAIN NameBytes
  PROVE  /\ EntrySize(name) \in Nat /\ EntrySize(name) >= Header
         /\ EntrySize(name) + Trailing <= BlockSize
PROOF
<1> DEFINE l == NameBytes[name]
           q == (Header + l + 3) \div 4
<1>1. l \in Nat /\ EntrySize(name) + Trailing <= BlockSize
  BY NamesAssumption
<1>2. EntrySize(name) = q * 4
  BY DEF EntrySize
<1>3. q \in Nat /\ q * 4 >= 8
  BY <1>1 DEF Header
<1> HIDE DEF q
<1> QED
  BY <1>1, <1>2, <1>3 DEF Header

\* write_dir_entry() finishes a block that cannot take the entry and its last
\* record, so that what is left always takes one.
LEMMA WriteEntryPacks ==
  ASSUME NEW R, \A r \in R : r.rec \in Nat, NEW w, Packing(R, w),
         NEW e, e.name \in DOMAIN NameBytes,
         \A x \in Nat : EndRecord(x) \in R
                        /\ [name |-> e.name, inode |-> e.inode, rec |-> x] \in R
  PROVE  LET v == WriteEntry(w, e)
         IN Packing(R, v) /\ v.left < BlockSize
PROOF
<1> DEFINE bytes == EntrySize(e.name)
           v == IF Fits(w, e.name) THEN w ELSE Finish(w)
           r == [name |-> e.name, inode |-> e.inode, rec |-> bytes]
           n == Len(v.blocks)
           grow == v.left = BlockSize
           b == IF grow THEN Append(v.blocks, <<r>>)
                ELSE [v.blocks EXCEPT ![n] = Append(@, r)]
<1>0. BlockSize \in Nat
  BY BlockSizeAssumption
<1>1. bytes \in Nat /\ bytes >= 8 /\ bytes + 12 <= BlockSize
  BY EntryFits DEF Header, Trailing
<1>2. WriteEntry(w, e) = [blocks |-> b, left |-> v.left - bytes]
  BY DEF WriteEntry
<1> HIDE DEF bytes
<1>3. Packing(R, v) /\ v.left \in Nat /\ v.left >= bytes + 12
  <2>1. CASE Fits(w, e.name)
    <3>1. v = w
      BY <2>1
    <3>2. w.left >= bytes + 12 /\ w.left \in Nat
      BY <2>1 DEF Fits, bytes, Trailing, Packing
    <3> QED
      BY <3>1, <3>2
  <2>2. CASE ~Fits(w, e.name)
    <3>1. w.left \in Nat /\ w.left <= BlockSize
      BY DEF Packing
    <3>2. w.left < BlockSize
      BY <3>1, <2>2, <1>0, <1>1 DEF Fits, bytes, Trailing
    <3>3. EndRecord(w.left) \in R
      BY <3>1
    <3>4. Packing(R, Finish(w)) /\ Finish(w).left = BlockSize
      BY <3>2, <3>3, FinishPacks
    <3>5. v = Finish(w)
      BY <2>2
    <3> HIDE DEF v
    <3> QED
      BY <3>4, <3>5, <1>0, <1>1
  <2> QED
    BY <2>1, <2>2
<1>r. r \in R /\ r.rec = bytes
  BY <1>1
<1> HIDE DEF v, r
<1>4. /\ v.left <= BlockSize /\ v.blocks \in Seq(Seq(R))
      /\ v.left < BlockSize => v.blocks # <<>>
      /\ \A i \in 1 .. n :
           /\ RecSum(v.blocks[i]) =
                IF i = n /\ v.left < BlockSize THEN BlockSize - v.left ELSE BlockSize
           /\ \A k \in DOMAIN v.blocks[i] : v.blocks[i][k].rec >= Header
  BY <1>3 DEF Packing
<1>5. n \in Nat /\ DOMAIN v.blocks = 1 .. n
  BY <1>4
<1>n. n = Len(v.blocks)
  OBVIOUS
<1> HIDE DEF n
<1>6. /\ b \in Seq(Seq(R)) /\ b # <<>>
      /\ \A i \in 1 .. Len(b) :
           /\ RecSum(b[i]) = IF i = Len(b) THEN BlockSize - (v.left - bytes) ELSE BlockSize
           /\ \A k \in DOMAIN b[i] : b[i][k].rec >= Header
  <2>1. CASE grow
    <3>1. b = Append(v.blocks, <<r>>)
      BY <2>1
    <3>2. <<r>> \in Seq(R) /\ DOMAIN <<r>> = {1} /\ <<r>>[1] = r
      BY <1>r
    <3>3. /\ b \in Seq(Seq(R)) /\ Len(b) = n + 1 /\ b[n + 1] = <<r>>
          /\ \A i \in 1 .. n : b[i] = v.blocks[i]
      BY <3>1, <3>2, <1>4, <1>n
    <3>4. RecSum(<<r>>) = bytes
      BY <1>r, FirstRecord
    <3>5. BlockSize - (v.left - bytes) = bytes
      BY <2>1, <1>0, <1>1
    <3> HIDE DEF b
    <3>6. ASSUME NEW i \in 1 .. n + 1
          PROVE  /\ RecSum(b[i]) = IF i = n + 1 THEN BlockSize - (v.left - bytes) ELSE BlockSize
                 /\ \A k \in DOMAIN b[i] : b[i][k].rec >= Header
      <4>1. CASE i = n + 1
        <5>1. \A k \in DOMAIN b[i] : b[i][k].rec >= Header
          BY <4>1, <3>2, <3>3, <1>1, <1>r DEF Header
        <5>2. RecSum(b[i]) = BlockSize - (v.left - bytes)
          BY <4>1, <3>3, <3>4, <3>5
        <5> QED
          BY <4>1, <5>1, <5>2
      <4>2. CASE i # n + 1
        <5>1. i \in 1 .. n
          BY <4>2, <1>5
        <5>2. b[i] = v.blocks[i]
          BY <5>1, <3>3
        <5> QED
          BY <5>1, <5>2, <4>2, <2>1, <1>4, <1>0
      <4> QED
        BY <4>1, <4>2
    <3>7. b # <<>>
      BY <3>3, <1>5
    <3> QED
      BY <3>3, <3>6, <3>7
  <2>2. CASE ~grow
    <3>1. b = [v.blocks EXCEPT ![n] = Append(@, r)]
      BY <2>2, <1>n
    <3>2. v.left < BlockSize /\ n >= 1
      BY <2>2, <1>0, <1>3, <1>4, <1>5, <1>n
    <3>3. v.blocks[n] \in Seq(R) /\ Append(v.blocks[n], r) \in Seq(R)
      BY <1>4, <1>5, <3>2, <1>r
    <3>4. b \in Seq(Seq(R)) /\ Len(b) = n
          /\ b[n] = Append(v.blocks[n], r) /\ \A i \in 1 .. n - 1 : b[i] = v.blocks[i]
      BY <3>1, <3>2, <3>3, <1>4, <1>5, <1>n
    <3> HIDE DEF b
    <3>5. ASSUME NEW i \in 1 .. n
          PROVE  /\ RecSum(b[i]) = IF i = n THEN BlockSize - (v.left - bytes) ELSE BlockSize
                 /\ \A k \in DOMAIN b[i] : b[i][k].rec >= Header
      <4>1. CASE i = n
        <5>1. RecSum(b[n]) = RecSum(v.blocks[n]) + r.rec
          BY <3>3, <3>4, <1>r, AppendRecord
        <5>2. RecSum(v.blocks[n]) = BlockSize - v.left
          BY <1>4, <3>2, <4>1
        <5>3. RecSum(b[n]) = BlockSize - (v.left - bytes)
          BY <5>1, <5>2, <1>r, <1>0, <1>1, <1>3
        <5>4. ASSUME NEW k \in DOMAIN b[n] PROVE b[n][k].rec >= Header
          <6> DEFINE old == v.blocks[n]
          <6>1. old \in Seq(R) /\ b[n] = Append(old, r)
            BY <3>3, <3>4
          <6>2. \A j \in DOMAIN old : old[j].rec >= Header
            BY <1>4, <4>1
          <6> HIDE DEF old
          <6>3. k \in 1 .. Len(old) + 1
            BY <6>1
          <6>4. CASE k = Len(old) + 1
            <7>1. b[n][k] = r
              BY <6>1, <6>4
            <7> QED
              BY <7>1, <1>1, <1>r DEF Header
          <6>5. CASE k # Len(old) + 1
            <7>1. k \in DOMAIN old /\ b[n][k] = old[k]
              BY <6>1, <6>3, <6>5
            <7> QED
              BY <7>1, <6>2
          <6> QED
            BY <6>4, <6>5
        <5> QED
          BY <4>1, <5>3, <5>4
      <4>2. CASE i # n
        <5>1. b[i] = v.blocks[i]
          BY <1>5, <3>4, <4>2
        <5> QED
          BY <5>1, <4>2, <1>4
      <4> QED
        BY <4>1, <4>2
    <3>6. b # <<>>
      BY <3>2, <3>4
    <3> QED
      BY <3>4, <3>5, <3>6
  <2> QED
    BY <2>1, <2>2
<1> HIDE DEF b
<1> DEFINE left == v.left - bytes
<1>7. left \in Nat /\ left >= 12 /\ left < BlockSize
  BY <1>0, <1>1, <1>3, <1>4
<1>8. WriteEntry(w, e).blocks = b /\ WriteEntry(w, e).left = left
  BY <1>2
<1> HIDE DEF left
<1>9. \A i \in 1 .. Len(b) :
        /\ RecSum(b[i]) = IF i = Len(b) /\ left < BlockSize THEN BlockSize - left ELSE BlockSize
        /\ \A k \in DOMAIN b[i] : b[i][k].rec >= Header
  BY <1>6, <1>7 DEF left
<1>10. Packing(R, WriteEntry(w, e))
  BY <1>0, <1>6, <1>7, <1>8, <1>9 DEF Packing, Trailing
<1> QED
  BY <1>7, <1>8, <1>10

\* write_dir_entry() as a step of a fold.
WriteIn(c, w, e) == WriteEntry(w, e)
Writing == INSTANCE Folding WITH Op <- WriteIn

\* The records that the entries of a directory may make.
Records(I) ==
  [name : DOMAIN NameBytes, inode : I, rec : Nat] \cup {EndRecord(x) : x \in Nat}

\* The records of every block of a directory follow one another to its very
\* end, whatever the names: none crosses a block, and the parser meets each.
THEOREM PackWellFilled ==
  ASSUME NEW I, NEW entries \in Seq([name : DOMAIN NameBytes, inode : I]), entries # <<>>
  PROVE  WellFilled(Pack(entries)) /\ Pack(entries) \in Seq(Seq(Records(I)))
PROOF
<1> DEFINE R == Records(I)
           base == [blocks |-> <<>>, left |-> BlockSize]
           n == Len(entries)
           Good(w) == Packing(R, w)
<1>1. /\ \A r \in R : r.rec \in Nat
      /\ \A x \in Nat : EndRecord(x) \in R
      /\ \A e \in [name : DOMAIN NameBytes, inode : I] : \A x \in Nat :
           [name |-> e.name, inode |-> e.inode, rec |-> x] \in R
  BY EndRecordIs DEF Records
<1>2. n \in Nat /\ n >= 1 /\ DOMAIN entries = 1 .. n
  OBVIOUS
<1>3. \A m \in 1 .. n : entries[m] \in [name : DOMAIN NameBytes, inode : I]
  <2> DEFINE T == [name : DOMAIN NameBytes, inode : I]
  <2>1. entries \in Seq(T)
    OBVIOUS
  <2> HIDE DEF T
  <2>2. \A m \in 1 .. n : entries[m] \in T
    BY <2>1
  <2> QED
    BY <2>2 DEF T
<1> HIDE DEF R, n
<1>4. FoldLeft(WriteEntry, base, entries) = Writing!Fold(base, base, entries)
  BY DEF Writing!Fold, WriteIn, FoldLeft, MapThenFoldSet, Max,
         Writing!Largest
<1>5. PICK g : Writing!Trace(base, base, n, entries, g)
  BY <1>2, Writing!FoldTrace
<1>6. /\ g[0] = base /\ Writing!Fold(base, base, entries) = g[n]
      /\ \A m \in 1 .. n : g[m] = WriteEntry(g[m - 1], entries[m])
  BY <1>5 DEF Writing!Trace, WriteIn
<1> DEFINE P == {m \in 0 .. n : Good(g[m]) /\ (m # 0 => g[m].left < BlockSize)}
<1>7. 0 \in P
  <2>1. Packing(R, base)
    BY BlockSizeAssumption DEF Packing
  <2> HIDE DEF base
  <2> QED
    BY <1>2, <1>6, <2>1
<1>8. ASSUME NEW m \in 1 .. n, m - 1 \in P PROVE m \in P
  <2>1. Packing(R, g[m - 1])
    BY <1>8
  <2>2. g[m] = WriteEntry(g[m - 1], entries[m])
    BY <1>6
  <2>3. entries[m].name \in DOMAIN NameBytes
    BY <1>3
  <2>4. \A x \in Nat : EndRecord(x) \in R
          /\ [name |-> entries[m].name, inode |-> entries[m].inode, rec |-> x] \in R
    BY <1>1, <1>3
  <2>5. Packing(R, g[m]) /\ g[m].left < BlockSize
    BY <1>1, <2>1, <2>2, <2>3, <2>4, WriteEntryPacks
  <2> QED
    BY <2>5
<1>9. 0 .. n \subseteq P
  <2> HIDE DEF P
  <2> QED
    BY <1>2, <1>7, <1>8, Writing!Upwards
<1>10. Packing(R, g[n]) /\ g[n].left < BlockSize
  BY <1>2, <1>9
<1>11. Pack(entries) = Finish(g[n]).blocks
  BY <1>4, <1>6 DEF Pack
<1>12. Packing(R, Finish(g[n])) /\ Finish(g[n]).left = BlockSize
  <2>1. EndRecord(g[n].left) \in R
    BY <1>1, <1>10 DEF Packing
  <2> QED
    BY <1>1, <1>10, <2>1, FinishPacks
<1> DEFINE b == Finish(g[n]).blocks
<1>13. b \in Seq(Seq(R)) /\ \A i \in DOMAIN b :
         RecSum(b[i]) = BlockSize /\ \A k \in DOMAIN b[i] : b[i][k].rec >= Header
  <2>1. ~(BlockSize < BlockSize)
    BY BlockSizeAssumption
  <2>2. b \in Seq(Seq(R)) /\ \A i \in 1 .. Len(b) :
         RecSum(b[i]) = BlockSize /\ \A k \in DOMAIN b[i] : b[i][k].rec >= Header
    BY <1>12, <2>1 DEF Packing
  <2> HIDE DEF b
  <2> QED
    BY <2>2
<1> HIDE DEF b
<1>14. WellFilled(b)
  BY <1>13 DEF WellFilled, RecSum
<1> QED
  BY <1>11, <1>13, <1>14 DEF b, R

\* Those of kept that come before k by what `at` gives them, and by their place
\* where it gives the same.
Earlier(kept, at, k) == {j \in kept : at[j] < at[k] \/ (at[j] = at[k] /\ j < k)}

\* Every rank below the number of them is that of one.
LEMMA RankExists ==
  ASSUME NEW n \in Nat, NEW kept \in SUBSET (1 .. n), NEW at \in [kept -> Nat],
         NEW r \in 1 .. Cardinality(kept)
  PROVE  \E k \in kept : Cardinality(Earlier(kept, at, k)) = r - 1
PROOF
<1> DEFINE c == Cardinality(kept)
           E(k) == Earlier(kept, at, k)
           rank == [k \in kept |-> Cardinality(E(k))]
<1>1. IsFiniteSet(kept) /\ c \in Nat
  <2>1. IsFiniteSet(1 .. n)
    BY FS_Interval
  <2>2. IsFiniteSet(kept)
    BY <2>1, FS_Subset
  <2> QED
    BY <2>2, FS_CardinalityType
<1>2. ASSUME NEW k \in kept
      PROVE  /\ IsFiniteSet(E(k)) /\ rank[k] \in Nat /\ rank[k] <= c - 1
             /\ k \notin E(k) /\ rank[k] = Cardinality(E(k))
  <2>1. E(k) \subseteq kept /\ k \notin E(k)
    BY DEF Earlier
  <2>2. rank[k] = Cardinality(E(k))
    OBVIOUS
  <2> HIDE DEF E, rank, c
  <2>3. IsFiniteSet(E(k)) /\ Cardinality(E(k)) \in Nat
    BY <1>1, <2>1, FS_Subset, FS_CardinalityType
  <2>4. IsFiniteSet(E(k) \cup {k}) /\ Cardinality(E(k) \cup {k}) = Cardinality(E(k)) + 1
    BY <2>1, <2>3, FS_AddElement
  <2>5. E(k) \cup {k} \in SUBSET kept
    BY <2>1
  <2>6. Cardinality(E(k) \cup {k}) <= c
    BY <1>1, <2>5, FS_Subset DEF c
  <2> QED
    BY <1>1, <2>1, <2>2, <2>3, <2>4, <2>6
<1>3. ASSUME NEW j \in kept, NEW k \in kept, j \in E(k) PROVE rank[j] < rank[k]
  <2>1. E(j) \cup {j} \in SUBSET E(k)
    <3>1. at[j] < at[k] \/ (at[j] = at[k] /\ j < k)
      BY <1>3 DEF Earlier
    <3>2. at[j] \in Nat /\ at[k] \in Nat /\ j \in Nat /\ k \in Nat
      OBVIOUS
    <3>3. ASSUME NEW x \in E(j) PROVE x \in E(k)
      <4>1. x \in kept /\ (at[x] < at[j] \/ (at[x] = at[j] /\ x < j))
        BY DEF Earlier
      <4>2. at[x] \in Nat /\ x \in Nat
        BY <4>1
      <4>3. at[x] < at[k] \/ (at[x] = at[k] /\ x < k)
        BY <3>1, <3>2, <4>1, <4>2
      <4> QED
        BY <4>1, <4>3 DEF Earlier
    <3>4. j \in E(k)
      BY <1>3
    <3> HIDE DEF E
    <3> QED
      BY <3>3, <3>4
  <2>2. /\ IsFiniteSet(E(j)) /\ IsFiniteSet(E(k)) /\ j \notin E(j)
        /\ rank[j] \in Nat /\ rank[k] \in Nat
        /\ rank[j] = Cardinality(E(j)) /\ rank[k] = Cardinality(E(k))
    BY <1>2
  <2> HIDE DEF E, rank
  <2>3. Cardinality(E(j) \cup {j}) = Cardinality(E(j)) + 1
    BY <2>2, FS_AddElement
  <2>4. Cardinality(E(j) \cup {j}) <= Cardinality(E(k))
    BY <2>1, <2>2, FS_Subset
  <2> QED
    BY <2>2, <2>3, <2>4
<1>4. ASSUME NEW j \in kept, NEW k \in kept, j # k PROVE rank[j] # rank[k]
  <2>1. j \in E(k) \/ k \in E(j)
    BY <1>4 DEF Earlier
  <2>2. rank[j] \in Nat /\ rank[k] \in Nat
    BY <1>2
  <2>3. rank[j] < rank[k] \/ rank[k] < rank[j]
    <3> HIDE DEF E, rank
    <3> QED
      BY <2>1, <1>3
  <2> HIDE DEF rank
  <2> QED
    BY <2>2, <2>3
<1> DEFINE T == 0 .. c - 1
<1>5. rank \in [kept -> T]
  <2>1. \A k \in kept : Cardinality(E(k)) \in T
    <3>1. \A k \in kept : rank[k] \in T
      <4> HIDE DEF rank, c
      <4> QED
        BY <1>1, <1>2
    <3> HIDE DEF T, E
    <3> QED
      BY <3>1
  <2> HIDE DEF T, E
  <2> QED
    BY <2>1
<1>6. rank \in Injection(kept, T)
  <2>1. \A a, b \in kept : rank[a] = rank[b] => a = b
    BY <1>4
  <2> HIDE DEF rank, T
  <2> QED
    BY <1>5, <2>1, Fun_IsInj
<1>7. IsFiniteSet(T) /\ Cardinality(T) = c
  <2> HIDE DEF c
  <2> QED
    BY <1>1, FS_Interval
<1>8. rank \in Surjection(kept, T)
  <2> HIDE DEF rank, T
  <2> QED
    BY <1>6, <1>7, FS_Injection
<1>9. r - 1 \in T
  <2> HIDE DEF c
  <2>1. r \in 1 .. c
    BY DEF c
  <2> QED
    BY <1>1, <2>1
<1>10. PICK k \in kept : rank[k] = r - 1
  <2> HIDE DEF rank, T
  <2>1. \A t \in T : \E k \in kept : rank[k] = t
    BY <1>8, Fun_SurjectionProperties
  <2> QED
    BY <1>9, <2>1
<1> QED
  BY <1>10

\* Every node has an inode, a hard link the inode of its target too, and all
\* but the root have a name of known length.
NodesNamed(f) ==
  /\ Len(f.inodes) \in Nat /\ DOMAIN f.inodes = 1 .. Len(f.inodes)
  /\ \A i \in DOMAIN f.tree.nodes :
       /\ f.tree.nodes[i].inode \in DOMAIN f.inodes
       /\ f.tree.nodes[i].link \in {0} \cup DOMAIN f.inodes
       /\ i # Root => f.tree.nodes[i].name \in DOMAIN NameBytes

\* The entries of a directory, sorted by inode, are a list of the names of its
\* children and of the two it gives itself.
LEMMA EntriesAre ==
  ASSUME NEW f, SoundFormatter(f), NodesNamed(f), NEW i \in DOMAIN f.tree.nodes
  PROVE  /\ EntriesOf(f, i) \in Seq([name : DOMAIN NameBytes, inode : Nat])
         /\ EntriesOf(f, i) # <<>>
PROOF
<1> DEFINE node == f.tree.nodes[i]
           up   == IF i = Root THEN node.inode ELSE f.tree.nodes[node.parent].inode
           kept == {k \in DOMAIN node.children :
                      f.inodes[Refers(f, node.children[k])].links > 0}
           At(k) == f.tree.nodes[node.children[k]].inode
           Before(k) == {j \in kept : At(j) < At(k) \/ (At(j) = At(k) /\ j < k)}
           pick == [r \in 1 .. Cardinality(kept) |->
                      CHOOSE k \in kept : Cardinality(Before(k)) = r - 1]
           byInode == [r \in 1 .. Cardinality(kept) |->
                    node.children[CHOOSE k \in kept : Cardinality(Before(k)) = r - 1]]
           E == [name : DOMAIN NameBytes, inode : Nat]
           own == <<[name |-> ".", inode |-> node.inode], [name |-> "..", inode |-> up]>>
           rest == [r \in DOMAIN byInode |->
             [name |-> NameOf(f.tree, byInode[r]), inode |-> Refers(f, byInode[r])]]
<1>1. EntriesOf(f, i) = own \o rest
  BY DEF EntriesOf
<1>2. /\ node.children \in Seq(Nat) /\ node.children = Children(f.tree, i)
      /\ \A k \in DOMAIN node.children :
           node.children[k] \in DOMAIN f.tree.nodes /\ node.children[k] # Root
  <2>1. Sound(f.tree) /\ DOMAIN f.tree.nodes = 1 .. Len(f.tree.nodes)
        /\ Len(f.tree.nodes) \in Nat
    BY NodesOf DEF SoundFormatter
  <2>2. /\ Children(f.tree, i) \in Seq(Nat)
        /\ \A k \in DOMAIN Children(f.tree, i) :
             /\ Children(f.tree, i)[k] \in DOMAIN f.tree.nodes
             /\ Children(f.tree, i)[k] > i
    BY <2>1, NodesOf DEF Sound
  <2>3. i >= 1 /\ i \in Nat
    BY <2>1
  <2> HIDE DEF node
  <2>4. node.children = Children(f.tree, i)
    BY DEF Children, node
  <2>5. ASSUME NEW k \in DOMAIN Children(f.tree, i) PROVE Children(f.tree, i)[k] # Root
    <3>1. Children(f.tree, i)[k] > i /\ Children(f.tree, i)[k] \in Nat
      BY <2>1, <2>2
    <3> QED
      BY <2>3, <3>1 DEF Root
  <2> QED
    BY <2>2, <2>4, <2>5
<1>3. \A j \in DOMAIN f.tree.nodes :
        f.tree.nodes[j].inode \in Nat /\ Refers(f, j) \in Nat
        /\ (j # Root => NameOf(f.tree, j) \in DOMAIN NameBytes)
  BY DEF NodesNamed, Refers, NameOf
<1>4. up \in Nat
  BY <1>3 DEF SoundFormatter, Sound
<1>5. {".", ".."} \subseteq DOMAIN NameBytes
  BY FormatterAssumption
<1>6. own \in Seq(E) /\ Len(own) = 2
  <2>1. [name |-> ".", inode |-> node.inode] \in E /\ [name |-> "..", inode |-> up] \in E
    BY <1>3, <1>4, <1>5
  <2> HIDE DEF E, up, node
  <2> QED
    BY <2>1
<1> DEFINE n == Len(node.children)
           at == [k \in kept |-> At(k)]
           c == Cardinality(kept)
<1>7. n \in Nat /\ kept \in SUBSET (1 .. n)
  <2> HIDE DEF node
  <2> QED
    BY <1>2
<1>8. at \in [kept -> Nat]
  <2>1. \A k \in kept : At(k) \in Nat
    <3> HIDE DEF node
    <3> QED
      BY <1>2, <1>3
  <2> HIDE DEF kept, At
  <2> QED
    BY <2>1
<1>9. \A k \in kept : Before(k) = Earlier(kept, at, k)
  <2> HIDE DEF kept, At
  <2> QED
    BY DEF Earlier
<1>10. c \in Nat
  <2> HIDE DEF kept, n
  <2>1. IsFiniteSet(1 .. n)
    BY <1>7, FS_Interval
  <2>2. IsFiniteSet(kept)
    BY <1>7, <2>1, FS_Subset
  <2> QED
    BY <2>2, FS_CardinalityType
<1>11. ASSUME NEW r \in 1 .. c
       PROVE  \E k \in kept : byInode[r] = node.children[k]
  <2>1. \E k \in kept : Cardinality(Earlier(kept, at, k)) = r - 1
    <3> HIDE DEF kept, at, n
    <3> QED
      BY <1>7, <1>8, RankExists DEF c
  <2>2. \E k \in kept : Cardinality(Before(k)) = r - 1
    <3> HIDE DEF kept, at, Before
    <3> QED
      BY <1>9, <2>1
  <2> DEFINE chosen == CHOOSE k \in kept : Cardinality(Before(k)) = r - 1
  <2>3. chosen \in kept
    <3> HIDE DEF kept, Before
    <3> QED
      BY <2>2
  <2>4. byInode[r] = node.children[chosen]
    <3> HIDE DEF kept, Before, node
    <3> QED
      OBVIOUS
  <2> HIDE DEF chosen, kept, byInode, node
  <2> QED
    BY <2>3, <2>4
<1>12. DOMAIN byInode = 1 .. c
  <2> HIDE DEF kept, Before, node
  <2> QED
    OBVIOUS
<1> HIDE DEF byInode, c
<1>13. ASSUME NEW r \in 1 .. c
       PROVE  [name |-> NameOf(f.tree, byInode[r]), inode |-> Refers(f, byInode[r])] \in E
  <2>1. byInode[r] \in DOMAIN f.tree.nodes /\ byInode[r] # Root
    <3>1. PICK k \in kept : byInode[r] = node.children[k]
      BY <1>11
    <3>2. k \in DOMAIN node.children
      OBVIOUS
    <3> HIDE DEF kept, node
    <3> QED
      BY <3>1, <3>2, <1>2
  <2> QED
    BY <2>1, <1>3
<1>14. rest \in Seq(E) /\ Len(rest) = c
  <2> HIDE DEF E
  <2> QED
    BY <1>10, <1>12, <1>13
<1> HIDE DEF own, rest, E
<1>15. own \o rest \in Seq(E) /\ Len(own \o rest) = 2 + c
  <2>1. own \o rest \in Seq(E)
    BY <1>6, <1>14
  <2>2. Len(own \o rest) = Len(own) + Len(rest)
    BY <1>6, <1>14, ConcatProperties
  <2> QED
    BY <1>6, <1>10, <1>14, <2>1, <2>2
<1> QED
  BY <1>1, <1>10, <1>15 DEF E

-----------------------------------------------------------------------------
(* Names and their parents.                                                *)

\* Node i is on the list of p's children.
Listed(t, p, i) == \E k \in DOMAIN Children(t, p) : Children(t, p)[k] = i

\* The nodes that are on the list of their parent.
Attached(t) == {i \in DOMAIN t.nodes \ {Root} : Listed(t, t.nodes[i].parent, i)}

\* A child names its parent, and no two children of a node have one name.
Distinct(t) ==
  \A p \in DOMAIN t.nodes : \A k \in DOMAIN Children(t, p) :
    /\ t.nodes[Children(t, p)[k]].parent = p
    /\ \A l \in DOMAIN Children(t, p) :
         NameOf(t, Children(t, p)[k]) = NameOf(t, Children(t, p)[l]) => k = l

\* A child is attached.
LEMMA ChildAttached ==
  ASSUME NEW t, Sound(t), Distinct(t), NEW p \in DOMAIN t.nodes, NEW k \in DOMAIN Children(t, p)
  PROVE  Children(t, p)[k] \in Attached(t) /\ t.nodes[Children(t, p)[k]].parent = p
PROOF
<1> DEFINE i == Children(t, p)[k]
<1>1. i \in DOMAIN t.nodes /\ i > p /\ p \in 1 .. Len(t.nodes) /\ Len(t.nodes) \in Nat
      /\ DOMAIN t.nodes = 1 .. Len(t.nodes)
  BY NodesOf DEF Sound
<1>2. i # Root
  BY <1>1 DEF Root
<1>3. t.nodes[i].parent = p
  BY DEF Distinct
<1>4. Listed(t, p, i)
  BY DEF Listed
<1> QED
  BY <1>1, <1>2, <1>3, <1>4 DEF Attached

\* What the index holds is attached, below what it is indexed for.
LEMMA IndexedAttached ==
  ASSUME NEW t, Sound(t), Distinct(t), NEW p, NEW n, Indexed(t, p, n)
  PROVE  LET i == t.index[<<p, n>>]
         IN i \in Attached(t) /\ t.nodes[i].parent = p /\ NameOf(t, i) = n
PROOF
<1>1. p \in DOMAIN t.nodes /\ FirstNamed(t, p, n, t.index[<<p, n>>])
  BY DEF Sound, IndexExact, Indexed
<1>2. PICK k \in DOMAIN Children(t, p) :
        Children(t, p)[k] = t.index[<<p, n>>] /\ NameOf(t, Children(t, p)[k]) = n
  BY <1>1 DEF FirstNamed, Positions
<1> QED
  BY <1>1, <1>2, ChildAttached

\* So is what a path leads to.
LEMMA FoundAttached ==
  ASSUME NEW t, Sound(t), Distinct(t), NEW S, NEW path \in Seq(S), path # <<>>,
         Lookup(t, path) # 0
  PROVE  LET i == Lookup(t, path)
         IN /\ i \in Attached(t)
            /\ t.nodes[i].parent = Lookup(t, Front(path))
            /\ NameOf(t, i) = Last(path)
PROOF
<1> DEFINE q == Lookup(t, Front(path))
           n == Last(path)
<1>1. Lookup(t, path) = StepTo(t, q, n)
  BY LookupBelow
<1> HIDE DEF q, n
<1>2. Indexed(t, q, n) /\ Lookup(t, path) = t.index[<<q, n>>]
  BY <1>1 DEF StepTo
<1> QED
  BY <1>2, IndexedAttached DEF q, n

\* remove_child() of an attached node takes it and no other off the list, and
\* its name is found no more.
LEMMA RemoveAttached ==
  ASSUME NEW t, Sound(t), Distinct(t), NEW i \in Attached(t),
         NEW u, u = RemoveChild(t, t.nodes[i].parent, NameOf(t, i))
  PROVE  /\ DOMAIN u.nodes = DOMAIN t.nodes
         /\ \A j \in DOMAIN t.nodes : u.nodes[j].parent = t.nodes[j].parent
         /\ Distinct(u)
         /\ Attached(u) = Attached(t) \ {i}
         /\ FindsAtLeast(t, u)
         /\ ~Indexed(u, t.nodes[i].parent, NameOf(t, i))
PROOF
<1> DEFINE p == t.nodes[i].parent
           n == NameOf(t, i)
<1>1. /\ i \in DOMAIN t.nodes /\ i # Root /\ p \in DOMAIN t.nodes
      /\ Len(t.nodes) \in Nat /\ DOMAIN t.nodes = 1 .. Len(t.nodes)
      /\ Children(t, p) \in Seq(Nat)
  BY NodesOf DEF Attached, Sound
<1>2. PICK k0 \in DOMAIN Children(t, p) : Children(t, p)[k0] = i
  BY DEF Attached, Listed
<1>3. Positions(t, p, n) = {k0}
  BY <1>1, <1>2 DEF Positions, Distinct
<1>4. PICK X : WellFormed(X, t)
  BY DEF Sound
<1> HIDE DEF p, n
<1>5. PICK m : m = Min(Positions(t, p, n))
  OBVIOUS
<1>6. m = k0
  <2>1. m \in Positions(t, p, n)
    BY <1>1, <1>3, <1>4, <1>5, PositionsBounded, LeastExists
  <2> QED
    BY <1>3, <2>1
<1>7. PICK v : v = Without(t, p, m)
  OBVIOUS
<1>8. u = [v EXCEPT !.index = Unindex(v, p, n)]
  BY <1>3, <1>5, <1>7 DEF RemoveChild, Without, p, n
<1>9. /\ v = [nodes |-> v.nodes, index |-> v.index] /\ v.index = t.index
      /\ DOMAIN v.nodes = DOMAIN t.nodes
      /\ \A q \in DOMAIN t.nodes :
            /\ NameOf(v, q) = NameOf(t, q)
            /\ v.nodes[q].parent = t.nodes[q].parent
            /\ q # p => Children(v, q) = Children(t, q)
      /\ DOMAIN Children(v, p) = 1 .. Len(Children(t, p)) - 1
      /\ \A k \in 1 .. Len(Children(t, p)) - 1 :
           Children(v, p)[k] = Children(t, p)[IF k < m THEN k ELSE k + 1]
  <2>1. Positions(t, p, n) # {} /\ p \in DOMAIN t.nodes
    BY <1>1, <1>3
  <2> QED
    BY <2>1, <1>4, <1>5, <1>7, RemoveChildEffect
<1>10. u.nodes = v.nodes /\ u.index = Unindex(v, p, n)
  BY <1>8, <1>9
<1>11. m \in 1 .. Len(Children(t, p)) /\ Len(Children(t, p)) \in Nat
       /\ DOMAIN Children(t, p) = 1 .. Len(Children(t, p))
  BY <1>1, <1>2, <1>6
<1>12. \A q \in DOMAIN t.nodes : Children(u, q) = Children(v, q) /\ NameOf(u, q) = NameOf(t, q)
  BY <1>9, <1>10 DEF Children, NameOf
<1> DEFINE Old(k) == IF k < m THEN k ELSE k + 1
<1>13. ASSUME NEW k \in DOMAIN Children(u, p)
       PROVE  /\ Old(k) \in DOMAIN Children(t, p) /\ Old(k) # m
              /\ Children(u, p)[k] = Children(t, p)[Old(k)]
  <2>1. Children(u, p) = Children(v, p)
    BY <1>1, <1>12
  <2>2. k \in 1 .. Len(Children(t, p)) - 1
    BY <1>9, <1>13, <2>1
  <2>3. Old(k) \in DOMAIN Children(t, p) /\ Old(k) # m
    BY <1>11, <2>2
  <2>4. Children(u, p)[k] = Children(t, p)[Old(k)]
    BY <1>9, <2>1, <2>2
  <2> QED
    BY <2>3, <2>4
<1>d. DOMAIN Children(u, p) = 1 .. Len(Children(t, p)) - 1
  BY <1>1, <1>9, <1>12
<1>14. \A k, l \in DOMAIN Children(u, p) : Old(k) = Old(l) => k = l
  <2>1. ASSUME NEW k \in Int, NEW l \in Int, NEW b \in Int,
               (IF k < b THEN k ELSE k + 1) = (IF l < b THEN l ELSE l + 1)
        PROVE  k = l
    BY <2>1
  <2>2. m \in Int /\ DOMAIN Children(u, p) \subseteq Int
    BY <1>11, <1>d
  <2> QED
    BY <2>1, <2>2
<1>15. ASSUME NEW k \in DOMAIN Children(t, p), k # m
       PROVE  \E l \in DOMAIN Children(u, p) : Old(l) = k
  <2>1. CASE k < m
    <3>1. k \in DOMAIN Children(u, p)
      BY <1>11, <1>15, <1>d, <2>1
    <3> QED
      BY <2>1, <3>1
  <2>2. CASE ~(k < m)
    <3>1. k - 1 \in DOMAIN Children(u, p) /\ Old(k - 1) = k
      <4>1. Children(u, p) = Children(v, p)
        BY <1>1, <1>12
      <4>2. k \in 1 .. Len(Children(t, p)) /\ m < k
        BY <1>11, <1>15, <2>2
      <4>3. k - 1 \in 1 .. Len(Children(t, p)) - 1 /\ ~(k - 1 < m) /\ k - 1 + 1 = k
        BY <1>11, <4>2
      <4> QED
        BY <1>9, <4>1, <4>3
    <3> QED
      BY <3>1
  <2> QED
    BY <2>1, <2>2
<1> HIDE DEF Old
<1>16. \A j : Listed(u, p, j) <=> Listed(t, p, j) /\ j # i
  <2>1. ASSUME NEW j, Listed(u, p, j) PROVE Listed(t, p, j) /\ j # i
    <3>1. PICK k \in DOMAIN Children(u, p) : Children(u, p)[k] = j
      BY <2>1 DEF Listed
    <3>2. /\ Old(k) \in DOMAIN Children(t, p) /\ Old(k) # m
          /\ j = Children(t, p)[Old(k)]
      BY <1>13, <3>1
    <3>3. j # i
      BY <1>1, <1>2, <1>6, <3>2 DEF Distinct
    <3> QED
      BY <3>2, <3>3 DEF Listed
  <2>2. ASSUME NEW j, Listed(t, p, j), j # i PROVE Listed(u, p, j)
    <3>1. PICK k \in DOMAIN Children(t, p) : Children(t, p)[k] = j
      BY <2>2 DEF Listed
    <3>2. k # m
      BY <1>2, <1>6, <2>2, <3>1
    <3>3. PICK l \in DOMAIN Children(u, p) : Old(l) = k
      BY <1>15, <3>1, <3>2
    <3> QED
      BY <1>13, <3>1, <3>3 DEF Listed
  <2> QED
    BY <2>1, <2>2
<1>17. \A q \in DOMAIN t.nodes : q # p => \A j : Listed(u, q, j) <=> Listed(t, q, j)
  BY <1>9, <1>12 DEF Listed
<1>18. Attached(u) = Attached(t) \ {i}
  <2>1. ASSUME NEW j \in DOMAIN t.nodes \ {Root}
        PROVE  j \in Attached(u) <=> j \in Attached(t) /\ j # i
    <3>1. t.nodes[j].parent \in DOMAIN t.nodes /\ u.nodes[j].parent = t.nodes[j].parent
      BY <1>9, <1>10 DEF Sound
    <3>2. CASE t.nodes[j].parent = p
      BY <1>9, <1>10, <1>16, <3>1, <3>2 DEF Attached
    <3>3. CASE t.nodes[j].parent # p
      <4>1. j # i
        BY <3>3 DEF p
      <4> QED
        BY <1>9, <1>10, <1>17, <3>1, <3>3, <4>1 DEF Attached
    <3> QED
      BY <3>2, <3>3
  <2> QED
    BY <1>9, <1>10, <2>1 DEF Attached
<1>19. Distinct(u)
  <2> SUFFICES ASSUME NEW q \in DOMAIN t.nodes, NEW k \in DOMAIN Children(u, q)
               PROVE  /\ u.nodes[Children(u, q)[k]].parent = q
                      /\ \A l \in DOMAIN Children(u, q) :
                           NameOf(u, Children(u, q)[k]) = NameOf(u, Children(u, q)[l]) => k = l
    BY <1>9, <1>10 DEF Distinct
  <2>0. \A j \in DOMAIN t.nodes :
          u.nodes[j].parent = t.nodes[j].parent /\ NameOf(u, j) = NameOf(t, j)
    BY <1>9, <1>10, <1>12
  <2>1. \A r \in DOMAIN t.nodes : \A l \in DOMAIN Children(t, r) :
          Children(t, r)[l] \in DOMAIN t.nodes
    BY NodesOf
  <2>2. CASE q # p
    BY <1>9, <1>12, <2>0, <2>1, <2>2 DEF Distinct
  <2>3. CASE q = p
    <3>1. ASSUME NEW l \in DOMAIN Children(u, p),
                 NameOf(u, Children(u, p)[k]) = NameOf(u, Children(u, p)[l])
          PROVE  k = l
      <4>1. /\ Old(k) \in DOMAIN Children(t, p) /\ Children(u, p)[k] = Children(t, p)[Old(k)]
            /\ Old(l) \in DOMAIN Children(t, p) /\ Children(u, p)[l] = Children(t, p)[Old(l)]
        BY <1>13, <2>3, <3>1
      <4>2. Old(k) = Old(l)
        <5> DEFINE c == Children(t, p)[Old(k)]
                   d == Children(t, p)[Old(l)]
        <5>1. c \in DOMAIN t.nodes /\ d \in DOMAIN t.nodes
          BY <1>1, <2>1, <4>1
        <5>2. NameOf(u, c) = NameOf(u, d)
          BY <3>1, <4>1
        <5>3. NameOf(t, c) = NameOf(t, d)
          BY <2>0, <5>1, <5>2
        <5> HIDE DEF Old
        <5> QED
          BY <1>1, <4>1, <5>3 DEF Distinct
      <4> QED
        BY <1>14, <2>3, <3>1, <4>2
    <3>2. Old(k) \in DOMAIN Children(t, p) /\ Children(u, p)[k] = Children(t, p)[Old(k)]
      BY <1>13, <2>3
    <3>3. u.nodes[Children(u, p)[k]].parent = p
      <4> DEFINE c == Children(t, p)[Old(k)]
      <4>1. c \in DOMAIN t.nodes /\ t.nodes[c].parent = p
        BY <1>1, <2>1, <3>2 DEF Distinct
      <4> HIDE DEF c
      <4>2. u.nodes[c].parent = p
        BY <2>0, <4>1
      <4> QED
        BY <3>2, <4>2 DEF c
    <3> QED
      BY <2>3, <3>1, <3>3
  <2> QED
    BY <2>2, <2>3
<1>20. Positions(v, p, n) = {}
  <2>1. ASSUME NEW k \in DOMAIN Children(v, p) PROVE NameOf(v, Children(v, p)[k]) # n
    <3>1. k \in DOMAIN Children(u, p) /\ Children(v, p)[k] = Children(u, p)[k]
      BY <1>1, <1>12, <2>1
    <3>2. Old(k) \in DOMAIN Children(t, p) /\ Old(k) # m
          /\ Children(u, p)[k] = Children(t, p)[Old(k)]
      BY <1>13, <3>1
    <3>3. Children(t, p)[Old(k)] \in DOMAIN t.nodes
      BY <1>1, <3>2, NodesOf
    <3>4. NameOf(t, Children(t, p)[Old(k)]) # n
      BY <1>3, <1>6, <3>2 DEF Positions
    <3> QED
      BY <1>9, <3>1, <3>2, <3>3, <3>4
  <2> QED
    BY <2>1 DEF Positions
<1>21. u.index = Restrict(t.index, DOMAIN t.index \ {<<p, n>>})
  BY <1>9, <1>10, <1>20 DEF Unindex
<1>22. FindsAtLeast(t, u) /\ ~Indexed(u, p, n)
  BY <1>21 DEF FindsAtLeast, Indexed, Restrict
<1> QED
  BY <1>9, <1>10, <1>18, <1>19, <1>22 DEF p, n

-----------------------------------------------------------------------------
(* The order in which unlink() visits nodes.                               *)

\* No two places of a sequence hold the same.
Once(s) == \A a, b \in DOMAIN s : s[a] = s[b] => a = b

\* What a sequence holds.
Holding(s, x) == \E k \in DOMAIN s : s[k] = x

\* Two sequences that have nothing in common, one after the other.
LEMMA ConcatOnce ==
  ASSUME NEW S, NEW s \in Seq(S), NEW r \in Seq(S), Once(s), Once(r),
         \A x : ~(Holding(s, x) /\ Holding(r, x))
  PROVE  Once(s \o r) /\ \A x : Holding(s \o r, x) <=> Holding(s, x) \/ Holding(r, x)
PROOF
<1> DEFINE c == s \o r
           m == Len(s)
           l == Len(r)
<1>1. m \in Nat /\ l \in Nat /\ DOMAIN s = 1 .. m /\ DOMAIN r = 1 .. l
  OBVIOUS
<1>2. /\ DOMAIN c = 1 .. m + l
      /\ \A k \in 1 .. m : c[k] = s[k]
      /\ \A k \in 1 .. l : c[m + k] = r[k]
  OBVIOUS
<1> HIDE DEF c, m, l
<1>3. \A k \in DOMAIN c : (k \in 1 .. m /\ c[k] = s[k])
                          \/ (k - m \in 1 .. l /\ c[k] = r[k - m])
  <2> SUFFICES ASSUME NEW k \in 1 .. m + l, k \notin 1 .. m
               PROVE  k - m \in 1 .. l /\ c[k] = r[k - m]
    BY <1>2
  <2>1. k - m \in 1 .. l /\ m + (k - m) = k
    BY <1>1
  <2> QED
    BY <1>2, <2>1
<1>4. \A x : Holding(c, x) <=> Holding(s, x) \/ Holding(r, x)
  <2>1. ASSUME NEW x, Holding(c, x) PROVE Holding(s, x) \/ Holding(r, x)
    BY <1>1, <1>3, <2>1 DEF Holding
  <2>2. ASSUME NEW x, Holding(s, x) PROVE Holding(c, x)
    <3>1. PICK k \in 1 .. m : s[k] = x
      BY <1>1, <2>2 DEF Holding
    <3>2. k \in 1 .. m + l
      BY <1>1
    <3> QED
      BY <1>2, <3>1, <3>2 DEF Holding
  <2>3. ASSUME NEW x, Holding(r, x) PROVE Holding(c, x)
    <3>1. PICK k \in 1 .. l : r[k] = x
      BY <1>1, <2>3 DEF Holding
    <3>2. m + k \in 1 .. m + l
      BY <1>1
    <3> QED
      BY <1>2, <3>1, <3>2 DEF Holding
  <2> QED
    BY <2>1, <2>2, <2>3
<1>5. ASSUME NEW a \in DOMAIN c, NEW b \in DOMAIN c, c[a] = c[b] PROVE a = b
  <2>1. CASE a \in 1 .. m /\ c[a] = s[a] /\ b \in 1 .. m /\ c[b] = s[b]
    BY <1>1, <1>5, <2>1 DEF Once
  <2>2. CASE /\ a - m \in 1 .. l /\ c[a] = r[a - m]
             /\ b - m \in 1 .. l /\ c[b] = r[b - m]
    <3>1. a - m = b - m
      BY <1>1, <1>5, <2>2 DEF Once
    <3> QED
      BY <1>1, <1>2, <3>1
  <2>3. CASE a \in 1 .. m /\ c[a] = s[a] /\ b - m \in 1 .. l /\ c[b] = r[b - m]
    BY <1>1, <1>5, <2>3 DEF Holding
  <2>4. CASE a - m \in 1 .. l /\ c[a] = r[a - m] /\ b \in 1 .. m /\ c[b] = s[b]
    BY <1>1, <1>5, <2>4 DEF Holding
  <2> QED
    BY <1>3, <2>1, <2>2, <2>3, <2>4
<1> QED
  BY <1>4, <1>5 DEF Once, c

\* Sequences of which no two have anything in common.
Disjoint(seqs) ==
  \A a, b \in DOMAIN seqs : \A x : Holding(seqs[a], x) /\ Holding(seqs[b], x) => a = b

\* Put together they hold what each of them does, once.
LEMMA FlattenOnce ==
  ASSUME NEW S, NEW seqs \in Seq(Seq(S)), Disjoint(seqs),
         \A k \in DOMAIN seqs : Once(seqs[k])
  PROVE  LET s == FlattenSeq(seqs)
         IN /\ s \in Seq(S) /\ Once(s)
            /\ \A x : Holding(s, x) => \E k \in DOMAIN seqs : Holding(seqs[k], x)
            /\ \A k \in DOMAIN seqs : \A x : Holding(seqs[k], x) => Holding(s, x)
PROOF
<1> DEFINE n == Len(seqs)
<1>1. n \in Nat /\ DOMAIN seqs = 1 .. n /\ \A i \in 1 .. n : seqs[i] \in Seq(S)
  OBVIOUS
<1>2. CASE n = 0
  <2>1. seqs = <<>>
    BY <1>2
  <2>2. FlattenSeq(seqs) = <<>>
    BY <2>1 DEF FlattenSeq
  <2>3. Once(<<>>) /\ <<>> \in Seq(S) /\ \A x : ~Holding(<<>>, x)
    BY DEF Once, Holding
  <2>4. DOMAIN seqs = {}
    BY <2>1
  <2> QED
    BY <2>2, <2>3, <2>4
<1>3. CASE n # 0
  <2>1. PICK F : /\ FlattenSeq(seqs) = F[n]
                 /\ F[1] = seqs[1]
                 /\ \A i \in 2 .. n : F[i] = F[i - 1] \o seqs[i]
    <3> HIDE DEF n
    <3>1. n \in Nat \ {0} /\ Len(seqs) = n
      BY <1>1, <1>3 DEF n
    <3> QED
      BY <3>1, FlattenSteps
  <2> DEFINE Upto(m, x) == \E k \in 1 .. m : Holding(seqs[k], x)
             Good(m) == F[m] \in Seq(S) /\ Once(F[m]) /\ \A x : Holding(F[m], x) <=> Upto(m, x)
             Q == {m \in 0 .. n : m # 0 => Good(m)}
  <2> HIDE DEF n
  <2>2. ASSUME NEW m \in 1 .. n, m - 1 \in Q PROVE m \in Q
    <3>1. CASE m = 1
      <4>1. F[1] = seqs[1] /\ 1 \in 1 .. n
        BY <2>1, <3>1
      <4>2. \A x : Upto(1, x) <=> Holding(seqs[1], x)
        OBVIOUS
      <4> QED
        BY <1>1, <3>1, <4>1, <4>2
    <3>2. CASE m # 1
      <4>1. m - 1 \in 1 .. n /\ m - 1 # 0 /\ m \in 2 .. n
        BY <1>1, <3>2
      <4>2. Good(m - 1)
        <5> HIDE DEF Good
        <5> QED
          BY <2>2, <4>1
      <4>3. F[m] = F[m - 1] \o seqs[m]
        BY <2>1, <4>1
      <4>4. ASSUME NEW x, Holding(F[m - 1], x), Holding(seqs[m], x) PROVE FALSE
        <5>1. PICK k \in 1 .. m - 1 : Holding(seqs[k], x)
          BY <4>2, <4>4
        <5>2. k \in 1 .. n /\ k # m
          BY <1>1, <4>1
        <5> QED
          BY <1>1, <4>4, <5>1, <5>2 DEF Disjoint
      <4>5. F[m - 1] \in Seq(S) /\ seqs[m] \in Seq(S) /\ Once(F[m - 1]) /\ Once(seqs[m])
        BY <1>1, <4>2
      <4>6. Once(F[m]) /\ \A x : Holding(F[m], x) <=> Holding(F[m - 1], x) \/ Holding(seqs[m], x)
        BY <4>3, <4>4, <4>5, ConcatOnce
      <4>7. F[m] \in Seq(S)
        BY <4>3, <4>5, ConcatProperties
      <4>8. \A x : Upto(m, x) <=> Upto(m - 1, x) \/ Holding(seqs[m], x)
        <5>1. \A k : k \in 1 .. m <=> k \in 1 .. m - 1 \/ k = m
          BY <1>1
        <5> QED
          BY <5>1
      <4>9. Good(m)
        <5> HIDE DEF Upto
        <5> QED
          BY <4>2, <4>6, <4>7, <4>8
      <4> HIDE DEF Good
      <4> QED
        BY <4>9
    <3> QED
      BY <3>1, <3>2
  <2>3. 0 .. n \subseteq Q
    <3>1. 0 \in Q
      BY <1>1
    <3> HIDE DEF Q
    <3> QED
      BY <1>1, <2>2, <3>1, Steps!Upwards
  <2>4. Good(n)
    <3> HIDE DEF Good
    <3>1. n \in Q
      <4> HIDE DEF Q
      <4> QED
        BY <1>1, <2>3
    <3> QED
      BY <1>3, <3>1
  <2> QED
    BY <1>1, <2>1, <2>4
<1> QED
  BY <1>2, <1>3

\* Every node below i is attached, and none is visited twice.
Visits(t, s, i) ==
  /\ s \in Seq({j \in DOMAIN t.nodes : j >= i})
  /\ Once(s)
  /\ \A x : Holding(s, x) =>
       x = i \/ (x \in Attached(t) /\ x > i /\ Holding(s, t.nodes[x].parent))

\* What is below two children of a node is not the same.
LEMMA ApartBelow ==
  ASSUME NEW t, Sound(t), NEW p \in DOMAIN t.nodes,
         NEW b \in Attached(t), NEW c \in Attached(t), b # c,
         t.nodes[b].parent = p, t.nodes[c].parent = p, b > p, c > p,
         NEW r, Visits(t, r, b), NEW s, Visits(t, s, c),
         NEW x, Holding(r, x), Holding(s, x)
  PROVE  FALSE
PROOF
<1> DEFINE P == {y \in DOMAIN t.nodes : Holding(r, y) /\ Holding(s, y)}
<1>1. Len(t.nodes) \in Nat /\ DOMAIN t.nodes = 1 .. Len(t.nodes)
  BY NodesOf
<1>2. \A y : Holding(r, y) => y \in DOMAIN t.nodes /\ y >= b
  BY DEF Visits, Holding
<1>2a. \A y : Holding(s, y) => y \in DOMAIN t.nodes /\ y >= c
  BY DEF Visits, Holding
<1>3. P \in SUBSET (1 .. Len(t.nodes)) /\ P # {}
  BY <1>1, <1>2
<1>4. Min(P) \in P /\ \A y \in P : Min(P) <= y
  <2> HIDE DEF P
  <2> QED
    BY <1>1, <1>3, LeastExists
<1> DEFINE m == Min(P)
<1>5. /\ m \in DOMAIN t.nodes /\ Holding(r, m) /\ Holding(s, m)
      /\ \A y \in DOMAIN t.nodes : Holding(r, y) /\ Holding(s, y) => m <= y
  <2> HIDE DEF m
  <2>1. m \in P /\ \A y \in P : m <= y
    BY <1>4 DEF m
  <2> QED
    BY <2>1
<1> HIDE DEF m, P
<1>6. ~Holding(r, p) /\ ~Holding(s, p)
  <2>1. b \in Nat /\ c \in Nat /\ p \in Nat
    BY <1>1 DEF Attached
  <2>2. ~(p >= b) /\ ~(p >= c)
    BY <2>1
  <2> QED
    BY <1>2, <1>2a, <2>2
<1>7. m # b
  BY <1>5, <1>6 DEF Visits
<1>8. m # c
  BY <1>5, <1>6 DEF Visits
<1>9. m \in Attached(t) /\ Holding(r, t.nodes[m].parent) /\ Holding(s, t.nodes[m].parent)
  BY <1>5, <1>7, <1>8 DEF Visits
<1>10. t.nodes[m].parent \in DOMAIN t.nodes /\ m > t.nodes[m].parent
  <2>1. m \in DOMAIN t.nodes \ {Root} /\ Listed(t, t.nodes[m].parent, m)
    BY <1>9 DEF Attached
  <2>2. t.nodes[m].parent \in DOMAIN t.nodes
    BY <2>1 DEF Sound
  <2> QED
    BY <2>1, <2>2 DEF Sound, Listed
<1> QED
  BY <1>1, <1>5, <1>9, <1>10

\* unlink() visits every node below i once, and then i.
LEMMA PostOrderVisits ==
  ASSUME NEW t, Sound(t), Distinct(t), NEW i \in DOMAIN t.nodes
  PROVE  Visits(t, PostOrder(t, i), i)
PROOF
<1> DEFINE D == DOMAIN t.nodes
           n == Len(t.nodes)
<1>1. n \in Nat /\ D = 1 .. n
  BY NodesOf
<1>2. PICK F : PostOrdered(t, F) /\ \A j \in DOMAIN t.nodes : PostOrder(t, j) = F[j]
  BY PostOrderIs
<1> DEFINE Q == {m \in 0 .. n : \A j \in D : j > n - m => Visits(t, F[j], j)}
<1>3. 0 \in Q
  BY <1>1
<1>4. ASSUME NEW m \in 1 .. n, m - 1 \in Q PROVE m \in Q
  <2> SUFFICES ASSUME NEW j \in D, j > n - m PROVE Visits(t, F[j], j)
    OBVIOUS
  <2> DEFINE C == Children(t, j)
             S == {k \in D : k >= j}
             seqs == [k \in DOMAIN C |-> F[C[k]]]
             w == FlattenSeq(seqs)
  <2>1. C \in Seq(Nat) /\ Len(C) \in Nat /\ DOMAIN C = 1 .. Len(C)
    BY NodesOf
  <2>2. ASSUME NEW k \in DOMAIN C
        PROVE  /\ C[k] \in D /\ C[k] > j /\ C[k] \in Attached(t) /\ t.nodes[C[k]].parent = j
               /\ Visits(t, F[C[k]], C[k])
    <3>1. C[k] \in D /\ C[k] > j
      BY <2>2, NodesOf DEF Sound
    <3>2. C[k] \in Attached(t) /\ t.nodes[C[k]].parent = j
      BY <2>2, ChildAttached
    <3>3. C[k] > n - (m - 1)
      BY <1>1, <3>1
    <3> HIDE DEF C
    <3> QED
      BY <1>4, <3>1, <3>2, <3>3
  <2>3. F[j] = Append(w, j)
    BY <1>2 DEF PostOrdered
  <2> HIDE DEF C
  <2>4. ASSUME NEW k \in DOMAIN C PROVE F[C[k]] \in Seq(S) /\ Once(F[C[k]])
    <3>1. F[C[k]] \in Seq({y \in D : y >= C[k]}) /\ Once(F[C[k]])
      BY <2>2, <2>4 DEF Visits
    <3>2. {y \in D : y >= C[k]} \subseteq S
      BY <1>1, <2>2, <2>4
    <3> HIDE DEF S, D
    <3> QED
      BY <3>1, <3>2
  <2>5. seqs \in Seq(Seq(S)) /\ DOMAIN seqs = DOMAIN C
    <3> DEFINE SS == Seq(S)
    <3>1. \A k \in 1 .. Len(C) : F[C[k]] \in SS
      BY <2>1, <2>4
    <3> HIDE DEF SS
    <3>2. [k \in 1 .. Len(C) |-> F[C[k]]] \in Seq(SS)
      BY <2>1, <3>1
    <3> QED
      BY <2>1, <3>2 DEF SS
  <2>6. \A k \in DOMAIN C : seqs[k] = F[C[k]]
    OBVIOUS
  <2> HIDE DEF S, seqs
  <2>7. Disjoint(seqs)
    <3> SUFFICES ASSUME NEW a \in DOMAIN C, NEW b \in DOMAIN C, NEW x,
                        Holding(F[C[a]], x), Holding(F[C[b]], x), a # b
                 PROVE  FALSE
      BY <2>5, <2>6 DEF Disjoint
    <3>1. C[a] # C[b]
      BY DEF Distinct, C
    <3> QED
      BY <2>2, <3>1, ApartBelow
  <2>8. /\ w \in Seq(S) /\ Once(w)
        /\ \A x : Holding(w, x) => \E k \in DOMAIN C : Holding(F[C[k]], x)
        /\ \A k \in DOMAIN C : \A x : Holding(F[C[k]], x) => Holding(w, x)
    <3>1. \A k \in DOMAIN seqs : Once(seqs[k])
      BY <2>4, <2>5, <2>6
    <3> HIDE DEF w
    <3>2. w = FlattenSeq(seqs)
      BY DEF w
    <3>3. /\ w \in Seq(S) /\ Once(w)
          /\ \A x : Holding(w, x) => \E k \in DOMAIN seqs : Holding(seqs[k], x)
          /\ \A k \in DOMAIN seqs : \A x : Holding(seqs[k], x) => Holding(w, x)
      BY <2>5, <2>7, <3>1, <3>2, FlattenOnce
    <3> QED
      BY <2>5, <2>6, <3>3
  <2> HIDE DEF w
  <2>9. ASSUME NEW x, Holding(w, x)
        PROVE  x \in Attached(t) /\ x > j
               /\ (t.nodes[x].parent = j \/ Holding(w, t.nodes[x].parent))
    <3>1. PICK k \in DOMAIN C : Holding(F[C[k]], x)
      BY <2>8, <2>9
    <3>2. /\ C[k] \in D /\ C[k] > j /\ C[k] \in Attached(t) /\ t.nodes[C[k]].parent = j
          /\ Visits(t, F[C[k]], C[k])
      BY <2>2
    <3>3. x = C[k] \/ (x \in Attached(t) /\ x > C[k] /\ Holding(F[C[k]], t.nodes[x].parent))
      BY <3>1, <3>2 DEF Visits
    <3>4. CASE x = C[k]
      BY <3>2, <3>4
    <3>5. CASE x # C[k]
      <4>1. Holding(w, t.nodes[x].parent)
        BY <2>8, <3>3, <3>5
      <4>2. x \in D
        BY <3>3, <3>5 DEF Attached
      <4> QED
        BY <1>1, <3>2, <3>3, <3>5, <4>1, <4>2
    <3> QED
      BY <3>4, <3>5
  <2>10. j \in S
    BY <1>1 DEF S
  <2>11. Once(<<j>>) /\ \A x : Holding(<<j>>, x) <=> x = j
    BY DEF Once, Holding
  <2>12. Append(w, j) = w \o <<j>>
    <3> HIDE DEF D
    <3> QED
      BY <2>8, <2>10
  <2>13. Once(F[j]) /\ \A x : Holding(F[j], x) <=> Holding(w, x) \/ x = j
    <3>1. ~Holding(w, j)
      BY <1>1, <2>9
    <3>2. <<j>> \in Seq(S)
      BY <2>10
    <3> DEFINE v == <<j>>
    <3> HIDE DEF v
    <3>3. /\ w \in Seq(S) /\ v \in Seq(S) /\ Once(w) /\ Once(v)
          /\ \A x : ~(Holding(w, x) /\ Holding(v, x))
      BY <2>8, <2>11, <3>1, <3>2 DEF v
    <3>4. Once(w \o v) /\ \A x : Holding(w \o v, x) <=> Holding(w, x) \/ Holding(v, x)
      BY <3>3, ConcatOnce
    <3> QED
      BY <2>3, <2>11, <2>12, <3>4 DEF v
  <2>14. F[j] \in Seq(S)
    BY <2>3, <2>8, <2>10, AppendProperties
  <2> QED
    BY <2>9, <2>13, <2>14 DEF Visits, S
<1>5. 0 .. n \subseteq Q
  <2> HIDE DEF Q, n
  <2> QED
    BY <1>1, <1>3, <1>4, Steps!Upwards
<1>6. n \in Q
  <2> HIDE DEF Q
  <2> QED
    BY <1>1, <1>5
<1>7. i > n - n
  BY <1>1
<1> QED
  BY <1>2, <1>6, <1>7
=============================================================================
