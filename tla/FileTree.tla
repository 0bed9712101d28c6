------------------------------ MODULE FileTree ------------------------------
(***************************************************************************)
(* The in-memory directory tree the ext4 formatter and the reader build    *)
(* (src/arcbox_ext4/file_tree.rs): a vector of nodes that name their       *)
(* children by position, and a hash index from (parent, name) to a child   *)
(* that replaced the scan of the parent's children.                        *)
(*                                                                         *)
(* A tree is a record [nodes, index].  Node 1 is the root; 0 is no node.   *)
(* A path is the sequence of its components, so the root is <<>>.          *)
(***************************************************************************)
EXTENDS SequencesExt, FiniteSetsExt, Integers

Root == 1

\* A node nothing hangs below yet.  link is the inode of a hard link's target.
Node(ino, name, blocks, link) ==
  [inode |-> ino, name |-> name, children |-> <<>>, parent |-> 0,
   blocks |-> blocks, link |-> link]

NewTree(ino) == [nodes |-> <<Node(ino, "/", {}, 0)>>, index |-> <<>>]

Children(t, i) == t.nodes[i].children
NameOf(t, i) == t.nodes[i].name
Indexed(t, p, n) == <<p, n>> \in DOMAIN t.index

\* Walks the index, component by component.
Lookup(t, path) ==
  LET Step(i, n) == IF i # 0 /\ Indexed(t, i, n) THEN t.index[<<i, n>>] ELSE 0
  IN FoldLeft(Step, Root, path)
\* HashMap::entry().or_insert(): the first child of a name stays indexed.
Reindex(index, p, n, i) ==
  [e \in DOMAIN index \cup {<<p, n>>} |-> IF e \in DOMAIN index THEN index[e] ELSE i]

AddChild(t, p, node) ==
  LET i == Len(t.nodes) + 1
  IN [nodes |-> Append([t.nodes EXCEPT ![p].children = Append(@, i)],
                       [node EXCEPT !.parent = p]),
      index |-> Reindex(t.index, p, node.name, i)]

\* The positions at which the children of p have name n.
Positions(t, p, n) ==
  {k \in DOMAIN Children(t, p) : NameOf(t, Children(t, p)[k]) = n}
\* Mutant of Unindex: the index is left alone.
UnindexNothing(t, p, n) == t.index

\* The index of t with (p, n) brought in line with the children of p.
Unindex(t, p, n) ==
  IF Positions(t, p, n) = {} THEN Restrict(t.index, DOMAIN t.index \ {<<p, n>>})
  ELSE [t.index EXCEPT ![<<p, n>>] = Children(t, p)[Min(Positions(t, p, n))]]

\* The first child of that name leaves its parent; the node itself stays.
RemoveChild(t, p, n) ==
  IF Positions(t, p, n) = {} THEN t
  ELSE LET less == [t EXCEPT !.nodes[p].children =
                      RemoveAt(@, Min(Positions(t, p, n)))]
       IN [less EXCEPT !.index = Unindex(less, p, n)]

\* node_path(): the names from the root down to node i.
NodePath(t, i) ==
  LET Path[j \in 1 .. i] ==
        IF t.nodes[j].parent = 0 THEN <<>>
        ELSE Append(Path[t.nodes[j].parent], NameOf(t, j))
  IN Path[i]

-----------------------------------------------------------------------------

\* The scan the index replaced: child c of p is the first one named n.
FirstNamed(t, p, n, c) ==
  \E k \in Positions(t, p, n) :
    /\ Children(t, p)[k] = c
    /\ \A j \in Positions(t, p, n) : k <= j

\* "For any (parent, name) present in children, the index maps to the first
\* such child", and it holds nothing else (file_tree.rs 42-43).
IndexExact(t) ==
  /\ \A e \in DOMAIN t.index :
       /\ e[1] \in DOMAIN t.nodes
       /\ FirstNamed(t, e[1], e[2], t.index[e])
  /\ \A p \in DOMAIN t.nodes : \A k \in DOMAIN Children(t, p) :
       Indexed(t, p, NameOf(t, Children(t, p)[k]))
=============================================================================
