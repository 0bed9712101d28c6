------------------------------ MODULE DirBlocks ------------------------------
(***************************************************************************)
(* How the entries of a directory are packed into blocks                   *)
(* (src/arcbox_ext4/dir.rs): records padded to four bytes, none across two *)
(* blocks, and in each block a last record of inode 0 that takes the rest. *)
(***************************************************************************)
EXTENDS SequencesExt, Integers, Blocks

CONSTANT NameBytes    (* the length of each name                           *)

Header == 8           \* DirectoryEntry::SIZE
Trailing == 12        \* what a block keeps free for its last record

EntrySize(name) == ((Header + NameBytes[name] + 3) \div 4) * 4

\* A name is at most 255 bytes, and a block of 4096 has room for its record.
ASSUME NamesAssumption ==
  \A n \in DOMAIN NameBytes : NameBytes[n] \in Nat /\ EntrySize(n) + Trailing <= BlockSize

\* The record that ends a block, and the blocks and room after writing it.
EndRecord(left) == [name |-> "", inode |-> 0, rec |-> left]

Finish(w) ==
  IF w.left <= 0 THEN [w EXCEPT !.left = BlockSize]
  ELSE [blocks |-> [w.blocks EXCEPT ![Len(w.blocks)] = Append(@, EndRecord(w.left))],
        left   |-> BlockSize]
\* Mutant of Fits: no room is kept for the last record.
FitsExactly(w, name) == w.left >= EntrySize(name)

Fits(w, name) == w.left >= EntrySize(name) + Trailing

\* write_dir_entry(): a block that cannot take the record is finished first.
WriteEntry(w, e) ==
  LET v    == IF Fits(w, e.name) THEN w ELSE Finish(w)
      rec  == [name |-> e.name, inode |-> e.inode, rec |-> EntrySize(e.name)]
      grow == v.left = BlockSize           \* the first record of a block
  IN [blocks |-> IF grow THEN Append(v.blocks, <<rec>>)
                 ELSE [v.blocks EXCEPT ![Len(v.blocks)] = Append(@, rec)],
      left   |-> v.left - EntrySize(e.name)]

\* The blocks of a directory with these entries.
Pack(entries) ==
  Finish(FoldLeft(WriteEntry, [blocks |-> <<>>, left |-> BlockSize], entries)).blocks

\* parse_dir_entries(): records of inode 0 or without a name are passed over.
ParseBlock(records) ==
  LET seen == SelectSeq(records, LAMBDA r : r.inode # 0 /\ r.name # "")
  IN [i \in DOMAIN seen |-> [name |-> seen[i].name, inode |-> seen[i].inode]]

ParseBlocks(blocks) == FlattenSeq([i \in DOMAIN blocks |-> ParseBlock(blocks[i])])

\* The records of every block follow one another to its very end, so that the
\* parser meets each of them, and each has room for its header (dir.rs 56-62).
WellFilled(blocks) ==
  \A i \in DOMAIN blocks :
    /\ SumFunction([k \in DOMAIN blocks[i] |-> blocks[i][k].rec]) = BlockSize
    /\ \A k \in DOMAIN blocks[i] : blocks[i][k].rec >= Header
=============================================================================
