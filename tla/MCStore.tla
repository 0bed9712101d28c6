------------------------------ MODULE MCStore ------------------------------
(* Small instances of Store for TLC. *)
EXTENDS StoreImplementsCache, Naturals, SequencesExt

CONSTANTS k1, k2, d1, d2, v1, v2, b1, b2, m1, c1, c2

(***************************************************************************)
(* Files are numbered by the name they are created under: the staging      *)
(* file of a key, the .part of a destination that is copied to, a VM disk, *)
(* and the blob itself when put copies.  A file may outlive its first name *)
(* under the other names it was moved or linked to, so each name has room  *)
(* for Generations files.                                                  *)
(***************************************************************************)
Generations == 4

Births ==
  SetToSeq({Tmp(k) : k \in Keys} \cup {Part(d) : d \in Dests \ Linkable}
             \cup {Disk(d) : d \in Disks}
             \cup (IF Renames THEN {} ELSE {Blob(k) : k \in Keys}))

InodeNumbers == 1 .. Generations * Len(Births)

NumberPool ==
  [n \in Names |-> {i \in InodeNumbers : Births[((i - 1) \div Generations) + 1] = n}]

\* <dest>.ext4.part is one file per destination.
OwnStem == [d \in Dests |-> d]

Ask(ks, ds, rs) == [key : ks, dest : ds, refresh : rs]

\* Each builder installs under its own catalog name; one of them may
\* refresh.
OwnDests ==
  [p \in Builders \cup Copiers |->
     IF p \in Copiers THEN Ask(Keys, Disks, {FALSE})
     ELSE IF p = b1 THEN Ask(Keys, {d1}, BOOLEAN)
     ELSE Ask(Keys, {d2}, {FALSE})]

\* A builder that is asked for anything.
AnyRequest ==
  [p \in Builders \cup Copiers |->
     IF p \in Copiers THEN Ask(Keys, Disks, {FALSE})
     ELSE Ask(Keys, Dests \cup {None}, BOOLEAN)]

\* Builders only fill the store.
StoreOnly ==
  [p \in Builders \cup Copiers |->
     IF p \in Copiers THEN Ask(Keys, Disks, {FALSE}) ELSE Ask(Keys, {None}, BOOLEAN)]

\* Any builder may install under any name, and asks for its own key.
SharedDests ==
  [p \in Builders \cup Copiers |->
     Ask({IF p = b1 THEN k1 ELSE k2} \cap Keys, Dests, {FALSE})]
=============================================================================
