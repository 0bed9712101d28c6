------------------------ MODULE StoreImplementsCache ------------------------
(* The store of module Store, with all its steps, crashes and evictions,   *)
(* implements the cache of module ImageCache.                              *)
EXTENDS Store

\* The image a file holds, or "torn" if its bytes are no complete image.
Shown(i) == IF i = None THEN None
            ELSE IF inode[i].whole /\ inode[i].content # None
                   THEN inode[i].content
            ELSE "torn"

\* A build has its image once get() found a blob that it is not asked to
\* rebuild, or put() has named the new one; it has installed it once the
\* catalog name is renamed into place, or found to be a link to the blob.
StageOf(b) ==
  CASE pc[b] \in {"idle", "err"} -> "idle"
    [] pc[b] \in {"lock", "get", "export", "format", "put"} -> "asked"
    [] pc[b] \in {"entry", "touch"} /\ refresh[b] -> "asked"
    [] pc[b] \in {"tidy", "ok"} /\ dest[b] # None -> "installed"
    [] OTHER -> "supplied"

\* What the build was asked for, until it ends.
AskOf(b) == IF StageOf(b) = "idle" THEN <<None, None>> ELSE <<want[b], dest[b]>>

\* The cache as the files and the builders show it.
Stored == {k \in Keys : Image(dir[Blob(k)], k)}
Shows  == [d \in Dests |-> Shown(dir[Cat(d)])]
Stages == [b \in Builders |-> StageOf(b)]
Asks   == [b \in Builders |-> AskOf(b)]

Cache == INSTANCE ImageCache WITH
  stored <- Stored, catalog <- Shows, stage <- Stages, request <- Asks

\* Every behaviour of the store is one of the abstract cache: an image is in
\* the cache as a whole or not at all, and a catalog name changes in one step,
\* to the image its build was asked for (store.rs 303-307, 345-350).
ImplementsCache == Cache!Spec
=============================================================================
