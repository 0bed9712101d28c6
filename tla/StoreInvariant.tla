--------------------------- MODULE StoreInvariant ---------------------------
(* The inductive invariants behind the theorems about the image store      *)
(* (module StoreProofs): why the lock of a key is enough.                  *)
EXTENDS Store

\* A builder past Lock holds the lock of its key.
LockHeld == \A b \in Builders : pc[b] \notin {"idle", "lock"} => lock[want[b]] = b

\* The names whose files are never linked anywhere else.
Private == {Tmp(k) : k \in Keys} \cup {Disk(d) : d \in Disks}

Alone ==
  \A n \in Private, m \in Names : dir[n] # None /\ dir[m] = dir[n] => m = n

\* Only the builder that formats the image of k has tmp/<k>.building open.
StagingWriter ==
  \A p \in Procs, k \in Keys : out[p] # None /\ out[p] = dir[Tmp(k)] =>
    p \in Builders /\ pc[p] = "format" /\ want[p] = k

ExclusiveInv == TypeOK /\ LockHeld /\ Alone /\ StagingWriter /\ OneWriterPerFile

\* Where power may be lost, the bytes of file i are safe.
Durable(i) == "power" \in Faults => inode[i].synced

\* A builder that formats writes the image of its key to its staging file.
Formatting ==
  \A b \in Builders : pc[b] = "format" =>
    out[b] = dir[Tmp(want[b])] /\ inode[out[b]].content = want[b]

\* When put is called the staging file is complete.
Staged ==
  \A b \in Builders : pc[b] = "put" =>
    Image(dir[Tmp(want[b])], want[b]) /\ Durable(dir[Tmp(want[b])])

\* Nobody has a blob open for writing.
BlobsClosed == \A p \in Procs, k \in Keys : out[p] # None => out[p] # dir[Blob(k)]

BlobsDurable == \A k \in Keys : Exists(Blob(k)) => Durable(dir[Blob(k)])

BlobInv ==
  ExclusiveInv /\ Formatting /\ Staged /\ BlobsClosed /\ BlobsDurable /\ BlobWhole

\* The names an image is installed under and staged as.
Catalog == {Cat(d) : d \in Dests} \cup {Part(d) : d \in Dests}

\* Nothing but a name is missing: the image is complete, its bytes are safe and
\* nobody writes them.
Settled(i) ==
  /\ \E k \in Keys : Image(i, k)
  /\ Durable(i)
  /\ \A p \in Procs : out[p] # i

CatalogSettled == \A n \in Catalog : Exists(n) => Settled(dir[n])

CatalogInv == BlobInv /\ CatalogSettled

-----------------------------------------------------------------------------
(* Installs that may copy.                                                 *)

\* No two installs go through one staging name at a time.
InstallsApart ==
  \A b, c \in Builders :
    pc[b] \in InstallPc /\ pc[c] \in InstallPc /\ Part(dest[b]) = Part(dest[c])
      => b = c

\* Enough for that: two processes are never asked to install images of
\* different keys under one staging name, so the lock of a key is the lock of
\* its staging names as well.
OwnStaging ==
  \A b, c \in Builders : b # c =>
    \A q \in Requests[b], r \in Requests[c] :
      q.dest # None /\ r.dest # None /\ Stem[q.dest] = Stem[r.dest]
        => q.key = r.key

\* A builder works on what it was asked for.
Asked ==
  \A b \in Builders : pc[b] # "idle" =>
    \E q \in Requests[b] : q.key = want[b] /\ q.dest = dest[b]

\* A builder that copies writes the image of its key to its .part.
Copying ==
  \A b \in Builders : pc[b] = "copy_out" =>
    out[b] = dir[Part(dest[b])] /\ inode[out[b]].content = want[b]

\* When the .part is renamed it holds the image that was asked for.
Ready ==
  \A b \in Builders : pc[b] = "publish" =>
    LET i == dir[Part(dest[b])] IN Image(i, want[b]) /\ Settled(i)

NamesSettled == \A d \in Dests : Exists(Cat(d)) => Settled(dir[Cat(d)])

InstallInv == BlobInv /\ Copying /\ Ready /\ NamesSettled

-----------------------------------------------------------------------------
(* What builds, copies and gc find.                                        *)

\* Only the builder that puts the image of k by copying has its blob open.
BlobWriter ==
  \A p \in Procs, k \in Keys : out[p] # None /\ out[p] = dir[Blob(k)] =>
    p \in Builders /\ pc[p] = "copy_in" /\ want[p] = k

HitInv == ExclusiveInv /\ BlobWriter

\* No two copies go to one disk at a time.
DisksApart ==
  \A m, n \in Copiers : dest[m] = dest[n] /\ dest[m] # None => m = n

\* Enough for that: every copier is asked for disks of its own.
OwnDisks ==
  \A m, n \in Copiers : m # n =>
    \A q \in Requests[m], r \in Requests[n] : q.dest # r.dest

\* A copier works on a disk it was asked for.
DiskAsked ==
  \A m \in Copiers : dest[m] # None => \E q \in Requests[m] : q.dest = dest[m]

\* A copier writes the image of its key to its disk.
Delivering ==
  \A m \in Copiers : pc[m] \in {"clone", "copying"} =>
    /\ out[m] = dir[Disk(dest[m])]
    /\ inode[out[m]].content = want[m]
    /\ ~inode[out[m]].ro

DeliveryInv == BlobInv /\ Delivering

\* No put is cut short: nothing is killed and no call fails.
Unbroken == Faults \cap {"crash", "power", "io"} = {}

\* Some builder of k is at one of the steps at.
Putting(k, at) == \E b \in Builders : want[b] = k /\ pc[b] \in at

SealedOrPut ==
  \A k \in Keys : Exists(Blob(k)) =>
    inode[dir[Blob(k)]].ro \/ Putting(k, {"copy_in", "seal"})

SealInv == ExclusiveInv /\ SealedOrPut

RecordedOrPut ==
  \A k \in Keys : Exists(Blob(k)) =>
    k \in meta \/ Putting(k, {"copy_in", "seal", "sync", "record"})

\* gc forgets what is gone.
ForgottenGone == \A c \in Collectors : pc[c] = "forget" => ~Exists(Blob(want[c]))

RecordInv == ExclusiveInv /\ Quiet /\ RecordedOrPut /\ ForgottenGone

\* Where put is a rename nobody copies a blob.
NoCopyIn == Renames => \A b \in Builders : pc[b] # "copy_in"

\* What a builder is going to use is there.
BlobThere ==
  \A b \in Builders :
    pc[b] \in {"entry", "touch", "copy_in", "seal", "sync", "record", "stat"} \cup InstallPc
      => Exists(Blob(want[b]))

StagingThere ==
  \A b \in Builders : pc[b] \in {"format", "put"} => Exists(Tmp(want[b]))

PartThere ==
  \A b \in Builders :
    /\ pc[b] = "link" => ~Exists(Part(dest[b]))
    /\ pc[b] \in {"copy_out", "publish"} => Exists(Part(dest[b]))

SuccessInv ==
  /\ ExclusiveInv /\ NoCopyIn /\ Quiet
  /\ BlobThere /\ StagingThere /\ PartThere /\ NoSpuriousFailure

\* What gc is going to remove is not installed.
NotInstalled ==
  \A c \in Collectors : pc[c] = "evict" =>
    \A d \in Dests : Exists(Cat(d)) => dir[Cat(d)] # dir[Blob(want[c])]

SpareInv == TypeOK /\ Quiet /\ NotInstalled
=============================================================================
