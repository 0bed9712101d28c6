# A verification project for vmbuild

vmbuild turns a Dockerfile into an ext4 root filesystem for a VM. BuildKit
solves the Dockerfile, a content-addressed store keeps one image per *recipe
key*, an ext4 writer makes the image from a tar, and images are linked into
heyvm's catalog or copied for a VM. This directory holds TLA+ modules of that
program, TLC configurations that check them on small instances, and proofs
checked by TLAPS.

Paths are those of the repository (`src/store.rs` is the crate's file). Line
numbers in comments are lines of those files.

## 1. Inventory

| component | state | operations | talks to |
|---|---|---|---|
| image store, POSIX (`src/store.rs`) | `blobs/<key>.ext4`, `meta/<key>.json`, `tmp/<key>.building`, `locks/<key>`; catalog names and VM disks outside | `lock`, `get`, `put`, `install`, `materialize`, `release`, `list`, `gc` | called by the pipeline and the command line; shares its directory with every other vmbuild process |
| eviction policy (`Store::gc`) | the listed entries, a running total, the free space last measured | one pass | the filesystem's free space; other processes' blobs |
| build pipeline (`src/build.rs`) | locals of one request | `build`, `build_uncached` | BuildKit, store, ext4 writer, e2fsprogs |
| BuildKit driver (`src/buildkit.rs`) | none (a temporary context) | `solve` (diffIDs), `export_rootfs_tar` (a second buildx run) | docker |
| cache key (`src/key.rs`) | none | `digest`, `uuid` | pipeline |
| ZFS backend (`src/zfs.rs`) | a dataset and a `@ready` snapshot per key, a clone per disk, metadata files | the store's operations, through `zfs(8)` | zfs, the kernel's clone graph |
| tar to ext4 (`src/ext4/`) | deferred hard links, statistics; the staging file between the tools | `write_ext4_from_tar`, sizing, `add_journal`, `normalize_timestamps` | formatter, e2fsprogs |
| ext4 formatter (`src/arcbox_ext4/formatter.rs`, `file_tree.rs`) | inodes, link counts, the path tree, the write position | `create`, `link`, `unlink`, `close` | extent, dir and xattr encoders |
| extents, directory blocks, xattrs (`extent.rs`, `dir.rs`, `xattr.rs`) | none, or one block being filled | block arithmetic and packing | formatter, reader |
| ext4 reader, unpack (`reader.rs`, `reader_io.rs`, `unpack.rs`) | a parsed tree | lookup, read, OCI whiteouts | formatter |
| on-disk structures (`types.rs`, `constants.rs`) | none | serialisation | all of `arcbox_ext4` |
| doctor (`src/doctor.rs`) | none | advisory probes | – |
| command line (`src/main.rs`) | none | chooses backend, paths and operation | all |

**How they interact.** Nothing runs inside vmbuild concurrently: concurrency is
between *processes* that share a store directory. They meet only in the
filesystem (names, inodes, link counts, modes) and in `flock` on
`locks/<key>`. `build` holds the lock of its key from before the lookup until
the install is done. `materialize`, `release`, `list` and `gc` take no lock.
The image is written by three actors in turn: the formatter, `tune2fs` and
`debugfs`, child processes that a killed vmbuild may leave behind.

**What is hard here.** Two builds of one key; a build killed between any two
system calls, and the next one finding what it left; gc deciding from a link
count or a list that is stale when it acts; files named before they are
fsynced; staging names shared by builds that hold different locks; a hard link
count and `rename(2)` between two links to one file; put and install falling
back to copies across filesystems; the sources being read twice, once for the
key and once for the image; blobs that share blocks, so that removing them
frees nothing. On ZFS: an image that is visible before its snapshot, and a
clone graph that is read once and used later. In the ext4 writer: boundaries of
block groups, of inline extents and of directory blocks, an index kept beside
the tree it indexes, entries that replace earlier ones, blocks that are freed
only at the end, and hard links that arrive before their targets.

**What makes each component correct.**

- *Store*: no file has two writers; a blob is the complete image of its key, a
  catalog name a complete image, at every instant; stored blobs are sealed and
  listed; an install shows what was asked; a VM's disk is private; gc spares
  what is installed; a waiting build gets its turn.
- *Policy*: a pass removes the oldest removable entries and no more than
  needed, fits the budget or says why not, and gives up when removing frees
  nothing.
- *ZFS*: an image is visible only with its snapshot; a pinned image survives
  gc with its metadata.
- *Formatter*: link counts equal names; every block and inode is allocated
  once; free counts agree with the bitmaps; the image depends on the tar alone.
- *Encoders*: what is encoded reads back; entries tile their block.

## 2. Modules

| module | what it is |
|---|---|
| `ImageCache` | abstract specification: a cache of images, a catalog of names, requests; no files |
| `Store` | the POSIX store, the pipeline, copies and gc, one action per system call another process can observe; kills, losses of power, full disks, refused unlinks, drifting sources |
| `StoreImplementsCache` | the refinement mapping from `Store` to `ImageCache` |
| `StoreInvariant` | the inductive invariants of `Store` |
| `StoreProofs` | theorems about `Store`: types, one writer per file, whole blobs; what the catalog shows, and the refinement of `ImageCache`; what builds, copies for VMs and gc find |
| `Finish`, `FinishProofs` | the making of one staging file by formatter, `tune2fs`, `debugfs` and a direct write, with kills and tools that outlive them; theorem |
| `Gc`, `GcProofs` | one eviction pass: bytes, ages, budget, dry run, the no-progress rule; theorems |
| `ZfsStore`, `ZfsProofs` | the ZFS backend and theorems about it |
| `Rootfs` | abstract specification of an import: a map from paths to files, changed entry by entry |
| `Blocks` | the block size and the rounding every ext4 module shares |
| `FileTree` | the in-memory tree with its hash index |
| `Extents` | extent trees: written, parsed, and the chunks of a ranged read |
| `DirBlocks` | directory blocks: written entry by entry, finished, parsed |
| `Formatter` | create, link, unlink, the inodes, freed and deferred blocks, the directories of `close()` |
| `Layout` | the rest of `close()`: groups, tables, bitmaps, counts, superblock |
| `Import` | what both importers share: entries, the formatter they drive, `close()` |
| `TarImport`, `OciUnpack` | `write_ext4_from_tar` and `unpack_tar`; a special file makes the first one fail at its end, the second leaves it out |
| `Reader`, `PathLookup` | opening an image, its tree, files and symlinks; resolving paths |
| `Archive` | which archives are in good order, and what they stand for |
| `Ext4Image` | the composition: import, close, open, read; its properties and its refinement of `Rootfs` |
| `Ext4ImageProofs` | theorems about the parts of an image: its tree and index, extents, directory blocks, reads of a range |
| `Ext4BlocksProofs` | the invariant of the formatter: which blocks were written, and whose they are |
| `Ext4LayoutProofs` | theorems about the finished image: where `close()` puts what, what a reader finds there, and the counts |
| `Folding` | what a fold computes, for any operator: over a sequence, and sums over sets; used by the proofs |
| `MCStore`, `MCGc`, `MCZfs`, `MCFinish`, `MCExt4Image` | instances for TLC |

### Store

*State.* `dir` binds names to files (inodes) and `inode` has their contents:
`content` (the key whose image it is), `whole`, `synced`, `ro` (mode 0444).
Names are `Blob(k)`, `Tmp(k)`, `Cat(d)`, `Part(d)` and `Disk(d)`. A link count
is the number of names bound to a file, as in the kernel, so hard links,
`st_nlink > 1` and a rename between two links behave as they do there. A
link is refused (EXDEV, or PermissionDenied for another user's blob) to a name
outside `Linkable` now and then, so that such a name is linked one time and
copied another.
`meta` is the set of keys with a `meta/<key>.json`; it is replaced by rename,
so it is there or not. `lock[k]` is the holder of the flock. `pc`, `want`,
`dest`, `refresh`, `out` (an open descriptor), `todo` are the processes'
locals.

*Builders* follow `build()`:
`Solve`, `Lock`, `Get`, `ReadEntry`, `Touch` (lookup and the touch of
`last_used`), `Export`, `Format` (`build_uncached`), `PutRename` or `PutCopy` and
`PutCopied`, `Seal`, `Sync`, `WriteMeta` (`put`), `Stat`, then `CheckInstall`,
`ClearPart`, `LinkPart`, `CopiedPart`, `Publish`, `Tidy` (`install`), and
`Unlock`. `Abort` is a call that fails with `?`, at any step of `Fallible` and so
also after the rename of `put`, when the blob has its name: what was done so far
stays. `Touch` and `Sync` ignore a failure, as the code does (store.rs 286, 323).
*Copiers* follow `materialize`: `ClearDisk`, `OpenClone`, `Clone` or
`CloneDeclined`, `OpenCopy`, `CopiedDisk`; `AbortCopy` is a failing call, of which
that of the clone removes the disk again. *Collectors* follow `gc`: `List`,
`Keep`, `Claim`, `EvictBlob` or `KeptBusy`, `Forget`. The environment kills
processes (`Crash`: descriptors close, locks drop, files stay), cuts the power
(`PowerLoss`: names survive, bytes nobody fsynced may not), writes to VM disks,
releases them and withdraws catalog names.

*A step is one system call on a shared file.* Writing the image is two steps,
open and close, and a file is not `whole` in between. Where an operation
checks and then acts (gc's `stat` and `unlink`, install's `exists`, `stat`,
`link`, `rename`) the check and the act are separate actions. Reads that
nobody can disturb under the lock are merged.

*Durability.* The only fsync between `File::create` and `rename` is the last
line of `normalize_timestamps` (`src/ext4/finish.rs` 102), which runs for images
with a journal; so `Format` leaves the file `synced` iff `Journal`.

### Gc

The bytes and the clock, for one pass. `gain` is what removing a blob really
frees (less than its size if blocks are shared), so the `freed * 4 < size` rule
is exercised with every combination. The free space is the filesystem's: between
two measurements other processes change it by one of `Tides`, and `tides` keeps
which of them were met, because what the rule concludes depends on them.

### Finish

Between `Export` and `PutRename` of `Store` the staging file belongs to one
builder but is written by four actors: `Format` is `Formatter::close`, `Spawn`
and `ChildStep` are `tune2fs` and then `debugfs` (opened, wrote, closed, failed),
`Journaled` and `Waited` what the parent makes of their exit status, `Patch` and
`Sync` the direct write and the fsync. A file has the fields those actors change:
the body, the journal, the times of the journal's inode, the time of the
superblock, whether it was fsynced. `Kill` frees the lock and may leave the tool
behind (`orphan`), with the file still open; `Create` truncates the staging file
that an earlier build left, which keeps its inode. That the result has every
field right is what `Store` takes for granted in its `Format`.

### ImageCache and the refinement

`ImageCache` says that a name changes in one step, to the image its build was
asked for, and that an image is in the cache as a whole or not at all. The
mapping shows a file by the key of its complete content, or as `"torn"`; a
`"torn"` catalog name is no value of the abstract catalog, so a partial image
under a catalog name would be a step `ImageCache` does not have.

### ZfsStore

*State.* `image[k]` is the dataset of a key: is it there, what its
`image.ext4` holds (nothing, part, all), what the `@ready` snapshot holds, the
`readonly` property. `clone[d]` is the clone behind a disk with the bytes it
shows. `catalog`, `meta`, `lock` and the locals are as in `Store`; `pinned` is
what a collector read of the clone graph.

*Actions* are one `zfs(8)` command each, or the open and the close of a copy:
`Create`, `CopyIn`, `CopiedIn`, `Snapshot`, `Seal`, `Record` (`put`); `Find`,
`DropClone`, `CloneReady`, `LinkDisk` (`materialize`); `ReadGraph`, `Claim`,
`Destroy` or `KeptBusy` or `DestroyFails`, `Forget` (`gc`). The kernel is
external: a dataset with a clone or an open file is busy, and a rename or hard
link between datasets fails. So `put` always copies, and the hard link at the
end of `materialize` (zfs.rs 281) always fails, after the clone is made.

`Worlds` is the set of combinations of what may go wrong; one behaviour lives in
one of them, so that one run has the calm properties and the rough ones.

### The ext4 image

*State* (`Import`): the entries read (`seen`), the hard links put off
(`pending`), the formatter (`fmt`), what `close()` wrote (`image`), what a reader
that opened it holds (`reader`). `fmt` is a record as `struct Formatter` is: the
tree, the inodes, the write position `cur`, the `disk` as a function from blocks
to what they hold, `deleted` and `deferred` blocks, and an error.

*Operations of the formatter are operators* on that record, because they are
sequential code with one caller: `Create` (with the recursion into missing
parents, replacement and `mkdir -p`), `Link`, `Unlink`, `CommitDirectories`. An
*action* is what one entry, one deferred link, or `close()` does: all calls that
the code makes for it, in order, up to the first error.

*Data.* A body is one value per block, named after the entry that it came
from; mode, owner and time of an entry are named by its place in the archive, so
that the model can tell which entry any file of the image came from. The wall
clock is the value `"clock"`. Names have a length in bytes (`NameBytes`), as the
packing of directories depends on it.

*Layout* is arithmetic on the real formulas with smaller constants. Blocks
have owners, bitmaps are sets of blocks, and counts are what the code adds up,
not what the bitmaps imply: that the two agree is a property (`CountsAgree`).

*Rootfs and the refinement.* `Rootfs` has no tree, inodes or blocks: files are a
map from paths, an entry removes, places or leaves them as extracting it would.
`Ext4Image` maps the visible part of the tree to it while the image is made,
and what the *reader* finds in the written blocks once it is open. So
`ImplementsRootfs` says that every entry does the right thing to the tree, that
closing changes no file, and that the encoded image reads back as exactly this
map.

## 3. Runs

| run | asks | verdict |
|---|---|---|
| `refines` | a builder with refreshes whose installs are linked or copied, a gc, kills, losses of power, refused unlinks: no blob and no catalog name is partial, `Store` implements `ImageCache`, so that nothing partial or unsynced is ever shown; the catalog never changes under its users | holds |
| `disks` | builder, gc, copies by clone and by copy, VM writes, kills, full disks, refused unlinks: a delivered disk is complete and private, blobs are not affected | holds |
| `cooperate` | two builders of two keys and two gc passes in maintenance windows, unlinks refused, one name always linked: no build fails, blobs sealed and listed, each name shows its key, nothing installed is evicted | holds |
| `live` | two builders of one key, two filesystems, kills, failures, a gc: one writer per file, waiting builds return, no build hits a blob that is still being copied | holds |
| `gc_pass` | all passes over three entries, with other processes freeing and filling space: the plan, the budget, giving up | holds |
| `finish` | two builders, kills, tools that outlive them for less than an export: what is stored is complete, journaled, fsynced and without wall-clock times | holds |
| `zfs` | two builders of one key, a copier, a gc; calm, overlapping, busy and rough worlds: clones complete, images committed, gc that overlaps no build forgets only what it destroyed, passes and builds that end and succeed | holds |
| `image` | every archive of up to three entries from two formats and three sizes, to the reader: 11 invariants and the refinement of `Rootfs`, but for one exempt step | holds |
| `gc_rebuild` | gc's two-phase delete against a build of the same key | violated |
| `shared_dest` | two keys installed to one name by copy, one builder killed | violated |
| `drift` | sources that change between solve and export | violated |
| `ragged_tail` | an image size that is whole groups and a few bytes | violated |

The four violated runs state what the source or README says and show a
behaviour of the code that contradicts it.

- *gc_rebuild.* gc unlinks the blob; a build of that key puts it back with its
  metadata; gc removes the metadata. The blob is served as a hit and no gc ever
  lists it, which is the "invisible garbage" that store.rs 518-521 sets out to
  avoid.
- *shared_dest.* Two builds with different keys hold different locks but use one
  `<dest>.ext4.part`. One renames the other's half-copied file to the
  destination and reports success; if the other is killed, the truncated image
  stays (store.rs 348-350 says a crash never leaves one).
- *drift.* The key comes from one buildx run and the image from a second. If a
  base tag or the context moved in between, the blob under the key is another
  image, and every later hit serves it (README.md 57-58: "it cannot serve the
  wrong image").
- *ragged_tail.* `close()` counts the groups before it rounds the size up to
  whole blocks and grows a tail that is too short (formatter.rs 924 and
  948-956). A request of k groups and 1 to 4095 bytes yields a superblock whose
  blocks reach into a group that has no descriptor, although formatter.rs 930-933
  means e2fsck to see a consistent filesystem.

Properties that hold only under a condition are checked under it, and the
condition is part of what they say:

- `Sealed`, `Recorded` without kills and failing calls (a builder that is killed after
  store.rs 309, or whose `write_meta` at 330 finds the disk full, leaves an unlisted
  blob, and before 318 a writable one); `EvictionSparesInstalled` while no build runs (the
  link count is read before the unlink); `InstallsAsRequested` for destinations
  of their own.
- `GivesUp` unless another process freed space during the pass, and
  `GivesUpForCause` unless one filled some: the code cannot tell whose bytes
  they were.
- `StoredFinished` where a surviving tool is gone before the next export ends
  and `debugfs` does not fail. With `"slow"` added to `Faults` TLC finds
  `StoredFinished` violated: a killed vmbuild frees its lock and leaves its
  `tune2fs` running; if that one is still there after the next build's export
  (which takes seconds, so it must be stalled), the next build truncates and
  fills the inode it has open and stores it, and the late writes reach the stored
  blob, past its mode. With `"debugfs"` it is violated too: `normalize_timestamps`
  waits for `debugfs` and does not look at its exit status (finish.rs 89), so
  that an image whose journal inode carries the wall clock is stored. Both go
  against README.md 122-125: equal inputs give equal bytes, and the stamps are
  normalized afterwards.
- `BlobWhole` and `CatalogWhole` are checked with one builder at a time besides gc
  and copies; that two builders of one key do not disturb each other while they
  are killed is `OneWriterPerFile` in `live`, and the theorems below, which hold
  for any number of them.
- `ForgetsOnlyDestroyed` where gc runs while nobody builds. Beside builds it is the
  counterpart of `gc_rebuild`: a builder puts the image again between `destroy`
  (zfs.rs 351) and `remove_file` (360), and its metadata is gone.
- `Committed`, `PassCompletes`, `BuildsSucceed` name in their first
  line what must not go wrong. `PassCompletes` is about a collector that runs
  alone: two passes list the same entries, and the one that comes second to an
  entry finds its dataset destroyed and ends with an error. On ZFS a put that is cut short leaves a partial
  image that `get` serves; a gc killed between `destroy` and the removal of
  the metadata makes later passes end with an error; a refresh of a sealed key
  fails on the read-only dataset.
- `TidyArchives` is about archives as tools write them (parents first, no path
  twice, links backwards, within the format's limits). `ImplementsRootfs` is
  about every archive, and exempts one step of it, `DirectoryAtLink`: a layer with a
  directory at the path of an earlier layer's hard link. The link's node carries
  the root's inode number as a placeholder, so `create` (formatter.rs 388-411) takes
  the path for a directory: the link stays, `/` gets the entry's mode and owner, and
  the import succeeds, while the comment at 413 says that "a regular file (or other
  non-dir) blocks directory creation". TLC finds `ImplementsRootfs` violated without
  the exemption.
- `Reproducible` excludes archives that leave parents out or replace files:
  implied parents and deleted inodes get the wall clock.
- `LinkCountsExact` excludes, for directories, archives that replace a hard link:
  unlinking it lowers the count of its parent, because the link's node carries
  the root's inode number as a placeholder; and trees with links below links.
- `LookupsAgree` is about paths that lead somewhere in POSIX. The code gives up
  on a symlink it has visited before, and accepts `file/..`.

### Bounds

*Store.* One or two keys, names, builders and disks, one copier, one or two
collectors. The hazards are races between two processes about one key or one
name, and a second key matters only where the name is shared or where gc must
choose. Processes start over without limit, so what one run leaves behind is
met by the next. `Inodes` is finite: `MCStore` numbers a file by the name it is
created under, `Generations = 4` per name (at most: the name itself, a blob or
catalog name it was moved to, and an open descriptor). A creation that found no
free inode would be disabled, which would show up as a deadlock in the runs
that check for it; all store runs do. `Quiet` in `cooperate` is the maintenance
window, not a bound.

*Gc.* Three entries are enough for a kept one between two removed ones and for a
baseline, a futile removal and a third entry left over; `CHECK_DEADLOCK FALSE`
because a pass ends. `SmallTides` is one unit either way: with sizes of 0, 1 and
4 it moves a measurement from one side of the quarter to the other.

*Finish.* Two builders of one key; staging names and tools of different keys never
meet. Four inodes: the staging file, the blob and a tool's of each builder.

*ZFS.* One key, one catalog name, one disk, two builders: all contention is about
one key's dataset. The entries of a pass matter to each other only through
`PassCompletes`, which is about stopping at any entry.

*Image.* The constants are scaled so that three entries reach every boundary:
blocks of 64 bytes (four extents per leaf block, two descriptors per descriptor
block), extents of at most 2 blocks, so a file of 570 bytes (9 blocks) needs an
indexed tree with two leaf blocks and one of 70 or less is inline; groups of 40
blocks with 8 or 16 inodes, so `Optimize` has a choice and images have one, two
or three groups; sizes of 1000, 2700 and 5200 bytes, so that the last group is
partial, too short for its own metadata, or whole; at most 5 links to an inode
and 600 bytes to a file, so that both limits are met by entries that exceed
them; names of 1, 5 and 10 bytes, so that an entry fills a block exactly or
fits by too little. Three entries are enough for a name, a link to it and
its replacement, in any order, and for a layer over a layer. Paths have two
components, so that an entry may lie below a file, a link, a symlink or a parent
nobody listed. `CHECK_DEADLOCK FALSE` because an import ends. Entries are chosen
in `MCExt4Image` such that nothing lies below a hard link (see Not modelled); a file, a
link or a directory may take the path of one.
`allow_partial_final_group` is always true, as `write_ext4_from_tar` sets it.

### Fairness

`live` and `zfs` assume weak fairness of the steps of every started process,
because nothing in the code waits except for the lock, and strong fairness of
`Lock`, because `flock` queues waiters: a lock released again and again reaches
each of them. Nothing is assumed about requests, kills, failures, refusals, a
pass being started, or the users of images. A kill ends a build too, so
`WaiterReturns` says that the process is idle again. The image run has no
liveness: an import is a loop over a finite archive.

## 4. Proofs

All theorems hold for every value of the constants. What TLC checks on a small
instance is stated by a theorem for: every safety invariant and action property
of `Store`, its refinement of `ImageCache`, every property of `Gc` and
`Finish`, every safety property of `ZfsStore`, and, of `Ext4Image`,
`TreeIndexed`, `DirsWellFilled`, `BlocksOwnedOnce`, `RangesReadBack`,
`CountsAgree` and `UsedAreMarked`.

### Store

Any number of keys, names, disks, processes and files, any staging-name function
`Stem`, any requests, under `ConstantsAssumption`, which says how the constants are
typed. A theorem that needs more has it as a named hypothesis, because the code
does not give it for nothing:

| hypothesis | what it says | without it |
|---|---|---|
| `Careful` | put is a rename; sources do not drift; images have a journal if power can fail | `drift`; a put that copies shows its blob half written; nothing fsyncs the file before it is named |
| `InstallsApart` | no two installs go through one `.part` at a time | `shared_dest` |
| `OwnStaging` | nobody is asked to install images of different keys under one `.part`; it implies `InstallsApart` | `shared_dest` |
| `DisksApart`, `OwnDisks` | no two copies go to one disk at a time; it follows if every copier has disks of its own | the second copy removes the first one's disk |
| `Unbroken` | no put is cut short: nothing is killed and no call fails | a writable or unlisted blob stays (store.rs 309-337) |
| `QuietSpec` | gc and builds do not overlap | `gc_rebuild`; gc unlinks what a build has just linked |

- `StoreTypes`: `Spec => []TypeOK`. Besides the types it says that a process
  has a key, a destination and an open descriptor exactly where its code does.
- `StoreOneWriter`: `[]OneWriterPerFile`, on any filesystems and with any
  faults. `OneWriterPerFile` is not inductive: that `Export` truncates nobody's
  file needs `StagingWriter` (only the builder formatting k has
  `tmp/<k>.building` open), which needs `LockHeld` (past `Lock`, a builder holds
  its key) and `Alone` (staging files and disks have no second name, so a
  staging file is not reached through another). The proof classifies every step
  once (`StepKinds`): it opens nothing, creates a file that nothing reaches, or
  is `Export`. The conjunction is `ExclusiveInv`, on which everything else rests.
- `StoreBlobWhole`: `Careful => (Spec => []BlobWhole)`. The invariant
  (`BlobInv`) adds what is in the staging file while it is formatted and while it
  waits for `put`, that nobody has a blob open for writing, and that named blobs
  are safe from a loss of power. The main lemma (`StepIntact`) is that a file
  with a name keeps its bytes unless somebody closes it or truncates it.
- `StoreCatalogWhole`, `StoreCatalogStable`: `Careful` and hard-linkable
  destinations (`Dests \subseteq Linkable`) imply `[]CatalogWhole` and
  `CatalogStable`, also where two keys share a `.part` and hold different locks.
  `CatalogInv` adds to `BlobInv` that what a catalog or `.part` name shows is
  settled: complete, as durable as its blob, and open for writing to nobody.
  The main lemma (`CatalogMoved`) is that such names are only ever bound to what
  a blob, a catalog or a `.part` name was bound to.
- `StoreCopiesWhole`, `StoreCopiesStable`, `StoreInstallsAsRequested`: the same two
  and `InstallsAsRequested` where installs may also copy, for
  `Spec /\ []InstallsApart`. `InstallInv` follows an install from `copy_out`
  (`Copying`: what is written through the descriptor is the `.part` of this
  build) to `publish` (`Ready`: the `.part` shows the image that was asked for,
  settled).
- `StoreImplementsItsCache`: `Spec /\ []InstallsApart => ImplementsCache`: the
  refinement, step by step. `Solve` is the cache's `Ask`. `Get` that finds a blob
  that need not be rebuilt, and a successful `PutRename`, are `Supply`.
  `CheckInstall` that finds the name installed, and `Publish`, are `Install`.
  A build that ends, fails, is killed, or all of them when power is lost, are
  `Fail`. `EvictBlob` is `Evict`, `Withdraw` is `Withdraw`, and every other step
  is a stutter. That the stutters do not change what is shown is `SameFiles`:
  an image that had a name and keeps it is the same image.
- `StoreInstallsApart`, `StoreWithOwnStaging`: `OwnStaging` implies
  `[]InstallsApart`, on any filesystems and with any faults (two builders with
  one `.part` have one key, whose lock has one holder), so that all four results
  above follow from a condition on the requests alone.
- `StoreHitsFinishedBlobs`: `HitsFinishedBlobs`, with no hypothesis. Only the
  builder that puts k by copying has k's blob open (`BlobWriter`), and it holds
  the lock that a lookup of k needs.
- `StoreSealed`: `Unbroken => (Spec => []Sealed)`, gc included. A blob is sealed
  or a builder of its key is still at `copy_in` or `seal` (`SealedOrPut`); a file
  that has a blob's name is only changed by its put, because no staging file or
  disk is another name of it (`FileChanges`).
- `StoreRecorded`: `Unbroken => (QuietSpec => []Recorded)`. Besides
  `RecordedOrPut` this needs that what gc forgets is gone (`ForgottenGone`), which
  only the quiet store gives: `gc_rebuild` is the counterexample.
- `StoreSparesInstalled`: `QuietSpec => EvictionSparesInstalled`, whatever fails.
  Between the look at the link count and the unlink nobody links the blob,
  because only builders do (`NotInstalled`).
- `StoreNoSpuriousFailure`: where put renames, nothing but kills and losses of power
  goes wrong, and `OwnStaging`, `QuietSpec => []NoSpuriousFailure`. `SuccessInv`
  names what the next step of each builder needs: the blob (`BlobThere`), the
  staging file (`StagingThere`), and a `.part` that is not there before it is
  linked and there until it is renamed (`PartThere`).
- `StoreMaterializes`, `StoreWithOwnDisks`: `Careful` and `DisksApart`
  (or `OwnDisks`) imply `MaterializesAsRequested`. `DeliveryInv` says that a
  copier writes the image of its key to the file its disk's name shows. The
  blob may be evicted and rebuilt while it is copied.

### Gc

Any number of entries of any sizes, gains and ages, any budget and limits, and
any tides, under `GcAssumption`.

- `GcMatchesPlan`, `GcFitsBudget`: a pass that is not stopped early, dry or real,
  removes exactly the entries of `Plan`, which is defined without any order of
  steps, and after a real pass the store fits the budget or holds nothing more
  that can be removed. `OnPlan` says that, while the pass goes on, it has removed the planned
  entries it has seen, that its total is the bytes of the others, and that
  nothing removable is behind it while it is over budget; once it has stopped it looks
  at no more.
- `GcGivesUp`, `GcGivesUpForCause`: the rule of `src/store.rs` 542. `Baseline` says
  that the last measurement still holds, since only empty blobs are removed between two
  of them, and `FewFutile` that a futile removal sets the baseline or, when
  there is one, ends the pass, so that there are two at most.

Sums over sets of entries are what these proofs turn on. Induction on a set
is not available (the library's induction rules take an operator as a parameter),
so `SumIsUnits` (in `Folding`) replaces a sum by the size of a set, the units of
its numbers, and proves the equality by a minimal counterexample: of the sets
for which it fails one is least under inclusion, by the well-foundedness of
strict inclusion on finite sets. That sums split (`SumApart`), add up
(`SumPlus`) and can be taken one member after the other (`SumRunning`) then
follows from the library's facts about cardinality; the counts of the
ext4 writer rest on the same lemmas.

### Finish

For any number of builders and files.

- `StoredIsFinished`: `Benign => (Spec => []StoredFinished)`, where `Benign` is the
  condition under section 3. `FinishInv` says how far the staging file is at every
  stage of its builder and of its builder's tool (`Stage`), that only the holder of
  the lock is past `Lock`, and that no builder goes on to the staging file while a
  tool without a builder lives.

### ZfsStore

Under `ZfsAssumption`, for any `Worlds`.

- `ZfsTypeCorrect`: `Spec => []TypeOK`.
- `ZfsClonesWhole`: `Spec => []ClonesWhole`. A clone is taken from a snapshot, so
  the invariant adds that every snapshot is complete, that a dataset whose
  builder is at `snapshot` holds a complete file if it is still there, and that
  a builder past `Lock` holds its key, so that no other one writes in between.
- `ZfsCommitted`, `ZfsBuildsSucceed`: `PutInv` says which states a
  dataset can be in at each step of an unbroken put, where gc may have destroyed it
  at any step but the copy (`PutStages`); that a dataset nobody puts is complete or
  not there (`Settled`); and that, with nothing wrong in the world, a build finds its
  dataset where it left it (`Undisturbed`, `OnItsWay`), because gc keeps to its window
  (`Window`) and the lock keeps the other builders out.
- `ZfsForgetsOnlyDestroyed` (for the worlds in which gc overlaps no build, as the
  property says), `ZfsPassCompletes`: `GcInv` adds what a collector knows
  at each step: what it is about to forget has no dataset (`Forgetting`), and one
  that is alone and not killed knows every listed dataset that is not there, because
  it destroyed it itself (`LonePass`).

### The tree of an image

For any entries, in any number and order, any names and any sizes, under
`ImportAssumption`: paths are sequences of names, and in a layer a file, a link or a
plain whiteout does not have the path of the root.

- `AddChildExact`, `RemoveChildExact`: both operations keep the index of any
  well-formed tree exact, that is, it maps a name of a directory to its first child
  of that name and holds nothing else. `NewTreeExact` starts the induction, and
  `IndexIsScan` says that an exact index answers what the scan it replaced would.
- `TreeStaysIndexed`: `Spec => []TreeIndexed`: from the first entry to the closed
  image, the formatter calls them only with what they are made for. `Sound` is the
  invariant of the tree: it adds to the exact index that every node but the root has
  a parent, and that a child comes after its parent. The last part is what makes
  `unlink` visit a finite set of nodes, none of which is the root
  (`PostOrderNodes`). `create` finds the parents it has just made
  (`MakeParentsSound`), because what an index finds it still finds when nodes are
  added (`LookupStays`), and a new node is found where its parent is
  (`LookupChild`). `TreeInv` adds that no link that is put off has the path of the
  root.

The code loops over path components, over nodes and over directories, and the
model folds. Induction over data would need a theorem with a predicate as its
parameter, which the provers do not instantiate. `Folding` does without: its
operator is a parameter of the *module*, so that an `INSTANCE` makes a theorem
without one, and a fold is shown to pass through a function of values
(`FoldTrace`), along which a set of numbers is followed upwards from 0 (`Upwards`).
Both rest on the well-foundedness of strict inclusion on finite sets, as does the
least position of a name (`LeastExists`). The libraries of `Folding` are `LOCAL`, so that
an instance adds little to what the prover has to read.

### Extents, directories and ranges

For files of any size, any `MaxLen`, directories of any entries, and any block
size of at least 32 bytes (a block holds a group descriptor).

- `ExtentOfBlock`, `ExtentsFit`: every block of a file is in exactly one extent,
  which leads to where it was written; every extent has a length its field can
  hold and stays within the file's blocks.
- `ExtentInLeafBlock`: extent l is in the leaf block, and at the place, that the
  division gives, and no leaf block holds more than fit. Both rest on what
  rounding up counts (`CeilDivBoxes`). That the four index entries of an inode are
  enough is not proved: it is the limit on the size of a file.
- `ExtentsReadBack`: `parse_extents` finds the extents that `write_extents`
  recorded, inline or in leaf blocks. With `DataBlocks`, a reader that follows
  the root of an inode is led to the blocks the data were written to.
- `RangeRead`: a read of any range that lies in a file is put together from the
  bytes it asked for. The cut points of the chunks grow from extent to extent
  (`Clamped`), and pieces between growing cut points concatenate to the whole.
- `PackWellFilled`: the records of a directory tile their blocks. The fold over the
  entries keeps `Packing`: all blocks but the last are full, the last is full up to
  the room left, and the room left is none or enough for a last record.

### The blocks of an image

For any archive or layers, under `ImportAssumption`, `NamesAssumption` (an entry
with the longest name fits a block) and `FormatterAssumption` (the names the
formatter makes itself have a length). `BlocksKept` is `Spec => []BlockInv`.
`BlockInv` says of the formatter (`Keeps`) that its tree is sound and its blocks
are owned (`Owned`):

- the blocks written are those from the first one behind the descriptors to the
  write position, and nothing else is on the disk;
- there are functions `at` and `many` that give each inode the span of blocks its
  root leads to: data and extent blocks in a row. Spans are apart, a file's
  hold the body of the entry that gave it its time, a directory's are full blocks;
- the blocks a node remembers for its file, the deferred and the deleted ones have been
  written, and a node's inode and the target of a link are inodes of the list.

Every operation of the formatter is shown to keep this, from the write of a body
up: `Register`, `Commit` of one directory, `Unlink` (a fold over the nodes in post
order), `Create` with the parents it makes, `Link`, the importers' entries and
`CommitDirectories` (a fold over all nodes). An inode is written once: an operation
appends blocks for at most one inode and takes the data of others away or leaves them
(`Writes`), so that spans stay apart.

### Names and links

`LinksKept` is `Spec /\ []LinksHung => []LinkInv`. What the formatter keeps (`Linked`) is:

- siblings have different names, and a child names its parent (`Distinct`);
- every node hangs below a directory, or what is left of one (`Hanging`);
- the root and hard links have a reserved inode of their own (`Reserved`);
- the links of an inode are the number of its names, or, for a directory, no less than
  that number, which is at most one; an inode without links is removed (`CountedAt`).

A name is here a node that its parent lists (`Attached`), or a link to it. That is more
than what shows after `close()` (`VisibleAttached`): a file created below a hard link has
a name that does not show. `unlink` visits each node below a path once
(`PostOrderVisits`) and takes a link from the inode of each. `link()` counts the new name
before it removes what had the path, so `Linked` is stated with an inode that may have a
name in advance (its second argument).

`LinksHung` says that no hard link hangs below a file. `create` refuses that, but `link()`
(formatter.rs 724) checks of the parent only that it exists. When such a link is removed,
the file it hangs below loses a link, and `Linked` is false; TLC finds archives of the
run `image` that violate `LinksHung`, and in all its states that `LinksCounted` holds
while `LinksHung` does.

- `LinksAreCounted`: `Spec /\ []LinksHung => []LinksCounted`, the number of names of every
  inode, in any order of files, links, replacements and whiteouts, also while the
  import goes on.

### The finished image

`LaidOut` and `PlanIs` say what the arithmetic of `close()` guarantees for any size and
content: the tables follow the blocks written, the bitmaps the tables, all of it fits
the groups that hold data and the image, and every further group has room for its own
table and bitmaps. `GroupsApart` says that these lie in groups of their own, and
`DiskIs` what each block of the finished disk therefore holds. With `BlockInv`:

- `InodesReadBack`: a reader finds every inode as the formatter left it.
- `FilesKeepTheirData`: every file has, block for block, the body of the entry it was made
  from. That is what `FilesReadBack` says of the disk.
- `DirectoriesFilled`, `BlocksHaveOneOwner`, `RangesAreRead`: `DirsWellFilled`,
  `BlocksOwnedOnce` and `RangesReadBack`.
- `CountsAdded`: `CountsAgree`. A group's count is the size of a difference of two
  sets of numbers (`DataGroupCounted`, `EmptyGroupCounted`), and the total in the superblock
  follows because the sizes of the groups sum up to the size of the image (`RealSum`).

- `UsedMarked`: `UsedAreMarked`. What the formatter has freed are blocks of no inode
  (`BlockInv`) and inodes without links, which nothing that shows refers to
  (`NamedCounted`); `close()` clears the bits of these alone.

They have hypotheses, which the code does not give for nothing:

| hypothesis | what it says | without it |
|---|---|---|
| `ReserveKept` | the blocks reserved for descriptors, computed a second time from the size the image has grown to, are no more than were left free at the beginning | formatter.rs 1047: growth past a multiple of the groups one block of descriptors describes; TLC finds `ReserveKept` true in every state of `image` |
| `LinksHung` (`UsedMarked` only) | no hard link hangs below a file, in any state | formatter.rs 724: a file can lose its last link, and its blocks, while it has a name |
| `GroupsCoverImage` (`CountsAdded` only) | the groups reach to the end of the image | `ragged_tail` |

### Only model-checked

- Liveness (`WaiterReturns`, `EveryCallReturns`): fairness is `ENABLED`,
  which the prover does not handle.
- `CatalogWholeAtRest`, which the code violates (`shared_dest`).
- Of the image: `TidyArchives`, `Reproducible` and the refinement of `Rootfs` relate the
  image to the whole archive, entry by entry, and need an induction over the data of
  the archive. `LinkCountsExact` counts the names that show, and the subdirectories of a
  directory; the theorem about files is `LinksAreCounted`, which counts all names. `FilesReadBack` compares the
  tree that the reader builds by sorting directory entries (`SortSeq` is a CHOOSE the
  provers do not see through); that the bytes of files are right is `FilesKeepTheirData`.
- Resolving a path through symlinks (`LookupsAgree`) is a recursive
  operator, out of the prover's reach, and so in a module of its own.

## 5. Plan

Done: the POSIX store with its abstract specification, the eviction policy, the
ZFS backend, the tools that finish an image, the ext4 writer and reader with
their specification, and the theorems above.
What would come next, in order:

1. Theorems for `Reproducible`, which needs the paths of the tree told from the entries
   seen, and for the directories of `LinkCountsExact`.
2. `last_used` stamps that change during a pass of `Gc`.
3. `Finish` and `Store` as one specification: the mapping of their files.
4. `SparseCopy` (`SEEK_DATA` and `SEEK_HOLE`) as an operator.
5. Extended attributes, once a caller passes any.

## 6. Not modelled

- Argument parsing, output, docker and `zfs` command lines; `doctor`, whose
  answers nothing uses; SHA-256 (`key.rs`): keys are taken to be distinct for
  distinct recipes.
- *Byte layouts* (`types.rs`): a record has the fields that decide something.
- *Extended attributes* (`xattr.rs`): no caller creates a file with any, nor do
  the tests. Reading the code shows that `create` charges the attribute block to
  the inode before the flag that gives the unit is set (formatter.rs 494, 515),
  and that attributes are placed in the order of a hash map.
- *Whole last groups*: `allow_partial_final_group = false` is upstream's default
  and not used here.
- *Files below hard links.* `create` accepts a path below a node that is a hard
  link; the file has no entry in any directory after `close()`. No tool
  writes such an archive, and the instances leave it out.
- *Files above four index entries*: the maximal file size excludes them.
- Growth of the image across a multiple of the groups one descriptor block
  describes, where the reserve is computed from two sizes (formatter.rs 1047); the hypothesis `ReserveKept` of section 4.
- The length of a symlink's target in the header (ext4/mod.rs 198 reads the
  100-byte field; hard links read the extended record too).
- The timing of `last_used` against builds during a pass.
- In `Store`, a child is taken to die with its parent; `Finish` is about those
  that do not. A late tool is modelled by the fields it changes; that it may also
  overwrite blocks of the next image is left out: two images of one key are meant
  to be the same.
