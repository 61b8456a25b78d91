# A TLA+ model of rspacefs

rspacefs merges read-only image layers with a writable upper directory in user
space and serves the result through FUSE. This directory models its core in
TLA+: TLC checks small instances, TLAPS proves the theorems for every instance.

## The system

| Part | State | Operations | With whom |
|---|---|---|---|
| `rspacefs-core/layer.rs` (LayerFS) | the upper directory with its whiteout (`.wh.<name>`) and opaque (`.wh..wh..opq`) markers; caches of the lowers' markers | resolve, read_dir, create_dir, create_file, append_file, remove_file, remove_dir, copy_file, move_file, move_dir | called through `vfs::VfsPath` by the adapter, the PVC code and the CLI; calls `PhysicalFS` or the verified layer |
| `rspacefs-fuse/fs.rs` (adapter) | inode <-> path tables, open handles with their write buffers, a cache of passthrough registrations | one handler per FUSE request; write-back on fsync and release | runs on the one dispatch thread of fuser; hands read and write to the pool |
| `rspacefs-fuse/pool.rs` (pool) | a channel, one mutex around its receiver, N threads | execute, the worker loop, Drop | jobs lock one handle each |
| `rspacefs-fuse/stats.rs` | counters, histograms, a ring of recent operations | record, render | every thread |
| `rspacefs-fuse/control.rs` | a socket, the PVC mount | stats, pivot, capture, invalidate | a thread beside the session |
| `rspacefs-fuse/main.rs` | the mount and the process | daemonize, serve, SIGTERM watcher, cleanup | fuser, systemd, CRI-O |
| `rspacefs-verity` | Merkle tree, manifest, cache of verified blocks | build, verify, verified reads | below LayerFS, as a lower |
| `rspacefs-pvc` | access mode, lifecycle, swappable root | mount, pivot_upper, capture_layer, apply_blob | swaps the root under the adapter |
| `rspacefs-cli`, `rspacefs-bigbust` | none | command line; load generator | clients |

What is hard about it:

* A LayerFS call is a sequence of primitive file operations. The process may
  die, or one of them fail, between any two; the overlay must still make sense.
  It is correct if the upper stays a well-formed tree, nothing in it is hidden,
  a call changes only what it is about, and a completed call has done the whole
  of what it was asked, over all layers.
* The markers are read in three places (resolve, read_dir, the adapter's
  `physical_for`), which must agree.
* The adapter holds copies: the path of an inode, the content of a file, the
  file behind a passthrough registration. Each may be stale when it is used. It
  is correct if a request is carried out on the file it was made for and every
  acknowledged write ends in that file.
* The pool must run each job once, must not stall on a stuck one, must survive a
  panicking one and must stop cleanly.
* A verified layer is correct if a read returns the bytes its manifest was built
  from or fails, and fails only when they changed: while the files are written,
  whatever a crash of the builder left on disk, and in spite of three roundings
  (short blocks, aligned files, leaves filled up to a power of two).
* The lowers' markers are cached by several threads, probe by probe, over a disk
  that may fail. An answer is correct if no cached failure can hide a file, and if
  a failure is the only thing that can let one show through.
* The daemon is started by a process that wants to know whether the mount works,
  and is ended by signals, by an unmount from outside or by its session failing,
  with files open. It is correct if no mount is left without a daemon, nothing
  acknowledged is lost on the way out, and nobody waits for ever.
* A PVC mount swaps its upper under a running workload and packs it into a layer.
  It is correct if the workload sees no difference and the packed layer gives the
  mounted tree.
* Every thread counts and times its operations without synchronization, and a
  scraper reads while they do.

`PROJECT.json` lists the hazards line by line.

## Modules

| Module | What it is |
|---|---|
| `Layers` | paths, the on-disk content of a layer, and resolve's walk over the lowers |
| `LayerFS` | LayerFS, one action per primitive file operation |
| `LayerFS_proofs` | its theorems: the upper stays a tree, calls stay local, listing agrees with lookup, and what a call has done when it ends |
| `ThreadPool`, `ThreadPool_proofs` | the pool and its theorems |
| `FuseFS`, `FuseFS_proofs` | the adapter above the overlay, the kernel's dentry cache and the pool's pending writes; its theorems: inode tables, lookup, names |
| `Merkle` | the hash tree: building it, checking a block, its file format |
| `Verity`, `Verity_proofs` | builders, manifest and tree on disk, mounts, the verified reader and the three checks; that the tree, the reader and the checks are exact |
| `ProbeCache`, `ProbeCache_proofs` | resolve's walk over the lowers by several threads, with the two caches of markers; that the caches are right |
| `RecentLog` | abstract: the newest operations, newest first |
| `Stats`, `Stats_proofs` | counters, histograms, latency scopes and the ring of recent operations; that the ring implements `RecentLog` and a scrape is bracketed |
| `Daemon`, `Daemon_proofs` | a mount's life: fork, session, signals, control socket, teardown, with a second daemon at the same path; in which ways alone a mount is orphaned or data lost |
| `Pvc`, `Pvc_proofs` | the swappable root, pivot and capture against a workload, and the control requests that ask for them; that a pivot keeps the data and drops the names, and that a quiet capture is the mounted tree |
| `MC_*` | the instances TLC checks |

`FuseFS`, `ProbeCache` and `Pvc` extend `Layers`, so that one definition of the
merge (`LowerResolve`) is what each of their walks is compared with; `Pvc` composes
the root of `rspacefs-pvc` with the adapter's calls, its own walk over the layers
(`Physical`) and the kernel's names.

A definition called "Mutant" is a wrong version of the one after it. No
specification uses it; it exists to show that a property fails when the code is
changed that way.

### LayerFS

`ent`, `wh` and `opq` are the upper's real entries, whiteouts and opaque markers,
`lower` the read-only stack, `op` the call in progress: its arguments, the entry
it is at (`at`, `to`), the entries still to visit (`todo`), the next primitive
(`pc`), the result (`out`) and, for the properties, the merged tree before the
call (`before`) and the entry asked for (`new`). `Call` starts an operation with
the checks VfsPath and the kernel's path walk make. Each `Step` is one primitive:
make one parent (`ensure_upper_parents`), remove the whiteout, make, write or
append, remove the upper's entry, write the marker; and for move_dir the
recursion of `copy_dir_recursive` and `remove_dir_recursive` with the sweep of
markers. `Interrupt` abandons the call anywhere, as an I/O error passed on by `?`
or as the death of the process. A path is a sequence of names, file content an
opaque value. The order in which siblings are visited is left open, because
`read_dir` gives none. A crash keeps exactly the primitives completed so far;
the backing filesystem's own reordering is out of scope. A half-written file is
an empty one.

### ThreadPool

`queue` is the channel, `lock` the mutex around the receiver, `pc` and `job` the
workers. `Lock`, `Recv`, `RecvClosed` and `Finish` are the worker's loop,
`Execute` the submission, `CloseChannel` and `JoinAll` the two halves of Drop.
`Stuck` jobs may never return; `Panicky` jobs may panic, which `Unwind` turns
into the end of the job (`run_protected` catches it) or of the process.

### FuseFS

fuser dispatches one request at a time, so a handler is one action, the overlay's
call inside it included (`Put`, `Drop` and `MoveTree` are what the calls of
LayerFS leave behind). Only `write` is split, into the handler, which queues, and
`RunWrite`, which a pool worker runs later under the handle's mutex. `inodes`,
`paths`, `next_ino`, `files` and `next_fh` are the fields of those names, `cache` the
backing cache, whose weak references are represented by the handle that made the
registration. Errors that change nothing are guards (a failed open also skips a
handle number, which nothing depends on). An open with O_TRUNC is `open_write` and then
`truncate`, with the writer open: `init` does not ask for ATOMIC_O_TRUNC, so the kernel
strips the flag and sends SETATTR with size 0. `resize` is SETATTR with any other
size. The kernel is the environment: `dentry` is its cache of names, which a request goes
through, `Forget` drops an entry, and rename moves the entries below a directory along.
It sends no release while a write is under way, and one write per handle at a time.

Clients may do anything: rename directories and files that are open, unlink and
truncate under a writer, open a file for writing twice, rewrite what is being read.
`want` is the tree the acknowledged requests describe. Where the adapter does not keep
what POSIX says of a name, `want` has None for it, from the step that breaks it on and for
good; "Departures" lists the steps. `rewritten` holds the readers whose file got new
content after they opened it.

The namespace is two deep, and directories and files live at different paths
(`DirPaths`), to keep the instance small. Not modelled: the gauge `open_handles`,
symlinks, I/O errors of the upper, and rename onto an existing name, which VfsPath
refuses (the handler answers EIO); read jobs change nothing.

### Merkle and Verity

SHA-256 is taken to have no collisions, so a hash is the term that was hashed:
padded blocks, pairs of hashes, and the zero hash of padding leaves. In an entry
of the manifest `content_hash` is therefore the content. `disk` is the layer's
directory, which another process writes in place (`Modify`) at any time; files
appear and are not removed. `job` is a builder at work: `Stat` and `ReadFile` are
the two steps `build_from_vfs` takes for a file, `build_from_dir` takes one and
records symlinks (`Link`) by their text. `mfile` and `tfile` are the two files
`verity build` writes, in that order; each may be torn by a crash, or a crash may
come between. `load_pinned` mounts a pair, `StartMount` ... `FinishMount` is
`VerifiedFS::build`, `StartVerify` ... `FinishVerify` is `verity verify`. `layer`
and `cache` are `VerifiedLayerVfs` (`NoLayer` when there is none) and the set bits of its
cache, `scan` a `full_check` in progress (`NoScan` when there is none), `range` a
`verify_file_blocks` in progress. `WriteTree` may come without `WriteManifest`: with
`--tree` alone the manifest goes to standard output. A read is one `ReadStep` for each
block it needs, a `full_check` one `ScanBlock` and a `verify_file_blocks` one `RangeStep`
for each block they look at, each of which opens the file again, so that files change in
between; one check runs at a time. `verify_file_blocks` lets a path pass that the manifest
does not list. `steady` says that nothing was written since the check began. `reply` is
what a call answered, for `verity verify` whether it ran with `--warn-only`, how it exits
and the failures it counted. A call that fails before it changes anything is a guard;
a seek before the start fails and leaves the position.

### ProbeCache

`whc` and `opc` are `lower_whiteouts` and `lower_opaque`, `th` the call each thread
is in: the layer `i` it is at, the directory `cur` it asks about. A miss is three
steps, lookup under the read lock, probe without a lock, insert under the write
lock, and two threads may miss at once. The guard of `lower_opaque` is a step of
its own, because it is a temporary whose lifetime decides whether the insert can be
reached; `readers` are those who hold it. `io` says whether the disk answers.
A marker probe that fails answers "no marker" (`unwrap_or(false)`, `if let Ok(it)`), and
the answer is cached; an existence probe that fails is an error of the
call, or "no" where the layer below swallows it. `missed` and `bad` record the two
kinds of failure.

### Stats and RecentLog

An operation is a scope (`StartScope` ... `Drop`) around `record`: the counters, the
first `now_ms`, the store of last_op_unix_ms, the ring's mutex, the second `now_ms`
and the push. All atomics are relaxed, so the increments of an observation become
visible in any order (`todo`, `Visible`), and what a scrape can see of one counter
is its value at some instant. `Push` and `Collect` keep the ring's slots, head and
remainders. A panic unwinds through the scope. The clock does not run backwards.
`RecentLog` is the promise of the control socket's `ops`; `RingIsLog` says that
`Stats`, with `log` read as `Collect(ring, Cap)`, implements it.

### Daemon

An instance is a process: `pc` says how far `main` is, `parent` the process that
polls the mountpoint after the fork, `watcher` the signal thread, `owned` whether the
session still holds fuser's `Mount`. `table` is the stack of mounts at the one path;
every unmount is by path and takes the topmost. fuser's own unmount is umount(2),
which refuses a busy mount, the daemon's is MNT_DETACH. `user` is what is done with
a mount: a request that waits (`queued`), an open file, a write in the pool, unwritten
data, and a file its user has closed whose RELEASE is still to come (`closed`): flush
does nothing, so `Close` returns at once and `Release` writes back later, unless the mount
is gone by then and the kernel has dropped what was queued (`DropQueue`).
`is_fuse_mounted` is a statfs of whatever is mounted topmost at the path, answered by the
daemon of that mount, whichever it is; it blocks while that one does not serve, so the
parent meets its deadline only after a look that came back (`ParentLooks`,
`ParentTimeout`).
`RunFails` is a session loop that returns an error. `Panic` is a panic of any thread, and
`Unwind` says what it does: unwind into the `catch_unwind` around the session, or abort,
as the release profile has it (Cargo.toml:29). `raced`, `panicked`, `fault` and `cut`
record for the properties what happened to a daemon. fuser, the kernel and
containers-storage are external and modelled by what `main.rs` assumes of them.

### Pvc

`root` is the LayerFS that `SwappableRoot` holds, named by its upper, `wlock` its
write lock, `mux` the PVC mutex, `upper` the field `capture_layer` reads. A request of
the workload fetches the root (`Fetch`; a rename twice), then works on the upper it
fetched, so a pivot may come between; release truncates and writes in two steps. A
pivot is: the check, the mutex, the store under the write lock, its release, the
fields, and then, without locks, the list of names and one notification each. A
notification waits for a call that is under way in the kernel. A capture lists the
upper and then reads entry by entry; the blob carries entries, whiteouts and opaque
markers, as the upper holds them. `kc` holds the kernel's names, each with the root
it was looked up in, or with None once its notification has failed: `InvalListFails` and
`InvalEntryFails` are the errors of read_dir and of inval_entry, which the code drops,
and the pivot is answered ok with the names kept. `adrift` is the set of files for which
a pivot did not keep what the workload was told. `Physical` is the adapter's walk, whose
`layers[0]` is the upper the mount began with, and which no pivot changes. The agent that fills a new upper is external (`Prepare`: a copy
of the current one). The namespace is flat: what a call does to a deep tree is
LayerFS's matter.

## Runs

Passing:

| Run | Shows | Bounds |
|---|---|---|
| `layerfs` | types, `UpperIsTree`, `UpperVisible`, `Frame`, `Result`, `MoveKeepsData`, `OldOrNew`, `ListingMatches`, and that every call returns (`Terminates`) | six paths: two directories three levels deep, so that a move has a subtree and a parent to make; eight stacks: no lower, one, a lower's whiteout of a file and of a directory, a file over a directory, an opaque upper directory, an upper left by an earlier mount |
| `threadpool` | `Accounted`, `DropDrains`, `NoStall`, `DropReturns` | three workers, four jobs, two of them stuck and one panicking: one worker stays free |
| `fuse` | `RightFile`, `TablesAgree`, `LookupMatches`, `Converges`, `OpenIsCurrent` | two directories with one file name in each, so that a directory is renamed with a file in it; over a lower that has one of the files, and over a stack with both, one under another lower's whiteout and one under an opaque marker of the upper; the second lower verified; three inode numbers beside the root's, so that a number is dropped and its path gets a new one; two handles, so that there are two writers, a reader and a writer, or a reader that shares the other's backing file; files of at most one byte; every behaviour of clients, except that a state with no promise left about any file (`want` None for all of them) is not followed past its second handle (`Promising`) |
| `verity` | types, `TreeExact`, `Authentic`, `NoFalseAlarm`, `RangeExact`, `ScanExact`, `VerifyExact` | blocks of two bytes and files of up to two blocks: a short, a missing and a zero-filled block, and a file that grows by the block which the next one starts with; two files and a link to the second, which may be missing at first; two builds and two writes, so that the two files on disk can come from different contents and the layer change once more after that; two calls, so that one follows another on what the first left; one reader |
| `probes` | `PresentFound`, `RightUnlessMissed`, `Returns` | two threads, so that both miss the same entry; a directory and a file in it, over no lower, a whiteout over the file, and an opaque directory over it; a disk that fails and recovers at any time |
| `stats` | `NewestFirst`, `Bracketed`, the refinement `RingIsLog` | two threads and three operations over a ring of two, so that it wraps while another thread waits for it; a latency within the first bucket and one beyond the last; one tick of the clock |
| `daemon` | `NoZombie`, `ExitLosesNothing`, `ParentReturns`, `SignalStops`, `Answered` | the release build (`Unwind` FALSE); two daemons, one after the other, so that the second meets what the first left behind; the three ways to start: as mount_program, in PVC mode with a control socket, in the foreground |
| `pvc` | `TreeKept`, `CaptureIsMount`, `Invalidated`, `Answered` | a file in a lower and a new one; two uppers, so that the mount can pivot away and back; two control requests, so that they contend for the mutex; two requests of the workload, so that one is under way before and one after the swap; mounts that may and may not pivot; notifications that fail |

Deadlock is checked for LayerFS and ProbeCache. It is not for the pool, which stops
once it is dropped, nor for the others, which stop when their bounded numbers are
used up.

Violations. Each checks one property that a comment or a document claims, and
its counterexample is a finding in `PROJECT.json`:

| Run | What happens |
|---|---|
| `layerfs_mkdir` | a directory that was removed or moved away and is made again shows what the lower has below it, also files that were deleted there; overlayfs, whose semantics layer.rs:4-5 claims, makes it opaque |
| `daemon_panic` | the release build aborts on panic: a panic of any thread ends the daemon without a clean-up and leaves its mount, where faults.md:27-28 and 127-131 promise that it is caught and cleaned up |
| `daemon_overlap` | a daemon whose mount was detached ends after another one has mounted at the path, and detaches that one's mount |
| `pvc_lookup` | lookup, getattr and opens for reading go by the upper the mount began with: after a pivot they do not find what was created since, and find what was deleted |

## Departures

More places where the code does something a reader may not expect. They are in
the models; the passing runs leave them out or allow for them, as said here.

LayerFS. mkdir of a name whose old directory was removed brings the old content
back, since nothing makes the new directory opaque; so does a move onto such a name. That
is the finding of `layerfs_mkdir`; `Result` allows for exactly it (`Uncovered`: below a
directory the call made, the lowers' entry) and nothing else. A directory
made over a lower's file cannot be listed (read_dir gives up on the lower), and the
adapter's rmdir takes the failure for an empty directory. rmdir of a directory that
lists as empty is refused while the upper's directory holds markers
(`RemoveRefused`, which is not an Ok, so `Result` does not speak of it). read_dir does not
see a lower's opaque marker, which resolve does,
and lists names that cannot be opened. Of the upper it asks about the marker of the
listed directory only, where resolve asks about every one above: below a directory
made again inside an opaque one it lists names of the lowers that cannot be opened
either. `ListingMatches` is checked and proved over stacks with neither (`Shallow`).

The adapter. These are the steps that give None to a name in `want`, and the names which
`RightFile`, `Converges` and `OpenIsCurrent` therefore leave out; each is there because
TLC finds a counterexample without it.

* Write-back goes to the name a file had when it was opened, so a file that is renamed
  or unlinked under a writer comes back under its old name.
* A truncate by path, O_TRUNC included, leaves the buffer of an open writer alone, and its
  write-back brings the old bytes back, as far as nothing was written over them. A truncate
  is exact if every writer's buffer is empty.
* Of two writers of one file the last to write back wins.
* SETATTR with a size other than 0 is answered with success and does nothing
  (fs.rs:19-21, 606, 660).
* CREATE of a file that appeared behind the kernel's back without O_TRUNC is treated as an
  open, but the handle starts with an empty buffer.
* A rename of a directory rebinds the directory alone: inodes below it keep their old
  paths, and a new file may share its number with a moved one.
* `physical_for` looks neither at a lower's whiteouts nor at opaque markers (fs.rs:241-260;
  the comment at fs.rs:22-24 has it fall back to the overlay there). lookup and read-only
  opens find the file that is hidden, and a chmod copies it up and so brings it back.
  `LookupMatches` says that this is all the two walks differ in.

Besides, an open of a file that was rewritten shares the old backing file as long as a
reader from before remains (the second disjunct of `OpenIsCurrent`). The gauge
`open_handles` is decremented before the handle is looked up (fs.rs:1081-1084); it is not
modelled.

The probe caches. layer.rs:191 says that a directory is probed exactly once; under a
race two threads probe it and both insert, the same answer unless the disk failed
one of them, and then the later insert stays. That is why `RightUnlessMissed` names a
failed probe by any call before.

The daemon. Three things leave a mount without a daemon (`cut` in `NoZombie`), where
docs/faults.md:127-131 promises the clean-up on every exit path: a SIGTERM after
`Session::new` and before the handlers are armed, a control socket that cannot be bound
while a request waits in the mount, and a panic in a build that aborts. Three lose data
that is not written back (`ExitLosesNothing`): a session that fails, a panic, and an
unmount that overtakes the RELEASE of a file whose user's close has returned (flush is a
no-op, fs.rs:1531-1535). The watcher tries one unmount, which a busy mount refuses; later signals
do nothing and the daemon goes on until it is unmounted (`watcher = "failed"` in
`SignalStops`). In plain mode a failing `Session::new` still runs the clean-up, which
unmounts whatever is at the path. The parent takes any FUSE mount at the path for its
child's: with another daemon's mount there it would report success before the child has
mounted (the model starts a daemon only where nobody serves a mount). A detached session is forgotten, not dropped, so
the pool is not drained as docs/concurrency.md:102 says. The connection is over by
then, so no request waits.

PVC. Lookup, getattr and read-only opens go by the first upper for ever (the finding of
`pvc_lookup`), and so do symlink, chmod and xattr requests, which the model leaves
out; `TreeKept` is about the swappable root, which readdir, opens for writing, unlink,
rename and capture go by. A call under way at the swap finishes in the old upper, and a
rename may take its file from one upper and put it into another; what is written between
the copy and the swap is left behind. `adrift` records the files of all three. A pivot is
answered ok when read_dir or a notification failed, and the names stay (control.rs:501,
510-512, 372-374). `pivot-upper` drops the names of
the new tree only; the kernel keeps one that the new tree does not have
(`Invalidated`). A capture is not refused on a read-only mount, although mount.rs:33
and the unused `supports_capture` say so. capture.rs:72 speaks of the digest of the
compressed blob; the code hashes the tar before compression. The count of open
handles in the answer of a pivot is read before the swap.

Verity. `verity verify` compares the root only, and the root covers the blocks
in order, not the names and sizes. A directory whose content moved from one file
to the next, or in which a file grew by zeros within its last block, passes;
`VerifyExact` says exactly what passing means. The "match" it prints is the manifest's
root compared with itself (cli main.rs:500, 537-539), and with `--warn-only` it exits with
success whatever it found. `full_check` lays a file that has grown over the blocks of
those after it, and does not notice when it grew by just these (`ScanExact`).
`verify_file_blocks` answers Ok for a path that is not in the manifest, and without a
pinned manifest trusts a block that was good before the file was written (`RangeExact`).
A link in a manifest of `build_from_dir` is hashed by its text and read through to its
target, so it cannot be read or checked through the verified layer. A file written between
the builder's stat and its read gets a size that is not that of its content, and
`Authentic` does not speak of it. A read that fails at its second block has
already moved its position past the first. The reader hashes a block each time it
loads it and never asks the cache, whose only reader is `verify_file_blocks`.

## Fairness

`layerfs` assumes weak fairness of `Step`: the session thread runs
a handler to its end. `threadpool` assumes it of every worker, because threads
are scheduled, except for the end of a stuck job; and of the owner's join. `probes`
assumes weak fairness of each thread's walk, and strong fairness of the insert, which
is enabled only between readers: the lock of the standard library lets no new reader
in while a writer waits. `daemon` assumes weak fairness of the daemon's main thread,
its session loop and workers, the watcher, and the parent, and strong fairness of
`ParentTimeout`: a parent that goes round its loop again and again meets its deadline;
`pvc` of the dispatch thread and of each control request. None is assumed of
clients, submissions, signals, unmounts, faults, or Drop being called.

## Proofs

All are checked by TLAPS for every value of the constants that the `ASSUME`s
admit: paths are closed under taking parents, contents differ from "absent" and
"directory", every layer of a stack at mount time is a directory tree; for Verity blocks
have a size other than 0 and contents are finite sequences of numbers; for the
adapter the namespace is finite and a path is one kind of thing in all layers; for
a PVC mount it is flat. TLC evaluates those assumptions in every run. Where a theorem
needs more, its statement says so, and "Departures" says what happens without.

LayerFS:

* `TypeCorrect`, `UpperAlwaysTree`, `CallsStayLocal`, `NothingLostInUpper`. None of
  UpperIsTree, Frame and UpperVisible is inductive: what a
  primitive may do depends on those that ran before it. `CallInv` says what holds
  between them: once parents are made all ancestors of the entry are upper
  directories, once the whiteout is removed the entry has none, an entry to be
  marked is gone from the upper, the entries a recursive removal still has to
  visit are reachable and none is below the one it is at. `Invariance` shows the
  conjunction inductive, action by action; the lemmas before it say how
  resolution depends on the upper: that making a parent which is already a
  directory of the merged tree changes no view, and that a change at a path shows
  only at or below it.
* `MovesLoseNothing`, `AbandonedIsOldOrNew`, `OkMeansDone`. They speak of the end or
  of the abandonment of a call and say nothing about the way there. `DataInv` does:
  while a call copies, the source is as it was (`Kept`) and each entry is still to be
  visited, being copied, or in the upper under its new name (`Arrived`); when
  removal starts, all of it is (`Copied`), and stays so, because source and
  destination are apart. The root of what is removed goes last, so once it is gone
  the walk is over. `LeftInv` accounts for whatever the upper holds where the call
  works. Two entries of a moved tree never have the same new name
  (`JoinInjective`), so no copy overwrites another.
* `ListingIsExact`, over `Shallow` stacks. The argument is that a call never adds an
  opaque marker: it only sweeps them with the directory they are in.

ThreadPool:

* `PoolTypes`, `JobsAccounted`, `DropIsClean`. `PoolInv` adds that
  the lock's holder is the one worker inside recv, and that a worker leaves only
  when the channel is closed and empty, which it then remains.

FuseFS:

* `InodeTablesAgree`, with no assumption about clients. `TablesInv` adds that every number
  in use is below `next_ino`, so that a fresh one is nobody's.
* `LookupSeesOverlay`, over every stack, lower whiteouts and opaque markers included, and
  whatever clients do. What the overlay shows the adapter's walk finds in the same layer;
  what it finds beyond lies under a marker of one of the two kinds it ignores.
* `RequestsHitTheirName`, unless a directory is renamed, after which the inodes below
  it lead to the old paths. `NameInv` says that the number the kernel holds for a path is
  the one the path is interned under; an open handle is a file's.

ProbeCache:

* `NothingHidden`, `WrongNeedsMiss`. Neither is inductive: an answer
  depends on cache entries that other calls left. `CacheInv` says that a cached answer
  holds no marker the disk does not hold, and exactly the disk's if no probe of its
  directory has failed; `CallInv` says that the layers a call has passed do not
  hold its path and, failures aside, do not hide it. `missed` only grows, so what a
  call knew stays true while others fail (`MoreMissed`).

Stats:

* `RingImplementsLog`, `OpsInOrder`. The refinement, by a step simulation: a push
  maps to `Add`, everything else leaves `Collect(ring, Cap)` as it is. The invariant is
  that `head` is 0 until the buffer is full and a slot of it from then on; the rest is
  the arithmetic of the remainders by which push and collect go round. For the order,
  that a timestamp taken is never ahead of the clock, nor `last` ahead of the newest
  entry once nobody is between the store and the push.
* `ScrapeIsBracketed`, for any threads, operations, latencies and ascending bucket
  bounds. The increments of one observation become visible one by one in any order, so
  no two values of a histogram need agree. `HInv` says that each value is exactly
  that of the observations whose increment of it has been seen (`Seen`: begun, less the
  threads that still wait for it), which lies pointwise between those that have `Ended`
  and those `begun`; sums are monotone (`MetricOrder`). An increment adds one
  observation to exactly one `Seen` (`VisibleHist`); a latency beyond the last bound
  waits for no bucket, and none reports it (`NoBucket`, `DropHist`). The bounds must
  ascend, as `LAT_BUCKETS_US` does, for the first bucket that fits to be the one the
  cumulative counts expect (`BucketFor`); latencies are finitely many, as a u64's are.
  The sums over sets and the cumulative function are shown to exist and to satisfy their
  equations, by induction with a least counterexample (`BySize`, `UpTo`).

Daemon:

* `MountGoesWithDaemon`, `OnlyFaultsLose`, for any number of daemons, overlapping or
  not, in builds that unwind on a panic and in builds that abort. Every unmount is by path and takes the topmost mount, so that
  what it hits depends on all daemons. `TableInv` says that the mount of a daemon that
  runs is the topmost and is there once, which holds because a daemon starts only when no
  other that runs has a mount (`OrderInv`). `OwnInv` is what a daemon knows of itself on
  its way through `main`. What an overlap does break, another daemon's
  mount being taken away, is the property of `daemon_overlap`.

Pvc:

* `PromotionKeepsData`, `QuietCaptureIsMount`, `PivotDropsNames`. `MutexInv` says that
  outside the two last steps of a pivot the upper that capture packs is the one
  mounted; `ServedInv`, that the call under way works on the stored root unless its
  files are `adrift`, and that the tree has what the workload was told of all others; `HandleInv`, that a
  file with an open handle exists, so that no write-back brings back a name which an
  invalidation left alone because it was absent; `StaleInv`, which names may still be
  stale at each step of a pivot; `PackInv`, what a quiet capture has packed so far.

Verity:

* `TypesHold`, `TreeIsExact`, `ReadsAreAuthentic`, `FailuresAreReal`, `RangesAreExact`,
  `ScansAreExact`, `VerifyIsExact`, for every block size, number of files, length of contents and number of readers. The only
  assumption about the hash is the one the model makes, that hashes are terms. First the
  tree: a path from a leaf reaches the root exactly when the hashes on it are the tree's
  (`ClimbSound`, `ClimbComplete`); two trees with one root are the same tree, equally large,
  since a padding leaf, a block and a pair never hash alike (`SameRoot`). So it does
  not matter which build the tree on disk comes from, as long as the root is the
  manifest's. Then the blob: `AddBlob` shows that each file added keeps all earlier
  ranges and block contents, which is where aligning files to blocks is needed. `IInv` is
  the inductive part: a finished build is a good blob; of a pinned mount only the root is
  known to agree; a reader's current block is the entry's and what a read has gathered
  so far is a slice of the content (`ReaderOK`); a full check in progress has counted no
  failure exactly if it would accept every block it has passed (`ScanAt`), a check of a range
  has accepted all blocks before the one it is at (`RangeOK`), for as long as nobody writes
  (`steady`); what `verity verify` has read is the directory as it is (`AsOn`). None of the
  properties is inductive without it: they speak of a call's last step only. A layer
  whose tree has another root than its manifest accepts no block of a file
  (`LayerRefuses`), so that only empty files pass its checks (`OwnFile`).
* The recursive functions (hashes, the climb, powers of two, the collected paths, the
  flattened blob) are each shown to exist and to satisfy their equation, and the
  inductions over them are by a least counterexample (`LeastOf`, `UpTo`, `DownFrom`).

Model-checked only: liveness (`Terminates`, `NoStall`, `DropReturns`, `Returns`,
`ParentReturns`, `SignalStops`, the two `Answered`), which this prover cannot do under
fairness; what the violation runs refute; and of the adapter `Converges` and
`OpenIsCurrent`. Every other safety property of a passing run has a theorem.

## Not modelled

* The kernel log, the metrics listener and the load generator: formatting and I/O.
* The CLI but for `verity build` and `verity verify`; argument and mount option parsing.
* Of the control socket, the requests that only read (ping, status, info, debug) and the
  JSON framing. Of the statistics, the plain counters no property would relate to
  anything.
* Of the adapter, the gauge `open_handles`, which only reports read, symlinks, and
  I/O errors of the upper at write-back: a release that
  fails after close has returned loses the data, and the model does not have it.
* Copy-up from a verified lower, which reads the physical file without checking a
  block: it needs FuseFS and Verity together, and their product is beyond TLC.
* An abstract tree with one atomic action per call, as a specification for LayerFS,
  was planned and given up: a call interrupted half way leaves a state no atomic call
  leads to, so the abstract actions would have to repeat the intermediate states.
  `Result`, `Frame` and `OldOrNew` state what such a refinement would have said.

## Plan

Done: Layers, LayerFS, ThreadPool, FuseFS, Merkle, Verity, ProbeCache, Stats, Daemon,
Pvc, and the proofs above. Worth doing next: errors of the upper in FuseFS, and proofs of
`Converges` and `OpenIsCurrent`.
