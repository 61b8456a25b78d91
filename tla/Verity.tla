------------------------------- MODULE Verity -------------------------------
(***************************************************************************)
(* rspacefs-verity: building the tree and manifest of a layer, keeping     *)
(* them on disk, mounting with them, reading through the verified reader,  *)
(* and the checks of a range and of a whole layer, while something else may  *)
(* be writing the layer's files.                                           *)
(***************************************************************************)
EXTENDS Integers, Merkle

CONSTANTS
    Order,      \* every path a layer may have, in the order of the BTreeMap
    Link,       \* the symlinks among them, with the path each leads to
    LinkText,   \* what readlink gives for a symlink
    Contents,   \* the contents a file may have: sequences of bytes
    Readers,    \* the open files
    Initial,    \* the layers to start from: the content of every file, or Absent
    MaxRead,    \* bound: the longest read; the others ask for one byte, seeks go to the byte before it
    MaxCalls,   \* bound: calls made to a mounted layer
    MaxMods,    \* bound: writes to the layer's files
    MaxBuilds,  \* bound: runs of a builder
    None, Torn, Absent

VARIABLES
    disk,       \* the layer's files; they are written in place and never removed
    job,        \* the build in progress
    mfile,      \* the manifest on disk
    tfile,      \* the serialised tree on disk
    layer,      \* VerifiedLayerVfs of the process
    cache,      \* VerifiedBlockCache: the bits that are set
    readers,    \* VerifiedReader, one for each open file
    scan,       \* full_check in progress
    range,      \* verify_file_blocks in progress
    reply,      \* what the last step returned to its caller
    steady,     \* no file was written since the check in progress began
    mods, builds, calls

vars == <<disk, job, mfile, tfile, layer, cache, readers, scan, range, reply, steady, mods, builds, calls>>

Paths == Range(Order)
Files == Paths \ DOMAIN Link

\* An entry of the manifest.  content_hash is the content: hashes do not collide.
FileEntry == [path : Paths, kind : {"File", "Symlink"}, size : Nat,
              content_hash : Contents \cup {LinkText}, block_range : Nat \X Nat]

ASSUME VerityAssumption ==
    /\ Order \in Seq(Paths)
    /\ \A l \in DOMAIN Link : l \in Paths /\ Link[l] \in Files
    /\ Contents \subseteq Seq(Nat) /\ LinkText \in Seq(Nat)
    /\ None \notin Contents /\ Absent \notin Contents /\ None \notin FileEntry
    /\ Initial \subseteq [Files -> Contents \cup {Absent}]
    /\ MaxRead \in Nat \ {0} /\ MaxCalls \in Nat /\ MaxMods \in Nat /\ MaxBuilds \in Nat

\* `current` is the block loaded last; want, asked and got belong to the read in progress.
VerifiedReader == [entry : FileEntry, position : Nat,
                   current : {None} \cup [block : Nat, data : Seq(Nat)],
                   want : Nat, asked : Nat, got : Seq(Nat)]

\* The process has nothing mounted.
NoLayer == [tree |-> None, manifest |-> None, root_hash |-> None, on_failure |-> "None",
            cache_enabled |-> FALSE, pinned |-> FALSE]

\* No full_check is in progress.
NoScan == [for |-> "None", todo |-> <<>>, pos |-> 0, eof |-> FALSE, block_idx |-> 0, failed |-> 0]

\* What opening a path reads: vfs follows symlinks.
Follow(p) == disk[IF p \in DOMAIN Link THEN Link[p] ELSE p]

ReplyNothing == reply' = None

\* One more call to the mounted layer.
Called == calls < MaxCalls /\ calls' = calls + 1

-----------------------------------------------------------------------------
(* Building *)

\* collect_files skips what it cannot stat, collect_files_lstat records every link.
Collects(builder, p) == Follow(p) # Absent \/ (builder = "dir" /\ p \in DOMAIN Link)

Collected(builder) ==
    LET upto[n \in 0..Len(Order)] ==
            IF n = 0 THEN <<>>
            ELSE IF Collects(builder, Order[n]) THEN Append(upto[n - 1], Order[n])
            ELSE upto[n - 1]
    IN  upto[Len(Order)]

\* The bytes of a file, filled up with zeros to a block boundary.
Aligned(buf) == buf \o [i \in 1..BlocksOf(Len(buf)) * BlockSize - Len(buf) |-> 0]

StartBuild(for, builder, warn) ==
    /\ job = None /\ layer = NoLayer /\ builds < MaxBuilds
    /\ builds' = builds + 1
    /\ job' = [for |-> for, builder |-> builder, warn |-> warn, todo |-> Collected(builder),
               size |-> None, data |-> <<>>, files |-> <<>>, manifest_written |-> FALSE]
    /\ steady' = TRUE
    /\ ReplyNothing
    /\ UNCHANGED <<disk, mfile, tfile, layer, cache, readers, scan, range, mods, calls>>

\* `rspacefs verity build`, or build_from_dir by a caller of the library.
StartPin == \E b \in {"vfs", "dir"} : StartBuild("pin", b, FALSE)

\* VerifiedFS::build, at mount time.  It does not look at the files on disk (bound:
\* there are none).
StartMount == mfile = None /\ tfile = None /\ StartBuild("mount", "vfs", FALSE)

\* `rspacefs verity verify` reads the manifest first.
StartVerify == mfile \notin {None, Torn} /\ \E w \in BOOLEAN : StartBuild("verify", "vfs", w)

Building == job # None /\ UNCHANGED <<disk, steady, readers, range, mods, builds, calls>>

\* build_from_vfs takes the size from metadata() ...
Stat ==
    /\ Building
    /\ job.builder = "vfs" /\ job.todo # <<>> /\ job.size = None
    /\ job' = [job EXCEPT !.size = Len(Follow(Head(job.todo)))]
    /\ ReplyNothing
    /\ UNCHANGED <<mfile, tfile, layer, cache, scan>>

\* Mutant: files follow each other without being aligned, ranges still count whole blocks.
AddUnaligned(kind, size, buf) ==
    LET start == BlocksOf(Len(job.data)) IN
    job' = [job EXCEPT
        !.todo = Tail(@),
        !.size = None,
        !.data = @ \o buf,
        !.files = Append(@, [path |-> Head(job.todo), kind |-> kind, size |-> size,
                             content_hash |-> buf,
                             block_range |-> <<start, start + BlocksOf(Len(buf))>>])]

\* One file into the blob and the manifest.
Add(kind, size, buf) ==
    LET start == BlocksOf(Len(job.data)) IN
    job' = [job EXCEPT
        !.todo = Tail(@),
        !.size = None,
        !.data = @ \o Aligned(buf),
        !.files = Append(@, [path |-> Head(job.todo), kind |-> kind, size |-> size,
                             content_hash |-> buf,
                             block_range |-> <<start, start + BlocksOf(Len(buf))>>])]

\* ... and reads the content afterwards; build_from_dir takes the size from what it read.
ReadFile ==
    /\ Building /\ job.todo # <<>>
    /\ \/ job.builder = "vfs" /\ job.size # None /\ Add("File", job.size, Follow(Head(job.todo)))
       \/ /\ job.builder = "dir"
          /\ IF Head(job.todo) \in DOMAIN Link THEN Add("Symlink", Len(LinkText), LinkText)
             ELSE Add("File", Len(disk[Head(job.todo)]), disk[Head(job.todo)])
    /\ ReplyNothing
    /\ UNCHANGED <<mfile, tfile, layer, cache, scan>>

\* A failing call, or the end of the process, before the result is used.
BuildError ==
    /\ Building
    /\ job' = None
    /\ ReplyNothing
    /\ UNCHANGED <<mfile, tfile, layer, cache, scan>>

Built     == Building /\ job.todo = <<>>
Tree      == build(job.data)
Manifest  == [files |-> job.files, root_hash |-> root_hash(Tree)]

-----------------------------------------------------------------------------
(* Keeping the result: the manifest, if it goes to a file, is written before *)
(* the tree.  A process that dies while it writes leaves part of a file.     *)

WriteManifest ==
    /\ Built /\ job.for = "pin" /\ ~job.manifest_written
    /\ \/ mfile' = Manifest /\ job' = [job EXCEPT !.manifest_written = TRUE]
       \/ mfile' = Torn /\ job' = None
    /\ ReplyNothing
    /\ UNCHANGED <<tfile, layer, cache, scan>>

WriteTree ==
    /\ Built /\ job.for = "pin"
    /\ job' = None
    /\ \/ tfile' = to_bytes(Tree)
       \/ tfile' = Torn
       \/ tfile' = [to_bytes(Tree) EXCEPT !.nodes = Front(@)]
    /\ ReplyNothing
    /\ UNCHANGED <<mfile, layer, cache, scan>>

-----------------------------------------------------------------------------
(* Mounting *)

\* VerifiedLayerVfs::new; `pinned` is what the caller wanted it for.
VerifiedLayerVfs(tree, manifest, root, on_failure, pinned) ==
    [tree |-> tree, manifest |-> manifest, root_hash |-> root,
     on_failure |-> on_failure, cache_enabled |-> TRUE, pinned |-> pinned]

FinishMount ==
    /\ Built /\ job.for = "mount"
    /\ \E m \in {"Reject", "Warn"} : layer' = VerifiedLayerVfs(Tree, Manifest, root_hash(Tree), m, FALSE)
    /\ cache' = {}
    /\ job' = None
    /\ ReplyNothing
    /\ UNCHANGED <<mfile, tfile, scan>>

\* Mutant: the cache is left as new() sets it.
PinnedCached(l) == l

\* set_cache_enabled(false)
Pinned(l) == [l EXCEPT !.cache_enabled = FALSE]

\* Both files parse, and name the same root; every caller asks for Reject.
load_pinned ==
    /\ job = None /\ layer = NoLayer
    /\ mfile \notin {None, Torn} /\ tfile \notin {None, Torn} /\ WellFormed(tfile)
    /\ root_hash(from_bytes(tfile)) = mfile.root_hash
    /\ layer' = Pinned(VerifiedLayerVfs(from_bytes(tfile), mfile, mfile.root_hash, "Reject", TRUE))
    /\ cache' = {}
    /\ ReplyNothing
    /\ UNCHANGED <<disk, job, mfile, tfile, readers, scan, range, steady, mods, builds, calls>>

FullCheck(for) == [for |-> for, todo |-> layer'.manifest.files, pos |-> 0, eof |-> FALSE,
                   block_idx |-> IF layer'.manifest.files = <<>> THEN 0
                                 ELSE layer'.manifest.files[1].block_range[1],
                   failed |-> 0]

\* Mutant: the check goes by the root of what it has just read.
RebuiltRoot == root_hash(Tree)

\* The root `verity verify` was given.
ExpectedRoot == mfile.root_hash

\* What `verity verify` says: how it exits, and the failures it counted, if it did.
Verified(warn, ok, failed) ==
    reply' = [kind |-> "verify", warn |-> warn, ok |-> ok, failed |-> failed]

\* The directory was read again; its tree is now checked against the old manifest's root.
FinishVerify ==
    /\ Built /\ job.for = "verify"
    /\ job' = None
    /\ IF root_hash(Tree) # ExpectedRoot /\ ~job.warn
       THEN /\ Verified(FALSE, FALSE, None)
            /\ UNCHANGED <<layer, cache, scan>>
       ELSE /\ layer' = VerifiedLayerVfs(Tree, Manifest, ExpectedRoot, IF job.warn THEN "Warn" ELSE "Reject", FALSE)
            /\ cache' = {}
            /\ scan' = FullCheck("verify")
            /\ ReplyNothing
    /\ UNCHANGED <<mfile, tfile>>

Mounted == layer # NoLayer /\ scan.for # "verify"

\* The bits that are set once the blocks of s are found good.
Mark(s) == {b \in s : b < layer.tree.leaf_count}

Trusted(b, data) == verify_block(layer.tree, b, data, layer.root_hash)

-----------------------------------------------------------------------------
(* VerifiedReader *)

EntryFor(p) == {i \in DOMAIN layer.manifest.files : layer.manifest.files[i].path = p}

\* A path that is not in the manifest is refused.
open_file(r, p) ==
    /\ Mounted /\ readers[r] = None /\ UNCHANGED calls
    /\ Follow(p) # Absent
    /\ \E i \in EntryFor(p) :
         readers' = [readers EXCEPT ![r] =
            [entry |-> layer.manifest.files[i], position |-> 0, current |-> None,
             want |-> 0, asked |-> 0, got |-> <<>>]]
    /\ ReplyNothing
    /\ UNCHANGED <<disk, job, mfile, tfile, layer, cache, scan, range, steady, mods, builds>>

Reading(r) ==
    /\ readers[r] # None
    /\ UNCHANGED <<disk, job, mfile, tfile, layer, scan, range, steady, mods, builds>>

close(r) ==
    /\ Reading(r) /\ readers[r].want = 0
    /\ readers' = [readers EXCEPT ![r] = None]
    /\ Called
    /\ ReplyNothing /\ UNCHANGED cache

\* Whatever form of SeekFrom leads to new_pos; an error when that is before the start.
seek(r, new_pos) ==
    /\ Reading(r) /\ readers[r].want = 0
    /\ readers' = IF new_pos < 0 THEN readers ELSE [readers EXCEPT ![r].position = new_pos]
    /\ Called
    /\ ReplyNothing /\ UNCHANGED cache

Answer(rd, ok, bytes) ==
    reply' = [kind |-> "read", entry |-> rd.entry, ok |-> ok, bytes |-> bytes,
              asked |-> rd.asked, from |-> rd.position - Len(rd.got)]

read(r, n) ==
    /\ Reading(r) /\ readers[r].want = 0
    /\ LET rd == [readers[r] EXCEPT !.asked = n, !.got = <<>>] IN
       IF rd.position >= rd.entry.size
       THEN Answer(rd, TRUE, <<>>) /\ UNCHANGED readers
       ELSE ReplyNothing /\ readers' = [readers EXCEPT ![r] = [rd EXCEPT !.want = n]]
    /\ Called
    /\ UNCHANGED cache

\* Mutant: a whole block, also at the end of the file.
ToReadBlock(entry, k) == BlockSize

\* The bytes of block k that load_block asks for: none past the manifest's size.
ToRead(entry, k) ==
    IF entry.size <= k * BlockSize THEN 0 ELSE Min({entry.size - k * BlockSize, BlockSize})

\* Copy what the block has for this read; when enough is there the read returns.
Copied(r, rd, block) ==
    LET off  == rd.position % BlockSize
        n    == Min({Len(block) - off, rd.want})
        now  == [rd EXCEPT !.position = @ + n, !.want = @ - n,
                           !.got = @ \o Slice(block, off, off + n)]
        done == now.want = 0 \/ now.position >= now.entry.size
    IN  /\ readers' = [readers EXCEPT ![r] = IF done THEN [now EXCEPT !.want = 0, !.got = <<>>] ELSE now]
        /\ IF done THEN Answer(now, TRUE, now.got) ELSE ReplyNothing

\* The error keeps the position, which the blocks copied before it have advanced.
Failed(r, rd) ==
    /\ readers' = [readers EXCEPT ![r].want = 0, ![r].got = <<>>]
    /\ Answer(rd, FALSE, <<>>)

Rejects(trusted) == ~trusted /\ layer.on_failure = "Reject"

\* Mutant: any block that was loaded once is taken for the one asked for.
LoadedSome(rd, k) == rd.current # None

Loaded(rd, k) == rd.current # None /\ rd.current.block = k

\* One round of read's loop, with its load_block.
ReadStep(r) ==
    /\ Reading(r) /\ readers[r].want > 0 /\ UNCHANGED calls
    /\ LET rd   == readers[r]
           k    == rd.position \div BlockSize
           n    == ToRead(rd.entry, k)
           file == Follow(rd.entry.path)
           data == Slice(file, k * BlockSize, k * BlockSize + n)
           b    == rd.entry.block_range[1] + k
       IN  IF Loaded(rd, k) THEN Copied(r, rd, rd.current.data) /\ UNCHANGED cache
           ELSE IF Len(file) < k * BlockSize + n THEN Failed(r, rd) /\ UNCHANGED cache
           ELSE IF Rejects(Trusted(b, data)) THEN Failed(r, rd) /\ UNCHANGED cache
           ELSE /\ Copied(r, [rd EXCEPT !.current = [block |-> k, data |-> data]], data)
                /\ cache' = cache \cup Mark(IF Trusted(b, data) THEN {b} ELSE {})

-----------------------------------------------------------------------------
(* verify_file_blocks and full_check *)

Skips(b) == layer.cache_enabled /\ b \in cache

RangeAnswer(rg, ok) ==
    reply' = [kind |-> "range", entry |-> rg.entry, from |-> rg.from, to |-> rg.to, ok |-> ok]

\* A path that is not in the manifest is let pass.  (Bound: one check at a time.)
verify_file_blocks(p, off, len) ==
    /\ Mounted /\ scan = NoScan /\ range = None /\ Called
    /\ LET first == off \div BlockSize
           Over(e) == [entry |-> e, from |-> first, next |-> first,
                       to |-> first + BlocksOf((off % BlockSize) + len)]
       IN  IF EntryFor(p) = {} THEN RangeAnswer(Over(None), TRUE) /\ UNCHANGED <<range, steady>>
           ELSE /\ \E i \in EntryFor(p) : range' = Over(layer.manifest.files[i])
                /\ steady' = TRUE
                /\ ReplyNothing
    /\ UNCHANGED <<disk, job, mfile, tfile, layer, cache, readers, scan, mods, builds>>

\* One round of its loop: the file is opened again for the block.
RangeStep ==
    /\ range # None
    /\ LET e    == range.entry
           b    == e.block_range[1] + range.next
           data == Block(Follow(e.path), range.next)
           Fails   == range' = None /\ RangeAnswer(range, FALSE) /\ UNCHANGED cache
           Goes(s) == /\ cache' = cache \cup Mark(s)
                      /\ IF range.next + 1 = range.to THEN range' = None /\ RangeAnswer(range, TRUE)
                         ELSE range' = [range EXCEPT !.next = @ + 1] /\ ReplyNothing
       IN  IF Skips(b) THEN Goes({})
           ELSE IF Follow(e.path) = Absent THEN Fails
           ELSE IF Rejects(Trusted(b, data)) THEN Fails
           ELSE Goes(IF Trusted(b, data) THEN {b} ELSE {})
    /\ UNCHANGED <<disk, job, mfile, tfile, layer, readers, scan, steady, mods, builds, calls>>

full_check ==
    /\ Mounted /\ scan = NoScan /\ range = None /\ Called
    /\ UNCHANGED layer
    /\ scan' = FullCheck("check")
    /\ steady' = TRUE
    /\ ReplyNothing
    /\ UNCHANGED <<disk, job, mfile, tfile, cache, readers, range, mods, builds>>

Scanning == scan # NoScan /\ UNCHANGED <<disk, job, mfile, tfile, readers, range, steady, mods, builds, calls>>

\* Check one block's worth of bytes against block_idx.
Check(data) ==
    /\ scan' = [scan EXCEPT !.pos = @ + Len(data), !.block_idx = @ + 1,
                            !.failed = @ + (IF Trusted(scan.block_idx, data) THEN 0 ELSE 1)]
    /\ cache' = cache \cup Mark(IF Trusted(scan.block_idx, data) THEN {scan.block_idx} ELSE {})
    /\ ReplyNothing /\ UNCHANGED layer

\* Mutant: the blocks a file has lost are not accounted for.
FileChecked(e) == scan.eof

\* At the end of the file, and of its range.
FileDone(e) == scan.eof /\ scan.block_idx >= e.block_range[2]

ScanBlock ==
    /\ Scanning /\ scan.todo # <<>>
    /\ LET e == Head(scan.todo)
           rest == Slice(Follow(e.path), scan.pos, scan.pos + BlockSize)
       IN  /\ Follow(e.path) # Absent
           /\ ~FileDone(e)
           /\ \/ ~scan.eof /\ rest # <<>> /\ Check(rest)
              \/ scan.eof /\ Check(<<>>)
              \/ /\ ~scan.eof /\ rest = <<>>
                 /\ scan' = [scan EXCEPT !.eof = TRUE]
                 /\ ReplyNothing /\ UNCHANGED <<layer, cache>>

ScanNext ==
    /\ Scanning /\ scan.todo # <<>> /\ FileDone(Head(scan.todo))
    /\ LET todo == Tail(scan.todo) IN
       scan' = [scan EXCEPT !.todo = todo, !.pos = 0, !.eof = FALSE,
                            !.block_idx = IF todo = <<>> THEN @ ELSE todo[1].block_range[1]]
    /\ ReplyNothing /\ UNCHANGED <<layer, cache>>

WarnOnly == layer.on_failure = "Warn"

\* The result; `verity verify` ends here, a mounted layer goes on.  A link that
\* leads nowhere cannot be opened and ends the check with an error.
ScanDone ==
    /\ Scanning
    /\ scan' = NoScan
    /\ \/ /\ scan.todo = <<>>
          /\ IF scan.for = "check" THEN reply' = [kind |-> "scan", failed |-> scan.failed]
             ELSE Verified(WarnOnly, scan.failed = 0 \/ WarnOnly, scan.failed)
       \/ /\ scan.todo # <<>> /\ Follow(Head(scan.todo).path) = Absent
          /\ ReplyNothing
    /\ IF scan.for = "verify" THEN layer' = NoLayer /\ cache' = {} ELSE UNCHANGED <<layer, cache>>

-----------------------------------------------------------------------------
\* Somebody writes a file of the layer, or makes one.
Modify(p, c) ==
    /\ mods < MaxMods /\ c # disk[p]
    /\ disk' = [disk EXCEPT ![p] = c]
    /\ mods' = mods + 1
    /\ steady' = FALSE
    /\ ReplyNothing
    /\ UNCHANGED <<job, mfile, tfile, layer, cache, readers, scan, range, builds, calls>>

Init ==
    /\ disk \in Initial
    /\ job = None /\ mfile = None /\ tfile = None
    /\ layer = NoLayer /\ cache = {} /\ scan = NoScan /\ range = None /\ reply = None
    /\ readers = [r \in Readers |-> None]
    /\ steady = TRUE /\ mods = 0 /\ builds = 0 /\ calls = 0

Next ==
    \/ StartPin \/ StartMount \/ StartVerify
    \/ Stat \/ ReadFile \/ BuildError
    \/ WriteManifest \/ WriteTree
    \/ FinishMount \/ load_pinned \/ FinishVerify
    \/ full_check \/ ScanBlock \/ ScanNext \/ ScanDone \/ RangeStep
    \/ \E p \in Paths, off \in {0, MaxRead - 1} : verify_file_blocks(p, off, MaxRead)
    \/ \E r \in Readers :
         \/ ReadStep(r) \/ close(r)
         \/ \E p \in Paths : open_file(r, p)
         \/ \E n \in {1, MaxRead} : read(r, n)
         \/ \E pos \in {-1, MaxRead - 1} : seek(r, pos)
    \/ \E p \in Files, c \in Contents : Modify(p, c)

Spec == Init /\ [][Next]_vars

-----------------------------------------------------------------------------
(* Properties *)

\* Types: the build and the layer keep block ranges inside their blob, the cache
\* has bits for the layer's blocks only.
TypeOK ==
    /\ disk \in [Files -> Contents \cup {Absent}]
    /\ job # None =>
         /\ Len(job.data) % BlockSize = 0
         /\ job.files \in Seq(FileEntry)
         /\ \A i \in DOMAIN job.files :
              LET blocks == job.files[i].block_range IN
              /\ blocks[1] = IF i = 1 THEN 0 ELSE job.files[i - 1].block_range[2]
              /\ blocks[2] * BlockSize <= Len(job.data)
    /\ layer # NoLayer => /\ layer.manifest.files \in Seq(FileEntry)
                       /\ cache \subseteq 0..layer.tree.leaf_count - 1
    /\ layer = NoLayer => cache = {} /\ scan = NoScan /\ range = None /\ \A r \in Readers : readers[r] = None
    /\ \A r \in Readers : readers[r] # None =>
         /\ readers[r] \in VerifiedReader
         /\ readers[r].want <= readers[r].asked
    /\ mods \in 0..MaxMods /\ builds \in 0..MaxBuilds /\ calls \in 0..MaxCalls

\* The blob of a manifest; nothing at all hashes like one block of zeros.
Image(files) ==
    LET data == FlattenSeq([i \in DOMAIN files |-> Aligned(files[i].content_hash)])
    IN  IF data = <<>> THEN Aligned(<<0>>) ELSE data

\* The manifest's files have data, filled up with zeros, as block b.
Fits(b, data) ==
    LET image == Image(layer.manifest.files) IN b < BlocksOf(Len(image)) /\ Padded(data) = Block(image, b)

\* Byte sequences short enough to be a block.
SomeBlocks == UNION {[1..n -> {0, 1}] : n \in 0..BlockSize}

\* verify_block of a mounted layer accepts, at an index, the block the manifest's
\* files have there and nothing else, whichever build its tree comes from; at a
\* padding leaf or past the leaves it accepts nothing.  (Looked at before the first
\* call: the layer does not change after that.)
TreeExact ==
    layer # NoLayer /\ calls = 0 /\ layer.root_hash = layer.manifest.root_hash =>
        \A b \in 0..layer.tree.padded_leaf_count, d \in SomeBlocks :
            Trusted(b, d) <=> Fits(b, d)

\* Under Reject, VerifiedReader::read returns exactly the bytes that were there
\* when the manifest was built, and all of those asked for: whatever was written
\* since, wherever between two blocks it was written, whichever pair of files a
\* crash of the builder left.  (An entry whose file changed between the builder's
\* stat and its read has a size that is not that of its content.)
Authentic ==
    reply # None /\ reply.kind = "read" /\ reply.ok /\ layer.on_failure = "Reject" =>
        LET e == reply.entry IN
        e.size = Len(e.content_hash) =>
            reply.bytes = Slice(e.content_hash, reply.from, reply.from + reply.asked)

\* A read fails only when the file on disk no longer starts with the content in
\* the manifest.  (A link in a manifest of build_from_dir is never readable.)
NoFalseAlarm ==
    reply # None /\ reply.kind = "read" /\ ~reply.ok =>
        LET e == reply.entry IN
        e.kind = "File" /\ e.size = Len(e.content_hash) =>
            ~IsPrefix(e.content_hash, Follow(e.path))

\* verify_file_blocks, over files nobody writes during the call: it fails under
\* Reject only when a block of the range is not the manifest's, and for a pinned
\* layer it always does then, whatever was found good before the files were
\* written.  Nothing is checked of a path that the manifest does not list.
RangeExact ==
    reply # None /\ reply.kind = "range" /\ layer.on_failure = "Reject" /\ steady =>
        LET e    == reply.entry
            good == e = None \/ \A k \in reply.from..reply.to - 1 :
                        /\ Follow(e.path) # Absent
                        /\ Fits(e.block_range[1] + k, Block(Follow(e.path), k))
        IN  (good => reply.ok) /\ (layer.pinned /\ reply.ok => good)

\* full_check, over files nobody writes meanwhile, counts no failure exactly when
\* every block of every file, and every block a file has lost, is the manifest's
\* at its place.  A file that has grown is laid over the blocks of the files that
\* follow it: that it is longer goes unnoticed when it has grown by what they hold.
ScanExact ==
    reply # None /\ reply.kind = "scan" /\ steady =>
        (reply.failed = 0 <=>
            \A e \in Range(layer.manifest.files) :
                \A k \in 0..Max({BlocksOf(Len(Follow(e.path))), BlocksOf(Len(e.content_hash))}) - 1 :
                    Fits(e.block_range[1] + k, Block(Follow(e.path), k)))

\* `verity verify`, over files nobody writes meanwhile, exits with success exactly
\* when the blocks of the directory, file after file, are those of the manifest, or
\* it runs with --warn-only; the failures it counts then are 0 only when they are
\* or there is no block to look at.
VerifyExact ==
    reply # None /\ reply.kind = "verify" /\ steady =>
        LET now  == [i \in DOMAIN Collected("vfs") |->
                        [content_hash |-> Follow(Collected("vfs")[i])]]
            same == Image(now) = Image(mfile.files)
        IN  /\ reply.ok <=> same \/ reply.warn
            /\ reply.failed # None =>
                 (reply.failed = 0 <=> same \/ \A i \in DOMAIN now : now[i].content_hash = <<>>)
==============================================================================
