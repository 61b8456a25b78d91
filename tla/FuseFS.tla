-------------------------------- MODULE FuseFS --------------------------------
(***************************************************************************)
(* The FUSE adapter of crates/rspacefs-fuse/src/fs.rs: the kernel's inode     *)
(* numbers and file handles mapped onto the paths of the overlay.            *)
(*                                                                           *)
(* One dispatch thread runs every handler to its end before it reads the     *)
(* next request, so a handler is one action here and the overlay's calls,    *)
(* taken apart in LayerFS, are single steps.  Only write() is finished        *)
(* elsewhere: its buffer update runs later, on a worker of the pool, under    *)
(* the handle's own mutex.                                                   *)
(*                                                                           *)
(* The kernel is the environment: it keeps a dentry cache that names an      *)
(* inode for a path, moves the dentries of a renamed directory with it, may   *)
(* forget any of them, and sends no release while a write is under way.       *)
(* Two variables are history that no code reads: `want`, the tree that the    *)
(* acknowledged requests describe, and `rewritten`.  Clients may do anything;  *)
(* a name for which the adapter does not keep what POSIX says is given None in *)
(* `want`, at the step that breaks it and for good.                           *)
(***************************************************************************)
EXTENDS Layers, FiniteSets

CONSTANTS
    Byte, Zero,  \* file bytes, and the one resize() fills with
    MaxLen,      \* bound: the longest file
    MaxIno,      \* bound: the last inode number handed out
    MaxFh,       \* bound: the last file handle handed out
    DirPaths,    \* the paths at which clients make directories, not files
    Verified,    \* the lowers that are verity-protected
    DirRenames,  \* whether clients rename directories
    None         \* no inode, no handle, no name

Inos  == 1..MaxIno
Fhs   == 1..MaxFh
RootIno == 1

OneKind(L) == \A p \in Paths : L.ent[p] # Absent => (L.ent[p] = Dir <=> p \in DirPaths)

ASSUME FuseAssumption ==
    /\ Zero \in Byte /\ MaxLen \in Nat /\ MaxIno \in Nat /\ MaxFh \in Nat /\ MaxIno >= 1
    /\ Data = UNION {[1..n -> Byte] : n \in 0..MaxLen} /\ Empty = << >>
    /\ IsFiniteSet(Paths) /\ DirPaths \subseteq Paths
    /\ None \notin Inos /\ None \notin Paths /\ None # Root /\ None \notin Entry
    /\ DirRenames \in BOOLEAN

\* A path is one kind of thing in every layer, and what is below it says which.
ASSUME KindAssumption ==
    /\ \A p \in Paths : Anc(p) \subseteq DirPaths
    /\ \A s \in Stacks : /\ OneKind(s.upper)
                         /\ \A i \in 1..Len(s.lower) : OneKind(s.lower[i])

VARIABLES
    lower, up,    \* the layers: the lowers, index 1 on top, and the upper
    inodes,       \* inode -> path
    paths,        \* path -> inode
    next_ino,
    files,        \* open_files: handle -> its OpenFile
    next_fh,
    cache,        \* backing_cache: inode -> a Weak, as the handle that registered it
    jobs,         \* writes handed to the pool and not run yet
    dentry,       \* the kernel's dentry cache: path -> inode
    want,         \* the tree the acknowledged requests describe
    rewritten     \* the handles whose file got new content after they were opened

layers  == <<lower, up>>
tables  == <<inodes, paths, next_ino>>
handles == <<files, next_fh, cache, jobs>>
vars    == <<lower, up, inodes, paths, next_ino, files, next_fh, cache, jobs,
             dentry, want, rewritten>>

\* OpenFile.  A Buffered handle owns a copy of the file and the path it writes
\* it back to; `name` is the name its file has by now, which only the kernel
\* knows.  A Passthrough or a Streaming one reads a physical file: `live` while
\* that is the upper's file at `path`, else a file whose content `data` can no
\* longer change (a lower's, or an upper's that has lost its name).  `ref` is
\* the BackingId, named for the handle that registered it.
OpenFile(kind, path, name, data, live, ref) ==
    [kind |-> kind, path |-> path, name |-> name, data |-> data, dirty |-> FALSE,
     live |-> live, ref |-> ref]

Handle == [kind : {"buffered", "passthrough", "streaming"}, path : Paths, name : Paths \cup {None},
           data : Entry, dirty : BOOLEAN, live : BOOLEAN, ref : Fhs \cup {None}]

ASSUME NoneAssumption == None \notin Handle /\ None \notin Nat

-----------------------------------------------------------------------------
(* The overlay below the adapter: what its calls see and leave behind.       *)

Resolve(p) ==
    IF p \in up.wh THEN Absent
    ELSE IF up.ent[p] # Absent THEN up.ent[p]
    ELSE IF OpaqueAbove(up.opq, p) THEN Absent
    ELSE LowerResolve(lower, p)

Exists(p) == p \in Paths /\ Resolve(p) # Absent
ParentIsDir(p) == \A a \in Anc(p) : Resolve(a) = Dir

\* What the path walk of a client finds.
Shown(p) == IF ParentIsDir(p) THEN Resolve(p) ELSE Absent
InLower(p) == \E i \in 1..Len(lower) : lower[i].ent[p] # Absent

Listed(q) ==
    \/ up.ent[q] # Absent
    \/ /\ \A d \in up.opq : ~ChildOf(d, q)
       /\ q \notin up.wh
       /\ \E i \in 1..Len(lower) : lower[i].ent[q] # Absent /\ \A j \in 1..i : q \notin lower[j].wh

\* create_file and the write that follows, or create_dir.
Put(L, p, v) ==
    [L EXCEPT !.ent = [q \in Paths |-> IF q = p THEN v ELSE IF Below(q, p) THEN Dir ELSE @[q]],
              !.wh = @ \ {p}]

\* remove_file or remove_dir.
Drop(L, p) ==
    IF InLower(p)
    THEN [L EXCEPT !.ent = [q \in Paths |-> IF q = p THEN Absent ELSE IF Below(q, p) THEN Dir ELSE @[q]],
                   !.wh = @ \cup {p}]
    ELSE [L EXCEPT !.ent[p] = Absent]

\* Where q goes when s is moved to d.
Image(s, d, q) == d \o SubSeq(q, Len(s) + 1, Len(q))
Moves(s, d) == {q \in Paths : AtOrBelow(s, q) /\ Image(s, d, q) \in Paths}

\* move_dir: every entry copied, then every entry, and every marker below s, gone.
MoveTree(L, s, d) ==
    LET new == [q \in Paths |->
                  IF \E r \in Moves(s, d) : q = Image(s, d, r) /\ Resolve(r) # Absent
                  THEN Resolve(CHOOSE r \in Moves(s, d) : q = Image(s, d, r))
                  ELSE IF AtOrBelow(s, q) THEN Absent
                  ELSE IF Below(q, d) \/ (InLower(s) /\ Below(q, s)) THEN Dir
                  ELSE L.ent[q]]
    IN  [ent |-> new,
         wh  |-> ({q \in L.wh : ~Below(s, q)} \ {Image(s, d, r) : r \in {q \in Moves(s, d) : Resolve(q) # Absent}})
                   \cup (IF InLower(s) THEN {s} ELSE {}),
         opq |-> {q \in L.opq : ~AtOrBelow(s, q)}]

\* The bytes of a file after write() of one byte at an offset: resize(end, 0)
\* when the buffer is too short, then the copy.
Written(data, off, b) ==
    [i \in 1..(IF off + 1 > Len(data) THEN off + 1 ELSE Len(data)) |->
        IF i = off + 1 THEN b ELSE IF i <= Len(data) THEN data[i] ELSE Zero]

-----------------------------------------------------------------------------
(* physical_for: the adapter's own walk over the layer directories.          *)

\* The index of the layer a path is found in: 0 the upper, None nowhere.
\* Mutant: the upper's whiteouts are not looked at.
PhysicalUnmasked(p) ==
    IF p \notin Paths THEN None
    ELSE IF up.ent[p] # Absent THEN 0
    ELSE IF ~InLower(p) THEN None
    ELSE CHOOSE i \in 1..Len(lower) : lower[i].ent[p] # Absent /\ \A j \in 1..(i - 1) : lower[j].ent[p] = Absent

Physical(p) ==
    IF p \notin Paths \/ p \in up.wh THEN None
    ELSE IF up.ent[p] # Absent THEN 0
    ELSE IF ~InLower(p) THEN None
    ELSE CHOOSE i \in 1..Len(lower) : lower[i].ent[p] # Absent /\ \A j \in 1..(i - 1) : lower[j].ent[p] = Absent

PhysicalEntry(p) ==
    CASE Physical(p) = None -> Absent
      [] Physical(p) = 0    -> up.ent[p]
      [] OTHER              -> lower[Physical(p)].ent[p]

\* p may be hidden by a marker that this walk does not look at.
Unseen(p) ==
    \/ OpaqueAbove(up.opq, p)
    \/ \E i \in 1..Len(lower) : p \in lower[i].wh \/ OpaqueAbove(lower[i].opq, p)

-----------------------------------------------------------------------------
(* The inode table.                                                          *)

path_of(i) == IF i = None THEN None ELSE inodes[i]

\* The request names a parent inode and a name: the path the adapter joins from
\* them, which need not be the path the kernel means.
Parent(p) == SubSeq(p, 1, Len(p) - 1)
ParentIno(p) == IF Parent(p) = Root THEN RootIno ELSE dentry[Parent(p)]
join(p) ==
    IF path_of(ParentIno(p)) = None THEN None ELSE Append(path_of(ParentIno(p)), p[Len(p)])


\* intern_path for each path of S: a new one takes the next number.
Intern(S) ==
    LET new == {p \in S : paths[p] = None}
        last == next_ino + Cardinality(new) - 1
    IN  /\ last <= MaxIno
        /\ \E f \in [new -> next_ino..last] :
             /\ \A p, q \in new : f[p] = f[q] => p = q
             /\ paths' = [p \in Paths |-> IF p \in new THEN f[p] ELSE paths[p]]
             /\ inodes' = [i \in Inos |-> IF \E p \in new : f[p] = i
                                          THEN CHOOSE p \in new : f[p] = i ELSE inodes[i]]
        /\ next_ino' = last + 1

\* "Drop the inode binding": unlink and rmdir.
Unbind(p) ==
    /\ inodes' = [i \in Inos |-> IF i = paths[p] THEN None ELSE inodes[i]]
    /\ paths' = [paths EXCEPT ![p] = None]
    /\ UNCHANGED next_ino

\* Mutant: the destination is not entered in the reverse table.
RebindForward(s, d) ==
    /\ inodes' = [i \in Inos |-> IF i = paths[s] THEN d ELSE inodes[i]]
    /\ paths' = IF paths[s] = None THEN paths ELSE [paths EXCEPT ![d] = paths[s]]
    /\ UNCHANGED next_ino

\* Mutant: only the reverse table is updated.
RebindReverse(s, d) ==
    /\ paths' = IF paths[s] = None THEN paths ELSE [paths EXCEPT ![s] = None, ![d] = paths[s]]
    /\ UNCHANGED <<inodes, next_ino>>

\* "Update inode bindings": rename.
Rebind(s, d) ==
    /\ inodes' = [i \in Inos |-> IF i = paths[s] THEN d ELSE inodes[i]]
    /\ paths' = IF paths[s] = None THEN paths ELSE [paths EXCEPT ![s] = None, ![d] = paths[s]]
    /\ UNCHANGED next_ino

-----------------------------------------------------------------------------
(* Handles.                                                                  *)

Open == {fh \in Fhs : files[fh] # None}
Writers(S) == {fh \in Open : files[fh].kind = "buffered" /\ files[fh].name \in S}
Readers(S) == {fh \in Open : files[fh].kind # "buffered" /\ files[fh].name \in S}
Busy(fh) == \E j \in jobs : j.fh = fh
Tree(p) == {q \in Paths : AtOrBelow(p, q)}

\* What a read-only handle reads.
Content(h) == IF h.live THEN up.ent[h.path] ELSE h.data

\* The upper's files at S lose their names: a handle that reads one keeps it.
Frozen(h, S) ==
    IF h.kind # "buffered" /\ h.live /\ h.path \in S
    THEN [h EXCEPT !.live = FALSE, !.data = up.ent[h.path]] ELSE h

NewFh(h) ==
    /\ next_fh <= MaxFh
    /\ files' = [files EXCEPT ![next_fh] = h]
    /\ next_fh' = next_fh + 1
    /\ UNCHANGED jobs

\* What clients are told of p is v; None, once told, stays.
Told(p, v) == [want EXCEPT ![p] = IF @ = None THEN None ELSE v]

\* create_file on the overlay succeeds.
CanPut(p) == ParentIsDir(p) /\ Resolve(p) # Dir

-----------------------------------------------------------------------------
(* Names: lookup, readdir, mkdir, rmdir, unlink, rename.                     *)

lookup(p) ==
    /\ dentry[p] = None
    /\ join(p) # None /\ Physical(join(p)) # None
    /\ Intern({join(p)})
    /\ dentry' = [dentry EXCEPT ![p] = paths'[join(p)]]
    /\ UNCHANGED <<lower, up, files, next_fh, cache, jobs, want, rewritten>>

readdir(i) ==
    /\ \E p \in {Root} \cup {q \in Paths : dentry[q] = i} :
         /\ p = Root => i = RootIno
         /\ p # Root => p \in DirPaths
    /\ path_of(i) # None
    /\ Intern({q \in Paths : ChildOf(path_of(i), q) /\ Listed(q)})
    /\ UNCHANGED <<lower, up, files, next_fh, cache, jobs, dentry, want, rewritten>>

mkdir(p) ==
    LET path == join(p) IN
    /\ p \in DirPaths /\ dentry[p] = None
    /\ path \in Paths /\ ~Exists(path) /\ ParentIsDir(path)
    /\ up' = Put(up, path, Dir)
    /\ Intern({path})
    /\ dentry' = [dentry EXCEPT ![p] = paths'[path]]
    /\ want' = Told(p, Dir)
    /\ UNCHANGED <<lower, files, next_fh, cache, jobs, rewritten>>

\* The upper directory is removed only when it holds nothing, markers included.
rmdir(p) ==
    LET path == join(p) IN
    /\ dentry[p] # None
    /\ path \in Paths /\ Resolve(path) = Dir
    /\ \A q \in Paths : ChildOf(path, q) => ~Listed(q) /\ q \notin up.wh
    /\ path \notin up.opq
    /\ up' = Drop(up, path)
    /\ Unbind(path)
    /\ dentry' = [q \in Paths |-> IF AtOrBelow(p, q) THEN None ELSE dentry[q]]
    /\ want' = Told(p, Absent)
    /\ UNCHANGED <<lower, files, next_fh, cache, jobs, rewritten>>

\* A writer that is open will write the file back, and so make it again.
unlink(p) ==
    LET path == join(p) IN
    /\ dentry[p] # None
    /\ path \in Paths /\ Resolve(path) \in Data
    /\ up' = Drop(up, path)
    /\ Unbind(path)
    /\ files' = [fh \in Fhs |->
                   IF files[fh] = None THEN None
                   ELSE [Frozen(files[fh], {path}) EXCEPT !.name = IF @ = p THEN None ELSE @]]
    /\ dentry' = [dentry EXCEPT ![p] = None]
    /\ want' = Told(p, IF Writers({p}) = {} THEN Absent ELSE None)
    /\ UNCHANGED <<lower, next_fh, cache, jobs, rewritten>>

\* The directory of a namespace has room for what is moved.
Fits(s, d) == Tree(s) = Moves(s, d)

\* A writer that is open will write back to the old name; what is below a
\* directory keeps the old path in the table.
rename(p, q) ==
    LET src == join(p)
        dst == join(q)
    IN
    /\ dentry[p] # None /\ dentry[q] = None
    /\ {src, dst} \subseteq Paths /\ (p \in DirPaths <=> q \in DirPaths)
    /\ Exists(src) /\ ~Exists(dst) /\ ParentIsDir(dst)
    /\ ~AtOrBelow(p, q) /\ ~AtOrBelow(src, dst)
    /\ Resolve(src) = Dir => DirRenames /\ Fits(p, q) /\ Fits(src, dst)
    /\ up' = IF Resolve(src) = Dir THEN MoveTree(up, src, dst)
             ELSE Drop(Put(up, dst, Resolve(src)), src)
    /\ Rebind(src, dst)
    /\ files' = [fh \in Fhs |->
                   IF files[fh] = None THEN None
                   ELSE [Frozen(files[fh], Tree(src)) EXCEPT
                           !.name = IF @ \in Moves(p, q) THEN Image(p, q, @) ELSE @]]
    /\ dentry' = [r \in Paths |->
                     IF \E s \in Moves(p, q) : Image(p, q, s) = r
                     THEN dentry[CHOOSE s \in Moves(p, q) : Image(p, q, s) = r]
                     ELSE IF AtOrBelow(p, r) \/ AtOrBelow(q, r) THEN None ELSE dentry[r]]
    /\ want' = [r \in Paths |->
                   IF Below(p, r) \/ Below(q, r) \/ (r \in {p, q} /\ Writers({p}) # {}) THEN None
                   ELSE IF r = p THEN Told(p, Absent)[p]
                   ELSE IF r = q THEN Told(q, want[p])[q] ELSE want[r]]
    /\ UNCHANGED <<lower, next_fh, cache, jobs, rewritten>>

\* The kernel drops a dentry, and those below it.
Forget(p) ==
    /\ dentry[p] # None
    /\ dentry' = [q \in Paths |-> IF AtOrBelow(p, q) THEN None ELSE dentry[q]]
    /\ UNCHANGED <<lower, up, inodes, paths, next_ino, files, next_fh, cache, jobs, want, rewritten>>

-----------------------------------------------------------------------------
(* Files: open, create, write, fsync, release, setattr.                      *)

Buffered(path, p, data) == OpenFile("buffered", path, p, data, FALSE, None)

\* O_TRUNC is not seen here: init() does not ask for it, so the kernel strips it
\* and sends a setattr when the file is open.  Of two writers the last one to
\* write back wins.
open_write(p) ==
    LET path == path_of(dentry[p]) IN
    /\ path \in Paths /\ Resolve(path) \in Data
    /\ NewFh(Buffered(path, p, Resolve(path)))
    /\ want' = IF Writers({p}) = {} THEN want ELSE Told(p, None)
    /\ UNCHANGED <<lower, up, inodes, paths, next_ino, cache, dentry, rewritten>>

\* The physical file a read-only handle gets when it is found in layer i.
Source(kind, path, p, i, ref) ==
    OpenFile(kind, path, p, IF i = 0 THEN Empty ELSE lower[i].ent[path], i = 0, ref)

\* Mutant: the Weak of another inode counts too.
SharersOfAny(ino) == {fh \in Open : files[fh].ref # None}

\* The handles that hold the BackingId the cache's Weak points to.
Sharers(ino) == {fh \in Open : files[fh].ref # None /\ files[fh].ref = cache[ino]}

\* A live BackingId of the inode is reused, whatever the path resolves to by now.
open_shared(p) ==
    LET ino == dentry[p] IN
    /\ ino # None
    /\ Physical(path_of(ino)) \notin Verified \cup {None}
    /\ \E fh \in Sharers(ino) :
         /\ NewFh([files[fh] EXCEPT !.name = p])
         /\ rewritten' = IF fh \in rewritten THEN rewritten \cup {next_fh} ELSE rewritten
    /\ UNCHANGED <<lower, up, inodes, paths, next_ino, cache, dentry, want>>

open_passthrough(p) ==
    LET ino == dentry[p]
        path == path_of(ino)
    IN
    /\ ino # None
    /\ Physical(path) \notin Verified \cup {None} /\ PhysicalEntry(path) \in Data
    /\ Sharers(ino) = {}
    /\ NewFh(Source("passthrough", path, p, Physical(path), next_fh))
    /\ cache' = [cache EXCEPT ![ino] = next_fh]
    /\ UNCHANGED <<lower, up, inodes, paths, next_ino, dentry, want, rewritten>>

\* A verity-protected layer, or a kernel that registers no backing file.
open_streaming(p) ==
    LET ino == dentry[p]
        path == path_of(ino)
    IN
    /\ ino # None
    /\ path \in Paths /\ Resolve(path) \in Data
    /\ Physical(path) \in Verified \/ Sharers(ino) = {}
    /\ NewFh(OpenFile("streaming", path, p, Resolve(path), up.ent[path] # Absent, None))
    /\ UNCHANGED <<lower, up, inodes, paths, next_ino, cache, dentry, want, rewritten>>

\* The handle of a file that was there all along starts with an empty buffer.
create(p, trunc) ==
    LET path == join(p)
        kept == Exists(path) /\ ~trunc
    IN
    /\ p \notin DirPaths /\ dentry[p] = None
    /\ path \in Paths
    /\ kept \/ CanPut(path)
    /\ up' = IF kept THEN up ELSE Put(up, path, Empty)
    /\ want' = Told(p, IF Writers({p}) = {} /\ (kept => Resolve(path) = Empty) THEN Empty ELSE None)
    /\ rewritten' = IF kept THEN rewritten ELSE rewritten \cup Readers({path})
    /\ Intern({path})
    /\ dentry' = [dentry EXCEPT ![p] = paths'[path]]
    /\ NewFh(Buffered(path, p, Empty))
    /\ UNCHANGED <<lower, cache>>

\* The handler hands the write to the pool; the kernel has one write of a file
\* under way at a time.
write(fh, off, b) ==
    /\ fh \in Open /\ files[fh].kind = "buffered" /\ ~Busy(fh)
    /\ jobs' = jobs \cup {[fh |-> fh, off |-> off, byte |-> b]}
    /\ UNCHANGED <<lower, up, inodes, paths, next_ino, files, next_fh, cache, dentry, want, rewritten>>

\* Mutant: the buffer is changed, but not marked.
RunWriteClean(j) ==
    LET h == files[j.fh] IN
    /\ jobs' = jobs \ {j}
    /\ files' = [files EXCEPT ![j.fh].data = Written(@, j.off, j.byte)]
    /\ want' = IF h.name \in Paths /\ want[h.name] \in Data
               THEN [want EXCEPT ![h.name] = Written(@, j.off, j.byte)] ELSE want
    /\ UNCHANGED <<lower, up, inodes, paths, next_ino, next_fh, cache, dentry, rewritten>>

\* A worker runs it, holding the handle's mutex, and answers.
RunWrite(j) ==
    LET h == files[j.fh] IN
    /\ jobs' = jobs \ {j}
    /\ files' = [files EXCEPT ![j.fh].data = Written(@, j.off, j.byte), ![j.fh].dirty = TRUE]
    /\ want' = IF h.name \in Paths /\ want[h.name] \in Data
               THEN [want EXCEPT ![h.name] = Written(@, j.off, j.byte)] ELSE want
    /\ UNCHANGED <<lower, up, inodes, paths, next_ino, next_fh, cache, dentry, rewritten>>

\* The write-back of release and fsync, to the path the handle was opened with.
WriteBack(h) ==
    /\ up' = IF h.dirty /\ CanPut(h.path) THEN Put(up, h.path, h.data) ELSE up
    /\ rewritten' = IF h.dirty THEN rewritten \cup Readers({h.path}) ELSE rewritten

fsync(fh) ==
    /\ fh \in Open /\ files[fh].kind = "buffered"
    /\ files[fh].dirty /\ CanPut(files[fh].path)
    /\ WriteBack(files[fh])
    /\ files' = [files EXCEPT ![fh].dirty = FALSE]
    /\ UNCHANGED <<lower, inodes, paths, next_ino, next_fh, cache, jobs, dentry, want>>

release(fh) ==
    /\ fh \in Open /\ ~Busy(fh)
    /\ WriteBack(files[fh])
    /\ files' = [files EXCEPT ![fh] = None]
    /\ UNCHANGED <<lower, inodes, paths, next_ino, next_fh, cache, jobs, dentry, want>>

\* setattr(size = 0), which is all that is left of O_TRUNC too.  A writer that is
\* open keeps its buffer.
truncate(p) ==
    LET path == path_of(dentry[p]) IN
    /\ p \notin DirPaths /\ path \in Paths /\ CanPut(path)
    /\ up' = Put(up, path, Empty)
    /\ want' = Told(p, IF \A fh \in Writers({p}) : files[fh].data = Empty THEN Empty ELSE None)
    /\ rewritten' = rewritten \cup Readers({path})
    /\ UNCHANGED <<lower, inodes, paths, next_ino, files, next_fh, cache, jobs, dentry>>

\* setattr(size = n), n > 0: answered with success, and nothing is done.
resize(p, n) ==
    LET path == path_of(dentry[p]) IN
    /\ p \notin DirPaths /\ path \in Paths /\ (Physical(path) # None \/ Exists(path))
    /\ want' = IF want[p] \in Data /\ Len(want[p]) = n THEN want ELSE Told(p, None)
    /\ UNCHANGED <<lower, up, inodes, paths, next_ino, files, next_fh, cache, jobs, dentry, rewritten>>

\* Content, mode and xattrs are copied up; a path already in the upper is left.
ensure_in_upper(path) ==
    /\ path \in Paths /\ up.ent[path] = Absent /\ Physical(path) # None
    /\ \A a \in Anc(path) : up.ent[a] \notin Data
    /\ up' = Put(up, path, PhysicalEntry(path))
    /\ UNCHANGED <<lower, inodes, paths, next_ino, files, next_fh, cache, jobs, dentry, want, rewritten>>

\* chmod, chown, utimens.
setattr(p) == dentry[p] # None /\ ensure_in_upper(path_of(dentry[p]))

\* setxattr and removexattr.
setxattr(p) == dentry[p] # None /\ ensure_in_upper(path_of(dentry[p]))

-----------------------------------------------------------------------------
Init ==
    \E s \in Stacks :
        /\ lower = s.lower /\ up = s.upper
        /\ inodes = [i \in Inos |-> IF i = RootIno THEN Root ELSE None]
        /\ paths = [p \in Paths |-> None]
        /\ next_ino = RootIno + 1
        /\ files = [fh \in Fhs |-> None] /\ next_fh = 1
        /\ cache = [i \in Inos |-> None]
        /\ jobs = {}
        /\ dentry = [p \in Paths |-> None]
        /\ want = [p \in Paths |->
                     IF (\E a \in Anc(p) \cup {p} : Unseen(a)) \/ (\E a \in Anc(p) : a \in up.wh)
                     THEN None ELSE Shown(p)]
        /\ rewritten = {}

Next ==
    \/ \E p \in Paths : \/ lookup(p) \/ mkdir(p) \/ rmdir(p) \/ unlink(p) \/ Forget(p)
                        \/ open_write(p) \/ open_shared(p) \/ open_passthrough(p) \/ open_streaming(p)
                        \/ create(p, TRUE) \/ create(p, FALSE)
                        \/ truncate(p) \/ setattr(p) \/ setxattr(p)
                        \/ \E n \in 1..MaxLen : resize(p, n)
                        \/ \E q \in Paths : rename(p, q)
    \/ \E i \in Inos : readdir(i)
    \/ \E fh \in Fhs : \/ release(fh) \/ fsync(fh)
                       \/ \E off \in 0..(MaxLen - 1), b \in Byte : write(fh, off, b)
    \/ \E j \in jobs : RunWrite(j)

Spec == Init /\ [][Next]_vars

-----------------------------------------------------------------------------
(* Properties.                                                               *)

\* The two inode tables never contradict each other: the number a path is
\* interned under leads back to that path, through every sequence of lookups,
\* renames onto names that were bound before, unlinks and rmdirs.
TablesAgree == \A p \in Paths : paths[p] # None => inodes[paths[p]] = p

\* An inode number the kernel holds for a path is, to the adapter, that path: no
\* request is carried out on another name than the one it was made for, whatever
\* is renamed, unlinked and made again.  The exception is what lies below a
\* renamed directory: the adapter rebinds the directory alone.
RightFile == \A p \in Paths : want[p] # None /\ dentry[p] # None => inodes[dentry[p]] = p

\* The adapter's own walk over the layers, which lookup, getattr and read-only
\* opens go by, finds everything the overlay shows, and in the same layer; what it
\* finds beyond that is hidden by a whiteout of a lower or an opaque marker.
LookupMatches ==
    \A p \in Paths : IF Resolve(p) # Absent THEN PhysicalEntry(p) = Resolve(p)
                      ELSE PhysicalEntry(p) = Absent \/ Unseen(p)

\* Once no handle holds unwritten data of a file, the mount shows for it every
\* write that was acknowledged and every truncate, create, rename and unlink, and
\* so with any mixture of other clients' requests.  Left out, for good, is a name
\* whose own clients had a writer open while it was opened by a second one,
\* renamed, unlinked or truncated under unwritten or old bytes, or were told of a
\* resize to n > 0.
Converges ==
    \A p \in Paths :
        want[p] # None /\ (\A fh \in Writers({p}) : ~files[fh].dirty) => Shown(p) = want[p]

\* A file opened for reading reads what the overlay holds at that moment, unless
\* it shares the backing file of a reader that is open since before the file was
\* written anew.
OpenIsCurrent ==
    [][\A fh \in Fhs :
          LET h == files'[fh] IN
          files[fh] = None /\ h # None /\ h.kind # "buffered" /\ want[h.name] # None =>
              \/ Content(h) = Resolve(h.name)
              \/ \E g \in Readers({h.name}) \cap rewritten : h.ref # None /\ files[g].ref = h.ref]_vars
===============================================================================
