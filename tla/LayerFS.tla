------------------------------- MODULE LayerFS -------------------------------
(***************************************************************************)
(* The overlay filesystem of crates/rspacefs-core/src/layer.rs: one         *)
(* writable upper directory merged with a stack of read-only lowers.        *)
(*                                                                           *)
(* The FUSE session loop calls LayerFS from one thread, so operations do not *)
(* overlap; but each is a sequence of primitive calls on the backing         *)
(* directory, and the process can die, or a primitive can fail and `?` give  *)
(* up, between any two of them.  One action below is one such primitive.     *)
(***************************************************************************)
EXTENDS Layers

-----------------------------------------------------------------------------
VARIABLES
    lower,     \* the read-only layers, index 1 on top
    ent,       \* the upper's entries
    wh,        \* the upper's whiteout markers
    opq,       \* the upper's opaque markers
    op         \* the operation in progress

disk == <<ent, wh, opq>>
vars == <<lower, ent, wh, opq, op>>

(***************************************************************************)
(* resolve(): what a path names in the merged tree.                          *)
(***************************************************************************)

Resolve(p) ==
    IF p \in wh THEN Absent
    ELSE IF ent[p] # Absent THEN ent[p]
    ELSE IF OpaqueAbove(opq, p) THEN Absent
    ELSE LowerResolve(lower, p)

\* The kernel walks a path component by component, and VfsPath refuses to
\* create below a parent that is not a directory of the merged tree.
Reachable(p) == \A a \in Anc(p) : Resolve(a) = Dir

\* The merged tree as an application sees it.
View(p) == IF Reachable(p) THEN Resolve(p) ELSE Absent

\* Mutant: only the topmost lower is asked.
InTopLower(p) == Len(lower) > 0 /\ lower[1].ent[p] # Absent

\* exists_in_lower of remove_file and remove_dir: some lower holds the path,
\* hidden or not.
InLower(p) == \E i \in 1..Len(lower) : lower[i].ent[p] # Absent

(***************************************************************************)
(* read_dir(): the names it yields, and whether it yields any at all (it     *)
(* gives up with an error when a layer it merges holds the path as a file).  *)
(***************************************************************************)
Opaque(d) == d \in opq

\* Mutant: only the layer's own markers are consulted, not those above it.
ListedOwnMarkers(q) ==
    \/ ent[q] # Absent
    \/ /\ \A d \in opq : ~ChildOf(d, q)
       /\ q \notin wh
       /\ \E i \in 1..Len(lower) : lower[i].ent[q] # Absent /\ q \notin lower[i].wh

Listed(q) ==
    \/ ent[q] # Absent
    \/ /\ \A d \in opq : ~ChildOf(d, q)
       /\ q \notin wh
       /\ \E i \in 1..Len(lower) : /\ lower[i].ent[q] # Absent
                                   /\ \A j \in 1..i : q \notin lower[j].wh

ReadDirOk(d) ==
    /\ ent[d] \in {Absent, Dir}
    /\ ~Opaque(d) => \A i \in 1..Len(lower) : lower[i].ent[d] \in {Absent, Dir}

\* The entries copy_dir_recursive and remove_dir_recursive visit from s down:
\* listed by read_dir and found by resolve, through directories only.
Walk(s) ==
    {q \in Paths : /\ AtOrBelow(s, q) /\ View(q) # Absent
                   /\ \A r \in Paths : Below(s, r) /\ AtOrBelow(r, q) => Listed(r)}

-----------------------------------------------------------------------------
(***************************************************************************)
(* The operation in progress.  `src` and `dst` are the caller's arguments    *)
(* (equal when there is one); `at` and `to` are the entry being copied or    *)
(* removed and its place below dst, which differ from them only inside       *)
(* move_dir; `val` is the content written by the copy, `new` the content     *)
(* the caller leaves behind; `todo` is what the directory walk still has to   *)
(* visit.  `before` is the merged tree when the call was made: no code reads *)
(* it, only the properties do.                                               *)
(***************************************************************************)
Creating == {"create_file", "create_dir", "append_file", "copy_file", "move_file", "move_dir"}
Removing == {"remove_file", "remove_dir"}
Moving   == {"move_file", "move_dir"}
Kinds    == Creating \cup Removing

CopyPCs   == {"parents", "unmask", "create", "write", "append"}
RemovePCs == {"sweep", "remove", "mark_parents", "mark"}
PCs       == {"idle", "pick_copy", "pick_remove", "done"} \cup CopyPCs \cup RemovePCs
Outcomes  == {"none", "ok", "refused", "io", "crash"}

Ops == [kind : Kinds \cup {"none"}, pc : PCs, src : Paths \cup {Root}, dst : Paths \cup {Root},
        at : Paths \cup {Root}, to : Paths \cup {Root}, val : Entry, new : Entry,
        todo : SUBSET Paths, before : [Paths -> Entry], out : Outcomes]

Idle == [kind |-> "none", pc |-> "idle", src |-> Root, dst |-> Root, at |-> Root, to |-> Root,
         val |-> Absent, new |-> Absent, todo |-> {}, before |-> [p \in Paths |-> Absent],
         out |-> "none"]

\* Where the entry q of the moved tree goes: dest joined with q's path below src.
Image(q) == op.dst \o SubSeq(q, Len(op.src) + 1, Len(q))

Begin(kind, pc, src, dst, val, new, todo) ==
    /\ op.pc = "idle"
    /\ op' = [kind |-> kind, pc |-> pc, src |-> src, dst |-> dst, at |-> src, to |-> dst,
              val |-> val, new |-> new, todo |-> todo, before |-> [p \in Paths |-> View(p)],
              out |-> "none"]
    /\ UNCHANGED <<lower, ent, wh, opq>>

\* The next primitive of the operation; reaching "done" is returning Ok(()).
Goto(pc) == op' = [op EXCEPT !.pc = pc, !.out = IF pc = "done" THEN "ok" ELSE "none"]

-----------------------------------------------------------------------------
(* The calls.  Each guard is what the kernel's own lookups and VfsPath's     *)
(* checks (parent is a directory, destination does not exist yet) let        *)
(* through to LayerFS.                                                       *)

\* The caller writes `d` through the returned handle: FUSE release and fsync
\* create the file again over its old content.
CreateFile(p, d) ==
    /\ Reachable(p) /\ Resolve(p) # Dir
    /\ Begin("create_file", "parents", p, p, d, d, {})

CreateDir(p) ==
    /\ Reachable(p) /\ Resolve(p) = Absent
    /\ Begin("create_dir", "parents", p, p, Dir, Dir, {})

\* `d` is the content once the caller's data has been appended.
AppendFile(p, d) ==
    /\ View(p) \in Data
    /\ Begin("append_file", IF ent[p] # Absent THEN "append" ELSE "parents", p, p, View(p), d, {})

RemoveFile(p) ==
    /\ View(p) \in Data
    /\ Begin("remove_file", "remove", p, p, Absent, Absent, {})

\* FUSE rmdir answers ENOTEMPTY itself when read_dir yields an entry, and goes
\* on when read_dir fails.
RemoveDir(p) ==
    /\ View(p) = Dir
    /\ ReadDirOk(p) => \A q \in Paths : ChildOf(p, q) => ~Listed(q)
    /\ Begin("remove_dir", "remove", p, p, Absent, Absent, {})

CopyFile(s, d) ==
    /\ View(s) \in Data
    /\ Reachable(d) /\ Resolve(d) = Absent
    /\ Begin("copy_file", "parents", s, d, View(s), View(s), {})

\* Mutant: the source is removed first.
MoveFileRemoveFirst(s, d) ==
    /\ View(s) \in Data
    /\ Reachable(d) /\ Resolve(d) = Absent
    /\ Begin("move_file", "remove", s, d, View(s), View(s), {})

MoveFile(s, d) ==
    /\ View(s) \in Data
    /\ Reachable(d) /\ Resolve(d) = Absent
    /\ Begin("move_file", "parents", s, d, View(s), View(s), {})

\* The kernel refuses to move a directory below itself.  The namespace of the
\* instance must hold the moved tree.
MoveDir(s, d) ==
    /\ View(s) = Dir
    /\ Reachable(d) /\ Resolve(d) = Absent /\ ~AtOrBelow(s, d)
    /\ \A q \in Walk(s) : d \o SubSeq(q, Len(s) + 1, Len(q)) \in Paths
    /\ Begin("move_dir", "pick_copy", s, d, Dir, Dir, Walk(s))

-----------------------------------------------------------------------------
(* The primitives.                                                           *)

\* ensure_upper_parents, for the entry to create or for the marker to write:
\* the topmost directory of the path that the upper lacks, one at a time.
NoParent(p) == {a \in Anc(p) : ent[a] = Absent}
Target == IF op.pc = "parents" THEN op.to ELSE op.at

MakeParent ==
    /\ op.pc \in {"parents", "mark_parents"}
    /\ \E a \in NoParent(Target) :
         /\ \A b \in NoParent(Target) : ~Below(b, a)
         /\ ent' = [ent EXCEPT ![a] = Dir]
    /\ UNCHANGED <<lower, wh, opq, op>>

\* Mutant: the parents are not made.
ParentsSkipped ==
    /\ op.pc \in {"parents", "mark_parents"}
    /\ Goto(IF op.pc = "mark_parents" THEN "mark"
            ELSE IF op.kind = "append_file" THEN "create" ELSE "unmask")
    /\ UNCHANGED <<lower, ent, wh, opq>>

ParentsMade ==
    /\ op.pc \in {"parents", "mark_parents"}
    /\ NoParent(Target) = {}
    /\ Goto(IF op.pc = "mark_parents" THEN "mark"
            ELSE IF op.kind = "append_file" THEN "create" ELSE "unmask")
    /\ UNCHANGED <<lower, ent, wh, opq>>

\* Mutants: the marker stays; every marker beside it goes too.
KeepWhiteout ==
    /\ op.pc = "unmask"
    /\ Goto("create")
    /\ UNCHANGED <<lower, ent, wh, opq>>

RemoveWhiteouts ==
    /\ op.pc = "unmask"
    /\ wh' = {}
    /\ Goto("create")
    /\ UNCHANGED <<lower, ent, opq>>

\* remove_whiteout
RemoveWhiteout ==
    /\ op.pc = "unmask"
    /\ wh' = wh \ {op.to}
    /\ Goto("create")
    /\ UNCHANGED <<lower, ent, opq>>

AfterCopy ==
    CASE op.kind = "append_file" -> "append"
      [] op.kind = "move_file"   -> "remove"
      [] op.kind = "move_dir"    -> "pick_copy"
      [] OTHER                   -> "done"

\* Mutant: the walk starts again at the root of the tree after each directory.
MakeDirRestart ==
    /\ op.pc = "create" /\ op.val = Dir
    /\ ent' = [ent EXCEPT ![op.to] = Dir]
    /\ op' = [op EXCEPT !.pc = AfterCopy, !.out = IF AfterCopy = "done" THEN "ok" ELSE "none",
                        !.todo = IF op.kind = "move_dir" THEN Walk(op.src) ELSE {}]
    /\ UNCHANGED <<lower, wh, opq>>

\* upper.create_dir; copy_dir_recursive then lists the source directory, and
\* gives up when read_dir fails.
MakeDir ==
    /\ op.pc = "create" /\ op.val = Dir /\ ent[op.to] = Absent
    /\ ent' = [ent EXCEPT ![op.to] = Dir]
    /\ IF op.kind = "move_dir" /\ ~ReadDirOk(op.at)
       THEN op' = [op EXCEPT !.pc = "done", !.out = "refused"]
       ELSE Goto(AfterCopy)
    /\ UNCHANGED <<lower, wh, opq>>

\* upper.create_file truncates or creates ...
MakeFile ==
    /\ op.pc = "create" /\ op.val \in Data /\ ent[op.to] # Dir
    /\ ent' = [ent EXCEPT ![op.to] = Empty]
    /\ Goto("write")
    /\ UNCHANGED <<lower, wh, opq>>

\* ... and write_all and flush follow.
WriteFile ==
    /\ op.pc = "write"
    /\ ent' = [ent EXCEPT ![op.to] = op.val]
    /\ Goto(AfterCopy)
    /\ UNCHANGED <<lower, wh, opq>>

AppendUpper ==
    /\ op.pc = "append"
    /\ ent' = [ent EXCEPT ![op.to] = op.new]
    /\ Goto("done")
    /\ UNCHANGED <<lower, wh, opq>>

\* The backing filesystem removes a directory only when it holds nothing, and
\* to it a marker is a file like any other.
UpperEmpty(d) ==
    /\ \A q \in Paths : ChildOf(d, q) => ent[q] = Absent /\ q \notin wh
    /\ ~Opaque(d)

AfterRemove == IF op.kind = "move_dir" THEN "pick_remove" ELSE "done"

RemoveUpper ==
    /\ op.pc = "remove"
    /\ ent[op.at] = Dir => UpperEmpty(op.at)
    /\ ent' = [ent EXCEPT ![op.at] = Absent]
    /\ Goto(IF InLower(op.at) THEN "mark_parents" ELSE AfterRemove)
    /\ UNCHANGED <<lower, wh, opq>>

RemoveRefused ==
    /\ op.pc = "remove"
    /\ ent[op.at] = Dir /\ ~UpperEmpty(op.at)
    /\ op' = [op EXCEPT !.pc = "done", !.out = "refused"]
    /\ UNCHANGED <<lower, ent, wh, opq>>

\* Mutant: the marker is made for the parent, the first half of split_path.
CreateParentWhiteout ==
    /\ op.pc = "mark"
    /\ wh' = wh \cup {SubSeq(op.at, 1, Len(op.at) - 1)}
    /\ Goto(AfterRemove)
    /\ UNCHANGED <<lower, ent, opq>>

\* create_whiteout
CreateWhiteout ==
    /\ op.pc = "mark"
    /\ wh' = wh \cup {op.at}
    /\ Goto(AfterRemove)
    /\ UNCHANGED <<lower, ent, opq>>

\* Mutant: the entry's own kind and content are not read.
PickCopyStale ==
    /\ op.pc = "pick_copy"
    /\ \E q \in op.todo :
         /\ q = op.src \/ \E d \in Paths : ChildOf(d, Image(q)) /\ ent[d] = Dir
         /\ op' = [op EXCEPT !.pc = "parents", !.at = q, !.to = Image(q), !.todo = @ \ {q}]
    /\ UNCHANGED <<lower, ent, wh, opq>>

\* copy_dir_recursive: the next entry, once its directory has been copied.
PickCopy ==
    /\ op.pc = "pick_copy"
    /\ \E q \in op.todo :
         /\ q = op.src \/ \E d \in Paths : ChildOf(d, Image(q)) /\ ent[d] = Dir
         /\ op' = [op EXCEPT !.pc = "parents", !.at = q, !.to = Image(q), !.val = Resolve(q),
                             !.todo = @ \ {q}]
    /\ UNCHANGED <<lower, ent, wh, opq>>

CopyDone ==
    /\ op.pc = "pick_copy" /\ op.todo = {}
    /\ op' = [op EXCEPT !.pc = "pick_remove", !.todo = Walk(op.src)]
    /\ UNCHANGED <<lower, ent, wh, opq>>

\* remove_dir_recursive: the next entry, once everything below it is gone.
PickRemove ==
    /\ op.pc = "pick_remove"
    /\ \E q \in op.todo :
         /\ \A r \in op.todo : ~Below(q, r)
         /\ op' = [op EXCEPT !.pc = IF Resolve(q) = Dir THEN "sweep" ELSE "remove", !.at = q,
                             !.todo = @ \ {q}]
    /\ UNCHANGED <<lower, ent, wh, opq>>

MoveDone ==
    /\ op.pc = "pick_remove" /\ op.todo = {}
    /\ Goto("done")
    /\ UNCHANGED <<lower, ent, wh, opq>>

\* "Clean up whiteout files that remove_file created in the upper dir": every
\* name that starts with the prefix, the opaque marker among them.
SweepWhiteout ==
    /\ op.pc = "sweep"
    /\ \E q \in wh : ChildOf(op.at, q) /\ wh' = wh \ {q}
    /\ UNCHANGED <<lower, ent, opq, op>>

SweepOpaque ==
    /\ op.pc = "sweep" /\ Opaque(op.at)
    /\ opq' = opq \ {op.at}
    /\ UNCHANGED <<lower, ent, wh, op>>

Swept ==
    /\ op.pc = "sweep"
    /\ ~Opaque(op.at) /\ \A q \in wh : ~ChildOf(op.at, q)
    /\ Goto("remove")
    /\ UNCHANGED <<lower, ent, wh, opq>>

\* A primitive fails and `?` abandons the rest, or the process dies.
Interrupt(why) ==
    /\ op.pc \notin {"idle", "done"}
    /\ op' = [op EXCEPT !.pc = "done", !.out = why]
    /\ UNCHANGED <<lower, ent, wh, opq>>

\* The answer reaches the caller; after a crash, the daemon starts again.
Reply ==
    /\ op.pc = "done"
    /\ op' = Idle
    /\ UNCHANGED <<lower, ent, wh, opq>>

-----------------------------------------------------------------------------
Init ==
    \E s \in Stacks :
        /\ lower = s.lower
        /\ ent = s.upper.ent /\ wh = s.upper.wh /\ opq = s.upper.opq
        /\ op = Idle

Call ==
    \E p \in Paths :
        \/ \E d \in Data : CreateFile(p, d) \/ AppendFile(p, d)
        \/ CreateDir(p) \/ RemoveFile(p) \/ RemoveDir(p)
        \/ \E q \in Paths : CopyFile(p, q) \/ MoveFile(p, q) \/ MoveDir(p, q)

Step ==
    \/ MakeParent \/ ParentsMade \/ RemoveWhiteout
    \/ MakeDir \/ MakeFile \/ WriteFile \/ AppendUpper
    \/ RemoveUpper \/ RemoveRefused \/ CreateWhiteout
    \/ PickCopy \/ CopyDone \/ PickRemove \/ MoveDone
    \/ SweepWhiteout \/ SweepOpaque \/ Swept
    \/ Reply

Next == Call \/ Step \/ \E why \in {"io", "crash"} : Interrupt(why)

Spec == Init /\ [][Next]_vars

\* The session loop runs a call to its end unless it is interrupted.
FairSpec == Spec /\ WF_vars(Step)

-----------------------------------------------------------------------------
(* Properties.                                                               *)

\* Type correctness of the five variables of the model of LayerFS.
TypeOK ==
    /\ lower \in Seq(Layer)
    /\ ent \in [Paths -> Entry]
    /\ wh \subseteq Paths
    /\ opq \subseteq Paths \cup {Root}
    /\ op \in Ops

\* At every point where the process may die, the upper is a directory tree in
\* which no entry stands beside its own whiteout marker: ensure_upper_parents
\* runs before every create and every marker, remove_whiteout before the entry
\* it uncovers, the removal before the marker that hides it, the sweep before
\* the directory.
UpperIsTree == IsTree([ent |-> ent, wh |-> wh, opq |-> opq])

\* What holds between the primitives of a call, and makes UpperIsTree and Frame
\* inductive: the parents of the entry a call is at are directories of the
\* merged tree, all of them in the upper once ensure_upper_parents has run; the
\* entry to create has no marker once remove_whiteout has run; the entry to mark
\* is gone from the upper; the walk of remove_dir_recursive has still to visit
\* only entries that are reachable, none of them below the one it is at.
CallInv ==
    op.pc \notin {"idle", "done"} =>
      /\ op.kind \in Kinds
      /\ {op.src, op.dst, op.at, op.to} \subseteq Paths
      /\ AtOrBelow(op.src, op.at) /\ AtOrBelow(op.dst, op.to)
      /\ op.kind # "move_dir" => op.at = op.src /\ op.to = op.dst
      /\ op.kind \in Removing => op.src = op.dst
      /\ op.kind \in Moving => ~AtOrBelow(op.dst, op.src)
      /\ op.kind = "move_file" => Reachable(op.src)
      /\ op.kind = "append_file" => op.to \notin wh /\ {op.val, op.new} \subseteq Data
      /\ op.pc \in {"pick_copy", "pick_remove", "sweep"} => op.kind = "move_dir"
      /\ op.pc \in CopyPCs => op.kind \in Creating /\ Reachable(op.to)
      /\ op.pc \in CopyPCs \ {"parents"} => NoParent(op.to) = {}
      /\ op.pc \in CopyPCs \ {"parents", "unmask"} => op.to \notin wh
      /\ op.pc = "write" => op.val \in Data
      /\ op.pc = "append" => op.kind = "append_file"
      /\ op.pc \in {"write", "append"} => ent[op.to] \in Data
      /\ op.pc \in RemovePCs => op.kind \in Removing \cup Moving /\ Reachable(op.at)
      /\ op.pc \in {"mark_parents", "mark"} => ent[op.at] = Absent
      /\ op.pc = "mark" => NoParent(op.at) = {}
      /\ op.kind = "move_dir" => \A q \in op.todo : AtOrBelow(op.src, q)
      /\ op.kind = "move_dir" /\ op.pc \in CopyPCs \cup {"pick_copy"} =>
            Reachable(op.dst) /\ \A q \in op.todo : Image(q) \in Paths
      /\ op.kind = "move_dir" /\ op.pc \in RemovePCs \cup {"pick_remove"} =>
            \A q \in op.todo : Reachable(q)
      /\ op.kind = "move_dir" /\ op.pc \in RemovePCs =>
            \A q \in op.todo : ~AtOrBelow(op.at, q)

\* Whatever the upper holds is what an application sees at that path: no
\* sequence of calls, failures and crashes leaves data in the upper that is
\* masked by a marker, or lies under a parent that resolve() does not find.
UpperVisible == \A p \in Paths : ent[p] # Absent => View(p) = ent[p]

\* The paths a call is about: its destination and, for a move, its source, with
\* everything below them.
Touched(q) ==
    \/ AtOrBelow(op.dst, q)
    \/ op.kind \in Moving /\ AtOrBelow(op.src, q)

\* No step of a call, completed or abandoned, changes what is seen at a path the
\* call is not about: making parents in the upper for a copy-up or for a marker
\* hides and uncovers nothing.
Frame ==
    op.pc # "idle" => \A q \in Paths : ~Touched(q) => View(q) = op.before[q]

\* What the merged tree is to be once a call has succeeded.
Intended(q) ==
    CASE op.kind \in Creating /\ q = op.dst -> op.new
      [] op.kind \in Removing /\ AtOrBelow(op.dst, q) -> Absent
      [] op.kind \in Moving /\ AtOrBelow(op.src, q) -> Absent
      [] op.kind = "move_dir" /\ Below(op.dst, q) ->
            IF \E r \in Paths : AtOrBelow(op.src, r) /\ Image(r) = q
            THEN op.before[CHOOSE r \in Paths : AtOrBelow(op.src, r) /\ Image(r) = q]
            ELSE Absent
      [] OTHER -> op.before[q]

\* A directory made where a lower holds one that was removed before is not made
\* opaque: what the lowers hold below it is seen again.
Uncovered(q) ==
    /\ op.kind \in {"create_dir", "move_dir"} /\ Below(op.dst, q)
    /\ Intended(q) = Absent
    /\ View(q) = LowerResolve(lower, q)

\* A call that returns Ok has done what it was asked, over the whole tree and not
\* only at its arguments.  Below a directory that create_dir and move_dir make
\* this is what the call put there and what the lowers hold, and nothing else;
\* that the lowers' part should not be there is MadeDirIsEmpty.
Result ==
    op.pc = "done" /\ op.out = "ok" => \A q \in Paths : View(q) = Intended(q) \/ Uncovered(q)

\* "Same merge / whiteout / copy-up semantics as the kernel `fs/overlayfs/`
\* driver" (layer.rs:4-5), where mkdir over a whiteout makes an opaque directory:
\* a directory that create_dir has made is empty.
MadeDirIsEmpty ==
    op.pc = "done" /\ op.out = "ok" /\ op.kind = "create_dir" =>
        \A q \in Paths : Below(op.dst, q) => View(q) = Absent

\* A move never has the moved data in neither place: at every step, each file of
\* the source is seen with its content under the old name or under the new one.
MoveKeepsData ==
    op.kind \in Moving =>
        \A q \in Paths :
            AtOrBelow(op.src, q) /\ op.before[q] \in Data =>
                View(q) = op.before[q] \/ View(Image(q)) = op.before[q]

\* What a call may leave at any path when it is abandoned half way: what was
\* there, what it was asked for, an empty file where it was writing one, or the
\* version the lowers hold, between the removal of the upper's version and its
\* marker or between the removal of a marker and the new entry.  Never the data
\* of another path.
OldOrNew ==
    op.pc # "idle" =>
        \A q \in Paths :
            \/ View(q) \in {op.before[q], Intended(q), LowerResolve(lower, q)}
            \/ AtOrBelow(op.dst, q) /\ View(q) = Empty

\* read_dir asks about the opaque marker of the directory it lists, resolve about
\* every one above: the two part where a marker hides more than what lies
\* directly in its directory, and at a lower's marker, which read_dir ignores.
HidesChildren(ls, marks) ==
    \A i \in 1..Len(ls) :
        /\ ls[i].opq = {}
        /\ \A d \in marks, q \in Paths : ls[i].ent[q] # Absent /\ Below(d, q) => ChildOf(d, q)
Shallow == \A s \in Stacks : HidesChildren(s.lower, s.upper.opq)

\* read_dir and resolve, two separate implementations of the merge, agree: a
\* directory lists exactly the names that a lookup then finds.
ListingMatches ==
    \A q \in Paths : Reachable(q) => (Listed(q) <=> Resolve(q) # Absent)

\* Every call returns: the walks of move_dir are finite, no step of a call waits.
Terminates == op.pc # "idle" ~> op.pc = "idle"
=============================================================================
