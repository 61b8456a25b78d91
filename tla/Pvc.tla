---------------------------------- MODULE Pvc ----------------------------------
(***************************************************************************)
(* A PVC mount: crates/rspacefs-pvc, and the control requests of              *)
(* crates/rspacefs-fuse/src/control.rs that change it.  The merged tree is a   *)
(* SwappableRoot: every call of the FUSE adapter fetches the current LayerFS   *)
(* and works on it.  `pivot-upper` stores another LayerFS, over the same       *)
(* lowers and a new upper, while the workload goes on; `capture-layer` packs   *)
(* the upper into a blob that apply_blob later unpacks into a lower.  Both     *)
(* hold the PVC mutex; the workload's calls do not.                           *)
(*                                                                           *)
(* The namespace is flat and holds files.  An overlay call is one step on the  *)
(* upper of the LayerFS it fetched (LayerFS has the steps inside).  The boot   *)
(* agent, which is outside, fills a new upper with a copy of the current one   *)
(* and asks for the pivot.                                                   *)
(***************************************************************************)
EXTENDS Layers, FiniteSets, Functions

CONSTANTS
    Uppers,      \* the directories that may serve as the upper
    First,       \* the upper of the mount
    Clients,     \* the control connections, of one request each
    Access,      \* access modes in use
    Lifecycle,   \* lifecycles in use
    MaxOps,      \* bound: requests of the workload
    None

ASSUME PvcAssumption ==
    /\ First \in Uppers /\ None \notin Uppers \cup Clients
    /\ Access \subseteq {"Empty", "ReadOnly", "ReadWriteOnce", "ReadWriteMany"}
    /\ Lifecycle \subseteq {"Persistent", "Ephemeral", "EphemeralThenPersistent"}
    /\ MaxOps \in Nat
ASSUME FlatAssumption ==
    /\ \A p \in Paths : Len(p) = 1
    /\ \A s \in Stacks : \A p \in Paths :
         /\ s.upper.ent[p] # Dir
         /\ \A i \in 1..Len(s.lower) : s.lower[i].ent[p] # Dir

VARIABLES
    opts,      \* access mode, lifecycle and lowers
    disk,      \* the content of each upper
    made,      \* the uppers that exist as directories
    root,      \* root_handle: the upper of the LayerFS stored in it
    wlock,     \* the client that holds root_handle for writing
    upper,     \* PvcMount's upper and upper_physical
    mux,       \* the client that holds the PVC mutex
    cl,        \* the control requests
    req,       \* the request on the dispatch thread
    hnd,       \* the buffered handle that is open
    kc,        \* the names the kernel has cached, each with the root of its lookup
    ops,       \* how many requests the workload has made
    want,      \* history: the tree the workload was told it has
    adrift     \* history: the files a pivot met changed in the new upper, or under a call

vars == <<opts, disk, made, root, wlock, upper, mux, cl, req, hnd, kc, ops, want, adrift>>
work == <<req, hnd, kc, ops, want>>
pvc  == <<made, root, wlock, upper, mux, cl>>

-----------------------------------------------------------------------------
(* PvcMount::new.                                                            *)

writable(o) == o.access # "ReadOnly"

ValidOptions(o) ==
    /\ o.access = "ReadOnly" => o.lifecycle = "Persistent" /\ o.lower # << >>
    /\ o.access = "Empty" => o.lower = << >>

supports_pivot(o) == o.access # "ReadOnly" /\ o.lifecycle = "EphemeralThenPersistent"

-----------------------------------------------------------------------------
(* The overlay, on the upper u.                                              *)

Resolve(u, p) ==
    IF p \in disk[u].wh THEN Absent
    ELSE IF disk[u].ent[p] # Absent THEN disk[u].ent[p]
    ELSE IF OpaqueAbove(disk[u].opq, p) THEN Absent
    ELSE LowerResolve(opts.lower, p)

InLower(p) == \E i \in 1..Len(opts.lower) : opts.lower[i].ent[p] # Absent

Put(L, p, v) == [L EXCEPT !.ent[p] = v, !.wh = @ \ {p}]
Gone(L, p) == [L EXCEPT !.ent[p] = Absent, !.wh = IF InLower(p) THEN @ \cup {p} ELSE @]

\* The adapter's physical_for: layers[0] is the upper the mount began with.
Physical(p) ==
    IF p \in disk[First].wh THEN Absent
    ELSE IF disk[First].ent[p] # Absent THEN disk[First].ent[p]
    ELSE IF InLower(p)
         THEN opts.lower[CHOOSE i \in 1..Len(opts.lower) :
                           opts.lower[i].ent[p] # Absent
                             /\ \A j \in 1..(i - 1) : opts.lower[j].ent[p] = Absent].ent[p]
         ELSE Absent

-----------------------------------------------------------------------------
(* The workload, one request at a time on the dispatch thread.  Each call     *)
(* fetches the root it works on (SwappableRoot::at); move_file fetches two.   *)

NoReq == [pc |-> "idle", op |-> "none", p |-> Root, q |-> Root, via |-> None, via2 |-> None, data |-> Empty]
NoHandle == [p |-> Root, data |-> Empty, dirty |-> FALSE]
Cached(p) == \E c \in kc : c[1] = p
Uncache(p) == {c \in kc : c[1] # p}

Send(op, p, q, data) ==
    /\ req.pc = "idle" /\ ops < MaxOps
    /\ req' = [NoReq EXCEPT !.pc = "fetch", !.op = op, !.p = p, !.q = q, !.data = data]
    /\ ops' = ops + 1
    /\ UNCHANGED <<opts, disk, made, root, wlock, upper, mux, cl, kc, want, adrift>>

\* The kernel sends these where it has the name (create: where it has not); a
\* file open for writing is not renamed or unlinked.
AskCreate(p) ==
    /\ writable(opts) /\ ~Cached(p) /\ hnd = NoHandle
    /\ Send("create", p, p, Empty) /\ UNCHANGED hnd
AskUnlink(p) ==
    /\ writable(opts) /\ Cached(p) /\ hnd.p # p
    /\ Send("unlink", p, p, Empty) /\ UNCHANGED hnd
AskRename(p, q) ==
    /\ writable(opts) /\ Cached(p) /\ p # q /\ hnd.p \notin {p, q}
    /\ Send("rename", p, q, Empty) /\ UNCHANGED hnd
\* A clean handle is just dropped; the handle is out of the table at once.
AskRelease ==
    /\ hnd # NoHandle
    /\ hnd' = NoHandle
    /\ IF hnd.dirty THEN Send("release", hnd.p, hnd.p, hnd.data)
       ELSE UNCHANGED <<opts, disk, made, root, wlock, upper, mux, cl, req, kc, ops, want, adrift>>

\* Mutant: the calls work on the root the mount began with.
FetchFirst ==
    /\ req.pc = "fetch" /\ wlock = None
    /\ req' = [req EXCEPT !.pc = IF req.op = "rename" THEN "fetch2" ELSE "exec", !.via = First, !.via2 = First]
    /\ UNCHANGED <<opts, disk, pvc, hnd, kc, ops, want, adrift>>

\* at(): under the read lock.
Fetch ==
    /\ req.pc = "fetch" /\ wlock = None
    /\ req' = [req EXCEPT !.pc = IF req.op = "rename" THEN "fetch2" ELSE "exec", !.via = root, !.via2 = root]
    /\ UNCHANGED <<opts, disk, pvc, hnd, kc, ops, want, adrift>>

Fetch2 ==
    /\ req.pc = "fetch2" /\ wlock = None
    /\ req' = [req EXCEPT !.pc = "exec", !.via2 = root]
    /\ UNCHANGED <<opts, disk, pvc, hnd, kc, ops, want, adrift>>

\* create: exists, or create_file; the handle starts empty.
DoCreate ==
    /\ req.pc = "exec" /\ req.op = "create"
    /\ LET old == Resolve(req.via, req.p) IN
       /\ disk' = IF old = Absent THEN [disk EXCEPT ![req.via] = Put(@, req.p, Empty)] ELSE disk
       /\ hnd' = [p |-> req.p, data |-> IF old = Absent THEN Empty ELSE old, dirty |-> FALSE]
       /\ want' = IF old = Absent THEN [want EXCEPT ![req.p] = Empty] ELSE want
    /\ kc' = Uncache(req.p) \cup {<<req.p, root>>}
    /\ req' = NoReq
    /\ UNCHANGED <<opts, pvc, ops, adrift>>

\* unlink: exists, remove_file.
DoUnlink ==
    /\ req.pc = "exec" /\ req.op = "unlink"
    /\ IF Resolve(req.via, req.p) = Absent THEN UNCHANGED <<disk, want>>
       ELSE /\ disk' = [disk EXCEPT ![req.via] = Gone(@, req.p)]
            /\ want' = [want EXCEPT ![req.p] = Absent]
    /\ kc' = Uncache(req.p)
    /\ req' = NoReq
    /\ UNCHANGED <<opts, pvc, hnd, ops, adrift>>

\* rename: move_file refuses a destination that exists, copies, then removes.
DoRename ==
    /\ req.pc = "exec" /\ req.op = "rename"
    /\ LET v == Resolve(req.via, req.p) IN
       IF v = Absent \/ Resolve(req.via2, req.q) # Absent
       THEN UNCHANGED <<disk, kc, want, adrift>>
       ELSE /\ disk' = [u \in Uppers |->
                          LET L == IF u = req.via2 THEN Put(disk[u], req.q, v) ELSE disk[u]
                          IN  IF u = req.via THEN Gone(L, req.p) ELSE L]
            /\ want' = [want EXCEPT ![req.q] = want[req.p], ![req.p] = Absent]
            /\ kc' = (Uncache(req.p) \ {c \in kc : c[1] = req.q}) \cup {<<req.q, root>>}
            /\ adrift' = IF req.p \in adrift THEN adrift \cup {req.q} ELSE adrift
    /\ req' = NoReq
    /\ UNCHANGED <<opts, pvc, hnd, ops>>

\* release: create_file truncates, then the buffer is written.
DoRelease ==
    /\ req.pc = "exec" /\ req.op = "release"
    /\ disk' = [disk EXCEPT ![req.via] = Put(@, req.p, Empty)]
    /\ req' = [req EXCEPT !.pc = "flush"]
    /\ UNCHANGED <<opts, pvc, hnd, kc, ops, want, adrift>>

Flush ==
    /\ req.pc = "flush"
    /\ disk' = [disk EXCEPT ![req.via] = Put(@, req.p, req.data)]
    /\ want' = [want EXCEPT ![req.p] = req.data]
    /\ req' = NoReq
    /\ UNCHANGED <<opts, pvc, hnd, kc, ops, adrift>>

\* lookup goes by the physical layers, not by the root.
Lookup(p) ==
    /\ req.pc = "idle" /\ ~Cached(p) /\ Physical(p) # Absent
    /\ kc' = kc \cup {<<p, root>>}
    /\ UNCHANGED <<opts, disk, pvc, req, hnd, ops, want, adrift>>

\* open for writing reads the file into the handle.
OpenWrite(p) ==
    /\ req.pc = "idle" /\ writable(opts) /\ Cached(p) /\ hnd = NoHandle /\ wlock = None
    /\ Resolve(root, p) # Absent /\ ops < MaxOps
    /\ hnd' = [p |-> p, data |-> Resolve(root, p), dirty |-> FALSE]
    /\ ops' = ops + 1
    /\ UNCHANGED <<opts, disk, pvc, req, kc, want, adrift>>

WriteBuffer(v) ==
    /\ hnd # NoHandle /\ hnd.data # v
    /\ hnd' = [hnd EXCEPT !.data = v, !.dirty = TRUE]
    /\ UNCHANGED <<opts, disk, pvc, req, kc, ops, want, adrift>>

-----------------------------------------------------------------------------
(* The boot agent.                                                           *)

Prepare(u) ==
    /\ u \notin made
    /\ made' = made \cup {u}
    /\ disk' = [disk EXCEPT ![u] = disk[root]]
    /\ UNCHANGED <<opts, root, wlock, upper, mux, cl, work, adrift>>

-----------------------------------------------------------------------------
(* Control requests.                                                         *)

NoBlob == [ent |-> [p \in Paths |-> Absent], wh |-> {}, opq |-> {}]
Idle == [pc |-> "new", kind |-> "none", to |-> None, todo |-> {}, names |-> {}, at |-> 0, blob |-> NoBlob]
Step(c, pc) == cl' = [cl EXCEPT ![c].pc = pc]
Reply(c, pc) == cl' = [cl EXCEPT ![c] = [Idle EXCEPT !.pc = pc]]

\* The agent asks for an upper that is not the one in use.
AskPivot(c, u) ==
    /\ cl[c].pc = "new" /\ u # root
    /\ cl' = [cl EXCEPT ![c] = [Idle EXCEPT !.pc = "check", !.kind = "pivot", !.to = u]]
    /\ UNCHANGED <<opts, disk, made, root, wlock, upper, mux, work, adrift>>

AskCapture(c) ==
    /\ cl[c].pc = "new"
    /\ cl' = [cl EXCEPT ![c] = [Idle EXCEPT !.pc = "lock", !.kind = "capture"]]
    /\ UNCHANGED <<opts, disk, made, root, wlock, upper, mux, work, adrift>>

\* do_pivot_upper: the new upper has to be a directory.
PivotCheck(c) ==
    /\ cl[c].pc = "check"
    /\ IF cl[c].to \in made THEN Step(c, "lock") ELSE Reply(c, "error")
    /\ UNCHANGED <<opts, disk, made, root, wlock, upper, mux, work, adrift>>

Lock(c) ==
    /\ cl[c].pc = "lock" /\ mux = None
    /\ mux' = c
    /\ Step(c, IF cl[c].kind = "pivot" THEN "pivot" ELSE "list")
    /\ UNCHANGED <<opts, disk, made, root, wlock, upper, work, adrift>>

\* pivot_upper refuses, or its probe of the new upper fails.
PivotRefused(c) ==
    /\ cl[c].pc = "pivot"
    /\ mux' = None
    /\ Reply(c, "error")
    /\ UNCHANGED <<opts, disk, made, root, wlock, upper, work, adrift>>

\* The new LayerFS is stored under the write lock.
PivotStore(c) ==
    /\ cl[c].pc = "pivot" /\ supports_pivot(opts)
    /\ wlock' = c
    /\ root' = cl[c].to
    /\ adrift' = adrift \cup {p \in Paths : Resolve(cl[c].to, p) # Resolve(root, p)}
                       \cup (IF req.pc \in {"fetch2", "exec", "flush"} THEN {req.p, req.q} ELSE {})
    /\ Step(c, "stored")
    /\ UNCHANGED <<opts, disk, made, upper, mux, work>>

\* Mutant: the write guard lives until the function returns to the client.
PivotKeepsGuard(c) ==
    /\ cl[c].pc = "stored"
    /\ UNCHANGED wlock
    /\ Step(c, "fields")
    /\ UNCHANGED <<opts, disk, made, root, upper, mux, work, adrift>>

PivotRelease(c) ==
    /\ cl[c].pc = "stored"
    /\ wlock' = None
    /\ Step(c, "fields")
    /\ UNCHANGED <<opts, disk, made, root, upper, mux, work, adrift>>

\* Mutant: only the root is swapped.
PivotRootOnly(c) ==
    /\ cl[c].pc = "fields"
    /\ UNCHANGED upper
    /\ mux' = None
    /\ Step(c, "inval")
    /\ UNCHANGED <<opts, disk, made, root, wlock, work, adrift>>

PivotFields(c) ==
    /\ cl[c].pc = "fields"
    /\ upper' = cl[c].to
    /\ mux' = None
    /\ Step(c, "inval")
    /\ UNCHANGED <<opts, disk, made, root, wlock, work, adrift>>

\* Mutant: the names are those the pivot has written, not those that are merged.
InvalUpperOnly(c) ==
    /\ cl[c].pc = "inval" /\ wlock = None
    /\ cl' = [cl EXCEPT ![c].pc = "notify", ![c].todo = {p \in Paths : disk[root].ent[p] # Absent}]
    /\ UNCHANGED <<opts, disk, made, root, wlock, upper, mux, work, adrift>>

\* do_invalidate: the names of the merged tree, then one notification each,
\* which waits for a call of the kernel that is under way in the directory.
InvalList(c) ==
    /\ cl[c].pc = "inval" /\ wlock = None
    /\ cl' = [cl EXCEPT ![c].pc = "notify", ![c].todo = {p \in Paths : Resolve(root, p) # Absent}]
    /\ UNCHANGED <<opts, disk, made, root, wlock, upper, mux, work, adrift>>

\* What goes wrong in do_invalidate is logged and counted, and the pivot is
\* answered all the same: the names are kept, which the history tags None.
Kept(S) == {IF e[1] \in S /\ e[2] # root THEN <<e[1], None>> ELSE e : e \in kc}

\* The tree cannot be listed: there are no names to notify.
InvalListFails(c) ==
    /\ cl[c].pc = "inval" /\ wlock = None
    /\ kc' = Kept(Paths)
    /\ cl' = [cl EXCEPT ![c].pc = "notify", ![c].todo = {}]
    /\ UNCHANGED <<opts, disk, made, root, wlock, upper, mux, req, hnd, ops, want, adrift>>

InvalEntryFails(c, p) ==
    /\ cl[c].pc = "notify" /\ p \in cl[c].todo
    /\ kc' = Kept({p})
    /\ cl' = [cl EXCEPT ![c].todo = @ \ {p}]
    /\ UNCHANGED <<opts, disk, made, root, wlock, upper, mux, req, hnd, ops, want, adrift>>

InvalEntry(c, p) ==
    /\ cl[c].pc = "notify" /\ p \in cl[c].todo /\ req.pc = "idle"
    /\ kc' = Uncache(p)
    /\ cl' = [cl EXCEPT ![c].todo = @ \ {p}]
    /\ UNCHANGED <<opts, disk, made, root, wlock, upper, mux, req, hnd, ops, want, adrift>>

PivotReply(c) ==
    /\ cl[c].pc = "notify" /\ cl[c].todo = {}
    /\ Reply(c, "ok")
    /\ UNCHANGED <<opts, disk, made, root, wlock, upper, mux, work, adrift>>

\* capture_layer: the directory is listed, markers and all.  No call changes an
\* opaque marker, so when those are packed does not matter.
CaptureList(c) ==
    /\ cl[c].pc = "list"
    /\ cl' = [cl EXCEPT ![c].pc = "pack",
                        ![c].to = upper,
                        ![c].todo = {p \in Paths : disk[upper].ent[p] # Absent},
                        ![c].names = disk[upper].wh,
                        ![c].blob = [NoBlob EXCEPT !.opq = disk[upper].opq],
                        ![c].at = IF req.pc = "idle" THEN ops ELSE MaxOps + 1]
    /\ UNCHANGED <<opts, disk, made, root, wlock, upper, mux, work, adrift>>

\* Each entry is read when its turn comes; one that is gone by then fails the
\* capture.
PackMarker(c) ==
    /\ cl[c].pc = "pack" /\ cl[c].names # {}
    /\ \E p \in cl[c].names :
         IF p \in disk[cl[c].to].wh
         THEN cl' = [cl EXCEPT ![c].names = @ \ {p}, ![c].blob.wh = @ \cup {p}] /\ UNCHANGED mux
         ELSE Reply(c, "error") /\ mux' = None
    /\ UNCHANGED <<opts, disk, made, root, wlock, upper, work, adrift>>

PackFile(c) ==
    /\ cl[c].pc = "pack" /\ cl[c].names = {}
    /\ \E p \in cl[c].todo :
         LET v == disk[cl[c].to].ent[p] IN
         IF v # Absent
         THEN cl' = [cl EXCEPT ![c].todo = @ \ {p}, ![c].blob.ent[p] = v] /\ UNCHANGED mux
         ELSE Reply(c, "error") /\ mux' = None
    /\ UNCHANGED <<opts, disk, made, root, wlock, upper, work, adrift>>

CaptureReply(c) ==
    /\ cl[c].pc = "pack" /\ cl[c].todo = {} /\ cl[c].names = {}
    /\ mux' = None
    /\ Reply(c, "ok")
    /\ UNCHANGED <<opts, disk, made, root, wlock, upper, work, adrift>>

-----------------------------------------------------------------------------
Init ==
    /\ opts \in {o \in [access : Access, lifecycle : Lifecycle, lower : {s.lower : s \in Stacks}] : ValidOptions(o)}
    /\ disk \in {[u \in Uppers |-> s.upper] : s \in Stacks}
    /\ made = {First} /\ root = First /\ upper = First
    /\ wlock = None /\ mux = None
    /\ cl = [c \in Clients |-> Idle]
    /\ req = NoReq /\ hnd = NoHandle /\ kc = {} /\ ops = 0
    /\ want = [p \in Paths |-> Resolve(First, p)]
    /\ adrift = {}

Dispatch == Fetch \/ Fetch2 \/ DoCreate \/ DoUnlink \/ DoRename \/ DoRelease \/ Flush

Workload ==
    \/ \E p \in Paths : AskCreate(p) \/ AskUnlink(p) \/ Lookup(p) \/ OpenWrite(p)
    \/ \E p, q \in Paths : AskRename(p, q)
    \/ \E v \in Data \ {Empty} : WriteBuffer(v)
    \/ AskRelease

Pivot(c) ==
    \/ PivotCheck(c) \/ PivotRefused(c) \/ PivotStore(c) \/ PivotRelease(c) \/ PivotFields(c)
    \/ InvalList(c) \/ InvalListFails(c)
    \/ (\E p \in Paths : InvalEntry(c, p) \/ InvalEntryFails(c, p)) \/ PivotReply(c)
Capture(c) == CaptureList(c) \/ PackMarker(c) \/ PackFile(c) \/ CaptureReply(c)

Next ==
    \/ Dispatch \/ Workload
    \/ \E u \in Uppers : Prepare(u)
    \/ \E c \in Clients : \/ AskCapture(c) \/ \E u \in Uppers : AskPivot(c, u)
                         \/ Lock(c) \/ Pivot(c) \/ Capture(c)

\* The dispatch thread and the control threads run.
Fairness == WF_vars(Dispatch) /\ \A c \in Clients : WF_vars(Lock(c) \/ Pivot(c) \/ Capture(c))

Spec == Init /\ [][Next]_vars /\ Fairness

-----------------------------------------------------------------------------
(* Properties.                                                               *)

Pivoting == \E c \in Clients : cl[c].pc \in {"stored", "fields", "inval", "notify"}

\* Promotion keeps the workload's data.  Once nothing is under way the swappable
\* root, the tree that readdir, opens for writing, unlink, rename and capture
\* work on, has what the workload was told, file by file, across any number of
\* pivots and with handles open over them: what was written before a pivot and
\* closed after it is in the new upper.  Only the very files that the new upper
\* did not have as the old one did, or that the call under way at the swap was
\* about, may differ.  Lookup, getattr and opens for reading do not go by this
\* tree: LookupCurrent is about them.
TreeKept ==
    req.pc = "idle" => \A p \in Paths \ adrift : Resolve(root, p) = want[p]

\* apply_blob: the blob unpacked as a layer.
Applied(b) == [ent |-> b.ent, wh |-> b.wh, opq |-> b.opq]

\* A capture during which the workload was quiet, unpacked as the topmost lower
\* of a new mount, gives the tree that is mounted: the deletions too, and with
\* pivots before it and waiting behind it.
CaptureIsMount ==
    \A c \in Clients :
        (cl[c].pc = "pack" /\ cl[c].todo = {} /\ cl[c].names = {} /\ cl[c].at = ops /\ req.pc = "idle")
            => \A p \in Paths : LowerResolve(<<Applied(cl[c].blob)>> \o opts.lower, p) = Resolve(root, p)

\* Once a pivot has been answered the kernel holds no name it looked up in the
\* tree from before the swap, other than those whose notification failed, names
\* that were no longer there, and files a pivot set adrift: the names to drop are
\* those of the new tree at the time.
Invalidated ==
    ~Pivoting => \A e \in kc : e[2] \in {root, None} \/ e[1] \in adrift \/ Resolve(root, e[1]) = Absent

\* Every control request is answered and every call returns: the swap, the
\* notifications that wait for the kernel, and the calls that wait for the swap
\* never wait for one another.
Answered ==
    /\ \A c \in Clients : cl[c].pc # "new" ~> cl[c].pc \in {"ok", "error"}
    /\ req.pc # "idle" ~> req.pc = "idle"

\* "the next lookup of every top-level name re-enters the daemon and resolves
\* via the new upper": with no pivot under way what lookup, getattr and opens for
\* reading go by (physical_for) is what is mounted, of a file no pivot set adrift.
LookupCurrent ==
    (~Pivoting /\ req.pc = "idle") => \A p \in Paths \ adrift : Physical(p) = Resolve(root, p)
===============================================================================
