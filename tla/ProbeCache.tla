------------------------------ MODULE ProbeCache ------------------------------
(***************************************************************************)
(* The walk of LayerFS::resolve over the lowers, step by step, with the two   *)
(* caches it consults: lower_whiteouts, the whiteout markers of a directory   *)
(* of a layer, and lower_opaque, whether that directory is opaque.  A miss    *)
(* releases the read lock, probes the disk, and takes the write lock to       *)
(* insert; several threads may do so at once.  A probe that meets an I/O      *)
(* error answers "no marker", and that answer is cached.                     *)
(***************************************************************************)
EXTENDS Layers, FiniteSets

CONSTANTS
    Threads,   \* the threads that resolve paths
    Error,     \* resolve returned an error
    None       \* nothing yet

ASSUME ProbeAssumption ==
    /\ Error \notin Entry /\ None \notin Entry /\ Error # None

Dirs == Paths \cup {Root}

VARIABLES
    lower,     \* the lowers, which no one writes
    whc,       \* lower_whiteouts: (layer, directory) |-> the names whited out
    opc,       \* lower_opaque: (layer, directory) |-> "yes" or "no"
    readers,   \* the threads that hold a read guard of lower_opaque
    io,        \* whether the disk answers
    missed,    \* history: the directories whose marker probe failed
    th         \* the call each thread is in

vars == <<lower, whc, opc, readers, io, missed, th>>

split_path(p) == SubSeq(p, 1, Len(p) - 1)

\* The markers that are on the disk.
WhOf(k)  == {p \in lower[k[1]].wh : split_path(p) = k[2]}
OpqOf(k) == k[2] \in lower[k[1]].opq

\* HashMap::insert.
Put(f, k, v) == [x \in DOMAIN f \cup {k} |-> IF x = k THEN v ELSE f[x]]

-----------------------------------------------------------------------------
(* One call.  `bad` tells that an existence probe of this call failed.       *)

Idle == [pc |-> "idle", path |-> Root, i |-> 1, cur |-> Root,
         names |-> {}, opq |-> "miss", bad |-> FALSE, ans |-> None]

KeyOf(r) == <<r.i, r.cur>>

Done(r, a) == [Idle EXCEPT !.pc = "done", !.path = r.path, !.bad = r.bad, !.ans = a]

\* On to the next layer, or past the last one.
NextLayer(r) ==
    IF r.i < Len(lower)
    THEN [r EXCEPT !.pc = "wh", !.i = @ + 1, !.cur = split_path(r.path), !.opq = "miss"]
    ELSE Done(r, Absent)

\* The directory is not opaque: its parent is next, up to the root.
WalkUp(r) ==
    IF r.cur = Root THEN NextLayer(r)
    ELSE [r EXCEPT !.pc = "opq", !.cur = split_path(@), !.opq = "miss"]

Call(t, p) ==
    /\ th[t].pc = "idle"
    /\ th' = [th EXCEPT ![t] = IF lower = << >> THEN Done([Idle EXCEPT !.path = p], Absent)
                               ELSE [Idle EXCEPT !.pc = "wh", !.path = p, !.cur = split_path(p)]]
    /\ UNCHANGED <<lower, whc, opc, readers, io, missed>>

\* Mutant: a cached directory is taken to have no whiteout of this name.
LookupForgets(t) ==
    /\ th[t].pc = "wh"
    /\ th' = [th EXCEPT ![t].pc = IF KeyOf(th[t]) \in DOMAIN whc THEN "exists" ELSE "whprobe"]
    /\ UNCHANGED <<lower, whc, opc, readers, io, missed>>

\* lower_has_whiteout: the guard is dropped at the end of the lookup.
WhLookup(t) ==
    LET r == th[t]
        k == KeyOf(r)
    IN
    /\ r.pc = "wh"
    /\ th' = [th EXCEPT ![t] = IF k \notin DOMAIN whc THEN [r EXCEPT !.pc = "whprobe"]
                               ELSE IF r.path \in whc[k] THEN Done(r, Absent)
                               ELSE [r EXCEPT !.pc = "exists"]]
    /\ UNCHANGED <<lower, whc, opc, readers, io, missed>>

\* Mutant: a directory that cannot be read is taken to hide the name.
ProbeHides(t) ==
    /\ th[t].pc = "whprobe"
    /\ th' = [th EXCEPT ![t].pc = "whins",
                        ![t].names = IF io THEN WhOf(<<th[t].i, th[t].cur>>) ELSE {th[t].path}]
    /\ missed' = IF io THEN missed ELSE missed \cup {th[t].cur}
    /\ UNCHANGED <<lower, whc, opc, readers, io>>

\* The directory is read once, for all the names in it.
WhProbe(t) ==
    /\ th[t].pc = "whprobe"
    /\ th' = [th EXCEPT ![t].pc = "whins", ![t].names = IF io THEN WhOf(<<th[t].i, th[t].cur>>) ELSE {}]
    /\ missed' = IF io THEN missed ELSE missed \cup {th[t].cur}
    /\ UNCHANGED <<lower, whc, opc, readers, io>>

WhInsert(t) ==
    LET r == th[t] IN
    /\ r.pc = "whins"
    /\ whc' = Put(whc, KeyOf(r), r.names)
    /\ th' = [th EXCEPT ![t] = IF r.path \in r.names THEN Done(r, Absent)
                               ELSE [r EXCEPT !.pc = "exists", !.names = {}]]
    /\ UNCHANGED <<lower, opc, readers, io, missed>>

\* layer_path.exists()?: an I/O error is an error of the call, or reads as "no"
\* where the filesystem below does not report it.
Exists(t) ==
    LET r == th[t]
        e == lower[r.i].ent[r.path]
    IN
    /\ r.pc = "exists"
    /\ \/ /\ io
          /\ th' = [th EXCEPT ![t] = IF e # Absent THEN Done(r, e) ELSE [r EXCEPT !.pc = "opq"]]
       \/ /\ ~io
          /\ th' = [th EXCEPT ![t] = Done(r, Error)]
       \/ /\ ~io
          /\ th' = [th EXCEPT ![t] = [r EXCEPT !.pc = "opq", !.bad = TRUE]]
    /\ UNCHANGED <<lower, whc, opc, readers, io, missed>>

\* lower_is_opaque_above: read().get().copied() holds the guard while it looks.
OpqLookup(t) ==
    LET k == KeyOf(th[t]) IN
    /\ th[t].pc = "opq"
    /\ readers' = readers \cup {t}
    /\ th' = [th EXCEPT ![t].pc = "guard", ![t].opq = IF k \in DOMAIN opc THEN opc[k] ELSE "miss"]
    /\ UNCHANGED <<lower, whc, opc, io, missed>>

\* What the looked-up value leads to.
AfterLookup(r) ==
    CASE r.opq = "miss" -> [r EXCEPT !.pc = "probe"]
      [] r.opq = "yes"  -> Done(r, Absent)
      [] r.opq = "no"   -> WalkUp(r)

\* Mutant: the guard lives through the miss path, as that of an `if let` would.
OpqHold(t) ==
    LET r == th[t] IN
    /\ r.pc = "guard"
    /\ readers' = IF r.opq = "miss" THEN readers ELSE readers \ {t}
    /\ th' = [th EXCEPT ![t] = AfterLookup(r)]
    /\ UNCHANGED <<lower, whc, opc, io, missed>>

\* The statement ends and drops the guard, before anything else is done.
OpqRelease(t) ==
    /\ th[t].pc = "guard"
    /\ readers' = readers \ {t}
    /\ th' = [th EXCEPT ![t] = AfterLookup(th[t])]
    /\ UNCHANGED <<lower, whc, opc, io, missed>>

OpqProbe(t) ==
    /\ th[t].pc = "probe"
    /\ th' = [th EXCEPT ![t].pc = "ins", ![t].opq = IF io /\ OpqOf(<<th[t].i, th[t].cur>>) THEN "yes" ELSE "no"]
    /\ missed' = IF io THEN missed ELSE missed \cup {th[t].cur}
    /\ UNCHANGED <<lower, whc, opc, readers, io>>

\* The write lock waits for every reader.
OpqInsert(t) ==
    LET r == th[t] IN
    /\ r.pc = "ins" /\ readers = {}
    /\ opc' = Put(opc, KeyOf(r), r.opq)
    /\ th' = [th EXCEPT ![t] = IF r.opq = "yes" THEN Done(r, Absent) ELSE WalkUp(r)]
    /\ UNCHANGED <<lower, whc, readers, io, missed>>

Return(t) ==
    /\ th[t].pc = "done"
    /\ th' = [th EXCEPT ![t] = Idle]
    /\ UNCHANGED <<lower, whc, opc, readers, io, missed>>

\* The disk below starts or stops to fail.
DiskFault ==
    /\ io' = ~io
    /\ UNCHANGED <<lower, whc, opc, readers, missed, th>>

-----------------------------------------------------------------------------
NoCache == [k \in {} |-> {}]

Init ==
    /\ lower \in {s.lower : s \in Stacks}
    /\ whc = NoCache /\ opc = NoCache
    /\ readers = {} /\ io = TRUE /\ missed = {}
    /\ th = [t \in Threads |-> Idle]

Walk(t) ==
    \/ WhLookup(t) \/ WhProbe(t) \/ WhInsert(t) \/ Exists(t)
    \/ OpqLookup(t) \/ OpqRelease(t) \/ OpqProbe(t) \/ OpqInsert(t)

Next ==
    \/ \E t \in Threads : Walk(t) \/ Return(t) \/ \E p \in Paths : Call(t, p)
    \/ DiskFault

\* A runnable thread runs, and a writer that waits for the lock gets it (the
\* lock admits no new reader while a writer waits).
Fairness == \A t \in Threads : WF_vars(Walk(t)) /\ SF_vars(OpqInsert(t))

Spec == Init /\ [][Next]_vars /\ Fairness

-----------------------------------------------------------------------------
(* Properties.                                                               *)

\* The keys of the caches, and the type of a call.
Keys == (1..Len(lower)) \X Dirs
CallType ==
    [pc : {"idle", "wh", "whprobe", "whins", "exists", "opq", "guard", "probe", "ins", "done"},
     path : Dirs, i : Nat \ {0}, cur : Dirs, names : SUBSET Paths,
     opq : {"miss", "yes", "no"}, bad : BOOLEAN, ans : Entry \cup {Error, None}]

\* However the caches were filled, a cache entry that is missing a marker can
\* only let something show through.  A path that some layer gives the call is
\* found, in that layer and with its content, by every call whose own probes of
\* the path succeeded: no other thread and no earlier fault can hide it.
PresentFound ==
    \A t \in Threads :
        LET r == th[t] IN
        (r.pc = "done" /\ ~r.bad /\ r.ans # Error /\ LowerResolve(lower, r.path) # Absent)
            => r.ans = LowerResolve(lower, r.path)

\* A wrong answer needs a failed marker probe of a directory on the way to the
\* path, made by this call or, since the result is cached, by any call before
\* it.  Otherwise every interleaving of lookups, probes and inserts answers what
\* the disk says.
RightUnlessMissed ==
    \A t \in Threads :
        LET r == th[t] IN
        (r.pc = "done" /\ ~r.bad /\ r.ans \notin {Error, LowerResolve(lower, r.path)})
            => \E d \in missed : Below(d, r.path)

\* Every call answers: no thread waits for a lock it holds itself.
Returns == \A t \in Threads : th[t].pc # "idle" ~> th[t].pc = "done"
===============================================================================
