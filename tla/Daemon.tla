-------------------------------- MODULE Daemon --------------------------------
(***************************************************************************)
(* The life of a mount: crates/rspacefs-fuse/src/main.rs, with the control    *)
(* socket's path.  An instance of the daemon forks (mount_program and PVC     *)
(* mode), builds the adapter and its worker pool, mounts, arms the            *)
(* termination signals, binds its control socket, serves until the kernel     *)
(* ends the session, and tears down.  Its parent polls the mountpoint and     *)
(* reports to containers-storage.  Around it are users of the mount, signals, *)
(* lazy unmounts by containers-storage, and faults of the session.            *)
(*                                                                           *)
(* All instances mount at one path, where later mounts cover earlier ones;    *)
(* every unmount is by path and takes the topmost.  The library's own unmount *)
(* is umount(2), which refuses a busy mount; the daemon's is MNT_DETACH.      *)
(* A connection ends when its mount is out of the table and no file of it is  *)
(* open.  close() returns before its RELEASE, which does the write-back, has   *)
(* reached the daemon; the kernel drops a RELEASE that still waits when the    *)
(* connection ends.                                                          *)
(***************************************************************************)
EXTENDS Naturals, Sequences, FiniteSets, SequencesExt

CONSTANTS
    N,         \* the instances, 1..N, started in this order
    Modes,     \* [fork, ctl, tmp]: forks, has a control socket, makes its own upper
    Overlap,   \* whether an instance may start while an earlier one winds down
    Unwind     \* the panic strategy of the build: unwind, or abort

ASSUME DaemonAssumption ==
    /\ N \in Nat /\ Overlap \in BOOLEAN /\ Unwind \in BOOLEAN
    /\ Modes \subseteq [fork : BOOLEAN, ctl : BOOLEAN, tmp : BOOLEAN]
    /\ \A m \in Modes : ~(m.ctl /\ m.tmp)   \* only mount_program makes an upper

Inst == 1..N

VARIABLES
    pc,        \* how far the daemon process is
    mode,      \* how it was started
    parent,    \* the process that waits for it
    pool,      \* whether it has worker threads
    term,      \* TERMINATE_REQUESTED
    watcher,   \* the thread that polls it
    owned,     \* whether the session still holds fuser's Mount
    table,     \* the mounts at the path, the topmost last
    user,      \* the use made of an instance's mount
    sock,      \* whose control socket is at the socket's path; 0: none
    tmp,       \* the synthesized uppers on disk
    lost,      \* history: the instances that took data not yet written back along
    raced,     \* history: those whose unmount overtook a RELEASE
    fault,     \* history: those whose session failed
    panicked,  \* history: those in which something panicked
    cut        \* history: those that ended without a teardown

vars == <<pc, mode, parent, pool, term, watcher, owned, table, user, sock, tmp, lost, raced,
          fault, panicked, cut>>

-----------------------------------------------------------------------------
(* The kernel.                                                               *)

Mounted(i) == \E k \in 1..Len(table) : table[k] = i
Top == table[Len(table)]
Alive(i) == Mounted(i) \/ user[i] # "none"     \* the connection

\* umount(2) on the path: EINVAL where nothing is mounted, EBUSY while in use.
Umount == IF table # << >> /\ user[Top] \in {"none", "closed"} THEN Front(table) ELSE table
\* umount2(MNT_DETACH).
Detach == IF table # << >> THEN Front(table) ELSE table

\* fuser's Mount::drop: skipped once the connection is gone.
DropMount(i) == IF owned[i] /\ Alive(i) THEN Umount ELSE table

\* The process ends, with its threads and its memory: what was not written back
\* is lost, and its files are of no more use.
Die(i) ==
    /\ pc' = [pc EXCEPT ![i] = "exited"]
    /\ lost' = IF user[i] \in {"write", "dirty", "closed"} THEN lost \cup {i} ELSE lost
    /\ user' = [user EXCEPT ![i] = "none"]
    /\ pool' = [pool EXCEPT ![i] = FALSE]
    /\ term' = [term EXCEPT ![i] = FALSE]
    /\ watcher' = [watcher EXCEPT ![i] = "none"]
    /\ owned' = [owned EXCEPT ![i] = FALSE]

-----------------------------------------------------------------------------
(* Start.                                                                    *)

\* Another instance is started once the one before it has gone, or, with
\* Overlap, once its mount has been detached: containers-storage does not mount
\* over a mount that is served.  What a dead daemon left may still be there.
Start(i, m) ==
    /\ pc[i] = "off"
    /\ \A j \in 1..(i - 1) :
         /\ parent[j] \notin {"polling", "looked"}
         /\ pc[j] \in IF Overlap THEN {"exited", "serving"} ELSE {"exited"}
    /\ table = << >> \/ ~Overlap
    /\ pc' = [pc EXCEPT ![i] = "forked"]
    /\ mode' = [mode EXCEPT ![i] = m]
    /\ parent' = [parent EXCEPT ![i] = IF m.fork THEN "polling" ELSE "none"]
    /\ tmp' = IF m.tmp THEN tmp \cup {i} ELSE tmp
    /\ UNCHANGED <<pool, term, watcher, owned, table, user, sock, lost, raced, fault, panicked, cut>>

\* Mutant: the adapter is built before the fork, which leaves its threads behind.
BuildBeforeFork(i) ==
    /\ pc[i] = "forked"
    /\ pc' = [pc EXCEPT ![i] = "built"]
    /\ pool' = [pool EXCEPT ![i] = ~mode[i].fork]
    /\ UNCHANGED <<mode, parent, term, watcher, owned, table, user, sock, tmp, lost, raced, fault, panicked, cut>>

\* RspacefsFuse::new, in the child.
Build(i) ==
    /\ pc[i] = "forked"
    /\ pc' = [pc EXCEPT ![i] = "built"]
    /\ pool' = [pool EXCEPT ![i] = TRUE]
    /\ UNCHANGED <<mode, parent, term, watcher, owned, table, user, sock, tmp, lost, raced, fault, panicked, cut>>

\* Session::new: mounted.
SessionNew(i) ==
    /\ pc[i] = "built"
    /\ table' = Append(table, i)
    /\ owned' = [owned EXCEPT ![i] = TRUE]
    /\ pc' = [pc EXCEPT ![i] = "mounted"]
    /\ UNCHANGED <<mode, parent, pool, term, watcher, user, sock, tmp, lost, raced, fault, panicked, cut>>

\* Session::new fails.  With a control socket run() returns at once; without,
\* the exit goes through the clean-up all the same.
SessionFails(i) ==
    /\ pc[i] = "built"
    /\ fault' = fault \cup {i}
    /\ \/ /\ mode[i].ctl
          /\ Die(i)
       \/ /\ ~mode[i].ctl
          /\ pc' = [pc EXCEPT ![i] = "dropped"]
          /\ UNCHANGED <<pool, term, watcher, owned, user, lost>>
    /\ UNCHANGED <<mode, parent, table, sock, tmp, raced, panicked, cut>>

\* arm_termination: the handlers, then the watcher.
Arm(i) ==
    /\ pc[i] = "mounted"
    /\ watcher' = [watcher EXCEPT ![i] = "polling"]
    /\ pc' = [pc EXCEPT ![i] = IF mode[i].ctl THEN "armed" ELSE "serving"]
    /\ UNCHANGED <<mode, parent, pool, term, owned, table, user, sock, tmp, lost, raced, fault, panicked, cut>>

\* spawn_control_thread: a socket left at the path is removed.
Bind(i) ==
    /\ pc[i] = "armed"
    /\ sock' = i
    /\ pc' = [pc EXCEPT ![i] = "serving"]
    /\ UNCHANGED <<mode, parent, pool, term, watcher, owned, table, user, tmp, lost, raced, fault, panicked, cut>>

\* It cannot bind: `?` drops the session and skips the clean-up.
BindFails(i) ==
    /\ pc[i] = "armed"
    /\ table' = DropMount(i)
    /\ sock' = 0
    /\ fault' = fault \cup {i}
    /\ cut' = IF user[i] # "none" THEN cut \cup {i} ELSE cut
    /\ Die(i)
    /\ UNCHANGED <<mode, parent, tmp, raced, panicked>>

-----------------------------------------------------------------------------
(* Signals.                                                                  *)

\* SIGTERM: the flag once the handler is armed, the default action before.
Terminate(i) ==
    /\ pc[i] \notin {"off", "exited"}
    /\ \/ /\ watcher[i] # "none"
          /\ term' = [term EXCEPT ![i] = TRUE]
          /\ UNCHANGED <<pc, pool, watcher, owned, user, lost, cut>>
       \/ /\ watcher[i] = "none"
          /\ cut' = cut \cup {i}
          /\ Die(i)
    /\ UNCHANGED <<mode, table, sock, tmp, raced, fault, panicked>>

Signal(i) == Terminate(i) /\ UNCHANGED parent

-----------------------------------------------------------------------------
(* The parent: daemonize_after_mount polls the mountpoint (statfs), then the  *)
(* child (waitpid), then its deadline.                                       *)

\* is_fuse_mounted: statfs of the path finds the FUSE magic there, whoever has
\* mounted it.  The daemon of the topmost mount is asked: the call waits until
\* that one serves, and fails when it is dead.
is_fuse_mounted == table # << >> /\ pc[Top] = "serving"
StatfsFails == table # << >> => pc[Top] = "exited"

ParentReady(i) ==
    /\ parent[i] = "polling" /\ is_fuse_mounted
    /\ parent' = [parent EXCEPT ![i] = "ok"]
    /\ UNCHANGED <<pc, mode, pool, term, watcher, owned, table, user, sock, tmp, lost, raced, fault, panicked, cut>>

ParentLooks(i) ==
    /\ parent[i] = "polling" /\ StatfsFails
    /\ parent' = [parent EXCEPT ![i] = "looked"]
    /\ UNCHANGED <<pc, mode, pool, term, watcher, owned, table, user, sock, tmp, lost, raced, fault, panicked, cut>>

ParentReaps(i) ==
    /\ parent[i] = "looked" /\ pc[i] = "exited"
    /\ parent' = [parent EXCEPT ![i] = "failed"]
    /\ UNCHANGED <<pc, mode, pool, term, watcher, owned, table, user, sock, tmp, lost, raced, fault, panicked, cut>>

\* The child lives and there is time left.
ParentAgain(i) ==
    /\ parent[i] = "looked" /\ pc[i] # "exited"
    /\ parent' = [parent EXCEPT ![i] = "polling"]
    /\ UNCHANGED <<pc, mode, pool, term, watcher, owned, table, user, sock, tmp, lost, raced, fault, panicked, cut>>

\* Mutant: the child is killed, and waited for.
ParentWaitsOn(i) ==
    /\ parent[i] = "looked"
    /\ Terminate(i)
    /\ parent' = [parent EXCEPT ![i] = "polling"]

\* The deadline has passed: the parent kills the child, however far that has
\* come since it was looked at, and gives up.
ParentTimeout(i) ==
    /\ parent[i] = "looked"
    /\ Terminate(i)
    /\ parent' = [parent EXCEPT ![i] = "failed"]

-----------------------------------------------------------------------------
(* The watcher of arm_termination.                                           *)

\* Mutant: the watcher cleans up and exits.
WatchExits(i) ==
    /\ watcher[i] = "polling" /\ term[i]
    /\ table' = Detach
    /\ tmp' = tmp \ {i}
    /\ Die(i)
    /\ UNCHANGED <<mode, parent, sock, raced, fault, panicked, cut>>

\* Mutant: the watcher leaves the mount to the session.
WatchOnly(i) ==
    /\ watcher[i] = "polling" /\ term[i]
    /\ watcher' = [watcher EXCEPT ![i] = "done"]
    /\ UNCHANGED <<pc, mode, parent, pool, term, owned, table, user, sock, tmp, lost, raced, fault, panicked, cut>>

\* The watcher sees the flag, drops fuser's Mount and ends, whether or not the
\* mount was busy.
Watch(i) ==
    /\ watcher[i] = "polling" /\ term[i]
    /\ watcher' = [watcher EXCEPT ![i] = IF Mounted(i) /\ table = DropMount(i) THEN "failed" ELSE "done"]
    /\ table' = DropMount(i)
    /\ owned' = [owned EXCEPT ![i] = FALSE]
    /\ UNCHANGED <<pc, mode, parent, pool, term, user, sock, tmp, lost, raced, fault, panicked, cut>>

-----------------------------------------------------------------------------
(* Users of the mount, and containers-storage.                               *)

\* A request waits in the kernel until the session runs.
Open(i) ==
    /\ table # << >> /\ Top = i /\ user[i] = "none" /\ pc[i] # "exited"
    /\ user' = [user EXCEPT ![i] = "queued"]
    /\ UNCHANGED <<pc, mode, parent, pool, term, watcher, owned, table, sock, tmp, lost, raced, fault, panicked, cut>>

Opened(i) ==
    /\ user[i] = "queued" /\ pc[i] = "serving"
    /\ user' = [user EXCEPT ![i] = "open"]
    /\ UNCHANGED <<pc, mode, parent, pool, term, watcher, owned, table, sock, tmp, lost, raced, fault, panicked, cut>>

Write(i) ==
    /\ user[i] \in {"open", "dirty"} /\ pc[i] = "serving"
    /\ user' = [user EXCEPT ![i] = "write"]
    /\ UNCHANGED <<pc, mode, parent, pool, term, watcher, owned, table, sock, tmp, lost, raced, fault, panicked, cut>>

\* A worker answers.
Written(i) ==
    /\ user[i] = "write" /\ pc[i] = "serving" /\ pool[i]
    /\ user' = [user EXCEPT ![i] = "dirty"]
    /\ UNCHANGED <<pc, mode, parent, pool, term, watcher, owned, table, sock, tmp, lost, raced, fault, panicked, cut>>

\* close(): flush does nothing, so it returns at once.  The RELEASE of a file that
\* was written is on its way.
Close(i) ==
    /\ user[i] \in {"open", "dirty"}
    /\ user' = [user EXCEPT ![i] = IF user[i] = "dirty" THEN "closed" ELSE "none"]
    /\ UNCHANGED <<pc, mode, parent, pool, term, watcher, owned, table, sock, tmp, lost, raced, fault, panicked, cut>>

\* RELEASE: the buffer is written back.
Release(i) ==
    /\ user[i] = "closed" /\ pc[i] = "serving"
    /\ user' = [user EXCEPT ![i] = "none"]
    /\ UNCHANGED <<pc, mode, parent, pool, term, watcher, owned, table, sock, tmp, lost, raced, fault, panicked, cut>>

\* The kernel ends the connection of a mount that is gone, with what waits in it.
DropQueue(i) ==
    /\ user[i] = "closed" /\ ~Mounted(i)
    /\ user' = [user EXCEPT ![i] = "none"]
    /\ lost' = lost \cup {i}
    /\ raced' = raced \cup {i}
    /\ UNCHANGED <<pc, mode, parent, pool, term, watcher, owned, table, sock, tmp, fault, panicked, cut>>

LazyUnmount ==
    /\ table # << >>
    /\ table' = Detach
    /\ UNCHANGED <<pc, mode, parent, pool, term, watcher, owned, user, sock, tmp, lost, raced, fault, panicked, cut>>

-----------------------------------------------------------------------------
(* The end of the session, and the teardown.                                 *)

\* run() returns when the connection is gone.
RunReturns(i) ==
    /\ pc[i] = "serving" /\ ~Alive(i)
    /\ pc' = [pc EXCEPT ![i] = "ended"]
    /\ UNCHANGED <<mode, parent, pool, term, watcher, owned, table, user, sock, tmp, lost, raced, fault, panicked, cut>>

\* run() fails.
RunFails(i) ==
    /\ pc[i] = "serving"
    /\ fault' = fault \cup {i}
    /\ pc' = [pc EXCEPT ![i] = "ended"]
    /\ UNCHANGED <<mode, parent, pool, term, watcher, owned, table, user, sock, tmp, lost, raced, panicked, cut>>

\* A panic in the session.  catch_unwind catches it in a build that unwinds; the
\* release profile aborts, on any panic of any thread.
Panic(i) ==
    /\ pc[i] = "serving"
    /\ panicked' = panicked \cup {i}
    /\ \/ /\ Unwind
          /\ pc' = [pc EXCEPT ![i] = "ended"]
          /\ UNCHANGED <<pool, term, watcher, owned, user, lost, cut>>
       \/ /\ ~Unwind
          /\ cut' = cut \cup {i}
          /\ Die(i)
    /\ UNCHANGED <<mode, parent, table, sock, tmp, raced, fault>>

RemoveSocket(i) ==
    /\ pc[i] = "ended" /\ mode[i].ctl
    /\ sock' = 0
    /\ pc' = [pc EXCEPT ![i] = "unbound"]
    /\ UNCHANGED <<mode, parent, pool, term, watcher, owned, table, user, tmp, lost, raced, fault, panicked, cut>>

\* is_mountpoint: whether anything is mounted at the path.
is_mountpoint == table # << >>

\* drop_session_quietly, or the unwinding of a panic: the session is dropped
\* where something is mounted and forgotten otherwise.
DropSession(i) ==
    /\ pc[i] = IF mode[i].ctl THEN "unbound" ELSE "ended"
    /\ table' = IF is_mountpoint THEN DropMount(i) ELSE table
    /\ owned' = [owned EXCEPT ![i] = FALSE]
    /\ pc' = [pc EXCEPT ![i] = "dropped"]
    /\ UNCHANGED <<mode, parent, pool, term, watcher, user, sock, tmp, lost, raced, fault, panicked, cut>>

\* Mutant: the exit leaves the mount to fuser.
NoDetach(i) ==
    /\ pc[i] = "dropped"
    /\ tmp' = tmp \ {i}
    /\ Die(i)
    /\ UNCHANGED <<mode, parent, table, sock, raced, fault, panicked, cut>>

\* cleanup_mount_on_exit, and the process ends.
Cleanup(i) ==
    /\ pc[i] = "dropped"
    /\ table' = IF is_mountpoint THEN Detach ELSE table
    /\ tmp' = tmp \ {i}
    /\ Die(i)
    /\ UNCHANGED <<mode, parent, sock, raced, fault, panicked, cut>>

-----------------------------------------------------------------------------
Init ==
    /\ pc = [i \in Inst |-> "off"]
    /\ mode = [i \in Inst |-> [fork |-> FALSE, ctl |-> FALSE, tmp |-> FALSE]]
    /\ parent = [i \in Inst |-> "none"]
    /\ pool = [i \in Inst |-> FALSE]
    /\ term = [i \in Inst |-> FALSE]
    /\ watcher = [i \in Inst |-> "none"]
    /\ owned = [i \in Inst |-> FALSE]
    /\ table = << >>
    /\ user = [i \in Inst |-> "none"]
    /\ sock = 0
    /\ tmp = {} /\ lost = {} /\ raced = {} /\ fault = {} /\ panicked = {} /\ cut = {}

\* The steps the daemon takes by itself.
Main(i) ==
    \/ Build(i) \/ SessionNew(i) \/ SessionFails(i) \/ Arm(i) \/ Bind(i) \/ BindFails(i)
    \/ RunReturns(i) \/ RemoveSocket(i) \/ DropSession(i) \/ Cleanup(i)
Serve(i) == Opened(i) \/ Written(i) \/ Release(i)
Parent(i) == ParentReady(i) \/ ParentLooks(i) \/ ParentReaps(i) \/ ParentAgain(i) \/ ParentTimeout(i)

Next ==
    \/ \E i \in Inst :
         \/ \E m \in Modes : Start(i, m)
         \/ Main(i) \/ Serve(i) \/ Parent(i) \/ Watch(i)
         \/ Signal(i) \/ RunFails(i) \/ Panic(i)
         \/ Open(i) \/ Write(i) \/ Close(i) \/ DropQueue(i)
    \/ LazyUnmount

\* The daemon's threads, its session loop and the parent run when they can, and
\* a parent that goes round again and again meets its deadline.
\* Nobody has to use the mount, close a file, send a signal or unmount.
Fairness ==
    \A i \in Inst :
        /\ WF_vars(Main(i)) /\ WF_vars(Serve(i)) /\ WF_vars(Parent(i)) /\ WF_vars(Watch(i))
        /\ SF_vars(ParentTimeout(i))

Spec == Init /\ [][Next]_vars /\ Fairness

-----------------------------------------------------------------------------
(* Properties.                                                               *)

\* No daemon leaves its mount or its synthesized upper behind, whether it is
\* unmounted from outside, signalled, or has a session that fails while files
\* are open, where umount(2) is refused and only the detach helps.  The ways
\* that are left, all recorded in `cut`: a signal before the handlers are armed,
\* a control socket that cannot be bound while a request waits in the mount, and
\* a panic in a build that aborts.
NoZombie == \A i \in Inst : (pc[i] = "exited" /\ (Mounted(i) \/ i \in tmp)) => i \in cut

\* What was written through the mount is written back when a daemon is signalled
\* or unmounted: the process goes on until the last file is released.  Data is
\* lost with a session that fails or panics, and where an unmount overtakes the
\* RELEASE of a file that its user has closed already.
ExitLosesNothing == lost \subseteq fault \cup panicked \cup raced

\* The parent returns, whatever becomes of the child and of the mountpoint.
ParentReturns ==
    \A i \in Inst : parent[i] \in {"polling", "looked"} ~> parent[i] \in {"ok", "failed"}

\* A signal ends the daemon, unless the mount was busy when the watcher tried
\* its one unmount, or its files are in use again and again.
SignalStops ==
    \A i \in Inst : term[i] ~> (pc[i] = "exited" \/ watcher[i] = "failed" \/ []<>(user[i] # "none"))

\* What the kernel waits for is answered: an open that came before the session
\* ran, a write handed to the workers, and the RELEASE after a close.
Answered ==
    \A i \in Inst : user[i] \in {"queued", "write", "closed"} ~> user[i] \in {"none", "open", "dirty"}

\* "session.run() panic caught, mount cleaned up": no daemon that panics leaves
\* its mount in the table.
PanicCleansUp == \A i \in panicked : pc[i] = "exited" => ~Mounted(i)

\* "Skip the syscall when the mountpoint is already detached": a daemon whose
\* own mount is gone unmounts nothing when it exits.
SkipWhenDetached ==
    [][\A i \in Inst : (pc[i] = "dropped" /\ pc'[i] = "exited" /\ ~Mounted(i)) => table' = table]_vars
===============================================================================
