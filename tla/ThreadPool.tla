------------------------------ MODULE ThreadPool ------------------------------
(***************************************************************************)
(* The worker pool of crates/rspacefs-fuse/src/pool.rs, which runs the       *)
(* blocking `read` and `write` handlers off the FUSE dispatch thread.  The    *)
(* workers share one mpsc Receiver behind a Mutex; the pool's owner submits   *)
(* closures and, when it is dropped, closes the channel and joins every      *)
(* worker.                                                                   *)
(***************************************************************************)
EXTENDS Integers, Sequences, FiniteSets

CONSTANTS
    Workers,   \* the worker threads
    Jobs,      \* the closures that may be submitted, each at most once
    Stuck,     \* jobs whose I/O may never come back
    Panicky,   \* jobs that may panic
    Unwind,    \* the panic strategy of the build: unwind, or abort
    None       \* no worker, no job

ASSUME PoolAssumption ==
    /\ Workers # {}                    \* `size.max(1)` in ThreadPool::new
    /\ Stuck \subseteq Jobs /\ Panicky \subseteq Jobs
    /\ Unwind \in BOOLEAN
    /\ None \notin Workers \cup Jobs

VARIABLES
    submitted, \* the jobs handed to execute() so far
    tx,        \* the Sender: "open", or "closed" once Drop has taken it
    queue,     \* the channel
    lock,      \* the worker that holds the Receiver's mutex
    pc,        \* each worker: "lock", "recv", "run" or "exited"
    job,       \* the closure each worker has received
    ran,       \* the jobs that have run to their end or have panicked
    owner,     \* the owner: "live", "joining" (inside Drop) or "dropped"
    alive      \* the process has not aborted

vars == <<submitted, tx, queue, lock, pc, job, ran, owner, alive>>

InQueue == {queue[i] : i \in 1..Len(queue)}

-----------------------------------------------------------------------------
\* ThreadPool::new
Init ==
    /\ submitted = {} /\ ran = {}
    /\ tx = "open" /\ queue = << >>
    /\ lock = None
    /\ pc = [w \in Workers |-> "lock"]
    /\ job = [w \in Workers |-> None]
    /\ owner = "live" /\ alive = TRUE

\* execute(): the channel is unbounded, so send never waits.  `&self` keeps it
\* from overlapping with Drop.
Execute(j) ==
    /\ owner = "live" /\ tx = "open"
    /\ j \notin submitted
    /\ submitted' = submitted \cup {j}
    /\ queue' = Append(queue, j)
    /\ UNCHANGED <<tx, lock, pc, job, ran, owner, alive>>

\* Mutant: the guard lives until the job has ended.
LockAcrossJob(w) ==
    /\ pc[w] = "lock" /\ lock = None
    /\ \A v \in Workers : pc[v] # "run"
    /\ lock' = w
    /\ pc' = [pc EXCEPT ![w] = "recv"]
    /\ UNCHANGED <<submitted, tx, queue, job, ran, owner, alive>>

\* rx.lock(): a poisoned mutex is recovered, so a free lock is always taken.
Lock(w) ==
    /\ pc[w] = "lock" /\ lock = None
    /\ lock' = w
    /\ pc' = [pc EXCEPT ![w] = "recv"]
    /\ UNCHANGED <<submitted, tx, queue, job, ran, owner, alive>>

\* recv() hands over the oldest job, and the guard is dropped before it runs.
Recv(w) ==
    /\ pc[w] = "recv" /\ queue # << >>
    /\ job' = [job EXCEPT ![w] = Head(queue)]
    /\ queue' = Tail(queue)
    /\ lock' = None
    /\ pc' = [pc EXCEPT ![w] = "run"]
    /\ UNCHANGED <<submitted, tx, ran, owner, alive>>

\* Mutant: the worker leaves with the lock held.
RecvClosedLocked(w) ==
    /\ pc[w] = "recv" /\ queue = << >> /\ tx = "closed"
    /\ pc' = [pc EXCEPT ![w] = "exited"]
    /\ UNCHANGED <<submitted, tx, queue, lock, job, ran, owner, alive>>

\* recv() fails only when the sender is gone and the channel is empty.
RecvClosed(w) ==
    /\ pc[w] = "recv" /\ queue = << >> /\ tx = "closed"
    /\ lock' = None
    /\ pc' = [pc EXCEPT ![w] = "exited"]
    /\ UNCHANGED <<submitted, tx, queue, job, ran, owner, alive>>

\* Mutant: the job goes back to the channel after it has run.
FinishAgain(w) ==
    /\ pc[w] = "run"
    /\ ran' = ran \cup {job[w]}
    /\ queue' = Append(queue, job[w])
    /\ job' = [job EXCEPT ![w] = None]
    /\ pc' = [pc EXCEPT ![w] = "lock"]
    /\ UNCHANGED <<submitted, tx, lock, owner, alive>>

\* The job returns.  (A Stuck job may also never get here.)
Finish(w) ==
    /\ pc[w] = "run"
    /\ ran' = ran \cup {job[w]}
    /\ job' = [job EXCEPT ![w] = None]
    /\ pc' = [pc EXCEPT ![w] = "lock"]
    /\ UNCHANGED <<submitted, tx, queue, lock, owner, alive>>

\* The job panics.  Every job of the daemon runs under run_protected: where
\* panics unwind, catch_unwind ends the job there and the worker goes on; where
\* they abort, the process is gone.
Panic(w) ==
    /\ pc[w] = "run" /\ job[w] \in Panicky
    /\ IF Unwind
       THEN /\ ran' = ran \cup {job[w]}
            /\ job' = [job EXCEPT ![w] = None]
            /\ pc' = [pc EXCEPT ![w] = "lock"]
            /\ UNCHANGED <<submitted, tx, queue, lock, owner, alive>>
       ELSE /\ alive' = FALSE
            /\ UNCHANGED <<submitted, tx, queue, lock, pc, job, ran, owner>>

\* Drop: the sender goes first ...
CloseChannel ==
    /\ owner = "live"
    /\ owner' = "joining" /\ tx' = "closed"
    /\ UNCHANGED <<submitted, queue, lock, pc, job, ran, alive>>

\* Mutant: only one worker is waited for.
JoinOne ==
    /\ owner = "joining"
    /\ \E w \in Workers : pc[w] = "exited"
    /\ owner' = "dropped"
    /\ UNCHANGED <<submitted, tx, queue, lock, pc, job, ran, alive>>

\* ... and join() returns for one worker after the other, the last one here.
JoinAll ==
    /\ owner = "joining"
    /\ \A w \in Workers : pc[w] = "exited"
    /\ owner' = "dropped"
    /\ UNCHANGED <<submitted, tx, queue, lock, pc, job, ran, alive>>

-----------------------------------------------------------------------------
Worker(w) == Lock(w) \/ Recv(w) \/ RecvClosed(w) \/ Finish(w) \/ Panic(w)

Next ==
    /\ alive
    /\ \/ \E j \in Jobs : Execute(j)
       \/ \E w \in Workers : Worker(w)
       \/ CloseChannel
       \/ JoinAll

Spec == Init /\ [][Next]_vars

\* The operating system runs every thread that can run; a stuck job's own I/O
\* is the only step that may be withheld for ever.
Scheduled(w) ==
    alive /\ (Lock(w) \/ Recv(w) \/ RecvClosed(w) \/ (job[w] \notin Stuck /\ (Finish(w) \/ Panic(w))))

FairSpec ==
    /\ Spec
    /\ \A w \in Workers : WF_vars(Scheduled(w))
    /\ WF_vars(alive /\ JoinAll)

-----------------------------------------------------------------------------
\* Type correctness of the pool's state.
TypeOK ==
    /\ submitted \subseteq Jobs /\ ran \subseteq Jobs
    /\ tx \in {"open", "closed"}
    /\ queue \in Seq(Jobs)
    /\ lock \in Workers \cup {None}
    /\ pc \in [Workers -> {"lock", "recv", "run", "exited"}]
    /\ job \in [Workers -> Jobs \cup {None}]
    /\ owner \in {"live", "joining", "dropped"}
    /\ alive \in BOOLEAN

\* A job is in one place only: waiting once in the channel, in the hands of one
\* worker, or run.  So no job is run twice and none is dropped on the floor,
\* whichever way the workers race for the receiver.
Accounted ==
    /\ submitted = InQueue \cup {job[w] : w \in {v \in Workers : pc[v] = "run"}} \cup ran
    /\ \A i, k \in 1..Len(queue) : queue[i] = queue[k] => i = k
    /\ \A v, w \in Workers : pc[v] = "run" /\ pc[w] = "run" /\ job[v] = job[w] => v = w
    /\ InQueue \cap ran = {}
    /\ \A w \in Workers : pc[w] = "run" => job[w] \notin InQueue \cup ran

\* Drop returns only when every job ever accepted has run and no worker is left
\* to run another: "a clean unmount drains any in-flight jobs".
DropDrains ==
    owner = "dropped" => ran = submitted /\ \A w \in Workers : pc[w] = "exited"

\* What makes DropDrains inductive: the mutex is held exactly by the worker that
\* is inside recv(), and a worker leaves only once the channel is closed and
\* empty, which it then stays.
PoolInv ==
    /\ \A w \in Workers : pc[w] = "recv" <=> lock = w
    /\ \A w \in Workers : pc[w] = "run" => job[w] \in Jobs
    /\ owner = "live" <=> tx = "open"
    /\ (\E w \in Workers : pc[w] = "exited") => tx = "closed" /\ queue = << >>
    /\ owner = "dropped" => \A w \in Workers : pc[w] = "exited"

\* While fewer jobs are stuck than there are workers, every other job runs: the
\* lock is held across recv() only, so a read that never comes back costs one
\* worker and stalls nobody.
NoStall ==
    Cardinality(Stuck) < Cardinality(Workers) =>
        \A j \in Jobs \ Stuck : j \in submitted ~> j \in ran

\* Drop comes back when no stuck job has been accepted: no worker is left
\* waiting for a lock or for a channel that nobody will serve.
DropReturns == owner = "joining" /\ submitted \cap Stuck = {} ~> owner = "dropped"
===============================================================================
