--------------------------- MODULE ThreadPool_proofs ---------------------------
(***************************************************************************)
(* For every set of workers and of jobs, and whichever of them are stuck or   *)
(* panic: no job of the pool is lost or run twice, and Drop returns only when *)
(* all of them have run.  The inductive invariant is TypeOK /\ Accounted /\   *)
(* PoolInv; Accounted is what moves with the jobs, PoolInv what keeps the     *)
(* channel closed and empty once a worker has left.                          *)
(***************************************************************************)
EXTENDS ThreadPool, TLAPS

Elems(q) == {q[i] : i \in 1..Len(q)}
NoDup(q) == \A i, k \in 1..Len(q) : q[i] = q[k] => i = k

IInv == TypeOK /\ Accounted /\ PoolInv

\* What sending a job does to the channel's content (execute()).
LEMMA AppendElems ==
    ASSUME NEW q \in Seq(Jobs), NEW j \in Jobs, j \notin Elems(q), NoDup(q)
    PROVE  /\ Append(q, j) \in Seq(Jobs)
           /\ Elems(Append(q, j)) = Elems(q) \cup {j}
           /\ NoDup(Append(q, j))
<1>1. /\ Append(q, j) \in Seq(Jobs)
      /\ Len(Append(q, j)) = Len(q) + 1
      /\ \A i \in 1..Len(q) : Append(q, j)[i] = q[i]
      /\ Append(q, j)[Len(q) + 1] = j
      /\ Len(q) \in Nat
  OBVIOUS
<1>2. Elems(Append(q, j)) = Elems(q) \cup {j}
  <2>1. ASSUME NEW e \in Elems(Append(q, j)) PROVE e \in Elems(q) \cup {j}
    <3>1. PICK i \in 1..(Len(q) + 1) : e = Append(q, j)[i]
      BY <1>1 DEF Elems
    <3>2. CASE i = Len(q) + 1
      BY <3>1, <3>2, <1>1
    <3>3. CASE i \in 1..Len(q)
      BY <3>1, <3>3, <1>1 DEF Elems
    <3> QED BY <3>2, <3>3, <1>1
  <2>2. ASSUME NEW e \in Elems(q) PROVE e \in Elems(Append(q, j))
    <3>1. PICK i \in 1..Len(q) : e = q[i]
      BY DEF Elems
    <3>2. i \in 1..Len(Append(q, j)) /\ e = Append(q, j)[i]
      BY <3>1, <1>1
    <3> QED BY <3>2 DEF Elems
  <2>3. j \in Elems(Append(q, j))
    <3>1. Len(q) + 1 \in 1..Len(Append(q, j))
      BY <1>1
    <3> QED BY <1>1, <3>1 DEF Elems
  <2> QED BY <2>1, <2>2, <2>3
<1>3. NoDup(Append(q, j))
  <2>1. SUFFICES ASSUME NEW i \in 1..(Len(q) + 1), NEW k \in 1..(Len(q) + 1),
                        Append(q, j)[i] = Append(q, j)[k]
                 PROVE  i = k
    BY <1>1 DEF NoDup
  <2>2. \A n \in 1..Len(q) : q[n] # j
    BY DEF Elems
  <2> QED BY <2>1, <2>2, <1>1 DEF NoDup
<1> QED BY <1>1, <1>2, <1>3

\* What receiving a job does to it (recv()).
LEMMA TailElems ==
    ASSUME NEW q \in Seq(Jobs), q # << >>, NoDup(q)
    PROVE  /\ Tail(q) \in Seq(Jobs) /\ Head(q) \in Jobs
           /\ Elems(q) = Elems(Tail(q)) \cup {Head(q)}
           /\ Head(q) \notin Elems(Tail(q))
           /\ NoDup(Tail(q))
<1>1. /\ Tail(q) \in Seq(Jobs) /\ Head(q) \in Jobs
      /\ Len(q) \in Nat /\ Len(q) >= 1
      /\ Len(Tail(q)) = Len(q) - 1
      /\ \A i \in 1..(Len(q) - 1) : Tail(q)[i] = q[i + 1]
      /\ Head(q) = q[1]
  OBVIOUS
<1>2. Elems(q) = Elems(Tail(q)) \cup {Head(q)}
  <2>1. ASSUME NEW e \in Elems(q) PROVE e \in Elems(Tail(q)) \cup {Head(q)}
    <3>1. PICK i \in 1..Len(q) : e = q[i]
      BY DEF Elems
    <3>2. CASE i = 1
      BY <3>1, <3>2, <1>1
    <3>3. CASE i # 1
      <4>1. i - 1 \in 1..Len(Tail(q)) /\ Tail(q)[i - 1] = q[i]
        BY <3>3, <1>1
      <4> QED BY <3>1, <4>1 DEF Elems
    <3> QED BY <3>2, <3>3
  <2>2. ASSUME NEW e \in Elems(Tail(q)) PROVE e \in Elems(q)
    <3>1. PICK i \in 1..Len(Tail(q)) : e = Tail(q)[i]
      BY DEF Elems
    <3>2. i + 1 \in 1..Len(q) /\ e = q[i + 1]
      BY <3>1, <1>1
    <3> QED BY <3>2 DEF Elems
  <2>3. Head(q) \in Elems(q)
    BY <1>1 DEF Elems
  <2> QED BY <2>1, <2>2, <2>3
<1>3. Head(q) \notin Elems(Tail(q))
  <2>1. SUFFICES ASSUME NEW i \in 1..Len(Tail(q)), Tail(q)[i] = Head(q) PROVE FALSE
    BY DEF Elems
  <2>2. i + 1 \in 1..Len(q) /\ q[i + 1] = q[1] /\ 1 \in 1..Len(q)
    BY <2>1, <1>1
  <2> QED BY <2>2 DEF NoDup
<1>4. NoDup(Tail(q))
  <2>1. SUFFICES ASSUME NEW i \in 1..Len(Tail(q)), NEW k \in 1..Len(Tail(q)),
                        Tail(q)[i] = Tail(q)[k]
                 PROVE  i = k
    BY DEF NoDup
  <2>2. /\ i + 1 \in 1..Len(q) /\ k + 1 \in 1..Len(q)
        /\ q[i + 1] = q[k + 1]
    BY <2>1, <1>1
  <2> QED BY <2>2 DEF NoDup
<1> QED BY <1>1, <1>2, <1>3, <1>4

\* The jobs in the workers' hands.
Held(p, b) == {b[w] : w \in {v \in Workers : p[v] = "run"}}

LEMMA AccountedDef ==
    Accounted <=>
        /\ submitted = Elems(queue) \cup Held(pc, job) \cup ran
        /\ NoDup(queue)
        /\ \A v, w \in Workers : pc[v] = "run" /\ pc[w] = "run" /\ job[v] = job[w] => v = w
        /\ Elems(queue) \cap ran = {}
        /\ \A w \in Workers : pc[w] = "run" => job[w] \notin Elems(queue) \cup ran
  BY DEF Accounted, Elems, NoDup, Held, InQueue

\* ThreadPool::new establishes the invariant.
LEMMA InitIInv == Init => IInv
<1> SUFFICES ASSUME Init PROVE IInv
  OBVIOUS
<1>1. TypeOK
  BY PoolAssumption DEF Init, TypeOK
<1>2. Accounted
  BY DEF Init, Accounted, InQueue
<1>3. PoolInv
  BY PoolAssumption DEF Init, PoolInv
<1> QED BY <1>1, <1>2, <1>3 DEF IInv

\* A worker that ends its job, by returning or by a caught panic, moves it to ran.
LEMMA JobEnds ==
    ASSUME IInv, NEW w \in Workers, pc[w] = "run",
           ran' = ran \cup {job[w]},
           job' = [job EXCEPT ![w] = None],
           pc' = [pc EXCEPT ![w] = "lock"],
           UNCHANGED <<submitted, tx, queue, lock, owner, alive>>
    PROVE  IInv'
<1> USE DEF IInv
<1>1. TypeOK'
  BY DEF TypeOK, PoolInv
<1>2. Accounted'
  <2> USE DEF TypeOK
  <2>1. Held(pc', job') = Held(pc, job) \ {job[w]}
    BY AccountedDef DEF Held
  <2>2. job[w] \in Held(pc, job)
    BY DEF Held
  <2>3. Elems(queue') = Elems(queue) /\ NoDup(queue')
    BY AccountedDef DEF Elems, NoDup
  <2>4. \A u \in Workers : pc'[u] = "run" => pc[u] = "run" /\ job'[u] = job[u] /\ u # w
    OBVIOUS
  <2>5. /\ submitted' = Elems(queue)' \cup Held(pc, job)' \cup ran'
        /\ NoDup(queue)'
        /\ \A v, u \in Workers : pc'[v] = "run" /\ pc'[u] = "run" /\ job'[v] = job'[u] => v = u
        /\ Elems(queue)' \cap ran' = {}
        /\ \A u \in Workers : pc'[u] = "run" => job'[u] \notin Elems(queue)' \cup ran'
    BY AccountedDef, <2>1, <2>2, <2>3, <2>4
  <2> QED BY <2>5 DEF Accounted, Elems, NoDup, Held, InQueue
<1>3. PoolInv'
  BY DEF TypeOK, PoolInv
<1> QED BY <1>1, <1>2, <1>3

\* Every step of the pool keeps the invariant.
LEMMA StepIInv == IInv /\ [Next]_vars => IInv'
<1> SUFFICES ASSUME IInv, [Next]_vars PROVE IInv'
  OBVIOUS
<1>0. TypeOK /\ Accounted /\ PoolInv
  BY DEF IInv
<1>acc. /\ submitted = Elems(queue) \cup Held(pc, job) \cup ran
        /\ NoDup(queue)
        /\ \A v, w \in Workers : pc[v] = "run" /\ pc[w] = "run" /\ job[v] = job[w] => v = w
        /\ Elems(queue) \cap ran = {}
        /\ \A w \in Workers : pc[w] = "run" => job[w] \notin Elems(queue) \cup ran
  BY <1>0, AccountedDef
<1>1. ASSUME NEW j \in Jobs, Execute(j) PROVE IInv'
  <2>1. j \notin Elems(queue) /\ j \notin Held(pc, job) /\ j \notin ran
    BY <1>1, <1>acc DEF Execute
  <2>2. queue' \in Seq(Jobs) /\ Elems(queue') = Elems(queue) \cup {j} /\ NoDup(queue')
    <3>1. PICK q \in Seq(Jobs) : q = queue
      BY <1>0 DEF TypeOK
    <3>2. queue' = Append(q, j) /\ j \notin Elems(q) /\ NoDup(q)
      BY <3>1, <2>1, <1>1, <1>acc DEF Execute
    <3>3. /\ Append(q, j) \in Seq(Jobs)
          /\ Elems(Append(q, j)) = Elems(q) \cup {j}
          /\ NoDup(Append(q, j))
      BY <3>2, AppendElems
    <3> QED BY <3>1, <3>2, <3>3
  <2>3. TypeOK'
    BY <1>0, <1>1, <2>2 DEF TypeOK, Execute
  <2>4. \A w \in Workers : pc[w] = "run" => job[w] # j
    BY <2>1 DEF Held
  <2>5. Accounted'
    <3>1. Held(pc', job') = Held(pc, job)
      BY <1>1 DEF Execute
    <3>2. /\ submitted' = Elems(queue') \cup Held(pc', job') \cup ran'
          /\ NoDup(queue')
          /\ \A v, w \in Workers : pc'[v] = "run" /\ pc'[w] = "run" /\ job'[v] = job'[w] => v = w
          /\ Elems(queue') \cap ran' = {}
          /\ \A w \in Workers : pc'[w] = "run" => job'[w] \notin Elems(queue') \cup ran'
      BY <1>1, <1>acc, <2>1, <2>2, <2>4, <3>1 DEF Execute
    <3> QED BY <3>2 DEF Accounted, Elems, NoDup, Held, InQueue
  <2>6. PoolInv'
    BY <1>0, <1>1 DEF PoolInv, Execute
  <2> QED BY <2>3, <2>5, <2>6 DEF IInv
<1>2. ASSUME NEW w \in Workers, Lock(w) PROVE IInv'
  <2>1. TypeOK'
    BY <1>0, <1>2 DEF TypeOK, Lock
  <2>2. Accounted'
    <3>1. \A v \in Workers : pc'[v] = "run" <=> pc[v] = "run"
      BY <1>0, <1>2 DEF TypeOK, Lock
    <3>2. Held(pc', job') = Held(pc, job) /\ queue' = queue /\ ran' = ran /\ job' = job
          /\ submitted' = submitted
      BY <3>1, <1>2 DEF Held, Lock
    <3>3. /\ submitted' = Elems(queue') \cup Held(pc', job') \cup ran'
          /\ NoDup(queue')
          /\ \A v, u \in Workers : pc'[v] = "run" /\ pc'[u] = "run" /\ job'[v] = job'[u] => v = u
          /\ Elems(queue') \cap ran' = {}
          /\ \A u \in Workers : pc'[u] = "run" => job'[u] \notin Elems(queue') \cup ran'
      BY <3>1, <3>2, <1>acc
    <3> QED BY <3>3 DEF Accounted, Elems, NoDup, Held, InQueue
  <2>3. PoolInv'
    BY <1>0, <1>2, PoolAssumption DEF TypeOK, PoolInv, Lock
  <2> QED BY <2>1, <2>2, <2>3 DEF IInv
<1>3. ASSUME NEW w \in Workers, Recv(w) PROVE IInv'
  <2>1. /\ queue' \in Seq(Jobs) /\ Head(queue) \in Jobs
        /\ Elems(queue) = Elems(queue') \cup {Head(queue)}
        /\ Head(queue) \notin Elems(queue')
        /\ NoDup(queue')
    <3>1. PICK q \in Seq(Jobs) : q = queue
      BY <1>0 DEF TypeOK
    <3>2. queue' = Tail(q) /\ q # << >> /\ NoDup(q)
      BY <3>1, <1>3, <1>acc DEF Recv
    <3>3. /\ Tail(q) \in Seq(Jobs) /\ Head(q) \in Jobs
          /\ Elems(q) = Elems(Tail(q)) \cup {Head(q)}
          /\ Head(q) \notin Elems(Tail(q))
          /\ NoDup(Tail(q))
      BY <3>2, TailElems
    <3> QED BY <3>1, <3>2, <3>3
  <2>2. TypeOK'
    BY <1>0, <1>3, <2>1 DEF TypeOK, Recv
  <2>3. Accounted'
    <3>1. pc[w] # "run" /\ pc'[w] = "run" /\ job'[w] = Head(queue)
      BY <1>0, <1>3 DEF TypeOK, Recv
    <3>2. \A v \in Workers : v # w => pc'[v] = pc[v] /\ job'[v] = job[v]
      BY <1>0, <1>3 DEF TypeOK, Recv
    <3>3. Held(pc', job') = Held(pc, job) \cup {Head(queue)}
      BY <3>1, <3>2 DEF Held
    <3>4. \A v \in Workers : pc[v] = "run" => job[v] # Head(queue)
      BY <1>acc, <2>1
    <3>5. Head(queue) \notin ran
      BY <1>acc, <2>1
    <3>6. ran' = ran /\ submitted' = submitted
      BY <1>3 DEF Recv
    <3>7. /\ submitted' = Elems(queue') \cup Held(pc', job') \cup ran'
          /\ NoDup(queue')
          /\ \A v, u \in Workers : pc'[v] = "run" /\ pc'[u] = "run" /\ job'[v] = job'[u] => v = u
          /\ Elems(queue') \cap ran' = {}
      BY <1>acc, <2>1, <3>1, <3>2, <3>3, <3>4, <3>5, <3>6
    <3>8. \A u \in Workers : pc'[u] = "run" => job'[u] \notin Elems(queue') \cup ran'
      BY <1>acc, <2>1, <3>1, <3>2, <3>5, <3>6
    <3> QED BY <3>7, <3>8 DEF Accounted, Elems, NoDup, Held, InQueue
  <2>4. PoolInv'
    BY <1>0, <1>3, <2>1, PoolAssumption DEF TypeOK, PoolInv, Recv
  <2> QED BY <2>2, <2>3, <2>4 DEF IInv
<1>4. ASSUME NEW w \in Workers, RecvClosed(w) PROVE IInv'
  <2>1. TypeOK'
    BY <1>0, <1>4 DEF TypeOK, RecvClosed
  <2>2. Accounted'
    <3>1. \A v \in Workers : pc'[v] = "run" <=> pc[v] = "run"
      BY <1>0, <1>4 DEF TypeOK, RecvClosed
    <3>2. Held(pc', job') = Held(pc, job) /\ queue' = queue /\ ran' = ran /\ job' = job
          /\ submitted' = submitted
      BY <3>1, <1>4 DEF Held, RecvClosed
    <3>3. /\ submitted' = Elems(queue') \cup Held(pc', job') \cup ran'
          /\ NoDup(queue')
          /\ \A v, u \in Workers : pc'[v] = "run" /\ pc'[u] = "run" /\ job'[v] = job'[u] => v = u
          /\ Elems(queue') \cap ran' = {}
          /\ \A u \in Workers : pc'[u] = "run" => job'[u] \notin Elems(queue') \cup ran'
      BY <3>1, <3>2, <1>acc
    <3> QED BY <3>3 DEF Accounted, Elems, NoDup, Held, InQueue
  <2>3. PoolInv'
    BY <1>0, <1>4, PoolAssumption DEF TypeOK, PoolInv, RecvClosed
  <2> QED BY <2>1, <2>2, <2>3 DEF IInv
<1>5. ASSUME NEW w \in Workers, Finish(w) PROVE IInv'
  BY <1>5, JobEnds DEF Finish
<1>6. ASSUME NEW w \in Workers, Panic(w) PROVE IInv'
  <2>1. CASE Unwind
    BY <1>6, <2>1, JobEnds DEF Panic
  <2>2. CASE ~Unwind
    <3>1. /\ UNCHANGED <<submitted, tx, queue, lock, pc, job, ran, owner>>
          /\ alive' = FALSE
      BY <1>6, <2>2 DEF Panic
    <3>2. TypeOK'
      <4>1. alive' \in BOOLEAN
        BY <3>1
      <4> QED BY <1>0, <3>1, <4>1 DEF TypeOK
    <3>3. Accounted' /\ PoolInv'
      BY <1>0, <3>1 DEF Accounted, InQueue, PoolInv
    <3> QED BY <3>2, <3>3 DEF IInv
  <2> QED BY <2>1, <2>2
<1>7. ASSUME CloseChannel PROVE IInv'
  BY <1>0, <1>7 DEF CloseChannel, IInv, TypeOK, Accounted, InQueue, PoolInv
<1>8. ASSUME JoinAll PROVE IInv'
  BY <1>0, <1>8 DEF JoinAll, IInv, TypeOK, Accounted, InQueue, PoolInv
<1>9. ASSUME UNCHANGED vars PROVE IInv'
  BY <1>0, <1>9 DEF vars, IInv, TypeOK, Accounted, InQueue, PoolInv
<1>10. CASE Next
  BY <1>10, <1>1, <1>2, <1>3, <1>4, <1>5, <1>6, <1>7, <1>8 DEF Next, Worker
<1> QED BY <1>9, <1>10

\* The inductive invariant holds in every state of the pool.
THEOREM PoolInvariance == Spec => []IInv
  BY InitIInv, StepIInv, PTL DEF Spec

\* Type correctness of the pool of pool.rs.
THEOREM PoolTypes == Spec => []TypeOK
<1>1. IInv => TypeOK
  BY DEF IInv
<1> QED BY <1>1, PoolInvariance, PTL

\* However many workers race for the receiver, no submitted job is lost and none
\* is run twice (spawn_worker's loop).
THEOREM JobsAccounted == Spec => []Accounted
<1>1. IInv => Accounted
  BY DEF IInv
<1> QED BY <1>1, PoolInvariance, PTL

\* When Drop has returned, every job ever submitted has run and every worker is
\* gone (ThreadPool::drop).
THEOREM DropIsClean == Spec => []DropDrains
<1>1. IInv => DropDrains
  <2> SUFFICES ASSUME IInv, owner = "dropped"
               PROVE  ran = submitted /\ \A w \in Workers : pc[w] = "exited"
    BY DEF DropDrains
  <2>1. \A w \in Workers : pc[w] = "exited"
    BY DEF IInv, PoolInv
  <2>2. queue = << >>
    BY <2>1, PoolAssumption DEF IInv, PoolInv
  <2>3. InQueue = {} /\ {job[w] : w \in {v \in Workers : pc[v] = "run"}} = {}
    BY <2>1, <2>2 DEF InQueue
  <2> QED BY <2>1, <2>3 DEF IInv, Accounted
<1> QED BY <1>1, PoolInvariance, PTL
===============================================================================
