------------------------------ MODULE TaskPool ------------------------------
(***************************************************************************)
(* common/taskpool.{h,cc}: a fixed set of threads that run the jobs of a   *)
(* queue.  resolv_taskpool (system/resolv.cc) is the same loop.            *)
(*                                                                         *)
(* mtx_ protects the queue and the flag.  No thread holds it across two    *)
(* of the steps below: a worker releases it to run a job and in            *)
(* cond_.wait(), execute() notifies after it has released it.              *)
(***************************************************************************)
EXTENDS Naturals, Sequences, FiniteSets

CONSTANTS
    Workers,        \* the detached threads
    Callers,        \* the threads that call execute()
    Jobs,           \* the jobs, each executed once
    EndlessJobs     \* the jobs that never return

VARIABLES
    tasks,          \* tasks_
    shutdown,       \* "no", then is_shutdown_ is "set", then the pool is "gone"
    wpc, job,       \* each worker: where it is, the job it runs
    cpc,            \* each caller: "notify" between emplace() and notify_one()
    started         \* history: the jobs that were taken, in this order

poolvars == <<tasks, shutdown, wpc, job, cpc, started>>

\* "ready": it holds or will get mtx_ and look at the flag and the queue.
WorkerPCs == {"ready", "waiting", "running", "exited"}

TypeOK ==
    /\ tasks \in Seq(Jobs)
    /\ shutdown \in {"no", "set", "gone"}
    /\ wpc \in [Workers -> WorkerPCs]
    /\ job \in [Workers -> Seq(Jobs)]
    /\ \A w \in Workers : Len(job[w]) = IF wpc[w] = "running" THEN 1 ELSE 0
    /\ cpc \in [Callers -> {"idle", "notify"}]
    /\ started \in Seq(Jobs)

Init ==
    /\ tasks = <<>>
    /\ shutdown = "no"
    /\ wpc = [w \in Workers |-> "ready"]
    /\ job = [w \in Workers |-> <<>>]
    /\ cpc = [c \in Callers |-> "idle"]
    /\ started = <<>>

In(s, j)   == \E i \in DOMAIN s : s[i] = j
Executed(j) == In(tasks, j) \/ In(started, j)
At(pc)     == {w \in Workers : wpc[w] = pc}
Notifying  == {c \in Callers : cpc[c] = "notify"}
-----------------------------------------------------------------------------
\* execute(j) up to its notify_one().
Execute(c, j) ==
    /\ shutdown # "gone"
    /\ cpc[c] = "idle"
    /\ ~Executed(j)
    /\ tasks' = Append(tasks, j)
    /\ cpc' = [cpc EXCEPT ![c] = "notify"]
    /\ UNCHANGED <<shutdown, wpc, job, started>>

\* A mutation of NotifyOne: nobody is notified.
NotifyNobody(c) ==
    /\ shutdown # "gone"
    /\ cpc[c] = "notify"
    /\ cpc' = [cpc EXCEPT ![c] = "idle"]
    /\ UNCHANGED <<tasks, shutdown, wpc, job, started>>

\* Its cond_.notify_one(): one of the waiting threads wakes up, if any waits.
NotifyOne(c) ==
    /\ shutdown # "gone"
    /\ cpc[c] = "notify"
    /\ cpc' = [cpc EXCEPT ![c] = "idle"]
    /\ IF At("waiting") = {} THEN UNCHANGED wpc
       ELSE \E w \in At("waiting") : wpc' = [wpc EXCEPT ![w] = "ready"]
    /\ UNCHANGED <<tasks, shutdown, job, started>>

\* A worker at the head of its loop leaves it, takes a job or waits.
Exit(w) ==
    /\ wpc[w] = "ready" /\ shutdown = "set"
    /\ wpc' = [wpc EXCEPT ![w] = "exited"]
    /\ UNCHANGED <<tasks, shutdown, job, cpc, started>>

\* A mutation of Take: the job stays in the queue.
TakeCopy(w) ==
    /\ wpc[w] = "ready" /\ shutdown = "no" /\ tasks # <<>>
    /\ wpc' = [wpc EXCEPT ![w] = "running"]
    /\ job' = [job EXCEPT ![w] = <<Head(tasks)>>]
    /\ started' = Append(started, Head(tasks))
    /\ UNCHANGED <<tasks, shutdown, cpc>>

Take(w) ==
    /\ wpc[w] = "ready" /\ shutdown = "no" /\ tasks # <<>>
    /\ wpc' = [wpc EXCEPT ![w] = "running"]
    /\ job' = [job EXCEPT ![w] = <<Head(tasks)>>]
    /\ tasks' = Tail(tasks)
    /\ started' = Append(started, Head(tasks))
    /\ UNCHANGED <<shutdown, cpc>>

Wait(w) ==
    /\ wpc[w] = "ready" /\ shutdown = "no" /\ tasks = <<>>
    /\ wpc' = [wpc EXCEPT ![w] = "waiting"]
    /\ UNCHANGED <<tasks, shutdown, job, cpc, started>>

\* cond_.wait() may return for no reason.
WakeSpuriously(w) ==
    /\ shutdown # "gone"
    /\ wpc[w] = "waiting"
    /\ wpc' = [wpc EXCEPT ![w] = "ready"]
    /\ UNCHANGED <<tasks, shutdown, job, cpc, started>>

\* A mutation of Return: the worker keeps the job it has run.
ReturnKeeping(w) ==
    /\ shutdown # "gone"
    /\ wpc[w] = "running"
    /\ wpc' = [wpc EXCEPT ![w] = "ready"]
    /\ UNCHANGED <<tasks, shutdown, job, cpc, started>>

\* The job returns.
Return(w) ==
    /\ shutdown # "gone"
    /\ wpc[w] = "running"
    /\ Head(job[w]) \notin EndlessJobs
    /\ wpc' = [wpc EXCEPT ![w] = "ready"]
    /\ job' = [job EXCEPT ![w] = <<>>]
    /\ UNCHANGED <<tasks, shutdown, cpc, started>>

\* ~taskpool(), when the process ends: the flag, ...
SetShutdown ==
    /\ shutdown = "no"
    /\ shutdown' = "set"
    /\ UNCHANGED <<tasks, wpc, job, cpc, started>>

\* ... notify_all(), and meta_ is freed.  The workers are detached and go on
\* using it: of the program after that nothing can be said.
NotifyAll ==
    /\ shutdown = "set"
    /\ shutdown' = "gone"
    /\ wpc' = [w \in Workers |-> IF wpc[w] = "waiting" THEN "ready" ELSE wpc[w]]
    /\ UNCHANGED <<tasks, job, cpc, started>>
-----------------------------------------------------------------------------
Worker(w) == Exit(w) \/ Take(w) \/ Wait(w) \/ WakeSpuriously(w) \/ Return(w)
Caller(c) == NotifyOne(c) \/ \E j \in Jobs : Execute(c, j)
Next == \/ \E w \in Workers : Worker(w)
        \/ \E c \in Callers : Caller(c)
        \/ SetShutdown \/ NotifyAll

Spec == Init /\ [][Next]_poolvars
-----------------------------------------------------------------------------
(* Properties.                                                             *)

\* notify_one() after the unlock, one for each job: while jobs are queued, no
\* worker sleeps unless enough others, awake or about to be notified, will look
\* at the queue to take them all.
NoSleepOnWork ==
    shutdown = "no" /\ At("waiting") # {} =>
        Len(tasks) <= Cardinality(At("ready")) + Cardinality(Notifying)

\* The pool as an abstract queue: jobs are started once each, in the order of
\* the calls of execute().
Fifo == INSTANCE TaskFifo WITH FifoTasks <- Jobs, queue <- tasks, done <- started
JobsStartInOrder == Fifo!FifoSpec
=============================================================================
