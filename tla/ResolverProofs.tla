--------------------------- MODULE ResolverProofs ---------------------------
(***************************************************************************)
(* Theorems about Resolver, for any sets of requests, threads and pipes.   *)
(* Its two pools are shown to be TaskPools, so that what TaskPoolProofs    *)
(* says of one pool holds of both while they share threads.  At the end,   *)
(* theorems about the addresses that are resolved, for any bytes.          *)
(***************************************************************************)
EXTENDS Resolver, Addr, FiniteSetTheorems, SequenceTheorems, TLAPS

RPP == INSTANCE TaskPoolProofs WITH
    Workers <- ResolvWorkers, Callers <- Requests, Jobs <- Requests,
    EndlessJobs <- {}, tasks <- rtasks, shutdown <- rshutdown, wpc <- rwpc,
    job <- rjob, cpc <- rcpc, started <- rstarted

TPP == INSTANCE TaskPoolProofs WITH
    Workers <- PoolWorkers, Callers <- ResolvWorkers \cup {Loop},
    Jobs <- AsyncRequests \cup PipeJobs, EndlessJobs <- PipeJobs,
    tasks <- ttasks, shutdown <- tshutdown, wpc <- twpc, job <- tjob,
    cpc <- tcpc, started <- tstarted
-----------------------------------------------------------------------------
(* Every step of Resolver is a step of each pool, or none of its.          *)

LEMMA ResolvPoolStep == [Next]_vars => [RPP!Next]_RPP!poolvars
<1> SUFFICES ASSUME [Next]_vars PROVE RPP!Next \/ UNCHANGED rvars
  BY DEF rvars, RPP!poolvars
<1> USE DEF RPP!Next, RPP!Worker, RPP!Caller
<1>1. ASSUME NEW r \in Requests, Create(r) PROVE RPP!Next
  <2>1. RPP!Execute(r, r)
    BY <1>1 DEF Create, RP!Execute, RPP!Execute, RP!Executed, RPP!Executed, RP!In, RPP!In
  <2> QED  BY <2>1
<1>2. ASSUME NEW r \in Requests, Notify(r) PROVE RPP!Next
  <2>1. RPP!NotifyOne(r)
    BY <1>2 DEF Notify, RP!NotifyOne, RPP!NotifyOne, RP!At, RPP!At
  <2> QED  BY <2>1
<1>3. ASSUME NEW r \in Requests, SyncReturn(r) PROVE UNCHANGED rvars
  BY <1>3 DEF SyncReturn
<1>4. ASSUME NEW w \in ResolvWorkers, Take(w) PROVE RPP!Next
  <2>1. RPP!Take(w)
    BY <1>4 DEF Take, RP!Take, RPP!Take
  <2> QED  BY <2>1
<1>5. ASSUME NEW w \in ResolvWorkers, Return(w) PROVE RPP!Next
  <2>1. RPP!Return(w)
    BY <1>5 DEF Return, RP!Return, RPP!Return
  <2> QED  BY <2>1
<1>6. ASSUME NEW w \in ResolvWorkers, ResolverIdles(w) PROVE RPP!Next
  <2>1. RPP!Wait(w) \/ RPP!WakeSpuriously(w) \/ RPP!Exit(w)
    BY <1>6 DEF ResolverIdles, RP!Wait, RPP!Wait, RP!WakeSpuriously, RPP!WakeSpuriously,
       RP!Exit, RPP!Exit
  <2> QED  BY <2>1
<1>7. ASSUME NEW w \in ResolvWorkers, Resolv(w) \/ Signal(w) \/ ExecuteCallback(w)
      PROVE  UNCHANGED rvars
  BY <1>7 DEF Resolv, Signal, ExecuteCallback
<1>8. ASSUME NEW c, PoolNotify(c) PROVE UNCHANGED rvars
  BY <1>8 DEF PoolNotify
<1>9. ASSUME NEW p \in PipeJobs, PipeEvent(p) PROVE UNCHANGED rvars
  BY <1>9 DEF PipeEvent
<1>10. ASSUME NEW v \in PoolWorkers, PoolTakes(v) \/ RunCallback(v) PROVE UNCHANGED rvars
  BY <1>10 DEF PoolTakes, RunCallback
<1>11. CASE ProcessEnds
  <2>1. RPP!SetShutdown \/ RPP!NotifyAll
    BY <1>11 DEF ProcessEnds, RP!SetShutdown, RPP!SetShutdown, RP!NotifyAll, RPP!NotifyAll
  <2> QED  BY <2>1
<1>12. CASE UNCHANGED vars
  BY <1>12 DEF vars
<1> QED
  BY <1>1, <1>2, <1>3, <1>4, <1>5, <1>6, <1>7, <1>8, <1>9, <1>10, <1>11, <1>12
  DEF Next, Caller, Resolves

LEMMA TaskPoolStep == [Next]_vars => [TPP!Next]_TPP!poolvars
<1> SUFFICES ASSUME [Next]_vars PROVE TPP!Next \/ UNCHANGED tvars
  BY DEF tvars, TPP!poolvars
<1> USE DEF TPP!Next, TPP!Worker, TPP!Caller
<1>1. ASSUME NEW r \in Requests, Create(r) \/ Notify(r) \/ SyncReturn(r) PROVE UNCHANGED tvars
  BY <1>1 DEF Create, Notify, SyncReturn
<1>2. ASSUME NEW w \in ResolvWorkers,
             Take(w) \/ Resolv(w) \/ Signal(w) \/ Return(w) \/ ResolverIdles(w)
      PROVE  UNCHANGED tvars
  BY <1>2 DEF Take, Resolv, Signal, Return, ResolverIdles
<1>3. ASSUME NEW w \in ResolvWorkers, ExecuteCallback(w) PROVE TPP!Next
  <2>1. TPP!Execute(w, Head(rjob[w])) /\ Head(rjob[w]) \in AsyncRequests
    BY <1>3 DEF ExecuteCallback, TP!Execute, TPP!Execute, TP!Executed, TPP!Executed,
       TP!In, TPP!In
  <2> QED  BY <2>1
<1>4. ASSUME NEW c \in ResolvWorkers \cup {Loop}, PoolNotify(c) PROVE TPP!Next
  <2>1. TPP!NotifyOne(c)
    BY <1>4 DEF PoolNotify, TP!NotifyOne, TPP!NotifyOne, TP!At, TPP!At
  <2> QED  BY <2>1
<1>5. ASSUME NEW p \in PipeJobs, PipeEvent(p) PROVE TPP!Next
  <2>1. TPP!Execute(Loop, p)
    BY <1>5 DEF PipeEvent, TP!Execute, TPP!Execute, TP!Executed, TPP!Executed,
       TP!In, TPP!In
  <2> QED  BY <2>1
<1>6. ASSUME NEW v \in PoolWorkers, PoolTakes(v) PROVE TPP!Next
  <2>1. TPP!Take(v) \/ TPP!Wait(v) \/ TPP!WakeSpuriously(v)
    BY <1>6 DEF PoolTakes, TP!Take, TPP!Take, TP!Wait, TPP!Wait, TP!WakeSpuriously,
       TPP!WakeSpuriously
  <2> QED  BY <2>1
<1>7. ASSUME NEW v \in PoolWorkers, RunCallback(v) PROVE TPP!Next
  <2>1. TPP!Return(v)
    BY <1>7 DEF RunCallback, TP!Return, TPP!Return
  <2> QED  BY <2>1
<1>8. CASE ProcessEnds
  BY <1>8 DEF ProcessEnds
<1>9. CASE UNCHANGED vars
  BY <1>9 DEF vars
<1> QED
  BY <1>1, <1>2, <1>3, <1>4, <1>5, <1>6, <1>7, <1>8, <1>9 DEF Next, Caller, Resolves

LEMMA PoolsImplemented == Spec => RPP!Spec /\ TPP!Spec
<1>1. Init => RPP!Init /\ TPP!Init
  BY DEF Init, RP!Init, RPP!Init, TP!Init, TPP!Init
<1> QED
  BY <1>1, ResolvPoolStep, TaskPoolStep, PTL DEF Spec, RPP!Spec, TPP!Spec

\* In neither of the two pools, which share threads, does a worker sleep on
\* work nobody else will take.
THEOREM BothPoolsWork ==
    ASSUME IsFiniteSet(Requests), IsFiniteSet(ResolvWorkers), IsFiniteSet(PoolWorkers)
    PROVE  Spec => []NobodySleepsOnWork
<1>1. /\ \A S : RP!Cardinality(S) = RPP!Cardinality(S)
      /\ \A S : TP!Cardinality(S) = TPP!Cardinality(S)
  BY Zenon DEF RP!Cardinality, RPP!Cardinality, TP!Cardinality, TPP!Cardinality
<1>2. RPP!Spec => []RPP!NoSleepOnWork
  <2>1. RPP!IsFiniteSet(ResolvWorkers) /\ RPP!IsFiniteSet(Requests)
    BY DEF IsFiniteSet, RPP!IsFiniteSet
  <2> QED  BY <2>1, RPP!WorkIsSeen
<1>3. TPP!Spec => []TPP!NoSleepOnWork
  <2>1. IsFiniteSet(ResolvWorkers \cup {Loop})
    BY FS_AddElement
  <2>2. TPP!IsFiniteSet(PoolWorkers) /\ TPP!IsFiniteSet(ResolvWorkers \cup {Loop})
    BY <2>1 DEF IsFiniteSet, TPP!IsFiniteSet
  <2> QED  BY <2>2, TPP!WorkIsSeen
<1>4. RPP!NoSleepOnWork => RP!NoSleepOnWork
  <2>1. /\ RPP!At("waiting") = RP!At("waiting") /\ RPP!At("ready") = RP!At("ready")
        /\ RPP!Notifying = RP!Notifying
    BY DEF RPP!At, RP!At, RPP!Notifying, RP!Notifying
  <2> QED  BY <2>1, <1>1 DEF RPP!NoSleepOnWork, RP!NoSleepOnWork
<1>5. TPP!NoSleepOnWork => TP!NoSleepOnWork
  <2>1. /\ TPP!At("waiting") = TP!At("waiting") /\ TPP!At("ready") = TP!At("ready")
        /\ TPP!Notifying = TP!Notifying
    BY DEF TPP!At, TP!At, TPP!Notifying, TP!Notifying
  <2> QED  BY <2>1, <1>1 DEF TPP!NoSleepOnWork, TP!NoSleepOnWork
<1> QED
  BY <1>2, <1>3, <1>4, <1>5, PoolsImplemented, PTL DEF NobodySleepsOnWork

\* Each pool starts its jobs once and in the order of the calls: both implement
\* TaskFifo.
THEOREM BothPoolsAreFifos == Spec => PoolsAreFifos
<1>1. RPP!JobsStartInOrder => RP!JobsStartInOrder
  BY DEF RPP!JobsStartInOrder, RP!JobsStartInOrder, RPP!Fifo!FifoSpec, RP!Fifo!FifoSpec,
     RPP!Fifo!FifoInit, RP!Fifo!FifoInit, RPP!Fifo!FifoNext, RP!Fifo!FifoNext,
     RPP!Fifo!Add, RP!Fifo!Add, RPP!Fifo!Perform, RP!Fifo!Perform
<1>2. TPP!JobsStartInOrder => TP!JobsStartInOrder
  BY DEF TPP!JobsStartInOrder, TP!JobsStartInOrder, TPP!Fifo!FifoSpec, TP!Fifo!FifoSpec,
     TPP!Fifo!FifoInit, TP!Fifo!FifoInit, TPP!Fifo!FifoNext, TP!Fifo!FifoNext,
     TPP!Fifo!Add, TP!Fifo!Add, TPP!Fifo!Perform, TP!Fifo!Perform
<1> QED
  BY <1>1, <1>2, RPP!PoolImplementsFifo, TPP!PoolImplementsFifo, PoolsImplemented, PTL
  DEF PoolsAreFifos
-----------------------------------------------------------------------------
(* Types. *)

PoolsTypeOK == RPP!TypeOK /\ TPP!TypeOK

TasksTypeOK ==
    /\ at \in [ResolvWorkers -> {"none", "resolv", "answer", "answered"}]
    /\ copied \in [ResolvWorkers -> Addresses]
    /\ parsed \in [Requests -> Addresses]
    /\ is_done \in [Requests -> BOOLEAN]
    /\ carried \in [AsyncRequests -> Addresses]
    /\ answer \in [Requests -> Seq(Addresses)]

\* What the rest of the proof needs of the steps of the pools.
LEMMA PoolFacts ==
    ASSUME PoolsTypeOK
    PROVE  /\ rtasks \in Seq(Requests) /\ rstarted \in Seq(Requests)
           /\ rwpc \in [ResolvWorkers -> {"ready", "waiting", "running", "exited"}]
           /\ rjob \in [ResolvWorkers -> Seq(Requests)]
           /\ \A w \in ResolvWorkers : rwpc[w] = "running" => Head(rjob[w]) \in Requests
           /\ ttasks \in Seq(AsyncRequests \cup PipeJobs)
           /\ tstarted \in Seq(AsyncRequests \cup PipeJobs)
           /\ twpc \in [PoolWorkers -> {"ready", "waiting", "running", "exited"}]
           /\ tjob \in [PoolWorkers -> Seq(AsyncRequests \cup PipeJobs)]
           /\ \A v \in PoolWorkers :
                  twpc[v] = "running" => Head(tjob[v]) \in AsyncRequests \cup PipeJobs
<1>1. /\ rtasks \in Seq(Requests) /\ rstarted \in Seq(Requests)
      /\ rwpc \in [ResolvWorkers -> {"ready", "waiting", "running", "exited"}]
      /\ rjob \in [ResolvWorkers -> Seq(Requests)]
      /\ \A w \in ResolvWorkers : rwpc[w] = "running" => Len(rjob[w]) = 1
  BY DEF PoolsTypeOK, RPP!TypeOK, RPP!WorkerPCs
<1>2. /\ ttasks \in Seq(AsyncRequests \cup PipeJobs)
      /\ tstarted \in Seq(AsyncRequests \cup PipeJobs)
      /\ twpc \in [PoolWorkers -> {"ready", "waiting", "running", "exited"}]
      /\ tjob \in [PoolWorkers -> Seq(AsyncRequests \cup PipeJobs)]
      /\ \A v \in PoolWorkers : twpc[v] = "running" => Len(tjob[v]) = 1
  BY DEF PoolsTypeOK, TPP!TypeOK, TPP!WorkerPCs
<1>3. ASSUME NEW S, NEW s \in Seq(S), Len(s) = 1 PROVE Head(s) \in S
  BY <1>3
<1> QED  BY <1>1, <1>2, <1>3

\* A thread has a task exactly while the pool says that it runs one.
AtInv == \A w \in ResolvWorkers : at[w] # "none" <=> rwpc[w] = "running"

LEMMA AtNext == PoolsTypeOK /\ TasksTypeOK /\ AtInv /\ [Next]_vars => AtInv'
<1> SUFFICES ASSUME PoolsTypeOK, TasksTypeOK, AtInv, [Next]_vars PROVE AtInv'
  OBVIOUS
<1> USE DEF AtInv, TasksTypeOK, Goto
<1>1. ASSUME NEW r \in Requests, Caller(r) PROVE AtInv'
  BY <1>1, PoolFacts DEF Caller, Create, Notify, SyncReturn, RP!Execute, RP!NotifyOne,
     RP!At, rvars, taskvars
<1>2. ASSUME NEW w \in ResolvWorkers, Take(w) \/ Return(w) PROVE AtInv'
  BY <1>2, PoolFacts DEF Take, Return, RP!Take, RP!Return
<1>3. ASSUME NEW w \in ResolvWorkers, Resolv(w) \/ Signal(w) \/ ExecuteCallback(w) PROVE AtInv'
  BY <1>3 DEF Resolv, Signal, ExecuteCallback, rvars
<1>4. ASSUME NEW w \in ResolvWorkers, ResolverIdles(w) PROVE AtInv'
  BY <1>4, PoolFacts DEF ResolverIdles, RP!Wait, RP!WakeSpuriously, RP!Exit, taskvars
<1>5. ASSUME NEW c, PoolNotify(c) PROVE AtInv'
  BY <1>5 DEF PoolNotify, rvars, taskvars
<1>6. ASSUME NEW p \in PipeJobs, PipeEvent(p) PROVE AtInv'
  BY <1>6 DEF PipeEvent, rvars, taskvars
<1>7. ASSUME NEW v \in PoolWorkers, PoolTakes(v) \/ RunCallback(v) PROVE AtInv'
  BY <1>7 DEF PoolTakes, RunCallback, rvars, taskvars
<1>8. CASE ProcessEnds
  BY <1>8, PoolFacts DEF ProcessEnds, RP!SetShutdown, RP!NotifyAll, taskvars
<1>9. CASE UNCHANGED vars
  BY <1>9 DEF vars, rvars, taskvars
<1> QED
  BY <1>1, <1>2, <1>3, <1>4, <1>5, <1>6, <1>7, <1>8, <1>9 DEF Next, Resolves

LEMMA TasksTypeNext == PoolsTypeOK /\ AtInv /\ TasksTypeOK /\ [Next]_vars => TasksTypeOK'
<1> SUFFICES ASSUME PoolsTypeOK, AtInv, TasksTypeOK, [Next]_vars PROVE TasksTypeOK'
  OBVIOUS
<1> USE DEF TasksTypeOK, Goto
<1>a. \A r \in Requests : Resolved(r) \in Addresses
  BY DEF Addresses
<1>b. \A w \in ResolvWorkers : at[w] # "none" => Head(rjob[w]) \in Requests
  BY PoolFacts DEF AtInv
<1>g. ASSUME NEW r \in Requests, NEW a \in Addresses, Give(r, a)
      PROVE  answer' \in [Requests -> Seq(Addresses)]
  <2>1. Append(answer[r], a) \in Seq(Addresses)
    OBVIOUS
  <2> QED  BY <1>g, <2>1 DEF Give
<1>1. ASSUME NEW r \in Requests, Create(r) \/ Notify(r) PROVE TasksTypeOK'
  BY <1>1 DEF Create, Notify, taskvars
<1>2. ASSUME NEW r \in Requests, SyncReturn(r) PROVE TasksTypeOK'
  <2>1. answer' \in [Requests -> Seq(Addresses)]
    BY <1>2, <1>g DEF SyncReturn
  <2> QED  BY <1>2, <2>1 DEF SyncReturn
<1>3. ASSUME NEW w \in ResolvWorkers, Take(w) PROVE TasksTypeOK'
  <2>1. parsed[Head(rtasks)] \in Addresses
    BY <1>3, PoolFacts DEF Take, RP!Take
  <2> QED  BY <1>3, <2>1 DEF Take
<1>4. ASSUME NEW w \in ResolvWorkers, Resolv(w) PROVE TasksTypeOK'
  BY <1>4, <1>a, <1>b DEF Resolv
<1>5. ASSUME NEW w \in ResolvWorkers, Signal(w) PROVE TasksTypeOK'
  BY <1>5, <1>b DEF Signal
<1>6. ASSUME NEW w \in ResolvWorkers, ExecuteCallback(w) PROVE TasksTypeOK'
  BY <1>6 DEF ExecuteCallback
<1>7. ASSUME NEW w \in ResolvWorkers, Return(w) PROVE TasksTypeOK'
  BY <1>7 DEF Return
<1>8. ASSUME NEW w \in ResolvWorkers, ResolverIdles(w) PROVE TasksTypeOK'
  BY <1>8 DEF ResolverIdles, taskvars
<1>9. ASSUME NEW c, PoolNotify(c) PROVE TasksTypeOK'
  BY <1>9 DEF PoolNotify, taskvars
<1>10. ASSUME NEW p \in PipeJobs, PipeEvent(p) PROVE TasksTypeOK'
  BY <1>10 DEF PipeEvent, taskvars
<1>11. ASSUME NEW v \in PoolWorkers, PoolTakes(v) PROVE TasksTypeOK'
  BY <1>11 DEF PoolTakes, taskvars
<1>12. ASSUME NEW v \in PoolWorkers, RunCallback(v) PROVE TasksTypeOK'
  <2>1. Head(tjob[v]) \in AsyncRequests
    BY <1>12, PoolFacts DEF RunCallback, TP!Return
  <2>2. Head(tjob[v]) \in Requests /\ carried[Head(tjob[v])] \in Addresses
    BY <2>1 DEF Requests
  <2>3. answer' \in [Requests -> Seq(Addresses)]
    BY <1>12, <2>2, <1>g DEF RunCallback
  <2> QED  BY <1>12, <2>3 DEF RunCallback
<1>13. CASE ProcessEnds
  BY <1>13 DEF ProcessEnds, taskvars
<1>14. CASE UNCHANGED vars
  BY <1>14 DEF vars, taskvars
<1> QED
  BY <1>1, <1>2, <1>3, <1>4, <1>5, <1>6, <1>7, <1>8, <1>9, <1>10, <1>11, <1>12, <1>13, <1>14
  DEF Next, Caller, Resolves
-----------------------------------------------------------------------------
(* One answer, and a final one. *)

PoolsApart == RPP!JobsAreApart /\ TPP!JobsAreApart

\* A request that was signalled has been taken from the queue, and the thread
\* that took it does not touch it any more.
DoneInv ==
    \A r \in SyncRequests : is_done[r] =>
        /\ RPP!In(rstarted, r)
        /\ \A w \in ResolvWorkers : at[w] \in {"resolv", "answer"} => Head(rjob[w]) # r
SyncInv ==
    \A r \in SyncRequests : answer[r] # <<>> => is_done[r] /\ answer[r] = <<parsed[r]>>

\* An asynchronous request that was answered has been taken from the queue of
\* the task pool, and no thread runs its callback any more.
AsyncInv ==
    \A r \in AsyncRequests :
        /\ Len(answer[r]) <= 1
        /\ answer[r] # <<>> =>
               /\ TPP!In(tstarted, r)
               /\ \A v \in PoolWorkers : twpc[v] = "running" => Head(tjob[v]) # r

LEMMA DoneNext ==
    PoolsTypeOK /\ TasksTypeOK /\ PoolsApart /\ AtInv /\ DoneInv /\ [Next]_vars => DoneInv'
<1> SUFFICES ASSUME PoolsTypeOK, TasksTypeOK, PoolsApart, AtInv, DoneInv, [Next]_vars
             PROVE  DoneInv'
  OBVIOUS
<1>t. /\ at \in [ResolvWorkers -> {"none", "resolv", "answer", "answered"}]
      /\ is_done \in [Requests -> BOOLEAN]
      /\ rjob \in [ResolvWorkers -> Seq(Requests)]
      /\ rtasks \in Seq(Requests) /\ rstarted \in Seq(Requests)
      /\ SyncRequests \subseteq Requests
  BY PoolFacts DEF TasksTypeOK, Requests
<1>i. \A x : RPP!In(rstarted, x)' <=> RPP!In(rstarted', x)
  BY DEF RPP!In
\* Steps that leave the requests, and where the threads are in them, alone.
<1>s. ASSUME UNCHANGED <<at, rjob, rstarted, is_done>> PROVE DoneInv'
  BY <1>s, <1>i DEF DoneInv
<1>1. ASSUME NEW r \in Requests, Caller(r) PROVE DoneInv'
  BY <1>1, <1>s DEF Caller, Create, Notify, SyncReturn, RP!Execute, RP!NotifyOne, rvars, taskvars
<1>2. ASSUME NEW w \in ResolvWorkers, Take(w) PROVE DoneInv'
  <2> DEFINE h == Head(rtasks)
  <2>1. /\ rtasks # <<>> /\ h \in Requests
        /\ rstarted' = Append(rstarted, h) /\ rjob' = [rjob EXCEPT ![w] = <<h>>]
        /\ at' = [at EXCEPT ![w] = "resolv"] /\ is_done' = is_done
    BY <1>2, <1>t DEF Take, RP!Take, Goto
  <2>2. ~RPP!In(rstarted, h)
    <3>1. RPP!In(rtasks, h)
      BY <2>1, <1>t DEF RPP!In
    <3> QED  BY <3>1, <2>1 DEF PoolsApart, RPP!JobsAreApart
  <2>3. \A x : RPP!In(rstarted, x) => RPP!In(Append(rstarted, h), x)
    BY <2>1, <1>t, RPP!InAppend
  <2>4. Head(rjob'[w]) = h /\ \A v \in ResolvWorkers \ {w} : rjob'[v] = rjob[v] /\ at'[v] = at[v]
    BY <2>1, <1>t
  <2> QED  BY <2>1, <2>2, <2>3, <2>4, <1>i DEF DoneInv
<1>3. ASSUME NEW w \in ResolvWorkers, Resolv(w) PROVE DoneInv'
  BY <1>3, <1>t, <1>i DEF Resolv, Goto, rvars, DoneInv
<1>4. ASSUME NEW w \in ResolvWorkers, Signal(w) PROVE DoneInv'
  <2> DEFINE h == Head(rjob[w])
  <2>1. /\ at[w] = "answer" /\ h \in SyncRequests
        /\ is_done' = [is_done EXCEPT ![h] = TRUE] /\ at' = [at EXCEPT ![w] = "answered"]
        /\ UNCHANGED <<rjob, rstarted, rwpc>>
    BY <1>4 DEF Signal, Goto, rvars
  <2>2. w \in RPP!At("running") /\ RPP!In(rstarted, h)
    BY <2>1 DEF AtInv, PoolsApart, RPP!JobsAreApart, RPP!At
  <2>3. ASSUME NEW v \in ResolvWorkers, v # w, at[v] # "none" PROVE Head(rjob[v]) # h
    BY <2>2, <2>3 DEF AtInv, PoolsApart, RPP!JobsAreApart, RPP!At
  <2> QED  BY <2>1, <2>2, <2>3, <1>t, <1>i DEF DoneInv
<1>5. ASSUME NEW w \in ResolvWorkers, ExecuteCallback(w) PROVE DoneInv'
  BY <1>5, <1>t, <1>i DEF ExecuteCallback, Goto, rvars, DoneInv
<1>6. ASSUME NEW w \in ResolvWorkers, Return(w) PROVE DoneInv'
  <2>1. /\ at' = [at EXCEPT ![w] = "none"] /\ rjob' = [rjob EXCEPT ![w] = <<>>]
        /\ UNCHANGED <<rstarted, is_done>>
    BY <1>6 DEF Return, RP!Return, Goto
  <2>2. at'[w] = "none" /\ \A v \in ResolvWorkers \ {w} : rjob'[v] = rjob[v] /\ at'[v] = at[v]
    BY <2>1, <1>t
  <2> QED  BY <2>1, <2>2, <1>i DEF DoneInv
<1>7. ASSUME NEW w \in ResolvWorkers, ResolverIdles(w) PROVE DoneInv'
  BY <1>7, <1>s DEF ResolverIdles, RP!Wait, RP!WakeSpuriously, RP!Exit, taskvars
<1>8. ASSUME NEW c, PoolNotify(c) PROVE DoneInv'
  BY <1>8, <1>s DEF PoolNotify, rvars, taskvars
<1>9. ASSUME NEW p \in PipeJobs, PipeEvent(p) PROVE DoneInv'
  BY <1>9, <1>s DEF PipeEvent, rvars, taskvars
<1>10. ASSUME NEW v \in PoolWorkers, PoolTakes(v) \/ RunCallback(v) PROVE DoneInv'
  BY <1>10, <1>s DEF PoolTakes, RunCallback, rvars, taskvars
<1>11. CASE ProcessEnds
  BY <1>11, <1>s DEF ProcessEnds, RP!SetShutdown, RP!NotifyAll, taskvars
<1>12. CASE UNCHANGED vars
  BY <1>12, <1>s DEF vars, rvars, taskvars
<1> QED
  BY <1>1, <1>2, <1>3, <1>4, <1>5, <1>6, <1>7, <1>8, <1>9, <1>10, <1>11, <1>12
  DEF Next, Resolves

LEMMA SyncNext ==
    PoolsTypeOK /\ TasksTypeOK /\ AtInv /\ DoneInv /\ SyncInv /\ [Next]_vars => SyncInv'
<1> SUFFICES ASSUME PoolsTypeOK, TasksTypeOK, AtInv, DoneInv, SyncInv, [Next]_vars PROVE SyncInv'
  OBVIOUS
<1>t. /\ is_done \in [Requests -> BOOLEAN] /\ parsed \in [Requests -> Addresses]
      /\ answer \in [Requests -> Seq(Addresses)]
      /\ SyncRequests \subseteq Requests
  BY DEF TasksTypeOK, Requests
<1>s. ASSUME UNCHANGED <<answer, parsed, is_done>> PROVE SyncInv'
  BY <1>s DEF SyncInv
<1>1. ASSUME NEW r \in Requests, Create(r) \/ Notify(r) PROVE SyncInv'
  BY <1>1, <1>s DEF Create, Notify, taskvars
<1>2. ASSUME NEW r \in Requests, SyncReturn(r) PROVE SyncInv'
  <2>1. /\ answer' = [answer EXCEPT ![r] = Append(@, parsed[r])] /\ answer[r] = <<>>
        /\ is_done[r] /\ UNCHANGED <<parsed, is_done>>
    BY <1>2 DEF SyncReturn, Give
  <2>2. answer'[r] = <<parsed[r]>>
    BY <2>1, <1>t
  <2> QED  BY <2>1, <2>2, <1>t DEF SyncInv
<1>3. ASSUME NEW w \in ResolvWorkers, Resolv(w) PROVE SyncInv'
  <2>1. /\ at[w] = "resolv" /\ UNCHANGED <<answer, is_done>>
        /\ \A r \in Requests : r # Head(rjob[w]) => parsed'[r] = parsed[r]
    BY <1>3, <1>t DEF Resolv
  <2> QED  BY <2>1, <1>t DEF SyncInv, DoneInv
<1>4. ASSUME NEW w \in ResolvWorkers, Signal(w) PROVE SyncInv'
  <2>1. /\ is_done' = [is_done EXCEPT ![Head(rjob[w])] = TRUE]
        /\ UNCHANGED <<answer, parsed>>
    BY <1>4 DEF Signal
  <2>2. \A r \in SyncRequests : is_done[r] => is_done'[r]
    BY <2>1, <1>t
  <2> QED  BY <2>1, <2>2 DEF SyncInv
<1>5. ASSUME NEW w \in ResolvWorkers, \/ Take(w) \/ ExecuteCallback(w) \/ Return(w) \/ ResolverIdles(w)
      PROVE  SyncInv'
  BY <1>5, <1>s DEF Take, ExecuteCallback, Return, ResolverIdles, taskvars
<1>6. ASSUME NEW c, PoolNotify(c) PROVE SyncInv'
  BY <1>6, <1>s DEF PoolNotify, taskvars
<1>7. ASSUME NEW p \in PipeJobs, PipeEvent(p) PROVE SyncInv'
  BY <1>7, <1>s DEF PipeEvent, taskvars
<1>8. ASSUME NEW v \in PoolWorkers, PoolTakes(v) PROVE SyncInv'
  BY <1>8, <1>s DEF PoolTakes, taskvars
<1>9. ASSUME NEW v \in PoolWorkers, RunCallback(v) PROVE SyncInv'
  <2>1. Head(tjob[v]) \in AsyncRequests
    BY <1>9, PoolFacts DEF RunCallback, TP!Return
  <2>2. /\ \A r \in SyncRequests : answer'[r] = answer[r]
        /\ UNCHANGED <<parsed, is_done>>
    BY <1>9, <2>1, <1>t, ResolverAssumption DEF RunCallback, Give
  <2> QED  BY <2>2 DEF SyncInv
<1>10. CASE ProcessEnds
  BY <1>10, <1>s DEF ProcessEnds, taskvars
<1>11. CASE UNCHANGED vars
  BY <1>11, <1>s DEF vars, taskvars
<1> QED
  BY <1>1, <1>2, <1>3, <1>4, <1>5, <1>6, <1>7, <1>8, <1>9, <1>10, <1>11
  DEF Next, Caller, Resolves

LEMMA AsyncNext ==
    PoolsTypeOK /\ TasksTypeOK /\ PoolsApart /\ AsyncInv /\ [Next]_vars => AsyncInv'
<1> SUFFICES ASSUME PoolsTypeOK, TasksTypeOK, PoolsApart, AsyncInv, [Next]_vars PROVE AsyncInv'
  OBVIOUS
<1>t. /\ answer \in [Requests -> Seq(Addresses)] /\ carried \in [AsyncRequests -> Addresses]
      /\ AsyncRequests \subseteq Requests
      /\ ttasks \in Seq(AsyncRequests \cup PipeJobs)
      /\ tstarted \in Seq(AsyncRequests \cup PipeJobs)
      /\ twpc \in [PoolWorkers -> {"ready", "waiting", "running", "exited"}]
      /\ tjob \in [PoolWorkers -> Seq(AsyncRequests \cup PipeJobs)]
  BY PoolFacts DEF TasksTypeOK, Requests
<1>i. \A x : TPP!In(tstarted, x)' <=> TPP!In(tstarted', x)
  BY DEF TPP!In
<1>s. ASSUME UNCHANGED <<tstarted, tjob>>, \A r \in AsyncRequests : answer'[r] = answer[r],
             \A v \in PoolWorkers : twpc'[v] = "running" => twpc[v] = "running"
      PROVE  AsyncInv'
  BY <1>s, <1>i DEF AsyncInv
<1>1. ASSUME NEW r \in Requests, Create(r) \/ Notify(r) PROVE AsyncInv'
  BY <1>1, <1>s DEF Create, Notify, tvars, taskvars
<1>2. ASSUME NEW r \in Requests, SyncReturn(r) PROVE AsyncInv'
  BY <1>2, <1>s, <1>t, ResolverAssumption DEF SyncReturn, Give, tvars
<1>3. ASSUME NEW w \in ResolvWorkers,
             Take(w) \/ Resolv(w) \/ Signal(w) \/ Return(w) \/ ResolverIdles(w)
      PROVE  AsyncInv'
  BY <1>3, <1>s DEF Take, Resolv, Signal, Return, ResolverIdles, tvars, taskvars
<1>4. ASSUME NEW w \in ResolvWorkers, ExecuteCallback(w) PROVE AsyncInv'
  BY <1>4, <1>s DEF ExecuteCallback, TP!Execute
<1>5. ASSUME NEW c, PoolNotify(c) PROVE AsyncInv'
  BY <1>5, <1>s, <1>t DEF PoolNotify, TP!NotifyOne, TP!At, taskvars
<1>6. ASSUME NEW p \in PipeJobs, PipeEvent(p) PROVE AsyncInv'
  BY <1>6, <1>s DEF PipeEvent, TP!Execute, taskvars
<1>7. ASSUME NEW v \in PoolWorkers, TP!Take(v), UNCHANGED taskvars PROVE AsyncInv'
  <2> DEFINE h == Head(ttasks)
  <2>1. /\ ttasks # <<>> /\ h \in AsyncRequests \cup PipeJobs
        /\ tstarted' = Append(tstarted, h) /\ tjob' = [tjob EXCEPT ![v] = <<h>>]
        /\ twpc' = [twpc EXCEPT ![v] = "running"] /\ answer' = answer
    BY <1>7, <1>t DEF TP!Take, taskvars
  <2>2. ~TPP!In(tstarted, h)
    <3>1. TPP!In(ttasks, h)
      BY <2>1, <1>t DEF TPP!In
    <3> QED  BY <3>1, <2>1 DEF PoolsApart, TPP!JobsAreApart
  <2>3. \A x : TPP!In(tstarted, x) => TPP!In(Append(tstarted, h), x)
    BY <2>1, <1>t, TPP!InAppend
  <2>4. Head(tjob'[v]) = h /\ \A u \in PoolWorkers \ {v} : tjob'[u] = tjob[u] /\ twpc'[u] = twpc[u]
    BY <2>1, <1>t
  <2> QED  BY <2>1, <2>2, <2>3, <2>4, <1>i DEF AsyncInv
<1>8. ASSUME NEW v \in PoolWorkers, TP!Wait(v) \/ TP!WakeSpuriously(v), UNCHANGED taskvars
      PROVE  AsyncInv'
  BY <1>8, <1>s, <1>t DEF TP!Wait, TP!WakeSpuriously, taskvars
<1>9. ASSUME NEW v \in PoolWorkers, RunCallback(v) PROVE AsyncInv'
  <2> DEFINE h == Head(tjob[v])
  <2>1. h \in AsyncRequests /\ twpc[v] = "running"
    BY <1>9, PoolFacts DEF RunCallback, TP!Return
  <2>2. /\ answer' = [answer EXCEPT ![h] = Append(@, carried[h])] /\ tstarted' = tstarted
        /\ twpc' = [twpc EXCEPT ![v] = "ready"] /\ tjob' = [tjob EXCEPT ![v] = <<>>]
    BY <1>9 DEF RunCallback, Give, TP!Return
  <2>3. answer[h] = <<>>
    BY <2>1 DEF AsyncInv
  <2>4. Len(answer'[h]) <= 1 /\ \A r \in AsyncRequests \ {h} : answer'[r] = answer[r]
    BY <2>1, <2>2, <2>3, <1>t
  <2>5. v \in TPP!At("running") /\ TPP!In(tstarted, h)
    BY <2>1 DEF PoolsApart, TPP!JobsAreApart, TPP!At
  <2>6. ASSUME NEW u \in PoolWorkers, twpc'[u] = "running"
        PROVE  twpc[u] = "running" /\ tjob'[u] = tjob[u] /\ Head(tjob[u]) # h
    <3>1. u # v /\ twpc[u] = "running" /\ tjob'[u] = tjob[u]
      BY <2>2, <2>6, <1>t
    <3> QED  BY <3>1, <2>5 DEF PoolsApart, TPP!JobsAreApart, TPP!At
  <2> HIDE DEF h
  <2> QED  BY <2>1, <2>2, <2>4, <2>5, <2>6, <1>i DEF AsyncInv
<1>10. CASE ProcessEnds
  BY <1>10, <1>s DEF ProcessEnds, tvars, taskvars
<1>11. CASE UNCHANGED vars
  BY <1>11, <1>s DEF vars, tvars, taskvars
<1> QED
  BY <1>1, <1>2, <1>3, <1>4, <1>5, <1>6, <1>7, <1>8, <1>9, <1>10, <1>11
  DEF Next, Caller, Resolves, PoolTakes

IInv == PoolsTypeOK /\ TasksTypeOK /\ PoolsApart /\ AtInv /\ DoneInv /\ SyncInv /\ AsyncInv

LEMMA Inductive == Spec => []IInv
<1>1. Init => AtInv /\ TasksTypeOK /\ DoneInv /\ SyncInv /\ AsyncInv
  BY DEF Init, AtInv, TasksTypeOK, DoneInv, SyncInv, AsyncInv, RP!Init, TP!Init, Addresses, Requests
<1>2. Spec => [](PoolsTypeOK /\ PoolsApart)
  BY PoolsImplemented, RPP!TypeCorrect, TPP!TypeCorrect, RPP!JobsStayApart, TPP!JobsStayApart, PTL
  DEF PoolsTypeOK, PoolsApart
<1>3. /\ PoolsTypeOK /\ PoolsApart
      /\ AtInv /\ TasksTypeOK /\ DoneInv /\ SyncInv /\ AsyncInv /\ [Next]_vars
      => AtInv' /\ TasksTypeOK' /\ DoneInv' /\ SyncInv' /\ AsyncInv'
  BY AtNext, TasksTypeNext, DoneNext, SyncNext, AsyncNext
<1> QED  BY <1>1, <1>2, <1>3, PTL DEF Spec, IInv

\* Types, of the two pools too.
THEOREM TypeCorrect == Spec => []TypeOK
<1>1. IInv => TypeOK
  BY DEF IInv, PoolsTypeOK, TasksTypeOK, TypeOK, RPP!TypeOK, RP!TypeOK, TPP!TypeOK, TP!TypeOK,
     RPP!WorkerPCs, RP!WorkerPCs, TPP!WorkerPCs, TP!WorkerPCs
<1> QED  BY <1>1, Inductive, PTL

\* resolv_ipv4_sync(), resolv_ipv6_sync(), create_resolv_task(): whichever
\* threads work on a request, it is answered once, and the address a caller
\* copies out of the task while the thread may still be there is final.
THEOREM AnsweredOnceAndFinally == Spec => []OneFinalAnswer
<1>1. IInv => OneFinalAnswer
  <2> SUFFICES ASSUME IInv, NEW r \in Requests
               PROVE  /\ Len(answer[r]) <= 1
                      /\ r \in SyncRequests /\ answer[r] # <<>> => answer[r] = <<parsed[r]>>
    BY DEF OneFinalAnswer
  <2>1. CASE r \in SyncRequests
    <3>1. answer[r] = <<>> \/ answer[r] = <<parsed[r]>>
      BY <2>1 DEF IInv, SyncInv
    <3>2. Len(<<>>) = 0 /\ Len(<<parsed[r]>>) = 1
      OBVIOUS
    <3>3. Len(answer[r]) \in {0, 1}
      BY <3>1, <3>2
    <3>4. Len(answer[r]) <= 1
      <4>1. \A n \in {0, 1} : n <= 1
        OBVIOUS
      <4> QED  BY <3>3, <4>1, Zenon
    <3> QED  BY <3>1, <3>4, Zenon
  <2>2. CASE r \in AsyncRequests
    BY <2>2, ResolverAssumption DEF IInv, AsyncInv
  <2> QED  BY <2>1, <2>2 DEF Requests
<1> QED  BY <1>1, Inductive, PTL
-----------------------------------------------------------------------------
(* The addresses.                                                          *)

ValidAddr == {a \in AddrType : Valid(a)}

LEMMA Fields ==
    ASSUME NEW a \in ValidAddr
    PROVE  /\ a.family \in Nat /\ a.port \in Nat /\ a.quad \in Nat /\ a.dozen \in Nat /\ a.tail \in Nat
           /\ a.family = 0 \/ a.family = 1 \/ a.family = 2
BY DEF ValidAddr, AddrType, Valid, family_v4, family_v6, family_uds

\* Lexicographic order, written out.
Lex2(a, b) == a.port < b.port \/ (a.port = b.port /\ a.quad < b.quad)
Lex3(a, b) == Lex2(a, b) \/ (a.port = b.port /\ a.quad = b.quad /\ a.dozen < b.dozen)
Lex4(a, b) ==
    Lex3(a, b) \/ (a.port = b.port /\ a.quad = b.quad /\ a.dozen = b.dozen /\ a.tail < b.tail)

LEMMA LessIsLex ==
    ASSUME NEW a \in ValidAddr, NEW b \in ValidAddr
    PROVE  Less(a, b) <=>
              \/ a.family < b.family
              \/ a.family = 0 /\ b.family = 0 /\ Lex2(a, b)
              \/ a.family = 1 /\ b.family = 1 /\ Lex3(a, b)
              \/ a.family = 2 /\ b.family = 2 /\ Lex4(a, b)
<1> USE Fields DEF family_v4, family_v6, family_uds
<1>1. CASE a.family # b.family
  BY <1>1 DEF Less
<1>f. 1..4 = {1, 2, 3, 4}
  OBVIOUS
<1>2. CASE a.family = 0 /\ b.family = 0
  <2>1. Compared(a) = <<a.port, a.quad>> /\ Compared(b) = <<b.port, b.quad>>
    BY <1>2 DEF Compared
  <2>2. Less(a, b) <=> \E i \in {1, 2} :
            Compared(a)[i] < Compared(b)[i] /\ \A j \in {1, 2} : j < i => Compared(a)[j] = Compared(b)[j]
    BY <1>2, <2>1, <1>f DEF Less
  <2> QED  BY <1>2, <2>1, <2>2 DEF Lex2
<1>3. CASE a.family = 1 /\ b.family = 1
  <2>1. /\ Compared(a) = <<a.port, a.quad, a.dozen>>
        /\ Compared(b) = <<b.port, b.quad, b.dozen>>
    BY <1>3 DEF Compared
  <2>2. Less(a, b) <=> \E i \in {1, 2, 3} :
            /\ Compared(a)[i] < Compared(b)[i]
            /\ \A j \in {1, 2, 3} : j < i => Compared(a)[j] = Compared(b)[j]
    BY <1>3, <2>1, <1>f DEF Less
  <2> QED  BY <1>3, <2>1, <2>2 DEF Lex2, Lex3
<1>4. CASE a.family = 2 /\ b.family = 2
  <2>1. /\ Compared(a) = <<a.port, a.quad, a.dozen, a.tail>>
        /\ Compared(b) = <<b.port, b.quad, b.dozen, b.tail>>
    BY <1>4 DEF Compared
  <2>2. Less(a, b) <=> \E i \in {1, 2, 3, 4} :
            /\ Compared(a)[i] < Compared(b)[i]
            /\ \A j \in {1, 2, 3, 4} : j < i => Compared(a)[j] = Compared(b)[j]
    BY <1>4, <2>1, <1>f DEF Less
  <2> QED  BY <1>4, <2>1, <2>2 DEF Lex2, Lex3, Lex4
<1> QED  BY <1>1, <1>2, <1>3, <1>4

LEMMA EqualIsFields ==
    ASSUME NEW a \in ValidAddr, NEW b \in ValidAddr
    PROVE  Equal(a, b) <=>
              /\ a.family = b.family /\ a.port = b.port /\ a.quad = b.quad
              /\ a.family \in {1, 2} => a.dozen = b.dozen
              /\ a.family = 2 => a.tail = b.tail
<1> USE Fields DEF family_v4, family_v6, family_uds
<1>1. CASE a.family # b.family
  BY <1>1 DEF Equal
<1>2. CASE a.family = 0 /\ b.family = 0
  BY <1>2 DEF Equal, Compared
<1>3. CASE a.family = 1 /\ b.family = 1
  BY <1>3 DEF Equal, Compared
<1>4. CASE a.family = 2 /\ b.family = 2
  BY <1>4 DEF Equal, Compared
<1> QED  BY <1>1, <1>2, <1>3, <1>4

\* addrcmp is what an ordered container asks for, and agrees with operator==: of two
\* addresses one is less, or they are equal, whatever the bytes that are not
\* compared.
THEOREM OrderIsStrictAndTotal ==
    ASSUME NEW a \in ValidAddr, NEW b \in ValidAddr, NEW c \in ValidAddr
    PROVE  /\ ~Less(a, a)
           /\ Less(a, b) /\ Less(b, c) => Less(a, c)
           /\ Less(a, b) \/ Less(b, a) \/ Equal(a, b)
           /\ Equal(a, b) => ~Less(a, b) /\ ~Less(b, a)
<1>1. ~Less(a, a)
  BY Fields, LessIsLex DEF Lex2, Lex3, Lex4
<1>2. Less(a, b) /\ Less(b, c) => Less(a, c)
  BY Fields, LessIsLex DEF Lex2, Lex3, Lex4
<1>3. Less(a, b) \/ Less(b, a) \/ Equal(a, b)
  BY Fields, LessIsLex, EqualIsFields DEF Lex2, Lex3, Lex4
<1>4. Equal(a, b) => ~Less(a, b) /\ ~Less(b, a)
  BY Fields, LessIsLex, EqualIsFields DEF Lex2, Lex3, Lex4
<1> QED  BY <1>1, <1>2, <1>3, <1>4

\* init() from a sockaddr of IPv4 or IPv6, and to_posix(), return port and address,
\* whatever the object held before.
THEOREM ConvertsBack ==
    ASSUME NEW a \in AddrType, NEW p \in Nat, NEW q \in Nat, NEW d \in Nat
    PROVE  /\ ToPosix(InitV4(a, family_v4, p, q)) = <<"PF_INET", p, q>>
           /\ ToPosix(InitV6(a, family_v6, p, q, d)) = <<"PF_INET6", p, q, d>>
<1> USE DEF family_v4, family_v6, family_uds, InitThrows, SetPortThrows, WithFamily, SetPort, AddrType
<1>1. /\ InitV4(a, 0, p, q).family = 0 /\ InitV4(a, 0, p, q).port = p
      /\ InitV4(a, 0, p, q).quad = q
  BY DEF InitV4
<1>2. /\ InitV6(a, 1, p, q, d).family = 1 /\ InitV6(a, 1, p, q, d).port = p
      /\ InitV6(a, 1, p, q, d).quad = q /\ InitV6(a, 1, p, q, d).dozen = d
  BY DEF InitV6
<1> QED  BY <1>1, <1>2 DEF ToPosix

\* No call of init() sets the path of a unix domain socket, which addr.h reserves
\* its 31 bytes for: set_port() throws before.
THEOREM PathIsNeverSet ==
    ASSUME NEW a \in AddrType, NEW p \in Nat, NEW path
    PROVE  /\ InitThrows(a, family_uds)
           /\ InitUds(a, family_uds, p, path) = [a EXCEPT !.family = family_uds]
<1>1. WithFamily(a, family_uds).family = family_uds
  <2> DEFINE u == family_uds
  <2>1. u = 2
    BY DEF family_uds
  <2> HIDE DEF u
  <2>2. [a EXCEPT !.family = u].family = u
    BY DEF AddrType
  <2> QED  BY <2>2 DEF WithFamily, u
<1>2. InitThrows(a, family_uds)
  BY <1>1 DEF InitThrows, SetPortThrows
<1> QED  BY <1>2 DEF InitUds, WithFamily

\* An IPv4 address that holds the bytes of one of IPv6.
IsHost(a, p, q, d) ==
    a \in AddrType /\ a.family = 0 /\ a.port = p /\ a.quad = q /\ a.dozen = d

LEMMA ResolvedFields ==
    ASSUME NEW f \in 0..255, NEW p \in Nat, NEW q \in Nat, NEW x \in Nat
    PROVE  IsHost(ResolvedV6(NewAddr(f), p, q, x), p, q, x)
<1>1. NewAddr(f) \in AddrType
  BY DEF NewAddr, AddrType
<1>2. ASSUME NEW n \in AddrType
      PROVE  IsHost(InitV6(n, 0, p, q, x), p, q, x)
  <2> DEFINE v == WithFamily(n, 0)
             w == SetPort(v, p)
             r == [w EXCEPT !.quad = q, !.dozen = x]
  <2>1. v \in AddrType /\ v.family = 0
    BY DEF WithFamily, AddrType
  <2> HIDE DEF v
  <2>2. ~SetPortThrows(v) /\ w = [v EXCEPT !.port = p]
    BY <2>1 DEF SetPortThrows, SetPort, family_uds
  <2>3. w \in AddrType /\ w.family = 0 /\ w.port = p
    BY <2>1, <2>2 DEF AddrType
  <2> HIDE DEF w
  <2>4. r \in AddrType /\ r.family = 0 /\ r.port = p /\ r.quad = q /\ r.dozen = x
    <3> DEFINE u == [w EXCEPT !.quad = q]
    <3>1. u \in AddrType /\ u.family = 0 /\ u.port = p /\ u.quad = q
      BY <2>3 DEF AddrType
    <3>2. r = [u EXCEPT !.dozen = x]
      BY <2>3 DEF AddrType
    <3> HIDE DEF u, r
    <3> QED  BY <3>1, <3>2 DEF AddrType
  <2>5. InitV6(n, 0, p, q, x) = r
    <3>1. ~InitThrows(n, 0)
      BY <2>2 DEF InitThrows, v
    <3> QED  BY ONLY <3>1, Zenon DEF InitV6, r, w, v
  <2> HIDE DEF r
  <2> QED  BY <2>4, <2>5 DEF IsHost
<1> QED  BY <1>1, <1>2 DEF ResolvedV6, family_v4

\* A host of IPv6 resolves to an IPv4 address made of its first four bytes, equal to
\* what any host with those bytes resolves to: resolv() passes family_v4 to both
\* overloads of init().
THEOREM HostsOfV6AreConfused ==
    ASSUME NEW f \in 0..255, NEW p \in Nat, NEW q \in Nat, NEW d \in Nat, NEW e \in Nat
    PROVE  /\ ToPosix(ResolvedV6(NewAddr(f), p, q, d)) = <<"PF_INET", p, q>>
           /\ Equal(ResolvedV6(NewAddr(f), p, q, d), ResolvedV6(NewAddr(f), p, q, e))
<1> USE DEF family_v4, family_v6, family_uds
<1> DEFINE x == ResolvedV6(NewAddr(f), p, q, d)
           y == ResolvedV6(NewAddr(f), p, q, e)
<1>1. /\ x.family = 0 /\ x.port = p /\ x.quad = q
      /\ y.family = 0 /\ y.port = p /\ y.quad = q
  <2>1. IsHost(x, p, q, d) /\ IsHost(y, p, q, e)
    BY ResolvedFields
  <2> HIDE DEF x, y
  <2> QED  BY <2>1 DEF IsHost
<1> HIDE DEF x, y
<1>2. ToPosix(x) = <<"PF_INET", p, q>> /\ Equal(x, y)
  BY <1>1 DEF ToPosix, Equal, Compared
<1> QED  BY <1>2 DEF x, y

\* Equal addresses may hash apart: str() takes all bytes, and operator== only those
\* of the family; the two hosts above are keys of their own in an unordered_map.
THEOREM EqualMayHashApart ==
    \E a, b \in ValidAddr : Equal(a, b) /\ Str(a) # Str(b)
<1> DEFINE a == ResolvedV6(NewAddr(0), 80, 1, 2)
           b == ResolvedV6(NewAddr(0), 80, 1, 3)
<1>0. 0 \in 0..255 /\ 80 \in Nat /\ 1 \in Nat /\ 2 \in Nat /\ 3 \in Nat
  OBVIOUS
<1>1. a \in AddrType /\ a.family = 0 /\ a.port = 80 /\ a.quad = 1 /\ a.dozen = 2
  BY <1>0, ResolvedFields DEF IsHost
<1>2. b \in AddrType /\ b.family = 0 /\ b.port = 80 /\ b.quad = 1 /\ b.dozen = 3
  BY <1>0, ResolvedFields DEF IsHost
<1> HIDE DEF a, b
<1>3. a \in ValidAddr /\ b \in ValidAddr
  BY <1>1, <1>2 DEF ValidAddr, Valid, family_v4
<1>4. Equal(a, b) /\ Str(a) # Str(b)
  BY <1>1, <1>2 DEF Equal, Compared, Str, family_v4, family_v6, family_uds
<1> QED  BY <1>3, <1>4
=============================================================================
