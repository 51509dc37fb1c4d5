------------------------------ MODULE Resolver ------------------------------
(***************************************************************************)
(* system/resolv.{h,cc}: host names are resolved by a pool of threads.  A  *)
(* synchronous request blocks its caller until a resolver thread signals   *)
(* it (common/blockable.h); the callback of an asynchronous request runs   *)
(* as a job of the task pool, which the connections share.                 *)
(*                                                                         *)
(* Both pools are instances of TaskPool.                                   *)
(***************************************************************************)
EXTENDS Naturals, Sequences, FiniteSets

CONSTANTS
    SyncRequests,       \* the calls of resolv_ipv4_sync and resolv_ipv6_sync
    AsyncRequests,      \* the calls of create_resolv_task with a callback
    ResolvWorkers,      \* the NrThreads threads of resolv_taskpool
    PoolWorkers,        \* the threads of the task pool
    Loop,               \* the thread of reactor::eventloop
    PipeJobs            \* jobs of pipes that wait for input in doread()

Requests == SyncRequests \cup AsyncRequests

ASSUME ResolverAssumption ==
    /\ SyncRequests \cap AsyncRequests = {}
    /\ PipeJobs \cap Requests = {}
    /\ Loop \notin ResolvWorkers

VARIABLES
    rtasks, rshutdown, rwpc, rjob, rcpc, rstarted,     \* resolv_taskpool
    ttasks, tshutdown, twpc, tjob, tcpc, tstarted,     \* taskpool
    at,         \* each resolver thread: where it is in the task it has taken
    copied,     \* ... and the address it copied when it took it
    parsed,     \* resolv_task::parsed_address
    is_done,    \* blockable::is_done of the task
    carried,    \* the address in the job that runs the callback
    answer      \* the addresses the caller was given, of which there is one

rvars == <<rtasks, rshutdown, rwpc, rjob, rcpc, rstarted>>
tvars == <<ttasks, tshutdown, twpc, tjob, tcpc, tstarted>>
taskvars == <<at, copied, parsed, is_done, carried, answer>>
vars == <<rvars, tvars, taskvars>>

RP == INSTANCE TaskPool WITH
    Workers <- ResolvWorkers, Callers <- Requests, Jobs <- Requests,
    EndlessJobs <- {}, tasks <- rtasks, shutdown <- rshutdown, wpc <- rwpc,
    job <- rjob, cpc <- rcpc, started <- rstarted

\* doread() does not return while a read task waits for input, see Pipe.
TP == INSTANCE TaskPool WITH
    Workers <- PoolWorkers, Callers <- ResolvWorkers \cup {Loop},
    Jobs <- AsyncRequests \cup PipeJobs, EndlessJobs <- PipeJobs,
    tasks <- ttasks, shutdown <- tshutdown, wpc <- twpc, job <- tjob,
    cpc <- tcpc, started <- tstarted

\* What an addr may hold: nothing yet, or what a request's host resolved to.
Unresolved == [host |-> {}]
Resolved(r) == [host |-> {r}]
Addresses  == {Unresolved} \cup {Resolved(r) : r \in Requests}

TypeOK ==
    /\ RP!TypeOK /\ TP!TypeOK
    /\ at \in [ResolvWorkers -> {"none", "resolv", "answer", "answered"}]
    /\ copied \in [ResolvWorkers -> Addresses]
    /\ parsed \in [Requests -> Addresses]
    /\ is_done \in [Requests -> BOOLEAN]
    /\ carried \in [AsyncRequests -> Addresses]
    /\ answer \in [Requests -> Seq(Addresses)]

Init ==
    /\ RP!Init /\ TP!Init
    /\ at = [w \in ResolvWorkers |-> "none"]
    /\ copied = [w \in ResolvWorkers |-> Unresolved]
    /\ parsed = [r \in Requests |-> Unresolved]
    /\ is_done = [r \in Requests |-> FALSE]
    /\ carried = [r \in AsyncRequests |-> Unresolved]
    /\ answer = [r \in Requests |-> <<>>]
-----------------------------------------------------------------------------
(* The caller of request r.                                                *)

\* create_resolv_task() up to its notify_one().
Create(r) ==
    /\ RP!Execute(r, r)
    /\ UNCHANGED <<tvars, taskvars>>

Notify(r) ==
    /\ RP!NotifyOne(r)
    /\ UNCHANGED <<tvars, taskvars>>

Give(r, a) == answer' = [answer EXCEPT ![r] = Append(@, a)]

\* A mutation of SyncReturn: the caller does not wait.
ReturnAtOnce(r) ==
    /\ r \in SyncRequests /\ answer[r] = <<>>
    /\ RP!Executed(r) /\ rcpc[r] = "idle"
    /\ Give(r, parsed[r])
    /\ UNCHANGED <<rvars, tvars, at, copied, parsed, is_done, carried>>

\* The rest of resolv_ipv4_sync(): wait() or wait_for(), and the copy.
SyncReturn(r) ==
    /\ r \in SyncRequests /\ answer[r] = <<>>
    /\ RP!Executed(r) /\ rcpc[r] = "idle"
    /\ is_done[r]
    /\ Give(r, parsed[r])
    /\ UNCHANGED <<rvars, tvars, at, copied, parsed, is_done, carried>>
-----------------------------------------------------------------------------
(* A resolver thread.                                                      *)

Goto(w, pc) == at' = [at EXCEPT ![w] = pc]

\* It takes a task and copies its address and callback, with mtx_ held.
Take(w) ==
    /\ RP!Take(w)
    /\ copied' = [copied EXCEPT ![w] = parsed[Head(rtasks)]]
    /\ Goto(w, "resolv")
    /\ UNCHANGED <<tvars, parsed, is_done, carried, answer>>

\* resolv(): getaddrinfo() finds an address, or none; nobody asks which.
Resolv(w) ==
    /\ at[w] = "resolv"
    /\ LET r == Head(rjob[w])
       IN  \E a \in {Resolved(r), parsed[r]} : parsed' = [parsed EXCEPT ![r] = a]
    /\ Goto(w, "answer")
    /\ UNCHANGED <<rvars, tvars, copied, is_done, carried, answer>>

\* A mutation of Signal: nobody is woken.
NoSignal(w) ==
    /\ at[w] = "answer" /\ Head(rjob[w]) \in SyncRequests
    /\ Goto(w, "answered")
    /\ UNCHANGED <<rvars, tvars, copied, parsed, is_done, carried, answer>>

Signal(w) ==
    /\ at[w] = "answer" /\ Head(rjob[w]) \in SyncRequests
    /\ is_done' = [is_done EXCEPT ![Head(rjob[w])] = TRUE]
    /\ Goto(w, "answered")
    /\ UNCHANGED <<rvars, tvars, copied, parsed, carried, answer>>

\* taskpool::execute() of the callback with the address copied above.
ExecuteCallback(w) ==
    /\ at[w] = "answer" /\ Head(rjob[w]) \in AsyncRequests
    /\ LET r == Head(rjob[w])
       IN  /\ TP!Execute(w, r)
           /\ carried' = [carried EXCEPT ![r] = copied[w]]
    /\ Goto(w, "answered")
    /\ UNCHANGED <<rvars, copied, parsed, is_done, answer>>

\* Its notify_one(), or the loop's.
PoolNotify(c) ==
    /\ TP!NotifyOne(c)
    /\ UNCHANGED <<rvars, taskvars>>

\* The thread goes back to its loop.
Return(w) ==
    /\ at[w] = "answered" /\ tcpc[w] = "idle"
    /\ RP!Return(w)
    /\ Goto(w, "none")
    /\ UNCHANGED <<tvars, copied, parsed, is_done, carried, answer>>

ResolverIdles(w) ==
    /\ RP!Wait(w) \/ RP!WakeSpuriously(w) \/ RP!Exit(w)
    /\ UNCHANGED <<tvars, taskvars>>
-----------------------------------------------------------------------------
(* The task pool.                                                          *)

\* The loop gives it the event of a pipe.
PipeEvent(p) ==
    /\ TP!Execute(Loop, p)
    /\ UNCHANGED <<rvars, taskvars>>

PoolTakes(v) ==
    /\ TP!Take(v) \/ TP!Wait(v) \/ TP!WakeSpuriously(v)
    /\ UNCHANGED <<rvars, taskvars>>

\* The callback runs.
RunCallback(v) ==
    /\ TP!Return(v)
    /\ LET r == Head(tjob[v]) IN Give(r, carried[r])
    /\ UNCHANGED <<rvars, at, copied, parsed, is_done, carried>>

\* The process ends.  The pools are destroyed one after the other, and the
\* threads of the first one use it after that (see TaskPool, NotifyAll): here
\* it is the resolver's, which may have been made after the task pool.
ProcessEnds ==
    /\ RP!SetShutdown \/ RP!NotifyAll
    /\ UNCHANGED <<tvars, taskvars>>
-----------------------------------------------------------------------------
Caller(r)   == Create(r) \/ Notify(r) \/ SyncReturn(r)
Resolves(w) == \/ Take(w) \/ Resolv(w) \/ Signal(w) \/ ExecuteCallback(w)
               \/ PoolNotify(w) \/ Return(w)
Next ==
    /\ rshutdown # "gone"
    /\ \/ \E r \in Requests : Caller(r)
       \/ \E w \in ResolvWorkers : Resolves(w) \/ ResolverIdles(w)
       \/ \E p \in PipeJobs : PipeEvent(p)
       \/ PoolNotify(Loop)
       \/ \E v \in PoolWorkers : PoolTakes(v) \/ RunCallback(v)
       \/ ProcessEnds

Spec == Init /\ [][Next]_vars
-----------------------------------------------------------------------------
(* Properties.                                                             *)

\* In neither pool does a thread sleep on work that nobody else will take: see
\* TaskPool.  A resolver thread is a worker of one and a caller of the other.
NobodySleepsOnWork == RP!NoSleepOnWork /\ TP!NoSleepOnWork

\* Both pools start their jobs once each, in the order of the calls.
PoolsAreFifos == RP!JobsStartInOrder /\ TP!JobsStartInOrder

\* A request is answered once, and the address a synchronous caller copies out
\* of the task is final: no resolver thread writes it any more.
OneFinalAnswer ==
    \A r \in Requests :
        /\ Len(answer[r]) <= 1
        /\ r \in SyncRequests /\ answer[r] # <<>> => answer[r] = <<parsed[r]>>

\* resolv.h, "async mode: do not call wait(), set cb": the callback is given
\* what the resolution found.
CallbacksGetTheAddress ==
    \A r \in AsyncRequests : answer[r] # <<>> => answer[r] = <<parsed[r]>>

\* Fairness: the threads run, callers included once they have made the request.
Fairness ==
    /\ \A r \in Requests : WF_vars(Notify(r)) /\ WF_vars(SyncReturn(r))
    /\ \A w \in ResolvWorkers : WF_vars(Resolves(w))
    /\ WF_vars(PoolNotify(Loop))
    /\ \A v \in PoolWorkers : WF_vars(PoolTakes(v) \/ RunCallback(v))
FairSpec == Spec /\ Fairness

\* Every request is answered, unless the process ends, while the connections
\* that wait for input do not hold every thread of the task pool.
EveryRequestIsAnswered ==
    Cardinality(PipeJobs) < Cardinality(PoolWorkers) =>
        \A r \in Requests :
            RP!Executed(r) ~> answer[r] # <<>> \/ rshutdown # "no"
=============================================================================
