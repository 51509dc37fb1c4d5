-------------------------------- MODULE Pipe --------------------------------
(***************************************************************************)
(* channel/pipe.{h,cc}: one established connection.  User threads queue    *)
(* read and write tasks, the event loop hands the events of the descriptor *)
(* to the task pool, and the workers of the pool perform the tasks.        *)
(*                                                                         *)
(* pipe::mtx is held across the steps of an operation only while it waits  *)
(* for event::mtx (Event) or while a worker decides what to do next; a     *)
(* worker releases it around the readv/writev and the task's callback.     *)
(* One unit of data stands for what one readv or writev moves.             *)
(***************************************************************************)
EXTENDS Integers, Sequences, Event, Status

CONSTANTS
    ReadTasks, WriteTasks,  \* the tasks users add, each by a call of its own
    AsyncTasks,             \* the write tasks of sendmsg_async
    BadTasks,               \* the read tasks that find an illegal size
    Workers,                \* the threads of the task pool
    Loop,                   \* the thread of reactor::eventloop
    BackoffGarbage,         \* what the uninitialised backoff may hold
    CanClose,               \* some user calls pipe::close
    CanShut, CanReset,      \* the peer may shut down, may reset
    MaxData,                \* bound: units the peer sends
    SendBuf,                \* units the kernel's send buffer holds
    MaxFaults,              \* bound: I/O errors that no peer causes
    MaxDefer                \* bound: backoff resubmissions outstanding at once

Tasks   == ReadTasks \cup WriteTasks
Threads == Tasks \cup Workers \cup {Loop}

ASSUME TasksAssumption ==
    /\ ReadTasks \cap WriteTasks = {}
    /\ AsyncTasks \subseteq WriteTasks
    /\ BadTasks \subseteq ReadTasks
ASSUME ThreadsAssumption ==
    /\ Tasks \cap Workers = {}
    /\ Loop \notin Tasks \cup Workers
    /\ NoThread \notin Threads
ASSUME BoundsAssumption ==
    /\ MaxData \in Nat /\ SendBuf \in Nat /\ MaxFaults \in Nat /\ MaxDefer \in Nat
    /\ {CanClose, CanShut, CanReset} \subseteq BOOLEAN
ASSUME BackoffAssumption == \A b \in BackoffGarbage : b \in Nat /\ b < 2^16

backoff_max               == 5120
backoff_subjectively_down == 2000
backoff_base              == 22

VARIABLES
    \* the pipe
    mtx, closed, reads, writes, backoff,
    \* the thread that calls add_read or add_write for a task
    call,
    \* the event loop: where it is, the events it got, destroy callbacks in
    \* its queue, whether it has deleted the event, backoff timers pending
    lpc, ev, destroyq, deleted, deferred,
    \* the task pool: its queue and, of each worker, where it is, its job,
    \* the task at hand and the status of the last I/O
    pool, wpc, job, cur, res,
    \* the socket: units arrived and taken, tasks written, how many the peer
    \* has drained, end of stream, pending error, connection gone
    arrived, taken, sent, drained, eof, err, hup, faults,
    \* the units each read task was filled with
    got,
    \* the process was killed or ran into undefined behaviour
    crashed

pipevars == <<mtx, closed, reads, writes, backoff>>
loopvars == <<lpc, ev, destroyq, deleted, deferred>>
workvars == <<wpc, job, cur, res>>
sockvars == <<arrived, taken, sent, drained, eof, err, hup, faults, got>>
vars == <<evvars, pipevars, call, loopvars, pool, workvars, sockvars, crashed>>

NoTask == NoThread
EventJob(evflag) == [kind |-> "event", evflag |-> evflag]
ResubmitJob      == [kind |-> "resubmit", evflag |-> {}]
Jobs == [kind : {"event", "resubmit"}, evflag : SUBSET InOut]

WorkerPCs == {"idle", "start", "rloop", "rio", "rdone",
              "wloop", "wio", "wdone", "both", "resubmit"}
Statuses == {NullState} \cup
            {NewState(c, <<>>, ZeroValue) :
                c \in {StatusError, StatusFault, StatusFailure}}

PipeTypeOK ==
    /\ mtx \in Threads \cup {NoThread}
    /\ closed \in BOOLEAN
    /\ reads \in Seq(ReadTasks)
    /\ writes \in Seq(WriteTasks)
    /\ backoff \in Nat /\ backoff < 2^16
    /\ call \in [Tasks -> {"new", "submit", "queued", "dropped", "removed"}]

LoopTypeOK ==
    /\ lpc \in {"wait", "consume", "close", "drain"}
    /\ ev \subseteq InOut \cup {EPOLLERR}
    /\ evmtx \in {Loop, NoThread}
    /\ destroyq \in Nat
    /\ deleted \in BOOLEAN
    /\ deferred \in 0..MaxDefer
    /\ pool \in Seq(Jobs)

WorkTypeOK ==
    /\ wpc \in [Workers -> WorkerPCs]
    /\ job \in [Workers -> Jobs]
    /\ cur \in [Workers -> Tasks \cup {NoTask}]
    /\ res \in [Workers -> Statuses]
    /\ \A w \in Workers : wpc[w] = "rio" => cur[w] \in ReadTasks
    /\ \A w \in Workers : wpc[w] = "wio" => cur[w] \in WriteTasks

SockTypeOK ==
    /\ arrived \in 0..MaxData
    /\ taken \in 0..MaxData
    /\ sent \in Seq(WriteTasks)
    /\ drained \in Nat
    /\ eof \in BOOLEAN /\ err \in BOOLEAN /\ hup \in BOOLEAN
    /\ faults \in 0..MaxFaults
    /\ got \in [ReadTasks -> Seq(1..MaxData)]
    /\ crashed \in BOOLEAN

TypeOK == EventTypeOK /\ PipeTypeOK /\ LoopTypeOK /\ WorkTypeOK /\ SockTypeOK

Init ==
    /\ EventInit
    /\ mtx = NoThread
    /\ closed = FALSE
    /\ reads = <<>>
    /\ writes = <<>>
    /\ backoff \in BackoffGarbage
    /\ call = [t \in Tasks |-> "new"]
    /\ lpc = "wait"
    /\ ev = {}
    /\ destroyq = 0
    /\ deleted = FALSE
    /\ deferred = 0
    /\ pool = <<>>
    /\ wpc = [w \in Workers |-> "idle"]
    /\ job = [w \in Workers |-> ResubmitJob]
    /\ cur = [w \in Workers |-> NoTask]
    /\ res = [w \in Workers |-> NullState]
    /\ arrived = 0
    /\ taken = 0
    /\ sent = <<>>
    /\ drained = 0
    /\ eof = FALSE
    /\ err = FALSE
    /\ hup = FALSE
    /\ faults = 0
    /\ got = [t \in ReadTasks |-> <<>>]
    /\ crashed = FALSE
-----------------------------------------------------------------------------
(* The kernel, as epoll_wait, readv and writev show it.                    *)

Readable == taken < arrived
Writable == Len(sent) - drained < SendBuf

Ready == (IF Readable \/ eof \/ hup THEN {EPOLLIN} ELSE {})
         \cup (IF Writable \/ hup THEN {EPOLLOUT} ELSE {})
         \cup (IF err THEN {EPOLLERR} ELSE {})

PeerSends ==
    /\ arrived < MaxData /\ ~eof /\ ~hup
    /\ arrived' = arrived + 1
    /\ UNCHANGED <<evvars, pipevars, call, loopvars, pool, workvars,
                   taken, sent, drained, eof, err, hup, faults, got, crashed>>

PeerDrains ==
    /\ drained < Len(sent) /\ ~hup
    /\ drained' = drained + 1
    /\ UNCHANGED <<evvars, pipevars, call, loopvars, pool, workvars,
                   arrived, taken, sent, eof, err, hup, faults, got, crashed>>

PeerShuts ==
    /\ CanShut /\ ~eof /\ ~hup
    /\ eof' = TRUE
    /\ UNCHANGED <<evvars, pipevars, call, loopvars, pool, workvars, arrived,
                   taken, sent, drained, err, hup, faults, got, crashed>>

PeerResets ==
    /\ CanReset /\ ~hup
    /\ hup' = TRUE
    /\ err' = TRUE
    /\ UNCHANGED <<evvars, pipevars, call, loopvars, pool, workvars, arrived,
                   taken, sent, drained, eof, faults, got, crashed>>
-----------------------------------------------------------------------------
(* dosubmit_read, dosubmit_write and dosubmit_both, with pipe::mtx held.   *)

WantedEvents == (IF reads # <<>> THEN {EPOLLIN} ELSE {})
                \cup (IF writes # <<>> THEN {EPOLLOUT} ELSE {})

DoSubmit(evflag) ==
    IF closed \/ evflag = {} THEN UNCHANGED evvars ELSE Submit(evflag)

\* A mutation of DoSubmitRead and DoSubmitWrite: the list is empty, not full.
DoSubmitNothing == DoSubmit({})

DoSubmitRead  == DoSubmit(WantedEvents \cap {EPOLLIN})
DoSubmitWrite == DoSubmit(WantedEvents \cap {EPOLLOUT})
DoSubmitBoth  == DoSubmit(WantedEvents)

\* doclose(): the tasks' on_pipe_closed does nothing, please_destroy_me
\* queues the deletion of the event.
DoClose ==
    /\ closed' = TRUE
    /\ destroyq' = destroyq + 1
-----------------------------------------------------------------------------
(* User threads.                                                           *)

\* add_read(t), doadd_read(lk, t).
AddRead(t) ==
    /\ call[t] = "new"
    /\ mtx = NoThread
    /\ IF closed
       THEN /\ call' = [call EXCEPT ![t] = "dropped"]
            /\ UNCHANGED <<reads, mtx>>
       ELSE /\ reads' = Append(reads, t)
            /\ IF Len(reads') = 1
               THEN mtx' = t /\ call' = [call EXCEPT ![t] = "submit"]
               ELSE call' = [call EXCEPT ![t] = "queued"] /\ UNCHANGED mtx
    /\ UNCHANGED <<evvars, closed, writes, backoff, loopvars, pool, workvars,
                   sockvars, crashed>>

\* add_write(t), doadd_write(lk, t).
AddWrite(t) ==
    /\ call[t] = "new"
    /\ mtx = NoThread
    /\ IF closed
       THEN /\ call' = [call EXCEPT ![t] = "dropped"]
            /\ UNCHANGED <<writes, mtx>>
       ELSE /\ writes' = Append(writes, t)
            /\ IF Len(writes') = 1
               THEN mtx' = t /\ call' = [call EXCEPT ![t] = "submit"]
               ELSE call' = [call EXCEPT ![t] = "queued"] /\ UNCHANGED mtx
    /\ UNCHANGED <<evvars, closed, reads, backoff, loopvars, pool, workvars,
                   sockvars, crashed>>

\* The rest of add_read(t) and add_write(t) on a list that was empty.
AddSubmit(t) ==
    /\ call[t] = "submit"
    /\ IF t \in ReadTasks THEN DoSubmitRead ELSE DoSubmitWrite
    /\ mtx' = NoThread
    /\ call' = [call EXCEPT ![t] = "queued"]
    /\ UNCHANGED <<closed, reads, writes, backoff, loopvars, pool, workvars,
                   sockvars, crashed>>

\* std::list::remove(t); a task is in a list at most once.
Without(list, t) ==
    IF \E i \in DOMAIN list : list[i] = t
    THEN LET i == CHOOSE i \in DOMAIN list : list[i] = t
         IN  SubSeq(list, 1, i - 1) \o SubSeq(list, i + 1, Len(list))
    ELSE list

\* remove_read(t), which recvmsg and recv_multipart_msg call when the
\* callback of their task has reported an illegal size.
RemoveRead(t) ==
    /\ t \in BadTasks
    /\ call[t] = "queued" /\ got[t] # <<>>
    /\ mtx = NoThread
    /\ reads' = IF closed THEN reads ELSE Without(reads, t)
    /\ call' = [call EXCEPT ![t] = "removed"]
    /\ UNCHANGED <<evvars, mtx, closed, writes, backoff, loopvars, pool,
                   workvars, sockvars, crashed>>

\* A mutation of Close: it does not ask whether the pipe is closed already.
CloseAgain ==
    /\ CanClose /\ destroyq < 2
    /\ mtx = NoThread
    /\ DoClose
    /\ UNCHANGED <<evvars, mtx, reads, writes, backoff, call, lpc, ev, deleted,
                   deferred, pool, workvars, sockvars, crashed>>

\* close()
Close ==
    /\ CanClose
    /\ mtx = NoThread
    /\ ~closed
    /\ DoClose
    /\ UNCHANGED <<evvars, mtx, reads, writes, backoff, call, lpc, ev, deleted,
                   deferred, pool, workvars, sockvars, crashed>>
-----------------------------------------------------------------------------
(* The event loop.                                                         *)

\* epoll_wait() returns an event of the pipe.
EpollWait ==
    /\ lpc = "wait"
    /\ LET r == armed \cap Ready
       IN  r # {} /\ ev' = r /\ Report(r)
    /\ lpc' = "consume"
    /\ UNCHANGED <<pipevars, call, destroyq, deleted, deferred, pool, workvars,
                   sockvars, crashed>>

\* epoll_wait() returns because please_destroy_me sent the eventfd.
EpollWake ==
    /\ lpc = "wait"
    /\ destroyq > 0
    /\ lpc' = "drain"
    /\ UNCHANGED <<evvars, pipevars, call, ev, destroyq, deleted, deferred,
                   pool, workvars, sockvars, crashed>>

\* reactor::consume, event::consume, pipe::pipe_cb.  close() needs pipe::mtx
\* while event::mtx is held.
ConsumeEvent ==
    /\ lpc = "consume"
    /\ IF EPOLLERR \in ev
       THEN /\ Consume(ev, Loop)
            /\ lpc' = "close"
            /\ UNCHANGED pool
       ELSE /\ Consume(ev, NoThread)
            /\ lpc' = "drain"
            /\ pool' = Append(pool, EventJob(ev))
    /\ ev' = {}
    /\ UNCHANGED <<pipevars, call, destroyq, deleted, deferred, workvars,
                   sockvars, crashed>>

ConsumeClose ==
    /\ lpc = "close"
    /\ mtx = NoThread
    /\ IF closed THEN UNCHANGED <<closed, destroyq>> ELSE DoClose
    /\ ConsumeReturn
    /\ lpc' = "drain"
    /\ UNCHANGED <<mtx, reads, writes, backoff, call, ev, deleted, deferred,
                   pool, workvars, sockvars, crashed>>

\* The callbacks in the loop's queue run after the events of the batch.
DrainDestroy ==
    /\ lpc = "drain"
    /\ destroyq > 0
    /\ destroyq' = destroyq - 1
    /\ deleted' = TRUE
    /\ Unregister
    /\ UNCHANGED <<pipevars, call, lpc, ev, deferred, pool, workvars, sockvars,
                   crashed>>

DrainDone ==
    /\ lpc = "drain"
    /\ destroyq = 0
    /\ lpc' = "wait"
    /\ UNCHANGED <<evvars, pipevars, call, ev, destroyq, deleted, deferred,
                   pool, workvars, sockvars, crashed>>

\* A backoff timer expires: timer::handle_expired_timeouts runs the
\* connection's backoff_routine in the task pool.
TimerFires ==
    /\ lpc = "wait"
    /\ deferred > 0
    /\ deferred' = deferred - 1
    /\ pool' = Append(pool, ResubmitJob)
    /\ UNCHANGED <<evvars, pipevars, call, lpc, ev, destroyq, deleted, workvars,
                   sockvars, crashed>>
-----------------------------------------------------------------------------
(* The workers of the task pool.                                           *)

Goto(w, pc) == wpc' = [wpc EXCEPT ![w] = pc]

\* taskpool: a worker takes the job at the front of the queue.
TakeJob(w) ==
    /\ wpc[w] = "idle"
    /\ pool # <<>>
    /\ job' = [job EXCEPT ![w] = Head(pool)]
    /\ pool' = Tail(pool)
    /\ Goto(w, "start")
    /\ UNCHANGED <<evvars, pipevars, call, loopvars, cur, res, sockvars, crashed>>

\* Where the job goes when doread() is over or was not asked for.
AfterRead(w, isclosed) ==
    IF EPOLLOUT \in job[w].evflag /\ ~isclosed THEN "wloop" ELSE "both"

\* The job locks pipe::mtx; doread() returns at once on a closed pipe.
StartJob(w) ==
    /\ wpc[w] = "start"
    /\ mtx = NoThread
    /\ mtx' = w
    /\ Goto(w, CASE job[w].kind = "resubmit" -> "resubmit"
                 [] job[w].kind = "event" ->
                        IF EPOLLIN \in job[w].evflag /\ ~closed
                        THEN "rloop" ELSE AfterRead(w, closed))
    /\ UNCHANGED <<evvars, closed, reads, writes, backoff, call, loopvars, pool,
                   job, cur, res, sockvars, crashed>>

\* doread(): the head of the loop.  The lock is released around the I/O.
ReadNext(w) ==
    /\ wpc[w] = "rloop"
    /\ IF reads = <<>>
       THEN Goto(w, AfterRead(w, closed)) /\ UNCHANGED <<mtx, cur>>
       ELSE /\ cur' = [cur EXCEPT ![w] = Head(reads)]
            /\ mtx' = NoThread
            /\ Goto(w, "rio")
    /\ UNCHANGED <<evvars, closed, reads, writes, backoff, call, loopvars, pool,
                   job, res, sockvars, crashed>>

IOReturns(w, pc, s) ==
    /\ res' = [res EXCEPT ![w] = s]
    /\ Goto(w, pc)
    /\ UNCHANGED <<evvars, pipevars, call, lpc, ev, destroyq, deleted, pool,
                   job, cur, crashed>>

Success     == NullState
PeerClosed  == NewState(StatusError, <<>>, ZeroValue)
TryAgain    == NewState(StatusFailure, <<>>, ZeroValue)
Unfatal     == NewState(StatusFault, <<>>, ZeroValue)

\* on_recoverable_failure of the tasks of basic_connection: a send_async_task
\* gives up when the backoff is large, all others defer a resubmission.
GivesUp(t) == t \in AsyncTasks /\ backoff_base + backoff >= backoff_subjectively_down
TooManyTimers == deferred = MaxDefer \/ \E i \in DOMAIN pool : pool[i].kind = "resubmit"
Recover(t) ==
    deferred' = IF GivesUp(t) \/ TooManyTimers THEN deferred ELSE deferred + 1

\* readv() and the callback, for each way readv returns; EINTR only repeats.
ReadvData(w) ==
    /\ wpc[w] = "rio"
    /\ ~deleted /\ Readable
    /\ taken' = taken + 1
    /\ got' = [got EXCEPT ![cur[w]] = Append(@, taken + 1)]
    /\ IOReturns(w, "rdone", Success)
    /\ UNCHANGED <<deferred, arrived, sent, drained, eof, err, hup, faults>>

ReadvAgain(w) ==
    /\ wpc[w] = "rio"
    /\ ~deleted /\ ~Readable /\ ~err /\ ~eof /\ ~hup
    /\ IOReturns(w, "rdone", TryAgain)
    /\ UNCHANGED <<deferred, sockvars>>

ReadvEnd(w) ==
    /\ wpc[w] = "rio"
    /\ ~deleted /\ ~Readable /\ ~err /\ (eof \/ hup)
    /\ IOReturns(w, "rdone", PeerClosed)
    /\ UNCHANGED <<deferred, sockvars>>

\* An error: the pending one of a reset connection, EBADF once the event is
\* deleted and its descriptor closed, or one the peer has no part in.
IOError(w, pc) ==
    /\ \/ deleted /\ UNCHANGED <<err, faults>>
       \/ ~deleted /\ err /\ err' = FALSE /\ UNCHANGED faults
       \/ ~deleted /\ faults < MaxFaults /\ faults' = faults + 1 /\ UNCHANGED err
    /\ Recover(cur[w])
    /\ IOReturns(w, pc, Unfatal)
    /\ UNCHANGED <<arrived, taken, sent, drained, eof, hup, got>>

ReadvError(w) ==
    /\ wpc[w] = "rio"
    /\ IOError(w, "rdone")

AdjustBackoff(b) ==
    IF b # 0 THEN (IF b < backoff_max THEN (b * 2) % 2^16 ELSE b) ELSE 10

\* The task at hand and its status are locals of one turn of the loop.
ForgetIO(w) ==
    /\ cur' = [cur EXCEPT ![w] = NoTask]
    /\ res' = [res EXCEPT ![w] = NullState]

\* A mutation of PopFront: the other end of the list.
PopBack(list)  == SubSeq(list, 1, Len(list) - 1)
PopFront(list) == Tail(list)

\* doread(): the lock is taken again and the status decides.  pop_front() of
\* an empty list frees the list's own header: the process ends there.
ReadDone(w) ==
    /\ wpc[w] = "rdone"
    /\ mtx = NoThread
    /\ mtx' = w
    /\ LET s == res[w]
           popEmpty == IsSuccess(s) /\ reads = <<>>
       IN  /\ crashed' = popEmpty
           /\ reads' = IF IsSuccess(s) /\ ~popEmpty THEN PopFront(reads) ELSE reads
           /\ backoff' = CASE IsSuccess(s) \/ IsFailure(s) -> 0
                           [] IsFault(s) -> AdjustBackoff(backoff)
                           [] OTHER -> backoff
           /\ IF IsError(s) THEN DoClose ELSE UNCHANGED <<closed, destroyq>>
           /\ Goto(w, IF IsFailure(s) \/ IsError(s)
                      THEN AfterRead(w, closed') ELSE "rloop")
    /\ ForgetIO(w)
    /\ UNCHANGED <<evvars, writes, call, lpc, ev, deleted, deferred, pool, job,
                   sockvars>>

\* dowrite(): the head of the loop.
WriteNext(w) ==
    /\ wpc[w] = "wloop"
    /\ IF writes = <<>>
       THEN Goto(w, "both") /\ UNCHANGED <<mtx, cur>>
       ELSE /\ cur' = [cur EXCEPT ![w] = Head(writes)]
            /\ mtx' = NoThread
            /\ Goto(w, "wio")
    /\ UNCHANGED <<evvars, closed, reads, writes, backoff, call, loopvars, pool,
                   job, res, sockvars, crashed>>

WritevData(w) ==
    /\ wpc[w] = "wio"
    /\ ~deleted /\ ~err /\ ~hup /\ Writable
    /\ sent' = Append(sent, cur[w])
    /\ IOReturns(w, "wdone", Success)
    /\ UNCHANGED <<deferred, arrived, taken, drained, eof, err, hup, faults, got>>

WritevAgain(w) ==
    /\ wpc[w] = "wio"
    /\ ~deleted /\ ~err /\ ~hup /\ ~Writable
    /\ IOReturns(w, "wdone", TryAgain)
    /\ UNCHANGED <<deferred, sockvars>>

WritevError(w) ==
    /\ wpc[w] = "wio"
    /\ IOError(w, "wdone")

\* EPIPE comes with SIGPIPE, which no code of the library blocks or ignores.
WritevKilled(w) ==
    /\ wpc[w] = "wio"
    /\ ~deleted /\ ~err /\ hup
    /\ crashed' = TRUE
    /\ UNCHANGED <<evvars, pipevars, call, loopvars, pool, workvars, sockvars>>

WriteDone(w) ==
    /\ wpc[w] = "wdone"
    /\ mtx = NoThread
    /\ mtx' = w
    /\ LET s == res[w]
           popEmpty == IsSuccess(s) /\ writes = <<>>
       IN  /\ crashed' = popEmpty
           /\ writes' = IF IsSuccess(s) /\ ~popEmpty THEN PopFront(writes) ELSE writes
           /\ IF IsError(s) THEN DoClose ELSE UNCHANGED <<closed, destroyq>>
           /\ Goto(w, IF IsFailure(s) \/ IsError(s) THEN "both" ELSE "wloop")
    /\ ForgetIO(w)
    /\ UNCHANGED <<evvars, reads, backoff, call, lpc, ev, deleted, deferred,
                   pool, job, sockvars>>

\* The job's dosubmit_both(), or resubmit_write() of the backoff timer; both
\* then release pipe::mtx.
JobSubmits(w) ==
    /\ wpc[w] \in {"both", "resubmit"}
    /\ IF wpc[w] = "both" THEN DoSubmitBoth ELSE DoSubmitWrite
    /\ mtx' = NoThread
    /\ Goto(w, "idle")
    /\ job' = [job EXCEPT ![w] = ResubmitJob]
    /\ UNCHANGED <<closed, reads, writes, backoff, call, loopvars, pool, cur,
                   res, sockvars, crashed>>
-----------------------------------------------------------------------------
Worker(w) ==
    \/ TakeJob(w)    \/ StartJob(w)   \/ JobSubmits(w)
    \/ ReadNext(w)   \/ ReadvData(w)  \/ ReadvAgain(w)  \/ ReadvEnd(w)
    \/ ReadvError(w) \/ ReadDone(w)
    \/ WriteNext(w)  \/ WritevData(w) \/ WritevAgain(w) \/ WritevKilled(w)
    \/ WritevError(w) \/ WriteDone(w)

EventLoop == \/ EpollWait \/ EpollWake \/ ConsumeEvent \/ ConsumeClose
             \/ DrainDestroy \/ DrainDone \/ TimerFires

Peer == PeerSends \/ PeerDrains \/ PeerShuts \/ PeerResets

User == \/ \E t \in ReadTasks : AddRead(t) \/ RemoveRead(t)
        \/ \E t \in WriteTasks : AddWrite(t)
        \/ \E t \in Tasks : AddSubmit(t)
        \/ Close

Next == ~crashed /\ (User \/ EventLoop \/ (\E w \in Workers : Worker(w)) \/ Peer)

Spec == Init /\ [][Next]_vars
-----------------------------------------------------------------------------
(* Properties.                                                             *)

\* Somebody is on the way to the dosubmit_both() at the end of an event job
\* or to the close() of an error event.
EventInLoop == lpc \in {"consume", "close"}
JobQueued   == \E i \in 1..Len(pool) : pool[i].kind = "event"
JobRunning  == \E w \in Workers : wpc[w] # "idle" /\ job[w].kind = "event"
OnTheWay    == EventInLoop \/ JobQueued \/ JobRunning
Submitting(T) == \E t \in T : call[t] = "submit"

\* No lost wakeup: while an open pipe has read tasks, epoll watches for input,
\* or a thread is on the way to ask for it; the same for write tasks and
\* output.  (One-shot events are disarmed by every report, submit() replaces
\* the watched events, and consume() clears flags a user may have just set:
\* event::evmask and the submits of the pipe must make up for all of it.)
NoLostWakeup ==
    ~closed =>
        /\ reads # <<>> =>
               EPOLLIN \in armed \/ OnTheWay \/ Submitting(ReadTasks)
        /\ writes # <<>> =>
               EPOLLOUT \in armed \/ OnTheWay \/ Submitting(WriteTasks)

\* The event object outlives every use the loop makes of it: it is deleted at
\* most once, only after the pipe was closed, and never while the loop still
\* holds a report of it that it has not consumed.
EventOutlivesReports ==
    /\ destroyq + (IF deleted THEN 1 ELSE 0) <= 1
    /\ (destroyq > 0 \/ deleted) => closed
    /\ EventInLoop => ~deleted

\* reactor.h, "each event can only be processed by one worker thread": no two
\* workers are in doread(), and no two in dowrite(), of the same pipe.
Reading(w) == wpc[w] \in {"rloop", "rio", "rdone"}
Writing(w) == wpc[w] \in {"wloop", "wio", "wdone"}
OneWorkerPerDirection ==
    \A v, w \in Workers : v # w =>
        ~(Reading(v) /\ Reading(w)) /\ ~(Writing(v) /\ Writing(w))

\* iotask.cc, "the conn object will always try to coomplete it as long as the
\* task reserved in the list": a task leaves the list only when it has been
\* performed.
TasksIn(list) == {list[i] : i \in DOMAIN list}
NoTaskDropped ==
    [][ /\ \A t \in TasksIn(reads) \ TasksIn(reads') : got[t] # <<>>
        /\ \A t \in TasksIn(writes) \ TasksIn(writes') : t \in TasksIn(sent) ]_vars

\* The loop never holds event::mtx waiting for pipe::mtx while the owner of
\* pipe::mtx waits for event::mtx.
NoLockCycle ==
    ~ /\ lpc = "close"
      /\ \/ \E w \in Workers : wpc[w] \in {"both", "resubmit"} /\ ~closed
                                   /\ WantedEvents # {}
         \/ Submitting(Tasks)

\* Fairness: the system schedules every thread that can take a step, and the
\* peer goes on reading.  A thread that waits for a mutex which is free again
\* and again gets it in the end (the SF conjuncts); users need not call.
WaitsForMtx(w) == StartJob(w) \/ ReadDone(w) \/ WriteDone(w)
Fairness ==
    /\ WF_vars(EventLoop) /\ SF_vars(ConsumeEvent) /\ SF_vars(ConsumeClose)
    /\ \A t \in Tasks : WF_vars(AddSubmit(t))
    /\ \A w \in Workers : WF_vars(Worker(w)) /\ SF_vars(WaitsForMtx(w))
    /\ WF_vars(PeerDrains)
FairSpec == Spec /\ Fairness

\* A write task in the list is written in the end, unless the pipe is closed.
EveryWriteIsSent ==
    \A t \in WriteTasks :
        (t \in TasksIn(writes)) ~> (t \in TasksIn(sent) \/ closed)

\* iotask.cc, "peer closed, so should we" (pipe.cc: "can't recover, we are
\* doomed"): the pipe is closed once a readv has met the end of the stream.
EndOfStreamCloses ==
    (\E w \in Workers : res[w] = PeerClosed) ~> closed

\* Input that has arrived is read while read tasks wait for it, unless the
\* pipe is closed.
InputIsRead ==
    (reads # <<>> /\ Readable) ~> (reads = <<>> \/ ~Readable \/ closed)
=============================================================================
