----------------------------- MODULE PipeProofs -----------------------------
(***************************************************************************)
(* Theorems about Pipe, for any number of tasks, workers and faults.       *)
(***************************************************************************)
EXTENDS Pipe, SequenceTheorems, TLAPS

(* The inductive invariant. *)

\* Only a job of the backoff timer reaches resubmit_write().
JobInv == \A w \in Workers :
    wpc[w] = "resubmit" => job[w].kind = "resubmit"

\* While a list of an open pipe is not empty and no thread is on the way to
\* submit, its event is in event::evmask as well as under watch: the next
\* submit() of the other event, which replaces what epoll watches, keeps it.
Covered(list, evflag, T) ==
    ~closed /\ list # <<>> /\ ~OnTheWay /\ ~Submitting(T) =>
        evflag \in armed /\ evflag \in evmask
CoverInv == Covered(reads, EPOLLIN, ReadTasks) /\ Covered(writes, EPOLLOUT, WriteTasks)

\* A deleted event is not registered, and a pipe asks for its deletion once.
DestroyInv ==
    /\ EventOutlivesReports
    /\ deleted => armed = {}

IInv == TypeOK /\ JobInv /\ CoverInv /\ DestroyInv
-----------------------------------------------------------------------------
(* The status of a failed readv or writev, as the loops read it. *)

\* status::code() looks at a byte of the value, and the value is 0: no failure
\* of readv or writev is an error, a fault or a failure to doread() and
\* dowrite(), which leave their loops for none of them.
THEOREM NoFailureIsRecognized ==
    ASSUME NEW s \in Statuses
    PROVE  ~IsError(s) /\ ~IsFault(s) /\ ~IsFailure(s)
<1>1. CASE s = NullState
  BY <1>1 DEF IsError, IsFault, IsFailure, Code, StatusSuccess, StatusError,
              StatusFault, StatusFailure
<1>2. CASE s # NullState
  <2>1. PICK c \in {StatusError, StatusFault, StatusFailure} :
            s = NewState(c, <<>>, ZeroValue)
    BY <1>2 DEF Statuses
  <2>2. s[4] = 0
    <3>1. Len(<<>>) = 0
      OBVIOUS
    <3>2. 4 \in 0..(9 + Len(<<>>))
      BY <3>1
    <3>3. s[4] = ZeroValue[4]
      BY <2>1, <3>2 DEF NewState
    <3> QED
      BY <3>3 DEF ZeroValue
  <2> QED
    BY <1>2, <2>2 DEF IsError, IsFault, IsFailure, Code, StatusError,
                      StatusFault, StatusFailure
<1> QED
  BY <1>1, <1>2

LEMMA StatusesKnown == {NullState, Success, PeerClosed, TryAgain, Unfatal} \subseteq Statuses
BY DEF Statuses, Success, PeerClosed, TryAgain, Unfatal

\* The lists keep the type of their tasks.
LEMMA PopFrontType ==
    ASSUME NEW T, NEW list \in Seq(T), list # <<>>
    PROVE  PopFront(list) \in Seq(T)
BY DEF PopFront

LEMMA WithoutType ==
    ASSUME NEW T, NEW list \in Seq(T), NEW t
    PROVE  /\ Without(list, t) \in Seq(T)
           /\ list = <<>> => Without(list, t) = <<>>
<1>1. CASE \E i \in DOMAIN list : list[i] = t
  <2> DEFINE i == CHOOSE i \in DOMAIN list : list[i] = t
  <2>1. i \in 1..Len(list)
    BY <1>1
  <2>2. Without(list, t) = SubSeq(list, 1, i - 1) \o SubSeq(list, i + 1, Len(list))
    BY <1>1 DEF Without
  <2> HIDE DEF i
  <2>3. \A j \in 1..Len(list) : list[j] \in T
    OBVIOUS
  <2>4. i - 1 \in Int /\ i + 1 \in Int /\ Len(list) \in Int
    BY <2>1
  <2>5. SubSeq(list, 1, i - 1) \in Seq(T)
    <3>1. \A j \in 1..(i - 1) : list[j] \in T
      BY <2>1, <2>3
    <3> QED
      BY <2>4, <3>1, SubSeqProperties
  <2>6. SubSeq(list, i + 1, Len(list)) \in Seq(T)
    <3>1. \A j \in (i + 1)..Len(list) : list[j] \in T
      BY <2>1, <2>3
    <3> QED
      BY <2>4, <3>1, SubSeqProperties
  <2>7. list # <<>>
    BY <2>1
  <2> QED
    BY <2>2, <2>5, <2>6, <2>7, ConcatProperties
<1>2. CASE ~ \E i \in DOMAIN list : list[i] = t
  BY <1>2 DEF Without
<1> QED
  BY <1>1, <1>2
-----------------------------------------------------------------------------
(* Type correctness. *)

LEMMA JobType == (\A e \in SUBSET (InOut \cup {EPOLLERR}) :
                      EPOLLERR \notin e => EventJob(e) \in Jobs)
                 /\ ResubmitJob \in Jobs
BY DEF EventJob, ResubmitJob, Jobs

LEMMA SubmitType ==
    ASSUME EventTypeOK, NEW evflag \in SUBSET InOut, DoSubmit(evflag)
    PROVE  EventTypeOK' /\ evmtx' = evmtx
BY DEF EventTypeOK, DoSubmit, Submit, evvars

LEMMA IOErrorType ==
    ASSUME TypeOK, NEW w \in Workers, NEW pc \in WorkerPCs, IOError(w, pc),
           pc \notin {"rio", "wio"}
    PROVE  TypeOK'
<1>1. EventTypeOK' /\ PipeTypeOK'
  BY DEF TypeOK, EventTypeOK, PipeTypeOK, IOError, IOReturns, evvars, pipevars
<1>2. LoopTypeOK'
  BY BoundsAssumption
  DEF TypeOK, LoopTypeOK, IOError, IOReturns, Recover, TooManyTimers, evvars
<1>3. WorkTypeOK'
  BY StatusesKnown DEF TypeOK, WorkTypeOK, IOError, IOReturns, Goto
<1>4. SockTypeOK'
  <2>1. faults' \in 0..MaxFaults
    BY BoundsAssumption DEF TypeOK, SockTypeOK, IOError
  <2>2. err' \in BOOLEAN
    BY DEF TypeOK, SockTypeOK, IOError
  <2> QED
    BY <2>1, <2>2 DEF TypeOK, SockTypeOK, IOError, IOReturns
<1> QED
  BY <1>1, <1>2, <1>3, <1>4 DEF TypeOK

LEMMA TypeInit == Init => TypeOK
<1> SUFFICES ASSUME Init PROVE TypeOK
  OBVIOUS
<1>1. EventTypeOK
  BY DEF Init, EventInit, EventTypeOK
<1>0. <<>> \in Seq(ReadTasks) /\ <<>> \in Seq(WriteTasks) /\ <<>> \in Seq(Jobs)
      /\ <<>> \in Seq(1..MaxData)
  OBVIOUS
<1>2. PipeTypeOK
  BY <1>0, BackoffAssumption DEF Init, PipeTypeOK
<1>3. 0 \in 0..MaxDefer /\ 0 \in 0..MaxFaults /\ 0 \in 0..MaxData
  BY BoundsAssumption
<1>4. LoopTypeOK
  BY <1>0, <1>3 DEF Init, EventInit, LoopTypeOK
<1>5. SockTypeOK
  BY <1>0, <1>3 DEF Init, SockTypeOK
<1>6. WorkTypeOK
  BY StatusesKnown, JobType DEF Init, WorkTypeOK, WorkerPCs
<1> QED
  BY <1>1, <1>2, <1>4, <1>5, <1>6 DEF TypeOK

LEMMA TypeNext == TypeOK /\ [Next]_vars => TypeOK'
<1> SUFFICES ASSUME TypeOK, [Next]_vars PROVE TypeOK'
  OBVIOUS
<1> USE BoundsAssumption
<1>1. ASSUME PeerSends PROVE TypeOK'
  BY <1>1
  DEF TypeOK, EventTypeOK, PeerSends, evvars, PipeTypeOK, pipevars,
      LoopTypeOK, loopvars, WorkTypeOK, WorkerPCs, workvars, SockTypeOK,
      sockvars
<1>2. ASSUME PeerDrains PROVE TypeOK'
  BY <1>2
  DEF TypeOK, EventTypeOK, PeerDrains, evvars, PipeTypeOK, pipevars,
      LoopTypeOK, loopvars, WorkTypeOK, WorkerPCs, workvars, SockTypeOK,
      sockvars
<1>3. ASSUME PeerShuts PROVE TypeOK'
  BY <1>3
  DEF TypeOK, EventTypeOK, PeerShuts, evvars, PipeTypeOK, pipevars,
      LoopTypeOK, loopvars, WorkTypeOK, WorkerPCs, workvars, SockTypeOK,
      sockvars
<1>4. ASSUME PeerResets PROVE TypeOK'
  BY <1>4
  DEF TypeOK, EventTypeOK, PeerResets, evvars, PipeTypeOK, pipevars,
      LoopTypeOK, loopvars, WorkTypeOK, WorkerPCs, workvars, SockTypeOK,
      sockvars
<1>5. ASSUME NEW t \in ReadTasks, AddRead(t) PROVE TypeOK'
  <2>1. EventTypeOK'
    BY <1>5
    DEF TypeOK, EventTypeOK, AddRead, evvars
  <2>2. PipeTypeOK'
    <3>1. reads' \in Seq(ReadTasks)
      BY <1>5 DEF TypeOK, PipeTypeOK, AddRead
    <3>2. mtx' \in Threads \cup {NoThread}
      BY <1>5 DEF TypeOK, PipeTypeOK, AddRead, Threads, Tasks
    <3>3. call' \in [Tasks -> {"new", "submit", "queued", "dropped", "removed"}]
      BY <1>5 DEF TypeOK, PipeTypeOK, AddRead, Tasks
    <3> QED
      BY <1>5, <3>1, <3>2, <3>3 DEF TypeOK, PipeTypeOK, AddRead
  <2>3. LoopTypeOK'
    BY <1>5
    DEF TypeOK, LoopTypeOK, AddRead, evvars, loopvars
  <2>4. WorkTypeOK'
    BY <1>5
    DEF TypeOK, WorkTypeOK, AddRead, WorkerPCs, workvars
  <2>5. SockTypeOK'
    BY <1>5
    DEF TypeOK, SockTypeOK, AddRead, sockvars
  <2> QED
    BY <2>1, <2>2, <2>3, <2>4, <2>5 DEF TypeOK
<1>6. ASSUME NEW t \in ReadTasks, RemoveRead(t) PROVE TypeOK'
  BY <1>6, WithoutType
  DEF TypeOK, EventTypeOK, RemoveRead, evvars, PipeTypeOK, Tasks, pipevars,
      LoopTypeOK, loopvars, WorkTypeOK, WorkerPCs, workvars, SockTypeOK,
      sockvars
<1>7. ASSUME NEW t \in WriteTasks, AddWrite(t) PROVE TypeOK'
  <2>1. EventTypeOK'
    BY <1>7
    DEF TypeOK, EventTypeOK, AddWrite, evvars
  <2>2. PipeTypeOK'
    <3>1. writes' \in Seq(WriteTasks)
      BY <1>7 DEF TypeOK, PipeTypeOK, AddWrite
    <3>2. mtx' \in Threads \cup {NoThread}
      BY <1>7 DEF TypeOK, PipeTypeOK, AddWrite, Threads, Tasks
    <3>3. call' \in [Tasks -> {"new", "submit", "queued", "dropped", "removed"}]
      BY <1>7 DEF TypeOK, PipeTypeOK, AddWrite, Tasks
    <3> QED
      BY <1>7, <3>1, <3>2, <3>3 DEF TypeOK, PipeTypeOK, AddWrite
  <2>3. LoopTypeOK'
    BY <1>7
    DEF TypeOK, LoopTypeOK, AddWrite, evvars, loopvars
  <2>4. WorkTypeOK'
    BY <1>7
    DEF TypeOK, WorkTypeOK, AddWrite, WorkerPCs, workvars
  <2>5. SockTypeOK'
    BY <1>7
    DEF TypeOK, SockTypeOK, AddWrite, sockvars
  <2> QED
    BY <2>1, <2>2, <2>3, <2>4, <2>5 DEF TypeOK
<1>8. ASSUME NEW t \in Tasks, AddSubmit(t) PROVE TypeOK'
  BY <1>8, SubmitType
  DEF TypeOK, EventTypeOK, AddSubmit, DoSubmitRead, DoSubmitWrite, InOut,
      evvars, PipeTypeOK, pipevars, LoopTypeOK, loopvars, WorkTypeOK,
      WorkerPCs, workvars, SockTypeOK, sockvars
<1>9. ASSUME Close PROVE TypeOK'
  BY <1>9
  DEF TypeOK, EventTypeOK, Close, DoClose, evvars, PipeTypeOK, pipevars,
      LoopTypeOK, loopvars, WorkTypeOK, WorkerPCs, workvars, SockTypeOK,
      sockvars
<1>10. ASSUME EpollWait PROVE TypeOK'
  <2>1. EventTypeOK'
    BY <1>10
    DEF TypeOK, EventTypeOK, EpollWait, Report, evvars
  <2>2. PipeTypeOK'
    BY <1>10
    DEF TypeOK, PipeTypeOK, EpollWait, Report, pipevars
  <2>3. LoopTypeOK'
    BY <1>10
    DEF TypeOK, LoopTypeOK, EpollWait, Report, Ready, InOut, evvars,
        loopvars
  <2>4. WorkTypeOK'
    BY <1>10
    DEF TypeOK, WorkTypeOK, EpollWait, Report, WorkerPCs, workvars
  <2>5. SockTypeOK'
    BY <1>10
    DEF TypeOK, SockTypeOK, EpollWait, Report, sockvars
  <2> QED
    BY <2>1, <2>2, <2>3, <2>4, <2>5 DEF TypeOK
<1>11. ASSUME EpollWake PROVE TypeOK'
  <2>1. EventTypeOK'
    BY <1>11
    DEF TypeOK, EventTypeOK, EpollWake, evvars
  <2>2. PipeTypeOK'
    BY <1>11
    DEF TypeOK, PipeTypeOK, EpollWake, pipevars
  <2>3. LoopTypeOK'
    BY <1>11
    DEF TypeOK, LoopTypeOK, EpollWake, evvars, loopvars
  <2>4. WorkTypeOK'
    BY <1>11
    DEF TypeOK, WorkTypeOK, EpollWake, WorkerPCs, workvars
  <2>5. SockTypeOK'
    BY <1>11
    DEF TypeOK, SockTypeOK, EpollWake, sockvars
  <2> QED
    BY <2>1, <2>2, <2>3, <2>4, <2>5 DEF TypeOK
<1>12. ASSUME ConsumeEvent PROVE TypeOK'
  <2>1. EventTypeOK'
    BY <1>12
    DEF TypeOK, EventTypeOK, ConsumeEvent, Consume, evvars
  <2>2. PipeTypeOK'
    BY <1>12
    DEF TypeOK, PipeTypeOK, ConsumeEvent, Consume, pipevars
  <2>3. LoopTypeOK'
    BY <1>12, JobType
    DEF TypeOK, LoopTypeOK, ConsumeEvent, Consume, evvars, loopvars
  <2>4. WorkTypeOK'
    BY <1>12
    DEF TypeOK, WorkTypeOK, ConsumeEvent, Consume, WorkerPCs, workvars
  <2>5. SockTypeOK'
    BY <1>12
    DEF TypeOK, SockTypeOK, ConsumeEvent, Consume, sockvars
  <2> QED
    BY <2>1, <2>2, <2>3, <2>4, <2>5 DEF TypeOK
<1>13. ASSUME ConsumeClose PROVE TypeOK'
  <2>1. EventTypeOK'
    BY <1>13
    DEF TypeOK, EventTypeOK, ConsumeClose, ConsumeReturn, DoClose, evvars
  <2>2. PipeTypeOK'
    BY <1>13
    DEF TypeOK, PipeTypeOK, ConsumeClose, ConsumeReturn, DoClose, pipevars
  <2>3. LoopTypeOK'
    BY <1>13
    DEF TypeOK, LoopTypeOK, ConsumeClose, ConsumeReturn, DoClose, evvars,
        loopvars
  <2>4. WorkTypeOK'
    BY <1>13
    DEF TypeOK, WorkTypeOK, ConsumeClose, ConsumeReturn, DoClose, WorkerPCs,
        workvars
  <2>5. SockTypeOK'
    BY <1>13
    DEF TypeOK, SockTypeOK, ConsumeClose, ConsumeReturn, DoClose, sockvars
  <2> QED
    BY <2>1, <2>2, <2>3, <2>4, <2>5 DEF TypeOK
<1>14. ASSUME DrainDestroy PROVE TypeOK'
  BY <1>14
  DEF TypeOK, EventTypeOK, DrainDestroy, Unregister, evvars, PipeTypeOK,
      pipevars, LoopTypeOK, loopvars, WorkTypeOK, WorkerPCs, workvars,
      SockTypeOK, sockvars
<1>15. ASSUME DrainDone PROVE TypeOK'
  BY <1>15
  DEF TypeOK, EventTypeOK, DrainDone, evvars, PipeTypeOK, pipevars,
      LoopTypeOK, loopvars, WorkTypeOK, WorkerPCs, workvars, SockTypeOK,
      sockvars
<1>16. ASSUME TimerFires PROVE TypeOK'
  BY <1>16, JobType
  DEF TypeOK, EventTypeOK, TimerFires, evvars, PipeTypeOK, pipevars,
      LoopTypeOK, loopvars, WorkTypeOK, WorkerPCs, workvars, SockTypeOK,
      sockvars
<1>17. ASSUME NEW w \in Workers, TakeJob(w) PROVE TypeOK'
  <2>1. EventTypeOK'
    BY <1>17
    DEF TypeOK, EventTypeOK, TakeJob, Goto, evvars
  <2>2. PipeTypeOK'
    BY <1>17
    DEF TypeOK, PipeTypeOK, TakeJob, Goto, pipevars
  <2>3. LoopTypeOK'
    BY <1>17
    DEF TypeOK, LoopTypeOK, TakeJob, Goto, evvars, loopvars
  <2>4. WorkTypeOK'
    BY <1>17
    DEF TypeOK, LoopTypeOK, WorkTypeOK, TakeJob, Goto, WorkerPCs, workvars
  <2>5. SockTypeOK'
    BY <1>17
    DEF TypeOK, SockTypeOK, TakeJob, Goto, sockvars
  <2> QED
    BY <2>1, <2>2, <2>3, <2>4, <2>5 DEF TypeOK
<1>18. ASSUME NEW w \in Workers, StartJob(w) PROVE TypeOK'
  <2>1. EventTypeOK'
    BY <1>18
    DEF TypeOK, EventTypeOK, StartJob, Goto, evvars
  <2>2. PipeTypeOK'
    BY <1>18
    DEF TypeOK, PipeTypeOK, StartJob, Goto, Threads, pipevars
  <2>3. LoopTypeOK'
    BY <1>18
    DEF TypeOK, LoopTypeOK, StartJob, Goto, evvars, loopvars
  <2>4. WorkTypeOK'
    <3>1. job[w].kind \in {"event", "resubmit"}
      BY DEF TypeOK, WorkTypeOK, Jobs
    <3> QED
      BY <1>18, <3>1
      DEF TypeOK, WorkTypeOK, StartJob, Goto, AfterRead, WorkerPCs, workvars
  <2>5. SockTypeOK'
    BY <1>18
    DEF TypeOK, SockTypeOK, StartJob, Goto, sockvars
  <2> QED
    BY <2>1, <2>2, <2>3, <2>4, <2>5 DEF TypeOK
<1>19. ASSUME NEW w \in Workers, ReadNext(w) PROVE TypeOK'
  <2>1. EventTypeOK'
    BY <1>19
    DEF TypeOK, EventTypeOK, ReadNext, Goto, evvars
  <2>2. PipeTypeOK'
    BY <1>19
    DEF TypeOK, PipeTypeOK, ReadNext, Goto, PipeTypeOK, pipevars
  <2>3. LoopTypeOK'
    BY <1>19
    DEF TypeOK, LoopTypeOK, ReadNext, Goto, evvars, loopvars
  <2>4. WorkTypeOK'
    <3>1. reads # <<>> => Head(reads) \in ReadTasks
      BY DEF TypeOK, PipeTypeOK
    <3>2. \/ cur' = cur /\ wpc'[w] # "rio"
          \/ reads # <<>> /\ cur' = [cur EXCEPT ![w] = Head(reads)]
      BY <1>19 DEF TypeOK, WorkTypeOK, ReadNext, Goto, AfterRead
    <3>3. cur' \in [Workers -> Tasks \cup {NoTask}]
      BY <3>1, <3>2 DEF TypeOK, WorkTypeOK, Tasks
    <3>4. /\ wpc' \in [Workers -> WorkerPCs]
          /\ \A v \in Workers \ {w} : wpc'[v] = wpc[v]
          /\ wpc'[w] \notin {"rio", "wio"} \ {"rio"}
      BY <1>19 DEF TypeOK, WorkTypeOK, ReadNext, Goto, AfterRead, WorkerPCs
    <3>5. \A v \in Workers \ {w} : cur'[v] = cur[v]
      BY <3>2 DEF TypeOK, WorkTypeOK
    <3>6. wpc'[w] = "rio" => cur'[w] \in ReadTasks
      BY <3>1, <3>2 DEF TypeOK, WorkTypeOK
    <3>7. UNCHANGED <<job, res>>
      BY <1>19 DEF ReadNext, workvars
    <3> QED
      BY <3>3, <3>4, <3>5, <3>6, <3>7 DEF TypeOK, WorkTypeOK
  <2>5. SockTypeOK'
    BY <1>19
    DEF TypeOK, SockTypeOK, ReadNext, Goto, sockvars
  <2> QED
    BY <2>1, <2>2, <2>3, <2>4, <2>5 DEF TypeOK
<1>20. ASSUME NEW w \in Workers, ReadvData(w) PROVE TypeOK'
  BY <1>20, StatusesKnown
  DEF TypeOK, EventTypeOK, ReadvData, IOReturns, Goto, evvars, PipeTypeOK,
      pipevars, LoopTypeOK, loopvars, WorkTypeOK, WorkerPCs, workvars,
      SockTypeOK, Readable, sockvars
<1>21. ASSUME NEW w \in Workers, ReadvAgain(w) PROVE TypeOK'
  <2>1. EventTypeOK'
    BY <1>21
    DEF TypeOK, EventTypeOK, ReadvAgain, IOReturns, Goto, evvars
  <2>2. PipeTypeOK'
    BY <1>21
    DEF TypeOK, PipeTypeOK, ReadvAgain, IOReturns, Goto, pipevars
  <2>3. LoopTypeOK'
    BY <1>21
    DEF TypeOK, LoopTypeOK, ReadvAgain, IOReturns, Goto, evvars, loopvars
  <2>4. WorkTypeOK'
    BY <1>21, StatusesKnown
    DEF TypeOK, WorkTypeOK, ReadvAgain, IOReturns, Goto, WorkerPCs, workvars
  <2>5. SockTypeOK'
    BY <1>21
    DEF TypeOK, SockTypeOK, ReadvAgain, IOReturns, Goto, sockvars
  <2> QED
    BY <2>1, <2>2, <2>3, <2>4, <2>5 DEF TypeOK
<1>22. ASSUME NEW w \in Workers, ReadvEnd(w) PROVE TypeOK'
  BY <1>22, StatusesKnown
  DEF TypeOK, EventTypeOK, ReadvEnd, IOReturns, Goto, evvars, PipeTypeOK,
      pipevars, LoopTypeOK, loopvars, WorkTypeOK, WorkerPCs, workvars,
      SockTypeOK, sockvars
<1>23. ASSUME NEW w \in Workers, ReadvError(w) PROVE TypeOK'
  BY <1>23, IOErrorType DEF ReadvError, WorkerPCs
<1>24. ASSUME NEW w \in Workers, ReadDone(w) PROVE TypeOK'
  <2>1. EventTypeOK'
    BY <1>24
    DEF TypeOK, EventTypeOK, ReadDone, ForgetIO, Goto, evvars
  <2>2. PipeTypeOK'
    BY <1>24, PopFrontType, NoFailureIsRecognized
    DEF TypeOK, PipeTypeOK, ReadDone, ForgetIO, Goto, Threads, WorkTypeOK,
        pipevars
  <2>3. LoopTypeOK'
    BY <1>24, NoFailureIsRecognized
    DEF TypeOK, LoopTypeOK, ReadDone, ForgetIO, Goto, WorkTypeOK, DoClose,
        evvars, loopvars
  <2>4. WorkTypeOK'
    BY <1>24, NoFailureIsRecognized, StatusesKnown
    DEF TypeOK, WorkTypeOK, ReadDone, ForgetIO, Goto, AfterRead, WorkerPCs,
        workvars
  <2>5. SockTypeOK'
    BY <1>24
    DEF TypeOK, SockTypeOK, ReadDone, ForgetIO, Goto, sockvars
  <2> QED
    BY <2>1, <2>2, <2>3, <2>4, <2>5 DEF TypeOK
<1>25. ASSUME NEW w \in Workers, WriteNext(w) PROVE TypeOK'
  <2>1. EventTypeOK'
    BY <1>25
    DEF TypeOK, EventTypeOK, WriteNext, Goto, evvars
  <2>2. PipeTypeOK'
    BY <1>25
    DEF TypeOK, PipeTypeOK, WriteNext, Goto, pipevars
  <2>3. LoopTypeOK'
    BY <1>25
    DEF TypeOK, LoopTypeOK, WriteNext, Goto, evvars, loopvars
  <2>4. WorkTypeOK'
    <3>1. writes # <<>> => Head(writes) \in WriteTasks
      BY DEF TypeOK, PipeTypeOK
    <3>2. \/ cur' = cur /\ wpc'[w] # "wio"
          \/ writes # <<>> /\ cur' = [cur EXCEPT ![w] = Head(writes)]
      BY <1>25 DEF TypeOK, WorkTypeOK, WriteNext, Goto
    <3>3. cur' \in [Workers -> Tasks \cup {NoTask}]
      BY <3>1, <3>2 DEF TypeOK, WorkTypeOK, Tasks
    <3>4. /\ wpc' \in [Workers -> WorkerPCs]
          /\ \A v \in Workers \ {w} : wpc'[v] = wpc[v]
          /\ wpc'[w] \notin {"rio", "wio"} \ {"wio"}
      BY <1>25 DEF TypeOK, WorkTypeOK, WriteNext, Goto, WorkerPCs
    <3>5. \A v \in Workers \ {w} : cur'[v] = cur[v]
      BY <3>2 DEF TypeOK, WorkTypeOK
    <3>6. wpc'[w] = "wio" => cur'[w] \in WriteTasks
      BY <3>1, <3>2 DEF TypeOK, WorkTypeOK
    <3>7. UNCHANGED <<job, res>>
      BY <1>25 DEF WriteNext, workvars
    <3> QED
      BY <3>3, <3>4, <3>5, <3>6, <3>7 DEF TypeOK, WorkTypeOK
  <2>5. SockTypeOK'
    BY <1>25
    DEF TypeOK, SockTypeOK, WriteNext, Goto, sockvars
  <2> QED
    BY <2>1, <2>2, <2>3, <2>4, <2>5 DEF TypeOK
<1>26. ASSUME NEW w \in Workers, WritevData(w) PROVE TypeOK'
  BY <1>26, StatusesKnown
  DEF TypeOK, EventTypeOK, WritevData, IOReturns, Goto, evvars, PipeTypeOK,
      pipevars, LoopTypeOK, loopvars, WorkTypeOK, WorkerPCs, workvars,
      SockTypeOK, sockvars
<1>27. ASSUME NEW w \in Workers, WritevAgain(w) PROVE TypeOK'
  BY <1>27, StatusesKnown
  DEF TypeOK, EventTypeOK, WritevAgain, IOReturns, Goto, evvars, PipeTypeOK,
      pipevars, LoopTypeOK, loopvars, WorkTypeOK, WorkerPCs, workvars,
      SockTypeOK, sockvars
<1>28. ASSUME NEW w \in Workers, WritevError(w) PROVE TypeOK'
  BY <1>28, IOErrorType DEF WritevError, WorkerPCs
<1>29. ASSUME NEW w \in Workers, WritevKilled(w) PROVE TypeOK'
  BY <1>29
  DEF TypeOK, EventTypeOK, WritevKilled, evvars, PipeTypeOK, pipevars,
      LoopTypeOK, loopvars, WorkTypeOK, WorkerPCs, workvars, SockTypeOK,
      sockvars
<1>30. ASSUME NEW w \in Workers, WriteDone(w) PROVE TypeOK'
  <2>1. EventTypeOK'
    BY <1>30
    DEF TypeOK, EventTypeOK, WriteDone, ForgetIO, Goto, evvars
  <2>2. PipeTypeOK'
    BY <1>30, PopFrontType, NoFailureIsRecognized
    DEF TypeOK, PipeTypeOK, WriteDone, ForgetIO, Goto, Threads, WorkTypeOK,
        pipevars
  <2>3. LoopTypeOK'
    BY <1>30, NoFailureIsRecognized
    DEF TypeOK, LoopTypeOK, WriteDone, ForgetIO, Goto, WorkTypeOK, DoClose,
        evvars, loopvars
  <2>4. WorkTypeOK'
    BY <1>30, NoFailureIsRecognized, StatusesKnown
    DEF TypeOK, WorkTypeOK, WriteDone, ForgetIO, Goto, AfterRead, WorkerPCs,
        workvars
  <2>5. SockTypeOK'
    BY <1>30
    DEF TypeOK, SockTypeOK, WriteDone, ForgetIO, Goto, sockvars
  <2> QED
    BY <2>1, <2>2, <2>3, <2>4, <2>5 DEF TypeOK
<1>31. ASSUME NEW w \in Workers, JobSubmits(w) PROVE TypeOK'
  BY <1>31, SubmitType, JobType
  DEF TypeOK, EventTypeOK, JobSubmits, Goto, DoSubmitBoth, DoSubmitWrite,
      WantedEvents, InOut, evvars, PipeTypeOK, pipevars, LoopTypeOK,
      loopvars, WorkTypeOK, WorkerPCs, workvars, SockTypeOK, sockvars
<1>32. CASE UNCHANGED vars
  BY <1>32
  DEF TypeOK, EventTypeOK, PipeTypeOK, LoopTypeOK, WorkTypeOK, SockTypeOK, vars,
      evvars, pipevars, loopvars, workvars, sockvars
<1> QED
  BY <1>1, <1>2, <1>3, <1>4, <1>5, <1>6, <1>7, <1>8, <1>9, <1>10, <1>11,
     <1>12, <1>13, <1>14, <1>15, <1>16, <1>17, <1>18, <1>19, <1>20, <1>21,
     <1>22, <1>23, <1>24, <1>25, <1>26, <1>27, <1>28, <1>29, <1>30, <1>31,
     <1>32
  DEF Next, User, EventLoop, Worker, Peer
-----------------------------------------------------------------------------
(* The event object outlives its reports. *)

LEMMA DestroyInit == Init => DestroyInv
BY DEF Init, EventInit, DestroyInv, EventOutlivesReports, EventInLoop

\* What a step does that neither closes the pipe nor touches the event.
LEMMA DestroyFrame ==
    ASSUME DestroyInv, UNCHANGED <<armed, closed, destroyq, deleted>>,
           lpc' \in {"consume", "close"} => lpc \in {"consume", "close"}
    PROVE  DestroyInv'
BY DEF DestroyInv, EventOutlivesReports, EventInLoop

\* A submit is refused once the pipe is closed.
LEMMA DestroySubmit ==
    ASSUME DestroyInv, NEW evflag, DoSubmit(evflag),
           UNCHANGED <<closed, destroyq, deleted, lpc>>
    PROVE  DestroyInv'
BY DEF DestroyInv, EventOutlivesReports, EventInLoop, DoSubmit, evvars

\* Only a pipe that is open is closed.
LEMMA DestroyClose ==
    ASSUME TypeOK, DestroyInv, ~closed, DoClose, UNCHANGED <<armed, deleted>>,
           lpc' \in {"consume", "close"} => lpc \in {"consume", "close"}
    PROVE  DestroyInv'
BY DEF TypeOK, LoopTypeOK, PipeTypeOK, DestroyInv, EventOutlivesReports,
       EventInLoop, DoClose

LEMMA DestroyNext == TypeOK /\ DestroyInv /\ [Next]_vars => DestroyInv'
<1> SUFFICES ASSUME TypeOK, DestroyInv, [Next]_vars PROVE DestroyInv'
  OBVIOUS
<1>1. ASSUME PeerSends PROVE DestroyInv'
  BY <1>1, DestroyFrame
  DEF PeerSends, evvars, pipevars, loopvars
<1>2. ASSUME PeerDrains PROVE DestroyInv'
  BY <1>2, DestroyFrame
  DEF PeerDrains, evvars, pipevars, loopvars
<1>3. ASSUME PeerShuts PROVE DestroyInv'
  BY <1>3, DestroyFrame
  DEF PeerShuts, evvars, pipevars, loopvars
<1>4. ASSUME PeerResets PROVE DestroyInv'
  BY <1>4, DestroyFrame
  DEF PeerResets, evvars, pipevars, loopvars
<1>5. ASSUME NEW t \in ReadTasks, AddRead(t) PROVE DestroyInv'
  BY <1>5, DestroyFrame
  DEF AddRead, evvars, pipevars, loopvars
<1>6. ASSUME NEW t \in ReadTasks, RemoveRead(t) PROVE DestroyInv'
  BY <1>6, DestroyFrame
  DEF RemoveRead, evvars, pipevars, loopvars
<1>7. ASSUME NEW t \in WriteTasks, AddWrite(t) PROVE DestroyInv'
  BY <1>7, DestroyFrame
  DEF AddWrite, evvars, pipevars, loopvars
<1>8. ASSUME NEW t \in Tasks, AddSubmit(t) PROVE DestroyInv'
  BY <1>8, DestroySubmit
  DEF AddSubmit, DoSubmitRead, DoSubmitWrite, loopvars
<1>9. ASSUME Close PROVE DestroyInv'
  BY <1>9, DestroyClose
  DEF Close, evvars
<1>10. ASSUME EpollWait PROVE DestroyInv'
  BY <1>10
  DEF EpollWait, Report, DestroyInv, EventOutlivesReports, EventInLoop,
      pipevars
<1>11. ASSUME EpollWake PROVE DestroyInv'
  BY <1>11, DestroyFrame
  DEF EpollWake, evvars, pipevars, loopvars
<1>12. ASSUME ConsumeEvent PROVE DestroyInv'
  BY <1>12, DestroyFrame
  DEF ConsumeEvent, Consume, pipevars
<1>13. ASSUME ConsumeClose PROVE DestroyInv'
  <2>1. CASE closed
    BY <1>13, <2>1, DestroyFrame
    DEF ConsumeClose, ConsumeReturn
  <2>2. CASE ~closed
    BY <1>13, <2>2, DestroyClose
    DEF ConsumeClose, ConsumeReturn
  <2> QED
    BY <2>1, <2>2
<1>14. ASSUME DrainDestroy PROVE DestroyInv'
  BY <1>14
  DEF DrainDestroy, Unregister, DestroyInv, EventOutlivesReports,
      EventInLoop, TypeOK, LoopTypeOK, pipevars
<1>15. ASSUME DrainDone PROVE DestroyInv'
  BY <1>15, DestroyFrame
  DEF DrainDone, evvars, pipevars, loopvars
<1>16. ASSUME TimerFires PROVE DestroyInv'
  BY <1>16, DestroyFrame
  DEF TimerFires, evvars, pipevars, loopvars
<1>17. ASSUME NEW w \in Workers, TakeJob(w) PROVE DestroyInv'
  BY <1>17, DestroyFrame
  DEF TakeJob, evvars, pipevars, loopvars
<1>18. ASSUME NEW w \in Workers, StartJob(w) PROVE DestroyInv'
  BY <1>18, DestroyFrame
  DEF StartJob, evvars, pipevars, loopvars
<1>19. ASSUME NEW w \in Workers, ReadNext(w) PROVE DestroyInv'
  BY <1>19, DestroyFrame
  DEF ReadNext, evvars, pipevars, loopvars
<1>20. ASSUME NEW w \in Workers, ReadvData(w) PROVE DestroyInv'
  BY <1>20, DestroyFrame
  DEF ReadvData, IOReturns, evvars, pipevars
<1>21. ASSUME NEW w \in Workers, ReadvAgain(w) PROVE DestroyInv'
  BY <1>21, DestroyFrame
  DEF ReadvAgain, IOReturns, evvars, pipevars
<1>22. ASSUME NEW w \in Workers, ReadvEnd(w) PROVE DestroyInv'
  BY <1>22, DestroyFrame
  DEF ReadvEnd, IOReturns, evvars, pipevars
<1>23. ASSUME NEW w \in Workers, ReadvError(w) PROVE DestroyInv'
  BY <1>23, DestroyFrame
  DEF ReadvError, IOError, IOReturns, evvars, pipevars
<1>24. ASSUME NEW w \in Workers, ReadDone(w) PROVE DestroyInv'
  <2>1. ~IsError(res[w]) /\ ~IsFailure(res[w])
    BY NoFailureIsRecognized DEF TypeOK, WorkTypeOK
  <2> QED
    BY <1>24, <2>1, DestroyFrame
    DEF ReadDone, evvars
<1>25. ASSUME NEW w \in Workers, WriteNext(w) PROVE DestroyInv'
  BY <1>25, DestroyFrame
  DEF WriteNext, evvars, pipevars, loopvars
<1>26. ASSUME NEW w \in Workers, WritevData(w) PROVE DestroyInv'
  BY <1>26, DestroyFrame
  DEF WritevData, IOReturns, evvars, pipevars
<1>27. ASSUME NEW w \in Workers, WritevAgain(w) PROVE DestroyInv'
  BY <1>27, DestroyFrame
  DEF WritevAgain, IOReturns, evvars, pipevars
<1>28. ASSUME NEW w \in Workers, WritevError(w) PROVE DestroyInv'
  BY <1>28, DestroyFrame
  DEF WritevError, IOError, IOReturns, evvars, pipevars
<1>29. ASSUME NEW w \in Workers, WritevKilled(w) PROVE DestroyInv'
  BY <1>29, DestroyFrame
  DEF WritevKilled, evvars, pipevars, loopvars
<1>30. ASSUME NEW w \in Workers, WriteDone(w) PROVE DestroyInv'
  <2>1. ~IsError(res[w]) /\ ~IsFailure(res[w])
    BY NoFailureIsRecognized DEF TypeOK, WorkTypeOK
  <2> QED
    BY <1>30, <2>1, DestroyFrame
    DEF WriteDone, evvars
<1>31. ASSUME NEW w \in Workers, JobSubmits(w) PROVE DestroyInv'
  BY <1>31, DestroySubmit
  DEF JobSubmits, DoSubmitBoth, DoSubmitWrite, loopvars
<1>32. CASE UNCHANGED vars
  BY <1>32, DestroyFrame
  DEF vars, evvars, pipevars, loopvars
<1> QED
  BY <1>1, <1>2, <1>3, <1>4, <1>5, <1>6, <1>7, <1>8, <1>9, <1>10, <1>11,
     <1>12, <1>13, <1>14, <1>15, <1>16, <1>17, <1>18, <1>19, <1>20, <1>21,
     <1>22, <1>23, <1>24, <1>25, <1>26, <1>27, <1>28, <1>29, <1>30, <1>31,
     <1>32
  DEF Next, User, EventLoop, Worker, Peer
-----------------------------------------------------------------------------
(* No wakeup is lost. *)

LEMMA JobInit == Init => JobInv
BY DEF Init, JobInv

LEMMA JobNext == TypeOK /\ JobInv /\ [Next]_vars => JobInv'
<1> SUFFICES ASSUME TypeOK, JobInv, [Next]_vars PROVE JobInv'
  OBVIOUS
<1>1. ASSUME PeerSends PROVE JobInv'
  BY <1>1
  DEF JobInv, PeerSends, workvars
<1>2. ASSUME PeerDrains PROVE JobInv'
  BY <1>2
  DEF JobInv, PeerDrains, workvars
<1>3. ASSUME PeerShuts PROVE JobInv'
  BY <1>3
  DEF JobInv, PeerShuts, workvars
<1>4. ASSUME PeerResets PROVE JobInv'
  BY <1>4
  DEF JobInv, PeerResets, workvars
<1>5. ASSUME NEW t \in ReadTasks, AddRead(t) PROVE JobInv'
  BY <1>5
  DEF JobInv, AddRead, workvars
<1>6. ASSUME NEW t \in ReadTasks, RemoveRead(t) PROVE JobInv'
  BY <1>6
  DEF JobInv, RemoveRead, workvars
<1>7. ASSUME NEW t \in WriteTasks, AddWrite(t) PROVE JobInv'
  BY <1>7
  DEF JobInv, AddWrite, workvars
<1>8. ASSUME NEW t \in Tasks, AddSubmit(t) PROVE JobInv'
  BY <1>8
  DEF JobInv, AddSubmit, workvars
<1>9. ASSUME Close PROVE JobInv'
  BY <1>9
  DEF JobInv, Close, workvars
<1>10. ASSUME EpollWait PROVE JobInv'
  BY <1>10
  DEF JobInv, EpollWait, workvars
<1>11. ASSUME EpollWake PROVE JobInv'
  BY <1>11
  DEF JobInv, EpollWake, workvars
<1>12. ASSUME ConsumeEvent PROVE JobInv'
  BY <1>12
  DEF JobInv, ConsumeEvent, workvars
<1>13. ASSUME ConsumeClose PROVE JobInv'
  BY <1>13
  DEF JobInv, ConsumeClose, workvars
<1>14. ASSUME DrainDestroy PROVE JobInv'
  BY <1>14
  DEF JobInv, DrainDestroy, workvars
<1>15. ASSUME DrainDone PROVE JobInv'
  BY <1>15
  DEF JobInv, DrainDone, workvars
<1>16. ASSUME TimerFires PROVE JobInv'
  BY <1>16
  DEF JobInv, TimerFires, workvars
<1>17. ASSUME NEW w \in Workers, TakeJob(w) PROVE JobInv'
  BY <1>17
  DEF JobInv, TypeOK, WorkTypeOK, TakeJob, Goto
<1>18. ASSUME NEW w \in Workers, StartJob(w) PROVE JobInv'
  <2>1. job[w].kind \in {"event", "resubmit"}
    BY DEF TypeOK, WorkTypeOK, Jobs
  <2> QED
    BY <1>18, <2>1
    DEF JobInv, TypeOK, WorkTypeOK, StartJob, Goto, AfterRead
<1>19. ASSUME NEW w \in Workers, ReadNext(w) PROVE JobInv'
  BY <1>19
  DEF JobInv, TypeOK, WorkTypeOK, ReadNext, Goto, AfterRead
<1>20. ASSUME NEW w \in Workers, ReadvData(w) PROVE JobInv'
  BY <1>20
  DEF JobInv, TypeOK, WorkTypeOK, ReadvData, IOReturns, Goto
<1>21. ASSUME NEW w \in Workers, ReadvAgain(w) PROVE JobInv'
  BY <1>21
  DEF JobInv, TypeOK, WorkTypeOK, ReadvAgain, IOReturns, Goto
<1>22. ASSUME NEW w \in Workers, ReadvEnd(w) PROVE JobInv'
  BY <1>22
  DEF JobInv, TypeOK, WorkTypeOK, ReadvEnd, IOReturns, Goto
<1>23. ASSUME NEW w \in Workers, ReadvError(w) PROVE JobInv'
  BY <1>23
  DEF JobInv, TypeOK, WorkTypeOK, ReadvError, IOError, IOReturns, Goto
<1>24. ASSUME NEW w \in Workers, ReadDone(w) PROVE JobInv'
  BY <1>24
  DEF JobInv, TypeOK, WorkTypeOK, ReadDone, Goto, AfterRead
<1>25. ASSUME NEW w \in Workers, WriteNext(w) PROVE JobInv'
  BY <1>25
  DEF JobInv, TypeOK, WorkTypeOK, WriteNext, Goto
<1>26. ASSUME NEW w \in Workers, WritevData(w) PROVE JobInv'
  BY <1>26
  DEF JobInv, TypeOK, WorkTypeOK, WritevData, IOReturns, Goto
<1>27. ASSUME NEW w \in Workers, WritevAgain(w) PROVE JobInv'
  BY <1>27
  DEF JobInv, TypeOK, WorkTypeOK, WritevAgain, IOReturns, Goto
<1>28. ASSUME NEW w \in Workers, WritevError(w) PROVE JobInv'
  BY <1>28
  DEF JobInv, TypeOK, WorkTypeOK, WritevError, IOError, IOReturns, Goto
<1>29. ASSUME NEW w \in Workers, WritevKilled(w) PROVE JobInv'
  BY <1>29
  DEF JobInv, WritevKilled, workvars
<1>30. ASSUME NEW w \in Workers, WriteDone(w) PROVE JobInv'
  BY <1>30
  DEF JobInv, TypeOK, WorkTypeOK, WriteDone, Goto
<1>31. ASSUME NEW w \in Workers, JobSubmits(w) PROVE JobInv'
  BY <1>31
  DEF JobInv, TypeOK, WorkTypeOK, JobSubmits, Goto
<1>32. CASE UNCHANGED vars
  BY <1>32
  DEF JobInv, vars, workvars
<1> QED
  BY <1>1, <1>2, <1>3, <1>4, <1>5, <1>6, <1>7, <1>8, <1>9, <1>10, <1>11,
     <1>12, <1>13, <1>14, <1>15, <1>16, <1>17, <1>18, <1>19, <1>20, <1>21,
     <1>22, <1>23, <1>24, <1>25, <1>26, <1>27, <1>28, <1>29, <1>30, <1>31,
     <1>32
  DEF Next, User, EventLoop, Worker, Peer

\* A worker on its way does not leave it: only a job of the backoff timer and
\* a job that has just submitted become idle.
LEMMA RunningStays ==
    ASSUME TypeOK, OnTheWay, NEW w \in Workers,
           wpc[w] # "idle", \E pc \in WorkerPCs \ {"idle"} : Goto(w, pc),
           UNCHANGED <<lpc, pool, job>>
    PROVE  OnTheWay'
<1>1. CASE EventInLoop \/ JobQueued
  BY <1>1 DEF OnTheWay, EventInLoop, JobQueued
<1>2. CASE JobRunning
  BY <1>2 DEF OnTheWay, JobRunning, TypeOK, WorkTypeOK, Goto, WorkerPCs
<1> QED
  BY <1>1, <1>2 DEF OnTheWay

LEMMA AppendStays ==
    ASSUME TypeOK, NEW j \in Jobs, pool' = Append(pool, j), UNCHANGED <<wpc, job>>
    PROVE  /\ JobQueued => JobQueued'
           /\ JobRunning => JobRunning'
           /\ j.kind = "event" => JobQueued'
<1>1. pool \in Seq(Jobs)
  BY DEF TypeOK, LoopTypeOK
<1>2. /\ Len(pool') = Len(pool) + 1
      /\ pool'[Len(pool) + 1] = j
      /\ \A i \in 1..Len(pool) : pool'[i] = pool[i]
  BY <1>1
<1>3. JobQueued => JobQueued'
  BY <1>1, <1>2 DEF JobQueued
<1>4. j.kind = "event" => JobQueued'
  BY <1>1, <1>2 DEF JobQueued
<1> QED
  BY <1>3, <1>4 DEF JobRunning

LEMMA TakeStays ==
    ASSUME TypeOK, OnTheWay, NEW w \in Workers, TakeJob(w)
    PROVE  OnTheWay'
<1>1. pool \in Seq(Jobs) /\ pool # <<>> /\ pool' = Tail(pool) /\ lpc' = lpc
  BY DEF TypeOK, LoopTypeOK, TakeJob, loopvars
<1>2. /\ job' = [job EXCEPT ![w] = pool[1]]
      /\ wpc' = [wpc EXCEPT ![w] = "start"]
      /\ wpc[w] = "idle"
  BY <1>1 DEF TakeJob, Goto
<1>3. CASE EventInLoop
  BY <1>1, <1>3 DEF OnTheWay, EventInLoop
<1>4. CASE JobQueued
  <2>1. PICK i \in 1..Len(pool) : pool[i].kind = "event"
    BY <1>4 DEF JobQueued
  <2>2. CASE i = 1
    <3>1. wpc'[w] # "idle" /\ job'[w].kind = "event"
      BY <1>2, <2>1, <2>2 DEF TypeOK, WorkTypeOK
    <3> QED
      BY <3>1 DEF OnTheWay, JobRunning
  <2>3. CASE i # 1
    <3>1. i - 1 \in 1..Len(pool') /\ pool'[i - 1] = pool[i]
      BY <1>1, <2>1, <2>3
    <3> QED
      BY <2>1, <3>1 DEF OnTheWay, JobQueued
  <2> QED
    BY <2>2, <2>3
<1>5. CASE JobRunning
  <2>1. PICK v \in Workers : wpc[v] # "idle" /\ job[v].kind = "event"
    BY <1>5 DEF JobRunning
  <2>2. v # w
    BY <1>2, <2>1
  <2>3. wpc'[v] # "idle" /\ job'[v].kind = "event"
    BY <1>2, <2>1, <2>2 DEF TypeOK, WorkTypeOK
  <2> QED
    BY <2>3 DEF OnTheWay, JobRunning
<1> QED
  BY <1>3, <1>4, <1>5 DEF OnTheWay

\* What a step does that leaves the event alone and adds no task.
LEMMA CoverFrame ==
    ASSUME CoverInv, UNCHANGED <<evmask, armed>>, closed => closed',
           reads = <<>> => reads' = <<>>, writes = <<>> => writes' = <<>>,
           OnTheWay => OnTheWay', call' = call
    PROVE  CoverInv'
BY DEF CoverInv, Covered, Submitting

LEMMA CoverOnTheWay ==
    ASSUME OnTheWay' PROVE CoverInv'
BY DEF CoverInv, Covered

LEMMA CoverClosed ==
    ASSUME closed' PROVE CoverInv'
BY DEF CoverInv, Covered

LEMMA CoverInit == Init => CoverInv
BY DEF Init, CoverInv, Covered

LEMMA CoverNext ==
    TypeOK /\ JobInv /\ DestroyInv /\ CoverInv /\ [Next]_vars => CoverInv'
<1> SUFFICES ASSUME TypeOK, JobInv, DestroyInv, CoverInv, [Next]_vars PROVE CoverInv'
  OBVIOUS
<1>1. ASSUME PeerSends PROVE CoverInv'
  <2>1. OnTheWay => OnTheWay'
    BY <1>1
    DEF PeerSends, OnTheWay, EventInLoop, JobQueued, JobRunning, loopvars,
        workvars
  <2> QED
    BY <1>1, <2>1, CoverFrame
    DEF PeerSends, evvars, pipevars
<1>2. ASSUME PeerDrains PROVE CoverInv'
  <2>1. OnTheWay => OnTheWay'
    BY <1>2
    DEF PeerDrains, OnTheWay, EventInLoop, JobQueued, JobRunning, loopvars,
        workvars
  <2> QED
    BY <1>2, <2>1, CoverFrame
    DEF PeerDrains, evvars, pipevars
<1>3. ASSUME PeerShuts PROVE CoverInv'
  <2>1. OnTheWay => OnTheWay'
    BY <1>3
    DEF PeerShuts, OnTheWay, EventInLoop, JobQueued, JobRunning, loopvars,
        workvars
  <2> QED
    BY <1>3, <2>1, CoverFrame
    DEF PeerShuts, evvars, pipevars
<1>4. ASSUME PeerResets PROVE CoverInv'
  <2>1. OnTheWay => OnTheWay'
    BY <1>4
    DEF PeerResets, OnTheWay, EventInLoop, JobQueued, JobRunning, loopvars,
        workvars
  <2> QED
    BY <1>4, <2>1, CoverFrame
    DEF PeerResets, evvars, pipevars
<1>5. ASSUME NEW t \in ReadTasks, AddRead(t) PROVE CoverInv'
  <2>1. UNCHANGED <<evmask, armed, closed, writes>> /\ (OnTheWay => OnTheWay')
    BY <1>5
    DEF AddRead, OnTheWay, EventInLoop, JobQueued, JobRunning, evvars,
        loopvars, workvars
  <2>2. Submitting(ReadTasks) => Submitting(ReadTasks)'
    BY <1>5
    DEF AddRead, Submitting, TypeOK, PipeTypeOK, Tasks
  <2>3. Submitting(WriteTasks) => Submitting(WriteTasks)'
    BY <1>5
    DEF AddRead, Submitting, TypeOK, PipeTypeOK, Tasks
  <2>4. ~closed /\ reads = <<>> => Submitting(ReadTasks)'
    <3>1. reads = <<>> => Len(Append(reads, t)) = 1
      OBVIOUS
    <3> QED
      BY <1>5, <3>1
      DEF AddRead, Submitting, TypeOK, PipeTypeOK, Tasks
  <2> QED
    BY <2>1, <2>2, <2>3, <2>4 DEF CoverInv, Covered
<1>6. ASSUME NEW t \in ReadTasks, RemoveRead(t) PROVE CoverInv'
  <2>1. reads = <<>> => reads' = <<>>
    BY <1>6, WithoutType
    DEF RemoveRead, TypeOK, PipeTypeOK
  <2>2. /\ Submitting(ReadTasks)  => Submitting(ReadTasks)'
        /\ Submitting(WriteTasks) => Submitting(WriteTasks)'
    BY <1>6
    DEF RemoveRead, Submitting, TypeOK, PipeTypeOK, Tasks
  <2>3. OnTheWay => OnTheWay'
    BY <1>6
    DEF RemoveRead, OnTheWay, EventInLoop, JobQueued, JobRunning, loopvars,
        workvars
  <2> QED
    BY <1>6, <2>1, <2>2, <2>3
    DEF RemoveRead, CoverInv, Covered, evvars
<1>7. ASSUME NEW t \in WriteTasks, AddWrite(t) PROVE CoverInv'
  <2>1. UNCHANGED <<evmask, armed, closed, reads>> /\ (OnTheWay => OnTheWay')
    BY <1>7
    DEF AddWrite, OnTheWay, EventInLoop, JobQueued, JobRunning, evvars,
        loopvars, workvars
  <2>2. Submitting(ReadTasks) => Submitting(ReadTasks)'
    BY <1>7
    DEF AddWrite, Submitting, TypeOK, PipeTypeOK, Tasks
  <2>3. Submitting(WriteTasks) => Submitting(WriteTasks)'
    BY <1>7
    DEF AddWrite, Submitting, TypeOK, PipeTypeOK, Tasks
  <2>4. ~closed /\ writes = <<>> => Submitting(WriteTasks)'
    <3>1. writes = <<>> => Len(Append(writes, t)) = 1
      OBVIOUS
    <3> QED
      BY <1>7, <3>1
      DEF AddWrite, Submitting, TypeOK, PipeTypeOK, Tasks
  <2> QED
    BY <2>1, <2>2, <2>3, <2>4 DEF CoverInv, Covered
<1>8. ASSUME NEW t \in Tasks, AddSubmit(t) PROVE CoverInv'
  <2>1. UNCHANGED <<closed, reads, writes>> /\ (OnTheWay => OnTheWay')
    BY <1>8
    DEF AddSubmit, OnTheWay, EventInLoop, JobQueued, JobRunning, loopvars,
        workvars
  <2>2. CASE closed
    BY <2>1, <2>2, CoverClosed
  <2>3. CASE ~closed /\ t \in ReadTasks
    <3>1. t \notin WriteTasks
      BY <2>3, TasksAssumption
    <3>2. Submitting(WriteTasks) => Submitting(WriteTasks)'
      BY <1>8, <3>1 DEF AddSubmit, Submitting, TypeOK, PipeTypeOK, Tasks
    <3>3. CASE reads = <<>>
      <4>1. UNCHANGED evvars
        BY <1>8, <2>3, <3>3 DEF AddSubmit, DoSubmitRead, DoSubmit, WantedEvents,
                               EPOLLIN, EPOLLOUT
      <4> QED
        BY <2>1, <3>2, <3>3, <4>1 DEF CoverInv, Covered, evvars
    <3>4. CASE reads # <<>>
      <4>1. /\ EPOLLIN \in evmask' /\ evmask \subseteq evmask'
            /\ evmask' \subseteq armed'
        BY <1>8, <2>3, <3>4 DEF AddSubmit, DoSubmitRead, DoSubmit, Submit,
                               WantedEvents, EPOLLIN, EPOLLOUT
      <4> QED
        BY <2>1, <3>2, <4>1 DEF CoverInv, Covered
    <3> QED
      BY <3>3, <3>4
  <2>4. CASE ~closed /\ t \in WriteTasks
    <3>1. t \notin ReadTasks
      BY <2>4, TasksAssumption
    <3>2. Submitting(ReadTasks) => Submitting(ReadTasks)'
      BY <1>8, <3>1 DEF AddSubmit, Submitting, TypeOK, PipeTypeOK, Tasks
    <3>3. CASE writes = <<>>
      <4>1. UNCHANGED evvars
        BY <1>8, <3>1, <3>3 DEF AddSubmit, DoSubmitWrite, DoSubmit, WantedEvents,
                               EPOLLIN, EPOLLOUT
      <4> QED
        BY <2>1, <3>2, <3>3, <4>1 DEF CoverInv, Covered, evvars
    <3>4. CASE writes # <<>>
      <4>1. /\ EPOLLOUT \in evmask' /\ evmask \subseteq evmask'
            /\ evmask' \subseteq armed'
        BY <1>8, <2>4, <3>1, <3>4 DEF AddSubmit, DoSubmitWrite, DoSubmit, Submit,
                               WantedEvents, EPOLLIN, EPOLLOUT
      <4> QED
        BY <2>1, <3>2, <4>1 DEF CoverInv, Covered
    <3> QED
      BY <3>3, <3>4
  <2> QED
    BY <2>2, <2>3, <2>4 DEF Tasks
<1>9. ASSUME Close PROVE CoverInv'
  BY <1>9, CoverClosed
  DEF Close, DoClose
<1>10. ASSUME EpollWait PROVE CoverInv'
  BY <1>10, CoverOnTheWay
  DEF EpollWait, OnTheWay, EventInLoop
<1>11. ASSUME EpollWake PROVE CoverInv'
  <2>1. OnTheWay => OnTheWay'
    BY <1>11
    DEF EpollWake, OnTheWay, EventInLoop, JobQueued, JobRunning, loopvars,
        workvars
  <2> QED
    BY <1>11, <2>1, CoverFrame
    DEF EpollWake, evvars, pipevars
<1>12. ASSUME ConsumeEvent PROVE CoverInv'
  <2>1. CASE EPOLLERR \in ev
    BY <1>12, <2>1, CoverOnTheWay DEF ConsumeEvent, OnTheWay, EventInLoop
  <2>2. CASE EPOLLERR \notin ev
    <3>1. EventJob(ev) \in Jobs /\ EventJob(ev).kind = "event"
      BY <2>2, JobType DEF EventJob, TypeOK, LoopTypeOK
    <3>2. JobQueued'
      BY <1>12, <2>2, <3>1, AppendStays DEF ConsumeEvent, workvars
    <3> QED
      BY <3>2, CoverOnTheWay DEF OnTheWay
  <2> QED
    BY <2>1, <2>2
<1>13. ASSUME ConsumeClose PROVE CoverInv'
  BY <1>13, CoverClosed
  DEF ConsumeClose, DoClose
<1>14. ASSUME DrainDestroy PROVE CoverInv'
  <2>1. closed
    BY <1>14 DEF DrainDestroy, DestroyInv, EventOutlivesReports
  <2> QED
    BY <1>14, <2>1, CoverClosed DEF DrainDestroy, pipevars
<1>15. ASSUME DrainDone PROVE CoverInv'
  <2>1. OnTheWay => OnTheWay'
    BY <1>15
    DEF DrainDone, OnTheWay, EventInLoop, JobQueued, JobRunning, loopvars,
        workvars
  <2> QED
    BY <1>15, <2>1, CoverFrame
    DEF DrainDone, evvars, pipevars
<1>16. ASSUME TimerFires PROVE CoverInv'
  <2>1. OnTheWay => OnTheWay'
    BY <1>16, AppendStays, JobType DEF TimerFires, OnTheWay, EventInLoop, workvars
  <2> QED
    BY <1>16, <2>1, CoverFrame DEF TimerFires, evvars, pipevars
<1>17. ASSUME NEW w \in Workers, TakeJob(w) PROVE CoverInv'
  BY <1>17, TakeStays, CoverFrame
  DEF TakeJob, evvars, pipevars
<1>18. ASSUME NEW w \in Workers, StartJob(w) PROVE CoverInv'
  <2>1. UNCHANGED <<lpc, pool, job, evmask, armed, call>> /\ wpc[w] # "idle"
    BY <1>18
    DEF StartJob, AfterRead, loopvars, evvars, pipevars
  <2>2. \E pc \in WorkerPCs \ {"idle"} : Goto(w, pc)
    <3>1. job[w].kind \in {"event", "resubmit"}
      BY DEF TypeOK, WorkTypeOK, Jobs
    <3> QED
      BY <1>18, <3>1
      DEF StartJob, AfterRead, WorkerPCs
  <2>3. OnTheWay => OnTheWay'
    BY <2>1, <2>2, RunningStays
  <2> QED
    BY <1>18, <2>1, <2>3, CoverFrame
    DEF StartJob, AfterRead, pipevars
<1>19. ASSUME NEW w \in Workers, ReadNext(w) PROVE CoverInv'
  <2>1. UNCHANGED <<lpc, pool, job, evmask, armed, call>> /\ wpc[w] # "idle"
    BY <1>19
    DEF ReadNext, AfterRead, loopvars, evvars, pipevars
  <2>2. \E pc \in WorkerPCs \ {"idle"} : Goto(w, pc)
    BY <1>19
    DEF ReadNext, AfterRead, WorkerPCs
  <2>3. OnTheWay => OnTheWay'
    BY <2>1, <2>2, RunningStays
  <2> QED
    BY <1>19, <2>1, <2>3, CoverFrame
    DEF ReadNext, AfterRead, pipevars
<1>20. ASSUME NEW w \in Workers, ReadvData(w) PROVE CoverInv'
  <2>1. UNCHANGED <<lpc, pool, job, evmask, armed, call>> /\ wpc[w] # "idle"
    BY <1>20
    DEF ReadvData, IOReturns, loopvars, evvars, pipevars
  <2>2. \E pc \in WorkerPCs \ {"idle"} : Goto(w, pc)
    BY <1>20
    DEF ReadvData, IOReturns, WorkerPCs
  <2>3. OnTheWay => OnTheWay'
    BY <2>1, <2>2, RunningStays
  <2> QED
    BY <1>20, <2>1, <2>3, CoverFrame
    DEF ReadvData, IOReturns, pipevars
<1>21. ASSUME NEW w \in Workers, ReadvAgain(w) PROVE CoverInv'
  <2>1. UNCHANGED <<lpc, pool, job, evmask, armed, call>> /\ wpc[w] # "idle"
    BY <1>21
    DEF ReadvAgain, IOReturns, loopvars, evvars, pipevars
  <2>2. \E pc \in WorkerPCs \ {"idle"} : Goto(w, pc)
    BY <1>21
    DEF ReadvAgain, IOReturns, WorkerPCs
  <2>3. OnTheWay => OnTheWay'
    BY <2>1, <2>2, RunningStays
  <2> QED
    BY <1>21, <2>1, <2>3, CoverFrame
    DEF ReadvAgain, IOReturns, pipevars
<1>22. ASSUME NEW w \in Workers, ReadvEnd(w) PROVE CoverInv'
  <2>1. UNCHANGED <<lpc, pool, job, evmask, armed, call>> /\ wpc[w] # "idle"
    BY <1>22
    DEF ReadvEnd, IOReturns, loopvars, evvars, pipevars
  <2>2. \E pc \in WorkerPCs \ {"idle"} : Goto(w, pc)
    BY <1>22
    DEF ReadvEnd, IOReturns, WorkerPCs
  <2>3. OnTheWay => OnTheWay'
    BY <2>1, <2>2, RunningStays
  <2> QED
    BY <1>22, <2>1, <2>3, CoverFrame
    DEF ReadvEnd, IOReturns, pipevars
<1>23. ASSUME NEW w \in Workers, ReadvError(w) PROVE CoverInv'
  <2>1. UNCHANGED <<lpc, pool, job, evmask, armed, call>> /\ wpc[w] # "idle"
    BY <1>23
    DEF ReadvError, IOError, IOReturns, loopvars, evvars, pipevars
  <2>2. \E pc \in WorkerPCs \ {"idle"} : Goto(w, pc)
    BY <1>23
    DEF ReadvError, IOError, IOReturns, WorkerPCs
  <2>3. OnTheWay => OnTheWay'
    BY <2>1, <2>2, RunningStays
  <2> QED
    BY <1>23, <2>1, <2>3, CoverFrame
    DEF ReadvError, IOError, IOReturns, pipevars
<1>24. ASSUME NEW w \in Workers, ReadDone(w) PROVE CoverInv'
  <2>1. UNCHANGED <<lpc, pool, job, evmask, armed, call>> /\ wpc[w] # "idle"
    BY <1>24
    DEF ReadDone, AfterRead, loopvars, evvars, pipevars
  <2>2. \E pc \in WorkerPCs \ {"idle"} : Goto(w, pc)
    BY <1>24
    DEF ReadDone, AfterRead, WorkerPCs
  <2>3. OnTheWay => OnTheWay'
    BY <2>1, <2>2, RunningStays
  <2>4. closed => closed'
    BY <1>24
    DEF ReadDone, DoClose
  <2>5. (reads = <<>> => reads' = <<>>) /\ (writes = <<>> => writes' = <<>>)
    BY <1>24
    DEF ReadDone
  <2> QED
    BY <2>1, <2>3, <2>4, <2>5, CoverFrame
<1>25. ASSUME NEW w \in Workers, WriteNext(w) PROVE CoverInv'
  <2>1. UNCHANGED <<lpc, pool, job, evmask, armed, call>> /\ wpc[w] # "idle"
    BY <1>25
    DEF WriteNext, loopvars, evvars, pipevars
  <2>2. \E pc \in WorkerPCs \ {"idle"} : Goto(w, pc)
    BY <1>25
    DEF WriteNext, WorkerPCs
  <2>3. OnTheWay => OnTheWay'
    BY <2>1, <2>2, RunningStays
  <2> QED
    BY <1>25, <2>1, <2>3, CoverFrame
    DEF WriteNext, pipevars
<1>26. ASSUME NEW w \in Workers, WritevData(w) PROVE CoverInv'
  <2>1. UNCHANGED <<lpc, pool, job, evmask, armed, call>> /\ wpc[w] # "idle"
    BY <1>26
    DEF WritevData, IOReturns, loopvars, evvars, pipevars
  <2>2. \E pc \in WorkerPCs \ {"idle"} : Goto(w, pc)
    BY <1>26
    DEF WritevData, IOReturns, WorkerPCs
  <2>3. OnTheWay => OnTheWay'
    BY <2>1, <2>2, RunningStays
  <2> QED
    BY <1>26, <2>1, <2>3, CoverFrame
    DEF WritevData, IOReturns, pipevars
<1>27. ASSUME NEW w \in Workers, WritevAgain(w) PROVE CoverInv'
  <2>1. UNCHANGED <<lpc, pool, job, evmask, armed, call>> /\ wpc[w] # "idle"
    BY <1>27
    DEF WritevAgain, IOReturns, loopvars, evvars, pipevars
  <2>2. \E pc \in WorkerPCs \ {"idle"} : Goto(w, pc)
    BY <1>27
    DEF WritevAgain, IOReturns, WorkerPCs
  <2>3. OnTheWay => OnTheWay'
    BY <2>1, <2>2, RunningStays
  <2> QED
    BY <1>27, <2>1, <2>3, CoverFrame
    DEF WritevAgain, IOReturns, pipevars
<1>28. ASSUME NEW w \in Workers, WritevError(w) PROVE CoverInv'
  <2>1. UNCHANGED <<lpc, pool, job, evmask, armed, call>> /\ wpc[w] # "idle"
    BY <1>28
    DEF WritevError, IOError, IOReturns, loopvars, evvars, pipevars
  <2>2. \E pc \in WorkerPCs \ {"idle"} : Goto(w, pc)
    BY <1>28
    DEF WritevError, IOError, IOReturns, WorkerPCs
  <2>3. OnTheWay => OnTheWay'
    BY <2>1, <2>2, RunningStays
  <2> QED
    BY <1>28, <2>1, <2>3, CoverFrame
    DEF WritevError, IOError, IOReturns, pipevars
<1>29. ASSUME NEW w \in Workers, WritevKilled(w) PROVE CoverInv'
  <2>1. OnTheWay => OnTheWay'
    BY <1>29
    DEF WritevKilled, OnTheWay, EventInLoop, JobQueued, JobRunning,
        loopvars, workvars
  <2> QED
    BY <1>29, <2>1, CoverFrame
    DEF WritevKilled, evvars, pipevars
<1>30. ASSUME NEW w \in Workers, WriteDone(w) PROVE CoverInv'
  <2>1. UNCHANGED <<lpc, pool, job, evmask, armed, call>> /\ wpc[w] # "idle"
    BY <1>30
    DEF WriteDone, loopvars, evvars, pipevars
  <2>2. \E pc \in WorkerPCs \ {"idle"} : Goto(w, pc)
    BY <1>30
    DEF WriteDone, WorkerPCs
  <2>3. OnTheWay => OnTheWay'
    BY <2>1, <2>2, RunningStays
  <2>4. closed => closed'
    BY <1>30
    DEF WriteDone, DoClose
  <2>5. (reads = <<>> => reads' = <<>>) /\ (writes = <<>> => writes' = <<>>)
    BY <1>30
    DEF WriteDone
  <2> QED
    BY <2>1, <2>3, <2>4, <2>5, CoverFrame
<1>31. ASSUME NEW w \in Workers, JobSubmits(w) PROVE CoverInv'
  <2>1. UNCHANGED <<closed, reads, writes, call>>
    BY <1>31 DEF JobSubmits
  <2>2. CASE closed
    BY <2>1, <2>2, CoverClosed
  <2>3. CASE ~closed /\ wpc[w] = "both"
    <3>1. /\ reads # <<>> => EPOLLIN \in evmask' /\ EPOLLIN \in armed'
          /\ writes # <<>> => EPOLLOUT \in evmask' /\ EPOLLOUT \in armed'
      BY <1>31, <2>3 DEF JobSubmits, DoSubmitBoth, DoSubmit, Submit, WantedEvents
    <3> QED
      BY <2>1, <3>1 DEF CoverInv, Covered
  <2>4. CASE ~closed /\ wpc[w] = "resubmit"
    <3>1. evvars' = evvars
          \/ /\ evmask \subseteq evmask' /\ evmask' \subseteq armed'
      BY <1>31, <2>4 DEF JobSubmits, DoSubmitWrite, DoSubmit, Submit
    <3>2. job[w].kind = "resubmit"
      BY <2>4 DEF JobInv
    <3>3. OnTheWay => OnTheWay'
      <4>1. UNCHANGED <<lpc, pool>>
        BY <1>31 DEF JobSubmits, loopvars
      <4>2. JobRunning => JobRunning'
        BY <1>31, <3>2 DEF JobSubmits, JobRunning, Goto, TypeOK, WorkTypeOK
      <4> QED
        BY <4>1, <4>2 DEF OnTheWay, EventInLoop, JobQueued
    <3> QED
      BY <2>1, <3>1, <3>3 DEF CoverInv, Covered, Submitting, evvars
  <2> QED
    BY <1>31, <2>2, <2>3, <2>4 DEF JobSubmits
<1>32. CASE UNCHANGED vars
  BY <1>32, CoverFrame
  DEF OnTheWay, EventInLoop, JobQueued, JobRunning, vars, evvars, pipevars,
      loopvars, workvars
<1> QED
  BY <1>1, <1>2, <1>3, <1>4, <1>5, <1>6, <1>7, <1>8, <1>9, <1>10, <1>11,
     <1>12, <1>13, <1>14, <1>15, <1>16, <1>17, <1>18, <1>19, <1>20, <1>21,
     <1>22, <1>23, <1>24, <1>25, <1>26, <1>27, <1>28, <1>29, <1>30, <1>31,
     <1>32
  DEF Next, User, EventLoop, Worker, Peer
-----------------------------------------------------------------------------
(* The theorems. *)

LEMMA Inductive == Spec => []IInv
<1>1. Init => IInv
  BY TypeInit, JobInit, CoverInit, DestroyInit DEF IInv
<1>2. IInv /\ [Next]_vars => IInv'
  BY TypeNext, JobNext, CoverNext, DestroyNext DEF IInv
<1> QED
  BY <1>1, <1>2, PTL DEF Spec

\* The state of a pipe, its event, its threads and its socket keep their types.
THEOREM TypeCorrect == Spec => []TypeOK
<1>1. IInv => TypeOK
  BY DEF IInv
<1> QED
  BY <1>1, Inductive, PTL

\* A pipe that is open and has tasks is never left with nobody watching for
\* their event, whatever the interleaving of users, event loop and workers.
THEOREM WakeupsAreNotLost == Spec => []NoLostWakeup
<1>1. IInv => NoLostWakeup
  BY DEF IInv, CoverInv, Covered, NoLostWakeup
<1> QED
  BY <1>1, Inductive, PTL

\* The event object of a pipe is deleted at most once, after the pipe was
\* closed, and not while the loop holds a report of it.
THEOREM EventsOutliveReports == Spec => []EventOutlivesReports
<1>1. IInv => EventOutlivesReports
  BY DEF IInv, DestroyInv
<1> QED
  BY <1>1, Inductive, PTL
=============================================================================
