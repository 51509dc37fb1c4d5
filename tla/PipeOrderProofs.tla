--------------------------- MODULE PipeOrderProofs ---------------------------
(***************************************************************************)
(* Theorems about one-way use of a Pipe, for any number of tasks, workers  *)
(* and units of data: one worker at a time in each direction, no task is   *)
(* dropped, and each direction implements a TaskFifo.                      *)
(***************************************************************************)
EXTENDS PipeOrder, PipeProofs

(* The directions: the flag of each, its list, its tasks.                  *)

Own(E)    == IF E = EPOLLIN THEN ReadTasks ELSE WriteTasks
List(E)   == IF E = EPOLLIN THEN reads ELSE writes
Other(E)  == IF E = EPOLLIN THEN EPOLLOUT ELSE EPOLLIN
IOPC(E)   == IF E = EPOLLIN THEN "rio" ELSE "wio"
DonePC(E) == IF E = EPOLLIN THEN "rdone" ELSE "wdone"

\* What the direction must be spared, besides calls of the other one: an illegal
\* size, after which remove_read() takes out a task that the worker pops as
\* well; and the resubmit_write() of a backoff on a pipe that stays open.
Spared(E) == IF E = EPOLLIN THEN BadTasks = {} ELSE MaxFaults = 0 /\ ~CanReset

(* The inductive invariant.                                                *)

\* Who has pipe::mtx, and what the job of a worker in doread() or dowrite() is.
PlaceInv ==
    /\ \A w \in Workers : wpc[w] \in {"rloop", "wloop", "both", "resubmit"} => mtx = w
    /\ \A t \in Tasks : call[t] = "submit" => mtx = t
    /\ \A w \in Workers : Reading(w) => job[w].kind = "event" /\ EPOLLIN \in job[w].evflag
    /\ \A w \in Workers : Writing(w) => job[w].kind = "event" /\ EPOLLOUT \in job[w].evflag
    /\ \A w \in Workers : wpc[w] = "both" => job[w].kind = "event"
    /\ \A w \in Workers : wpc[w] = "idle" => job[w].evflag = {}
    /\ lpc = "consume" <=> ev # {}

\* The task of a call to come is nowhere yet.
NewInv ==
    /\ \A t \in Tasks : call[t] = "new" =>
           t \notin TasksIn(reads) \cup TasksIn(writes) \cup TasksIn(sent)
    /\ \A t \in ReadTasks : call[t] = "new" => got[t] = <<>>
    /\ \A w \in Workers : wpc[w] \in {"rio", "wio"} => call[cur[w]] # "new"

\* The flag of a direction nobody has used is not watched for, not reported, and
\* in no job.
Unused(E) == \A t \in Own(E) : call[t] = "new"
Silent(E) ==
    /\ List(E) = <<>>
    /\ E \notin armed \cup evmask \cup ev
    /\ \A j \in TasksIn(pool) : E \notin j.evflag
    /\ \A w \in Workers : E \notin job[w].evflag
UnusedInv == \A E \in InOut : Unused(E) => Silent(E)

\* Without errors only a pipe that was closed has backoff timers.
DeferInv ==
    MaxFaults = 0 /\ ~CanReset =>
        /\ ~err /\ ~hup
        /\ ~closed => /\ deferred = 0
                      /\ \A j \in TasksIn(pool) : j.kind # "resubmit"
                      /\ \A w \in Workers : wpc[w] # "idle" => job[w].kind # "resubmit"

\* The right to perform the tasks of a list is in one place at a time: epoll
\* watches for the flag, the loop has a report of it, the pool has the job, a
\* worker has it, or a user is about to submit.  While it is anywhere the list
\* has a task, unless the worker has the lock and is about to find out.
Queued     == \E j \in TasksIn(pool) : j.kind = "event"
HasJob(w)  == wpc[w] # "idle" /\ job[w].kind = "event"
Nobody     == \A w \in Workers : ~HasJob(w)
Asking(E)  == \E t \in Own(E) : call[t] = "submit"
OneEvent(s) == \A i, j \in DOMAIN s : s[i].kind = "event" /\ s[j].kind = "event" => i = j
Chain(E) ==
    /\ E \in armed => oneshot /\ List(E) # <<>> /\ E \notin ev /\ ~Queued /\ ~Asking(E) /\ Nobody
    /\ E \in ev => List(E) # <<>> /\ ~Queued /\ ~Asking(E) /\ Nobody
    /\ Queued => List(E) # <<>> /\ ~Asking(E) /\ Nobody
    /\ Asking(E) => List(E) # <<>> /\ Nobody
    /\ OneEvent(pool)
    /\ \A v, w \in Workers : HasJob(v) /\ HasJob(w) => v = w
    /\ \A w \in Workers : HasJob(w) =>
           List(E) # <<>> \/ wpc[w] \in {"rloop", "wloop", "both"}

\* The task at hand stays at the front of its list while the lock is released.
Performed(E, t) == IF E = EPOLLIN THEN got[t] # <<>> ELSE t \in TasksIn(sent)
AtFront(E) ==
    \A w \in Workers : wpc[w] \in {IOPC(E), DonePC(E)} =>
        /\ List(E) # <<>> /\ cur[w] = Head(List(E))
        /\ wpc[w] = DonePC(E) /\ IsSuccess(res[w]) => Performed(E, cur[w])

OneWayInv(E) == Spared(E) /\ Unused(Other(E)) => Chain(E) /\ AtFront(E)

\* Every unit that was taken is in the buffers of one task.
UnitsInv ==
    /\ \A t \in ReadTasks : \A j \in DOMAIN got[t] : got[t][j] <= taken
    /\ \A i \in 1..taken : \E t \in ReadTasks : \E j \in DOMAIN got[t] : got[t][j] = i
    /\ \A t, u \in ReadTasks : \A j \in DOMAIN got[t], k \in DOMAIN got[u] :
           got[t][j] = got[u][k] => t = u

OrderInv ==
    /\ IInv /\ PlaceInv /\ NewInv /\ UnusedInv /\ DeferInv
    /\ \A E \in InOut : OneWayInv(E)
    /\ UnitsInv /\ OneWay
-----------------------------------------------------------------------------
(* Lists. *)

LEMMA ListAppend ==
    ASSUME NEW S, NEW s \in Seq(S), NEW e \in S
    PROVE  /\ Append(s, e) \in Seq(S) /\ Append(s, e) # <<>>
           /\ TasksIn(Append(s, e)) = TasksIn(s) \cup {e}
           /\ Head(Append(s, e)) = IF s = <<>> THEN e ELSE Head(s)
           /\ s = <<>> <=> Len(Append(s, e)) = 1
           /\ s # <<>> => Tail(Append(s, e)) = Append(Tail(s), e)
<1>1. /\ Append(s, e) \in Seq(S) /\ Len(Append(s, e)) = Len(s) + 1
      /\ DOMAIN Append(s, e) = 1..(Len(s) + 1) /\ DOMAIN s = 1..Len(s) /\ Len(s) \in Nat
      /\ \A i \in 1..Len(s) : Append(s, e)[i] = s[i]
      /\ Append(s, e)[Len(s) + 1] = e
      /\ s = <<>> <=> Len(s) = 0
  OBVIOUS
<1>2. TasksIn(Append(s, e)) = TasksIn(s) \cup {e}
  BY <1>1 DEF TasksIn
<1>3. Append(s, e) # <<>> /\ Head(Append(s, e)) = Append(s, e)[1]
  BY <1>1
<1>4. Head(Append(s, e)) = IF s = <<>> THEN e ELSE Head(s)
  BY <1>1, <1>3
<1>5. ASSUME s # <<>> PROVE Tail(Append(s, e)) = Append(Tail(s), e)
  BY <1>5, <1>1
<1> QED  BY <1>1, <1>2, <1>3, <1>4, <1>5

LEMMA AppendIs ==
    ASSUME NEW S, NEW s \in Seq(S), NEW e \in S
    PROVE  Append(s, e) = [i \in 1..(Len(s) + 1) |-> IF i = Len(s) + 1 THEN e ELSE s[i]]
<1> DEFINE f == [i \in 1..(Len(s) + 1) |-> IF i = Len(s) + 1 THEN e ELSE s[i]]
<1>1. /\ DOMAIN Append(s, e) = 1..(Len(s) + 1) /\ Len(s) \in Nat
      /\ \A i \in 1..Len(s) : Append(s, e)[i] = s[i]
      /\ Append(s, e)[Len(s) + 1] = e
  OBVIOUS
<1>0. Append(s, e) \in [1..(Len(s) + 1) -> S]
  <2>1. Append(s, e) \in Seq(S) /\ Len(Append(s, e)) = Len(s) + 1
    OBVIOUS
  <2> HIDE DEF f
  <2> DEFINE a == Append(s, e)
  <2> HIDE DEF a
  <2>2. a \in Seq(S) => a \in [1..Len(a) -> S]
    BY LenProperties
  <2> QED  BY <2>1, <2>2 DEF a
<1>2. \A i \in 1..(Len(s) + 1) : Append(s, e)[i] = f[i]
  BY <1>1
<1> HIDE DEF f
<1>3. f = [i \in 1..(Len(s) + 1) |-> f[i]]
  BY DEF f
<1>4. Append(s, e) = f
  BY <1>0, <1>1, <1>2, <1>3
<1> QED  BY <1>4 DEF f

LEMMA ListTail ==
    ASSUME NEW S, NEW s \in Seq(S), s # <<>>
    PROVE  /\ Head(s) \in S /\ Tail(s) \in Seq(S)
           /\ Head(s) \in TasksIn(s)
           /\ TasksIn(s) = TasksIn(Tail(s)) \cup {Head(s)}
<1>1. /\ Head(s) \in S /\ Tail(s) \in Seq(S) /\ Len(s) \in Nat /\ Len(s) >= 1
      /\ Head(s) = s[1] /\ DOMAIN s = 1..Len(s) /\ DOMAIN Tail(s) = 1..(Len(s) - 1)
      /\ \A i \in 1..(Len(s) - 1) : Tail(s)[i] = s[i + 1]
  OBVIOUS
<1>2. ASSUME NEW x \in TasksIn(s) PROVE x \in TasksIn(Tail(s)) \cup {Head(s)}
  <2>1. PICK i \in 1..Len(s) : x = s[i]
    BY <1>1 DEF TasksIn
  <2>2. CASE i = 1
    BY <2>1, <2>2, <1>1
  <2>3. CASE i # 1
    <3>1. i - 1 \in 1..(Len(s) - 1) /\ Tail(s)[i - 1] = x
      BY <2>1, <2>3, <1>1
    <3> QED  BY <3>1, <1>1 DEF TasksIn
  <2> QED  BY <2>2, <2>3
<1>3. ASSUME NEW x \in TasksIn(Tail(s)) PROVE x \in TasksIn(s)
  <2>1. PICK i \in 1..(Len(s) - 1) : x = Tail(s)[i]
    BY <1>1 DEF TasksIn
  <2>2. i + 1 \in 1..Len(s) /\ x = s[i + 1]
    BY <2>1, <1>1
  <2> QED  BY <2>2, <1>1 DEF TasksIn
<1>4. Head(s) \in TasksIn(s)
  BY <1>1 DEF TasksIn
<1> QED  BY <1>1, <1>2, <1>3, <1>4

LEMMA ListEmpty == TasksIn(<<>>) = {}
BY DEF TasksIn

\* std::list::remove() adds nothing.
LEMMA ListWithout ==
    ASSUME NEW S, NEW s \in Seq(S), NEW t
    PROVE  TasksIn(Without(s, t)) \subseteq TasksIn(s)
<1>1. s \in Seq(TasksIn(s))
  BY DEF TasksIn
<1>2. Without(s, t) \in Seq(TasksIn(s))
  BY <1>1, WithoutType
<1> QED  BY <1>2 DEF TasksIn

LEMMA OneEventAppend ==
    ASSUME NEW S, NEW s \in Seq(S), NEW e \in S, OneEvent(s),
           e.kind = "event" => \A j \in TasksIn(s) : j.kind # "event"
    PROVE  OneEvent(Append(s, e))
<1>1. /\ DOMAIN Append(s, e) = 1..(Len(s) + 1) /\ DOMAIN s = 1..Len(s) /\ Len(s) \in Nat
      /\ \A i \in 1..Len(s) : Append(s, e)[i] = s[i]
      /\ Append(s, e)[Len(s) + 1] = e
  OBVIOUS
<1>2. e.kind = "event" => \A i \in 1..Len(s) : s[i].kind # "event"
  BY <1>1 DEF TasksIn
<1> QED  BY <1>1, <1>2 DEF OneEvent

LEMMA OneEventTail ==
    ASSUME NEW S, NEW s \in Seq(S), s # <<>>, OneEvent(s)
    PROVE  /\ OneEvent(Tail(s))
           /\ Head(s).kind = "event" => \A j \in TasksIn(Tail(s)) : j.kind # "event"
<1>1. /\ Len(s) \in Nat /\ Len(s) >= 1
      /\ Head(s) = s[1] /\ DOMAIN s = 1..Len(s) /\ DOMAIN Tail(s) = 1..(Len(s) - 1)
      /\ \A i \in 1..(Len(s) - 1) : Tail(s)[i] = s[i + 1]
  OBVIOUS
<1>2. ASSUME NEW i \in 1..(Len(s) - 1), NEW j \in 1..(Len(s) - 1),
             Tail(s)[i].kind = "event", Tail(s)[j].kind = "event"
      PROVE  i = j
  <2>1. i + 1 \in 1..Len(s) /\ j + 1 \in 1..Len(s)
        /\ s[i + 1].kind = "event" /\ s[j + 1].kind = "event"
    BY <1>1, <1>2
  <2>2. i + 1 = j + 1
    BY <2>1, <1>1 DEF OneEvent
  <2> QED  BY <2>2
<1>3. ASSUME NEW i \in 1..(Len(s) - 1), Head(s).kind = "event" PROVE Tail(s)[i].kind # "event"
  <2>1. i + 1 \in 1..Len(s) /\ 1 \in 1..Len(s) /\ i + 1 # 1
    BY <1>1
  <2> QED  BY <2>1, <1>1, <1>3 DEF OneEvent
<1> QED  BY <1>1, <1>2, <1>3 DEF OneEvent, TasksIn

\* What submit() does, when it is called.
LEMMA SubmitEffect ==
    ASSUME NEW flags, DoSubmit(flags)
    PROVE  \/ UNCHANGED <<evmask, armed, oneshot>>
           \/ /\ ~closed /\ evmask' = evmask \cup flags
              /\ armed' = evmask \cup flags \cup {EPOLLERR} /\ oneshot' = TRUE
BY DEF DoSubmit, Submit, evvars

LEMMA WantedIsListed ==
    /\ WantedEvents \subseteq InOut
    /\ \A E \in InOut : E \in WantedEvents <=> List(E) # <<>>
BY DEF WantedEvents, InOut, List, EPOLLIN, EPOLLOUT
LEMMA ListsKnown ==
    ASSUME TypeOK
    PROVE  /\ \A t \in ReadTasks : TasksIn(Append(reads, t)) = TasksIn(reads) \cup {t}
           /\ \A t \in WriteTasks : TasksIn(Append(writes, t)) = TasksIn(writes) \cup {t}
           /\ \A t \in WriteTasks : TasksIn(Append(sent, t)) = TasksIn(sent) \cup {t}
           /\ \A j \in Jobs : TasksIn(Append(pool, j)) = TasksIn(pool) \cup {j}
           /\ TasksIn(pool) \subseteq Jobs
<1>1. /\ reads \in Seq(ReadTasks) /\ writes \in Seq(WriteTasks)
      /\ sent \in Seq(WriteTasks) /\ pool \in Seq(Jobs)
  BY DEF TypeOK, PipeTypeOK, LoopTypeOK, SockTypeOK
<1>2. /\ \A t \in ReadTasks : TasksIn(Append(reads, t)) = TasksIn(reads) \cup {t}
      /\ \A t \in WriteTasks : TasksIn(Append(writes, t)) = TasksIn(writes) \cup {t}
  BY <1>1, ListAppend
<1>3. /\ \A t \in WriteTasks : TasksIn(Append(sent, t)) = TasksIn(sent) \cup {t}
      /\ \A j \in Jobs : TasksIn(Append(pool, j)) = TasksIn(pool) \cup {j}
  BY <1>1, ListAppend
<1>4. TasksIn(pool) \subseteq Jobs
  BY <1>1 DEF TasksIn
<1> QED  BY <1>2, <1>3, <1>4

\* Where a worker goes; no status ends doread() or dowrite() or closes the pipe.
LEMMA StartEffect ==
    ASSUME TypeOK, NEW w \in Workers, StartJob(w)
    PROVE  \E pc \in {"resubmit", "rloop", "wloop", "both"} : wpc' = [wpc EXCEPT ![w] = pc]
<1>1. job[w].kind \in {"event", "resubmit"}
  BY DEF TypeOK, WorkTypeOK, Jobs
<1> QED  BY <1>1 DEF StartJob, Goto, AfterRead

LEMMA ReadDoneEffect ==
    ASSUME TypeOK, NEW w \in Workers, ReadDone(w)
    PROVE  /\ wpc[w] = "rdone" /\ wpc' = [wpc EXCEPT ![w] = "rloop"]
           /\ mtx = NoThread /\ mtx' = w
           /\ reads' = IF IsSuccess(res[w]) /\ reads # <<>> THEN Tail(reads) ELSE reads
           /\ crashed' = (IsSuccess(res[w]) /\ reads = <<>>)
           /\ cur' = [cur EXCEPT ![w] = NoTask] /\ res' = [res EXCEPT ![w] = NullState]
           /\ UNCHANGED <<evvars, closed, writes, call, lpc, ev, destroyq, deleted, deferred,
                          pool, job, sockvars>>
<1>1. ~IsError(res[w]) /\ ~IsFault(res[w]) /\ ~IsFailure(res[w])
  BY NoFailureIsRecognized DEF TypeOK, WorkTypeOK
<1> QED  BY <1>1 DEF ReadDone, ForgetIO, Goto, PopFront

LEMMA WriteDoneEffect ==
    ASSUME TypeOK, NEW w \in Workers, WriteDone(w)
    PROVE  /\ wpc[w] = "wdone" /\ wpc' = [wpc EXCEPT ![w] = "wloop"]
           /\ mtx = NoThread /\ mtx' = w
           /\ writes' = IF IsSuccess(res[w]) /\ writes # <<>> THEN Tail(writes) ELSE writes
           /\ crashed' = (IsSuccess(res[w]) /\ writes = <<>>)
           /\ cur' = [cur EXCEPT ![w] = NoTask] /\ res' = [res EXCEPT ![w] = NullState]
           /\ UNCHANGED <<evvars, closed, reads, call, lpc, ev, destroyq, deleted, deferred,
                          pool, job, sockvars>>
<1>1. ~IsError(res[w]) /\ ~IsFault(res[w]) /\ ~IsFailure(res[w])
  BY NoFailureIsRecognized DEF TypeOK, WorkTypeOK
<1> QED  BY <1>1 DEF WriteDone, ForgetIO, Goto, PopFront
-----------------------------------------------------------------------------
(* Who has the lock. *)

LEMMA PlaceNext == TypeOK /\ PlaceInv /\ [Next]_vars => PlaceInv'
<1> SUFFICES ASSUME TypeOK, PlaceInv, [Next]_vars PROVE PlaceInv'
  OBVIOUS
<1> USE ThreadsAssumption DEF PlaceInv, Reading, Writing
<1>t. /\ wpc \in [Workers -> WorkerPCs] /\ job \in [Workers -> Jobs]
      /\ call \in [Tasks -> {"new", "submit", "queued", "dropped", "removed"}]
      /\ ReadTasks \subseteq Tasks /\ WriteTasks \subseteq Tasks
      /\ NoThread \notin Workers /\ NoThread \notin Tasks
  BY DEF TypeOK, PipeTypeOK, WorkTypeOK, Tasks, Threads
\* Steps that touch neither the lock nor the places.
<1>s. ASSUME UNCHANGED <<mtx, call, wpc, job>>,
             (lpc' = lpc /\ ev' = ev) \/ (lpc' # "consume" /\ lpc # "consume" /\ ev' = ev)
      PROVE  PlaceInv'
  BY <1>s
<1>1. CASE Peer
  BY <1>1, <1>s DEF Peer, PeerSends, PeerDrains, PeerShuts, PeerResets, pipevars, loopvars, workvars
<1>2. CASE Close
  BY <1>2, <1>s DEF Close, workvars
<1>3. ASSUME NEW t \in ReadTasks, AddRead(t) PROVE PlaceInv'
  BY <1>3, <1>t DEF AddRead, workvars, loopvars
<1>4. ASSUME NEW t \in WriteTasks, AddWrite(t) PROVE PlaceInv'
  BY <1>4, <1>t DEF AddWrite, workvars, loopvars
<1>5. ASSUME NEW t \in ReadTasks, RemoveRead(t) PROVE PlaceInv'
  BY <1>5, <1>t DEF RemoveRead, workvars, loopvars
<1>6. ASSUME NEW t \in Tasks, AddSubmit(t) PROVE PlaceInv'
  BY <1>6, <1>t DEF AddSubmit, workvars, loopvars
<1>7. CASE EpollWait
  BY <1>7 DEF EpollWait, pipevars, workvars
<1>8. CASE EpollWake \/ ConsumeClose \/ DrainDestroy \/ DrainDone \/ TimerFires
  BY <1>8, <1>s DEF EpollWake, ConsumeClose, DrainDestroy, DrainDone, TimerFires, pipevars, workvars
<1>9. CASE ConsumeEvent
  BY <1>9 DEF ConsumeEvent, pipevars, workvars
<1>10. ASSUME NEW w \in Workers, TakeJob(w) PROVE PlaceInv'
  BY <1>10, <1>t DEF TakeJob, Goto, pipevars, loopvars
<1>11. ASSUME NEW w \in Workers, StartJob(w) PROVE PlaceInv'
  <2>1. job[w].kind \in {"event", "resubmit"}
    BY <1>t DEF Jobs
  <2> QED  BY <1>11, <1>t, <2>1 DEF StartJob, AfterRead, Goto, loopvars
<1>12. ASSUME NEW w \in Workers, ReadNext(w) PROVE PlaceInv'
  BY <1>12, <1>t DEF ReadNext, AfterRead, Goto, loopvars
<1>13. ASSUME NEW w \in Workers, ReadvData(w) \/ ReadvAgain(w) \/ ReadvEnd(w) \/ ReadvError(w)
       PROVE  PlaceInv'
  BY <1>13, <1>t DEF ReadvData, ReadvAgain, ReadvEnd, ReadvError, IOError, IOReturns, Goto, pipevars
<1>14. ASSUME NEW w \in Workers, ReadDone(w) PROVE PlaceInv'
  BY <1>14, <1>t DEF ReadDone, AfterRead, Goto
<1>15. ASSUME NEW w \in Workers, WriteNext(w) PROVE PlaceInv'
  BY <1>15, <1>t DEF WriteNext, Goto, loopvars
<1>16. ASSUME NEW w \in Workers, WritevData(w) \/ WritevAgain(w) \/ WritevError(w)
       PROVE  PlaceInv'
  BY <1>16, <1>t DEF WritevData, WritevAgain, WritevError, IOError, IOReturns, Goto, pipevars
<1>17. ASSUME NEW w \in Workers, WritevKilled(w) PROVE PlaceInv'
  BY <1>17, <1>s DEF WritevKilled, pipevars, loopvars, workvars
<1>18. ASSUME NEW w \in Workers, WriteDone(w) PROVE PlaceInv'
  BY <1>18, <1>t DEF WriteDone, Goto
<1>19. ASSUME NEW w \in Workers, JobSubmits(w) PROVE PlaceInv'
  BY <1>19, <1>t DEF JobSubmits, Goto, ResubmitJob, loopvars
<1>20. CASE UNCHANGED vars
  BY <1>20, <1>s DEF vars, pipevars, loopvars, workvars
<1> QED
  BY <1>1, <1>2, <1>3, <1>4, <1>5, <1>6, <1>7, <1>8, <1>9, <1>10, <1>11, <1>12, <1>13,
     <1>14, <1>15, <1>16, <1>17, <1>18, <1>19, <1>20
  DEF Next, User, EventLoop, Worker
-----------------------------------------------------------------------------
(* Tasks whose call is to come, and directions without a call. *)

LEMMA NewNext == TypeOK /\ NewInv /\ [Next]_vars => NewInv'
<1> SUFFICES ASSUME TypeOK, NewInv, [Next]_vars PROVE NewInv'
  OBVIOUS
<1>t. /\ wpc \in [Workers -> WorkerPCs] /\ cur \in [Workers -> Tasks \cup {NoTask}]
      /\ call \in [Tasks -> {"new", "submit", "queued", "dropped", "removed"}]
      /\ got \in [ReadTasks -> Seq(1..MaxData)]
      /\ reads \in Seq(ReadTasks) /\ writes \in Seq(WriteTasks) /\ sent \in Seq(WriteTasks)
      /\ ReadTasks \subseteq Tasks /\ WriteTasks \subseteq Tasks
      /\ ReadTasks \cap WriteTasks = {}
      /\ \A w \in Workers : wpc[w] = "rio" => cur[w] \in ReadTasks
      /\ \A w \in Workers : wpc[w] = "wio" => cur[w] \in WriteTasks
  BY TasksAssumption DEF TypeOK, PipeTypeOK, WorkTypeOK, SockTypeOK, Tasks
<1>l. /\ TasksIn(reads) \subseteq ReadTasks /\ TasksIn(writes) \subseteq WriteTasks
      /\ reads # <<>> => Head(reads) \in TasksIn(reads) /\ TasksIn(Tail(reads)) \subseteq TasksIn(reads)
      /\ writes # <<>> => Head(writes) \in TasksIn(writes) /\ TasksIn(Tail(writes)) \subseteq TasksIn(writes)
  <2>1. \A S : \A s \in Seq(S) : TasksIn(s) \subseteq S
    BY DEF TasksIn
  <2>2. ASSUME reads # <<>>
        PROVE  Head(reads) \in TasksIn(reads) /\ TasksIn(Tail(reads)) \subseteq TasksIn(reads)
    <3>1. /\ Head(reads) \in TasksIn(reads)
          /\ TasksIn(reads) = TasksIn(Tail(reads)) \cup {Head(reads)}
      BY ONLY <1>t, <2>2, ListTail
    <3> QED  BY ONLY <3>1
  <2>3. ASSUME writes # <<>>
        PROVE  Head(writes) \in TasksIn(writes) /\ TasksIn(Tail(writes)) \subseteq TasksIn(writes)
    <3>1. /\ Head(writes) \in TasksIn(writes)
          /\ TasksIn(writes) = TasksIn(Tail(writes)) \cup {Head(writes)}
      BY ONLY <1>t, <2>3, ListTail
    <3> QED  BY ONLY <3>1
  <2> QED  BY <1>t, <2>1, <2>2, <2>3
<1>p. NewInv' <=>
        /\ \A t \in Tasks : call'[t] = "new" =>
               t \notin TasksIn(reads') \cup TasksIn(writes') \cup TasksIn(sent')
        /\ \A t \in ReadTasks : call'[t] = "new" => got'[t] = <<>>
        /\ \A w \in Workers : wpc'[w] \in {"rio", "wio"} => call'[cur'[w]] # "new"
  BY DEF NewInv, TasksIn
\* Steps of which the calls, the lists and the tasks at hand know nothing.
<1>s. ASSUME call' = call, sent' = sent, got' = got,
             TasksIn(reads') \subseteq TasksIn(reads), TasksIn(writes') \subseteq TasksIn(writes),
             \A w \in Workers : wpc'[w] \in {"rio", "wio"} => wpc'[w] = wpc[w] /\ cur'[w] = cur[w]
      PROVE  NewInv'
  BY <1>s, <1>p DEF NewInv
<1>1. CASE Peer \/ Close \/ EventLoop
  BY <1>1, <1>s DEF Peer, PeerSends, PeerDrains, PeerShuts, PeerResets, Close, EventLoop,
     EpollWait, EpollWake, ConsumeEvent, ConsumeClose, DrainDestroy, DrainDone, TimerFires,
     pipevars, workvars, sockvars
<1>2. ASSUME NEW t \in ReadTasks, AddRead(t) PROVE NewInv'
  <2>1. /\ call[t] = "new" /\ UNCHANGED <<writes, sent, got, wpc, cur>>
        /\ \E s \in {"dropped", "submit", "queued"} : call' = [call EXCEPT ![t] = s]
        /\ reads' = reads \/ reads' = Append(reads, t)
    BY <1>2 DEF AddRead, workvars, sockvars
  <2>2. TasksIn(reads') \subseteq TasksIn(reads) \cup {t}
    BY <2>1, <1>t, ListsKnown
  <2> QED  BY <2>1, <2>2, <1>t, <1>p DEF NewInv
<1>3. ASSUME NEW t \in WriteTasks, AddWrite(t) PROVE NewInv'
  <2>1. /\ call[t] = "new" /\ UNCHANGED <<reads, sent, got, wpc, cur>>
        /\ \E s \in {"dropped", "submit", "queued"} : call' = [call EXCEPT ![t] = s]
        /\ writes' = writes \/ writes' = Append(writes, t)
    BY <1>3 DEF AddWrite, workvars, sockvars
  <2>2. TasksIn(writes') \subseteq TasksIn(writes) \cup {t}
    BY <2>1, <1>t, ListsKnown
  <2> QED  BY <2>1, <2>2, <1>t, <1>p DEF NewInv
<1>4. ASSUME NEW t \in ReadTasks, RemoveRead(t) PROVE NewInv'
  <2>1. /\ call[t] = "queued" /\ UNCHANGED <<writes, sent, got, wpc, cur>>
        /\ call' = [call EXCEPT ![t] = "removed"]
        /\ reads' = reads \/ reads' = Without(reads, t)
    BY <1>4 DEF RemoveRead, workvars, sockvars
  <2>2. TasksIn(reads') \subseteq TasksIn(reads)
    BY <2>1, <1>t, ListWithout
  <2> QED  BY <2>1, <2>2, <1>t, <1>p DEF NewInv
<1>5. ASSUME NEW t \in Tasks, AddSubmit(t) PROVE NewInv'
  <2>1. /\ call[t] = "submit" /\ call' = [call EXCEPT ![t] = "queued"]
        /\ UNCHANGED <<reads, writes, sent, got, wpc, cur>>
    BY <1>5 DEF AddSubmit, workvars, sockvars
  <2> QED  BY <2>1, <1>t, <1>p DEF NewInv
<1>6. ASSUME NEW w \in Workers, TakeJob(w) \/ StartJob(w) \/ JobSubmits(w) PROVE NewInv'
  <2>1. /\ UNCHANGED <<call, reads, writes, sent, got, cur>>
        /\ \E pc \in {"start", "resubmit", "rloop", "wloop", "both", "idle"} :
              wpc' = [wpc EXCEPT ![w] = pc]
    BY <1>6, StartEffect DEF TakeJob, StartJob, JobSubmits, Goto, pipevars, sockvars
  <2>2. \A v \in Workers : wpc'[v] \in {"rio", "wio"} => wpc'[v] = wpc[v] /\ cur'[v] = cur[v]
    BY <2>1, <1>t
  <2> QED  BY <2>1, <2>2, <1>s
<1>7. ASSUME NEW w \in Workers, ReadNext(w) PROVE NewInv'
  <2>1. /\ UNCHANGED <<call, reads, writes, sent, got>>
        /\ \/ cur' = cur /\ \E pc \in {"wloop", "both"} : wpc' = [wpc EXCEPT ![w] = pc]
           \/ /\ reads # <<>> /\ cur' = [cur EXCEPT ![w] = Head(reads)]
              /\ wpc' = [wpc EXCEPT ![w] = "rio"]
    BY <1>7 DEF ReadNext, AfterRead, Goto, sockvars
  <2> QED  BY <2>1, <1>t, <1>l, <1>p DEF NewInv
<1>8. ASSUME NEW w \in Workers, WriteNext(w) PROVE NewInv'
  <2>1. /\ UNCHANGED <<call, reads, writes, sent, got>>
        /\ \/ cur' = cur /\ wpc' = [wpc EXCEPT ![w] = "both"]
           \/ /\ writes # <<>> /\ cur' = [cur EXCEPT ![w] = Head(writes)]
              /\ wpc' = [wpc EXCEPT ![w] = "wio"]
    BY <1>8 DEF WriteNext, Goto, sockvars
  <2> QED  BY <2>1, <1>t, <1>l, <1>p DEF NewInv
<1>9. ASSUME NEW w \in Workers, ReadvData(w) PROVE NewInv'
  <2>1. /\ wpc[w] = "rio" /\ UNCHANGED <<call, reads, writes, sent, cur>>
        /\ wpc' = [wpc EXCEPT ![w] = "rdone"]
        /\ \A t \in ReadTasks : t # cur[w] => got'[t] = got[t]
    BY <1>9, <1>t DEF ReadvData, IOReturns, Goto, pipevars
  <2> QED  BY <2>1, <1>t, <1>p DEF NewInv
<1>10. ASSUME NEW w \in Workers, WritevData(w) PROVE NewInv'
  <2>1. /\ wpc[w] = "wio" /\ UNCHANGED <<call, reads, writes, got, cur>>
        /\ wpc' = [wpc EXCEPT ![w] = "wdone"] /\ sent' = Append(sent, cur[w])
    BY <1>10 DEF WritevData, IOReturns, Goto, pipevars
  <2>2. TasksIn(sent') = TasksIn(sent) \cup {cur[w]}
    BY <2>1, <1>t, ListsKnown
  <2> QED  BY <2>1, <2>2, <1>t, <1>p DEF NewInv
<1>11. ASSUME NEW w \in Workers,
              ReadvAgain(w) \/ ReadvEnd(w) \/ ReadvError(w) \/ WritevAgain(w) \/ WritevError(w)
       PROVE  NewInv'
  BY <1>11, <1>s, <1>t DEF ReadvAgain, ReadvEnd, ReadvError, WritevAgain, WritevError, IOError,
     IOReturns, Goto, pipevars, sockvars
<1>12. ASSUME NEW w \in Workers, WritevKilled(w) PROVE NewInv'
  BY <1>12, <1>s DEF WritevKilled, pipevars, workvars, sockvars
<1>13. ASSUME NEW w \in Workers, ReadDone(w) PROVE NewInv'
  <2>0. /\ wpc' = [wpc EXCEPT ![w] = "rloop"] /\ cur' = [cur EXCEPT ![w] = NoTask]
        /\ reads' = IF IsSuccess(res[w]) /\ reads # <<>> THEN Tail(reads) ELSE reads
        /\ UNCHANGED <<call, writes, sockvars>>
    BY <1>13, ReadDoneEffect
  <2>1. UNCHANGED <<call, writes, sent, got>>
    BY <2>0 DEF sockvars
  <2>3. TasksIn(reads') \subseteq TasksIn(reads)
    <3>1. CASE IsSuccess(res[w]) /\ reads # <<>>
      BY <2>0, <3>1, <1>l
    <3>2. CASE ~(IsSuccess(res[w]) /\ reads # <<>>)
      BY <2>0, <3>2
    <3> QED  BY <3>1, <3>2
  <2>2. \A v \in Workers : wpc'[v] \in {"rio", "wio"} => wpc'[v] = wpc[v] /\ cur'[v] = cur[v]
    BY <2>0, <1>t
  <2> QED  BY <2>1, <2>2, <2>3, <1>l, <1>s
<1>14. ASSUME NEW w \in Workers, WriteDone(w) PROVE NewInv'
  <2>0. /\ wpc' = [wpc EXCEPT ![w] = "wloop"] /\ cur' = [cur EXCEPT ![w] = NoTask]
        /\ writes' = IF IsSuccess(res[w]) /\ writes # <<>> THEN Tail(writes) ELSE writes
        /\ UNCHANGED <<call, reads, sockvars>>
    BY <1>14, WriteDoneEffect
  <2>1. UNCHANGED <<call, reads, sent, got>>
    BY <2>0 DEF sockvars
  <2>3. TasksIn(writes') \subseteq TasksIn(writes)
    <3>1. CASE IsSuccess(res[w]) /\ writes # <<>>
      BY <2>0, <3>1, <1>l
    <3>2. CASE ~(IsSuccess(res[w]) /\ writes # <<>>)
      BY <2>0, <3>2
    <3> QED  BY <3>1, <3>2
  <2>2. \A v \in Workers : wpc'[v] \in {"rio", "wio"} => wpc'[v] = wpc[v] /\ cur'[v] = cur[v]
    BY <2>0, <1>t
  <2> QED  BY <2>1, <2>2, <2>3, <1>l, <1>s
<1>15. CASE UNCHANGED vars
  BY <1>15, <1>s DEF vars, pipevars, workvars, sockvars
<1> QED
  BY <1>1, <1>2, <1>3, <1>4, <1>5, <1>6, <1>7, <1>8, <1>9, <1>10, <1>11, <1>12, <1>13,
     <1>14, <1>15
  DEF Next, User, Worker

\* A step of a direction is a step of its own flag: what was never asked for is
\* neither watched for nor performed.
LEMMA UnusedNext ==
    ASSUME TypeOK, PlaceInv, UnusedInv, [Next]_vars, NEW E \in InOut, Unused(E)'
    PROVE  Unused(E) /\ Silent(E)'
<1>t. /\ wpc \in [Workers -> WorkerPCs] /\ job \in [Workers -> Jobs] /\ pool \in Seq(Jobs)
      /\ call \in [Tasks -> {"new", "submit", "queued", "dropped", "removed"}]
      /\ ReadTasks \subseteq Tasks /\ WriteTasks \subseteq Tasks
      /\ reads \in Seq(ReadTasks) /\ writes \in Seq(WriteTasks)
      /\ evmask \subseteq InOut /\ E \in {EPOLLIN, EPOLLOUT} /\ EPOLLIN # EPOLLOUT
      /\ E # EPOLLERR
  BY DEF TypeOK, EventTypeOK, PipeTypeOK, LoopTypeOK, WorkTypeOK, Tasks, InOut, EPOLLIN, EPOLLOUT,
     EPOLLERR
<1>p. Silent(E)' <=>
        /\ List(E)' = <<>>
        /\ E \notin armed' \cup evmask' \cup ev'
        /\ \A j \in TasksIn(pool') : E \notin j.evflag
        /\ \A w \in Workers : E \notin job'[w].evflag
  BY DEF Silent, TasksIn
<1>c. \A t \in Own(E) : call'[t] = "new"
  BY DEF Unused, Own
\* Steps that begin no call.
<1>s. ASSUME \A t \in Own(E) : call'[t] = "new" => call[t] = "new",
             Silent(E) => Silent(E)'
      PROVE  Unused(E) /\ Silent(E)'
  <2>1. Unused(E)
    BY <1>s, <1>c DEF Unused
  <2> QED  BY <2>1, <1>s DEF UnusedInv
\* Steps that submit.
<1>w. Silent(E) => E \notin WantedEvents
  BY WantedIsListed DEF Silent
<1>d. ASSUME Silent(E), NEW flags \in SUBSET WantedEvents, DoSubmit(flags)
      PROVE  E \notin armed' \cup evmask'
  <2>1. E \notin flags /\ E \notin evmask /\ E \notin armed
    BY <1>d, <1>w DEF Silent
  <2>2. \/ UNCHANGED <<evmask, armed>>
        \/ evmask' = evmask \cup flags /\ armed' = evmask \cup flags \cup {EPOLLERR}
    BY <1>d, SubmitEffect
  <2> QED  BY <2>1, <2>2, <1>t
<1>1. CASE Peer \/ Close
  <2>1. UNCHANGED <<call, reads, writes, armed, evmask, ev, pool, job>>
    BY <1>1 DEF Peer, PeerSends, PeerDrains, PeerShuts, PeerResets, Close,
       evvars, pipevars, loopvars, workvars
  <2> QED  BY <2>1, <1>s, <1>p DEF Silent, List
<1>2. ASSUME NEW t \in ReadTasks, AddRead(t) PROVE Unused(E) /\ Silent(E)'
  <2>1. /\ call[t] = "new" /\ UNCHANGED <<writes, armed, evmask, ev, pool, job>>
        /\ \E s \in {"dropped", "submit", "queued"} : call' = [call EXCEPT ![t] = s]
    BY <1>2 DEF AddRead, evvars, loopvars, workvars
  <2>2. E = EPOLLOUT
    BY <2>1, <1>c, <1>t DEF Own
  <2> QED  BY <2>1, <2>2, <1>s, <1>p, <1>t DEF Silent, List, Own
<1>3. ASSUME NEW t \in WriteTasks, AddWrite(t) PROVE Unused(E) /\ Silent(E)'
  <2>1. /\ call[t] = "new" /\ UNCHANGED <<reads, armed, evmask, ev, pool, job>>
        /\ \E s \in {"dropped", "submit", "queued"} : call' = [call EXCEPT ![t] = s]
    BY <1>3 DEF AddWrite, evvars, loopvars, workvars
  <2>2. E = EPOLLIN
    BY <2>1, <1>c, <1>t DEF Own
  <2> QED  BY <2>1, <2>2, <1>s, <1>p, <1>t DEF Silent, List, Own
<1>4. ASSUME NEW t \in ReadTasks, RemoveRead(t) PROVE Unused(E) /\ Silent(E)'
  <2>1. /\ call[t] = "queued" /\ UNCHANGED <<writes, armed, evmask, ev, pool, job>>
        /\ call' = [call EXCEPT ![t] = "removed"]
    BY <1>4 DEF RemoveRead, evvars, loopvars, workvars
  <2>2. E = EPOLLOUT
    BY <2>1, <1>c, <1>t DEF Own
  <2> QED  BY <2>1, <2>2, <1>s, <1>p, <1>t DEF Silent, List, Own
<1>5. ASSUME NEW t \in Tasks, AddSubmit(t) PROVE Unused(E) /\ Silent(E)'
  <2>1. /\ call' = [call EXCEPT ![t] = "queued"] /\ UNCHANGED <<reads, writes, ev, pool, job>>
        /\ \E flags \in SUBSET WantedEvents : DoSubmit(flags)
    BY <1>5 DEF AddSubmit, DoSubmitRead, DoSubmitWrite, loopvars, workvars
  <2>2. Silent(E) => E \notin armed' \cup evmask'
    BY <2>1, <1>d
  <2> QED  BY <2>1, <2>2, <1>s, <1>p, <1>t DEF Silent, List, Own
<1>6. CASE EpollWait
  <2>1. /\ UNCHANGED <<call, reads, writes, evmask, pool, job>>
        /\ ev' \subseteq armed /\ armed' \subseteq armed
    BY <1>6 DEF EpollWait, Report, pipevars, workvars
  <2> QED  BY <2>1, <1>s, <1>p DEF Silent, List
<1>7. CASE ConsumeEvent
  <2>1. /\ UNCHANGED <<call, reads, writes, armed, job>> /\ evmask' \subseteq evmask /\ ev' = {}
        /\ \/ pool' = pool
           \/ EPOLLERR \notin ev /\ pool' = Append(pool, EventJob(ev))
    BY <1>7 DEF ConsumeEvent, Consume, pipevars, workvars
  <2>2. EPOLLERR \notin ev => EventJob(ev) \in Jobs
    BY JobType DEF TypeOK, LoopTypeOK
  <2>3. TasksIn(pool') \subseteq TasksIn(pool) \cup {EventJob(ev)}
    BY <2>1, <2>2, ListsKnown
  <2>4. EventJob(ev).evflag = ev
    BY DEF EventJob
  <2> QED  BY <2>1, <2>3, <2>4, <1>s, <1>p DEF Silent, List
<1>8. CASE TimerFires
  <2>1. UNCHANGED <<call, reads, writes, armed, evmask, ev, job>> /\ pool' = Append(pool, ResubmitJob)
    BY <1>8 DEF TimerFires, evvars, pipevars, workvars
  <2>2. TasksIn(pool') = TasksIn(pool) \cup {ResubmitJob} /\ ResubmitJob.evflag = {}
    BY <2>1, ListsKnown, JobType DEF ResubmitJob
  <2> QED  BY <2>1, <2>2, <1>s, <1>p DEF Silent, List
<1>9. CASE EpollWake \/ ConsumeClose \/ DrainDestroy \/ DrainDone
  <2>1. UNCHANGED <<call, reads, writes, evmask, ev, pool, job>> /\ armed' \subseteq armed
    BY <1>9 DEF EpollWake, ConsumeClose, ConsumeReturn, DrainDestroy, Unregister, DrainDone,
       evvars, pipevars, workvars
  <2> QED  BY <2>1, <1>s, <1>p DEF Silent, List
<1>10. ASSUME NEW w \in Workers, TakeJob(w) PROVE Unused(E) /\ Silent(E)'
  <2>1. /\ UNCHANGED <<call, reads, writes, armed, evmask, ev>>
        /\ pool # <<>> /\ pool' = Tail(pool) /\ job' = [job EXCEPT ![w] = Head(pool)]
    BY <1>10 DEF TakeJob, evvars, pipevars, loopvars
  <2>2. Head(pool) \in TasksIn(pool) /\ TasksIn(pool') \subseteq TasksIn(pool)
    BY <2>1, <1>t, ListTail
  <2> QED  BY <2>1, <2>2, <1>s, <1>p, <1>t DEF Silent, List
<1>11. ASSUME NEW w \in Workers, JobSubmits(w) PROVE Unused(E) /\ Silent(E)'
  <2>1. /\ UNCHANGED <<call, reads, writes, ev, pool>> /\ job' = [job EXCEPT ![w] = ResubmitJob]
        /\ \E flags \in SUBSET WantedEvents : DoSubmit(flags)
    BY <1>11 DEF JobSubmits, DoSubmitBoth, DoSubmitWrite, loopvars
  <2>2. Silent(E) => E \notin armed' \cup evmask'
    BY <2>1, <1>d
  <2>3. ResubmitJob.evflag = {}
    BY DEF ResubmitJob
  <2> QED  BY <2>1, <2>2, <2>3, <1>s, <1>p, <1>t DEF Silent, List
<1>12. ASSUME NEW w \in Workers,
              StartJob(w) \/ ReadNext(w) \/ WriteNext(w) \/ ReadvData(w) \/ ReadvAgain(w)
              \/ ReadvEnd(w) \/ ReadvError(w) \/ WritevData(w) \/ WritevAgain(w)
              \/ WritevError(w) \/ WritevKilled(w)
       PROVE  Unused(E) /\ Silent(E)'
  <2>1. UNCHANGED <<call, reads, writes, armed, evmask, ev, pool, job>>
    BY <1>12 DEF StartJob, ReadNext, WriteNext, ReadvData, ReadvAgain, ReadvEnd, ReadvError,
       WritevData, WritevAgain, WritevError, WritevKilled, IOError, IOReturns,
       evvars, pipevars, loopvars, workvars
  <2> QED  BY <2>1, <1>s, <1>p DEF Silent, List
<1>13. ASSUME NEW w \in Workers, ReadDone(w) PROVE Unused(E) /\ Silent(E)'
  <2>1. UNCHANGED <<call, writes, armed, evmask, ev, pool, job>> /\ Reading(w)
    BY <1>13, ReadDoneEffect DEF Reading, evvars
  <2>2. Silent(E) => E = EPOLLOUT
    BY <2>1, <1>t DEF Silent, PlaceInv
  <2> QED  BY <2>1, <2>2, <1>s, <1>p, <1>t DEF Silent, List
<1>14. ASSUME NEW w \in Workers, WriteDone(w) PROVE Unused(E) /\ Silent(E)'
  <2>1. UNCHANGED <<call, reads, armed, evmask, ev, pool, job>> /\ Writing(w)
    BY <1>14, WriteDoneEffect DEF Writing, evvars
  <2>2. Silent(E) => E = EPOLLIN
    BY <2>1, <1>t DEF Silent, PlaceInv
  <2> QED  BY <2>1, <2>2, <1>s, <1>p, <1>t DEF Silent, List
<1>15. CASE UNCHANGED vars
  <2>1. UNCHANGED <<call, reads, writes, armed, evmask, ev, pool, job>>
    BY <1>15 DEF vars, evvars, pipevars, loopvars, workvars
  <2> QED  BY <2>1, <1>s, <1>p DEF Silent, List
<1> QED
  BY <1>1, <1>2, <1>3, <1>4, <1>5, <1>6, <1>7, <1>8, <1>9, <1>10, <1>11, <1>12, <1>13,
     <1>14, <1>15
  DEF Next, User, EventLoop, Worker
-----------------------------------------------------------------------------
(* Backoff timers. *)

LEMMA DeferNext == TypeOK /\ DestroyInv /\ DeferInv /\ [Next]_vars => DeferInv'
<1> SUFFICES ASSUME TypeOK, DestroyInv, DeferInv, [Next]_vars, MaxFaults = 0, ~CanReset
             PROVE  DeferInv'
  BY DEF DeferInv
<1>t. /\ wpc \in [Workers -> WorkerPCs] /\ job \in [Workers -> Jobs] /\ pool \in Seq(Jobs)
      /\ deferred \in Nat /\ faults = 0 /\ (deleted => closed) /\ closed \in BOOLEAN
  BY BoundsAssumption DEF TypeOK, PipeTypeOK, LoopTypeOK, WorkTypeOK, SockTypeOK, DestroyInv,
     EventOutlivesReports
<1>d. /\ ~err /\ ~hup
      /\ ~closed => /\ deferred = 0
                    /\ \A j \in TasksIn(pool) : j.kind # "resubmit"
                    /\ \A w \in Workers : wpc[w] # "idle" => job[w].kind # "resubmit"
  BY DEF DeferInv
<1>p. DeferInv' <=>
        /\ ~err' /\ ~hup'
        /\ ~closed' => /\ deferred' = 0
                       /\ \A j \in TasksIn(pool') : j.kind # "resubmit"
                       /\ \A w \in Workers : wpc'[w] # "idle" => job'[w].kind # "resubmit"
  BY DEF DeferInv, TasksIn
\* Steps without I/O errors that end no backoff and begin no job.
<1>s. ASSUME err' = err, hup' = hup, closed => closed', deferred' = deferred, pool' = pool,
             \A w \in Workers : wpc'[w] # "idle" => wpc[w] # "idle" /\ job'[w] = job[w]
      PROVE  DeferInv'
  BY <1>s, <1>d, <1>p
<1>1. CASE Peer \/ Close \/ User
  BY <1>1, <1>s DEF Peer, PeerSends, PeerDrains, PeerShuts, PeerResets, User, Close, DoClose,
     AddRead, AddWrite, AddSubmit, RemoveRead, pipevars, loopvars, workvars, sockvars
<1>2. CASE EpollWait \/ EpollWake \/ ConsumeClose \/ DrainDestroy \/ DrainDone
  BY <1>2, <1>s DEF EpollWait, EpollWake, ConsumeClose, DoClose, DrainDestroy, DrainDone,
     pipevars, workvars, sockvars
<1>3. CASE ConsumeEvent
  <2>1. /\ UNCHANGED <<err, hup, closed, deferred, wpc, job>>
        /\ IF EPOLLERR \in ev THEN pool' = pool ELSE pool' = Append(pool, EventJob(ev))
    BY <1>3 DEF ConsumeEvent, pipevars, workvars, sockvars
  <2>2. EPOLLERR \notin ev => EventJob(ev) \in Jobs
    BY JobType DEF TypeOK, LoopTypeOK
  <2>3. TasksIn(pool') \subseteq TasksIn(pool) \cup {EventJob(ev)}
    BY <2>1, <2>2, ListsKnown
  <2>4. EventJob(ev).kind # "resubmit"
    BY DEF EventJob
  <2> QED  BY <2>1, <2>3, <2>4, <1>d, <1>p
<1>4. CASE TimerFires
  BY <1>4, <1>d, <1>p DEF TimerFires, pipevars, sockvars
<1>5. ASSUME NEW w \in Workers, TakeJob(w) PROVE DeferInv'
  <2>1. /\ UNCHANGED <<err, hup, closed, deferred>> /\ wpc' = [wpc EXCEPT ![w] = "start"]
        /\ pool # <<>> /\ pool' = Tail(pool) /\ job' = [job EXCEPT ![w] = Head(pool)]
    BY <1>5 DEF TakeJob, Goto, pipevars, loopvars, sockvars
  <2>2. Head(pool) \in TasksIn(pool) /\ TasksIn(pool') \subseteq TasksIn(pool)
    BY <2>1, <1>t, ListTail
  <2> QED  BY <2>1, <2>2, <1>t, <1>d, <1>p
<1>6. ASSUME NEW w \in Workers, StartJob(w) \/ ReadNext(w) \/ WriteNext(w) PROVE DeferInv'
  BY <1>6, <1>s, <1>t DEF StartJob, ReadNext, WriteNext, Goto, loopvars, sockvars
<1>7. ASSUME NEW w \in Workers, JobSubmits(w) PROVE DeferInv'
  BY <1>7, <1>s, <1>t DEF JobSubmits, Goto, loopvars, sockvars
<1>8. ASSUME NEW w \in Workers,
             ReadvData(w) \/ ReadvAgain(w) \/ ReadvEnd(w) \/ WritevData(w) \/ WritevAgain(w)
      PROVE  DeferInv'
  BY <1>8, <1>s, <1>t DEF ReadvData, ReadvAgain, ReadvEnd, WritevData, WritevAgain, IOReturns,
     Goto, pipevars, sockvars
<1>9. ASSUME NEW w \in Workers, ReadvError(w) \/ WritevError(w) PROVE DeferInv'
  <2>1. closed' = closed /\ closed /\ err' = err /\ hup' = hup
    BY <1>9, <1>t, <1>d, BoundsAssumption DEF ReadvError, WritevError, IOError, IOReturns, pipevars
  <2> QED  BY <2>1, <1>d, <1>p
<1>10. ASSUME NEW w \in Workers, WritevKilled(w) PROVE DeferInv'
  BY <1>10, <1>s DEF WritevKilled, pipevars, loopvars, workvars, sockvars
<1>11. ASSUME NEW w \in Workers, ReadDone(w) PROVE DeferInv'
  <2>1. UNCHANGED <<closed, deferred, pool, job, sockvars>> /\ wpc' = [wpc EXCEPT ![w] = "rloop"]
        /\ wpc[w] = "rdone"
    BY <1>11, ReadDoneEffect
  <2> QED  BY <2>1, <1>s, <1>t DEF sockvars
<1>12. ASSUME NEW w \in Workers, WriteDone(w) PROVE DeferInv'
  <2>1. UNCHANGED <<closed, deferred, pool, job, sockvars>> /\ wpc' = [wpc EXCEPT ![w] = "wloop"]
        /\ wpc[w] = "wdone"
    BY <1>12, WriteDoneEffect
  <2> QED  BY <2>1, <1>s, <1>t DEF sockvars
<1>13. CASE UNCHANGED vars
  BY <1>13, <1>s DEF vars, pipevars, loopvars, workvars, sockvars
<1> QED
  BY <1>1, <1>2, <1>3, <1>4, <1>5, <1>6, <1>7, <1>8, <1>9, <1>10, <1>11, <1>12, <1>13
  DEF Next, EventLoop, Worker
-----------------------------------------------------------------------------
(* One right to perform. *)

LEMMA ChainNext ==
    ASSUME TypeOK, JobInv, PlaceInv, DeferInv, [Next]_vars, NEW E \in InOut, Spared(E),
           Unused(Other(E)), Unused(Other(E))', Silent(Other(E)), Silent(Other(E))', Chain(E)
    PROVE  Chain(E)'
<1>t. /\ wpc \in [Workers -> WorkerPCs] /\ job \in [Workers -> Jobs] /\ pool \in Seq(Jobs)
      /\ call \in [Tasks -> {"new", "submit", "queued", "dropped", "removed"}]
      /\ ReadTasks \subseteq Tasks /\ WriteTasks \subseteq Tasks
      /\ Tasks = ReadTasks \cup WriteTasks /\ ReadTasks \cap WriteTasks = {}
      /\ NoThread \notin Workers /\ NoThread \notin Tasks
      /\ reads \in Seq(ReadTasks) /\ writes \in Seq(WriteTasks)
      /\ evmask \subseteq InOut /\ ev \subseteq InOut \cup {EPOLLERR}
      /\ InOut = {EPOLLIN, EPOLLOUT} /\ EPOLLIN # EPOLLOUT /\ EPOLLERR \notin InOut
  BY TasksAssumption, ThreadsAssumption
  DEF TypeOK, EventTypeOK, PipeTypeOK, LoopTypeOK, WorkTypeOK, Tasks, Threads, InOut, EPOLLIN,
      EPOLLOUT, EPOLLERR
\* Nothing happens in the other direction.
<1>r. E = EPOLLOUT =>
        /\ \A w \in Workers : ~Reading(w)
        /\ \A t \in ReadTasks : call[t] = "new" /\ call'[t] = "new"
  BY <1>t DEF Silent, Unused, Other, Own, PlaceInv
<1>w. E = EPOLLIN =>
        /\ \A w \in Workers : ~Writing(w)
        /\ \A t \in WriteTasks : call[t] = "new" /\ call'[t] = "new"
  BY <1>t DEF Silent, Unused, Other, Own, PlaceInv
<1>o. /\ Other(E) \in InOut /\ Other(E) # E /\ InOut = {E, Other(E)}
      /\ Other(E) \notin armed \cup evmask \cup ev \cup armed' \cup evmask' \cup ev'
      /\ List(Other(E)) = <<>>
  BY <1>t DEF Silent, Other
<1>c. /\ E \in armed => oneshot /\ List(E) # <<>> /\ E \notin ev /\ ~Queued /\ ~Asking(E) /\ Nobody
      /\ E \in ev => List(E) # <<>> /\ ~Queued /\ ~Asking(E) /\ Nobody
      /\ Queued => List(E) # <<>> /\ ~Asking(E) /\ Nobody
      /\ Asking(E) => List(E) # <<>> /\ Nobody
      /\ OneEvent(pool)
      /\ \A v, w \in Workers : HasJob(v) /\ HasJob(w) => v = w
      /\ \A w \in Workers : HasJob(w) => List(E) # <<>> \/ wpc[w] \in {"rloop", "wloop", "both"}
  BY DEF Chain
<1>p. Chain(E)' <=>
      /\ E \in armed' => /\ oneshot' /\ List(E)' # <<>> /\ E \notin ev' /\ ~Queued'
                         /\ ~Asking(E)' /\ Nobody'
      /\ E \in ev' => List(E)' # <<>> /\ ~Queued' /\ ~Asking(E)' /\ Nobody'
      /\ Queued' => List(E)' # <<>> /\ ~Asking(E)' /\ Nobody'
      /\ Asking(E)' => List(E)' # <<>> /\ Nobody'
      /\ OneEvent(pool')
      /\ \A v, w \in Workers : HasJob(v)' /\ HasJob(w)' => v = w
      /\ \A w \in Workers : HasJob(w)' =>
             List(E)' # <<>> \/ wpc'[w] \in {"rloop", "wloop", "both"}
  BY DEF Chain, OneEvent
\* Who has a job, and where a right may be.
<1>h. /\ \A w \in Workers : HasJob(w)' <=> wpc'[w] # "idle" /\ job'[w].kind = "event"
      /\ Nobody' <=> \A w \in Workers : ~HasJob(w)'
      /\ Queued' <=> \E j \in TasksIn(pool') : j.kind = "event"
      /\ Asking(E)' <=> \E t \in Own(E) : call'[t] = "submit"
  BY DEF HasJob, Nobody, Queued, Asking, TasksIn, Own
\* Steps that create no right, and leave the list full where it was.
<1>s. ASSUME armed' \subseteq armed, oneshot' = oneshot, ev' \subseteq ev, Queued' => Queued,
             OneEvent(pool'), Asking(E)' => Asking(E), List(E) # <<>> => List(E)' # <<>>,
             \A w \in Workers : HasJob(w)' =>
                 /\ HasJob(w)
                 /\ wpc'[w] = wpc[w] \/ List(E)' # <<>> \/ wpc'[w] \in {"rloop", "wloop", "both"}
      PROVE  Chain(E)'
  <2>1. Nobody => Nobody'
    BY <1>s, <1>h DEF Nobody
  <2> QED  BY <2>1, <1>s, <1>c, <1>p
\* ... in particular those that leave the jobs alone.
<1>q. ASSUME armed' \subseteq armed, UNCHANGED <<oneshot, ev, pool, call, wpc, job, reads, writes>>
      PROVE  Chain(E)'
  BY <1>q, <1>s, <1>c, <1>h DEF List, Queued, Asking, HasJob
<1>1. CASE Peer \/ Close \/ EpollWake \/ ConsumeClose \/ DrainDestroy \/ DrainDone
  BY <1>1, <1>q DEF Peer, PeerSends, PeerDrains, PeerShuts, PeerResets, Close, EpollWake,
     ConsumeClose, ConsumeReturn, DrainDestroy, DrainDone, Unregister, evvars, pipevars, loopvars,
     workvars
\* A call: on an empty list nobody has a right, for nobody has the lock.
<1>a. ASSUME mtx = NoThread, List(E) = <<>>
      PROVE  E \notin armed /\ E \notin ev /\ ~Queued /\ ~Asking(E) /\ Nobody
  BY <1>a, <1>c, <1>t DEF PlaceInv, Nobody
<1>b. ASSUME NEW t \in Own(E), call[t] = "new", mtx = NoThread,
             UNCHANGED <<armed, oneshot, ev, pool, wpc, job>>,
             List(E)' # <<>>,
             call' = [call EXCEPT ![t] = IF List(E) = <<>> THEN "submit" ELSE "queued"]
      PROVE  Chain(E)'
  <2>1. t \in Tasks /\ Own(E) \subseteq Tasks
    BY <1>t DEF Own
  <2>2. /\ \A w \in Workers : HasJob(w)' <=> HasJob(w)
        /\ Queued' <=> Queued
    BY <1>b, <1>h DEF HasJob, Queued
  <2>3. CASE List(E) = <<>>
    BY <2>2, <2>3, <1>a, <1>b, <1>c, <1>p, <1>h DEF Nobody
  <2>4. CASE List(E) # <<>>
    <3>1. Asking(E)' => Asking(E)
      BY <2>1, <2>4, <1>b, <1>h, <1>t DEF Asking
    <3> QED  BY <3>1, <2>2, <1>b, <1>c, <1>s
  <2> QED  BY <2>3, <2>4
<1>d. ASSUME NEW t \in Tasks, call' = [call EXCEPT ![t] = "dropped"],
             UNCHANGED <<armed, oneshot, ev, pool, wpc, job, reads, writes>>
      PROVE  Chain(E)'
  <2>1. Own(E) \subseteq Tasks
    BY <1>t DEF Own
  <2>2. Asking(E)' => Asking(E)
    BY <2>1, <1>d, <1>h, <1>t DEF Asking
  <2> QED  BY <2>2, <1>d, <1>s, <1>c, <1>h DEF List, Queued, HasJob
<1>2. ASSUME NEW t \in ReadTasks, AddRead(t) PROVE Chain(E)'
  <2>1. /\ call[t] = "new" /\ mtx = NoThread
        /\ UNCHANGED <<armed, oneshot, ev, pool, wpc, job, writes>>
    BY <1>2 DEF AddRead, evvars, loopvars, workvars
  <2>2. CASE closed
    BY <1>2, <2>1, <2>2, <1>d, <1>t DEF AddRead
  <2>3. CASE ~closed
    <3>1. /\ reads' = Append(reads, t)
          /\ call' = [call EXCEPT ![t] = IF reads = <<>> THEN "submit" ELSE "queued"]
      BY <1>2, <2>3, <1>t, ListAppend DEF AddRead
    <3>2. reads' # <<>> /\ call'[t] # "new"
      BY <3>1, <1>t, ListAppend
    <3>3. E = EPOLLIN
      BY <3>2, <1>r, <1>t
    <3> QED  BY <3>1, <3>2, <3>3, <2>1, <1>b DEF Own, List
  <2> QED  BY <2>2, <2>3
<1>3. ASSUME NEW t \in WriteTasks, AddWrite(t) PROVE Chain(E)'
  <2>1. /\ call[t] = "new" /\ mtx = NoThread
        /\ UNCHANGED <<armed, oneshot, ev, pool, wpc, job, reads>>
    BY <1>3 DEF AddWrite, evvars, loopvars, workvars
  <2>2. CASE closed
    BY <1>3, <2>1, <2>2, <1>d, <1>t DEF AddWrite
  <2>3. CASE ~closed
    <3>1. /\ writes' = Append(writes, t)
          /\ call' = [call EXCEPT ![t] = IF writes = <<>> THEN "submit" ELSE "queued"]
      BY <1>3, <2>3, <1>t, ListAppend DEF AddWrite
    <3>2. writes' # <<>> /\ call'[t] # "new"
      BY <3>1, <1>t, ListAppend
    <3>3. E = EPOLLOUT
      BY <3>2, <1>w, <1>t
    <3> QED  BY <3>1, <3>2, <3>3, <2>1, <1>b, <1>t DEF Own, List
  <2> QED  BY <2>2, <2>3
<1>4. ASSUME NEW t \in ReadTasks, RemoveRead(t) PROVE Chain(E)'
  <2>1. t \in BadTasks /\ call[t] = "queued"
    BY <1>4 DEF RemoveRead
  <2> QED  BY <2>1, <1>r, <1>t DEF Spared
\* Whoever submits gives its right to epoll.
<1>e. ASSUME NEW flags, DoSubmit(flags), E \in flags, List(E)' = List(E), List(E) # <<>>,
             E \notin armed, E \notin ev', ~Queued', ~Asking(E)', Nobody', OneEvent(pool')
      PROVE  Chain(E)'
  <2>1. E \in armed' => oneshot'
    BY <1>e, SubmitEffect
  <2> QED  BY <2>1, <1>e, <1>p, <1>h DEF Nobody
<1>f. E \in WantedEvents <=> List(E) # <<>>
  BY WantedIsListed
<1>5. ASSUME NEW t \in Tasks, AddSubmit(t) PROVE Chain(E)'
  <2>1. /\ call[t] = "submit" /\ call' = [call EXCEPT ![t] = "queued"]
        /\ UNCHANGED <<reads, writes, ev, pool, wpc, job>>
        /\ IF t \in ReadTasks THEN DoSubmitRead ELSE DoSubmitWrite
    BY <1>5 DEF AddSubmit, loopvars, workvars
  <2>2. t \in Own(E) /\ (t \in ReadTasks <=> E = EPOLLIN)
    BY <2>1, <1>r, <1>w, <1>t DEF Own
  <2>3. /\ Asking(E) /\ List(E) # <<>> /\ Nobody /\ ~Queued /\ E \notin ev /\ E \notin armed
    BY <2>1, <2>2, <1>c DEF Asking
  <2>4. ~Asking(E)'
    <3>1. Own(E) \subseteq Tasks /\ \A u \in Own(E) : call[u] = "submit" => u = t
      BY <2>1, <1>t DEF PlaceInv, Own
    <3> QED  BY <3>1, <2>1, <1>h, <1>t
  <2>5. Nobody' /\ ~Queued' /\ List(E)' = List(E) /\ E \notin ev'
    BY <2>1, <2>3, <1>h DEF Nobody, HasJob, Queued, List
  <2>6. \E flags : E \in flags /\ DoSubmit(flags)
    <3>1. DoSubmit(WantedEvents \cap {E})
      BY <2>1, <2>2, <1>t DEF DoSubmitRead, DoSubmitWrite
    <3> QED  BY <3>1, <2>3, <1>f
  <2> QED  BY <2>1, <2>3, <2>4, <2>5, <2>6, <1>c, <1>e
<1>6. CASE EpollWait
  <2>1. /\ UNCHANGED <<oneshot, pool, call, wpc, job, reads, writes>>
        /\ ev' \subseteq armed /\ armed' = IF oneshot THEN {} ELSE armed
    BY <1>6 DEF EpollWait, Report, pipevars, workvars
  <2>2. /\ List(E)' = List(E) /\ (Queued' <=> Queued) /\ (Asking(E)' <=> Asking(E))
        /\ (Nobody' <=> Nobody) /\ OneEvent(pool')
        /\ \A w \in Workers : HasJob(w)' <=> HasJob(w)
    BY <2>1, <1>c, <1>h DEF List, Queued, Asking, Nobody, HasJob
  <2> QED  BY <2>1, <2>2, <1>c, <1>p
<1>7. CASE ConsumeEvent
  <2>1. /\ UNCHANGED <<armed, oneshot, call, wpc, job, reads, writes>> /\ ev' = {} /\ ev # {}
        /\ IF EPOLLERR \in ev THEN pool' = pool ELSE pool' = Append(pool, EventJob(ev))
    BY <1>7 DEF ConsumeEvent, Consume, pipevars, workvars, PlaceInv
  <2>2. /\ List(E)' = List(E) /\ (Asking(E)' <=> Asking(E)) /\ (Nobody' <=> Nobody)
        /\ \A w \in Workers : HasJob(w)' <=> HasJob(w)
    BY <2>1, <1>h DEF List, Asking, Nobody, HasJob
  <2>3. CASE EPOLLERR \in ev
    BY <2>1, <2>2, <2>3, <1>c, <1>s, <1>h DEF Queued
  <2>4. CASE EPOLLERR \notin ev
    <3>1. E \in ev /\ EventJob(ev) \in Jobs
      BY <2>1, <2>4, <1>o, <1>t, JobType
    <3>2. List(E) # <<>> /\ ~Queued /\ ~Asking(E) /\ Nobody /\ E \notin armed
      BY <3>1, <1>c
    <3>3. OneEvent(pool')
      <4>1. \A j \in TasksIn(pool) : j.kind # "event"
        BY <3>2 DEF Queued
      <4>2. OneEvent(Append(pool, EventJob(ev)))
        BY <4>1, <3>1, <1>c, <1>t, OneEventAppend
      <4> QED  BY <4>2, <2>1, <2>4
    <3> QED  BY <2>1, <2>2, <3>2, <3>3, <1>p DEF Nobody
  <2> QED  BY <2>3, <2>4
<1>8. CASE TimerFires
  <2>1. /\ UNCHANGED <<armed, oneshot, ev, call, wpc, job, reads, writes>>
        /\ pool' = Append(pool, ResubmitJob)
    BY <1>8 DEF TimerFires, evvars, pipevars, workvars
  <2>2. ResubmitJob \in Jobs /\ ResubmitJob.kind # "event"
    BY JobType DEF ResubmitJob
  <2>3. OneEvent(pool')
    BY <2>1, <2>2, <1>c, <1>t, OneEventAppend
  <2>4. Queued' => Queued
    BY <2>1, <2>2, ListsKnown, <1>h DEF Queued
  <2> QED  BY <2>1, <2>3, <2>4, <1>s, <1>h DEF List, Asking, HasJob
<1>9. ASSUME NEW w \in Workers, TakeJob(w) PROVE Chain(E)'
  <2>1. /\ UNCHANGED <<armed, oneshot, ev, call, reads, writes>> /\ pool # <<>> /\ wpc[w] = "idle"
        /\ pool' = Tail(pool) /\ job' = [job EXCEPT ![w] = Head(pool)]
        /\ wpc' = [wpc EXCEPT ![w] = "start"]
    BY <1>9 DEF TakeJob, Goto, evvars, pipevars, loopvars
  <2>2. /\ Head(pool) \in TasksIn(pool) /\ TasksIn(pool') \subseteq TasksIn(pool)
        /\ OneEvent(pool')
        /\ Head(pool).kind = "event" => ~Queued'
    BY <2>1, <1>t, <1>c, <1>h, ListTail, OneEventTail
  <2>3. /\ List(E)' = List(E) /\ (Asking(E)' <=> Asking(E)) /\ (Queued' => Queued)
        /\ \A v \in Workers \ {w} : HasJob(v)' <=> HasJob(v)
        /\ HasJob(w)' <=> Head(pool).kind = "event"
        /\ ~HasJob(w)
    BY <2>1, <2>2, <1>t, <1>h DEF List, Asking, Queued, HasJob
  <2>4. CASE Head(pool).kind = "event"
    <3>1. Queued
      BY <2>2, <2>4 DEF Queued
    <3>2. List(E) # <<>> /\ ~Asking(E) /\ Nobody /\ E \notin armed /\ E \notin ev
      BY <3>1, <1>c
    <3> QED  BY <2>1, <2>2, <2>3, <2>4, <3>2, <1>p DEF Nobody
  <2>5. CASE Head(pool).kind # "event"
    <3>1. \A v \in Workers : HasJob(v)' => HasJob(v) /\ wpc'[v] = wpc[v]
      BY <2>1, <2>3, <2>5, <1>t
    <3> QED  BY <2>1, <2>2, <2>3, <3>1, <1>s
  <2> QED  BY <2>4, <2>5
\* A worker goes on with its job: from an I/O on the list is not empty.
<1>g. ASSUME NEW w \in Workers, UNCHANGED <<armed, oneshot, ev, pool, call, job, reads, writes>>,
             wpc[w] # "idle", NEW pc, wpc' = [wpc EXCEPT ![w] = pc],
             \/ pc \in {"rloop", "wloop", "both"}
             \/ List(E) # <<>>
             \/ wpc[w] \notin {"rloop", "wloop", "both"}
             \/ job[w].kind # "event"
      PROVE  Chain(E)'
  <2>1. /\ List(E)' = List(E) /\ (Asking(E)' <=> Asking(E)) /\ (Queued' <=> Queued)
        /\ \A v \in Workers : HasJob(v)' => HasJob(v)
        /\ \A v \in Workers \ {w} : wpc'[v] = wpc[v]
        /\ wpc'[w] = pc
    BY <1>g, <1>t, <1>h DEF List, Asking, Queued, HasJob
  <2>2. HasJob(w)' => List(E)' # <<>> \/ wpc'[w] \in {"rloop", "wloop", "both"}
    BY <2>1, <1>g, <1>c, <1>h
  <2>3. OneEvent(pool')
    BY <1>g, <1>c
  <2> QED  BY <2>1, <2>2, <2>3, <1>g, <1>s
<1>10. ASSUME NEW w \in Workers, StartJob(w) PROVE Chain(E)'
  <2>1. /\ UNCHANGED <<armed, oneshot, ev, pool, call, job, reads, writes>> /\ wpc[w] = "start"
    BY <1>10 DEF StartJob, evvars, loopvars
  <2>2. PICK pc \in {"resubmit", "rloop", "wloop", "both"} : wpc' = [wpc EXCEPT ![w] = pc]
    BY <1>10, StartEffect
  <2> QED  BY <2>1, <2>2, <1>g
<1>11. ASSUME NEW w \in Workers, ReadNext(w) PROVE Chain(E)'
  <2>1. /\ UNCHANGED <<armed, oneshot, ev, pool, call, job, reads, writes>> /\ wpc[w] = "rloop"
        /\ \/ \E pc \in {"wloop", "both"} : wpc' = [wpc EXCEPT ![w] = pc]
           \/ reads # <<>> /\ wpc' = [wpc EXCEPT ![w] = "rio"]
    BY <1>11 DEF ReadNext, AfterRead, Goto, evvars, loopvars
  <2>2. List(E) = reads
    BY <2>1, <1>r, <1>t DEF Reading, List
  <2> QED  BY <2>1, <2>2, <1>g
<1>12. ASSUME NEW w \in Workers, WriteNext(w) PROVE Chain(E)'
  <2>1. /\ UNCHANGED <<armed, oneshot, ev, pool, call, job, reads, writes>> /\ wpc[w] = "wloop"
        /\ \/ wpc' = [wpc EXCEPT ![w] = "both"]
           \/ writes # <<>> /\ wpc' = [wpc EXCEPT ![w] = "wio"]
    BY <1>12 DEF WriteNext, Goto, evvars, loopvars
  <2>2. List(E) = writes
    BY <2>1, <1>w, <1>t DEF Writing, List
  <2> QED  BY <2>1, <2>2, <1>g
<1>13. ASSUME NEW w \in Workers,
              \/ ReadvData(w) \/ ReadvAgain(w) \/ ReadvEnd(w) \/ ReadvError(w)
              \/ WritevData(w) \/ WritevAgain(w) \/ WritevError(w)
       PROVE  Chain(E)'
  <2>1. /\ UNCHANGED <<armed, oneshot, ev, pool, call, job, reads, writes>>
        /\ wpc[w] \in {"rio", "wio"} /\ \E pc \in {"rdone", "wdone"} : wpc' = [wpc EXCEPT ![w] = pc]
    BY <1>13 DEF ReadvData, ReadvAgain, ReadvEnd, ReadvError, WritevData, WritevAgain, WritevError,
       IOError, IOReturns, Goto, evvars, pipevars
  <2> QED  BY <2>1, <1>g
<1>14. ASSUME NEW w \in Workers, WritevKilled(w) PROVE Chain(E)'
  BY <1>14, <1>q DEF WritevKilled, evvars, pipevars, loopvars, workvars
\* The worker takes a task from its list and has the lock again.
<1>k. ASSUME NEW w \in Workers, HasJob(w), UNCHANGED <<armed, oneshot, ev, pool, call, job>>,
             NEW pc \in {"rloop", "wloop"}, wpc' = [wpc EXCEPT ![w] = pc]
      PROVE  Chain(E)'
  <2>1. E \notin armed /\ E \notin ev /\ ~Queued /\ ~Asking(E)
    BY <1>k, <1>c DEF Nobody
  <2>2. (Asking(E)' <=> Asking(E)) /\ (Queued' <=> Queued)
    BY <1>k, <1>h DEF Asking, Queued
  <2>3. \A v \in Workers : HasJob(v)' => v = w /\ wpc'[v] = pc
    BY <1>k, <1>t, <1>c, <1>h DEF HasJob
  <2> QED  BY <2>1, <2>2, <2>3, <1>k, <1>c, <1>p
<1>15. ASSUME NEW w \in Workers, ReadDone(w) PROVE Chain(E)'
  <2>1. /\ wpc[w] = "rdone" /\ wpc' = [wpc EXCEPT ![w] = "rloop"]
        /\ UNCHANGED <<armed, oneshot, ev, pool, call, job>>
    BY <1>15, ReadDoneEffect DEF evvars
  <2>2. HasJob(w)
    BY <2>1 DEF PlaceInv, Reading, HasJob
  <2> QED  BY <2>1, <2>2, <1>k
<1>16. ASSUME NEW w \in Workers, WriteDone(w) PROVE Chain(E)'
  <2>1. /\ wpc[w] = "wdone" /\ wpc' = [wpc EXCEPT ![w] = "wloop"]
        /\ UNCHANGED <<armed, oneshot, ev, pool, call, job>>
    BY <1>16, WriteDoneEffect DEF evvars
  <2>2. HasJob(w)
    BY <2>1 DEF PlaceInv, Writing, HasJob
  <2> QED  BY <2>1, <2>2, <1>k
<1>17. ASSUME NEW w \in Workers, JobSubmits(w) PROVE Chain(E)'
  <2>1. /\ UNCHANGED <<reads, writes, ev, pool, call>> /\ wpc' = [wpc EXCEPT ![w] = "idle"]
        /\ job' = [job EXCEPT ![w] = ResubmitJob]
        /\ wpc[w] \in {"both", "resubmit"}
        /\ IF wpc[w] = "both" THEN DoSubmit(WantedEvents) ELSE DoSubmit(WantedEvents \cap {EPOLLOUT})
    BY <1>17 DEF JobSubmits, DoSubmitBoth, DoSubmitWrite, Goto, loopvars
  <2>2. /\ List(E)' = List(E) /\ (Asking(E)' <=> Asking(E)) /\ (Queued' <=> Queued)
        /\ \A v \in Workers : HasJob(v)' => v # w /\ HasJob(v) /\ wpc'[v] = wpc[v]
    BY <2>1, <1>t, <1>h DEF List, Asking, Queued, HasJob
  <2>3. OneEvent(pool')
    BY <2>1, <1>c
  \* Nothing is submitted.
  <2>4. ASSUME UNCHANGED <<evmask, armed, oneshot>> PROVE Chain(E)'
    BY <2>4, <2>1, <2>2, <2>3, <1>s
  <2>5. CASE wpc[w] = "both"
    <3>1. HasJob(w)
      BY <2>5 DEF PlaceInv, HasJob
    <3>2. E \notin armed /\ E \notin ev /\ ~Queued /\ ~Asking(E) /\ Nobody'
      BY <3>1, <2>2, <1>c, <1>h DEF Nobody
    <3>3. CASE List(E) = <<>>
      <4>1. WantedEvents = {}
        BY <3>3, <1>f, <1>o, WantedIsListed
      <4> QED  BY <4>1, <2>1, <2>4, <2>5 DEF DoSubmit, evvars
    <3>4. CASE List(E) # <<>>
      BY <3>2, <3>4, <2>1, <2>2, <2>3, <2>5, <1>e, <1>f
    <3> QED  BY <3>3, <3>4
  <2>6. CASE wpc[w] = "resubmit"
    <3>1. closed \/ WantedEvents \cap {EPOLLOUT} = {}
      <4>1. CASE E = EPOLLIN
        BY <4>1, <1>o, <1>t, WantedIsListed
      <4>2. CASE E = EPOLLOUT
        BY <4>2, <2>6, <1>t DEF Spared, DeferInv, JobInv
      <4> QED  BY <4>1, <4>2, <1>t
    <3> QED  BY <3>1, <2>1, <2>4, <2>6 DEF DoSubmit, evvars
  <2> QED  BY <2>1, <2>5, <2>6
<1>18. CASE UNCHANGED vars
  BY <1>18, <1>q DEF vars, evvars, pipevars, loopvars, workvars
<1> QED
  BY <1>1, <1>2, <1>3, <1>4, <1>5, <1>6, <1>7, <1>8, <1>9, <1>10, <1>11, <1>12, <1>13,
     <1>14, <1>15, <1>16, <1>17, <1>18
  DEF Next, User, EventLoop, Worker
-----------------------------------------------------------------------------
(* The task at hand. *)

LEMMA FailuresAreNone ==
    ~IsSuccess(PeerClosed) /\ ~IsSuccess(TryAgain) /\ ~IsSuccess(Unfatal) /\ IsSuccess(Success)
<1>1. ASSUME NEW c PROVE NewState(c, <<>>, ZeroValue) # <<>>
  <2>1. DOMAIN NewState(c, <<>>, ZeroValue) = 0..9
    BY DEF NewState
  <2>2. DOMAIN <<>> = {} /\ 4 \in 0..9
    OBVIOUS
  <2> QED  BY <2>1, <2>2
<1> QED  BY <1>1 DEF IsSuccess, NullState, PeerClosed, TryAgain, Unfatal, Success

LEMMA FrontNext ==
    ASSUME TypeOK, PlaceInv, [Next]_vars, NEW E \in InOut, Spared(E),
           Unused(Other(E)), Unused(Other(E))', Silent(Other(E)), Chain(E), AtFront(E)
    PROVE  AtFront(E)'
<1>t. /\ wpc \in [Workers -> WorkerPCs] /\ cur \in [Workers -> Tasks \cup {NoTask}]
      /\ res \in [Workers -> Statuses]
      /\ call \in [Tasks -> {"new", "submit", "queued", "dropped", "removed"}]
      /\ ReadTasks \subseteq Tasks /\ WriteTasks \subseteq Tasks
      /\ reads \in Seq(ReadTasks) /\ writes \in Seq(WriteTasks) /\ sent \in Seq(WriteTasks)
      /\ got \in [ReadTasks -> Seq(1..MaxData)]
      /\ \A w \in Workers : wpc[w] = "rio" => cur[w] \in ReadTasks
      /\ \A w \in Workers : wpc[w] = "wio" => cur[w] \in WriteTasks
      /\ InOut = {EPOLLIN, EPOLLOUT} /\ EPOLLIN # EPOLLOUT
  BY DEF TypeOK, PipeTypeOK, WorkTypeOK, SockTypeOK, Tasks, InOut, EPOLLIN, EPOLLOUT
<1>r. E = EPOLLOUT => /\ \A w \in Workers : ~Reading(w)
                      /\ \A t \in ReadTasks : call[t] = "new" /\ call'[t] = "new"
  BY <1>t DEF Silent, Unused, Other, Own, PlaceInv
<1>w. E = EPOLLIN => /\ \A w \in Workers : ~Writing(w)
                     /\ \A t \in WriteTasks : call[t] = "new" /\ call'[t] = "new"
  BY <1>t DEF Silent, Unused, Other, Own, PlaceInv
<1> DEFINE AtIO(w) == wpc[w] \in {IOPC(E), DonePC(E)}
<1>i. /\ IOPC(E) \in {"rio", "wio"} /\ DonePC(E) \in {"rdone", "wdone"}
      /\ E = EPOLLIN => IOPC(E) = "rio" /\ DonePC(E) = "rdone"
      /\ E = EPOLLOUT => IOPC(E) = "wio" /\ DonePC(E) = "wdone"
      /\ E = EPOLLIN => List(E) = reads /\ List(E)' = reads'
      /\ E = EPOLLOUT => List(E) = writes /\ List(E)' = writes'
  BY <1>t DEF IOPC, DonePC, List
<1>u. \A v, w \in Workers :
          wpc[v] \in {"rio", "rdone", "wio", "wdone"} /\ wpc[w] \in {"rio", "rdone", "wio", "wdone"}
              => v = w
  BY DEF Chain, HasJob, PlaceInv, Reading, Writing
<1>f. \A w \in Workers : AtIO(w) =>
          /\ List(E) # <<>> /\ cur[w] = Head(List(E))
          /\ wpc[w] = DonePC(E) /\ IsSuccess(res[w]) => Performed(E, cur[w])
  BY DEF AtFront
<1>p. AtFront(E)' <=> \A w \in Workers : wpc'[w] \in {IOPC(E), DonePC(E)} =>
          /\ List(E)' # <<>> /\ cur'[w] = Head(List(E)')
          /\ wpc'[w] = DonePC(E) /\ IsSuccess(res'[w]) => Performed(E, cur[w])'
  BY DEF AtFront, IOPC, DonePC, IsSuccess
<1>g. \A t : Performed(E, t) <=> IF E = EPOLLIN THEN got[t] # <<>> ELSE t \in TasksIn(sent)
  BY DEF Performed
<1>h. \A w \in Workers :
          Performed(E, cur[w])' <=> IF E = EPOLLIN THEN got'[cur'[w]] # <<>> ELSE cur'[w] \in TasksIn(sent')
  BY DEF Performed, TasksIn
<1> HIDE DEF AtIO
\* Steps that begin and end no I/O; the list may grow at its end.
<1>s. ASSUME UNCHANGED <<got, sent>>,
             List(E) # <<>> => List(E)' # <<>> /\ Head(List(E)') = Head(List(E)),
             \A w \in Workers : wpc'[w] \in {"rio", "rdone", "wio", "wdone"} =>
                 wpc'[w] = wpc[w] /\ cur'[w] = cur[w] /\ res'[w] = res[w]
      PROVE  AtFront(E)'
  BY <1>s, <1>f, <1>g, <1>h, <1>i, <1>p DEF AtIO
<1>1. CASE Peer \/ Close \/ EventLoop
  <2>1. UNCHANGED <<got, sent, reads, writes, wpc, cur, res>>
    BY <1>1 DEF Peer, PeerSends, PeerDrains, PeerShuts, PeerResets, Close, EventLoop,
       EpollWait, EpollWake, ConsumeEvent, ConsumeClose, DrainDestroy, DrainDone, TimerFires,
       pipevars, workvars, sockvars
  <2> QED  BY <2>1, <1>s, <1>i, <1>t
<1>2. ASSUME NEW t \in ReadTasks, AddRead(t) PROVE AtFront(E)'
  <2>1. /\ UNCHANGED <<got, sent, writes, wpc, cur, res>>
        /\ reads' = reads \/ reads' = Append(reads, t)
    BY <1>2 DEF AddRead, workvars, sockvars
  <2>2. reads # <<>> => reads' # <<>> /\ Head(reads') = Head(reads)
    <3>1. reads \in Seq(ReadTasks)
      BY <1>t
    <3>2. Append(reads, t) # <<>> /\ (reads # <<>> => Head(Append(reads, t)) = Head(reads))
      BY <3>1, ListAppend
    <3> QED  BY <3>2, <2>1
  <2> QED  BY <2>1, <2>2, <1>s, <1>i, <1>t
<1>3. ASSUME NEW t \in WriteTasks, AddWrite(t) PROVE AtFront(E)'
  <2>1. /\ UNCHANGED <<got, sent, reads, wpc, cur, res>>
        /\ writes' = writes \/ writes' = Append(writes, t)
    BY <1>3 DEF AddWrite, workvars, sockvars
  <2>2. writes # <<>> => writes' # <<>> /\ Head(writes') = Head(writes)
    <3>1. writes \in Seq(WriteTasks)
      BY <1>t
    <3>2. Append(writes, t) # <<>> /\ (writes # <<>> => Head(Append(writes, t)) = Head(writes))
      BY <3>1, ListAppend
    <3> QED  BY <3>2, <2>1
  <2> QED  BY <2>1, <2>2, <1>s, <1>i, <1>t
<1>4. ASSUME NEW t \in ReadTasks, RemoveRead(t) PROVE AtFront(E)'
  <2>1. t \in BadTasks /\ call[t] = "queued"
    BY <1>4 DEF RemoveRead
  <2> QED  BY <2>1, <1>r, <1>t DEF Spared
<1>5. ASSUME NEW t \in Tasks, AddSubmit(t) PROVE AtFront(E)'
  <2>1. UNCHANGED <<got, sent, reads, writes, wpc, cur, res>>
    BY <1>5 DEF AddSubmit, workvars, sockvars
  <2> QED  BY <2>1, <1>s, <1>i, <1>t
<1>6. ASSUME NEW w \in Workers, TakeJob(w) \/ StartJob(w) \/ JobSubmits(w) PROVE AtFront(E)'
  <2>1. /\ UNCHANGED <<got, sent, reads, writes, cur, res>>
        /\ \E pc \in {"start", "resubmit", "rloop", "wloop", "both", "idle"} :
              wpc' = [wpc EXCEPT ![w] = pc]
    BY <1>6, StartEffect DEF TakeJob, StartJob, JobSubmits, Goto, pipevars, sockvars
  <2>2. \A v \in Workers : wpc'[v] \in {"rio", "rdone", "wio", "wdone"} => wpc'[v] = wpc[v]
    BY <2>1, <1>t
  <2> QED  BY <2>1, <2>2, <1>s, <1>i, <1>t
<1>7. ASSUME NEW w \in Workers, ReadNext(w) PROVE AtFront(E)'
  <2>1. /\ wpc[w] = "rloop" /\ UNCHANGED <<got, sent, reads, writes, res>>
        /\ \/ cur' = cur /\ \E pc \in {"wloop", "both"} : wpc' = [wpc EXCEPT ![w] = pc]
           \/ /\ reads # <<>> /\ cur' = [cur EXCEPT ![w] = Head(reads)]
              /\ wpc' = [wpc EXCEPT ![w] = "rio"]
    BY <1>7 DEF ReadNext, AfterRead, Goto, sockvars
  <2>2. E = EPOLLIN
    BY <2>1, <1>r, <1>t DEF Reading
  <2>3. CASE cur' = cur /\ \E pc \in {"wloop", "both"} : wpc' = [wpc EXCEPT ![w] = pc]
    <3>1. \A v \in Workers : wpc'[v] \in {"rio", "rdone", "wio", "wdone"} => wpc'[v] = wpc[v]
      BY <2>3, <1>t
    <3> QED  BY <2>1, <2>3, <3>1, <1>s, <1>i, <1>t
  <2>4. CASE /\ reads # <<>> /\ cur' = [cur EXCEPT ![w] = Head(reads)]
             /\ wpc' = [wpc EXCEPT ![w] = "rio"]
    <3>1. /\ wpc'[w] = "rio" /\ cur'[w] = Head(reads)
          /\ \A v \in Workers \ {w} : wpc'[v] = wpc[v] /\ cur'[v] = cur[v]
      BY <2>4, <1>t
    <3> QED  BY <2>1, <2>2, <2>4, <3>1, <1>f, <1>g, <1>h, <1>i, <1>p DEF AtIO
  <2> QED  BY <2>1, <2>3, <2>4
<1>8. ASSUME NEW w \in Workers, WriteNext(w) PROVE AtFront(E)'
  <2>1. /\ wpc[w] = "wloop" /\ UNCHANGED <<got, sent, reads, writes, res>>
        /\ \/ cur' = cur /\ wpc' = [wpc EXCEPT ![w] = "both"]
           \/ /\ writes # <<>> /\ cur' = [cur EXCEPT ![w] = Head(writes)]
              /\ wpc' = [wpc EXCEPT ![w] = "wio"]
    BY <1>8 DEF WriteNext, Goto, sockvars
  <2>2. E = EPOLLOUT
    BY <2>1, <1>w, <1>t DEF Writing
  <2>3. CASE cur' = cur /\ wpc' = [wpc EXCEPT ![w] = "both"]
    <3>1. \A v \in Workers : wpc'[v] \in {"rio", "rdone", "wio", "wdone"} => wpc'[v] = wpc[v]
      BY <2>3, <1>t
    <3> QED  BY <2>1, <2>3, <3>1, <1>s, <1>i, <1>t
  <2>4. CASE /\ writes # <<>> /\ cur' = [cur EXCEPT ![w] = Head(writes)]
             /\ wpc' = [wpc EXCEPT ![w] = "wio"]
    <3>1. /\ wpc'[w] = "wio" /\ cur'[w] = Head(writes)
          /\ \A v \in Workers \ {w} : wpc'[v] = wpc[v] /\ cur'[v] = cur[v]
      BY <2>4, <1>t
    <3> QED  BY <2>1, <2>2, <2>4, <3>1, <1>f, <1>g, <1>h, <1>i, <1>p, <1>t DEF AtIO
  <2> QED  BY <2>1, <2>3, <2>4
\* An I/O comes back; no other is under way.
<1>d. ASSUME NEW w \in Workers, wpc[w] = IOPC(E), wpc' = [wpc EXCEPT ![w] = DonePC(E)],
             UNCHANGED <<reads, writes, cur>>, Performed(E, cur[w])' \/ ~IsSuccess(res'[w])
      PROVE  AtFront(E)'
  <2>1. wpc'[w] = DonePC(E) /\ \A v \in Workers \ {w} : wpc'[v] = wpc[v]
    BY <1>d, <1>t
  <2>2. \A v \in Workers : wpc'[v] \in {IOPC(E), DonePC(E)} => v = w
    BY <1>d, <2>1, <1>u, <1>i
  <2>3. List(E)' # <<>> /\ cur'[w] = Head(List(E)')
    BY <1>d, <1>f, <1>i, <1>t DEF AtIO
  <2> QED  BY <2>1, <2>2, <2>3, <1>d, <1>p
<1>9. ASSUME NEW w \in Workers, ReadvData(w) PROVE AtFront(E)'
  <2>1. /\ wpc[w] = "rio" /\ wpc' = [wpc EXCEPT ![w] = "rdone"] /\ UNCHANGED <<reads, writes, cur>>
        /\ got' = [got EXCEPT ![cur[w]] = Append(@, taken + 1)]
    BY <1>9 DEF ReadvData, IOReturns, Goto, pipevars
  <2>2. E = EPOLLIN
    BY <2>1, <1>r, <1>t DEF Reading
  <2>3. got'[cur[w]] # <<>>
    <3>1. got'[cur[w]] = Append(got[cur[w]], taken + 1) /\ got[cur[w]] \in Seq(1..MaxData)
      BY <2>1, <1>t
    <3>2. Len(got'[cur[w]]) = Len(got[cur[w]]) + 1 /\ Len(got[cur[w]]) \in Nat
      BY <3>1
    <3> QED  BY <3>2
  <2> QED  BY <2>1, <2>2, <2>3, <1>d, <1>h, <1>i
<1>10. ASSUME NEW w \in Workers, WritevData(w) PROVE AtFront(E)'
  <2>1. /\ wpc[w] = "wio" /\ wpc' = [wpc EXCEPT ![w] = "wdone"] /\ UNCHANGED <<reads, writes, cur>>
        /\ sent' = Append(sent, cur[w])
    BY <1>10 DEF WritevData, IOReturns, Goto, pipevars
  <2>2. E = EPOLLOUT
    BY <2>1, <1>w, <1>t DEF Writing
  <2>3. cur[w] \in TasksIn(sent')
    BY <2>1, <1>t, ListsKnown
  <2> QED  BY <2>1, <2>2, <2>3, <1>d, <1>h, <1>i, <1>t
<1>11. ASSUME NEW w \in Workers, ReadvAgain(w) \/ ReadvEnd(w) \/ ReadvError(w) PROVE AtFront(E)'
  <2>1. /\ wpc[w] = "rio" /\ wpc' = [wpc EXCEPT ![w] = "rdone"] /\ UNCHANGED <<reads, writes, cur>>
        /\ \E s \in {TryAgain, PeerClosed, Unfatal} : res' = [res EXCEPT ![w] = s]
    BY <1>11 DEF ReadvAgain, ReadvEnd, ReadvError, IOError, IOReturns, Goto, pipevars
  <2>2. E = EPOLLIN
    BY <2>1, <1>r, <1>t DEF Reading
  <2>3. ~IsSuccess(res'[w])
    BY <2>1, <1>t, FailuresAreNone
  <2> QED  BY <2>1, <2>2, <2>3, <1>d, <1>i
<1>12. ASSUME NEW w \in Workers, WritevAgain(w) \/ WritevError(w) PROVE AtFront(E)'
  <2>1. /\ wpc[w] = "wio" /\ wpc' = [wpc EXCEPT ![w] = "wdone"] /\ UNCHANGED <<reads, writes, cur>>
        /\ \E s \in {TryAgain, PeerClosed, Unfatal} : res' = [res EXCEPT ![w] = s]
    BY <1>12 DEF WritevAgain, WritevError, IOError, IOReturns, Goto, pipevars
  <2>2. E = EPOLLOUT
    BY <2>1, <1>w, <1>t DEF Writing
  <2>3. ~IsSuccess(res'[w])
    BY <2>1, <1>t, FailuresAreNone
  <2> QED  BY <2>1, <2>2, <2>3, <1>d, <1>i
<1>13. ASSUME NEW w \in Workers, WritevKilled(w) PROVE AtFront(E)'
  <2>1. UNCHANGED <<got, sent, reads, writes, wpc, cur, res>>
    BY <1>13 DEF WritevKilled, pipevars, workvars, sockvars
  <2> QED  BY <2>1, <1>s, <1>i, <1>t
\* The task is popped, and nobody else is at one.
<1>e. ASSUME NEW w \in Workers, wpc[w] \in {"rdone", "wdone"}, NEW pc \in {"rloop", "wloop"},
             wpc' = [wpc EXCEPT ![w] = pc]
      PROVE  AtFront(E)'
  <2>1. \A v \in Workers : wpc'[v] \notin {"rio", "rdone", "wio", "wdone"}
    BY <1>e, <1>t, <1>u
  <2> QED  BY <2>1, <1>i, <1>p
<1>14. ASSUME NEW w \in Workers, ReadDone(w) PROVE AtFront(E)'
  BY <1>14, <1>e, ReadDoneEffect
<1>15. ASSUME NEW w \in Workers, WriteDone(w) PROVE AtFront(E)'
  BY <1>15, <1>e, WriteDoneEffect
<1>16. CASE UNCHANGED vars
  <2>1. UNCHANGED <<got, sent, reads, writes, wpc, cur, res>>
    BY <1>16 DEF vars, pipevars, workvars, sockvars
  <2> QED  BY <2>1, <1>s, <1>i, <1>t
<1> QED
  BY <1>1, <1>2, <1>3, <1>4, <1>5, <1>6, <1>7, <1>8, <1>9, <1>10, <1>11, <1>12, <1>13,
     <1>14, <1>15, <1>16
  DEF Next, User, Worker
-----------------------------------------------------------------------------
(* The units that were read. *)

\* Only a readv() that returns data changes who has which unit.
LEMMA UnitsStep ==
    ASSUME [Next]_vars
    PROVE  UNCHANGED <<taken, got>> \/ \E w \in Workers : ReadvData(w)
<1>1. CASE Peer \/ User \/ EventLoop \/ UNCHANGED vars
  BY <1>1 DEF Peer, PeerSends, PeerDrains, PeerShuts, PeerResets, User, Close, AddRead, AddWrite,
     AddSubmit, RemoveRead, EventLoop, EpollWait, EpollWake, ConsumeEvent, ConsumeClose,
     DrainDestroy, DrainDone, TimerFires, vars, sockvars
<1>2. ASSUME NEW w \in Workers, Worker(w) PROVE UNCHANGED <<taken, got>> \/ ReadvData(w)
  BY <1>2 DEF Worker, TakeJob, StartJob, JobSubmits, ReadNext, ReadvAgain, ReadvEnd, ReadvError,
     ReadDone, WriteNext, WritevData, WritevAgain, WritevKilled, WritevError, WriteDone, IOError,
     sockvars
<1> QED  BY <1>1, <1>2 DEF Next

\* What readv() does to the buffers.
LEMMA ReadvEffect ==
    ASSUME TypeOK, NEW w \in Workers, ReadvData(w)
    PROVE  /\ cur[w] \in ReadTasks /\ taken \in Nat /\ taken' = taken + 1
           /\ \A t \in ReadTasks \ {cur[w]} : got'[t] = got[t]
           /\ LET g == got[cur[w]]
              IN  /\ DOMAIN g = 1..Len(g) /\ Len(g) \in Nat
                  /\ DOMAIN got'[cur[w]] = 1..(Len(g) + 1)
                  /\ \A j \in 1..Len(g) : got'[cur[w]][j] = g[j]
                  /\ got'[cur[w]][Len(g) + 1] = taken + 1
<1>1. /\ cur[w] \in ReadTasks /\ taken \in Nat /\ got \in [ReadTasks -> Seq(1..MaxData)]
      /\ taken' = taken + 1 /\ got' = [got EXCEPT ![cur[w]] = Append(@, taken + 1)]
  BY BoundsAssumption DEF TypeOK, WorkTypeOK, SockTypeOK, ReadvData
<1> DEFINE g == got[cur[w]]
<1>2. g \in Seq(1..MaxData) /\ got'[cur[w]] = Append(g, taken + 1)
  BY <1>1
<1> HIDE DEF g
<1>3. /\ DOMAIN g = 1..Len(g) /\ Len(g) \in Nat
      /\ DOMAIN got'[cur[w]] = 1..(Len(g) + 1)
      /\ \A j \in 1..Len(g) : got'[cur[w]][j] = g[j]
      /\ got'[cur[w]][Len(g) + 1] = taken + 1
  BY <1>2
<1> QED  BY <1>1, <1>3 DEF g

LEMMA UnitsNext == TypeOK /\ UnitsInv /\ [Next]_vars => UnitsInv'
<1> SUFFICES ASSUME TypeOK, UnitsInv, [Next]_vars PROVE UnitsInv'
  OBVIOUS
<1>1. CASE UNCHANGED <<taken, got>>
  BY <1>1 DEF UnitsInv
<1>2. ASSUME NEW w \in Workers, ReadvData(w) PROVE UnitsInv'
  <2> DEFINE c == cur[w]
             n == Len(got[c])
  <2>1. /\ c \in ReadTasks /\ taken \in Nat /\ taken' = taken + 1
        /\ \A t \in ReadTasks \ {c} : got'[t] = got[t]
        /\ DOMAIN got[c] = 1..n /\ n \in Nat /\ DOMAIN got'[c] = 1..(n + 1)
        /\ \A j \in 1..n : got'[c][j] = got[c][j]
        /\ got'[c][n + 1] = taken + 1
    BY <1>2, ReadvEffect
  <2> HIDE DEF c, n
  <2>2. ASSUME NEW t \in ReadTasks, NEW j \in DOMAIN got'[t], ~(t = c /\ j = n + 1)
        PROVE  j \in DOMAIN got[t] /\ got'[t][j] = got[t][j] /\ got'[t][j] <= taken
    <3>1. j \in DOMAIN got[t] /\ got'[t][j] = got[t][j]
      <4>1. CASE t = c
        <5>1. j \in 1..n
          BY <4>1, <2>1, <2>2
        <5> QED  BY <4>1, <5>1, <2>1
      <4>2. CASE t # c
        BY <4>2, <2>1, <2>2
      <4> QED  BY <4>1, <4>2
    <3> QED  BY <3>1 DEF UnitsInv
  <2>3. ASSUME NEW t \in ReadTasks, NEW j \in DOMAIN got[t]
        PROVE  j \in DOMAIN got'[t] /\ got'[t][j] = got[t][j]
    <3>1. CASE t = c
      <4>1. j \in 1..n /\ j \in 1..(n + 1)
        BY <3>1, <2>1, <2>3
      <4> QED  BY <3>1, <4>1, <2>1
    <3>2. CASE t # c
      BY <3>2, <2>1, <2>3
    <3> QED  BY <3>1, <3>2
  <2>4. ASSUME NEW t \in ReadTasks, NEW j \in DOMAIN got'[t]
        PROVE  got'[t][j] <= taken'
    <3>1. CASE t = c /\ j = n + 1
      BY <3>1, <2>1
    <3>2. CASE ~(t = c /\ j = n + 1)
      <4>1. j \in DOMAIN got[t] /\ got'[t][j] = got[t][j] /\ got'[t][j] <= taken
        BY <3>2, <2>2
      <4>2. got[t] \in Seq(1..MaxData)
        BY DEF TypeOK, SockTypeOK
      <4>3. got[t][j] \in Nat
        BY <4>1, <4>2, BoundsAssumption
      <4> QED  BY <4>1, <4>3, <2>1
    <3> QED  BY <3>1, <3>2
  <2>5. \A i \in 1..taken' : \E t \in ReadTasks : \E j \in DOMAIN got'[t] : got'[t][j] = i
    <3>1. TAKE i \in 1..taken'
    <3>2. CASE i = taken + 1
      BY <3>2, <2>1
    <3>3. CASE i # taken + 1
      <4>1. i \in 1..taken
        BY <3>3, <2>1
      <4>2. PICK t \in ReadTasks : \E j \in DOMAIN got[t] : got[t][j] = i
        BY <4>1 DEF UnitsInv
      <4> QED  BY <4>2, <2>3
    <3> QED  BY <3>2, <3>3
  <2>6. ASSUME NEW t \in ReadTasks, NEW u \in ReadTasks,
               NEW j \in DOMAIN got'[t], NEW k \in DOMAIN got'[u], got'[t][j] = got'[u][k]
        PROVE  t = u
    <3>1. ~(taken + 1 <= taken)
      BY <2>1
    <3>2. (t = c /\ j = n + 1) <=> (u = c /\ k = n + 1)
      BY <3>1, <2>1, <2>2, <2>6
    <3>3. CASE t = c /\ j = n + 1
      BY <3>2, <3>3
    <3>4. CASE ~(t = c /\ j = n + 1)
      <4>1. j \in DOMAIN got[t] /\ k \in DOMAIN got[u] /\ got[t][j] = got[u][k]
        BY <3>2, <3>4, <2>2, <2>6
      <4> QED  BY <4>1 DEF UnitsInv
    <3> QED  BY <3>3, <3>4
  <2> QED  BY <2>4, <2>5, <2>6 DEF UnitsInv
<1> QED  BY <1>1, <1>2, UnitsStep
-----------------------------------------------------------------------------
(* The invariant of a pipe in one-way use. *)

LEMMA OrderInit == Init => OrderInv
<1> SUFFICES ASSUME Init PROVE OrderInv
  OBVIOUS
<1>1. IInv
  BY TypeInit, JobInit, CoverInit, DestroyInit DEF IInv
<1>2. PlaceInv
  BY DEF Init, PlaceInv, Reading, Writing, ResubmitJob
<1>3. NewInv
  BY TasksAssumption DEF Init, NewInv, TasksIn, Tasks
<1>4. UnusedInv
  BY DEF Init, EventInit, UnusedInv, Unused, Silent, List, TasksIn, ResubmitJob, InOut,
     EPOLLIN, EPOLLOUT, EPOLLERR
<1>5. DeferInv
  BY DEF Init, DeferInv, TasksIn
<1>6. ASSUME NEW E \in InOut PROVE Chain(E) /\ AtFront(E)
  <2>1. /\ E \notin armed /\ E \notin ev /\ ~Queued /\ Nobody /\ OneEvent(pool)
        /\ \A w \in Workers : ~HasJob(w)
    BY DEF Init, EventInit, Queued, Nobody, HasJob, OneEvent, TasksIn, InOut, EPOLLIN, EPOLLOUT, EPOLLERR
  <2>2. ~Asking(E)
    BY DEF Init, Asking, Own, Tasks
  <2>3. AtFront(E)
    BY DEF Init, AtFront, IOPC, DonePC
  <2> QED  BY <2>1, <2>2, <2>3 DEF Chain
<1>7. UnitsInv
  BY DEF Init, UnitsInv
<1>8. OneWay
  BY DEF Init, OneWay, Tasks
<1> QED  BY <1>1, <1>2, <1>3, <1>4, <1>5, <1>6, <1>7, <1>8 DEF OrderInv, OneWayInv

LEMMA OneWayNext == OrderInv /\ [Next /\ OneWay']_vars => OrderInv'
<1> SUFFICES ASSUME OrderInv, [Next]_vars, OneWay' PROVE OrderInv'
  <2>1. ASSUME OrderInv, UNCHANGED vars PROVE OneWay'
    BY <2>1 DEF OrderInv, OneWay, vars
  <2> QED  BY <2>1
<1>1. TypeOK /\ JobInv /\ DestroyInv /\ PlaceInv /\ NewInv /\ UnusedInv /\ DeferInv /\ UnitsInv
  BY DEF OrderInv, IInv
<1>2. IInv'
  BY TypeNext, JobNext, CoverNext, DestroyNext DEF OrderInv, IInv
<1>3. PlaceInv' /\ NewInv' /\ DeferInv' /\ UnitsInv'
  BY <1>1, PlaceNext, NewNext, DeferNext, UnitsNext
<1>4. \A E \in InOut : Unused(E)' => Unused(E) /\ Silent(E)'
  BY <1>1, UnusedNext
<1>5. UnusedInv'
  BY <1>4 DEF UnusedInv
<1>6. ASSUME NEW E \in InOut, Spared(E), Unused(Other(E))' PROVE Chain(E)' /\ AtFront(E)'
  <2>1. Other(E) \in InOut
    BY DEF Other, InOut
  <2>2. Unused(Other(E)) /\ Silent(Other(E)) /\ Silent(Other(E))'
    BY <2>1, <1>1, <1>4, <1>6 DEF UnusedInv
  <2>3. Chain(E) /\ AtFront(E)
    BY <2>2, <1>6 DEF OrderInv, OneWayInv
  <2> QED  BY <2>2, <2>3, <1>1, <1>6, ChainNext, FrontNext
<1>7. \A E \in InOut : OneWayInv(E)'
  BY <1>6 DEF OneWayInv, Spared, Other
<1> QED  BY <1>2, <1>3, <1>5, <1>7 DEF OrderInv

LEMMA OrderInductive == OneWaySpec => []OrderInv
BY OrderInit, OneWayNext, PTL DEF OneWaySpec

\* A direction is used, and then nobody uses the other, or its list is empty.
LEMMA UsedOrSilent ==
    ASSUME OrderInv, NEW E \in InOut
    PROVE  (Unused(E) /\ Silent(E)) \/ Unused(Other(E))
<1>1. Unused(EPOLLIN) \/ Unused(EPOLLOUT)
  BY DEF OrderInv, OneWay, Unused, Own, EPOLLIN, EPOLLOUT
<1>2. \A F \in InOut : Unused(F) => Silent(F)
  BY DEF OrderInv, UnusedInv
<1> QED  BY <1>1, <1>2 DEF InOut, Other
-----------------------------------------------------------------------------
(* One step of a direction, as its abstract queue sees it.                 *)

NotPopped(E) == \E w \in Workers : wpc[w] = DonePC(E) /\ IsSuccess(res[w])
Queue(E)     == IF NotPopped(E) THEN Tail(List(E)) ELSE List(E)
Data(E)      == IF E = EPOLLIN THEN <<taken, got>> ELSE <<sent>>
Moves(E, w)  == IF E = EPOLLIN THEN ReadvData(w) ELSE WritevData(w)

LEMMA SentStep ==
    ASSUME [Next]_vars
    PROVE  UNCHANGED sent \/ \E w \in Workers : WritevData(w)
<1>1. CASE Peer \/ User \/ EventLoop \/ UNCHANGED vars
  BY <1>1 DEF Peer, PeerSends, PeerDrains, PeerShuts, PeerResets, User, Close, AddRead, AddWrite,
     AddSubmit, RemoveRead, EventLoop, EpollWait, EpollWake, ConsumeEvent, ConsumeClose,
     DrainDestroy, DrainDone, TimerFires, vars, sockvars
<1>2. ASSUME NEW w \in Workers, Worker(w) PROVE UNCHANGED sent \/ WritevData(w)
  BY <1>2 DEF Worker, TakeJob, StartJob, JobSubmits, ReadNext, ReadvData, ReadvAgain, ReadvEnd,
     ReadvError, ReadDone, WriteNext, WritevAgain, WritevKilled, WritevError, WriteDone, IOError,
     sockvars
<1> QED  BY <1>1, <1>2 DEF Next

LEMMA DataStep ==
    ASSUME [Next]_vars, NEW E \in InOut
    PROVE  UNCHANGED Data(E) \/ \E w \in Workers : Moves(E, w)
<1>1. CASE E = EPOLLIN
  BY <1>1, UnitsStep DEF Data, Moves
<1>2. CASE E # EPOLLIN
  BY <1>2, SentStep DEF Data, Moves
<1> QED  BY <1>1, <1>2

\* A worker that has performed a task finds it at the front.
LEMMA DoneIsFront ==
    ASSUME OrderInv, NEW E \in InOut, Spared(E),
           NEW w \in Workers, wpc[w] = DonePC(E), IsSuccess(res[w])
    PROVE  List(E) # <<>> /\ cur[w] = Head(List(E)) /\ Performed(E, cur[w])
<1>1. ~Silent(E)
  BY DEF Silent, PlaceInv, OrderInv, Reading, Writing, DonePC, InOut
<1>2. Unused(Other(E)) /\ OneWayInv(E)
  BY <1>1, UsedOrSilent DEF OrderInv
<1>3. AtFront(E)
  BY <1>2 DEF OneWayInv
<1> QED  BY <1>3 DEF AtFront

LEMMA QueueStep ==
    ASSUME OrderInv, [Next]_vars, OneWay', NEW E \in InOut, Spared(E)
    PROVE  \/ UNCHANGED Queue(E) /\ UNCHANGED Data(E)
           \/ /\ UNCHANGED Data(E)
              /\ \E t \in Own(E) : /\ call[t] = "new"
                                   /\ Queue(E)' = Append(Queue(E), t)
           \/ \E w \in Workers : /\ Moves(E, w)
                                 /\ Queue(E) # <<>> /\ cur[w] = Head(Queue(E))
                                 /\ Queue(E)' = Tail(Queue(E))
<1>i. /\ TypeOK /\ PlaceInv /\ UnusedInv /\ IInv
  BY DEF OrderInv, IInv
<1>t. /\ wpc \in [Workers -> WorkerPCs] /\ res \in [Workers -> Statuses]
      /\ reads \in Seq(ReadTasks) /\ writes \in Seq(WriteTasks)
      /\ E \in {EPOLLIN, EPOLLOUT} /\ EPOLLIN # EPOLLOUT /\ InOut = {EPOLLIN, EPOLLOUT}
      /\ Other(E) \in InOut
  BY <1>i DEF TypeOK, PipeTypeOK, WorkTypeOK, InOut, EPOLLIN, EPOLLOUT, Other
<1>n. PlaceInv'
  BY <1>i, PlaceNext
<1>u. Unused(E)' \/ Unused(Other(E))'
  BY <1>t DEF OneWay, Unused, Own, Other
<1>e. /\ E = EPOLLIN => DonePC(E) = "rdone" /\ IOPC(E) = "rio" /\ List(E) = reads /\ List(E)' = reads'
      /\ E = EPOLLOUT => DonePC(E) = "wdone" /\ IOPC(E) = "wio" /\ List(E) = writes /\ List(E)' = writes'
  BY <1>t DEF DonePC, IOPC, List
<1>q. /\ NotPopped(E)' <=> \E w \in Workers : wpc'[w] = DonePC(E) /\ IsSuccess(res'[w])
      /\ Queue(E)' = IF NotPopped(E)' THEN Tail(List(E)') ELSE List(E)'
  BY DEF NotPopped, Queue, DonePC, IsSuccess
<1>1. CASE Unused(E)'
  <2>1. Silent(E) /\ Silent(E)'
    BY <1>1, <1>i, UnusedNext DEF UnusedInv
  <2>2. \A w \in Workers : /\ wpc[w] \notin {DonePC(E), IOPC(E)}
                           /\ wpc'[w] # DonePC(E)
    BY <2>1, <1>i, <1>n, <1>e, <1>t DEF Silent, PlaceInv, Reading, Writing
  <2>3. Queue(E) = List(E) /\ Queue(E)' = List(E)'
    BY <2>2, <1>q DEF NotPopped, Queue
  <2>4. UNCHANGED Queue(E)
    BY <2>1, <2>3 DEF Silent
  <2>5. \A w \in Workers : ~Moves(E, w)
    BY <2>2, <1>e, <1>t DEF Moves, ReadvData, WritevData
  <2> QED  BY <2>4, <2>5, DataStep
<1>2. CASE Unused(Other(E))'
  <2>1. Unused(Other(E)) /\ Silent(Other(E)) /\ Chain(E) /\ AtFront(E)
    BY <1>2, <1>i, <1>t, UnusedNext DEF UnusedInv, OrderInv, OneWayInv
  <2>r. E = EPOLLOUT => /\ \A w \in Workers : ~Reading(w)
                        /\ \A t \in ReadTasks : call[t] = "new" /\ call'[t] = "new"
    BY <1>2, <2>1, <1>i, <1>t DEF Silent, Unused, Other, Own, PlaceInv
  <2>w. E = EPOLLIN => /\ \A w \in Workers : ~Writing(w)
                       /\ \A t \in WriteTasks : call[t] = "new" /\ call'[t] = "new"
    BY <1>2, <2>1, <1>i, <1>t DEF Silent, Unused, Other, Own, PlaceInv
  <2>u. \A v, w \in Workers :
            ( /\ wpc[v] \in {"rio", "rdone", "wio", "wdone"}
              /\ wpc[w] \in {"rio", "rdone", "wio", "wdone"} ) => v = w
    <3>1. \A w \in Workers : wpc[w] \in {"rio", "rdone", "wio", "wdone"} => HasJob(w)
      BY <1>i DEF HasJob, PlaceInv, Reading, Writing
    <3>2. \A v, w \in Workers : HasJob(v) /\ HasJob(w) => v = w
      BY <2>1 DEF Chain
    <3>3. SUFFICES ASSUME NEW v \in Workers, NEW w \in Workers,
                          wpc[v] \in {"rio", "rdone", "wio", "wdone"},
                          wpc[w] \in {"rio", "rdone", "wio", "wdone"}
                   PROVE  v = w
      OBVIOUS
    <3>4. HasJob(v) /\ HasJob(w)
      BY <3>1, <3>3
    <3> QED  BY <3>2, <3>4
  <2>f. \A w \in Workers : wpc[w] \in {IOPC(E), DonePC(E)} =>
            List(E) # <<>> /\ cur[w] = Head(List(E))
    BY <2>1 DEF AtFront
  \* Steps of which the list knows nothing.
  <2>s. ASSUME UNCHANGED <<reads, writes>>, UNCHANGED Data(E),
               \A w \in Workers : (wpc'[w] = DonePC(E) /\ IsSuccess(res'[w]))
                              <=> (wpc[w] = DonePC(E) /\ IsSuccess(res[w]))
        PROVE  UNCHANGED Queue(E) /\ UNCHANGED Data(E)
    <3>1. NotPopped(E)' <=> NotPopped(E)
      BY <2>s, <1>q DEF NotPopped
    <3> QED  BY <3>1, <2>s, <1>q, <1>e, <1>t DEF Queue
  <2>v. ASSUME UNCHANGED <<reads, writes, wpc, res, sent, taken, got>>
        PROVE  UNCHANGED Queue(E) /\ UNCHANGED Data(E)
    BY <2>v, <2>s DEF Data
  <2>2. CASE Peer \/ Close \/ EventLoop \/ UNCHANGED vars
    <3>1. UNCHANGED <<reads, writes, wpc, res, sent, taken, got>>
      BY <2>2 DEF Peer, PeerSends, PeerDrains, PeerShuts, PeerResets, Close, EventLoop,
         EpollWait, EpollWake, ConsumeEvent, ConsumeClose, DrainDestroy, DrainDone, TimerFires,
         vars, pipevars, workvars, sockvars
    <3> QED  BY <3>1, <2>v
  \* A call appends to the list, and to what of it is left to perform.
  <2>a. ASSUME NEW t \in Own(E), call[t] = "new", List(E)' = Append(List(E), t),
               UNCHANGED <<wpc, res, sent, taken, got>>
        PROVE  UNCHANGED Data(E) /\ Queue(E)' = Append(Queue(E), t)
    <3>1. UNCHANGED Data(E) /\ (NotPopped(E)' <=> NotPopped(E))
      BY <2>a, <1>q DEF Data, NotPopped
    <3>2. NotPopped(E) => List(E) # <<>>
      BY <2>f DEF NotPopped
    <3>3. List(E) \in Seq(Own(E))
      BY <1>e, <1>t DEF Own
    <3>4. List(E) # <<>> => Tail(Append(List(E), t)) = Append(Tail(List(E)), t)
      BY <3>3, ListAppend
    <3> QED  BY <3>1, <3>2, <3>4, <2>a, <1>q DEF Queue
  <2>3. ASSUME NEW t \in ReadTasks, AddRead(t)
        PROVE  \/ UNCHANGED Queue(E) /\ UNCHANGED Data(E)
               \/ /\ UNCHANGED Data(E)
                  /\ \E u \in Own(E) : call[u] = "new" /\ Queue(E)' = Append(Queue(E), u)
    <3>1. call[t] = "new" /\ UNCHANGED <<writes, wpc, res, sent, taken, got>>
      BY <2>3 DEF AddRead, workvars, sockvars
    <3>2. CASE reads' = reads
      BY <3>1, <3>2, <2>v
    <3>3. CASE reads' # reads
      <4>1. reads' = Append(reads, t) /\ call'[t] # "new"
        BY <2>3, <3>3, <1>i DEF AddRead, TypeOK, PipeTypeOK, Tasks
      <4>2. E = EPOLLIN
        BY <4>1, <2>r, <1>t
      <4> QED  BY <3>1, <4>1, <4>2, <2>a, <1>e DEF Own
    <3> QED  BY <3>2, <3>3
  <2>4. ASSUME NEW t \in WriteTasks, AddWrite(t)
        PROVE  \/ UNCHANGED Queue(E) /\ UNCHANGED Data(E)
               \/ /\ UNCHANGED Data(E)
                  /\ \E u \in Own(E) : call[u] = "new" /\ Queue(E)' = Append(Queue(E), u)
    <3>1. call[t] = "new" /\ UNCHANGED <<reads, wpc, res, sent, taken, got>>
      BY <2>4 DEF AddWrite, workvars, sockvars
    <3>2. CASE writes' = writes
      BY <3>1, <3>2, <2>v
    <3>3. CASE writes' # writes
      <4>1. writes' = Append(writes, t) /\ call'[t] # "new"
        BY <2>4, <3>3, <1>i DEF AddWrite, TypeOK, PipeTypeOK, Tasks
      <4>2. E = EPOLLOUT
        BY <4>1, <2>w, <1>t
      <4> QED  BY <3>1, <4>1, <4>2, <2>a, <1>e, <1>t DEF Own
    <3> QED  BY <3>2, <3>3
  <2>5. ASSUME NEW t \in ReadTasks, RemoveRead(t) PROVE FALSE
    <3>1. t \in BadTasks /\ call[t] = "queued"
      BY <2>5 DEF RemoveRead
    <3> QED  BY <3>1, <2>r, <1>t DEF Spared
  <2>6. ASSUME NEW t \in Tasks, AddSubmit(t) PROVE UNCHANGED Queue(E) /\ UNCHANGED Data(E)
    BY <2>6, <2>v DEF AddSubmit, workvars, sockvars
  <2>7. ASSUME NEW w \in Workers, TakeJob(w) \/ StartJob(w) \/ JobSubmits(w)
        PROVE  UNCHANGED Queue(E) /\ UNCHANGED Data(E)
    <3>1. /\ UNCHANGED <<reads, writes, res, sent, taken, got>>
          /\ wpc[w] \in {"idle", "start", "both", "resubmit"}
          /\ \E pc \in {"start", "resubmit", "rloop", "wloop", "both", "idle"} :
                wpc' = [wpc EXCEPT ![w] = pc]
      BY <2>7, <1>i, StartEffect DEF TakeJob, StartJob, JobSubmits, Goto, pipevars, sockvars
    <3>2. \A v \in Workers : wpc'[v] = DonePC(E) <=> wpc[v] = DonePC(E)
      BY <3>1, <1>t, <1>e
    <3>3. UNCHANGED Data(E)
      BY <3>1 DEF Data
    <3> QED  BY <3>1, <3>2, <3>3, <2>s
  <2>8. ASSUME NEW w \in Workers, ReadNext(w) \/ WriteNext(w)
        PROVE  UNCHANGED Queue(E) /\ UNCHANGED Data(E)
    <3>1. /\ UNCHANGED <<reads, writes, res, sent, taken, got>>
          /\ wpc[w] \in {"rloop", "wloop"}
          /\ \E pc \in {"wloop", "both", "rio", "wio"} : wpc' = [wpc EXCEPT ![w] = pc]
      BY <2>8 DEF ReadNext, WriteNext, AfterRead, Goto, sockvars
    <3>2. \A v \in Workers : wpc'[v] = DonePC(E) <=> wpc[v] = DonePC(E)
      BY <3>1, <1>t, <1>e
    <3>3. UNCHANGED Data(E)
      BY <3>1 DEF Data
    <3> QED  BY <3>1, <3>2, <3>3, <2>s
  <2>9. ASSUME NEW w \in Workers,
               \/ ReadvAgain(w) \/ ReadvEnd(w) \/ ReadvError(w)
               \/ WritevAgain(w) \/ WritevError(w) \/ WritevKilled(w)
        PROVE  UNCHANGED Queue(E) /\ UNCHANGED Data(E)
    <3>1. UNCHANGED <<reads, writes, sent, taken, got>>
      BY <2>9 DEF ReadvAgain, ReadvEnd, ReadvError, WritevAgain, WritevError, WritevKilled, IOError,
         IOReturns, pipevars, sockvars
    <3>2. \/ UNCHANGED <<wpc, res>>
          \/ /\ wpc[w] \in {"rio", "wio"}
             /\ \E pc \in {"rdone", "wdone"} : wpc' = [wpc EXCEPT ![w] = pc]
             /\ \E s \in {TryAgain, PeerClosed, Unfatal} : res' = [res EXCEPT ![w] = s]
      BY <2>9 DEF ReadvAgain, ReadvEnd, ReadvError, WritevAgain, WritevError, WritevKilled, IOError,
         IOReturns, Goto, workvars
    <3>3. \A v \in Workers : (wpc'[v] = DonePC(E) /\ IsSuccess(res'[v]))
                         <=> (wpc[v] = DonePC(E) /\ IsSuccess(res[v]))
      BY <3>2, <1>t, <1>e, FailuresAreNone
    <3>4. UNCHANGED Data(E)
      BY <3>1 DEF Data
    <3> QED  BY <3>1, <3>3, <3>4, <2>s
  \* The front of the list is performed, and then popped.
  <2>m. ASSUME NEW w \in Workers, Moves(E, w), wpc[w] = IOPC(E), UNCHANGED <<reads, writes>>,
               wpc' = [wpc EXCEPT ![w] = DonePC(E)], res' = [res EXCEPT ![w] = Success]
        PROVE  Moves(E, w) /\ Queue(E) # <<>> /\ cur[w] = Head(Queue(E)) /\ Queue(E)' = Tail(Queue(E))
    <3>1. ~NotPopped(E)
      BY <2>m, <2>u, <1>e, <1>t DEF NotPopped
    <3>2. NotPopped(E)'
      BY <2>m, <1>q, <1>t, FailuresAreNone
    <3>3. List(E)' = List(E)
      BY <2>m, <1>e, <1>t
    <3> QED  BY <3>1, <3>2, <3>3, <2>m, <2>f, <1>q DEF Queue
  <2>10. ASSUME NEW w \in Workers, ReadvData(w)
         PROVE  Moves(E, w) /\ Queue(E) # <<>> /\ cur[w] = Head(Queue(E)) /\ Queue(E)' = Tail(Queue(E))
    <3>1. /\ wpc[w] = "rio" /\ wpc' = [wpc EXCEPT ![w] = "rdone"] /\ UNCHANGED <<reads, writes>>
          /\ res' = [res EXCEPT ![w] = Success]
      BY <2>10 DEF ReadvData, IOReturns, Goto, pipevars
    <3>2. E = EPOLLIN
      BY <3>1, <2>r, <1>t DEF Reading
    <3> QED  BY <3>1, <3>2, <2>10, <2>m, <1>e DEF Moves
  <2>11. ASSUME NEW w \in Workers, WritevData(w)
         PROVE  Moves(E, w) /\ Queue(E) # <<>> /\ cur[w] = Head(Queue(E)) /\ Queue(E)' = Tail(Queue(E))
    <3>1. /\ wpc[w] = "wio" /\ wpc' = [wpc EXCEPT ![w] = "wdone"] /\ UNCHANGED <<reads, writes>>
          /\ res' = [res EXCEPT ![w] = Success]
      BY <2>11 DEF WritevData, IOReturns, Goto, pipevars
    <3>2. E = EPOLLOUT
      BY <3>1, <2>w, <1>t DEF Writing
    <3> QED  BY <3>1, <3>2, <2>11, <2>m, <1>e, <1>t DEF Moves
  <2>p. ASSUME NEW w \in Workers, wpc[w] = DonePC(E), NEW pc \in {"rloop", "wloop"},
               wpc' = [wpc EXCEPT ![w] = pc], UNCHANGED <<sent, taken, got>>,
               List(E)' = IF IsSuccess(res[w]) /\ List(E) # <<>> THEN Tail(List(E)) ELSE List(E)
        PROVE  UNCHANGED Queue(E) /\ UNCHANGED Data(E)
    <3>1. ~NotPopped(E)'
      BY <2>p, <2>u, <1>q, <1>e, <1>t
    <3>2. NotPopped(E) <=> IsSuccess(res[w])
      BY <2>p, <2>u, <1>e, <1>t DEF NotPopped
    <3>3. List(E) # <<>>
      BY <2>p, <2>f
    <3>4. UNCHANGED Queue(E)
      BY <3>1, <3>2, <3>3, <2>p, <1>q DEF Queue
    <3> QED  BY <3>4, <2>p DEF Data
  <2>12. ASSUME NEW w \in Workers, ReadDone(w) PROVE UNCHANGED Queue(E) /\ UNCHANGED Data(E)
    <3>1. /\ wpc[w] = "rdone" /\ wpc' = [wpc EXCEPT ![w] = "rloop"] /\ UNCHANGED sockvars
          /\ reads' = IF IsSuccess(res[w]) /\ reads # <<>> THEN Tail(reads) ELSE reads
      BY <2>12, <1>i, ReadDoneEffect
    <3>2. E = EPOLLIN
      BY <3>1, <2>r, <1>t DEF Reading
    <3>3. UNCHANGED <<sent, taken, got>>
      BY <3>1 DEF sockvars
    <3> QED  BY <3>1, <3>2, <3>3, <2>p, <1>e
  <2>13. ASSUME NEW w \in Workers, WriteDone(w) PROVE UNCHANGED Queue(E) /\ UNCHANGED Data(E)
    <3>1. /\ wpc[w] = "wdone" /\ wpc' = [wpc EXCEPT ![w] = "wloop"] /\ UNCHANGED sockvars
          /\ writes' = IF IsSuccess(res[w]) /\ writes # <<>> THEN Tail(writes) ELSE writes
      BY <2>13, <1>i, WriteDoneEffect
    <3>2. E = EPOLLOUT
      BY <3>1, <2>w, <1>t DEF Writing
    <3>3. UNCHANGED <<sent, taken, got>>
      BY <3>1 DEF sockvars
    <3> QED  BY <3>1, <3>2, <3>3, <2>p, <1>e
  <2>14. CASE User
    BY <2>14, <2>2, <2>3, <2>4, <2>5, <2>6 DEF User
  <2>15. ASSUME NEW w \in Workers, Worker(w)
         PROVE  \/ UNCHANGED Queue(E) /\ UNCHANGED Data(E)
                \/ Moves(E, w) /\ Queue(E) # <<>> /\ cur[w] = Head(Queue(E)) /\ Queue(E)' = Tail(Queue(E))
    BY <2>15, <2>7, <2>8, <2>9, <2>10, <2>11, <2>12, <2>13 DEF Worker
  <2> QED  BY <2>2, <2>14, <2>15 DEF Next
<1> QED  BY <1>u, <1>1, <1>2
-----------------------------------------------------------------------------
(* The theorems. *)

\* reactor.h, "each event can only be processed by one worker thread": doread()
\* is run by one worker at a time while nobody writes, and dowrite() while
\* nobody reads and no backoff asks for output behind the users' backs.
THEOREM WorkersTakeTurns ==
    ASSUME BadTasks = {}, MaxFaults = 0, ~CanReset
    PROVE  OneWaySpec => []OneWorkerPerDirection
<1>1. ASSUME OrderInv PROVE OneWorkerPerDirection
  <2>1. ASSUME NEW E \in InOut, NEW v \in Workers, NEW w \in Workers, v # w
        PROVE  IF E = EPOLLIN THEN ~(Reading(v) /\ Reading(w)) ELSE ~(Writing(v) /\ Writing(w))
    <3>1. PlaceInv /\ OneWayInv(E) /\ Spared(E)
      BY <1>1 DEF OrderInv, Spared
    <3>2. \A u \in Workers : Reading(u) \/ Writing(u) => HasJob(u)
      BY <3>1 DEF PlaceInv, Reading, Writing, HasJob
    <3>3. CASE Unused(Other(E))
      BY <3>1, <3>2, <3>3, <2>1 DEF OneWayInv, Chain
    <3>4. CASE Unused(E) /\ Silent(E)
      BY <3>1, <3>4, <2>1 DEF Silent, PlaceInv, InOut
    <3> QED  BY <3>3, <3>4, <1>1, UsedOrSilent
  <2> QED  BY <2>1 DEF OneWorkerPerDirection, InOut, EPOLLIN, EPOLLOUT
<1> QED  BY <1>1, OrderInductive, PTL

\* "pop_front of an empty list": in one-way use the task that a worker has
\* performed is still there when the worker has the lock again, and without a
\* reset no SIGPIPE ends the process.
THEOREM NothingPoppedTwice ==
    ASSUME BadTasks = {}, MaxFaults = 0, ~CanReset
    PROVE  OneWaySpec => []~crashed
<1>1. Init => ~crashed
  BY DEF Init
<1>2. ASSUME OrderInv, ~crashed, [Next]_vars PROVE ~crashed'
  <2>i. TypeOK /\ PlaceInv
    BY <1>2 DEF OrderInv, IInv
  <2>f. ASSUME NEW E \in InOut, NEW w \in Workers, wpc[w] = DonePC(E) PROVE List(E) # <<>>
    <3>1. ~Silent(E)
      BY <2>f, <2>i DEF Silent, PlaceInv, Reading, Writing, DonePC, InOut
    <3>2. Unused(Other(E)) /\ Spared(E) /\ OneWayInv(E)
      BY <3>1, <1>2, UsedOrSilent DEF OrderInv, Spared
    <3> QED  BY <3>2, <2>f DEF OneWayInv, AtFront
  <2>1. CASE Peer \/ User \/ EventLoop \/ UNCHANGED vars
    BY <2>1, <1>2 DEF Peer, PeerSends, PeerDrains, PeerShuts, PeerResets, User, Close, AddRead,
       AddWrite, AddSubmit, RemoveRead, EventLoop, EpollWait, EpollWake, ConsumeEvent,
       ConsumeClose, DrainDestroy, DrainDone, TimerFires, vars
  <2>2. ASSUME NEW w \in Workers, Worker(w) PROVE ~crashed'
    <3>1. CASE ReadDone(w)
      <4>1. wpc[w] = DonePC(EPOLLIN) /\ List(EPOLLIN) = reads
        BY <3>1 DEF ReadDone, DonePC, List
      <4> QED  BY <4>1, <3>1, <2>f, <2>i, ReadDoneEffect DEF InOut
    <3>2. CASE WriteDone(w)
      <4>1. wpc[w] = DonePC(EPOLLOUT) /\ List(EPOLLOUT) = writes
        BY <3>2 DEF WriteDone, DonePC, List, EPOLLIN, EPOLLOUT
      <4> QED  BY <4>1, <3>2, <2>f, <2>i, WriteDoneEffect DEF InOut
    <3>3. CASE WritevKilled(w)
      BY <3>3, <1>2 DEF WritevKilled, OrderInv, DeferInv
    <3>4. CASE ~(ReadDone(w) \/ WriteDone(w) \/ WritevKilled(w))
      BY <3>4, <2>2, <1>2 DEF Worker, TakeJob, StartJob, JobSubmits, ReadNext, ReadvData, ReadvAgain,
         ReadvEnd, ReadvError, WriteNext, WritevData, WritevAgain, WritevError, IOError, IOReturns
    <3> QED  BY <3>1, <3>2, <3>3, <3>4
  <2> QED  BY <2>1, <2>2, <1>2 DEF Next
<1>3. OrderInv /\ ~crashed /\ [Next /\ OneWay']_vars => ~crashed'
  BY <1>2
<1> QED  BY <1>1, <1>3, OrderInductive, PTL DEF OneWaySpec

\* iotask.cc, "the conn object will always try to coomplete it as long as the
\* task reserved in the list": what a worker takes out it has performed.
THEOREM TasksAreKept ==
    ASSUME BadTasks = {}, MaxFaults = 0, ~CanReset
    PROVE  OneWaySpec => NoTaskDropped
<1> DEFINE Kept == /\ \A t \in TasksIn(reads) \ TasksIn(reads') : got[t] # <<>>
                   /\ \A t \in TasksIn(writes) \ TasksIn(writes') : t \in TasksIn(sent)
<1>1. ASSUME OrderInv, [Next]_vars PROVE [Kept]_vars
  <2>i. TypeOK /\ PlaceInv
    BY <1>1 DEF OrderInv, IInv
  <2>t. reads \in Seq(ReadTasks) /\ writes \in Seq(WriteTasks)
    BY <2>i DEF TypeOK, PipeTypeOK
  <2>f. ASSUME NEW E \in InOut, NEW w \in Workers, wpc[w] = DonePC(E), IsSuccess(res[w])
        PROVE  List(E) # <<>> /\ Performed(E, Head(List(E)))
    <3>1. Spared(E)
      BY DEF Spared
    <3> QED  BY <3>1, <2>f, <1>1, DoneIsFront
  <2>s. ASSUME TasksIn(reads) \subseteq TasksIn(reads'), TasksIn(writes) \subseteq TasksIn(writes')
        PROVE  Kept
    BY <2>s
  <2> HIDE DEF Kept
  <2>1. CASE Peer \/ Close \/ EventLoop
    <3>1. UNCHANGED <<reads, writes>>
      BY <2>1 DEF Peer, PeerSends, PeerDrains, PeerShuts, PeerResets, Close, EventLoop,
         EpollWait, EpollWake, ConsumeEvent, ConsumeClose, DrainDestroy, DrainDone, TimerFires,
         pipevars
    <3> QED  BY <3>1, <2>s
  <2>2. ASSUME NEW t \in ReadTasks, AddRead(t) PROVE Kept
    <3>1. writes' = writes /\ (reads' = reads \/ reads' = Append(reads, t))
      BY <2>2 DEF AddRead
    <3> QED  BY <3>1, <2>i, <2>s, ListsKnown
  <2>3. ASSUME NEW t \in WriteTasks, AddWrite(t) PROVE Kept
    <3>1. reads' = reads /\ (writes' = writes \/ writes' = Append(writes, t))
      BY <2>3 DEF AddWrite
    <3> QED  BY <3>1, <2>i, <2>s, ListsKnown
  <2>4. ASSUME NEW t \in ReadTasks, RemoveRead(t) PROVE Kept
    BY <2>4 DEF RemoveRead
  <2>5. ASSUME NEW t \in Tasks, AddSubmit(t) PROVE Kept
    BY <2>5, <2>s DEF AddSubmit
  <2>6. CASE User
    BY <2>6, <2>1, <2>2, <2>3, <2>4, <2>5 DEF User
  <2>7. ASSUME NEW w \in Workers, Worker(w) PROVE Kept
    <3>1. CASE ReadDone(w)
      <4>1. /\ wpc[w] = "rdone" /\ writes' = writes
            /\ reads' = IF IsSuccess(res[w]) /\ reads # <<>> THEN Tail(reads) ELSE reads
        BY <3>1, <2>i, ReadDoneEffect
      <4>2. CASE ~IsSuccess(res[w])
        BY <4>1, <4>2, <2>s
      <4>3. CASE IsSuccess(res[w])
        <5>1. reads # <<>> /\ got[Head(reads)] # <<>>
          BY <4>1, <4>3, <2>f DEF DonePC, InOut, List, Performed
        <5>2. TasksIn(reads) = TasksIn(reads') \cup {Head(reads)}
          BY <4>1, <4>3, <5>1, <2>t, ListTail
        <5> QED  BY <4>1, <5>1, <5>2 DEF Kept
      <4> QED  BY <4>2, <4>3
    <3>2. CASE WriteDone(w)
      <4>1. /\ wpc[w] = "wdone" /\ reads' = reads
            /\ writes' = IF IsSuccess(res[w]) /\ writes # <<>> THEN Tail(writes) ELSE writes
        BY <3>2, <2>i, WriteDoneEffect
      <4>2. CASE ~IsSuccess(res[w])
        BY <4>1, <4>2, <2>s
      <4>3. CASE IsSuccess(res[w])
        <5>1. writes # <<>> /\ Head(writes) \in TasksIn(sent)
          BY <4>1, <4>3, <2>f DEF DonePC, InOut, List, Performed, EPOLLIN, EPOLLOUT
        <5>2. TasksIn(writes) = TasksIn(writes') \cup {Head(writes)}
          BY <4>1, <4>3, <5>1, <2>t, ListTail
        <5> QED  BY <4>1, <5>1, <5>2 DEF Kept
      <4> QED  BY <4>2, <4>3
    <3>3. CASE ~(ReadDone(w) \/ WriteDone(w))
      <4>1. UNCHANGED <<reads, writes>>
        BY <3>3, <2>7 DEF Worker, TakeJob, StartJob, JobSubmits, ReadNext, ReadvData, ReadvAgain,
           ReadvEnd, ReadvError, WriteNext, WritevData, WritevAgain, WritevKilled, WritevError,
           IOError, IOReturns, pipevars
      <4> QED  BY <4>1, <2>s
    <3> QED  BY <3>1, <3>2, <3>3
  <2> QED  BY <2>1, <2>6, <2>7, <1>1 DEF Next
<1>2. OrderInv /\ [Next /\ OneWay']_vars => [Kept]_vars
  BY <1>1
<1> QED  BY <1>2, OrderInductive, PTL DEF OneWaySpec, NoTaskDropped

\* doadd_write() and dowrite(): the calls, the workers and the loop together
\* implement a queue that sends every message once and in the order of the
\* calls.  AddWrite adds, WritevData performs, and WriteDone, which pops, is no
\* step of the queue.
THEOREM WritesKeepOrder ==
    ASSUME MaxFaults = 0, ~CanReset
    PROVE  OneWaySpec => WritesInOrder
<1> DEFINE Q == IF WrittenNotPopped THEN Tail(writes) ELSE writes
<1>q. Q = Queue(EPOLLOUT) /\ Q' = Queue(EPOLLOUT)'
  BY DEF WrittenNotPopped, NotPopped, Queue, List, DonePC, EPOLLIN, EPOLLOUT
<1>1. Init => WriteFifo!FifoInit
  BY DEF Init, WriteFifo!FifoInit, WrittenNotPopped
<1>2. ASSUME OrderInv, [Next]_vars, OneWay' PROVE [WriteFifo!FifoNext]_<<Q, sent>>
  <2>i. /\ TypeOK /\ NewInv /\ Spared(EPOLLOUT) /\ EPOLLOUT \in InOut
        /\ writes \in Seq(WriteTasks) /\ sent \in Seq(WriteTasks)
        /\ Own(EPOLLOUT) = WriteTasks /\ List(EPOLLOUT) = writes /\ Data(EPOLLOUT) = <<sent>>
        /\ Data(EPOLLOUT)' = <<sent'>>
        /\ \A w : Moves(EPOLLOUT, w) <=> WritevData(w)
    BY <1>2 DEF OrderInv, IInv, Spared, InOut, TypeOK, PipeTypeOK, SockTypeOK, Own, List, Data,
       Moves, EPOLLIN, EPOLLOUT
  <2>q. Q = Queue(EPOLLOUT) /\ Q' = Queue(EPOLLOUT)'
    BY <1>q
  <2>s. TasksIn(Q) \subseteq TasksIn(writes)
    <3>1. NotPopped(EPOLLOUT) => writes # <<>>
      BY <2>i, <1>2, DoneIsFront DEF NotPopped
    <3> QED  BY <3>1, <2>i, <1>q, ListTail DEF Queue
  <2> HIDE DEF Q
  <2>1. CASE UNCHANGED Queue(EPOLLOUT) /\ UNCHANGED Data(EPOLLOUT)
    BY <2>1, <2>i, <2>q
  <2>2. ASSUME UNCHANGED Data(EPOLLOUT), NEW t \in WriteTasks, call[t] = "new",
               Queue(EPOLLOUT)' = Append(Queue(EPOLLOUT), t)
        PROVE  WriteFifo!FifoNext
    <3>1. t \notin TasksIn(writes) /\ t \notin TasksIn(sent)
      BY <2>2, <2>i DEF NewInv, Tasks
    <3>2. /\ Q' = Append(Q, t) /\ sent' = sent
          /\ \A i \in DOMAIN Q : t # Q[i]
          /\ \A i \in DOMAIN sent : t # sent[i]
      <4>1. Q' = Append(Q, t) /\ sent' = sent
        BY <2>2, <2>i, <2>q
      <4>2. \A i \in DOMAIN sent : t # sent[i]
        BY <3>1 DEF TasksIn
      <4>3. \A i \in DOMAIN Q : t # Q[i]
        BY <3>1, <2>s DEF TasksIn
      <4> QED  BY <4>1, <4>2, <4>3
    <3>3. WriteFifo!Add(t)
      BY <3>2 DEF WriteFifo!Add, Q
    <3> QED  BY <3>3 DEF WriteFifo!FifoNext
  <2>3. ASSUME NEW w \in Workers, WritevData(w), Queue(EPOLLOUT) # <<>>,
               cur[w] = Head(Queue(EPOLLOUT)), Queue(EPOLLOUT)' = Tail(Queue(EPOLLOUT))
        PROVE  WriteFifo!FifoNext
    <3>1. sent' = Append(sent, cur[w])
      BY <2>3 DEF WritevData
    <3>2. Q # <<>> /\ Q' = Tail(Q) /\ sent' = Append(sent, Head(Q))
      BY <3>1, <2>3, <2>q
    <3>3. WriteFifo!Perform
      BY <3>2 DEF WriteFifo!Perform, Q
    <3> QED  BY <3>3 DEF WriteFifo!FifoNext
  <2> QED  BY <2>1, <2>2, <2>3, <2>i, <1>2, QueueStep
<1>3. OrderInv /\ [Next /\ OneWay']_vars => [WriteFifo!FifoNext]_<<Q, sent>>
  <2>1. ASSUME OrderInv, UNCHANGED vars PROVE OneWay'
    BY <2>1 DEF OrderInv, OneWay, vars
  <2> QED  BY <1>2, <2>1
<1> QED  BY <1>1, <1>3, OrderInductive, PTL DEF OneWaySpec, WritesInOrder, WriteFifo!FifoSpec

(* The units of the stream and the buffers they went to.                   *)

Holds(t, i)  == \E j \in DOMAIN got[t] : got[t][j] = i
HolderOf(i)  == CHOOSE t \in ReadTasks : Holds(t, i)
OneHolder    == \A i \in 1..taken : /\ HolderOf(i) \in ReadTasks
                                    /\ \A t \in ReadTasks : Holds(t, i) <=> t = HolderOf(i)

LEMMA UnitsHeldOnce == UnitsInv => OneHolder
<1> SUFFICES ASSUME UnitsInv, NEW i \in 1..taken
             PROVE  /\ HolderOf(i) \in ReadTasks
                    /\ \A t \in ReadTasks : Holds(t, i) <=> t = HolderOf(i)
  BY DEF OneHolder
<1>1. \E t \in ReadTasks : Holds(t, i)
  BY DEF UnitsInv, Holds
<1>2. HolderOf(i) \in ReadTasks /\ Holds(HolderOf(i), i)
  BY <1>1 DEF HolderOf
<1>3. \A t, u \in ReadTasks : Holds(t, i) /\ Holds(u, i) => t = u
  BY DEF UnitsInv, Holds
<1> QED  BY <1>2, <1>3

\* readv() appends the task it is called for to the holders.
LEMMA HoldersGrow ==
    ASSUME OrderInv, OrderInv', NEW w \in Workers, ReadvData(w),
           NEW c, c = cur[w], NEW n, n = taken + 1
    PROVE  /\ taken \in Nat /\ taken' = n
           /\ \A i \in 1..taken : HolderOf(i)' = HolderOf(i)
           /\ HolderOf(n)' = c
<1>1. /\ c \in ReadTasks /\ taken \in Nat /\ taken' = n
      /\ \A t \in ReadTasks \ {c} : got'[t] = got[t]
      /\ DOMAIN got[c] = 1..Len(got[c]) /\ Len(got[c]) \in Nat
      /\ DOMAIN got'[c] = 1..(Len(got[c]) + 1)
      /\ \A j \in 1..Len(got[c]) : got'[c][j] = got[c][j]
      /\ got'[c][Len(got[c]) + 1] = n
  BY ReadvEffect DEF OrderInv, IInv
<1>2. OneHolder /\ UnitsInv /\ UnitsInv'
  BY UnitsHeldOnce DEF OrderInv
<1>3. OneHolder'
  <2>1. UnitsInv' => OneHolder'
    BY UnitsHeldOnce, PTL
  <2> QED  BY <2>1, <1>2
<1>4. ASSUME NEW t \in ReadTasks, NEW i \in 1..taken, Holds(t, i) PROVE Holds(t, i)'
  <2>1. PICK j \in DOMAIN got[t] : got[t][j] = i
    BY <1>4 DEF Holds
  <2>2. j \in DOMAIN got'[t] /\ got'[t][j] = i
    <3>1. CASE t = c
      BY <3>1, <2>1, <1>1
    <3>2. CASE t # c
      BY <3>2, <2>1, <1>1
    <3> QED  BY <3>1, <3>2
  <2> QED  BY <2>2 DEF Holds
<1>5. Holds(c, n)'
  <2>1. Len(got[c]) + 1 \in DOMAIN got'[c]
    BY <1>1
  <2> QED  BY <2>1, <1>1 DEF Holds
<1>6. ASSUME NEW i \in 1..taken PROVE HolderOf(i)' = HolderOf(i)
  <2>1. i \in 1..taken'
    BY <1>1, <1>6
  <2>2. ASSUME NEW h \in ReadTasks, h = HolderOf(i) PROVE h = HolderOf(i)'
    <3>1. Holds(h, i)
      BY <2>2, <1>2, <1>6 DEF OneHolder
    <3>2. Holds(h, i)'
      BY <3>1, <1>4, <1>6
    <3> QED  BY <3>2, <2>1, <1>3 DEF OneHolder
  <2>3. HolderOf(i) \in ReadTasks
    BY <1>2, <1>6 DEF OneHolder
  <2> QED  BY <2>2, <2>3
<1>7. HolderOf(n)' = c
  <2>1. n \in 1..taken'
    BY <1>1
  <2> QED  BY <2>1, <1>1, <1>3, <1>5 DEF OneHolder
<1> QED  BY <1>1, <1>6, <1>7

\* doadd_read() and doread(): the same of the read tasks, which are filled in the
\* order of the calls, one unit of the stream each.  AddRead adds, ReadvData
\* performs.
THEOREM ReadsKeepOrder ==
    ASSUME BadTasks = {}
    PROVE  OneWaySpec => ReadsInOrder
<1> DEFINE Q == IF ReadNotPopped THEN Tail(reads) ELSE reads
           D == [i \in 1..taken |->
                    CHOOSE t \in ReadTasks : \E j \in DOMAIN got[t] : got[t][j] = i]
<1>q. Q = Queue(EPOLLIN) /\ Q' = Queue(EPOLLIN)'
  BY DEF ReadNotPopped, NotPopped, Queue, List, DonePC
<1>d. D = [i \in 1..taken |-> HolderOf(i)] /\ D' = [i \in 1..taken' |-> HolderOf(i)']
  BY DEF HolderOf, Holds
<1>1. Init => ReadFifo!FifoInit
  <2> SUFFICES ASSUME Init PROVE Q = <<>> /\ D = <<>>
    BY DEF ReadFifo!FifoInit
  <2>1. Q = <<>>
    BY DEF Init, ReadNotPopped
  <2>2. taken = 0
    BY DEF Init
  <2>3. 1..taken = {}
    BY <2>2
  <2>4. D = [i \in {} |-> HolderOf(i)]
    BY <2>3, <1>d
  <2> QED  BY <2>1, <2>4
<1>2. ASSUME OrderInv, [Next]_vars, OneWay', OrderInv' PROVE [ReadFifo!FifoNext]_<<Q, D>>
  <2>i. /\ TypeOK /\ NewInv /\ Spared(EPOLLIN) /\ EPOLLIN \in InOut
        /\ reads \in Seq(ReadTasks) /\ taken \in Nat
        /\ Own(EPOLLIN) = ReadTasks /\ List(EPOLLIN) = reads /\ Data(EPOLLIN) = <<taken, got>>
        /\ Data(EPOLLIN)' = <<taken', got'>>
        /\ \A w : Moves(EPOLLIN, w) <=> ReadvData(w)
    BY <1>2, BoundsAssumption DEF OrderInv, IInv, Spared, InOut, TypeOK, PipeTypeOK, SockTypeOK,
       Own, List, Data, Moves
  <2>q. Q = Queue(EPOLLIN) /\ Q' = Queue(EPOLLIN)'
    BY <1>q
  <2>o. OneHolder
    BY <1>2, UnitsHeldOnce DEF OrderInv
  <2>s. TasksIn(Q) \subseteq TasksIn(reads)
    <3>1. NotPopped(EPOLLIN) => reads # <<>>
      BY <2>i, <1>2, DoneIsFront DEF NotPopped
    <3> QED  BY <3>1, <2>i, <1>q, ListTail DEF Queue
  <2>d. UNCHANGED <<taken, got>> => D' = D
    BY DEF D
  <2> HIDE DEF Q, D
  <2>1. CASE UNCHANGED Queue(EPOLLIN) /\ UNCHANGED Data(EPOLLIN)
    BY <2>1, <2>i, <2>q, <2>d
  <2>2. ASSUME UNCHANGED Data(EPOLLIN), NEW t \in ReadTasks, call[t] = "new",
               Queue(EPOLLIN)' = Append(Queue(EPOLLIN), t)
        PROVE  ReadFifo!FifoNext
    <3>1. t \notin TasksIn(reads) /\ ~\E i : Holds(t, i)
      BY <2>2, <2>i DEF NewInv, Tasks, Holds
    <3>2. Q' = Append(Q, t) /\ D' = D
      BY <2>2, <2>i, <2>q, <2>d
    <3>3. \A i \in DOMAIN Q : Q[i] # t
      BY <3>1, <2>s DEF TasksIn
    <3>4. \A i \in DOMAIN D : D[i] # t
      BY <3>1, <2>o, <2>2, <1>d DEF OneHolder
    <3>5. ReadFifo!Add(t)
      BY <3>2, <3>3, <3>4 DEF ReadFifo!Add, Q, D
    <3> QED  BY <3>5 DEF ReadFifo!FifoNext
  <2>3. ASSUME NEW w \in Workers, ReadvData(w), Queue(EPOLLIN) # <<>>,
               cur[w] = Head(Queue(EPOLLIN)), Queue(EPOLLIN)' = Tail(Queue(EPOLLIN))
        PROVE  ReadFifo!FifoNext
    <3>c. PICK c : c = cur[w]
      OBVIOUS
    <3>n. PICK n : n = taken + 1
      OBVIOUS
    <3>1. /\ taken' = n
          /\ \A i \in 1..taken : HolderOf(i)' = HolderOf(i)
          /\ HolderOf(n)' = c
      BY <2>3, <1>2, <3>c, <3>n, HoldersGrow
    <3>2. D' = Append(D, c)
      <4>1. D \in Seq(ReadTasks) /\ Len(D) = taken
        BY <2>i, <2>o, <1>d DEF OneHolder
      <4>2. D' = [i \in 1..(Len(D) + 1) |-> IF i = Len(D) + 1 THEN c ELSE D[i]]
        BY <3>1, <3>n, <4>1, <2>i, <1>d
      <4>3. Append(D, c) = [i \in 1..(Len(D) + 1) |-> IF i = Len(D) + 1 THEN c ELSE D[i]]
        <5>1. c \in ReadTasks
          BY <3>c, <2>3, <2>i DEF ReadvData, TypeOK, WorkTypeOK
        <5> QED  BY <5>1, <4>1, AppendIs
      <4> QED  BY <4>2, <4>3
    <3>3. Q # <<>> /\ Q' = Tail(Q) /\ D' = Append(D, Head(Q))
      BY <3>2, <3>c, <2>3, <2>q
    <3>4. ReadFifo!Perform
      BY <3>3 DEF ReadFifo!Perform, Q, D
    <3> QED  BY <3>4 DEF ReadFifo!FifoNext
  <2> QED  BY <2>1, <2>2, <2>3, <2>i, <1>2, QueueStep
<1>3. OrderInv /\ OrderInv' /\ [Next /\ OneWay']_vars => [ReadFifo!FifoNext]_<<Q, D>>
  BY <1>2 DEF OrderInv
<1> QED  BY <1>1, <1>3, OrderInductive, PTL DEF OneWaySpec, ReadsInOrder, ReadFifo!FifoSpec
=============================================================================
