------------------------------ MODULE Reactor -------------------------------
(***************************************************************************)
(* system/reactor.{h,cc} and system/timer.{h,cc}: the event loop, the      *)
(* queue of callbacks other threads submit to it, the eventfd that wakes   *)
(* it, and the timer it owns: a priority queue of timeouts and a timerfd.  *)
(*                                                                         *)
(* A request is a callback for the loop, or a timeout to push.  The queue  *)
(* of requests is a ConcurrentQueue: a FIFO for each producer, and a       *)
(* try_dequeue() that finds the producers' queues empty one after another. *)
(* The clock is the integer now() returns, in ticks.                       *)
(***************************************************************************)
EXTENDS Integers, Sequences

CONSTANTS
    Users,              \* the threads that submit
    Loop,               \* the thread of reactor::eventloop
    Timeouts,           \* the timeouts, each pushed once
    Callbacks,          \* the other callbacks, each submitted once
    Delays,             \* the delays of defer() and repeat()
    Intervals,          \* the intervals, 0 for a one-shot timeout
    MaxClock            \* bound: no timeout is asked for beyond this time

Producers == Users \cup {Loop}
Requests  == Timeouts \cup Callbacks

ASSUME ReactorAssumption ==
    /\ Loop \notin Users
    /\ Timeouts \cap Callbacks = {}
    /\ MaxClock \in Nat
    /\ Delays \subseteq Nat \ {0} /\ Intervals \subseteq Nat

VARIABLES
    clock, cbq, eventfd, timeoutq, timerfd, closing,
    \* the loop: where it is, the reports not yet consumed, the producers
    \* whose queue it has found empty in this try_dequeue()
    lpc, reports, seen,
    \* the users: "wake" between enqueue() and wake()
    upc,
    \* of each timeout: when it expires, its interval, how often it ran
    expire, interval, fired,
    \* the first slot of the priority queue's vector, once it is empty
    stale,
    \* the requests made, and the callbacks that ran
    asked, ran,
    \* the clock has overtaken the loop: see Tick
    late

timervars == <<timeoutq, timerfd, expire, interval, fired, stale>>
uservars  == <<upc, asked>>
loopvars  == <<lpc, reports, seen>>
vars == <<clock, cbq, eventfd, closing, loopvars, timervars, uservars, ran, late>>

Off == 0                                \* a disarmed timerfd
EventfdEvent == "eventfd"
TimerfdEvent == "timerfd"
PipeEvent    == "pipe"                  \* any other descriptor

TypeOK ==
    /\ clock \in Nat \ {0}
    /\ cbq \in [Producers -> Seq(Requests)]
    /\ eventfd \in BOOLEAN
    /\ timeoutq \subseteq Timeouts
    /\ timerfd \in Nat
    /\ closing \in BOOLEAN
    /\ lpc \in {"wait", "batch", "expire", "reset", "drain", "stopped", "dead"}
    /\ reports \subseteq {EventfdEvent, TimerfdEvent, PipeEvent}
    /\ seen \subseteq Producers
    /\ upc \in [Users -> {"idle", "wake"}]
    /\ expire \in [Timeouts -> Nat]
    /\ interval \in [Timeouts -> Nat]
    /\ fired \in [Timeouts -> Nat]
    /\ stale \in Nat
    /\ asked \subseteq Requests
    /\ ran \subseteq Callbacks
    /\ late \in BOOLEAN

Init ==
    /\ clock = 1
    /\ cbq = [p \in Producers |-> <<>>]
    /\ eventfd = FALSE
    /\ timeoutq = {}
    /\ timerfd = Off
    /\ closing = FALSE
    /\ lpc = "wait"
    /\ reports = {}
    /\ seen = {}
    /\ upc = [u \in Users |-> "idle"]
    /\ expire = [t \in Timeouts |-> 0]
    /\ interval = [t \in Timeouts |-> 0]
    /\ fired = [t \in Timeouts |-> 0]
    /\ stale = 0
    /\ asked = {}
    /\ ran = {}
    /\ late = FALSE
-----------------------------------------------------------------------------
(* Time.                                                                   *)

Expired == timerfd # Off /\ timerfd <= clock

\* The clock overtakes the loop when a timeout becomes due that is not in the
\* timer yet, and when it advances before the loop is through with expired ones.
InQueue(t) == \E p \in Producers : \E i \in DOMAIN cbq[p] : cbq[p][i] = t
Overtakes  == \/ \E t \in Timeouts : InQueue(t) /\ expire[t] <= clock + 1
              \/ Expired \/ lpc \in {"expire", "reset"}

Tick ==
    /\ clock < MaxClock
    /\ clock' = clock + 1
    /\ late' = (late \/ Overtakes)
    /\ UNCHANGED <<cbq, eventfd, closing, loopvars, timervars, uservars, ran>>

\* A mutation of TimerfdReset: the delay where the time should be.
ResetToDelay(e, pc) == timerfd' = e - clock /\ lpc' = pc

\* timerfd_reset(timerfd, e), after which the loop goes on at pc.  A delay of 0
\* disarms the timerfd; for a negative one timerfd_settime() fails, and the
\* exception ends the process.
TimerfdReset(e, pc) ==
    \/ e > clock /\ timerfd' = e /\ lpc' = pc
    \/ e = clock /\ timerfd' = Off /\ lpc' = pc
    \/ e < clock /\ lpc' = "dead" /\ UNCHANGED timerfd
-----------------------------------------------------------------------------
(* User threads.                                                           *)

\* reactor::submit(): the loop is not woken.
Submit(p, r) ==
    /\ r \notin asked
    /\ asked' = asked \cup {r}
    /\ cbq' = [cbq EXCEPT ![p] = Append(@, r)]

\* A mutation of SubmitAndWake: it submits only.
SubmitNoWake(u, r)  == upc[u] = "idle" /\ Submit(u, r) /\ UNCHANGED upc

\* reactor::submit_and_wake() up to its wake().
SubmitAndWake(u, r) ==
    /\ lpc # "dead" /\ upc[u] = "idle"
    /\ Submit(u, r)
    /\ upc' = [upc EXCEPT ![u] = "wake"]

\* event::please_destroy_me() of some event.
PleaseDestroyMe(u, c) ==
    /\ SubmitAndWake(u, c)
    /\ UNCHANGED <<clock, eventfd, closing, loopvars, timervars, ran, late>>

\* A mutation of PleasePush: the user pushes the timeout by itself, as timer.h
\* considers in its "Fixme2".
PleasePushNow(u, t) ==
    /\ lpc # "dead" /\ t \notin asked
    /\ asked' = asked \cup {t}
    /\ timeoutq' = timeoutq \cup {t}
    /\ \E d \in Delays :
           /\ clock + d <= MaxClock
           /\ expire' = [expire EXCEPT ![t] = clock + d]
           /\ timerfd' = clock + d
    /\ UNCHANGED <<clock, cbq, eventfd, closing, loopvars, upc, interval, fired,
                   stale, ran, late>>

\* defer() and repeat(): please_push() of a timeout that is due d from now.
PleasePush(u, t) ==
    /\ SubmitAndWake(u, t)
    /\ \E d \in Delays, i \in Intervals :
           /\ clock + d <= MaxClock
           /\ expire' = [expire EXCEPT ![t] = clock + d]
           /\ interval' = [interval EXCEPT ![t] = i]
    /\ UNCHANGED <<clock, eventfd, closing, loopvars, timeoutq, timerfd, fired,
                   stale, ran, late>>

\* reactor::wake()
Wake(u) ==
    /\ lpc # "dead" /\ upc[u] = "wake"
    /\ upc' = [upc EXCEPT ![u] = "idle"]
    /\ eventfd' = TRUE
    /\ UNCHANGED <<clock, cbq, closing, loopvars, timervars, asked, ran, late>>

\* reactor::stop() up to the join.
Stop ==
    /\ lpc # "dead" /\ ~closing
    /\ closing' = TRUE
    /\ UNCHANGED <<clock, cbq, eventfd, loopvars, timervars, uservars, ran, late>>
-----------------------------------------------------------------------------
(* The event loop.                                                         *)

\* epoll_wait() reports what is ready.  A pipe is reported at any time.
EpollWait ==
    /\ lpc = "wait"
    /\ \E others \in SUBSET {PipeEvent} :
           /\ reports' = others \cup (IF eventfd THEN {EventfdEvent} ELSE {})
                                \cup (IF Expired THEN {TimerfdEvent} ELSE {})
           /\ others # {} => Callbacks \ asked # {}
    /\ reports' # {}
    /\ lpc' = "batch"
    /\ UNCHANGED <<clock, cbq, eventfd, closing, seen, timervars, uservars, ran,
                   late>>

\* epoll_wait() fails with EINTR: the loop goes on with an empty batch.
EpollInterrupted ==
    /\ lpc = "wait"
    /\ lpc' = "drain"
    /\ UNCHANGED <<clock, cbq, eventfd, closing, reports, seen, timervars,
                   uservars, ran, late>>

Consumed(e) ==
    /\ lpc = "batch"
    /\ e \in reports
    /\ reports' = reports \ {e}

\* The callback of eventfd_event: efd_recv().
ConsumeEventfd ==
    /\ Consumed(EventfdEvent)
    /\ eventfd' = FALSE
    /\ UNCHANGED <<clock, cbq, closing, lpc, seen, timervars, uservars, ran, late>>

\* The callback of a pipe's event that asks the loop for its destruction.
ConsumePipe ==
    /\ Consumed(PipeEvent)
    /\ \E c \in Callbacks : Submit(Loop, c)
    /\ eventfd' = TRUE
    /\ UNCHANGED <<clock, closing, lpc, seen, timervars, upc, ran, late>>

\* ... or that has nothing to ask of the loop.
ConsumeOther ==
    /\ Consumed(PipeEvent)
    /\ UNCHANGED <<clock, cbq, eventfd, closing, lpc, seen, timervars, uservars,
                   ran, late>>

\* timer::on_timerfd_event(): timerfd_read() throws if nothing has expired,
\* handle_expired_timeouts() returns at once if the queue is empty.
ConsumeTimerfd ==
    /\ Consumed(TimerfdEvent)
    /\ IF Expired
       THEN /\ timerfd' = Off
            /\ lpc' = IF timeoutq = {} THEN "batch" ELSE "expire"
       ELSE lpc' = "dead" /\ UNCHANGED timerfd
    /\ UNCHANGED <<clock, cbq, eventfd, closing, seen, timeoutq, expire, interval,
                   fired, stale, uservars, ran, late>>

\* timeoutq.top(): a timeout that expires first.
Top(queue, t) == t \in queue /\ \A s \in queue : expire[t] <= expire[s]

\* One turn of the loop of handle_expired_timeouts(): the timeout runs in the
\* task pool, a periodic one stays in the queue, refreshed.
RunExpired ==
    /\ lpc = "expire"
    /\ \E t \in Timeouts :
           /\ Top(timeoutq, t) /\ expire[t] <= clock
           /\ fired' = [fired EXCEPT ![t] = @ + 1]
           /\ stale' = expire[t]
           /\ IF interval[t] > 0
              THEN /\ expire' = [expire EXCEPT ![t] = clock + interval[t]]
                   /\ UNCHANGED timeoutq
              ELSE /\ timeoutq' = timeoutq \ {t}
                   /\ UNCHANGED expire
    /\ UNCHANGED <<clock, cbq, eventfd, closing, loopvars, timerfd, interval,
                   uservars, ran, late>>

\* The loop ends on an empty queue or at a timeout that is not due.
ExpiredOver ==
    /\ lpc = "expire"
    /\ \A t \in timeoutq : expire[t] > clock
    /\ lpc' = "reset"
    /\ UNCHANGED <<clock, cbq, eventfd, closing, reports, seen, timervars,
                   uservars, ran, late>>

\* A mutation of ResetTimerfd: there is none.
SkipReset ==
    /\ lpc = "reset"
    /\ lpc' = "batch"
    /\ UNCHANGED <<clock, cbq, eventfd, closing, reports, seen, timervars,
                   uservars, ran, late>>

\* The reset_timerfd() at its end.  It does not ask whether the queue is empty:
\* top() is then the slot of the timeout popped last.
ResetTimerfd ==
    /\ lpc = "reset"
    /\ \/ timeoutq = {} /\ TimerfdReset(stale, "batch")
       \/ \E t \in timeoutq : Top(timeoutq, t) /\ TimerfdReset(expire[t], "batch")
    /\ UNCHANGED <<clock, cbq, eventfd, closing, reports, seen, timeoutq, expire,
                   interval, fired, stale, uservars, ran, late>>

BatchDone ==
    /\ lpc = "batch"
    /\ reports = {}
    /\ lpc' = "drain"
    /\ UNCHANGED <<clock, cbq, eventfd, closing, reports, seen, timervars,
                   uservars, ran, late>>

\* A mutation of Push: no reset.
PushOnly(t) == timeoutq' = timeoutq \cup {t} /\ UNCHANGED <<lpc, timerfd>>

\* timer::push(t): the timerfd is reset for a new earliest timeout.
Push(t) ==
    /\ timeoutq' = timeoutq \cup {t}
    /\ IF Top(timeoutq', t) THEN TimerfdReset(expire[t], "drain")
                            ELSE UNCHANGED <<lpc, timerfd>>

\* try_dequeue() finds a request of producer p, and the loop runs it.
RunRequest(p) ==
    /\ lpc = "drain"
    /\ p \notin seen
    /\ cbq[p] # <<>>
    /\ cbq' = [cbq EXCEPT ![p] = Tail(@)]
    /\ seen' = {}
    /\ LET r == Head(cbq[p])
       IN  \/ r \in Callbacks /\ ran' = ran \cup {r}
                              /\ UNCHANGED <<lpc, timeoutq, timerfd>>
           \/ r \in Timeouts /\ Push(r) /\ UNCHANGED ran
    /\ UNCHANGED <<clock, eventfd, closing, reports, expire, interval, fired,
                   stale, uservars, late>>

\* try_dequeue() finds nothing of producer p.
FindEmpty(p) ==
    /\ lpc = "drain"
    /\ p \notin seen
    /\ cbq[p] = <<>>
    /\ seen' = seen \cup {p}
    /\ UNCHANGED <<clock, cbq, eventfd, closing, lpc, reports, timervars,
                   uservars, ran, late>>

\* A mutation of TurnDone: nobody looks at closing.
TurnForever ==
    /\ lpc = "drain"
    /\ seen = Producers
    /\ seen' = {}
    /\ lpc' = "wait"
    /\ UNCHANGED <<clock, cbq, eventfd, closing, reports, timervars, uservars,
                   ran, late>>

\* try_dequeue() has returned false: the end of the turn of eventloop().
TurnDone ==
    /\ lpc = "drain"
    /\ seen = Producers
    /\ seen' = {}
    /\ lpc' = IF closing THEN "stopped" ELSE "wait"
    /\ UNCHANGED <<clock, cbq, eventfd, closing, reports, timervars, uservars,
                   ran, late>>
-----------------------------------------------------------------------------
User(u) == \/ \E c \in Callbacks : PleaseDestroyMe(u, c)
           \/ \E t \in Timeouts : PleasePush(u, t)
           \/ Wake(u)

EventLoop ==
    \/ EpollWait \/ ConsumeEventfd \/ ConsumePipe \/ ConsumeOther
    \/ ConsumeTimerfd \/ RunExpired \/ ExpiredOver \/ ResetTimerfd \/ BatchDone
    \/ \E p \in Producers : RunRequest(p) \/ FindEmpty(p)
    \/ TurnDone

Next == \/ Tick
        \/ \E u \in Users : User(u)
        \/ Stop
        \/ EventLoop
        \/ EpollInterrupted

Spec == Init /\ [][Next]_vars
-----------------------------------------------------------------------------
(* Properties.                                                             *)

\* submit_and_wake(): the loop does not sleep on a request, for its eventfd is
\* readable or the thread that made the request is about to make it so.  (The
\* loop reads the eventfd before it empties the queue, and may miss requests
\* that come while it looks.)
RequestsWakeTheLoop ==
    \A p \in Producers :
        lpc = "wait" /\ cbq[p] # <<>> => eventfd \/ (p \in Users /\ upc[p] = "wake")

\* efd_recv() and timerfd_read() throw on a descriptor with nothing to read:
\* what epoll_wait() has reported of the two is still there when the loop comes
\* to read it, because only the loop itself resets the timerfd.
ReportsStayTrue ==
    /\ EventfdEvent \in reports => eventfd
    /\ TimerfdEvent \in reports => Expired

\* timer.cc, "auto reset" and "set next timerfd event's expire": the loop does
\* not sleep beyond the earliest timeout.
TimerfdInTime ==
    lpc = "wait" /\ timeoutq # {} =>
        timerfd # Off /\ \A t \in timeoutq : timerfd <= expire[t]

\* While the clock does not overtake the loop, the timer is in time and no
\* reset of the timerfd fails.
TimerfdInTimeUnlessLate ==
    ~late => lpc # "dead" /\ TimerfdInTime

\* Fairness: the loop, time and a thread inside submit_and_wake() go on, and
\* signals do not interrupt epoll_wait() every time.
Fairness ==
    /\ WF_vars(Tick)
    /\ WF_vars(EventLoop) /\ SF_vars(EpollWait)
    /\ \A u \in Users : WF_vars(Wake(u))
FairSpec == Spec /\ Fairness

\* A submitted callback runs, unless the loop is stopped or has died.
CallbacksRun ==
    \A c \in Callbacks : c \in asked ~> c \in ran \/ closing \/ lpc = "dead"

\* A timeout fires, unless the loop is stopped or the clock has overtaken it.
TimeoutsFire ==
    \A t \in Timeouts : t \in asked ~> fired[t] > 0 \/ closing \/ late

\* stop() only sets a flag: the loop sees it at its next turn, and a turn comes
\* with the next request.
StopsAtNextWake ==
    closing /\ eventfd ~> lpc \in {"stopped", "dead"}
=============================================================================
