------------------------------ MODULE Endpoints ------------------------------
(***************************************************************************)
(* listener/listener.cc and connector/{connector,connect_task}.cc: how     *)
(* connections come into being.  A listener accepts in the task pool       *)
(* whenever its event is reported, a connector starts a nonblocking        *)
(* connect and waits for the report that it is over.  They share the event *)
(* loop and the pool, and here the connector connects to the listener.     *)
(*                                                                         *)
(* A step is what happens under one mutex.  listener::mtx is held across   *)
(* steps by start(), which waits for event::mtx inside, and event::mtx by  *)
(* the loop, whose callback waits for listener::mtx in close().  What a    *)
(* null or deleted event does to the program is anything (crashed), or     *)
(* nothing.                                                                *)
(***************************************************************************)
EXTENDS Naturals, Sequences

CONSTANTS
    User, Loop, NoThread,   \* the threads that may hold a mutex, besides
    Workers,                \* those of the task pool
    MaxPeers,               \* bound on the connections of others
    MaxStarts,              \* bound on the start() calls of the user
    MaxFiles,               \* descriptors that accept4() may take
    MaxFaults               \* bound on the accept4() that fail for other reasons

ASSUME EndpointsAssumption ==
    /\ {MaxPeers, MaxStarts, MaxFiles, MaxFaults} \subseteq Nat
    /\ User # Loop /\ NoThread \notin {User, Loop}
    /\ {User, Loop, NoThread} \cap Workers = {}

VARIABLES
    \* the listener: closed, mtx, where its user is, and its event
    lclosed, lmtx, upc, starts, lmask, levmtx, larmed, lonce,
    \* the connector: closed, whether e is set, where its user is, and its event
    cclosed, assigned, cpc, cmask, cevmtx, carmed, conce,
    \* the sockets: pending connections, peers so far, an error of the
    \* listening socket, failures of accept4(), the connector's socket
    backlog, peers, lerr, faults, sock,
    \* the event loop: its place, the batch, its queue, what it has deleted
    lpc, batch, destroyq, deleted,
    \* the task pool
    jobs, wpc,
    \* history: connections accepted, calls of on_asnyc_success()
    accepted, answers,
    crashed

LEvent == INSTANCE Event WITH evmask <- lmask, evmtx <- levmtx, armed <- larmed, oneshot <- lonce
CEvent == INSTANCE Event WITH evmask <- cmask, evmtx <- cevmtx, armed <- carmed, oneshot <- conce

lisvars  == <<lclosed, lmtx, upc, starts, accepted>>
levvars  == <<lmask, levmtx, larmed, lonce>>
convars  == <<cclosed, assigned, cpc, answers>>
cevvars  == <<cmask, cevmtx, carmed, conce>>
sockvars == <<backlog, peers, lerr, faults, sock>>
loopvars == <<lpc, batch, destroyq, deleted>>
poolvars == <<jobs, wpc>>
vars == <<lisvars, levvars, convars, cevvars, sockvars, loopvars, poolvars, crashed>>

Flags == {"EPOLLIN", "EPOLLOUT", "EPOLLERR"}
Items(s) == {s[i] : i \in DOMAIN s}

TypeOK ==
    /\ {lclosed, cclosed, assigned, lerr, crashed} \subseteq BOOLEAN
    /\ lmtx \in Workers \cup {User, NoThread}
    /\ levmtx \in {Loop, NoThread} /\ cevmtx = NoThread
    /\ (levmtx = Loop) <=> (lpc = "close")
    /\ upc \in {"idle", "submit"} /\ starts \in 0..MaxStarts
    /\ LEvent!EventTypeOK /\ CEvent!EventTypeOK
    /\ cpc \in {"new", "told", "added", "assigned", "returned"}
    /\ assigned => cpc \in {"assigned", "returned"}
    /\ backlog \in Nat /\ peers \in 0..MaxPeers /\ faults \in 0..MaxFaults
    /\ sock \in {"none", "connecting", "established", "refused"}
    /\ lpc \in {"wait", "consume", "close", "drain"}
    /\ batch \in [{"listener", "connector"} -> SUBSET Flags]
    /\ destroyq \in Seq({"listener", "connector", "null"})
    /\ deleted \subseteq {"listener", "connector"}
    /\ jobs \in Seq({"start", "result"})
    /\ wpc \in [Workers -> {"idle", "start", "submit", "result"}]
    /\ accepted \in 0..MaxFiles /\ answers \in Nat

\* listener::listener(): the socket listens, its event is not submitted.  The
\* connector's event comes with create_event().
Init ==
    /\ lclosed = FALSE /\ lmtx = NoThread /\ upc = "idle" /\ starts = 0
    /\ LEvent!EventInit
    /\ cclosed = FALSE /\ assigned = FALSE /\ cpc = "new"
    /\ cmask = {} /\ cevmtx = NoThread /\ carmed = {} /\ conce = FALSE
    /\ backlog = 0 /\ peers = 0 /\ lerr = FALSE /\ faults = 0 /\ sock = "none"
    /\ lpc = "wait" /\ batch = [d \in {"listener", "connector"} |-> {}]
    /\ destroyq = <<>> /\ deleted = {}
    /\ jobs = <<>> /\ wpc = [w \in Workers |-> "idle"]
    /\ accepted = 0 /\ answers = 0
    /\ crashed = FALSE
-----------------------------------------------------------------------------
(* The listener.                                                           *)

\* A mutation of DoClose: a closed listener is closed again.
DoCloseAgain ==
    /\ lclosed' = TRUE
    /\ destroyq' = Append(destroyq, "listener")

\* The body of close(): please_destroy_me() enters the loop's queue.
DoClose ==
    /\ lclosed' = TRUE
    /\ destroyq' = IF lclosed THEN destroyq ELSE Append(destroyq, "listener")

\* accept(): accept4() takes a pending connection into a descriptor that nobody
\* keeps or closes; there is none (EAGAIN), or no descriptor is left for it
\* (EMFILE); the connection is lost (ECONNABORTED), or stays for another reason
\* (ENFILE, ENOBUFS); the socket was shut down (EINVAL), which closes the listener.
Accept ==
    \/ /\ backlog > 0 /\ accepted < MaxFiles
       /\ backlog' = backlog - 1 /\ accepted' = accepted + 1
       /\ UNCHANGED <<faults, lclosed, destroyq>>
    \/ /\ backlog = 0 \/ accepted = MaxFiles
       /\ UNCHANGED <<backlog, accepted, faults, lclosed, destroyq>>
    \/ /\ backlog > 0 /\ faults < MaxFaults
       /\ backlog' \in {backlog - 1, backlog} /\ faults' = faults + 1
       /\ UNCHANGED <<accepted, lclosed, destroyq>>
    \/ /\ lerr
       /\ DoClose
       /\ UNCHANGED <<backlog, accepted, faults>>

\* start() by the user, up to the e->submit() of resubmit_accept(), which returns
\* when accept() has closed the listener.
UserStarts ==
    /\ upc = "idle" /\ lmtx = NoThread /\ starts < MaxStarts
    /\ starts' = starts + 1
    /\ IF lclosed THEN UNCHANGED <<backlog, accepted, faults, lclosed, destroyq>>
       ELSE Accept
    /\ IF lclosed' THEN UNCHANGED <<upc, lmtx>>
       ELSE upc' = "submit" /\ lmtx' = User
    /\ UNCHANGED <<levvars, convars, cevvars, peers, lerr, sock, lpc, batch,
                   deleted, poolvars, crashed>>

UserSubmits ==
    /\ upc = "submit"
    /\ LEvent!Submit({"EPOLLIN"})
    /\ upc' = "idle" /\ lmtx' = NoThread
    /\ UNCHANGED <<lclosed, starts, accepted, convars, cevvars, sockvars,
                   loopvars, poolvars, crashed>>

\* start() by the job of listener_cb().
WorkerStarts(w) ==
    /\ wpc[w] = "start" /\ lmtx = NoThread
    /\ IF lclosed THEN UNCHANGED <<backlog, accepted, faults, lclosed, destroyq>>
       ELSE Accept
    /\ IF lclosed' THEN wpc' = [wpc EXCEPT ![w] = "idle"] /\ UNCHANGED lmtx
       ELSE wpc' = [wpc EXCEPT ![w] = "submit"] /\ lmtx' = w
    /\ UNCHANGED <<upc, starts, levvars, convars, cevvars, peers, lerr, sock, lpc,
                   batch, deleted, jobs, crashed>>

\* A mutation of WorkerSubmits: the event is not submitted again.
WorkerSkipsSubmit(w) ==
    /\ wpc[w] = "submit"
    /\ UNCHANGED levvars
    /\ wpc' = [wpc EXCEPT ![w] = "idle"] /\ lmtx' = NoThread
    /\ UNCHANGED <<lclosed, upc, starts, accepted, convars, cevvars, sockvars,
                   loopvars, jobs, crashed>>

WorkerSubmits(w) ==
    /\ wpc[w] = "submit"
    /\ LEvent!Submit({"EPOLLIN"})
    /\ wpc' = [wpc EXCEPT ![w] = "idle"] /\ lmtx' = NoThread
    /\ UNCHANGED <<lclosed, upc, starts, accepted, convars, cevvars, sockvars,
                   loopvars, jobs, crashed>>

UserCloses ==
    /\ upc = "idle" /\ lmtx = NoThread /\ "listener" \notin deleted
    /\ DoClose
    /\ UNCHANGED <<lmtx, upc, starts, accepted, levvars, convars, cevvars,
                   sockvars, lpc, batch, deleted, poolvars, crashed>>
-----------------------------------------------------------------------------
(* The connector.                                                          *)

\* connect(), try_connect(), when the connection is there at once (that of a local
\* socket): there is no event, and nobody keeps or closes the descriptor.  When
\* socket() or connect() fails at once the connector stays as it was, and its user
\* may try again, or close it.
ConnectAtOnce ==
    /\ cpc = "new" /\ "listener" \notin deleted
    /\ cpc' = "told"
    /\ sock' = "established" /\ backlog' = backlog + 1
    /\ UNCHANGED <<lisvars, levvars, cclosed, assigned, answers, cevvars, peers,
                   lerr, faults, loopvars, poolvars, crashed>>

\* connect(), try_connect(): the nonblocking connect is under way, and
\* event::event() registers the socket.
Connect ==
    /\ cpc = "new"
    /\ sock' = "connecting"
    /\ carmed' = {"EPOLLERR"}
    /\ cpc' = "added"
    /\ UNCHANGED <<lisvars, levvars, cclosed, assigned, answers, cmask, cevmtx,
                   conce, backlog, peers, lerr, faults, loopvars, poolvars, crashed>>

\* create_event(): e = new event(...), ...
Assign ==
    /\ cpc = "added"
    /\ assigned' = TRUE
    /\ cpc' = "assigned"
    /\ UNCHANGED <<lisvars, levvars, cclosed, answers, cevvars, sockvars,
                   loopvars, poolvars, crashed>>

\* A mutation of SubmitConnect: nothing is submitted.
SubmitNothing ==
    /\ cpc = "assigned"
    /\ cpc' = "returned"
    /\ UNCHANGED <<lisvars, levvars, cclosed, assigned, answers, cevvars, sockvars,
                   loopvars, poolvars, crashed>>

\* ... and e->submit(EPOLLOUT), on an event that the loop may have deleted.
SubmitConnect ==
    /\ cpc = "assigned"
    /\ cpc' = "returned"
    /\ IF "connector" \in deleted
       THEN crashed' = TRUE /\ UNCHANGED cevvars
       ELSE CEvent!Submit({"EPOLLOUT"}) /\ UNCHANGED crashed
    /\ UNCHANGED <<lisvars, levvars, cclosed, assigned, answers, sockvars,
                   loopvars, poolvars>>

\* The body of connector::close(), which finds a null event before e is set.
DoCloseConnector ==
    /\ cclosed' = TRUE
    /\ destroyq' = IF cclosed THEN destroyq
                   ELSE Append(destroyq, IF assigned THEN "connector" ELSE "null")

\* close() by a user or the destructor, at any time: also of a connector that did
\* not connect, or was connected at once, and has no event.
UserClosesConnector ==
    /\ ~cclosed
    /\ DoCloseConnector
    /\ UNCHANGED <<lisvars, levvars, assigned, cpc, answers, cevvars, sockvars,
                   lpc, batch, deleted, poolvars, crashed>>

\* The job of connect_cb(): get_sockfd_err() returns no negative error, so that
\* whatever it is handle_async_connect_result() calls on_asnyc_success().
WorkerAnswers(w) ==
    /\ wpc[w] = "result"
    /\ answers' = answers + 1
    /\ wpc' = [wpc EXCEPT ![w] = "idle"]
    /\ UNCHANGED <<lisvars, levvars, cclosed, assigned, cpc, cevvars, sockvars,
                   loopvars, jobs, crashed>>
-----------------------------------------------------------------------------
(* The network.                                                            *)

PeerArrives ==
    /\ peers < MaxPeers /\ "listener" \notin deleted
    /\ peers' = peers + 1 /\ backlog' = backlog + 1
    /\ UNCHANGED <<lisvars, levvars, convars, cevvars, lerr, faults, sock,
                   loopvars, poolvars, crashed>>

ConnectSucceeds ==
    /\ sock = "connecting" /\ "listener" \notin deleted
    /\ sock' = "established" /\ backlog' = backlog + 1
    /\ UNCHANGED <<lisvars, levvars, convars, cevvars, peers, lerr, faults,
                   loopvars, poolvars, crashed>>

ConnectRefused ==
    /\ sock = "connecting"
    /\ sock' = "refused"
    /\ UNCHANGED <<lisvars, levvars, convars, cevvars, backlog, peers, lerr,
                   faults, loopvars, poolvars, crashed>>

\* An error of the listening socket, or its shutdown.
ListenerError ==
    /\ ~lerr
    /\ lerr' = TRUE
    /\ UNCHANGED <<lisvars, levvars, convars, cevvars, backlog, peers, faults,
                   sock, loopvars, poolvars, crashed>>
-----------------------------------------------------------------------------
(* The event loop and the task pool.                                       *)

ListenerReady  == {f \in {"EPOLLIN"} : backlog > 0} \cup {f \in {"EPOLLERR"} : lerr}
ConnectorReady == CASE sock = "established" -> {"EPOLLOUT"}
                    [] sock = "refused"     -> {"EPOLLOUT", "EPOLLERR"}
                    [] OTHER                -> {}

EpollWait ==
    /\ lpc = "wait"
    /\ LET l == larmed \cap ListenerReady
           c == carmed \cap ConnectorReady
       IN  /\ l \cup c # {}
           /\ batch' = [listener |-> l, connector |-> c]
           /\ IF l # {} THEN LEvent!Report(l) ELSE UNCHANGED levvars
           /\ IF c # {} THEN CEvent!Report(c) ELSE UNCHANGED cevvars
    /\ lpc' = "consume"
    /\ UNCHANGED <<lisvars, convars, sockvars, destroyq, deleted, poolvars, crashed>>

EpollWake ==
    /\ lpc = "wait" /\ destroyq # <<>>
    /\ lpc' = "drain"
    /\ UNCHANGED <<lisvars, levvars, convars, cevvars, sockvars, batch, destroyq,
                   deleted, poolvars, crashed>>

\* event::consume() and listener_cb(), which closes on an error with event::mtx
\* held.
ConsumeListener ==
    /\ lpc = "consume" /\ batch["listener"] # {}
    /\ IF "EPOLLERR" \in batch["listener"]
       THEN /\ LEvent!Consume(batch["listener"], Loop)
            /\ lpc' = "close"
            /\ UNCHANGED jobs
       ELSE /\ LEvent!Consume(batch["listener"], NoThread)
            /\ jobs' = Append(jobs, "start")
            /\ UNCHANGED lpc
    /\ batch' = [batch EXCEPT !["listener"] = {}]
    /\ UNCHANGED <<lisvars, convars, cevvars, sockvars, destroyq, deleted, wpc,
                   crashed>>

ConsumeClose ==
    /\ lpc = "close" /\ lmtx = NoThread
    /\ DoClose
    /\ LEvent!ConsumeReturn
    /\ lpc' = "consume"
    /\ UNCHANGED <<lmtx, upc, starts, accepted, convars, cevvars, sockvars, batch,
                   deleted, poolvars, crashed>>

\* event::consume() and connect_cb().
ConsumeConnector ==
    /\ lpc = "consume" /\ batch["connector"] # {}
    /\ CEvent!Consume(batch["connector"], NoThread)
    /\ IF "EPOLLERR" \in batch["connector"]
       THEN DoCloseConnector /\ UNCHANGED jobs
       ELSE jobs' = Append(jobs, "result") /\ UNCHANGED <<cclosed, destroyq>>
    /\ batch' = [batch EXCEPT !["connector"] = {}]
    /\ UNCHANGED <<lisvars, levvars, assigned, cpc, answers, sockvars, lpc,
                   deleted, wpc, crashed>>

ConsumeDone ==
    /\ lpc = "consume" /\ \A d \in DOMAIN batch : batch[d] = {}
    /\ lpc' = "drain"
    /\ UNCHANGED <<lisvars, levvars, convars, cevvars, sockvars, batch, destroyq,
                   deleted, poolvars, crashed>>

\* delete of the event of a descriptor, once, or of a null event.
Drain ==
    /\ lpc = "drain" /\ destroyq # <<>>
    /\ destroyq' = Tail(destroyq)
    /\ \/ /\ Head(destroyq) = "listener"
          /\ IF "listener" \in deleted THEN crashed' = TRUE ELSE UNCHANGED crashed
          /\ deleted' = deleted \cup {"listener"}
          /\ LEvent!Unregister /\ UNCHANGED cevvars
       \/ /\ Head(destroyq) = "connector"
          /\ IF "connector" \in deleted THEN crashed' = TRUE ELSE UNCHANGED crashed
          /\ deleted' = deleted \cup {"connector"}
          /\ CEvent!Unregister /\ UNCHANGED levvars
       \/ /\ Head(destroyq) = "null"
          /\ crashed' \in BOOLEAN
          /\ UNCHANGED <<deleted, levvars, cevvars>>
    /\ UNCHANGED <<lisvars, convars, sockvars, lpc, batch, poolvars>>

DrainDone ==
    /\ lpc = "drain" /\ destroyq = <<>>
    /\ lpc' = "wait"
    /\ UNCHANGED <<lisvars, levvars, convars, cevvars, sockvars, batch, destroyq,
                   deleted, poolvars, crashed>>

TakeJob(w) ==
    /\ wpc[w] = "idle" /\ jobs # <<>>
    /\ wpc' = [wpc EXCEPT ![w] = Head(jobs)]
    /\ jobs' = Tail(jobs)
    /\ UNCHANGED <<lisvars, levvars, convars, cevvars, sockvars, loopvars, crashed>>
-----------------------------------------------------------------------------
LoopRuns == EpollWait \/ EpollWake \/ ConsumeListener \/ ConsumeClose
            \/ ConsumeConnector \/ ConsumeDone \/ Drain \/ DrainDone
WorkerRuns(w) == TakeJob(w) \/ WorkerStarts(w) \/ WorkerSubmits(w) \/ WorkerAnswers(w)

Next ==
    /\ ~crashed
    /\ \/ UserStarts \/ UserSubmits \/ UserCloses
       \/ ConnectAtOnce \/ Connect \/ Assign \/ SubmitConnect \/ UserClosesConnector
       \/ PeerArrives \/ ConnectSucceeds \/ ConnectRefused \/ ListenerError
       \/ LoopRuns
       \/ \E w \in Workers : WorkerRuns(w)

Spec == Init /\ [][Next]_vars
-----------------------------------------------------------------------------
(* Properties.                                                             *)

\* "We should only submit(EPOLLIN) when nonblocking accept is unfinished": from
\* the first start() on, an open listener is watched, or a thread is on its way
\* through start() and will see to it.
Accepting ==
    \/ "EPOLLIN" \in larmed \/ "EPOLLIN" \in batch["listener"]
    \/ "start" \in Items(jobs)
    \/ upc = "submit" \/ \E w \in Workers : wpc[w] \in {"start", "submit"}
ListenerListens == starts > 0 /\ ~lclosed /\ ~lerr => Accepting

\* An event is deleted once, and never while the loop has a report of it.
EventsDieOnce ==
    /\ \A d \in deleted : batch[d] = {} /\ d \notin Items(destroyq)
    /\ \A i, j \in DOMAIN destroyq : destroyq[i] = destroyq[j] => i = j

\* The user of a connector hears of a connection once.
AnsweredOnce == answers <= 1

\* Fairness: the loop and the workers run, start() and connect() go on; a thread
\* that waits for a mutex others take again and again gets it.
Fairness ==
    /\ WF_vars(LoopRuns) /\ SF_vars(ConsumeClose)
    /\ \A w \in Workers : WF_vars(WorkerRuns(w)) /\ SF_vars(WorkerStarts(w))
    /\ WF_vars(UserSubmits) /\ WF_vars(Assign \/ SubmitConnect)
FairSpec == Spec /\ Fairness

\* The loop waits in close() for listener::mtx and has event::mtx, for which the
\* owner of listener::mtx waits in submit().
Deadlocked == lpc = "close" /\ lmtx # NoThread

\* Who connects to a listener that was started is accepted, whatever other accepts
\* fail, unless it is closed, loop and start() wait for each other, or the
\* descriptors are used up.
EveryoneIsAccepted ==
    starts > 0 /\ backlog > 0 ~>
        backlog = 0 \/ lclosed \/ Deadlocked \/ accepted = MaxFiles \/ crashed

\* A connect that came to an end ends in an answer or in a closed connector, unless
\* the listener takes the loop with it.
ConnectsEnd ==
    cpc = "returned" /\ sock \in {"established", "refused"} ~>
        answers > 0 \/ cclosed \/ Deadlocked \/ crashed
=============================================================================
