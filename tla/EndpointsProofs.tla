--------------------------- MODULE EndpointsProofs ---------------------------
(***************************************************************************)
(* Theorems about Endpoints, for any set of workers and any bounds.        *)
(***************************************************************************)
EXTENDS Endpoints, SequenceTheorems, TLAPS

(* The inductive invariant. *)

\* Between accept() and submit() a thread has listener::mtx, and nobody can
\* close the listener in the meantime.
SubmitInv ==
    /\ upc = "submit" => lmtx = User /\ ~lclosed
    /\ \A w \in Workers : wpc[w] = "submit" => lmtx = w /\ ~lclosed

\* The loop has reports only in the batch, and true ones.
BatchInv ==
    /\ lpc \in {"wait", "drain"} => \A d \in {"listener", "connector"} : batch[d] = {}
    /\ "EPOLLERR" \in batch["listener"] => lerr

\* Whatever is queued for deletion or gone belongs to a closed object, and epoll
\* does not report what is gone.
DestroyInv ==
    /\ \A d \in Items(destroyq) \cup deleted :
           IF d = "listener" THEN lclosed ELSE cclosed
    /\ "connector" \in Items(destroyq) \cup deleted => assigned
    /\ Items(destroyq) \cap deleted = {}
    /\ "listener" \in deleted => larmed = {}
    /\ "connector" \in deleted => carmed = {}

\* The answer of a connect is in one place at a time, and moves from each to the
\* next: watched for, reported, a job, at a worker, given.  Before the submit() of
\* create_event() it is nowhere, and EPOLLONESHOT takes it out of the watched.
Watched  == "EPOLLOUT" \in carmed
Reported == "EPOLLOUT" \in batch["connector"]
Queued   == "result" \in Items(jobs)
OneResult(s) == \A i, j \in DOMAIN s : s[i] = "result" /\ s[j] = "result" => i = j
AnswerInv ==
    /\ cpc # "returned" => ~Watched /\ ~Reported /\ ~Queued
    /\ Watched => conce /\ ~Reported
    /\ Watched \/ Reported => ~Queued
    /\ Watched \/ Reported \/ Queued => \A w \in Workers : wpc[w] # "result"
    /\ Watched \/ Reported \/ Queued \/ (\E w \in Workers : wpc[w] = "result")
           \/ cpc # "returned" => answers = 0
    /\ cpc # "returned" => \A w \in Workers : wpc[w] # "result"
    /\ batch["connector"] \subseteq {"EPOLLOUT", "EPOLLERR"}
    /\ OneResult(jobs)
    /\ \A v, w \in Workers : wpc[v] = "result" /\ wpc[w] = "result" => v = w
    /\ answers <= 1

IInv == TypeOK /\ SubmitInv /\ BatchInv /\ DestroyInv /\ EventsDieOnce /\ ListenerListens
        /\ AnswerInv
-----------------------------------------------------------------------------
(* Sequences and the items in them. *)

LEMMA ItemsEmpty == Items(<<>>) = {}
BY DEF Items

LEMMA ItemsAppend ==
    ASSUME NEW S, NEW s \in Seq(S), NEW e \in S
    PROVE  /\ Append(s, e) \in Seq(S)
           /\ Items(Append(s, e)) = Items(s) \cup {e}
<1>1. /\ Append(s, e) \in Seq(S)
      /\ DOMAIN Append(s, e) = 1..(Len(s) + 1) /\ DOMAIN s = 1..Len(s) /\ Len(s) \in Nat
      /\ \A i \in 1..Len(s) : Append(s, e)[i] = s[i]
      /\ Append(s, e)[Len(s) + 1] = e
  OBVIOUS
<1> QED  BY <1>1 DEF Items

LEMMA ItemsTail ==
    ASSUME NEW S, NEW s \in Seq(S), s # <<>>
    PROVE  /\ Head(s) \in S /\ Tail(s) \in Seq(S)
           /\ Items(s) = Items(Tail(s)) \cup {Head(s)}
<1>1. /\ Head(s) \in S /\ Tail(s) \in Seq(S) /\ Len(s) \in Nat /\ Len(s) >= 1
      /\ Head(s) = s[1] /\ DOMAIN s = 1..Len(s) /\ DOMAIN Tail(s) = 1..(Len(s) - 1)
      /\ \A i \in 1..(Len(s) - 1) : Tail(s)[i] = s[i + 1]
  OBVIOUS
<1>2. ASSUME NEW x \in Items(s) PROVE x \in Items(Tail(s)) \cup {Head(s)}
  <2>1. PICK i \in 1..Len(s) : x = s[i]
    BY <1>1 DEF Items
  <2>2. CASE i = 1
    BY <2>1, <2>2, <1>1
  <2>3. CASE i # 1
    <3>1. i - 1 \in 1..(Len(s) - 1) /\ Tail(s)[i - 1] = x
      BY <2>1, <2>3, <1>1
    <3> QED  BY <3>1, <1>1 DEF Items
  <2> QED  BY <2>2, <2>3
<1>3. ASSUME NEW x \in Items(Tail(s)) PROVE x \in Items(s)
  <2>1. PICK i \in 1..(Len(s) - 1) : x = Tail(s)[i]
    BY <1>1 DEF Items
  <2>2. i + 1 \in 1..Len(s) /\ x = s[i + 1]
    BY <2>1, <1>1
  <2> QED  BY <2>2, <1>1 DEF Items
<1>4. Head(s) \in Items(s)
  BY <1>1 DEF Items
<1> QED  BY <1>1, <1>2, <1>3, <1>4

Distinct(s) == \A i, j \in DOMAIN s : s[i] = s[j] => i = j

LEMMA DistinctAppend ==
    ASSUME NEW S, NEW s \in Seq(S), NEW e \in S, Distinct(s), e \notin Items(s)
    PROVE  Distinct(Append(s, e))
<1>1. /\ DOMAIN Append(s, e) = 1..(Len(s) + 1) /\ DOMAIN s = 1..Len(s) /\ Len(s) \in Nat
      /\ \A i \in 1..Len(s) : Append(s, e)[i] = s[i]
      /\ Append(s, e)[Len(s) + 1] = e
  OBVIOUS
<1>2. \A i \in 1..Len(s) : s[i] # e
  BY <1>1 DEF Items
<1> QED  BY <1>1, <1>2 DEF Distinct

LEMMA DistinctTail ==
    ASSUME NEW S, NEW s \in Seq(S), s # <<>>, Distinct(s)
    PROVE  Distinct(Tail(s)) /\ Head(s) \notin Items(Tail(s))
<1>1. /\ Len(s) \in Nat /\ Len(s) >= 1
      /\ Head(s) = s[1] /\ DOMAIN s = 1..Len(s) /\ DOMAIN Tail(s) = 1..(Len(s) - 1)
      /\ \A i \in 1..(Len(s) - 1) : Tail(s)[i] = s[i + 1]
  OBVIOUS
<1>2. ASSUME NEW i \in 1..(Len(s) - 1), NEW j \in 1..(Len(s) - 1), Tail(s)[i] = Tail(s)[j]
      PROVE  i = j
  <2>1. i + 1 \in 1..Len(s) /\ j + 1 \in 1..Len(s) /\ s[i + 1] = s[j + 1]
    BY <1>1, <1>2
  <2>2. i + 1 = j + 1
    BY <2>1, <1>1 DEF Distinct
  <2> QED  BY <2>2
<1>3. ASSUME NEW i \in 1..(Len(s) - 1) PROVE Tail(s)[i] # Head(s)
  <2>1. i + 1 \in 1..Len(s) /\ 1 \in 1..Len(s) /\ i + 1 # 1
    BY <1>1
  <2> QED  BY <2>1, <1>1 DEF Distinct
<1> QED  BY <1>1, <1>2, <1>3 DEF Distinct, Items
LEMMA OneResultAppend ==
    ASSUME NEW S, NEW s \in Seq(S), NEW e \in S, OneResult(s),
           e = "result" => "result" \notin Items(s)
    PROVE  OneResult(Append(s, e))
<1>1. /\ DOMAIN Append(s, e) = 1..(Len(s) + 1) /\ DOMAIN s = 1..Len(s) /\ Len(s) \in Nat
      /\ \A i \in 1..Len(s) : Append(s, e)[i] = s[i]
      /\ Append(s, e)[Len(s) + 1] = e
  OBVIOUS
<1>2. e = "result" => \A i \in 1..Len(s) : s[i] # "result"
  BY <1>1 DEF Items
<1> QED  BY <1>1, <1>2 DEF OneResult

LEMMA OneResultTail ==
    ASSUME NEW S, NEW s \in Seq(S), s # <<>>, OneResult(s)
    PROVE  OneResult(Tail(s)) /\ (Head(s) = "result" => "result" \notin Items(Tail(s)))
<1>1. /\ Len(s) \in Nat /\ Len(s) >= 1
      /\ Head(s) = s[1] /\ DOMAIN s = 1..Len(s) /\ DOMAIN Tail(s) = 1..(Len(s) - 1)
      /\ \A i \in 1..(Len(s) - 1) : Tail(s)[i] = s[i + 1]
  OBVIOUS
<1>2. ASSUME NEW i \in 1..(Len(s) - 1), NEW j \in 1..(Len(s) - 1),
             Tail(s)[i] = "result", Tail(s)[j] = "result"
      PROVE  i = j
  <2>1. i + 1 \in 1..Len(s) /\ j + 1 \in 1..Len(s) /\ s[i + 1] = "result" /\ s[j + 1] = "result"
    BY <1>1, <1>2
  <2>2. i + 1 = j + 1
    BY <2>1, <1>1 DEF OneResult
  <2> QED  BY <2>2
<1>3. ASSUME NEW i \in 1..(Len(s) - 1), Head(s) = "result" PROVE Tail(s)[i] # "result"
  <2>1. i + 1 \in 1..Len(s) /\ 1 \in 1..Len(s) /\ i + 1 # 1
    BY <1>1
  <2> QED  BY <2>1, <1>1, <1>3 DEF OneResult
<1> QED  BY <1>1, <1>2, <1>3 DEF OneResult, Items
-----------------------------------------------------------------------------
(* Types. *)

\* What a start() leaves behind, whatever becomes of its accept4().
LEMMA AcceptEffect ==
    ASSUME TypeOK, UNCHANGED <<backlog, accepted, faults, lclosed, destroyq>> \/ Accept
    PROVE  /\ backlog' \in Nat /\ accepted' \in 0..MaxFiles /\ faults' \in 0..MaxFaults
           /\ lclosed' \in BOOLEAN
           /\ destroyq' \in Seq({"listener", "connector", "null"})
           /\ DoClose \/ UNCHANGED <<lclosed, destroyq>>
<1>1. Append(destroyq, "listener") \in Seq({"listener", "connector", "null"})
  BY ItemsAppend DEF TypeOK
<1>2. DoClose \/ UNCHANGED <<lclosed, destroyq>>
  BY DEF Accept
<1>3. lclosed' \in BOOLEAN /\ destroyq' \in Seq({"listener", "connector", "null"})
  BY <1>1, <1>2 DEF DoClose, TypeOK
<1>4. /\ backlog \in Nat /\ accepted \in 0..MaxFiles /\ faults \in 0..MaxFaults
      /\ MaxFiles \in Nat /\ MaxFaults \in Nat
  BY EndpointsAssumption DEF TypeOK
<1>5. backlog' \in Nat /\ accepted' \in 0..MaxFiles /\ faults' \in 0..MaxFaults
  BY <1>4 DEF Accept
<1> QED  BY <1>2, <1>3, <1>5

LEMMA TypeNext == TypeOK /\ [Next]_vars => TypeOK'
<1> SUFFICES ASSUME TypeOK, [Next]_vars PROVE TypeOK'
  OBVIOUS
<1> DEFINE Destroyed == {"listener", "connector", "null"}
           JobKinds  == {"start", "result"}
<1>a. /\ \A d \in Destroyed : Append(destroyq, d) \in Seq(Destroyed)
      /\ destroyq # <<>> => Head(destroyq) \in Destroyed /\ Tail(destroyq) \in Seq(Destroyed)
  BY ItemsAppend, ItemsTail DEF TypeOK
<1>b. /\ \A j \in JobKinds : Append(jobs, j) \in Seq(JobKinds)
      /\ jobs # <<>> => Head(jobs) \in JobKinds /\ Tail(jobs) \in Seq(JobKinds)
  BY ItemsAppend, ItemsTail DEF TypeOK
<1> USE EndpointsAssumption
    DEF TypeOK, lisvars, levvars, convars, cevvars, sockvars, loopvars, poolvars,
        Flags, LEvent!EventTypeOK, CEvent!EventTypeOK, LEvent!InOut, CEvent!InOut,
        LEvent!EPOLLIN, LEvent!EPOLLOUT, LEvent!EPOLLERR,
        CEvent!EPOLLIN, CEvent!EPOLLOUT, CEvent!EPOLLERR
<1>1. CASE UserStarts
  <2>1. UNCHANGED <<backlog, accepted, faults, lclosed, destroyq>> \/ Accept
    BY <1>1 DEF UserStarts
  <2>2. /\ backlog' \in Nat /\ accepted' \in 0..MaxFiles /\ faults' \in 0..MaxFaults
        /\ lclosed' \in BOOLEAN /\ destroyq' \in Seq({"listener", "connector", "null"})
    BY <2>1, AcceptEffect
  <2> QED  BY <1>1, <2>2, SMTT(30) DEF UserStarts
<1>2. CASE UserSubmits
  BY <1>2 DEF UserSubmits, LEvent!Submit
<1>3. CASE UserCloses
  BY <1>3, <1>a DEF UserCloses, DoClose
<1>c. CASE ConnectAtOnce
  BY <1>c DEF ConnectAtOnce
<1>4. CASE Connect
  BY <1>4 DEF Connect
<1>5. CASE Assign
  BY <1>5 DEF Assign
<1>6. CASE SubmitConnect
  BY <1>6, ZenonT(30) DEF SubmitConnect, CEvent!Submit
<1>7. CASE UserClosesConnector
  BY <1>7, <1>a DEF UserClosesConnector, DoCloseConnector
<1>8. CASE PeerArrives
  BY <1>8 DEF PeerArrives
<1>9. CASE ConnectSucceeds
  BY <1>9 DEF ConnectSucceeds
<1>10. CASE ConnectRefused
  BY <1>10 DEF ConnectRefused
<1>11. CASE ListenerError
  BY <1>11 DEF ListenerError
<1>12. CASE EpollWait
  BY <1>12 DEF EpollWait, ListenerReady, ConnectorReady, LEvent!Report, CEvent!Report
<1>13. CASE EpollWake
  BY <1>13 DEF EpollWake
<1>14. CASE ConsumeListener
  BY <1>14, <1>b, ZenonT(30) DEF ConsumeListener, LEvent!Consume
<1>15. CASE ConsumeClose
  BY <1>15, <1>a DEF ConsumeClose, DoClose, LEvent!ConsumeReturn
<1>16. CASE ConsumeConnector
  <2>1. destroyq' \in Seq({"listener", "connector", "null"}) /\ cclosed' \in BOOLEAN
    BY <1>16, <1>a DEF ConsumeConnector, DoCloseConnector
  <2>2. jobs' \in Seq({"start", "result"})
    BY <1>16, <1>b DEF ConsumeConnector
  <2> QED  BY <1>16, <2>1, <2>2, ZenonT(60) DEF ConsumeConnector, CEvent!Consume
<1>17. CASE ConsumeDone
  BY <1>17 DEF ConsumeDone
<1>18. CASE Drain
  <2>1. destroyq' \in Seq({"listener", "connector", "null"})
    BY <1>18, <1>a DEF Drain
  <2>2. deleted' \subseteq {"listener", "connector"} /\ crashed' \in BOOLEAN
    BY <1>18 DEF Drain
  <2>3. /\ lmask' = lmask /\ levmtx' = levmtx /\ lonce' = lonce /\ larmed' \in {larmed, {}}
        /\ cmask' = cmask /\ cevmtx' = cevmtx /\ conce' = conce /\ carmed' \in {carmed, {}}
    BY <1>18 DEF Drain, LEvent!Unregister, CEvent!Unregister
  <2>4. UNCHANGED <<lisvars, convars, sockvars, lpc, batch, poolvars>>
    BY <1>18 DEF Drain
  <2> QED  BY <2>1, <2>2, <2>3, <2>4
<1>19. CASE DrainDone
  BY <1>19 DEF DrainDone
<1>20. ASSUME NEW w \in Workers, TakeJob(w) PROVE TypeOK'
  <2>1. jobs' \in Seq({"start", "result"}) /\ Head(jobs) \in {"start", "result"}
    BY <1>20, <1>b DEF TakeJob
  <2>2. wpc' \in [Workers -> {"idle", "start", "submit", "result"}]
    BY <1>20, <2>1 DEF TakeJob
  <2> QED  BY <1>20, <2>1, <2>2 DEF TakeJob
<1>21. ASSUME NEW w \in Workers, WorkerStarts(w) PROVE TypeOK'
  <2>1. UNCHANGED <<backlog, accepted, faults, lclosed, destroyq>> \/ Accept
    BY <1>21 DEF WorkerStarts
  <2>2. /\ backlog' \in Nat /\ accepted' \in 0..MaxFiles /\ faults' \in 0..MaxFaults
        /\ lclosed' \in BOOLEAN /\ destroyq' \in Seq({"listener", "connector", "null"})
    BY <2>1, AcceptEffect
  <2> QED  BY <1>21, <2>2, SMTT(30) DEF WorkerStarts
<1>22. ASSUME NEW w \in Workers, WorkerSubmits(w) PROVE TypeOK'
  BY <1>22 DEF WorkerSubmits, LEvent!Submit
<1>23. ASSUME NEW w \in Workers, WorkerAnswers(w) PROVE TypeOK'
  BY <1>23 DEF WorkerAnswers
<1>24. CASE UNCHANGED vars
  BY <1>24 DEF vars
<1> QED
  BY <1>1, <1>2, <1>3, <1>c, <1>4, <1>5, <1>6, <1>7, <1>8, <1>9, <1>10, <1>11, <1>12, <1>13, <1>14, <1>15, <1>16, <1>17, <1>18, <1>19, <1>20, <1>21, <1>22, <1>23, <1>24
  DEF Next, LoopRuns, WorkerRuns
-----------------------------------------------------------------------------
(* The parts of the invariant. *)

LEMMA SubmitNext == TypeOK /\ SubmitInv /\ [Next]_vars => SubmitInv'
<1> SUFFICES ASSUME TypeOK, SubmitInv, [Next]_vars PROVE SubmitInv'
  OBVIOUS
<1> USE EndpointsAssumption DEF SubmitInv
<1>w. /\ wpc \in [Workers -> {"idle", "start", "submit", "result"}]
      /\ lmtx \in Workers \cup {User, NoThread}
  BY DEF TypeOK
<1>1. CASE UserStarts
  BY <1>1, <1>w DEF UserStarts, poolvars
<1>2. CASE UserSubmits
  BY <1>2, <1>w DEF UserSubmits, poolvars
<1>3. CASE UserCloses
  BY <1>3, <1>w DEF UserCloses, poolvars
<1>4. CASE ConsumeClose
  BY <1>4, <1>w DEF ConsumeClose, poolvars
<1>5. CASE \/ ConnectAtOnce \/ Connect \/ Assign \/ SubmitConnect \/ UserClosesConnector
           \/ PeerArrives \/ ConnectSucceeds \/ ConnectRefused \/ ListenerError
  BY <1>5 DEF ConnectAtOnce, Connect, Assign, SubmitConnect, UserClosesConnector, PeerArrives,
     ConnectSucceeds, ConnectRefused, ListenerError, lisvars, poolvars
<1>6. CASE EpollWait \/ EpollWake \/ ConsumeListener \/ ConsumeConnector
           \/ ConsumeDone \/ Drain \/ DrainDone
  BY <1>6 DEF EpollWait, EpollWake, ConsumeListener, ConsumeConnector,
     ConsumeDone, Drain, DrainDone, lisvars, poolvars
<1>7. ASSUME NEW w \in Workers, TakeJob(w) PROVE SubmitInv'
  <2>1. Head(jobs) # "submit"
    <3>1. jobs \in Seq({"start", "result"}) /\ jobs # <<>>
      BY <1>7 DEF TakeJob, TypeOK
    <3> QED  BY <3>1, ItemsTail
  <2> QED  BY <1>7, <1>w, <2>1 DEF TakeJob, lisvars
<1>8. ASSUME NEW w \in Workers, WorkerStarts(w) PROVE SubmitInv'
  <2>1. wpc[w] = "start" /\ lmtx = NoThread /\ upc' = upc
    BY <1>8 DEF WorkerStarts
  <2>2. upc # "submit" /\ \A v \in Workers : wpc[v] # "submit"
    BY <2>1
  <2>3. \/ wpc' = [wpc EXCEPT ![w] = "idle"]
        \/ wpc' = [wpc EXCEPT ![w] = "submit"] /\ lmtx' = w /\ ~lclosed'
    BY <1>8 DEF WorkerStarts
  <2> QED  BY <2>1, <2>2, <2>3, <1>w
<1>9. ASSUME NEW w \in Workers, WorkerSubmits(w) PROVE SubmitInv'
  BY <1>9, <1>w DEF WorkerSubmits
<1>10. ASSUME NEW w \in Workers, WorkerAnswers(w) PROVE SubmitInv'
  BY <1>10, <1>w DEF WorkerAnswers, lisvars
<1>11. CASE UNCHANGED vars
  BY <1>11 DEF vars, lisvars, poolvars
<1> QED
  BY <1>1, <1>2, <1>3, <1>4, <1>5, <1>6, <1>7, <1>8, <1>9, <1>10, <1>11
  DEF Next, LoopRuns, WorkerRuns

LEMMA BatchNext == TypeOK /\ BatchInv /\ [Next]_vars => BatchInv'
<1> SUFFICES ASSUME TypeOK, BatchInv, [Next]_vars PROVE BatchInv'
  OBVIOUS
<1> USE DEF BatchInv
<1>b. batch \in [{"listener", "connector"} -> SUBSET Flags] /\ lpc \in {"wait", "consume", "close", "drain"}
  BY DEF TypeOK
<1>1. CASE EpollWait
  <2>1. lpc' = "consume" /\ lerr' = lerr
    BY <1>1 DEF EpollWait, sockvars
  <2>2. batch'["listener"] = larmed \cap ListenerReady
    BY <1>1 DEF EpollWait
  <2> QED  BY <2>1, <2>2 DEF ListenerReady
<1>2. CASE ConsumeListener
  BY <1>2, <1>b DEF ConsumeListener, sockvars
<1>3. CASE ConsumeConnector
  BY <1>3, <1>b DEF ConsumeConnector, sockvars
<1>4. CASE ConsumeDone
  BY <1>4, <1>b DEF ConsumeDone, sockvars
<1>5. CASE ConsumeClose \/ EpollWake \/ Drain \/ DrainDone
  BY <1>5 DEF ConsumeClose, EpollWake, Drain, DrainDone, sockvars
<1>6. CASE \/ UserStarts \/ UserSubmits \/ UserCloses
           \/ ConnectAtOnce \/ Connect \/ Assign \/ SubmitConnect \/ UserClosesConnector
           \/ PeerArrives \/ ConnectSucceeds \/ ConnectRefused \/ ListenerError
  BY <1>6 DEF UserStarts, UserSubmits, UserCloses, ConnectAtOnce, Connect, Assign, SubmitConnect,
     UserClosesConnector, PeerArrives, ConnectSucceeds, ConnectRefused,
     ListenerError, sockvars, loopvars
<1>7. ASSUME NEW w \in Workers, WorkerRuns(w) PROVE BatchInv'
  BY <1>7 DEF WorkerRuns, TakeJob, WorkerStarts, WorkerSubmits, WorkerAnswers,
     sockvars, loopvars
<1>8. CASE UNCHANGED vars
  BY <1>8 DEF vars, sockvars, loopvars
<1> QED
  BY <1>1, <1>2, <1>3, <1>4, <1>5, <1>6, <1>7, <1>8 DEF Next, LoopRuns

\* What close() of either object appends to the queue is new there.
LEMMA DestroyNext ==
    TypeOK /\ SubmitInv /\ BatchInv /\ DestroyInv /\ EventsDieOnce /\ [Next]_vars
        => DestroyInv' /\ EventsDieOnce'
<1> SUFFICES ASSUME TypeOK, SubmitInv, BatchInv, DestroyInv, EventsDieOnce, [Next]_vars
             PROVE  DestroyInv' /\ EventsDieOnce'
  OBVIOUS
<1> DEFINE Destroyed == {"listener", "connector", "null"}
           Append1(d) == /\ Items(Append(destroyq, d)) = Items(destroyq) \cup {d}
                         /\ d \notin Items(destroyq) => Distinct(Append(destroyq, d))
<1>a. /\ \A d \in Destroyed : Append1(d)
      /\ destroyq # <<>> =>
            /\ Head(destroyq) \in Destroyed
            /\ Items(destroyq) = Items(Tail(destroyq)) \cup {Head(destroyq)}
            /\ Distinct(Tail(destroyq)) /\ Head(destroyq) \notin Items(Tail(destroyq))
  <2>1. destroyq \in Seq(Destroyed) /\ Distinct(destroyq)
    BY DEF TypeOK, EventsDieOnce, Distinct
  <2>2. ASSUME NEW d \in Destroyed PROVE Append1(d)
    BY <2>1, ItemsAppend, DistinctAppend
  <2>3. destroyq # <<>> =>
            /\ Head(destroyq) \in Destroyed
            /\ Items(destroyq) = Items(Tail(destroyq)) \cup {Head(destroyq)}
            /\ Distinct(Tail(destroyq)) /\ Head(destroyq) \notin Items(Tail(destroyq))
    BY <2>1, ItemsTail, DistinctTail
  <2> QED  BY <2>2, <2>3
<1>i. EventsDieOnce <=> /\ \A d \in deleted : batch[d] = {} /\ d \notin Items(destroyq)
                        /\ Distinct(destroyq)
  BY DEF EventsDieOnce, Distinct
<1>j. EventsDieOnce' <=> /\ \A d \in deleted' : batch'[d] = {} /\ d \notin Items(destroyq')
                         /\ Distinct(destroyq')
  BY DEF EventsDieOnce, Distinct, Items
<1>k. DestroyInv' <=>
        /\ \A d \in Items(destroyq') \cup deleted' : IF d = "listener" THEN lclosed' ELSE cclosed'
        /\ "connector" \in Items(destroyq') \cup deleted' => assigned'
        /\ Items(destroyq') \cap deleted' = {}
        /\ "listener" \in deleted' => larmed' = {}
        /\ "connector" \in deleted' => carmed' = {}
  BY DEF DestroyInv, Items
<1>t. /\ deleted \subseteq {"listener", "connector"}
      /\ batch \in [{"listener", "connector"} -> SUBSET Flags]
      /\ assigned => cpc \in {"assigned", "returned"}
      /\ {lclosed, cclosed, assigned} \subseteq BOOLEAN
  BY DEF TypeOK
<1> HIDE DEF Destroyed, Append1
\* A step that leaves both queue and flags alone has only the reports to keep.
<1>q. ASSUME UNCHANGED <<lclosed, cclosed, destroyq, deleted>>, assigned => assigned',
             \A d \in deleted : batch'[d] = {},
             "listener" \in deleted => larmed' = {}, "connector" \in deleted => carmed' = {}
      PROVE  DestroyInv' /\ EventsDieOnce'
  BY <1>q, <1>i, <1>j, <1>k, <1>t DEF DestroyInv
\* A close() of the listener, and one of the connector.
<1>l. ASSUME DoClose, UNCHANGED <<cclosed, assigned, deleted, batch, larmed, carmed>>
      PROVE  DestroyInv' /\ EventsDieOnce'
  <2>1. CASE lclosed
    BY <2>1, <1>l, <1>i, <1>j, <1>k DEF DoClose, DestroyInv
  <2>2. CASE ~lclosed
    <3>1. "listener" \notin Items(destroyq) \cup deleted
      BY <2>2 DEF DestroyInv
    <3>2. Items(destroyq') = Items(destroyq) \cup {"listener"} /\ Distinct(destroyq')
      BY <3>1, <2>2, <1>l, <1>a DEF DoClose, Append1, Destroyed
    <3> QED  BY <3>1, <3>2, <1>l, <1>i, <1>j, <1>k DEF DoClose, DestroyInv
  <2> QED  BY <2>1, <2>2
<1>c. ASSUME DoCloseConnector, UNCHANGED <<lclosed, assigned, deleted, larmed, carmed>>,
             \A d \in deleted : batch'[d] = {}
      PROVE  DestroyInv' /\ EventsDieOnce'
  <2>1. CASE cclosed
    BY <2>1, <1>c, <1>i, <1>j, <1>k DEF DoCloseConnector, DestroyInv
  <2>2. CASE ~cclosed
    <3> DEFINE e == IF assigned THEN "connector" ELSE "null"
    <3>1. e \in Destroyed /\ e # "listener" /\ (e = "connector" => assigned)
      BY DEF Destroyed
    <3>2. e \notin Items(destroyq) \cup deleted
      BY <2>2, <3>1 DEF DestroyInv
    <3>3. Items(destroyq') = Items(destroyq) \cup {e} /\ Distinct(destroyq')
      BY <3>1, <3>2, <2>2, <1>c, <1>a DEF DoCloseConnector, Append1
    <3>4. cclosed' = TRUE
      BY <1>c DEF DoCloseConnector
    <3> HIDE DEF e
    <3> QED  BY <3>1, <3>2, <3>3, <3>4, <1>c, <1>i, <1>j, <1>k DEF DestroyInv
  <2> QED  BY <2>1, <2>2
\* A start(), whose accept() may close the listener.
<1>o. ASSUME UNCHANGED <<backlog, accepted, faults, lclosed, destroyq>> \/ Accept,
             UNCHANGED <<cclosed, assigned, deleted, batch, larmed, carmed>>
      PROVE  DestroyInv' /\ EventsDieOnce'
  <2>1. CASE DoClose
    BY <2>1, <1>o, <1>l
  <2>2. CASE UNCHANGED <<lclosed, destroyq>>
    BY <2>2, <1>o, <1>q, <1>i DEF DestroyInv
  <2> QED  BY <1>o, <2>1, <2>2, AcceptEffect
<1>1. CASE UserStarts
  BY <1>1, <1>o DEF UserStarts, levvars, convars, cevvars
<1>2. CASE UserSubmits
  <2>1. "listener" \notin deleted
    BY <1>2 DEF UserSubmits, SubmitInv, DestroyInv
  <2> QED  BY <2>1, <1>2, <1>q, <1>i DEF UserSubmits, convars, cevvars, loopvars, DestroyInv
<1>3. CASE UserCloses
  BY <1>3, <1>l DEF UserCloses, levvars, convars, cevvars
<1>4. CASE ConnectAtOnce \/ Connect
  <2>1. "connector" \notin deleted
    BY <1>4, <1>t DEF ConnectAtOnce, Connect, DestroyInv
  <2>2. /\ UNCHANGED <<lclosed, cclosed, destroyq, deleted, batch, larmed>>
        /\ assigned' = assigned
    BY <1>4 DEF ConnectAtOnce, Connect, lisvars, levvars, loopvars
  <2> QED  BY <2>1, <2>2, <1>q, <1>i DEF DestroyInv
<1>5. CASE Assign
  BY <1>5, <1>q, <1>i DEF Assign, lisvars, levvars, cevvars, loopvars, DestroyInv
<1>6. CASE SubmitConnect
  BY <1>6, <1>q, <1>i DEF SubmitConnect, lisvars, levvars, cevvars, loopvars, DestroyInv
<1>7. CASE UserClosesConnector
  BY <1>7, <1>c, <1>i DEF UserClosesConnector, lisvars, levvars, cevvars
<1>8. CASE PeerArrives \/ ConnectSucceeds \/ ConnectRefused \/ ListenerError
  BY <1>8, <1>q, <1>i DEF PeerArrives, ConnectSucceeds, ConnectRefused, ListenerError,
     lisvars, levvars, convars, cevvars, loopvars, DestroyInv
<1>9. CASE EpollWait
  <2>1. /\ batch'["listener"] = larmed \cap ListenerReady
        /\ batch'["connector"] = carmed \cap ConnectorReady
        /\ larmed' \in {larmed, {}} /\ carmed' \in {carmed, {}}
    BY <1>9 DEF EpollWait, LEvent!Report, CEvent!Report, levvars, cevvars
  <2>2. UNCHANGED <<lclosed, cclosed, assigned, destroyq, deleted>>
    BY <1>9 DEF EpollWait, lisvars, convars
  <2>3. \A d \in deleted : batch'[d] = {}
    BY <2>1, <1>t DEF DestroyInv
  <2> QED  BY <2>1, <2>2, <2>3, <1>q DEF DestroyInv
<1>10. CASE ConsumeListener
  BY <1>10, <1>q, <1>i, <1>t DEF ConsumeListener, LEvent!Consume, lisvars, convars, cevvars, DestroyInv
<1>11. CASE ConsumeClose
  BY <1>11, <1>l DEF ConsumeClose, LEvent!ConsumeReturn, convars, cevvars
<1>12. CASE ConsumeConnector
  <2>1. /\ UNCHANGED <<lclosed, assigned, deleted, larmed, carmed>>
        /\ \A d \in deleted : batch'[d] = {}
    BY <1>12, <1>i, <1>t DEF ConsumeConnector, CEvent!Consume, lisvars, levvars
  <2>2. DoCloseConnector \/ UNCHANGED <<cclosed, destroyq>>
    BY <1>12 DEF ConsumeConnector
  <2> QED  BY <2>1, <2>2, <1>c, <1>q DEF DestroyInv
<1>13. CASE EpollWake \/ ConsumeDone \/ DrainDone
  BY <1>13, <1>q, <1>i DEF EpollWake, ConsumeDone, DrainDone, lisvars, levvars, convars, cevvars, DestroyInv
<1>14. CASE Drain
  <2> DEFINE h == Head(destroyq)
             t == Tail(destroyq)
  <2>1. /\ h \in {"listener", "connector", "null"}
        /\ Items(destroyq) = Items(t) \cup {h} /\ Distinct(t) /\ h \notin Items(t)
        /\ destroyq' = t
    BY <1>14, <1>a DEF Drain, Destroyed
  <2>2. /\ deleted' = deleted \cup ({h} \ {"null"})
        /\ larmed' = IF h = "listener" THEN {} ELSE larmed
        /\ carmed' = IF h = "connector" THEN {} ELSE carmed
    BY <1>14, <2>1 DEF Drain, LEvent!Unregister, CEvent!Unregister, levvars, cevvars
  <2>3. UNCHANGED <<lclosed, cclosed, assigned, batch>> /\ lpc = "drain"
    BY <1>14 DEF Drain, lisvars, convars
  <2>4. \A d \in {"listener", "connector"} : batch[d] = {}
    BY <2>3 DEF BatchInv
  <2> HIDE DEF h, t
  <2>5. DestroyInv'
    BY <2>1, <2>2, <2>3, <1>k DEF DestroyInv
  <2>6. \A d \in deleted' : batch'[d] = {} /\ d \notin Items(destroyq')
    BY <2>1, <2>2, <2>3, <2>4, <1>i, <1>t
  <2> QED  BY <2>1, <2>5, <2>6, <1>j
<1>15. ASSUME NEW w \in Workers, WorkerSubmits(w) PROVE DestroyInv' /\ EventsDieOnce'
  <2>1. "listener" \notin deleted
    BY <1>15 DEF WorkerSubmits, SubmitInv, DestroyInv
  <2> QED  BY <2>1, <1>15, <1>q, <1>i DEF WorkerSubmits, convars, cevvars, loopvars, DestroyInv
<1>s. ASSUME NEW w \in Workers, WorkerStarts(w) PROVE DestroyInv' /\ EventsDieOnce'
  BY <1>s, <1>o DEF WorkerStarts, levvars, convars, cevvars
<1>16. ASSUME NEW w \in Workers, TakeJob(w) \/ WorkerAnswers(w)
       PROVE  DestroyInv' /\ EventsDieOnce'
  BY <1>16, <1>q, <1>i DEF TakeJob, WorkerAnswers, lisvars, levvars, convars,
     cevvars, loopvars, DestroyInv
<1>17. CASE UNCHANGED vars
  BY <1>17, <1>q, <1>i DEF vars, lisvars, levvars, convars, cevvars, loopvars, DestroyInv
<1> QED
  BY <1>1, <1>2, <1>3, <1>4, <1>5, <1>6, <1>7, <1>8, <1>9, <1>10, <1>11, <1>12, <1>13,
     <1>14, <1>15, <1>s, <1>16, <1>17
  DEF Next, LoopRuns, WorkerRuns

\* Every step that ends one of the reasons why the listener listens begins the
\* next one: report, job, start(), submit().
LEMMA ListensNext ==
    TypeOK /\ SubmitInv /\ BatchInv /\ DestroyInv /\ ListenerListens /\ [Next]_vars
        => ListenerListens'
<1> SUFFICES ASSUME TypeOK, SubmitInv, BatchInv, DestroyInv, ListenerListens, [Next]_vars,
                    starts' > 0, ~lclosed', ~lerr'
             PROVE  Accepting'
  BY DEF ListenerListens
<1>t. /\ wpc \in [Workers -> {"idle", "start", "submit", "result"}]
      /\ batch \in [{"listener", "connector"} -> SUBSET Flags]
      /\ starts \in Nat
  BY EndpointsAssumption DEF TypeOK
<1>j. Accepting' <=> \/ "EPOLLIN" \in larmed' \/ "EPOLLIN" \in batch'["listener"]
                     \/ "start" \in Items(jobs')
                     \/ upc' = "submit" \/ \E w \in Workers : wpc'[w] \in {"start", "submit"}
  BY DEF Accepting, Items
<1>q. /\ \A e \in {"start", "result"} : Items(Append(jobs, e)) = Items(jobs) \cup {e}
      /\ jobs # <<>> => Items(jobs) = Items(Tail(jobs)) \cup {Head(jobs)}
  BY ItemsAppend, ItemsTail DEF TypeOK
\* Steps that leave all of it alone.
<1>s. ASSUME UNCHANGED <<larmed, batch, jobs, upc, wpc, starts, lclosed>>, lerr => lerr'
      PROVE  Accepting'
  BY <1>s, <1>j DEF ListenerListens, Accepting
<1>1. CASE UserStarts
  BY <1>1, <1>j DEF UserStarts
<1>2. CASE UserSubmits
  BY <1>2, <1>j DEF UserSubmits, LEvent!Submit
<1>3. CASE UserCloses \/ ConsumeClose
  BY <1>3 DEF UserCloses, ConsumeClose, DoClose
<1>4. CASE \/ ConnectAtOnce \/ Connect \/ Assign \/ SubmitConnect \/ UserClosesConnector
           \/ PeerArrives \/ ConnectSucceeds \/ ConnectRefused \/ ListenerError
           \/ EpollWake \/ ConsumeDone \/ DrainDone
  BY <1>4, <1>s DEF ConnectAtOnce, Connect, Assign, SubmitConnect, UserClosesConnector, PeerArrives,
     ConnectSucceeds, ConnectRefused, ListenerError, EpollWake, ConsumeDone, DrainDone,
     lisvars, levvars, sockvars, loopvars, poolvars
<1>5. CASE EpollWait
  <2>1. /\ batch'["listener"] = larmed \cap ListenerReady
        /\ larmed' = larmed \/ larmed \cap ListenerReady # {}
        /\ UNCHANGED <<jobs, wpc, upc, starts, lclosed, lerr>>
    BY <1>5 DEF EpollWait, LEvent!Report, levvars, lisvars, sockvars, poolvars
  <2>2. Accepting /\ "EPOLLIN" \notin batch["listener"]
    BY <1>5, <2>1 DEF ListenerListens, BatchInv, EpollWait
  <2>3. CASE "EPOLLIN" \in larmed /\ larmed' # larmed
    <3>1. larmed \cap ListenerReady \subseteq {"EPOLLIN"}
      BY <2>1 DEF ListenerReady
    <3> QED  BY <3>1, <2>1, <2>3, <1>j
  <2>4. CASE "EPOLLIN" \notin larmed \/ larmed' = larmed
    BY <2>4, <2>1, <2>2, <1>j DEF Accepting
  <2> QED  BY <2>3, <2>4
<1>6. CASE ConsumeListener
  <2>1. UNCHANGED <<larmed, wpc, upc, starts, lclosed, lerr>>
    BY <1>6 DEF ConsumeListener, LEvent!Consume, lisvars, sockvars
  <2>2. "EPOLLERR" \notin batch["listener"]
    BY <2>1 DEF BatchInv
  <2>3. jobs' = Append(jobs, "start")
    BY <1>6, <2>2 DEF ConsumeListener
  <2> QED  BY <2>3, <1>q, <1>j
<1>7. CASE ConsumeConnector
  <2>1. UNCHANGED <<larmed, wpc, upc, starts, lclosed, lerr>>
    BY <1>7 DEF ConsumeConnector, levvars, lisvars, sockvars
  <2>2. batch'["listener"] = batch["listener"]
    BY <1>7, <1>t DEF ConsumeConnector
  <2>3. Items(jobs) \subseteq Items(jobs')
    BY <1>7, <1>q DEF ConsumeConnector
  <2>4. Accepting
    BY <2>1 DEF ListenerListens
  <2> QED  BY <2>1, <2>2, <2>3, <2>4, <1>j DEF Accepting
<1>8. CASE Drain
  <2>1. UNCHANGED <<lclosed, lerr, batch, jobs, upc, wpc, starts>>
    BY <1>8 DEF Drain, lisvars, sockvars, poolvars
  <2>2. destroyq # <<>> /\ Head(destroyq) # "listener"
    <3>1. destroyq # <<>>
      BY <1>8 DEF Drain
    <3>2. Head(destroyq) \in Items(destroyq)
      BY <3>1, ItemsTail DEF TypeOK
    <3> QED  BY <3>1, <3>2, <2>1 DEF DestroyInv
  <2>3. larmed' = larmed
    BY <1>8, <2>2 DEF Drain, levvars
  <2> QED  BY <2>1, <2>3, <1>s
<1>9. ASSUME NEW w \in Workers, TakeJob(w) PROVE Accepting'
  <2>1. /\ wpc[w] = "idle" /\ wpc' = [wpc EXCEPT ![w] = Head(jobs)]
        /\ jobs # <<>> /\ jobs' = Tail(jobs)
        /\ UNCHANGED <<larmed, batch, upc, starts, lclosed, lerr>>
    BY <1>9 DEF TakeJob, lisvars, levvars, sockvars, loopvars
  <2>2. Accepting
    BY <2>1 DEF ListenerListens
  <2>3. CASE "start" \in Items(jobs)
    BY <2>1, <2>3, <1>q, <1>j, <1>t
  <2>4. CASE \E v \in Workers : wpc[v] \in {"start", "submit"}
    BY <2>1, <2>4, <1>j, <1>t
  <2> QED  BY <2>1, <2>2, <2>3, <2>4, <1>j DEF Accepting
<1>10. ASSUME NEW w \in Workers, WorkerStarts(w) PROVE Accepting'
  BY <1>10, <1>t, <1>j DEF WorkerStarts
<1>11. ASSUME NEW w \in Workers, WorkerSubmits(w) PROVE Accepting'
  BY <1>11, <1>j DEF WorkerSubmits, LEvent!Submit
<1>12. ASSUME NEW w \in Workers, WorkerAnswers(w) PROVE Accepting'
  <2>1. /\ wpc[w] = "result" /\ wpc' = [wpc EXCEPT ![w] = "idle"]
        /\ UNCHANGED <<larmed, batch, jobs, upc, starts, lclosed, lerr>>
    BY <1>12 DEF WorkerAnswers, lisvars, levvars, sockvars, loopvars
  <2>2. Accepting
    BY <2>1 DEF ListenerListens
  <2>3. \A v \in Workers : wpc[v] \in {"start", "submit"} => wpc'[v] = wpc[v]
    BY <2>1, <1>t
  <2> QED  BY <2>1, <2>2, <2>3, <1>j DEF Accepting
<1>13. CASE UNCHANGED vars
  BY <1>13, <1>s DEF vars, lisvars, levvars, sockvars, loopvars, poolvars
<1> QED
  BY <1>1, <1>2, <1>3, <1>4, <1>5, <1>6, <1>7, <1>8, <1>9, <1>10, <1>11, <1>12, <1>13
  DEF Next, LoopRuns, WorkerRuns
\* connect_cb() and handle_async_connect_result(): every step that puts the
\* answer into a place takes it from the one before.
LEMMA AnswerNext == TypeOK /\ AnswerInv /\ [Next]_vars => AnswerInv'
<1> SUFFICES ASSUME TypeOK, AnswerInv, [Next]_vars PROVE AnswerInv'
  OBVIOUS
<1>t. /\ wpc \in [Workers -> {"idle", "start", "submit", "result"}]
      /\ batch \in [{"listener", "connector"} -> SUBSET Flags]
      /\ answers \in Nat /\ conce \in BOOLEAN
  BY DEF TypeOK, CEvent!EventTypeOK
<1>j. /\ OneResult(Append(jobs, "start")) /\ Items(Append(jobs, "start")) = Items(jobs) \cup {"start"}
      /\ ~Queued => OneResult(Append(jobs, "result"))
      /\ Items(Append(jobs, "result")) = Items(jobs) \cup {"result"}
      /\ jobs # <<>> => /\ OneResult(Tail(jobs)) /\ Items(jobs) = Items(Tail(jobs)) \cup {Head(jobs)}
                        /\ Head(jobs) = "result" => "result" \notin Items(Tail(jobs))
                        /\ Head(jobs) \in {"start", "result"}
  <2>1. jobs \in Seq({"start", "result"}) /\ OneResult(jobs)
    BY DEF TypeOK, AnswerInv
  <2>2. /\ OneResult(Append(jobs, "start")) /\ Items(Append(jobs, "start")) = Items(jobs) \cup {"start"}
        /\ Items(Append(jobs, "result")) = Items(jobs) \cup {"result"}
    BY <2>1, ItemsAppend, OneResultAppend
  <2>3. ~Queued => OneResult(Append(jobs, "result"))
    BY <2>1, OneResultAppend DEF Queued
  <2> QED  BY <2>1, <2>2, <2>3, ItemsTail, OneResultTail
<1>p. Watched' = ("EPOLLOUT" \in carmed') /\ Reported' = ("EPOLLOUT" \in batch'["connector"])
      /\ Queued' = ("result" \in Items(jobs')) /\ OneResult(jobs)' = OneResult(jobs')
  BY DEF Watched, Reported, Queued, OneResult, Items
\* Steps that leave the answer where it is.
<1>s. ASSUME UNCHANGED <<cpc, carmed, conce, jobs, answers>>,
             batch'["connector"] = batch["connector"],
             \A w \in Workers : (wpc'[w] = "result") = (wpc[w] = "result")
      PROVE  AnswerInv'
  BY <1>s, <1>p DEF AnswerInv, Watched, Reported, Queued
<1>1. CASE \/ UserStarts \/ UserSubmits \/ UserCloses \/ UserClosesConnector
           \/ PeerArrives \/ ConnectSucceeds \/ ConnectRefused \/ ListenerError
           \/ EpollWake \/ ConsumeClose \/ ConsumeDone \/ DrainDone
  BY <1>1, <1>s DEF UserStarts, UserSubmits, UserCloses, UserClosesConnector, PeerArrives,
     ConnectSucceeds, ConnectRefused, ListenerError, EpollWake, ConsumeClose, ConsumeDone,
     DrainDone, convars, cevvars, loopvars, poolvars
<1>c. CASE ConnectAtOnce
  BY <1>c, <1>p DEF ConnectAtOnce, cevvars, loopvars, poolvars, AnswerInv, Watched, Reported, Queued
<1>2. CASE Connect
  BY <1>2, <1>p DEF Connect, loopvars, poolvars, AnswerInv, Watched, Reported, Queued
<1>3. CASE Assign
  BY <1>3, <1>p DEF Assign, cevvars, loopvars, poolvars, AnswerInv, Watched, Reported, Queued
<1>4. CASE SubmitConnect
  <2>1. /\ cpc = "assigned" /\ cpc' = "returned"
        /\ UNCHANGED <<batch, jobs, wpc, answers>>
        /\ conce' = TRUE \/ UNCHANGED <<carmed, conce>>
    BY <1>4 DEF SubmitConnect, CEvent!Submit, cevvars, convars, loopvars, poolvars
  <2> QED  BY <2>1, <1>p DEF AnswerInv, Watched, Reported, Queued
<1>5. CASE EpollWait
  <2>1. /\ batch'["connector"] = carmed \cap ConnectorReady
        /\ carmed' = IF carmed \cap ConnectorReady # {} /\ conce THEN {} ELSE carmed
        /\ UNCHANGED <<cpc, conce, jobs, wpc, answers>>
    BY <1>5 DEF EpollWait, CEvent!Report, cevvars, convars, poolvars
  <2>2. ConnectorReady \subseteq {"EPOLLOUT", "EPOLLERR"}
    BY DEF ConnectorReady
  <2> HIDE DEF ConnectorReady
  <2> QED  BY <2>1, <2>2, <1>p, <1>t DEF AnswerInv, Watched, Reported, Queued
<1>6. CASE ConsumeListener
  <2>1. /\ UNCHANGED <<cpc, carmed, conce, wpc, answers>>
        /\ batch'["connector"] = batch["connector"]
        /\ jobs' = jobs \/ jobs' = Append(jobs, "start")
    BY <1>6, <1>t DEF ConsumeListener, convars, cevvars
  <2>2. OneResult(jobs') /\ (Queued' <=> Queued)
    BY <2>1, <1>j, <1>p DEF AnswerInv, Queued
  <2> QED  BY <2>1, <2>2, <1>p DEF AnswerInv, Watched, Reported
<1>7. CASE ConsumeConnector
  <2>1. /\ UNCHANGED <<cpc, carmed, conce, wpc, answers>>
        /\ batch["connector"] # {} /\ batch'["connector"] = {}
        /\ IF "EPOLLERR" \in batch["connector"] THEN jobs' = jobs ELSE jobs' = Append(jobs, "result")
    BY <1>7, <1>t DEF ConsumeConnector, CEvent!Consume, convars, cevvars
  <2>2. CASE "EPOLLERR" \in batch["connector"]
    BY <2>1, <2>2, <1>p DEF AnswerInv, Watched, Reported, Queued
  <2>3. CASE "EPOLLERR" \notin batch["connector"]
    <3>1. Reported
      BY <2>1, <2>3 DEF AnswerInv, Reported
    <3>2. ~Watched /\ ~Queued /\ answers = 0 /\ cpc = "returned"
          /\ \A w \in Workers : wpc[w] # "result"
      BY <3>1 DEF AnswerInv
    <3>3. OneResult(jobs') /\ ~Watched' /\ ~Reported'
      BY <2>1, <2>3, <3>2, <1>j, <1>p DEF Watched
    <3> QED  BY <2>1, <3>2, <3>3, <1>p DEF AnswerInv
  <2> QED  BY <2>2, <2>3
<1>8. CASE Drain
  <2>1. /\ carmed' \in {carmed, {}} /\ UNCHANGED <<cpc, conce, batch, jobs, wpc, answers>>
    BY <1>8 DEF Drain, CEvent!Unregister, cevvars, convars, poolvars
  <2> QED  BY <2>1, <1>p DEF AnswerInv, Watched, Reported, Queued
<1>9. ASSUME NEW w \in Workers, TakeJob(w) PROVE AnswerInv'
  <2>1. /\ wpc[w] = "idle" /\ wpc' = [wpc EXCEPT ![w] = Head(jobs)]
        /\ jobs # <<>> /\ jobs' = Tail(jobs)
        /\ UNCHANGED <<cpc, carmed, conce, batch, answers>>
    BY <1>9 DEF TakeJob, convars, cevvars, loopvars
  <2>2. OneResult(jobs') /\ (Queued <=> Queued' \/ Head(jobs) = "result")
        /\ (Head(jobs) = "result" => ~Queued')
    BY <2>1, <1>j, <1>p DEF Queued
  <2>3. (Watched' <=> Watched) /\ (Reported' <=> Reported)
    BY <2>1, <1>p DEF Watched, Reported
  <2>4. CASE Head(jobs) = "result"
    BY <2>1, <2>2, <2>3, <2>4, <1>p, <1>t DEF AnswerInv
  <2>5. CASE Head(jobs) # "result"
    <3>1. \A v \in Workers : (wpc'[v] = "result") = (wpc[v] = "result")
      BY <2>1, <2>5, <1>t
    <3> QED  BY <2>1, <2>2, <2>3, <2>5, <3>1, <1>p DEF AnswerInv
  <2> QED  BY <2>4, <2>5
<1>10. ASSUME NEW w \in Workers, WorkerStarts(w) \/ WorkerSubmits(w) PROVE AnswerInv'
  BY <1>10, <1>s, <1>t DEF WorkerStarts, WorkerSubmits, convars, cevvars, loopvars
<1>11. ASSUME NEW w \in Workers, WorkerAnswers(w) PROVE AnswerInv'
  <2>1. /\ wpc[w] = "result" /\ wpc' = [wpc EXCEPT ![w] = "idle"] /\ answers' = answers + 1
        /\ UNCHANGED <<cpc, carmed, conce, batch, jobs>>
    BY <1>11 DEF WorkerAnswers, convars, cevvars, loopvars
  <2>2. ~Watched /\ ~Reported /\ ~Queued /\ answers = 0 /\ cpc = "returned"
    BY <2>1 DEF AnswerInv
  <2>3. \A v \in Workers : wpc'[v] # "result"
    BY <2>1, <1>t DEF AnswerInv
  <2>4. ~Watched' /\ ~Reported' /\ ~Queued'
    BY <2>1, <2>2, <1>p DEF Watched, Reported, Queued
  <2> QED  BY <2>1, <2>2, <2>3, <2>4, <1>p DEF AnswerInv
<1>12. CASE UNCHANGED vars
  BY <1>12, <1>s DEF vars, convars, cevvars, loopvars, poolvars
<1> QED
  BY <1>1, <1>c, <1>2, <1>3, <1>4, <1>5, <1>6, <1>7, <1>8, <1>9, <1>10, <1>11, <1>12
  DEF Next, LoopRuns, WorkerRuns
-----------------------------------------------------------------------------
LEMMA Inductive == Spec => []IInv
<1>1. Init => IInv
  <2> SUFFICES ASSUME Init PROVE IInv
    OBVIOUS
  <2>1. TypeOK
    <3>1. /\ destroyq \in Seq({"listener", "connector", "null"})
          /\ jobs \in Seq({"start", "result"})
      BY DEF Init
    <3>2. /\ batch \in [{"listener", "connector"} -> SUBSET Flags]
          /\ wpc \in [Workers -> {"idle", "start", "submit", "result"}]
      BY DEF Init
    <3>3. LEvent!EventTypeOK /\ CEvent!EventTypeOK
      BY DEF Init, LEvent!EventInit, LEvent!EventTypeOK, CEvent!EventTypeOK,
         LEvent!InOut, CEvent!InOut, LEvent!EPOLLERR, CEvent!EPOLLERR
    <3>4. /\ lmtx \in Workers \cup {User, NoThread}
          /\ levmtx \in {Loop, NoThread} /\ cevmtx = NoThread
          /\ (levmtx = Loop) <=> (lpc = "close")
      BY EndpointsAssumption DEF Init, LEvent!EventInit
    <3>5. /\ starts \in 0..MaxStarts /\ peers \in 0..MaxPeers
          /\ accepted \in 0..MaxFiles /\ faults \in 0..MaxFaults
      BY EndpointsAssumption DEF Init
    <3> QED  BY <3>1, <3>2, <3>3, <3>4, <3>5 DEF Init, TypeOK
  <2>2. SubmitInv /\ BatchInv /\ DestroyInv /\ EventsDieOnce /\ ListenerListens
    BY DEF Init, SubmitInv, BatchInv, DestroyInv, EventsDieOnce, ListenerListens, Items
  <2>3. AnswerInv
    BY DEF Init, AnswerInv, Watched, Reported, Queued, OneResult, Items
  <2> QED  BY <2>1, <2>2, <2>3 DEF IInv
<1>2. IInv /\ [Next]_vars => IInv'
  BY TypeNext, SubmitNext, BatchNext, DestroyNext, ListensNext, AnswerNext DEF IInv
<1> QED  BY <1>1, <1>2, PTL DEF Spec

\* The types, and who has listener::mtx and event::mtx when.
THEOREM TypeCorrect == Spec => []TypeOK
<1>1. IInv => TypeOK
  BY DEF IInv
<1> QED  BY <1>1, Inductive, PTL

\* listener::start(): an open listener is never forgotten, whatever the number
\* of workers that run start() at the same time.
THEOREM AlwaysListening == Spec => []ListenerListens
<1>1. IInv => ListenerListens
  BY DEF IInv
<1> QED  BY <1>1, Inductive, PTL

\* close() of listener and connector: no event is queued for deletion twice, and
\* the loop has no report of one that is gone.
THEOREM DeletedOnce == Spec => []EventsDieOnce
<1>1. IInv => EventsDieOnce
  BY DEF IInv
<1> QED  BY <1>1, Inductive, PTL

\* connect_cb(): the user of a connector hears of its connection at most once,
\* whatever the loop reports and however many workers answer.
THEOREM AnswerGivenOnce == Spec => []AnsweredOnce
<1>1. IInv => AnsweredOnce
  BY DEF IInv, AnswerInv, AnsweredOnce
<1> QED  BY <1>1, Inductive, PTL
=============================================================================
