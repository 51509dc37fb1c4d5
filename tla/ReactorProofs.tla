--------------------------- MODULE ReactorProofs ----------------------------
(***************************************************************************)
(* Theorems about Reactor, for any number of threads, timeouts and         *)
(* callbacks and any delays.                                               *)
(***************************************************************************)
EXTENDS Reactor, SequenceTheorems, TLAPS

(* The inductive invariant. *)

\* What the loop has at hand in each place: no report outside its batch, no
\* report of the timerfd while it handles one, no half-finished try_dequeue()
\* outside the drain.
PlaceInv ==
    /\ lpc \in {"wait", "drain", "stopped"} => reports = {}
    /\ lpc \in {"expire", "reset"} => TimerfdEvent \notin reports
    /\ lpc # "drain" => seen = {}

\* A request in the queue has a wakeup under way, or the loop has yet to look
\* at its producer.
Heard(p) == \/ eventfd
            \/ p \in Users /\ upc[p] = "wake"
            \/ lpc \in {"batch", "expire", "reset", "stopped", "dead"}
            \/ lpc = "drain" /\ p \notin seen
WakeInv == \A p \in Producers : cbq[p] # <<>> => Heard(p)

\* While the clock has not overtaken the loop: nothing is due before the timer
\* has it, the timerfd is not in the past, it is set to the earliest timeout
\* except while the loop handles expired ones, and these expire right now.
InTime ==
    /\ lpc # "dead"
    /\ timerfd = Off \/ timerfd >= clock
    /\ \A t \in Timeouts : InQueue(t) => expire[t] > clock
    /\ lpc \in {"wait", "batch", "drain", "stopped"} =>
           \A t \in timeoutq : timerfd # Off /\ timerfd <= expire[t]
    /\ lpc = "expire" => \A t \in timeoutq : expire[t] >= clock
    /\ lpc = "reset"  => \A t \in timeoutq : expire[t] > clock
    /\ lpc \in {"expire", "reset"} /\ timeoutq = {} => stale = clock
AskedInv == \A t \in Timeouts : t \in timeoutq \/ InQueue(t) => t \in asked
TimerInv == AskedInv /\ (~late => InTime)

IInv == TypeOK /\ PlaceInv /\ ReportsStayTrue /\ WakeInv /\ TimerInv
-----------------------------------------------------------------------------
(* The queues of requests. *)

LEMMA AppendIn ==
    ASSUME NEW S, NEW s \in Seq(S), NEW r \in S
    PROVE  /\ Append(s, r) \in Seq(S) /\ Append(s, r) # <<>>
           /\ \A i \in DOMAIN Append(s, r) :
                  Append(s, r)[i] = r \/ \E j \in DOMAIN s : Append(s, r)[i] = s[j]
OBVIOUS

LEMMA TailIn ==
    ASSUME NEW S, NEW s \in Seq(S), s # <<>>
    PROVE  /\ Tail(s) \in Seq(S)
           /\ Head(s) \in S
           /\ \E j \in DOMAIN s : s[j] = Head(s)
           /\ \A i \in DOMAIN Tail(s) : \E j \in DOMAIN s : Tail(s)[i] = s[j]
<1>1. Len(s) \in Nat \ {0}
  OBVIOUS
<1>2. 1 \in DOMAIN s /\ s[1] = Head(s)
  BY <1>1
<1>3. ASSUME NEW i \in DOMAIN Tail(s)
      PROVE  i + 1 \in DOMAIN s /\ Tail(s)[i] = s[i + 1]
  BY <1>1
<1> QED
  BY <1>2, <1>3

\* A step that submits request r: the only new member of a queue is r.
LEMMA SubmitQueue ==
    ASSUME TypeOK, NEW p \in Producers, NEW r \in Requests, Submit(p, r)
    PROVE  /\ cbq' \in [Producers -> Seq(Requests)]
           /\ \A q \in Producers : q # p => cbq'[q] = cbq[q]
           /\ \A t \in Timeouts : InQueue(t)' => InQueue(t) \/ t = r
           /\ asked' = asked \cup {r} /\ r \notin asked
<1>1. cbq \in [Producers -> Seq(Requests)]
  BY DEF TypeOK
<1>2. cbq' = [cbq EXCEPT ![p] = Append(cbq[p], r)]
  BY DEF Submit
<1>3. cbq[p] \in Seq(Requests)
  BY <1>1
<1>4. /\ Append(cbq[p], r) \in Seq(Requests)
      /\ \A i \in DOMAIN Append(cbq[p], r) :
             Append(cbq[p], r)[i] = r \/ \E j \in DOMAIN cbq[p] : Append(cbq[p], r)[i] = cbq[p][j]
  BY <1>3, AppendIn
<1>5. cbq'[p] = Append(cbq[p], r) /\ \A q \in Producers : q # p => cbq'[q] = cbq[q]
  BY <1>1, <1>2
<1>6. ASSUME NEW t \in Timeouts, InQueue(t)'
      PROVE  InQueue(t) \/ t = r
  <2>1. PICK q \in Producers : \E i \in DOMAIN cbq'[q] : cbq'[q][i] = t
    BY <1>6 DEF InQueue
  <2>2. CASE q = p
    BY <2>1, <2>2, <1>4, <1>5 DEF InQueue
  <2>3. CASE q # p
    BY <2>1, <2>3, <1>5 DEF InQueue
  <2> QED
    BY <2>2, <2>3
<1> QED
  BY <1>1, <1>2, <1>4, <1>5, <1>6 DEF Submit

\* A step that takes the first request of producer p.
LEMMA TakeQueue ==
    ASSUME TypeOK, NEW p \in Producers, cbq[p] # <<>>,
           cbq' = [cbq EXCEPT ![p] = Tail(@)]
    PROVE  /\ cbq' \in [Producers -> Seq(Requests)]
           /\ Head(cbq[p]) \in Requests
           /\ \A t \in Timeouts : InQueue(t)' => InQueue(t)
           /\ Head(cbq[p]) \in Timeouts => InQueue(Head(cbq[p]))
           /\ \A q \in Producers : cbq'[q] # <<>> => cbq[q] # <<>>
<1>1. cbq \in [Producers -> Seq(Requests)]
  BY DEF TypeOK
<1>2. cbq' = [cbq EXCEPT ![p] = Tail(cbq[p])]
  OBVIOUS
<1>3. cbq[p] \in Seq(Requests)
  BY <1>1
<1>4. /\ Tail(cbq[p]) \in Seq(Requests)
      /\ Head(cbq[p]) \in Requests
      /\ \E j \in DOMAIN cbq[p] : cbq[p][j] = Head(cbq[p])
      /\ \A i \in DOMAIN Tail(cbq[p]) : \E j \in DOMAIN cbq[p] : Tail(cbq[p])[i] = cbq[p][j]
  BY <1>3, TailIn
<1>5. cbq'[p] = Tail(cbq[p]) /\ \A q \in Producers : q # p => cbq'[q] = cbq[q]
  BY <1>1, <1>2
<1>6. ASSUME NEW t \in Timeouts, InQueue(t)'
      PROVE  InQueue(t)
  <2>1. PICK q \in Producers : \E i \in DOMAIN cbq'[q] : cbq'[q][i] = t
    BY <1>6 DEF InQueue
  <2>2. CASE q = p
    BY <2>1, <2>2, <1>4, <1>5 DEF InQueue
  <2>3. CASE q # p
    BY <2>1, <2>3, <1>5 DEF InQueue
  <2> QED
    BY <2>2, <2>3
<1>7. Head(cbq[p]) \in Timeouts => InQueue(Head(cbq[p]))
  BY <1>4 DEF InQueue
<1>8. \A q \in Producers : cbq'[q] # <<>> => cbq[q] # <<>>
  BY <1>5
<1> QED
  BY <1>1, <1>2, <1>4, <1>6, <1>7, <1>8
-----------------------------------------------------------------------------
(* Type correctness. *)

LEMMA TypeInit == Init => TypeOK
<1> SUFFICES ASSUME Init PROVE TypeOK
  OBVIOUS
<1>1. <<>> \in Seq(Requests)
  OBVIOUS
<1>2. cbq \in [Producers -> Seq(Requests)]
  BY <1>1 DEF Init
<1>3. clock \in Nat \ {0} /\ timerfd \in Nat /\ stale \in Nat
  BY DEF Init, Off
<1>4. /\ upc \in [Users -> {"idle", "wake"}]
      /\ expire \in [Timeouts -> Nat]
      /\ interval \in [Timeouts -> Nat]
      /\ fired \in [Timeouts -> Nat]
  BY DEF Init
<1> QED
  BY <1>2, <1>3, <1>4 DEF Init, TypeOK

\* Every step keeps the types.
LEMMA TypeNext == TypeOK /\ [Next]_vars => TypeOK'
<1> SUFFICES ASSUME TypeOK, [Next]_vars
             PROVE  TypeOK'
  OBVIOUS
<1>1. CASE Tick
  BY <1>1 DEF TypeOK, Tick, timervars, uservars, loopvars
<1>2. ASSUME NEW u \in Users, NEW c \in Callbacks, PleaseDestroyMe(u, c)
      PROVE  TypeOK'
  <2>1. Submit(u, c) /\ u \in Producers /\ c \in Requests
    BY <1>2 DEF PleaseDestroyMe, SubmitAndWake, Producers, Requests
  <2>2. cbq' \in [Producers -> Seq(Requests)] /\ asked' \subseteq Requests
    BY <2>1, SubmitQueue DEF TypeOK
  <2> QED
    BY <1>2, <2>2 DEF TypeOK, PleaseDestroyMe, SubmitAndWake, timervars,
       uservars, loopvars
<1>3. ASSUME NEW u \in Users, NEW t \in Timeouts, PleasePush(u, t)
      PROVE  TypeOK'
  <2>1. Submit(u, t) /\ u \in Producers /\ t \in Requests
    BY <1>3 DEF PleasePush, SubmitAndWake, Producers, Requests
  <2>2. cbq' \in [Producers -> Seq(Requests)] /\ asked' \subseteq Requests
    BY <2>1, SubmitQueue DEF TypeOK
  <2> QED
    BY <1>3, <2>2, ReactorAssumption DEF TypeOK, PleasePush, SubmitAndWake,
       timervars, uservars, loopvars
<1>4. ASSUME NEW u \in Users, Wake(u)
      PROVE  TypeOK'
  BY <1>4 DEF TypeOK, Wake, timervars, uservars, loopvars
<1>5. CASE Stop
  BY <1>5 DEF TypeOK, Stop, timervars, uservars, loopvars
<1>6. CASE EpollWait
  BY <1>6 DEF TypeOK, EpollWait, timervars, uservars, loopvars
<1>7. CASE ConsumeEventfd
  BY <1>7 DEF TypeOK, ConsumeEventfd, Consumed, timervars, uservars, loopvars
<1>8. CASE ConsumePipe
  <2>1. PICK c \in Callbacks : Submit(Loop, c)
    BY <1>8 DEF ConsumePipe
  <2>2. Loop \in Producers /\ c \in Requests
    BY DEF Producers, Requests
  <2>3. cbq' \in [Producers -> Seq(Requests)] /\ asked' \subseteq Requests
    BY <2>1, <2>2, SubmitQueue DEF TypeOK
  <2> QED
    BY <1>8, <2>3 DEF TypeOK, ConsumePipe, Consumed, timervars, uservars,
       loopvars
<1>9. CASE ConsumeOther
  BY <1>9 DEF TypeOK, ConsumeOther, Consumed, timervars, uservars, loopvars
<1>10. CASE ConsumeTimerfd
  BY <1>10 DEF TypeOK, ConsumeTimerfd, Consumed, Off, timervars, uservars,
     loopvars
<1>11. CASE RunExpired
  BY <1>11 DEF TypeOK, RunExpired, timervars, uservars, loopvars
<1>12. CASE ExpiredOver
  BY <1>12 DEF TypeOK, ExpiredOver, timervars, uservars, loopvars
<1>13. CASE ResetTimerfd
  BY <1>13 DEF TypeOK, ResetTimerfd, TimerfdReset, Off, timervars, uservars,
     loopvars
<1>14. CASE BatchDone
  BY <1>14 DEF TypeOK, BatchDone, timervars, uservars, loopvars
<1>15. ASSUME NEW p \in Producers, RunRequest(p)
      PROVE  TypeOK'
  <2>1. /\ cbq' \in [Producers -> Seq(Requests)]
        /\ Head(cbq[p]) \in Requests
    BY <1>15, TakeQueue DEF RunRequest
  <2>2. timerfd' \in Nat /\ lpc' \in {"drain", "dead"}
    BY <1>15, <2>1 DEF TypeOK, RunRequest, Push, TimerfdReset, Off
  <2>3. timeoutq' \subseteq Timeouts /\ ran' \subseteq Callbacks /\ seen' \subseteq Producers
    BY <1>15 DEF TypeOK, RunRequest, Push
  <2> QED
    BY <1>15, <2>1, <2>2, <2>3 DEF TypeOK, RunRequest, timervars, uservars,
       loopvars
<1>16. ASSUME NEW p \in Producers, FindEmpty(p)
      PROVE  TypeOK'
  BY <1>16 DEF TypeOK, FindEmpty, timervars, uservars, loopvars
<1>17. CASE TurnDone
  BY <1>17 DEF TypeOK, TurnDone, timervars, uservars, loopvars
<1>18. CASE EpollInterrupted
  BY <1>18 DEF TypeOK, EpollInterrupted, timervars, uservars, loopvars
<1>19. CASE UNCHANGED vars
  BY <1>19 DEF TypeOK, vars, timervars, uservars, loopvars
<1> QED
  BY <1>1, <1>2, <1>3, <1>4, <1>5, <1>6, <1>7, <1>8, <1>9, <1>10, <1>11,
     <1>12, <1>13, <1>14, <1>15, <1>16, <1>17, <1>18, <1>19
  DEF Next, User, EventLoop

-----------------------------------------------------------------------------
(* The loop and what it has at hand. *)

\* Every step keeps PlaceInv.
LEMMA PlaceNext ==
    TypeOK /\ PlaceInv /\ [Next]_vars => PlaceInv'
<1> SUFFICES ASSUME TypeOK, PlaceInv, [Next]_vars PROVE PlaceInv'
  OBVIOUS
<1>1. CASE Tick
  BY <1>1 DEF PlaceInv, TypeOK, Tick, timervars, uservars, loopvars
<1>2. ASSUME NEW u \in Users, NEW c \in Callbacks, PleaseDestroyMe(u, c)
      PROVE  PlaceInv'
  BY <1>2 DEF PlaceInv, TypeOK, PleaseDestroyMe, SubmitAndWake, timervars,
     uservars, loopvars
<1>3. ASSUME NEW u \in Users, NEW t \in Timeouts, PleasePush(u, t)
      PROVE  PlaceInv'
  BY <1>3 DEF PlaceInv, TypeOK, PleasePush, SubmitAndWake, timervars,
     uservars, loopvars
<1>4. ASSUME NEW u \in Users, Wake(u)
      PROVE  PlaceInv'
  BY <1>4 DEF PlaceInv, TypeOK, Wake, timervars, uservars, loopvars
<1>5. CASE Stop
  BY <1>5 DEF PlaceInv, TypeOK, Stop, timervars, uservars, loopvars
<1>6. CASE EpollWait
  BY <1>6 DEF PlaceInv, TypeOK, EpollWait, timervars, uservars, loopvars
<1>7. CASE ConsumeEventfd
  BY <1>7 DEF PlaceInv, TypeOK, ConsumeEventfd, Consumed, timervars,
     uservars, loopvars
<1>8. CASE ConsumePipe
  BY <1>8 DEF PlaceInv, TypeOK, ConsumePipe, Consumed, Submit, timervars,
     uservars, loopvars
<1>9. CASE ConsumeOther
  BY <1>9 DEF PlaceInv, TypeOK, ConsumeOther, Consumed, timervars, uservars,
     loopvars
<1>10. CASE ConsumeTimerfd
  BY <1>10 DEF PlaceInv, TypeOK, ConsumeTimerfd, Consumed, timervars,
     uservars, loopvars
<1>11. CASE RunExpired
  BY <1>11 DEF PlaceInv, TypeOK, RunExpired, timervars, uservars, loopvars
<1>12. CASE ExpiredOver
  BY <1>12 DEF PlaceInv, TypeOK, ExpiredOver, timervars, uservars, loopvars
<1>13. CASE ResetTimerfd
  BY <1>13 DEF PlaceInv, TypeOK, ResetTimerfd, TimerfdReset, timervars,
     uservars, loopvars
<1>14. CASE BatchDone
  BY <1>14 DEF PlaceInv, TypeOK, BatchDone, timervars, uservars, loopvars
<1>15. ASSUME NEW p \in Producers, RunRequest(p)
      PROVE  PlaceInv'
  BY <1>15 DEF PlaceInv, TypeOK, RunRequest, Push, TimerfdReset, timervars,
     uservars, loopvars
<1>16. ASSUME NEW p \in Producers, FindEmpty(p)
      PROVE  PlaceInv'
  BY <1>16 DEF PlaceInv, TypeOK, FindEmpty, timervars, uservars, loopvars
<1>17. CASE TurnDone
  BY <1>17 DEF PlaceInv, TypeOK, TurnDone, timervars, uservars, loopvars
<1>18. CASE EpollInterrupted
  BY <1>18 DEF PlaceInv, TypeOK, EpollInterrupted, timervars, uservars,
     loopvars
<1>19. CASE UNCHANGED vars
  BY <1>19 DEF PlaceInv, TypeOK, vars, timervars, uservars, loopvars
<1> QED
  BY <1>1, <1>2, <1>3, <1>4, <1>5, <1>6, <1>7, <1>8, <1>9, <1>10, <1>11,
     <1>12, <1>13, <1>14, <1>15, <1>16, <1>17, <1>18, <1>19
  DEF Next, User, EventLoop

\* Every step keeps the reports true: only the loop resets the timerfd, outside
\* its batch or after it has read it.
LEMMA ReportsNext ==
    TypeOK /\ PlaceInv /\ ReportsStayTrue /\ [Next]_vars => ReportsStayTrue'
<1> SUFFICES ASSUME TypeOK, PlaceInv, ReportsStayTrue, [Next]_vars
             PROVE  ReportsStayTrue'
  OBVIOUS
<1>1. CASE Tick
  BY <1>1 DEF ReportsStayTrue, Expired, TypeOK, Tick, timervars, uservars,
     loopvars
<1>2. ASSUME NEW u \in Users, NEW c \in Callbacks, PleaseDestroyMe(u, c)
      PROVE  ReportsStayTrue'
  BY <1>2 DEF ReportsStayTrue, Expired, PleaseDestroyMe, SubmitAndWake,
     timervars, uservars, loopvars
<1>3. ASSUME NEW u \in Users, NEW t \in Timeouts, PleasePush(u, t)
      PROVE  ReportsStayTrue'
  BY <1>3 DEF ReportsStayTrue, Expired, PleasePush, SubmitAndWake,
     timervars, uservars, loopvars
<1>4. ASSUME NEW u \in Users, Wake(u)
      PROVE  ReportsStayTrue'
  BY <1>4 DEF ReportsStayTrue, Expired, Wake, timervars, uservars, loopvars
<1>5. CASE Stop
  BY <1>5 DEF ReportsStayTrue, Expired, Stop, timervars, uservars, loopvars
<1>6. CASE EpollWait
  BY <1>6 DEF ReportsStayTrue, Expired, EventfdEvent, TimerfdEvent,
     PipeEvent, EpollWait, timervars, uservars, loopvars
<1>7. CASE ConsumeEventfd
  BY <1>7 DEF ReportsStayTrue, Expired, EventfdEvent, TimerfdEvent,
     ConsumeEventfd, Consumed, timervars, uservars, loopvars
<1>8. CASE ConsumePipe
  BY <1>8 DEF ReportsStayTrue, Expired, EventfdEvent, TimerfdEvent,
     ConsumePipe, Consumed, Submit, timervars, uservars, loopvars
<1>9. CASE ConsumeOther
  BY <1>9 DEF ReportsStayTrue, Expired, ConsumeOther, Consumed, timervars,
     uservars, loopvars
<1>10. CASE ConsumeTimerfd
  BY <1>10 DEF ReportsStayTrue, Expired, EventfdEvent, TimerfdEvent,
     ConsumeTimerfd, Consumed, timervars, uservars, loopvars
<1>11. CASE RunExpired
  BY <1>11 DEF ReportsStayTrue, Expired, RunExpired, timervars, uservars,
     loopvars
<1>12. CASE ExpiredOver
  BY <1>12 DEF ReportsStayTrue, Expired, ExpiredOver, timervars, uservars,
     loopvars
<1>13. CASE ResetTimerfd
  BY <1>13 DEF ReportsStayTrue, Expired, PlaceInv, ResetTimerfd,
     TimerfdReset, timervars, uservars, loopvars
<1>14. CASE BatchDone
  BY <1>14 DEF ReportsStayTrue, Expired, BatchDone, timervars, uservars,
     loopvars
<1>15. ASSUME NEW p \in Producers, RunRequest(p)
      PROVE  ReportsStayTrue'
  BY <1>15 DEF ReportsStayTrue, Expired, PlaceInv, RunRequest, Push,
     TimerfdReset, timervars, uservars, loopvars
<1>16. ASSUME NEW p \in Producers, FindEmpty(p)
      PROVE  ReportsStayTrue'
  BY <1>16 DEF ReportsStayTrue, Expired, FindEmpty, timervars, uservars,
     loopvars
<1>17. CASE TurnDone
  BY <1>17 DEF ReportsStayTrue, Expired, TurnDone, timervars, uservars,
     loopvars
<1>18. CASE EpollInterrupted
  BY <1>18 DEF ReportsStayTrue, Expired, EpollInterrupted, timervars,
     uservars, loopvars
<1>19. CASE UNCHANGED vars
  BY <1>19 DEF ReportsStayTrue, Expired, vars, timervars, uservars, loopvars
<1> QED
  BY <1>1, <1>2, <1>3, <1>4, <1>5, <1>6, <1>7, <1>8, <1>9, <1>10, <1>11,
     <1>12, <1>13, <1>14, <1>15, <1>16, <1>17, <1>18, <1>19
  DEF Next, User, EventLoop

\* Every step keeps WakeInv.
LEMMA WakeNext ==
    TypeOK /\ PlaceInv /\ WakeInv /\ [Next]_vars => WakeInv'
<1> SUFFICES ASSUME TypeOK, PlaceInv, WakeInv, [Next]_vars PROVE WakeInv'
  OBVIOUS
<1>1. CASE Tick
  BY <1>1 DEF WakeInv, Heard, Tick, timervars, uservars, loopvars
<1>2. ASSUME NEW u \in Users, NEW c \in Callbacks, PleaseDestroyMe(u, c)
      PROVE  WakeInv'
  <2>1. Submit(u, c) /\ u \in Producers /\ c \in Requests
    BY <1>2 DEF PleaseDestroyMe, SubmitAndWake, Producers, Requests
  <2>2. \A q \in Producers : q # u => cbq'[q] = cbq[q]
    BY <2>1, SubmitQueue
  <2>3. upc' = [upc EXCEPT ![u] = "wake"]
    BY <1>2 DEF PleaseDestroyMe, SubmitAndWake
  <2> QED
    BY <1>2, <2>2, <2>3 DEF WakeInv, Heard, TypeOK, PleaseDestroyMe,
       SubmitAndWake, timervars, uservars, loopvars
<1>3. ASSUME NEW u \in Users, NEW t \in Timeouts, PleasePush(u, t)
      PROVE  WakeInv'
  <2>1. Submit(u, t) /\ u \in Producers /\ t \in Requests
    BY <1>3 DEF PleasePush, SubmitAndWake, Producers, Requests
  <2>2. \A q \in Producers : q # u => cbq'[q] = cbq[q]
    BY <2>1, SubmitQueue
  <2>3. upc' = [upc EXCEPT ![u] = "wake"]
    BY <1>3 DEF PleasePush, SubmitAndWake
  <2> QED
    BY <1>3, <2>2, <2>3 DEF WakeInv, Heard, TypeOK, PleasePush, SubmitAndWake,
       timervars, uservars, loopvars
<1>4. ASSUME NEW u \in Users, Wake(u)
      PROVE  WakeInv'
  BY <1>4 DEF WakeInv, Heard, TypeOK, Wake, timervars, uservars, loopvars
<1>5. CASE Stop
  BY <1>5 DEF WakeInv, Heard, Stop, timervars, uservars, loopvars
<1>6. CASE EpollWait
  BY <1>6 DEF WakeInv, Heard, EpollWait, timervars, uservars, loopvars
<1>7. CASE ConsumeEventfd
  BY <1>7 DEF WakeInv, Heard, ConsumeEventfd, Consumed, timervars, uservars,
     loopvars
<1>8. CASE ConsumePipe
  BY <1>8 DEF WakeInv, Heard, ConsumePipe, Consumed, Submit, timervars,
     uservars, loopvars
<1>9. CASE ConsumeOther
  BY <1>9 DEF WakeInv, Heard, ConsumeOther, Consumed, timervars, uservars,
     loopvars
<1>10. CASE ConsumeTimerfd
  BY <1>10 DEF WakeInv, Heard, ConsumeTimerfd, Consumed, timervars,
     uservars, loopvars
<1>11. CASE RunExpired
  BY <1>11 DEF WakeInv, Heard, RunExpired, timervars, uservars, loopvars
<1>12. CASE ExpiredOver
  BY <1>12 DEF WakeInv, Heard, ExpiredOver, timervars, uservars, loopvars
<1>13. CASE ResetTimerfd
  BY <1>13 DEF WakeInv, Heard, ResetTimerfd, TimerfdReset, timervars,
     uservars, loopvars
<1>14. CASE BatchDone
  BY <1>14 DEF WakeInv, Heard, PlaceInv, BatchDone, timervars, uservars,
     loopvars
<1>15. ASSUME NEW p \in Producers, RunRequest(p)
      PROVE  WakeInv'
  <2>1. \A q \in Producers : cbq'[q] # <<>> => cbq[q] # <<>>
    BY <1>15, TakeQueue DEF RunRequest
  <2>2. lpc' \in {"drain", "dead"} /\ seen' = {}
    BY <1>15 DEF RunRequest, Push, TimerfdReset
  <2> QED
    BY <2>1, <2>2 DEF WakeInv, Heard
<1>16. ASSUME NEW p \in Producers, FindEmpty(p)
      PROVE  WakeInv'
  BY <1>16 DEF WakeInv, Heard, FindEmpty, timervars, uservars, loopvars
<1>17. CASE TurnDone
  BY <1>17 DEF WakeInv, Heard, TypeOK, TurnDone, timervars, uservars,
     loopvars
<1>18. CASE EpollInterrupted
  BY <1>18 DEF WakeInv, Heard, PlaceInv, EpollInterrupted, timervars,
     uservars, loopvars
<1>19. CASE UNCHANGED vars
  BY <1>19 DEF WakeInv, Heard, vars, timervars, uservars, loopvars
<1> QED
  BY <1>1, <1>2, <1>3, <1>4, <1>5, <1>6, <1>7, <1>8, <1>9, <1>10, <1>11,
     <1>12, <1>13, <1>14, <1>15, <1>16, <1>17, <1>18, <1>19
  DEF Next, User, EventLoop

-----------------------------------------------------------------------------
(* The timer. *)

\* Only a timeout that was asked for is in a queue, so that a new one is not.
LEMMA AskedNext ==
    TypeOK /\ AskedInv /\ [Next]_vars => AskedInv'
<1> SUFFICES ASSUME TypeOK, AskedInv, [Next]_vars
             PROVE  AskedInv'
  OBVIOUS
<1>1. CASE Tick
  BY <1>1 DEF AskedInv, InQueue, Tick, timervars, uservars, loopvars
<1>2. ASSUME NEW u \in Users, NEW c \in Callbacks, PleaseDestroyMe(u, c)
      PROVE  AskedInv'
  <2>1. Submit(u, c) /\ u \in Producers /\ c \in Requests
    BY <1>2 DEF PleaseDestroyMe, SubmitAndWake, Producers, Requests
  <2>2. /\ \A s \in Timeouts : InQueue(s)' => InQueue(s) \/ s = c
        /\ asked' = asked \cup {c} /\ c \notin asked
    BY <2>1, SubmitQueue
  <2> QED
    BY <1>2, <2>2 DEF AskedInv, PleaseDestroyMe, SubmitAndWake, timervars,
       uservars, loopvars
<1>3. ASSUME NEW u \in Users, NEW t \in Timeouts, PleasePush(u, t)
      PROVE  AskedInv'
  <2>1. Submit(u, t) /\ u \in Producers /\ t \in Requests
    BY <1>3 DEF PleasePush, SubmitAndWake, Producers, Requests
  <2>2. /\ \A s \in Timeouts : InQueue(s)' => InQueue(s) \/ s = t
        /\ asked' = asked \cup {t} /\ t \notin asked
    BY <2>1, SubmitQueue
  <2> QED
    BY <1>3, <2>2 DEF AskedInv, PleasePush, SubmitAndWake, timervars,
       uservars, loopvars
<1>4. ASSUME NEW u \in Users, Wake(u)
      PROVE  AskedInv'
  BY <1>4 DEF AskedInv, InQueue, Wake, timervars, uservars, loopvars
<1>5. CASE Stop
  BY <1>5 DEF AskedInv, InQueue, Stop, timervars, uservars, loopvars
<1>6. CASE EpollWait
  BY <1>6 DEF AskedInv, InQueue, EpollWait, timervars, uservars, loopvars
<1>7. CASE ConsumeEventfd
  BY <1>7 DEF AskedInv, InQueue, ConsumeEventfd, Consumed, timervars,
     uservars, loopvars
<1>8. CASE ConsumePipe
  <2>0. PICK c \in Callbacks : Submit(Loop, c)
    BY <1>8 DEF ConsumePipe
  <2>1. Loop \in Producers /\ c \in Requests
    BY DEF Producers, Requests
  <2>2. /\ \A s \in Timeouts : InQueue(s)' => InQueue(s) \/ s = c
        /\ asked' = asked \cup {c}
    BY <2>0, <2>1, SubmitQueue
  <2> QED
    BY <1>8, <2>2 DEF AskedInv, ConsumePipe, timervars, uservars, loopvars
<1>9. CASE ConsumeOther
  BY <1>9 DEF AskedInv, InQueue, ConsumeOther, Consumed, timervars,
     uservars, loopvars
<1>10. CASE ConsumeTimerfd
  BY <1>10 DEF AskedInv, InQueue, ConsumeTimerfd, Consumed, timervars,
     uservars, loopvars
<1>11. CASE RunExpired
  BY <1>11 DEF AskedInv, InQueue, RunExpired, timervars, uservars, loopvars
<1>12. CASE ExpiredOver
  BY <1>12 DEF AskedInv, InQueue, ExpiredOver, timervars, uservars, loopvars
<1>13. CASE ResetTimerfd
  BY <1>13 DEF AskedInv, InQueue, ResetTimerfd, TimerfdReset, timervars,
     uservars, loopvars
<1>14. CASE BatchDone
  BY <1>14 DEF AskedInv, InQueue, BatchDone, timervars, uservars, loopvars
<1>15. ASSUME NEW p \in Producers, RunRequest(p)
      PROVE  AskedInv'
  <2>1. /\ \A t \in Timeouts : InQueue(t)' => InQueue(t)
        /\ Head(cbq[p]) \in Timeouts => InQueue(Head(cbq[p]))
    BY <1>15, TakeQueue DEF RunRequest
  <2> QED
    BY <1>15, <2>1 DEF AskedInv, RunRequest, Push, uservars
<1>16. ASSUME NEW p \in Producers, FindEmpty(p)
      PROVE  AskedInv'
  BY <1>16 DEF AskedInv, InQueue, FindEmpty, timervars, uservars, loopvars
<1>17. CASE TurnDone
  BY <1>17 DEF AskedInv, InQueue, TurnDone, timervars, uservars, loopvars
<1>18. CASE EpollInterrupted
  BY <1>18 DEF AskedInv, InQueue, EpollInterrupted, timervars, uservars,
     loopvars
<1>19. CASE UNCHANGED vars
  BY <1>19 DEF AskedInv, InQueue, vars, timervars, uservars, loopvars
<1> QED
  BY <1>1, <1>2, <1>3, <1>4, <1>5, <1>6, <1>7, <1>8, <1>9, <1>10, <1>11,
     <1>12, <1>13, <1>14, <1>15, <1>16, <1>17, <1>18, <1>19
  DEF Next, User, EventLoop

\* Every step that does not let the clock overtake the loop keeps the timer in
\* time.
LEMMA InTimeNext ==
    TypeOK /\ PlaceInv /\ ReportsStayTrue /\ TimerInv /\ ~late' /\ [Next]_vars
        => InTime'
<1> SUFFICES ASSUME TypeOK, PlaceInv, ReportsStayTrue, TimerInv, ~late', [Next]_vars
             PROVE  InTime'
  OBVIOUS
<1>1. CASE Tick
  <2>1. \A s \in Timeouts : InQueue(s)' = InQueue(s)
    BY <1>1 DEF InQueue, Tick
  <2>2. InTime /\ ~Overtakes /\ clock' = clock + 1
        /\ UNCHANGED <<lpc, timeoutq, timerfd, expire, stale>>
    BY <1>1 DEF Tick, TimerInv, loopvars, timervars
  <2>3. clock \in Nat /\ timerfd \in Nat /\ expire \in [Timeouts -> Nat]
    BY DEF TypeOK
  <2>4. timerfd = Off \/ timerfd >= clock'
    BY <2>2, <2>3 DEF InTime, Overtakes, Expired
  <2>5. \A t \in Timeouts : InQueue(t)' => expire'[t] > clock'
    BY <2>1, <2>2, <2>3 DEF Overtakes
  <2>6. lpc \notin {"expire", "reset"}
    BY <2>2 DEF Overtakes
  <2> QED
    BY <2>2, <2>4, <2>5, <2>6 DEF InTime
<1>2. ASSUME NEW u \in Users, NEW c \in Callbacks, PleaseDestroyMe(u, c)
      PROVE  InTime'
  <2>1. Submit(u, c) /\ u \in Producers /\ c \in Requests
    BY <1>2 DEF PleaseDestroyMe, SubmitAndWake, Producers, Requests
  <2>2. /\ \A s \in Timeouts : InQueue(s)' => InQueue(s) \/ s = c
        /\ asked' = asked \cup {c} /\ c \notin asked
    BY <2>1, SubmitQueue
  <2>3. c \notin Timeouts
    BY ReactorAssumption
  <2> QED
    BY <1>2, <2>2, <2>3 DEF TimerInv, InTime, PleaseDestroyMe,
       SubmitAndWake, timervars, uservars, loopvars
<1>3. ASSUME NEW u \in Users, NEW t \in Timeouts, PleasePush(u, t)
      PROVE  InTime'
  <2>1. Submit(u, t) /\ u \in Producers /\ t \in Requests
    BY <1>3 DEF PleasePush, SubmitAndWake, Producers, Requests
  <2>2. /\ \A s \in Timeouts : InQueue(s)' => InQueue(s) \/ s = t
        /\ asked' = asked \cup {t} /\ t \notin asked
    BY <2>1, SubmitQueue
  <2>3. PICK d \in Delays : expire' = [expire EXCEPT ![t] = clock + d]
    BY <1>3 DEF PleasePush
  <2>4. expire'[t] > clock /\ \A s \in Timeouts : s # t => expire'[s] = expire[s]
    BY <2>3, ReactorAssumption DEF TypeOK
  <2>5. t \notin timeoutq
    BY <2>2 DEF TimerInv, AskedInv
  <2> QED
    BY <1>3, <2>2, <2>4, <2>5 DEF TimerInv, InTime, TypeOK, PleasePush,
       SubmitAndWake, timervars, uservars, loopvars
<1>4. ASSUME NEW u \in Users, Wake(u)
      PROVE  InTime'
  <2>1. \A s \in Timeouts : InQueue(s)' = InQueue(s)
    BY <1>4 DEF InQueue, Wake, vars
  <2> QED
    BY <1>4, <2>1 DEF TimerInv, InTime, TypeOK, Wake, timervars, uservars,
       loopvars
<1>5. CASE Stop
  <2>1. \A s \in Timeouts : InQueue(s)' = InQueue(s)
    BY <1>5 DEF InQueue, Stop, vars
  <2> QED
    BY <1>5, <2>1 DEF TimerInv, InTime, TypeOK, Stop, timervars, uservars,
       loopvars
<1>6. CASE EpollWait
  <2>1. \A s \in Timeouts : InQueue(s)' = InQueue(s)
    BY <1>6 DEF InQueue, EpollWait, vars
  <2> QED
    BY <1>6, <2>1 DEF TimerInv, InTime, TypeOK, EpollWait, timervars,
       uservars, loopvars
<1>7. CASE ConsumeEventfd
  <2>1. \A s \in Timeouts : InQueue(s)' = InQueue(s)
    BY <1>7 DEF InQueue, ConsumeEventfd, Consumed, vars
  <2> QED
    BY <1>7, <2>1 DEF TimerInv, InTime, TypeOK, ConsumeEventfd, Consumed,
       timervars, uservars, loopvars
<1>8. CASE ConsumePipe
  <2>0. PICK c \in Callbacks : Submit(Loop, c)
    BY <1>8 DEF ConsumePipe
  <2>1. Loop \in Producers /\ c \in Requests /\ c \notin Timeouts
    BY ReactorAssumption DEF Producers, Requests
  <2>2. \A s \in Timeouts : InQueue(s)' => InQueue(s) \/ s = c
    BY <2>0, <2>1, SubmitQueue
  <2> QED
    BY <1>8, <2>1, <2>2 DEF TimerInv, InTime, ConsumePipe, Consumed, Submit,
       timervars, uservars, loopvars
<1>9. CASE ConsumeOther
  <2>1. \A s \in Timeouts : InQueue(s)' = InQueue(s)
    BY <1>9 DEF InQueue, ConsumeOther, Consumed, vars
  <2> QED
    BY <1>9, <2>1 DEF TimerInv, InTime, TypeOK, ConsumeOther, Consumed,
       timervars, uservars, loopvars
<1>10. CASE ConsumeTimerfd
  <2>1. \A s \in Timeouts : InQueue(s)' = InQueue(s)
    BY <1>10 DEF InQueue, ConsumeTimerfd, Consumed, vars
  <2> QED
    BY <1>10, <2>1 DEF TimerInv, InTime, TypeOK, ConsumeTimerfd, Consumed,
       timervars, uservars, loopvars, ReportsStayTrue, Expired, Off
<1>11. CASE RunExpired
  <2>1. \A s \in Timeouts : InQueue(s)' = InQueue(s)
    BY <1>11 DEF InQueue, RunExpired
  <2>2. PICK t \in Timeouts :
            /\ Top(timeoutq, t) /\ expire[t] <= clock
            /\ stale' = expire[t]
            /\ IF interval[t] > 0
               THEN /\ expire' = [expire EXCEPT ![t] = clock + interval[t]]
                    /\ UNCHANGED timeoutq
               ELSE /\ timeoutq' = timeoutq \ {t}
                    /\ UNCHANGED expire
    BY <1>11 DEF RunExpired
  <2>3. InTime /\ lpc = "expire" /\ UNCHANGED <<lpc, clock, timerfd>>
    BY <1>11 DEF RunExpired, TimerInv, loopvars
  <2>4. expire[t] = clock /\ t \in timeoutq
    BY <2>2, <2>3 DEF Top, InTime, TypeOK
  <2>5. \A s \in Timeouts : expire'[s] = expire[s] \/ expire'[s] > clock
    BY <2>2 DEF TypeOK
  <2>6. timeoutq' \subseteq timeoutq /\ timeoutq \subseteq Timeouts
    BY <2>2 DEF TypeOK
  <2>7. expire \in [Timeouts -> Nat] /\ expire' \in [Timeouts -> Int] /\ clock \in Nat
    BY <2>2 DEF TypeOK
  <2> QED
    BY <2>1, <2>2, <2>3, <2>4, <2>5, <2>6, <2>7 DEF InTime
<1>12. CASE ExpiredOver
  <2>1. \A s \in Timeouts : InQueue(s)' = InQueue(s)
    BY <1>12 DEF InQueue, ExpiredOver, vars
  <2> QED
    BY <1>12, <2>1 DEF TimerInv, InTime, TypeOK, ExpiredOver, timervars,
       uservars, loopvars
<1>13. CASE ResetTimerfd
  <2>1. \A s \in Timeouts : InQueue(s)' = InQueue(s)
    BY <1>13 DEF InQueue, ResetTimerfd
  <2>2. InTime /\ lpc = "reset" /\ UNCHANGED <<clock, timeoutq, expire>>
    BY <1>13 DEF ResetTimerfd, TimerInv
  <2>3. CASE timeoutq = {} /\ TimerfdReset(stale, "batch")
    BY <2>1, <2>2, <2>3 DEF InTime, TimerfdReset, TypeOK
  <2>4. CASE \E t \in timeoutq : Top(timeoutq, t) /\ TimerfdReset(expire[t], "batch")
    <3>1. PICK t \in timeoutq : Top(timeoutq, t) /\ TimerfdReset(expire[t], "batch")
      BY <2>4
    <3>2. expire[t] > clock /\ expire[t] \in Nat /\ clock \in Nat \ {0}
      BY <2>2 DEF InTime, TypeOK
    <3>3. timerfd' = expire[t] /\ lpc' = "batch"
      BY <3>1, <3>2 DEF TimerfdReset
    <3> QED
      BY <2>1, <2>2, <3>1, <3>2, <3>3 DEF InTime, Top, Off
  <2> QED
    BY <1>13, <2>3, <2>4 DEF ResetTimerfd
<1>14. CASE BatchDone
  <2>1. \A s \in Timeouts : InQueue(s)' = InQueue(s)
    BY <1>14 DEF InQueue, BatchDone, vars
  <2> QED
    BY <1>14, <2>1 DEF TimerInv, InTime, TypeOK, BatchDone, timervars,
       uservars, loopvars
<1>15. ASSUME NEW p \in Producers, RunRequest(p)
      PROVE  InTime'
  <2> DEFINE r == Head(cbq[p])
  <2>1. /\ \A s \in Timeouts : InQueue(s)' => InQueue(s)
        /\ r \in Timeouts => InQueue(r)
    BY <1>15, TakeQueue DEF RunRequest
  <2>2. InTime /\ lpc = "drain" /\ UNCHANGED <<clock, expire, stale>>
    BY <1>15 DEF RunRequest, TimerInv
  <2>3. CASE r \in Callbacks /\ UNCHANGED <<lpc, timeoutq, timerfd>>
    BY <2>1, <2>2, <2>3 DEF InTime
  <2>4. CASE r \in Timeouts /\ Push(r)
    <3>1. expire[r] > clock /\ expire[r] \in Nat /\ clock \in Nat \ {0}
      BY <2>1, <2>2, <2>4 DEF InTime, TypeOK
    <3>2. timeoutq' = timeoutq \cup {r} /\ timeoutq \subseteq Timeouts
      BY <2>4 DEF Push, TypeOK
    <3>3. CASE Top(timeoutq', r)
      <4>1. timerfd' = expire[r] /\ lpc' = "drain"
        BY <3>1, <3>3, <2>4 DEF Push, TimerfdReset
      <4> QED
        BY <2>1, <2>2, <3>1, <3>2, <3>3, <4>1 DEF InTime, Top, Off
    <3>4. CASE ~Top(timeoutq', r)
      <4>1. UNCHANGED <<lpc, timerfd>>
        BY <3>4, <2>4 DEF Push
      <4>2. PICK s \in timeoutq' : ~(expire[r] <= expire[s])
        BY <3>2, <3>4, <2>4 DEF Top
      <4>3. s \in timeoutq /\ expire[s] \in Nat /\ expire[s] < expire[r]
        BY <3>1, <3>2, <4>2 DEF TypeOK
      <4>4. timerfd # Off /\ timerfd <= expire[s] /\ timerfd \in Nat
        BY <2>2, <4>3 DEF InTime, TypeOK
      <4>5. timerfd <= expire[r]
        BY <3>1, <4>3, <4>4
      <4> QED
        BY <2>1, <2>2, <3>2, <4>1, <4>4, <4>5 DEF InTime
    <3> QED
      BY <3>3, <3>4
  <2> QED
    BY <1>15, <2>3, <2>4 DEF RunRequest
<1>16. ASSUME NEW p \in Producers, FindEmpty(p)
      PROVE  InTime'
  <2>1. \A s \in Timeouts : InQueue(s)' = InQueue(s)
    BY <1>16 DEF InQueue, FindEmpty, vars
  <2> QED
    BY <1>16, <2>1 DEF TimerInv, InTime, TypeOK, FindEmpty, timervars,
       uservars, loopvars
<1>17. CASE TurnDone
  <2>1. \A s \in Timeouts : InQueue(s)' = InQueue(s)
    BY <1>17 DEF InQueue, TurnDone, vars
  <2> QED
    BY <1>17, <2>1 DEF TimerInv, InTime, TypeOK, TurnDone, timervars,
       uservars, loopvars
<1>18. CASE EpollInterrupted
  <2>1. \A s \in Timeouts : InQueue(s)' = InQueue(s)
    BY <1>18 DEF InQueue, EpollInterrupted, vars
  <2> QED
    BY <1>18, <2>1 DEF TimerInv, InTime, TypeOK, EpollInterrupted,
       timervars, uservars, loopvars
<1>19. CASE UNCHANGED vars
  <2>1. \A s \in Timeouts : InQueue(s)' = InQueue(s)
    BY <1>19 DEF InQueue, vars, vars
  <2> QED
    BY <1>19, <2>1 DEF TimerInv, InTime, TypeOK, vars, timervars, uservars,
       loopvars
<1> QED
  BY <1>1, <1>2, <1>3, <1>4, <1>5, <1>6, <1>7, <1>8, <1>9, <1>10, <1>11,
     <1>12, <1>13, <1>14, <1>15, <1>16, <1>17, <1>18, <1>19
  DEF Next, User, EventLoop

-----------------------------------------------------------------------------
(* The theorems. *)

LEMMA LateStays == [Next]_vars /\ ~late' => ~late
BY DEF Next, vars, Tick, User, PleaseDestroyMe, PleasePush, Wake, Stop,
   EventLoop,
       EpollWait, ConsumeEventfd, ConsumePipe, ConsumeOther, ConsumeTimerfd,
       RunExpired, ExpiredOver, ResetTimerfd, BatchDone, RunRequest, FindEmpty,
       TurnDone, EpollInterrupted

LEMMA InvInit == Init => IInv
<1> SUFFICES ASSUME Init PROVE IInv
  OBVIOUS
<1>1. TypeOK
  BY TypeInit
<1>2. PlaceInv /\ ReportsStayTrue /\ WakeInv
  BY DEF Init, PlaceInv, ReportsStayTrue, WakeInv, EventfdEvent, TimerfdEvent
<1>3. \A t \in Timeouts : ~InQueue(t)
  BY DEF Init, InQueue
<1>4. TimerInv
  BY <1>3 DEF Init, TimerInv, AskedInv, InTime
<1> QED
  BY <1>1, <1>2, <1>4 DEF IInv

LEMMA Inductive == Spec => []IInv
<1>1. IInv /\ [Next]_vars => IInv'
  BY TypeNext, PlaceNext, ReportsNext, WakeNext, AskedNext, InTimeNext,
     LateStays
  DEF IInv, TimerInv
<1> QED
  BY InvInit, <1>1, PTL DEF Spec

\* The state of the reactor and its timer keeps its type.
THEOREM TypeCorrect == Spec => []TypeOK
<1>1. IInv => TypeOK
  BY DEF IInv
<1> QED
  BY <1>1, Inductive, PTL

\* submit_and_wake() never leaves a request to a sleeping loop.
THEOREM RequestsAreHeard == Spec => []RequestsWakeTheLoop
<1>1. IInv => RequestsWakeTheLoop
  BY DEF IInv, WakeInv, Heard, RequestsWakeTheLoop
<1> QED
  BY <1>1, Inductive, PTL

\* efd_recv() and timerfd_read() always find what epoll_wait() reported.
THEOREM ReadsSucceed == Spec => []ReportsStayTrue
<1>1. IInv => ReportsStayTrue
  BY DEF IInv
<1> QED
  BY <1>1, Inductive, PTL

\* While the clock does not overtake the loop, the timerfd is set to the
\* earliest timeout and no reset of it fails.
THEOREM TimerIsInTime == Spec => []TimerfdInTimeUnlessLate
<1>1. IInv => TimerfdInTimeUnlessLate
  BY DEF IInv, TimerInv, InTime, TimerfdInTimeUnlessLate, TimerfdInTime
<1> QED
  BY <1>1, Inductive, PTL
=============================================================================
