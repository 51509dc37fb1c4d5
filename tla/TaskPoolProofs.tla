--------------------------- MODULE TaskPoolProofs ---------------------------
(***************************************************************************)
(* Theorems about TaskPool, for any finite set of workers and of callers   *)
(* and any set of jobs.  They hold of both pools of Resolver, which are    *)
(* instances of it.                                                        *)
(***************************************************************************)
EXTENDS TaskPool, FiniteSetTheorems, SequenceTheorems, TLAPS

(* Types. *)

LEMMA AppendSeq ==
    ASSUME NEW S, NEW s \in Seq(S), NEW e \in S
    PROVE  Append(s, e) \in Seq(S) /\ Len(Append(s, e)) = Len(s) + 1
OBVIOUS

LEMMA HeadTailSeq ==
    ASSUME NEW S, NEW s \in Seq(S), s # <<>>
    PROVE  /\ Head(s) \in S /\ Tail(s) \in Seq(S)
           /\ Len(Tail(s)) = Len(s) - 1 /\ Len(s) \in Nat \ {0}
OBVIOUS

LEMMA TypeNext == TypeOK /\ [Next]_poolvars => TypeOK'
<1> SUFFICES ASSUME TypeOK, [Next]_poolvars PROVE TypeOK'
  OBVIOUS
<1> USE DEF WorkerPCs
<1>1. ASSUME NEW c \in Callers, NEW j \in Jobs, Execute(c, j) PROVE TypeOK'
  BY <1>1, AppendSeq DEF TypeOK, Execute
<1>2. ASSUME NEW c \in Callers, NotifyOne(c) PROVE TypeOK'
  <2>1. CASE At("waiting") = {}
    BY <1>2, <2>1 DEF TypeOK, NotifyOne
  <2>2. CASE At("waiting") # {}
    BY <1>2, <2>2 DEF TypeOK, NotifyOne, At
  <2> QED  BY <2>1, <2>2
<1>3. ASSUME NEW w \in Workers, Exit(w) PROVE TypeOK'
  BY <1>3 DEF TypeOK, Exit
<1>4. ASSUME NEW w \in Workers, Take(w) PROVE TypeOK'
  <2>1. Head(tasks) \in Jobs /\ Tail(tasks) \in Seq(Jobs)
    BY <1>4, HeadTailSeq DEF TypeOK, Take
  <2>2. <<Head(tasks)>> \in Seq(Jobs) /\ Len(<<Head(tasks)>>) = 1
    BY <2>1
  <2>3. started' \in Seq(Jobs)
    BY <1>4, <2>1, AppendSeq DEF TypeOK, Take
  <2> QED  BY <1>4, <2>1, <2>2, <2>3 DEF TypeOK, Take
<1>5. ASSUME NEW w \in Workers, Wait(w) PROVE TypeOK'
  BY <1>5 DEF TypeOK, Wait
<1>6. ASSUME NEW w \in Workers, WakeSpuriously(w) PROVE TypeOK'
  BY <1>6 DEF TypeOK, WakeSpuriously
<1>7. ASSUME NEW w \in Workers, Return(w) PROVE TypeOK'
  <2>1. <<>> \in Seq(Jobs) /\ Len(<<>>) = 0
    OBVIOUS
  <2>2. (job \in [Workers -> Seq(Jobs)])'
    BY <1>7, <2>1 DEF TypeOK, Return
  <2>3. (\A v \in Workers : Len(job[v]) = IF wpc[v] = "running" THEN 1 ELSE 0)'
    <3>1. ASSUME NEW v \in Workers
          PROVE  Len(job'[v]) = IF wpc'[v] = "running" THEN 1 ELSE 0
      <4>1. CASE v = w
        <5>1. job'[v] = <<>> /\ wpc'[v] = "ready"
          BY <1>7, <4>1 DEF TypeOK, Return
        <5> QED  BY <5>1, <2>1
      <4>2. CASE v # w
        <5>1. job'[v] = job[v] /\ wpc'[v] = wpc[v]
          BY <1>7, <4>2 DEF TypeOK, Return
        <5> QED  BY <5>1 DEF TypeOK
      <4> QED  BY <4>1, <4>2
    <3> QED  BY <3>1
  <2>4. (wpc \in [Workers -> WorkerPCs])'
    BY <1>7 DEF TypeOK, Return
  <2>5. UNCHANGED <<tasks, shutdown, cpc, started>>
    BY <1>7 DEF Return
  <2> QED  BY <2>2, <2>3, <2>4, <2>5 DEF TypeOK
<1>8. CASE SetShutdown
  BY <1>8 DEF TypeOK, SetShutdown
<1>9. CASE NotifyAll
  BY <1>9 DEF TypeOK, NotifyAll
<1>10. CASE UNCHANGED poolvars
  BY <1>10 DEF TypeOK, poolvars
<1> QED
  BY <1>1, <1>2, <1>3, <1>4, <1>5, <1>6, <1>7, <1>8, <1>9, <1>10
  DEF Next, Worker, Caller

\* The queue, the workers and the callers keep their types, and a worker has a
\* job exactly while it runs one.
THEOREM TypeCorrect == Spec => []TypeOK
<1>1. Init => TypeOK
  BY DEF Init, TypeOK, WorkerPCs
<1> QED  BY <1>1, TypeNext, PTL DEF Spec
-----------------------------------------------------------------------------
(* Nobody sleeps on work. *)

\* What the steps do to a set of threads that are at a place.
LEMMA Joins ==
    ASSUME NEW S, IsFiniteSet(S), NEW x, x \notin S
    PROVE  IsFiniteSet(S \cup {x}) /\ Cardinality(S \cup {x}) = Cardinality(S) + 1
BY FS_AddElement

LEMMA Leaves ==
    ASSUME NEW S, IsFiniteSet(S), NEW x \in S
    PROVE  IsFiniteSet(S \ {x}) /\ Cardinality(S \ {x}) = Cardinality(S) - 1
BY FS_RemoveElement

LEMMA SleepNext ==
    ASSUME IsFiniteSet(Workers), IsFiniteSet(Callers)
    PROVE  TypeOK /\ NoSleepOnWork /\ [Next]_poolvars => NoSleepOnWork'
<1> SUFFICES ASSUME TypeOK, NoSleepOnWork, [Next]_poolvars,
                    shutdown' = "no", At("waiting")' # {}
             PROVE  Len(tasks') <= Cardinality(At("ready")') + Cardinality(Notifying')
  BY DEF NoSleepOnWork
<1> DEFINE R == At("ready")
           N == Notifying
<1>fin. /\ IsFiniteSet(R) /\ IsFiniteSet(N) /\ IsFiniteSet(R') /\ IsFiniteSet(N')
  BY FS_Subset DEF At, Notifying
<1>nat. /\ Cardinality(R) \in Nat /\ Cardinality(N) \in Nat
        /\ Cardinality(R') \in Nat /\ Cardinality(N') \in Nat
        /\ Len(tasks) \in Nat
  BY <1>fin, FS_CardinalityType DEF TypeOK
<1>hyp. shutdown = "no" /\ At("waiting") # {} => Len(tasks) <= Cardinality(R) + Cardinality(N)
  BY DEF NoSleepOnWork
<1>1. ASSUME NEW c \in Callers, NEW j \in Jobs, Execute(c, j)
      PROVE  Len(tasks') <= Cardinality(R') + Cardinality(N')
  <2>1. Len(tasks') = Len(tasks) + 1
    BY <1>1, AppendSeq DEF Execute, TypeOK
  <2>2. N' = N \cup {c} /\ c \notin N
    BY <1>1 DEF Execute, Notifying, TypeOK
  <2>3. Cardinality(N') = Cardinality(N) + 1
    BY <2>2, <1>fin, Joins
  <2>4. R' = R /\ At("waiting")' = At("waiting") /\ shutdown = "no"
    BY <1>1 DEF Execute, At
  <2> QED  BY <2>1, <2>3, <2>4, <1>nat, <1>hyp
<1>2. ASSUME NEW c \in Callers, NotifyOne(c)
      PROVE  Len(tasks') <= Cardinality(R') + Cardinality(N')
  <2>1. N' = N \ {c} /\ c \in N /\ tasks' = tasks /\ shutdown = "no"
    BY <1>2 DEF NotifyOne, Notifying, TypeOK
  <2>2. Cardinality(N') = Cardinality(N) - 1
    BY <2>1, <1>fin, Leaves
  <2>3. CASE At("waiting") = {}
    <3>1. At("waiting")' = {}
      BY <1>2, <2>3 DEF NotifyOne, At
    <3> QED  BY <3>1
  <2>4. CASE At("waiting") # {}
    <3>1. PICK w \in At("waiting") : wpc' = [wpc EXCEPT ![w] = "ready"]
      BY <1>2, <2>4 DEF NotifyOne
    <3>2. R' = R \cup {w} /\ w \notin R
      BY <3>1 DEF At, TypeOK
    <3>3. Cardinality(R') = Cardinality(R) + 1
      BY <3>2, <1>fin, Joins
    <3> QED  BY <2>1, <2>2, <2>4, <3>3, <1>nat, <1>hyp
  <2> QED  BY <2>3, <2>4
<1>3. ASSUME NEW w \in Workers, Exit(w) PROVE FALSE
  BY <1>3 DEF Exit
<1>4. ASSUME NEW w \in Workers, Take(w)
      PROVE  Len(tasks') <= Cardinality(R') + Cardinality(N')
  <2>1. Len(tasks') = Len(tasks) - 1
    BY <1>4, HeadTailSeq DEF Take, TypeOK
  <2>2. R' = R \ {w} /\ w \in R /\ N' = N /\ shutdown = "no"
    BY <1>4 DEF Take, At, Notifying, TypeOK
  <2>3. Cardinality(R') = Cardinality(R) - 1
    BY <2>2, <1>fin, Leaves
  <2>4. At("waiting")' = At("waiting")
    BY <1>4 DEF Take, At, TypeOK
  <2> QED  BY <2>1, <2>2, <2>3, <2>4, <1>nat, <1>hyp
<1>5. ASSUME NEW w \in Workers, Wait(w)
      PROVE  Len(tasks') <= Cardinality(R') + Cardinality(N')
  <2>1. tasks' = <<>>
    BY <1>5 DEF Wait
  <2> QED  BY <2>1, <1>nat
<1>6. ASSUME NEW w \in Workers,
             wpc[w] # "ready", wpc' = [wpc EXCEPT ![w] = "ready"],
             UNCHANGED <<tasks, shutdown, cpc>>,
             At("waiting") # {}
      PROVE  Len(tasks') <= Cardinality(R') + Cardinality(N')
  <2>1. R' = R \cup {w} /\ w \notin R /\ N' = N
    BY <1>6 DEF At, Notifying, TypeOK
  <2>2. Cardinality(R') = Cardinality(R) + 1
    BY <2>1, <1>fin, Joins
  <2> QED  BY <1>6, <2>1, <2>2, <1>nat, <1>hyp
<1>7. ASSUME NEW w \in Workers, WakeSpuriously(w)
      PROVE  Len(tasks') <= Cardinality(R') + Cardinality(N')
  <2>1. At("waiting") # {}
    BY <1>7 DEF WakeSpuriously, At
  <2> QED  BY <2>1, <1>6, <1>7 DEF WakeSpuriously
<1>8. ASSUME NEW w \in Workers, Return(w)
      PROVE  Len(tasks') <= Cardinality(R') + Cardinality(N')
  <2>1. At("waiting")' = At("waiting")
    BY <1>8 DEF Return, At, TypeOK
  <2> QED  BY <2>1, <1>6, <1>8 DEF Return
<1>9. CASE SetShutdown \/ NotifyAll
  BY <1>9 DEF SetShutdown, NotifyAll
<1>10. CASE UNCHANGED poolvars
  BY <1>10, <1>hyp DEF poolvars, At, Notifying
<1> QED
  BY <1>1, <1>2, <1>3, <1>4, <1>5, <1>7, <1>8, <1>9, <1>10
  DEF Next, Worker, Caller

\* notify_one() after the unlock is enough: no worker sleeps on a job that the
\* awake and about to be notified ones will not take.
THEOREM WorkIsSeen ==
    ASSUME IsFiniteSet(Workers), IsFiniteSet(Callers)
    PROVE  Spec => []NoSleepOnWork
<1>1. Init => TypeOK /\ NoSleepOnWork
  BY DEF Init, TypeOK, WorkerPCs, NoSleepOnWork, At
<1>2. TypeOK /\ NoSleepOnWork /\ [Next]_poolvars => TypeOK' /\ NoSleepOnWork'
  BY TypeNext, SleepNext
<1> QED  BY <1>1, <1>2, PTL DEF Spec
-----------------------------------------------------------------------------
(* Who runs which job. *)

\* A job is in the queue once or among those that were started, and two workers
\* do not run the same.
JobsAreApart ==
    /\ \A i, j \in DOMAIN tasks : tasks[i] = tasks[j] => i = j
    /\ \A j \in Jobs : ~(In(tasks, j) /\ In(started, j))
    /\ \A w \in At("running") : In(started, Head(job[w]))
    /\ \A v, w \in At("running") : Head(job[v]) = Head(job[w]) => v = w

LEMMA InAppend ==
    ASSUME NEW S, NEW s \in Seq(S), NEW e \in S, NEW x
    PROVE  In(Append(s, e), x) <=> In(s, x) \/ x = e
<1>1. /\ DOMAIN Append(s, e) = 1..(Len(s) + 1) /\ DOMAIN s = 1..Len(s) /\ Len(s) \in Nat
      /\ \A i \in 1..Len(s) : Append(s, e)[i] = s[i]
      /\ Append(s, e)[Len(s) + 1] = e
  OBVIOUS
<1> QED  BY <1>1 DEF In

LEMMA TailApart ==
    ASSUME NEW S, NEW s \in Seq(S), s # <<>>,
           \A i, j \in DOMAIN s : s[i] = s[j] => i = j
    PROVE  /\ \A i, j \in DOMAIN Tail(s) : Tail(s)[i] = Tail(s)[j] => i = j
           /\ In(s, Head(s)) /\ ~In(Tail(s), Head(s))
           /\ \A x : In(Tail(s), x) => In(s, x)
<1>1. /\ Len(s) \in Nat /\ Len(s) >= 1
      /\ Head(s) = s[1] /\ DOMAIN s = 1..Len(s) /\ DOMAIN Tail(s) = 1..(Len(s) - 1)
      /\ \A i \in 1..(Len(s) - 1) : Tail(s)[i] = s[i + 1]
  OBVIOUS
<1>2. \A i \in 1..(Len(s) - 1) : i + 1 \in 1..Len(s)
  BY <1>1
<1>3. ASSUME NEW i \in 1..(Len(s) - 1), NEW j \in 1..(Len(s) - 1), Tail(s)[i] = Tail(s)[j]
      PROVE  i = j
  <2>1. i + 1 = j + 1
    BY <1>1, <1>2, <1>3
  <2> QED  BY <2>1
<1>4. In(s, Head(s))
  BY <1>1 DEF In
<1>5. ASSUME NEW i \in 1..(Len(s) - 1) PROVE Tail(s)[i] # Head(s)
  <2>1. i + 1 # 1 /\ 1 \in 1..Len(s)
    BY <1>1
  <2> QED  BY <2>1, <1>1, <1>2
<1>6. \A x : In(Tail(s), x) => In(s, x)
  BY <1>1, <1>2 DEF In
<1> QED  BY <1>1, <1>3, <1>4, <1>5, <1>6 DEF In

LEMMA AppendApart ==
    ASSUME NEW S, NEW s \in Seq(S), NEW e \in S, ~In(s, e),
           \A i, j \in DOMAIN s : s[i] = s[j] => i = j
    PROVE  \A i, j \in DOMAIN Append(s, e) : Append(s, e)[i] = Append(s, e)[j] => i = j
<1>1. /\ DOMAIN Append(s, e) = 1..(Len(s) + 1) /\ DOMAIN s = 1..Len(s) /\ Len(s) \in Nat
      /\ \A i \in 1..Len(s) : Append(s, e)[i] = s[i]
      /\ Append(s, e)[Len(s) + 1] = e
  OBVIOUS
<1> QED  BY <1>1 DEF In

LEMMA ApartNext == TypeOK /\ JobsAreApart /\ [Next]_poolvars => JobsAreApart'
<1> SUFFICES ASSUME TypeOK, JobsAreApart, [Next]_poolvars PROVE JobsAreApart'
  OBVIOUS
<1> USE DEF JobsAreApart
<1>t. /\ tasks \in Seq(Jobs) /\ started \in Seq(Jobs)
      /\ wpc \in [Workers -> WorkerPCs] /\ job \in [Workers -> Seq(Jobs)]
  BY DEF TypeOK
<1>i. \A x : (In(tasks, x)' <=> In(tasks', x)) /\ (In(started, x)' <=> In(started', x))
  BY DEF In
\* A step that changes neither the queue nor who is running.
<1>s. ASSUME UNCHANGED <<tasks, started>>, At("running")' \subseteq At("running"),
             \A w \in At("running")' : job'[w] = job[w]
      PROVE  JobsAreApart'
  BY <1>s DEF In
<1>1. ASSUME NEW c \in Callers, NEW j \in Jobs, Execute(c, j) PROVE JobsAreApart'
  <2>1. /\ tasks' = Append(tasks, j) /\ ~In(tasks, j) /\ ~In(started, j)
        /\ UNCHANGED <<started, wpc, job>>
    BY <1>1 DEF Execute, Executed
  <2>2. \A i, k \in DOMAIN Append(tasks, j) : Append(tasks, j)[i] = Append(tasks, j)[k] => i = k
    <3>1. \A i, k \in DOMAIN tasks : tasks[i] = tasks[k] => i = k
      OBVIOUS
    <3> QED  BY <3>1, <2>1, <1>t, AppendApart
  <2>3. \A x : In(Append(tasks, j), x) <=> In(tasks, x) \/ x = j
    BY <1>t, InAppend
  <2>4. \A x : (In(tasks, x)' <=> In(tasks, x) \/ x = j) /\ (In(started, x)' <=> In(started, x))
    BY <2>1, <2>3, <1>i
  <2>5. At("running")' = At("running")
    BY <2>1 DEF At
  <2> QED  BY <2>1, <2>2, <2>4, <2>5, <1>i DEF At
<1>2. ASSUME NEW w \in Workers, Take(w) PROVE JobsAreApart'
  <2> DEFINE h == Head(tasks)
  <2>1. /\ tasks # <<>> /\ tasks' = Tail(tasks) /\ started' = Append(started, h)
        /\ job' = [job EXCEPT ![w] = <<h>>] /\ wpc' = [wpc EXCEPT ![w] = "running"]
        /\ wpc[w] = "ready" /\ h \in Jobs
    BY <1>2, <1>t DEF Take
  <2>2. /\ \A i, j \in DOMAIN tasks' : tasks'[i] = tasks'[j] => i = j
        /\ In(tasks, h) /\ ~In(Tail(tasks), h)
        /\ \A x : In(Tail(tasks), x) => In(tasks, x)
    BY <2>1, <1>t, TailApart
  <2>3. \A x : In(Append(started, h), x) <=> In(started, x) \/ x = h
    BY <2>1, <1>t, InAppend
  <2>4. \A j \in Jobs : ~(In(tasks, j)' /\ In(started, j)')
    BY <2>1, <2>2, <2>3, <1>i
  <2>5. /\ At("running")' = At("running") \cup {w} /\ w \notin At("running")
        /\ Head(job'[w]) = h /\ \A v \in At("running") : job'[v] = job[v]
    BY <2>1, <1>t DEF At
  <2>6. ~In(started, h)
    BY <2>1, <2>2
  <2>7. \A v \in At("running")' : In(started', Head(job'[v]))
    BY <2>1, <2>3, <2>5
  <2>8. \A v, u \in At("running")' : Head(job'[v]) = Head(job'[u]) => v = u
    BY <2>5, <2>6
  <2> QED  BY <2>2, <2>4, <2>7, <2>8, <1>i
<1>3. ASSUME NEW c \in Callers, NotifyOne(c) PROVE JobsAreApart'
  BY <1>3, <1>s, <1>t DEF NotifyOne, At
<1>4. ASSUME NEW w \in Workers, Exit(w) \/ Wait(w) \/ WakeSpuriously(w) PROVE JobsAreApart'
  BY <1>4, <1>s, <1>t DEF Exit, Wait, WakeSpuriously, At
<1>5. ASSUME NEW w \in Workers, Return(w) PROVE JobsAreApart'
  BY <1>5, <1>s, <1>t DEF Return, At
<1>6. CASE SetShutdown \/ NotifyAll
  BY <1>6, <1>s, <1>t DEF SetShutdown, NotifyAll, At
<1>7. CASE UNCHANGED poolvars
  BY <1>7, <1>s DEF poolvars, At
<1> QED
  BY <1>1, <1>2, <1>3, <1>4, <1>5, <1>6, <1>7 DEF Next, Worker, Caller

\* Two workers never run the same job, and a job that runs is not in the queue.
THEOREM JobsStayApart == Spec => []JobsAreApart
<1>1. Init => TypeOK /\ JobsAreApart
  BY DEF Init, TypeOK, WorkerPCs, JobsAreApart, At, In
<1>2. TypeOK /\ JobsAreApart /\ [Next]_poolvars => TypeOK' /\ JobsAreApart'
  BY TypeNext, ApartNext
<1> QED  BY <1>1, <1>2, PTL DEF Spec
-----------------------------------------------------------------------------
(* The pool implements the abstract queue. *)

LEMMA StepRefines == TypeOK /\ [Next]_poolvars => [Fifo!FifoNext]_<<tasks, started>>
<1> SUFFICES ASSUME TypeOK, [Next]_poolvars
             PROVE  Fifo!FifoNext \/ UNCHANGED <<tasks, started>>
  OBVIOUS
<1>1. ASSUME NEW c \in Callers, NEW j \in Jobs, Execute(c, j) PROVE Fifo!FifoNext
  <2>1. Fifo!Add(j)
    BY <1>1 DEF Execute, Executed, In, Fifo!Add
  <2> QED  BY <2>1 DEF Fifo!FifoNext
<1>2. ASSUME NEW w \in Workers, Take(w) PROVE Fifo!FifoNext
  BY <1>2 DEF Take, Fifo!FifoNext, Fifo!Perform
<1>3. CASE UNCHANGED <<tasks, started>>
  BY <1>3
<1>4. ASSUME NEW c \in Callers, NotifyOne(c) PROVE UNCHANGED <<tasks, started>>
  BY <1>4 DEF NotifyOne
<1>5. ASSUME NEW w \in Workers, Exit(w) \/ Wait(w) \/ WakeSpuriously(w) \/ Return(w)
      PROVE  UNCHANGED <<tasks, started>>
  BY <1>5 DEF Exit, Wait, WakeSpuriously, Return
<1>6. CASE SetShutdown \/ NotifyAll
  BY <1>6 DEF SetShutdown, NotifyAll
<1>7. CASE UNCHANGED poolvars
  BY <1>7 DEF poolvars
<1> QED
  BY <1>1, <1>2, <1>3, <1>4, <1>5, <1>6, <1>7 DEF Next, Worker, Caller

\* Jobs are started once each and in the order of the calls of execute(),
\* whichever worker takes them: the pool implements TaskFifo.
THEOREM PoolImplementsFifo == Spec => JobsStartInOrder
<1>1. Init => Fifo!FifoInit
  BY DEF Init, Fifo!FifoInit
<1> QED
  BY <1>1, StepRefines, TypeCorrect, PTL DEF Spec, JobsStartInOrder, Fifo!FifoSpec
=============================================================================
