-------------------------- MODULE ConnectionProofs --------------------------
(***************************************************************************)
(* Theorems about Connection, for any messages and calls, any sizes and    *)
(* any room in the kernel: the types of both ends; that the return of a    *)
(* sendmsg is a barrier; and that the receivers get whole messages in      *)
(* order, up to one that is torn, through the tasks in the list, the       *)
(* positions of the headers in the stream, and what Cut makes of them.     *)
(***************************************************************************)
EXTENDS Connection, Integers, FiniteSetTheorems, SequenceTheorems, TLAPS

\* The types of what the sending end keeps, and its worker at work only on a
\* list that is not empty.
SendTypeOK ==
    /\ writes \in Seq(Msgs)
    /\ wpc \in {"idle", "io", "done"} /\ (wpc # "idle" => writes # <<>>)
    /\ scall \in [Msgs -> {"new", "wait", "signalled", "returned"}]
    /\ size \in [Msgs -> Nat]
    /\ written \in [Msgs -> Nat]

LEMMA AppendType ==
    ASSUME NEW S, NEW s \in Seq(S), NEW e \in S
    PROVE  Append(s, e) \in Seq(S) /\ Append(s, e) # <<>>
BY AppendProperties

LEMMA SendTypeNext == SendTypeOK /\ [Next]_vars => SendTypeOK'
<1> SUFFICES ASSUME SendTypeOK, [Next]_vars PROVE SendTypeOK'
  OBVIOUS
<1> USE ConnectionAssumption DEF SendTypeOK
<1>1. ASSUME NEW m \in Msgs, Send(m) PROVE SendTypeOK'
  <2>1. /\ scall' \in [Msgs -> {"new", "wait", "signalled", "returned"}]
        /\ size' \in [Msgs -> Nat]
    BY <1>1 DEF Send
  <2>2. Append(writes, m) \in Seq(Msgs) /\ Append(writes, m) # <<>>
    BY AppendType
  <2>3. writes' \in {writes, Append(writes, m)}
    BY <1>1 DEF Send
  <2> QED  BY <1>1, <2>1, <2>2, <2>3 DEF Send
<1>2. ASSUME NEW m \in Msgs, SendReturns(m) PROVE SendTypeOK'
  BY <1>2 DEF SendReturns
<1>3. CASE WriterStarts
  BY <1>3 DEF WriterStarts
<1>4. CASE Writev
  <2>1. Head(writes) \in Msgs /\ writes' = writes /\ wpc' = "done" /\ size' = size /\ writes # <<>>
    BY <1>4 DEF Writev
  <2>2. PICK n \in WritevMoves(size[Head(writes)] + 1) :
            /\ written' = [written EXCEPT ![Head(writes)] = n]
            /\ scall' = Signalled(Head(writes))
    BY <1>4 DEF Writev
  <2>3. n \in Nat
    BY <2>1 DEF WritevMoves
  <2> QED  BY <2>1, <2>2, <2>3 DEF Signalled
<1>5. CASE WriteDone
  <2>1. writes' \in Seq(Msgs)
    BY <1>5 DEF WriteDone
  <2> QED  BY <1>5, <2>1 DEF WriteDone
<1>6. CASE UNCHANGED sendvars
  BY <1>6 DEF sendvars
<1>7. ASSUME NEW c \in Recvs, Recv(c) \/ RecvReturns(c) PROVE UNCHANGED sendvars
  BY <1>7 DEF Recv, RecvReturns
<1>8. CASE Reader
  BY <1>6, <1>8 DEF Reader, ReaderStarts, ReadHdr, ReadBody, ReadBulk, ReadDone
<1>9. ASSUME NEW e \in Ends, Close(e) \/ DeleteEvent(e) PROVE UNCHANGED sendvars
  BY <1>9 DEF Close, DeleteEvent
<1>10. CASE UNCHANGED vars
  BY <1>6, <1>10 DEF vars
<1> QED
  BY <1>1, <1>2, <1>3, <1>4, <1>5, <1>6, <1>7, <1>8, <1>9, <1>10 DEF Next, Writer
-----------------------------------------------------------------------------
(* The tasks of the receiving end.                                         *)

\* A call has one task in the list, or its header task at the front and the body
\* task that it has added; of a call that failed, only what is about to be popped.
ReadsInv ==
    /\ rpc = "io" => reads # <<>>
    /\ \A i \in DOMAIN reads : rcall[reads[i].call] # "new"
    /\ \A c \in failed : rcall[c] # "new"
    /\ \A i \in DOMAIN reads : reads[i].call \in failed => i = 1 /\ rpc = "done"
    /\ \A i, j \in DOMAIN reads :
           i # j /\ reads[i].call = reads[j].call =>
               rpc = "done" /\ 1 \in {i, j} /\ reads[i].call \notin failed
-----------------------------------------------------------------------------
(* The messages on their way.                                              *)

\* The calls of add_write are one for each message, and the list has the last.
OfferedInv ==
    /\ Len(writes) <= Len(offered)
    /\ \A i \in DOMAIN writes : writes[i] = offered[Len(offered) - Len(writes) + i]
    /\ \A i \in DOMAIN offered : scall[offered[i]] # "new"
    /\ \A i, j \in DOMAIN offered : offered[i] = offered[j] => i = j

\* How many messages were written, whole or in part; and that they were.
Written == (Len(offered) - Len(writes)) + (IF wpc = "done" THEN 1 ELSE 0)
WrittenInv == \A q \in 1..Written : written[offered[q]] \in 1..(size[offered[q]] + 1)

\* From position p on, the stream is what was written of the messages after the
\* q-th.
Follows(p, q) ==
    /\ p \in 1..(Len(stream) + 1) /\ q \in 0..Written
    /\ p = Len(stream) + 1 <=> q = Written
    /\ p <= Len(stream) => stream[p] = <<offered[q + 1], 0>>

\* What was written of the q-th message is in the stream, its unit i at position
\* p + i, from unit k on.
MessageAt(p, q, k) ==
    /\ \A i \in k..(written[offered[q]] - 1) :
           p + i <= Len(stream) /\ stream[p + i] = <<offered[q], i>>
    /\ Follows(p + written[offered[q]], q)

StreamInv ==
    \A p \in 1..Len(stream) : IsHeader(stream[p]) =>
        \E q \in 1..Written : stream[p][1] = offered[q] /\ MessageAt(p, q, 0)

\* The messages msgs are those among the first q that are not empty.
Selected(msgs, q) ==
    /\ Len(msgs) = Cardinality(NonEmpty(q))
    /\ \A i \in DOMAIN msgs : \E k \in NonEmpty(q) :
           msgs[i] = offered[k] /\ Cardinality(NonEmpty(k)) = i

\* The messages msgs begin with those among the first q that are not empty.
Begins(msgs, q) ==
    /\ Len(msgs) >= Cardinality(NonEmpty(q))
    /\ \A i \in 1..Cardinality(NonEmpty(q)) : \E k \in NonEmpty(q) :
           msgs[i] = offered[k] /\ Cardinality(NonEmpty(k)) = i

\* The receivers are between messages, or have the header of a whole one and its
\* task; or had it when their end was closed; or a message is torn, and what was
\* sent before it has arrived.
Starts(t) == rcall[t.call] = "wait" /\ t \in {HdrTask(t.call), BulkTask(t.call)}
Ready ==
    \/ reads = <<>> /\ rpc = "idle"
    \/ reads # <<>> /\ Len(reads) = 1 /\ Starts(reads[1]) /\ rpc \in {"idle", "io"}
    \/ /\ reads # <<>> /\ rpc = "done"
       /\ reads[1].kind # "hdr" /\ rcall[reads[1].call] # "wait"
       /\ Len(reads) = 1 \/ (Len(reads) = 2 /\ Starts(reads[2]))
BodyNext(c, s) ==
    /\ rcall[c] = "wait"
    /\ \/ rpc = "done" /\ reads = <<HdrTask(c), BodyTask(c, s)>>
       \/ rpc = "io" /\ reads = <<BodyTask(c, s)>>

BetweenMessages == \E q \in 0..Written : Follows(1, q) /\ Selected(delivered, q)
InMessage(q) == ~Torn(offered[q]) /\ MessageAt(0, q, 1) /\ Selected(delivered, q - 1)
Between == Ready /\ BetweenMessages
Within  == \E q \in 1..Written, c \in Recvs : InMessage(q) /\ BodyNext(c, size[offered[q]])
Stopped ==
    /\ "receiver" \in closed /\ \E q \in 0..Written : Selected(delivered, q)
    /\ \/ reads = <<>> /\ rpc = "idle"
       \/ reads # <<>> /\ Len(reads) = 1 /\ rpc = "done"
Lost == \E q \in 1..Written : Torn(offered[q]) /\ Begins(delivered, q - 1)

DeliveryInv == ~astray => failed = {} /\ (Between \/ Within \/ Stopped \/ Lost)

WholeInv == TypeOK /\ ReadsInv /\ OfferedInv /\ WrittenInv /\ StreamInv /\ DeliveryInv
-----------------------------------------------------------------------------
(* Cut() is defined by recursion: that there is a function with its        *)
(* equation, and what holds of such a function, is shown from the least    *)
(* number for which it would fail.                                         *)

LEMMA LeastElement ==
    ASSUME NEW T, T \subseteq Nat, T # {}
    PROVE  \E x \in T : \A y \in T : x <= y
<1> DEFINE B == {0..x : x \in T}
<1>1. B \subseteq FiniteSubsetsOf(Nat)
  <2>1. ASSUME NEW x \in T PROVE IsFiniteSet(0..x) /\ 0..x \subseteq Nat
    BY FS_Interval
  <2> QED  BY <2>1 DEF FiniteSubsetsOf
<1>2. PICK b \in B : \A y \in B : <<y, b>> \notin StrictSubsetOrdering(Nat)
  <2>1. B # {}
    OBVIOUS
  <2> HIDE DEF B
  <2> QED  BY <1>1, <2>1, FS_StrictSubsetOrderingWellFounded, WFMin
<1>3. PICK x \in T : b = 0..x
  OBVIOUS
<1>4. ASSUME NEW y \in T, y < x PROVE FALSE
  <2>1. /\ 0..y \in B /\ 0..y \subseteq 0..x /\ 0..y # 0..x
        /\ 0..y \subseteq Nat /\ 0..x \subseteq Nat
    BY <1>4
  <2>2. <<0..y, 0..x>> \in StrictSubsetOrdering(Nat)
    BY <2>1 DEF StrictSubsetOrdering
  <2> QED  BY <2>1, <2>2, <1>2, <1>3
<1> QED  BY <1>4

LEMMA InductOnNat ==
    ASSUME NEW T, T \subseteq Nat, 0 \in T, \A k \in T : k + 1 \in T
    PROVE  T = Nat
<1>1. SUFFICES ASSUME Nat \ T # {} PROVE FALSE
  OBVIOUS
<1>2. PICK k \in Nat \ T : \A j \in Nat \ T : k <= j
  BY <1>1, LeastElement
<1>3. k - 1 \in Nat /\ k - 1 \in T
  BY <1>2
<1>4. (k - 1) + 1 \in T
  BY <1>3
<1> QED  BY <1>2, <1>4

Positions == Nat \ {0}
CutStep(units, g, f, p) ==
    IF p > Len(units) THEN [chunks |-> <<>>, bad |-> FALSE]
    ELSE IF SizeAt(units, g, p) > MaxSize THEN [chunks |-> <<>>, bad |-> TRUE]
    ELSE IF p = Len(units) THEN [chunks |-> <<>>, bad |-> FALSE]
    ELSE Chunk(units, p, SizeAt(units, g, p), f[p + 1 + SizeAt(units, g, p)])
IsCut(units, g, f) == f = [p \in Positions |-> CutStep(units, g, f, p)]

LEMMA CutIsCut ==
    ASSUME NEW units, NEW g
    PROVE  \E f : Cut(units, g) = f[1] /\ ((\E h : IsCut(units, g, h)) => IsCut(units, g, f))
<1> DEFINE f == CHOOSE f : IsCut(units, g, f)
<1>1. Cut(units, g) = f[1]
  BY DEF Cut, IsCut, CutStep, Positions
<1>2. (\E h : IsCut(units, g, h)) => IsCut(units, g, f)
  OBVIOUS
<1> QED  BY <1>1, <1>2

LEMMA SizeAtType ==
    ASSUME NEW units \in Seq(Units), NEW g \in Nat, size \in [Msgs -> Nat], NEW p \in 1..Len(units)
    PROVE  SizeAt(units, g, p) \in Nat
<1>1. units[p] \in Units
  OBVIOUS
<1> QED  BY <1>1 DEF Units, SizeAt

\* The value at a position depends on those at the positions behind it.
LEMMA CutStepLocal ==
    ASSUME NEW units \in Seq(Units), NEW g \in Nat, size \in [Msgs -> Nat], NEW p \in Positions,
           NEW f, NEW h, \A r \in Positions : r > p => f[r] = h[r]
    PROVE  CutStep(units, g, f, p) = CutStep(units, g, h, p)
<1>1. CASE p < Len(units)
  <2>1. SizeAt(units, g, p) \in Nat
    BY <1>1, SizeAtType DEF Positions
  <2>2. p + 1 + SizeAt(units, g, p) \in Positions /\ p + 1 + SizeAt(units, g, p) > p
    BY <2>1 DEF Positions
  <2>3. f[p + 1 + SizeAt(units, g, p)] = h[p + 1 + SizeAt(units, g, p)]
    BY <2>2
  <2> QED  BY <2>3 DEF CutStep
<1>2. CASE ~(p < Len(units))
  BY <1>2 DEF CutStep, Positions
<1> QED  BY <1>1, <1>2

LEMMA CutExists ==
    ASSUME NEW units \in Seq(Units), NEW g \in Nat, size \in [Msgs -> Nat]
    PROVE  \E f : IsCut(units, g, f)
<1> DEFINE n == Len(units)
           Step(f, p) == CutStep(units, g, f, p)
           Approx(f, k) == /\ f = [p \in Positions |-> f[p]]
                           /\ \A p \in Positions : p + k > n => f[p] = Step(f, p)
           T == {k \in Nat : \E f : Approx(f, k)}
<1>n. n \in Nat
  OBVIOUS
<1> HIDE DEF n
<1>1. \E f : Approx(f, 0)
  <2> DEFINE f == [p \in Positions |-> [chunks |-> <<>>, bad |-> FALSE]]
  <2>1. \A p \in Positions : p > n => f[p] = Step(f, p)
    BY <1>n DEF CutStep, n, Positions
  <2>2. f = [p \in Positions |-> f[p]]
    OBVIOUS
  <2> HIDE DEF f
  <2>3. Approx(f, 0)
    BY <2>1, <2>2 DEF Positions
  <2> QED  BY <2>3
<1>2. ASSUME NEW k \in Nat, NEW f, Approx(f, k) PROVE \E h : Approx(h, k + 1)
  <2> DEFINE h == [p \in Positions |-> IF p + k = n THEN Step(f, p) ELSE f[p]]
  <2>1. ASSUME NEW p \in Positions, p + (k + 1) > n PROVE h[p] = Step(h, p)
    <3>1. h[p] = Step(f, p)
      <4>1. p + k = n \/ p + k > n
        BY <2>1, <1>n DEF Positions
      <4> HIDE DEF Step
      <4> QED  BY <4>1, <1>2
    <3>2. \A r \in Positions : r > p => f[r] = h[r]
      BY <2>1, <1>n DEF Positions
    <3> HIDE DEF h
    <3> QED  BY <3>1, <3>2, CutStepLocal
  <2>2. h = [p \in Positions |-> h[p]]
    OBVIOUS
  <2> QED  BY <2>1, <2>2
<1> HIDE DEF Approx
<1>3. T = Nat
  <2>1. T \subseteq Nat /\ 0 \in T /\ \A k \in T : k + 1 \in T
    BY <1>1, <1>2
  <2> HIDE DEF T
  <2> QED  BY <2>1, InductOnNat
<1>4. PICK f : Approx(f, n)
  BY <1>3, <1>n
<1>5. \A p \in Positions : f[p] = Step(f, p)
  BY <1>4, <1>n DEF Approx, Positions
<1> QED  BY <1>4, <1>5 DEF Approx, IsCut

Received   == Msgs \cup {Broken}
CutResults == [chunks : Seq(Received), bad : BOOLEAN]

LEMMA MessageInType ==
    ASSUME NEW units \in Seq(Units), NEW s
    PROVE  MessageIn(units, s) \in Received
<1>1. units # <<>> => units[1] \in Units
  OBVIOUS
<1> QED  BY <1>1 DEF MessageIn, Received, Units

LEMMA ChunkType ==
    ASSUME NEW units \in Seq(Units), NEW p \in 1..Len(units), NEW s \in Nat, NEW rest \in CutResults
    PROVE  Chunk(units, p, s, rest) \in CutResults
<1> DEFINE last == IF p + s > Len(units) THEN Len(units) ELSE p + s
           this == IF s = 0 THEN <<>> ELSE <<MessageIn(SubSeq(units, p + 1, last), s)>>
<1>1. Chunk(units, p, s, rest) = [rest EXCEPT !.chunks = this \o rest.chunks]
  BY DEF Chunk
<1>2. SubSeq(units, p + 1, last) \in Seq(Units)
  <2>1. last \in Int /\ last <= Len(units) /\ p + 1 \in Int
    OBVIOUS
  <2>2. \A i \in (p + 1)..last : units[i] \in Units
    BY <2>1
  <2> HIDE DEF last
  <2> QED  BY <2>1, <2>2, SubSeqProperties
<1>3. this \in Seq(Received)
  <2>1. MessageIn(SubSeq(units, p + 1, last), s) \in Received
    BY <1>2, MessageInType
  <2> QED  BY <2>1
<1> HIDE DEF this
<1>4. this \o rest.chunks \in Seq(Received)
  BY <1>3 DEF CutResults
<1> QED  BY <1>1, <1>4 DEF CutResults

LEMMA CutValues ==
    ASSUME NEW units \in Seq(Units), NEW g \in Nat, size \in [Msgs -> Nat],
           NEW f, IsCut(units, g, f)
    PROVE  \A p \in Positions : f[p] \in CutResults
<1> DEFINE n == Len(units)
           T == {k \in Nat : \A p \in Positions : p + k > n => f[p] \in CutResults}
<1>n. n \in Nat
  OBVIOUS
<1>f. \A p \in Positions : f[p] = CutStep(units, g, f, p)
  BY DEF IsCut
<1>e. \A b \in BOOLEAN : [chunks |-> <<>>, bad |-> b] \in CutResults
  BY DEF CutResults
<1>2. 0 \in T
  <2> SUFFICES ASSUME NEW p \in Positions, p > n PROVE f[p] \in CutResults
    BY DEF Positions
  <2>1. f[p] = [chunks |-> <<>>, bad |-> FALSE]
    BY <1>f DEF CutStep
  <2> QED  BY <2>1, <1>e
<1>3. ASSUME NEW k \in T PROVE k + 1 \in T
  <2> SUFFICES ASSUME NEW p \in Positions, p + (k + 1) > n PROVE f[p] \in CutResults
    OBVIOUS
  <2> HIDE DEF n
  <2>1. CASE p < n
    <3>1. p \in 1..n /\ SizeAt(units, g, p) \in Nat
      BY <2>1, <1>n, SizeAtType DEF Positions, n
    <3>2. f[p + 1 + SizeAt(units, g, p)] \in CutResults
      <4>1. /\ p + 1 + SizeAt(units, g, p) \in Positions
            /\ p + 1 + SizeAt(units, g, p) + k > n
        BY <3>1, <1>n DEF Positions
      <4> QED  BY <4>1, <1>3
    <3>3. Chunk(units, p, SizeAt(units, g, p), f[p + 1 + SizeAt(units, g, p)]) \in CutResults
      BY <3>1, <3>2, ChunkType DEF n
    <3> QED  BY <3>1, <3>3, <1>e, <1>f, <2>1 DEF CutStep, n
  <2>2. CASE ~(p < n)
    <3>1. \/ f[p] = [chunks |-> <<>>, bad |-> FALSE]
          \/ f[p] = [chunks |-> <<>>, bad |-> TRUE]
      <4>1. p > n \/ p = n
        BY <2>2, <1>n DEF Positions
      <4> QED  BY <4>1, <1>f DEF CutStep, n
    <3> QED  BY <3>1, <1>e
  <2> QED  BY <2>1, <2>2
<1>4. n \in T
  <2>1. T = Nat
    <3> HIDE DEF T
    <3>1. T \subseteq Nat
      BY DEF T
    <3> QED  BY <3>1, <1>2, <1>3, InductOnNat
  <2> QED  BY <2>1, <1>n
<1> QED  BY <1>4, <1>n DEF Positions

LEMMA CutType ==
    ASSUME NEW units \in Seq(Units), NEW g \in Nat, size \in [Msgs -> Nat]
    PROVE  Cut(units, g) \in CutResults
<1>1. PICK f : Cut(units, g) = f[1] /\ IsCut(units, g, f)
  BY CutIsCut, CutExists
<1> QED  BY <1>1, CutValues DEF Positions
-----------------------------------------------------------------------------
(* Types.                                                                  *)

LEMMA TypeFacts ==
    ASSUME TypeOK
    PROVE  /\ SendTypeOK /\ size \in [Msgs -> Nat]
           /\ \A t \in ReadTasks : t.call \in Recvs /\ t.len \in Nat
           /\ Len(reads) \in Nat /\ DOMAIN reads = 1..Len(reads)
           /\ \A i \in DOMAIN reads : reads[i] \in ReadTasks
           /\ reads # <<>> => 1 \in DOMAIN reads /\ Head(reads) = reads[1]
           /\ Len(stream) \in Nat /\ DOMAIN stream = 1..Len(stream)
           /\ \A i \in 1..Len(stream) : stream[i] \in Units
<1>1. size \in [Msgs -> Nat]
  <2>1. Sizes \cup {0} \subseteq Nat /\ size \in [Msgs -> Sizes \cup {0}]
    BY ConnectionAssumption DEF TypeOK
  <2> QED  BY <2>1
<1>2. SendTypeOK
  BY <1>1 DEF TypeOK, SendTypeOK
<1>3. \A t \in ReadTasks : t.call \in Recvs /\ t.len \in Nat
  BY DEF ReadTasks
<1> QED  BY <1>1, <1>2, <1>3 DEF TypeOK

LEMMA UnitsOfType ==
    ASSUME size \in [Msgs -> Nat], NEW m \in Msgs, NEW n \in 1..(size[m] + 1)
    PROVE  /\ SubSeq(UnitsOf(m), 1, n) \in Seq(Units)
           /\ Len(SubSeq(UnitsOf(m), 1, n)) = n
           /\ \A i \in 1..n : SubSeq(UnitsOf(m), 1, n)[i] = <<m, i - 1>>
<1>1. UnitsOf(m) \in Seq(Units) /\ Len(UnitsOf(m)) = size[m] + 1
  <2>1. \A i \in 1..(size[m] + 1) : <<m, i - 1>> \in Units
    BY DEF Units
  <2>2. UnitsOf(m) \in [1..(size[m] + 1) -> Units]
    BY <2>1 DEF UnitsOf
  <2>3. size[m] + 1 \in Nat
    OBVIOUS
  <2> HIDE DEF UnitsOf
  <2>4. UnitsOf(m) \in Seq(Units)
    BY <2>2, <2>3, SeqDef
  <2> QED  BY <2>2, <2>3, <2>4, LenProperties
<1>2. \A i \in 1..(size[m] + 1) : UnitsOf(m)[i] = <<m, i - 1>>
  BY DEF UnitsOf
<1>3. \A i \in 1..n : UnitsOf(m)[i] \in Units
  BY <1>1
<1> QED  BY <1>1, <1>2, <1>3, SubSeqProperties

\* What a readv of n units for the front task takes and leaves.
LEMMA ReadvEffect ==
    ASSUME TypeOK, ReadsInv, NEW kind, NEW n, Readv(kind, n)
    PROVE  /\ reads # <<>> /\ reads[1] = Head(reads) /\ reads[1] \in ReadTasks
           /\ reads[1].kind = kind /\ rpc = "io" /\ rpc' = "done"
           /\ n \in 1..Len(stream) /\ n <= reads[1].len
           /\ stream' \in Seq(Units) /\ Len(stream') = Len(stream) - n
           /\ \A i \in 1..(Len(stream) - n) : stream'[i] = stream[n + i]
           /\ SubSeq(stream, 1, n) \in Seq(Units) /\ Len(SubSeq(stream, 1, n)) = n
           /\ \A i \in 1..n : SubSeq(stream, 1, n)[i] = stream[i]
<1>1. /\ rpc = "io" /\ rpc' = "done" /\ Head(reads).kind = kind
      /\ n \in 1..Head(reads).len /\ n <= Len(stream)
      /\ stream' = SubSeq(stream, n + 1, Len(stream))
  BY DEF Readv, ReadvMoves
<1>2. reads # <<>>
  BY <1>1 DEF ReadsInv
<1>3. Head(reads) = reads[1] /\ reads[1] \in ReadTasks /\ n \in 1..Len(stream)
  BY <1>1, <1>2, TypeFacts DEF TypeOK
<1>4. /\ \A i \in (n + 1)..Len(stream) : stream[i] \in Units
      /\ \A i \in 1..n : stream[i] \in Units
      /\ Len(stream) \in Nat /\ n \in Nat /\ n + 1 \in Int
  BY <1>3, TypeFacts
<1>5. /\ stream' \in Seq(Units) /\ Len(stream') = Len(stream) - n
      /\ \A i \in 1..(Len(stream) - n) : stream'[i] = stream[n + i]
  BY <1>1, <1>3, <1>4, SMTT(30) DEF TypeOK
<1>6. /\ SubSeq(stream, 1, n) \in Seq(Units) /\ Len(SubSeq(stream, 1, n)) = n
      /\ \A i \in 1..n : SubSeq(stream, 1, n)[i] = stream[i]
  BY <1>3, <1>4 DEF TypeOK
<1> QED  BY <1>1, <1>2, <1>3, <1>5, <1>6
\* What the callbacks of the tasks do.
LEMMA HdrEffect ==
    ASSUME TypeOK, ReadsInv, ReadHdr
    PROVE  /\ Readv("hdr", 1) /\ reads # <<>> /\ reads[1].call \in Recvs
           /\ UNCHANGED <<sendvars, delivered, endvars, crashed>>
           /\ \E s \in SizesIn(stream[1]) :
                  /\ s \in Nat
                  /\ \/ s > MaxSize /\ Reject(reads[1].call) /\ UNCHANGED reads
                     \/ /\ ~(s > MaxSize)
                        /\ \/ "receiver" \in closed /\ UNCHANGED reads
                           \/ /\ "receiver" \notin closed
                              /\ reads' = Append(reads, BodyTask(reads[1].call, s))
                        /\ UNCHANGED <<rcall, failed, astray>>
<1>1. Readv("hdr", 1) /\ UNCHANGED <<sendvars, delivered, endvars, crashed>>
  BY DEF ReadHdr
<1>2. /\ reads # <<>> /\ reads[1] = Head(reads) /\ reads[1].call \in Recvs
      /\ stream[1] \in Units
  BY <1>1, ReadvEffect, TypeFacts
<1>3. SizesIn(stream[1]) \subseteq Nat
  BY <1>2, TypeFacts, ConnectionAssumption DEF SizesIn, Units
<1>4. PICK s \in SizesIn(stream[1]) :
          IF s > MaxSize
          THEN Reject(Head(reads).call) /\ UNCHANGED reads
          ELSE /\ reads' = IF "receiver" \in closed THEN reads
                           ELSE Append(reads, BodyTask(Head(reads).call, s))
               /\ UNCHANGED <<rcall, failed, astray>>
  BY DEF ReadHdr
<1> QED  BY <1>1, <1>2, <1>3, <1>4

LEMMA BodyEffect ==
    ASSUME TypeOK, ReadsInv, ReadBody
    PROVE  \E n \in 1..Len(stream) :
               /\ Readv("body", n) /\ reads # <<>> /\ reads[1].call \in Recvs
               /\ delivered' = Append(delivered, MessageIn(SubSeq(stream, 1, n), reads[1].len))
               /\ MessageIn(SubSeq(stream, 1, n), reads[1].len) \in Received
               /\ Signal(reads[1].call) /\ astray' = (astray \/ CutsBody(n))
               /\ UNCHANGED <<sendvars, reads, failed, endvars, crashed>>
<1>1. PICK n \in 1..Len(stream) :
          /\ Readv("body", n)
          /\ delivered' = Append(delivered, MessageIn(SubSeq(stream, 1, n), Head(reads).len))
          /\ Signal(Head(reads).call) /\ astray' = (astray \/ CutsBody(n))
          /\ UNCHANGED <<sendvars, reads, failed, endvars, crashed>>
  BY DEF ReadBody
<1>2. /\ reads # <<>> /\ reads[1] = Head(reads) /\ reads[1].call \in Recvs
      /\ SubSeq(stream, 1, n) \in Seq(Units)
  BY <1>1, ReadvEffect, TypeFacts
<1>3. MessageIn(SubSeq(stream, 1, n), reads[1].len) \in Received
  BY <1>2, MessageInType
<1> QED  BY <1>1, <1>2, <1>3

LEMMA BulkEffect ==
    ASSUME TypeOK, ReadsInv, ReadBulk
    PROVE  \E n \in 1..Len(stream), g \in Nat :
               LET cut == Cut(SubSeq(stream, 1, n), g)
               IN  /\ Readv("bulk", n) /\ reads # <<>> /\ reads[1].call \in Recvs
                   /\ cut \in CutResults
                   /\ delivered' = delivered \o cut.chunks
                   /\ \/ cut.bad /\ Reject(reads[1].call)
                      \/ /\ ~cut.bad /\ Signal(reads[1].call) /\ UNCHANGED failed
                         /\ astray' = (astray \/ CutsBody(n))
                   /\ UNCHANGED <<sendvars, reads, endvars, crashed>>
<1>1. PICK n \in 1..Len(stream), g \in Sizes :
          LET cut == Cut(SubSeq(stream, 1, n), g)
          IN  /\ Readv("bulk", n)
              /\ delivered' = delivered \o cut.chunks
              /\ IF cut.bad THEN Reject(Head(reads).call)
                 ELSE /\ Signal(Head(reads).call) /\ UNCHANGED failed
                      /\ astray' = (astray \/ CutsBody(n))
              /\ UNCHANGED <<sendvars, reads, endvars, crashed>>
  BY DEF ReadBulk
<1>2. /\ reads # <<>> /\ reads[1] = Head(reads) /\ reads[1].call \in Recvs
      /\ SubSeq(stream, 1, n) \in Seq(Units) /\ g \in Nat
  BY <1>1, ReadvEffect, TypeFacts, ConnectionAssumption
<1>3. Cut(SubSeq(stream, 1, n), g) \in CutResults
  BY <1>2, CutType, TypeFacts
<1> QED  BY <1>1, <1>2, <1>3
LEMMA ReturnEffect ==
    ASSUME TypeOK, ReadsInv, NEW c \in Recvs, RecvReturns(c)
    PROVE  /\ rcall[c] = "signalled" /\ rcall' = [rcall EXCEPT ![c] = "returned"]
           /\ UNCHANGED <<sendvars, rpc, failed, delivered, astray, endvars, stream, crashed>>
           /\ \/ UNCHANGED reads
              \/ /\ c \in failed /\ rpc = "done" /\ reads # <<>> /\ reads[1].call = c
                 /\ reads' = Tail(reads)
<1>1. CASE ~(c \in failed /\ "receiver" \notin closed /\ TasksOf(c) # {})
  BY <1>1 DEF RecvReturns
<1>2. CASE c \in failed /\ "receiver" \notin closed /\ TasksOf(c) # {}
  <2>1. PICK i \in TasksOf(c) :
            reads' = SubSeq(reads, 1, i - 1) \o SubSeq(reads, i + 1, Len(reads))
    BY <1>2 DEF RecvReturns
  <2>2. i = 1 /\ rpc = "done" /\ reads # <<>> /\ reads[1].call = c
    BY <1>2, <2>1, TypeFacts DEF TasksOf, ReadsInv
  <2>3. SubSeq(reads, 1, 0) = <<>> /\ SubSeq(reads, 2, Len(reads)) = Tail(reads)
    BY <2>2, SubSeqEmpty, TailIsSubSeq DEF TypeOK
  <2>4. reads' = Tail(reads)
    <3>1. <<>> \o Tail(reads) = Tail(reads)
      BY <2>2 DEF TypeOK
    <3> QED  BY <3>1, <2>1, <2>2, <2>3
  <2> QED  BY <1>2, <2>2, <2>4 DEF RecvReturns
<1> QED  BY <1>1, <1>2

LEMMA TaskTypes ==
    ASSUME NEW c \in Recvs, NEW n \in Nat
    PROVE  {HdrTask(c), BulkTask(c), BodyTask(c, n)} \subseteq ReadTasks
BY ConnectionAssumption DEF HdrTask, BulkTask, BodyTask, ReadTasks

\* The types of what the receiving end keeps.
RecvTypeOK ==
    /\ reads \in Seq(ReadTasks)
    /\ rpc \in {"idle", "io", "done"}
    /\ rcall \in [Recvs -> {"new", "wait", "signalled", "returned"}]
    /\ failed \subseteq Recvs
    /\ delivered \in Seq(Msgs \cup {Broken})
    /\ astray \in BOOLEAN
    /\ crashed \in BOOLEAN

LEMMA RecvTypeNext == TypeOK /\ ReadsInv /\ [Next]_vars => RecvTypeOK'
<1> SUFFICES ASSUME TypeOK, ReadsInv, [Next]_vars PROVE RecvTypeOK'
  OBVIOUS
<1>i. RecvTypeOK
  BY DEF RecvTypeOK, TypeOK
<1>s. ASSUME NEW c \in Recvs, Signal(c) PROVE rcall' \in [Recvs -> {"new", "wait", "signalled", "returned"}]
  BY <1>i, <1>s DEF Signal, RecvTypeOK
<1>r. ASSUME NEW c \in Recvs, Reject(c)
      PROVE  /\ rcall' \in [Recvs -> {"new", "wait", "signalled", "returned"}]
             /\ failed' \subseteq Recvs /\ astray' \in BOOLEAN
  BY <1>i, <1>r, <1>s DEF Reject, RecvTypeOK
<1>1. ASSUME UNCHANGED recvvars, UNCHANGED crashed PROVE RecvTypeOK'
  BY <1>1, <1>i DEF RecvTypeOK, recvvars
<1>2. ASSUME NEW c \in Recvs, Recv(c) PROVE RecvTypeOK'
  <2>1. reads' \in {reads, Append(reads, HdrTask(c)), Append(reads, BulkTask(c))}
    BY <1>2 DEF Recv
  <2>2. reads' \in Seq(ReadTasks)
    <3>1. HdrTask(c) \in ReadTasks /\ BulkTask(c) \in ReadTasks
      BY TaskTypes
    <3>2. /\ Append(reads, HdrTask(c)) \in Seq(ReadTasks)
          /\ Append(reads, BulkTask(c)) \in Seq(ReadTasks)
      BY <3>1, <1>i, AppendProperties DEF RecvTypeOK
    <3> QED  BY <2>1, <3>2, <1>i DEF RecvTypeOK
  <2> QED  BY <2>2, <1>2, <1>i DEF RecvTypeOK, Recv
<1>3. ASSUME NEW c \in Recvs, RecvReturns(c) PROVE RecvTypeOK'
  <2>1. reads' \in Seq(ReadTasks)
    <3>1. reads # <<>> => Tail(reads) \in Seq(ReadTasks)
      BY <1>i, HeadTailProperties DEF RecvTypeOK
    <3> QED  BY <3>1, <1>3, <1>i, ReturnEffect DEF RecvTypeOK
  <2> QED  BY <2>1, <1>3, <1>i, ReturnEffect DEF RecvTypeOK
<1>4. CASE ReaderStarts
  BY <1>4, <1>i DEF ReaderStarts, RecvTypeOK
<1>5. CASE ReadHdr
  <2>1. PICK s \in Nat :
            \/ s > MaxSize /\ Reject(reads[1].call) /\ UNCHANGED reads
            \/ /\ UNCHANGED reads \/ reads' = Append(reads, BodyTask(reads[1].call, s))
               /\ UNCHANGED <<rcall, failed, astray>>
    BY <1>5, HdrEffect
  <2>2. reads[1].call \in Recvs /\ rpc' = "done" /\ UNCHANGED <<delivered, crashed>>
    BY <1>5, HdrEffect, ReadvEffect
  <2>3. reads' \in Seq(ReadTasks)
    <3>1. BodyTask(reads[1].call, s) \in ReadTasks
      BY <2>2, TaskTypes
    <3>2. Append(reads, BodyTask(reads[1].call, s)) \in Seq(ReadTasks)
      BY <3>1, <1>i, AppendProperties DEF RecvTypeOK
    <3> QED  BY <3>2, <2>1, <1>i DEF RecvTypeOK
  <2> QED  BY <2>1, <2>2, <2>3, <1>i, <1>r DEF RecvTypeOK
<1>6. CASE ReadBody
  <2>1. /\ reads[1].call \in Recvs /\ Signal(reads[1].call)
        /\ astray' \in BOOLEAN /\ rpc' = "done" /\ UNCHANGED <<reads, failed, crashed>>
    BY <1>6, <1>i, BodyEffect, ReadvEffect DEF RecvTypeOK
  <2>2. \E m \in Received : delivered' = Append(delivered, m)
    BY <1>6, BodyEffect
  <2>3. delivered' \in Seq(Msgs \cup {Broken})
    BY <2>2, <1>i DEF RecvTypeOK, Received
  <2> QED  BY <2>1, <2>3, <1>i, <1>s DEF RecvTypeOK
<1>7. CASE ReadBulk
  <2>1. PICK n \in 1..Len(stream), g \in Nat :
            LET cut == Cut(SubSeq(stream, 1, n), g)
            IN  /\ Readv("bulk", n) /\ reads[1].call \in Recvs
                /\ cut \in CutResults
                /\ delivered' = delivered \o cut.chunks
                /\ \/ Reject(reads[1].call)
                   \/ Signal(reads[1].call) /\ UNCHANGED failed /\ astray' \in BOOLEAN
                /\ UNCHANGED <<reads, crashed>>
    BY <1>7, <1>i, BulkEffect DEF RecvTypeOK
  <2>2. delivered' \in Seq(Msgs \cup {Broken})
    BY <2>1, <1>i DEF RecvTypeOK, Received, CutResults
  <2>3. rpc' = "done"
    BY <2>1, ReadvEffect
  <2> QED  BY <2>1, <2>2, <2>3, <1>i, <1>s, <1>r DEF RecvTypeOK
<1>8. CASE ReadDone
  <2>1. reads' \in Seq(ReadTasks)
    BY <1>8, <1>i DEF ReadDone, RecvTypeOK
  <2> QED  BY <2>1, <1>8, <1>i DEF ReadDone, RecvTypeOK
<1>9. ASSUME NEW m \in Msgs, Send(m) \/ SendReturns(m) PROVE RecvTypeOK'
  BY <1>1, <1>9 DEF Send, SendReturns
<1>10. CASE Writer
  BY <1>1, <1>10 DEF Writer, WriterStarts, Writev, WriteDone
<1>11. ASSUME NEW e \in Ends, Close(e) \/ DeleteEvent(e) PROVE RecvTypeOK'
  BY <1>1, <1>11 DEF Close, DeleteEvent
<1>12. CASE UNCHANGED vars
  BY <1>1, <1>12 DEF vars
<1> QED  BY <1>2, <1>3, <1>4, <1>5, <1>6, <1>7, <1>8, <1>9, <1>10, <1>11, <1>12 DEF Next, Reader

LEMMA TypeNext == TypeOK /\ ReadsInv /\ [Next]_vars => TypeOK'
<1> SUFFICES ASSUME TypeOK, ReadsInv, [Next]_vars PROVE TypeOK'
  OBVIOUS
<1>1. SendTypeOK' /\ RecvTypeOK'
  BY TypeFacts, SendTypeNext, RecvTypeNext
<1>2. size' \in [Msgs -> Sizes \cup {0}] /\ offered' \in Seq(Msgs)
  <2>1. ASSUME NEW m \in Msgs, Send(m)
        PROVE  size' \in [Msgs -> Sizes \cup {0}] /\ offered' \in Seq(Msgs)
    <3>1. size' \in [Msgs -> Sizes \cup {0}]
      BY <2>1 DEF Send, TypeOK
    <3>2. offered' \in {offered, Append(offered, m)}
      BY <2>1 DEF Send
    <3>3. Append(offered, m) \in Seq(Msgs)
      BY DEF TypeOK
    <3> QED  BY <3>1, <3>2, <3>3 DEF TypeOK
  <2>2. CASE UNCHANGED <<size, offered>>
    BY <2>2 DEF TypeOK
  <2>3. CASE ~\E m \in Msgs : Send(m)
    <3>1. UNCHANGED <<size, offered>>
      BY <2>3 DEF Next, SendReturns, Recv, RecvReturns, Writer, WriterStarts, Writev, WriteDone,
         Reader, ReaderStarts, ReadHdr, ReadBody, ReadBulk, ReadDone, Close, DeleteEvent,
         vars, sendvars
    <3> QED  BY <3>1, <2>2
  <2> QED  BY <2>1, <2>3
<1>3. closed' \subseteq Ends /\ gone' \subseteq closed'
  <2>1. CASE UNCHANGED endvars
    BY <2>1 DEF endvars, TypeOK
  <2>2. ASSUME NEW e \in Ends, Close(e) \/ DeleteEvent(e)
        PROVE  closed' \subseteq Ends /\ gone' \subseteq closed'
    BY <2>2 DEF Close, DeleteEvent, TypeOK
  <2>3. CASE ~\E e \in Ends : Close(e) \/ DeleteEvent(e)
    <3>1. UNCHANGED endvars
      BY <2>3 DEF Next, Send, SendReturns, Recv, RecvReturns, Writer, WriterStarts, Writev,
         WriteDone, Reader, ReaderStarts, ReadHdr, ReadBody, ReadBulk, ReadDone, vars
    <3> QED  BY <3>1, <2>1
  <2> QED  BY <2>2, <2>3
<1>4. stream' \in Seq(Units) /\ Len(stream') <= SendBuf
  <2>1. CASE UNCHANGED stream
    BY <2>1 DEF TypeOK
  <2>2. ASSUME NEW kind, NEW n, Readv(kind, n)
        PROVE  stream' \in Seq(Units) /\ Len(stream') <= SendBuf
    <3>1. stream' \in Seq(Units) /\ Len(stream') = Len(stream) - n /\ n \in Nat /\ Len(stream) \in Nat
      BY <2>2, ReadvEffect, TypeFacts
    <3> QED  BY <3>1, ConnectionAssumption DEF TypeOK
  <2>3. CASE Writev
    <3> DEFINE m == Head(writes)
    <3>1. PICK n \in WritevMoves(size[m] + 1) : stream' = stream \o SubSeq(UnitsOf(m), 1, n)
      BY <2>3 DEF Writev
    <3>2. m \in Msgs
      BY <2>3 DEF Writev, TypeOK
    <3>3. size[m] + 1 \in Nat /\ Len(stream) \in Nat
      BY <3>2, TypeFacts
    <3>4. n \in 1..(size[m] + 1) /\ n <= SendBuf - Len(stream)
      <4> DEFINE k == size[m] + 1
      <4>1. n \in WritevMoves(k) /\ k \in Nat /\ k >= 1
        BY <3>1, <3>2, <3>3, TypeFacts
      <4> HIDE DEF k
      <4>2. n \in 1..k /\ n <= SendBuf - Len(stream)
        BY <4>1 DEF WritevMoves
      <4> QED  BY <4>2 DEF k
    <3> DEFINE more == SubSeq(UnitsOf(m), 1, n)
    <3>5. more \in Seq(Units) /\ Len(more) = n
      BY <3>2, <3>4, UnitsOfType, TypeFacts
    <3>6. stream' = stream \o more /\ stream \in Seq(Units)
      BY <3>1 DEF TypeOK
    <3> HIDE DEF more, m
    <3> QED  BY <3>3, <3>4, <3>5, <3>6, ConnectionAssumption
  <2>4. CASE ~(Writev \/ ReadHdr \/ ReadBody \/ ReadBulk)
    <3>1. UNCHANGED stream
      BY <2>4 DEF Next, Send, SendReturns, Recv, RecvReturns, Writer, WriterStarts,
         WriteDone, Reader, ReaderStarts, ReadDone, Close, DeleteEvent, vars
    <3> QED  BY <3>1, <2>1
  <2>5. CASE ReadHdr \/ ReadBody \/ ReadBulk
    BY <2>2, <2>5, HdrEffect, BodyEffect, BulkEffect
  <2> QED  BY <2>3, <2>4, <2>5
<1> QED  BY <1>1, <1>2, <1>3, <1>4 DEF TypeOK, SendTypeOK, RecvTypeOK
\* The list after push_back and pop_front.
LEMMA ReadsAppend ==
    ASSUME TypeOK, NEW t \in ReadTasks
    PROVE  /\ DOMAIN Append(reads, t) = 1..(Len(reads) + 1) /\ Append(reads, t) # <<>>
           /\ Len(Append(reads, t)) = Len(reads) + 1
           /\ \A i \in DOMAIN reads : Append(reads, t)[i] = reads[i]
           /\ Append(reads, t)[Len(reads) + 1] = t
BY DEF TypeOK

LEMMA ReadsTail ==
    ASSUME TypeOK, reads # <<>>
    PROVE  /\ DOMAIN Tail(reads) = 1..(Len(reads) - 1) /\ Len(reads) >= 1
           /\ Len(Tail(reads)) = Len(reads) - 1
           /\ \A i \in 1..(Len(reads) - 1) : Tail(reads)[i] = reads[i + 1] /\ i + 1 \in DOMAIN reads
BY DEF TypeOK

LEMMA ReadsNext == TypeOK /\ ReadsInv /\ [Next]_vars => ReadsInv'
<1> SUFFICES ASSUME TypeOK, ReadsInv, [Next]_vars PROVE ReadsInv'
  OBVIOUS
<1>t. /\ Len(reads) \in Nat /\ DOMAIN reads = 1..Len(reads)
      /\ \A i \in DOMAIN reads : reads[i] \in ReadTasks /\ reads[i].call \in Recvs
      /\ failed \subseteq Recvs /\ rpc \in {"idle", "io", "done"}
      /\ rcall \in [Recvs -> {"new", "wait", "signalled", "returned"}]
  BY TypeFacts DEF TypeOK
<1>s. ASSUME NEW c \in Recvs, Signal(c)
      PROVE  \A d \in Recvs : rcall[d] # "new" => rcall'[d] # "new"
  BY <1>s, <1>t DEF Signal
<1>1. ASSUME UNCHANGED <<reads, rpc, rcall, failed>> PROVE ReadsInv'
  BY <1>1 DEF ReadsInv
<1>2. ASSUME NEW c \in Recvs, Recv(c) PROVE ReadsInv'
  <2>1. /\ rcall[c] = "new" /\ rcall' = [rcall EXCEPT ![c] = "wait"] /\ UNCHANGED <<rpc, failed>>
        /\ UNCHANGED reads \/ \E t \in ReadTasks : t.call = c /\ reads' = Append(reads, t)
    <3>1. HdrTask(c).call = c /\ BulkTask(c).call = c
      BY DEF HdrTask, BulkTask
    <3>2. HdrTask(c) \in ReadTasks /\ BulkTask(c) \in ReadTasks
      BY TaskTypes
    <3> QED  BY <3>1, <3>2, <1>2 DEF Recv
  <2>2. \A d \in Recvs : rcall[d] # "new" => rcall'[d] # "new"
    BY <2>1, <1>t
  <2>3. CASE UNCHANGED reads
    BY <2>1, <2>2, <2>3, <1>t DEF ReadsInv
  <2>4. ASSUME NEW t \in ReadTasks, t.call = c, reads' = Append(reads, t) PROVE ReadsInv'
    <3>1. /\ DOMAIN reads' = 1..(Len(reads) + 1) /\ reads' # <<>>
          /\ \A i \in DOMAIN reads : reads'[i] = reads[i]
          /\ reads'[Len(reads) + 1] = t
      BY <2>4, ReadsAppend
    <3>2. \A i \in DOMAIN reads : reads[i].call # c
      BY <2>1 DEF ReadsInv
    <3>3. c \notin failed /\ rcall'[c] # "new"
      BY <2>1, <1>t DEF ReadsInv
    <3>4. \A i \in DOMAIN reads' : \/ i \in DOMAIN reads /\ reads'[i] = reads[i]
                                   \/ i = Len(reads) + 1 /\ reads'[i].call = c
      BY <2>4, <3>1, <1>t
    <3>5. \A i \in DOMAIN reads' : rcall'[reads'[i].call] # "new"
      BY <2>2, <3>3, <3>4, <1>t DEF ReadsInv
    <3>6. ASSUME NEW i \in DOMAIN reads', reads'[i].call \in failed'
          PROVE  i = 1 /\ rpc' = "done"
      BY <2>1, <3>3, <3>4, <3>6 DEF ReadsInv
    <3>7. ASSUME NEW i \in DOMAIN reads', NEW j \in DOMAIN reads', i # j,
                 reads'[i].call = reads'[j].call
          PROVE  rpc' = "done" /\ 1 \in {i, j} /\ reads'[i].call \notin failed'
      <4>1. i \in DOMAIN reads /\ j \in DOMAIN reads
        BY <3>2, <3>4, <3>7
      <4> QED  BY <2>1, <3>1, <3>7, <4>1 DEF ReadsInv
    <3>8. \A d \in failed' : rcall'[d] # "new"
      BY <2>1, <2>2, <1>t DEF ReadsInv
    <3> QED  BY <3>1, <3>5, <3>6, <3>7, <3>8 DEF ReadsInv
  <2> QED  BY <2>1, <2>3, <2>4
\* What is left when the front task is gone after its callback.
<1>p. ASSUME reads # <<>>, reads' = Tail(reads), rpc' = "io" => Tail(reads) # <<>>,
             rpc = "done", failed' = failed, \A d \in Recvs : rcall[d] # "new" => rcall'[d] # "new"
      PROVE  ReadsInv'
  <2>1. /\ DOMAIN reads' = 1..(Len(reads) - 1)
        /\ \A i \in 1..(Len(reads) - 1) : reads'[i] = reads[i + 1] /\ i + 1 \in DOMAIN reads
    BY <1>p, ReadsTail
  <2>2. \A i \in 1..(Len(reads) - 1) : reads[i + 1].call \notin failed
    BY <2>1 DEF ReadsInv
  <2>3. \A i, j \in 1..(Len(reads) - 1) : i # j => reads[i + 1].call # reads[j + 1].call
    BY <2>1 DEF ReadsInv
  <2> QED  BY <2>1, <2>2, <2>3, <1>p, <1>t, SMTT(30) DEF ReadsInv
<1>3. ASSUME NEW c \in Recvs, RecvReturns(c) PROVE ReadsInv'
  <2>1. /\ rcall' = [rcall EXCEPT ![c] = "returned"] /\ UNCHANGED <<rpc, failed>>
        /\ \/ UNCHANGED reads
           \/ rpc = "done" /\ reads # <<>> /\ reads' = Tail(reads)
    BY <1>3, ReturnEffect
  <2>2. \A d \in Recvs : rcall[d] # "new" => rcall'[d] # "new"
    BY <2>1, <1>t
  <2>3. CASE UNCHANGED reads
    BY <2>1, <2>2, <2>3, <1>t DEF ReadsInv
  <2>4. CASE rpc = "done" /\ reads # <<>> /\ reads' = Tail(reads)
    BY <2>1, <2>2, <2>4, <1>p
  <2> QED  BY <2>1, <2>3, <2>4
<1>4. CASE ReaderStarts
  BY <1>4 DEF ReaderStarts, ReadsInv
\* A callback that adds nothing to the list.
<1>c. ASSUME rpc = "io", rpc' = "done", UNCHANGED reads, reads # <<>>,
             \/ UNCHANGED failed /\ UNCHANGED rcall
             \/ UNCHANGED failed /\ Signal(reads[1].call)
             \/ Reject(reads[1].call)
      PROVE  ReadsInv'
  <2>1. 1 \in DOMAIN reads /\ reads[1].call \in Recvs
    BY <1>c, <1>t
  <2>2. \A d \in Recvs : rcall[d] # "new" => rcall'[d] # "new"
    BY <1>c, <2>1, <1>s DEF Reject
  <2>3. failed' \subseteq failed \cup {reads[1].call} /\ rcall[reads[1].call] # "new"
    BY <1>c, <2>1 DEF Reject, ReadsInv
  <2>4. \A i, j \in DOMAIN reads : i # j => reads[i].call # reads[j].call
    BY <1>c DEF ReadsInv
  <2>5. \A i \in DOMAIN reads : reads[i].call \notin failed
    BY <1>c DEF ReadsInv
  <2> QED  BY <1>c, <2>1, <2>2, <2>3, <2>4, <2>5, <1>t DEF ReadsInv
<1>5. CASE ReadHdr
  <2>0. rpc = "io" /\ rpc' = "done" /\ reads # <<>>
    BY <1>5, HdrEffect, ReadvEffect
  <2>1. PICK s \in Nat :
            \/ Reject(reads[1].call) /\ UNCHANGED reads
            \/ UNCHANGED <<reads, rcall, failed>>
            \/ /\ reads' = Append(reads, BodyTask(reads[1].call, s))
               /\ UNCHANGED <<rcall, failed, astray>>
    BY <1>5, HdrEffect
  <2>2. CASE Reject(reads[1].call) /\ UNCHANGED reads
    BY <2>0, <2>2, <1>c
  <2>4. CASE UNCHANGED <<reads, rcall, failed>>
    BY <2>0, <2>4, <1>c
  <2>3. CASE /\ reads' = Append(reads, BodyTask(reads[1].call, s))
             /\ UNCHANGED <<rcall, failed, astray>>
    <3> DEFINE t == BodyTask(reads[1].call, s)
    <3>1. 1 \in DOMAIN reads /\ reads[1].call \in Recvs
      BY <2>0, <1>t
    <3>2. t.call = reads[1].call /\ t \in ReadTasks
      BY <3>1, TaskTypes DEF BodyTask
    <3> HIDE DEF t
    <3>3. /\ DOMAIN reads' = 1..(Len(reads) + 1) /\ reads' # <<>>
          /\ \A i \in DOMAIN reads : reads'[i] = reads[i]
          /\ reads'[Len(reads) + 1] = t
      BY <2>3, <3>2, ReadsAppend DEF t
    <3>4. \A i, j \in DOMAIN reads : i # j => reads[i].call # reads[j].call
      BY <2>0 DEF ReadsInv
    <3>5. \A i \in DOMAIN reads : reads[i].call \notin failed /\ rcall[reads[i].call] # "new"
      BY <2>0 DEF ReadsInv
    <3>6. \A c \in failed : rcall[c] # "new"
      BY DEF ReadsInv
    <3>7. \A i \in DOMAIN reads' : \/ i \in DOMAIN reads /\ reads'[i].call = reads[i].call
                                   \/ i = Len(reads) + 1 /\ reads'[i].call = reads[1].call
      BY <3>2, <3>3, <1>t
    <3>8. \A i \in DOMAIN reads' : reads'[i].call \notin failed /\ rcall[reads'[i].call] # "new"
      BY <3>1, <3>5, <3>7
    <3>9. ASSUME NEW i \in DOMAIN reads', NEW j \in DOMAIN reads', i # j,
                 reads'[i].call = reads'[j].call
          PROVE  1 \in {i, j}
      BY <3>1, <3>4, <3>7, <3>9
    <3> QED  BY <2>0, <2>3, <3>3, <3>6, <3>8, <3>9 DEF ReadsInv
  <2> QED  BY <2>1, <2>2, <2>3, <2>4
<1>6. CASE ReadBody
  BY <1>6, <1>c, BodyEffect, ReadvEffect
<1>7. CASE ReadBulk
  BY <1>7, <1>c, BulkEffect, ReadvEffect
<1>8. CASE ReadDone
  <2>1. CASE reads = <<>>
    BY <1>8, <2>1, <1>t DEF ReadDone, ReadsInv
  <2>2. CASE reads # <<>>
    <3>1. /\ reads' = Tail(reads) /\ rpc = "done" /\ UNCHANGED <<rcall, failed>>
          /\ rpc' = "io" => Tail(reads) # <<>>
      BY <1>8, <2>2 DEF ReadDone
    <3> QED  BY <2>2, <3>1, <1>p
  <2> QED  BY <2>1, <2>2
<1>9. ASSUME NEW m \in Msgs, Send(m) \/ SendReturns(m) PROVE ReadsInv'
  BY <1>1, <1>9 DEF Send, SendReturns, recvvars
<1>10. CASE Writer
  BY <1>1, <1>10 DEF Writer, WriterStarts, Writev, WriteDone, recvvars
<1>11. ASSUME NEW e \in Ends, Close(e) \/ DeleteEvent(e) PROVE ReadsInv'
  BY <1>1, <1>11 DEF Close, DeleteEvent, recvvars
<1>12. CASE UNCHANGED vars
  BY <1>1, <1>12 DEF vars, recvvars
<1> QED  BY <1>2, <1>3, <1>4, <1>5, <1>6, <1>7, <1>8, <1>9, <1>10, <1>11, <1>12 DEF Next, Reader

LEMMA TypeInit == Init => TypeOK /\ ReadsInv
<1> SUFFICES ASSUME Init PROVE TypeOK /\ ReadsInv
  OBVIOUS
<1>1. /\ writes = <<>> /\ reads = <<>> /\ stream = <<>> /\ offered = <<>> /\ delivered = <<>>
      /\ Len(stream) = 0
  BY DEF Init
<1>2. /\ writes \in Seq(Msgs) /\ reads \in Seq(ReadTasks) /\ stream \in Seq(Units)
      /\ offered \in Seq(Msgs) /\ delivered \in Seq(Msgs \cup {Broken}) /\ Len(stream) <= SendBuf
  BY <1>1, ConnectionAssumption
<1>3. TypeOK
  BY <1>2 DEF Init, TypeOK
<1>4. ReadsInv
  BY <1>1 DEF Init, ReadsInv
<1> QED  BY <1>3, <1>4

\* Every variable of both ends keeps its type, the workers have a task whenever
\* they are at their I/O, and what the kernel holds never exceeds its room: for any
\* messages and calls, any receivers at the same time, any transfers.
THEOREM TypeCorrect == Spec => []TypeOK
<1>1. TypeOK /\ ReadsInv /\ [Next]_vars => TypeOK' /\ ReadsInv'
  BY TypeNext, ReadsNext
<1> QED  BY <1>1, TypeInit, PTL DEF Spec
-----------------------------------------------------------------------------
(* The messages on their way: the sending end.                             *)

LEMMA OfferedFacts ==
    ASSUME TypeOK, OfferedInv
    PROVE  /\ Len(offered) \in Nat /\ Len(writes) \in Nat /\ Len(stream) \in Nat
           /\ DOMAIN offered = 1..Len(offered) /\ DOMAIN writes = 1..Len(writes)
           /\ \A i \in 1..Len(offered) : offered[i] \in Msgs /\ size[offered[i]] \in Nat
           /\ Written \in 0..Len(offered)
           /\ wpc = "io" => /\ Written + 1 \in 1..Len(offered)
                            /\ Head(writes) = offered[Written + 1]
<1>1. /\ Len(offered) \in Nat /\ Len(writes) \in Nat /\ Len(stream) \in Nat
      /\ DOMAIN offered = 1..Len(offered) /\ DOMAIN writes = 1..Len(writes)
      /\ \A i \in 1..Len(offered) : offered[i] \in Msgs
      /\ wpc # "idle" => Len(writes) >= 1 /\ Head(writes) = writes[1]
  BY DEF TypeOK
<1>2. \A i \in 1..Len(offered) : size[offered[i]] \in Nat
  BY <1>1, TypeFacts
<1>3. Written \in 0..Len(offered)
  BY <1>1 DEF OfferedInv, Written
<1>4. ASSUME wpc = "io"
      PROVE  Written + 1 \in 1..Len(offered) /\ Head(writes) = offered[Written + 1]
  <2>1. Written = Len(offered) - Len(writes) /\ 1 \in DOMAIN writes
    BY <1>1, <1>4 DEF Written
  <2> QED  BY <1>1, <1>4, <2>1 DEF OfferedInv
<1> QED  BY <1>1, <1>2, <1>3, <1>4

LEMMA OfferedNext == TypeOK /\ OfferedInv /\ [Next]_vars => OfferedInv'
<1> SUFFICES ASSUME TypeOK, OfferedInv, [Next]_vars PROVE OfferedInv'
  OBVIOUS
<1>t. /\ writes \in Seq(Msgs) /\ offered \in Seq(Msgs)
      /\ scall \in [Msgs -> {"new", "wait", "signalled", "returned"}]
      /\ Len(writes) \in Nat /\ Len(offered) \in Nat /\ DOMAIN writes = 1..Len(writes)
      /\ DOMAIN offered = 1..Len(offered) /\ \A i \in 1..Len(offered) : offered[i] \in Msgs
      /\ wpc # "idle" => writes # <<>>
  BY DEF TypeOK
<1>1. ASSUME UNCHANGED <<writes, offered>>,
             \A m \in Msgs : scall[m] # "new" => scall'[m] # "new"
      PROVE  OfferedInv'
  BY <1>1, <1>t DEF OfferedInv
<1>2. ASSUME NEW m \in Msgs, Send(m) PROVE OfferedInv'
  <2>1. /\ scall[m] = "new" /\ scall'[m] # "new"
        /\ \A k \in Msgs : scall[k] # "new" => scall'[k] # "new"
    BY <1>2, <1>t DEF Send
  <2>2. CASE UNCHANGED <<writes, offered>>
    BY <2>1, <2>2, <1>1
  <2>3. CASE writes' = Append(writes, m) /\ offered' = Append(offered, m)
    <3>1. /\ Len(writes') = Len(writes) + 1 /\ Len(offered') = Len(offered) + 1
          /\ DOMAIN writes' = 1..(Len(writes) + 1) /\ DOMAIN offered' = 1..(Len(offered) + 1)
          /\ \A i \in 1..Len(writes) : writes'[i] = writes[i]
          /\ \A i \in 1..Len(offered) : offered'[i] = offered[i]
          /\ writes'[Len(writes) + 1] = m /\ offered'[Len(offered) + 1] = m
      BY <2>3, <1>t
    <3>2. \A i \in DOMAIN offered : offered[i] # m
      BY <2>1 DEF OfferedInv
    <3>3. ASSUME NEW i \in DOMAIN writes'
          PROVE  writes'[i] = offered'[Len(offered') - Len(writes') + i]
      <4>1. CASE i = Len(writes) + 1
        BY <3>1, <4>1, <1>t
      <4>2. CASE i \in DOMAIN writes
        <5>1. writes[i] = offered[Len(offered) - Len(writes) + i]
          BY <4>2 DEF OfferedInv
        <5>2. Len(offered) - Len(writes) + i \in 1..Len(offered)
          BY <4>2, <1>t DEF OfferedInv
        <5> QED  BY <5>1, <5>2, <4>2, <3>1, <1>t
      <4> QED  BY <4>1, <4>2, <3>1, <1>t
    <3>4. \A i \in DOMAIN offered' : \/ i \in DOMAIN offered /\ offered'[i] = offered[i]
                                     \/ i = Len(offered) + 1 /\ offered'[i] = m
      BY <3>1, <1>t
    <3>5. \A i \in DOMAIN offered' : scall'[offered'[i]] # "new"
      BY <3>4, <2>1, <1>t DEF OfferedInv
    <3>6. \A i, j \in DOMAIN offered' : offered'[i] = offered'[j] => i = j
      BY <3>2, <3>4 DEF OfferedInv
    <3>7. Len(writes') <= Len(offered')
      BY <3>1, <1>t DEF OfferedInv
    <3> QED  BY <3>3, <3>5, <3>6, <3>7 DEF OfferedInv
  <2> QED  BY <1>2, <2>2, <2>3 DEF Send
<1>3. ASSUME NEW m \in Msgs, SendReturns(m) PROVE OfferedInv'
  BY <1>1, <1>3, <1>t DEF SendReturns
<1>4. CASE WriterStarts
  BY <1>1, <1>4 DEF WriterStarts
<1>5. CASE Writev
  <2>1. UNCHANGED <<writes, offered>> /\ scall' = Signalled(Head(writes))
    BY <1>5 DEF Writev
  <2> QED  BY <2>1, <1>1, <1>t DEF Signalled
<1>6. CASE WriteDone
  <2>1. /\ writes # <<>> /\ writes' = Tail(writes) /\ UNCHANGED <<offered, scall>>
    BY <1>6, <1>t DEF WriteDone
  <2>2. /\ Len(writes) >= 1 /\ Len(writes') = Len(writes) - 1
        /\ DOMAIN writes' = 1..(Len(writes) - 1)
        /\ \A i \in 1..(Len(writes) - 1) : writes'[i] = writes[i + 1]
    BY <2>1, <1>t
  <2>3. ASSUME NEW i \in DOMAIN writes'
        PROVE  writes'[i] = offered'[Len(offered') - Len(writes') + i]
    <3>1. i + 1 \in DOMAIN writes /\ writes'[i] = writes[i + 1]
      BY <2>2, <1>t
    <3>2. writes[i + 1] = offered[Len(offered) - Len(writes) + (i + 1)]
      BY <3>1 DEF OfferedInv
    <3>3. Len(offered) - Len(writes) + (i + 1) = Len(offered') - Len(writes') + i
      BY <2>1, <2>2, <1>t
    <3> QED  BY <3>1, <3>2, <3>3, <2>1
  <2> QED  BY <2>1, <2>2, <2>3, <1>t DEF OfferedInv
<1>7. CASE UNCHANGED sendvars
  BY <1>1, <1>7 DEF sendvars
<1>8. ASSUME NEW c \in Recvs, Recv(c) \/ RecvReturns(c) PROVE UNCHANGED sendvars
  BY <1>8 DEF Recv, RecvReturns
<1>9. CASE Reader
  BY <1>7, <1>9 DEF Reader, ReaderStarts, ReadHdr, ReadBody, ReadBulk, ReadDone
<1>10. ASSUME NEW e \in Ends, Close(e) \/ DeleteEvent(e) PROVE UNCHANGED sendvars
  BY <1>10 DEF Close, DeleteEvent
<1>11. CASE UNCHANGED vars
  BY <1>7, <1>11 DEF vars
<1> QED
  BY <1>2, <1>3, <1>4, <1>5, <1>6, <1>7, <1>8, <1>9, <1>10, <1>11 DEF Next, Writer

\* A step of the sending end: the messages that were written stay, and a writev
\* puts units of the next behind those in the stream.
Kept ==
    /\ Len(offered) <= Len(offered')
    /\ \A j \in 1..Len(offered) : offered'[j] = offered[j] /\ size'[offered[j]] = size[offered[j]]
    /\ \A j \in 1..Written : written'[offered[j]] = written[offered[j]]
Written1(m) ==
    /\ Written' = Written + 1 /\ Written + 1 <= Len(offered) /\ m = offered[Written + 1]
    /\ written'[m] \in 1..(size[m] + 1)
    /\ Len(stream') = Len(stream) + written'[m]
    /\ \A i \in 1..Len(stream) : stream'[i] = stream[i]
    /\ \A i \in 0..(written'[m] - 1) : stream'[Len(stream) + 1 + i] = <<m, i>>
SenderStep == UNCHANGED <<sendvars, stream>> \/ Writer \/ \E m \in Msgs : Send(m) \/ SendReturns(m)

LEMMA SenderEffect ==
    ASSUME TypeOK, OfferedInv, SenderStep
    PROVE  Kept /\ (UNCHANGED <<stream, Written>> \/ \E m \in Msgs : Written1(m))
<1>t. /\ writes \in Seq(Msgs) /\ offered \in Seq(Msgs) /\ (wpc # "idle" => writes # <<>>)
      /\ Len(writes) \in Nat /\ Len(offered) \in Nat /\ size \in [Msgs -> Nat]
      /\ written \in [Msgs -> Nat] /\ Written \in 0..Len(offered)
      /\ \A i \in 1..Len(offered) : offered[i] \in Msgs
  BY TypeFacts, OfferedFacts DEF TypeOK
<1>1. CASE UNCHANGED <<sendvars, stream>>
  BY <1>1, <1>t DEF sendvars, Written, Kept
<1>2. ASSUME NEW m \in Msgs, Send(m) PROVE Kept /\ UNCHANGED <<stream, Written>>
  <2>1. \A j \in 1..Len(offered) : size'[offered[j]] = size[offered[j]]
    <3>1. \A j \in 1..Len(offered) : offered[j] # m
      BY <1>2, <1>t, SMTT(30) DEF Send, OfferedInv
    <3>2. PICK n \in Sizes : size' = [size EXCEPT ![m] = n]
      BY <1>2 DEF Send
    <3> QED  BY <3>1, <3>2, <1>t
  <2>2. wpc' = wpc /\ stream' = stream /\ written' = written
    BY <1>2 DEF Send
  <2>3. CASE UNCHANGED <<writes, offered>>
    BY <2>1, <2>2, <2>3, <1>t DEF Kept, Written
  <2>4. CASE writes' = Append(writes, m) /\ offered' = Append(offered, m)
    <3>1. /\ Len(writes') = Len(writes) + 1 /\ Len(offered') = Len(offered) + 1
          /\ \A i \in 1..Len(offered) : offered'[i] = offered[i]
      BY <2>4, <1>t
    <3>2. Written' = Written
      BY <3>1, <2>2, <1>t DEF Written
    <3> QED  BY <3>1, <3>2, <2>1, <2>2, <1>t DEF Kept
  <2> QED  BY <1>2, <2>3, <2>4 DEF Send
<1>3. ASSUME NEW m \in Msgs, SendReturns(m) PROVE Kept /\ UNCHANGED <<stream, Written>>
  BY <1>3, <1>t DEF SendReturns, Written, Kept
<1>4. CASE WriterStarts
  BY <1>4, <1>t DEF WriterStarts, Written, Kept
<1>5. CASE Writev
  <2> DEFINE m == Head(writes)
  <2>1. /\ UNCHANGED <<writes, size, offered>> /\ wpc = "io" /\ wpc' = "done" /\ m \in Msgs
    <3>1. /\ UNCHANGED <<writes, size, offered>> /\ wpc = "io" /\ wpc' = "done"
      BY <1>5 DEF Writev
    <3>2. writes # <<>>
      BY <3>1, <1>t
    <3>3. m \in Msgs
      BY <3>2, <1>t, HeadTailProperties
    <3> QED  BY <3>1, <3>3
  <2>2. /\ Written + 1 \in 1..Len(offered) /\ m = offered[Written + 1] /\ Len(stream) \in Nat
    BY <2>1, OfferedFacts
  <2>3. Written' = Written + 1
    BY <2>1, <1>t DEF Written
  <2> HIDE DEF m
  <2>4. PICK n \in 1..(size[m] + 1) :
            /\ stream' = stream \o SubSeq(UnitsOf(m), 1, n)
            /\ written' = [written EXCEPT ![m] = n]
    BY <1>5 DEF Writev, WritevMoves, m
  <2> DEFINE more == SubSeq(UnitsOf(m), 1, n)
  <2>5. /\ more \in Seq(Units) /\ Len(more) = n /\ size[m] \in Nat /\ n \in Nat
        /\ \A i \in 1..n : more[i] = <<m, i - 1>>
    BY <2>1, <2>4, <1>t, UnitsOfType, SMTT(30)
  <2> HIDE DEF more
  <2>6. stream' = stream \o more /\ stream \in Seq(Units) /\ written'[m] = n
    BY <2>1, <2>4, <1>t DEF more, TypeOK
  <2>7. /\ Len(stream') = Len(stream) + n
        /\ \A i \in 1..Len(stream) : stream'[i] = stream[i]
        /\ \A i \in 1..n : stream'[Len(stream) + i] = more[i]
    <3>1. /\ Len(stream \o more) = Len(stream) + Len(more)
          /\ \A i \in 1..(Len(stream) + Len(more)) :
                 (stream \o more)[i] = IF i <= Len(stream) THEN stream[i] ELSE more[i - Len(stream)]
      BY <2>5, <2>6, ConcatProperties
    <3> QED  BY <2>2, <2>5, <2>6, <3>1
  <2>8. \A i \in 0..(n - 1) : stream'[Len(stream) + 1 + i] = <<m, i>>
    <3> SUFFICES ASSUME NEW i \in 0..(n - 1) PROVE stream'[Len(stream) + 1 + i] = <<m, i>>
      OBVIOUS
    <3>1. i + 1 \in 1..n /\ Len(stream) + 1 + i = Len(stream) + (i + 1)
      BY <2>2, <2>5
    <3>2. more[i + 1] = <<m, (i + 1) - 1>> /\ (i + 1) - 1 = i
      BY <3>1, <2>5
    <3> QED  BY <3>1, <3>2, <2>7
  <2>9. Kept
    <3>1. ASSUME NEW j \in 1..Written PROVE written'[offered[j]] = written[offered[j]]
      <4>1. j \in DOMAIN offered /\ Written + 1 \in DOMAIN offered /\ j # Written + 1
        BY <2>2, <1>t, OfferedFacts
      <4>2. offered[j] # m /\ offered[j] \in Msgs
        BY <4>1, <2>2, <1>t, OfferedFacts DEF OfferedInv
      <4> QED  BY <4>2, <2>1, <2>4, <1>t
    <3>2. Len(offered) <= Len(offered') /\ UNCHANGED <<size, offered>>
      BY <2>1, <1>t
    <3> QED  BY <3>1, <3>2 DEF Kept
  <2>10. Written1(m)
    <3>1. written'[m] = n /\ n \in 1..(size[m] + 1)
      BY <2>6
    <3>2. Written' = Written + 1 /\ Written + 1 <= Len(offered) /\ m = offered[Written + 1]
      BY <2>2, <2>3
    <3>3. /\ Len(stream') = Len(stream) + written'[m]
          /\ \A i \in 1..Len(stream) : stream'[i] = stream[i]
          /\ \A i \in 0..(written'[m] - 1) : stream'[Len(stream) + 1 + i] = <<m, i>>
      <4> QED  BY <3>1, <2>7, <2>8
    <3> QED  BY <3>1, <3>2, <3>3 DEF Written1
  <2> QED  BY <2>1, <2>9, <2>10
<1>6. CASE WriteDone
  <2>1. /\ writes # <<>> /\ writes' = Tail(writes) /\ UNCHANGED <<offered, size, stream, written>>
        /\ wpc = "done" /\ wpc' # "done"
    <3>1. wpc = "done" /\ writes' = Tail(writes) /\ UNCHANGED <<offered, size, stream, written>>
      BY <1>6 DEF WriteDone
    <3>2. wpc' \in {"idle", "io"}
      BY <1>6 DEF WriteDone
    <3> QED  BY <3>1, <3>2, <1>t
  <2>2. Len(writes') = Len(writes) - 1
    BY <2>1, <1>t
  <2>3. Written' = Written
    BY <2>1, <2>2, <1>t DEF Written
  <2> QED  BY <2>1, <2>3, <1>t DEF Kept
<1> QED  BY <1>1, <1>2, <1>3, <1>4, <1>5, <1>6 DEF SenderStep, Writer

\* Whatever was written stays written, and what is signalled was.
LEMMA WrittenNext ==
    ASSUME TypeOK, OfferedInv, WrittenInv, [Next]_vars
    PROVE  WrittenInv'
<1>t. /\ Written \in 0..Len(offered) /\ Len(offered) \in Nat
      /\ \A i \in 1..Len(offered) : offered[i] \in Msgs /\ size[offered[i]] \in Nat
  BY OfferedFacts
<1>1. CASE SenderStep
  <2>1. Kept /\ (UNCHANGED <<stream, Written>> \/ \E m \in Msgs : Written1(m))
    BY <1>1, SenderEffect
  <2>2. Written' \in {Written, Written + 1}
    BY <2>1 DEF Written1
  <2>3. ASSUME NEW q \in 1..Written'
        PROVE  written'[offered'[q]] \in 1..(size'[offered'[q]] + 1)
    <3>1. q \in 1..Written \/ (q = Written + 1 /\ Written' = Written + 1)
      BY <1>t, <2>2
    <3>2. CASE q \in 1..Written
      <4>1. q \in 1..Len(offered)
        BY <1>t, <3>2
      <4> QED  BY <2>1, <3>2, <4>1 DEF Kept, WrittenInv
    <3>3. CASE q = Written + 1 /\ Written' = Written + 1
      <4>1. PICK m \in Msgs : Written1(m)
        BY <2>1, <3>3, <1>t
      <4>2. q \in 1..Len(offered) /\ m = offered[q]
        BY <4>1, <3>3, <1>t DEF Written1
      <4> QED  BY <2>1, <4>1, <4>2 DEF Written1, Kept
    <3> QED  BY <3>1, <3>2, <3>3
  <2> QED  BY <2>3 DEF WrittenInv
<1>2. CASE UNCHANGED sendvars
  BY <1>2 DEF sendvars, WrittenInv, Written
<1>3. ASSUME NEW c \in Recvs, Recv(c) \/ RecvReturns(c) PROVE UNCHANGED sendvars
  BY <1>3 DEF Recv, RecvReturns
<1>4. CASE Reader
  BY <1>2, <1>4 DEF Reader, ReaderStarts, ReadHdr, ReadBody, ReadBulk, ReadDone
<1>5. ASSUME NEW e \in Ends, Close(e) \/ DeleteEvent(e) PROVE UNCHANGED sendvars
  BY <1>5 DEF Close, DeleteEvent
<1>6. CASE UNCHANGED vars
  BY <1>2, <1>6 DEF vars
<1> QED  BY <1>1, <1>2, <1>3, <1>4, <1>5, <1>6 DEF Next, SenderStep

\* A sendmsg that was signalled has been through its writev.
SignalledInv ==
    \A m \in Msgs \ AsyncMsgs : scall[m] \in {"signalled", "returned"} =>
        \E j \in 1..Written : offered[j] = m

LEMMA SignalledNext ==
    ASSUME TypeOK, OfferedInv, SignalledInv, [Next]_vars
    PROVE  SignalledInv'
<1>t. /\ Written \in 0..Len(offered) /\ Len(offered) \in Nat /\ AsyncMsgs \subseteq Msgs
      /\ scall \in [Msgs -> {"new", "wait", "signalled", "returned"}]
  BY OfferedFacts, ConnectionAssumption DEF TypeOK
<1>1. ASSUME SenderStep,
             \A m \in Msgs \ AsyncMsgs : scall'[m] \in {"signalled", "returned"} =>
                 scall[m] \in {"signalled", "returned"}
      PROVE  SignalledInv'
  <2>1. Kept /\ Written' \in {Written, Written + 1}
    <3>1. Kept /\ (Written' = Written \/ \E m \in Msgs : Written1(m))
      BY <1>1, SenderEffect
    <3> QED  BY <3>1 DEF Written1
  <2>2. \A j \in 1..Written : j \in 1..Written' /\ offered'[j] = offered[j]
    BY <2>1, <1>t DEF Kept
  <2> QED  BY <1>1, <2>2 DEF SignalledInv
<1>2. ASSUME NEW m \in Msgs, Send(m) PROVE SignalledInv'
  <2>1. \A k \in Msgs \ AsyncMsgs : scall'[k] \in {"signalled", "returned"} =>
            scall[k] \in {"signalled", "returned"}
    BY <1>2, <1>t DEF Send
  <2> QED  BY <1>1, <1>2, <2>1 DEF SenderStep
<1>3. ASSUME NEW m \in Msgs, SendReturns(m) PROVE SignalledInv'
  <2>1. \A k \in Msgs \ AsyncMsgs : scall'[k] \in {"signalled", "returned"} =>
            scall[k] \in {"signalled", "returned"}
    BY <1>3, <1>t DEF SendReturns
  <2> QED  BY <1>1, <1>3, <2>1 DEF SenderStep
<1>4. CASE WriterStarts \/ WriteDone
  <2>1. scall' = scall
    BY <1>4 DEF WriterStarts, WriteDone
  <2> QED  BY <1>1, <1>4, <2>1 DEF SenderStep, Writer
<1>5. CASE Writev
  <2>1. /\ wpc = "io" /\ UNCHANGED <<writes, offered>> /\ wpc' = "done"
        /\ scall' = Signalled(Head(writes))
    BY <1>5 DEF Writev
  <2>2. Written + 1 \in 1..Len(offered) /\ Head(writes) = offered[Written + 1]
    BY <2>1, OfferedFacts
  <2>3. Written' = Written + 1
    <3>1. Len(writes) \in Nat
      BY OfferedFacts
    <3> QED  BY <2>1, <3>1, <1>t DEF Written
  <2>4. ASSUME NEW m \in Msgs \ AsyncMsgs, scall'[m] \in {"signalled", "returned"}
        PROVE  \E j \in 1..Written' : offered'[j] = m
    <3>1. CASE m = Head(writes)
      BY <2>1, <2>2, <2>3, <3>1, <1>t
    <3>2. CASE m # Head(writes)
      <4>1. scall[m] = scall'[m]
        BY <2>1, <2>4, <3>2, <1>t DEF Signalled
      <4> QED  BY <2>1, <2>3, <2>4, <4>1, <1>t DEF SignalledInv
    <3> QED  BY <3>1, <3>2
  <2> QED  BY <2>4 DEF SignalledInv
<1>6. CASE UNCHANGED sendvars
  BY <1>6 DEF sendvars, SignalledInv, Written
<1>7. ASSUME NEW c \in Recvs, Recv(c) \/ RecvReturns(c) PROVE UNCHANGED sendvars
  BY <1>7 DEF Recv, RecvReturns
<1>8. CASE Reader
  BY <1>6, <1>8 DEF Reader, ReaderStarts, ReadHdr, ReadBody, ReadBulk, ReadDone
<1>9. ASSUME NEW e \in Ends, Close(e) \/ DeleteEvent(e) PROVE UNCHANGED sendvars
  BY <1>9 DEF Close, DeleteEvent
<1>10. CASE UNCHANGED vars
  BY <1>6, <1>10 DEF vars
<1> QED  BY <1>2, <1>3, <1>4, <1>5, <1>6, <1>7, <1>8, <1>9, <1>10 DEF Next, Writer

LEMMA SendersInit == Init => OfferedInv /\ WrittenInv /\ SignalledInv
<1> SUFFICES ASSUME Init PROVE OfferedInv /\ WrittenInv /\ SignalledInv
  OBVIOUS
<1>1. /\ writes = <<>> /\ offered = <<>> /\ wpc = "idle" /\ scall = [m \in Msgs |-> "new"]
      /\ Len(offered) = 0 /\ Len(writes) = 0
  BY DEF Init
<1>2. Written = 0
  BY <1>1 DEF Written
<1> QED  BY <1>1, <1>2 DEF OfferedInv, WrittenInv, SignalledInv

LEMMA BarrierImplies ==
    ASSUME TypeOK, OfferedInv, WrittenInv, SignalledInv
    PROVE  SuccessIsABarrier
<1> SUFFICES ASSUME NEW m \in Msgs \ AsyncMsgs, scall[m] \in {"signalled", "returned"}
             PROVE  \E j \in DOMAIN offered :
                        offered[j] = m /\ \A i \in 1..j : written[offered[i]] > 0
  BY DEF SuccessIsABarrier
<1>1. PICK j \in 1..Written : offered[j] = m
  BY DEF SignalledInv
<1>2. /\ Written \in 0..Len(offered) /\ Len(offered) \in Nat /\ DOMAIN offered = 1..Len(offered)
      /\ \A i \in 1..Len(offered) : size[offered[i]] \in Nat
  BY OfferedFacts
<1>3. j \in DOMAIN offered
  BY <1>1, <1>2
<1>4. ASSUME NEW i \in 1..j PROVE written[offered[i]] > 0
  <2>1. i \in 1..Written /\ i \in 1..Len(offered)
    BY <1>1, <1>2
  <2> QED  BY <2>1, <1>2 DEF WrittenInv
<1> QED  BY <1>1, <1>3, <1>4

\* When a sendmsg returns, its message and all that were added before it, those of
\* sendmsg_async too, have been through their writev: for any messages and calls,
\* any transfers, any closes.
THEOREM SuccessIsBarrier == Spec => []SuccessIsABarrier
<1> DEFINE Inv == TypeOK /\ ReadsInv /\ OfferedInv /\ WrittenInv /\ SignalledInv
<1>1. Init => Inv
  BY TypeInit, SendersInit
<1>2. Inv /\ [Next]_vars => Inv'
  BY TypeNext, ReadsNext, OfferedNext, WrittenNext, SignalledNext
<1>3. Inv => SuccessIsABarrier
  BY BarrierImplies
<1> HIDE DEF Inv
<1> QED  BY <1>1, <1>2, <1>3, PTL DEF Spec

\* What was there stays: for positions, messages and sequences that are fixed.
SenderKept ==
    /\ TypeOK /\ TypeOK' /\ OfferedInv /\ OfferedInv' /\ WrittenInv
    /\ Kept /\ (UNCHANGED <<stream, Written>> \/ \E m \in Msgs : Written1(m))

LEMMA FollowsGrow ==
    ASSUME SenderKept, NEW CONSTANT p, NEW CONSTANT q, Follows(p, q)
    PROVE  Follows(p, q)'
<1>1. /\ p \in 1..(Len(stream) + 1) /\ q \in 0..Written
      /\ p = Len(stream) + 1 <=> q = Written
      /\ p <= Len(stream) => stream[p] = <<offered[q + 1], 0>>
  BY DEF Follows
<1>2. Len(stream) \in Nat /\ Written \in 0..Len(offered) /\ Len(offered) \in Nat
  BY OfferedFacts DEF SenderKept
<1>3. \A j \in 1..Len(offered) : offered'[j] = offered[j]
  BY DEF SenderKept, Kept
<1>4. p <= Len(stream) => q + 1 \in 1..Len(offered)
  BY <1>1, <1>2
<1>5. CASE UNCHANGED <<stream, Written>>
  BY <1>1, <1>2, <1>3, <1>4, <1>5 DEF Follows
<1>6. ASSUME NEW m \in Msgs, Written1(m) PROVE Follows(p, q)'
  <2>1. /\ Written' = Written + 1 /\ Written + 1 <= Len(offered) /\ m = offered[Written + 1]
        /\ Len(stream') = Len(stream) + written'[m] /\ written'[m] \in Nat \ {0}
        /\ \A i \in 1..Len(stream) : stream'[i] = stream[i]
        /\ stream'[Len(stream) + 1] = <<m, 0>>
    <3>1. size[m] \in Nat
      BY TypeFacts DEF SenderKept
    <3>2. written'[m] \in Nat \ {0}
      BY <1>6, <3>1 DEF Written1
    <3>3. stream'[Len(stream) + 1 + 0] = <<m, 0>>
      BY <1>6, <3>2 DEF Written1
    <3> QED  BY <1>2, <1>6, <3>2, <3>3 DEF Written1
  <2>2. /\ p \in 1..(Len(stream') + 1) /\ q \in 0..Written'
        /\ p # Len(stream') + 1 /\ q # Written'
    <3>1. p \in Nat /\ p >= 1 /\ p <= Len(stream) + 1 /\ Len(stream') \in Nat
          /\ Len(stream) + 1 <= Len(stream')
      BY <1>1, <1>2, <2>1
    <3>2. q \in Nat /\ q <= Written /\ Written' = Written + 1 /\ Written \in Nat
      BY <1>1, <1>2, <2>1
    <3>3. p \in 1..(Len(stream') + 1) /\ p # Len(stream') + 1
      BY <3>1
    <3>4. q \in 0..Written' /\ q # Written'
      BY <3>2
    <3> QED  BY <3>3, <3>4
  <2>3. stream'[p] = <<offered'[q + 1], 0>>
    <3>1. CASE p <= Len(stream)
      BY <1>1, <1>2, <1>3, <1>4, <2>1, <3>1, SMTT(30)
    <3>2. CASE p = Len(stream) + 1
      <4>1. q = Written /\ q + 1 \in 1..Len(offered)
        BY <1>1, <1>2, <2>1, <3>2
      <4> QED  BY <4>1, <2>1, <3>2, <1>3
    <3> QED  BY <1>1, <1>2, <3>1, <3>2
  <2> QED  BY <2>2, <2>3 DEF Follows
<1> QED  BY <1>5, <1>6 DEF SenderKept

LEMMA MessageGrow ==
    ASSUME SenderKept, NEW CONSTANT p \in Nat, NEW CONSTANT q \in 1..Written, NEW CONSTANT k \in Nat,
           p + k >= 1, MessageAt(p, q, k)
    PROVE  MessageAt(p, q, k)' /\ q \in 1..Written'
<1>1. Len(stream) \in Nat /\ Written \in 0..Len(offered) /\ Len(offered) \in Nat
  BY OfferedFacts DEF SenderKept
<1>2. q \in 1..Len(offered) /\ q \in Nat
  BY <1>1
<1>3. /\ offered'[q] = offered[q] /\ written'[offered'[q]] = written[offered[q]]
      /\ written[offered[q]] \in Nat \ {0}
  <2>1. size[offered[q]] \in Nat
    BY <1>2, OfferedFacts DEF SenderKept
  <2>2. written[offered[q]] \in 1..(size[offered[q]] + 1)
    BY DEF SenderKept, WrittenInv
  <2> QED  BY <1>2, <2>1, <2>2 DEF SenderKept, Kept
<1>4. /\ Len(stream) <= Len(stream') /\ Written <= Written' /\ Written' \in Nat /\ Len(stream') \in Nat
      /\ \A i \in 1..Len(stream) : stream'[i] = stream[i]
  <2>1. CASE UNCHANGED <<stream, Written>>
    BY <1>1, <2>1
  <2>2. ASSUME NEW m \in Msgs, Written1(m)
        PROVE  /\ Len(stream) <= Len(stream') /\ Written <= Written' /\ Written' \in Nat
               /\ Len(stream') \in Nat /\ \A i \in 1..Len(stream) : stream'[i] = stream[i]
    <3>1. size[m] \in Nat
      BY TypeFacts DEF SenderKept
    <3>2. written'[m] \in Nat
      BY <2>2, <3>1 DEF Written1
    <3> QED  BY <1>1, <2>2, <3>2 DEF Written1
  <2> QED  BY <2>1, <2>2 DEF SenderKept
<1>5. PICK e \in Nat : e = p + written[offered[q]]
  BY <1>3
<1>6. Follows(e, q)'
  <2>1. Follows(e, q)
    BY <1>5 DEF MessageAt
  <2> QED  BY <2>1, FollowsGrow
<1>7. e = p + written'[offered'[q]]
  BY <1>3, <1>5
<1>8. ASSUME NEW i \in k..(written'[offered'[q]] - 1)
      PROVE  p + i <= Len(stream') /\ stream'[p + i] = <<offered'[q], i>>
  <2>1. i \in k..(written[offered[q]] - 1)
    BY <1>3, <1>8
  <2>2. p + i <= Len(stream) /\ stream[p + i] = <<offered[q], i>>
    BY <2>1 DEF MessageAt
  <2>3. p + i \in 1..Len(stream)
    BY <2>1, <2>2, <1>1, <1>3
  <2> QED  BY <2>2, <2>3, <1>1, <1>3, <1>4
<1>9. MessageAt(p, q, k)'
  BY <1>6, <1>7, <1>8 DEF MessageAt, Follows
<1> QED  BY <1>9, <1>1, <1>4

LEMMA NonEmptyKept ==
    ASSUME TypeOK, OfferedInv, Kept
    PROVE  \A k \in 0..Len(offered) : NonEmpty(k)' = NonEmpty(k)
<1> SUFFICES ASSUME NEW CONSTANT k, k \in 0..Len(offered) PROVE NonEmpty(k)' = NonEmpty(k)
  OBVIOUS
<1>1. Len(offered) \in Nat
  BY OfferedFacts
<1>2. \A j \in 1..k : offered'[j] = offered[j] /\ size'[offered'[j]] = size[offered[j]]
  BY <1>1 DEF Kept
<1> QED  BY <1>2 DEF NonEmpty

LEMMA SelectedGrow ==
    ASSUME TypeOK, OfferedInv, Kept, NEW CONSTANT msgs, NEW CONSTANT q,
           q \in 0..Len(offered), Selected(msgs, q)
    PROVE  Selected(msgs, q)'
<1>1. Len(offered) \in Nat
  BY OfferedFacts
<1>2. NonEmpty(q)' = NonEmpty(q)
  BY NonEmptyKept
<1>3. \A k \in NonEmpty(q) : offered'[k] = offered[k] /\ NonEmpty(k)' = NonEmpty(k)
  <2>1. \A k \in NonEmpty(q) : k \in 1..Len(offered) /\ k \in 0..Len(offered)
    BY <1>1 DEF NonEmpty
  <2> QED  BY <2>1, NonEmptyKept DEF Kept
<1> QED  BY <1>2, <1>3 DEF Selected

LEMMA BeginsGrow ==
    ASSUME TypeOK, OfferedInv, Kept, NEW CONSTANT msgs, NEW CONSTANT q,
           q \in 0..Len(offered), Begins(msgs, q)
    PROVE  Begins(msgs, q)'
<1>1. Len(offered) \in Nat
  BY OfferedFacts
<1>2. NonEmpty(q)' = NonEmpty(q)
  BY NonEmptyKept
<1>3. \A k \in NonEmpty(q) : offered'[k] = offered[k] /\ NonEmpty(k)' = NonEmpty(k)
  <2>1. \A k \in NonEmpty(q) : k \in 1..Len(offered) /\ k \in 0..Len(offered)
    BY <1>1 DEF NonEmpty
  <2> QED  BY <2>1, NonEmptyKept DEF Kept
<1> QED  BY <1>2, <1>3 DEF Begins

LEMMA TornKept ==
    ASSUME SenderKept, NEW CONSTANT q \in 1..Written
    PROVE  /\ q \in 1..Written' /\ q \in 1..Len(offered)
           /\ Torn(offered[q])' <=> Torn(offered[q])
<1>1. Written \in 0..Len(offered) /\ Len(offered) \in Nat
  BY OfferedFacts DEF SenderKept
<1>2. q \in 1..Len(offered)
  BY <1>1
<1>3. q \in 1..Written'
  <2>1. Written' = Written \/ Written' = Written + 1
    BY DEF SenderKept, Written1
  <2> QED  BY <1>1, <2>1
<1>4. offered'[q] = offered[q] /\ size'[offered[q]] = size[offered[q]]
      /\ written'[offered[q]] = written[offered[q]]
  BY <1>2 DEF SenderKept, Kept
<1> QED  BY <1>2, <1>3, <1>4 DEF Torn

LEMMA StreamGrow == SenderKept /\ StreamInv => StreamInv'
<1> SUFFICES ASSUME SenderKept, StreamInv, NEW CONSTANT p, p \in 1..Len(stream'), IsHeader(stream'[p])
             PROVE  \E q \in 1..Written' : stream'[p][1] = offered'[q] /\ MessageAt(p, q, 0)'
  BY DEF StreamInv, IsHeader
<1>1. Len(stream) \in Nat /\ Written \in 0..Len(offered) /\ Len(offered) \in Nat
  BY OfferedFacts DEF SenderKept
<1>2. ASSUME p \in 1..Len(stream), stream'[p] = stream[p]
      PROVE  \E q \in 1..Written' : stream'[p][1] = offered'[q] /\ MessageAt(p, q, 0)'
  <2>1. PICK q \in 1..Written : stream[p][1] = offered[q] /\ MessageAt(p, q, 0)
    BY <1>2 DEF StreamInv, IsHeader
  <2>2. q \in 1..Len(offered) /\ offered'[q] = offered[q]
    BY <1>1 DEF SenderKept, Kept
  <2>3. p \in Nat /\ p + 0 >= 1
    BY <1>2, <1>1
  <2>4. MessageAt(p, q, 0)' /\ q \in 1..Written'
    BY <2>1, <2>3, MessageGrow
  <2> QED  BY <1>2, <2>1, <2>2, <2>4
<1>3. CASE UNCHANGED stream
  BY <1>2, <1>3
<1>4. ASSUME NEW m \in Msgs, Written1(m)
      PROVE  \E q \in 1..Written' : stream'[p][1] = offered'[q] /\ MessageAt(p, q, 0)'
  <2>1. /\ Written' = Written + 1 /\ Written + 1 <= Len(offered) /\ m = offered[Written + 1]
        /\ Len(stream') = Len(stream) + written'[m]
        /\ \A i \in 1..Len(stream) : stream'[i] = stream[i]
        /\ \A i \in 0..(written'[m] - 1) : stream'[Len(stream) + 1 + i] = <<m, i>>
    BY <1>4 DEF Written1
  <2>2. written'[m] \in Nat \ {0} /\ Written' \in Nat
    <3>1. size[m] \in Nat
      BY TypeFacts DEF SenderKept
    <3> QED  BY <1>1, <1>4, <2>1, <3>1 DEF Written1
  <2>3. CASE p \in 1..Len(stream)
    BY <1>2, <2>1, <2>3
  <2>4. CASE p \notin 1..Len(stream)
    <3>1. p = Len(stream) + 1
      <4>1. PICK i \in 0..(written'[m] - 1) : p = Len(stream) + 1 + i
        <5> DEFINE l == Len(stream)
                   s == written'[m]
        <5>1. l \in Nat /\ s \in Nat /\ p \in 1..(l + s) /\ p \notin 1..l
          BY <1>1, <2>1, <2>2, <2>4
        <5> HIDE DEF l, s
        <5>2. p - (l + 1) \in 0..(s - 1) /\ p = l + 1 + (p - (l + 1))
          BY <5>1
        <5> QED  BY <5>2 DEF l, s
      <4>2. stream'[p] = <<m, i>>
        BY <2>1, <4>1
      <4>3. i = 0
        BY <4>2 DEF IsHeader
      <4> QED  BY <4>1, <4>3, <1>1
    <3> DEFINE q == Written + 1
    <3>2. /\ q \in 1..Written' /\ q \in 1..Len(offered) /\ offered'[q] = m
          /\ q = Written'
      <4>1. q \in 1..Len(offered)
        BY <1>1, <2>1
      <4> QED  BY <4>1, <1>1, <2>1 DEF SenderKept, Kept
    <3> HIDE DEF q
    <3>3. PICK r : r = q
      OBVIOUS
    <3>4. stream'[p] = <<m, 0>> /\ stream'[p][1] = m
      <4>1. stream'[Len(stream) + 1 + 0] = <<m, 0>>
        BY <2>1, <2>2, SMTT(30)
      <4> QED  BY <4>1, <3>1, <1>1
    <3>5. \A i \in 0..(written'[offered'[r]] - 1) :
              p + i <= Len(stream') /\ stream'[p + i] = <<offered'[r], i>>
      BY <1>1, <2>1, <2>2, <3>1, <3>2, <3>3, SMTT(30)
    <3>6. /\ p + written'[offered'[r]] = Len(stream') + 1
          /\ Len(stream') \in Nat /\ r = Written'
      <4>1. offered'[r] = m /\ r = Written'
        BY <3>2, <3>3
      <4>2. PICK w \in Nat : w = written'[m]
        BY <2>2
      <4>3. p + w = Len(stream') + 1 /\ Len(stream') \in Nat
        <5>1. Len(stream') = Len(stream) + w
          BY <2>1, <4>2
        <5> QED  BY <1>1, <3>1, <5>1
      <4> QED  BY <4>1, <4>2, <4>3
    <3>7. MessageAt(p, r, 0)'
      <4>1. /\ p + written'[offered'[r]] \in 1..(Len(stream') + 1) /\ r \in 0..Written'
            /\ ~(p + written'[offered'[r]] <= Len(stream'))
        BY <3>6, <2>2
      <4> QED  BY <3>5, <3>6, <4>1 DEF MessageAt, Follows
    <3> QED  BY <3>2, <3>3, <3>4, <3>7
  <2> QED  BY <2>3, <2>4
<1> QED  BY <1>3, <1>4 DEF SenderKept

\* A read of n units moves what is behind them to the front.
Shifted(n) ==
    /\ TypeOK /\ OfferedInv /\ WrittenInv /\ UNCHANGED sendvars
    /\ n \in 0..Len(stream) /\ Len(stream') = Len(stream) - n
    /\ \A i \in 1..(Len(stream) - n) : stream'[i] = stream[n + i]

LEMMA FollowsShift ==
    ASSUME NEW CONSTANT n, Shifted(n), NEW CONSTANT p, p \in Nat \ {0}, NEW CONSTANT q, Follows(p + n, q)
    PROVE  Follows(p, q)'
<1>1. Len(stream) \in Nat /\ Written' = Written /\ offered' = offered
  BY OfferedFacts DEF Shifted, sendvars, Written
<1>2. /\ p + n \in 1..(Len(stream) + 1) /\ q \in 0..Written
      /\ p + n = Len(stream) + 1 <=> q = Written
      /\ p + n <= Len(stream) => stream[p + n] = <<offered[q + 1], 0>>
  BY DEF Follows
<1>3. n \in 0..Len(stream) /\ Len(stream') = Len(stream) - n
  BY DEF Shifted
<1>4. /\ p \in 1..(Len(stream') + 1)
      /\ p = Len(stream') + 1 <=> p + n = Len(stream) + 1
      /\ p <= Len(stream') <=> p + n <= Len(stream)
  BY <1>1, <1>2, <1>3
<1>5. p <= Len(stream') => stream'[p] = stream[p + n]
  <2> SUFFICES ASSUME p <= Len(stream') PROVE stream'[p] = stream[p + n]
    OBVIOUS
  <2>1. p \in 1..(Len(stream) - n) /\ n + p = p + n
    BY <1>1, <1>3
  <2> QED  BY <2>1 DEF Shifted
<1> QED  BY <1>1, <1>2, <1>4, <1>5 DEF Follows

LEMMA MessageShift ==
    ASSUME NEW CONSTANT n, Shifted(n), NEW CONSTANT p, p \in Nat, NEW CONSTANT q \in 1..Written,
           NEW CONSTANT k \in Nat, p + k >= 1, MessageAt(p + n, q, k)
    PROVE  MessageAt(p, q, k)' /\ q \in 1..Written'
<1>1. /\ Len(stream) \in Nat /\ Written' = Written /\ offered' = offered /\ written' = written
      /\ Written \in 0..Len(offered) /\ Len(offered) \in Nat
  BY OfferedFacts DEF Shifted, sendvars, Written
<1>2. q \in 1..Len(offered) /\ written[offered[q]] \in Nat \ {0}
  <2>1. q \in 1..Len(offered)
    BY <1>1
  <2>2. size[offered[q]] \in Nat
    BY <2>1, OfferedFacts DEF Shifted
  <2>3. written[offered[q]] \in 1..(size[offered[q]] + 1)
    BY DEF Shifted, WrittenInv
  <2> QED  BY <2>1, <2>2, <2>3
<1>3. n \in 0..Len(stream) /\ Len(stream') = Len(stream) - n
  BY DEF Shifted
<1>4. PICK e \in Nat \ {0} : e = p + written[offered[q]]
  BY <1>2
<1>5. Follows(e, q)'
  <2>1. e + n = (p + n) + written[offered[q]]
    BY <1>2, <1>3, <1>4, SMTT(30)
  <2>2. Follows((p + n) + written[offered[q]], q)
    BY DEF MessageAt
  <2>3. Follows(e + n, q)
    BY <2>1, <2>2
  <2> QED  BY <2>3, FollowsShift
<1>6. ASSUME NEW i \in k..(written'[offered'[q]] - 1)
      PROVE  p + i <= Len(stream') /\ stream'[p + i] = <<offered'[q], i>>
  <2>1. i \in k..(written[offered[q]] - 1) /\ i \in Nat
    BY <1>1, <1>2, <1>6
  <2>2. (p + n) + i <= Len(stream) /\ stream[(p + n) + i] = <<offered[q], i>>
    BY <2>1 DEF MessageAt
  <2>3. p + i \in 1..(Len(stream) - n) /\ n + (p + i) = (p + n) + i
    <3>1. p + i >= 1 /\ i \in Nat
      BY <2>1
    <3> QED  BY <2>2, <3>1, <1>1, <1>3
  <2>4. stream'[p + i] = stream[n + (p + i)]
    BY <2>3 DEF Shifted
  <2> QED  BY <2>2, <2>3, <2>4, <1>1, <1>3
<1>7. MessageAt(p, q, k)'
  BY <1>1, <1>4, <1>5, <1>6 DEF MessageAt, Follows
<1> QED  BY <1>1, <1>7

LEMMA StreamShift ==
    ASSUME NEW CONSTANT n, Shifted(n), StreamInv
    PROVE  StreamInv'
<1> SUFFICES ASSUME NEW CONSTANT p, p \in 1..Len(stream'), IsHeader(stream'[p])
             PROVE  \E q \in 1..Written' : stream'[p][1] = offered'[q] /\ MessageAt(p, q, 0)'
  BY DEF StreamInv, IsHeader
<1>1. /\ Len(stream) \in Nat /\ Written' = Written /\ offered' = offered
      /\ n \in 0..Len(stream) /\ Len(stream') = Len(stream) - n
  BY OfferedFacts DEF Shifted, sendvars, Written
<1>2. /\ p \in 1..(Len(stream) - n) /\ n + p = p + n /\ p + n \in 1..Len(stream)
      /\ p \in Nat /\ p + 0 >= 1
  BY <1>1
<1>3. stream'[p] = stream[p + n]
  BY <1>2 DEF Shifted
<1>4. PICK q \in 1..Written : stream[p + n][1] = offered[q] /\ MessageAt(p + n, q, 0)
  BY <1>2, <1>3 DEF StreamInv, IsHeader
<1>5. MessageAt(p, q, 0)' /\ q \in 1..Written'
  BY <1>2, <1>4, MessageShift
<1> QED  BY <1>1, <1>3, <1>4, <1>5

-----------------------------------------------------------------------------
(* The messages among the first k.                                         *)

LEMMA NonEmptyStep ==
    ASSUME TypeOK, OfferedInv, NEW k \in 1..Len(offered)
    PROVE  /\ IsFiniteSet(NonEmpty(k - 1)) /\ Cardinality(NonEmpty(k - 1)) \in Nat
           /\ size[offered[k]] = 0 => NonEmpty(k) = NonEmpty(k - 1)
           /\ size[offered[k]] > 0 => /\ NonEmpty(k) = NonEmpty(k - 1) \cup {k}
                                      /\ Cardinality(NonEmpty(k)) = Cardinality(NonEmpty(k - 1)) + 1
<1>1. k \in Nat /\ k - 1 \in Nat /\ size[offered[k]] \in Nat
  BY OfferedFacts
<1>2. IsFiniteSet(NonEmpty(k - 1)) /\ Cardinality(NonEmpty(k - 1)) \in Nat
  <2>1. PICK j \in Int : j = k - 1
    BY <1>1
  <2>2. IsFiniteSet(NonEmpty(j))
    <3>1. IsFiniteSet(1..j)
      BY FS_Interval
    <3>2. NonEmpty(j) \subseteq 1..j
      BY DEF NonEmpty
    <3> QED  BY <3>1, <3>2, FS_Subset
  <2> QED  BY <2>1, <2>2, FS_CardinalityType
<1>3. \A j : j \in 1..k <=> (j \in 1..(k - 1) \/ j = k)
  BY <1>1
<1>4. size[offered[k]] = 0 => NonEmpty(k) = NonEmpty(k - 1)
  BY <1>1, <1>3 DEF NonEmpty
<1>5. ASSUME size[offered[k]] > 0
      PROVE  /\ NonEmpty(k) = NonEmpty(k - 1) \cup {k}
             /\ Cardinality(NonEmpty(k)) = Cardinality(NonEmpty(k - 1)) + 1
  <2>1. NonEmpty(k) = NonEmpty(k - 1) \cup {k}
    BY <1>1, <1>3, <1>5 DEF NonEmpty
  <2>2. k \notin NonEmpty(k - 1)
    BY <1>1 DEF NonEmpty
  <2> QED  BY <1>2, <2>1, <2>2, FS_AddElement
<1> QED  BY <1>2, <1>4, <1>5

LEMMA SelectedStep ==
    ASSUME TypeOK, OfferedInv, NEW k \in 1..Len(offered), NEW msgs \in Seq(Received),
           Selected(msgs, k - 1)
    PROVE  /\ size[offered[k]] = 0 => Selected(msgs, k)
           /\ size[offered[k]] > 0 => Selected(Append(msgs, offered[k]), k)
<1>1. size[offered[k]] = 0 => Selected(msgs, k)
  BY NonEmptyStep DEF Selected
<1>2. ASSUME size[offered[k]] > 0 PROVE Selected(Append(msgs, offered[k]), k)
  <2>1. /\ NonEmpty(k) = NonEmpty(k - 1) \cup {k}
        /\ Cardinality(NonEmpty(k)) = Len(msgs) + 1
    BY <1>2, NonEmptyStep DEF Selected
  <2>2. offered[k] \in Received
    BY OfferedFacts DEF Received
  <2> DEFINE more == Append(msgs, offered[k])
  <2>3. /\ Len(more) = Len(msgs) + 1 /\ Len(msgs) \in Nat /\ DOMAIN more = 1..(Len(msgs) + 1)
        /\ DOMAIN msgs = 1..Len(msgs)
        /\ \A i \in 1..Len(msgs) : more[i] = msgs[i]
        /\ more[Len(msgs) + 1] = offered[k]
    BY <2>2, AppendProperties
  <2> HIDE DEF more
  <2>4. ASSUME NEW i \in DOMAIN more
        PROVE  \E j \in NonEmpty(k) : more[i] = offered[j] /\ Cardinality(NonEmpty(j)) = i
    <3>1. CASE i = Len(msgs) + 1
      BY <2>1, <2>3, <3>1
    <3>2. CASE i \in DOMAIN msgs
      BY <2>1, <2>3, <3>2 DEF Selected
    <3> QED  BY <2>3, <3>1, <3>2
  <2>5. Len(more) = Cardinality(NonEmpty(k))
    BY <2>1, <2>3
  <2>6. Selected(more, k)
    BY <2>4, <2>5 DEF Selected
  <2> QED  BY <2>6 DEF more
<1> QED  BY <1>1, <1>2

LEMMA NonEmptyCount ==
    ASSUME NEW q \in Int
    PROVE  IsFiniteSet(NonEmpty(q)) /\ Cardinality(NonEmpty(q)) \in Nat
<1>1. IsFiniteSet(1..q) /\ NonEmpty(q) \subseteq 1..q
  BY FS_Interval DEF NonEmpty
<1> QED  BY <1>1, FS_Subset, FS_CardinalityType

LEMMA SelectedBegins ==
    ASSUME NEW msgs \in Seq(Received), NEW q, Selected(msgs, q)
    PROVE  Begins(msgs, q)
<1>1. DOMAIN msgs = 1..Cardinality(NonEmpty(q)) /\ Len(msgs) >= Cardinality(NonEmpty(q))
  BY DEF Selected
<1> QED  BY <1>1 DEF Selected, Begins

\* What is delivered later does not change how it begins.
LEMMA BeginsConcat ==
    ASSUME NEW msgs \in Seq(Received), NEW more \in Seq(Received), NEW q \in Int, Begins(msgs, q)
    PROVE  Begins(msgs \o more, q)
<1> DEFINE all == msgs \o more
           n   == Cardinality(NonEmpty(q))
<1>1. /\ Len(all) = Len(msgs) + Len(more) /\ Len(msgs) \in Nat /\ Len(more) \in Nat
      /\ \A i \in 1..Len(msgs) : all[i] = msgs[i]
  BY ConcatProperties
<1>2. n \in Nat /\ Len(msgs) >= n
  BY NonEmptyCount DEF Begins
<1> HIDE DEF all, n
<1>3. Len(all) >= n /\ \A i \in 1..n : all[i] = msgs[i]
  BY <1>1, <1>2
<1>4. Begins(all, q)
  BY <1>3 DEF Begins, n
<1> QED  BY <1>4 DEF all

\* The body of message m, when units has it behind position p.
LEMMA BodyIsWhole ==
    ASSUME NEW m \in Msgs, NEW s \in Nat, s = size[m], s > 0, NEW stored \in Seq(Units), NEW p \in Nat,
           \A i \in 1..s : p + i <= Len(stored) /\ stored[p + i] = <<m, i>>
    PROVE  MessageIn(SubSeq(stored, p + 1, p + s), s) = m
<1> DEFINE units == SubSeq(stored, p + 1, p + s)
<1>1. Len(stored) \in Nat
  OBVIOUS
<1>2. \A i \in 1..s : p + i <= Len(stored) /\ stored[p + i] = <<m, i>>
  OBVIOUS
<1>3. p + s <= Len(stored) /\ \A i \in (p + 1)..(p + s) : i \in 1..Len(stored) /\ stored[i] \in Units
  <2>1. p + s <= Len(stored)
    BY <1>2
  <2> QED  BY <2>1, <1>1
<1>4. /\ units \in Seq(Units) /\ Len(units) = s
      /\ \A i \in 1..s : units[i] = stored[p + i]
  <2>1. PICK a \in Int, b \in Int : a = p + 1 /\ b = p + s
    OBVIOUS
  <2>2. /\ SubSeq(stored, a, b) \in Seq(Units)
        /\ Len(SubSeq(stored, a, b)) = IF a <= b THEN b - a + 1 ELSE 0
        /\ \A i \in 1..(b - a + 1) : SubSeq(stored, a, b)[i] = stored[a + i - 1]
    <3>1. \A i \in a..b : stored[i] \in Units
      BY <1>3, <2>1
    <3> QED  BY <3>1, SubSeqProperties
  <2>3. /\ a <= b /\ b - a + 1 = s /\ \A i \in 1..s : a + i - 1 = p + i
    BY <2>1, SMTT(30)
  <2> QED  BY <2>1, <2>2, <2>3, ZenonT(30)
<1> HIDE DEF units
<1>5. units = [i \in 1..s |-> <<m, i>>]
  <2>1. \A i \in 1..s : units[i] = <<m, i>>
    BY <1>2, <1>4
  <2>2. units = [i \in 1..s |-> units[i]]
    BY <1>4
  <2> QED  BY <2>1, <2>2
<1>6. units # <<>> /\ units[1][1] = m
  <2>1. 1 \in 1..s
    OBVIOUS
  <2>2. units[1] = <<m, 1>>
    BY <2>1, <1>5
  <2> QED  BY <2>2, <1>4
<1>7. MessageIn(units, s) = m
  BY <1>4, <1>5, <1>6 DEF MessageIn, BodyOf
<1> QED  BY <1>7 DEF units

LEMMA ConcatTwice ==
    \A s, t, u \in Seq(Received) : (s \o t) \o u = s \o (t \o u)
<1> SUFFICES ASSUME NEW s \in Seq(Received), NEW t \in Seq(Received), NEW u \in Seq(Received)
             PROVE  (s \o t) \o u = s \o (t \o u)
  OBVIOUS
<1> QED  BY SMT

\* A bulk read of n units, from a header on, that leaves no part of a body behind:
\* it is cut into the messages that it has, unless it meets an illegal size or a
\* message that is torn.
LEMMA CutWhole ==
    ASSUME TypeOK, OfferedInv, WrittenInv, StreamInv, NEW g \in Nat,
           NEW n \in 1..Len(stream), ~CutsBody(n),
           NEW units \in Seq(Units), Len(units) = n, \A i \in 1..n : units[i] = stream[i],
           NEW f, IsCut(units, g, f),
           NEW p \in Positions, p <= n + 1, NEW q \in Nat, NEW msgs \in Seq(Received),
           Follows(p, q), Selected(msgs, q)
    PROVE  \/ f[p].bad
           \/ \E k \in 0..Written : Follows(n + 1, k) /\ Selected(msgs \o f[p].chunks, k)
           \/ \E k \in 1..Written : Torn(offered[k]) /\ Begins(msgs \o f[p].chunks, k - 1)
<1> DEFINE Whole(d) == \E k \in 0..Written : Follows(n + 1, k) /\ Selected(d, k)
           Cropped(d) == \E k \in 1..Written : Torn(offered[k]) /\ Begins(d, k - 1)
           Good(r, d) == f[r].bad \/ Whole(d \o f[r].chunks) \/ Cropped(d \o f[r].chunks)
           T == {k \in Nat : \A r \in Positions, j \in Nat, d \in Seq(Received) :
                     r <= n + 1 /\ r + k > n /\ Follows(r, j) /\ Selected(d, j) => Good(r, d)}
<1>n. /\ n \in Nat /\ n <= Len(stream) /\ Len(stream) \in Nat /\ Len(units) = n
      /\ size \in [Msgs -> Nat] /\ Written \in 0..Len(offered) /\ Len(offered) \in Nat
  <2>1. Len(stream) \in Nat
    BY TypeFacts
  <2> QED  BY <2>1, OfferedFacts, TypeFacts
<1>f. /\ \A r \in Positions : f[r] = CutStep(units, g, f, r)
      /\ \A r \in Positions : f[r] \in CutResults /\ f[r].chunks \in Seq(Received)
  <2>1. \A r \in Positions : f[r] \in CutResults
    BY <1>n, CutValues
  <2> QED  BY <2>1 DEF IsCut, CutResults
<1> HIDE DEF Whole, Cropped
<1>1. ASSUME NEW r \in Positions, NEW j \in Nat, NEW d \in Seq(Received),
             r = n + 1, Follows(r, j), Selected(d, j)
      PROVE  Good(r, d)
  <2>1. j \in 0..Written
    BY <1>1 DEF Follows
  <2>2. f[r] = [chunks |-> <<>>, bad |-> FALSE]
    BY <1>1, <1>f, <1>n DEF CutStep, Positions
  <2>3. d \o <<>> = d
    OBVIOUS
  <2>4. Whole(d)
    BY <1>1, <2>1 DEF Whole
  <2> QED  BY <2>2, <2>3, <2>4
<1>2. 0 \in T
  <2> SUFFICES ASSUME NEW r \in Positions, NEW j \in Nat, NEW d \in Seq(Received),
                      r <= n + 1, r + 0 > n, Follows(r, j), Selected(d, j)
               PROVE  Good(r, d)
    OBVIOUS
  <2>1. r = n + 1
    BY <1>n DEF Positions
  <2> HIDE DEF Good
  <2> QED  BY <2>1, <1>1
<1>3. ASSUME NEW k \in T PROVE k + 1 \in T
  <2> SUFFICES ASSUME NEW r \in Positions, NEW j \in Nat, NEW d \in Seq(Received),
                      r <= n + 1, r + (k + 1) > n, Follows(r, j), Selected(d, j)
               PROVE  Good(r, d)
    OBVIOUS
  <2>h. \A a \in Positions, b \in Nat, e \in Seq(Received) :
            a <= n + 1 /\ a + k > n /\ Follows(a, b) /\ Selected(e, b) => Good(a, e)
    BY <1>3
  <2>k. k \in Nat
    BY <1>3
  <2> HIDE DEF T, Good
  <2>1. CASE r = n + 1
    BY <2>1, <1>1
  <2>2. CASE r <= n
    <3>1. /\ r \in 1..n /\ j + 1 \in 1..Written /\ j + 1 \in 1..Len(offered)
          /\ stream[r] = <<offered[j + 1], 0>> /\ units[r] = stream[r]
      <4>1. r \in 1..n /\ r \in 1..Len(stream) /\ r # Len(stream) + 1
        BY <2>2, <1>n DEF Positions
      <4>2. j # Written /\ j \in 0..Written /\ stream[r] = <<offered[j + 1], 0>>
        BY <4>1, <2>2 DEF Follows
      <4> QED  BY <4>1, <4>2, <1>n
    <3>2. PICK i \in Nat : i = j + 1
      OBVIOUS
    <3>3. PICK s \in Nat : s = size[offered[i]]
      BY <3>1, <3>2, OfferedFacts
    <3>4. MessageAt(r, i, 0)
      <4>1. IsHeader(stream[r]) /\ stream[r][1] = offered[i] /\ r \in 1..Len(stream)
        BY <3>1, <3>2, <1>n DEF IsHeader
      <4>2. PICK b \in 1..Written : offered[i] = offered[b] /\ MessageAt(r, b, 0)
        BY <4>1 DEF StreamInv
      <4>3. i \in DOMAIN offered /\ b \in DOMAIN offered
        BY <3>1, <3>2, <1>n, OfferedFacts
      <4>4. b = i
        BY <4>2, <4>3 DEF OfferedInv
      <4> QED  BY <4>2, <4>4
    <3>5. SizeAt(units, g, r) = s
      BY <3>1, <3>2, <3>3 DEF SizeAt, IsHeader
    <3>6. Selected(d, i - 1) /\ i - 1 = j /\ i \in 1..Written /\ i \in 1..Len(offered)
          /\ offered[i] \in Msgs
      BY <3>1, <3>2, OfferedFacts
    <3>7. CASE Torn(offered[i])
      <4>1. Begins(d, i - 1)
        BY <3>6, SelectedBegins
      <4>2. Begins(d \o f[r].chunks, i - 1)
        BY <4>1, <3>6, <1>f, BeginsConcat
      <4>3. Cropped(d \o f[r].chunks)
        BY <4>2, <3>6, <3>7 DEF Cropped
      <4> QED  BY <4>3 DEF Good
    <3>8. CASE ~Torn(offered[i])
      <4>1. written[offered[i]] = s + 1
        <5>1. written[offered[i]] \in 1..(s + 1)
          BY <3>3, <3>6 DEF WrittenInv
        <5> QED  BY <5>1, <3>3, <3>8 DEF Torn
      <4>2. /\ \A b \in 0..s : r + b <= Len(stream) /\ stream[r + b] = <<offered[i], b>>
            /\ Follows(r + s + 1, i)
        <5>1. r \in Nat /\ s \in Nat
          BY DEF Positions
        <5>2. (s + 1) - 1 = s /\ r + (s + 1) = r + s + 1
          BY <5>1
        <5>3. written[offered[i]] - 1 = s /\ r + written[offered[i]] = r + s + 1
          BY <4>1, <5>2, Zenon
        <5> QED  BY <5>3, <3>4 DEF MessageAt
      <4>3. r + s <= n
        <5> SUFFICES ASSUME ~(r + s <= n) PROVE FALSE
          OBVIOUS
        <5>1. PICK b \in Nat : b = n + 1 - r
          BY <3>1, <1>n
        <5>2. b \in 0..s /\ b # 0 /\ r + b = n + 1
          BY <3>1, <5>1, <1>n
        <5>3. stream[n + 1] = <<offered[i], b>> /\ n < Len(stream)
          BY <4>2, <5>2, <1>n
        <5>4. ~IsHeader(stream[n + 1])
          BY <5>2, <5>3 DEF IsHeader
        <5> QED  BY <5>3, <5>4 DEF CutsBody
      <4>4. /\ s = 0 => Selected(d, i)
            /\ s > 0 => Selected(Append(d, offered[i]), i)
        BY <3>3, <3>6, SelectedStep
      <4>5. CASE s > MaxSize
        <5>1. f[r].bad
          BY <3>1, <3>5, <4>5, <1>f, <1>n DEF CutStep
        <5> QED  BY <5>1 DEF Good
      <4>6. CASE ~(s > MaxSize) /\ r = n
        <5>1. s = 0 /\ r + s + 1 = n + 1
          BY <4>3, <4>6, <1>n
        <5>2. f[r] = [chunks |-> <<>>, bad |-> FALSE]
          BY <3>5, <4>6, <1>f, <1>n DEF CutStep
        <5>3. d \o <<>> = d
          OBVIOUS
        <5>4. Whole(d)
          <6>1. Follows(n + 1, i) /\ Selected(d, i) /\ i \in 0..Written
            BY <4>2, <4>4, <5>1, <3>6
          <6> QED  BY <6>1 DEF Whole
        <5> QED  BY <5>2, <5>3, <5>4 DEF Good
      <4>7. CASE ~(s > MaxSize) /\ r < n
        <5> DEFINE rest == f[r + 1 + s]
                   this == IF s = 0 THEN <<>> ELSE <<offered[i]>>
        <5>1. /\ r + 1 + s \in Positions /\ r + 1 + s + k > n /\ r + 1 + s = r + s + 1
              /\ r + 1 + s <= n + 1
          BY <4>3, <1>n, <2>k DEF Positions
        <5>2. rest \in CutResults /\ rest.chunks \in Seq(Received)
          BY <5>1, <1>f
        <5>3. f[r] = Chunk(units, r, s, rest)
          <6>1. f[r] = CutStep(units, g, f, r)
            BY <1>f
          <6>2. r \in Nat /\ ~(r > Len(units)) /\ r # Len(units)
            BY <4>7, <1>n DEF Positions
          <6> QED  BY <6>1, <6>2, <3>5, <4>7 DEF CutStep
        <5>4. Chunk(units, r, s, rest) = [rest EXCEPT !.chunks = this \o rest.chunks]
          <6>1. ASSUME s > 0 PROVE MessageIn(SubSeq(units, r + 1, r + s), s) = offered[i]
            <7>1. \A b \in 1..s : r + b <= Len(units) /\ units[r + b] = <<offered[i], b>>
              <8> SUFFICES ASSUME NEW b \in 1..s
                           PROVE  r + b <= Len(units) /\ units[r + b] = <<offered[i], b>>
                OBVIOUS
              <8>1. r + b \in 1..n /\ b \in 0..s
                BY <3>1, <4>3, <1>n
              <8>2. units[r + b] = stream[r + b] /\ stream[r + b] = <<offered[i], b>>
                BY <8>1, <4>2
              <8> QED  BY <8>1, <8>2, <1>n
            <7>2. r \in Nat
              BY DEF Positions
            <7> QED  BY <6>1, <7>1, <7>2, <3>3, <3>6, BodyIsWhole, ZenonT(30)
          <6>2. ~(r + s > Len(units))
            BY <4>3, <1>n DEF Positions
          <6>3. CASE s = 0
            BY <6>3 DEF Chunk
          <6>4. CASE s > 0
            <7> HIDE DEF rest
            <7> QED  BY <6>1, <6>2, <6>4 DEF Chunk
          <6> QED  BY <6>3, <6>4
        <5>5. /\ d \o this \in Seq(Received) /\ Selected(d \o this, i)
              /\ d \o (this \o rest.chunks) = (d \o this) \o rest.chunks
          <6>1. offered[i] \in Received
            BY <3>6 DEF Received
          <6>2. d \o <<>> = d /\ d \o <<offered[i]>> = Append(d, offered[i])
            BY <6>1
          <6>3. this \in Seq(Received)
            BY <6>1
          <6>4. Selected(d \o this, i)
            <7>1. CASE s = 0
              BY <4>4, <6>2, <7>1
            <7>2. CASE s > 0
              <8>1. d \o this = Append(d, offered[i])
                BY <6>2, <7>2
              <8> QED  BY <4>4, <7>2, <8>1
            <7> QED  BY <7>1, <7>2
          <6> HIDE DEF this, rest
          <6>5. d \o this \in Seq(Received)
            BY <6>3
          <6>6. d \o (this \o rest.chunks) = (d \o this) \o rest.chunks
            <7> DEFINE u == rest.chunks
            <7>1. u \in Seq(Received)
              BY <5>2
            <7> HIDE DEF u
            <7>2. (d \o this) \o u = d \o (this \o u)
              BY <7>1, <6>3, ConcatTwice, ZenonT(30)
            <7> QED  BY <7>2 DEF u
          <6> QED  BY <6>4, <6>5, <6>6
        <5>6. Good(r + 1 + s, d \o this)
          BY <5>1, <5>5, <4>2, <2>h
        <5> HIDE DEF this
        <5>7. rest.bad \/ Whole((d \o this) \o rest.chunks) \/ Cropped((d \o this) \o rest.chunks)
          BY <5>6 DEF Good
        <5> HIDE DEF rest
        <5>8. f[r].bad = rest.bad /\ f[r].chunks = this \o rest.chunks
          <6>1. f[r] = [rest EXCEPT !.chunks = this \o rest.chunks]
            BY <5>3, <5>4
          <6> QED  BY <6>1, <5>2 DEF CutResults
        <5> QED  BY <5>5, <5>7, <5>8 DEF Good
      <4> QED  BY <4>5, <4>6, <4>7, <2>2, <1>n DEF Positions
    <3> QED  BY <3>7, <3>8
  <2> QED  BY <2>1, <2>2, <1>n DEF Positions
<1>4. n \in T
  <2>1. T = Nat
    <3> HIDE DEF T
    <3>1. T \subseteq Nat
      BY DEF T
    <3> QED  BY <3>1, <1>2, <1>3, InductOnNat
  <2> QED  BY <2>1, <1>n
<1>5. Good(p, msgs)
  <2>1. p + n > n
    BY <1>n DEF Positions
  <2> HIDE DEF Good
  <2> QED  BY <2>1, <1>4
<1> QED  BY <1>5 DEF Whole, Cropped

-----------------------------------------------------------------------------
(* The receivers.                                                          *)

LEMMA DeliverySender ==
    ASSUME SenderKept, UNCHANGED recvvars, closed \subseteq closed', DeliveryInv
    PROVE  DeliveryInv'
<1>1. UNCHANGED <<reads, rpc, rcall, failed, delivered, astray>>
  BY DEF recvvars
<1>2. CASE astray
  BY <1>1, <1>2 DEF DeliveryInv
<1>3. PICK d : d = delivered
  OBVIOUS
<1>4. Written \in 0..Len(offered) /\ Len(offered) \in Nat
  BY OfferedFacts DEF SenderKept
<1>5. CASE ~astray /\ Between
  <2>1. PICK q \in 0..Written : Follows(1, q) /\ Selected(d, q)
    BY <1>3, <1>5 DEF Between, BetweenMessages
  <2>2. Follows(1, q)'
    BY <2>1, FollowsGrow
  <2>3. Selected(d, q)'
    <3>1. q \in 0..Len(offered)
      BY <1>4
    <3> QED  BY <2>1, <3>1, SelectedGrow DEF SenderKept
  <2>4. BetweenMessages'
    <3>1. q \in 0..Written'
      BY <2>2 DEF Follows
    <3>2. d = delivered'
      BY <1>1, <1>3
    <3>3. Selected(delivered, q)'
      BY <2>3, <3>2 DEF Selected
    <3> QED  BY <2>2, <3>1, <3>3 DEF BetweenMessages
  <2>5. Ready'
    BY <1>1, <1>5 DEF Between, Ready, Starts
  <2> QED  BY <1>1, <1>5, <2>4, <2>5 DEF DeliveryInv, Between
<1>6. CASE ~astray /\ Within
  <2>1. PICK q \in 1..Written, c \in Recvs : InMessage(q) /\ BodyNext(c, size[offered[q]])
    BY <1>6 DEF Within
  <2>2. MessageAt(0, q, 1)' /\ q \in 1..Written'
    BY <2>1, MessageGrow DEF InMessage
  <2>3. PICK r : r = q - 1
    OBVIOUS
  <2>4. r \in 0..Len(offered) /\ q \in 1..Len(offered)
    BY <1>4, <2>3
  <2>5. Selected(d, r)'
    <3>1. Selected(d, r)
      BY <1>3, <2>1, <2>3 DEF InMessage
    <3> QED  BY <2>4, <3>1, SelectedGrow DEF SenderKept
  <2>6. size'[offered'[q]] = size[offered[q]] /\ ~Torn(offered[q])'
    <3>1. ~Torn(offered[q])
      BY <2>1 DEF InMessage
    <3> QED  BY <2>4, <3>1, TornKept DEF SenderKept, Kept
  <2>7. InMessage(q)'
    <3>1. d = delivered' /\ r = q - 1
      BY <1>1, <1>3, <2>3
    <3>2. Selected(delivered, q - 1)'
      BY <2>5, <3>1 DEF Selected
    <3> QED  BY <2>2, <2>6, <3>2 DEF InMessage
  <2>8. BodyNext(c, size[offered[q]])'
    BY <2>1, <2>6, <1>1 DEF BodyNext
  <2> QED  BY <1>1, <1>6, <2>2, <2>7, <2>8 DEF DeliveryInv, Within
<1>7. CASE ~astray /\ Stopped
  <2>1. PICK q \in 0..Written : Selected(d, q)
    BY <1>3, <1>7 DEF Stopped
  <2>2. Selected(d, q)' /\ q \in 0..Written'
    <3>1. q \in 0..Len(offered)
      BY <1>4
    <3>2. Written' = Written \/ Written' = Written + 1
      BY DEF SenderKept, Written1
    <3>3. q \in 0..Written'
      BY <1>4, <3>2
    <3> QED  BY <2>1, <3>1, <3>3, SelectedGrow DEF SenderKept
  <2>3. Selected(delivered, q)'
    BY <1>1, <1>3, <2>2 DEF Selected
  <2>4. Stopped'
    BY <1>1, <1>7, <2>2, <2>3 DEF Stopped
  <2> QED  BY <1>1, <1>7, <2>4 DEF DeliveryInv
<1>8. CASE ~astray /\ Lost
  <2>1. PICK q \in 1..Written : Torn(offered[q]) /\ Begins(d, q - 1)
    BY <1>3, <1>8 DEF Lost
  <2>2. PICK k : k = q - 1
    OBVIOUS
  <2>3. k \in 0..Len(offered)
    BY <1>4, <2>2
  <2>4. Begins(d, k)'
    BY <2>1, <2>2, <2>3, BeginsGrow DEF SenderKept
  <2>5. Begins(delivered, q - 1)'
    BY <1>1, <1>3, <2>2, <2>4 DEF Begins
  <2>6. Lost'
    BY <2>1, <2>5, TornKept DEF Lost
  <2> QED  BY <1>1, <1>8, <2>6 DEF DeliveryInv
<1> QED  BY <1>2, <1>5, <1>6, <1>7, <1>8 DEF DeliveryInv

\* A step that only touches the list, its worker and the calls.
LEMMA MessagesQuiet ==
    ASSUME UNCHANGED <<sendvars, stream, delivered>>
    PROVE  /\ BetweenMessages => BetweenMessages'
           /\ Written' = Written /\ offered' = offered /\ size' = size
           /\ \A q \in 1..Written : InMessage(q) => InMessage(q)'
           /\ \A q \in 0..Written : Selected(delivered, q) => Selected(delivered, q)'
           /\ Lost => Lost'
<1>1. /\ Written' = Written /\ offered' = offered /\ size' = size /\ written' = written
      /\ stream' = stream /\ delivered' = delivered
  BY DEF sendvars, Written
<1>2. ASSUME NEW CONSTANT p, NEW CONSTANT q, Follows(p, q) PROVE Follows(p, q)' /\ q \in 0..Written'
  BY <1>1, <1>2 DEF Follows
<1>3. ASSUME NEW CONSTANT q, Selected(delivered, q) PROVE Selected(delivered, q)'
  <2>1. \A k : NonEmpty(k)' = NonEmpty(k)
    BY <1>1 DEF NonEmpty
  <2> QED  BY <1>1, <1>3, <2>1 DEF Selected
<1>4. BetweenMessages => BetweenMessages'
  BY <1>2, <1>3 DEF BetweenMessages
<1>5. ASSUME NEW CONSTANT q, InMessage(q) PROVE InMessage(q)'
  <2>1. MessageAt(0, q, 1)' /\ ~Torn(offered[q])'
    BY <1>1, <1>5 DEF InMessage, MessageAt, Follows, Torn
  <2>2. PICK r : r = q - 1
    OBVIOUS
  <2>3. Selected(delivered, r)'
    BY <1>3, <1>5, <2>2 DEF InMessage
  <2> QED  BY <2>1, <2>2, <2>3 DEF InMessage
<1>6. ASSUME Lost PROVE Lost'
  <2>1. PICK q \in 1..Written : Torn(offered[q]) /\ Begins(delivered, q - 1)
    BY <1>6 DEF Lost
  <2>2. \A k : NonEmpty(k)' = NonEmpty(k)
    BY <1>1 DEF NonEmpty
  <2>3. Begins(delivered, q - 1)' /\ Torn(offered[q])'
    BY <1>1, <2>1, <2>2 DEF Begins, Torn
  <2> QED  BY <1>1, <2>1, <2>3 DEF Lost
<1> QED  BY <1>1, <1>3, <1>4, <1>5, <1>6

\* Once a message is torn, what came before it stays, whatever is delivered.
LEMMA LostNext ==
    ASSUME UNCHANGED sendvars, NEW q \in 1..Written, Torn(offered[q]), Begins(delivered', q - 1)
    PROVE  Lost'
<1>1. Written' = Written /\ offered' = offered /\ size' = size /\ written' = written
  BY DEF sendvars, Written
<1>2. \A k : NonEmpty(k)' = NonEmpty(k)
  BY <1>1 DEF NonEmpty
<1>3. Begins(delivered, q - 1)' /\ Torn(offered[q])'
  BY <1>1, <1>2 DEF Begins, Torn
<1> QED  BY <1>1, <1>3 DEF Lost

LEMMA LostStays ==
    ASSUME TypeOK, OfferedInv, UNCHANGED sendvars, Lost,
           NEW more \in Seq(Received), delivered' = delivered \o more
    PROVE  Lost'
<1>1. PICK q \in 1..Written : Torn(offered[q]) /\ Begins(delivered, q - 1)
  BY DEF Lost
<1>2. delivered \in Seq(Received) /\ q - 1 \in Int
  BY OfferedFacts DEF TypeOK, Received
<1>3. Begins(delivered \o more, q - 1)
  BY <1>1, <1>2, BeginsConcat
<1> QED  BY <1>1, <1>3, LostNext

LEMMA DeliveryCalls ==
    ASSUME OneReceiver, TypeOK, ReadsInv, DeliveryInv, NEW c \in Recvs, Recv(c) \/ RecvReturns(c)
    PROVE  DeliveryInv'
<1>1. UNCHANGED <<sendvars, stream, delivered, astray, rpc, failed>>
  BY DEF Recv, RecvReturns
<1>2. CASE astray
  BY <1>1, <1>2 DEF DeliveryInv
<1>t. /\ rcall \in [Recvs -> {"new", "wait", "signalled", "returned"}]
      /\ \A i \in DOMAIN reads : reads[i].call \in Recvs /\ rcall[reads[i].call] # "new"
      /\ Len(reads) \in Nat /\ DOMAIN reads = 1..Len(reads) /\ reads \in Seq(ReadTasks)
      /\ \A i \in DOMAIN reads : reads[i] \in ReadTasks
  BY TypeFacts DEF TypeOK, ReadsInv
<1>3. CASE ~astray /\ Recv(c)
  <2>1. /\ rcall[c] = "new" /\ rcall' = [rcall EXCEPT ![c] = "wait"]
        /\ \A d \in Recvs : rcall[d] \in {"new", "returned"}
        /\ UNCHANGED reads \/ \E t \in {HdrTask(c), BulkTask(c)} : reads' = Append(reads, t)
    BY <1>3 DEF Recv
  <2>l. CASE Lost
    BY <1>1, <1>3, <2>l, MessagesQuiet DEF DeliveryInv
  <2>s. CASE Stopped
    <3>1. UNCHANGED <<reads, closed>>
      BY <1>3, <2>s DEF Recv, Stopped, endvars
    <3>2. Stopped'
      BY <1>1, <2>s, <3>1, MessagesQuiet DEF Stopped
    <3> QED  BY <1>1, <1>3, <3>2 DEF DeliveryInv
  <2> SUFFICES ASSUME ~Lost, ~Stopped PROVE DeliveryInv'
    BY <2>l, <2>s
  <2>2. Between
    BY <1>3, <2>1 DEF DeliveryInv, Within, BodyNext
  <2>3. \/ reads = <<>> /\ rpc = "idle"
        \/ /\ Len(reads) = 1 /\ rpc = "done" /\ 1 \in DOMAIN reads
           /\ reads[1].kind # "hdr" /\ rcall'[reads[1].call] # "wait"
    <3>1. \A i \in DOMAIN reads : ~Starts(reads[i])
      BY <1>t, <2>1 DEF Starts
    <3>2. reads # <<>> => 1 \in DOMAIN reads /\ rcall'[reads[1].call] = rcall[reads[1].call]
      BY <1>t, <2>1
    <3>3. Len(reads) = 2 => 2 \in DOMAIN reads
      BY <1>t
    <3> QED  BY <2>2, <3>1, <3>2, <3>3 DEF Between, Ready
  <2>4. ASSUME UNCHANGED reads PROVE Ready'
    BY <1>1, <2>3, <2>4, <1>t DEF Ready
  <2>5. ASSUME NEW t \in {HdrTask(c), BulkTask(c)}, reads' = Append(reads, t) PROVE Ready'
    <3>1. t \in ReadTasks /\ t.call = c
      <4>1. HdrTask(c) \in ReadTasks /\ BulkTask(c) \in ReadTasks
        BY TaskTypes
      <4>2. HdrTask(c).call = c /\ BulkTask(c).call = c
        BY DEF HdrTask, BulkTask
      <4> QED  BY <4>1, <4>2
    <3>2. rcall'[c] = "wait"
      BY <1>t, <2>1
    <3>3. /\ reads' # <<>> /\ Len(reads') = Len(reads) + 1
          /\ \A i \in DOMAIN reads : reads'[i] = reads[i]
          /\ reads'[Len(reads) + 1] = t
      BY <2>5, <3>1, ReadsAppend
    <3>4. rcall'[t.call] = "wait" /\ t \in {HdrTask(t.call), BulkTask(t.call)}
      BY <3>1, <3>2
    <3>5. CASE reads = <<>> /\ rpc = "idle"
      <4>1. Len(reads') = 1 /\ reads'[1] = t
        BY <3>3, <3>5
      <4> QED  BY <1>1, <3>3, <3>4, <3>5, <4>1 DEF Ready, Starts
    <3>6. CASE /\ Len(reads) = 1 /\ rpc = "done" /\ 1 \in DOMAIN reads
               /\ reads[1].kind # "hdr" /\ rcall'[reads[1].call] # "wait"
      <4>1. Len(reads') = 2 /\ reads'[1] = reads[1] /\ reads'[2] = t
        BY <3>3, <3>6
      <4> QED  BY <1>1, <3>3, <3>4, <3>6, <4>1 DEF Ready, Starts
    <3> QED  BY <2>3, <3>5, <3>6
  <2>6. Ready' /\ BetweenMessages'
    <3>1. BetweenMessages'
      BY <1>1, <2>2, MessagesQuiet DEF Between
    <3> QED  BY <2>1, <2>4, <2>5, <3>1
  <2> QED  BY <1>1, <1>3, <2>6 DEF DeliveryInv, Between
<1>4. CASE ~astray /\ RecvReturns(c)
  <2>1. /\ rcall[c] = "signalled" /\ rcall' = [rcall EXCEPT ![c] = "returned"]
        /\ UNCHANGED reads
    BY <1>4, ReturnEffect DEF DeliveryInv
  <2>2. \A d \in Recvs : rcall'[d] = "wait" <=> rcall[d] = "wait"
    BY <2>1, <1>t
  <2>3. CASE Between
    <3>1. /\ reads # <<>> => 1 \in DOMAIN reads
          /\ Len(reads) = 2 => 2 \in DOMAIN reads
      BY <1>t
    <3>2. Ready'
      BY <1>1, <2>1, <2>2, <2>3, <3>1, <1>t DEF Between, Ready, Starts
    <3> QED  BY <1>1, <1>4, <2>3, <3>2, MessagesQuiet DEF DeliveryInv, Between
  <2>4. CASE Within
    <3>1. PICK q \in 1..Written, d \in Recvs : InMessage(q) /\ BodyNext(d, size[offered[q]])
      BY <2>4 DEF Within
    <3>2. InMessage(q)' /\ Written' = Written /\ size' = size /\ offered' = offered
      BY <1>1, <3>1, MessagesQuiet
    <3>3. BodyNext(d, size[offered[q]])'
      BY <1>1, <2>1, <2>2, <3>1, <3>2 DEF BodyNext
    <3>4. Within'
      BY <3>1, <3>2, <3>3 DEF Within
    <3> QED  BY <1>1, <1>4, <3>4 DEF DeliveryInv
  <2>5. CASE Lost
    BY <1>1, <1>4, <2>5, MessagesQuiet DEF DeliveryInv
  <2>6. CASE Stopped
    <3>1. closed' = closed
      BY <1>4 DEF RecvReturns, endvars
    <3>2. Stopped'
      BY <1>1, <2>1, <2>6, <3>1, MessagesQuiet DEF Stopped
    <3> QED  BY <1>1, <1>4, <3>2 DEF DeliveryInv
  <2> QED  BY <1>4, <2>3, <2>4, <2>5, <2>6 DEF DeliveryInv
<1> QED  BY <1>2, <1>3, <1>4

LEMMA ReadvShifts ==
    ASSUME TypeOK, ReadsInv, OfferedInv, WrittenInv, UNCHANGED sendvars, NEW kind, NEW n,
           Readv(kind, n)
    PROVE  Shifted(n)
<1>1. n \in 1..Len(stream) /\ Len(stream) \in Nat
  BY ReadvEffect, TypeFacts
<1>2. n \in 0..Len(stream)
  BY <1>1
<1> QED  BY <1>2, ReadvEffect DEF Shifted

LEMMA AppendToOne ==
    ASSUME NEW S, NEW a \in S, NEW b \in S
    PROVE  Append(<<a>>, b) = <<a, b>>
<1> DEFINE x == Append(<<a>>, b)
           y == <<a, b>>
<1>1. <<a>> \in Seq(S) /\ Len(<<a>>) = 1
  OBVIOUS
<1>2. x \in Seq(S) /\ Len(x) = 2 /\ x[1] = a /\ x[2] = b
  BY <1>1, AppendProperties
<1>3. y \in Seq(S) /\ Len(y) = 2 /\ y[1] = a /\ y[2] = b
  OBVIOUS
<1>4. \A i \in 1..2 : x[i] = y[i]
  BY <1>2, <1>3
<1> HIDE DEF x, y
<1>5. x = y
  BY <1>2, <1>3, <1>4, SeqEqual
<1> QED  BY <1>5 DEF x, y

DeliveryHyp == TypeOK /\ ReadsInv /\ OfferedInv /\ WrittenInv /\ StreamInv /\ DeliveryInv

LEMMA DeliveryHdr ==
    ASSUME DeliveryHyp, ReadHdr
    PROVE  DeliveryInv'
<1> USE DEF DeliveryHyp
<1> SUFFICES ASSUME ~astray' PROVE DeliveryInv'
  BY DEF DeliveryInv
<1>1. /\ Readv("hdr", 1) /\ reads # <<>> /\ reads[1].call \in Recvs
      /\ reads[1].kind = "hdr" /\ rpc = "io" /\ rpc' = "done" /\ 1 \in 1..Len(stream)
      /\ UNCHANGED <<sendvars, delivered>>
  BY HdrEffect, ReadvEffect
<1>2. PICK s \in SizesIn(stream[1]) :
          /\ s \in Nat
          /\ \/ "receiver" \in closed /\ UNCHANGED reads
             \/ reads' = Append(reads, BodyTask(reads[1].call, s))
          /\ UNCHANGED <<rcall, failed, astray>>
  <2>1. ~Reject(reads[1].call)
    BY DEF Reject
  <2> QED  BY <2>1, HdrEffect
<1>3. PICK c \in Recvs : c = reads[1].call
  BY <1>1
<1>l. CASE Lost
  <2>1. delivered' = delivered \o <<>> /\ <<>> \in Seq(Received)
    BY <1>1 DEF TypeOK
  <2>2. Lost'
    BY <1>1, <1>l, <2>1, LostStays
  <2> QED  BY <1>2, <2>2 DEF DeliveryInv
<1> SUFFICES ASSUME ~Lost PROVE DeliveryInv'
  BY <1>l
<1>4. failed = {} /\ Between
  <2>1. ~Within /\ ~Stopped
    BY <1>1 DEF Within, BodyNext, BodyTask, Stopped
  <2> QED  BY <1>2, <2>1 DEF DeliveryInv
<1>5. reads = <<HdrTask(c)>> /\ rcall[c] = "wait"
  <2>1. Len(reads) = 1 /\ Starts(reads[1])
    BY <1>1, <1>4 DEF Between, Ready
  <2>2. reads[1] = HdrTask(c) /\ rcall[c] = "wait"
    BY <1>1, <1>3, <2>1 DEF Starts, HdrTask, BulkTask
  <2>3. reads \in Seq(ReadTasks)
    BY DEF TypeOK
  <2> QED  BY <2>1, <2>2, <2>3
<1>6. PICK j \in 0..Written : Follows(1, j) /\ Selected(delivered, j)
  BY <1>4 DEF Between, BetweenMessages
<1>7. Len(stream) \in Nat /\ Written \in 0..Len(offered) /\ Len(offered) \in Nat
  BY OfferedFacts
<1>8. /\ j + 1 \in 1..Written /\ stream[1] = <<offered[j + 1], 0>>
  <2>1. 1 # Len(stream) + 1 /\ 1 <= Len(stream)
    BY <1>1, <1>7
  <2>2. j # Written /\ stream[1] = <<offered[j + 1], 0>>
    BY <1>6, <2>1 DEF Follows
  <2> QED  BY <1>6, <1>7, <2>2
<1>9. PICK q \in 1..Written : q = j + 1
  BY <1>8
<1>10. MessageAt(1, q, 0)
  <2>1. IsHeader(stream[1]) /\ stream[1][1] = offered[q]
    BY <1>8, <1>9 DEF IsHeader
  <2>2. PICK b \in 1..Written : offered[q] = offered[b] /\ MessageAt(1, b, 0)
    BY <1>1, <2>1 DEF StreamInv
  <2>3. q \in DOMAIN offered /\ b \in DOMAIN offered
    BY <1>7, OfferedFacts
  <2>4. b = q
    BY <2>2, <2>3 DEF OfferedInv
  <2> QED  BY <2>2, <2>4
<1>11. s = size[offered[q]]
  BY <1>2, <1>8, <1>9 DEF SizesIn, IsHeader
<1>12. MessageAt(0, q, 1)' /\ q \in 1..Written'
  <2>1. PICK n \in Nat, p \in Nat, k \in Nat : n = 1 /\ p = 0 /\ k = 1
    OBVIOUS
  <2>2. MessageAt(p + n, q, k)
    <3>1. MessageAt(1, q, 1)
      BY <1>10 DEF MessageAt
    <3> QED  BY <2>1, <3>1
  <2>3. Shifted(n)
    BY <1>1, <2>1, ReadvShifts
  <2>4. p + k >= 1
    BY <2>1
  <2>5. MessageAt(p, q, k)' /\ q \in 1..Written'
    BY <2>2, <2>3, <2>4, MessageShift
  <2> QED  BY <2>1, <2>5
<1>13. /\ Written' = Written /\ offered' = offered /\ size' = size /\ written' = written
       /\ delivered' = delivered
  BY <1>1 DEF sendvars, Written
\* The message is torn.
<1>t. CASE Torn(offered[q])
  <2>1. delivered \in Seq(Received) /\ j = q - 1
    BY <1>6, <1>9 DEF TypeOK, Received
  <2>2. Begins(delivered', q - 1)
    BY <1>6, <1>13, <2>1, SelectedBegins
  <2>3. Lost'
    BY <1>1, <1>t, <2>2, LostNext
  <2> QED  BY <1>2, <1>4, <2>3 DEF DeliveryInv
\* The end was closed, and the task of the body is dropped.
<1>s. CASE "receiver" \in closed /\ UNCHANGED reads
  <2>1. Selected(delivered, j)'
    <3>1. \A k : NonEmpty(k)' = NonEmpty(k)
      BY <1>13 DEF NonEmpty
    <3> QED  BY <1>6, <1>13, <3>1 DEF Selected
  <2>2. closed' = closed
    BY HdrEffect DEF endvars
  <2>3. Len(reads') = 1 /\ reads' # <<>>
    BY <1>5, <1>s
  <2>4. Stopped'
    BY <1>1, <1>6, <1>13, <1>s, <2>1, <2>2, <2>3 DEF Stopped
  <2> QED  BY <1>2, <1>4, <2>4 DEF DeliveryInv
<1> SUFFICES ASSUME ~Torn(offered[q]), reads' = Append(reads, BodyTask(c, s)) PROVE DeliveryInv'
  BY <1>2, <1>3, <1>s, <1>t
<1>14. InMessage(q)'
  <2>1. PICK r : r = q - 1
    OBVIOUS
  <2>2. r = j
    BY <2>1, <1>6, <1>9
  <2>3. \A k : NonEmpty(k)' = NonEmpty(k)
    BY <1>13 DEF NonEmpty
  <2>4. Selected(delivered, r)'
    BY <1>6, <1>13, <2>2, <2>3 DEF Selected
  <2>5. ~Torn(offered[q])'
    BY <1>13 DEF Torn
  <2> QED  BY <1>12, <2>1, <2>4, <2>5 DEF InMessage
<1>15. BodyNext(c, size[offered[q]])'
  <2>1. reads' = Append(<<HdrTask(c)>>, BodyTask(c, s))
    BY <1>5
  <2>2. reads' = <<HdrTask(c), BodyTask(c, s)>>
    <3> HIDE DEF HdrTask, BodyTask
    <3>1. HdrTask(c) \in ReadTasks /\ BodyTask(c, s) \in ReadTasks
      BY <1>2, TaskTypes
    <3> QED  BY <2>1, <3>1, AppendToOne
  <2> QED  BY <1>1, <1>2, <1>5, <1>11, <1>13, <2>2 DEF BodyNext
<1>16. Within'
  BY <1>12, <1>14, <1>15 DEF Within
<1> QED  BY <1>2, <1>4, <1>16 DEF DeliveryInv

LEMMA DeliveryBody ==
    ASSUME DeliveryHyp, ReadBody
    PROVE  DeliveryInv'
<1> USE DEF DeliveryHyp
<1> SUFFICES ASSUME ~astray' PROVE DeliveryInv'
  BY DEF DeliveryInv
<1>1. PICK n \in 1..Len(stream) :
          /\ Readv("body", n) /\ reads # <<>>
          /\ delivered' = Append(delivered, MessageIn(SubSeq(stream, 1, n), reads[1].len))
          /\ MessageIn(SubSeq(stream, 1, n), reads[1].len) \in Received
          /\ Signal(reads[1].call) /\ ~astray /\ ~CutsBody(n)
          /\ UNCHANGED <<sendvars, reads, failed, endvars, crashed>>
  BY BodyEffect
<1>2. reads[1].kind = "body" /\ rpc = "io" /\ rpc' = "done"
  BY <1>1, ReadvEffect
<1>3. CASE Lost
  <2>1. PICK x \in Received : x = MessageIn(SubSeq(stream, 1, n), reads[1].len)
    BY <1>1
  <2>2. delivered' = delivered \o <<x>> /\ <<x>> \in Seq(Received)
    <3>1. delivered \in Seq(Received)
      BY DEF TypeOK, Received
    <3> QED  BY <1>1, <2>1, <3>1
  <2>3. Lost'
    BY <1>1, <1>3, <2>2, LostStays
  <2> QED  BY <1>1, <2>3 DEF DeliveryInv
<1>4. CASE ~Lost
  <2>1. failed = {} /\ Within
    <3>1. ~Between /\ ~Stopped
      BY <1>1, <1>2 DEF Between, Ready, Starts, HdrTask, BulkTask, Stopped
    <3> QED  BY <1>1, <1>4, <3>1 DEF DeliveryInv
  <2>2. PICK q \in 1..Written, c \in Recvs : InMessage(q) /\ BodyNext(c, size[offered[q]])
    BY <2>1 DEF Within
  <2>3. /\ Len(stream) \in Nat /\ Written \in 0..Len(offered) /\ Len(offered) \in Nat
        /\ \A i \in 1..Len(offered) : offered[i] \in Msgs /\ size[offered[i]] \in Nat
    BY OfferedFacts
  <2>4. q \in 1..Len(offered)
    BY <2>3
  <2>5. PICK s \in Nat : s = size[offered[q]]
    BY <2>3, <2>4
  <2>6. /\ reads = <<BodyTask(c, s)>> /\ rcall[c] = "wait"
        /\ reads[1].len = s /\ reads[1].call = c /\ Len(reads) = 1
    BY <1>2, <2>2, <2>5 DEF BodyNext, BodyTask
  <2>u. /\ \A i \in 1..s : i <= Len(stream) /\ stream[i] = <<offered[q], i>>
        /\ Follows(s + 1, q)
    <3>1. written[offered[q]] = s + 1
      <4>1. written[offered[q]] \in 1..(s + 1) /\ ~(written[offered[q]] \in 1..s)
        BY <2>2, <2>5 DEF InMessage, Torn, WrittenInv
      <4> QED  BY <4>1
    <3>2. MessageAt(0, q, 1)
      BY <2>2 DEF InMessage
    <3>3. PICK e : e = s + 1
      OBVIOUS
    <3>4. 0 + e = e /\ e - 1 = s /\ \A i \in 1..s : 0 + i = i
      BY <3>3
    <3>5. Follows(0 + e, q)
      BY <3>1, <3>2, <3>3 DEF MessageAt
    <3>6. \A i \in 1..s : 0 + i <= Len(stream) /\ stream[0 + i] = <<offered[q], i>>
      BY <3>1, <3>2, <3>3, <3>4 DEF MessageAt
    <3> QED  BY <3>3, <3>4, <3>5, <3>6
  <2>7. n = s /\ s > 0
    <3>1. Head(reads) = reads[1] /\ n \in 1..s
      BY <1>1, <2>6 DEF Readv, ReadvMoves
    <3>2. ASSUME n < s PROVE FALSE
      <4>1. n + 1 \in 1..s /\ n + 1 # 0
        BY <3>1, <3>2
      <4>2. n + 1 <= Len(stream) /\ stream[n + 1] = <<offered[q], n + 1>>
        BY <2>u, <4>1
      <4>3. ~IsHeader(stream[n + 1])
        BY <4>1, <4>2 DEF IsHeader
      <4> QED  BY <1>1, <2>3, <4>2, <4>3 DEF CutsBody
    <3> QED  BY <3>1, <3>2
  <2>8. delivered' = Append(delivered, offered[q])
    <3>1. MessageIn(SubSeq(stream, 0 + 1, 0 + s), s) = offered[q]
      <4>1. PICK p \in Nat, m \in Msgs : p = 0 /\ m = offered[q]
        BY <2>3, <2>4
      <4>2. ASSUME NEW i \in 1..s PROVE p + i <= Len(stream) /\ stream[p + i] = <<m, i>>
        <5>1. p + i = i
          BY <4>1
        <5> QED  BY <2>u, <4>1, <5>1
      <4>3. stream \in Seq(Units)
        BY DEF TypeOK
      <4>4. s = size[m] /\ s > 0
        BY <2>5, <2>7, <4>1
      <4>5. MessageIn(SubSeq(stream, p + 1, p + s), s) = m
        BY <4>2, <4>3, <4>4, BodyIsWhole
      <4> QED  BY <4>1, <4>5
    <3>2. 0 + 1 = 1 /\ 0 + s = n
      BY <2>7
    <3>3. MessageIn(SubSeq(stream, 1, n), s) = offered[q]
      BY <3>1, <3>2
    <3>4. delivered' = Append(delivered, MessageIn(SubSeq(stream, 1, n), s))
      BY <1>1, <2>6
    <3> QED  BY <3>3, <3>4
  <2>9. Selected(delivered', q)
    <3>1. delivered \in Seq(Received)
      BY DEF TypeOK, Received
    <3> QED  BY <2>2, <2>4, <2>5, <2>7, <2>8, <3>1, SelectedStep DEF InMessage
  <2>10. Written' = Written /\ offered' = offered /\ size' = size
    BY <1>1 DEF sendvars, Written
  <2>11. Follows(1, q)'
    <3>1. PICK p \in Nat \ {0} : p = 1
      OBVIOUS
    <3>2. Follows(p + n, q)
      <4>1. Follows(s + 1, q) /\ s + 1 = p + n
        BY <2>u, <2>7, <3>1
      <4> QED  BY <4>1
    <3>3. Shifted(n)
      BY <1>1, ReadvShifts
    <3>4. Follows(p, q)'
      BY <3>2, <3>3, FollowsShift
    <3> QED  BY <3>1, <3>4
  <2>12. BetweenMessages'
    <3>1. \A k : NonEmpty(k)' = NonEmpty(k)
      BY <2>10 DEF NonEmpty
    <3>2. Selected(delivered, q)'
      BY <2>9, <2>10, <3>1 DEF Selected
    <3>3. q \in 0..Written'
      BY <2>10, <2>3
    <3> QED  BY <2>11, <3>2, <3>3 DEF BetweenMessages
  <2>13. Ready'
    <3>1. rcall' = [rcall EXCEPT ![c] = "signalled"]
      BY <1>1, <2>6 DEF Signal, TypeOK
    <3>2. rcall'[c] # "wait"
      BY <3>1 DEF TypeOK
    <3>3. reads[1].kind # "hdr"
      BY <1>2
    <3> QED  BY <1>1, <1>2, <2>6, <3>2, <3>3 DEF Ready
  <2> QED  BY <1>1, <2>1, <2>12, <2>13 DEF DeliveryInv, Between
<1> QED  BY <1>3, <1>4

LEMMA DeliveryBulk ==
    ASSUME DeliveryHyp, ReadBulk
    PROVE  DeliveryInv'
<1> USE DEF DeliveryHyp
<1> SUFFICES ASSUME ~astray' PROVE DeliveryInv'
  BY DEF DeliveryInv
<1>1. PICK n \in 1..Len(stream), g \in Nat :
          LET cut == Cut(SubSeq(stream, 1, n), g)
          IN  /\ Readv("bulk", n) /\ reads # <<>> /\ reads[1].call \in Recvs
              /\ delivered' = delivered \o cut.chunks
              /\ cut.chunks \in Seq(Received)
              /\ ~cut.bad /\ Signal(reads[1].call) /\ UNCHANGED failed
              /\ ~astray /\ ~CutsBody(n)
              /\ UNCHANGED <<sendvars, reads, endvars, crashed>>
  <2>1. ~Reject(reads[1].call)
    BY DEF Reject
  <2> QED  BY <2>1, BulkEffect DEF CutResults
<1>2. reads[1].kind = "bulk" /\ rpc = "io" /\ rpc' = "done" /\ Head(reads) = reads[1]
  BY <1>1, ReadvEffect
<1>3. PICK c \in Recvs : c = reads[1].call
  BY <1>1
<1>l. CASE Lost
  <2>1. Lost'
    BY <1>1, <1>l, LostStays
  <2> QED  BY <1>1, <2>1 DEF DeliveryInv
<1> SUFFICES ASSUME ~Lost PROVE DeliveryInv'
  BY <1>l
<1>4. failed = {} /\ Between
  <2>1. ~Within /\ ~Stopped
    BY <1>2 DEF Within, BodyNext, BodyTask, Stopped
  <2> QED  BY <1>1, <2>1 DEF DeliveryInv
<1>5. Len(reads) = 1 /\ reads[1] = BulkTask(c) /\ rcall[c] = "wait"
  <2>1. Len(reads) = 1 /\ Starts(reads[1])
    BY <1>2, <1>4 DEF Between, Ready
  <2> QED  BY <1>2, <1>3, <2>1 DEF Starts, HdrTask, BulkTask
<1>6. PICK j \in 0..Written : Follows(1, j) /\ Selected(delivered, j)
  BY <1>4 DEF Between, BetweenMessages
<1>7. /\ Len(stream) \in Nat /\ Written \in 0..Len(offered) /\ Len(offered) \in Nat
      /\ stream \in Seq(Units) /\ Len(stream) <= SendBuf /\ delivered \in Seq(Received)
      /\ size \in [Msgs -> Nat]
  BY OfferedFacts, TypeFacts DEF TypeOK, Received
<1>8. PICK units : units = SubSeq(stream, 1, n)
  OBVIOUS
<1>9. /\ units \in Seq(Units) /\ Len(units) = n /\ \A i \in 1..n : units[i] = stream[i]
      /\ n + 1 \in Positions
  <2>1. 1 \in Int /\ n \in Int /\ 1 <= n /\ \A i \in 1..n : stream[i] \in Units
    BY <1>7
  <2>2. /\ SubSeq(stream, 1, n) \in Seq(Units)
        /\ Len(SubSeq(stream, 1, n)) = n - 1 + 1
        /\ \A i \in 1..(n - 1 + 1) : SubSeq(stream, 1, n)[i] = stream[1 + i - 1]
    BY <2>1, SubSeqProperties
  <2>3. n - 1 + 1 = n /\ n + 1 \in Positions /\ \A i \in 1..n : 1 + i - 1 = i
    BY <2>1 DEF Positions
  <2> QED  BY <1>8, <2>2, <2>3
<1>10. \/ \E k \in 0..Written : Follows(n + 1, k) /\ Selected(delivered', k)
       \/ \E k \in 1..Written : Torn(offered[k]) /\ Begins(delivered', k - 1)
  <2>1. PICK f : Cut(units, g) = f[1] /\ IsCut(units, g, f)
    BY <1>7, <1>9, CutIsCut, CutExists
  <2>2. PICK p \in Positions : p = 1
    BY DEF Positions
  <2>3. Follows(p, j) /\ j \in Nat /\ p <= n + 1
    BY <1>6, <2>2
  <2>4. \/ f[p].bad
        \/ \E k \in 0..Written : Follows(n + 1, k) /\ Selected(delivered \o f[p].chunks, k)
        \/ \E k \in 1..Written : Torn(offered[k]) /\ Begins(delivered \o f[p].chunks, k - 1)
    BY <1>1, <1>6, <1>7, <1>9, <2>1, <2>3, CutWhole
  <2>5. delivered' = delivered \o f[p].chunks /\ ~f[p].bad
    BY <1>1, <1>8, <2>1, <2>2
  <2> QED  BY <2>4, <2>5
<1>11. Written' = Written /\ offered' = offered /\ size' = size
  BY <1>1 DEF sendvars, Written
<1>t. CASE \E k \in 1..Written : Torn(offered[k]) /\ Begins(delivered', k - 1)
  <2>1. Lost'
    BY <1>1, <1>t, LostNext
  <2> QED  BY <1>1, <1>4, <2>1 DEF DeliveryInv
<1> SUFFICES ASSUME NEW CONSTANT q, q \in 0..Written, Follows(n + 1, q), Selected(delivered', q)
             PROVE  DeliveryInv'
  BY <1>10, <1>t
<1>12. BetweenMessages'
  <2>1. PICK p \in Nat \ {0}, k \in 1..Len(stream) : p = 1 /\ k = n
    OBVIOUS
  <2>2. Follows(p + k, q)
    <3>1. n + 1 = p + k
      BY <2>1
    <3> QED  BY <3>1
  <2>3. Follows(1, q)'
    <3>1. Shifted(k)
      BY <1>1, <2>1, ReadvShifts
    <3>2. Follows(p, q)'
      BY <2>2, <3>1, FollowsShift
    <3> QED  BY <2>1, <3>2
  <2>4. Selected(delivered, q)'
    <3>1. \A r : NonEmpty(r)' = NonEmpty(r)
      BY <1>11 DEF NonEmpty
    <3> QED  BY <1>11, <3>1 DEF Selected
  <2>5. q \in 0..Written'
    BY <1>11
  <2> QED  BY <2>3, <2>4, <2>5 DEF BetweenMessages
<1>13. Ready'
  <2>1. rcall' = [rcall EXCEPT ![c] = "signalled"]
    BY <1>1, <1>3, <1>5 DEF Signal, TypeOK
  <2>2. rcall'[c] # "wait"
    BY <2>1 DEF TypeOK
  <2> QED  BY <1>1, <1>2, <1>3, <1>5, <2>2 DEF Ready
<1> QED  BY <1>1, <1>4, <1>12, <1>13 DEF DeliveryInv, Between

LEMMA DeliveryWorker ==
    ASSUME DeliveryHyp, ReaderStarts \/ ReadDone
    PROVE  DeliveryInv'
<1> USE DEF DeliveryHyp
<1>1. UNCHANGED <<sendvars, stream, delivered, astray, failed, rcall>>
  BY DEF ReaderStarts, ReadDone
<1>2. CASE astray
  BY <1>1, <1>2 DEF DeliveryInv
<1>3. ASSUME ~astray, Between, Ready' PROVE DeliveryInv'
  BY <1>1, <1>3, MessagesQuiet DEF DeliveryInv, Between
<1>l. CASE ~astray /\ Lost
  BY <1>1, <1>l, MessagesQuiet DEF DeliveryInv
<1>4. CASE ~astray /\ ~Lost /\ ReaderStarts
  <2>1. /\ rpc = "idle" /\ reads # <<>> /\ rpc' = "io" /\ UNCHANGED reads
        /\ "receiver" \notin closed
    BY <1>4 DEF ReaderStarts
  <2>2. Between
    BY <1>4, <2>1 DEF DeliveryInv, Within, BodyNext, Stopped
  <2>3. Ready'
    BY <1>1, <2>1, <2>2 DEF Between, Ready, Starts
  <2> QED  BY <1>3, <1>4, <2>2, <2>3
<1>5. CASE ~astray /\ ~Lost /\ ReadDone
  <2>1. /\ rpc = "done" /\ reads \in Seq(ReadTasks) /\ closed' = closed
        /\ reads # <<>> => reads' = Tail(reads)
        /\ rpc' = IF reads' = <<>> THEN "idle" ELSE "io"
    BY <1>5 DEF ReadDone, TypeOK, endvars
  <2>2. CASE Between
    <3>1. reads # <<>> /\ (Len(reads) = 1 \/ (Len(reads) = 2 /\ Starts(reads[2])))
      BY <2>1, <2>2 DEF Between, Ready
    <3>2. CASE Len(reads) = 1
      <4>1. reads' = <<>>
        BY <2>1, <3>1, <3>2
      <4> QED  BY <1>3, <1>5, <2>1, <2>2, <4>1 DEF Ready
    <3>3. CASE Len(reads) = 2 /\ Starts(reads[2])
      <4>1. Len(reads') = 1 /\ reads'[1] = reads[2] /\ reads' # <<>>
        <5>1. reads' = Tail(reads)
          BY <2>1, <3>1
        <5>2. Len(Tail(reads)) = 1 /\ Tail(reads)[1] = reads[2]
          BY <3>1, <3>3, ReadsTail
        <5>3. Tail(reads) # <<>>
          <6> SUFFICES ASSUME Tail(reads) = <<>> PROVE FALSE
            OBVIOUS
          <6>1. Len(Tail(reads)) = Len(<<>>)
            OBVIOUS
          <6> QED  BY <5>2, <6>1
        <5> QED  BY <5>1, <5>2, <5>3
      <4>2. Ready'
        BY <1>1, <2>1, <3>3, <4>1 DEF Ready, Starts
      <4> QED  BY <1>3, <1>5, <2>2, <4>2
    <3> QED  BY <3>1, <3>2, <3>3
  <2>3. CASE Within
    <3>1. PICK q \in 1..Written, c \in Recvs : InMessage(q) /\ BodyNext(c, size[offered[q]])
      BY <2>3 DEF Within
    <3>2. InMessage(q)' /\ Written' = Written /\ size' = size /\ offered' = offered
      BY <1>1, <3>1, MessagesQuiet
    <3>3. PICK h, t : reads = <<h, t>> /\ h = HdrTask(c) /\ t = BodyTask(c, size[offered[q]])
      BY <2>1, <3>1 DEF BodyNext
    <3>4. reads # <<>> /\ Tail(reads) = <<t>>
      BY <3>3
    <3>5. reads' = <<t>> /\ rpc' = "io"
      <4>1. reads' = <<t>>
        BY <2>1, <3>4
      <4>2. reads' # <<>>
        BY <4>1
      <4> QED  BY <2>1, <4>1, <4>2
    <3>6. BodyNext(c, size[offered[q]])'
      BY <1>1, <3>1, <3>2, <3>3, <3>5 DEF BodyNext
    <3>7. Within'
      BY <3>1, <3>2, <3>6 DEF Within
    <3> QED  BY <1>1, <1>5, <3>7 DEF DeliveryInv
  <2>4. CASE Stopped
    <3>1. reads # <<>> /\ Len(reads) = 1
      BY <2>1, <2>4 DEF Stopped
    <3>2. reads' = <<>> /\ rpc' = "idle"
      BY <2>1, <3>1
    <3>3. \E q \in 0..Written' : Selected(delivered, q)'
      BY <1>1, <2>4, MessagesQuiet DEF Stopped
    <3>4. Stopped'
      BY <2>1, <2>4, <3>2, <3>3 DEF Stopped
    <3> QED  BY <1>1, <1>5, <3>4 DEF DeliveryInv
  <2> QED  BY <1>5, <2>2, <2>3, <2>4 DEF DeliveryInv
<1> QED  BY <1>2, <1>l, <1>4, <1>5
-----------------------------------------------------------------------------
LEMMA WholeNext ==
    ASSUME OneReceiver, WholeInv, [Next]_vars
    PROVE  WholeInv'
<1>1. TypeOK' /\ ReadsInv' /\ OfferedInv' /\ WrittenInv'
  BY TypeNext, ReadsNext, OfferedNext, WrittenNext DEF WholeInv
<1> SUFFICES StreamInv' /\ DeliveryInv'
  BY <1>1 DEF WholeInv
<1>2. ASSUME UNCHANGED recvvars, closed \subseteq closed', SenderStep
      PROVE  StreamInv' /\ DeliveryInv'
  <2>1. SenderKept
    BY <1>1, <1>2, SenderEffect DEF SenderKept, WholeInv
  <2> QED  BY <1>2, <2>1, StreamGrow, DeliverySender DEF WholeInv
<1>3. ASSUME UNCHANGED <<recvvars, sendvars, stream>>, closed \subseteq closed'
      PROVE  StreamInv' /\ DeliveryInv'
  BY <1>2, <1>3 DEF SenderStep
<1>4. ASSUME UNCHANGED <<sendvars, stream>> PROVE StreamInv'
  <2>1. SenderStep
    BY <1>4 DEF SenderStep
  <2>2. SenderKept
    BY <1>1, <2>1, SenderEffect DEF SenderKept, WholeInv
  <2> QED  BY <2>2, StreamGrow DEF WholeInv
<1>5. ASSUME NEW kind, NEW n, Readv(kind, n), UNCHANGED sendvars PROVE StreamInv'
  <2>1. Shifted(n)
    BY <1>5, ReadvShifts DEF WholeInv
  <2> QED  BY <2>1, StreamShift DEF WholeInv
<1>6. DeliveryHyp
  BY DEF DeliveryHyp, WholeInv
<1>7. ASSUME NEW m \in Msgs, Send(m) \/ SendReturns(m) PROVE StreamInv' /\ DeliveryInv'
  <2>1. UNCHANGED <<recvvars, closed>>
    BY <1>7 DEF Send, SendReturns, endvars
  <2> QED  BY <1>2, <1>7, <2>1 DEF SenderStep
<1>8. CASE Writer
  <2>1. UNCHANGED <<recvvars, closed>>
    BY <1>8 DEF Writer, WriterStarts, Writev, WriteDone, endvars
  <2> QED  BY <1>2, <1>8, <2>1 DEF SenderStep
<1>9. ASSUME NEW c \in Recvs, Recv(c) \/ RecvReturns(c) PROVE StreamInv' /\ DeliveryInv'
  <2>1. UNCHANGED <<sendvars, stream>>
    BY <1>9 DEF Recv, RecvReturns
  <2> QED  BY <1>4, <1>9, <2>1, DeliveryCalls DEF WholeInv
<1>10. CASE ReaderStarts \/ ReadDone
  <2>1. UNCHANGED <<sendvars, stream>>
    BY <1>10 DEF ReaderStarts, ReadDone
  <2> QED  BY <1>4, <1>6, <1>10, <2>1, DeliveryWorker
<1>11. CASE ReadHdr
  <2>1. Readv("hdr", 1) /\ UNCHANGED sendvars
    BY <1>11 DEF ReadHdr
  <2> QED  BY <1>5, <1>6, <1>11, <2>1, DeliveryHdr
<1>12. CASE ReadBody
  <2>1. \E n : Readv("body", n) /\ UNCHANGED sendvars
    BY <1>12 DEF ReadBody
  <2> QED  BY <1>5, <1>6, <1>12, <2>1, DeliveryBody
<1>13. CASE ReadBulk
  <2>1. \E n : Readv("bulk", n) /\ UNCHANGED sendvars
    BY <1>13 DEF ReadBulk
  <2> QED  BY <1>5, <1>6, <1>13, <2>1, DeliveryBulk
<1>14. ASSUME NEW e \in Ends, Close(e) \/ DeleteEvent(e) PROVE StreamInv' /\ DeliveryInv'
  BY <1>3, <1>14 DEF Close, DeleteEvent
<1>15. CASE UNCHANGED vars
  BY <1>3, <1>15 DEF vars, endvars
<1> QED
  BY <1>7, <1>8, <1>9, <1>10, <1>11, <1>12, <1>13, <1>14, <1>15 DEF Next, Reader

LEMMA WholeInit == Init => WholeInv
<1> SUFFICES ASSUME Init PROVE WholeInv
  OBVIOUS
<1>1. /\ writes = <<>> /\ offered = <<>> /\ stream = <<>> /\ delivered = <<>> /\ reads = <<>>
      /\ wpc = "idle" /\ rpc = "idle" /\ failed = {}
      /\ Len(offered) = 0 /\ Len(writes) = 0 /\ Len(stream) = 0 /\ Len(delivered) = 0
  BY DEF Init
<1>2. OfferedInv
  BY <1>1 DEF OfferedInv
<1>3. Written = 0
  BY <1>1 DEF Written
<1>4. StreamInv /\ WrittenInv
  BY <1>1, <1>3 DEF StreamInv, WrittenInv
<1>5. Follows(1, 0)
  BY <1>1, <1>3 DEF Follows
<1>6. Selected(delivered, 0)
  <2>1. NonEmpty(0) = {}
    BY DEF NonEmpty
  <2> QED  BY <1>1, <2>1, FS_EmptySet DEF Selected
<1>7. DeliveryInv
  <2>1. Ready
    BY <1>1 DEF Ready
  <2>2. BetweenMessages
    BY <1>3, <1>5, <1>6 DEF BetweenMessages
  <2> QED  BY <1>1, <2>1, <2>2 DEF DeliveryInv, Between
<1> QED  BY <1>2, <1>4, <1>7, TypeInit DEF WholeInv

\* A torn message is not empty.
LEMMA TornCounts ==
    ASSUME TypeOK, OfferedInv, NEW q \in 1..Len(offered), Torn(offered[q])
    PROVE  /\ Cardinality(NonEmpty(q - 1)) \in Nat
           /\ Cardinality(NonEmpty(q)) = Cardinality(NonEmpty(q - 1)) + 1
<1>1. size[offered[q]] \in Nat
  BY OfferedFacts
<1>2. size[offered[q]] > 0
  BY <1>1 DEF Torn
<1>3. q - 1 \in Int
  OBVIOUS
<1> QED  BY <1>2, <1>3, NonEmptyStep, NonEmptyCount

LEMMA WholeImplies == WholeInv => WholeMessagesInOrder
<1> SUFFICES ASSUME WholeInv, ~astray, NEW i \in DOMAIN delivered
             PROVE  \/ DeliveredRight(i)
                    \/ \E k \in DOMAIN offered :
                           Torn(offered[k]) /\ Cardinality(NonEmpty(k)) <= i
  BY DEF WholeMessagesInOrder
<1>1. Written \in 0..Len(offered) /\ Len(offered) \in Nat /\ DOMAIN offered = 1..Len(offered)
  BY OfferedFacts DEF WholeInv
<1>2. ASSUME NEW q \in Int, q <= Written,
             \E k \in NonEmpty(q) : delivered[i] = offered[k] /\ Cardinality(NonEmpty(k)) = i
      PROVE  DeliveredRight(i)
  <2>1. NonEmpty(q) \subseteq NonEmpty(Len(offered))
    BY <1>1, <1>2 DEF NonEmpty
  <2> QED  BY <1>2, <2>1 DEF DeliveredRight
<1>3. ASSUME NEW q \in Int, q <= Written, Selected(delivered, q) PROVE DeliveredRight(i)
  BY <1>2, <1>3 DEF Selected
<1>4. CASE Lost
  <2>1. PICK q \in 1..Written : Torn(offered[q]) /\ Begins(delivered, q - 1)
    BY <1>4 DEF Lost
  <2>2. PICK n : n = Cardinality(NonEmpty(q - 1))
    OBVIOUS
  <2>3. q \in 1..Len(offered) /\ q - 1 \in Int /\ q - 1 <= Written
    BY <1>1
  <2>4. n \in Nat /\ Cardinality(NonEmpty(q)) = n + 1
    BY <2>1, <2>2, <2>3, TornCounts DEF WholeInv
  <2>5. i \in Nat \ {0}
    <3>1. delivered \in Seq(Msgs \cup {Broken})
      BY DEF WholeInv, TypeOK
    <3> QED  BY <3>1
  <2>6. CASE i <= n
    <3>1. i \in 1..n
      BY <2>4, <2>5, <2>6
    <3> QED  BY <1>2, <2>1, <2>2, <2>3, <3>1 DEF Begins
  <2>7. CASE n < i
    <3>1. Cardinality(NonEmpty(q)) <= i
      BY <2>4, <2>5, <2>7
    <3> QED  BY <1>1, <2>1, <2>3, <3>1
  <2> QED  BY <2>4, <2>5, <2>6, <2>7
<1>5. CASE ~Lost
  <2>1. PICK q \in Int : q <= Written /\ Selected(delivered, q)
    <3>1. CASE Between
      BY <1>1, <3>1 DEF Between, BetweenMessages
    <3>2. CASE Within
      <4>1. PICK b \in 1..Written : InMessage(b)
        BY <3>2 DEF Within
      <4>2. b - 1 \in Int /\ b - 1 <= Written
        BY <1>1
      <4> QED  BY <4>1, <4>2 DEF InMessage
    <3>3. CASE Stopped
      BY <1>1, <3>3 DEF Stopped
    <3> QED  BY <1>5, <3>1, <3>2, <3>3 DEF WholeInv, DeliveryInv
  <2> QED  BY <1>3, <2>1
<1> QED  BY <1>4, <1>5

\* If the users receive one after the other, then what they get are the messages
\* that were sent, whole, once and in the order of the calls, up to the first that
\* is torn and until a receiver loses track: with any mixture of recvmsg and
\* recv_multipart_msg, transfers of any part, closes at any time, any sizes, and
\* any room in the kernel.
THEOREM WholeMessages == ASSUME OneReceiver PROVE Spec => []WholeMessagesInOrder
<1>1. WholeInv /\ [Next]_vars => WholeInv'
  BY WholeNext
<1> QED  BY <1>1, WholeInit, WholeImplies, PTL DEF Spec
=============================================================================
