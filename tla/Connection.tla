----------------------------- MODULE Connection -----------------------------
(***************************************************************************)
(* channel/basic_connection.{h,cc} over channel/iotask.{h,cc}: messages    *)
(* from the users of one end of a connection to those of the other.  A     *)
(* send is one task, header and body in one writev.  A recvmsg is a header *)
(* task whose callback adds a body task of the size it has found;          *)
(* recv_multipart_msg is one large read cut into messages.                 *)
(*                                                                         *)
(* Each end uses its pipe in one direction, and of a pipe so used Pipe     *)
(* shows that one worker serves it and that it wakes up: the worker is all *)
(* that is left of it here.  A unit of data is a header, moved whole, or a *)
(* part of a body.  readv and writev move any part of what they could, for *)
(* the sockets are nonblocking.  The loops around them do not end on an    *)
(* error or an EAGAIN (see Pipe): these are steps that change nothing.     *)
(***************************************************************************)
EXTENDS Naturals, Sequences, FiniteSets

CONSTANTS
    Msgs,           \* the messages, each sent by a call of its own
    AsyncMsgs,      \* those of sendmsg_async
    Recvs,          \* the calls of recvmsg and recv_multipart_msg
    BulkRecvs,      \* those of recv_multipart_msg
    Sizes,          \* sizes of messages, in units of data
    MaxSize,        \* message::MaxSize; several chunks may add up to more
    SendBuf,        \* units the kernel holds for the connection
    OneReceiver     \* users receive one after the other

ASSUME ConnectionAssumption ==
    /\ AsyncMsgs \subseteq Msgs /\ BulkRecvs \subseteq Recvs
    /\ Sizes \subseteq Nat /\ MaxSize \in Nat /\ SendBuf \in Nat
    /\ OneReceiver \in BOOLEAN

VARIABLES
    \* the sending end: its list, its worker, and each call
    writes, wpc, scall, size,
    \* the receiving end: its list, its worker, and each call
    reads, rpc, rcall, failed,
    \* both ends: closed, and descriptor closed by the loop
    closed, gone,
    \* the units in the kernel
    stream,
    \* history: the messages in the order of add_write, how much of each was
    \* written, what the receivers got, and whether they have lost track of where
    \* messages start: a size was rejected, or a read left a part of a body
    offered, written, delivered, astray,
    \* pop_front() of an empty list
    crashed

sendvars == <<writes, wpc, scall, size, offered, written>>
recvvars == <<reads, rpc, rcall, failed, delivered, astray>>
endvars  == <<closed, gone>>
vars == <<sendvars, recvvars, endvars, stream, crashed>>

Ends == {"sender", "receiver"}
Broken == "broken"                      \* a message that is none of those sent

HdrTask(c)     == [call |-> c, kind |-> "hdr",  len |-> 1]
\* A mutation of BodyTask: the header's size counts twice.
BodyTaskAndHeader(c, n) == [call |-> c, kind |-> "body", len |-> n + 1]
BodyTask(c, n) == [call |-> c, kind |-> "body", len |-> n]
BulkTask(c)    == [call |-> c, kind |-> "bulk", len |-> SendBuf]
ReadTasks == [call : Recvs, kind : {"hdr", "body", "bulk"}, len : Nat]

\* What a writev of message m hands over: its header, then its body.
Units == Msgs \X Nat
UnitsOf(m) == [i \in 1..(size[m] + 1) |-> <<m, i - 1>>]
BodyOf(m)  == [i \in 1..size[m] |-> <<m, i>>]
IsHeader(u) == u[2] = 0

TypeOK ==
    /\ writes \in Seq(Msgs)
    /\ wpc \in {"idle", "io", "done"} /\ (wpc # "idle" => writes # <<>>)
    /\ scall \in [Msgs -> {"new", "wait", "signalled", "returned"}]
    /\ size \in [Msgs -> Sizes \cup {0}]
    /\ reads \in Seq(ReadTasks)
    /\ rpc \in {"idle", "io", "done"}
    /\ rcall \in [Recvs -> {"new", "wait", "signalled", "returned"}]
    /\ failed \subseteq Recvs
    /\ closed \subseteq Ends /\ gone \subseteq closed
    /\ stream \in Seq(Units) /\ Len(stream) <= SendBuf
    /\ offered \in Seq(Msgs)
    /\ written \in [Msgs -> Nat]
    /\ delivered \in Seq(Msgs \cup {Broken})
    /\ astray \in BOOLEAN
    /\ crashed \in BOOLEAN

Init ==
    /\ writes = <<>> /\ reads = <<>>
    /\ wpc = "idle" /\ rpc = "idle"
    /\ scall = [m \in Msgs |-> "new"]
    /\ size = [m \in Msgs |-> 0]
    /\ rcall = [c \in Recvs |-> "new"]
    /\ failed = {}
    /\ closed = {} /\ gone = {}
    /\ stream = <<>>
    /\ offered = <<>>
    /\ written = [m \in Msgs |-> 0]
    /\ delivered = <<>>
    /\ astray = FALSE
    /\ crashed = FALSE
-----------------------------------------------------------------------------
(* The users of the sending end.                                           *)

\* A mutation of Send: the task is added in front of the others.
SendFirst(m) ==
    /\ scall[m] = "new"
    /\ \E n \in Sizes : size' = [size EXCEPT ![m] = n]
    /\ scall' = [scall EXCEPT ![m] = IF m \in AsyncMsgs THEN "returned" ELSE "wait"]
    /\ IF "sender" \in closed
       THEN UNCHANGED <<writes, offered>>
       ELSE /\ writes' = <<m>> \o writes
            /\ offered' = Append(offered, m)
    /\ UNCHANGED <<wpc, written, recvvars, endvars, stream, crashed>>

\* sendmsg() up to its wait_for(), sendmsg_async(): add_write(), which drops
\* the task of a closed pipe without a word.
Send(m) ==
    /\ scall[m] = "new"
    /\ \E n \in Sizes : size' = [size EXCEPT ![m] = n]
    /\ scall' = [scall EXCEPT ![m] = IF m \in AsyncMsgs THEN "returned" ELSE "wait"]
    /\ IF "sender" \in closed
       THEN UNCHANGED <<writes, offered>>
       ELSE /\ writes' = Append(writes, m)
            /\ offered' = Append(offered, m)
    /\ UNCHANGED <<wpc, written, recvvars, endvars, stream, crashed>>

\* The rest of sendmsg().  wait_for() never gives up: it waits until the task
\* is done, whatever the timeout.
SendReturns(m) ==
    /\ scall[m] = "signalled"
    /\ scall' = [scall EXCEPT ![m] = "returned"]
    /\ UNCHANGED <<writes, wpc, size, offered, written, recvvars, endvars,
                   stream, crashed>>
-----------------------------------------------------------------------------
(* The worker of the sending end: dowrite().                               *)

\* A mutation of WriterStarts: on a list that may be empty.
WriterStartsEmpty ==
    /\ wpc = "idle"
    /\ "sender" \notin closed
    /\ Len(stream) < SendBuf
    /\ wpc' = "io"
    /\ UNCHANGED <<writes, scall, size, offered, written, recvvars, endvars,
                   stream, crashed>>

WriterStarts ==
    /\ wpc = "idle"
    /\ writes # <<>> /\ "sender" \notin closed
    /\ Len(stream) < SendBuf
    /\ wpc' = "io"
    /\ UNCHANGED <<writes, scall, size, offered, written, recvvars, endvars,
                   stream, crashed>>

\* on_success() of the tasks: a sendmsg is signalled.
Signalled(m) == IF scall[m] = "wait" THEN [scall EXCEPT ![m] = "signalled"] ELSE scall

\* A writev of n units moves as many of them as it likes.
WritevMoves(n) == {k \in 1..n : k <= SendBuf - Len(stream)}

\* try_gather_output(): one writev, and a transfer of any length is a success.
Writev ==
    /\ wpc = "io" /\ "sender" \notin gone
    /\ LET m == Head(writes)
       IN  \E n \in WritevMoves(size[m] + 1) :
               /\ stream' = stream \o SubSeq(UnitsOf(m), 1, n)
               /\ written' = [written EXCEPT ![m] = n]
               /\ scall' = Signalled(m)
    /\ wpc' = "done"
    /\ UNCHANGED <<writes, size, offered, recvvars, endvars, crashed>>

\* A mutation of WriteDone: it clears the list.
WriteDoneClears ==
    /\ wpc = "done"
    /\ writes' = <<>>
    /\ wpc' = IF writes' = <<>> THEN "idle" ELSE "io"
    /\ UNCHANGED <<scall, size, offered, written, recvvars, endvars, stream,
                   crashed>>

WriteDone ==
    /\ wpc = "done"
    /\ writes' = Tail(writes)
    /\ wpc' = IF writes' = <<>> THEN "idle" ELSE "io"
    /\ UNCHANGED <<scall, size, offered, written, recvvars, endvars, stream,
                   crashed>>
-----------------------------------------------------------------------------
(* The users of the receiving end.                                         *)

\* recvmsg() and recv_multipart_msg() up to wait_for(): add_read() of the first
\* task.  Nothing keeps a second user from doing so at the same time.
Recv(c) ==
    /\ rcall[c] = "new"
    /\ OneReceiver => \A d \in Recvs : rcall[d] \in {"new", "returned"}
    /\ rcall' = [rcall EXCEPT ![c] = "wait"]
    /\ reads' = IF "receiver" \in closed THEN reads
                ELSE Append(reads, IF c \in BulkRecvs THEN BulkTask(c) ELSE HdrTask(c))
    /\ UNCHANGED <<sendvars, rpc, failed, delivered, astray, endvars, stream,
                   crashed>>

\* They return the message, or remove a task that has found an illegal size.  It
\* is the only one of its call.
TasksOf(c) == {i \in DOMAIN reads : reads[i].call = c}
RecvReturns(c) ==
    /\ rcall[c] = "signalled"
    /\ rcall' = [rcall EXCEPT ![c] = "returned"]
    /\ IF c \in failed /\ "receiver" \notin closed /\ TasksOf(c) # {}
       THEN \E i \in TasksOf(c) :
                reads' = SubSeq(reads, 1, i - 1) \o SubSeq(reads, i + 1, Len(reads))
       ELSE UNCHANGED reads
    /\ UNCHANGED <<sendvars, rpc, failed, delivered, astray, endvars, stream,
                   crashed>>
-----------------------------------------------------------------------------
(* The worker of the receiving end: doread().                              *)

ReaderStarts ==
    /\ rpc = "idle"
    /\ reads # <<>> /\ "receiver" \notin closed
    /\ stream # <<>>
    /\ rpc' = "io"
    /\ UNCHANGED <<sendvars, reads, rcall, failed, delivered, astray, endvars,
                   stream, crashed>>

\* A readv of the front task into n units: it takes what is there, or a part of
\* it.  A readv into nothing returns 0, like one at the end of the stream, and
\* is repeated for ever: no step.
ReadvMoves(n) == {k \in 1..n : k <= Len(stream)}

Readv(kind, n) ==
    /\ rpc = "io" /\ "receiver" \notin gone
    /\ Head(reads).kind = kind
    /\ n \in ReadvMoves(Head(reads).len)
    /\ stream' = SubSeq(stream, n + 1, Len(stream))
    /\ rpc' = "done"

\* The value of eight bytes that are taken for a header: anything, unless they
\* are one.
SizesIn(u) == IF IsHeader(u) THEN {size[u[1]]} ELSE Sizes

Signal(c) == rcall' = [rcall EXCEPT ![c] = IF @ = "wait" THEN "signalled" ELSE @]
Reject(c) ==
    /\ failed' = failed \cup {c}
    /\ astray' = TRUE
    /\ Signal(c)

\* hdrtask::on_success(): it signals an illegal size, otherwise doadd_read() adds
\* the body task at the end of the list, or drops it when the pipe was closed.
ReadHdr ==
    \E n \in {1} :
        /\ Readv("hdr", n)
        /\ LET c == Head(reads).call
           IN  \E s \in SizesIn(stream[1]) :
                   IF s > MaxSize
                   THEN Reject(c) /\ UNCHANGED reads
                   ELSE /\ reads' = IF "receiver" \in closed THEN reads
                                    ELSE Append(reads, BodyTask(c, s))
                        /\ UNCHANGED <<rcall, failed, astray>>
        /\ UNCHANGED <<sendvars, delivered, endvars, crashed>>

\* Which message a body of s units is that starts like units: one that was
\* sent, if it is whole and starts where that one does.
MessageIn(units, s) ==
    IF units # <<>> /\ Len(units) = s /\ units = BodyOf(units[1][1])
    THEN units[1][1] ELSE Broken

\* A read of n units that leaves a part of a body behind.
CutsBody(n) == n < Len(stream) /\ ~IsHeader(stream[n + 1])

\* bodytask::on_success(): a transfer of any length completes the message.
ReadBody ==
    \E n \in 1..Len(stream) :
        /\ Readv("body", n)
        /\ LET t == Head(reads)
           IN  /\ delivered' = Append(delivered, MessageIn(SubSeq(stream, 1, n), t.len))
               /\ Signal(t.call)
        /\ astray' = (astray \/ CutsBody(n))
        /\ UNCHANGED <<sendvars, reads, failed, endvars, crashed>>

\* The size that the eight bytes at position p of a bulk read make: inside a body
\* the value g.
SizeAt(units, g, p) == IF IsHeader(units[p]) THEN size[units[p][1]] ELSE g

\* append() of the chunk after the header at p, before what follows it.
Chunk(units, p, s, rest) ==
    LET last == IF p + s > Len(units) THEN Len(units) ELSE p + s
        this == IF s = 0 THEN <<>> ELSE <<MessageIn(SubSeq(units, p + 1, last), s)>>
    IN  [rest EXCEPT !.chunks = this \o @]

\* bulk_read_task::on_success() on what was read: the chunks it cuts, and
\* whether it meets an illegal size.  A header at the very end is skipped.
Cut(units, g) ==
    LET cut[p \in Nat \ {0}] ==
            IF p > Len(units) THEN [chunks |-> <<>>, bad |-> FALSE]
            ELSE IF SizeAt(units, g, p) > MaxSize THEN [chunks |-> <<>>, bad |-> TRUE]
            ELSE IF p = Len(units) THEN [chunks |-> <<>>, bad |-> FALSE]
            ELSE Chunk(units, p, SizeAt(units, g, p), cut[p + 1 + SizeAt(units, g, p)])
    IN  cut[1]

ReadBulk ==
    \E n \in 1..Len(stream), g \in Sizes :
        /\ Readv("bulk", n)
        /\ LET c   == Head(reads).call
               cut == Cut(SubSeq(stream, 1, n), g)
           IN  /\ delivered' = delivered \o cut.chunks
               /\ IF cut.bad THEN Reject(c)
                  ELSE /\ Signal(c) /\ UNCHANGED failed
                       /\ astray' = (astray \/ CutsBody(n))
        /\ UNCHANGED <<sendvars, reads, endvars, crashed>>

\* A mutation of ReadDone: the pop takes the task added last.
ReadDoneLast ==
    /\ rpc = "done"
    /\ crashed' = (reads = <<>>)
    /\ reads' = IF reads = <<>> THEN reads ELSE SubSeq(reads, 1, Len(reads) - 1)
    /\ rpc' = IF reads' = <<>> THEN "idle" ELSE "io"
    /\ UNCHANGED <<sendvars, rcall, failed, delivered, astray, endvars, stream>>

\* The pop takes what is first now, which a user may have removed.
ReadDone ==
    /\ rpc = "done"
    /\ crashed' = (reads = <<>>)
    /\ reads' = IF reads = <<>> THEN reads ELSE Tail(reads)
    /\ rpc' = IF reads' = <<>> THEN "idle" ELSE "io"
    /\ UNCHANGED <<sendvars, rcall, failed, delivered, astray, endvars, stream>>
-----------------------------------------------------------------------------
(* Either end.                                                             *)

\* connection::close(): on_pipe_closed() of the tasks does nothing, ...
Close(e) ==
    /\ e \notin closed
    /\ closed' = closed \cup {e}
    /\ UNCHANGED <<sendvars, recvvars, gone, stream, crashed>>

\* ... and the loop deletes the event and closes the descriptor.
DeleteEvent(e) ==
    /\ e \in closed \ gone
    /\ gone' = gone \cup {e}
    /\ UNCHANGED <<sendvars, recvvars, closed, stream, crashed>>
-----------------------------------------------------------------------------
Writer == WriterStarts \/ Writev \/ WriteDone
Reader == ReaderStarts \/ ReadHdr \/ ReadBody \/ ReadBulk \/ ReadDone

Next ==
    /\ ~crashed
    /\ \/ \E m \in Msgs : Send(m) \/ SendReturns(m)
       \/ \E c \in Recvs : Recv(c) \/ RecvReturns(c)
       \/ Writer \/ Reader
       \/ \E e \in Ends : Close(e) \/ DeleteEvent(e)

Spec == Init /\ [][Next]_vars
-----------------------------------------------------------------------------
(* Properties.                                                             *)

\* The i-th message delivered is the i-th of those offered that are not empty.
\* (An empty message cannot be seen in a multipart one, and recvmsg never returns
\* it.)
NonEmpty(k) == {j \in 1..k : size[offered[j]] > 0}
DeliveredRight(i) ==
    \E k \in NonEmpty(Len(offered)) :
        delivered[i] = offered[k] /\ Cardinality(NonEmpty(k)) = i

\* A message of which a writev took a part only: nothing will write the rest.
Torn(m) == written[m] \in 1..size[m]

\* What the users receive are the messages that were sent, whole, once and in the
\* order of the calls, up to the first that is torn and until a receiver loses
\* track: no transfer of a part, no close and no other call harms a message that
\* comes before it.
WholeMessagesInOrder ==
    ~astray =>
        \A i \in DOMAIN delivered :
            \/ DeliveredRight(i)
            \/ \E k \in DOMAIN offered :
                   Torn(offered[k]) /\ Cardinality(NonEmpty(k)) <= i

\* "iov is fully transferred, good, the task is done": whatever is delivered is a
\* message that was sent, in its turn.
MessagesArriveWhole == \A i \in DOMAIN delivered : DeliveredRight(i)

\* The success of a sendmsg is a barrier: when it returns, its message and every
\* message of a call before it, those of sendmsg_async too, have been through
\* their writev (whole or not).
SuccessIsABarrier ==
    \A m \in Msgs \ AsyncMsgs :
        scall[m] \in {"signalled", "returned"} =>
            \E j \in DOMAIN offered :
                offered[j] = m /\ \A i \in 1..j : written[offered[i]] > 0

\* Fairness: the workers run, and so do the users that have been signalled.
Fairness == /\ WF_vars(Writer) /\ WF_vars(Reader)
            /\ \A m \in Msgs : WF_vars(SendReturns(m))
            /\ \A c \in Recvs : WF_vars(RecvReturns(c))
FairSpec == Spec /\ Fairness

\* A sendmsg returns, unless an end is closed or the kernel stays full.
Full == writes # <<>> /\ Len(stream) = SendBuf
SendsReturn ==
    []<>(~Full \/ crashed) =>
        \A m \in Msgs : scall[m] = "wait" ~>
            scall[m] = "returned" \/ closed # {} \/ crashed

\* A receiver that waits gets the next message, also after the sender has closed,
\* unless its own end is closed, receivers have lost track, a message is torn, or
\* the reader has come to the body of an empty message.
EmptyBody == reads # <<>> /\ Head(reads).kind = "body" /\ Head(reads).len = 0
ReceivesReturn ==
    \A c \in Recvs :
        rcall[c] = "wait" /\ stream # <<>> ~>
            \/ rcall[c] = "returned" \/ "receiver" \in closed
            \/ astray \/ EmptyBody \/ \E m \in Msgs : Torn(m)
=============================================================================
