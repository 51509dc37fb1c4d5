----------------------------- MODULE PipeOrder ------------------------------
(***************************************************************************)
(* Each direction of a Pipe as an implementation of a TaskFifo.            *)
(***************************************************************************)
EXTENDS Pipe

\* A task that has been performed stays at the front of its list until the
\* worker has the lock again: for the abstract queue it is gone already.
WrittenNotPopped == \E w \in Workers : wpc[w] = "wdone" /\ IsSuccess(res[w])
ReadNotPopped    == \E w \in Workers : wpc[w] = "rdone" /\ IsSuccess(res[w])

WriteFifo == INSTANCE TaskFifo WITH
    FifoTasks <- WriteTasks,
    queue     <- IF WrittenNotPopped THEN Tail(writes) ELSE writes,
    done      <- sent

ReadFifo == INSTANCE TaskFifo WITH
    FifoTasks <- ReadTasks,
    queue     <- IF ReadNotPopped THEN Tail(reads) ELSE reads,
    done      <- [i \in 1..taken |->
                    CHOOSE t \in ReadTasks : \E j \in DOMAIN got[t] : got[t][j] = i]

\* A connection that its users use in one direction: calls of add_read, or calls
\* of add_write, never both.
OneWay     == \A r \in ReadTasks, w \in WriteTasks : "new" \in {call[r], call[w]}
OneWaySpec == Init /\ [][Next /\ OneWay']_vars /\ Fairness

\* The write direction, and the read direction, of a pipe implement the FIFO:
\* doadd_write() and dowrite(), whatever the interleaving, send every message
\* once and in the order of the calls.
WritesInOrder == WriteFifo!FifoSpec

\* doadd_read() and doread() fill the read tasks with the units of the stream
\* in the order of the calls, one each.
ReadsInOrder == ReadFifo!FifoSpec
=============================================================================
