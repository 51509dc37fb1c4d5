------------------------------ MODULE TaskFifo ------------------------------
(***************************************************************************)
(* What one direction of a connection promises its users, whatever threads *)
(* perform it: tasks are performed once each, in the order they were added.*)
(***************************************************************************)
EXTENDS Sequences

CONSTANT FifoTasks

VARIABLES
    queue,      \* the tasks added and not performed
    done        \* the tasks performed, in this order

FifoInit == queue = <<>> /\ done = <<>>

Add(t) ==
    /\ \A i \in DOMAIN queue : queue[i] # t
    /\ \A i \in DOMAIN done : done[i] # t
    /\ queue' = Append(queue, t)
    /\ UNCHANGED done

Perform ==
    /\ queue # <<>>
    /\ done' = Append(done, Head(queue))
    /\ queue' = Tail(queue)

FifoNext == Perform \/ \E t \in FifoTasks : Add(t)

FifoSpec == FifoInit /\ [][FifoNext]_<<queue, done>>
=============================================================================
