-------------------------------- MODULE Event -------------------------------
(***************************************************************************)
(* system/event.h and system/event.cc: one file descriptor registered with *)
(* epoll, and the object that remembers which events are watched.          *)
(*                                                                         *)
(* event::mtx protects evmask.  event::consume() runs the callback with    *)
(* that mutex held, so the mutex is kept across steps (evmtx); the other   *)
(* operations take it and give it back in one step.  The member `closing'  *)
(* is false from construction on and no code sets it, so its tests are     *)
(* left out.                                                               *)
(*                                                                         *)
(* armed and oneshot are the kernel's side: what epoll will report for the *)
(* descriptor, and whether a report disables it.                           *)
(***************************************************************************)
CONSTANT NoThread                       \* the owner of a free mutex

EPOLLIN  == "EPOLLIN"
EPOLLOUT == "EPOLLOUT"
EPOLLERR == "EPOLLERR"
InOut    == {EPOLLIN, EPOLLOUT}

VARIABLES
    evmask,     \* event::evmask, the flags believed to be under watch
    evmtx,      \* the thread that holds event::mtx, or NoThread
    armed,      \* the events epoll reports for the descriptor
    oneshot     \* EPOLLONESHOT was in the last epoll_ctl

evvars == <<evmask, evmtx, armed, oneshot>>

EventTypeOK ==
    /\ evmask \subseteq InOut
    /\ armed \subseteq InOut \cup {EPOLLERR}
    /\ oneshot \in BOOLEAN

\* event::event(): EPOLL_CTL_ADD with events=0.  The kernel reports errors
\* whether they are asked for or not.
EventInit ==
    /\ evmask = {}
    /\ evmtx = NoThread
    /\ armed = {EPOLLERR}
    /\ oneshot = FALSE

\* event::submit_without_oneshot(evflag), which the event loop uses for its own
\* descriptors; a Submit that called it would let reports repeat.
SubmitWithoutOneshot(evflag) ==
    /\ evmtx = NoThread
    /\ evmask' = evmask \cup evflag
    /\ armed' = evmask' \cup {EPOLLERR}
    /\ oneshot' = FALSE
    /\ UNCHANGED evmtx

\* Mutations of Submit: the mask forgets what was under watch; the mask keeps
\* the EPOLLERR that only belongs into the epoll_event.
SubmitForgets(evflag) ==
    /\ evmtx = NoThread
    /\ evmask' = evflag
    /\ armed' = evmask' \cup {EPOLLERR}
    /\ oneshot' = TRUE
    /\ UNCHANGED evmtx
SubmitKeepsErr(evflag) ==
    /\ evmtx = NoThread
    /\ evmask' = evmask \cup evflag \cup {EPOLLERR}
    /\ armed' = evmask'
    /\ oneshot' = TRUE
    /\ UNCHANGED evmtx

\* event::submit(evflag): what was under watch stays under watch.
Submit(evflag) ==
    /\ evmtx = NoThread
    /\ evmask' = evmask \cup evflag
    /\ armed' = evmask' \cup {EPOLLERR}
    /\ oneshot' = TRUE
    /\ UNCHANGED evmtx

\* epoll_wait() returned the events r for the descriptor.
Report(r) ==
    /\ armed' = IF oneshot THEN {} ELSE armed
    /\ UNCHANGED <<evmask, evmtx, oneshot>>

\* event::consume(evflag) up to the call of the callback.  The callback runs
\* inside; `holder' keeps the mutex if the callback has to wait for another.
Consume(evflag, holder) ==
    /\ evmtx = NoThread
    /\ evmask' = evmask \ evflag
    /\ evmtx' = holder
    /\ UNCHANGED <<armed, oneshot>>

\* The callback returned.
ConsumeReturn ==
    /\ evmtx' = NoThread
    /\ UNCHANGED <<evmask, armed, oneshot>>

\* event::~event(): EPOLL_CTL_DEL, close(fd).
Unregister ==
    /\ armed' = {}
    /\ UNCHANGED <<evmask, evmtx, oneshot>>
=============================================================================
