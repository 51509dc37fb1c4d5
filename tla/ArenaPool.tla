------------------------------ MODULE ArenaPool ------------------------------
(***************************************************************************)
(* class arena_pool of common/arena.h and the messages that use it         *)
(* (message.h, message.cc), compiled with ENABLE_ARENA and                 *)
(* ENABLE_ARENA_POOLING.  ref() and deref() are called by the threads that *)
(* use messages, enable() and disable() by any, and a reaper thread        *)
(* resets what was handed in.                                              *)
(*                                                                         *)
(* A step is what one of the mutexes protects.  enabledmtx is the one that *)
(* is held across steps, by disable() while it empties the two lists.      *)
(* A double free, or a null arena, ends the program (crashed).             *)
(***************************************************************************)
EXTENDS Arena, FiniteSets

CONSTANTS
    Arenas,             \* identities of arenas, reused after a delete
    Messages,           \* message_metas, each used by one thread at a time
    Sizes,              \* sizes of what is appended to a message
    large_message_size,
    arena_pool_size,
    MaxTotal,           \* bound on total_size
    MaxSwitches         \* bound on the calls of enable() and disable()

ASSUME ArenaPoolAssumption ==
    /\ Sizes \subseteq Nat
    /\ {large_message_size, arena_pool_size, MaxTotal, MaxSwitches} \subseteq Nat

VARIABLES
    arena,              \* the arena of each identity, NoArena if there is none
    enabled, switching, \* the flag; where disable() is, and so who has enabledmtx
    freelist, reaplist,
    reaper, hand,       \* the reaper: its place, the arena it recycles
    meta,               \* the messages
    late,               \* history: arenas in a deref() or with the reaper
                        \* during the last disable()
    switches,           \* history: calls of enable() and disable()
    crashed

poolvars == <<enabled, switching, freelist, reaplist, late, switches>>
vars == <<arena, poolvars, reaper, hand, meta, crashed>>

\* A message: "deref" and "notify" are in the destructor.  a: its arena, or
\* nothing.  blocks: its chunks; those of a message without an arena come from
\* the heap, and nothing is said of them.
MetaType == [pc : {"none", "live", "deref", "notify"},
             a : {{}} \cup {{a} : a \in Arenas},
             total_size : 0..MaxTotal, blocks : Seq(BlockType)]
NoMeta == [pc |-> "none", a |-> {}, total_size |-> 0, blocks |-> <<>>]

Items(list) == {list[i] : i \in DOMAIN list}
Unused == {a \in Arenas : arena[a] = NoArena}

TypeOK ==
    /\ arena \in [Arenas -> ArenaType]
    /\ {enabled, crashed} \subseteq BOOLEAN
    /\ switching \in {"no", "free", "reap"}
    /\ freelist \in Seq(Arenas) /\ reaplist \in Seq(Arenas)
    /\ reaper \in {"look", "wait", "recycle"}
    /\ hand \in {{}} \cup {{a} : a \in Arenas}
    /\ (reaper = "recycle") <=> (hand # {})
    /\ meta \in [Messages -> MetaType]
    /\ \A m \in Messages : meta[m].pc \in {"none", "notify"} => meta[m].a = {}
    /\ late \subseteq Arenas
    /\ switches \in 0..MaxSwitches

\* claim_memory(n): the identities of n new arenas.
Claims(n, S) == {s \in [1..n -> S] : \A i, j \in 1..n : s[i] = s[j] => i = j}

\* arena_pool::arena_pool(): it claims memory, and is not enabled.
Init ==
    /\ freelist \in Claims(arena_pool_size, Arenas)
    /\ arena = [a \in Arenas |-> IF a \in Items(freelist) THEN NewArena ELSE NoArena]
    /\ enabled = FALSE /\ switching = "no"
    /\ reaplist = <<>>
    /\ reaper = "look" /\ hand = {}
    /\ meta = [m \in Messages |-> NoMeta]
    /\ late = {} /\ switches = 0
    /\ crashed = FALSE
-----------------------------------------------------------------------------
(* The messages.                                                           *)

\* ref(): a free arena, or a new one.
Ref(m) ==
    IF freelist # <<>>
    THEN /\ freelist' = SubSeq(freelist, 1, Len(freelist) - 1)
         /\ meta' = [meta EXCEPT ![m].a = {freelist[Len(freelist)]}, ![m].pc = "live"]
         /\ UNCHANGED arena
    ELSE \E a \in Unused :
             /\ arena' = [arena EXCEPT ![a] = NewArena]
             /\ meta' = [meta EXCEPT ![m].a = {a}, ![m].pc = "live"]
             /\ UNCHANGED freelist

\* message::create_message_for_recv(expected_size), and the constructors that
\* take data up to their append(); their sizes differ only in >= and >.
Create(m) ==
    /\ meta[m].pc = "none"
    /\ \E n \in Sizes \cup {large_message_size} :
           IF n >= large_message_size THEN Ref(m)
           ELSE /\ meta' = [meta EXCEPT ![m].pc = "live"]
                /\ UNCHANGED <<freelist, arena>>
    /\ UNCHANGED <<enabled, switching, reaplist, late, switches, reaper, hand,
                   crashed>>

\* message::use_arena().
UseArena(m) ==
    /\ meta[m].pc = "live" /\ meta[m].a = {}
    /\ Ref(m)
    /\ UNCHANGED <<enabled, switching, reaplist, late, switches, reaper, hand,
                   crashed>>

\* append(), alloc(): a chunk of the message, here one of its arena.
AppendChunk(m) ==
    /\ meta[m].pc = "live"
    /\ \E a \in meta[m].a, n \in Sizes :
           /\ meta[m].total_size + n <= MaxTotal
           /\ arena' = [arena EXCEPT ![a] = AfterAlloc(arena[a], n)]
           /\ meta' = [meta EXCEPT ![m].blocks = Append(@, Allocated(arena[a], n)),
                                   ![m].total_size = @ + n]
    /\ UNCHANGED <<poolvars, reaper, hand, crashed>>

\* clear(): reset() of an arena, whether there is one or not.
Clear(m) ==
    /\ meta[m].pc = "live"
    /\ meta' = [meta EXCEPT ![m].blocks = <<>>, ![m].total_size = 0]
    /\ crashed' = (meta[m].a = {} \/ \E a \in meta[m].a : FreesTwice(arena[a]))
    /\ arena' = [a \in Arenas |-> IF a \in meta[m].a THEN AfterReset(arena[a]) ELSE arena[a]]
    /\ UNCHANGED <<poolvars, reaper, hand>>

\* ~message_meta() of a message without an arena.
DestroyPlain(m) ==
    /\ meta[m].pc = "live" /\ meta[m].a = {}
    /\ meta' = [meta EXCEPT ![m] = NoMeta]
    /\ UNCHANGED <<arena, poolvars, reaper, hand, crashed>>

\* delete of the arenas of a set.
Delete(S) ==
    /\ arena' = [a \in Arenas |-> IF a \in S THEN NoArena ELSE arena[a]]
    /\ crashed' = \E a \in S : FreesTwice(arena[a])

\* ~message_meta() with an arena, deref(): the test under enabledmtx, ...
Deref(m) ==
    /\ meta[m].pc = "live" /\ meta[m].a # {}
    /\ switching = "no"
    /\ IF enabled
       THEN /\ meta' = [meta EXCEPT ![m].pc = "deref", ![m].blocks = <<>>,
                                   ![m].total_size = 0]
            /\ UNCHANGED <<arena, crashed>>
       ELSE /\ meta' = [meta EXCEPT ![m] = NoMeta]
            /\ Delete(meta[m].a)
    /\ UNCHANGED <<poolvars, reaper, hand>>

\* ... the push under reapmtx, ...
DerefPush(m) ==
    /\ meta[m].pc = "deref"
    /\ \E a \in meta[m].a : reaplist' = Append(reaplist, a)
    /\ meta' = [meta EXCEPT ![m].pc = "notify", ![m].a = {}]
    /\ UNCHANGED <<arena, enabled, switching, freelist, late, switches, reaper,
                   hand, crashed>>

\* A mutation of DerefNotify: the reaper is not notified.
DerefForgets(m) ==
    /\ meta[m].pc = "notify"
    /\ meta' = [meta EXCEPT ![m] = NoMeta]
    /\ UNCHANGED <<arena, poolvars, reaper, hand, crashed>>

\* ... and notify_all().
DerefNotify(m) ==
    /\ meta[m].pc = "notify"
    /\ meta' = [meta EXCEPT ![m] = NoMeta]
    /\ reaper' = IF reaper = "wait" THEN "look" ELSE reaper
    /\ UNCHANGED <<arena, poolvars, hand, crashed>>
-----------------------------------------------------------------------------
(* The reaper thread.                                                      *)

\* A mutation of ReaperTakes: the arena stays in the list.
ReaperCopies ==
    /\ reaper = "look" /\ reaplist # <<>>
    /\ hand' = {reaplist[Len(reaplist)]}
    /\ reaper' = "recycle"
    /\ UNCHANGED <<arena, poolvars, meta, crashed>>

ReaperTakes ==
    /\ reaper = "look" /\ reaplist # <<>>
    /\ hand' = {reaplist[Len(reaplist)]}
    /\ reaplist' = SubSeq(reaplist, 1, Len(reaplist) - 1)
    /\ reaper' = "recycle"
    /\ late' = IF switching = "no" THEN late ELSE late \cup hand'
    /\ UNCHANGED <<arena, enabled, switching, freelist, switches, meta, crashed>>

ReaperWaits ==
    /\ reaper = "look" /\ reaplist = <<>>
    /\ reaper' = "wait"
    /\ UNCHANGED <<arena, poolvars, hand, meta, crashed>>

ReaperWakesSpuriously ==
    /\ reaper = "wait"
    /\ reaper' = "look"
    /\ UNCHANGED <<arena, poolvars, hand, meta, crashed>>

\* A mutation of Recycle: the reaper keeps the arena it has recycled.
RecycleKeeping ==
    /\ reaper = "recycle"
    /\ \E a \in hand :
           /\ crashed' = FreesTwice(arena[a])
           /\ arena' = [arena EXCEPT ![a] = AfterReset(@)]
           /\ freelist' = Append(freelist, a)
    /\ reaper' = "look"
    /\ UNCHANGED <<enabled, switching, reaplist, late, switches, hand, meta>>

\* recycle(a): reset() and the push under freemtx.
Recycle ==
    /\ reaper = "recycle"
    /\ \E a \in hand :
           /\ crashed' = FreesTwice(arena[a])
           /\ arena' = [arena EXCEPT ![a] = AfterReset(@)]
           /\ freelist' = Append(freelist, a)
    /\ hand' = {}
    /\ reaper' = "look"
    /\ UNCHANGED <<enabled, switching, reaplist, late, switches, meta>>
-----------------------------------------------------------------------------
(* enable() and disable().                                                 *)

Enable ==
    /\ switching = "no" /\ ~enabled
    /\ switches < MaxSwitches
    /\ enabled' = TRUE
    /\ \E new \in Claims(arena_pool_size, Unused) :
           /\ freelist' = freelist \o new
           /\ arena' = [a \in Arenas |-> IF a \in Items(new) THEN NewArena ELSE arena[a]]
    /\ late' = {}
    /\ switches' = switches + 1
    /\ UNCHANGED <<switching, reaplist, reaper, hand, meta, crashed>>

\* disable(): the flag, ...
InDeref == UNION {meta[m].a : m \in {m \in Messages : meta[m].pc = "deref"}}
Disable ==
    /\ switching = "no" /\ enabled
    /\ switches < MaxSwitches
    /\ enabled' = FALSE
    /\ switching' = "free"
    /\ late' = InDeref \cup hand
    /\ switches' = switches + 1
    /\ UNCHANGED <<arena, freelist, reaplist, reaper, hand, meta, crashed>>

\* ... and release_memory() of one list and of the other.
ReleaseFree ==
    /\ switching = "free"
    /\ switching' = "reap"
    /\ freelist' = <<>>
    /\ Delete(Items(freelist))
    /\ UNCHANGED <<enabled, reaplist, late, switches, reaper, hand, meta>>

\* A mutation of ReleaseReap: only the free arenas are released.
ReleaseNothing ==
    /\ switching = "reap"
    /\ switching' = "no"
    /\ UNCHANGED <<arena, enabled, freelist, reaplist, late, switches, reaper,
                   hand, meta, crashed>>

ReleaseReap ==
    /\ switching = "reap"
    /\ switching' = "no"
    /\ reaplist' = <<>>
    /\ Delete(Items(reaplist))
    /\ UNCHANGED <<enabled, freelist, late, switches, reaper, hand, meta>>
-----------------------------------------------------------------------------
Reaper == ReaperTakes \/ ReaperWaits \/ Recycle
Handing(m) == DerefPush(m) \/ DerefNotify(m)
Using(m) ==
    Create(m) \/ UseArena(m) \/ AppendChunk(m) \/ Clear(m) \/ DestroyPlain(m) \/ Deref(m)
Switch == Enable \/ Disable \/ ReleaseFree \/ ReleaseReap

Next ==
    /\ ~crashed
    /\ \/ \E m \in Messages : Using(m) \/ Handing(m)
       \/ Reaper \/ ReaperWakesSpuriously
       \/ Switch

Spec == Init /\ [][Next]_vars
-----------------------------------------------------------------------------
(* Properties.                                                             *)

\* "The reaper thread is the sole owner of a when recycle() is called", and so
\* is every holder of an arena: none is in two places, twice in a list, or lost.
Places(a) ==
    {<<"free", i>> : i \in {i \in DOMAIN freelist : freelist[i] = a}}
    \cup {<<"reap", i>> : i \in {i \in DOMAIN reaplist : reaplist[i] = a}}
    \cup {<<"hand", 0>> : b \in hand \cap {a}}
    \cup {<<"meta", m>> : m \in {m \in Messages : a \in meta[m].a}}
OneOwner ==
    \A a \in Arenas :
        /\ \A p, q \in Places(a) : p = q
        /\ (arena[a] # NoArena) <=> (Places(a) # {})

\* alloc(): what a message has got from its arena is usable and its own, until
\* the message is cleared or destroyed.
BlocksAreSound ==
    \A m \in Messages : \A a \in meta[m].a : \A i \in DOMAIN meta[m].blocks :
        /\ Usable(arena[a], meta[m].blocks[i])
        /\ \A j \in DOMAIN meta[m].blocks :
               i # j => Disjoint(meta[m].blocks[i], meta[m].blocks[j])

\* "deref() does not recycle arenas if pooling disabled", "Disabling arena
\* pooling releases" the memory: but for the arenas that were in a deref() or with
\* the reaper at that time, which slip through, a disabled pool holds nothing.
Disabled == ~enabled /\ switches > 0 /\ switching = "no"
DisabledHoldsLate ==
    Disabled => Items(freelist) \cup Items(reaplist) \cup hand \subseteq late

\* notify_all() comes after the push, outside of its lock: the reaper never
\* sleeps on an arena unless a deref() is about to notify it.
ReaperHears ==
    reaper = "wait" =>
        reaplist = <<>> \/ \E m \in Messages : meta[m].pc = "notify"
=============================================================================
