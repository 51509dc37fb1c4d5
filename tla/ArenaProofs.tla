---------------------------- MODULE ArenaProofs -----------------------------
(***************************************************************************)
(* Theorems about Arena and ArenaPool, for any arenas, messages, sizes and *)
(* bounds.                                                                 *)
(***************************************************************************)
EXTENDS ArenaPool, SequenceTheorems, TLAPS

(* Lists. *)

Distinct(s) == \A i, j \in DOMAIN s : s[i] = s[j] => i = j
Last(s)  == s[Len(s)]
Front(s) == SubSeq(s, 1, Len(s) - 1)

LEMMA ItemsEmpty == Items(<<>>) = {} /\ Distinct(<<>>)
BY DEF Items, Distinct

LEMMA ItemsAppend ==
    ASSUME NEW S, NEW s \in Seq(S), NEW e \in S
    PROVE  /\ Append(s, e) \in Seq(S)
           /\ Items(Append(s, e)) = Items(s) \cup {e}
           /\ Distinct(s) /\ e \notin Items(s) => Distinct(Append(s, e))
<1>1. /\ Append(s, e) \in Seq(S)
      /\ DOMAIN Append(s, e) = 1..(Len(s) + 1) /\ DOMAIN s = 1..Len(s) /\ Len(s) \in Nat
      /\ \A i \in 1..Len(s) : Append(s, e)[i] = s[i]
      /\ Append(s, e)[Len(s) + 1] = e
  OBVIOUS
<1>2. Items(Append(s, e)) = Items(s) \cup {e}
  BY <1>1 DEF Items
<1>3. ASSUME Distinct(s), e \notin Items(s) PROVE Distinct(Append(s, e))
  <2>1. \A i \in 1..Len(s) : s[i] # e
    BY <1>1, <1>3 DEF Items
  <2> QED  BY <1>1, <1>3, <2>1 DEF Distinct
<1> QED  BY <1>1, <1>2, <1>3

LEMMA UpTo ==
    ASSUME NEW n \in Nat, n >= 1
    PROVE  /\ n \in 1..n
           /\ \A i \in 1..n : i = n \/ i \in 1..(n - 1)
           /\ \A i \in 1..(n - 1) : i \in 1..n /\ i # n
OBVIOUS

LEMMA ItemsFront ==
    ASSUME NEW S, NEW s \in Seq(S), s # <<>>
    PROVE  /\ Last(s) \in S /\ Front(s) \in Seq(S)
           /\ Items(s) = Items(Front(s)) \cup {Last(s)}
           /\ Distinct(s) => Distinct(Front(s)) /\ Last(s) \notin Items(Front(s))
<1>1. /\ Len(s) \in Nat /\ Len(s) >= 1 /\ DOMAIN s = 1..Len(s) /\ \A i \in 1..Len(s) : s[i] \in S
      /\ Last(s) = s[Len(s)]
  BY DEF Last
<1>n. /\ Len(s) \in 1..Len(s)
      /\ \A i \in 1..Len(s) : i = Len(s) \/ i \in 1..(Len(s) - 1)
      /\ \A i \in 1..(Len(s) - 1) : i \in 1..Len(s) /\ i # Len(s)
  BY <1>1, UpTo
<1>2. /\ Front(s) \in Seq(S) /\ DOMAIN Front(s) = 1..(Len(s) - 1)
      /\ \A i \in 1..(Len(s) - 1) : Front(s)[i] = s[i]
  BY <1>1, SubSeqProperties DEF Front
<1>3. Items(s) = Items(Front(s)) \cup {Last(s)}
  <2>1. ASSUME NEW x \in Items(s) PROVE x \in Items(Front(s)) \cup {Last(s)}
    <3>1. PICK i \in 1..Len(s) : x = s[i]
      BY <1>1 DEF Items
    <3>2. i = Len(s) \/ i \in 1..(Len(s) - 1)
      BY <1>n
    <3> QED  BY <3>1, <3>2, <1>1, <1>2 DEF Items
  <2>2. Items(Front(s)) \subseteq Items(s)
    BY <1>1, <1>2, <1>n DEF Items
  <2>3. Last(s) \in Items(s)
    BY <1>1, <1>n DEF Items
  <2> QED  BY <2>1, <2>2, <2>3
<1>4. ASSUME Distinct(s) PROVE Distinct(Front(s)) /\ Last(s) \notin Items(Front(s))
  <2>1. Distinct(Front(s))
    BY <1>1, <1>2, <1>4, <1>n DEF Distinct
  <2>2. \A i \in 1..(Len(s) - 1) : s[i] # s[Len(s)]
    BY <1>1, <1>4, <1>n DEF Distinct
  <2> QED  BY <1>1, <1>2, <2>1, <2>2 DEF Items
<1> QED  BY <1>1, <1>2, <1>3, <1>4

LEMMA ItemsConcat ==
    ASSUME NEW S, NEW s \in Seq(S), NEW t \in Seq(S)
    PROVE  /\ s \o t \in Seq(S)
           /\ Items(s \o t) = Items(s) \cup Items(t)
           /\ Distinct(s) /\ Distinct(t) /\ Items(s) \cap Items(t) = {} => Distinct(s \o t)
<1>1. /\ s \o t \in Seq(S) /\ DOMAIN (s \o t) = 1..(Len(s) + Len(t))
      /\ Len(s) \in Nat /\ Len(t) \in Nat /\ DOMAIN s = 1..Len(s) /\ DOMAIN t = 1..Len(t)
      /\ \A i \in 1..Len(s) : i \in 1..(Len(s) + Len(t)) /\ (s \o t)[i] = s[i]
      /\ \A i \in 1..Len(t) : i + Len(s) \in 1..(Len(s) + Len(t)) /\ (s \o t)[i + Len(s)] = t[i]
      /\ \A i \in 1..(Len(s) + Len(t)) : i \notin 1..Len(s) =>
             i - Len(s) \in 1..Len(t) /\ (s \o t)[i] = t[i - Len(s)]
  BY ConcatProperties
<1>2. Items(s \o t) = Items(s) \cup Items(t)
  BY <1>1 DEF Items
<1>3. ASSUME Distinct(s), Distinct(t), Items(s) \cap Items(t) = {}, NEW i \in DOMAIN (s \o t),
             NEW j \in DOMAIN (s \o t), (s \o t)[i] = (s \o t)[j]
      PROVE  i = j
  <2>1. CASE i \in 1..Len(s) /\ j \in 1..Len(s)
    BY <1>1, <1>3, <2>1 DEF Distinct
  <2>2. CASE i \notin 1..Len(s) /\ j \notin 1..Len(s)
    <3>1. i - Len(s) = j - Len(s)
      BY <1>1, <1>3, <2>2 DEF Distinct
    <3> QED  BY <3>1, <1>1
  <2>3. CASE i \in 1..Len(s) /\ j \notin 1..Len(s)
    BY <1>1, <1>3, <2>3 DEF Items
  <2>4. CASE i \notin 1..Len(s) /\ j \in 1..Len(s)
    BY <1>1, <1>3, <2>4 DEF Items
  <2> QED  BY <2>1, <2>2, <2>3, <2>4
<1> QED  BY <1>1, <1>2, <1>3 DEF Distinct

LEMMA ClaimsFacts ==
    ASSUME NEW n \in Nat, NEW S, NEW s \in Claims(n, S)
    PROVE  s \in Seq(S) /\ Distinct(s) /\ Items(s) \subseteq S
<1>1. s \in [1..n -> S]
  BY DEF Claims
<1>2. s \in Seq(S) /\ DOMAIN s = 1..n
  BY <1>1
<1> QED  BY <1>1, <1>2 DEF Claims, Distinct, Items
-----------------------------------------------------------------------------
(* One arena. *)

\* The chunk allocated from and the first one are ordinary and not freed.
Sound(a) ==
    /\ {1, a.curchunk} \subseteq DOMAIN a.chunks
    /\ \A i \in {1, a.curchunk} : a.chunks[i] = Chunk(arena_chunk_size)
    /\ a.curpos <= arena_chunk_size

LEMMA OffsetNat == ASSUME NEW a \in ArenaType PROVE AlignOffset(a) \in Nat
<1>1. a.curpos \in Nat
  BY DEF ArenaType
<1>2. \A x \in Nat : x % Align \in 0..(Align - 1)
  BY ArenaAssumption
<1> QED  BY <1>1, <1>2, ArenaAssumption DEF AlignOffset

LEMMA NewIsSound == NewArena \in ArenaType /\ Sound(NewArena) /\ NoArena \in ArenaType
<1>1. Chunk(arena_chunk_size) \in ChunkType
  BY ArenaAssumption DEF Chunk, ChunkType
<1>2. <<Chunk(arena_chunk_size)>> \in Seq(ChunkType) /\ <<>> \in Seq(ChunkType)
  BY <1>1
<1> QED  BY <1>1, <1>2, ArenaAssumption DEF NewArena, NoArena, ArenaType, Sound

LEMMA SoundExists == ASSUME NEW a \in ArenaType, Sound(a) PROVE a # NoArena
BY DEF Sound, NoArena

LEMMA AllocSound ==
    ASSUME NEW a \in ArenaType, NEW n \in Nat, Sound(a)
    PROVE  /\ AfterAlloc(a, n) \in ArenaType /\ Sound(AfterAlloc(a, n))
           /\ Allocated(a, n) \in BlockType
<1>t. /\ a.chunks \in Seq(ChunkType) /\ a.curchunk \in Nat /\ a.curpos \in Nat
      /\ AlignOffset(a) \in Nat /\ arena_chunk_size \in Nat
  BY OffsetNat, ArenaAssumption DEF ArenaType
<1>c. ASSUME NEW k \in Nat
      PROVE  LET s == Append(a.chunks, Chunk(k))
             IN  /\ s \in Seq(ChunkType) /\ Len(s) = Len(a.chunks) + 1 /\ DOMAIN s = 1..(Len(a.chunks) + 1)
                 /\ \A i \in DOMAIN a.chunks : i \in DOMAIN s /\ s[i] = a.chunks[i]
                 /\ s[Len(a.chunks) + 1] = Chunk(k) /\ Len(a.chunks) + 1 \in DOMAIN s
  <2>1. Chunk(k) \in ChunkType
    BY DEF Chunk, ChunkType
  <2> QED  BY <2>1, <1>t
<1>l. Len(a.chunks) + 1 \in Nat
  BY <1>t
<1>1. Allocated(a, n) \in BlockType
  BY <1>t, <1>l DEF Allocated, BlockType
<1>2. CASE IsLarge(n)
  <2>1. AfterAlloc(a, n) = [a EXCEPT !.chunks = Append(a.chunks, Chunk(n))]
    BY <1>2 DEF AfterAlloc
  <2> DEFINE s == Append(a.chunks, Chunk(n))
  <2>2. /\ s \in Seq(ChunkType) /\ \A i \in DOMAIN a.chunks : i \in DOMAIN s /\ s[i] = a.chunks[i]
    BY <1>c
  <2> HIDE DEF s
  <2>3. /\ AfterAlloc(a, n).chunks = s /\ AfterAlloc(a, n).curchunk = a.curchunk
        /\ AfterAlloc(a, n).curpos = a.curpos
    BY <2>1 DEF s, ArenaType
  <2>4. AfterAlloc(a, n) \in ArenaType
    BY <2>1, <2>2, <1>t DEF ArenaType, s
  <2> QED  BY <2>2, <2>3, <2>4, <1>1 DEF Sound
<1>3. CASE ~IsLarge(n) /\ Fits(a, n)
  <2>1. AfterAlloc(a, n) = [a EXCEPT !.curpos = a.curpos + n + AlignOffset(a)]
    BY <1>3, <1>t DEF AfterAlloc
  <2>2. a.curpos + n + AlignOffset(a) \in Nat /\ a.curpos + n + AlignOffset(a) <= arena_chunk_size
    BY <1>3, <1>t DEF Fits, RemainingBytes
  <2>3. /\ AfterAlloc(a, n) \in ArenaType
        /\ AfterAlloc(a, n).chunks = a.chunks /\ AfterAlloc(a, n).curchunk = a.curchunk
        /\ AfterAlloc(a, n).curpos = a.curpos + n + AlignOffset(a)
    BY <2>1, <2>2 DEF ArenaType
  <2> QED  BY <2>2, <2>3, <1>1 DEF Sound
<1>4. CASE ~IsLarge(n) /\ ~Fits(a, n)
  <2>1. AfterAlloc(a, n) = [chunks   |-> Append(a.chunks, Chunk(arena_chunk_size)),
                            curchunk |-> Len(a.chunks) + 1,
                            curpos   |-> n]
    BY <1>4 DEF AfterAlloc
  <2>2. n <= arena_chunk_size
    BY <1>4, <1>t DEF IsLarge
  <2> DEFINE s == Append(a.chunks, Chunk(arena_chunk_size))
  <2>3. /\ s \in Seq(ChunkType) /\ {1, Len(a.chunks) + 1} \subseteq DOMAIN s
        /\ s[1] = Chunk(arena_chunk_size) /\ s[Len(a.chunks) + 1] = Chunk(arena_chunk_size)
    BY <1>t, <1>c DEF Sound
  <2> HIDE DEF s
  <2>4. /\ AfterAlloc(a, n).chunks = s /\ AfterAlloc(a, n).curchunk = Len(a.chunks) + 1
        /\ AfterAlloc(a, n).curpos = n
    BY <2>1 DEF s
  <2>5. AfterAlloc(a, n) \in ArenaType
    BY <2>1, <2>3, <1>l DEF ArenaType, s
  <2> QED  BY <2>2, <2>3, <2>4, <2>5, <1>1 DEF Sound
<1> QED  BY <1>2, <1>3, <1>4

LEMMA ResetSound ==
    ASSUME NEW a \in ArenaType, Sound(a)
    PROVE  AfterReset(a) \in ArenaType /\ Sound(AfterReset(a))
<1> DEFINE c == [i \in DOMAIN a.chunks |->
                    IF i = 1 THEN a.chunks[i] ELSE [a.chunks[i] EXCEPT !.freed = TRUE]]
<1>1. a.chunks \in Seq(ChunkType) /\ 1 \in DOMAIN a.chunks /\ a.chunks[1] = Chunk(arena_chunk_size)
  BY DEF ArenaType, Sound
<1>2. \A i \in DOMAIN a.chunks : a.chunks[i] \in ChunkType
  BY <1>1
<1>3. \A i \in DOMAIN a.chunks : c[i] \in ChunkType
  BY <1>2 DEF ChunkType
<1>4. DOMAIN a.chunks = 1..Len(a.chunks) /\ Len(a.chunks) \in Nat
  BY <1>1
<1>5. c \in Seq(ChunkType)
  <2>1. c \in [1..Len(a.chunks) -> ChunkType]
    BY <1>3, <1>4
  <2> QED  BY <2>1, <1>4, SeqDef
<1>6. DOMAIN c = DOMAIN a.chunks /\ c[1] = a.chunks[1]
  BY <1>1
<1> HIDE DEF c
<1>7. AfterReset(a) = [chunks |-> c, curchunk |-> 1, curpos |-> 0]
  BY DEF AfterReset, c
<1> QED  BY <1>1, <1>5, <1>6, <1>7, ArenaAssumption DEF ArenaType, Sound
-----------------------------------------------------------------------------
(* Types. *)

ArenasSound == \A a \in Arenas : arena[a] # NoArena => Sound(arena[a])

\* What ref() does.
LEMMA RefType ==
    ASSUME TypeOK, ArenasSound, NEW m \in Messages, Ref(m)
    PROVE  /\ meta' \in [Messages -> MetaType] /\ freelist' \in Seq(Arenas)
           /\ arena' \in [Arenas -> ArenaType] /\ ArenasSound'
           /\ \A k \in Messages \ {m} : meta'[k] = meta[k]
           /\ meta'[m].pc = "live" /\ meta'[m].blocks = meta[m].blocks
<1>1. ASSUME NEW a \in Arenas, meta' = [meta EXCEPT ![m].a = {a}, ![m].pc = "live"]
      PROVE  /\ meta' \in [Messages -> MetaType] /\ meta'[m].pc = "live"
             /\ meta'[m].blocks = meta[m].blocks
             /\ \A k \in Messages \ {m} : meta'[k] = meta[k]
  BY <1>1 DEF TypeOK, MetaType
<1>2. CASE freelist # <<>>
  <2>1. Last(freelist) \in Arenas /\ Front(freelist) \in Seq(Arenas)
    BY <1>2, ItemsFront DEF TypeOK
  <2>2. /\ freelist' = Front(freelist) /\ arena' = arena
        /\ meta' = [meta EXCEPT ![m].a = {Last(freelist)}, ![m].pc = "live"]
    BY <1>2 DEF Ref, Front, Last
  <2> QED  BY <2>1, <2>2, <1>1 DEF TypeOK, ArenasSound
<1>3. CASE freelist = <<>>
  <2>1. PICK a \in Unused :
            /\ arena' = [arena EXCEPT ![a] = NewArena]
            /\ meta' = [meta EXCEPT ![m].a = {a}, ![m].pc = "live"]
            /\ UNCHANGED freelist
    BY <1>3 DEF Ref
  <2>2. a \in Arenas
    BY DEF Unused
  <2>3. arena' \in [Arenas -> ArenaType] /\ ArenasSound'
    BY <2>1, <2>2, NewIsSound DEF TypeOK, ArenasSound
  <2> QED  BY <2>1, <2>2, <2>3, <1>1 DEF TypeOK
<1> QED  BY <1>2, <1>3

LEMMA DeleteType ==
    ASSUME TypeOK, ArenasSound, NEW S \in SUBSET Arenas, Delete(S)
    PROVE  /\ arena' \in [Arenas -> ArenaType] /\ ArenasSound' /\ crashed' \in BOOLEAN
BY NewIsSound DEF TypeOK, ArenasSound, Delete

\* Every arena is held by one list, by the reaper or by one message, and what is
\* held is there.
OwnInv ==
    /\ Distinct(freelist) /\ Distinct(reaplist)
    /\ Items(freelist) \cap Items(reaplist) = {}
    /\ (Items(freelist) \cup Items(reaplist)) \cap hand = {}
    /\ \A m \in Messages :
           meta[m].a \cap (Items(freelist) \cup Items(reaplist) \cup hand) = {}
    /\ \A m, n \in Messages : m # n => meta[m].a \cap meta[n].a = {}
    /\ \A a \in Arenas : arena[a] # NoArena <=>
           \/ a \in Items(freelist) \cup Items(reaplist) \cup hand
           \/ \E m \in Messages : a \in meta[m].a

\* A message has blocks only in an arena, and none once it is being destroyed.
Blockless ==
    \A m \in Messages : meta[m].a = {} \/ meta[m].pc = "deref" => meta[m].blocks = <<>>

Typed == TypeOK /\ ArenasSound /\ Blockless

LEMMA TypeNext == Typed /\ OwnInv /\ [Next]_vars => Typed'
<1> SUFFICES ASSUME Typed, OwnInv, [Next]_vars PROVE Typed'
  OBVIOUS
<1> USE ArenaPoolAssumption
<1>t. TypeOK /\ ArenasSound /\ Blockless
  BY DEF Typed
<1>a. \A m \in Messages : meta[m] \in MetaType /\ meta[m].a \subseteq Arenas
  BY <1>t DEF TypeOK, MetaType
<1>b. \A m \in Messages : \A a \in meta[m].a : a \in Arenas /\ arena[a] \in ArenaType /\ Sound(arena[a])
  BY <1>t, <1>a DEF TypeOK, ArenasSound, OwnInv
<1>n. NoMeta \in MetaType /\ NoMeta.a = {} /\ NoMeta.blocks = <<>>
  BY DEF NoMeta, MetaType
\* A step of one message, which leaves the reaper and the switch alone.
<1>m. ASSUME NEW m \in Messages, meta' \in [Messages -> MetaType],
             \A k \in Messages \ {m} : meta'[k] = meta[k],
             meta'[m].pc \in {"none", "notify"} => meta'[m].a = {},
             meta'[m].a = {} \/ meta'[m].pc = "deref" => meta'[m].blocks = <<>>,
             arena' \in [Arenas -> ArenaType], ArenasSound', crashed' \in BOOLEAN,
             freelist' \in Seq(Arenas), reaplist' \in Seq(Arenas),
             UNCHANGED <<enabled, switching, late, switches, hand>>,
             reaper' = reaper \/ (reaper = "wait" /\ reaper' = "look")
      PROVE  Typed'
  BY <1>m, <1>t DEF Typed, TypeOK, Blockless
<1>u. arena \in [Arenas -> ArenaType] /\ ArenasSound /\ crashed \in BOOLEAN
      /\ freelist \in Seq(Arenas) /\ reaplist \in Seq(Arenas)
  BY <1>t DEF TypeOK
<1>v. UNCHANGED arena => ArenasSound'
  BY <1>t DEF ArenasSound
<1>e. <<>> \in Seq(BlockType) /\ 0 \in 0..MaxTotal
  OBVIOUS
\* A message that is gone.
<1>d. ASSUME NEW m \in Messages, meta' = [meta EXCEPT ![m] = NoMeta]
      PROVE  /\ meta' \in [Messages -> MetaType] /\ \A k \in Messages \ {m} : meta'[k] = meta[k]
             /\ meta'[m].a = {} /\ meta'[m].blocks = <<>>
  BY <1>d, <1>n, <1>t DEF TypeOK
<1>1. ASSUME NEW m \in Messages, Create(m) PROVE Typed'
  <2>0. /\ UNCHANGED <<enabled, switching, reaplist, late, switches, reaper, hand, crashed>>
        /\ meta[m].pc = "none" /\ meta[m] \in MetaType /\ meta[m].a = {} /\ meta[m].blocks = <<>>
    BY <1>1, <1>t, <1>a DEF Create, TypeOK, Blockless
  <2>1. CASE Ref(m)
    BY <2>0, <2>1, <1>t, <1>u, <1>m, RefType
  <2>2. CASE /\ meta' = [meta EXCEPT ![m].pc = "live"]
             /\ UNCHANGED <<freelist, arena>>
    <3>1. /\ meta' \in [Messages -> MetaType] /\ \A k \in Messages \ {m} : meta'[k] = meta[k]
          /\ meta'[m].pc = "live" /\ meta'[m].blocks = meta[m].blocks
      BY <2>0, <2>2, <1>t DEF TypeOK, MetaType
    <3> QED  BY <2>0, <2>2, <3>1, <1>u, <1>v, <1>m
  <2> QED  BY <1>1, <2>1, <2>2 DEF Create
<1>2. ASSUME NEW m \in Messages, UseArena(m) PROVE Typed'
  <2>1. Ref(m) /\ meta[m].a = {} /\ meta[m].blocks = <<>>
        /\ UNCHANGED <<enabled, switching, reaplist, late, switches, reaper, hand, crashed>>
    BY <1>2, <1>t DEF UseArena, Blockless
  <2> QED  BY <2>1, <1>t, <1>u, <1>m, RefType
<1>3. ASSUME NEW m \in Messages, AppendChunk(m) PROVE Typed'
  <2>0. UNCHANGED <<poolvars, reaper, hand, crashed>>
    BY <1>3 DEF AppendChunk
  <2>1. PICK a \in meta[m].a, n \in Sizes :
            /\ meta[m].total_size + n <= MaxTotal
            /\ arena' = [arena EXCEPT ![a] = AfterAlloc(arena[a], n)]
            /\ meta' = [meta EXCEPT ![m].blocks = Append(@, Allocated(arena[a], n)),
                                    ![m].total_size = @ + n]
    BY <1>3 DEF AppendChunk
  <2>2. meta[m] \in MetaType /\ a \in Arenas /\ n \in Nat /\ arena[a] \in ArenaType /\ Sound(arena[a])
    BY <1>a, <1>b
  <2>3. /\ AfterAlloc(arena[a], n) \in ArenaType /\ Sound(AfterAlloc(arena[a], n))
        /\ Allocated(arena[a], n) \in BlockType
    BY <2>2, AllocSound
  <2>4. arena' \in [Arenas -> ArenaType] /\ ArenasSound'
    BY <2>1, <2>2, <2>3, <1>t DEF TypeOK, ArenasSound
  <2>5. /\ Append(meta[m].blocks, Allocated(arena[a], n)) \in Seq(BlockType)
        /\ meta[m].total_size + n \in 0..MaxTotal
    BY <2>1, <2>2, <2>3 DEF MetaType
  <2>6. meta' \in [Messages -> MetaType]
    BY <2>1, <2>2, <2>5, <1>t DEF TypeOK, MetaType
  <2>7. /\ \A k \in Messages \ {m} : meta'[k] = meta[k]
        /\ meta'[m].pc = meta[m].pc /\ meta'[m].a = meta[m].a /\ meta[m].a # {}
    BY <2>1, <2>2, <1>t DEF TypeOK, MetaType
  <2>8. meta[m].pc = "live"
    BY <1>3 DEF AppendChunk
  <2> QED  BY <2>0, <2>4, <2>6, <2>7, <2>8, <1>u, <1>m DEF poolvars
<1>4. ASSUME NEW m \in Messages, Clear(m) PROVE Typed'
  <2>0. UNCHANGED <<poolvars, reaper, hand>> /\ meta[m].pc = "live"
    BY <1>4 DEF Clear
  <2>1. meta' = [meta EXCEPT ![m].blocks = <<>>, ![m].total_size = 0]
    BY <1>4 DEF Clear
  <2>2. meta' \in [Messages -> MetaType] /\ \A k \in Messages \ {m} : meta'[k] = meta[k]
    BY <2>0, <2>1, <1>t, <1>e DEF TypeOK, MetaType
  <2>5. meta'[m].pc = "live" /\ meta'[m].blocks = <<>>
    BY <2>0, <2>1, <1>t DEF TypeOK, MetaType
  <2>3. arena' \in [Arenas -> ArenaType] /\ ArenasSound'
    BY <1>4, <1>t, <1>b, ResetSound DEF Clear, TypeOK, ArenasSound
  <2>4. crashed' \in BOOLEAN
    BY <1>4 DEF Clear
  <2> QED  BY <2>0, <2>2, <2>3, <2>4, <2>5, <1>u, <1>m DEF poolvars
<1>5. ASSUME NEW m \in Messages, DestroyPlain(m) PROVE Typed'
  BY <1>5, <1>d, <1>u, <1>v, <1>m DEF DestroyPlain, poolvars
<1>6. ASSUME NEW m \in Messages, Deref(m) PROVE Typed'
  <2>0. UNCHANGED <<poolvars, reaper, hand>>
    BY <1>6 DEF Deref
  <2>1. CASE enabled
    <3>1. /\ meta' = [meta EXCEPT ![m].pc = "deref", ![m].blocks = <<>>, ![m].total_size = 0]
          /\ UNCHANGED <<arena, crashed>>
      BY <1>6, <2>1 DEF Deref
    <3>2. meta' \in [Messages -> MetaType] /\ \A k \in Messages \ {m} : meta'[k] = meta[k]
      <4> DEFINE r == [meta[m] EXCEPT !.pc = "deref", !.blocks = <<>>, !.total_size = 0]
      <4>1. r \in MetaType
        BY <1>a, <1>e DEF MetaType
      <4>2. meta' = [meta EXCEPT ![m] = r]
        BY <3>1, <1>t DEF TypeOK
      <4> HIDE DEF r
      <4> QED  BY <4>1, <4>2, <1>t DEF TypeOK
    <3>3. meta'[m].pc = "deref" /\ meta'[m].blocks = <<>>
      BY <3>1, <1>t DEF TypeOK, MetaType
    <3> QED  BY <2>0, <3>1, <3>2, <3>3, <1>u, <1>v, <1>m DEF poolvars
  <2>2. CASE ~enabled
    <3>1. meta' = [meta EXCEPT ![m] = NoMeta] /\ Delete(meta[m].a)
      BY <1>6, <2>2 DEF Deref
    <3> QED  BY <2>0, <3>1, <1>a, <1>d, <1>t, <1>u, <1>m, DeleteType DEF poolvars
  <2> QED  BY <2>1, <2>2
<1>7. ASSUME NEW m \in Messages, DerefPush(m) PROVE Typed'
  <2>0. UNCHANGED <<arena, enabled, switching, freelist, late, switches, reaper, hand, crashed>>
    BY <1>7 DEF DerefPush
  <2>1. reaplist' \in Seq(Arenas)
    BY <1>7, <1>a, <1>u, ItemsAppend DEF DerefPush
  <2>2. meta' = [meta EXCEPT ![m].pc = "notify", ![m].a = {}] /\ meta[m].pc = "deref"
    BY <1>7 DEF DerefPush
  <2>3. /\ meta' \in [Messages -> MetaType] /\ \A k \in Messages \ {m} : meta'[k] = meta[k]
        /\ meta'[m].pc = "notify" /\ meta'[m].a = {} /\ meta'[m].blocks = meta[m].blocks
    BY <2>2, <1>t DEF TypeOK, MetaType
  <2>4. meta[m].blocks = <<>>
    BY <2>2, <1>t DEF Blockless
  <2> QED  BY <2>0, <2>1, <2>3, <2>4, <1>u, <1>v, <1>m
<1>8. ASSUME NEW m \in Messages, DerefNotify(m) PROVE Typed'
  BY <1>8, <1>d, <1>u, <1>v, <1>m DEF DerefNotify, poolvars
\* Steps that leave the messages alone.
<1>r. ASSUME UNCHANGED meta, enabled' \in BOOLEAN, crashed' \in BOOLEAN,
             switching' \in {"no", "free", "reap"},
             freelist' \in Seq(Arenas), reaplist' \in Seq(Arenas),
             reaper' \in {"look", "wait", "recycle"}, hand' \in {{}} \cup {{a} : a \in Arenas},
             (reaper' = "recycle") <=> (hand' # {}),
             late' \subseteq Arenas, switches' \in 0..MaxSwitches,
             arena' \in [Arenas -> ArenaType], ArenasSound'
      PROVE  Typed'
  BY <1>r, <1>t DEF Typed, TypeOK, Blockless
<1>h. /\ hand \subseteq Arenas /\ late \subseteq Arenas /\ switches \in 0..MaxSwitches
      /\ enabled \in BOOLEAN /\ switching \in {"no", "free", "reap"}
      /\ reaper \in {"look", "wait", "recycle"} /\ hand \in {{}} \cup {{a} : a \in Arenas}
      /\ (reaper = "recycle") <=> (hand # {})
  BY <1>t DEF TypeOK
<1>9. CASE ReaperTakes
  <2>1. Last(reaplist) \in Arenas /\ Front(reaplist) \in Seq(Arenas)
    BY <1>9, <1>u, ItemsFront DEF ReaperTakes
  <2>2. /\ hand' = {Last(reaplist)} /\ reaplist' = Front(reaplist) /\ reaper' = "recycle"
        /\ late' \in {late, late \cup hand'}
        /\ UNCHANGED <<arena, enabled, switching, freelist, switches, meta, crashed>>
    BY <1>9 DEF ReaperTakes, Last, Front
  <2> QED  BY <2>1, <2>2, <1>h, <1>u, <1>v, <1>r
<1>10. CASE ReaperWaits \/ ReaperWakesSpuriously
  BY <1>10, <1>h, <1>u, <1>v, <1>r DEF ReaperWaits, ReaperWakesSpuriously, poolvars
<1>11. CASE Recycle
  <2>1. PICK a \in hand :
            /\ crashed' = FreesTwice(arena[a])
            /\ arena' = [arena EXCEPT ![a] = AfterReset(@)]
            /\ freelist' = Append(freelist, a)
    BY <1>11 DEF Recycle
  <2>2. /\ hand' = {} /\ reaper' = "look"
        /\ UNCHANGED <<enabled, switching, reaplist, late, switches, meta>>
    BY <1>11 DEF Recycle
  <2>3. a \in Arenas /\ arena[a] \in ArenaType /\ Sound(arena[a])
    BY <1>t, <1>h, <1>u DEF ArenasSound, OwnInv
  <2>4. arena' \in [Arenas -> ArenaType] /\ ArenasSound'
    BY <2>1, <2>3, <1>t, <1>u, ResetSound DEF ArenasSound
  <2>5. freelist' \in Seq(Arenas) /\ crashed' \in BOOLEAN
    BY <2>1, <2>3, <1>u, ItemsAppend DEF FreesTwice
  <2> QED  BY <2>2, <2>4, <2>5, <1>h, <1>u, <1>r
<1>12. CASE Enable
  <2>1. PICK new \in Claims(arena_pool_size, Unused) :
            /\ freelist' = freelist \o new
            /\ arena' = [a \in Arenas |-> IF a \in Items(new) THEN NewArena ELSE arena[a]]
    BY <1>12 DEF Enable
  <2>2. new \in Seq(Arenas)
    <3>1. new \in Claims(arena_pool_size, Arenas)
      BY DEF Claims, Unused
    <3> QED  BY <3>1, ClaimsFacts
  <2>3. freelist' \in Seq(Arenas)
    BY <2>1, <2>2, <1>u, ItemsConcat
  <2>4. arena' \in [Arenas -> ArenaType] /\ ArenasSound'
    BY <2>1, <1>t, <1>u, NewIsSound DEF ArenasSound
  <2>5. /\ enabled' = TRUE /\ late' = {} /\ switches' \in 0..MaxSwitches
        /\ UNCHANGED <<switching, reaplist, reaper, hand, meta, crashed>>
    BY <1>12, <1>h DEF Enable
  <2> QED  BY <2>3, <2>4, <2>5, <1>h, <1>u, <1>r
<1>13. CASE Disable
  <2>1. InDeref \subseteq Arenas
    BY <1>a DEF InDeref
  <2>2. /\ enabled' = FALSE /\ switching' = "free" /\ late' = InDeref \cup hand
        /\ switches' \in 0..MaxSwitches
        /\ UNCHANGED <<arena, freelist, reaplist, reaper, hand, meta, crashed>>
    BY <1>13, <1>h DEF Disable
  <2> QED  BY <2>1, <2>2, <1>h, <1>u, <1>v, <1>r
<1>14. CASE ReleaseFree
  <2>1. Items(freelist) \subseteq Arenas
    BY <1>u DEF Items
  <2>2. /\ switching' = "reap" /\ freelist' = <<>> /\ Delete(Items(freelist))
        /\ UNCHANGED <<enabled, reaplist, late, switches, reaper, hand, meta>>
    BY <1>14 DEF ReleaseFree
  <2> QED  BY <2>1, <2>2, <1>t, <1>h, <1>u, <1>r, DeleteType
<1>15. CASE ReleaseReap
  <2>1. Items(reaplist) \subseteq Arenas
    BY <1>u DEF Items
  <2>2. /\ switching' = "no" /\ reaplist' = <<>> /\ Delete(Items(reaplist))
        /\ UNCHANGED <<enabled, freelist, late, switches, reaper, hand, meta>>
    BY <1>15 DEF ReleaseReap
  <2> QED  BY <2>1, <2>2, <1>t, <1>h, <1>u, <1>r, DeleteType
<1>16. CASE UNCHANGED vars
  BY <1>16, <1>h, <1>u, <1>v, <1>r DEF vars, poolvars
<1> QED
  BY <1>1, <1>2, <1>3, <1>4, <1>5, <1>6, <1>7, <1>8, <1>9, <1>10, <1>11, <1>12, <1>13,
     <1>14, <1>15, <1>16
  DEF Next, Using, Handing, Reaper, Switch
-----------------------------------------------------------------------------
(* Every arena has one owner. *)

LEMMA OwnNext == Typed /\ OwnInv /\ [Next]_vars => OwnInv'
<1> SUFFICES ASSUME Typed, OwnInv, [Next]_vars PROVE OwnInv'
  OBVIOUS
<1> USE ArenaPoolAssumption
<1>y. TypeOK /\ ArenasSound
  BY DEF Typed
<1>a. \A m \in Messages : meta[m] \in MetaType /\ meta[m].a \subseteq Arenas
  BY <1>y DEF TypeOK, MetaType
<1>t. /\ arena \in [Arenas -> ArenaType]
      /\ freelist \in Seq(Arenas) /\ reaplist \in Seq(Arenas)
      /\ hand \subseteq Arenas /\ (hand # {} => reaper = "recycle")
      /\ \A m \in Messages : meta[m] \in MetaType /\ meta[m].a \subseteq Arenas
      /\ meta \in [Messages -> MetaType] /\ DOMAIN meta = Messages
      /\ \A m \in Messages : meta[m].pc \in {"none", "notify"} => meta[m].a = {}
  <2>1. hand \subseteq Arenas /\ (hand # {} => reaper = "recycle")
    BY <1>y DEF TypeOK
  <2> QED  BY <2>1, <1>y, <1>a DEF TypeOK
<1>s. /\ Items(freelist) \subseteq Arenas /\ Items(reaplist) \subseteq Arenas
      /\ \A a \in Arenas : arena[a] # NoArena => Sound(arena[a])
      /\ NewArena # NoArena
  BY <1>t, <1>y, NewIsSound, SoundExists DEF Items, ArenasSound
<1>k. OwnInv' <=>
        /\ Distinct(freelist') /\ Distinct(reaplist')
        /\ Items(freelist') \cap Items(reaplist') = {}
        /\ (Items(freelist') \cup Items(reaplist')) \cap hand' = {}
        /\ \A m \in Messages :
               meta'[m].a \cap (Items(freelist') \cup Items(reaplist') \cup hand') = {}
        /\ \A m, n \in Messages : m # n => meta'[m].a \cap meta'[n].a = {}
        /\ \A a \in Arenas : arena'[a] # NoArena <=>
               \/ a \in Items(freelist') \cup Items(reaplist') \cup hand'
               \/ \E m \in Messages : a \in meta'[m].a
  BY DEF OwnInv, Items, Distinct
\* Nothing changes hands.
<1>q. ASSUME UNCHANGED <<freelist, reaplist, hand>>,
             \A m \in Messages : meta'[m].a = meta[m].a,
             \A a \in Arenas : arena'[a] = NoArena <=> arena[a] = NoArena
      PROVE  OwnInv'
  BY <1>q, <1>k DEF OwnInv
\* A message gets an arena.
<1>g. ASSUME NEW m \in Messages, Ref(m), meta[m].a = {}, UNCHANGED <<reaplist, hand>>
      PROVE  OwnInv'
  <2>a. ASSUME NEW a \in Arenas, meta' = [meta EXCEPT ![m].a = {a}, ![m].pc = "live"]
        PROVE  meta'[m].a = {a} /\ \A k \in Messages \ {m} : meta'[k].a = meta[k].a
    BY <2>a, <1>t DEF MetaType
  <2>1. CASE freelist # <<>>
    <3>1. /\ freelist' = Front(freelist) /\ arena' = arena
          /\ meta' = [meta EXCEPT ![m].a = {Last(freelist)}, ![m].pc = "live"]
      BY <1>g, <2>1 DEF Ref, Front, Last
    <3>2. /\ Last(freelist) \in Arenas /\ Items(freelist) = Items(Front(freelist)) \cup {Last(freelist)}
          /\ Distinct(Front(freelist)) /\ Last(freelist) \notin Items(Front(freelist))
      BY <2>1, <1>t, ItemsFront DEF OwnInv
    <3>3. meta'[m].a = {Last(freelist)} /\ \A k \in Messages \ {m} : meta'[k].a = meta[k].a
      BY <3>1, <3>2, <2>a
    <3>4. \A k \in Messages : Last(freelist) \notin meta[k].a
      BY <3>2 DEF OwnInv
    <3>5. \A k, n \in Messages : k # n => meta'[k].a \cap meta'[n].a = {}
      <4> TAKE k, n \in Messages
      <4>1. meta[k].a \cap meta[n].a = {} \/ k = n
        BY DEF OwnInv
      <4> QED  BY <4>1, <3>3, <3>4
    <3>6. /\ Last(freelist) \notin Items(reaplist) \cup hand
          /\ Items(Front(freelist)) \cap Items(reaplist) = {}
          /\ (Items(Front(freelist)) \cup Items(reaplist)) \cap hand = {}
          /\ Distinct(reaplist)
      BY <3>2 DEF OwnInv
    <3>7. \A k \in Messages :
              meta'[k].a \cap (Items(Front(freelist)) \cup Items(reaplist) \cup hand) = {}
      <4> TAKE k \in Messages
      <4>1. meta[k].a \cap (Items(freelist) \cup Items(reaplist) \cup hand) = {}
        BY DEF OwnInv
      <4> QED  BY <4>1, <3>2, <3>3, <3>6
    <3>8. \A b \in Arenas : arena'[b] # NoArena <=>
               \/ b \in Items(Front(freelist)) \cup Items(reaplist) \cup hand
               \/ \E k \in Messages : b \in meta'[k].a
      <4> TAKE b \in Arenas
      <4>1. arena'[b] # NoArena <=>
               \/ b \in Items(freelist) \cup Items(reaplist) \cup hand
               \/ \E k \in Messages : b \in meta[k].a
        BY <3>1 DEF OwnInv
      <4>2. (\E k \in Messages : b \in meta'[k].a) <=>
                b = Last(freelist) \/ \E k \in Messages : b \in meta[k].a
        BY <3>3, <1>g
      <4> QED  BY <4>1, <4>2, <3>2
    <3> QED  BY <3>1, <3>2, <3>5, <3>6, <3>7, <3>8, <1>g, <1>k
  <2>2. CASE freelist = <<>>
    <3>1. PICK a \in Unused :
              /\ arena' = [arena EXCEPT ![a] = NewArena]
              /\ meta' = [meta EXCEPT ![m].a = {a}, ![m].pc = "live"]
              /\ UNCHANGED freelist
      BY <1>g, <2>2 DEF Ref
    <3>2. a \in Arenas /\ arena[a] = NoArena
      BY DEF Unused
    <3>3. meta'[m].a = {a} /\ \A k \in Messages \ {m} : meta'[k].a = meta[k].a
      BY <3>1, <3>2, <2>a
    <3>4. arena'[a] # NoArena /\ \A b \in Arenas \ {a} : arena'[b] = arena[b]
      BY <3>1, <3>2, <1>t, <1>s
    <3>5. /\ a \notin Items(freelist) \cup Items(reaplist) \cup hand
          /\ \A k \in Messages : a \notin meta[k].a
      BY <3>2 DEF OwnInv
    <3>6. \A k, n \in Messages : k # n => meta'[k].a \cap meta'[n].a = {}
      <4> TAKE k, n \in Messages
      <4>1. meta[k].a \cap meta[n].a = {} \/ k = n
        BY DEF OwnInv
      <4> QED  BY <4>1, <3>3, <3>5
    <3>7. \A k \in Messages :
              meta'[k].a \cap (Items(freelist) \cup Items(reaplist) \cup hand) = {}
      <4> TAKE k \in Messages
      <4>1. meta[k].a \cap (Items(freelist) \cup Items(reaplist) \cup hand) = {}
        BY DEF OwnInv
      <4> QED  BY <4>1, <3>3, <3>5
    <3>8. \A b \in Arenas : arena'[b] # NoArena <=>
               \/ b \in Items(freelist) \cup Items(reaplist) \cup hand
               \/ \E k \in Messages : b \in meta'[k].a
      <4> TAKE b \in Arenas
      <4>1. arena[b] # NoArena <=>
               \/ b \in Items(freelist) \cup Items(reaplist) \cup hand
               \/ \E k \in Messages : b \in meta[k].a
        BY DEF OwnInv
      <4>2. (\E k \in Messages : b \in meta'[k].a) <=>
                b = a \/ \E k \in Messages : b \in meta[k].a
        BY <3>3, <1>g
      <4> QED  BY <4>1, <4>2, <3>2, <3>4
    <3>9. /\ Distinct(freelist) /\ Distinct(reaplist) /\ Items(freelist) \cap Items(reaplist) = {}
          /\ (Items(freelist) \cup Items(reaplist)) \cap hand = {}
      BY DEF OwnInv
    <3> QED  BY <3>1, <3>6, <3>7, <3>8, <3>9, <1>g, <1>k
  <2> QED  BY <2>1, <2>2
\* The arenas of a set are deleted.
<1>d. ASSUME NEW S \in SUBSET Arenas, Delete(S)
      PROVE  \A a \in Arenas : arena'[a] # NoArena <=> arena[a] # NoArena /\ a \notin S
  BY <1>d DEF Delete
<1>1. ASSUME NEW m \in Messages, Create(m) PROVE OwnInv'
  <2>1. CASE Ref(m)
    BY <1>1, <2>1, <1>g, <1>t DEF Create
  <2>2. CASE meta' = [meta EXCEPT ![m].pc = "live"] /\ UNCHANGED <<freelist, arena>>
    <3>1. \A k \in Messages : meta'[k].a = meta[k].a
      BY <2>2, <1>t DEF MetaType
    <3> QED  BY <1>1, <2>2, <3>1, <1>q DEF Create
  <2> QED  BY <1>1, <2>1, <2>2 DEF Create
<1>2. ASSUME NEW m \in Messages, UseArena(m) PROVE OwnInv'
  BY <1>2, <1>g DEF UseArena
<1>3. ASSUME NEW m \in Messages, AppendChunk(m) PROVE OwnInv'
  <2>1. PICK a \in meta[m].a, n \in Sizes :
            /\ arena' = [arena EXCEPT ![a] = AfterAlloc(arena[a], n)]
            /\ meta' = [meta EXCEPT ![m].blocks = Append(@, Allocated(arena[a], n)),
                                    ![m].total_size = @ + n]
    BY <1>3 DEF AppendChunk
  <2>2. a \in Arenas /\ arena[a] # NoArena
    BY <1>t DEF OwnInv
  <2>3. AfterAlloc(arena[a], n) # NoArena
    BY <2>2, <1>t, <1>s, AllocSound, SoundExists
  <2>4. \A k \in Messages : meta'[k].a = meta[k].a
    BY <2>1, <1>t DEF MetaType
  <2>5. \A b \in Arenas : arena'[b] = NoArena <=> arena[b] = NoArena
    BY <2>1, <2>2, <2>3, <1>t
  <2> QED  BY <1>3, <2>4, <2>5, <1>q DEF AppendChunk, poolvars
<1>4. ASSUME NEW m \in Messages, Clear(m) PROVE OwnInv'
  <2>1. \A k \in Messages : meta'[k].a = meta[k].a
    BY <1>4, <1>t DEF Clear, MetaType
  <2>2. \A a \in meta[m].a : AfterReset(arena[a]) # NoArena /\ arena[a] # NoArena
    BY <1>t, <1>s, ResetSound, SoundExists DEF OwnInv
  <2>3. \A b \in Arenas : arena'[b] = NoArena <=> arena[b] = NoArena
    BY <1>4, <2>2 DEF Clear
  <2> QED  BY <1>4, <2>1, <2>3, <1>q DEF Clear, poolvars
\* A message without an arena is gone.
<1>n. ASSUME NEW m \in Messages, meta' = [meta EXCEPT ![m] = NoMeta]
      PROVE  meta'[m].a = {} /\ \A k \in Messages \ {m} : meta'[k].a = meta[k].a
  BY <1>n, <1>t DEF NoMeta
<1>5. ASSUME NEW m \in Messages, DestroyPlain(m) \/ DerefNotify(m) PROVE OwnInv'
  <2>1. /\ meta' = [meta EXCEPT ![m] = NoMeta] /\ meta[m].a = {}
        /\ UNCHANGED <<arena, freelist, reaplist, hand>>
    BY <1>5, <1>t DEF DestroyPlain, DerefNotify, poolvars
  <2>2. \A k \in Messages : meta'[k].a = meta[k].a
    BY <2>1, <1>n
  <2> QED  BY <2>1, <2>2, <1>q
<1>6. ASSUME NEW m \in Messages, Deref(m) PROVE OwnInv'
  <2>0. UNCHANGED <<freelist, reaplist, hand>>
    BY <1>6 DEF Deref, poolvars
  <2>1. CASE enabled
    <3>1. /\ meta' = [meta EXCEPT ![m].pc = "deref", ![m].blocks = <<>>, ![m].total_size = 0]
          /\ UNCHANGED arena
      BY <1>6, <2>1 DEF Deref
    <3>2. \A k \in Messages : meta'[k].a = meta[k].a
      BY <3>1, <1>t DEF MetaType
    <3> QED  BY <2>0, <3>1, <3>2, <1>q
  <2>2. CASE ~enabled
    <3>1. meta' = [meta EXCEPT ![m] = NoMeta] /\ Delete(meta[m].a)
      BY <1>6, <2>2 DEF Deref
    <3>2. meta'[m].a = {} /\ \A k \in Messages \ {m} : meta'[k].a = meta[k].a
      BY <3>1, <1>n
    <3>3. \A a \in Arenas : arena'[a] # NoArena <=> arena[a] # NoArena /\ a \notin meta[m].a
      BY <3>1, <1>t, <1>d
    <3> QED  BY <2>0, <3>2, <3>3, <1>k DEF OwnInv
  <2> QED  BY <2>1, <2>2
<1>7. ASSUME NEW m \in Messages, DerefPush(m) PROVE OwnInv'
  <2>1. PICK a \in meta[m].a : reaplist' = Append(reaplist, a)
    BY <1>7 DEF DerefPush
  <2>2. meta[m].a = {a} /\ a \in Arenas
    BY <2>1, <1>t DEF MetaType
  <2>3. /\ Items(reaplist') = Items(reaplist) \cup {a} /\ Distinct(reaplist')
    BY <2>1, <2>2, <1>t, ItemsAppend DEF OwnInv
  <2>4. /\ meta' = [meta EXCEPT ![m].pc = "notify", ![m].a = {}]
        /\ UNCHANGED <<arena, freelist, hand>>
    BY <1>7 DEF DerefPush
  <2>5. meta'[m].a = {} /\ \A k \in Messages \ {m} : meta'[k].a = meta[k].a
    BY <2>4, <1>t DEF MetaType
  <2>6. /\ a \notin Items(freelist) \cup Items(reaplist) \cup hand
        /\ \A k \in Messages \ {m} : a \notin meta[k].a
    BY <2>2 DEF OwnInv
  <2>7. \A k, n \in Messages : k # n => meta'[k].a \cap meta'[n].a = {}
    <3> TAKE k, n \in Messages
    <3>1. meta[k].a \cap meta[n].a = {} \/ k = n
      BY DEF OwnInv
    <3> QED  BY <3>1, <2>5
  <2>8. \A k \in Messages :
            meta'[k].a \cap (Items(freelist') \cup Items(reaplist') \cup hand') = {}
    <3> TAKE k \in Messages
    <3>1. meta[k].a \cap (Items(freelist) \cup Items(reaplist) \cup hand) = {}
      BY DEF OwnInv
    <3>2. /\ Items(reaplist') = Items(reaplist) \cup {a}
          /\ freelist' = freelist /\ hand' = hand
      BY <2>3, <2>4
    <3>3. CASE k = m
      BY <3>3, <2>5
    <3>4. CASE k # m
      BY <3>1, <3>2, <3>4, <2>5, <2>6
    <3> QED  BY <3>3, <3>4
  <2>9. \A b \in Arenas : arena'[b] # NoArena <=>
             \/ b \in Items(freelist') \cup Items(reaplist') \cup hand'
             \/ \E k \in Messages : b \in meta'[k].a
    <3> TAKE b \in Arenas
    <3>1. arena[b] # NoArena <=>
             \/ b \in Items(freelist) \cup Items(reaplist) \cup hand
             \/ \E k \in Messages : b \in meta[k].a
      BY DEF OwnInv
    <3>2. (\E k \in Messages : b \in meta[k].a) <=>
              b = a \/ \E k \in Messages : b \in meta'[k].a
      BY <2>2, <2>5
    <3> QED  BY <3>1, <3>2, <2>3, <2>4
  <2>10. /\ Distinct(freelist') /\ Items(freelist') \cap Items(reaplist') = {}
         /\ (Items(freelist') \cup Items(reaplist')) \cap hand' = {}
    BY <2>3, <2>4, <2>6 DEF OwnInv
  <2> QED  BY <2>3, <2>7, <2>8, <2>9, <2>10, <1>k
<1>8. CASE ReaperTakes
  <2>1. /\ hand' = {Last(reaplist)} /\ reaplist' = Front(reaplist) /\ hand = {}
        /\ reaplist # <<>> /\ UNCHANGED <<arena, freelist, meta>>
    BY <1>8, <1>t DEF ReaperTakes, Last, Front
  <2>2. /\ Items(reaplist) = Items(Front(reaplist)) \cup {Last(reaplist)}
        /\ Distinct(Front(reaplist)) /\ Last(reaplist) \notin Items(Front(reaplist))
    BY <2>1, <1>t, ItemsFront DEF OwnInv
  <2> QED  BY <2>1, <2>2, <1>k DEF OwnInv
<1>9. CASE ReaperWaits \/ ReaperWakesSpuriously
  BY <1>9, <1>q DEF ReaperWaits, ReaperWakesSpuriously, poolvars
<1>10. CASE Recycle
  <2>1. PICK a \in hand :
            /\ arena' = [arena EXCEPT ![a] = AfterReset(@)]
            /\ freelist' = Append(freelist, a)
    BY <1>10 DEF Recycle
  <2>2. hand = {a} /\ a \in Arenas /\ arena[a] # NoArena
    BY <2>1, <1>y, <1>t DEF TypeOK, OwnInv
  <2>3. \A b \in Arenas : arena'[b] = NoArena <=> arena[b] = NoArena
    BY <2>1, <2>2, <1>t, <1>s, ResetSound, SoundExists
  <2>4. Items(freelist') = Items(freelist) \cup {a} /\ Distinct(freelist')
    BY <2>1, <2>2, <1>t, ItemsAppend DEF OwnInv
  <2>5. hand' = {} /\ UNCHANGED <<reaplist, meta>>
    BY <1>10 DEF Recycle
  <2> QED  BY <2>2, <2>3, <2>4, <2>5, <1>k DEF OwnInv
<1>11. CASE Enable
  <2>1. PICK new \in Claims(arena_pool_size, Unused) :
            /\ freelist' = freelist \o new
            /\ arena' = [a \in Arenas |-> IF a \in Items(new) THEN NewArena ELSE arena[a]]
    BY <1>11 DEF Enable
  <2>2. new \in Seq(Unused) /\ Distinct(new) /\ Items(new) \subseteq Unused
    BY ClaimsFacts
  <2>3. new \in Seq(Arenas)
    <3>1. new \in Claims(arena_pool_size, Arenas)
      BY DEF Claims, Unused
    <3> QED  BY <3>1, ClaimsFacts
  <2>4. Items(new) \subseteq Arenas /\ \A a \in Items(new) : arena[a] = NoArena
    BY <2>2 DEF Unused
  <2>5. Items(freelist) \cap Items(new) = {}
    BY <2>4, <1>s DEF OwnInv
  <2>6. Items(freelist') = Items(freelist) \cup Items(new) /\ Distinct(freelist')
    BY <2>1, <2>2, <2>3, <2>5, <1>t, ItemsConcat DEF OwnInv
  <2>7. \A a \in Arenas : arena'[a] # NoArena <=> arena[a] # NoArena \/ a \in Items(new)
    BY <2>1, <1>s
  <2>8. UNCHANGED <<reaplist, hand, meta>>
    BY <1>11 DEF Enable
  <2> QED  BY <2>4, <2>6, <2>7, <2>8, <1>t, <1>s, <1>k DEF OwnInv
<1>12. CASE Disable
  BY <1>12, <1>q DEF Disable
<1>13. CASE ReleaseFree
  <2>1. /\ freelist' = <<>> /\ Delete(Items(freelist)) /\ UNCHANGED <<reaplist, hand, meta>>
    BY <1>13 DEF ReleaseFree
  <2>2. \A a \in Arenas : arena'[a] # NoArena <=> arena[a] # NoArena /\ a \notin Items(freelist)
    BY <2>1, <1>s, <1>d
  <2> QED  BY <2>1, <2>2, <1>k, ItemsEmpty DEF OwnInv
<1>14. CASE ReleaseReap
  <2>1. /\ reaplist' = <<>> /\ Delete(Items(reaplist)) /\ UNCHANGED <<freelist, hand, meta>>
    BY <1>14 DEF ReleaseReap
  <2>2. \A a \in Arenas : arena'[a] # NoArena <=> arena[a] # NoArena /\ a \notin Items(reaplist)
    BY <2>1, <1>s, <1>d
  <2> QED  BY <2>1, <2>2, <1>k, ItemsEmpty DEF OwnInv
<1>15. CASE UNCHANGED vars
  BY <1>15, <1>q DEF vars, poolvars
<1> QED
  BY <1>1, <1>2, <1>3, <1>4, <1>5, <1>6, <1>7, <1>8, <1>9, <1>10, <1>11, <1>12, <1>13,
     <1>14, <1>15
  DEF Next, Using, Handing, Reaper, Switch
-----------------------------------------------------------------------------
(* The reaper, and what a disabled pool holds. *)

LEMMA HearsNext == Typed /\ ReaperHears /\ [Next]_vars => ReaperHears'
<1> SUFFICES ASSUME Typed, ReaperHears, [Next]_vars PROVE ReaperHears'
  OBVIOUS
<1>t. meta \in [Messages -> MetaType]
  BY DEF Typed, TypeOK
<1>1. ASSUME NEW m \in Messages, meta[m].pc # "notify", UNCHANGED <<reaper, reaplist>>,
             \A k \in Messages \ {m} : meta'[k] = meta[k]
      PROVE  ReaperHears'
  BY <1>1 DEF ReaperHears
<1>2. ASSUME NEW m \in Messages, Ref(m) PROVE \A k \in Messages \ {m} : meta'[k] = meta[k]
  BY <1>2, RefType DEF Typed
<1>3. ASSUME NEW m \in Messages, Create(m) PROVE ReaperHears'
  <2>1. meta[m].pc # "notify" /\ UNCHANGED <<reaper, reaplist>>
    BY <1>3 DEF Create
  <2>2. \A k \in Messages \ {m} : meta'[k] = meta[k]
    BY <1>2, <1>3, <1>t DEF Create
  <2> QED  BY <2>1, <2>2, <1>1
<1>4. ASSUME NEW m \in Messages, UseArena(m) PROVE ReaperHears'
  BY <1>1, <1>2, <1>4 DEF UseArena
<1>5. ASSUME NEW m \in Messages, AppendChunk(m) \/ Clear(m) \/ DestroyPlain(m) \/ Deref(m)
      PROVE  ReaperHears'
  <2>1. meta[m].pc # "notify" /\ UNCHANGED <<reaper, reaplist>>
    BY <1>5 DEF AppendChunk, Clear, DestroyPlain, Deref, poolvars
  <2>2. \A k \in Messages \ {m} : meta'[k] = meta[k]
    BY <1>5, <1>t DEF AppendChunk, Clear, DestroyPlain, Deref
  <2> QED  BY <2>1, <2>2, <1>1
<1>6. ASSUME NEW m \in Messages, DerefPush(m) PROVE ReaperHears'
  <2>1. meta'[m].pc = "notify"
    BY <1>6, <1>t DEF DerefPush, MetaType
  <2> QED  BY <2>1 DEF ReaperHears
<1>7. ASSUME NEW m \in Messages, DerefNotify(m) PROVE ReaperHears'
  BY <1>7 DEF DerefNotify, ReaperHears
<1>8. CASE Reaper \/ ReaperWakesSpuriously
  BY <1>8 DEF Reaper, ReaperTakes, ReaperWaits, Recycle, ReaperWakesSpuriously, poolvars,
              ReaperHears
<1>9. CASE Switch
  BY <1>9 DEF Switch, Enable, Disable, ReleaseFree, ReleaseReap, ReaperHears
<1>10. CASE UNCHANGED vars
  BY <1>10 DEF vars, poolvars, ReaperHears
<1> QED  BY <1>3, <1>4, <1>5, <1>6, <1>7, <1>8, <1>9, <1>10 DEF Next, Using, Handing

\* While the pool is disabled, the arenas in a deref() and with the reaper are in
\* late, and so is each list as soon as disable() has emptied it.
LateInv ==
    /\ switching # "no" => ~enabled /\ switches > 0
    /\ ~enabled /\ switches > 0 =>
           /\ hand \subseteq late
           /\ \A m \in Messages : meta[m].pc = "deref" => meta[m].a \subseteq late
           /\ switching # "free" => Items(freelist) \subseteq late
           /\ switching = "no" => Items(reaplist) \subseteq late

LEMMA LateNext == Typed /\ LateInv /\ [Next]_vars => LateInv'
<1> SUFFICES ASSUME Typed, LateInv, [Next]_vars PROVE LateInv'
  OBVIOUS
<1>t. /\ meta \in [Messages -> MetaType] /\ freelist \in Seq(Arenas) /\ reaplist \in Seq(Arenas)
      /\ switches \in Nat /\ enabled \in BOOLEAN
  BY ArenaPoolAssumption DEF Typed, TypeOK
\* A step of one message that does not take it into deref().
<1>1. ASSUME NEW m \in Messages, meta'[m].pc # "deref",
             \A k \in Messages \ {m} : meta'[k] = meta[k],
             UNCHANGED <<enabled, switching, switches, reaplist, hand, late>>,
             Items(freelist') \subseteq Items(freelist)
      PROVE  LateInv'
  BY <1>1 DEF LateInv, Items
<1>2. ASSUME NEW m \in Messages, Ref(m)
      PROVE  /\ \A k \in Messages \ {m} : meta'[k] = meta[k]
             /\ meta'[m].pc = "live" /\ Items(freelist') \subseteq Items(freelist)
  <2>1. CASE freelist # <<>>
    BY <1>2, <2>1, <1>t, ItemsFront, RefType DEF Ref, Front, Typed
  <2>2. CASE freelist = <<>>
    BY <1>2, <2>2, RefType DEF Ref, Typed
  <2> QED  BY <2>1, <2>2
<1>3. ASSUME NEW m \in Messages, Create(m) \/ UseArena(m) PROVE LateInv'
  <2>1. UNCHANGED <<enabled, switching, switches, reaplist, hand, late>>
    BY <1>3 DEF Create, UseArena
  <2>2. CASE Ref(m)
    BY <2>1, <2>2, <1>1, <1>2
  <2>3. CASE meta' = [meta EXCEPT ![m].pc = "live"] /\ UNCHANGED <<freelist, arena>>
    <3>1. meta'[m].pc = "live" /\ \A k \in Messages \ {m} : meta'[k] = meta[k]
      BY <2>3, <1>t DEF MetaType
    <3> QED  BY <2>1, <2>3, <3>1, <1>1
  <2> QED  BY <1>3, <2>2, <2>3 DEF Create, UseArena
<1>4. ASSUME NEW m \in Messages,
             AppendChunk(m) \/ Clear(m) \/ DestroyPlain(m) \/ DerefNotify(m)
      PROVE  LateInv'
  <2>1. UNCHANGED <<enabled, switching, switches, reaplist, hand, late, freelist>>
    BY <1>4 DEF AppendChunk, Clear, DestroyPlain, DerefNotify, poolvars
  <2>2. \A k \in Messages \ {m} : meta'[k] = meta[k]
    BY <1>4, <1>t DEF AppendChunk, Clear, DestroyPlain, DerefNotify
  <2>3. meta'[m].pc # "deref"
    <3>1. CASE AppendChunk(m) \/ Clear(m)
      <4>1. meta[m].pc = "live"
        BY <3>1 DEF AppendChunk, Clear
      <4>2. meta'[m].pc = meta[m].pc
        BY <3>1, <1>t DEF AppendChunk, Clear, MetaType
      <4> QED  BY <4>1, <4>2
    <3>2. CASE DestroyPlain(m) \/ DerefNotify(m)
      BY <3>2, <1>t DEF DestroyPlain, DerefNotify, NoMeta
    <3> QED  BY <1>4, <3>1, <3>2
  <2> QED  BY <2>1, <2>2, <2>3, <1>1
<1>5. ASSUME NEW m \in Messages, Deref(m) PROVE LateInv'
  <2>1. UNCHANGED <<enabled, switching, switches, reaplist, hand, late, freelist>> /\ switching = "no"
    BY <1>5 DEF Deref, poolvars
  <2>2. CASE enabled
    BY <2>1, <2>2 DEF LateInv
  <2>3. CASE ~enabled
    <3>1. meta'[m].pc # "deref" /\ \A k \in Messages \ {m} : meta'[k] = meta[k]
      BY <1>5, <2>3, <1>t DEF Deref, NoMeta
    <3> QED  BY <2>1, <3>1, <1>1
  <2> QED  BY <2>2, <2>3
<1>6. ASSUME NEW m \in Messages, DerefPush(m) PROVE LateInv'
  <2>1. PICK a \in meta[m].a : reaplist' = Append(reaplist, a)
    BY <1>6 DEF DerefPush
  <2>2. Items(reaplist') = Items(reaplist) \cup {a}
    <3>1. a \in Arenas
      BY <1>t DEF MetaType
    <3> QED  BY <3>1, <2>1, <1>t, ItemsAppend
  <2>3. /\ meta[m].pc = "deref" /\ meta'[m].pc = "notify"
        /\ \A k \in Messages \ {m} : meta'[k] = meta[k]
        /\ UNCHANGED <<enabled, switching, switches, hand, late, freelist>>
    BY <1>6, <1>t DEF DerefPush, MetaType
  <2>4. Items(freelist') = Items(freelist)
    BY <2>3
  <2> QED  BY <2>2, <2>3, <2>4 DEF LateInv
<1>7. CASE ReaperTakes
  <2>1. /\ Items(reaplist) = Items(reaplist') \cup {Last(reaplist)}
        /\ hand' = {Last(reaplist)}
    BY <1>7, <1>t, ItemsFront DEF ReaperTakes, Front, Last
  <2>2. /\ UNCHANGED <<enabled, switching, freelist, switches, meta>>
        /\ late' = IF switching = "no" THEN late ELSE late \cup hand'
    BY <1>7 DEF ReaperTakes
  <2>3. Items(freelist') = Items(freelist)
    BY <2>2
  <2> QED  BY <2>1, <2>2, <2>3 DEF LateInv
<1>8. CASE ReaperWaits \/ ReaperWakesSpuriously \/ UNCHANGED vars
  BY <1>8 DEF ReaperWaits, ReaperWakesSpuriously, vars, poolvars, LateInv, Items
<1>9. CASE Recycle
  <2>1. PICK a \in hand : freelist' = Append(freelist, a)
    BY <1>9 DEF Recycle
  <2>2. Items(freelist') = Items(freelist) \cup {a}
    <3>1. a \in Arenas
      BY DEF Typed, TypeOK
    <3> QED  BY <3>1, <2>1, <1>t, ItemsAppend
  <2>3. hand' = {} /\ UNCHANGED <<enabled, switching, reaplist, late, switches, meta>>
    BY <1>9 DEF Recycle
  <2>4. Items(reaplist') = Items(reaplist)
    BY <2>3
  <2> QED  BY <2>2, <2>3, <2>4 DEF LateInv
<1>10. CASE Enable
  BY <1>10 DEF Enable, LateInv
<1>11. CASE Disable
  <2>1. /\ ~enabled' /\ switching' = "free" /\ late' = InDeref \cup hand
        /\ switches' > 0 /\ UNCHANGED <<hand, meta>>
    BY <1>11, <1>t DEF Disable
  <2>2. \A m \in Messages : meta[m].pc = "deref" => meta[m].a \subseteq InDeref
    BY DEF InDeref
  <2> QED  BY <2>1, <2>2 DEF LateInv
<1>12. CASE ReleaseFree
  <2>1. /\ switching = "free" /\ switching' = "reap" /\ freelist' = <<>>
        /\ UNCHANGED <<enabled, late, switches, hand, meta>>
    BY <1>12 DEF ReleaseFree
  <2>2. Items(freelist') = {}
    BY <2>1, ItemsEmpty
  <2> QED  BY <2>1, <2>2 DEF LateInv
<1>13. CASE ReleaseReap
  <2>1. /\ switching = "reap" /\ switching' = "no" /\ reaplist' = <<>>
        /\ UNCHANGED <<enabled, late, switches, freelist, hand, meta>>
    BY <1>13 DEF ReleaseReap
  <2>2. Items(reaplist') = {} /\ Items(freelist') = Items(freelist)
    BY <2>1, ItemsEmpty
  <2> QED  BY <2>1, <2>2 DEF LateInv
<1> QED
  BY <1>3, <1>4, <1>5, <1>6, <1>7, <1>8, <1>9, <1>10, <1>11, <1>12, <1>13
  DEF Next, Using, Handing, Reaper, Switch
-----------------------------------------------------------------------------
(* The theorems. *)

LEMMA InitHolds == Init => Typed /\ OwnInv /\ ReaperHears /\ LateInv
<1> SUFFICES ASSUME Init PROVE Typed /\ OwnInv /\ ReaperHears /\ LateInv
  OBVIOUS
<1> USE ArenaPoolAssumption
<1>1. freelist \in Seq(Arenas) /\ Distinct(freelist) /\ Items(freelist) \subseteq Arenas
  BY ClaimsFacts DEF Init
<1>2. arena \in [Arenas -> ArenaType] /\ ArenasSound
  BY NewIsSound DEF Init, ArenasSound
<1>3. /\ NoMeta \in MetaType /\ NoMeta.a = {} /\ NoMeta.blocks = <<>> /\ NoMeta.pc = "none"
  BY DEF NoMeta, MetaType
<1>4. /\ meta \in [Messages -> MetaType] /\ Blockless
      /\ \A m \in Messages : meta[m].a = {} /\ meta[m].pc = "none"
  BY <1>3 DEF Init, Blockless
<1>5. Typed
  <2>1. /\ enabled \in BOOLEAN /\ crashed \in BOOLEAN /\ switching = "no" /\ reaplist \in Seq(Arenas)
        /\ reaper = "look" /\ hand = {} /\ late \subseteq Arenas /\ switches \in 0..MaxSwitches
    <3>1. 0 \in 0..MaxSwitches /\ <<>> \in Seq(Arenas)
      OBVIOUS
    <3>2. /\ enabled = FALSE /\ crashed = FALSE /\ switching = "no" /\ reaplist = <<>>
          /\ reaper = "look" /\ hand = {} /\ late = {} /\ switches = 0
      BY DEF Init
    <3> QED  BY <3>1, <3>2
  <2>2. /\ hand \in {{}} \cup {{a} : a \in Arenas} /\ {enabled, crashed} \subseteq BOOLEAN
        /\ ((reaper = "recycle") <=> (hand # {}))
        /\ \A m \in Messages : meta[m].pc \in {"none", "notify"} => meta[m].a = {}
    BY <2>1, <1>4
  <2>3. TypeOK
    BY <2>1, <2>2, <1>1, <1>2, <1>4 DEF TypeOK
  <2> QED  BY <2>3, <1>2, <1>4 DEF Typed
<1>6. NewArena # NoArena
  BY NewIsSound, SoundExists
<1>7. /\ reaplist = <<>> /\ Items(reaplist) = {} /\ Distinct(reaplist) /\ hand = {}
      /\ \A a \in Arenas : arena[a] # NoArena <=> a \in Items(freelist)
  BY <1>6, ItemsEmpty DEF Init
<1>8. OwnInv
  BY <1>1, <1>4, <1>7 DEF OwnInv
<1>9. ReaperHears /\ LateInv
  BY <1>7 DEF Init, ReaperHears, LateInv
<1> QED  BY <1>5, <1>8, <1>9

\* The inductive invariant of the pool, which the theorems below cite.
PoolInv == Typed /\ OwnInv /\ ReaperHears /\ LateInv

LEMMA PoolInvariant == Spec => []PoolInv
<1>1. Init => PoolInv
  BY InitHolds DEF PoolInv
<1>2. PoolInv /\ [Next]_vars => PoolInv'
  BY TypeNext, OwnNext, HearsNext, LateNext DEF PoolInv
<1> QED  BY <1>1, <1>2, PTL DEF Spec

\* Every variable of the pool has its type.
THEOREM TypeCorrect == Spec => []TypeOK
<1>1. PoolInv => TypeOK
  BY DEF PoolInv, Typed
<1> QED  BY <1>1, PoolInvariant, PTL

\* Whatever the threads, the reaper and enable() and disable() do, an arena has one
\* owner, and an arena that nobody holds is deleted: ref(), deref(), recycle() and
\* release_memory() of arena_pool hand it from one place to one other.
THEOREM OneOwnerAlways == Spec => []OneOwner
<1>1. ASSUME PoolInv PROVE OneOwner
  <2> SUFFICES ASSUME NEW a \in Arenas
               PROVE  /\ \A p, q \in Places(a) : p = q
                      /\ (arena[a] # NoArena) <=> (Places(a) # {})
    BY DEF OneOwner
  <2>o. OwnInv
    BY <1>1 DEF PoolInv
  <2> DEFINE F == {<<"free", i>> : i \in {i \in DOMAIN freelist : freelist[i] = a}}
             R == {<<"reap", i>> : i \in {i \in DOMAIN reaplist : reaplist[i] = a}}
             H == {<<"hand", 0>> : b \in hand \cap {a}}
             M == {<<"meta", m>> : m \in {m \in Messages : a \in meta[m].a}}
  <2>1. Places(a) = F \cup R \cup H \cup M
    BY DEF Places
  <2>2. /\ \A p, q \in F : p = q
        /\ F # {} <=> a \in Items(freelist)
    <3>1. \A p \in F : \E i \in DOMAIN freelist : freelist[i] = a /\ p = <<"free", i>>
      OBVIOUS
    <3>2. \A i \in DOMAIN freelist : freelist[i] = a => <<"free", i>> \in F
      OBVIOUS
    <3>3. \A i, j \in DOMAIN freelist : freelist[i] = a /\ freelist[j] = a => i = j
      BY <2>o DEF OwnInv, Distinct
    <3> HIDE DEF F
    <3>4. F # {} <=> a \in Items(freelist)
      BY <3>1, <3>2 DEF Items
    <3>5. \A p, q \in F : p = q
      BY <3>1, <3>3
    <3> QED  BY <3>4, <3>5
  <2>3. /\ \A p, q \in R : p = q
        /\ R # {} <=> a \in Items(reaplist)
    <3>1. \A p \in R : \E i \in DOMAIN reaplist : reaplist[i] = a /\ p = <<"reap", i>>
      OBVIOUS
    <3>2. \A i \in DOMAIN reaplist : reaplist[i] = a => <<"reap", i>> \in R
      OBVIOUS
    <3>3. \A i, j \in DOMAIN reaplist : reaplist[i] = a /\ reaplist[j] = a => i = j
      BY <2>o DEF OwnInv, Distinct
    <3> HIDE DEF R
    <3>4. R # {} <=> a \in Items(reaplist)
      BY <3>1, <3>2 DEF Items
    <3>5. \A p, q \in R : p = q
      BY <3>1, <3>3
    <3> QED  BY <3>4, <3>5
  <2>4. /\ \A p, q \in H : p = q
        /\ H # {} <=> a \in hand
    OBVIOUS
  <2>5. /\ \A p, q \in M : p = q
        /\ M # {} <=> \E m \in Messages : a \in meta[m].a
    <3>1. \A p \in M : \E m \in Messages : a \in meta[m].a /\ p = <<"meta", m>>
      OBVIOUS
    <3>2. \A m \in Messages : a \in meta[m].a => <<"meta", m>> \in M
      OBVIOUS
    <3>3. \A m, n \in Messages : a \in meta[m].a /\ a \in meta[n].a => m = n
      BY <2>o DEF OwnInv
    <3> HIDE DEF M
    <3>4. M # {} <=> \E m \in Messages : a \in meta[m].a
      BY <3>1, <3>2
    <3>5. \A p, q \in M : p = q
      BY <3>1, <3>3
    <3> QED  BY <3>4, <3>5
  <2> HIDE DEF F, R, H, M
  <2>6. /\ F = {} \/ R = {}
        /\ F \cup R = {} \/ H = {}
        /\ F \cup R \cup H = {} \/ M = {}
    BY <2>2, <2>3, <2>4, <2>5, <2>o DEF OwnInv
  <2>7. \A p, q \in Places(a) : p = q
    BY <2>1, <2>2, <2>3, <2>4, <2>5, <2>6
  <2>8. arena[a] # NoArena <=>
           \/ a \in Items(freelist) \cup Items(reaplist) \cup hand
           \/ \E m \in Messages : a \in meta[m].a
    BY <2>o DEF OwnInv
  <2> QED  BY <2>1, <2>2, <2>3, <2>4, <2>5, <2>7, <2>8
<1> QED  BY <1>1, PoolInvariant, PTL

\* arena_pool::deref() notifies after it has released reapmtx, and yet the reaper
\* never sleeps on an arena that no deref() is about to announce.
THEOREM ReaperAlwaysHears == Spec => []ReaperHears
<1>1. PoolInv => ReaperHears
  BY DEF PoolInv
<1> QED  BY <1>1, PoolInvariant, PTL

\* A pool that disable() has emptied holds only arenas that a deref() or the reaper
\* had in its hands meanwhile.
THEOREM OnlyLateArenas == Spec => []DisabledHoldsLate
<1>1. PoolInv => DisabledHoldsLate
  BY DEF PoolInv, LateInv, DisabledHoldsLate, Disabled
<1> QED  BY <1>1, PoolInvariant, PTL
-----------------------------------------------------------------------------
(* Blocks. *)

\* What a message with the blocks bs has of the arena a: they are usable, lie
\* before curpos in the chunk allocated from, and are apart.
Placed(a, b) ==
    /\ Usable(a, b)
    /\ b.chunk = a.curchunk => b.first + b.size <= a.curpos
Held(a, bs) ==
    /\ \A i \in DOMAIN bs : Placed(a, bs[i])
    /\ \A i, j \in DOMAIN bs : i # j => Disjoint(bs[i], bs[j])

LEMMA Aligned ==
    ASSUME NEW a \in ArenaType, Align = 8
    PROVE  AlignOffset(a) \in Nat /\ (a.curpos + AlignOffset(a)) % Align = 0 /\ 0 % Align = 0
<1>1. a.curpos \in Nat
  BY DEF ArenaType
<1>2. \A x \in Nat : (x + ((8 - (x % 8)) % 8)) % 8 = 0 /\ 0 % 8 = 0
  OBVIOUS
<1>3. (a.curpos + ((8 - (a.curpos % 8)) % 8)) % 8 = 0 /\ 0 % 8 = 0
  BY <1>1, <1>2
<1>4. AlignOffset(a) = (8 - (a.curpos % 8)) % 8
  BY DEF AlignOffset
<1> QED  BY <1>3, <1>4, OffsetNat

LEMMA AllocPlaces ==
    ASSUME NEW a \in ArenaType, NEW n \in Nat, Sound(a), Align = 8
    PROVE  /\ Placed(AfterAlloc(a, n), Allocated(a, n))
           /\ \A b \in BlockType : Placed(a, b) =>
                  /\ Placed(AfterAlloc(a, n), b)
                  /\ Disjoint(b, Allocated(a, n)) /\ Disjoint(Allocated(a, n), b)
<1> DEFINE l == Len(a.chunks) + 1
<1>t. /\ a.chunks \in Seq(ChunkType) /\ a.curchunk \in Nat /\ a.curpos \in Nat
      /\ AlignOffset(a) \in Nat /\ arena_chunk_size \in Nat
      /\ DOMAIN a.chunks = 1..Len(a.chunks) /\ Len(a.chunks) \in Nat
  BY OffsetNat, ArenaAssumption DEF ArenaType
<1>l. /\ l \in Nat /\ l \notin DOMAIN a.chunks /\ a.curchunk # l
  BY <1>t DEF Sound
<1>c. ASSUME NEW k \in Nat
      PROVE  LET s == Append(a.chunks, Chunk(k))
             IN  /\ \A i \in DOMAIN a.chunks : i \in DOMAIN s /\ s[i] = a.chunks[i]
                 /\ s[l] = Chunk(k) /\ l \in DOMAIN s
  <2>1. Chunk(k) \in ChunkType
    BY DEF Chunk, ChunkType
  <2> QED  BY <2>1, <1>t
<1>k. \A k \in Nat : Chunk(k).size = k /\ ~Chunk(k).freed
  BY DEF Chunk
<1>b. \A b \in BlockType : b.chunk \in Nat /\ b.first \in Nat /\ b.size \in Nat
  BY DEF BlockType
<1>p. \A b \in BlockType : Placed(a, b) => b.chunk \in DOMAIN a.chunks /\ b.chunk # l
  BY <1>l DEF Placed, Usable
<1> HIDE DEF l
<1>2. CASE IsLarge(n)
  <2> DEFINE s == Append(a.chunks, Chunk(n))
  <2>1. AfterAlloc(a, n) = [a EXCEPT !.chunks = s]
    BY <1>2 DEF AfterAlloc
  <2>2. Allocated(a, n) = [chunk |-> l, first |-> 0, size |-> n]
    BY <1>2 DEF Allocated, l
  <2>3. /\ \A i \in DOMAIN a.chunks : i \in DOMAIN s /\ s[i] = a.chunks[i]
        /\ s[l] = Chunk(n) /\ l \in DOMAIN s
    BY <1>c
  <2> HIDE DEF s
  <2>4. /\ AfterAlloc(a, n).chunks = s /\ AfterAlloc(a, n).curchunk = a.curchunk
        /\ AfterAlloc(a, n).curpos = a.curpos
    BY <2>1 DEF ArenaType
  <2>5. Placed(AfterAlloc(a, n), Allocated(a, n))
    BY <2>2, <2>3, <2>4, <1>k, <1>l, Aligned DEF Placed, Usable
  <2>6. ASSUME NEW b \in BlockType, Placed(a, b)
        PROVE  /\ Placed(AfterAlloc(a, n), b)
               /\ Disjoint(b, Allocated(a, n)) /\ Disjoint(Allocated(a, n), b)
    BY <2>2, <2>3, <2>4, <2>6, <1>p DEF Placed, Usable, Disjoint
  <2> QED  BY <2>5, <2>6
<1>3. CASE ~IsLarge(n) /\ Fits(a, n)
  <2> DEFINE p == a.curpos + AlignOffset(a)
  <2>1. AfterAlloc(a, n) = [a EXCEPT !.curpos = p + n]
    BY <1>3, <1>t DEF AfterAlloc
  <2>2. Allocated(a, n) = [chunk |-> a.curchunk, first |-> p, size |-> n]
    BY <1>3 DEF Allocated
  <2>3. p \in Nat /\ p % Align = 0 /\ a.curpos <= p /\ p + n <= arena_chunk_size
    BY <1>3, <1>t, Aligned DEF Fits, RemainingBytes
  <2> HIDE DEF p
  <2>4. /\ AfterAlloc(a, n).chunks = a.chunks /\ AfterAlloc(a, n).curchunk = a.curchunk
        /\ AfterAlloc(a, n).curpos = p + n
    BY <2>1 DEF ArenaType
  <2>5. Placed(AfterAlloc(a, n), Allocated(a, n))
    <3>1. /\ a.curchunk \in DOMAIN a.chunks
          /\ a.chunks[a.curchunk].size = arena_chunk_size /\ ~a.chunks[a.curchunk].freed
      BY <1>k, <1>t DEF Sound
    <3> QED  BY <2>2, <2>3, <2>4, <3>1 DEF Placed, Usable
  <2>6. ASSUME NEW b \in BlockType, Placed(a, b)
        PROVE  /\ Placed(AfterAlloc(a, n), b)
               /\ Disjoint(b, Allocated(a, n)) /\ Disjoint(Allocated(a, n), b)
    <3>1. b.chunk = a.curchunk => b.first + b.size <= p
      BY <2>3, <2>6, <1>b, <1>t DEF Placed
    <3>2. Disjoint(b, Allocated(a, n)) /\ Disjoint(Allocated(a, n), b)
      BY <3>1, <2>2 DEF Disjoint
    <3>3. b.chunk = a.curchunk => b.first + b.size <= p + n
      BY <3>1, <2>3, <1>b
    <3> QED  BY <2>4, <2>6, <3>2, <3>3 DEF Placed, Usable
  <2> QED  BY <2>5, <2>6
<1>4. CASE ~IsLarge(n) /\ ~Fits(a, n)
  <2> DEFINE s == Append(a.chunks, Chunk(arena_chunk_size))
  <2>1. AfterAlloc(a, n) = [chunks |-> s, curchunk |-> l, curpos |-> n]
    BY <1>4 DEF AfterAlloc, l
  <2>2. Allocated(a, n) = [chunk |-> l, first |-> 0, size |-> n]
    BY <1>4 DEF Allocated, l
  <2>3. /\ \A i \in DOMAIN a.chunks : i \in DOMAIN s /\ s[i] = a.chunks[i]
        /\ s[l] = Chunk(arena_chunk_size) /\ l \in DOMAIN s
    BY <1>c, <1>t
  <2> HIDE DEF s
  <2>4. n <= arena_chunk_size
    BY <1>4, <1>t DEF IsLarge
  <2>5. Placed(AfterAlloc(a, n), Allocated(a, n))
    BY <2>1, <2>2, <2>3, <2>4, <1>k, <1>t, Aligned DEF Placed, Usable
  <2>6. ASSUME NEW b \in BlockType, Placed(a, b)
        PROVE  /\ Placed(AfterAlloc(a, n), b)
               /\ Disjoint(b, Allocated(a, n)) /\ Disjoint(Allocated(a, n), b)
    BY <2>1, <2>2, <2>3, <2>6, <1>p DEF Placed, Usable, Disjoint
  <2> QED  BY <2>5, <2>6
<1> QED  BY <1>2, <1>3, <1>4

LEMMA AllocHeld ==
    ASSUME NEW a \in ArenaType, NEW n \in Nat, NEW bs \in Seq(BlockType),
           Sound(a), Held(a, bs), Align = 8
    PROVE  Held(AfterAlloc(a, n), Append(bs, Allocated(a, n)))
<1> DEFINE e == Allocated(a, n)
           x == AfterAlloc(a, n)
           c == Append(bs, e)
<1>1. Placed(x, e) /\ \A b \in BlockType : Placed(a, b) =>
           Placed(x, b) /\ Disjoint(b, e) /\ Disjoint(e, b)
  BY AllocPlaces
<1>2. e \in BlockType
  BY AllocSound
<1>3. \A i \in DOMAIN bs : bs[i] \in BlockType /\ Placed(a, bs[i])
  BY DEF Held
<1> HIDE DEF e, x
<1>4. \A i \in DOMAIN c : (i \in DOMAIN bs /\ c[i] = bs[i]) \/ (i = Len(bs) + 1 /\ c[i] = e)
  BY <1>2
<1> HIDE DEF c
<1>5. \A i \in DOMAIN c : Placed(x, c[i])
  BY <1>1, <1>3, <1>4
<1>6. ASSUME NEW i \in DOMAIN c, NEW j \in DOMAIN c, i # j PROVE Disjoint(c[i], c[j])
  <2>1. CASE i \in DOMAIN bs /\ c[i] = bs[i] /\ j \in DOMAIN bs /\ c[j] = bs[j]
    BY <1>6, <2>1 DEF Held
  <2>2. CASE i \in DOMAIN bs /\ c[i] = bs[i] /\ c[j] = e
    BY <2>2, <1>1, <1>3
  <2>3. CASE j \in DOMAIN bs /\ c[j] = bs[j] /\ c[i] = e
    BY <2>3, <1>1, <1>3
  <2> QED  BY <1>4, <1>6, <2>1, <2>2, <2>3
<1> QED  BY <1>5, <1>6 DEF Held, c, e, x

BlockInv == \A m \in Messages : \A a \in meta[m].a : Held(arena[a], meta[m].blocks)

LEMMA HeldEmpty == \A a : Held(a, <<>>)
BY DEF Held

LEMMA BlockNext ==
    ASSUME Align = 8
    PROVE  Typed /\ OwnInv /\ BlockInv /\ [Next]_vars => BlockInv'
<1> SUFFICES ASSUME Typed, OwnInv, BlockInv, [Next]_vars PROVE BlockInv'
  OBVIOUS
<1>t. /\ meta \in [Messages -> MetaType] /\ arena \in [Arenas -> ArenaType]
      /\ TypeOK /\ ArenasSound
  BY DEF Typed, TypeOK
<1>a. \A m \in Messages : meta[m] \in MetaType /\ meta[m].a \subseteq Arenas
  BY <1>t DEF MetaType
<1>b. \A m \in Messages : meta[m].a = {} \/ meta[m].pc = "deref" => meta[m].blocks = <<>>
  BY DEF Typed, Blockless
\* The arenas of the other messages are not touched.
<1>o. ASSUME NEW m \in Messages, \A k \in Messages \ {m} : meta'[k] = meta[k],
             \A k \in Messages \ {m} : \A a \in meta[k].a : arena'[a] = arena[a],
             \A a \in meta'[m].a : Held(arena'[a], meta'[m].blocks)
      PROVE  BlockInv'
  BY <1>o DEF BlockInv
\* A step after which the message has no blocks.
<1>e. ASSUME NEW m \in Messages, \A k \in Messages \ {m} : meta'[k] = meta[k],
             \A k \in Messages \ {m} : \A a \in meta[k].a : arena'[a] = arena[a],
             meta'[m].a = {} \/ meta'[m].blocks = <<>>
      PROVE  BlockInv'
  BY <1>e, <1>o, HeldEmpty
\* A step that leaves the messages and their arenas alone.
<1>u. ASSUME UNCHANGED meta, \A m \in Messages : \A a \in meta[m].a : arena'[a] = arena[a]
      PROVE  BlockInv'
  BY <1>u DEF BlockInv
<1>x. \A m, k \in Messages : m # k => meta[m].a \cap meta[k].a = {}
  BY DEF OwnInv
<1>y. \A m \in Messages : \A a \in meta[m].a :
          arena[a] # NoArena /\ a \notin Items(freelist) \cup Items(reaplist) \cup hand
  BY <1>a DEF OwnInv
<1>r. ASSUME NEW m \in Messages, Ref(m)
      PROVE  \A k \in Messages : \A a \in meta[k].a : arena'[a] = arena[a]
  <2>1. CASE arena' = arena
    BY <2>1
  <2>2. CASE \E b \in Unused : arena' = [arena EXCEPT ![b] = NewArena]
    BY <2>2, <1>y, <1>a, <1>t DEF Unused
  <2> QED  BY <1>r, <2>1, <2>2 DEF Ref
<1>1. ASSUME NEW m \in Messages, Create(m) \/ UseArena(m) PROVE BlockInv'
  <2>1. meta[m].a = {} /\ meta[m].blocks = <<>>
    BY <1>1, <1>b, <1>t DEF Create, UseArena, TypeOK
  <2>2. CASE Ref(m)
    BY <2>1, <2>2, <1>e, <1>r, <1>t, RefType
  <2>3. CASE meta' = [meta EXCEPT ![m].pc = "live"] /\ UNCHANGED <<freelist, arena>>
    <3>1. meta'[m].blocks = <<>> /\ \A k \in Messages \ {m} : meta'[k] = meta[k]
      BY <2>1, <2>3, <1>t DEF MetaType
    <3> QED  BY <2>3, <3>1, <1>e
  <2> QED  BY <1>1, <2>2, <2>3 DEF Create, UseArena
<1>2. ASSUME NEW m \in Messages, AppendChunk(m) PROVE BlockInv'
  <2>1. PICK a \in meta[m].a, n \in Sizes :
            /\ arena' = [arena EXCEPT ![a] = AfterAlloc(arena[a], n)]
            /\ meta' = [meta EXCEPT ![m].blocks = Append(@, Allocated(arena[a], n)),
                                    ![m].total_size = @ + n]
    BY <1>2 DEF AppendChunk
  <2>2. /\ a \in Arenas /\ meta[m].a = {a} /\ n \in Nat /\ arena[a] \in ArenaType
        /\ meta[m].blocks \in Seq(BlockType)
    BY <1>a, <1>t, ArenaPoolAssumption DEF MetaType
  <2>3. Sound(arena[a]) /\ Held(arena[a], meta[m].blocks)
    BY <2>2, <1>y, <1>t DEF ArenasSound, BlockInv
  <2>4. Held(AfterAlloc(arena[a], n), Append(meta[m].blocks, Allocated(arena[a], n)))
    BY <2>2, <2>3, AllocHeld
  <2>5. /\ meta'[m].a = {a} /\ meta'[m].blocks = Append(meta[m].blocks, Allocated(arena[a], n))
        /\ \A k \in Messages \ {m} : meta'[k] = meta[k]
    BY <2>1, <2>2, <1>t DEF MetaType
  <2>6. /\ arena'[a] = AfterAlloc(arena[a], n)
        /\ \A b \in Arenas \ {a} : arena'[b] = arena[b]
    BY <2>1, <2>2, <1>t
  <2>7. \A k \in Messages \ {m} : \A b \in meta[k].a : arena'[b] = arena[b]
    BY <2>2, <2>6, <1>a, <1>x
  <2> QED  BY <2>4, <2>5, <2>6, <2>7, <1>o
<1>3. ASSUME NEW m \in Messages, Clear(m) PROVE BlockInv'
  <2>1. meta' = [meta EXCEPT ![m].blocks = <<>>, ![m].total_size = 0]
    BY <1>3 DEF Clear
  <2>2. meta'[m].blocks = <<>> /\ \A k \in Messages \ {m} : meta'[k] = meta[k]
    BY <2>1, <1>t DEF MetaType
  <2>3. \A k \in Messages \ {m} : \A b \in meta[k].a : arena'[b] = arena[b]
    BY <1>3, <1>a, <1>x DEF Clear
  <2> QED  BY <2>2, <2>3, <1>e
\* Arenas that no other message has are deleted.
<1>d. ASSUME NEW S, Delete(S)
      PROVE  \A a \in Arenas : a \notin S => arena'[a] = arena[a]
  BY <1>d DEF Delete
<1>4. ASSUME NEW m \in Messages, DestroyPlain(m) \/ DerefNotify(m) PROVE BlockInv'
  <2>1. meta' = [meta EXCEPT ![m] = NoMeta] /\ UNCHANGED arena
    BY <1>4 DEF DestroyPlain, DerefNotify
  <2>2. meta'[m].a = {} /\ \A k \in Messages \ {m} : meta'[k] = meta[k]
    BY <2>1, <1>t DEF NoMeta
  <2> QED  BY <2>1, <2>2, <1>e
<1>5. ASSUME NEW m \in Messages, Deref(m) PROVE BlockInv'
  <2>1. CASE enabled
    <3>1. /\ meta' = [meta EXCEPT ![m].pc = "deref", ![m].blocks = <<>>, ![m].total_size = 0]
          /\ UNCHANGED arena
      BY <1>5, <2>1 DEF Deref
    <3>2. meta'[m].blocks = <<>> /\ \A k \in Messages \ {m} : meta'[k] = meta[k]
      BY <3>1, <1>t DEF MetaType
    <3> QED  BY <3>1, <3>2, <1>e
  <2>2. CASE ~enabled
    <3>1. meta' = [meta EXCEPT ![m] = NoMeta] /\ Delete(meta[m].a)
      BY <1>5, <2>2 DEF Deref
    <3>2. meta'[m].a = {} /\ \A k \in Messages \ {m} : meta'[k] = meta[k]
      BY <3>1, <1>t DEF NoMeta
    <3>3. \A k \in Messages \ {m} : \A b \in meta[k].a : arena'[b] = arena[b]
      BY <3>1, <1>a, <1>d, <1>x
    <3> QED  BY <3>2, <3>3, <1>e
  <2> QED  BY <2>1, <2>2
<1>6. ASSUME NEW m \in Messages, DerefPush(m) PROVE BlockInv'
  <2>1. meta' = [meta EXCEPT ![m].pc = "notify", ![m].a = {}] /\ UNCHANGED arena
    BY <1>6 DEF DerefPush
  <2>2. meta'[m].a = {} /\ \A k \in Messages \ {m} : meta'[k] = meta[k]
    BY <2>1, <1>t DEF MetaType
  <2> QED  BY <2>1, <2>2, <1>e
<1>7. CASE ReaperTakes \/ ReaperWaits \/ ReaperWakesSpuriously \/ Disable \/ UNCHANGED vars
  BY <1>7, <1>u DEF ReaperTakes, ReaperWaits, ReaperWakesSpuriously, Disable, vars
<1>8. CASE Recycle
  <2>1. PICK a \in hand : arena' = [arena EXCEPT ![a] = AfterReset(@)]
    BY <1>8 DEF Recycle
  <2>2. \A k \in Messages : \A b \in meta[k].a : arena'[b] = arena[b]
    BY <2>1, <1>a, <1>t, <1>y
  <2> QED  BY <2>2, <1>8, <1>u DEF Recycle
<1>9. CASE Enable
  <2>1. PICK new \in Claims(arena_pool_size, Unused) :
            arena' = [a \in Arenas |-> IF a \in Items(new) THEN NewArena ELSE arena[a]]
    BY <1>9 DEF Enable
  <2>2. Items(new) \subseteq Unused
    BY ClaimsFacts, ArenaPoolAssumption
  <2>3. \A k \in Messages : \A b \in meta[k].a : b \in Arenas /\ b \notin Unused
    BY <1>a, <1>y DEF Unused
  <2>4. \A k \in Messages : \A b \in meta[k].a : arena'[b] = arena[b]
    BY <2>1, <2>2, <2>3
  <2> QED  BY <2>4, <1>9, <1>u DEF Enable
<1>10. CASE ReleaseFree \/ ReleaseReap
  <2>1. \A k \in Messages : \A b \in meta[k].a : arena'[b] = arena[b]
    BY <1>10, <1>a, <1>d, <1>y DEF ReleaseFree, ReleaseReap
  <2> QED  BY <2>1, <1>10, <1>u DEF ReleaseFree, ReleaseReap
<1> QED
  BY <1>1, <1>2, <1>3, <1>4, <1>5, <1>6, <1>7, <1>8, <1>9, <1>10
  DEF Next, Using, Handing, Reaper, Switch

\* With the alignment of the code, alloc() never gives a message memory that is
\* freed, misaligned, out of its chunk or in another block of the message: not
\* even when the pool recycles, releases and claims arenas at the same time.
THEOREM BlocksStaySound ==
    ASSUME Align = 8
    PROVE  Spec => []BlocksAreSound
<1>1. Init => BlockInv
  BY DEF Init, NoMeta, BlockInv
<1>2. PoolInv /\ BlockInv /\ [Next]_vars => BlockInv'
  BY BlockNext DEF PoolInv
<1>3. BlockInv => BlocksAreSound
  BY DEF BlockInv, BlocksAreSound, Held, Placed
<1> QED  BY <1>1, <1>2, <1>3, PoolInvariant, PTL DEF Spec
=============================================================================
