-------------------------------- MODULE Arena --------------------------------
(***************************************************************************)
(* class arena of common/arena.h (compiled under ENABLE_ARENA): memory     *)
(* handed out from chunks.  An arena is a record: the chunks of            *)
(* arena_chunks with their sizes, the index of curchunk and the offset of  *)
(* curpos in it.  reset() frees chunks and leaves their pointers in the    *)
(* list: the record keeps them too, with the mark `freed'.                 *)
(*                                                                         *)
(* The record shows no effect of a use or a second free of freed memory:   *)
(* a client's specification has to say what follows.                       *)
(***************************************************************************)
EXTENDS Naturals, Sequences

CONSTANTS
    arena_chunk_size,
    Align               \* 8: new[] returns multiples of it (of 16, in fact)

ASSUME ArenaAssumption == arena_chunk_size \in Nat \ {0} /\ Align \in Nat \ {0}

ChunkType == [size : Nat, freed : BOOLEAN]
ArenaType == [chunks : Seq(ChunkType), curchunk : Nat, curpos : Nat]
\* What alloc() returns: `size' bytes from offset `first' on of a chunk.
BlockType == [chunk : Nat, first : Nat, size : Nat]

Chunk(bytes) == [size |-> bytes, freed |-> FALSE]

\* arena::arena(), and the state of no arena.
NewArena == [chunks |-> <<Chunk(arena_chunk_size)>>, curchunk |-> 1, curpos |-> 0]
NoArena  == [chunks |-> <<>>, curchunk |-> 0, curpos |-> 0]

\* align_offset(), remaining_bytes().
AlignOffset(a)    == (Align - (a.curpos % Align)) % Align
RemainingBytes(a) == arena_chunk_size - a.curpos

\* alloc(bytes): the arena after it, and the block.
IsLarge(bytes)    == bytes >= arena_chunk_size
Fits(a, bytes)    == bytes + AlignOffset(a) <= RemainingBytes(a)
AfterAlloc(a, bytes) ==
    IF IsLarge(bytes) THEN [a EXCEPT !.chunks = Append(@, Chunk(bytes))]
    ELSE IF Fits(a, bytes) THEN [a EXCEPT !.curpos = @ + bytes + AlignOffset(a)]
    ELSE [chunks   |-> Append(a.chunks, Chunk(arena_chunk_size)),
          curchunk |-> Len(a.chunks) + 1,
          curpos   |-> bytes]

\* A mutation of Allocated: a block that fits starts at curpos, unaligned.
AllocatedUnaligned(a, bytes) ==
    IF ~IsLarge(bytes) /\ Fits(a, bytes)
    THEN [chunk |-> a.curchunk, first |-> a.curpos, size |-> bytes]
    ELSE [chunk |-> Len(a.chunks) + 1, first |-> 0, size |-> bytes]

Allocated(a, bytes) ==
    IF ~IsLarge(bytes) /\ Fits(a, bytes)
    THEN [chunk |-> a.curchunk, first |-> a.curpos + AlignOffset(a), size |-> bytes]
    ELSE [chunk |-> Len(a.chunks) + 1, first |-> 0, size |-> bytes]

\* reset(): from the second chunk on they are freed, and stay in the list.
AfterReset(a) ==
    [chunks   |-> [i \in DOMAIN a.chunks |->
                      IF i = 1 THEN a.chunks[i] ELSE [a.chunks[i] EXCEPT !.freed = TRUE]],
     curchunk |-> 1,
     curpos   |-> 0]

\* Both reset() and ~arena() free what is in the list: chunks that a reset() has
\* freed before are freed twice.
FreesTwice(a) == \E i \in DOMAIN a.chunks : a.chunks[i].freed
-----------------------------------------------------------------------------
(* What the owner of an arena relies on.                                   *)

\* A block lies inside a chunk that is still there, where new[] could have put it.
Usable(a, b) ==
    /\ b.chunk \in DOMAIN a.chunks
    /\ ~a.chunks[b.chunk].freed
    /\ b.first + b.size <= a.chunks[b.chunk].size
    /\ b.first % Align = 0

Disjoint(b, c) ==
    \/ b.chunk # c.chunk
    \/ b.first + b.size <= c.first
    \/ c.first + c.size <= b.first
=============================================================================
