------------------------------- MODULE Arena -------------------------------
(***************************************************************************)
(* The arena allocator (utils/da_arena.c).  Small objects are cut off the  *)
(* chunks one after the other; an object that would fill a chunk gets a    *)
(* block from malloc, remembered in allocs.  arena_mark and                *)
(* arena_mark_reset go back to an earlier state.                           *)
(*                                                                         *)
(* A chunk is its pos, how far it is used.  Chunks are numbered from 1     *)
(* where the code numbers them from 0.                                     *)
(***************************************************************************)
EXTENDS Integers, Sequences, FiniteSets

CONSTANTS
    SIZE,            \* ar->size, the bytes of a chunk
    ALIGN,           \* alignof(max_align_t)
    MIN_FREE_SIZE,   \* da_arena.h:17
    Requests,        \* the sizes that clients ask for
    MAX_OBJECTS,     \* bound: allocations in a behaviour
    MAX_MARKS        \* bound: marks that a client keeps

ASSUME SizeAssumption ==
    /\ SIZE \in Nat \ {0} /\ ALIGN \in Nat \ {0} /\ MIN_FREE_SIZE \in Nat
    /\ Requests \subseteq Nat
    /\ MAX_OBJECTS \in Nat /\ MAX_MARKS \in Nat

VARIABLES
    chunks,      \* ar->chunks: the pos of each
    allocs,      \* ar->allocs: the blocks from malloc, by object id
    minempty,    \* ar->minempty
    heap,        \* the blocks that are malloc'ed and not freed
    live,        \* the objects that clients may still use
    marks,       \* the marks that clients may still go back to, latest last
    count,       \* allocations so far; they give the objects' ids
    was_reset,   \* arena_reset has been called
    reliable,    \* ARENA_RELIABLE_MARK is among ar->flags
    status       \* "ok", "freed" by arena_free, or "double free"

vars == <<chunks, allocs, minempty, heap, live, marks, count, was_reset, reliable, status>>

Object == [id : Nat, chunk : Nat, from : Nat, to : Nat]

\* arena_mark_t, with the objects live when it was taken.
MarkType == [pos : Nat, chunk : Nat, allocs : Nat, live : SUBSET Object]

AlignUp(n) == ((n + ALIGN - 1) \div ALIGN) * ALIGN

Init ==
    /\ chunks = <<0>> /\ allocs = << >> /\ minempty = 1
    /\ heap = {} /\ live = {} /\ marks = << >>
    /\ count = 0 /\ was_reset = FALSE /\ reliable \in BOOLEAN /\ status = "ok"

-----------------------------------------------------------------------------
(* arena_alloc.                                                             *)

Used == status = "ok"

NewObject(o) ==
    /\ live' = live \cup {o}
    /\ count' = count + 1
    /\ UNCHANGED <<marks, was_reset, reliable, status>>

AllocLarge(size) ==
    /\ Used /\ count < MAX_OBJECTS /\ AlignUp(size) >= SIZE
    /\ allocs' = Append(allocs, count)
    /\ heap' = heap \cup {count}
    /\ NewObject([id |-> count, chunk |-> 0, from |-> 0, to |-> size])
    /\ UNCHANGED <<chunks, minempty>>

\* A seeded fault: every chunk that is not full counts as having room.
FaultyFits(k, n) == k <= Len(chunks) => SIZE > chunks[k]

\* The k-th chunk has room for n bytes; one that is not there yet has.
Fits(k, n) == k <= Len(chunks) => SIZE - chunks[k] >= n

\* get_arena_chunk with reliable marks: the last chunk, or a new one.
LastChunk(n, k, min) ==
    /\ k \in Len(chunks)..(Len(chunks) + 1)
    /\ k = Len(chunks) <=> Fits(Len(chunks), n)
    /\ min = minempty

\* get_arena_chunk without: the first one from minempty on with room; minempty
\* passes the last full chunk met on the way.
FirstChunk(n, k, min) ==
    /\ k \in minempty..(Len(chunks) + 1)
    /\ Fits(k, n)
    /\ \A j \in minempty..(k - 1) : ~Fits(j, n)
    /\ LET full == {j \in minempty..(k - 1) : SIZE - chunks[j] < MIN_FREE_SIZE} IN
         \/ full = {} /\ min = minempty
         \/ \E j \in full : min = j + 1 /\ \A i \in full : i <= j

AllocSmall(size) ==
    LET n == AlignUp(size) IN
    /\ Used /\ count < MAX_OBJECTS /\ n < SIZE
    /\ \E k \in 1..(Len(chunks) + 1), min \in 1..(Len(chunks) + 1) :
          LET pos == IF k <= Len(chunks) THEN chunks[k] ELSE 0 IN
          /\ IF reliable THEN LastChunk(n, k, min) ELSE FirstChunk(n, k, min)
          /\ chunks' = [j \in 1..(IF k <= Len(chunks) THEN Len(chunks) ELSE k) |->
                          IF j = k THEN pos + n ELSE chunks[j]]
          /\ minempty' = min
          /\ NewObject([id |-> count, chunk |-> k, from |-> pos, to |-> pos + n])
    /\ UNCHANGED <<allocs, heap>>

-----------------------------------------------------------------------------
(* Marks.                                                                   *)

Mark ==
    /\ Used /\ Len(marks) < MAX_MARKS
    /\ marks' = Append(marks, [pos |-> chunks[Len(chunks)], chunk |-> Len(chunks),
                               allocs |-> Len(allocs), live |-> live])
    /\ UNCHANGED <<chunks, allocs, minempty, heap, live, count, was_reset, reliable, status>>

LatestMark == marks[Len(marks)]
EarlierMarks == SubSeq(marks, 1, Len(marks) - 1)

\* How many blocks the loop of arena_mark_reset frees: its counter goes up from
\* allocsid + 1 while kv_pop brings the length down.
BlocksFreed(m) ==
    IF m.allocs < Len(allocs) THEN (Len(allocs) - m.allocs) \div 2 ELSE 0

\* A seeded fault: the chunk loop starts one too far, like the block loop does.
FaultyLaterChunk(m, k) ==
    IF k = m.chunk THEN m.pos ELSE IF k > m.chunk + 1 THEN 0 ELSE chunks[k]

\* A seeded fault: the chunk loop starts at the chunk of the mark.
FaultyOwnChunk(m, k) == IF k >= m.chunk THEN 0 ELSE chunks[k]

\* The chunks filled since the mark are emptied.
ResetChunk(m, k) ==
    IF k = m.chunk THEN m.pos ELSE IF k > m.chunk THEN 0 ELSE chunks[k]

\* A seeded fault: arena_mark_reset that frees blocks without popping them.
FaultyMarkReset ==
    /\ Used /\ marks # << >>
    /\ LET m == LatestMark
           kept == Len(allocs) - BlocksFreed(m)
       IN  /\ chunks' = [k \in 1..Len(chunks) |-> ResetChunk(m, k)]
           /\ heap' = heap \ {allocs[k] : k \in (kept + 1)..Len(allocs)}
           /\ minempty' = m.chunk
           /\ live' = m.live
    /\ marks' = EarlierMarks
    /\ UNCHANGED <<allocs, count, was_reset, reliable, status>>

MarkReset ==
    /\ Used /\ marks # << >>
    /\ LET m == LatestMark
           kept == Len(allocs) - BlocksFreed(m)
       IN  /\ chunks' = [k \in 1..Len(chunks) |-> ResetChunk(m, k)]
           /\ allocs' = SubSeq(allocs, 1, kept)
           /\ heap' = heap \ {allocs[k] : k \in (kept + 1)..Len(allocs)}
           /\ minempty' = m.chunk
           /\ live' = m.live
    /\ marks' = EarlierMarks
    /\ UNCHANGED <<count, was_reset, reliable, status>>

\* A client that keeps what it allocated forgets the mark.
KeepAllocated ==
    /\ Used /\ marks # << >>
    /\ marks' = EarlierMarks
    /\ UNCHANGED <<chunks, allocs, minempty, heap, live, count, was_reset, reliable, status>>

-----------------------------------------------------------------------------
Blocks == {allocs[k] : k \in 1..Len(allocs)}

\* Freeing every block of allocs, one of which may have been freed already.
FreeBlocks(then) ==
    /\ status' = IF Blocks \subseteq heap THEN then ELSE "double free"
    /\ heap' = heap \ Blocks

\* arena_reset: allocs keeps its length, so its freed blocks stay listed.
ArenaReset ==
    /\ Used
    /\ FreeBlocks("ok")
    /\ chunks' = [k \in 1..Len(chunks) |-> 0]
    /\ minempty' = 1
    /\ live' = {} /\ marks' = << >> /\ was_reset' = TRUE
    /\ UNCHANGED <<allocs, count, reliable>>

\* arena_free
ArenaFree ==
    /\ Used
    /\ FreeBlocks("freed")
    /\ chunks' = [k \in 1..Len(chunks) |-> 0]
    /\ live' = {} /\ marks' = << >>
    /\ UNCHANGED <<allocs, minempty, count, was_reset, reliable>>

-----------------------------------------------------------------------------
Alloc == \E size \in Requests : AllocLarge(size) \/ AllocSmall(size)

Next == Alloc \/ Mark \/ MarkReset \/ KeepAllocated \/ ArenaReset \/ ArenaFree

Spec == Init /\ [][Next]_vars

-----------------------------------------------------------------------------
(* Properties.                                                              *)

R == INSTANCE Region WITH saved <- [k \in 1..Len(marks) |-> marks[k].live]

\* Every variable stays in its set.
TypeOK ==
    /\ chunks \in Seq(0..SIZE) /\ chunks # << >>
    /\ allocs \in Seq(Nat) /\ minempty \in 1..(Len(chunks) + 1)
    /\ heap \subseteq Nat /\ live \subseteq Object
    /\ marks \in Seq(MarkType) /\ count \in Nat
    /\ was_reset \in BOOLEAN /\ reliable \in BOOLEAN
    /\ status \in {"ok", "freed", "double free"}

\* What a client may still use is there: in the used part of a chunk, or in a
\* block that has not been freed, whatever marks were gone back to since
\* (da_arena.c:3-12).
LiveIsAllocated ==
    \A o \in live :
       IF o.chunk = 0 THEN o.id \in heap
       ELSE /\ o.chunk <= Len(chunks)
            /\ o.to <= chunks[o.chunk] /\ chunks[o.chunk] <= SIZE

\* Two objects in use share no memory, although arena_mark_reset hands the
\* memory behind the mark out again.
LiveIsDisjoint == \A o, p \in live : R!Overlap(o, p) => o = p

\* "work reliably only with ARENA_RELIABLE_MARK" (da_arena.h:43): with the flag,
\* going back to a mark gives all chunk space used since back, so each chunk is
\* used exactly up to the end of its last live object.
ChunkSpaceReclaimed ==
    reliable =>
       \A k \in 1..Len(chunks) :
          /\ \A o \in live : o.chunk = k => o.to <= chunks[k]
          /\ chunks[k] = 0 \/ \E o \in live : o.chunk = k /\ o.to = chunks[k]

\* The same comment, for the blocks of objects that did not fit a chunk: none
\* stays allocated that no client can use.
BlocksReclaimed ==
    reliable /\ status = "ok" => \A b \in heap : \E o \in live : o.chunk = 0 /\ o.id = b

\* No block is freed twice, unless arena_reset (da_arena.c:108-117), which
\* nothing calls, has left the blocks it freed in allocs.
FreedOnce == status = "double free" => was_reset

\* The arena is a Region.
ImplementsRegion == R!Spec
=============================================================================
