---------------------------- MODULE Arena_proofs ----------------------------
(***************************************************************************)
(* Theorems about Arena, for every chunk size, alignment, set of requested *)
(* sizes, and number of objects and marks, with reliable marks and         *)
(* without.                                                                *)
(***************************************************************************)
EXTENDS Arena, TLAPS, SequenceTheorems

-----------------------------------------------------------------------------
(* The inductive invariant.                                                 *)

\* Ids are given out once: to objects, and to the blocks in allocs.
IdsAreUnique ==
    /\ \A o \in live : o.id < count
    /\ \A o, p \in live : o.id = p.id => o = p
    /\ \A b \in heap : b < count
    /\ \A k \in 1..Len(allocs) : allocs[k] < count
    /\ \A j, k \in 1..Len(allocs) : allocs[j] = allocs[k] => j = k

\* The block of a live object is among those that arena_free will free.
BlocksAreListed ==
    /\ \A o \in live : o.chunk = 0 => \E k \in 1..Len(allocs) : allocs[k] = o.id
    /\ ~was_reset /\ status = "ok" => Blocks \subseteq heap

\* The memory of what was live at mark m lies before it, and is still used.
MarkIsBehind(m) ==
    /\ m.chunk \in 1..Len(chunks) /\ m.pos <= chunks[m.chunk]
    /\ m.allocs <= Len(allocs)
    /\ m.live \subseteq live
    /\ \A o \in m.live :
          /\ o.chunk <= m.chunk
          /\ o.chunk = m.chunk => o.to <= m.pos
          /\ o.chunk = 0 => \E k \in 1..m.allocs : allocs[k] = o.id

\* Mark m was taken before mark n.
MarksNest(m, n) ==
    /\ m.chunk <= n.chunk
    /\ m.chunk = n.chunk => m.pos <= n.pos
    /\ m.allocs <= n.allocs
    /\ m.live \subseteq n.live

MarksInv ==
    /\ \A i \in 1..Len(marks) : MarkIsBehind(marks[i])
    /\ \A i, j \in 1..Len(marks) : i <= j => MarksNest(marks[i], marks[j])

\* What is used of chunk k, up to pos, ends with one of the objects.
EndsWith(objects, k, pos) ==
    pos = 0 \/ \E o \in objects : o.chunk = k /\ o.to = pos

\* With reliable marks nothing is allocated before a mark: the chunks below it
\* still end with objects that were live then, and so does its own part.
MarkEndsChunks(m) ==
    /\ \A k \in 1..(m.chunk - 1) : EndsWith(m.live, k, chunks[k])
    /\ EndsWith(m.live, m.chunk, m.pos)

SpaceInv ==
    reliable =>
       /\ \A k \in 1..Len(chunks) : EndsWith(live, k, chunks[k])
       /\ \A i \in 1..Len(marks) : MarkEndsChunks(marks[i])

ArenaInv ==
    /\ TypeOK /\ LiveIsAllocated /\ LiveIsDisjoint /\ FreedOnce
    /\ IdsAreUnique /\ BlocksAreListed /\ MarksInv /\ SpaceInv

-----------------------------------------------------------------------------
(* What the operators return.                                               *)

LEMMA AlignUpType == \A n \in Nat : AlignUp(n) \in Nat
<1> TAKE n \in Nat
<1>1. /\ n + ALIGN - 1 \in Nat /\ ALIGN \in Nat \ {0}
  BY SizeAssumption
<1>2. (n + ALIGN - 1) \div ALIGN \in Nat
  BY <1>1
<1>3. \A a, b \in Nat : a * b \in Nat
  OBVIOUS
<1> QED
  BY <1>1, <1>2, <1>3 DEF AlignUp

LEMMA FunctionIsSeq ==
    ASSUME NEW S, NEW n \in Nat, NEW f \in [1..n -> S]
    PROVE  f \in Seq(S) /\ Len(f) = n
<1>1. f \in Seq(S)
  BY SeqDef
<1>2. DOMAIN f = 1..n /\ DOMAIN f = 1..Len(f) /\ Len(f) \in Nat
  BY <1>1, LenProperties
<1> QED
  BY <1>1, <1>2

\* The loop of arena_mark_reset frees no block from before the mark.
LEMMA BlocksFreedBound ==
    ASSUME allocs \in Seq(Nat), NEW m \in MarkType, m.allocs <= Len(allocs)
    PROVE  /\ BlocksFreed(m) \in Nat
           /\ Len(allocs) - BlocksFreed(m) \in m.allocs..Len(allocs)
<1>1. m.allocs \in Nat /\ Len(allocs) \in Nat
  BY DEF MarkType
<1>2. \A d \in Nat : d \div 2 \in Nat /\ d \div 2 <= d
  OBVIOUS
<1> QED
  BY <1>1, <1>2 DEF BlocksFreed

\* There is always a chunk.
LEMMA ChunksType ==
    ASSUME TypeOK
    PROVE  /\ SIZE \in Nat \ {0} /\ Len(chunks) \in Nat \ {0}
           /\ \A j \in 1..Len(chunks) : chunks[j] \in 0..SIZE
           /\ minempty \in 1..(Len(chunks) + 1) /\ reliable \in BOOLEAN
<1>1. chunks \in Seq(0..SIZE) /\ chunks # << >>
  BY DEF TypeOK
<1>2. Len(chunks) \in Nat \ {0}
  BY <1>1, EmptySeq
<1>3. \A j \in 1..Len(chunks) : chunks[j] \in 0..SIZE
  BY <1>1, ElementOfSeq
<1> QED
  BY <1>2, <1>3, SizeAssumption DEF TypeOK

\* The marks and the blocks.
LEMMA SequencesType ==
    ASSUME TypeOK
    PROVE  /\ marks \in Seq(MarkType) /\ Len(marks) \in Nat
           /\ \A i \in 1..Len(marks) : marks[i] \in MarkType
           /\ allocs \in Seq(Nat) /\ Len(allocs) \in Nat
           /\ \A k \in 1..Len(allocs) : allocs[k] \in Nat
<1>1. marks \in Seq(MarkType) /\ allocs \in Seq(Nat)
  BY DEF TypeOK
<1> QED
  BY <1>1, ElementOfSeq, LenProperties

\* What the invariant says of a live object.
LEMMA LiveType ==
    ASSUME ArenaInv
    PROVE  /\ live \subseteq Object /\ heap \subseteq Nat /\ count \in Nat
           /\ \A p \in live :
                 /\ p.id \in Nat /\ p.chunk \in Nat /\ p.from \in Nat /\ p.to \in Nat
                 /\ p.id < count /\ p.chunk <= Len(chunks)
                 /\ p.chunk = 0 => p.id \in heap
                 /\ p.chunk # 0 => p.chunk \in 1..Len(chunks) /\ p.to <= chunks[p.chunk]
           /\ \A b \in heap : b \in Nat /\ b < count
<1>1. live \subseteq Object /\ heap \subseteq Nat /\ count \in Nat
  BY DEF ArenaInv, TypeOK
<1>2. ASSUME NEW p \in live
      PROVE  /\ p.id \in Nat /\ p.chunk \in Nat /\ p.from \in Nat /\ p.to \in Nat
             /\ p.id < count /\ p.chunk <= Len(chunks)
             /\ p.chunk = 0 => p.id \in heap
             /\ p.chunk # 0 => p.chunk \in 1..Len(chunks) /\ p.to <= chunks[p.chunk]
  <2>1. p.id \in Nat /\ p.chunk \in Nat /\ p.from \in Nat /\ p.to \in Nat
    BY <1>1 DEF Object
  <2>2. p.id < count
    BY DEF ArenaInv, IdsAreUnique
  <2>3. Len(chunks) \in Nat \ {0}
    BY ChunksType DEF ArenaInv
  <2>4. IF p.chunk = 0 THEN p.id \in heap
        ELSE p.chunk <= Len(chunks) /\ p.to <= chunks[p.chunk]
    BY DEF ArenaInv, LiveIsAllocated
  <2> QED
    BY <2>1, <2>2, <2>3, <2>4
<1>3. \A b \in heap : b \in Nat /\ b < count
  BY <1>1 DEF ArenaInv, IdsAreUnique
<1> QED
  BY <1>1, <1>2, <1>3

\* A chunk that get_arena_chunk returns has room, and is the next one if it is new.
LEMMA ChunkFound ==
    ASSUME TypeOK, NEW n \in Nat, n < SIZE,
           NEW k \in 1..(Len(chunks) + 1), NEW min \in 1..(Len(chunks) + 1),
           IF reliable THEN LastChunk(n, k, min) ELSE FirstChunk(n, k, min)
    PROVE  /\ k <= Len(chunks) => chunks[k] + n <= SIZE
           /\ reliable => k >= Len(chunks)
           /\ min <= k \/ min = minempty
<1>1. SIZE \in Nat /\ Len(chunks) \in Nat \ {0} /\ \A j \in 1..Len(chunks) : chunks[j] \in 0..SIZE
  BY ChunksType
<1>2. minempty \in Nat /\ reliable \in BOOLEAN
  BY ChunksType
<1>3. CASE reliable
  <2>1. LastChunk(n, k, min)
    BY <1>3
  <2> QED
    BY <1>1, <1>2, <2>1 DEF LastChunk, Fits
<1>4. CASE ~reliable
  <2>1. FirstChunk(n, k, min)
    BY <1>4
  <2>2. k <= Len(chunks) => chunks[k] + n <= SIZE
    BY <1>1, <1>2, <2>1 DEF FirstChunk, Fits
  <2>3. min <= k \/ min = minempty
    BY <1>1, <1>2, <2>1 DEF FirstChunk
  <2> QED
    BY <1>4, <2>2, <2>3
<1> QED
  BY <1>2, <1>3, <1>4

-----------------------------------------------------------------------------
(* The actions.                                                             *)

LEMMA InitInv == Init => ArenaInv
<1> SUFFICES ASSUME Init PROVE ArenaInv
  OBVIOUS
<1>1. chunks = <<0>> /\ Len(chunks) = 1 /\ chunks[1] = 0 /\ Len(allocs) = 0 /\ Len(marks) = 0
  BY DEF Init
<1>2. TypeOK
  <2>1. 0 \in 0..SIZE
    BY SizeAssumption
  <2>2. chunks \in Seq(0..SIZE) /\ chunks # << >>
    BY <1>1, <2>1
  <2>3. allocs \in Seq(Nat) /\ marks \in Seq(MarkType)
    BY EmptySeq DEF Init
  <2>4. minempty \in 1..(Len(chunks) + 1)
    BY <1>1 DEF Init
  <2> QED
    BY <2>2, <2>3, <2>4 DEF Init, TypeOK
<1>3. LiveIsAllocated /\ LiveIsDisjoint /\ FreedOnce
  BY <1>1 DEF Init, LiveIsAllocated, LiveIsDisjoint, FreedOnce
<1>4. IdsAreUnique /\ BlocksAreListed
  BY <1>1 DEF Init, IdsAreUnique, BlocksAreListed, Blocks
<1>5. MarksInv /\ SpaceInv
  BY <1>1 DEF Init, MarksInv, SpaceInv, EndsWith
<1> QED
  BY <1>2, <1>3, <1>4, <1>5 DEF ArenaInv

LEMMA AllocLargeInv ==
    ASSUME ArenaInv, NEW size \in Requests, AllocLarge(size)
    PROVE  ArenaInv'
<1> DEFINE o == [id |-> count, chunk |-> 0, from |-> 0, to |-> size]
<1> USE DEF AllocLarge, NewObject, Used
<1>1. /\ TypeOK /\ size \in Nat /\ o \in Object
      /\ live' = live \cup {o} /\ count' = count + 1 /\ heap' = heap \cup {count}
      /\ allocs' = Append(allocs, count)
      /\ UNCHANGED <<chunks, minempty, marks, was_reset, reliable, status>>
  BY SizeAssumption DEF ArenaInv, TypeOK, Object
<1>2. /\ allocs' \in Seq(Nat) /\ Len(allocs) \in Nat /\ Len(allocs') = Len(allocs) + 1
      /\ \A k \in 1..Len(allocs) : allocs'[k] = allocs[k]
      /\ allocs'[Len(allocs) + 1] = count
  BY <1>1 DEF TypeOK
<1>3. TypeOK'
  BY <1>1, <1>2 DEF TypeOK
<1>4. /\ \A p \in live : p \in Object /\ p.id < count
      /\ \A k \in 1..Len(allocs) : allocs[k] \in Nat /\ allocs[k] < count
      /\ count \in Nat
  BY <1>1 DEF ArenaInv, IdsAreUnique, TypeOK
<1>5. LiveIsAllocated'
  <2> SUFFICES ASSUME NEW p \in live'
               PROVE  IF p.chunk = 0 THEN p.id \in heap'
                      ELSE /\ p.chunk <= Len(chunks)
                           /\ p.to <= chunks[p.chunk] /\ chunks[p.chunk] <= SIZE
    BY <1>1 DEF LiveIsAllocated
  <2>1. CASE p \in live
    BY <1>1, <2>1 DEF ArenaInv, LiveIsAllocated
  <2>2. CASE p = o
    BY <1>1, <2>2
  <2> QED
    BY <1>1, <2>1, <2>2
<1>6. LiveIsDisjoint'
  BY <1>1, <1>4 DEF ArenaInv, LiveIsDisjoint, R!Overlap, Object
<1>7. FreedOnce'
  BY <1>1 DEF ArenaInv, FreedOnce
<1>8. IdsAreUnique'
  <2>1. \A p \in live' : p.id < count'
    <3> SUFFICES ASSUME NEW p \in live' PROVE p.id < count + 1
      BY <1>1
    <3>1. CASE p \in live
      BY <1>4, <3>1 DEF Object
    <3>2. CASE p = o
      BY <1>4, <3>2
    <3> QED
      BY <1>1, <3>1, <3>2
  <2>2. \A p, q \in live' : p.id = q.id => p = q
    BY <1>1, <1>4 DEF ArenaInv, IdsAreUnique
  <2>3. \A b \in heap' : b < count'
    BY <1>1, <1>4 DEF ArenaInv, IdsAreUnique, TypeOK
  <2>4. \A k \in 1..Len(allocs') : allocs'[k] < count'
    BY <1>1, <1>2, <1>4
  <2>5. \A j, k \in 1..Len(allocs') : allocs'[j] = allocs'[k] => j = k
    BY <1>1, <1>2, <1>4 DEF ArenaInv, IdsAreUnique
  <2> QED
    BY <2>1, <2>2, <2>3, <2>4, <2>5 DEF IdsAreUnique
<1>9. BlocksAreListed'
  <2>1. \A p \in live' : p.chunk = 0 => \E k \in 1..Len(allocs') : allocs'[k] = p.id
    <3> SUFFICES ASSUME NEW p \in live', p.chunk = 0
                 PROVE  \E k \in 1..Len(allocs') : allocs'[k] = p.id
      OBVIOUS
    <3>1. CASE p \in live
      <4>1. PICK k \in 1..Len(allocs) : allocs[k] = p.id
        BY <3>1 DEF ArenaInv, BlocksAreListed
      <4> QED
        BY <1>2, <4>1
    <3>2. CASE p = o
      BY <1>2, <3>2
    <3> QED
      BY <1>1, <3>1, <3>2
  <2>2. Blocks' \subseteq Blocks \cup {count}
    BY <1>1, <1>2 DEF Blocks
  <2> QED
    BY <1>1, <2>1, <2>2 DEF ArenaInv, BlocksAreListed
<1>10. MarksInv'
  <2>1. ASSUME NEW i \in 1..Len(marks)
        PROVE  MarkIsBehind(marks[i])'
    <3>1. marks[i] \in MarkType /\ MarkIsBehind(marks[i])
      BY <1>1 DEF ArenaInv, MarksInv, TypeOK
    <3>2. \A k \in 1..(marks[i].allocs) : allocs'[k] = allocs[k]
      BY <1>2, <3>1 DEF MarkIsBehind, MarkType
    <3> QED
      BY <1>1, <1>2, <3>1, <3>2 DEF MarkIsBehind, MarkType
  <2> QED
    BY <1>1, <2>1 DEF ArenaInv, MarksInv, MarksNest
<1>11. SpaceInv'
  BY <1>1 DEF ArenaInv, SpaceInv, EndsWith, MarkEndsChunks
<1> QED
  BY <1>3, <1>5, <1>6, <1>7, <1>8, <1>9, <1>10, <1>11 DEF ArenaInv

LEMMA AllocSmallInv ==
    ASSUME ArenaInv, NEW size \in Requests, AllocSmall(size)
    PROVE  ArenaInv'
<1> DEFINE n == AlignUp(size)
           L == Len(chunks)
<1>1. n \in Nat /\ n < SIZE /\ status = "ok"
  BY AlignUpType, SizeAssumption DEF AllocSmall, Used
<1>2. TypeOK /\ L \in Nat \ {0} /\ SIZE \in Nat /\ count \in Nat
      /\ \A j \in 1..L : chunks[j] \in 0..SIZE
  BY ChunksType DEF ArenaInv, TypeOK
<1>3. PICK k \in 1..(L + 1), min \in 1..(L + 1) :
         LET pos == IF k <= L THEN chunks[k] ELSE 0 IN
         /\ IF reliable THEN LastChunk(n, k, min) ELSE FirstChunk(n, k, min)
         /\ chunks' = [j \in 1..(IF k <= L THEN L ELSE k) |->
                          IF j = k THEN pos + n ELSE chunks[j]]
         /\ minempty' = min
         /\ NewObject([id |-> count, chunk |-> k, from |-> pos, to |-> pos + n])
  BY DEF AllocSmall
<1> DEFINE pos == IF k <= L THEN chunks[k] ELSE 0
           o == [id |-> count, chunk |-> k, from |-> pos, to |-> pos + n]
           M == IF k <= L THEN L ELSE k
<1>4. /\ k <= L => pos = chunks[k]
      /\ pos \in Nat /\ pos + n <= SIZE
      /\ reliable => k >= L
      /\ min <= k \/ min = minempty
  BY <1>1, <1>2, <1>3, ChunkFound
<1>5. /\ o \in Object /\ o.id = count /\ o.chunk = k /\ o.from = pos /\ o.to = pos + n
      /\ live' = live \cup {o} /\ count' = count + 1 /\ minempty' = min
      /\ UNCHANGED <<allocs, heap, marks, was_reset, reliable, status>>
  BY <1>1, <1>2, <1>3, <1>4 DEF NewObject, Object, AllocSmall
<1>6. /\ M \in Nat /\ M \in L..(L + 1) /\ k <= M
      /\ chunks' \in Seq(0..SIZE) /\ Len(chunks') = M
      /\ chunks'[k] = pos + n
      /\ \A j \in 1..M : j # k => j <= L /\ chunks'[j] = chunks[j]
  <2>1. M \in Nat /\ M \in L..(L + 1) /\ k <= M /\ k \in 1..M
    BY <1>2
  <2>2. chunks' = [j \in 1..M |-> IF j = k THEN pos + n ELSE chunks[j]]
    BY <1>3
  <2>3. \A j \in 1..M : j # k => j \in 1..L
    BY <1>2
  <2>4. chunks' \in [1..M -> 0..SIZE]
    BY <1>1, <1>2, <1>4, <2>2, <2>3
  <2> QED
    BY <2>1, <2>2, <2>3, <2>4, FunctionIsSeq
<1> HIDE DEF n, pos, o, M
\* A chunk is never used less than before.
<1>7. \A j \in 1..L : j \in 1..M /\ chunks[j] <= chunks'[j]
  BY <1>1, <1>2, <1>4, <1>6
<1>8. \A p \in live : /\ p \in Object /\ p.id < count /\ p.chunk <= L
                      /\ p.chunk # 0 => p.to <= chunks[p.chunk]
  BY LiveType
<1>9. TypeOK'
  <2>1. chunks' # << >>
    BY <1>2, <1>6, EmptySeq
  <2>2. minempty' \in 1..(Len(chunks') + 1)
    BY <1>2, <1>4, <1>5, <1>6, ChunksType
  <2>3. live' \subseteq Object /\ count' \in Nat
    BY <1>5, LiveType
  <2> QED
    BY <1>2, <1>5, <1>6, <2>1, <2>2, <2>3 DEF TypeOK
<1>10. LiveIsAllocated'
  <2> SUFFICES ASSUME NEW p \in live'
               PROVE  IF p.chunk = 0 THEN p.id \in heap
                      ELSE /\ p.chunk <= M
                           /\ p.to <= chunks'[p.chunk] /\ chunks'[p.chunk] <= SIZE
    BY <1>5, <1>6 DEF LiveIsAllocated
  <2>1. CASE p \in live /\ p.chunk = 0
    BY <2>1 DEF ArenaInv, LiveIsAllocated
  <2>2. CASE p \in live /\ p.chunk # 0
    <3>1. p.chunk \in 1..L /\ p.chunk \in 1..M /\ p.to \in Nat
      BY <1>2, <1>7, <1>8, <2>2 DEF Object
    <3> QED
      BY <1>2, <1>6, <1>7, <1>8, <2>2, <3>1, ElementOfSeq
  <2>3. CASE p = o
    <3>1. p.chunk = k /\ p.to = pos + n /\ k # 0 /\ k <= M
      BY <1>5, <1>6, <2>3
    <3> QED
      BY <1>1, <1>4, <1>6, <3>1
  <2> QED
    BY <1>5, <2>1, <2>2, <2>3
<1>11. LiveIsDisjoint'
  <2>1. ASSUME NEW p \in live PROVE ~R!Overlap(o, p) /\ ~R!Overlap(p, o)
    <3> SUFFICES ASSUME p.chunk = k PROVE ~(pos < p.to)
      BY <1>2, <1>5 DEF R!Overlap
    <3>1. k \in 1..L /\ p.to <= pos
      BY <1>2, <1>4, <1>8
    <3> QED
      BY <1>4, <1>8, <3>1 DEF Object
  <2> QED
    BY <1>5, <2>1 DEF ArenaInv, LiveIsDisjoint
<1>12. FreedOnce'
  BY <1>5 DEF ArenaInv, FreedOnce
<1>13. IdsAreUnique'
  <2>1. \A p \in live' : p.id < count'
    <3> SUFFICES ASSUME NEW p \in live' PROVE p.id < count + 1
      BY <1>5
    <3>1. CASE p \in live
      BY <1>2, <1>8, <3>1 DEF Object
    <3>2. CASE p = o
      BY <1>2, <1>5, <3>2
    <3> QED
      BY <1>5, <3>1, <3>2
  <2>2. \A p, q \in live' : p.id = q.id => p = q
    <3>1. \A p \in live : p.id # o.id
      BY <1>2, <1>5, <1>8 DEF Object
    <3> QED
      BY <1>5, <3>1 DEF ArenaInv, IdsAreUnique
  <2>3. \A b \in heap' : b < count'
    BY <1>5, LiveType
  <2>4. \A i \in 1..Len(allocs') : allocs'[i] < count'
    <3>1. \A i \in 1..Len(allocs) : allocs[i] \in Nat /\ allocs[i] < count
      BY <1>2, ElementOfSeq DEF ArenaInv, IdsAreUnique, TypeOK
    <3> QED
      BY <1>2, <1>5, <3>1
  <2> QED
    BY <1>5, <2>1, <2>2, <2>3, <2>4 DEF ArenaInv, IdsAreUnique
<1>14. BlocksAreListed'
  <2>1. \A p \in live' : p.chunk = 0 => p \in live
    BY <1>2, <1>5
  <2> QED
    BY <1>5, <2>1 DEF ArenaInv, BlocksAreListed, Blocks
<1>15. MarksInv'
  <2>1. ASSUME NEW i \in 1..Len(marks)
        PROVE  MarkIsBehind(marks[i])'
    <3>1. marks[i] \in MarkType /\ MarkIsBehind(marks[i])
      BY <1>2, ElementOfSeq DEF ArenaInv, MarksInv, TypeOK
    <3>2. marks[i].chunk \in 1..L /\ marks[i].pos <= chunks[marks[i].chunk]
      BY <3>1 DEF MarkIsBehind
    <3>3. /\ marks[i].chunk \in 1..M /\ marks[i].pos \in Nat
          /\ chunks[marks[i].chunk] <= chunks'[marks[i].chunk]
          /\ chunks[marks[i].chunk] \in Nat /\ chunks'[marks[i].chunk] \in Nat
      BY <1>2, <1>6, <1>7, <3>1, <3>2, ElementOfSeq DEF MarkType
    <3>4. marks[i].pos <= chunks'[marks[i].chunk]
      BY <3>2, <3>3
    <3> QED
      BY <1>5, <1>6, <3>1, <3>3, <3>4 DEF MarkIsBehind
  <2> QED
    BY <1>5, <2>1 DEF ArenaInv, MarksInv, MarksNest
<1>16. SpaceInv'
  <2> SUFFICES ASSUME reliable
               PROVE  /\ \A j \in 1..M : EndsWith(live', j, chunks'[j])
                      /\ \A i \in 1..Len(marks) : MarkEndsChunks(marks[i])'
    BY <1>5, <1>6 DEF SpaceInv
  <2>1. ASSUME NEW j \in 1..M PROVE EndsWith(live', j, chunks'[j])
    <3>1. CASE j = k
      BY <1>5, <1>6, <3>1 DEF EndsWith
    <3>2. CASE j # k
      <4>1. j \in 1..L /\ chunks'[j] = chunks[j]
        BY <1>6, <3>2
      <4>2. EndsWith(live, j, chunks[j])
        BY <4>1 DEF ArenaInv, SpaceInv
      <4> QED
        BY <1>5, <4>1, <4>2 DEF EndsWith
    <3> QED
      BY <3>1, <3>2
  <2>2. ASSUME NEW i \in 1..Len(marks) PROVE MarkEndsChunks(marks[i])'
    <3>1. MarkEndsChunks(marks[i]) /\ marks[i].chunk \in 1..L
      BY DEF ArenaInv, SpaceInv, MarksInv, MarkIsBehind
    <3>2. \A j \in 1..(marks[i].chunk - 1) : chunks'[j] = chunks[j]
      BY <1>2, <1>4, <1>6, <3>1
    <3> QED
      BY <1>5, <3>1, <3>2 DEF MarkEndsChunks
  <2> QED
    BY <2>1, <2>2
<1> QED
  BY <1>9, <1>10, <1>11, <1>12, <1>13, <1>14, <1>15, <1>16 DEF ArenaInv

LEMMA MarkInv ==
    ASSUME ArenaInv, Mark
    PROVE  ArenaInv'
<1> DEFINE m == [pos |-> chunks[Len(chunks)], chunk |-> Len(chunks),
                 allocs |-> Len(allocs), live |-> live]
           N == Len(marks)
<1>1. /\ marks' = Append(marks, m)
      /\ UNCHANGED <<chunks, allocs, minempty, heap, live, count, was_reset, reliable, status>>
  BY DEF Mark
<1>2. /\ TypeOK /\ N \in Nat /\ Len(chunks) \in Nat \ {0} /\ Len(allocs) \in Nat
      /\ \A j \in 1..Len(chunks) : chunks[j] \in Nat
      /\ live \subseteq Object /\ marks \in Seq(MarkType)
      /\ \A i \in 1..N : marks[i] \in MarkType
  BY ChunksType, SequencesType, LiveType DEF ArenaInv
<1>3. /\ m \in MarkType
      /\ m.pos = chunks[Len(chunks)] /\ m.chunk = Len(chunks)
      /\ m.allocs = Len(allocs) /\ m.live = live
  BY <1>2 DEF MarkType
<1> HIDE DEF m
<1>4. /\ marks' \in Seq(MarkType) /\ Len(marks') = N + 1
      /\ \A i \in 1..N : marks'[i] = marks[i]
      /\ marks'[N + 1] = m
  BY <1>1, <1>2, <1>3, AppendProperties
<1>5. TypeOK'
  BY <1>1, <1>2, <1>4 DEF TypeOK
<1>6. LiveIsAllocated' /\ LiveIsDisjoint' /\ FreedOnce'
  BY <1>1 DEF ArenaInv, LiveIsAllocated, LiveIsDisjoint, FreedOnce
<1>7. IdsAreUnique' /\ BlocksAreListed'
  BY <1>1 DEF ArenaInv, IdsAreUnique, BlocksAreListed, Blocks
<1>8. MarkIsBehind(m)
  <2>1. \A o \in live : o.chunk <= Len(chunks) /\ (o.chunk = Len(chunks) => o.to <= chunks[Len(chunks)])
    BY <1>2, LiveType
  <2>2. \A o \in live : o.chunk = 0 => \E k \in 1..Len(allocs) : allocs[k] = o.id
    BY DEF ArenaInv, BlocksAreListed
  <2>3. m.pos <= chunks[m.chunk] /\ m.chunk \in 1..Len(chunks) /\ m.allocs <= Len(allocs)
    BY <1>2, <1>3
  <2> QED
    BY <1>3, <2>1, <2>2, <2>3 DEF MarkIsBehind
<1>9. \A i \in 1..N : marks[i] \in MarkType /\ MarkIsBehind(marks[i]) /\ MarksNest(marks[i], m)
  <2> TAKE i \in 1..N
  <2>1. marks[i] \in MarkType /\ MarkIsBehind(marks[i])
    BY <1>2 DEF ArenaInv, MarksInv
  <2> QED
    BY <1>2, <1>3, <2>1 DEF MarkIsBehind, MarksNest, MarkType
<1>10. MarksNest(m, m)
  BY <1>3 DEF MarksNest, MarkType
<1>11. MarksInv'
  <2>1. ASSUME NEW i \in 1..(N + 1) PROVE MarkIsBehind(marks[i])'
    <3>1. MarkIsBehind(marks'[i])
      BY <1>2, <1>4, <1>8, <1>9
    <3> QED
      BY <1>1, <3>1 DEF MarkIsBehind
  <2>2. ASSUME NEW i \in 1..(N + 1), NEW j \in 1..(N + 1), i <= j
        PROVE  MarksNest(marks[i], marks[j])'
    <3>1. CASE j \in 1..N
      <4>1. i \in 1..N
        BY <1>2, <2>2, <3>1
      <4>2. MarksNest(marks[i], marks[j])
        BY <2>2, <3>1, <4>1 DEF ArenaInv, MarksInv
      <4> QED
        BY <1>4, <3>1, <4>1, <4>2 DEF MarksNest
    <3>2. CASE j = N + 1
      <4>1. MarksNest(marks'[i], m)
        BY <1>2, <1>4, <1>9, <1>10
      <4> QED
        BY <1>4, <3>2, <4>1 DEF MarksNest
    <3> QED
      BY <1>2, <3>1, <3>2
  <2> QED
    BY <1>4, <2>1, <2>2 DEF MarksInv
<1>12. SpaceInv'
  <2> SUFFICES ASSUME reliable
               PROVE  /\ \A k \in 1..Len(chunks) : EndsWith(live, k, chunks[k])
                      /\ \A i \in 1..(N + 1) : MarkEndsChunks(marks'[i])
    BY <1>1, <1>4 DEF SpaceInv, MarkEndsChunks, EndsWith
  <2>1. \A k \in 1..Len(chunks) : EndsWith(live, k, chunks[k])
    BY DEF ArenaInv, SpaceInv
  <2>2. MarkEndsChunks(m)
    BY <1>2, <1>3, <2>1 DEF MarkEndsChunks
  <2>3. \A i \in 1..N : MarkEndsChunks(marks[i])
    BY DEF ArenaInv, SpaceInv
  <2> QED
    BY <1>2, <1>4, <2>1, <2>2, <2>3
<1> QED
  BY <1>5, <1>6, <1>7, <1>11, <1>12 DEF ArenaInv

\* Using up the latest mark leaves the earlier ones.
LEMMA EarlierMarksEffect ==
    ASSUME TypeOK, marks # << >>
    PROVE  /\ Len(marks) \in Nat \ {0} /\ LatestMark \in MarkType
           /\ EarlierMarks \in Seq(MarkType) /\ Len(EarlierMarks) = Len(marks) - 1
           /\ \A i \in 1..(Len(marks) - 1) :
                 /\ i \in 1..Len(marks)
                 /\ EarlierMarks[i] = marks[i] /\ marks[i] \in MarkType
<1>1. marks \in Seq(MarkType) /\ Len(marks) \in Nat \ {0}
  BY EmptySeq DEF TypeOK
<1>2. \A i \in 1..Len(marks) : marks[i] \in MarkType
  BY <1>1, ElementOfSeq
<1>3. \A i \in 1..(Len(marks) - 1) : i \in 1..Len(marks)
  BY <1>1
<1>4. /\ EarlierMarks \in Seq(MarkType) /\ Len(EarlierMarks) = Len(marks) - 1
      /\ \A i \in 1..(Len(marks) - 1) : EarlierMarks[i] = marks[i]
  <2> DEFINE n == Len(marks) - 1
  <2>1. n \in Nat /\ n \in Int /\ 1 \in Int /\ \A i \in 1..n : marks[i] \in MarkType
    BY <1>1, <1>2, <1>3
  <2>2. EarlierMarks = SubSeq(marks, 1, n)
    BY DEF EarlierMarks
  <2> HIDE DEF n
  <2>3. /\ SubSeq(marks, 1, n) \in Seq(MarkType)
        /\ Len(SubSeq(marks, 1, n)) = n
        /\ \A i \in 1..n : SubSeq(marks, 1, n)[i] = marks[i]
    BY <2>1, SubSeqProperties
  <2> QED
    BY <2>2, <2>3 DEF n
<1>5. LatestMark \in MarkType
  BY <1>1, <1>2 DEF LatestMark
<1> QED
  BY <1>1, <1>2, <1>3, <1>4, <1>5

LEMMA KeepAllocatedInv ==
    ASSUME ArenaInv, KeepAllocated
    PROVE  ArenaInv'
<1>1. /\ marks # << >> /\ marks' = EarlierMarks
      /\ UNCHANGED <<chunks, allocs, minempty, heap, live, count, was_reset, reliable, status>>
  BY DEF KeepAllocated
<1>2. /\ marks' \in Seq(MarkType) /\ Len(marks) \in Nat \ {0} /\ Len(marks') = Len(marks) - 1
      /\ \A i \in 1..Len(marks') : i \in 1..Len(marks) /\ marks'[i] = marks[i]
  BY <1>1, EarlierMarksEffect DEF ArenaInv
<1>3. TypeOK'
  BY <1>1, <1>2 DEF ArenaInv, TypeOK
<1>4. LiveIsAllocated' /\ LiveIsDisjoint' /\ FreedOnce'
  BY <1>1 DEF ArenaInv, LiveIsAllocated, LiveIsDisjoint, FreedOnce
<1>5. IdsAreUnique' /\ BlocksAreListed'
  BY <1>1 DEF ArenaInv, IdsAreUnique, BlocksAreListed, Blocks
<1>6. MarksInv'
  <2>1. ASSUME NEW i \in 1..Len(marks') PROVE MarkIsBehind(marks[i])'
    <3>1. MarkIsBehind(marks[i])
      BY <1>2 DEF ArenaInv, MarksInv
    <3> QED
      BY <1>1, <1>2, <3>1 DEF MarkIsBehind
  <2>2. ASSUME NEW i \in 1..Len(marks'), NEW j \in 1..Len(marks'), i <= j
        PROVE  MarksNest(marks[i], marks[j])'
    <3>1. MarksNest(marks[i], marks[j])
      BY <1>2, <2>2 DEF ArenaInv, MarksInv
    <3> QED
      BY <1>2, <3>1 DEF MarksNest
  <2> QED
    BY <2>1, <2>2 DEF MarksInv
<1>7. SpaceInv'
  <2>1. ASSUME reliable, NEW i \in 1..Len(marks') PROVE MarkEndsChunks(marks[i])'
    <3>1. MarkEndsChunks(marks[i])
      BY <1>2, <2>1 DEF ArenaInv, SpaceInv
    <3> QED
      BY <1>1, <1>2, <3>1 DEF MarkEndsChunks
  <2>2. reliable => \A k \in 1..Len(chunks) : EndsWith(live, k, chunks[k])
    BY DEF ArenaInv, SpaceInv
  <2> QED
    BY <1>1, <2>1, <2>2 DEF SpaceInv
<1> QED
  BY <1>3, <1>4, <1>5, <1>6, <1>7 DEF ArenaInv

\* Emptying every chunk and dropping every object and mark.
LEMMA EmptiedInv ==
    ASSUME ArenaInv, status = "ok",
           chunks' = [k \in 1..Len(chunks) |-> 0],
           live' = {}, marks' = << >>, UNCHANGED <<allocs, count, reliable>>,
           minempty' \in {1, minempty},
           \E then \in {"ok", "freed"} : FreeBlocks(then),
           status' = "ok" => was_reset', was_reset' \in {TRUE, was_reset}
    PROVE  ArenaInv'
<1>1. TypeOK /\ Len(chunks) \in Nat \ {0} /\ SIZE \in Nat /\ minempty \in 1..(Len(chunks) + 1)
  BY ChunksType DEF ArenaInv
<1>2. /\ chunks' \in Seq(0..SIZE) /\ Len(chunks') = Len(chunks)
      /\ \A k \in 1..Len(chunks) : chunks'[k] = 0
  <2>1. chunks' \in [1..Len(chunks) -> 0..SIZE]
    BY <1>1
  <2> QED
    BY <1>1, <2>1, FunctionIsSeq
<1>3. /\ heap' \subseteq heap /\ status' \in {"ok", "freed", "double free"}
      /\ status' = "double free" => ~(Blocks \subseteq heap)
  BY DEF FreeBlocks
<1>4. TypeOK'
  <2>1. chunks' # << >> /\ marks' \in Seq(MarkType)
    BY <1>1, <1>2, EmptySeq
  <2>2. minempty' \in 1..(Len(chunks') + 1)
    BY <1>1, <1>2
  <2> QED
    BY <1>1, <1>2, <1>3, <2>1, <2>2 DEF TypeOK
<1>5. LiveIsAllocated' /\ LiveIsDisjoint'
  BY DEF LiveIsAllocated, LiveIsDisjoint
<1>6. FreedOnce'
  BY <1>3 DEF ArenaInv, BlocksAreListed, FreedOnce
<1>7. IdsAreUnique'
  BY <1>3 DEF ArenaInv, IdsAreUnique
<1>8. BlocksAreListed'
  BY DEF BlocksAreListed
<1>9. MarksInv' /\ SpaceInv'
  <2>1. Len(marks') = 0
    BY EmptySeq
  <2> QED
    BY <1>2, <2>1 DEF MarksInv, SpaceInv, EndsWith
<1> QED
  BY <1>4, <1>5, <1>6, <1>7, <1>8, <1>9 DEF ArenaInv

LEMMA ArenaResetInv ==
    ASSUME ArenaInv, ArenaReset
    PROVE  ArenaInv'
BY EmptiedInv DEF ArenaReset, Used

LEMMA ArenaFreeInv ==
    ASSUME ArenaInv, ArenaFree
    PROVE  ArenaInv'
<1>1. status' # "ok" /\ FreeBlocks("freed")
  BY DEF ArenaFree, FreeBlocks
<1> QED
  BY <1>1, EmptiedInv DEF ArenaFree, Used

LEMMA MarkResetInv ==
    ASSUME ArenaInv, MarkReset
    PROVE  ArenaInv'
<1> DEFINE m == LatestMark
           N == Len(marks)
           L == Len(chunks)
           kept == Len(allocs) - BlocksFreed(m)
<1>1. /\ status = "ok" /\ marks # << >>
      /\ chunks' = [k \in 1..L |-> ResetChunk(m, k)]
      /\ allocs' = SubSeq(allocs, 1, kept)
      /\ heap' = heap \ {allocs[k] : k \in (kept + 1)..Len(allocs)}
      /\ minempty' = m.chunk
      /\ live' = m.live
      /\ marks' = EarlierMarks
      /\ UNCHANGED <<count, was_reset, reliable, status>>
  BY DEF MarkReset, Used
<1>2. /\ TypeOK /\ N \in Nat \ {0} /\ L \in Nat \ {0} /\ SIZE \in Nat /\ Len(allocs) \in Nat
      /\ \A k \in 1..L : chunks[k] \in 0..SIZE
      /\ \A k \in 1..Len(allocs) : allocs[k] \in Nat
      /\ m \in MarkType
      /\ marks' \in Seq(MarkType) /\ Len(marks') = N - 1
      /\ \A i \in 1..(N - 1) : i \in 1..N /\ marks'[i] = marks[i] /\ marks[i] \in MarkType
  BY <1>1, ChunksType, SequencesType, EarlierMarksEffect DEF ArenaInv
<1>3. /\ MarkIsBehind(m)
      /\ m.chunk \in 1..L /\ m.pos \in Nat /\ m.pos <= chunks[m.chunk] /\ m.allocs \in Nat
      /\ m.live \subseteq live
  <2>1. MarkIsBehind(m)
    BY <1>2 DEF ArenaInv, MarksInv, LatestMark
  <2> QED
    BY <1>2, <2>1 DEF MarkIsBehind, MarkType
<1>4. \A i \in 1..(N - 1) : MarkIsBehind(marks[i]) /\ MarksNest(marks[i], m)
  BY <1>2 DEF ArenaInv, MarksInv, LatestMark
<1>5. kept \in m.allocs..Len(allocs) /\ kept \in Nat
  BY <1>2, <1>3, BlocksFreedBound, SequencesType DEF MarkIsBehind
<1>6. /\ allocs' \in Seq(Nat) /\ Len(allocs') = kept
      /\ \A k \in 1..kept : k \in 1..Len(allocs) /\ allocs'[k] = allocs[k]
  <2>1. \A k \in 1..kept : k \in 1..Len(allocs) /\ allocs[k] \in Nat
    BY <1>2, <1>5
  <2>2. /\ SubSeq(allocs, 1, kept) \in Seq(Nat)
        /\ Len(SubSeq(allocs, 1, kept)) = kept
        /\ \A k \in 1..kept : SubSeq(allocs, 1, kept)[k] = allocs[k]
    BY <1>5, <2>1, SubSeqProperties
  <2> QED
    BY <1>1, <2>1, <2>2
<1>7. /\ chunks' \in Seq(0..SIZE) /\ Len(chunks') = L
      /\ \A k \in 1..L : /\ k < m.chunk => chunks'[k] = chunks[k]
                         /\ k = m.chunk => chunks'[k] = m.pos
                         /\ k > m.chunk => chunks'[k] = 0
  <2>1. \A k \in 1..L : /\ k < m.chunk => ResetChunk(m, k) = chunks[k]
                        /\ k = m.chunk => ResetChunk(m, k) = m.pos
                        /\ k > m.chunk => ResetChunk(m, k) = 0
                        /\ ResetChunk(m, k) \in 0..SIZE
    BY <1>2, <1>3 DEF ResetChunk
  <2>2. chunks' \in [1..L -> 0..SIZE]
    BY <1>1, <2>1
  <2> QED
    BY <1>1, <1>2, <2>1, <2>2, FunctionIsSeq
<1> HIDE DEF m, kept
<1>8. TypeOK'
  <2>1. chunks' # << >>
    BY <1>2, <1>7, EmptySeq
  <2>2. minempty' \in 1..(Len(chunks') + 1)
    BY <1>1, <1>2, <1>3, <1>7
  <2>3. heap' \subseteq Nat /\ live' \subseteq Object
    BY <1>1, <1>3, LiveType
  <2> QED
    BY <1>1, <1>2, <1>6, <1>7, <2>1, <2>2, <2>3 DEF TypeOK
\* Blocks from before the mark stay: no other place of allocs holds the same one.
<1>9. \A k \in 1..kept : allocs[k] \in heap => allocs[k] \in heap'
  BY <1>1, <1>2, <1>5, <1>6 DEF ArenaInv, IdsAreUnique
<1>10. LiveIsAllocated'
  <2> SUFFICES ASSUME NEW p \in m.live
               PROVE  IF p.chunk = 0 THEN p.id \in heap'
                      ELSE /\ p.chunk <= L
                           /\ p.to <= chunks'[p.chunk] /\ chunks'[p.chunk] <= SIZE
    BY <1>1, <1>7 DEF LiveIsAllocated
  <2>1. p \in live /\ p.chunk \in Nat /\ p.chunk <= m.chunk
        /\ (p.chunk = m.chunk => p.to <= m.pos)
    BY <1>3, LiveType DEF MarkIsBehind
  <2>2. CASE p.chunk = 0
    <3>1. PICK k \in 1..m.allocs : allocs[k] = p.id
      BY <1>3, <2>2 DEF MarkIsBehind
    <3>2. k \in 1..kept
      BY <1>3, <1>5
    <3>3. p.id \in heap
      BY <2>1, <2>2, LiveType
    <3> QED
      BY <1>9, <2>2, <3>1, <3>2, <3>3
  <2>3. CASE p.chunk # 0
    <3>1. p.chunk \in 1..L /\ p.to <= chunks[p.chunk]
      BY <2>1, <2>3, LiveType
    <3>2. chunks'[p.chunk] <= SIZE
      BY <1>2, <1>7, <3>1, ElementOfSeq
    <3>3. p.to <= chunks'[p.chunk]
      BY <1>3, <1>7, <2>1, <3>1
    <3> QED
      BY <1>2, <2>3, <3>1, <3>2, <3>3
  <2> QED
    BY <2>2, <2>3
<1>11. LiveIsDisjoint' /\ FreedOnce'
  BY <1>1, <1>3 DEF ArenaInv, LiveIsDisjoint, FreedOnce
<1>12. IdsAreUnique'
  BY <1>1, <1>3, <1>6 DEF ArenaInv, IdsAreUnique
<1>13. BlocksAreListed'
  <2>1. ASSUME NEW p \in live', p.chunk = 0
        PROVE  \E k \in 1..Len(allocs') : allocs'[k] = p.id
    <3>1. PICK k \in 1..m.allocs : allocs[k] = p.id
      BY <1>1, <1>3, <2>1 DEF MarkIsBehind
    <3>2. k \in 1..kept
      BY <1>3, <1>5
    <3> QED
      BY <1>6, <3>1, <3>2
  <2>2. ASSUME Blocks \subseteq heap PROVE Blocks' \subseteq heap'
    BY <1>6, <1>9, <2>2 DEF Blocks
  <2> QED
    BY <1>1, <2>1, <2>2 DEF ArenaInv, BlocksAreListed
<1>14. MarksInv'
  <2>1. ASSUME NEW i \in 1..(N - 1) PROVE MarkIsBehind(marks[i])'
    <3> DEFINE e == marks[i]
    <3>1. MarkIsBehind(e) /\ MarksNest(e, m) /\ e \in MarkType /\ marks'[i] = e
      BY <1>2, <1>4
    <3>2. e.chunk \in 1..L /\ e.chunk <= m.chunk /\ e.pos \in Nat /\ e.allocs \in Nat
      BY <3>1 DEF MarkIsBehind, MarksNest, MarkType
    <3>3. e.pos <= chunks'[e.chunk]
      <4>1. e.pos <= chunks[e.chunk] /\ (e.chunk = m.chunk => e.pos <= m.pos)
        BY <3>1 DEF MarkIsBehind, MarksNest
      <4>2. CASE e.chunk = m.chunk
        BY <1>7, <3>2, <4>1, <4>2
      <4>3. CASE e.chunk < m.chunk
        BY <1>7, <3>2, <4>1, <4>3
      <4> QED
        BY <1>3, <3>2, <4>2, <4>3
    <3>4. e.allocs <= kept /\ \A k \in 1..e.allocs : allocs'[k] = allocs[k]
      <4>1. e.allocs <= m.allocs
        BY <3>1 DEF MarksNest
      <4> QED
        BY <1>3, <1>5, <1>6, <3>2, <4>1
    <3>5. e.live \subseteq live'
      BY <1>1, <3>1 DEF MarksNest
    <3> HIDE DEF e
    <3>6. \A o \in e.live :
             /\ o.chunk <= e.chunk
             /\ o.chunk = e.chunk => o.to <= e.pos
             /\ o.chunk = 0 => \E k \in 1..e.allocs : allocs'[k] = o.id
      BY <3>1, <3>4 DEF MarkIsBehind
    <3> QED
      BY <1>6, <1>7, <3>1, <3>2, <3>3, <3>4, <3>5, <3>6 DEF MarkIsBehind
  <2>2. ASSUME NEW i \in 1..(N - 1), NEW j \in 1..(N - 1), i <= j
        PROVE  MarksNest(marks[i], marks[j])'
    <3>1. MarksNest(marks[i], marks[j])
      BY <1>2, <2>2 DEF ArenaInv, MarksInv
    <3> QED
      BY <1>2, <3>1 DEF MarksNest
  <2> QED
    BY <1>2, <2>1, <2>2 DEF MarksInv
<1>15. SpaceInv'
  <2> SUFFICES ASSUME reliable
               PROVE  /\ \A k \in 1..L : EndsWith(m.live, k, chunks'[k])
                      /\ \A i \in 1..(N - 1) : MarkEndsChunks(marks[i])'
    BY <1>1, <1>2, <1>7 DEF SpaceInv
  <2>1. MarkEndsChunks(m)
    BY <1>2 DEF ArenaInv, SpaceInv, LatestMark, m
  <2>2. ASSUME NEW k \in 1..L PROVE EndsWith(m.live, k, chunks'[k])
    <3>1. CASE k < m.chunk
      <4>1. k \in 1..(m.chunk - 1)
        BY <1>2, <1>3, <3>1
      <4> QED
        BY <1>7, <2>1, <3>1, <4>1 DEF MarkEndsChunks
    <3>2. CASE k = m.chunk
      BY <1>7, <2>1, <3>2 DEF MarkEndsChunks
    <3>3. CASE k > m.chunk
      BY <1>7, <3>3 DEF EndsWith
    <3> QED
      BY <1>2, <1>3, <3>1, <3>2, <3>3
  <2>3. ASSUME NEW i \in 1..(N - 1) PROVE MarkEndsChunks(marks[i])'
    <3>1. MarkEndsChunks(marks[i]) /\ marks[i].chunk \in 1..L /\ marks[i].chunk <= m.chunk
      BY <1>2, <1>4 DEF ArenaInv, SpaceInv, MarkIsBehind, MarksNest
    <3>2. \A k \in 1..(marks[i].chunk - 1) : chunks'[k] = chunks[k]
      <4> TAKE k \in 1..(marks[i].chunk - 1)
      <4>1. k \in 1..L /\ k < m.chunk
        BY <1>2, <1>3, <3>1
      <4> QED
        BY <1>7, <4>1
    <3> QED
      BY <1>2, <3>1, <3>2 DEF MarkEndsChunks
  <2> QED
    BY <2>2, <2>3
<1> QED
  BY <1>8, <1>10, <1>11, <1>12, <1>13, <1>14, <1>15 DEF ArenaInv

LEMMA StutterInv ==
    ASSUME ArenaInv, UNCHANGED vars
    PROVE  ArenaInv'
<1> USE DEF vars
<1>1. TypeOK'
  BY DEF ArenaInv, TypeOK
<1>2. LiveIsAllocated' /\ LiveIsDisjoint' /\ FreedOnce' /\ IdsAreUnique'
  BY DEF ArenaInv, LiveIsAllocated, LiveIsDisjoint, FreedOnce, IdsAreUnique
<1>3. BlocksAreListed'
  BY DEF ArenaInv, BlocksAreListed, Blocks
<1>4. MarksInv'
  BY DEF ArenaInv, MarksInv, MarkIsBehind, MarksNest
<1>5. SpaceInv'
  BY DEF ArenaInv, SpaceInv, MarkEndsChunks, EndsWith
<1> QED
  BY <1>1, <1>2, <1>3, <1>4, <1>5 DEF ArenaInv

-----------------------------------------------------------------------------
(* The theorems.                                                            *)

THEOREM Inductive == Spec => []ArenaInv
<1>1. ArenaInv /\ [Next]_vars => ArenaInv'
  BY AllocLargeInv, AllocSmallInv, MarkInv, MarkResetInv, KeepAllocatedInv,
     ArenaResetInv, ArenaFreeInv, StutterInv
     DEF Next, Alloc
<1> QED
  BY InitInv, <1>1, PTL DEF Spec

\* Every variable stays in its set.
THEOREM TypeCorrect == Spec => []TypeOK
<1>1. ArenaInv => TypeOK
  BY DEF ArenaInv
<1> QED
  BY Inductive, <1>1, PTL

\* What a client may still use has not been freed or emptied
\* (da_arena.c:3-12, 66-106).
THEOREM LiveMemory == Spec => []LiveIsAllocated
<1>1. ArenaInv => LiveIsAllocated
  BY DEF ArenaInv
<1> QED
  BY Inductive, <1>1, PTL

\* No memory is handed out twice (da_arena.c:29-56).
THEOREM Disjoint == Spec => []LiveIsDisjoint
<1>1. ArenaInv => LiveIsDisjoint
  BY DEF ArenaInv
<1> QED
  BY Inductive, <1>1, PTL

\* With reliable marks arena_mark_reset gives all chunk space back
\* (da_arena.h:43).
THEOREM SpaceReclaimed == Spec => []ChunkSpaceReclaimed
<1>1. ArenaInv => ChunkSpaceReclaimed
  <2> SUFFICES ASSUME ArenaInv, reliable, NEW k \in 1..Len(chunks)
               PROVE  /\ \A o \in live : o.chunk = k => o.to <= chunks[k]
                      /\ chunks[k] = 0 \/ \E o \in live : o.chunk = k /\ o.to = chunks[k]
    BY DEF ChunkSpaceReclaimed
  <2>1. \A o \in live : o.chunk = k => o.to <= chunks[k]
    BY LiveType, ChunksType DEF ArenaInv
  <2>2. EndsWith(live, k, chunks[k])
    BY DEF ArenaInv, SpaceInv
  <2> QED
    BY <2>1, <2>2 DEF EndsWith
<1> QED
  BY Inductive, <1>1, PTL

\* Only after arena_reset is a block freed again (da_arena.c:108-117).
THEOREM NoDoubleFree == Spec => []FreedOnce
<1>1. ArenaInv => FreedOnce
  BY DEF ArenaInv
<1> QED
  BY Inductive, <1>1, PTL

-----------------------------------------------------------------------------
(* The arena implements Region.                                             *)

\* What Region calls saved.
Saved == [k \in 1..Len(marks) |-> marks[k].live]

LEMMA LivesType ==
    ASSUME NEW ms \in Seq(MarkType), NEW saved, saved = [k \in 1..Len(ms) |-> ms[k].live]
    PROVE  /\ saved \in Seq(SUBSET Object) /\ Len(saved) = Len(ms)
           /\ \A k \in 1..Len(ms) : saved[k] = ms[k].live
<1>1. Len(ms) \in Nat /\ \A k \in 1..Len(ms) : ms[k].live \in SUBSET Object
  <2>1. Len(ms) \in Nat /\ \A k \in 1..Len(ms) : ms[k] \in MarkType
    BY ElementOfSeq, LenProperties
  <2>2. \A m \in MarkType : m.live \in SUBSET Object
    BY DEF MarkType
  <2> QED
    BY <2>1, <2>2
<1>2. saved \in [1..Len(ms) -> SUBSET Object]
  BY <1>1
<1>3. saved \in Seq(SUBSET Object) /\ Len(saved) = Len(ms)
  BY <1>1, <1>2, FunctionIsSeq
<1> QED
  BY <1>3

LEMMA SavedType ==
    ASSUME TypeOK
    PROVE  /\ Saved \in Seq(SUBSET Object) /\ Len(Saved) = Len(marks)
           /\ \A k \in 1..Len(marks) : Saved[k] = marks[k].live
BY SequencesType, LivesType DEF Saved

\* A new object overlaps no live one.
LEMMA AllocRefines ==
    ASSUME ArenaInv, ArenaInv', NEW o \in Object, o.id = count,
           live' = live \cup {o}, UNCHANGED marks
    PROVE  R!Alloc
<1>1. \A p \in live : o.id # p.id
  BY LiveType
<1>2. \A p \in live : ~R!Overlap(o, p)
  BY <1>1 DEF ArenaInv, LiveIsDisjoint
<1>3. R!Object = Object
  BY DEF R!Object, Object
<1>4. Saved' = Saved
  BY DEF Saved
<1> QED
  BY <1>1, <1>2, <1>3, <1>4 DEF R!Alloc, Saved

\* Using up the latest mark is the same in Region.
LEMMA EarlierSaved ==
    ASSUME ArenaInv, ArenaInv', marks # << >>, marks' = EarlierMarks
    PROVE  /\ Saved # << >> /\ Saved[Len(Saved)] = LatestMark.live
           /\ Saved' = SubSeq(Saved, 1, Len(Saved) - 1)
<1> DEFINE n == Len(marks) - 1
<1>1. /\ Len(marks) \in Nat \ {0} /\ n \in Nat
      /\ marks' \in Seq(MarkType) /\ Len(marks') = n
      /\ \A k \in 1..n : k \in 1..Len(marks) /\ marks'[k] = marks[k]
  BY EarlierMarksEffect DEF ArenaInv
<1>2. /\ Saved \in Seq(SUBSET Object) /\ Len(Saved) = Len(marks)
      /\ \A k \in 1..Len(marks) : Saved[k] = marks[k].live
  BY SavedType DEF ArenaInv
<1>3. Saved # << >> /\ Saved[Len(Saved)] = LatestMark.live
  BY <1>1, <1>2 DEF LatestMark
<1>4. Saved' = [k \in 1..n |-> Saved[k]]
  <2>1. Saved' = [k \in 1..n |-> marks'[k].live]
    BY <1>1 DEF Saved
  <2> QED
    BY <1>1, <1>2, <2>1
<1>5. SubSeq(Saved, 1, n) = [k \in 1..n |-> Saved[k]]
  <2> HIDE DEF n
  <2>1. \A k \in 1..n : Saved[k] \in SUBSET Object
    BY <1>1, <1>2, ElementOfSeq DEF n
  <2>2. /\ SubSeq(Saved, 1, n) \in Seq(SUBSET Object) /\ Len(SubSeq(Saved, 1, n)) = n
        /\ \A k \in 1..n : SubSeq(Saved, 1, n)[k] = Saved[k]
    BY <1>1, <2>1, SubSeqProperties
  <2>3. SubSeq(Saved, 1, n) \in [1..n -> SUBSET Object]
    BY <2>2, LenProperties
  <2> QED
    BY <2>2, <2>3
<1> QED
  BY <1>2, <1>3, <1>4, <1>5

LEMMA MarkRefines ==
    ASSUME ArenaInv, ArenaInv', Mark
    PROVE  R!Mark
<1> DEFINE N == Len(marks)
           m == [pos |-> chunks[Len(chunks)], chunk |-> Len(chunks),
                 allocs |-> Len(allocs), live |-> live]
<1>1. /\ N \in Nat /\ marks' \in Seq(MarkType) /\ Len(marks') = N + 1
      /\ \A k \in 1..N : marks'[k] = marks[k]
      /\ marks'[N + 1].live = live
      /\ live' = live
  <2>1. marks' = Append(marks, m) /\ live' = live
    BY DEF Mark
  <2>2. m \in MarkType
    BY ChunksType, SequencesType, LiveType DEF ArenaInv, MarkType
  <2>3. marks \in Seq(MarkType) /\ Len(marks) \in Nat
    BY SequencesType DEF ArenaInv
  <2>4. m.live = live
    OBVIOUS
  <2> HIDE DEF m
  <2> QED
    BY <2>1, <2>2, <2>3, <2>4, AppendProperties
<1>2. /\ Saved \in Seq(SUBSET Object) /\ Len(Saved) = N
      /\ \A k \in 1..N : Saved[k] = marks[k].live
      /\ Saved' \in Seq(SUBSET Object) /\ Len(Saved') = N + 1
      /\ \A k \in 1..(N + 1) : Saved'[k] = marks'[k].live
  <2>1. Saved' = [k \in 1..Len(marks') |-> marks'[k].live]
    BY DEF Saved
  <2>2. /\ Saved' \in Seq(SUBSET Object) /\ Len(Saved') = Len(marks')
        /\ \A k \in 1..Len(marks') : Saved'[k] = marks'[k].live
    BY <1>1, <2>1, LivesType
  <2> QED
    BY <1>1, <2>2, SavedType DEF ArenaInv
<1>3. live \in SUBSET Object
  BY LiveType
<1> HIDE DEF N
<1>4. Saved' = Append(Saved, live)
  <2>1. Append(Saved, live) \in Seq(SUBSET Object) /\ Len(Append(Saved, live)) = N + 1
    BY <1>2, <1>3, AppendProperties
  <2>2. \A k \in 1..(N + 1) : Append(Saved, live)[k] = Saved'[k]
    BY <1>1, <1>2, <1>3, AppendProperties
  <2> QED
    BY <1>1, <1>2, <2>1, <2>2, SeqEqual
<1> QED
  BY <1>1, <1>4 DEF R!Mark, Saved

\* Every step is one of Region, or changes nothing that Region knows.
LEMMA StepRefines ==
    ASSUME ArenaInv, ArenaInv', [Next]_vars
    PROVE  [R!Next]_(R!vars)
<1>1. ASSUME NEW size \in Requests, AllocLarge(size) PROVE R!Alloc
  <2> DEFINE o == [id |-> count, chunk |-> 0, from |-> 0, to |-> size]
  <2>1. o \in Object
    BY SizeAssumption, LiveType DEF Object
  <2>2. live' = live \cup {o} /\ UNCHANGED marks
    BY <1>1 DEF AllocLarge, NewObject
  <2> QED
    BY <2>1, <2>2, AllocRefines
<1>2. ASSUME NEW size \in Requests, AllocSmall(size) PROVE R!Alloc
  <2>1. PICK k, pos, n : LET o == [id |-> count, chunk |-> k, from |-> pos, to |-> pos + n]
                         IN  live' = live \cup {o} /\ UNCHANGED marks
    BY <1>2 DEF AllocSmall, NewObject
  <2> DEFINE o == [id |-> count, chunk |-> k, from |-> pos, to |-> pos + n]
  <2>2. o \in live' /\ live' \subseteq Object
    BY <2>1 DEF ArenaInv, TypeOK
  <2> QED
    BY <2>1, <2>2, AllocRefines
<1>3. CASE Mark
  BY <1>3, MarkRefines DEF R!Next
<1>4. CASE MarkReset
  <2>1. marks # << >> /\ live' = LatestMark.live /\ marks' = EarlierMarks
    BY <1>4 DEF MarkReset
  <2>2. R!Release
    BY <2>1, EarlierSaved DEF R!Release, R!Front, Saved
  <2> QED
    BY <2>2 DEF R!Next
<1>5. CASE KeepAllocated
  <2>1. marks # << >> /\ UNCHANGED live /\ marks' = EarlierMarks
    BY <1>5 DEF KeepAllocated
  <2>2. R!Keep
    BY <2>1, EarlierSaved DEF R!Keep, R!Front, Saved
  <2> QED
    BY <2>2 DEF R!Next
<1>6. CASE ArenaReset \/ ArenaFree
  <2>1. live' = {} /\ marks' = << >>
    BY <1>6 DEF ArenaReset, ArenaFree
  <2>2. R!Clear
    BY <2>1 DEF R!Clear
  <2> QED
    BY <2>2 DEF R!Next
<1>7. CASE UNCHANGED vars
  BY <1>7 DEF vars, R!vars
<1> QED
  BY <1>1, <1>2, <1>3, <1>4, <1>5, <1>6, <1>7 DEF Next, Alloc, R!Next

\* The arena is a Region (da_arena.c, da_arena.h): what it hands out overlaps
\* nothing in use, and a mark releases what came after it and nothing else.
THEOREM Refinement == Spec => ImplementsRegion
<1>1. Init => R!Init
  BY DEF Init, R!Init
<1>2. ArenaInv /\ ArenaInv' /\ [Next]_vars => [R!Next]_(R!vars)
  BY StepRefines
<1> QED
  BY Inductive, <1>1, <1>2, PTL DEF Spec, R!Spec, ImplementsRegion
=============================================================================
