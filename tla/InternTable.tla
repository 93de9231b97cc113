----------------------------- MODULE InternTable -----------------------------
(***************************************************************************)
(* The table of interned strings (utils/da_intern.c): open addressing with *)
(* linear probing, one slot of entries per index, doubled when it is more  *)
(* than INTERN_LOAD_FACTOR full.  One iteration of the copying loop of     *)
(* resize_interntable is one step.                                         *)
(*                                                                         *)
(* mem is the strings in the table's arena, in the order of allocation; a  *)
(* pointer is an index into it, 0 for NULL.  The table only ever goes back *)
(* over one allocation: then arena_mark_reset takes the space in a chunk   *)
(* back (module Arena, ChunkSpaceReclaimed), but it frees none of a single *)
(* block of its own (run arena_blocks).                                    *)
(***************************************************************************)
EXTENDS Integers, Sequences, FiniteSets

CONSTANTS
    Strings,   \* the strings that clients pass
    EMPTY,     \* the one of length 0
    Long,      \* the ones that get a block of their own, from 1009 bytes on
    Hashes,    \* the values of hash_str
    CAP,       \* the first capacity, 1024
    MAX_MEM    \* bound: with so many strings in mem clients stop to concatenate

ASSUME InternAssumption ==
    /\ EMPTY \in Strings /\ Long \subseteq Strings \ {EMPTY}
    /\ Hashes \subseteq Nat /\ 0 \in Hashes
    /\ CAP \in Nat \ {0} /\ MAX_MEM \in Nat

VARIABLES
    hash,      \* hash_str with the table's seed
    entries,   \* table->entries, indexed from 0
    cap, len,  \* table->cap and table->len
    mem,       \* the strings in table->arena
    phase,     \* where intern_find_and_fill is
    request,   \* its string, its memory if it has some, and the mark before that
    index,     \* the loop variable of resize_interntable
    grown,     \* new_table.entries
    answers    \* every interned_str returned so far

vars == <<hash, entries, cap, len, mem, phase, request, index, grown, answers>>

Entry == [cstr : Nat, h : Hashes, id : Nat]

\* A slot after memset.
Empty == [cstr |-> 0, h |-> 0, id |-> 0]

EmptySlots(c) == [i \in 0..(c - 1) |-> Empty]

Request == [str : Strings, res : Nat, mark : Nat]

Answer == [str : Strings, cstr : Nat, id : Nat]

\* The finalisation of hash_str maps only 0 to 0, so the empty string has hash 0
\* only with seed 0, and the seed is the time.
IsHash(f) == f \in [Strings -> Hashes] /\ f[EMPTY] # 0

Init ==
    /\ hash \in [Strings -> Hashes] /\ IsHash(hash)
    /\ entries = EmptySlots(CAP) /\ cap = CAP /\ len = 0
    /\ mem = << >> /\ phase = "idle"
    /\ request = [str |-> EMPTY, res |-> 0, mark |-> 0]
    /\ index = 0 /\ grown = << >> /\ answers = {}

-----------------------------------------------------------------------------
(* intern_find_slot.                                                        *)

\* The string of an entry; that of a slot after memset is empty.
Text(e) == IF e.cstr = 0 THEN EMPTY ELSE mem[e.cstr]

\* The slots that the probe for hash h has passed when it is at slot j.
Passed(h, c, j) ==
    IF h % c <= j THEN (h % c)..(j - 1) ELSE ((h % c)..(c - 1)) \cup (0..(j - 1))

Stops(e, h, s) == e.cstr = 0 \/ (e.h = h /\ Text(e) = s)

IsSlot(table, c, h, s, j) ==
    /\ Stops(table[j], h, s)
    /\ \A i \in Passed(h, c, j) : ~Stops(table[i], h, s)

-----------------------------------------------------------------------------
(* resize_interntable.                                                      *)

\* A seeded fault: the table grows only when it is beyond full.
FaultyOverloaded == len > cap

\* table->len/table->cap > INTERN_LOAD_FACTOR, which is 0.8.
Overloaded == 5 * len > 4 * cap

Begin(r) ==
    /\ request' = r
    /\ index' = 0
    /\ IF Overloaded THEN phase' = "resize" /\ grown' = EmptySlots(2 * cap)
                     ELSE phase' = "find" /\ grown' = << >>
    /\ UNCHANGED <<hash, entries, cap, len, answers>>

\* A seeded fault: a slot keeps its index in the larger table.
FaultyIsNewSlot(e, j) == j = index

\* Where the loop puts an entry, an empty one too.
IsNewSlot(e, j) == IsSlot(grown, 2 * cap, e.h, Text(e), j)

MoveEntry ==
    /\ phase = "resize" /\ index < cap
    /\ \E j \in 0..(2 * cap - 1) :
          /\ IsNewSlot(entries[index], j)
          /\ grown' = [grown EXCEPT ![j] = entries[index]]
    /\ index' = index + 1
    /\ UNCHANGED <<hash, entries, cap, len, mem, phase, request, answers>>

\* A seeded fault: the capacity is not doubled with the entries.
FaultyEndResize ==
    /\ phase = "resize" /\ index = cap
    /\ entries' = grown
    /\ phase' = "find" /\ grown' = << >>
    /\ UNCHANGED <<hash, cap, len, mem, request, index, answers>>

EndResize ==
    /\ phase = "resize" /\ index = cap
    /\ entries' = grown /\ cap' = 2 * cap
    /\ phase' = "find" /\ grown' = << >>
    /\ UNCHANGED <<hash, len, mem, request, index, answers>>

-----------------------------------------------------------------------------
(* intern, concat_intern, and the rest of intern_find_and_fill[_owned].     *)

Intern(s) ==
    /\ phase = "idle"
    /\ Begin([str |-> s, res |-> 0, mark |-> Len(mem)])
    /\ UNCHANGED mem

\* s is the two arguments put together, which are copied to the arena first.
ConcatIntern(s) ==
    /\ phase = "idle" /\ Len(mem) < MAX_MEM
    /\ mem' = Append(mem, s)
    /\ Begin([str |-> s, res |-> Len(mem) + 1, mark |-> Len(mem)])

Return(e) ==
    /\ answers' = answers \cup {[str |-> request.str, cstr |-> e.cstr, id |-> e.id]}
    /\ phase' = "idle"
    /\ UNCHANGED <<hash, cap, request, index, grown>>

IsFound(j) ==
    /\ phase = "find"
    /\ IsSlot(entries, cap, hash[request.str], request.str, j)

\* A seeded fault: the copy is given back when the entry is new.
FaultyGiveBack(m, e) ==
    IF request.res # 0 /\ e.cstr = request.res /\ request.str \notin Long
    THEN SubSeq(m, 1, request.mark) ELSE m

\* A seeded fault: the copy is never given back.
FaultyKeepCopy(m, e) == m

\* The arena after the test of concat_intern: a copy of a string that the table
\* has is given back.  A block of its own stays: the loop of arena_mark_reset
\* starts one behind the first block since the mark.
GiveBack(m, e) ==
    IF request.res # 0 /\ e.cstr # request.res /\ request.str \notin Long
    THEN SubSeq(m, 1, request.mark) ELSE m

Find ==
    \E j \in 0..(cap - 1) :
       /\ IsFound(j) /\ entries[j].cstr # 0
       /\ mem' = GiveBack(mem, entries[j])
       /\ Return(entries[j])
       /\ UNCHANGED <<entries, len>>

\* What the string of a new entry is in: the copy of concat_intern, or a new one.
NewText == IF request.res # 0 THEN mem ELSE Append(mem, request.str)

\* A seeded fault: the id is the slot.
FaultyNewId(j) == j

NewId(j) == len

Fill ==
    \E j \in 0..(cap - 1) :
       /\ IsFound(j) /\ entries[j].cstr = 0
       /\ LET e == [cstr |-> Len(NewText), h |-> hash[request.str], id |-> NewId(j)] IN
            /\ entries' = [entries EXCEPT ![j] = e]
            /\ mem' = GiveBack(NewText, e)
            /\ Return(e)
       /\ len' = len + 1

-----------------------------------------------------------------------------
Work == MoveEntry \/ EndResize \/ Find \/ Fill

Next == (\E s \in Strings : Intern(s) \/ ConcatIntern(s)) \/ Work

\* The functions of the table run to their end; nothing makes a client call them.
Spec == Init /\ [][Next]_vars /\ WF_vars(Work)

-----------------------------------------------------------------------------
(* Properties.                                                              *)

\* Every variable stays in its set.
TypeOK ==
    /\ IsHash(hash)
    /\ cap \in Nat \ {0} /\ len \in Nat
    /\ entries \in [0..(cap - 1) -> Entry]
    /\ mem \in Seq(Strings)
    /\ phase \in {"idle", "resize", "find"}
    /\ request \in Request
    /\ index \in 0..cap
    /\ phase = "resize" => grown \in [0..(2 * cap - 1) -> Entry]
    /\ answers \subseteq Answer

Used == {j \in 0..(cap - 1) : entries[j].cstr # 0}

\* intern_find_slot (da_intern.c:70-77) stops at the entry of a string that the
\* table has: no slot on the way to it is empty, and only one holds it.
Reachable ==
    \A j \in Used :
       /\ entries[j].h = hash[Text(entries[j])]
       /\ \A i \in Passed(entries[j].h, cap, j) : entries[i].cstr # 0
       /\ \A i \in Used : Text(entries[i]) = Text(entries[j]) => i = j

\* An interned_str stays what it was when it was returned: its memory is not
\* reused by arena_mark_reset, and interned_eq, which compares only ids, says
\* whether the strings are equal.
AnswersStayValid ==
    \A a \in answers :
       /\ a.cstr \in 1..Len(mem) /\ mem[a.cstr] = a.str
       /\ \A b \in answers : a.id = b.id <=> a.str = b.str

\* concat_intern leaves no space of a chunk behind when the table has the string
\* already (da_intern.c:139): between calls each string in the arena is that of an
\* entry, or one with a block of its own, which arena_mark_reset does not free.
NothingLeaks ==
    phase = "idle" =>
       \A k \in 1..Len(mem) : mem[k] \in Long \/ \E j \in Used : entries[j].cstr = k

\* The table is an Interner, also while it grows.
Abstract == INSTANCE Interner WITH
    ids <- {<<Text(entries[j]), entries[j].id>> : j \in Used}

ImplementsInterner == Abstract!Spec

\* Every call returns.  intern_find_slot (da_intern.c:71) has no end condition: a
\* probe stops only because there is always a slot to stop at, which the load
\* factor must see to.
CallsReturn == (phase # "idle") ~> (phase = "idle")
=============================================================================
