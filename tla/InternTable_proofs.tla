------------------------- MODULE InternTable_proofs -------------------------
(***************************************************************************)
(* Theorems about InternTable, for every set of strings, every hash        *)
(* function and every first capacity.                                      *)
(***************************************************************************)
EXTENDS InternTable, TLAPS, SequenceTheorems

-----------------------------------------------------------------------------
(* The inductive invariant, in terms of any table: resize_interntable fills *)
(* a second one beside entries.                                             *)

\* The string that entry e points to in memory m.
TextIn(m, e) == IF e.cstr = 0 THEN EMPTY ELSE m[e.cstr]

UsedIn(t, c) == {j \in 0..(c - 1) : t[j].cstr # 0}

\* t, with capacity c, holds strings of the first `top` places of memory m.
Holds(f, t, c, m, top) ==
    \A j \in UsedIn(t, c) :
       /\ t[j].cstr \in 1..top
       /\ t[j].h = f[TextIn(m, t[j])]

\* A probe for the hash of an entry meets no empty slot before it.
ProbesReach(t, c) ==
    \A j \in UsedIn(t, c) : \A i \in Passed(t[j].h, c, j) : t[i].cstr # 0

\* Strings and ids are in one place only.
NoTwice(t, c, m) ==
    \A i, j \in UsedIn(t, c) :
       TextIn(m, t[i]) = TextIn(m, t[j]) \/ t[i].id = t[j].id => i = j

\* An empty slot is as memset left it; hash_str is not 0 for the empty string.
EmptyAreClear(t, c) == \A j \in 0..(c - 1) : t[j].cstr = 0 => t[j].h = 0

IsTable(f, t, c, m, top) ==
    /\ Holds(f, t, c, m, top) /\ ProbesReach(t, c)
    /\ NoTwice(t, c, m) /\ EmptyAreClear(t, c)

\* The memory of entries ends here; beyond is only the copy of a request.
Base == IF phase = "idle" THEN Len(mem) ELSE request.mark

RequestInv ==
    phase # "idle" =>
       IF request.res = 0 THEN Len(mem) = request.mark
       ELSE /\ request.res = request.mark + 1
            /\ Len(mem) = request.res /\ mem[request.res] = request.str

\* Every place of the memory is that of an entry or was left behind by
\* concat_intern; ids are below len.
EntriesInv ==
    /\ IsTable(hash, entries, cap, mem, Base)
    /\ \A j \in Used : entries[j].id < len
    /\ \A k \in 1..Base : mem[k] \in Long \/ \E j \in Used : entries[j].cstr = k

AnswersInv ==
    \A a \in answers : \E j \in Used :
       a.cstr = entries[j].cstr /\ a.id = entries[j].id /\ a.str = TextIn(mem, entries[j])

\* The new table holds the entries that the loop has passed, and no others.
GrownInv ==
    phase = "resize" =>
       /\ IsTable(hash, grown, 2 * cap, mem, Base)
       /\ \A j \in UsedIn(grown, 2 * cap) : \E i \in Used : i < index /\ grown[j] = entries[i]
       /\ \A i \in Used : i < index => \E j \in UsedIn(grown, 2 * cap) : grown[j] = entries[i]

InternInv == TypeOK /\ RequestInv /\ EntriesInv /\ AnswersInv /\ GrownInv

-----------------------------------------------------------------------------
(* Probes.                                                                  *)

LEMMA TextIs == \A e : Text(e) = TextIn(mem, e)
BY DEF Text, TextIn

LEMMA EmptyIsEntry == Empty \in Entry /\ Empty.cstr = 0 /\ Empty.h = 0
BY InternAssumption DEF Empty, Entry

LEMMA EntryType ==
    \A e \in Entry : e.cstr \in Nat /\ e.h \in Nat /\ e.h \in Hashes /\ e.id \in Nat
BY InternAssumption DEF Entry

\* A probe stays inside the table, and of two slots it meets one first.
LEMMA PassedOrder ==
    ASSUME NEW c \in Nat \ {0}, NEW h \in Nat, NEW j \in 0..(c - 1)
    PROVE  /\ Passed(h, c, j) \subseteq 0..(c - 1) /\ j \notin Passed(h, c, j)
           /\ \A i \in 0..(c - 1) : i = j \/ i \in Passed(h, c, j) \/ j \in Passed(h, c, i)
<1> DEFINE a == h % c
<1>1. a \in 0..(c - 1)
  OBVIOUS
<1>2. \A i : Passed(h, c, i) = IF a <= i THEN a..(i - 1) ELSE (a..(c - 1)) \cup (0..(i - 1))
  BY DEF Passed
<1> HIDE DEF a
<1>3. Passed(h, c, j) \subseteq 0..(c - 1) /\ j \notin Passed(h, c, j)
  BY <1>1, <1>2
<1>4. ASSUME NEW i \in 0..(c - 1)
      PROVE  i = j \/ i \in Passed(h, c, j) \/ j \in Passed(h, c, i)
  BY <1>1, <1>2
<1> QED
  BY <1>3, <1>4

\* What entries points to, and an assignment to one of the slots.
Slots(c) == [0..(c - 1) -> Entry]
Put(t, j, e) == [t EXCEPT ![j] = e]

\* The probe for hash h ends at the empty slot j.
EndsAt(t, c, h, j) == t[j].cstr = 0 /\ \A i \in Passed(h, c, j) : t[i].cstr # 0

\* No entry of t has the string or the id of e.
NewTo(t, c, m, e) ==
    \A i \in UsedIn(t, c) : t[i].id # e.id /\ TextIn(m, t[i]) # TextIn(m, e)

\* Memories m and n are the same up to top.
Agree(m, n, top) == \A k \in 1..top : n[k] = m[k]

\* An entry put in the empty slot that its probe found leaves a table.
LEMMA PutEntry ==
    ASSUME NEW f, NEW c \in Nat \ {0}, NEW t \in Slots(c),
           NEW m, NEW top, IsTable(f, t, c, m, top),
           NEW j \in 0..(c - 1), NEW e \in Entry, EndsAt(t, c, e.h, j),
           e.cstr \in 1..top, e.h = f[TextIn(m, e)], NewTo(t, c, m, e)
    PROVE  /\ Put(t, j, e) \in Slots(c)
           /\ IsTable(f, Put(t, j, e), c, m, top)
           /\ \A i : i \in UsedIn(Put(t, j, e), c) <=> i \in UsedIn(t, c) \/ i = j
           /\ Put(t, j, e)[j] = e
           /\ \A i \in UsedIn(t, c) : i # j /\ Put(t, j, e)[i] = t[i]
<1> DEFINE u == Put(t, j, e)
<1> USE DEF EndsAt, NewTo
<1>1. u \in [0..(c - 1) -> Entry] /\ u[j] = e /\ \A i \in 0..(c - 1) : i # j => u[i] = t[i]
  BY DEF Slots, Put
<1> HIDE DEF u
<1>2. UsedIn(u, c) = UsedIn(t, c) \cup {j}
  BY <1>1 DEF UsedIn
<1>3. \A i \in UsedIn(t, c) : i \in 0..(c - 1) /\ i # j /\ u[i] = t[i]
  BY <1>1 DEF UsedIn
<1>5. Holds(f, u, c, m, top)
  <2> SUFFICES ASSUME NEW i \in UsedIn(u, c)
               PROVE  u[i].cstr \in 1..top /\ u[i].h = f[TextIn(m, u[i])]
    BY DEF Holds
  <2>1. CASE i = j
    BY <1>1, <2>1
  <2>2. CASE i \in UsedIn(t, c)
    BY <1>3, <2>2 DEF IsTable, Holds
  <2> QED
    BY <1>2, <2>1, <2>2
<1>6. ProbesReach(u, c)
  <2> SUFFICES ASSUME NEW i \in UsedIn(u, c), NEW k \in Passed(u[i].h, c, i)
               PROVE  u[k].cstr # 0
    BY DEF ProbesReach
  <2>1. i \in 0..(c - 1) /\ u[i].h \in Nat
    BY <1>1, EntryType DEF UsedIn
  <2>2. k \in 0..(c - 1)
    BY <2>1, PassedOrder
  <2>3. u[k].cstr = 0 => k # j /\ t[k].cstr = 0
    BY <1>1, <2>2
  <2>4. CASE i = j
    BY <1>1, <2>3, <2>4
  <2>5. CASE i \in UsedIn(t, c)
    BY <1>3, <2>3, <2>5 DEF IsTable, ProbesReach
  <2> QED
    BY <1>2, <2>4, <2>5
<1>7. NoTwice(u, c, m)
  <2> SUFFICES ASSUME NEW i \in UsedIn(u, c), NEW k \in UsedIn(u, c),
                      TextIn(m, u[i]) = TextIn(m, u[k]) \/ u[i].id = u[k].id
               PROVE  i = k
    BY DEF NoTwice
  <2>1. CASE i \in UsedIn(t, c) /\ k \in UsedIn(t, c)
    BY <1>3, <2>1 DEF IsTable, NoTwice
  <2>2. CASE i = j /\ k \in UsedIn(t, c)
    BY <1>1, <1>3, <2>2
  <2>3. CASE i \in UsedIn(t, c) /\ k = j
    BY <1>1, <1>3, <2>3
  <2> QED
    BY <1>2, <2>1, <2>2, <2>3
<1>8. EmptyAreClear(u, c)
  BY <1>1, EntryType DEF IsTable, Slots, EmptyAreClear
<1> QED
  BY <1>1, <1>2, <1>3, <1>5, <1>6, <1>7, <1>8 DEF IsTable, Slots, u

\* resize_interntable also copies empty entries, to empty slots.
LEMMA PutEmpty ==
    ASSUME NEW f, NEW c \in Nat \ {0}, NEW t \in Slots(c),
           NEW m, NEW top, IsTable(f, t, c, m, top),
           NEW j \in 0..(c - 1), t[j].cstr = 0,
           NEW e \in Entry, e.cstr = 0, e.h = 0
    PROVE  /\ Put(t, j, e) \in Slots(c)
           /\ IsTable(f, Put(t, j, e), c, m, top)
           /\ \A i : i \in UsedIn(Put(t, j, e), c) <=> i \in UsedIn(t, c)
           /\ \A i \in UsedIn(t, c) : Put(t, j, e)[i] = t[i]
<1> DEFINE u == Put(t, j, e)
<1>1. u \in [0..(c - 1) -> Entry] /\ u[j] = e /\ \A i \in 0..(c - 1) : i # j => u[i] = t[i]
  BY DEF Slots, Put
<1> HIDE DEF u
<1>2. UsedIn(u, c) = UsedIn(t, c) /\ \A i \in UsedIn(t, c) : u[i] = t[i]
  BY <1>1 DEF UsedIn
<1>3. Holds(f, u, c, m, top)
  BY <1>2 DEF IsTable, Holds
<1>6. NoTwice(u, c, m)
  BY <1>2 DEF IsTable, NoTwice
<1>4. ProbesReach(u, c)
  <2> SUFFICES ASSUME NEW i \in UsedIn(t, c), NEW k \in Passed(t[i].h, c, i)
               PROVE  u[k].cstr # 0
    BY <1>2 DEF ProbesReach
  <2>1. i \in 0..(c - 1) /\ t[i].h \in Nat
    BY EntryType DEF UsedIn, Slots
  <2>2. k \in 0..(c - 1) /\ t[k].cstr # 0
    BY <2>1, PassedOrder DEF IsTable, ProbesReach
  <2> QED
    BY <1>1, <2>2
<1>5. EmptyAreClear(u, c)
  BY <1>1 DEF IsTable, EmptyAreClear
<1> QED
  BY <1>1, <1>2, <1>3, <1>4, <1>5, <1>6 DEF IsTable, Slots, u

\* A table in a memory that has not changed up to its top stays one.
LEMMA SameTable ==
    ASSUME NEW f, NEW t, NEW c, NEW m, NEW top \in Nat, NEW n, NEW newtop \in Nat,
           top <= newtop, Agree(m, n, top), IsTable(f, t, c, m, top)
    PROVE  /\ IsTable(f, t, c, n, newtop)
           /\ \A j \in UsedIn(t, c) : TextIn(n, t[j]) = TextIn(m, t[j])
<1>1. \A j \in UsedIn(t, c) : TextIn(n, t[j]) = TextIn(m, t[j])
  BY DEF TextIn, UsedIn, IsTable, Holds, Agree
<1>2. Holds(f, t, c, n, newtop)
  BY <1>1 DEF IsTable, Holds
<1> QED
  BY <1>1, <1>2 DEF IsTable, NoTwice

\* The empty table.
LEMMA EmptyTable ==
    ASSUME NEW f, NEW c, NEW m, NEW top, NEW t, t = EmptySlots(c)
    PROVE  /\ t \in [0..(c - 1) -> Entry] /\ UsedIn(t, c) = {}
           /\ IsTable(f, t, c, m, top)
<1>1. t \in [0..(c - 1) -> Entry] 
      /\ \A j \in 0..(c - 1) : t[j].cstr = 0 /\ t[j].h = 0
  BY EmptyIsEntry DEF EmptySlots
<1>2. UsedIn(t, c) = {}
  BY <1>1 DEF UsedIn
<1> QED
  BY <1>1, <1>2 DEF IsTable, Holds, ProbesReach, NoTwice, EmptyAreClear

\* A probe for a string that stops at an empty slot shows that no slot has it.
LEMMA ProbeMisses ==
    ASSUME NEW f, NEW c \in Nat \ {0}, NEW t, NEW top, IsTable(f, t, c, mem, top),
           NEW s, NEW h \in Nat, h = f[s],
           NEW j \in 0..(c - 1), IsSlot(t, c, h, s, j), t[j].cstr = 0
    PROVE  \A i \in UsedIn(t, c) : TextIn(mem, t[i]) # s
<1> SUFFICES ASSUME NEW i \in UsedIn(t, c), TextIn(mem, t[i]) = s PROVE FALSE
  OBVIOUS
<1>1. i \in 0..(c - 1) /\ t[i].cstr # 0 /\ t[i].h = h /\ i # j
  BY DEF UsedIn, IsTable, Holds
<1>2. Stops(t[i], h, s)
  BY <1>1, TextIs DEF Stops
<1>3. j \notin Passed(h, c, i)
  BY <1>1 DEF IsTable, ProbesReach
<1>4. i \notin Passed(h, c, j)
  BY <1>2 DEF IsSlot
<1> QED
  BY <1>1, <1>3, <1>4, PassedOrder

-----------------------------------------------------------------------------
(* The actions.                                                             *)

LEMMA UsedIs == Used = UsedIn(entries, cap)
BY DEF Used, UsedIn

LEMMA StateType ==
    ASSUME InternInv
    PROVE  /\ cap \in Nat \ {0} /\ 2 * cap \in Nat \ {0} /\ len \in Nat
           /\ mem \in Seq(Strings) /\ Len(mem) \in Nat
           /\ request.str \in Strings /\ request.res \in Nat /\ request.mark \in Nat
           /\ \A s \in Strings : hash[s] \in Nat /\ hash[s] \in Hashes
           /\ Base \in Nat /\ Base <= Len(mem)
<1>1. TypeOK
  BY DEF InternInv
<1>2. /\ cap \in Nat \ {0} /\ 2 * cap \in Nat \ {0} /\ len \in Nat
      /\ mem \in Seq(Strings) /\ Len(mem) \in Nat
  BY <1>1 DEF TypeOK
<1>3. request.str \in Strings /\ request.res \in Nat /\ request.mark \in Nat
  BY <1>1 DEF TypeOK, Request
<1>4. \A s \in Strings : hash[s] \in Nat /\ hash[s] \in Hashes
  BY <1>1, InternAssumption DEF TypeOK, IsHash
<1>5. Base \in Nat /\ Base <= Len(mem)
  BY <1>2, <1>3 DEF InternInv, RequestInv, Base
<1> QED
  BY <1>2, <1>3, <1>4, <1>5

LEMMA InitInv == Init => InternInv
<1> SUFFICES ASSUME Init PROVE InternInv
  OBVIOUS
<1>1. Len(mem) = 0 /\ Base = 0
  BY DEF Init, Base
<1>2. /\ entries \in [0..(cap - 1) -> Entry] /\ UsedIn(entries, cap) = {}
      /\ IsTable(hash, entries, cap, mem, Base)
  BY EmptyTable DEF Init
<1>3. TypeOK
  BY <1>2, InternAssumption DEF Init, TypeOK, IsHash, Request
<1>4. EntriesInv
  BY <1>1, <1>2, UsedIs DEF EntriesInv
<1>5. RequestInv /\ AnswersInv /\ GrownInv
  BY DEF Init, RequestInv, AnswersInv, GrownInv
<1> QED
  BY <1>3, <1>4, <1>5 DEF InternInv

\* intern and concat_intern, which differ in the copy.
LEMMA BeginInv ==
    ASSUME InternInv, phase = "idle", NEW r \in Request, Begin(r),
           r.mark = Len(mem),
           \/ r.res = 0 /\ mem' = mem
           \/ r.res = Len(mem) + 1 /\ mem' = Append(mem, r.str)
    PROVE  InternInv'
<1>1. /\ request' = r /\ index' = 0 /\ UNCHANGED <<hash, entries, cap, len, answers>>
      /\ \/ phase' = "find"
         \/ phase' = "resize" /\ grown' = EmptySlots(2 * cap)
  BY DEF Begin
<1>2. /\ cap \in Nat \ {0} /\ 2 * cap \in Nat \ {0} /\ mem \in Seq(Strings) /\ Len(mem) \in Nat
      /\ r.str \in Strings
  BY StateType DEF Request
<1>3. Base = Len(mem) /\ Base' = Base /\ phase' # "idle"
  BY <1>1 DEF Base
<1>4. /\ mem' \in Seq(Strings) /\ \A k \in 1..Base : mem'[k] = mem[k]
      /\ r.res = 0 => Len(mem') = Len(mem)
      /\ r.res # 0 => Len(mem') = r.res /\ mem'[r.res] = r.str /\ r.res = Len(mem) + 1
  BY <1>2, <1>3, AppendProperties
<1>5. /\ IsTable(hash, entries, cap, mem', Base)
      /\ \A j \in Used : TextIn(mem', entries[j]) = TextIn(mem, entries[j])
  <2>1. Agree(mem, mem', Base) /\ IsTable(hash, entries, cap, mem, Base)
        /\ Base \in Nat /\ Base <= Base
    BY <1>4, StateType DEF InternInv, EntriesInv, Agree
  <2>2. IsTable(hash, entries, cap, mem', Base)
    BY <2>1, SameTable
  <2>3. \A j \in UsedIn(entries, cap) : TextIn(mem', entries[j]) = TextIn(mem, entries[j])
    BY <2>1, SameTable
  <2> QED
    BY <2>2, <2>3, UsedIs
<1>6. Used' = Used
  BY <1>1 DEF Used
<1>7. phase' = "resize" =>
         /\ grown' \in [0..(2 * cap - 1) -> Entry] /\ UsedIn(grown', 2 * cap) = {}
         /\ IsTable(hash, grown', 2 * cap, mem', Base)
  BY <1>1, EmptyTable
<1>8. TypeOK'
  BY <1>1, <1>2, <1>4, <1>7 DEF InternInv, TypeOK
<1>9. RequestInv'
  BY <1>1, <1>4 DEF RequestInv
<1>10. EntriesInv'
  BY <1>1, <1>3, <1>5, <1>6 DEF InternInv, EntriesInv
<1>11. AnswersInv'
  BY <1>1, <1>5, <1>6 DEF InternInv, AnswersInv
<1>12. GrownInv'
  <2>1. \A i \in Used : ~(i < 0)
    BY <1>2 DEF Used
  <2> QED
    BY <1>1, <1>3, <1>6, <1>7, <2>1 DEF GrownInv
<1> QED
  BY <1>8, <1>9, <1>10, <1>11, <1>12 DEF InternInv

LEMMA InternInvStep ==
    ASSUME InternInv, NEW s \in Strings, Intern(s)
    PROVE  InternInv'
<1> DEFINE r == [str |-> s, res |-> 0, mark |-> Len(mem)]
<1>1. r \in Request /\ r.mark = Len(mem) /\ r.res = 0
  BY StateType DEF Request
<1> QED
  BY <1>1, BeginInv DEF Intern

LEMMA ConcatInternInv ==
    ASSUME InternInv, NEW s \in Strings, ConcatIntern(s)
    PROVE  InternInv'
<1> DEFINE r == [str |-> s, res |-> Len(mem) + 1, mark |-> Len(mem)]
<1>1. r \in Request /\ r.mark = Len(mem) /\ r.res = Len(mem) + 1 /\ r.str = s
  BY StateType DEF Request
<1>2. phase = "idle" /\ Begin(r) /\ mem' = Append(mem, s)
  BY DEF ConcatIntern
<1> HIDE DEF r
<1> QED
  BY <1>1, <1>2, BeginInv

\* The string of an entry not yet moved is not in the new table.
LEMMA MoveEntryInv ==
    ASSUME InternInv, MoveEntry
    PROVE  InternInv'
<1> DEFINE c == 2 * cap
           e == entries[index]
<1>1. PICK j \in 0..(c - 1) :
         /\ IsNewSlot(e, j)
         /\ grown' = [grown EXCEPT ![j] = e]
  BY DEF MoveEntry
<1>2. /\ phase = "resize" /\ index < cap /\ index' = index + 1
      /\ UNCHANGED <<hash, entries, cap, len, mem, phase, request, answers>>
  BY DEF MoveEntry
<1>3. /\ cap \in Nat \ {0} /\ c \in Nat \ {0} /\ Base \in Nat
      /\ index \in 0..(cap - 1) /\ index \in Nat
      /\ entries \in [0..(cap - 1) -> Entry] /\ e \in Entry
      /\ grown \in [0..(c - 1) -> Entry]
  BY <1>2, StateType DEF InternInv, TypeOK
<1>4. /\ IsTable(hash, entries, cap, mem, Base)
      /\ IsTable(hash, grown, c, mem, Base)
      /\ \A k \in UsedIn(grown, c) : \E i \in Used : i < index /\ grown[k] = entries[i]
      /\ \A i \in Used : i < index => \E k \in UsedIn(grown, c) : grown[k] = entries[i]
  BY <1>2 DEF InternInv, EntriesInv, GrownInv
<1>5. IsSlot(grown, c, e.h, TextIn(mem, e), j)
  BY <1>1, TextIs DEF IsNewSlot
<1>6. Used' = Used /\ Base' = Base
  BY <1>2 DEF Used, Base
<1>7. \A i \in Used : i \in 0..(cap - 1) /\ (i < index + 1 <=> i < index \/ i = index)
  BY <1>3 DEF Used
<1> HIDE DEF c, e
<1>8. /\ grown' \in [0..(c - 1) -> Entry]
      /\ IsTable(hash, grown', c, mem, Base)
      /\ \A k \in UsedIn(grown', c) : \E i \in Used : i < index + 1 /\ grown'[k] = entries[i]
      /\ \A i \in Used : i < index + 1 => \E k \in UsedIn(grown', c) : grown'[k] = entries[i]
  <2>1. CASE e.cstr = 0
    <3>1. e.h = 0 /\ TextIn(mem, e) = EMPTY
      BY <1>3, <1>4, <2>1 DEF IsTable, EmptyAreClear, TextIn, e
    <3>2. grown[j].cstr = 0
      <4>1. Stops(grown[j], 0, EMPTY)
        BY <1>5, <3>1 DEF IsSlot
      <4>2. hash[EMPTY] # 0
        BY DEF InternInv, TypeOK, IsHash
      <4> QED
        BY <1>4, <4>1, <4>2, TextIs DEF Stops, IsTable, Holds, UsedIn
    <3>3. /\ grown' \in [0..(c - 1) -> Entry]
          /\ IsTable(hash, grown', c, mem, Base)
          /\ \A i : i \in UsedIn(grown', c) <=> i \in UsedIn(grown, c)
          /\ \A i \in UsedIn(grown, c) : grown'[i] = grown[i]
      <4> DEFINE u == Put(grown, j, e)
      <4>1. c \in Nat \ {0} /\ grown \in Slots(c) /\ e \in Entry
        BY <1>3 DEF Slots
      <4>2. IsTable(hash, grown, c, mem, Base) /\ e.h = 0
        BY <1>4, <3>1
      <4>3. /\ u \in Slots(c)
            /\ IsTable(hash, u, c, mem, Base)
            /\ \A i : i \in UsedIn(u, c) <=> i \in UsedIn(grown, c)
            /\ \A i \in UsedIn(grown, c) : u[i] = grown[i]
        <5>1. u \in Slots(c) /\ IsTable(hash, u, c, mem, Base)
          BY <2>1, <3>2, <4>1, <4>2, PutEmpty
        <5>2. \A i : i \in UsedIn(u, c) <=> i \in UsedIn(grown, c)
          BY <2>1, <3>2, <4>1, <4>2, PutEmpty
        <5>3. \A i \in UsedIn(grown, c) : u[i] = grown[i]
          BY <2>1, <3>2, <4>1, <4>2, PutEmpty
        <5> QED
          BY <5>1, <5>2, <5>3
      <4> QED
        BY <1>1, <4>3 DEF Put, Slots
    <3>4. index \notin Used
      BY <2>1 DEF Used, e
    <3> QED
      BY <1>4, <1>7, <3>3, <3>4
  <2>2. CASE e.cstr # 0
    <3>1. index \in Used /\ index \in UsedIn(entries, cap)
      BY <1>3, <2>2 DEF Used, UsedIn, e
    <3>2. e.cstr \in 1..Base /\ e.h = hash[TextIn(mem, e)] /\ e.h \in Nat
      BY <1>3, <1>4, <3>1, EntryType DEF IsTable, Holds, e
    <3>3. \A k \in UsedIn(grown, c) : grown[k].id # e.id /\ TextIn(mem, grown[k]) # TextIn(mem, e)
      <4> TAKE k \in UsedIn(grown, c)
      <4>1. PICK i \in Used : i < index /\ grown[k] = entries[i]
        BY <1>4
      <4>2. i \in UsedIn(entries, cap) /\ i # index
        BY <1>3, <1>7, <4>1, UsedIs
      <4> QED
        BY <1>4, <3>1, <4>1, <4>2 DEF IsTable, NoTwice, e
    <3>4. grown[j].cstr = 0 /\ \A i \in Passed(e.h, c, j) : grown[i].cstr # 0
      <4>1. Stops(grown[j], e.h, TextIn(mem, e))
        BY <1>5 DEF IsSlot
      <4>2. grown[j].cstr = 0
        BY <3>3, <4>1, TextIs DEF Stops, UsedIn
      <4> QED
        BY <1>5, <4>2 DEF IsSlot, Stops
    <3>5. /\ grown' \in [0..(c - 1) -> Entry]
          /\ IsTable(hash, grown', c, mem, Base)
          /\ \A i : i \in UsedIn(grown', c) <=> i \in UsedIn(grown, c) \/ i = j
          /\ grown'[j] = e /\ \A i \in UsedIn(grown, c) : i # j /\ grown'[i] = grown[i]
      <4> DEFINE u == Put(grown, j, e)
      <4>1. c \in Nat \ {0} /\ grown \in Slots(c) /\ e \in Entry
        BY <1>3 DEF Slots
      <4>2. IsTable(hash, grown, c, mem, Base) /\ EndsAt(grown, c, e.h, j) /\ NewTo(grown, c, mem, e)
        BY <1>4, <3>3, <3>4 DEF EndsAt, NewTo
      <4>3. /\ u \in Slots(c)
            /\ IsTable(hash, u, c, mem, Base)
            /\ \A i : i \in UsedIn(u, c) <=> i \in UsedIn(grown, c) \/ i = j
            /\ u[j] = e /\ \A i \in UsedIn(grown, c) : i # j /\ u[i] = grown[i]
        BY <3>2, <4>1, <4>2, PutEntry
      <4> QED
        BY <1>1, <4>3 DEF Put, Slots
    <3> QED
      BY <1>4, <1>7, <3>1, <3>5 DEF e
  <2> QED
    BY <2>1, <2>2
<1>9. TypeOK'
  BY <1>2, <1>3, <1>8 DEF InternInv, TypeOK, c
<1>10. RequestInv' /\ AnswersInv'
  BY <1>2, <1>6 DEF InternInv, RequestInv, AnswersInv
<1>11. EntriesInv'
  BY <1>2, <1>6 DEF InternInv, EntriesInv
<1>12. GrownInv'
  BY <1>2, <1>6, <1>8 DEF GrownInv, c
<1> QED
  BY <1>9, <1>10, <1>11, <1>12 DEF InternInv

\* The new table holds what the old one held.
LEMMA EndResizeInv ==
    ASSUME InternInv, EndResize
    PROVE  InternInv'
<1>1. /\ phase = "resize" /\ index = cap /\ entries' = grown /\ cap' = 2 * cap
      /\ phase' = "find"
      /\ UNCHANGED <<hash, len, mem, request, index, answers>>
  BY DEF EndResize
<1>2. /\ cap \in Nat \ {0} /\ 2 * cap \in Nat \ {0} /\ grown \in [0..(2 * cap - 1) -> Entry]
      /\ \A i \in Used : i < index
  BY <1>1, StateType DEF InternInv, TypeOK, Used
<1>3. Base' = Base /\ Used' = UsedIn(grown, 2 * cap)
  BY <1>1 DEF Base, Used, UsedIn
<1>4. /\ IsTable(hash, grown, 2 * cap, mem, Base)
      /\ \A j \in Used' : \E i \in Used : entries'[j] = entries[i]
      /\ \A i \in Used : \E j \in Used' : entries'[j] = entries[i]
  BY <1>1, <1>2, <1>3 DEF InternInv, GrownInv
<1>5. TypeOK'
  BY <1>1, <1>2 DEF InternInv, TypeOK
<1>6. RequestInv'
  BY <1>1 DEF InternInv, RequestInv
<1>7. EntriesInv'
  <2>1. \A j \in Used' : entries'[j].id < len
    BY <1>4 DEF InternInv, EntriesInv
  <2>2. \A k \in 1..Base : mem[k] \in Long \/ \E j \in Used' : entries'[j].cstr = k
    BY <1>4 DEF InternInv, EntriesInv
  <2> QED
    BY <1>1, <1>3, <1>4, <2>1, <2>2 DEF EntriesInv
<1>8. AnswersInv'
  <2> SUFFICES ASSUME NEW a \in answers
               PROVE  \E j \in Used' : /\ a.cstr = entries'[j].cstr /\ a.id = entries'[j].id
                                       /\ a.str = TextIn(mem, entries'[j])
    BY <1>1 DEF AnswersInv
  <2>1. PICK i \in Used : a.cstr = entries[i].cstr /\ a.id = entries[i].id
                          /\ a.str = TextIn(mem, entries[i])
    BY DEF InternInv, AnswersInv
  <2> QED
    BY <1>4, <2>1
<1>9. GrownInv'
  BY <1>1 DEF GrownInv
<1> QED
  BY <1>5, <1>6, <1>7, <1>8, <1>9 DEF InternInv

LEMMA FindInv ==
    ASSUME InternInv, Find
    PROVE  InternInv'
<1>1. PICK j \in 0..(cap - 1) :
         /\ IsFound(j) /\ entries[j].cstr # 0
         /\ mem' = GiveBack(mem, entries[j])
         /\ Return(entries[j])
         /\ UNCHANGED <<entries, len>>
  BY DEF Find
<1> DEFINE e == entries[j]
           a == [str |-> request.str, cstr |-> e.cstr, id |-> e.id]
           b == request.mark
<1>2. /\ phase = "find" /\ phase' = "idle"
      /\ answers' = answers \cup {a}
      /\ UNCHANGED <<hash, entries, cap, len, request, index, grown>>
  BY <1>1 DEF IsFound, Return
<1>3. /\ cap \in Nat \ {0} /\ mem \in Seq(Strings) /\ Len(mem) \in Nat
      /\ request.str \in Strings /\ b \in Nat /\ request.res \in Nat
      /\ Base = b /\ b <= Len(mem)
      /\ entries \in [0..(cap - 1) -> Entry] /\ e \in Entry
      /\ j \in Used /\ j \in UsedIn(entries, cap)
  BY <1>1, <1>2, StateType, UsedIs DEF InternInv, TypeOK, Base, Used
<1>4. /\ IsTable(hash, entries, cap, mem, Base)
      /\ IF request.res = 0 THEN Len(mem) = b
         ELSE request.res = b + 1 /\ Len(mem) = b + 1 /\ mem[b + 1] = request.str
  BY <1>2 DEF InternInv, EntriesInv, RequestInv
<1>5. e.cstr \in 1..b
  BY <1>3, <1>4 DEF IsTable, Holds
<1>6. TextIn(mem, e) = request.str
  BY <1>1, TextIs DEF IsFound, IsSlot, Stops
<1>7. /\ mem' \in Seq(Strings) /\ \A k \in 1..b : mem'[k] = mem[k]
      /\ Len(mem') = b \/ (Len(mem') = b + 1 /\ mem'[b + 1] \in Long)
  <2>1. mem' = IF request.res # 0 /\ request.str \notin Long THEN SubSeq(mem, 1, b) ELSE mem
    BY <1>1, <1>3, <1>4, <1>5 DEF GiveBack
  <2>2. \A k \in 1..b : k \in 1..Len(mem) /\ mem[k] \in Strings
    BY <1>3, ElementOfSeq
  <2>3. /\ SubSeq(mem, 1, b) \in Seq(Strings) /\ Len(SubSeq(mem, 1, b)) = b
        /\ \A k \in 1..b : SubSeq(mem, 1, b)[k] = mem[k]
    BY <1>3, <2>2, SubSeqProperties
  <2> QED
    BY <1>3, <1>4, <2>1, <2>3
<1>8. Used' = Used /\ Base' = Len(mem') /\ Base' \in Nat /\ b <= Base'
  BY <1>2, <1>3, <1>7 DEF Used, Base
<1>9. /\ IsTable(hash, entries, cap, mem', Len(mem'))
      /\ \A i \in Used : TextIn(mem', entries[i]) = TextIn(mem, entries[i])
  <2> HIDE DEF b
  <2>1. /\ IsTable(hash, entries, cap, mem, b) /\ Agree(mem, mem', b)
        /\ b \in Nat /\ Len(mem') \in Nat /\ b <= Len(mem')
    BY <1>3, <1>4, <1>7, <1>8 DEF Agree
  <2>2. IsTable(hash, entries, cap, mem', Len(mem'))
    BY <2>1, SameTable
  <2>3. \A i \in UsedIn(entries, cap) : TextIn(mem', entries[i]) = TextIn(mem, entries[i])
    BY <2>1, SameTable
  <2> QED
    BY <2>2, <2>3, UsedIs
<1> HIDE DEF b
<1>10. TypeOK'
  <2>1. a \in Answer
    BY <1>3, EntryType DEF Answer
  <2> QED
    BY <1>2, <1>3, <1>7, <2>1 DEF InternInv, TypeOK
<1>11. RequestInv' /\ GrownInv'
  BY <1>2 DEF RequestInv, GrownInv
<1>12. EntriesInv'
  <2>1. \A k \in 1..b : mem'[k] \in Long \/ \E i \in Used : entries[i].cstr = k
    BY <1>3, <1>7 DEF InternInv, EntriesInv
  <2>2. \A k \in 1..Len(mem') : k \in 1..b \/ mem'[k] \in Long
    BY <1>3, <1>7
  <2> QED
    BY <1>2, <1>8, <1>9, <2>1, <2>2 DEF InternInv, EntriesInv
<1>13. AnswersInv'
  <2> SUFFICES ASSUME NEW x \in answers \cup {a}
               PROVE  \E i \in Used : /\ x.cstr = entries[i].cstr /\ x.id = entries[i].id
                                      /\ x.str = TextIn(mem', entries[i])
    BY <1>2, <1>8 DEF AnswersInv
  <2>1. CASE x \in answers
    BY <1>9, <2>1 DEF InternInv, AnswersInv
  <2>2. CASE x = a
    BY <1>3, <1>6, <1>9, <2>2
  <2> QED
    BY <2>1, <2>2
<1> QED
  BY <1>10, <1>11, <1>12, <1>13 DEF InternInv

\* What Fill does: the string had no entry, and gets the next place and id.
LEMMA FillEffect ==
    ASSUME InternInv, Fill
    PROVE  \E j \in 0..(cap - 1) :
              LET e == [cstr |-> Base + 1, h |-> hash[request.str], id |-> len]
                  a == [str |-> request.str, cstr |-> e.cstr, id |-> e.id]
              IN  /\ phase = "find" /\ phase' = "idle"
                  /\ answers' = answers \cup {a}
                  /\ entries' = Put(entries, j, e) /\ len' = len + 1
                  /\ UNCHANGED <<hash, cap, request, index, grown>>
                  /\ mem' \in Seq(Strings) /\ Len(mem') = Base + 1
                  /\ \A k \in 1..Base : mem'[k] = mem[k]
                  /\ mem'[Base + 1] = request.str
                  /\ entries[j].cstr = 0
                  /\ \A i \in Passed(e.h, cap, j) : entries[i].cstr # 0
                  /\ \A i \in UsedIn(entries, cap) : TextIn(mem, entries[i]) # request.str
<1>1. PICK j \in 0..(cap - 1) :
         /\ IsFound(j) /\ entries[j].cstr = 0
         /\ LET e == [cstr |-> Len(NewText), h |-> hash[request.str], id |-> NewId(j)] IN
              /\ entries' = [entries EXCEPT ![j] = e]
              /\ mem' = GiveBack(NewText, e)
              /\ Return(e)
         /\ len' = len + 1
  BY DEF Fill
<1> DEFINE b == request.mark
           s == request.str
           e == [cstr |-> b + 1, h |-> hash[s], id |-> len]
<1>2. /\ phase = "find" /\ IsSlot(entries, cap, hash[s], s, j)
      /\ cap \in Nat \ {0} /\ mem \in Seq(Strings) /\ Len(mem) \in Nat
      /\ s \in Strings /\ hash[s] \in Nat /\ b \in Nat /\ request.res \in Nat
      /\ Base = b /\ b <= Len(mem)
      /\ entries \in [0..(cap - 1) -> Entry]
  BY <1>1, StateType DEF InternInv, TypeOK, Base, IsFound
<1>3. /\ IsTable(hash, entries, cap, mem, b)
      /\ IF request.res = 0 THEN Len(mem) = b
         ELSE request.res = b + 1 /\ Len(mem) = b + 1 /\ mem[b + 1] = s
  BY <1>2 DEF InternInv, EntriesInv, RequestInv
<1>4. /\ NewText \in Seq(Strings) /\ Len(NewText) = b + 1
      /\ \A k \in 1..b : NewText[k] = mem[k]
      /\ NewText[b + 1] = s
  <2>1. CASE request.res = 0
    <3>1. NewText = Append(mem, s)
      BY <2>1 DEF NewText
    <3> QED
      BY <1>2, <1>3, <2>1, <3>1, AppendProperties
  <2>2. CASE request.res # 0
    <3>1. NewText = mem
      BY <2>2 DEF NewText
    <3> QED
      BY <1>2, <1>3, <2>2, <3>1
  <2> QED
    BY <2>1, <2>2
<1>5. /\ entries' = [entries EXCEPT ![j] = e] /\ mem' = GiveBack(NewText, e) /\ Return(e)
  BY <1>1, <1>4 DEF NewId
<1>6. mem' = NewText
  BY <1>2, <1>3, <1>5 DEF GiveBack
<1>7. \A i \in UsedIn(entries, cap) : TextIn(mem, entries[i]) # s
  BY <1>1, <1>2, <1>3, ProbeMisses
<1>8. \A i \in Passed(e.h, cap, j) : entries[i].cstr # 0
  BY <1>2 DEF IsSlot, Stops
<1> WITNESS j \in 0..(cap - 1)
<1> QED
  BY <1>1, <1>2, <1>4, <1>5, <1>6, <1>7, <1>8 DEF Return, Put

\* Fill adds an entry to the table and an answer for it.
LEMMA FillInv ==
    ASSUME InternInv, Fill
    PROVE  InternInv'
<1> DEFINE top == Base + 1
           s == request.str
           e == [cstr |-> top, h |-> hash[s], id |-> len]
           a == [str |-> s, cstr |-> top, id |-> len]
<1>1. PICK j \in 0..(cap - 1) :
         /\ phase = "find" /\ phase' = "idle"
         /\ answers' = answers \cup {a}
         /\ entries' = Put(entries, j, e) /\ len' = len + 1
         /\ UNCHANGED <<hash, cap, request, index, grown>>
         /\ mem' \in Seq(Strings) /\ Len(mem') = top
         /\ \A k \in 1..Base : mem'[k] = mem[k]
         /\ mem'[top] = s
         /\ entries[j].cstr = 0
         /\ \A i \in Passed(e.h, cap, j) : entries[i].cstr # 0
         /\ \A i \in UsedIn(entries, cap) : TextIn(mem, entries[i]) # s
  BY FillEffect
<1>2. /\ cap \in Nat \ {0} /\ len \in Nat /\ Base \in Nat /\ top \in Nat /\ Base <= top
      /\ s \in Strings /\ hash[s] \in Hashes
      /\ entries \in [0..(cap - 1) -> Entry] /\ entries \in Slots(cap)
  BY StateType DEF InternInv, TypeOK, Slots
<1>3. e \in Entry /\ e.cstr = top /\ e.h = hash[s] /\ e.id = len /\ e.cstr \in 1..top
  BY <1>2 DEF Entry
<1>4. /\ IsTable(hash, entries, cap, mem, Base)
      /\ \A i \in UsedIn(entries, cap) : i \in Used /\ entries[i].id < len
      /\ \A i \in Used : i \in UsedIn(entries, cap)
      /\ \A k \in 1..Base : mem[k] \in Long \/ \E i \in Used : entries[i].cstr = k
  BY UsedIs DEF InternInv, EntriesInv
<1> HIDE DEF e
<1>5. /\ IsTable(hash, entries, cap, mem', top)
      /\ \A i \in UsedIn(entries, cap) : TextIn(mem', entries[i]) = TextIn(mem, entries[i])
  <2> HIDE DEF top
  <2>1. IsTable(hash, entries, cap, mem, Base) /\ Agree(mem, mem', Base)
    BY <1>1, <1>4 DEF Agree
  <2>2. IsTable(hash, entries, cap, mem', top)
    BY <1>2, <2>1, SameTable
  <2>3. \A i \in UsedIn(entries, cap) : TextIn(mem', entries[i]) = TextIn(mem, entries[i])
    BY <1>2, <2>1, SameTable
  <2> QED
    BY <2>2, <2>3
<1>6. TextIn(mem', e) = s
  BY <1>1, <1>2, <1>3 DEF TextIn
<1>7. NewTo(entries, cap, mem', e)
  <2> SUFFICES ASSUME NEW i \in UsedIn(entries, cap)
               PROVE  entries[i].id # e.id /\ TextIn(mem', entries[i]) # TextIn(mem', e)
    BY DEF NewTo
  <2>1. entries[i] \in Entry
    BY <1>2 DEF UsedIn
  <2> QED
    BY <1>1, <1>2, <1>3, <1>4, <1>5, <1>6, <2>1, EntryType
<1>8. EndsAt(entries, cap, e.h, j)
  BY <1>1, <1>3 DEF EndsAt, e
<1>9. e.h = hash[TextIn(mem', e)]
  BY <1>3, <1>6
<1>10. /\ Put(entries, j, e) \in Slots(cap)
       /\ IsTable(hash, Put(entries, j, e), cap, mem', top)
  <2>1. j \in 0..(cap - 1) /\ e \in Entry /\ e.cstr \in 1..top
    BY <1>3
  <2> HIDE DEF top, s
  <2> QED
    BY <1>2, <1>5, <1>7, <1>8, <1>9, <2>1, PutEntry
<1>11. \A i : i \in UsedIn(Put(entries, j, e), cap) <=> i \in UsedIn(entries, cap) \/ i = j
  BY <1>2, <1>3, <1>5, <1>7, <1>8, <1>9, PutEntry
<1>12. /\ Put(entries, j, e)[j] = e
       /\ \A i \in UsedIn(entries, cap) : i # j /\ Put(entries, j, e)[i] = entries[i]
  BY <1>2, <1>3, <1>5, <1>7, <1>8, <1>9, PutEntry
<1>13. entries' = Put(entries, j, e)
  BY <1>1 DEF e
<1>14. Base' = top /\ \A i : i \in Used' <=> i \in Used \/ i = j
  <2>1. \A i : i \in Used' <=> i \in UsedIn(entries', cap)
    BY <1>1 DEF Used, UsedIn
  <2> QED
    BY <1>1, <1>4, <1>11, <1>13, <2>1 DEF Base
<1>15. entries'[j] = e /\ \A i \in Used : entries'[i] = entries[i] /\ i \in UsedIn(entries, cap)
  BY <1>4, <1>12, <1>13
<1> HIDE DEF top
<1>16. TypeOK'
  <2>1. a \in Answer
    BY <1>2 DEF Answer
  <2>2. entries' \in [0..(cap - 1) -> Entry]
    BY <1>10, <1>13 DEF Slots
  <2> QED
    BY <1>1, <1>2, <2>1, <2>2 DEF InternInv, TypeOK
<1>17. RequestInv' /\ GrownInv'
  BY <1>1 DEF RequestInv, GrownInv
<1>18. EntriesInv'
  <2>1. IsTable(hash, entries, cap, mem, Base)'
    BY <1>1, <1>10, <1>13, <1>14
  <2>2. \A i \in Used' : entries'[i].id < len + 1
    <3> TAKE i \in Used'
    <3>1. CASE i = j
      BY <1>2, <1>3, <1>15, <3>1
    <3>2. CASE i \in Used
      <4>1. entries[i] \in Entry /\ entries[i].id < len
        BY <1>2, <1>4, <1>15, <3>2 DEF Used
      <4> QED
        BY <1>2, <1>15, <3>2, <4>1, EntryType
    <3> QED
      BY <1>14, <3>1, <3>2
  <2>3. \A k \in 1..top : mem'[k] \in Long \/ \E i \in Used' : entries'[i].cstr = k
    <3> TAKE k \in 1..top
    <3>1. CASE k = top
      BY <1>3, <1>14, <1>15, <3>1
    <3>2. CASE k \in 1..Base
      BY <1>1, <1>4, <1>14, <1>15, <3>2
    <3> QED
      BY <1>2, <3>1, <3>2 DEF top
  <2> QED
    BY <1>1, <1>14, <2>1, <2>2, <2>3 DEF EntriesInv
<1>19. AnswersInv'
  <2> SUFFICES ASSUME NEW x \in answers \cup {a}
               PROVE  \E i \in Used' : /\ x.cstr = entries'[i].cstr /\ x.id = entries'[i].id
                                       /\ x.str = TextIn(mem', entries'[i])
    BY <1>1 DEF AnswersInv
  <2>1. CASE x \in answers
    <3>1. PICK i \in Used : /\ x.cstr = entries[i].cstr /\ x.id = entries[i].id
                            /\ x.str = TextIn(mem, entries[i])
      BY <2>1 DEF InternInv, AnswersInv
    <3> QED
      BY <1>5, <1>14, <1>15, <3>1
  <2>2. CASE x = a
    BY <1>3, <1>6, <1>14, <1>15, <2>2
  <2> QED
    BY <2>1, <2>2
<1> QED
  BY <1>16, <1>17, <1>18, <1>19 DEF InternInv

LEMMA StutterInv ==
    ASSUME InternInv, UNCHANGED vars
    PROVE  InternInv'
<1> USE DEF vars
<1>1. TypeOK' /\ RequestInv'
  BY DEF InternInv, TypeOK, RequestInv
<1>2. Used' = Used /\ Base' = Base
  BY DEF Used, Base
<1>3. EntriesInv'
  BY <1>2 DEF InternInv, EntriesInv
<1>4. AnswersInv'
  BY <1>2 DEF InternInv, AnswersInv
<1>5. GrownInv'
  BY <1>2 DEF InternInv, GrownInv
<1> QED
  BY <1>1, <1>3, <1>4, <1>5 DEF InternInv

-----------------------------------------------------------------------------
(* The theorems.                                                            *)

THEOREM Inductive == Spec => []InternInv
<1>1. InternInv /\ [Next]_vars => InternInv'
  BY InternInvStep, ConcatInternInv, MoveEntryInv, EndResizeInv, FindInv, FillInv, StutterInv
     DEF Next, Work
<1> QED
  BY InitInv, <1>1, PTL DEF Spec

\* Every variable stays in its set.
THEOREM TypeCorrect == Spec => []TypeOK
<1>1. InternInv => TypeOK
  BY DEF InternInv
<1> QED
  BY Inductive, <1>1, PTL

\* intern_find_slot (da_intern.c:70-77) finds every string that the table has,
\* whatever the hash function, and however often the table has grown.
THEOREM StringsAreFound == Spec => []Reachable
<1>1. InternInv => Reachable
  <2> SUFFICES ASSUME InternInv, NEW j \in Used
               PROVE  /\ entries[j].h = hash[Text(entries[j])]
                      /\ \A i \in Passed(entries[j].h, cap, j) : entries[i].cstr # 0
                      /\ \A i \in Used : Text(entries[i]) = Text(entries[j]) => i = j
    BY DEF Reachable
  <2>1. IsTable(hash, entries, cap, mem, Base) /\ \A i \in Used : i \in UsedIn(entries, cap)
    BY UsedIs DEF InternInv, EntriesInv
  <2>2. Holds(hash, entries, cap, mem, Base)
        /\ ProbesReach(entries, cap) /\ NoTwice(entries, cap, mem)
    BY <2>1 DEF IsTable
  <2>3. entries[j].h = hash[Text(entries[j])]
    BY <2>1, <2>2, TextIs DEF Holds
  <2>4. \A i \in Passed(entries[j].h, cap, j) : entries[i].cstr # 0
    BY <2>1, <2>2 DEF ProbesReach
  <2>5. \A i \in Used : Text(entries[i]) = Text(entries[j]) => i = j
    BY <2>1, <2>2, TextIs DEF NoTwice
  <2> QED
    BY <2>3, <2>4, <2>5
<1> QED
  BY Inductive, <1>1, PTL

\* An interned_str stays valid, and interned_eq, which compares only ids, says
\* whether two strings are equal (da_intern.c, da_intern.h).
THEOREM AnswersAreValid == Spec => []AnswersStayValid
<1>1. InternInv => AnswersStayValid
  <2> SUFFICES ASSUME InternInv, NEW a \in answers
               PROVE  /\ a.cstr \in 1..Len(mem) /\ mem[a.cstr] = a.str
                      /\ \A b \in answers : a.id = b.id <=> a.str = b.str
    BY DEF AnswersStayValid
  <2>1. /\ \A x \in answers : \E j \in UsedIn(entries, cap) :
              x.cstr = entries[j].cstr /\ x.id = entries[j].id /\ x.str = TextIn(mem, entries[j])
        /\ Holds(hash, entries, cap, mem, Base) /\ NoTwice(entries, cap, mem)
        /\ Base \in Nat /\ Base <= Len(mem) /\ Len(mem) \in Nat
    BY UsedIs, StateType DEF InternInv, EntriesInv, AnswersInv, IsTable
  <2>2. PICK j \in UsedIn(entries, cap) :
           a.cstr = entries[j].cstr /\ a.id = entries[j].id /\ a.str = TextIn(mem, entries[j])
    BY <2>1
  <2>3. a.cstr \in 1..Base /\ a.cstr # 0
    BY <2>1, <2>2 DEF Holds
  <2>4. a.cstr \in 1..Len(mem) /\ mem[a.cstr] = a.str
    BY <2>1, <2>2, <2>3 DEF TextIn
  <2>5. ASSUME NEW b \in answers PROVE a.id = b.id <=> a.str = b.str
    <3>1. PICK i \in UsedIn(entries, cap) :
             b.id = entries[i].id /\ b.str = TextIn(mem, entries[i])
      BY <2>1
    <3> QED
      BY <2>1, <2>2, <3>1 DEF NoTwice
  <2> QED
    BY <2>4, <2>5
<1> QED
  BY Inductive, <1>1, PTL

\* concat_intern gives back its copy of a string that the table has, unless the
\* copy is a block of its own, which arena_mark_reset does not free (da_intern.c:139).
THEOREM MemoryIsUsed == Spec => []NothingLeaks
<1>1. InternInv => NothingLeaks
  BY DEF InternInv, EntriesInv, NothingLeaks, Base
<1> QED
  BY Inductive, <1>1, PTL

-----------------------------------------------------------------------------
(* The refinement of Interner.                                              *)

\* The ids of the table's strings, which are the ids of Interner.
Ids == {<<Text(entries[j]), entries[j].id>> : j \in Used}

\* A step that keeps the entries and their strings keeps the ids.
LEMMA SameIds ==
    ASSUME Used' = Used, UNCHANGED entries, \A j \in Used : Text(entries[j])' = Text(entries[j])
    PROVE  UNCHANGED Ids
BY DEF Ids

\* intern and concat_intern add at most a copy to the memory.
LEMMA BeginKeepsIds ==
    ASSUME InternInv, phase = "idle", UNCHANGED <<entries, cap>>,
           \/ mem' = mem
           \/ \E s \in Strings : mem' = Append(mem, s)
    PROVE  UNCHANGED Ids
<1>1. mem \in Seq(Strings) /\ Base = Len(mem) /\ Base \in Nat
  BY StateType DEF Base
<1>2. \A k \in 1..Base : mem'[k] = mem[k]
  BY <1>1, AppendProperties
<1>3. \A j \in Used : entries[j].cstr \in 1..Base
  BY UsedIs DEF InternInv, EntriesInv, IsTable, Holds
<1>4. \A j \in Used : Text(entries[j])' = Text(entries[j])
  BY <1>2, <1>3 DEF Text
<1>5. Used' = Used
  BY DEF Used
<1> QED
  BY <1>4, <1>5, SameIds

\* A step of resize_interntable copies the table, with the same ids.
LEMMA ResizeKeepsIds ==
    ASSUME InternInv, MoveEntry \/ EndResize
    PROVE  UNCHANGED <<Ids, len>>
<1>1. CASE MoveEntry
  <2>1. UNCHANGED <<entries, cap, mem, len>>
    BY <1>1 DEF MoveEntry
  <2>2. Used' = Used /\ \A j \in Used : Text(entries[j])' = Text(entries[j])
    BY <2>1 DEF Used, Text
  <2> QED
    BY <2>1, <2>2, SameIds
<1>2. CASE EndResize
  <2>1. /\ phase = "resize" /\ index = cap /\ entries' = grown /\ cap' = 2 * cap
        /\ UNCHANGED <<mem, len>>
    BY <1>2 DEF EndResize
  <2>2. Used' = UsedIn(grown, 2 * cap) /\ \A i \in Used : i < index
    BY <2>1, StateType DEF Used, UsedIn
  <2>3. /\ \A j \in Used' : \E i \in Used : entries'[j] = entries[i]
        /\ \A i \in Used : \E j \in Used' : entries'[j] = entries[i]
    BY <2>1, <2>2 DEF InternInv, GrownInv
  <2>4. Ids' = {<<Text(entries'[j]), entries'[j].id>> : j \in Used'}
    BY <2>1 DEF Ids, Text
  <2>5. \A x : x \in Ids' <=> x \in Ids
    BY <2>3, <2>4 DEF Ids
  <2> QED
    BY <2>1, <2>5
<1> QED
  BY <1>1, <1>2

\* A call that finds its string gives back at most its own copy.
LEMMA FindKeepsIds ==
    ASSUME InternInv, Find
    PROVE  UNCHANGED <<Ids, len>>
<1>1. PICK k \in 0..(cap - 1) :
         mem' = GiveBack(mem, entries[k]) /\ phase = "find" /\ UNCHANGED <<entries, cap, len>>
  BY DEF Find, Return, IsFound
<1>2. mem \in Seq(Strings) /\ Base = request.mark /\ Base \in Nat /\ Base <= Len(mem)
  BY <1>1, StateType DEF Base
<1>3. \A i \in 1..Base : mem'[i] = mem[i]
  <2>1. \A i \in 1..Base : i \in 1..Len(mem) /\ mem[i] \in Strings
    BY <1>2, ElementOfSeq
  <2>2. \A i \in 1..Base : SubSeq(mem, 1, Base)[i] = mem[i]
    BY <1>2, <2>1, SubSeqProperties
  <2> QED
    BY <1>1, <1>2, <2>2 DEF GiveBack
<1>4. \A j \in Used : entries[j].cstr \in 1..Base
  BY UsedIs DEF InternInv, EntriesInv, IsTable, Holds
<1>5. \A j \in Used : Text(entries[j])' = Text(entries[j])
  BY <1>1, <1>3, <1>4 DEF Text
<1>6. Used' = Used
  BY <1>1 DEF Used
<1> QED
  BY <1>1, <1>5, <1>6, SameIds

\* A call that does not find its string gives it the next id.
LEMMA FillEnters ==
    ASSUME InternInv, Fill
    PROVE  /\ request.str \in Strings /\ len' = len + 1
           /\ \A id : <<request.str, id>> \notin Ids
           /\ Ids' = Ids \cup {<<request.str, len>>}
<1> DEFINE s == request.str
           e == [cstr |-> Base + 1, h |-> hash[s], id |-> len]
<1>1. PICK j \in 0..(cap - 1) :
         /\ entries' = Put(entries, j, e) /\ len' = len + 1 /\ cap' = cap
         /\ \A k \in 1..Base : mem'[k] = mem[k]
         /\ mem'[Base + 1] = s
         /\ entries[j].cstr = 0
         /\ \A i \in UsedIn(entries, cap) : TextIn(mem, entries[i]) # s
  BY FillEffect
<1>2. Base \in Nat /\ s \in Strings /\ entries \in [0..(cap - 1) -> Entry]
  BY StateType DEF InternInv, TypeOK
<1>3. \A i \in Used : entries[i].cstr \in 1..Base /\ i # j /\ i \in 0..(cap - 1)
  BY <1>1, UsedIs DEF InternInv, EntriesInv, IsTable, Holds, Used
<1>4. /\ e.cstr = Base + 1 /\ e.id = len
      /\ entries'[j] = e /\ \A i \in 0..(cap - 1) : i # j => entries'[i] = entries[i]
  BY <1>1, <1>2 DEF Put
<1> HIDE DEF e, s
<1>5. \A i : i \in Used' <=> i \in Used \/ i = j
  BY <1>1, <1>2, <1>4 DEF Used
<1>6. Text(entries[j])' = s
  BY <1>1, <1>2, <1>4 DEF Text
<1>7. \A i \in Used : Text(entries[i])' = Text(entries[i]) /\ entries'[i].id = entries[i].id
  BY <1>1, <1>3, <1>4 DEF Text
<1>8. \A id : <<s, id>> \notin Ids
  BY <1>1, TextIs, UsedIs DEF Ids
<1>9. \A x : x \in Ids' <=> x \in Ids \/ x = <<s, len>>
  BY <1>4, <1>5, <1>6, <1>7 DEF Ids
<1> QED
  BY <1>1, <1>2, <1>8, <1>9 DEF s

\* The table is an Interner: intern and concat_intern give a new string the next
\* id and a known one the id it has, and neither growing nor giving back memory
\* changes an id (da_intern.c).
THEOREM Refinement == Spec => ImplementsInterner
<1>1. Init => Abstract!Init
  <2> SUFFICES ASSUME Init PROVE Abstract!Init
    OBVIOUS
  <2>1. Used = {}
    BY EmptyTable, UsedIs DEF Init
  <2> QED
    BY <2>1 DEF Init, Abstract!Init
<1>2. InternInv /\ [Next]_vars => [Abstract!Next]_(Abstract!vars)
  <2> SUFFICES ASSUME InternInv, [Next]_vars
               PROVE  (Fill /\ Abstract!Next) \/ UNCHANGED <<Ids, len>>
    BY DEF Abstract!vars, Ids
  <2>1. ASSUME NEW s \in Strings, Intern(s) \/ ConcatIntern(s) PROVE UNCHANGED <<Ids, len>>
    BY <2>1, BeginKeepsIds DEF Intern, ConcatIntern, Begin
  <2>2. CASE Fill
    <3>1. PICK s \in Strings :
             /\ len' = len + 1 /\ Ids' = Ids \cup {<<s, len>>}
             /\ \A id : <<s, id>> \notin Ids
      BY <2>2, FillEnters
    <3>2. Abstract!Enter(s)
      BY <3>1 DEF Abstract!Enter, Abstract!Known, Ids
    <3> QED
      BY <2>2, <3>2 DEF Abstract!Next
  <2>3. CASE UNCHANGED vars
    <3>1. Used' = Used /\ \A j \in Used : Text(entries[j])' = Text(entries[j])
      BY <2>3 DEF vars, Used, Text
    <3> QED
      BY <2>3, <3>1, SameIds DEF vars
  <2> QED
    BY <2>1, <2>2, <2>3, ResizeKeepsIds, FindKeepsIds DEF Next, Work
<1> QED
  BY Inductive, <1>1, <1>2, PTL DEF Spec, ImplementsInterner, Abstract!Spec
=============================================================================
