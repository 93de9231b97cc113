------------------------------ MODULE Lifecycle ------------------------------
(***************************************************************************)
(* A compiler from new_compiler to free_compiler (compiler.c): what it     *)
(* owns, what several calls of compiler_preprocess leave to each other,    *)
(* and what an error, which is a longjmp to the client, leaves behind.     *)
(* What the two stages do with characters and tokens is in Preprocess1 and *)
(* MacroExpansion; here are the steps in which they allocate, free, keep a *)
(* pointer, or raise an error.                                             *)
(*                                                                         *)
(* An object is a string or the memory of a vector, numbered in the order  *)
(* of allocation; 0 is NULL.  A view is a pointer into a source that some  *)
(* token holds.  Directives stand outside expansions, and expansions are   *)
(* those of object-like macros.  The call in compiler.c:84 takes the       *)
(* PPCtx that new_pp2 expects.                                             *)
(***************************************************************************)
EXTENDS InternMap, Sequences, SequencesExt

CONSTANTS
    Files,       \* the files in include_dirs
    MaxObjects   \* bounds the objects that are allocated

ASSUME LifecycleAssumption == MaxObjects \in Nat

VARIABLES
    ndebug,          \* the build has no assertions; that of run.sh has
    phase,           \* the stage that runs, "idle" between calls, or how it stopped
    heap, fresh,     \* the live objects, and how many there have been
    include_dirs, source_stack,    \* CompilerOpt
    included_files, macro_stack, bufdef,    \* PPCtx, with data and bitset
    max_used,        \* strings.max_used
    pooled,          \* the memory of its buffers, for paths too long for them
    depth,           \* the files that resolve_pp1 is inside
    streams,         \* the activations of resolve_pp2, the running one last
    results,         \* the token arrays that the client has
    history          \* for the properties only

opt == <<include_dirs, source_stack>>
defs == <<bufdef, data, bitset>>
strings == <<max_used, pooled>>
memory == <<heap, fresh>>
vars == <<ndebug, phase, memory, opt, included_files, macro_stack, defs, strings,
          depth, streams, results, history>>

MAX_BUFFERS == 4

Objects == 1..MaxObjects
OrNull(S) == S \cup {0}

MacroDef == [fn : BOOLEAN, args : OrNull(Objects), body : OrNull(Objects), views : SUBSET Objects]
NoDef == [fn |-> FALSE, args |-> 0, body |-> 0, views |-> {}]

\* A path in included_files: its file, and its memory if that is not in a buffer.
Path == [file : Files, mem : OrNull(Objects)]

\* An activation's stream, the views of its tokens, and those of what it reads.
Stream == [obj : OrNull(Objects), views : SUBSET Objects, from : SUBSET Objects]
NewStream(from) == [obj |-> 0, views |-> {}, from |-> from]

Left(s) == SubSeq(s, 1, Len(s) - 1)

\* What a call must leave as it found it.
Kept == [included |-> included_files, stack |-> macro_stack, sources |-> Len(source_stack), def |-> bufdef]
NothingKept == [included |-> << >>, stack |-> << >>, sources |-> 0, def |-> NoDef]

Init ==
    /\ ndebug \in BOOLEAN /\ phase = "idle" /\ heap = {} /\ fresh = 0
    /\ include_dirs = << >> /\ source_stack = << >>
    /\ included_files = << >> /\ macro_stack = << >> /\ bufdef = NoDef /\ imap_init
    /\ max_used = 0 /\ pooled = {} /\ depth = 0 /\ streams = << >> /\ results = {}
    /\ history = [start |-> Kept, returned |-> FALSE, lost |-> {}, inside |-> FALSE,
                  texts |-> {}, redone |-> {}]

-----------------------------------------------------------------------------
(* Memory and errors.                                                       *)

\* The objects in new are allocated, in order, and those in old are freed.
Allocate(new, old) ==
    /\ new = (fresh + 1)..(fresh + Cardinality(new)) /\ new \subseteq Objects
    /\ fresh' = fresh + Cardinality(new)
    /\ heap' = (heap \cup new) \ old

Release(old) == Allocate({}, old)

\* The memory of a vector that elements are pushed to.
Pushed(obj) == IF obj = 0 THEN fresh + 1 ELSE obj
New(obj) == {obj} \ (heap \cup {0})

\* bp_get, n times; see Preprocess1.
Got(n) ==
    IF max_used + n <= MAX_BUFFERS THEN "ok"
    ELSE IF ~ndebug THEN "aborted" ELSE IF max_used + n <= MAX_BUFFERS + 1 THEN "ok" ELSE "overrun"

Stop(reason) ==
    /\ phase' = reason
    /\ UNCHANGED <<ndebug, memory, opt, included_files, macro_stack, defs, strings,
                   depth, streams, results, history>>

Owned(ss) == {ss[k].obj : k \in 1..Len(ss)} \ {0}

\* initiate_error: back in the client, with nothing unwound.
initiate_error ==
    /\ phase' = "idle" /\ depth' = 0 /\ streams' = << >>
    /\ history' = [history EXCEPT !.start = NothingKept, !.lost = @ \cup Owned(streams),
                                  !.inside = @ \/ depth > 0]
    /\ UNCHANGED <<ndebug, opt, included_files, macro_stack, data, bitset, pooled, results>>

-----------------------------------------------------------------------------
(* The client.                                                              *)

\* Clients give their directories first, as main.c does; here one at most.
opt_include_dir ==
    /\ phase = "idle" /\ fresh = 0
    /\ Allocate({fresh + 1}, {}) /\ include_dirs' = Append(include_dirs, fresh + 1)
    /\ UNCHANGED <<ndebug, phase, source_stack, included_files, macro_stack, defs, strings,
                   depth, streams, results, history>>

opt_add_source ==
    /\ phase = "idle"
    /\ Allocate({fresh + 1}, {}) /\ source_stack' = Append(source_stack, fresh + 1)
    /\ history' = [history EXCEPT !.start = NothingKept, !.returned = FALSE]
    /\ UNCHANGED <<ndebug, phase, include_dirs, included_files, macro_stack, defs, strings,
                   depth, streams, results>>

\* compiler_preprocess is called; there is a source.
compiler_preprocess ==
    /\ phase = "idle" /\ source_stack # << >>
    /\ IF Got(1) # "ok" THEN Stop(Got(1))
       ELSE /\ phase' = "pp1" /\ max_used' = max_used + 1
            /\ history' = [history EXCEPT !.start = Kept, !.returned = FALSE]
            /\ UNCHANGED <<ndebug, memory, opt, included_files, macro_stack, defs, pooled,
                           depth, streams, results>>

\* kv_destroy of a result
FreeResult ==
    /\ phase = "idle"
    /\ \E r \in results : results' = results \ {r} /\ Release({r.obj})
    /\ UNCHANGED <<ndebug, phase, opt, included_files, macro_stack, defs, strings,
                   depth, streams, history>>

\* free_opt frees directories and sources, and free_ppctx the paths, though they
\* were borrowed from the buffers, and the definitions, but not bufdef.
free_compiler ==
    /\ phase = "idle"
    /\ IF \E k \in 1..Len(included_files) : included_files[k].mem = 0 THEN Stop("bad free")
       ELSE /\ phase' = "freed"
            /\ Release(ToSet(include_dirs) \cup ToSet(source_stack)
                       \cup {p.mem : p \in ToSet(included_files)}
                       \cup UNION {{d.args, d.body} : d \in Destroyed})
            /\ include_dirs' = << >> /\ source_stack' = << >>
            /\ included_files' = << >> /\ macro_stack' = << >> /\ imap_destroy
            /\ bufdef' = NoDef /\ max_used' = 0 /\ pooled' = {}
            /\ history' = [history EXCEPT !.lost = @ \cup ({bufdef.args} \cup pooled)]
            /\ UNCHANGED <<ndebug, depth, streams, results>>

-----------------------------------------------------------------------------
(* resolve_pp1.  Without assertions included files are read as empty; with  *)
(* them no call of resolve_pp1 gets past the end of its source.             *)

Scanning == phase = "pp1" /\ (depth > 0 => ~ndebug)

\* A directive, a comment or what follows a file name is wrong.
Pp1Error == Scanning /\ initiate_error /\ UNCHANGED <<bufdef, memory, max_used>>

IsCyclic(f) == \E k \in 1..Len(included_files) : included_files[k].file = f

\* open_included_file finds no file, and bp_save fails, or a cycle.
IncludeError ==
    /\ Scanning
    /\ IF Got(1) # "ok" THEN Stop(Got(1))
       ELSE \/ ~ndebug /\ Stop("aborted")
            \/ /\ ndebug \/ (include_dirs # << >> /\ \E f \in Files : IsCyclic(f))
               /\ initiate_error /\ max_used' = max_used + 1 /\ UNCHANGED <<bufdef, memory>>

\* The path is built in a buffer, which has room for a short one.
Include ==
    /\ Scanning /\ include_dirs # << >> /\ Got(1) = "ok"
    /\ \E f \in Files, mem \in {0, fresh + 2} :
          /\ ~IsCyclic(f)
          /\ Allocate({fresh + 1, mem} \ {0}, {})
          /\ included_files' = Append(included_files, [file |-> f, mem |-> mem])
          /\ pooled' = pooled \cup ({mem} \ {0})
    /\ source_stack' = Append(source_stack, fresh + 1)
    /\ IF Got(2) # "ok" THEN phase' = Got(2) /\ max_used' = max_used + 1 /\ UNCHANGED depth
       ELSE max_used' = max_used + 2 /\ depth' = depth + 1 /\ UNCHANGED phase
    /\ UNCHANGED <<ndebug, include_dirs, macro_stack, defs, streams, results, history>>

\* The included file has been scanned, and its contents are freed.
ReturnToIncluder ==
    /\ phase = "pp1" /\ depth > 0 /\ ndebug
    /\ included_files' = Left(included_files) /\ source_stack' = Left(source_stack)
    /\ Release({Last(source_stack)}) /\ depth' = depth - 1
    /\ UNCHANGED <<ndebug, phase, include_dirs, macro_stack, defs, strings,
                   streams, results, history>>

EndPp1Aborts == phase = "pp1" /\ ~ndebug /\ Stop("aborted")

\* The text takes the place of the source it was made from (compiler.c:79-81).
EndPp1 ==
    /\ phase = "pp1" /\ ndebug /\ depth = 0
    /\ Allocate({fresh + 1}, {Last(source_stack)})
    /\ source_stack' = Append(Left(source_stack), fresh + 1)
    /\ phase' = "pp2" /\ streams' = <<NewStream({fresh + 1})>>
    /\ history' = [history EXCEPT !.texts = @ \cup {fresh + 1},
                                  !.redone = @ \cup (history.texts \cap {Last(source_stack)})]
    /\ UNCHANGED <<ndebug, include_dirs, included_files, macro_stack, defs, strings, depth, results>>

-----------------------------------------------------------------------------
(* resolve_pp2.                                                             *)

\* throw_error, wherever it does not touch bufdef
Pp2Error == phase = "pp2" /\ initiate_error /\ UNCHANGED <<bufdef, memory, max_used>>

Running == streams[Len(streams)]
Outermost == phase = "pp2" /\ Len(streams) = 1

\* An identifier that is not expanded (its look-up may grow the bits) or another
\* token is pushed to the stream.
Unexpanded(id) == Has(id) => id \in ToSet(macro_stack) \/ Get(id).fn
Push ==
    /\ phase = "pp2"
    /\ bitset' \in {bitset} \cup {WithBit(id) : id \in {i \in Ids : Unexpanded(i)}}
    /\ LET obj == Pushed(Running.obj) IN
         /\ Allocate(New(obj), {})
         /\ streams' = Append(Left(streams), [Running EXCEPT !.obj = obj, !.views = @ \cup Running.from])
    /\ UNCHANGED <<ndebug, phase, opt, included_files, macro_stack, bufdef, data, strings,
                   depth, results, history>>

\* macro_use_objlike
BeginUse ==
    /\ phase = "pp2"
    /\ \E id \in Ids :
          /\ Has(id) /\ ~Unexpanded(id)
          /\ macro_stack' = Append(macro_stack, id)
          /\ streams' = Append(streams, NewStream(Get(id).views))
    /\ UNCHANGED <<ndebug, phase, memory, opt, included_files, defs, strings, depth, results, history>>

\* A seeded fault: the pop is forgotten.
FaultyPopped == macro_stack

\* kv_pop(macro_stack)
Popped == Left(macro_stack)

EndUse ==
    /\ phase = "pp2" /\ Len(streams) > 1
    /\ macro_stack' = Popped
    /\ LET outer == streams[Len(streams) - 1]
           obj == IF Running.obj = 0 THEN outer.obj ELSE Pushed(outer.obj)
       IN /\ Allocate(New(obj), {Running.obj})
          /\ streams' = Append(Left(Left(streams)),
                               [outer EXCEPT !.obj = obj, !.views = @ \cup Running.views])
    /\ UNCHANGED <<ndebug, phase, opt, included_files, defs, strings, depth, results, history>>

\* macro_def_parse_args fails after no or some parameters; bufdef keeps what it got.
DefineError ==
    /\ Outermost
    /\ \E args \in {bufdef.args, Pushed(bufdef.args)} :
          /\ bufdef' = [bufdef EXCEPT !.fn = TRUE, !.args = args]
          /\ Allocate(New(args), {})
    /\ initiate_error /\ UNCHANGED max_used

\* A seeded fault: the old definition is not freed.
FaultyOldDef(id) == {}

\* What macro_def frees of the definition that id has.
OldDef(id) == IF Has(id) THEN {Get(id).args, Get(id).body} ELSE {}

\* macro_def; bufdef is where the definition is built, and is then cleared.  If
\* there is a parameter list, it has a parameter, and every macro has a body.
macro_def ==
    /\ Outermost
    /\ \E id \in Ids, fn \in BOOLEAN :
          LET args == IF fn THEN Pushed(bufdef.args) ELSE bufdef.args
              body == fresh + 1 + Cardinality(New(args))
          IN /\ Allocate(New(args) \cup {body}, OldDef(id))
             /\ imap_set([fn |-> fn \/ bufdef.fn, args |-> args, body |-> body,
                          views |-> Running.from], id)
    /\ bufdef' = NoDef
    /\ UNCHANGED <<ndebug, phase, opt, included_files, macro_stack, strings, depth, streams,
                   results, history>>

\* What the client gets.
Result == [obj |-> Running.obj, views |-> Running.views]

\* A seeded fault: the text is popped and freed with the call.
FaultyEndPp2 ==
    /\ Outermost
    /\ phase' = "idle" /\ streams' = << >> /\ results' = results \cup {Result}
    /\ history' = [history EXCEPT !.returned = TRUE]
    /\ source_stack' = Left(source_stack) /\ Release({Last(source_stack)})
    /\ UNCHANGED <<ndebug, include_dirs, included_files, macro_stack, defs, strings, depth>>

\* The stream is the client's.
EndPp2 ==
    /\ Outermost
    /\ phase' = "idle" /\ streams' = << >> /\ results' = results \cup {Result}
    /\ history' = [history EXCEPT !.returned = TRUE]
    /\ UNCHANGED <<ndebug, memory, opt, included_files, macro_stack, defs, strings, depth>>

-----------------------------------------------------------------------------
Next ==
    \/ opt_include_dir \/ opt_add_source \/ compiler_preprocess \/ FreeResult \/ free_compiler
    \/ Pp1Error \/ IncludeError \/ Include \/ ReturnToIncluder \/ EndPp1Aborts \/ EndPp1
    \/ Pp2Error \/ Push \/ BeginUse \/ EndUse \/ DefineError \/ macro_def \/ EndPp2

Spec == Init /\ [][Next]_vars

-----------------------------------------------------------------------------
(* Properties.                                                              *)

\* Every variable stays in its set.
TypeOK ==
    /\ ndebug \in BOOLEAN
    /\ phase \in {"idle", "pp1", "pp2", "freed", "bad free", "aborted", "overrun"}
    /\ fresh \in 0..MaxObjects /\ heap \subseteq 1..fresh
    /\ include_dirs \in Seq(Objects) /\ source_stack \in Seq(Objects)
    /\ included_files \in Seq(Path) /\ macro_stack \in Seq(Ids)
    /\ bufdef \in MacroDef /\ InternMapTypeOK(MacroDef)
    /\ max_used \in 0..(MAX_BUFFERS + 1) /\ pooled \subseteq Objects /\ depth \in Nat
    /\ streams \in Seq(Stream) /\ results \subseteq [obj : OrNull(Objects), views : SUBSET Objects]

\* The map of macros, which look-ups grow too, is a map.
Abstract == INSTANCE Map WITH map <- Abstraction, Values <- MacroDef

ImplementsMap == Abstract!Spec

Defined == {i \in Ids : Has(i)}

\* Who has to free an object: a place and the object.
Holdings ==
    {h \in {<<"dir", k, include_dirs[k]>> : k \in 1..Len(include_dirs)}
           \cup {<<"source", k, source_stack[k]>> : k \in 1..Len(source_stack)}
           \cup {<<"args", i, Get(i).args>> : i \in Defined}
           \cup {<<"body", i, Get(i).body>> : i \in Defined}
           \cup {<<"bufdef", 0, bufdef.args>>}
           \cup {<<"stream", k, streams[k].obj>> : k \in 1..Len(streams)}
           \cup {<<"result", r.obj, r.obj>> : r \in results}
           \cup {<<"pool", o, o>> : o \in pooled}
       : h[3] # 0}

Held == {h[3] : h \in Holdings}

\* Every pointer that will be freed is to a live object and is the only one to it,
\* and every live object has one, but for the streams that an error has left
\* (those of preprocess_2.c:43, and of each activation above) and, once all is freed, the buffers' own
\* memory and bufdef's.  free_compiler frees memory that was not allocated, a path
\* inside a buffer, only after an error inside an included file.
OwnedOnce ==
    /\ Held \subseteq heap
    /\ \A g, h \in Holdings : g[3] = h[3] => g = h
    /\ heap \subseteq Held \cup history.lost
    /\ phase \in {"idle", "bad free"} /\ included_files # << >> => history.inside

\* The tokens of results and of macro bodies point into live sources as long as the
\* compiler lives, whatever was preprocessed since, unless the client had the text
\* of the first stage preprocessed again instead of adding a source.
ViewsAreLive ==
    phase # "freed" =>
       UNION ({r.views : r \in results} \cup {Get(i).views : i \in Defined})
          \subseteq heap \cup history.redone

\* A call that returns a result leaves included_files, macro_stack and the number
\* of sources as it found them, and bufdef too, if it did not clear it: only an
\* error leaves something to later calls.
BalancedCalls ==
    phase = "idle" /\ history.returned =>
       \/ Kept = history.start
       \/ Kept = [history.start EXCEPT !.def = NoDef]
=============================================================================
