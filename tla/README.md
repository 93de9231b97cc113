# chucci, modelled

chucci is a C preprocessor and the beginning of a C compiler: a library,
`src/libchucci`, and a small command line, `src/cli`. This directory models its
core logic in TLA+, checks the models with TLC on small instances, and proves
most of their safety properties with TLAPS for every instance.

- [The system](#the-system): components, state, operations, hazards
- [The modules](#the-modules) and how they correspond to the code
- [The runs](#the-runs): what each shows, with which bounds
- [Fairness](#fairness)
- [What is proved](#what-is-proved), and what is only checked
- [Where the code disagrees with itself](#where-the-code-disagrees-with-itself)
- [What is not modelled](#what-is-not-modelled)
- [The plan](#the-plan)

All paths below are relative to `src/libchucci` unless they begin with `src/`.

## The system

A compilation is one thread. `new_compiler` (`src/compiler.c`) makes a
`Compiler`, which owns an arena, an intern table, a stack of sources, a
`PPCtx` with the state of the preprocessor, and a `jmp_buf` for errors. Two
stages follow each other: PP1 turns a source into a source without comments and
`#include`; PP2 turns the tokens of that source into tokens without directives
and macros. An error anywhere is `throw_error`, a `longjmp` out of however many
calls are live; nothing is unwound on the way.

Nothing runs concurrently. What makes the code hard is recursion through shared
mutable state: `resolve_pp1` and `resolve_pp2` call themselves with different
sources while `included_files`, `macros`, `macro_stack` and the buffer pools are
shared by all activations, and the code holds pointers into that state across
the recursive calls.

| component | state | operations | interacts with |
|---|---|---|---|
| Macro expansion, PP2 (`frontend/preprocess_2.c`, `pp2_macro.c`, `token_source.c`) | `ctx->macros`, `ctx->macro_stack`, the token array pool, one activation per nested `resolve_pp2` | `step_pp2`, `macro_def`, `macro_use`, `recursively_expand` | reads tokens from the lexer or an array; definitions live in an intern map; pastes call `concat_intern`; conditions go to `cond_use` |
| Comments and `#include`, PP1 (`frontend/preprocess_1.c`, `cursor.c`) | `included_files`, the string pool, one activation per open file | `resolve_pp1`, `resolve_include`, `open_included_file`, `check_cyclic_includes` | reads files; borrows path memory from the pool; `free_compiler` frees what is left |
| Conditions (`frontend/pp2_cond.c`) | the C stack of `eval_cond`, token sources | `nud`, `led`, `eval_cond`, `get_bp` | expands macros of operands through `macro_use` |
| Arena (`utils/da_arena.c`) | chunks, `allocs`, `minempty` | `arena_alloc`, `arena_mark`, `arena_mark_reset`, `arena_reset`, `arena_free` | memory of the intern table and of the compiler |
| String interning (`utils/da_intern.c`) | slots, `len`, `cap`, its arena | `intern`, `concat_intern`, `resize_interntable` | names of tokens and macros; `interned_eq` compares ids only |
| Lexer (`frontend/lexer.c`, `token.c`) | a cursor | `lex_next_token`, `lexer_peek_token`, `lexer_peek_nth`, the scanners of names, numbers, operators and strings | a token source of PP2; interns identifiers |
| Maps and bit sets (`da_internmap.h`, `da_bitset.c`) | a vector indexed by id, a bit per id | `imap_init`, `imap_has`, `imap_get`, `imap_set`, `imap_destroy` | `ctx->macros`, the arguments of a call |
| Compiler lifecycle (`src/compiler.c`) | `source_stack`, `include_dirs`, `PPCtx`, the `jmp_buf` | `new_compiler`, `opt_add_source`, `compiler_preprocess`, `initiate_error`, `free_compiler` | everything above |
| REPL (`src/cli/main.c`) | a line buffer | reading lines, running the compiler | the compiler |
| Strings, paths, vectors (`da_string.c`, `da_path.c`, `kvec.h`) | buffers | growth, comparison, `read_file` | everything |

What makes each of them correct, and what is hard to test about it:

- **Macro expansion.** The push and the pop of `macro_stack` are in different
  places, with any number of nested expansions between them; the cycle check
  reads the stack before the arguments are expanded and the push comes after.
  So: the stack is exactly the macros under expansion, no macro is entered
  within itself, every compilation ends, the output is the expansion that the
  comments describe. A `#define` may run inside an expansion, and then pointers
  to definitions and bodies may be stale: only such a program reads freed memory.
  A `#` must never be copied to the output.
- **PP1.** Comments open and close where characters meet, also after something
  between them was removed; a splice skips one character more than it should; a
  name may not be closed. So: exactly the text outside comments is passed on
  (which the code does only where splices do not meet, in a build with assertions),
  every cycle of includes is cut, files, activations and buffers stay in step, every
  scan ends.
- **Conditions.** The parser computes values while it parses, so that C's own
  short circuit decides whether an operand's *tokens* are read, evaluates both
  branches of a ternary, and takes the value of an expansion where C takes its
  tokens. So: the value is C's wherever these three make no difference, the whole
  condition is read, expansions of operands do not leak into
  the condition around them.
- **Arena.** Nested marks, new chunks and separate blocks in any order. So: live
  objects never share memory and are never freed; a reset gives back what the
  mark says; nothing is freed twice.
- **Interning.** Probe chains that wrap, survive a resize that copies empty
  slots too, and adopt or give back memory. So: every string has one id for
  ever, its memory is never reused, every probe ends.
- **Lexer.** Operators are tried in the order of a table, numbers look two
  characters ahead, lookahead runs the lexer and goes back. So: a token is the
  longest piece of the source that is one, lookahead returns what comes later and
  leaves no trace, a name and its parenthesis are adjacent exactly when they are
  in the text, every call returns.
- **Maps.** A vector and a bit set grow apart from each other, and a look-up grows
  the bits. So: together they are a partial function that changes only where it
  is set.
- **Lifecycle.** Sources are replaced under the tokens that point into them,
  paths are borrowed, an error unwinds nothing, and one `MacroDef` is the
  workbench of every definition. So: every object has one owner that frees it,
  tokens point to live sources, a call leaves nothing to the next unless it fails.
- **REPL.** Its calls are one order of those that `Lifecycle`'s client makes.

`PROJECT.json` lists the hazards line by line, with the properties that cover
each of them, and a note where none does yet.

## The modules

Every model of a recursive C function has the same form: the C call stack is a
sequence of records, one per live activation, holding its locals and a field
that says what it is in the middle of (`phase`, `loop`, `wait`). A call
appends a record; a return removes it and lets the caller go on. One action is
one iteration of a loop, or one call or return. So a counterexample reads like
a debugger session, and shared state can change under a waiting activation just
where it can in C.

### `MacroExpansion`, the core

`macros`, `macro_stack` and `max_used` are the fields of the same names;
`frames` are the activations of `resolve_pp2`, with the token source (`src`,
`pos`), the stream it appends to and the locals of the `macro_use` in progress.
A token is a kind and an identifier. `Directive` is `macro_def`; `Step` is
`step_pp2` and the head of `macro_use`; `Arguments` is `macro_use_fnlike_args`
with `fnlike_args_match_paren`; `Body` is `macro_use_fnlike_body`, its
substitution loop and then its paste loop; `Return` ends an activation.

Undefined behaviour is explicit: a source that points to a freed body is marked
`stale`, a `def` that may have moved is `moved`, and reading either ends in status
`stale`. A field that the token's constructor leaves uninitialised may hold anything:
where it is compared (`preprocess_2.c:26`), `DefineReads` offers both outcomes; where
all that follows depends on it, as when a keyword is pasted, the status is `uninit`.
Failed assertions end in `abort`, those of `bp_get` and of `token_to_str`, which
stringifies no error token; errors end in `error`, directives that need the undefined
`cond_use` in `cond`. `UseFnlike` is the build with assertions; the other one goes on
with storage around the pool, a case that `Preprocess1` and `Lifecycle` have.

`pp2_macro.c` does not compile as it is committed: it calls a `MemScope` API that
the tree does not define, passes a pointer to `kv_push` (lines 158 and 184),
and takes some fields from the wrong struct. The model takes its evident
reading: the pushed argument is what `arg` points to.

`MacroReference` says independently what the result of a program is: it expands
by structural recursion, without a stack of activations or shared state.
`MCMacroExpansion` makes the programs that are tried, `MCPreprocess2Test` is the
source of `src/test/preprocess2_1.c`.

### `Region`, `Arena`

`Region` is what an arena promises: an allocation that overlaps nothing live,
marks that are used like a stack, release of what was allocated since and
nothing else. `Arena` is the code, with and without the flag (`reliable`): `chunks[k]` is the `pos` of the chunk (numbered
from 1), `allocs` the blocks of their own, `heap` what malloc has out. `live` and
the `live` of a mark are what clients may rely on, and no action reads them to
decide anything; they state the refinement `Region`. `LastChunk` and `FirstChunk` are
the two branches of `get_arena_chunk`. `KeepAllocated` is a client that lets a mark
go, as `concat_intern` does. malloc never fails in the model.

### `Interner`, `InternTable`

`Interner`: ids from 0 without gaps, one per string, never changed. `InternTable`:
the slots, with the probe stated by `IsSlot` (the first slot on the way where
the loop stops), the resize as one step per copied slot, and the strings in the
arena in the order of allocation. The table goes back over one allocation only, the
copy that `concat_intern` has just made. `arena_mark_reset` takes such a copy back if
it is in a chunk (`ChunkSpaceReclaimed` of `Arena`), but frees 0 = 1 div 2 of a
block of its own (`arena_blocks`): a copy of a string in `Long`, from 1009 bytes on,
which alignment makes 1024, stays. `hash` is an arbitrary
function, chosen at the start; only the empty string cannot have hash 0, which
follows from the finaliser of `hash_str` and a seed that is the time.
`IsFound` never assumes that a slot exists: a probe without one is a deadlock, and breaks `CallsReturn`.

### `Preprocess1`

`stack` are the activations of `resolve_pp1`, `included` is `included_files`, `pool`
the `max_used` of the string buffers. A character is one of those that matter;
`include` and a file name are one symbol each. The variable `ndebug` says which
build it is, because the code makes calls inside `assert`: with assertions the one
in `bp_save` (`bufferpool.h:8`) fails whenever a buffer is given back, so each
`resolve_pp1` builds its text, here `result`, and then aborts; without them
`ch_expect_cursor` does not move the cursor, `read_file` does not seek and reads
nothing, and buffers are never given back. What `bp_get` hands out has the index before
the count, the first buffer the index -1; the model counts the buffers (`Got`) and does not
follow what a store outside the pool overwrites. The size of the pool is the constant
`MAX_BUFFERS`, 4 in the code.

`terminated` says whether a NUL follows the source. Where none does, `peek_next`
reads the character behind it, and if that looks like the end of a splice or of a
comment `ch_expect_cursor` fails (`ReadBehind`). `fopen` also opens the include
directory itself, for the empty name (`Directory`, `ReadDirectory`). Whether a path is
short enough to lie inside its `da_string` is not modelled by its length:
`FreeCompiler` offers both.

`Uncommented` is what the output is compared with: a finite automaton for comments
that looks neither ahead nor back, and is not made after the scanner: a newline ends a
line comment unless the character before it is a backslash. The scanner skips the character behind a
splice unseen, so the two disagree where that is a newline or another splice
(`SplicesMeet`, run `pp1_comments`). `MCPreprocess1` has the sources.

### `CondEval`

`frames` are the calls of `eval_cond`; `wait` is what the call will do with the
value of the call it made. `Infix` and `Prefix` are the tables of binding
powers, with eight of the infix operators: the others differ only in the
function that computes the value. `Binds` is the loop's condition,
`ShortCircuit` the case in which C's `||` or `&&` skips the call that would have
read the operand.

`CondMeaning` is C's grammar: which phrases stand where in a sequence of tokens, of what
power and with what value, as the sets of phrases nested up to `Depth` deep. It has no calls
and reads in no order. A macro is its text: it is part of a phrase only if that text is an
expression whose own outermost operator binds tight enough for its place, so `A * 2` with `A` = `1 + 1`
is no phrase, and `A == 2` is one. A phrase also says whether C divides by zero in it
(`fails`) and whether C leaves an operand of `||` or `&&`, or a branch that divides by zero,
unevaluated (`skips`). `Meanings` are the values of the readings that do not fail, C's verdict;
`ValueIsC` is about those that skip nothing either, and `EveryValueIsC`, which is violated, about
all of them, with macros as text.

`MCCondEval` builds expression trees, writes them as tokens with as few parentheses as C
needs and knows their value in C. Two assumptions, which TLC evaluates, tie the grammar to C independently
of the code: it gives every tree, as written, the tree's value and no other (`TreesMean`, with
`||`, `&&` and branches that divide by zero), and it gives a condition with macros no value but
that of the tokens which the expansions put in their place (`MacrosMeanText`).

### `Lexer`

One call of `lex_next_token` is a sequence of steps, one for each iteration of a
loop; `phase` says which loop, `pos` is where the token starts. `Call` starts a
call, `Return` is what `lexer_peek_nth` does with a token: count down, go on, or
`rewind_cursor`. Every action of the module besides the calls is a branch of
`lex_next_token` or an iteration of one of its scanners. Characters are members
of `Chars`, some of each class; `Operators` are the 16 of the 40 that are made of
`< = > - .`, in the order of the table, which have every kind of overlap that
the whole table has. `taken` and `promised` are history. `PeekNext` may return
anything for the character behind the source, because `peek_next` reads it.

The properties never follow the scanners: `IsLexeme` says of a whole text whether it is a
name, a number, a string or an operator, and `LongestLexemes` compares.

### `Map`, `InternMap`

`Map` is a partial function. `InternMap` is the macro family of `da_internmap.h`,
with `kv_a` (`RoomFor`) and the bit set (`WithBit`), as operators and actions on
`data` and `bitset`. It has no specification of its own: `Lifecycle` extends it,
its `data` and `bitset` being those of `ctx->macros`, and checks the refinement.

### `Lifecycle`

An object is a number, handed out in order and never again, so a freed object is
never mistaken for a later one. The variables are the fields of `CompilerOpt`,
`PPCtx` and the pool of string buffers; `streams` are the activations of
`resolve_pp2`, with the memory of their stream and the sources that their
tokens point into; `depth` counts the included files that `resolve_pp1` is in.
`initiate_error` sets what a `longjmp` sets, the local variables of the calls it
leaves, and nothing else. The client does anything that the interface allows,
in any order: add sources, call again after an error, free results or keep them.
`history` is read by properties only: what the call must restore, which objects
have been lost, which texts the client had preprocessed twice.

What the stages do with characters and tokens is reduced to what they do with
memory. `#define` stands outside expansions and expansions are those of
object-like macros; the other cases are `MacroExpansion`'s. As in `Preprocess1`,
with assertions no `resolve_pp1` gets to its end, and without them included files
are empty, so that an error inside an included file is met only in the first
build and a second stage only in the second.

### Names

Definitions keep the names of the code where TLA+ allows it. Operators called
`Faulty...` are seeded faults: each stands before the definition that it would
replace, nothing uses it, and the property named in `PROJECT.json` under
`mutants` fails when it is put in that definition's place.

## The runs

Every run is a module and a `.cfg`. Deadlock is not checked where the system
really stops: a compilation ends, an arena is freed. `InternTable` never stops, and
its run does check deadlock.

| run | question | bounds, and why they are enough |
|---|---|---|
| `expansion` | Is the result the documented recursive expansion, with the stack mirroring the calls, and does every compilation end? | Two object-like and one function-like macro, every combination of 5, 3 and 11 definitions and 12 uses: self-reference, mutual reference, a name that takes its parenthesis from behind the body, empty bodies, stringification, pastes that make an identifier, a macro or a keyword, and calls nested five deep, which exhausts the four buffers. Every line of up to four tokens after `# define`, redefinition of each body by each other, directives inside bodies and arguments, calls without a parenthesis or with a wrong number of arguments. Two object-like macros are enough for every shape of cycle that one check can miss. |
| `unclosed` | Is an unclosed call reported? | One program. **Violated.** |
| `preprocess2_test` | Are there enough buffers for the repository's own test? | Its source. **Violated.** |
| `arena` | Is the arena a `Region`, with reliable marks and without? | Chunks of 6 bytes, alignment 2; sizes 1 and 3 share chunks in different ways, 6 is a block; five allocations open three chunks, two nested marks leave room for allocation before, between and after. |
| `arena_blocks` | Does going back to a mark free its blocks? | The same. **Violated.** |
| `intern` | Is the table an `Interner`, through two resizes? | Four strings, the empty one and one with a block of its own among them, three hash values, the capacity from 2 to 8: every pattern of collisions and wrapping that two growths can rearrange. The growth from 4 to 8 needs the fourth string. `MAX_MEM` = 5: clients concatenate until five strings lie in the arena, which the four and a copy left behind fill. |
| `pp1` | Is exactly the text outside comments passed on, do files, activations and buffers stay in step, and does every scan end? | Every text of up to four of the characters `/ * \ newline x`, and every one of up to five after a slash, ended by a NUL or not: opening, closing, splice and the characters after the splice fit in these. Directives well-formed and not, in two, across lines and comments; files that include each other, themselves, or nothing; the sources of `src/test/preprocess1_1.c` and `preprocess1_2.c`. Six buffers, not the code's four: with four the pool is exhausted before `check_cyclic_includes` sees a cycle of two files, with six it sees it, and a chain of three still exhausts the pool. Each source in both builds: only with assertions are included files read, only without do includes return. |
| `pp1_comments` | Is it of every source without directives, in both builds? | Three sources, one for each way in which it is not. **Violated.** |
| `lexer` | Is every token the longest lexeme at its place, does lookahead tell the truth, does every call return? | Every source of up to two of all characters, three of those of words and lines, four and five of name and parenthesis, three of operators (four of `< = >`), five of digit and point, five of quote, backslash and letter, and the source of `src/test/lexer1.c`. The longest operator has three characters, a number is decided by the two after it. `LEN_SIZE` = 4 stands for 2^16, so that names longer than a token's length occur; `SIZE_SIZE` = 64 is more than the tokens of any source. One lookahead of 0, 1 or 2 tokens at any place, and one call after the end. The cursor is followed four places behind the source. |
| `lifecycle` | Has every object one owner, do tokens point to live sources, and do calls leave nothing to each other? | Seven objects: two sources with their texts, two macros or one with parameters and its redefinition, and a result fit in. Three ids reach each case of `kv_a`, growth from nothing, growth with copying, and a slot within the capacity, and two doublings of the bits. Four buffers as in the code, which allow five calls, or three with one include between them. Both builds, an error at every point. |
| `cond` | Is the value C's, and does any sequence of tokens end in a value of the whole condition or an error? | Trees to depth three, each operator under each other on either side, macros whose expansion is a sum, a negative number, or no expression; operands 0, 1 and 2 separate every operator and reach division by zero. Every sequence of up to three of eleven tokens, and longer ones after `1 ?`, `1 + 1`, `1 * 1` and `defined`, to reach each error. Nesting up to `Depth` = 8 is more than any of them has. |
| `cond_other` | Is the value C's where C leaves something unevaluated and where a macro's text is taken apart? | `\|\|` and `&&` over small operands, ternary operators over these and `1 / 0`, and macros next to each operator: with one of the three sets as `Conditions`, TLC shows that difference. **Violated.** |

What the properties say, beyond the comment at each definition:

- `StackMirrorsCalls`, `NoSelfNesting`: `macro_stack` is what its name promises,
  although arguments are expanded with the callee not yet on it.
- `ExpandsAsDocumented`: the result equals that of `MacroReference` whenever the
  compilation ends normally.
- `Terminates`: with one exception, which is its own run, `unclosed`.
- `LongestLexemes`: what is skipped is blank, what is taken is the longest lexeme, what
  is an error begins none. The one exception is the number that ends a source
  with a point, where `peek_next` reads the character behind it.
- `AdjacentIsTextual`: the test by which `#define f(x)` and `#define f (x)` are told
  apart is right for names shorter than a token's length can say.
- `PeeksTellTheFuture`: the n-th token promised is the n-th token returned, position
  and all.
- `OwnedOnce`: the frees of the whole compiler fit its allocations, whatever the
  order of calls; with an error, only the streams under construction are lost, and only
  one inside an included file makes `free_compiler` free what was not allocated.
- `ViewsAreLive`: results and macros of earlier calls outlive later ones. The exception is
  exact: the text that a client had preprocessed a second time.
- `BalancedCalls`: what a failed call left in `included_files`, on `macro_stack` or in
  `bufdef` is there for ever, and a call that returns adds nothing to it. It does not say that
  a failed call leaves nothing: it does.
- `RemainingMacrosAreCyclic`: a macro left in the output is there because its
  expansion leads back to itself.
- `ValueIsC`: where `CondMeaning` gives a condition a reading in which C does not divide by zero
  and leaves nothing unevaluated that the code evaluates or leaves unread, the evaluation
  does not fail, and the reading's value is what it returns.
- `OutputIsUncommented`: the text outside comments, and an error for a block comment left open
  only, in a build with assertions, of sources without directives that end with a NUL and in which
  no splice meets another or the end of its comment. `OnlyCommentsGo` is the promise without
  these conditions, and is violated; with directives the property says nothing.
- `NoStaleUse` speaks of programs whose directives stand on lines of their own and outside
  calls (`DirectivesOnOwnLines`), and of memory that was freed or moved, not of fields that were
  never set, which are status `uninit`; `ExpandsAsDocumented` and `RemainingMacrosAreCyclic` of those
  that define their macros first (`DefinesFirst`), the latter without pastes; the other
  properties are checked on programs that are not like that too.
- `Reachable`, `AnswersStayValid`, `NothingLeaks`: after any resize each string
  is found where the probe for it looks, ids are equal exactly for equal
  strings, and `concat_intern` leaves no space of a chunk behind: what stays of its copies
  are strings with a block of their own.
- `LiveIsDisjoint`, `ChunkSpaceReclaimed`, `FreedOnce`: no memory is handed out
  twice, none of a chunk is lost with reliable marks, and a double free needs the
  call of `arena_reset` that nothing makes.
- `IncludesAreOpen`: each file is open once, because the cycle check sees every
  cycle, and buffers are taken in pairs.
- `PowersAscend`, `SourcesMirrorFrames`, `WholeConditionRead`: the shape of the Pratt
  parser's stack, whatever the tokens.

## Fairness

The program is one thread that runs until it stops, so `WF_vars(Next)` in
`MacroExpansion`, `Preprocess1` and `CondEval` says only that the thread is
scheduled. In `InternTable` clients may stop calling: fairness is on `Work`, the
steps of a function that has been called, and `CallsReturn` says that every call
returns. `Lexer` is the same, with `Work` the steps of `lex_next_token`. `Arena` and `Lifecycle`
have no fairness and no liveness property. No strong fairness and no
fairness of single actions is used anywhere.

## What is proved

Each module `X_proofs` extends `X` with its inductive invariant and the theorems. All hold for
every value of the constants that satisfies the assumptions of `X`, which every run of
`X` evaluates on its instance: any set of names, strings, files or ids, any program, source or
condition, any hash function, any size of chunk, table or pool, any number of objects and calls.
The provers check every leaf; nothing else is assumed. The proofs go action by action; actions that
touch the same state in the same way share a lemma.

| module | theorems | the invariant, and why the properties alone are not inductive |
|---|---|---|
| `MacroExpansion_proofs` | `TypeCorrect`, `StackCorrect`, `CyclesAreCut`, `DirectivesStayInside`, `NestingIsBounded`, `NothingFreedIsRead`, `OnlyCyclicMacrosRemain` | `StackInv`, `CleanInv`, `CalmInv` and `TameInv`, see below. `NestingIsBounded` follows by counting: no macro is on the stack twice. |
| `Arena_proofs` | `TypeCorrect`, `LiveMemory`, `Disjoint`, `SpaceReclaimed`, `NoDoubleFree`, `Refinement` | `ArenaInv`. A reset is right only if marks remember the past: `MarksInv` says that each mark lies behind the arena as it is and behind every later mark, and that what was live at a mark lies below it and what came since above it. `MarkEndsChunks` is what makes a reset lose nothing of a chunk. `IdsAreUnique` and `BlocksAreListed` tie `allocs` to `heap`. |
| `InternTable_proofs` | `TypeCorrect`, `StringsAreFound`, `AnswersAreValid`, `MemoryIsUsed`, `Refinement` | `InternInv`. `IsTable` says of any table that probes reach its entries, that no string or id is in it twice, and that empty slots are clear; it holds of `entries` and, during a resize, of the table that is being filled, which has exactly the entries already passed (`GrownInv`). `RequestInv` says that while a request is worked on its copy is the last string of the arena and the only one that is no entry's, and `EntriesInv` that each of the others is an entry's or was left behind, being `Long`. |
| `CondEval_proofs` | `TypeCorrect`, `SourcesMatchCalls`, `PowersRise`, `ReadsWholeCondition`, `ValueCorrect` | `CondInv`: the properties, which state each other's conditions, and `OutermostTakesAll`. The lemma that carries most is how many calls wait for a macro after a call or a return. For the value, `ValueInv`, see below. |
| `Lexer_proofs` | `TypeCorrect`, `TokensAreTheLongest`, `AdjacencyIsTextual`, `LookaheadIsTrue` | `LexInv` and `PeekInv`, see below. |
| `Preprocess1_proofs` | `TypeCorrect`, `FilesAreOpenOnce`, `IncludesEnd`, `CommentsAreResolved` | `PP1Inv`: `TypeOK`, `IncludesAreOpen`, and `InDepth`, which says that there is at most one activation for each open file and the main one, also where the pool has stopped the program. `IncludesEnd`, a bound on the recursion for every finite set of files and a pool of any size, follows by counting: the pool has no part in it. For the comments, `UncommentInv`, see below. |
| `Lifecycle_proofs` | `TypeCorrect`, `OwnedCorrect`, `ViewsCorrect`, `CallsAreBalanced`, `MapRefined` | `LifeInv`, see below. It begins with lemmas about `InternMap`: there is a power of 2 in the intervals of `Roundup` and `Doubled`, so that no `CHOOSE` is empty; a look-up that grows the bits changes nothing; setting a value changes the map at that id only. |
| `NatInduction` | lemmas only | Induction over the naturals for a set, from the least number outside it. |

(`Inductive`, in most of them, says that the invariant holds always.)

**`MacroExpansion`.** `TypeOK` is not inductive: a step that uses `macros[Top.name]` needs it
to be a definition, and a return needs to know what its caller waits for. `TypeInv` adds
`Nesting` (every activation but the innermost is in a waiting phase, and the innermost in none)
and `CalleesDefined` (an activation collecting arguments, or entering the body, has a defined
macro; definitions are replaced, never removed). `StackInv` adds `StackMirrorsCalls`,
`NoSelfNesting` and `PendingAreFresh`. The last is what the two need: the name of a call whose
arguments are being collected or expanded is not on `macro_stack` at the point where it will be
pushed, although macros were pushed and popped above it since the check. `CleanInv` says where a `#`
may be: in a source, an argument that is not expanded yet and a body, but not in what an activation has put
out, bound to a parameter, or pastes.

`CalmInv` is why nothing freed is read (`NoStaleUse`). In a program whose directives stand on lines
of their own and outside calls, only the outermost activation ever reads one: bodies are what is left of
a line behind its `#`, and an argument is a slice of the source behind a parenthesis that is not closed
yet, so it contains none (`Enclosed`, `Gathered`), nor does what is made of the two. A definition that a
waiting activation reads from can only be freed by a directive above it, and there is none.

`TameInv` is why only macros that come back to themselves are left. `Reachable` is a least set, and what
an activation reads, binds, puts out or pastes is in the `Reachable` of every object-like macro that is
being expanded below it: bodies by its definition, arguments since they were read there. A macro is left
alone when `check_cyclic_macros` finds it on the stack; it is then the macro of an activation below
(`StackMirrorsCalls`), hence in its own `Reachable`. What has been put out stays justified because no
definition follows it (`Settled`).

**`CondEval`.** `ValueInv` says that an evaluation of a condition which the grammar gives the value v is on the way
to v. The grammar builds phrases from the inside out, the evaluator reads from the left, and the spine is what the
two have in common: the phrases that begin in one place, an operand and then one operator after the other, which are
just what one call of `eval_cond` makes in its turns; the first of them may be a macro, with the
power of its expansion. The invariant is about the readings that neither fail nor skip (`Plain`), and their
phrases are plain too (`Known`). Every phrase has one (`KnownHasSpine`, by induction over the
depth). `Track` gives each call that has not returned the spine that it goes along and how far it is; `Covers` that
each operator on it binds tighter than the call's `minbp` and that the token behind it does not, which is where
the binding powers come in: a call stops exactly at the end of its phrase (`SpineStops`, `TernaryEnds`). `Calls` ties a
call to its caller: its spine ends in the phrase that the caller's next phrase is made of. That a condition can have two
values is ruled out by the theorem itself, if its evaluation ends. The existence of the recursive function
`Nested` is proved too (`NestedExists`).

**`Preprocess1`.** `UncommentInv` puts the automaton beside the cursor: for each loop of the scanner, in text, in a line comment
or in a block comment, in which states the automaton can be before the next character, and how its output
relates to the text built so far (`Agrees`). It says this of the sources that `OutputIsUncommented` is about (`Bare`),
where the character that the code skips behind a splice leaves the automaton in a line comment. The code decides two characters at a time where the automaton
goes one by one, so behind a slash or a star the two are apart by one. That a function `Reading` exists which
satisfies its recursive definition is proved by induction (`ReadingExists`). The theorem
holds because no file is called EOF (`PP1Assumption`): a symbol of that name would be taken for the end.

**`Lexer`.** `LexInv` says of each scanner what it has read since the token's start, in the
words in which the properties define the whole token: `WordInv` that all of it may be in a name, `NumInv` that
`decimal` tells of the one point in it, and that a digit follows a point that is the last character, or the
end, which `peek_next` hides; `StrInv` that no quote so far was
unescaped, and that the cursor is not at an escaped place. `ReachedInv` says that between the last token
taken and the point that lookahead goes back to there are only blanks, and no change of line if they touch.
That a token cannot be longer is proved from the first character, which decides its class (`FirstOfLexeme`), and,
for operators, from the order of the table: no operator is longer than one before it (`TableDescends`).
For lookahead: the place where a call begins decides its token (`TokenUnique`: the blanks, then the
class, then the length, which is that of the longest lexeme), and the line and column too, since they count
the newlines before (`OnPath`). So lookahead and the calls that take tokens go along one chain (`IsChain`).
`PassedInv` says that a lookahead that is under way has passed the first part of the chain from its mark, as many
tokens as its count has gone down. Each of these takes at least a character, and a source is shorter than
`SIZE_SIZE` (`LexerAssumption`: a length is a `size_t` too): that is why the count of a lookahead with
`n = 0` does not come back to 0 before the end. `PromiseInv` keeps with each promise the part of the chain from the
next token to take to the one promised; a token taken is the first of every such part.

**`Lifecycle`.** `LifeInv` has a part for each thing that a call relies on and that others wrote:

- `ShapeInv`: the map's vector and bits fit each other (`MapInv`).
- `StageInv`: files are inside each other only in the first stage, activations run only in the
  second, and paths are left in `included_files` only by an error inside a file.
- `OwnInv`: the places that hold a pointer (a slot of a stack, the two of a macro, `bufdef`, a
  stream, a result, a buffer) and the live objects match one to one, but for what errors have lost.
  It is stated for any set of places (`Accounted`), with a lemma for each way an object changes
  hands: allocated into a place, moved, freed, lost. `OwnedOnce` follows.
- `SharingInv`: results share no memory, and paths borrow only from buffers.
- `ViewsInv`: a text that tokens point into lies on the stack of sources *below* the sources of the files
  that are being included. Without that the free at the end of an include could be of such a text.
- `CallInv`: what the running call has added to each stack is exactly what its returns will take,
  on top of what it found. `BalancedCalls` speaks only of the end of a call, and is not inductive
  without it.

**Refinements proved**: the arena implements `Region`, the table implements `Interner`, the compiler's
table of macros implements `Map`: initial states map to initial states, and every step maps to a
step or a stutter.

Only model-checked: `ExpandsAsDocumented`, whose reference is a recursive operator over token
sequences, and every liveness property. Out of the prover's reach: liveness under fairness and `ENABLED`,
`RECURSIVE` operators, and the theorems of the library that do induction, since they take an operator as a
parameter. Induction is had in set form instead (`NatInduction`), and with it a recursive function
can be shown to exist and be followed step by step, as for the automaton and the grammar above.

## Where the code disagrees with itself

Each is a run that finds the property violated; `PROJECT.json` quotes both sides.

| run | what happens |
|---|---|
| `preprocess2_test` | No function-like call gives its buffer back, so the fifth one of the repository's own test fails `bp_get`'s assertion. |
| `unclosed` | In `f((1`, end of file inside the inner parenthesis loops for ever instead of reporting "Unexpected EOF". |
| `arena_blocks` | `arena_mark_reset` frees n div 2 of the n blocks allocated since the mark. |
| `pp1_comments` | After a splice a line comment skips one character unseen, the newline that ends it too (`preprocess_1.c:140`). Without assertions a single slash opens a line comment (`cursor.h:35`). A comment that ends with the source may fail an assertion over the character behind it (`cursor.c:88`). |
| `cond_other` | The operand that C's `\|\|` or `&&` skips is never read: `1 \|\| 0` is an error, `2 \|\| - 1` is 0. `0 ? 1 / 0 : 1` stops. With `A` as `1 + 1`, `- A` is -2. |

The models follow the code in more places where it does not do what a
comment, a test or a name says, without a run of their own. A property that would be false there excludes
exactly these cases, and the hazard's note in `PROJECT.json` says so.

- `MacroExpansion`: a `#` before a token without an identifier may define a macro, as
  `preprocess_2.c:26` compares a field that is not set (`DefineReads`); a paste that spells a keyword
  reads it too (status `uninit`).
- `Preprocess1`: the first buffer that `bp_get` hands out is `buffers[-1]` (`Got`); `bp_save`
  asserts an index one too high, so with assertions `resolve_pp1` never returns, as on the source of
  `src/test/preprocess1_1.c` (`FinishAborts`); a cycle of two files exhausts the four buffers before
  it is seen (`Include`); after an error in an included file `free_compiler` frees a path that may
  lie inside a `da_string` (`FreeCompiler`, status `bad free`); a name that is never closed opens a
  file, because `get_till_delim` returns the rest of the source (`TillDelim`); a comment between `#`
  and `include` leaves the directive unresolved (`Directive`).
- `Lexer`: a string that is never closed is read for ever (`MoreStr`, `Unclosed`); `peek_next` reads behind the
  source (`PeekNext`, `ReadsBehind`); the table of `is_op` may be read before its start (`NegativeIndex`); a
  lookahead of 0 tokens counts down from 2^64 (`Left`).
- `Lifecycle`: each `resolve_pp1` keeps a buffer, so the sixth call of `compiler_preprocess` writes
  behind the pool (`Got`, status `overrun`); after a failed parameter list the next `#define` has
  parameters (`DefineError`, `macro_def`); after an error inside an expansion the macro stays on
  `macro_stack` and is never expanded again (`initiate_error`); `bufdef` and the buffers' own memory
  are never freed (`free_compiler`).
- `Arena`: after `arena_reset`, which nothing calls, `arena_free` frees blocks again.

## What is not modelled

- `peek_nth` of an array and the lexer as the token source of `MacroExpansion`: programs
  there are token arrays, and `Lexer` is checked on its own.
- `cond_use` and `compiler_compile` are declared or called but not defined in the tree,
  nor is `add_source`; `compiler.c:84` passes arguments that `new_pp2`
  does not take, and `Lifecycle` reads the evident ones.
- The bits of `hash_str`; 24 operators and the separators besides `(` and `,`, which
  differ from those modelled only in spelling; how tokens are printed.
- In `Lifecycle`, what is made once and freed once: the structs, the intern table, the
  arena; the buffers' memory for texts; the arrays of a function-like call, whose
  `MemScope` the tree does not define.
- What `macro_use` yields for an operand of a condition is a constant for each name
  (`MacroOperand`): a function-like macro would read its arguments from the condition's tokens.
  A macro in a condition that expands to its own name recurses without a bound: the run's macros do
  not, and the hazard is listed.
- Failure of malloc and of reading a file that exists.
- The growth of strings and of vectors other than by `kv_a`, which have one client and no
  interleaving; absolute paths and directories of paths, which nothing uses.
- `main.c` beyond its calls is input and output around functions that do not exist yet.

## The plan

Built, in this order: `MacroExpansion` with its reference, runs and theorems;
`Arena` against `Region`; `InternTable` against `Interner`; `Preprocess1`; `CondEval`;
`Lexer`; `InternMap` against `Map`, inside `Lifecycle`.

Modules to come: `InternOverArena`, `InternTable` on `Arena` instead of on its
strings in order, with its blocks and its one mark, in the `intern` run; a
`TokenSource` that composes `Lexer` with arrays, for `peek_nth`, which counts from 1 in
the one and from 0 in the other.

A theorem to come: `ExpandsAsDocumented`, from a reference that is a recursive function of the depth of
nesting, as `CondMeaning` is, and an invariant that gives each activation the part of the reference's
result that it has yet to put out.
