--------------------------- MODULE MacroExpansion ---------------------------
(***************************************************************************)
(* The second preprocessor of libchucci: #define and macro expansion       *)
(* (frontend/preprocess_2.c, pp2_macro.c, token_source.c).                 *)
(*                                                                         *)
(* resolve_pp2 reads tokens from a source and appends to a stream; a macro *)
(* use calls it again, through recursively_expand, on the macro's body or  *)
(* on an argument.  The C call stack is `frames`: one record per live      *)
(* activation of resolve_pp2, holding its token source, its stream and the *)
(* locals of the macro_use it is in the middle of.  One step is one        *)
(* iteration of one of the code's token loops, or one call or return.      *)
(***************************************************************************)
EXTENDS Integers, Sequences, FiniteSets

CONSTANTS
    Names,        \* the interned identifiers (interned_str; equality is by id)
    Define,       \* the one of them that spells "define"
    None,         \* "no such thing": NULL, a bit not set, no identifier
    Programs,     \* the token sequences the lexer may produce
    Concat,       \* Concat[a][b]: the identifier a ## b; None: it is a keyword
    MAX_BUFFERS   \* bufferpool.h:4

(***************************************************************************)
(* A token.  VAL is a literal, OP any other operator, separator or         *)
(* keyword: PP2 treats them alike.  `glued` matters for LP only: it        *)
(* touches the token before it (are_tokens_adjacent).                      *)
(***************************************************************************)
Kinds == {"IDENT", "VAL", "OP", "LP", "RP", "COMMA", "HASH", "PASTE", "IF",
          "NL", "ERROR", "EOF"}

Token ==
    {t \in [kind : Kinds, id : Names \cup {None}, glued : BOOLEAN] :
        t.kind = "IDENT" => t.id \in Names}

Simple(k) == [kind |-> k, id |-> None, glued |-> FALSE]
Ident(n)  == [kind |-> "IDENT", id |-> n, glued |-> FALSE]
EofToken  == Simple("EOF")

ASSUME NamesAssumption == Define \in Names /\ None \notin Names

ASSUME ConcatAssumption == Concat \in [Names -> [Names -> Names \cup {None}]]

ASSUME PoolAssumption == MAX_BUFFERS \in Nat

ASSUME ProgramsAssumption ==
    \A s \in Programs : /\ s \in Seq(Token)
                         /\ \A k \in 1..Len(s) : s[k].kind # "EOF"

VARIABLES
    macros,       \* ctx->macros, the internedmap of definitions
    macro_stack,  \* ctx->macro_stack: the macros being expanded
    max_used,     \* buffers taken from the tokenarrays pool
    frames,       \* the live activations of resolve_pp2, innermost last
    status        \* "run", or how the compilation ended

vars == <<macros, macro_stack, max_used, frames, status>>

MacroDef == [fnlike : BOOLEAN, argnames : Seq(Names), body : Seq(Token)]

ASSUME NoneAssumption == None \notin MacroDef

(***************************************************************************)
(* What the activation is doing: "scan" is step_pp2; "obj" waits for the   *)
(* expansion of an object-like body; "args" collects the arguments of a    *)
(* call, "arg" and "last" wait for the expansion of one (the last one),    *)
(* "enter" has them all; "subst" and "paste" are the two loops of          *)
(* macro_use_fnlike_body; "rescan" waits for the expansion of the result.  *)
(***************************************************************************)
Phases == {"scan", "obj", "args", "arg", "last", "enter", "subst", "paste",
           "rescan"}

\* Phases in which the activation's macro is on macro_stack.
Holding == {"obj", "subst", "paste", "rescan"}

\* Phases in which the activation waits for the one above it.
Waiting == {"obj", "arg", "last", "rescan"}

Frame ==
    [src : Seq(Token), pos : Nat, stream : Seq(Token),
     stale : BOOLEAN,              \* src is memory that has been freed
     phase : Phases,
     name : Names \cup {None},     \* def->name of the macro in use
     moved : BOOLEAN,              \* `def` points into a reallocated table
     argnum : Nat, param : Names \cup {None},
     arg : Seq(Token), depth : Nat,
     args : [Names -> Seq(Token) \cup {None}],
     todo : Seq(Token), buf : Seq(Token)]

NoArgs == [n \in Names |-> None]

Activation(tokens) ==
    [src |-> tokens, pos |-> 1, stream |-> << >>, stale |-> FALSE,
     phase |-> "scan", name |-> None, moved |-> FALSE, argnum |-> 0,
     param |-> None, arg |-> << >>, depth |-> 0, args |-> NoArgs,
     todo |-> << >>, buf |-> << >>]

\* The activation f after its macro_use has returned, having emitted `out`.
Resumed(f, out) ==
    [Activation(f.src) EXCEPT !.pos = f.pos, !.stale = f.stale,
                              !.stream = f.stream \o out]

Statuses ==
    {"run",
     "done",    \* resolve_pp2 returned to the compiler
     "error",   \* throw_error: longjmp to the caller of the compiler
     "abort",   \* an assert failed
     "cond",    \* control went to cond_use, which the tree does not define
     "stale",   \* memory that has been freed or moved was read
     "uninit"}  \* an uninitialised field was read, and what follows depends on it

-----------------------------------------------------------------------------
(* Token sources: next_token and peek_token past the end give TOK_EOF.      *)

TokenAt(tokens, k) == IF k \in 1..Len(tokens) THEN tokens[k] ELSE EofToken

\* The position after reading the token at k: a source at its end stays there.
After(tokens, k) == IF k <= Len(tokens) THEN k + 1 ELSE k

Top == frames[Len(frames)]
Tok == TokenAt(Top.src, Top.pos)
Peeked == TokenAt(Top.src, Top.pos + 1)

Running(phase) == status = "run" /\ Top.phase = phase

\* A read of the token source that is not a read of freed memory.
Reading(phase) == Running(phase) /\ ~Top.stale

SetTop(f) == frames' = [frames EXCEPT ![Len(frames)] = f]

\* recursively_expand(tokens), leaving the caller as f.
Expand(f, tokens) ==
    frames' = Append([frames EXCEPT ![Len(frames)] = f], Activation(tokens))

\* The innermost activation returns; its caller goes on as f.
ReturnTo(f) ==
    frames' = [SubSeq(frames, 1, Len(frames) - 1) EXCEPT ![Len(frames) - 1] = f]

Caller == frames[Len(frames) - 1]

Stop(s) ==
    /\ status' = s
    /\ UNCHANGED <<macros, macro_stack, max_used, frames>>

-----------------------------------------------------------------------------
Init ==
    /\ macros = [n \in Names |-> None]
    /\ macro_stack = << >>
    /\ max_used = 0
    /\ \E tokens \in Programs : frames = <<Activation(tokens)>>
    /\ status = "run"

-----------------------------------------------------------------------------
(* Directives: step_pp2 at OP_PREPROCESS, and macro_def.                    *)

\* What `interned_eq(tok->ident, preprocessor_cmds[PP_DEFINE])` yields.  Tokens
\* built by new_tok_simple leave the union, so tok->ident.id, uninitialised;
\* literals and TOK_EOF have zero there and TOK_ERROR half a pointer, which are
\* not the id of "define".
DefineReads(t) ==
    CASE t.kind = "IDENT" -> {t.id = Define}
      [] t.kind \in {"VAL", "ERROR", "EOF"} -> {FALSE}
      [] OTHER -> BOOLEAN

\* tokens[lp] opens a list of m parameters: ( ) or ( a , b , ... ).
ParamListEnd(lp, m) == IF m = 0 THEN lp + 1 ELSE lp + 2 * m

IsParamList(tokens, lp, m) ==
    /\ ParamListEnd(lp, m) <= Len(tokens)
    /\ \A k \in 1..m : tokens[lp + 2 * k - 1].kind = "IDENT"
    /\ \A k \in 1..(m - 1) : tokens[lp + 2 * k].kind = "COMMA"
    /\ tokens[ParamListEnd(lp, m)].kind = "RP"

\* A seeded fault: a body runs on over the end of its line when the next line
\* is a directive.
FaultyIsBody(tokens, first, last) ==
    LET ends(k) == /\ tokens[k].kind = "NL"
                   /\ TokenAt(tokens, k + 1).kind # "HASH"
    IN  /\ first <= last + 1
        /\ \A k \in first..last : ~ends(k)
        /\ last < Len(tokens) => ends(last + 1)

\* macro_def_parse_body takes tokens[first..last]: up to a newline or the end.
IsBody(tokens, first, last) ==
    /\ first <= last + 1
    /\ \A k \in first..last : tokens[k].kind # "NL"
    /\ last < Len(tokens) => tokens[last + 1].kind = "NL"

\* imap_set, after free_macro_def of an older definition: the activations that
\* read the freed body are stale; a slot beyond the table's capacity moves the
\* table, so the `def` of every macro_use_fnlike still collecting dangles.
Store(name, def, last) ==
    \E moves \in IF macros[name] = None THEN BOOLEAN ELSE {FALSE} :
        /\ macros' = [macros EXCEPT ![name] = def]
        /\ frames' =
             [j \in 1..Len(frames) |->
                [frames[j] EXCEPT
                   !.stale = \/ @
                             \/ /\ j > 1
                                /\ frames[j - 1].phase = "obj"
                                /\ frames[j - 1].name = name,
                   !.moved = @ \/ (moves /\ frames[j].phase \in {"arg", "last"}),
                   !.pos = IF j = Len(frames) THEN After(frames[j].src, last + 1)
                           ELSE @]]
        /\ UNCHANGED <<macro_stack, max_used, status>>

\* The position of the name after `# define`, and whether a glued ( follows.
NamePos == Top.pos + 2
NameTok == TokenAt(Top.src, NamePos)
HasParams ==
    LET t == TokenAt(Top.src, NamePos + 1) IN t.kind = "LP" /\ t.glued

AtDefine ==
    /\ Reading("scan")
    /\ Tok.kind = "HASH"
    /\ TRUE \in DefineReads(Peeked)

DefineObjlike ==
    /\ AtDefine /\ NameTok.kind = "IDENT" /\ ~HasParams
    /\ \E last \in NamePos..Len(Top.src) :
          /\ IsBody(Top.src, NamePos + 1, last)
          /\ Store(NameTok.id,
                   [fnlike |-> FALSE, argnames |-> << >>,
                    body |-> SubSeq(Top.src, NamePos + 1, last)],
                   last)

DefineFnlike ==
    /\ AtDefine /\ NameTok.kind = "IDENT" /\ HasParams
    /\ \E m \in 0..Len(Top.src), last \in NamePos..Len(Top.src) :
          LET lp == NamePos + 1
              first == ParamListEnd(lp, m) + 1
          IN  /\ IsParamList(Top.src, lp, m)
              /\ IsBody(Top.src, first, last)
              /\ Store(NameTok.id,
                       [fnlike |-> TRUE,
                        argnames |-> [k \in 1..m |-> Top.src[lp + 2 * k - 1].id],
                        body |-> SubSeq(Top.src, first, last)],
                       last)

\* expect_token_kind, or a malformed parameter list.
BadDefine ==
    /\ AtDefine
    /\ \/ NameTok.kind # "IDENT"
       \/ /\ HasParams
          /\ \A m \in 0..Len(Top.src) : ~IsParamList(Top.src, NamePos + 1, m)
    /\ Stop("error")

\* # if: cond_use takes over.
StepIf ==
    /\ Reading("scan") /\ Tok.kind = "HASH"
    /\ FALSE \in DefineReads(Peeked) /\ Peeked.kind = "IF"
    /\ Stop("cond")

\* A seeded fault: an unknown directive is copied to the output.
FaultyBadDirective ==
    /\ Reading("scan") /\ Tok.kind = "HASH"
    /\ FALSE \in DefineReads(Peeked) /\ Peeked.kind # "IF"
    /\ SetTop([Top EXCEPT !.stream = Append(@, Tok), !.pos = @ + 1])
    /\ UNCHANGED <<macros, macro_stack, max_used, status>>

\* # followed by anything else: "Unexpected token".
BadDirective ==
    /\ Reading("scan") /\ Tok.kind = "HASH"
    /\ FALSE \in DefineReads(Peeked) /\ Peeked.kind # "IF"
    /\ Stop("error")

-----------------------------------------------------------------------------
(* step_pp2 on other tokens, and macro_use.                                 *)

IsMacro(t) == t.kind = "IDENT" /\ macros[t.id] # None

\* A seeded fault: check_cyclic_macros that looks at the innermost macro only.
FaultyCyclic(name) ==
    macro_stack # << >> /\ macro_stack[Len(macro_stack)] = name

\* check_cyclic_macros
Cyclic(name) == \E k \in 1..Len(macro_stack) : macro_stack[k] = name

\* Append the current token to the stream and go to the next.
Emit == SetTop([Top EXCEPT !.stream = Append(@, Tok), !.pos = @ + 1])

StepPlain ==
    /\ Reading("scan")
    /\ Tok.kind \notin {"HASH", "EOF"} /\ ~IsMacro(Tok)
    /\ IF Tok.kind = "NL" THEN SetTop([Top EXCEPT !.pos = @ + 1]) ELSE Emit
    /\ UNCHANGED <<macros, macro_stack, max_used, status>>

\* A macro inside its own expansion, or a function-like name without a call.
UseAsPlain ==
    /\ Reading("scan") /\ IsMacro(Tok)
    /\ \/ Cyclic(Tok.id)
       \/ macros[Tok.id].fnlike /\ Peeked.kind # "LP"
    /\ Emit
    /\ UNCHANGED <<macros, macro_stack, max_used, status>>

\* macro_use_objlike, up to its call of recursively_expand
UseObjlike ==
    /\ Reading("scan") /\ IsMacro(Tok)
    /\ ~Cyclic(Tok.id) /\ ~macros[Tok.id].fnlike
    /\ macro_stack' = Append(macro_stack, Tok.id)
    /\ Expand([Top EXCEPT !.phase = "obj", !.name = Tok.id, !.pos = @ + 1],
              macros[Tok.id].body)
    /\ UNCHANGED <<macros, max_used, status>>

AtCall ==
    /\ Reading("scan") /\ IsMacro(Tok)
    /\ ~Cyclic(Tok.id) /\ macros[Tok.id].fnlike /\ Peeked.kind = "LP"

\* A seeded fault: bp_get that hands out one buffer too many.
FaultyUseFnlike ==
    /\ AtCall /\ max_used <= MAX_BUFFERS
    /\ max_used' = max_used + 1
    /\ SetTop([Top EXCEPT !.phase = "args", !.name = Tok.id, !.pos = @ + 2])
    /\ UNCHANGED <<macros, macro_stack, status>>

\* macro_use_fnlike and the start of macro_use_fnlike_args: the ( is read and a
\* buffer for the argument taken from the pool.  Nothing ever gives it back.  This
\* is the build with assertions; the other goes on with storage around the pool.
UseFnlike ==
    /\ AtCall /\ max_used < MAX_BUFFERS
    /\ max_used' = max_used + 1
    /\ SetTop([Top EXCEPT !.phase = "args", !.name = Tok.id, !.pos = @ + 2])
    /\ UNCHANGED <<macros, macro_stack, status>>

\* The assertion in bp_get.
PoolExhausted ==
    /\ AtCall /\ max_used >= MAX_BUFFERS
    /\ Stop("abort")

-----------------------------------------------------------------------------
(* macro_use_fnlike_args: one iteration of its loop, or of the loop of      *)
(* fnlike_args_match_paren, `depth` calls of which are live.                *)

Collecting == Reading("args")
Callee == macros[Top.name]

\* The current token goes into the argument.
Collect(depth) ==
    /\ SetTop([Top EXCEPT !.arg = Append(@, Tok), !.depth = depth, !.pos = @ + 1])
    /\ UNCHANGED <<macros, macro_stack, max_used, status>>

CollectOpen  == Collecting /\ Tok.kind = "LP" /\ Collect(Top.depth + 1)
CollectClose == /\ Collecting /\ Top.depth > 0 /\ Tok.kind = "RP"
                /\ Collect(Top.depth - 1)
CollectInner == /\ Collecting /\ Top.depth > 0
                /\ Tok.kind \notin {"LP", "RP", "EOF"}
                /\ Collect(Top.depth)
CollectPlain == /\ Collecting /\ Top.depth = 0
                /\ Tok.kind \notin {"LP", "RP", "COMMA", "EOF"}
                /\ Collect(0)

\* fnlike_args_match_paren has no case for TOK_EOF: it pushes one end-of-file
\* token after another.  The endless run of them is represented by one.
CollectEof ==
    /\ Collecting /\ Top.depth > 0 /\ Tok.kind = "EOF"
    /\ SetTop([Top EXCEPT
                 !.arg = IF @ # << >> /\ @[Len(@)] = EofToken THEN @
                         ELSE Append(@, EofToken)])
    /\ UNCHANGED <<macros, macro_stack, max_used, status>>

\* A seeded fault: macro_use_fnlike_args without its test for TOK_EOF.
FaultyUnclosedCall == Collecting /\ Tok.kind = "EOF" /\ UNCHANGED vars

\* "Unexpected EOF"
UnclosedCall ==
    /\ Collecting /\ Top.depth = 0 /\ Tok.kind = "EOF"
    /\ Stop("error")

AtDelimiter(kind) ==
    Collecting /\ Top.depth = 0 /\ Tok.kind = kind /\ ~Top.moved

\* push_fnlike_arg, up to its call of recursively_expand; argnum is counted up
\* before the call.
PushArg(phase) ==
    /\ Expand([Top EXCEPT !.phase = phase, !.pos = @ + 1, !.argnum = @ + 1,
                          !.param = Callee.argnames[Top.argnum + 1]],
              Top.arg)
    /\ UNCHANGED <<macros, macro_stack, max_used, status>>

CommaArg ==
    /\ AtDelimiter("COMMA") /\ Top.argnum < Len(Callee.argnames)
    /\ PushArg("arg")

\* "Excess arguments"
ExcessArg ==
    /\ AtDelimiter("COMMA") /\ Top.argnum >= Len(Callee.argnames)
    /\ Stop("error")

NoParams == Top.argnum = 0 /\ Callee.argnames = << >>

\* The closing parenthesis, after the last argument.
LastArg ==
    /\ AtDelimiter("RP") /\ ~NoParams
    /\ Top.argnum + 1 = Len(Callee.argnames)
    /\ PushArg("last")

\* f() where f has no parameters.
CloseEmpty ==
    /\ AtDelimiter("RP") /\ NoParams /\ Top.arg = << >>
    /\ SetTop([Top EXCEPT !.phase = "enter", !.pos = @ + 1])
    /\ UNCHANGED <<macros, macro_stack, max_used, status>>

\* "Number of passed and needed arguments dont match"
ArgMismatch ==
    /\ AtDelimiter("RP")
    /\ IF NoParams THEN Top.arg # << >>
       ELSE Top.argnum + 1 # Len(Callee.argnames)
    /\ Stop("error")

-----------------------------------------------------------------------------
(* macro_use_fnlike_body.                                                   *)

EnterBody ==
    /\ Running("enter") /\ ~Top.moved
    /\ macro_stack' = Append(macro_stack, Top.name)
    /\ SetTop([Top EXCEPT !.phase = "subst", !.todo = Callee.body])
    /\ UNCHANGED <<macros, max_used, status>>

Rest(s, k) == SubSeq(s, k + 1, Len(s))

\* One token of the loop is done: k tokens read, `out` appended.
Processed(k, out) ==
    /\ SetTop([Top EXCEPT !.todo = Rest(@, k), !.buf = @ \o out])
    /\ UNCHANGED <<macros, macro_stack, max_used, status>>

IsParam(t) == t.kind = "IDENT" /\ Top.args[t.id] # None

\* First loop: arguments for parameters, # parameter for a literal.
Substitute ==
    /\ Running("subst") /\ Top.todo # << >>
    /\ LET t == Head(Top.todo) IN
         /\ t.kind # "HASH"
         /\ Processed(1, IF IsParam(t) THEN Top.args[t.id] ELSE <<t>>)

\* token_to_str has no text for TOK_ERROR, and asserts.
HasError(tokens) == \E k \in 1..Len(tokens) : tokens[k].kind = "ERROR"

Stringify ==
    /\ Running("subst") /\ Top.todo # << >> /\ Head(Top.todo).kind = "HASH"
    /\ IF ~(Len(Top.todo) > 1 /\ IsParam(Top.todo[2])) THEN Stop("error")
       ELSE IF HasError(Top.args[Top.todo[2].id]) THEN Stop("abort")
       ELSE Processed(2, <<Simple("VAL")>>)

EndSubst ==
    /\ Running("subst") /\ Top.todo = << >>
    /\ SetTop([Top EXCEPT !.phase = "paste", !.todo = Top.buf, !.buf = << >>])
    /\ UNCHANGED <<macros, macro_stack, max_used, status>>

\* The tokens from k on are `## identifier`.
PasteAt(tokens, k) ==
    /\ k + 1 <= Len(tokens)
    /\ tokens[k].kind = "PASTE" /\ tokens[k + 1].kind = "IDENT"

Joins == Top.todo[1].kind = "IDENT" /\ PasteAt(Top.todo, 2)
Joined == Concat[Top.todo[1].id][Top.todo[3].id]

\* Second loop: check_and_join_tokens on a token that nothing is pasted to.
KeepToken ==
    /\ Running("paste") /\ Top.todo # << >> /\ ~Joins
    /\ Processed(1, <<Head(Top.todo)>>)

\* a ## b spells an identifier, which may be pasted to again.
JoinIdent ==
    /\ Running("paste") /\ Top.todo # << >> /\ Joins /\ Joined # None
    /\ SetTop([Top EXCEPT !.todo = <<Ident(Joined)>> \o Rest(@, 3)])
    /\ UNCHANGED <<macros, macro_stack, max_used, status>>

\* a ## b spells a keyword.  If a further ## follows, the recursive call reads
\* the keyword's uninitialised ident.
JoinKeyword ==
    /\ Running("paste") /\ Top.todo # << >> /\ Joins /\ Joined = None
    /\ IF PasteAt(Top.todo, 4) THEN Stop("uninit")
       ELSE Processed(3, <<Simple("OP")>>)

Rescan ==
    /\ Running("paste") /\ Top.todo = << >>
    /\ Expand([Top EXCEPT !.phase = "rescan"], Top.buf)
    /\ UNCHANGED <<macros, macro_stack, max_used, status>>

-----------------------------------------------------------------------------
(* The end of a token source: resolve_pp2 returns its stream.               *)

AtEnd == Reading("scan") /\ Tok.kind = "EOF"

Finish ==
    /\ AtEnd /\ Len(frames) = 1
    /\ Stop("done")

\* ... to macro_use_objlike or to the end of macro_use_fnlike.
ReturnFrom(phase) ==
    /\ AtEnd /\ Len(frames) > 1 /\ Caller.phase = phase
    /\ macro_stack' = SubSeq(macro_stack, 1, Len(macro_stack) - 1)
    /\ ReturnTo(Resumed(Caller, Top.stream))
    /\ UNCHANGED <<macros, max_used, status>>

\* A seeded fault: macro_use_objlike without its kv_pop.
FaultyReturnObj ==
    /\ AtEnd /\ Len(frames) > 1 /\ Caller.phase = "obj"
    /\ ReturnTo(Resumed(Caller, Top.stream))
    /\ UNCHANGED <<macros, macro_stack, max_used, status>>

ReturnObj == ReturnFrom("obj")
ReturnRescan == ReturnFrom("rescan")

\* A seeded fault: push_fnlike_arg that does not reset the argument buffer.
FaultyReturnArg ==
    /\ AtEnd /\ Len(frames) > 1 /\ Caller.phase \in {"arg", "last"}
    /\ ReturnTo([Caller EXCEPT
                   !.phase = IF @ = "last" THEN "enter" ELSE "args",
                   !.args = [@ EXCEPT ![Caller.param] = Top.stream]])
    /\ UNCHANGED <<macros, macro_stack, max_used, status>>

\* ... to push_fnlike_arg.
ReturnArg ==
    /\ AtEnd /\ Len(frames) > 1 /\ Caller.phase \in {"arg", "last"}
    /\ ReturnTo([Caller EXCEPT
                   !.phase = IF @ = "last" THEN "enter" ELSE "args",
                   !.args = [@ EXCEPT ![Caller.param] = Top.stream],
                   !.arg = << >>])
    /\ UNCHANGED <<macros, macro_stack, max_used, status>>

\* A freed body or a dangling `def` is read.
TouchStale ==
    /\ \/ /\ Running("scan") \/ Running("args")
          /\ Top.stale
       \/ /\ Reading("args") /\ Top.depth = 0 /\ Tok.kind \in {"COMMA", "RP"}
          /\ Top.moved
       \/ Running("enter") /\ Top.moved
    /\ Stop("stale")

-----------------------------------------------------------------------------
Directive == \/ DefineObjlike \/ DefineFnlike \/ BadDefine
             \/ StepIf \/ BadDirective

Step == \/ StepPlain \/ UseAsPlain \/ UseObjlike \/ UseFnlike \/ PoolExhausted

Arguments == \/ CollectOpen \/ CollectClose \/ CollectInner \/ CollectPlain
             \/ CollectEof \/ UnclosedCall
             \/ CommaArg \/ ExcessArg \/ LastArg \/ CloseEmpty \/ ArgMismatch

Body == \/ EnterBody \/ Substitute \/ Stringify \/ EndSubst
        \/ KeepToken \/ JoinIdent \/ JoinKeyword \/ Rescan

Return == Finish \/ ReturnObj \/ ReturnRescan \/ ReturnArg

Next == Directive \/ Step \/ Arguments \/ Body \/ Return \/ TouchStale

Spec == Init /\ [][Next]_vars

\* The code is one thread that does not wait for anything.
FairSpec == Spec /\ WF_vars(Next)

-----------------------------------------------------------------------------
(* Properties.                                                              *)

\* Every variable stays in its set; the pool's counter stays in its bound.
TypeOK ==
    /\ macros \in [Names -> MacroDef \cup {None}]
    /\ macro_stack \in Seq(Names)
    /\ max_used \in 0..MAX_BUFFERS
    /\ frames \in Seq(Frame) /\ frames # << >>
    /\ status \in Statuses

\* The activations up to the j-th whose macro is being expanded.
Held(j) == {k \in 1..j : frames[k].phase \in Holding}

\* macro_stack is exactly the macros whose bodies are being expanded, outermost
\* first: each kv_push of macro_use_objlike and macro_use_fnlike meets its
\* kv_pop (pp2_macro.c:305-310, 319-322) whatever was expanded in between, and
\* the arguments of a call are expanded without the callee on it.
StackMirrorsCalls ==
    /\ Len(macro_stack) = Cardinality(Held(Len(frames)))
    /\ \A j \in Held(Len(frames)) :
          macro_stack[Cardinality(Held(j))] = frames[j].name

\* No macro is entered while its own expansion is live, although a call checks
\* macro_stack (pp2_macro.c:340) before it expands its arguments and pushes its
\* name only after them (305).
NoSelfNesting ==
    \A j, k \in 1..Len(macro_stack) : macro_stack[j] = macro_stack[k] => j = k

HasHash(tokens) == \E k \in 1..Len(tokens) : tokens[k].kind = "HASH"

\* A directive is obeyed or refused, never copied: no # reaches an activation's
\* output, so none reaches the parser, and rescanning the body of a
\* function-like macro (pp2_macro.c:308-309) never meets one.
NoDirectiveInOutput ==
    \A j \in 1..Len(frames) :
       /\ ~HasHash(frames[j].stream)
       /\ j > 1 /\ frames[j - 1].phase = "rescan" => ~HasHash(frames[j].src)

\* The parentheses that tokens[j..k] opens and does not close.
Opened(tokens, j, k) ==
    Cardinality({m \in j..k : tokens[m].kind = "LP"})
      - Cardinality({m \in j..k : tokens[m].kind = "RP"})

\* tokens[k] may be read as the # of a # define.
IsDirective(tokens, k) ==
    tokens[k].kind = "HASH" /\ TRUE \in DefineReads(TokenAt(tokens, k + 1))

StartsLine(tokens, k) == k = 1 \/ tokens[k - 1].kind = "NL"

\* Every # define starts a line and stands in no parentheses.
DirectivesOnOwnLines(tokens) ==
    \A k \in 1..Len(tokens) : IsDirective(tokens, k) =>
       StartsLine(tokens, k) /\ \A j \in 1..k : Opened(tokens, j, k) <= 0

\* ... and every line before it is a directive or blank.
DefinesFirst(tokens) ==
    /\ DirectivesOnOwnLines(tokens)
    /\ \A k \in 1..Len(tokens) : IsDirective(tokens, k) =>
          \A j \in 1..(k - 1) :
             StartsLine(tokens, j) => tokens[j].kind \in {"HASH", "NL"}

Source == frames[1].src

\* Only a directive inside a macro body or inside a call can free or move a
\* definition that an expansion still reads (the body held by
\* pp2_macro.c:320, the `def` held across recursively_expand at 302-306).
NoStaleUse == status = "stale" => ~DirectivesOnOwnLines(Source)

\* The identifiers in a macro's body.
Mentions(n) ==
    IF macros[n] = None THEN {}
    ELSE {macros[n].body[k].id : k \in {k \in 1..Len(macros[n].body) :
                                          macros[n].body[k].kind = "IDENT"}}

\* The identifiers that the expansion of a macro can come to: the least set
\* that contains what its body mentions and what the members' bodies mention.
Reachable(n) ==
    {m \in Names :
       \A S \in SUBSET Names :
          Mentions(n) \subseteq S /\ (\A a \in S : Mentions(a) \subseteq S) => m \in S}

HasPaste == \E k \in 1..Len(Source) : Source[k].kind = "PASTE"

\* "expands the macro body recursively until no macros remain"
\* (pp2_macro.c:8-9): in a program that defines its macros first, an object-like
\* macro left in the output is one whose expansion comes back to itself.
RemainingMacrosAreCyclic ==
    status = "done" /\ DefinesFirst(Source) /\ ~HasPaste =>
       \A k \in 1..Len(Top.stream) :
          LET t == Top.stream[k] IN
            IsMacro(t) /\ ~macros[t.id].fnlike => t.id \in Reachable(t.id)

\* Every compilation ends, however macros name each other (expansion is cut off
\* by check_cyclic_macros) and wherever a call breaks off, but for one case:
\* end of file inside an inner parenthesis, which UnclosedCallIsReported is about.
Terminates ==
    <>(status # "run" \/ (Collecting /\ Top.depth > 0 /\ Tok.kind = "EOF"))

\* "Unexpected EOF" (pp2_macro.c:181-182): a call whose parenthesis is not
\* closed is reported.
UnclosedCallIsReported ==
    [](Running("args") /\ Tok.kind = "EOF" => <>(status = "error"))

\* bp_get's assertion (bufferpool.h:7): a free buffer is there for every caller.
PoolNeverExhausted == status # "abort"
=============================================================================
