--------------------------- MODULE MacroReference ---------------------------
(***************************************************************************)
(* What macro expansion is documented to compute (the header comment of    *)
(* pp2_macro.c, lines 2-14), as a recursive definition: an object-like     *)
(* macro is its body expanded until no macros remain; a function-like one  *)
(* maps parameters to expanded arguments, replaces them in the body and    *)
(* expands the result; a macro inside its own expansion stays.  Here the   *)
(* macros being expanded are a parameter, not a global stack, and calls    *)
(* are cut out of the text as a whole.                                     *)
(***************************************************************************)
EXTENDS MacroExpansion, SequencesExt

\* Parenthesis depth after the k-th token.
Depth(tokens, k) == Opened(tokens, 1, k)

\* The position of the ) that closes the ( at tokens[1].
Close(tokens) ==
    CHOOSE k \in 1..Len(tokens) :
       Depth(tokens, k) = 0 /\ \A j \in 1..(k - 1) : Depth(tokens, j) > 0

\* The argument list of the call that tokens starts with.
ArgumentsOf(tokens) ==
    LET end == Close(tokens)
        commas == {k \in 1..end : tokens[k].kind = "COMMA" /\ Depth(tokens, k) = 1}
        cut == SetToSortSeq({1, end} \cup commas, <)
    IN  [k \in 1..(Len(cut) - 1) |-> SubSeq(tokens, cut[k] + 1, cut[k + 1] - 1)]

\* The body with `bound` for its parameters; # parameter is a literal.
RECURSIVE Replaced(_, _)
Replaced(body, bound) ==
    IF body = << >> THEN << >>
    ELSE IF body[1].kind = "HASH"
         THEN <<Simple("VAL")>> \o Replaced(Rest(body, 2), bound)
         ELSE LET t == body[1] IN
              (IF t.kind = "IDENT" /\ t.id \in DOMAIN bound THEN bound[t.id] ELSE <<t>>)
              \o Replaced(Tail(body), bound)

RECURSIVE Pasted(_)
Pasted(tokens) ==
    IF tokens = << >> THEN << >>
    ELSE IF ~(tokens[1].kind = "IDENT" /\ PasteAt(tokens, 2))
         THEN <<tokens[1]>> \o Pasted(Tail(tokens))
         ELSE LET joined == Concat[tokens[1].id][tokens[3].id] IN
              Pasted(<<IF joined = None THEN Simple("OP") ELSE Ident(joined)>>
                     \o Rest(tokens, 3))

\* The expansion of tokens inside the expansions of the macros in `active`.
RECURSIVE Expansion(_, _)
Expansion(tokens, active) ==
    IF tokens = << >> THEN << >>
    ELSE
    LET t == tokens[1]
        rest == Tail(tokens)
        live == IsMacro(t) /\ t.id \notin active
    IN
    IF t.kind = "NL" THEN Expansion(rest, active)
    ELSE IF live /\ ~macros[t.id].fnlike
    THEN Expansion(macros[t.id].body, active \cup {t.id}) \o Expansion(rest, active)
    ELSE IF live /\ TokenAt(rest, 1).kind = "LP"
    THEN LET def == macros[t.id]
             passed == ArgumentsOf(rest)
             bound == [n \in ToSet(def.argnames) |->
                         LET k == CHOOSE k \in DOMAIN def.argnames :
                                     /\ def.argnames[k] = n
                                     /\ \A j \in DOMAIN def.argnames :
                                           def.argnames[j] = n => j <= k
                         IN Expansion(passed[k], active)]
         IN  Expansion(Pasted(Replaced(def.body, bound)), active \cup {t.id})
             \o Expansion(Rest(rest, Close(rest)), active)
    ELSE <<t>> \o Expansion(rest, active)

\* The text after the leading # define lines.
Text ==
    LET ends == {k \in 1..Len(Source) : Source[k].kind = "NL"
                    /\ \E j \in 1..k : /\ Source[j].kind = "HASH"
                                       /\ j = 1 \/ Source[j - 1].kind = "NL"
                                       /\ \A m \in j..(k - 1) : Source[m].kind # "NL"}
    IN  Rest(Source, IF ends = {} THEN 0 ELSE Max(ends))

\* When a program that defines its macros first is through, its output is the
\* documented expansion: sharing one macro_stack between all activations, and
\* pushing a callee only after its arguments, loses and adds nothing.
ExpandsAsDocumented ==
    status = "done" /\ DefinesFirst(Source) => Top.stream = Expansion(Text, {})
=============================================================================
