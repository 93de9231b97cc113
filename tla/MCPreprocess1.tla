---------------------------- MODULE MCPreprocess1 ----------------------------
(***************************************************************************)
(* Sources for TLC: texts with comments, and include directives.           *)
(***************************************************************************)
EXTENDS Preprocess1, SequencesExt

Texts(alphabet, n) == UNION {[1..k -> alphabet] : k \in 0..n}

ShortTexts(n) == Texts({"/", "*", "\\", "nl", "x"}, n)
CommentSources == ShortTexts(4) \cup {<<"/">> \o t : t \in ShortTexts(5)}

-----------------------------------------------------------------------------
(* Include directives: well-formed or not, nested, cyclic, in comments.     *)

Line(text) == Append(text, "nl")
Including(f) == <<"#", "include", "quote", f, "quote">>

IncludeFiles ==
    [f \in {"a", "b", "c", "d", "e", "yoyo"} |->
       CASE f = "a" -> Line(Including("b"))
         [] f = "b" -> Line(Including("a"))
         [] f = "c" -> <<"x", "/">>
         [] f = "d" -> Line(Including("d"))
         [] f = "e" -> <<"/", "*", "*", "/">> \o Line(Including("a"))
         [] f = "yoyo" -> <<"x", "nl", "x", "nl", "/", "/", "x", "nl">>]

Heads == {<<"#">>, <<"#", "nl", "sp">>, <<"#", "/", "*", "*", "/">>, <<"/", "/", "#">>, <<"/", "#">>}
Names1 == {<<"include", "sp", "quote", f, "quote">> : f \in {"a", "c", "d", "x"}}
         \cup {<<"include", "<", "c", ">">>, <<"include", "<", "c">>, <<"include", "c">>,
               <<"x", "include">>, <<"include", "quote", "c", ">", "quote">>,
               <<"include", "quote", "quote">>}
Tails == {<< >>, <<"nl">>, <<"sp", "nl", "/", "/", "x">>, <<"x">>}

IncludeSources ==
    {h \o n \o t : h \in Heads, n \in Names1, t \in Tails}
    \cup {Line(Including(f)) \o Line(Including(g)) \o t :
             f \in {"c", "x"}, g \in {"a", "c"}, t \in Tails \cup {Line(Including("c"))}}
    \cup {FlattenSeq([k \in 1..4 |-> Line(Including("c"))])}
    \cup {Line(Including("e"))}

\* The source of test/preprocess1_1.c; that of test/preprocess1_2.c is a file that
\* includes itself.
TestSource ==
    <<"#", "include", "<", "yoyo", ">", "nl",
      "/", "/", "x", "sp", "\\", "nl", "sp", "x", "nl", "x", "nl", "x", "nl">>

AllSources == CommentSources \cup IncludeSources \cup {TestSource, Including("d")}

-----------------------------------------------------------------------------
\* One source for each way in which more than the comments goes: a slash without
\* a second one, a comment that ends behind a splice, and one that ends with the
\* source.
OtherSources == {<<"/", "x">>, <<"/", "/", "\\", "nl", "nl", "x">>, <<"/", "/", "\\">>}
=============================================================================
