------------------------------- MODULE MCLexer -------------------------------
(***************************************************************************)
(* Sources for TLC: short ones over all characters, longer ones over those *)
(* that matter to words, to operators, to numbers and to strings.          *)
(***************************************************************************)
EXTENDS Lexer

Texts(alphabet, n) == UNION {[1..k -> alphabet] : k \in 0..n}

\* The source of test/lexer1.c, with the characters that stand for its own.
TestSource ==
    <<"i", "f", "sp", "i", "sp", "=", "sp", "1", ".", "1", ".", "1", "sp", "-", "sp", "1", "1", ".", "1", ",", "nl",
      "i", "i", "i", "sp", "i", "sp", "=", "sp", "quote", "i", ",", "sp", "i", "quote", ",", "nl">>

AllSources ==
    {TestSource} \cup
    Texts(Chars, 2) \cup Texts({"i", "f", "1", "(", "sp", "nl"}, 3)
    \cup Texts({"i", "(", "sp"}, 4) \cup Texts({"i", "("}, 5)
    \cup Texts(OpChars, 3) \cup Texts({"<", "=", ">"}, 4)
    \cup Texts({"1", ".", "i"}, 4) \cup Texts({"1", "."}, 5)
    \cup Texts({"quote", "\\", "i"}, 5) \cup Texts({"quote", "nl", "sp"}, 4)
=============================================================================
