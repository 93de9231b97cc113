------------------------- MODULE MCPreprocess2Test -------------------------
(***************************************************************************)
(* The source of test/preprocess2_1.c (lines 15-27), on which its macros   *)
(* A and B are used one after the other.                                   *)
(***************************************************************************)
EXTENDS MacroExpansion

CONSTANTS A, B, str1, str2, a, b, c, x, y, z, ab, D

TestNames == {A, B, str1, str2, a, b, c, x, y, z, ab, D}

TestConcat == [m \in TestNames |-> [n \in TestNames |-> ab]]

glp == [Simple("LP") EXCEPT !.glued = TRUE]
three(p, q, r) == <<Ident(p), Simple("COMMA"), Ident(q), Simple("COMMA"), Ident(r)>>

Line(n, params, body) ==
    <<Simple("HASH"), Ident(D), Ident(n), glp>> \o params \o <<Simple("RP")>>
    \o body \o <<Simple("NL")>>

Call(n, args) == <<Ident(n), glp>> \o args \o <<Simple("RP")>>

TestSource ==
    Line(str1, <<Ident(a)>>, <<Simple("HASH"), Ident(a)>>)
    \o Line(str2, <<Ident(a)>>, Call(str1, <<Ident(a)>>))
    \o Line(A, three(a, b, c),
            <<Ident(a), Simple("PASTE"), Ident(b), Simple("OP")>>
            \o Call(str2, <<Ident(c)>>) \o <<Simple("OP")>>)
    \o Line(B, three(a, b, c), Call(A, three(a, b, c)) \o Call(A, three(c, b, a)))
    \o Call(A, three(x, y, z)) \o <<Simple("NL")>>
    \o Call(B, three(x, y, z)) \o <<Simple("NL")>>

TestPrograms == {TestSource}
=============================================================================
