-------------------------- MODULE MCMacroExpansion --------------------------
(***************************************************************************)
(* Programs on which TLC runs MacroExpansion.  Identifiers are the model   *)
(* values below; W stands for every other one.                             *)
(***************************************************************************)
EXTENDS MacroReference

CONSTANTS X, Y, F, I, XY, W, D

MCNames == {X, Y, F, I, XY, W, D}

\* X ## Y is the identifier XY, I ## F the keyword `if`.
MCConcat ==
    [m \in MCNames |-> [n \in MCNames |->
        IF m = X /\ n = Y THEN XY ELSE IF m = I /\ n = F THEN None ELSE W]]

x == Ident(X)
y == Ident(Y)
f == Ident(F)
i == Ident(I)
lp == Simple("LP")
glp == [Simple("LP") EXCEPT !.glued = TRUE]
rp == Simple("RP")
comma == Simple("COMMA")
hash == Simple("HASH")
paste == Simple("PASTE")
one == Simple("VAL")
bad == Simple("ERROR")
plus == Simple("OP")
nl == Simple("NL")

Def(n, body) == <<hash, Ident(D), n>> \o body \o <<nl>>
DefF(params, body) == <<hash, Ident(D), f, glp>> \o params \o <<rp>> \o body \o <<nl>>
Call(arg) == <<f, lp>> \o arg \o <<rp>>

-----------------------------------------------------------------------------
(* "expansion": X and Y object-like, F function-like, in every combination  *)
(* of these bodies, then one use.                                           *)

BodiesOfX == {<<x>>, <<y, plus, x>>, Call(<<x>>), <<f>>, << >>}
BodiesOfY == {<<x>>, <<one>>, <<f, lp, y, rp>>}
DefsOfF ==
    {DefF(<<i>>, b) : b \in {<<i>>, <<i, y>>, <<hash, i>>, <<x, paste, i>>,
                             <<i, paste, f, x>>, Call(<<i>>), <<f>>,
                             <<x, paste, y, paste, i>>, <<i, paste, f, paste, y>>}}
    \cup {DefF(<< >>, <<x>>), DefF(<<i, comma, Ident(W)>>, <<Ident(W), i>>)}
Uses == {<<x, y>>, Call(<<x>>), Call(Call(<<one>>)), <<f, x, nl, y>>, Call(<< >>),
         Call(<<x, comma, y>>), Call(<<lp, y, comma, rp>>), Call(<<bad>>), Call(<<x>>) \o Call(<<y>>),
         <<f, lp, lp, x>>, Call(<<i>>), Call(Call(Call(Call(Call(<<one>>)))))}

ExpansionPrograms ==
    {Def(x, bx) \o Def(y, by) \o df \o u :
        bx \in BodiesOfX, by \in BodiesOfY, df \in DefsOfF, u \in Uses}

-----------------------------------------------------------------------------
(* "directives": every short line after `# define`, then a line that uses   *)
(* what was defined; directives inside bodies and inside calls occur.       *)

Lines(tokens, n) == UNION {[1..k -> tokens] : k \in 0..n}

DirectivePrograms ==
    {<<hash, Ident(D)>> \o l \o <<nl>> \o u :
        l \in Lines({x, f, one, hash, Ident(D), glp, rp, comma}, 4),
        u \in {<<x, x>>, Call(<<hash, Ident(D), x, one>>) \o <<x>>, <<hash, Simple("IF")>>}}
    \cup
    {Def(x, Call(<<hash, Ident(D), n>> \o b)) \o DefF(ps, fb) \o <<x, x>> :
        n \in {x, f, y}, b \in {<<one>>, <<glp, rp>>, <<glp, i, rp, i>>, <<glp, i, comma, x, rp>>},
        ps \in {<<i>>, <<i, comma, y>>}, fb \in {<<i>>, <<x>>}}
    \cup
    {DefF(<<i, comma, y>>, <<y, i>>)
        \o Call(<<hash, Ident(D), n>> \o b \o <<nl, comma>> \o a) \o <<n>> :
        n \in {x, f, y}, b \in {<<one>>, <<glp, rp>>, <<glp, i, rp, i>>}, a \in {<< >>, <<y>>}}
    \cup {Def(x, b) \o Def(x, c) \o <<x, y>> : b \in BodiesOfX, c \in BodiesOfX}
    \cup {Def(x, b) \o <<x, nl>> \o Def(n, c) \o <<x, y>> :
             b \in BodiesOfX, c \in BodiesOfX, n \in {x, y}}
    \cup {<<hash, t, x, one, nl, x>> : t \in {one, plus, lp, x, Ident(D)}}

-----------------------------------------------------------------------------
(* Calls that nest, lack a parenthesis outside any inner one, or have too   *)
(* few or too many arguments, under macros that name each other.            *)

CallPrograms ==
    {Def(x, bx) \o Def(y, by) \o df \o u :
        bx \in BodiesOfX, by \in BodiesOfY,
        df \in {DefF(<<i>>, b) : b \in {<<i>>, Call(<<x>>), <<f, f, i>>}},
        u \in {<<x, y>>, Call(Call(<<x>>)), <<f, lp, x>>, <<f, lp, lp, one, rp, comma>>,
               <<f, f, lp, y, rp, lp, x, rp>>}}

AllPrograms == ExpansionPrograms \cup DirectivePrograms \cup CallPrograms

-----------------------------------------------------------------------------
(* "unclosed": the inner parenthesis of a call is never closed.             *)

UnclosedPrograms == {DefF(<<i>>, <<i>>) \o <<f, lp, lp, one>>}
=============================================================================
