----------------------------- MODULE MCCondEval -----------------------------
(***************************************************************************)
(* Conditions written out from expression trees, and what C says of their  *)
(* value.                                                                  *)
(***************************************************************************)
EXTENDS CondMeaning

\* A tree is a leaf token, <<op, operand>>, <<op, left, right>>, or
\* <<"?", condition, then, else>>; leaves are <<token>>.
Leaves == {<<"0">>, <<"1">>, <<"2">>, <<"undefined">>, <<"A">>, <<"C">>}
FewLeaves == {<<"0">>, <<"1">>, <<"2">>}

\* The text of B is no expression.
MacroDefs ==
    [m \in {"A", "B", "C"} |->
       CASE m = "A" -> <<"1", "+", "1">> [] m = "B" -> <<"-", "1", ":", "0">> [] m = "C" -> <<"-", "1">>]
MacroTrees == [m \in {"A", "C"} |-> IF m = "A" THEN <<"+", <<"1">>, <<"1">>>> ELSE <<"-", <<"1">>>>]

Unaries(T) == {<<op, t>> : op \in DOMAIN Prefix, t \in T} 
Binary(ops, S, T) == {<<op, s, t>> : op \in ops, s \in S, t \in T}
Ternary(S) == {<<"?", a, b, c>> : a \in S, b \in S, c \in S}

RECURSIVE Power(_), Spelled(_, _), Value(_)

Power(t) ==
    CASE Len(t) = 1 -> IF t[1] \in DOMAIN MacroTrees THEN Power(MacroTrees[t[1]]) ELSE 200
      [] Len(t) = 2 -> 130 [] Len(t) = 3 -> Infix[t[1]] [] Len(t) = 4 -> 25

\* The tree with the parentheses it needs as an operand at power p.
Spelled(t, p) ==
    LET text == CASE Len(t) = 1 -> t
                  [] Len(t) = 2 -> <<t[1]>> \o Spelled(t[2], 130)
                  [] Len(t) = 3 -> Spelled(t[2], Infix[t[1]]) \o <<t[1]>> \o Spelled(t[3], Infix[t[1]] + 1)
                  [] Len(t) = 4 -> Spelled(t[2], 26) \o <<"?">> \o Spelled(t[3], 0) \o <<":">> \o Spelled(t[4], 25)
    IN IF Power(t) < p THEN <<"(">> \o text \o <<")">> ELSE text

\* Undefined when it divides by zero, which no operand that C evaluates may.
BAD == 1000
Value(t) ==
    CASE Len(t) = 1 -> IF t[1] \in DOMAIN Num THEN Num[t[1]]
                       ELSE IF t[1] \in DOMAIN MacroTrees THEN Value(MacroTrees[t[1]]) ELSE 0
      [] Len(t) = 2 -> LET v == Value(t[2]) IN
                         IF v = BAD THEN BAD
                         ELSE IF t[1] = "!" THEN Truth(v = 0) ELSE IF t[1] = "-" THEN -v ELSE v
      [] Len(t) = 3 -> LET l == Value(t[2])  r == Value(t[3]) IN
                         IF l = BAD THEN BAD
                         ELSE IF t[1] = "||" /\ l # 0 THEN 1
                         ELSE IF t[1] = "&&" /\ l = 0 THEN 0
                         ELSE IF r = BAD \/ (t[1] = "/" /\ r = 0) THEN BAD
                         ELSE Apply(t[1], l, r)
      [] Len(t) = 4 -> LET c == Value(t[2]) IN
                         IF c = BAD THEN BAD ELSE IF c # 0 THEN Value(t[3]) ELSE Value(t[4])

Level1(ops, leaves) == leaves \cup Unaries(leaves) \cup Binary(ops, leaves, leaves)
Strict == DOMAIN Infix \ {"||", "&&"}
Level2 == Level1(Strict, FewLeaves)
Trees ==
    Level1(Strict, Leaves)
    \cup Unaries(Level1(Strict, {<<"1">>, <<"A">>, <<"C">>}))
    \cup Binary({"==", "-", "/"}, Level2, {<<"1">>, <<"2">>, <<"-", <<"2">>>>})
    \cup Binary({"<", "-", "*"}, {<<"1">>, <<"2">>}, Level2)
    \cup Ternary({<<"0">>, <<"1">>, <<"A">>, <<"-", <<"1">>, <<"2">>>>, <<"?", <<"0">>, <<"1">>, <<"2">>>>})
    \cup Binary({"||"}, {<<"0">>, <<"-", <<"1">>, <<"1">>>>}, Level2)
    \cup Binary({"&&"}, {<<"1">>, <<"-", <<"1">>>>}, Level2)

LogicTrees == Binary({"||", "&&"}, FewLeaves, FewLeaves \cup Unaries(FewLeaves))

Written(trees) == {<<Spelled(t, 0), Value(t)>> : t \in trees}

WrittenTrees == Written(Trees)
TreeConditions == {w[1] : w \in WrittenTrees}

WrittenLogic == Written(LogicTrees)
LogicConditions == {w[1] : w \in WrittenLogic}

BranchTrees == Ternary(FewLeaves \cup {<<"/", <<"1">>, <<"0">>>>})
WrittenBranches == Written(BranchTrees)
BranchConditions == {w[1] : w \in WrittenBranches}

Condition == sources[1].tokens

\* The grammar gives a tree, as it is written out, the value of the tree, and no other.
ASSUME TreesMean ==
    \A w \in {w \in WrittenTrees \cup WrittenLogic \cup WrittenBranches : w[1] \in Conditions} :
       Meanings(w[1]) = IF w[2] = BAD THEN {} ELSE {w[2]}

\* Macros are text: what stands in a condition is their expansions' tokens.
RECURSIVE Flat(_)
Flat(t) ==
    IF t = << >> THEN << >>
    ELSE (IF Head(t) \in DOMAIN Macros THEN Macros[Head(t)] ELSE <<Head(t)>>) \o Flat(Tail(t))

Replaced == {c \in Conditions : \A i \in 1..Len(c) : c[i] # "defined"}
Text == INSTANCE CondMeaning
          WITH Conditions <- {Flat(c) : c \in Replaced}, Macros <- [m \in {} |-> << >>]

\* The grammar gives a condition with macros no value but that of its text.
ASSUME MacrosMeanText == \A c \in Replaced : Meanings(c) \subseteq Text!Meanings(Flat(c))

\* eval_cond computes what C says of the text that the expansions make, whether
\* the left side of || or && decides (pp2_cond.c:93-97), a branch that is not taken
\* divides by zero (100-106), or a macro's text is no operand (66-72).
EveryValueIsC ==
    status # "running" => \A v \in Text!Meanings(Flat(Condition)) : status = "done" /\ value = v

\* Macros next to an operator, as they are.
TextConditions ==
    {<<m, op, n>> : m, n \in {"2", "A", "C"}, op \in Strict} \cup {<<op, m>> : op \in DOMAIN Prefix, m \in {"A", "C"}}

\* Any tokens, well-formed or not.
AnyConditions ==
    UNION {[1..n -> {"1", "A", "B", "+", "*", "!", "||", "(", ")", "?", ":"}] : n \in 0..3} \cup TextConditions
    \cup {<<"1", op, "1">> \o t : op \in {"+", "*"}, t \in [1..3 -> {"1", "+", "*", "!", ")"}]}
    \cup {<<"1", "?">> \o t : t \in [1..3 -> {"1", "B", ":", "+", "*"}]}
    \cup {<<"defined">> \o t : t \in UNION {[1..n -> {"(", ")", "A", "undefined"}] : n \in 0..3}}

AllConditions == TreeConditions \cup AnyConditions
OtherConditions == LogicConditions \cup BranchConditions \cup TextConditions
=============================================================================
