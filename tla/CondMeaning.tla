----------------------------- MODULE CondMeaning -----------------------------
(***************************************************************************)
(* What C says of the value of a condition: its grammar, as the phrases    *)
(* that stand in a sequence of tokens, with neither a stack of calls nor   *)
(* binding powers to call with.  A macro is the text of its expansion; it  *)
(* is part of a phrase here if that text is an expression and no operator  *)
(* next to it would take it apart; a macro that leads back to itself is    *)
(* part of none.  C's defined without parentheses is left out.             *)
(***************************************************************************)
EXTENDS CondEval

CONSTANT Depth    \* how deep a condition is nested for ValueIsC to speak of it

ASSUME MeaningAssumption == Depth \in Nat

\* The condition and the expansions.
Texts == Conditions \cup {Macros[m] : m \in DOMAIN Macros}
In(t, i) == IF i \in 1..Len(t) THEN t[i] ELSE "eof"

\* A phrase stands from `from` to before `to`; power is that of its outermost
\* operator.  It fails if C divides by zero to evaluate it.  It skips if C leaves
\* an operand of || or && unevaluated, or a division by zero in the branch of a
\* ternary operator that is not taken.
New(from, to, power, v) ==
    [from |-> from, to |-> to, power |-> power, value |-> v, fails |-> FALSE, skips |-> FALSE]
Tight == 200
UnaryPower == 130
TernaryPower == 25

IsDefined(t, i) ==
    In(t, i) = "defined" /\ In(t, i + 1) = "(" /\ IsIdent(In(t, i + 2)) /\ In(t, i + 3) = ")"

Singles(t) ==
    {New(i, i + 1, Tight, Num[t[i]]) : i \in {i \in 1..Len(t) : t[i] \in DOMAIN Num}}
    \cup {New(i, i + 1, Tight, 0) : i \in {i \in 1..Len(t) : t[i] = "undefined"}}
    \cup {New(i, i + 4, Tight, Truth(In(t, i + 2) \in DOMAIN Macros)) :
            i \in {i \in 1..Len(t) : IsDefined(t, i)}}

\* The phrases of E that are all of t, up to the end of the line.
Whole(t, E) == {e \in E : e.from = 1 /\ In(t, e.to) \in {"eof", "nl"}}

\* P gives the phrases of each text.
MacroPhrases(t, P) ==
    UNION {{[e EXCEPT !.from = i, !.to = i + 1] : e \in Whole(Macros[t[i]], P[Macros[t[i]]])} :
             i \in {i \in 1..Len(t) : t[i] \in DOMAIN Macros}}

Parenthesised(t, E) ==
    {[e EXCEPT !.from = @ - 1, !.to = @ + 1, !.power = Tight] :
       e \in {e \in E : In(t, e.from - 1) = "(" /\ In(t, e.to) = ")"}}

Unary(op, v) == IF op = "!" THEN Truth(v = 0) ELSE IF op = "-" THEN -v ELSE v

Prefixed(t, E) ==
    {[e EXCEPT !.from = @ - 1, !.power = UnaryPower, !.value = Unary(In(t, e.from - 1), @)] :
       e \in {e \in E : e.power >= UnaryPower /\ In(t, e.from - 1) \in DOMAIN Prefix}}

\* Operators of the same power group from the left.
Joins(t, l, r) ==
    LET op == In(t, l.to) IN
      op \in DOMAIN Infix /\ r.from = l.to + 1 /\ l.power >= Infix[op] /\ r.power > Infix[op]

\* With the left side v the right side of op is not evaluated.
Decides(op, v) == (op = "||" /\ v # 0) \/ (op = "&&" /\ v = 0)

Join(op, l, r) ==
    LET decided == Decides(op, l.value)
        undefined == op = "/" /\ r.value = 0
    IN [from |-> l.from, to |-> r.to, power |-> Infix[op],
        value |-> IF decided THEN Truth(op = "||")
                  ELSE IF undefined THEN 0 ELSE Apply(op, l.value, r.value),
        fails |-> l.fails \/ (~decided /\ (r.fails \/ undefined)),
        skips |-> l.skips \/ r.skips \/ decided]

Joined(t, E) ==
    {Join(In(t, p[1].to), p[1], p[2]) : p \in {p \in E \X E : Joins(t, p[1], p[2])}}

\* The ternary operator groups from the right.
Chooses(t, c, a, b) ==
    /\ c.power > TernaryPower /\ In(t, c.to) = "?"
    /\ a.from = c.to + 1 /\ In(t, a.to) = ":" /\ b.from = a.to + 1

Choice(c, a, b) ==
    LET taken == IF c.value # 0 THEN a ELSE b
        other == IF c.value # 0 THEN b ELSE a
    IN [from |-> c.from, to |-> b.to, power |-> TernaryPower, value |-> taken.value,
        fails |-> c.fails \/ taken.fails,
        skips |-> c.skips \/ a.skips \/ b.skips \/ other.fails]

Chosen(t, E) ==
    {Choice(p[1], p[2], p[3]) :
       p \in {p \in {c \in E : In(t, c.to) = "?"} \X {a \in E : In(t, a.to) = ":"} \X E :
                Chooses(t, p[1], p[2], p[3])}}

\* The phrases made of those that P gives.
Made(t, P) ==
    LET E == P[t] IN
      Singles(t) \cup MacroPhrases(t, P) \cup Parenthesised(t, E)
        \cup Prefixed(t, E) \cup Joined(t, E) \cup Chosen(t, E)

\* The phrases nested up to n deep, for each n up to d.
Nested(d) ==
    LET phrases[n \in 0..d] ==
          IF n = 0 THEN [t \in Texts |-> {}] ELSE [t \in Texts |-> Made(t, phrases[n - 1])]
    IN phrases

\* What the tokens up to the end of the line are by C's grammar.
Readings(t) == Whole(t, Nested(Depth)[Depth][t])

\* The value that C gives them.
Meanings(t) == {e.value : e \in {e \in Readings(t) : ~e.fails}}

\* eval_cond (pp2_cond.c:111-130) computes what C says of the condition, whatever
\* operators, parentheses and macros it is made of, and does not fail, if C gives
\* it a value and leaves nothing unevaluated on the way.  (What it does where C
\* leaves something unevaluated, and where the text of a macro is taken apart, is
\* the matter of EveryValueIsC in MCCondEval.)
ValueIsC ==
    status # "running" =>
       \A e \in Readings(sources[1].tokens) :
          ~e.fails /\ ~e.skips => status = "done" /\ value = e.value
==============================================================================
