------------------------------ MODULE CondEval ------------------------------
(***************************************************************************)
(* The evaluator of #if conditions (frontend/pp2_cond.c), a Pratt parser   *)
(* that computes values instead of trees: eval_cond reads an operand with  *)
(* nud and then, with led, every operator that binds tighter than minbp.   *)
(*                                                                         *)
(* Each call of eval_cond is a frame; a frame that waits for the value of  *)
(* a call it made says so in `wait`.  The expansion of a macro is a token  *)
(* source of its own.  The operators that are left out differ from those   *)
(* here only in the value they compute.                                    *)
(***************************************************************************)
EXTENDS Integers, Sequences, FiniteSets

CONSTANTS
    Conditions,   \* the token sequences that are evaluated
    Macros        \* from the names of the macros to what macro_use makes of them

Num == [n \in {"0", "1", "2"} |-> CASE n = "0" -> 0 [] n = "1" -> 1 [] n = "2" -> 2]

\* PP_INFIX_OPERATORS: the binding powers of the infix operators.
Infix == [op \in {"||", "&&", "==", "<", "+", "-", "*", "/"} |->
            CASE op = "||" -> 30 [] op = "&&" -> 40 [] op = "==" -> 80 [] op = "<" -> 90
              [] op \in {"+", "-"} -> 110 [] op \in {"*", "/"} -> 120]

\* PP_PREFIX_OPERATORS
Prefix == [op \in {"!", "+", "-"} |-> 130]

Ends == {"eof", ")", ":", "nl"}

\* What is not the name of a macro.
Reserved ==
    Ends \cup DOMAIN Num \cup DOMAIN Infix \cup DOMAIN Prefix
         \cup {"(", "?", "defined", "undefined"}

ASSUME CondAssumption ==
    /\ \A c \in Conditions : c \in Seq(STRING)
    /\ \A m \in DOMAIN Macros : m \notin Reserved /\ Macros[m] \in Seq(STRING)

VARIABLES
    sources,   \* the token sources, each with its pos, the one being read last
    frames,    \* the calls of eval_cond that have not returned, the latest last
    value,     \* what the last of them returned
    status

vars == <<sources, frames, value, status>>

Source(tokens) == [tokens |-> tokens, pos |-> 1]

\* A call of eval_cond: `left` is its local variable; `wait` is what it will do
\* with the value of the call it waits for, or "nud" or "loop" when it runs.
Frame(minbp) == [minbp |-> minbp, left |-> 0, then |-> 0, wait |-> "nud"]

Waits == {"nud", "loop", "paren", "macro", "then", "else"}
           \cup DOMAIN Infix \cup {"!", "unary +", "unary -"}

Init ==
    /\ \E c \in Conditions : sources = <<Source(c)>>
    /\ frames = <<Frame(0)>> /\ value = 0 /\ status = "running"

-----------------------------------------------------------------------------
Src == sources[Len(sources)]
Top == frames[Len(frames)]
TokenAt(i) == IF i \in 1..Len(Src.tokens) THEN Src.tokens[i] ELSE "eof"
Peeked == TokenAt(Src.pos)

At(wait) == status = "running" /\ Top.wait = wait

Consume(n) == sources' = [sources EXCEPT ![Len(sources)].pos = @ + n]
SetTop(f) == frames' = [frames EXCEPT ![Len(frames)] = f]

\* The running call calls eval_cond.
Call(f, minbp) == frames' = Append([frames EXCEPT ![Len(frames)] = f], Frame(minbp))

Fail(reason) == status' = reason /\ UNCHANGED <<sources, frames, value>>

Operand(v) == SetTop([Top EXCEPT !.left = v, !.wait = "loop"]) /\ UNCHANGED <<value, status>>

Truth(b) == IF b THEN 1 ELSE 0

-----------------------------------------------------------------------------
(* nud.                                                                     *)

Number == At("nud") /\ Peeked \in DOMAIN Num /\ Consume(1) /\ Operand(Num[Peeked])

IsIdent(t) == t \in DOMAIN Macros \cup {"undefined", "defined"}

\* A seeded fault: the closing parenthesis is skipped unseen.
FaultyDefined ==
    /\ At("nud") /\ Peeked = "defined"
    /\ IF TokenAt(Src.pos + 1) = "(" /\ IsIdent(TokenAt(Src.pos + 2))
       THEN Consume(4) /\ Operand(Truth(TokenAt(Src.pos + 2) \in DOMAIN Macros))
       ELSE Fail("error")

Defined ==
    /\ At("nud") /\ Peeked = "defined"
    /\ IF TokenAt(Src.pos + 1) = "(" /\ IsIdent(TokenAt(Src.pos + 2)) /\ TokenAt(Src.pos + 3) = ")"
       THEN Consume(4) /\ Operand(Truth(TokenAt(Src.pos + 2) \in DOMAIN Macros))
       ELSE Fail("error")

NotAMacro == At("nud") /\ Peeked = "undefined" /\ Consume(1) /\ Operand(0)

MacroOperand ==
    /\ At("nud") /\ Peeked \in DOMAIN Macros
    /\ sources' = Append([sources EXCEPT ![Len(sources)].pos = @ + 1], Source(Macros[Peeked]))
    /\ Call([Top EXCEPT !.wait = "macro"], 0)
    /\ UNCHANGED <<value, status>>

PrefixOperator ==
    /\ At("nud") /\ Peeked \in DOMAIN Prefix
    /\ Consume(1)
    /\ Call([Top EXCEPT !.wait = IF Peeked = "!" THEN "!" ELSE IF Peeked = "+" THEN "unary +" ELSE "unary -"],
            Prefix[Peeked])
    /\ UNCHANGED <<value, status>>

OpenParen ==
    /\ At("nud") /\ Peeked = "("
    /\ Consume(1) /\ Call([Top EXCEPT !.wait = "paren"], 0)
    /\ UNCHANGED <<value, status>>

BadOperand ==
    /\ At("nud")
    /\ Peeked \notin DOMAIN Num \cup DOMAIN Prefix \cup {"("} /\ ~IsIdent(Peeked)
    /\ Fail("error")

-----------------------------------------------------------------------------
(* The loop of eval_cond, and led.                                          *)

\* get_bp: the powers are looked up infix first.
Bp(op) ==
    IF op \in DOMAIN Infix THEN Infix[op]
    ELSE IF op \in DOMAIN Prefix THEN Prefix[op]
    ELSE IF op = "(" THEN 140 ELSE 25

IsOperator(t) == t \in DOMAIN Infix \cup DOMAIN Prefix \cup {"(", "?"}

\* A seeded fault: operators of the same power group from the right.
FaultyBinds(op) == IsOperator(op) /\ Bp(op) >= Top.minbp

Binds(op) == IsOperator(op) /\ Bp(op) > Top.minbp

\* C evaluates the operand of || and && only if the left side does not decide.
Decided(op) == (op = "||" /\ Top.left # 0) \/ (op = "&&" /\ Top.left = 0)

ShortCircuit ==
    /\ At("loop") /\ Binds(Peeked) /\ Decided(Peeked)
    /\ Consume(1) /\ SetTop([Top EXCEPT !.left = Truth(Peeked = "||")])
    /\ UNCHANGED <<value, status>>

InfixOperator ==
    /\ At("loop") /\ Peeked \in DOMAIN Infix /\ Binds(Peeked) /\ ~Decided(Peeked)
    /\ Consume(1) /\ Call([Top EXCEPT !.wait = Peeked], Infix[Peeked])
    /\ UNCHANGED <<value, status>>

Question ==
    /\ At("loop") /\ Peeked = "?" /\ Binds("?")
    /\ Consume(1) /\ Call([Top EXCEPT !.wait = "then"], 0)
    /\ UNCHANGED <<value, status>>

\* get_bp or led finds no infix operator.
BadOperator ==
    /\ At("loop") /\ Peeked \notin Ends
    /\ IF IsOperator(Peeked) THEN Binds(Peeked) /\ Peeked \notin DOMAIN Infix \cup {"?"} ELSE TRUE
    /\ Fail("error")

\* A seeded fault: a call returns only at the end of its expression.
FaultyReturn ==
    /\ At("loop") /\ Peeked \in Ends
    /\ value' = Top.left
    /\ IF Len(frames) = 1 THEN status' = "done" /\ UNCHANGED frames
                          ELSE frames' = SubSeq(frames, 1, Len(frames) - 1) /\ UNCHANGED status
    /\ UNCHANGED sources

\* The outermost call leaves its frame.
Return ==
    /\ At("loop")
    /\ Peeked \in Ends \/ (IsOperator(Peeked) /\ ~Binds(Peeked))
    /\ value' = Top.left
    /\ IF Len(frames) = 1 THEN status' = "done" /\ UNCHANGED frames
                          ELSE frames' = SubSeq(frames, 1, Len(frames) - 1) /\ UNCHANGED status
    /\ UNCHANGED sources

-----------------------------------------------------------------------------
(* The rest of nud and led, when a call has returned.  A frame that waits   *)
(* is on top only then.                                                     *)

\* C division rounds towards 0.
Quotient(a, b) ==
    LET abs(n) == IF n < 0 THEN -n ELSE n
        q == abs(a) \div abs(b)
    IN IF (a < 0) = (b < 0) THEN q ELSE -q

Apply(op, a, b) ==
    CASE op = "+" -> a + b [] op = "-" -> a - b [] op = "*" -> a * b [] op = "/" -> Quotient(a, b)
      [] op = "==" -> Truth(a = b) [] op = "<" -> Truth(a < b)
      [] op \in {"||", "&&"} -> Truth(b # 0)

Applied ==
    /\ status = "running" /\ Top.wait \in DOMAIN Infix
    /\ IF Top.wait = "/" /\ value = 0 THEN Fail("division by zero")
       ELSE Operand(Apply(Top.wait, Top.left, value)) /\ UNCHANGED sources

Negated == At("!") /\ Operand(Truth(value = 0)) /\ UNCHANGED sources
Plus == At("unary +") /\ Operand(value) /\ UNCHANGED sources
Minus == At("unary -") /\ Operand(-value) /\ UNCHANGED sources

CloseParen ==
    /\ At("paren")
    /\ IF Peeked = ")" THEN Consume(1) /\ Operand(value) ELSE Fail("error")

\* A seeded fault: the rest of the condition is read from the expansion.
FaultyEndMacro == At("macro") /\ Operand(value) /\ UNCHANGED sources

\* What the expansion has left over is dropped with its source.
EndMacro ==
    /\ At("macro") /\ Operand(value)
    /\ sources' = SubSeq(sources, 1, Len(sources) - 1)

Colon ==
    /\ At("then")
    /\ IF Peeked = ":" THEN /\ Consume(1)
                            /\ Call([Top EXCEPT !.then = value, !.wait = "else"], 0)
                            /\ UNCHANGED <<value, status>>
       ELSE Fail("error")

EndTernary ==
    /\ At("else") /\ Operand(IF Top.left # 0 THEN Top.then ELSE value)
    /\ UNCHANGED sources

-----------------------------------------------------------------------------
Next ==
    \/ Number \/ Defined \/ NotAMacro \/ MacroOperand \/ PrefixOperator \/ OpenParen \/ BadOperand
    \/ ShortCircuit \/ InfixOperator \/ Question \/ BadOperator \/ Return
    \/ Applied \/ Negated \/ Plus \/ Minus \/ CloseParen \/ EndMacro \/ Colon \/ EndTernary

Spec == Init /\ [][Next]_vars /\ WF_vars(Next)

-----------------------------------------------------------------------------
(* Properties.                                                              *)

\* Every variable stays in its set.
TypeOK ==
    /\ frames # << >> /\ frames \in Seq([minbp : Nat, left : Int, then : Int, wait : Waits])
    /\ sources # << >> /\ sources \in Seq([tokens : Seq(STRING), pos : Nat])
    /\ \A k \in 1..Len(sources) : sources[k].pos \in 1..(Len(sources[k].tokens) + 1)
    /\ value \in Int
    /\ status \in {"running", "done", "error", "division by zero"}

\* A condition is read from an expansion exactly as long as the operand that the
\* macro stands for is evaluated (pp2_cond.c:66-72).
SourcesMirrorFrames ==
    status = "running" =>
       Len(sources) = 1 + Cardinality({k \in 1..Len(frames) : frames[k].wait = "macro"})

\* An operator that waits for its right operand binds tighter than what its call
\* was made for, and its operand's call takes only what binds tighter still.
PowersAscend ==
    \A k \in 1..(Len(frames) - 1) :
       frames[k].wait \in DOMAIN Infix =>
          /\ Infix[frames[k].wait] > frames[k].minbp
          /\ frames[k + 1].minbp = Infix[frames[k].wait]

\* The value is that of the whole condition: nothing is left unread before the
\* end of the line, a parenthesis or a colon.
WholeConditionRead == status = "done" => Len(sources) = 1 /\ Peeked \in Ends

\* The evaluation of every condition whose macros do not lead back to themselves
\* ends.
EvaluationEnds == <>(status # "running")
=============================================================================
