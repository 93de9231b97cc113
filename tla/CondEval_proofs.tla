-------------------------- MODULE CondEval_proofs --------------------------
(***************************************************************************)
(* Theorems about CondEval, for all conditions and all macros: also those  *)
(* that lead back to themselves, whose evaluation does not end.            *)
(***************************************************************************)
EXTENDS CondMeaning, NatInduction, TLAPS, FiniteSetTheorems, SequenceTheorems

-----------------------------------------------------------------------------
(* The inductive invariant.                                                 *)

\* eval_cond was called with 0 for the whole condition.
OutermostTakesAll == frames[1].minbp = 0

CondInv ==
    /\ TypeOK /\ SourcesMirrorFrames /\ PowersAscend /\ WholeConditionRead
    /\ OutermostTakesAll

-----------------------------------------------------------------------------
(* Calls and token sources.                                                 *)

Activation == [minbp : Nat, left : Int, then : Int, wait : Waits]
TokenSource == [tokens : Seq(STRING), pos : Nat]

\* The part of TypeOK about the sources.
SourcesOK(s) ==
    /\ s # << >> /\ s \in Seq(TokenSource)
    /\ \A k \in 1..Len(s) : s[k].pos \in 1..(Len(s[k].tokens) + 1)

\* The calls that wait for the value of a macro.
MacroFrames(fr) == {k \in 1..Len(fr) : fr[k].wait = "macro"}

LEMMA StateType ==
    ASSUME TypeOK
    PROVE  /\ frames \in Seq(Activation) /\ Len(frames) \in Nat \ {0} /\ Top \in Activation
           /\ SourcesOK(sources) /\ Len(sources) \in Nat \ {0} /\ Src \in TokenSource
           /\ Src.pos \in 1..(Len(Src.tokens) + 1) /\ Len(Src.tokens) \in Nat
           /\ value \in Int
<1>1. frames \in Seq(Activation) /\ Len(frames) \in Nat \ {0}
  BY EmptySeq DEF TypeOK, Activation
<1>2. SourcesOK(sources) /\ Len(sources) \in Nat \ {0} /\ value \in Int
  BY EmptySeq DEF TypeOK, SourcesOK, TokenSource
<1>3. Top \in Activation
  BY <1>1, ElementOfSeq DEF Top
<1>4. Src \in TokenSource /\ Src.pos \in 1..(Len(Src.tokens) + 1)
  BY <1>2, ElementOfSeq DEF Src, SourcesOK
<1>5. Len(Src.tokens) \in Nat
  BY <1>4, LenProperties DEF TokenSource
<1> QED
  BY <1>1, <1>2, <1>3, <1>4, <1>5

LEMMA MacroFramesFinite ==
    ASSUME NEW fr, Len(fr) \in Nat
    PROVE  IsFiniteSet(MacroFrames(fr)) /\ Cardinality(MacroFrames(fr)) \in Nat
<1>1. IsFiniteSet(1..Len(fr))
  BY FS_Interval
<1>2. MacroFrames(fr) \subseteq 1..Len(fr)
  BY DEF MacroFrames
<1> QED
  BY <1>1, <1>2, FS_Subset, FS_CardinalityType

LEMMA WaitTypes ==
    /\ DOMAIN Infix = {"||", "&&", "==", "<", "+", "-", "*", "/"}
    /\ DOMAIN Prefix = {"!", "+", "-"}
    /\ \A op \in DOMAIN Infix : Infix[op] \in Nat /\ Infix[op] > 0
    /\ \A op \in DOMAIN Prefix : Prefix[op] \in Nat /\ Prefix[op] > 0
    /\ "nud" \in Waits /\ "loop" \in Waits /\ "paren" \in Waits /\ "macro" \in Waits
    /\ "then" \in Waits /\ "else" \in Waits /\ "!" \in Waits
    /\ "unary +" \in Waits /\ "unary -" \in Waits
    /\ DOMAIN Infix \subseteq Waits
BY DEF Infix, Prefix, Waits

\* What SetTop, Call and a return make of the calls.
LEMMA SetTopEffect ==
    ASSUME TypeOK, NEW f \in Activation, SetTop(f)
    PROVE  /\ frames' \in Seq(Activation) /\ Len(frames') = Len(frames)
           /\ frames'[Len(frames)] = f
           /\ \A k \in 1..(Len(frames) - 1) : frames'[k] = frames[k]
<1>1. frames \in Seq(Activation) /\ Len(frames) \in Nat \ {0}
  BY StateType
<1> QED
  BY <1>1 DEF SetTop

LEMMA CallEffect ==
    ASSUME TypeOK, NEW f \in Activation, NEW m \in Nat, Call(f, m)
    PROVE  /\ frames' \in Seq(Activation) /\ Len(frames') = Len(frames) + 1
           /\ frames'[Len(frames)] = f /\ frames'[Len(frames) + 1] = Frame(m)
           /\ \A k \in 1..(Len(frames) - 1) : frames'[k] = frames[k]
<1> DEFINE g == [frames EXCEPT ![Len(frames)] = f]
<1>1. /\ g \in Seq(Activation) /\ Len(g) = Len(frames) /\ Len(frames) \in Nat \ {0}
      /\ g[Len(frames)] = f /\ \A k \in 1..(Len(frames) - 1) : g[k] = frames[k]
  <2>1. frames \in Seq(Activation) /\ Len(frames) \in Nat \ {0}
    BY StateType
  <2> QED
    BY <2>1
<1>2. Frame(m) \in Activation
  <2>1. "nud" \in Waits
    BY WaitTypes
  <2> QED
    BY <2>1 DEF Frame, Activation
<1>3. frames' = Append(g, Frame(m))
  BY DEF Call
<1> HIDE DEF g
<1> QED
  BY <1>1, <1>2, <1>3, AppendProperties

LEMMA PopEffect ==
    ASSUME NEW S, NEW s \in Seq(S), NEW n \in Nat, n + 1 = Len(s)
    PROVE  /\ SubSeq(s, 1, n) \in Seq(S) /\ Len(SubSeq(s, 1, n)) = n
           /\ \A k \in 1..n : SubSeq(s, 1, n)[k] = s[k]
<1>1. \A k \in 1..n : s[k] \in S
  BY ElementOfSeq
<1> QED
  BY <1>1, SubSeqProperties

\* The parser reads no further than the end of the source.
Advanced(n) == [sources EXCEPT ![Len(sources)].pos = @ + n]

LEMMA AdvancedSources ==
    ASSUME TypeOK, NEW n \in Nat, TokenAt(Src.pos + n) # "eof"
    PROVE  SourcesOK(Advanced(n + 1)) /\ Len(Advanced(n + 1)) = Len(sources)
<1> DEFINE s == Advanced(n + 1)
<1>1. /\ sources \in Seq(TokenSource) /\ Len(sources) \in Nat \ {0} /\ Src \in TokenSource
      /\ Src.pos \in Nat /\ Src.pos + n + 1 \in 1..(Len(Src.tokens) + 1)
      /\ \A k \in 1..Len(sources) : sources[k].pos \in 1..(Len(sources[k].tokens) + 1)
  BY StateType DEF SourcesOK, TokenAt, TokenSource
<1> DEFINE t == [Src EXCEPT !.pos = @ + (n + 1)]
<1>2. t \in TokenSource /\ t.pos \in 1..(Len(t.tokens) + 1)
  <2>1. t = [tokens |-> Src.tokens, pos |-> Src.pos + (n + 1)]
    BY <1>1 DEF TokenSource
  <2>2. Src.tokens \in Seq(STRING) /\ Src.pos + (n + 1) \in Nat
    BY <1>1 DEF TokenSource
  <2> HIDE DEF t
  <2> QED
    BY <1>1, <2>1, <2>2 DEF TokenSource
<1>3. s = [sources EXCEPT ![Len(sources)] = t]
  BY DEF Src, Advanced
<1> HIDE DEF s, t
<1>4. /\ s \in Seq(TokenSource) /\ Len(s) = Len(sources)
      /\ s[Len(sources)] = t
      /\ \A k \in 1..Len(sources) : k # Len(sources) => s[k] = sources[k]
  BY <1>1, <1>2, <1>3
<1>5. \A k \in 1..Len(sources) : s[k].pos \in 1..(Len(s[k].tokens) + 1)
  BY <1>1, <1>2, <1>4
<1>6. s # << >>
  BY <1>1, <1>4, EmptySeq
<1> QED
  BY <1>4, <1>5, <1>6 DEF SourcesOK, s

LEMMA ConsumeEffect ==
    ASSUME TypeOK, NEW n \in Nat, Consume(n + 1), TokenAt(Src.pos + n) # "eof"
    PROVE  SourcesOK(sources') /\ Len(sources') = Len(sources)
BY AdvancedSources DEF Consume, Advanced

LEMMA ReadsPeeked ==
    ASSUME TypeOK, Consume(1), Peeked # "eof"
    PROVE  SourcesOK(sources') /\ Len(sources') = Len(sources)
<1>1. Src.pos + 0 = Src.pos
  BY StateType
<1> QED
  BY <1>1, ConsumeEffect DEF Peeked

-----------------------------------------------------------------------------
(* Steps that end in the same way keep the invariant in the same way.       *)

LEMMA InitInv == Init => CondInv
<1> SUFFICES ASSUME Init PROVE CondInv
  OBVIOUS
<1>1. PICK c \in Conditions : sources = <<Source(c)>>
  BY DEF Init
<1>2. frames = <<Frame(0)>> /\ value = 0 /\ status = "running"
  BY DEF Init
<1>3. /\ Source(c) \in TokenSource /\ Source(c).pos \in 1..(Len(Source(c).tokens) + 1)
      /\ sources[1] = Source(c) /\ Len(sources) = 1
  <2>1. c \in Seq(STRING) /\ Len(c) \in Nat
    BY CondAssumption
  <2> QED
    BY <1>1, <2>1 DEF Source, TokenSource
<1>4. Frame(0) \in Activation /\ Frame(0).minbp = 0 /\ Frame(0).wait = "nud"
  <2>1. "nud" \in Waits
    BY WaitTypes
  <2> QED
    BY <2>1 DEF Frame, Activation
<1>5. /\ sources \in Seq(TokenSource) /\ frames \in Seq(Activation) /\ Len(frames) = 1
      /\ frames[1] = Frame(0)
  BY <1>1, <1>2, <1>3, <1>4
<1>6. TypeOK
  <2>1. \A k \in 1..1 : sources[k].pos \in 1..(Len(sources[k].tokens) + 1)
    BY <1>3
  <2>2. frames # << >> /\ sources # << >>
    BY <1>1, <1>2
  <2> QED
    BY <1>2, <1>3, <1>5, <2>1, <2>2 DEF TypeOK, Activation, TokenSource
<1>7. MacroFrames(frames) = {}
  <2>1. frames[1].wait # "macro"
    BY <1>4, <1>5
  <2> QED
    BY <1>5, <2>1 DEF MacroFrames
<1>8. SourcesMirrorFrames
  <2>1. Cardinality(MacroFrames(frames)) = 0
    BY <1>7, FS_EmptySet
  <2>2. Len(sources) = 1 + Cardinality(MacroFrames(frames))
    BY <1>3, <2>1
  <2> QED
    BY <2>2 DEF SourcesMirrorFrames, MacroFrames
<1>9. PowersAscend /\ WholeConditionRead /\ OutermostTakesAll
  BY <1>2, <1>4, <1>5 DEF PowersAscend, WholeConditionRead, OutermostTakesAll
<1> QED
  BY <1>6, <1>8, <1>9 DEF CondInv

LEMMA FailInv ==
    ASSUME CondInv, NEW r \in {"error", "division by zero"}, Fail(r)
    PROVE  CondInv'
<1>1. status' = r /\ r # "running" /\ r # "done" /\ UNCHANGED <<sources, frames, value>>
  BY DEF Fail
<1>2. TypeOK'
  BY <1>1 DEF CondInv, TypeOK
<1>3. SourcesMirrorFrames' /\ WholeConditionRead'
  BY <1>1 DEF SourcesMirrorFrames, WholeConditionRead
<1>4. PowersAscend' /\ OutermostTakesAll'
  BY <1>1 DEF CondInv, PowersAscend, OutermostTakesAll
<1> QED
  BY <1>2, <1>3, <1>4 DEF CondInv

\* The parts of the invariant that are about types, after a step.
LEMMA TypeAfter ==
    ASSUME frames' \in Seq(Activation), Len(frames') \in Nat \ {0}, SourcesOK(sources'),
           value' \in Int, status' \in {"running", "done", "error", "division by zero"}
    PROVE  TypeOK'
<1>1. frames' # << >>
  BY EmptySeq
<1> QED
  BY <1>1 DEF TypeOK, SourcesOK, Activation, TokenSource

\* A value becomes the left operand of the call that runs on.
LEMMA OperandInv ==
    ASSUME CondInv, status = "running", UNCHANGED status, value' \in Int,
           NEW f \in Activation, SetTop(f), f.minbp = Top.minbp, f.wait = "loop",
           Top.wait # "macro", SourcesOK(sources'), Len(sources') = Len(sources)
    PROVE  CondInv'
<1>1. /\ TypeOK /\ Len(frames) \in Nat \ {0} /\ Top = frames[Len(frames)]
      /\ frames' \in Seq(Activation) /\ Len(frames') = Len(frames)
      /\ frames'[Len(frames)] = f
      /\ \A k \in 1..(Len(frames) - 1) : frames'[k] = frames[k]
  BY StateType, SetTopEffect DEF CondInv, Top
<1>2. TypeOK'
  BY <1>1, TypeAfter
<1>3. \A k \in 1..Len(frames) : k = Len(frames) \/ k \in 1..(Len(frames) - 1)
  BY <1>1
<1>4. MacroFrames(frames') = MacroFrames(frames)
  BY <1>1, <1>3 DEF MacroFrames
<1>5. SourcesMirrorFrames'
  BY <1>4 DEF CondInv, SourcesMirrorFrames, MacroFrames
<1>6. PowersAscend'
  <2> SUFFICES ASSUME NEW k \in 1..(Len(frames) - 1), frames[k].wait \in DOMAIN Infix
               PROVE  /\ Infix[frames[k].wait] > frames[k].minbp
                      /\ frames'[k + 1].minbp = Infix[frames[k].wait]
    BY <1>1 DEF PowersAscend
  <2>1. /\ Infix[frames[k].wait] > frames[k].minbp
        /\ frames[k + 1].minbp = Infix[frames[k].wait]
    BY DEF CondInv, PowersAscend
  <2>2. frames'[k + 1].minbp = frames[k + 1].minbp
    BY <1>1
  <2> QED
    BY <2>1, <2>2
<1>7. OutermostTakesAll'
  BY <1>1 DEF CondInv, OutermostTakesAll
<1>8. WholeConditionRead'
  BY DEF WholeConditionRead
<1> QED
  BY <1>2, <1>5, <1>6, <1>7, <1>8 DEF CondInv

\* A call of eval_cond that reads on from the same source.
LEMMA CallInv ==
    ASSUME CondInv, status = "running", UNCHANGED <<status, value>>,
           NEW f \in Activation, NEW m \in Nat, Call(f, m), f.minbp = Top.minbp,
           f.wait \in DOMAIN Infix => m = Infix[f.wait] /\ m > f.minbp,
           IF f.wait = "macro" THEN Len(sources') = Len(sources) + 1
                               ELSE Len(sources') = Len(sources),
           Top.wait # "macro", SourcesOK(sources')
    PROVE  CondInv'
<1>1. /\ TypeOK /\ Len(frames) \in Nat \ {0} /\ Top = frames[Len(frames)]
      /\ frames' \in Seq(Activation) /\ Len(frames') = Len(frames) + 1
      /\ frames'[Len(frames)] = f /\ frames'[Len(frames) + 1] = Frame(m)
      /\ \A k \in 1..(Len(frames) - 1) : frames'[k] = frames[k]
  BY StateType, CallEffect DEF CondInv, Top
<1>2. value' \in Int /\ Len(sources) \in Nat
  BY <1>1, StateType
<1>3. TypeOK'
  BY <1>1, <1>2, TypeAfter
<1>4. Frame(m).minbp = m /\ Frame(m).wait = "nud"
  BY DEF Frame
<1>5. \A k \in 1..(Len(frames) + 1) :
         k = Len(frames) + 1 \/ k = Len(frames) \/ k \in 1..(Len(frames) - 1)
  BY <1>1
<1>6. SourcesMirrorFrames'
  <2>1. Len(sources) = 1 + Cardinality(MacroFrames(frames))
    BY DEF CondInv, SourcesMirrorFrames, MacroFrames
  <2>2. Len(sources') = 1 + Cardinality(MacroFrames(frames'))
    <3>1. CASE f.wait = "macro"
      <4>1. Len(frames) \notin MacroFrames(frames)
        BY <1>1 DEF MacroFrames
      <4>2. MacroFrames(frames') = MacroFrames(frames) \cup {Len(frames)}
        BY <1>1, <1>4, <1>5, <3>1 DEF MacroFrames
      <4>3. Cardinality(MacroFrames(frames')) = Cardinality(MacroFrames(frames)) + 1
        BY <1>1, <4>1, <4>2, MacroFramesFinite, FS_AddElement
      <4> QED
        BY <1>1, <1>2, <2>1, <3>1, <4>3, MacroFramesFinite
    <3>2. CASE f.wait # "macro"
      <4>1. MacroFrames(frames') = MacroFrames(frames)
        BY <1>1, <1>4, <1>5, <3>2 DEF MacroFrames
      <4> QED
        BY <2>1, <3>2, <4>1
    <3> QED
      BY <3>1, <3>2
  <2> QED
    BY <2>2 DEF SourcesMirrorFrames, MacroFrames
<1>7. PowersAscend'
  <2>0. Len(frames') - 1 = Len(frames)
    BY <1>1
  <2> SUFFICES ASSUME NEW k \in 1..Len(frames), frames'[k].wait \in DOMAIN Infix
               PROVE  /\ Infix[frames'[k].wait] > frames'[k].minbp
                      /\ frames'[k + 1].minbp = Infix[frames'[k].wait]
    BY <2>0 DEF PowersAscend
  <2>1. CASE k = Len(frames)
    BY <1>1, <1>4, <2>1
  <2>2. CASE k \in 1..(Len(frames) - 1)
    <3>1. /\ Infix[frames[k].wait] > frames[k].minbp
          /\ frames[k + 1].minbp = Infix[frames[k].wait]
      BY <1>1, <2>2 DEF CondInv, PowersAscend
    <3>2. frames'[k + 1].minbp = frames[k + 1].minbp /\ frames'[k] = frames[k]
      BY <1>1, <2>2
    <3> QED
      BY <3>1, <3>2
  <2>3. k = Len(frames) \/ k \in 1..(Len(frames) - 1)
    BY <1>1
  <2> QED
    BY <2>1, <2>2, <2>3
<1>8. OutermostTakesAll'
  BY <1>1 DEF CondInv, OutermostTakesAll
<1>9. WholeConditionRead'
  BY DEF WholeConditionRead
<1> QED
  BY <1>3, <1>6, <1>7, <1>8, <1>9 DEF CondInv

-----------------------------------------------------------------------------
(* The actions.                                                             *)

LEMMA Values ==
    /\ \A b \in BOOLEAN : Truth(b) \in Int
    /\ \A n \in DOMAIN Num : Num[n] \in Int
    /\ \A a, b \in Int : b # 0 => Quotient(a, b) \in Int
<1>1. \A b \in BOOLEAN : Truth(b) \in Int
  BY DEF Truth
<1>2. \A n \in DOMAIN Num : Num[n] \in Int
  BY DEF Num
<1>3. ASSUME NEW a \in Int, NEW b \in Int, b # 0 PROVE Quotient(a, b) \in Int
  <2>1. \A n, d \in Nat : d > 0 => n \div d \in Int
    OBVIOUS
  <2> DEFINE abs(n) == IF n < 0 THEN -n ELSE n
  <2>2. abs(a) \in Nat /\ abs(b) \in Nat /\ abs(b) > 0
    BY <1>3
  <2>3. abs(a) \div abs(b) \in Int
    BY <2>1, <2>2
  <2> QED
    BY <2>3 DEF Quotient
<1> QED
  BY <1>1, <1>2, <1>3

\* Every operator computes a number; Applied sees to division by zero.
LEMMA ApplyType ==
    ASSUME NEW op \in DOMAIN Infix, NEW a \in Int, NEW b \in Int, op = "/" => b # 0
    PROVE  Apply(op, a, b) \in Int
<1>1. op \in {"||", "&&", "==", "<", "+", "-", "*", "/"}
  BY WaitTypes
<1>2. CASE op = "/"
  BY <1>2, Values DEF Apply
<1>3. CASE op \in {"+", "-", "*"}
  BY <1>3 DEF Apply
<1>4. CASE op \in {"||", "&&", "==", "<"}
  BY <1>4 DEF Apply, Truth
<1> QED
  BY <1>1, <1>2, <1>3, <1>4

\* The call runs on with v as its left operand.
LEMMA OperandStep ==
    ASSUME CondInv, status = "running", NEW v \in Int, Operand(v), Top.wait # "macro",
           SourcesOK(sources'), Len(sources') = Len(sources)
    PROVE  CondInv'
<1> DEFINE f == [Top EXCEPT !.left = v, !.wait = "loop"]
<1>1. SetTop(f) /\ UNCHANGED <<value, status>>
  BY DEF Operand
<1>2. Top \in Activation /\ value' \in Int
  BY <1>1, StateType DEF CondInv
<1>3. "loop" \in Waits
  BY WaitTypes
<1>4. f \in Activation /\ f.minbp = Top.minbp /\ f.wait = "loop"
  BY <1>2, <1>3 DEF Activation
<1> HIDE DEF f
<1> QED
  BY <1>1, <1>2, <1>4, OperandInv

LEMMA OperandRead ==
    ASSUME CondInv, status = "running", NEW v \in Int, Operand(v), Top.wait # "macro",
           Consume(1), Peeked # "eof"
    PROVE  CondInv'
<1>1. SourcesOK(sources') /\ Len(sources') = Len(sources)
  BY ReadsPeeked DEF CondInv
<1> QED
  BY <1>1, OperandStep

LEMMA OperandReturned ==
    ASSUME CondInv, status = "running", NEW v \in Int, Operand(v), Top.wait # "macro",
           UNCHANGED sources
    PROVE  CondInv'
<1>1. SourcesOK(sources') /\ Len(sources') = Len(sources)
  BY StateType DEF CondInv
<1> QED
  BY <1>1, OperandStep

\* The running call calls eval_cond after reading a token.
LEMMA CallStep ==
    ASSUME CondInv, status = "running", UNCHANGED <<status, value>>, Top.wait # "macro",
           Consume(1), Peeked # "eof", NEW w \in Waits \ {"macro"}, NEW m \in Nat,
           Call([Top EXCEPT !.wait = w], m),
           w \in DOMAIN Infix => m = Infix[w] /\ m > Top.minbp
    PROVE  CondInv'
<1> DEFINE f == [Top EXCEPT !.wait = w]
<1>1. SourcesOK(sources') /\ Len(sources') = Len(sources)
  BY ReadsPeeked DEF CondInv
<1>2. Top \in Activation
  BY StateType DEF CondInv
<1>3. f \in Activation /\ f.minbp = Top.minbp /\ f.wait = w /\ Call(f, m)
  BY <1>2 DEF Activation
<1> HIDE DEF f
<1> QED
  BY <1>1, <1>3, CallInv

LEMMA NudInv ==
    ASSUME CondInv, Number \/ Defined \/ NotAMacro \/ PrefixOperator \/ OpenParen \/ BadOperand
    PROVE  CondInv'
<1>1. CASE Number
  BY <1>1, OperandRead, Values DEF Number, At, Num
<1>2. CASE Defined
  <2>1. At("nud") /\ status = "running" /\ Top.wait # "macro"
    BY <1>2 DEF Defined, At
  <2>2. CASE Fail("error")
    BY <2>2, FailInv
  <2>3. CASE ~Fail("error")
    <3>1. /\ TokenAt(Src.pos + 3) # "eof" /\ Consume(3 + 1)
          /\ Operand(Truth(TokenAt(Src.pos + 2) \in DOMAIN Macros))
      <4>1. /\ TokenAt(Src.pos + 3) = ")" /\ Consume(4)
            /\ Operand(Truth(TokenAt(Src.pos + 2) \in DOMAIN Macros))
        BY <1>2, <2>3 DEF Defined
      <4>2. 3 + 1 = 4
        OBVIOUS
      <4> QED
        BY <4>1, <4>2
    <3>2. SourcesOK(sources') /\ Len(sources') = Len(sources)
      BY <3>1, ConsumeEffect DEF CondInv
    <3> DEFINE v == Truth(TokenAt(Src.pos + 2) \in DOMAIN Macros)
    <3>3. v \in Int /\ Operand(v)
      BY <3>1 DEF Truth
    <3> HIDE DEF v
    <3> QED
      BY <2>1, <3>2, <3>3, OperandStep
  <2> QED
    BY <2>2, <2>3
<1>3. CASE NotAMacro
  BY <1>3, OperandRead DEF NotAMacro, At
<1>4. CASE PrefixOperator
  <2> DEFINE w == IF Peeked = "!" THEN "!" ELSE IF Peeked = "+" THEN "unary +" ELSE "unary -"
  <2>1. /\ status = "running" /\ Top.wait # "macro" /\ Consume(1)
        /\ Call([Top EXCEPT !.wait = w], Prefix[Peeked])
        /\ UNCHANGED <<value, status>>
    BY <1>4 DEF PrefixOperator, At
  <2>2. Peeked \in {"!", "+", "-"} /\ Prefix[Peeked] \in Nat
    BY <1>4, WaitTypes DEF PrefixOperator
  <2>3. w \in Waits \ {"macro"} /\ w \notin DOMAIN Infix
    BY WaitTypes
  <2> HIDE DEF w
  <2> QED
    BY <2>1, <2>2, <2>3, CallStep
<1>5. CASE OpenParen
  <2>1. "paren" \in Waits \ {"macro"} /\ "paren" \notin DOMAIN Infix
    BY WaitTypes
  <2>2. /\ status = "running" /\ Top.wait # "macro" /\ Consume(1) /\ Peeked # "eof"
        /\ Call([Top EXCEPT !.wait = "paren"], 0)
        /\ UNCHANGED <<value, status>>
    BY <1>5 DEF OpenParen, At
  <2> QED
    BY <2>1, <2>2, CallStep
<1>6. CASE BadOperand
  BY <1>6, FailInv DEF BadOperand
<1> QED
  BY <1>1, <1>2, <1>3, <1>4, <1>5, <1>6

\* The expansion of a macro is a source of its own, which its call reads.
LEMMA MacroOperandInv ==
    ASSUME CondInv, MacroOperand
    PROVE  CondInv'
<1> DEFINE f == [Top EXCEPT !.wait = "macro"]
           t == Source(Macros[Peeked])
           s == Advanced(1)
<1>1. /\ status = "running" /\ Top.wait # "macro" /\ Peeked \in DOMAIN Macros
      /\ sources' = Append(s, t) /\ Call(f, 0) /\ UNCHANGED <<value, status>>
  BY DEF MacroOperand, At, Advanced
<1>2. Peeked # "eof" /\ Macros[Peeked] \in Seq(STRING) /\ Len(Macros[Peeked]) \in Nat
  BY <1>1, CondAssumption DEF Ends, Reserved
<1>3. t \in TokenSource /\ t.pos \in 1..(Len(t.tokens) + 1)
  BY <1>2 DEF Source, TokenSource
<1>4. "macro" \in Waits /\ "macro" \notin DOMAIN Infix /\ Top \in Activation
  BY StateType, WaitTypes DEF CondInv
<1>5. f \in Activation /\ f.minbp = Top.minbp /\ f.wait = "macro"
  BY <1>4 DEF Activation
<1>6. SourcesOK(s) /\ Len(s) = Len(sources)
  <2>1. TypeOK /\ Src.pos + 0 = Src.pos /\ 0 + 1 = 1
    BY StateType DEF CondInv
  <2> QED
    BY <1>2, <2>1, AdvancedSources DEF Peeked
<1> HIDE DEF f, t, s
<1>7. s \in Seq(TokenSource) /\ Len(s) \in Nat /\ Len(s) = Len(sources)
  BY <1>6 DEF SourcesOK
<1>8. /\ sources' \in Seq(TokenSource) /\ Len(sources') = Len(sources) + 1
      /\ sources'[Len(s) + 1] = t /\ \A k \in 1..Len(s) : sources'[k] = s[k]
  BY <1>1, <1>3, <1>7, AppendProperties
<1>9. SourcesOK(sources')
  <2>1. ASSUME NEW k \in 1..Len(sources')
        PROVE  sources'[k].pos \in 1..(Len(sources'[k].tokens) + 1)
    <3>1. CASE k = Len(s) + 1
      BY <1>3, <1>8, <3>1
    <3>2. CASE k \in 1..Len(s)
      BY <1>6, <1>8, <3>2 DEF SourcesOK
    <3> QED
      BY <1>7, <1>8, <3>1, <3>2
  <2>2. sources' # << >>
    BY <1>7, <1>8, EmptySeq
  <2> QED
    BY <1>8, <2>1, <2>2 DEF SourcesOK
<1> QED
  BY <1>1, <1>4, <1>5, <1>8, <1>9, CallInv

\* An operator takes its right operand from a call for its own binding power.
LEMMA LedInv ==
    ASSUME CondInv, ShortCircuit \/ InfixOperator \/ Question \/ BadOperator
    PROVE  CondInv'
<1>1. CASE ShortCircuit
  <2> DEFINE v == Truth(Peeked = "||")
  <2>1. /\ status = "running" /\ Top.wait = "loop" /\ Binds(Peeked) /\ Decided(Peeked)
        /\ Consume(1) /\ SetTop([Top EXCEPT !.left = v])
        /\ UNCHANGED <<value, status>>
    BY <1>1 DEF ShortCircuit, At
  <2>2. Peeked # "eof" /\ v \in Int
    BY <2>1 DEF Decided, Truth
  <2>3. Top \in Activation
    BY StateType DEF CondInv
  <2>4. [Top EXCEPT !.left = v] = [Top EXCEPT !.left = v, !.wait = "loop"]
    BY <2>1, <2>3 DEF Activation
  <2>5. Operand(v)
    BY <2>1, <2>4 DEF Operand
  <2> HIDE DEF v
  <2> QED
    BY <2>1, <2>2, <2>5, OperandRead
<1>2. CASE InfixOperator
  <2>1. /\ status = "running" /\ Top.wait = "loop" /\ Peeked \in DOMAIN Infix
        /\ Binds(Peeked) /\ Consume(1)
        /\ Call([Top EXCEPT !.wait = Peeked], Infix[Peeked])
        /\ UNCHANGED <<value, status>>
    BY <1>2 DEF InfixOperator, At
  <2>2. Peeked # "eof" /\ Peeked \in Waits \ {"macro"} /\ Infix[Peeked] \in Nat
    BY <2>1, WaitTypes
  <2>3. Infix[Peeked] > Top.minbp
    BY <2>1 DEF Binds, Bp
  <2> QED
    BY <2>1, <2>2, <2>3, CallStep
<1>3. CASE Question
  <2>1. "then" \in Waits \ {"macro"} /\ "then" \notin DOMAIN Infix
    BY WaitTypes
  <2>2. /\ status = "running" /\ Top.wait # "macro" /\ Consume(1) /\ Peeked # "eof"
        /\ Call([Top EXCEPT !.wait = "then"], 0)
        /\ UNCHANGED <<value, status>>
    BY <1>3 DEF Question, At
  <2> QED
    BY <2>1, <2>2, CallStep
<1>4. CASE BadOperator
  BY <1>4, FailInv DEF BadOperator
<1> QED
  BY <1>1, <1>2, <1>3, <1>4

\* The rest of nud and led, once the call has returned.
LEMMA AfterCallInv ==
    ASSUME CondInv, Applied \/ Negated \/ Plus \/ Minus \/ CloseParen \/ Colon \/ EndTernary
    PROVE  CondInv'
<1>1. value \in Int /\ Top \in Activation
  BY StateType DEF CondInv
<1>2. Top.left \in Int /\ Top.then \in Int
  BY <1>1 DEF Activation
<1>3. CASE Applied
  <2>1. CASE Fail("division by zero")
    BY <2>1, FailInv
  <2>2. CASE ~Fail("division by zero")
    <3> DEFINE v == Apply(Top.wait, Top.left, value)
    <3>1. /\ status = "running" /\ Top.wait \in DOMAIN Infix /\ Operand(v)
          /\ UNCHANGED sources /\ ~(Top.wait = "/" /\ value = 0)
      BY <1>3, <2>2 DEF Applied
    <3>2. v \in Int /\ Top.wait # "macro"
      BY <1>1, <1>2, <3>1, ApplyType, WaitTypes
    <3> HIDE DEF v
    <3> QED
      BY <3>1, <3>2, OperandReturned
  <2> QED
    BY <2>1, <2>2
<1>4. CASE Negated
  <2>1. Truth(value = 0) \in Int
    BY DEF Truth
  <2> QED
    BY <1>4, <2>1, OperandReturned DEF Negated, At
<1>5. CASE Plus
  BY <1>1, <1>5, OperandReturned DEF Plus, At
<1>6. CASE Minus
  <2>1. -value \in Int
    BY <1>1
  <2> QED
    BY <1>6, <2>1, OperandReturned DEF Minus, At
<1>7. CASE CloseParen
  <2>1. CASE Fail("error")
    BY <2>1, FailInv
  <2>2. CASE ~Fail("error")
    BY <1>1, <1>7, <2>2, OperandRead DEF CloseParen, At
  <2> QED
    BY <2>1, <2>2
<1>8. CASE Colon
  <2>1. CASE Fail("error")
    BY <2>1, FailInv
  <2>2. CASE ~Fail("error")
    <3> DEFINE f == [Top EXCEPT !.then = value, !.wait = "else"]
    <3>1. /\ status = "running" /\ Top.wait = "then" /\ Consume(1) /\ Peeked # "eof"
          /\ Call(f, 0) /\ UNCHANGED <<value, status>>
      BY <1>8, <2>2 DEF Colon, At
    <3>2. SourcesOK(sources') /\ Len(sources') = Len(sources)
      BY <3>1, ReadsPeeked DEF CondInv
    <3>3. "else" \in Waits /\ "else" \notin DOMAIN Infix
      BY WaitTypes
    <3>4. f \in Activation /\ f.minbp = Top.minbp /\ f.wait = "else"
      BY <1>1, <3>3 DEF Activation
    <3> HIDE DEF f
    <3> QED
      BY <3>1, <3>2, <3>3, <3>4, CallInv
  <2> QED
    BY <2>1, <2>2
<1>9. CASE EndTernary
  <2> DEFINE v == IF Top.left # 0 THEN Top.then ELSE value
  <2>1. v \in Int
    BY <1>1, <1>2
  <2>2. status = "running" /\ Top.wait = "else" /\ Operand(v) /\ UNCHANGED sources
    BY <1>9 DEF EndTernary, At
  <2> HIDE DEF v
  <2> QED
    BY <2>1, <2>2, OperandReturned
<1> QED
  BY <1>3, <1>4, <1>5, <1>6, <1>7, <1>8, <1>9

\* The call that waits for the value of a macro drops the macro's source.
LEMMA EndMacroInv ==
    ASSUME CondInv, EndMacro
    PROVE  CondInv'
<1> DEFINE f == [Top EXCEPT !.left = value, !.wait = "loop"]
           n == Len(sources) - 1
<1>1. /\ status = "running" /\ Top.wait = "macro" /\ SetTop(f) /\ UNCHANGED <<value, status>>
      /\ sources' = SubSeq(sources, 1, n)
  BY DEF EndMacro, At, Operand
<1>2. /\ TypeOK /\ Len(frames) \in Nat \ {0} /\ Top = frames[Len(frames)] /\ Top \in Activation
      /\ value \in Int /\ "loop" \in Waits
      /\ Len(sources) \in Nat \ {0} /\ sources \in Seq(TokenSource)
      /\ \A k \in 1..Len(sources) : sources[k].pos \in 1..(Len(sources[k].tokens) + 1)
  BY StateType, WaitTypes DEF CondInv, Top, SourcesOK
<1>3. f \in Activation /\ f.minbp = Top.minbp /\ f.wait = "loop"
  BY <1>2 DEF Activation
<1> HIDE DEF f
<1>4. /\ frames' \in Seq(Activation) /\ Len(frames') = Len(frames)
      /\ frames'[Len(frames)] = f
      /\ \A k \in 1..(Len(frames) - 1) : frames'[k] = frames[k]
  BY <1>1, <1>2, <1>3, SetTopEffect
<1>5. \A k \in 1..Len(frames) : k = Len(frames) \/ k \in 1..(Len(frames) - 1)
  BY <1>2
<1>6. MacroFrames(frames') = MacroFrames(frames) \ {Len(frames)}
      /\ Len(frames) \in MacroFrames(frames)
  BY <1>1, <1>2, <1>3, <1>4, <1>5 DEF MacroFrames
<1>7. Cardinality(MacroFrames(frames')) = Cardinality(MacroFrames(frames)) - 1
  BY <1>2, <1>6, MacroFramesFinite, FS_RemoveElement
<1>8. Len(sources) = 1 + Cardinality(MacroFrames(frames))
  BY <1>1 DEF CondInv, SourcesMirrorFrames, MacroFrames
<1>9. Cardinality(MacroFrames(frames)) \in Nat /\ Cardinality(MacroFrames(frames')) \in Nat
  BY <1>2, <1>4, MacroFramesFinite
<1>10. n \in Nat \ {0} /\ n = 1 + Cardinality(MacroFrames(frames')) /\ n + 1 = Len(sources)
  BY <1>2, <1>7, <1>8, <1>9
<1> HIDE DEF n
<1>11. /\ sources' \in Seq(TokenSource) /\ Len(sources') = n
       /\ \A k \in 1..n : sources'[k] = sources[k]
  BY <1>1, <1>2, <1>10, PopEffect
<1>12. SourcesOK(sources')
  <2>1. \A k \in 1..n : sources'[k].pos \in 1..(Len(sources'[k].tokens) + 1)
    BY <1>2, <1>10, <1>11
  <2>2. sources' # << >>
    BY <1>10, <1>11, EmptySeq
  <2> QED
    BY <1>11, <2>1, <2>2 DEF SourcesOK
<1>13. TypeOK'
  BY <1>1, <1>2, <1>4, <1>12, TypeAfter
<1>14. SourcesMirrorFrames'
  BY <1>10, <1>11 DEF SourcesMirrorFrames, MacroFrames
<1>15. PowersAscend'
  <2> SUFFICES ASSUME NEW k \in 1..(Len(frames) - 1), frames[k].wait \in DOMAIN Infix
               PROVE  /\ Infix[frames[k].wait] > frames[k].minbp
                      /\ frames'[k + 1].minbp = Infix[frames[k].wait]
    BY <1>4 DEF PowersAscend
  <2>1. /\ Infix[frames[k].wait] > frames[k].minbp
        /\ frames[k + 1].minbp = Infix[frames[k].wait]
    BY DEF CondInv, PowersAscend
  <2>2. frames'[k + 1].minbp = frames[k + 1].minbp
    <3>1. k + 1 = Len(frames) \/ k + 1 \in 1..(Len(frames) - 1)
      BY <1>2
    <3>2. frames'[Len(frames)].minbp = frames[Len(frames)].minbp
      BY <1>2, <1>3, <1>4
    <3> QED
      BY <1>4, <3>1, <3>2
  <2> QED
    BY <2>1, <2>2
<1>16. OutermostTakesAll'
  BY <1>2, <1>3, <1>4 DEF CondInv, OutermostTakesAll
<1>17. WholeConditionRead'
  BY <1>1 DEF WholeConditionRead
<1> QED
  BY <1>13, <1>14, <1>15, <1>16, <1>17 DEF CondInv

\* The outermost call returns at the end of the condition: every operator binds
\* tighter than 0, and no call is left that reads an expansion.
LEMMA ReturnInv ==
    ASSUME CondInv, Return
    PROVE  CondInv'
<1>1. /\ status = "running" /\ Top.wait = "loop" /\ value' = Top.left /\ UNCHANGED sources
      /\ Peeked \in Ends \/ (IsOperator(Peeked) /\ ~Binds(Peeked))
  BY DEF Return, At
<1>2. /\ TypeOK /\ frames \in Seq(Activation) /\ Len(frames) \in Nat \ {0}
      /\ Top = frames[Len(frames)] /\ Top \in Activation
      /\ SourcesOK(sources) /\ Len(sources) \in Nat
  BY StateType DEF CondInv, Top
<1>3. value' \in Int
  BY <1>1, <1>2 DEF Activation
<1>4. Len(sources) = 1 + Cardinality(MacroFrames(frames))
  BY <1>1 DEF CondInv, SourcesMirrorFrames, MacroFrames
<1>5. CASE Len(frames) = 1
  <2>1. status' = "done" /\ UNCHANGED frames
    BY <1>5 DEF Return
  <2>2. TypeOK'
    BY <1>1, <1>2, <1>3, <2>1, TypeAfter
  <2>3. Len(sources) = 1
    <3>1. MacroFrames(frames) = {}
      BY <1>1, <1>2, <1>5 DEF MacroFrames
    <3>2. Cardinality(MacroFrames(frames)) = 0
      BY <3>1, FS_EmptySet
    <3> QED
      BY <1>2, <1>4, <3>2
  <2>4. Peeked \in Ends
    <3>1. Top.minbp = 0
      BY <1>2, <1>5 DEF CondInv, OutermostTakesAll
    <3>2. Bp(Peeked) > 0
      <4>1. CASE Peeked \in DOMAIN Infix
        BY <4>1, WaitTypes DEF Bp
      <4>2. CASE Peeked \notin DOMAIN Infix /\ Peeked \in DOMAIN Prefix
        BY <4>2, WaitTypes DEF Bp
      <4>3. CASE Peeked \notin DOMAIN Infix /\ Peeked \notin DOMAIN Prefix
        BY <4>3 DEF Bp
      <4> QED
        BY <4>1, <4>2, <4>3
    <3> QED
      BY <1>1, <3>1, <3>2 DEF Binds
  <2>5. WholeConditionRead'
    BY <1>1, <2>3, <2>4 DEF WholeConditionRead, Peeked, TokenAt, Src
  <2>6. PowersAscend' /\ OutermostTakesAll' /\ SourcesMirrorFrames'
    BY <2>1 DEF CondInv, PowersAscend, OutermostTakesAll, SourcesMirrorFrames
  <2> QED
    BY <2>2, <2>5, <2>6 DEF CondInv
<1>6. CASE Len(frames) # 1
  <2> DEFINE n == Len(frames) - 1
  <2>1. frames' = SubSeq(frames, 1, n) /\ UNCHANGED status
    BY <1>6 DEF Return
  <2>2. n \in Nat \ {0} /\ n + 1 = Len(frames)
    BY <1>2, <1>6
  <2> HIDE DEF n
  <2>3. /\ frames' \in Seq(Activation) /\ Len(frames') = n
        /\ \A k \in 1..n : frames'[k] = frames[k]
    BY <1>2, <2>1, <2>2, PopEffect
  <2>4. TypeOK'
    BY <1>1, <1>2, <1>3, <2>1, <2>2, <2>3, TypeAfter
  <2>5. MacroFrames(frames') = MacroFrames(frames)
    <3>1. \A k \in 1..Len(frames) : k \in 1..n \/ k = Len(frames)
      BY <2>2
    <3> QED
      BY <1>1, <1>2, <2>2, <2>3, <3>1 DEF MacroFrames
  <2>6. SourcesMirrorFrames'
    BY <1>1, <1>4, <2>5 DEF SourcesMirrorFrames, MacroFrames
  <2>7. PowersAscend'
    <3> SUFFICES ASSUME NEW k \in 1..(n - 1), frames'[k].wait \in DOMAIN Infix
                 PROVE  /\ Infix[frames'[k].wait] > frames'[k].minbp
                        /\ frames'[k + 1].minbp = Infix[frames'[k].wait]
      BY <2>3 DEF PowersAscend
    <3>1. /\ frames'[k] = frames[k] /\ frames'[k + 1] = frames[k + 1]
          /\ k \in 1..(Len(frames) - 1)
      BY <2>2, <2>3
    <3> QED
      BY <3>1 DEF CondInv, PowersAscend
  <2>8. OutermostTakesAll'
    BY <2>2, <2>3 DEF CondInv, OutermostTakesAll
  <2>9. WholeConditionRead'
    BY <1>1, <2>1 DEF WholeConditionRead
  <2> QED
    BY <2>4, <2>6, <2>7, <2>8, <2>9 DEF CondInv
<1> QED
  BY <1>5, <1>6

LEMMA StutterInv ==
    ASSUME CondInv, UNCHANGED vars
    PROVE  CondInv'
<1>1. TypeOK' /\ SourcesMirrorFrames' /\ PowersAscend' /\ OutermostTakesAll'
  BY DEF CondInv, vars, TypeOK, SourcesMirrorFrames, PowersAscend, OutermostTakesAll
<1>2. WholeConditionRead'
  BY DEF CondInv, vars, WholeConditionRead, Peeked, TokenAt, Src
<1> QED
  BY <1>1, <1>2 DEF CondInv

-----------------------------------------------------------------------------
(* The theorems.                                                            *)

\* Every state of the evaluator satisfies the inductive invariant.
THEOREM Inductive == Spec => []CondInv
<1>1. CondInv /\ [Next]_vars => CondInv'
  BY NudInv, MacroOperandInv, LedInv, ReturnInv, AfterCallInv, EndMacroInv, StutterInv DEF Next
<1> QED
  BY InitInv, <1>1, PTL DEF Spec

\* Every variable stays in its set: no call reads beyond the end of its source,
\* and no value but that of a division by zero is missing (pp2_cond.c).
THEOREM TypeCorrect == Spec => []TypeOK
<1>1. CondInv => TypeOK
  BY DEF CondInv
<1> QED
  BY Inductive, <1>1, PTL

\* nud reads an expansion exactly as long as the macro's value is evaluated
\* (pp2_cond.c:66-72).
THEOREM SourcesMatchCalls == Spec => []SourcesMirrorFrames
<1>1. CondInv => SourcesMirrorFrames
  BY DEF CondInv
<1> QED
  BY Inductive, <1>1, PTL

\* Along the calls of eval_cond the binding powers rise: led calls it with the
\* power of its operator, which bound tighter than the call it stands in.
THEOREM PowersRise == Spec => []PowersAscend
<1>1. CondInv => PowersAscend
  BY DEF CondInv
<1> QED
  BY Inductive, <1>1, PTL

\* eval_cond returns the value of the whole condition: the loop of its outermost
\* call stops before nothing but the end of the line, a parenthesis or a colon.
THEOREM ReadsWholeCondition == Spec => []WholeConditionRead
<1>1. CondInv => WholeConditionRead
  BY DEF CondInv
<1> QED
  BY Inductive, <1>1, PTL

-----------------------------------------------------------------------------
(* The grammar: the function that is defined by recursion exists, and is    *)
(* what its definition says.                                                *)

\* One step of the recursion, for the phrases nested up to d deep.
Unfold(d, g) ==
    [n \in 0..d |-> IF n = 0 THEN [t \in Texts |-> {}] ELSE [t \in Texts |-> Made(t, g[n - 1])]]

LEMMA NestedExists ==
    ASSUME NEW d \in Nat
    PROVE  Nested(d) = Unfold(d, Nested(d))
<1> DEFINE S == {n \in Nat : \E g : g = Unfold(n, g)}
<1>1. 0 \in S
  <2> DEFINE g == [n \in 0..0 |-> [t \in Texts |-> {}]]
  <2>1. g = Unfold(0, g)
    BY DEF Unfold
  <2> QED
    BY <2>1
<1>2. ASSUME NEW n \in Nat, n \in S
      PROVE  n + 1 \in S
  <2>1. PICK g : g = Unfold(n, g)
    BY <1>2
  <2> DEFINE last == [t \in Texts |-> Made(t, g[n])]
             h == [k \in 0..(n + 1) |-> IF k = n + 1 THEN last ELSE g[k]]
             Wanted(k) == IF k = 0 THEN [t \in Texts |-> {}] ELSE [t \in Texts |-> Made(t, h[k - 1])]
  <2>2. ASSUME NEW k \in 0..(n + 1)
        PROVE  h[k] = Wanted(k)
    <3>1. CASE k = n + 1
      <4>1. k # 0 /\ k - 1 = n /\ n \in 0..(n + 1) /\ n # n + 1
        BY <3>1
      <4>2. h[k] = last /\ h[n] = g[n]
        BY <3>1, <4>1
      <4> QED
        BY <4>1, <4>2
    <3>2. CASE k # n + 1
      <4>1. k \in 0..n /\ h[k] = g[k]
        BY <3>2
      <4>2. k # 0 => k - 1 \in 0..(n + 1) /\ k - 1 # n + 1
        BY <4>1
      <4>3. k # 0 => h[k - 1] = g[k - 1]
        BY <4>2
      <4>4. g[k] = IF k = 0 THEN [t \in Texts |-> {}] ELSE [t \in Texts |-> Made(t, g[k - 1])]
        BY <2>1, <4>1 DEF Unfold
      <4> QED
        BY <4>1, <4>3, <4>4
    <3> QED
      BY <3>1, <3>2
  <2>3. h = [k \in 0..(n + 1) |-> h[k]]
    OBVIOUS
  <2> HIDE DEF h
  <2>4. h = Unfold(n + 1, h)
    BY <2>2, <2>3 DEF Unfold
  <2> QED
    BY <2>4
<1>3. d \in S
  <2> HIDE DEF S
  <2> QED
    BY <1>1, <1>2, Induction
<1>4. \E g : g = Unfold(d, g)
  BY <1>3
<1>5. Nested(d) = CHOOSE g : g = Unfold(d, g)
  BY Zenon DEF Nested, Unfold
<1> QED
  BY <1>4, <1>5

\* The phrases nested up to n deep.
Found(n) == Nested(Depth)[n]

LEMMA FoundSteps ==
    /\ \A t \in Texts : Found(0)[t] = {}
    /\ \A n \in Nat : n + 1 <= Depth => \A t \in Texts : Found(n + 1)[t] = Made(t, Found(n))
<1>1. Depth \in Nat /\ Nested(Depth) = Unfold(Depth, Nested(Depth))
  BY MeaningAssumption, NestedExists
<1>2. \A n \in 0..Depth :
         Found(n) = IF n = 0 THEN [t \in Texts |-> {}] ELSE [t \in Texts |-> Made(t, Found(n - 1))]
  BY <1>1 DEF Unfold, Found
<1>3. \A t \in Texts : Found(0)[t] = {}
  BY <1>1, <1>2
<1>4. ASSUME NEW n \in Nat, n + 1 <= Depth, NEW t \in Texts
      PROVE  Found(n + 1)[t] = Made(t, Found(n))
  <2>1. n + 1 \in 0..Depth /\ n + 1 # 0 /\ (n + 1) - 1 = n
    BY <1>1, <1>4
  <2> QED
    BY <1>2, <2>1
<1> QED
  BY <1>3, <1>4

-----------------------------------------------------------------------------
(* How eval_cond comes to a phrase: nud reads an operand, and each turn of  *)
(* the loop makes of what it has a longer phrase that begins where it does. *)

LEMMA TokenPowers ==
    /\ \A op \in DOMAIN Infix :
          /\ IsOperator(op) /\ Bp(op) = Infix[op]
          /\ Infix[op] \in Nat /\ Infix[op] >= 30 /\ Infix[op] <= 120
          /\ op \notin Ends /\ op # "?"
    /\ IsOperator("?") /\ Bp("?") = 25 /\ "?" \notin Ends
    /\ \A x : IsOperator(x) => Bp(x) \in Nat /\ Bp(x) >= 25
    /\ \A x \in Ends : ~IsOperator(x)
<1>1. ASSUME NEW op \in DOMAIN Infix
      PROVE  /\ IsOperator(op) /\ Bp(op) = Infix[op]
             /\ Infix[op] \in Nat /\ Infix[op] >= 30 /\ Infix[op] <= 120
             /\ op \notin Ends /\ op # "?"
  <2>1. IsOperator(op) /\ Bp(op) = Infix[op]
    BY DEF IsOperator, Bp
  <2>2. op \notin Ends /\ op # "?"
    BY WaitTypes DEF Ends
  <2>3. op \in {"||", "&&", "==", "<", "+", "-", "*", "/"}
    BY WaitTypes
  <2>4. Infix[op] \in {30, 40, 80, 90, 110, 120}
    BY <2>3 DEF Infix
  <2> QED
    BY <2>1, <2>2, <2>4
<1>2. IsOperator("?") /\ Bp("?") = 25 /\ "?" \notin Ends
  BY WaitTypes DEF IsOperator, Bp, Ends
<1>3. ASSUME NEW x
      PROVE  Bp(x) \in Nat /\ Bp(x) >= 25
  <2>1. CASE x \in DOMAIN Infix
    BY <1>1, <2>1
  <2>2. CASE x \notin DOMAIN Infix /\ x \in DOMAIN Prefix
    BY <2>2 DEF Bp, Prefix
  <2>3. CASE x \notin DOMAIN Infix /\ x \notin DOMAIN Prefix
    BY <2>3 DEF Bp
  <2> QED
    BY <2>1, <2>2, <2>3
<1>4. \A x \in Ends : ~IsOperator(x)
  BY WaitTypes DEF IsOperator, Ends
<1> QED
  BY <1>1, <1>2, <1>3, <1>4

\* C evaluates all of a phrase, and the evaluation does not fail.
Plain(e) == ~e.fails /\ ~e.skips

\* The phrases that are plain.
Phrase ==
    [from : Nat \ {0}, to : Nat, power : TernaryPower..Tight, value : Int,
     fails : {FALSE}, skips : {FALSE}]

Known(t) == {e \in UNION {Found(n)[t] : n \in 0..Depth} : Plain(e)}

LEMMA PhraseType ==
    /\ Tight \in TernaryPower..Tight /\ UnaryPower \in TernaryPower..Tight
    /\ TernaryPower \in TernaryPower..Tight
    /\ \A op \in DOMAIN Infix : Infix[op] \in TernaryPower..Tight
    /\ \A e \in Phrase : /\ e.from \in Nat \ {0} /\ e.to \in Nat /\ e.value \in Int
                        /\ e.power \in Nat /\ e.power >= TernaryPower
    /\ \A from \in Nat \ {0}, to \in Nat, power \in TernaryPower..Tight, v \in Int :
          New(from, to, power, v) \in Phrase
<1>1. /\ Tight \in TernaryPower..Tight /\ UnaryPower \in TernaryPower..Tight
      /\ TernaryPower \in TernaryPower..Tight
  BY DEF Tight, UnaryPower, TernaryPower
<1>2. ASSUME NEW op \in DOMAIN Infix
      PROVE  Infix[op] \in TernaryPower..Tight
  BY TokenPowers DEF Tight, TernaryPower
<1>3. ASSUME NEW e \in Phrase
      PROVE  /\ e.from \in Nat \ {0} /\ e.to \in Nat /\ e.value \in Int
             /\ e.power \in Nat /\ e.power >= TernaryPower
  BY DEF Phrase, Tight, TernaryPower
<1>4. \A from \in Nat \ {0}, to \in Nat, power \in TernaryPower..Tight, v \in Int :
         New(from, to, power, v) \in Phrase
  BY DEF Phrase, New
<1> QED
  BY <1>1, <1>2, <1>3, <1>4

\* A plain phrase is what New makes of its place, its power and its value.
LEMMA PhraseIsNew ==
    ASSUME NEW e \in Phrase
    PROVE  e = New(e.from, e.to, e.power, e.value)
BY DEF Phrase, New

NumberAt(t, e) ==
    In(t, e.from) \in DOMAIN Num /\ e.to = e.from + 1 /\ e.value = Num[In(t, e.from)]

UndefinedAt(t, e) == In(t, e.from) = "undefined" /\ e.to = e.from + 1 /\ e.value = 0

DefinedAt(t, e) ==
    IsDefined(t, e.from) /\ e.to = e.from + 4 /\ e.value = Truth(In(t, e.from + 2) \in DOMAIN Macros)

MacroAt(t, e) ==
    /\ In(t, e.from) \in DOMAIN Macros /\ e.to = e.from + 1
    /\ \E r \in Known(Macros[In(t, e.from)]) :
          /\ r.from = 1 /\ In(Macros[In(t, e.from)], r.to) \in {"eof", "nl"}
          /\ e.value = r.value

ParenAt(t, e) ==
    /\ In(t, e.from) = "("
    /\ \E r \in Known(t) :
          /\ r.from = e.from + 1 /\ In(t, r.to) = ")"
          /\ e.to = r.to + 1 /\ e.value = r.value

PrefixAt(t, e) ==
    /\ In(t, e.from) \in DOMAIN Prefix /\ e.power = UnaryPower
    /\ \E r \in Known(t) :
          /\ r.from = e.from + 1 /\ r.power >= UnaryPower
          /\ e.to = r.to /\ e.value = Unary(In(t, e.from), r.value)

IsOperand(t, e) ==
    \/ NumberAt(t, e) \/ UndefinedAt(t, e) \/ DefinedAt(t, e)
    \/ MacroAt(t, e) \/ ParenAt(t, e) \/ PrefixAt(t, e)

\* e is l and an operator with what stands to the right of it.
JoinAt(t, l, e) ==
    \E r \in Known(t) :
       /\ Joins(t, l, r) /\ ~Decides(In(t, l.to), l.value)
       /\ In(t, l.to) = "/" => r.value # 0
       /\ e.to = r.to /\ e.power = Infix[In(t, l.to)]
       /\ e.value = Apply(In(t, l.to), l.value, r.value)

ChooseAt(t, l, e) ==
    \E a, b \in Known(t) :
       /\ Chooses(t, l, a, b) /\ e.to = b.to /\ e.power = TernaryPower
       /\ e.value = IF l.value # 0 THEN a.value ELSE b.value

Final(s) == s[Len(s)]

IsSpine(t, s) ==
    /\ s \in Seq(Phrase) /\ Len(s) \in Nat \ {0}
    /\ IsOperand(t, s[1])
    /\ \A k \in 1..Len(s) : s[k].from = Final(s).from /\ s[k].power >= Final(s).power
    /\ \A k \in 1..(Len(s) - 1) : JoinAt(t, s[k], s[k + 1]) \/ ChooseAt(t, s[k], s[k + 1])

HasSpine(t, e) == \E s : IsSpine(t, s) /\ Final(s) = e

LEMMA SpineType ==
    ASSUME NEW t, NEW e, HasSpine(t, e)
    PROVE  e \in Phrase
<1>1. PICK s : IsSpine(t, s) /\ Final(s) = e
  BY DEF HasSpine
<1>2. s \in Seq(Phrase) /\ Len(s) \in 1..Len(s)
  BY <1>1 DEF IsSpine
<1> QED
  BY <1>1, <1>2, ElementOfSeq DEF Final

LEMMA OperandSpine ==
    ASSUME NEW t, NEW e \in Phrase, IsOperand(t, e)
    PROVE  HasSpine(t, e)
<1> DEFINE s == <<e>>
<1>1. s \in Seq(Phrase) /\ Len(s) = 1 /\ s[1] = e
  OBVIOUS
<1> HIDE DEF s
<1>2. e.power >= e.power
  BY PhraseType
<1>3. IsSpine(t, s) /\ Final(s) = e
  BY <1>1, <1>2 DEF IsSpine, Final
<1> QED
  BY <1>3 DEF HasSpine

LEMMA LongerSpine ==
    ASSUME NEW t, NEW l, HasSpine(t, l), NEW e \in Phrase, e.from = l.from, e.power <= l.power,
           JoinAt(t, l, e) \/ ChooseAt(t, l, e)
    PROVE  HasSpine(t, e)
<1>1. PICK s : IsSpine(t, s) /\ Final(s) = l
  BY DEF HasSpine
<1>2. PICK n \in Nat \ {0} : n = Len(s)
  BY <1>1 DEF IsSpine
<1>3. /\ s \in Seq(Phrase) /\ IsOperand(t, s[1]) /\ s[n] = l
      /\ \A k \in 1..n : s[k].from = l.from /\ s[k].power >= l.power /\ s[k] \in Phrase
      /\ \A k \in 1..(n - 1) : JoinAt(t, s[k], s[k + 1]) \/ ChooseAt(t, s[k], s[k + 1])
  BY <1>1, <1>2, ElementOfSeq DEF IsSpine, Final
<1> DEFINE u == Append(s, e)
<1>4. /\ u \in Seq(Phrase) /\ Len(u) = n + 1 /\ u[n + 1] = e
      /\ \A k \in 1..n : u[k] = s[k]
  BY <1>2, <1>3, AppendProperties
<1> HIDE DEF u
<1>5. Final(u) = e /\ Len(u) \in Nat \ {0} /\ IsOperand(t, u[1])
  BY <1>3, <1>4 DEF Final
<1>6. l \in Phrase
  BY <1>2, <1>3
<1>7. ASSUME NEW k \in 1..(n + 1)
      PROVE  u[k].from = e.from /\ u[k].power >= e.power
  <2>1. CASE k = n + 1
    BY <1>4, <2>1, PhraseType
  <2>2. CASE k \in 1..n
    <3>1. s[k].power \in Nat /\ l.power \in Nat /\ e.power \in Nat
      BY <1>3, <1>6, <2>2, PhraseType
    <3>2. s[k].power >= l.power /\ s[k].from = l.from /\ u[k] = s[k]
      BY <1>3, <1>4, <2>2
    <3> QED
      BY <3>1, <3>2
  <2> QED
    BY <2>1, <2>2
<1>8. ASSUME NEW k \in 1..n
      PROVE  JoinAt(t, u[k], u[k + 1]) \/ ChooseAt(t, u[k], u[k + 1])
  <2>1. CASE k = n
    BY <1>3, <1>4, <2>1
  <2>2. CASE k # n
    <3>1. k \in 1..(n - 1) /\ k + 1 \in 1..n /\ k \in 1..n
      BY <2>2
    <3> QED
      BY <1>3, <1>4, <3>1
  <2> QED
    BY <2>1, <2>2
<1>9. IsSpine(t, u)
  <2>1. Len(u) - 1 = n
    BY <1>4
  <2> QED
    BY <1>4, <1>5, <1>7, <1>8, <2>1 DEF IsSpine
<1> QED
  BY <1>5, <1>9 DEF HasSpine

LEMMA TextFacts ==
    ASSUME NEW t \in Texts
    PROVE  /\ t \in Seq(STRING) /\ Len(t) \in Nat
           /\ \A i : In(t, i) # "eof" => i \in 1..Len(t) /\ In(t, i) = t[i]
           /\ \A m \in DOMAIN Macros : Macros[m] \in Texts
<1>1. t \in Seq(STRING) /\ \A m \in DOMAIN Macros : Macros[m] \in Texts
  BY CondAssumption DEF Texts
<1> QED
  BY <1>1 DEF In

LEMMA MadeOf ==
    ASSUME NEW t, NEW P, NEW e \in Made(t, P)
    PROVE  \/ e \in Singles(t)
           \/ e \in MacroPhrases(t, P)
           \/ e \in Parenthesised(t, P[t])
           \/ e \in Prefixed(t, P[t])
           \/ e \in Joined(t, P[t])
           \/ e \in Chosen(t, P[t])
BY Zenon DEF Made

LEMMA SingleSpine ==
    ASSUME NEW t \in Texts, NEW e \in Singles(t)
    PROVE  HasSpine(t, e)
<1>1. Len(t) \in Nat /\ Tight \in TernaryPower..Tight
  BY TextFacts, PhraseType
<1>2. CASE \E i \in 1..Len(t) : t[i] \in DOMAIN Num /\ e = New(i, i + 1, Tight, Num[t[i]])
  <2>1. PICK i \in 1..Len(t) : t[i] \in DOMAIN Num /\ e = New(i, i + 1, Tight, Num[t[i]])
    BY <1>2
  <2>2. i \in Nat \ {0} /\ i + 1 \in Nat /\ Num[t[i]] \in Int /\ In(t, i) = t[i]
    <3>1. i \in Nat \ {0} /\ i + 1 \in Nat
      BY <1>1
    <3>2. Num[t[i]] \in Int
      BY <2>1, Values
    <3> QED
      BY <3>1, <3>2 DEF In
  <2>3. /\ e \in Phrase /\ e.from = i /\ e.to = i + 1 /\ e.power = Tight /\ e.value = Num[t[i]]
    BY <1>1, <2>1, <2>2, PhraseType DEF New
  <2>4. IsOperand(t, e)
    BY <2>1, <2>2, <2>3 DEF IsOperand, NumberAt
  <2> QED
    BY <2>3, <2>4, OperandSpine
<1>3. CASE \E i \in 1..Len(t) : t[i] = "undefined" /\ e = New(i, i + 1, Tight, 0)
  <2>1. PICK i \in 1..Len(t) : t[i] = "undefined" /\ e = New(i, i + 1, Tight, 0)
    BY <1>3
  <2>2. i \in Nat \ {0} /\ i + 1 \in Nat /\ In(t, i) = t[i]
    BY <1>1, <2>1 DEF In
  <2>3. /\ e \in Phrase /\ e.from = i /\ e.to = i + 1 /\ e.power = Tight /\ e.value = 0
    BY <1>1, <2>1, <2>2, PhraseType DEF New
  <2>4. IsOperand(t, e)
    BY <2>1, <2>2, <2>3 DEF IsOperand, UndefinedAt
  <2> QED
    BY <2>3, <2>4, OperandSpine
<1>4. CASE \E i \in 1..Len(t) :
             IsDefined(t, i) /\ e = New(i, i + 4, Tight, Truth(In(t, i + 2) \in DOMAIN Macros))
  <2>1. PICK i \in 1..Len(t) :
             IsDefined(t, i) /\ e = New(i, i + 4, Tight, Truth(In(t, i + 2) \in DOMAIN Macros))
    BY <1>4
  <2>2. i \in Nat \ {0} /\ i + 4 \in Nat /\ Truth(In(t, i + 2) \in DOMAIN Macros) \in Int
    BY <1>1, <2>1 DEF Truth
  <2>3. /\ e \in Phrase /\ e.from = i /\ e.to = i + 4 /\ e.power = Tight
        /\ e.value = Truth(In(t, i + 2) \in DOMAIN Macros)
    BY <1>1, <2>1, <2>2, PhraseType DEF New
  <2>4. IsOperand(t, e)
    BY <2>1, <2>2, <2>3 DEF IsOperand, DefinedAt
  <2> QED
    BY <2>3, <2>4, OperandSpine
<1> QED
  BY <1>2, <1>3, <1>4 DEF Singles

\* The phrases in P are come to along spines, if they are plain.
Spined(P) == \A u \in Texts : \A r \in P[u] : Plain(r) => HasSpine(u, r)

LEMMA Within ==
    ASSUME NEW t \in Texts, NEW n \in 0..Depth, Spined(Found(n)), NEW r \in Found(n)[t], Plain(r)
    PROVE  r \in Phrase /\ r \in Known(t) /\ HasSpine(t, r) /\ r = New(r.from, r.to, r.power, r.value)
<1>1. HasSpine(t, r) /\ r \in Known(t)
  BY DEF Spined, Known
<1> QED
  BY <1>1, SpineType, PhraseIsNew

LEMMA MacroSpine ==
    ASSUME NEW t \in Texts, NEW n \in 0..Depth, Spined(Found(n)),
           NEW e \in MacroPhrases(t, Found(n)), Plain(e)
    PROVE  HasSpine(t, e)
<1>1. PICK i \in 1..Len(t) :
        /\ t[i] \in DOMAIN Macros
        /\ \E r \in Whole(Macros[t[i]], Found(n)[Macros[t[i]]]) : e = [r EXCEPT !.from = i, !.to = i + 1]
  BY DEF MacroPhrases
<1> DEFINE u == Macros[t[i]]
<1>2. PICK r \in Found(n)[u] : /\ r.from = 1 /\ In(u, r.to) \in {"eof", "nl"}
                               /\ e = [r EXCEPT !.from = i, !.to = i + 1]
  BY <1>1 DEF Whole
<1>3. u \in Texts /\ Len(t) \in Nat
  BY <1>1, TextFacts
<1>4. Plain(r)
  BY <1>2 DEF Plain
<1>5. r \in Phrase /\ r \in Known(u)
  BY <1>2, <1>3, <1>4, Within
<1>6. i \in Nat \ {0} /\ i + 1 \in Nat /\ In(t, i) = t[i]
  BY <1>1, <1>3 DEF In
<1>7. e \in Phrase /\ e.from = i /\ e.to = i + 1 /\ e.value = r.value
  BY <1>2, <1>5, <1>6 DEF Phrase
<1>8. IsOperand(t, e)
  BY <1>1, <1>2, <1>5, <1>6, <1>7 DEF IsOperand, MacroAt
<1> QED
  BY <1>7, <1>8, OperandSpine

LEMMA ParenSpine ==
    ASSUME NEW t \in Texts, NEW n \in 0..Depth, Spined(Found(n)),
           NEW e \in Parenthesised(t, Found(n)[t]), Plain(e)
    PROVE  HasSpine(t, e)
<1>1. PICK r \in Found(n)[t] :
        /\ In(t, r.from - 1) = "(" /\ In(t, r.to) = ")"
        /\ e = [r EXCEPT !.from = @ - 1, !.to = @ + 1, !.power = Tight]
  BY DEF Parenthesised
<1>2. Plain(r)
  BY <1>1 DEF Plain
<1>3. r \in Phrase /\ r \in Known(t)
  BY <1>2, Within
<1>4. r.from - 1 \in 1..Len(t) /\ Len(t) \in Nat
  BY <1>1, TextFacts
<1>5. /\ r.from - 1 \in Nat \ {0} /\ r.to + 1 \in Nat /\ Tight \in TernaryPower..Tight
      /\ (r.from - 1) + 1 = r.from
  <2>1. r.from \in Nat \ {0} /\ r.to \in Nat /\ Tight \in TernaryPower..Tight
    BY <1>3, PhraseType
  <2> QED
    BY <1>4, <2>1
<1>6. e \in Phrase /\ e.from = r.from - 1 /\ e.to = r.to + 1 /\ e.value = r.value
  BY <1>1, <1>3, <1>5 DEF Phrase
<1>7. IsOperand(t, e)
  BY <1>1, <1>3, <1>5, <1>6 DEF IsOperand, ParenAt
<1> QED
  BY <1>6, <1>7, OperandSpine

LEMMA PrefixSpine ==
    ASSUME NEW t \in Texts, NEW n \in 0..Depth, Spined(Found(n)),
           NEW e \in Prefixed(t, Found(n)[t]), Plain(e)
    PROVE  HasSpine(t, e)
<1>1. PICK r \in Found(n)[t] :
        /\ r.power >= UnaryPower /\ In(t, r.from - 1) \in DOMAIN Prefix
        /\ e = [r EXCEPT !.from = @ - 1, !.power = UnaryPower, !.value = Unary(In(t, r.from - 1), @)]
  BY DEF Prefixed
<1>2. Plain(r)
  BY <1>1 DEF Plain
<1>3. r \in Phrase /\ r \in Known(t)
  BY <1>2, Within
<1>4. In(t, r.from - 1) # "eof"
  BY <1>1, WaitTypes
<1>5. r.from - 1 \in 1..Len(t) /\ Len(t) \in Nat
  BY <1>4, TextFacts
<1>6. Unary(In(t, r.from - 1), r.value) \in Int
  BY <1>3, PhraseType DEF Unary, Truth
<1>7. /\ r.from - 1 \in Nat \ {0} /\ UnaryPower \in TernaryPower..Tight
      /\ (r.from - 1) + 1 = r.from
  <2>1. r.from \in Nat \ {0} /\ UnaryPower \in TernaryPower..Tight
    BY <1>3, PhraseType
  <2> QED
    BY <1>5, <2>1
<1>8. /\ e \in Phrase /\ e.from = r.from - 1 /\ e.to = r.to /\ e.power = UnaryPower
      /\ e.value = Unary(In(t, r.from - 1), r.value)
  BY <1>1, <1>3, <1>6, <1>7 DEF Phrase
<1>9. IsOperand(t, e)
  BY <1>1, <1>3, <1>7, <1>8 DEF IsOperand, PrefixAt
<1> QED
  BY <1>8, <1>9, OperandSpine

LEMMA JoinSpine ==
    ASSUME NEW t \in Texts, NEW n \in 0..Depth, Spined(Found(n)),
           NEW e \in Joined(t, Found(n)[t]), Plain(e)
    PROVE  HasSpine(t, e)
<1>1. PICK p \in Found(n)[t] \X Found(n)[t] :
        Joins(t, p[1], p[2]) /\ e = Join(In(t, p[1].to), p[1], p[2])
  BY DEF Joined
<1> DEFINE l == p[1]
           r == p[2]
           op == In(t, l.to)
           b == Infix[op]
           v == Apply(op, l.value, r.value)
<1>2. l \in Found(n)[t] /\ r \in Found(n)[t] /\ Joins(t, l, r) /\ e = Join(op, l, r)
  BY <1>1
<1> HIDE DEF l, r
<1>3. ~Decides(op, l.value) /\ ~(op = "/" /\ r.value = 0) /\ Plain(l) /\ Plain(r)
  BY <1>2 DEF Join, Plain
<1>4. HasSpine(t, l) /\ l \in Phrase /\ r \in Phrase /\ r \in Known(t)
  BY <1>2, <1>3, Within
<1>5. op \in DOMAIN Infix /\ l.power >= b
  BY <1>2 DEF Joins
<1>6. b \in TernaryPower..Tight
  BY <1>5, PhraseType
<1>7. v \in Int
  BY <1>3, <1>4, <1>5, ApplyType, PhraseType
<1> HIDE DEF op, v, b
<1>8. e.from = l.from /\ e.to = r.to /\ e.power = b /\ e.value = v
  BY <1>2, <1>3 DEF Join, v, b
<1>9. e = [from |-> l.from, to |-> r.to, power |-> b, value |-> v, fails |-> FALSE, skips |-> FALSE]
  BY <1>2, <1>3, <1>4 DEF Join, v, b, Phrase
<1>10. e \in Phrase
  BY <1>4, <1>6, <1>7, <1>9, PhraseType DEF New
<1>11. JoinAt(t, l, e)
  BY <1>2, <1>3, <1>4, <1>8 DEF JoinAt, b, v, op
<1>12. e.power <= l.power
  BY <1>4, <1>5, <1>6, <1>8, PhraseType
<1> QED
  BY <1>4, <1>8, <1>10, <1>11, <1>12, LongerSpine

LEMMA ChooseSpine ==
    ASSUME NEW t \in Texts, NEW n \in 0..Depth, Spined(Found(n)),
           NEW e \in Chosen(t, Found(n)[t]), Plain(e)
    PROVE  HasSpine(t, e)
<1> DEFINE E == Found(n)[t]
<1>1. PICK c \in E, a \in E, b \in E : Chooses(t, c, a, b) /\ e = Choice(c, a, b)
  <2>1. PICK p \in {c \in E : In(t, c.to) = "?"} \X {a \in E : In(t, a.to) = ":"} \X E :
          Chooses(t, p[1], p[2], p[3]) /\ e = Choice(p[1], p[2], p[3])
    BY DEF Chosen
  <2>2. p[1] \in E /\ p[2] \in E /\ p[3] \in E
    BY <2>1
  <2> QED
    BY <2>1, <2>2
<1>2. Plain(c) /\ Plain(a) /\ Plain(b)
  BY <1>1 DEF Choice, Plain
<1>3. /\ HasSpine(t, c) /\ c \in Phrase /\ a \in Phrase /\ b \in Phrase
      /\ a \in Known(t) /\ b \in Known(t)
  BY <1>2, Within
<1> DEFINE v == IF c.value # 0 THEN a.value ELSE b.value
<1>4. v \in Int
  BY <1>3, PhraseType
<1>5. e.from = c.from /\ e.to = b.to /\ e.power = TernaryPower /\ e.value = v
  BY <1>1 DEF Choice
<1> HIDE DEF v
<1>6. e = [from |-> c.from, to |-> b.to, power |-> TernaryPower, value |-> v,
           fails |-> FALSE, skips |-> FALSE]
  BY <1>1, <1>3 DEF Choice, Phrase, v
<1>7. e \in Phrase
  BY <1>3, <1>4, <1>6, PhraseType DEF New
<1>8. ChooseAt(t, c, e)
  BY <1>1, <1>3, <1>5 DEF ChooseAt, v
<1>9. e.power <= c.power
  BY <1>1, <1>3, <1>5, PhraseType DEF Chooses, TernaryPower
<1> QED
  BY <1>3, <1>5, <1>7, <1>8, <1>9, LongerSpine

\* Every phrase is come to along a spine.
LEMMA KnownHasSpine ==
    ASSUME NEW t \in Texts, NEW e \in Known(t)
    PROVE  HasSpine(t, e)
<1> DEFINE S == {n \in Nat : n <= Depth => Spined(Found(n))}
<1>1. Depth \in Nat
  BY MeaningAssumption
<1>2. 0 \in S
  BY FoundSteps DEF Spined
<1>3. ASSUME NEW n \in Nat, n \in S
      PROVE  n + 1 \in S
  <2> SUFFICES ASSUME n + 1 <= Depth, NEW u \in Texts, NEW r \in Found(n + 1)[u], Plain(r)
               PROVE  HasSpine(u, r)
    BY DEF Spined
  <2>1. n \in 0..Depth /\ Spined(Found(n))
    BY <1>1, <1>3
  <2>2. r \in Made(u, Found(n))
    BY FoundSteps
  <2> HIDE DEF S
  <2> QED
    BY <2>1, <2>2, MadeOf, SingleSpine, MacroSpine, ParenSpine, PrefixSpine, JoinSpine, ChooseSpine
<1>4. PICK n \in 0..Depth : e \in Found(n)[t] /\ Plain(e)
  BY DEF Known
<1>5. n \in S
  <2>1. Nat \subseteq S
    <3> HIDE DEF S
    <3> QED
      BY <1>2, <1>3, Induction
  <2> QED
    BY <1>1, <2>1
<1> QED
  BY <1>1, <1>4, <1>5 DEF Spined

-----------------------------------------------------------------------------
(* What each call of eval_cond is to do, if the condition is a phrase: go   *)
(* along a spine in one of the sources.                                     *)

\* `at` is how far along the spine the call is; `right` is the phrase that the call
\* it waits for is to read.
Plan == [source : Nat \ {0}, spine : Seq(Phrase), at : Nat, right : Phrase]

Text(p, sr) == sr[p.source].tokens

\* At x a call for minbp returns.
Stops(x, minbp) == x \in Ends \/ (IsOperator(x) /\ Bp(x) <= minbp)

Covers(f, p, sr) ==
    /\ p.source \in 1..Len(sr) /\ Text(p, sr) \in Texts /\ IsSpine(Text(p, sr), p.spine)
    /\ f.minbp \in 0..UnaryPower
    /\ \A i \in 2..Len(p.spine) : p.spine[i].power > f.minbp
    /\ Stops(In(Text(p, sr), Final(p.spine).to), f.minbp)

Running(f, p, i) ==
    \/ f.wait = "nud" /\ p.at = 0 /\ i = p.spine[1].from
    \/ /\ f.wait = "loop" /\ p.at \in 1..Len(p.spine)
       /\ f.left = p.spine[p.at].value /\ i = p.spine[p.at].to

WaitsInNud(f, p, t) ==
    /\ p.at = 0
    /\ \/ f.wait = "macro" /\ p.spine[1].value = p.right.value
       \/ /\ f.wait = "paren" /\ In(t, p.right.to) = ")"
          /\ p.spine[1].to = p.right.to + 1 /\ p.spine[1].value = p.right.value
       \/ /\ p.spine[1].to = p.right.to
          /\ \/ f.wait = "!" /\ p.spine[1].value = Truth(p.right.value = 0)
             \/ f.wait = "unary +" /\ p.spine[1].value = p.right.value
             \/ f.wait = "unary -" /\ p.spine[1].value = -p.right.value

WaitsInLed(f, p, t) ==
    /\ p.at \in 1..(Len(p.spine) - 1) /\ f.left = p.spine[p.at].value
    /\ \/ /\ f.wait \in DOMAIN Infix /\ p.spine[p.at + 1].to = p.right.to
          /\ p.spine[p.at + 1].value = Apply(f.wait, f.left, p.right.value)
          /\ f.wait = "/" => p.right.value # 0
       \/ /\ f.wait = "then" /\ p.spine[p.at + 1].power = TernaryPower
          /\ In(t, p.right.to) = ":"
          /\ \E b \in Known(t) :
                /\ b.from = p.right.to + 1 /\ p.spine[p.at + 1].to = b.to
                /\ p.spine[p.at + 1].value = IF f.left # 0 THEN p.right.value ELSE b.value
       \/ /\ f.wait = "else" /\ p.spine[p.at + 1].to = p.right.to
          /\ p.spine[p.at + 1].value = IF f.left # 0 THEN f.then ELSE p.right.value

Held(f) == IF f.wait = "macro" THEN 1 ELSE 0

Suspended(f, p, sr) ==
    /\ WaitsInNud(f, p, Text(p, sr)) \/ WaitsInLed(f, p, Text(p, sr))
    /\ f.wait = "macro" => sr[p.source].pos = p.spine[1].to

\* The call with plan c is made by f.
Calls(f, p, c, sr) ==
    Suspended(f, p, sr) /\ c.source = p.source + Held(f) /\ Final(c.spine) = p.right

\* The calls fr with the sources sr are on the way to the value v.
Track(fr, sr, pl, v) ==
    /\ pl \in Seq(Plan) /\ Len(pl) = Len(fr)
    /\ \A k \in 1..Len(fr) : Covers(fr[k], pl[k], sr)
    /\ \A k \in 1..(Len(fr) - 1) : Calls(fr[k], pl[k], pl[k + 1], sr)
    /\ \A j, k \in 1..Len(fr) : j < k => pl[j].source + Held(fr[j]) <= pl[k].source
    /\ pl[1].source = 1 /\ Final(pl[1].spine).value = v

\* The innermost call runs, or has what it waited for.
OnTop(f, p, sr, val) ==
    \/ Len(sr) = p.source /\ Running(f, p, sr[Len(sr)].pos)
    \/ /\ Suspended(f, p, sr) /\ Len(sr) = p.source + Held(f)
       /\ val = p.right.value /\ sr[Len(sr)].pos = p.right.to

-----------------------------------------------------------------------------
(* How calls come and go.                                                   *)

\* The sources up to q are the same, but for the place in the q-th.
SameUpTo(sr, new, q) ==
    /\ Len(new) \in Nat /\ q \in 1..Len(new)
    /\ \A i \in 1..q : new[i].tokens = sr[i].tokens
    /\ \A i \in 1..(q - 1) : new[i].pos = sr[i].pos

LEMMA SameCovers ==
    ASSUME NEW sr, NEW new, NEW q, SameUpTo(sr, new, q), NEW f, NEW p \in Plan,
           p.source <= q, Covers(f, p, sr)
    PROVE  Covers(f, p, new)
<1>1. p.source \in 1..Len(new) /\ p.source \in 1..q
  BY DEF SameUpTo, Plan
<1>2. Text(p, new) = Text(p, sr)
  BY <1>1 DEF SameUpTo, Text
<1> QED
  BY <1>1, <1>2 DEF Covers

LEMMA SameSuspended ==
    ASSUME NEW sr, NEW new, NEW q, SameUpTo(sr, new, q), NEW f, NEW p \in Plan,
           p.source + Held(f) <= q, Suspended(f, p, sr)
    PROVE  Suspended(f, p, new)
<1>1. p.source \in 1..q /\ (f.wait = "macro" => p.source \in 1..(q - 1))
  BY DEF SameUpTo, Plan, Held
<1>2. Text(p, new) = Text(p, sr) /\ (f.wait = "macro" => new[p.source].pos = sr[p.source].pos)
  BY <1>1 DEF SameUpTo, Text
<1> QED
  BY <1>2 DEF Suspended

\* The innermost call goes on, or starts to wait.
LEMMA TrackMoves ==
    ASSUME NEW fr \in Seq(Activation), NEW n \in Nat \ {0}, n = Len(fr), NEW sr, NEW pl, NEW v,
           Track(fr, sr, pl, v),
           NEW f \in Activation, f.minbp = fr[n].minbp,
           NEW p \in Plan, p.source = pl[n].source, p.spine = pl[n].spine,
           NEW new, SameUpTo(sr, new, p.source)
    PROVE  Track([fr EXCEPT ![n] = f], new, [pl EXCEPT ![n] = p], v)
<1> DEFINE gr == [fr EXCEPT ![n] = f]
           ql == [pl EXCEPT ![n] = p]
           q == p.source
<1>1. pl \in Seq(Plan) /\ Len(pl) = n
  BY DEF Track
<1>2. /\ ql \in Seq(Plan) /\ Len(ql) = n /\ Len(gr) = n /\ ql[n] = p /\ gr[n] = f
      /\ \A k \in 1..n : k # n => ql[k] = pl[k] /\ gr[k] = fr[k]
  BY <1>1
<1> HIDE DEF gr, ql
<1>3. \A k \in 1..n : pl[k] \in Plan /\ fr[k] \in Activation
  BY <1>1, ElementOfSeq
<1>4. \A j, k \in 1..n : j < k => ql[j].source + Held(gr[j]) <= ql[k].source
  <2> SUFFICES ASSUME NEW j \in 1..n, NEW k \in 1..n, j < k
               PROVE  ql[j].source + Held(gr[j]) <= ql[k].source
    OBVIOUS
  <2>1. j # n /\ ql[j] = pl[j] /\ gr[j] = fr[j] /\ ql[k].source = pl[k].source
    BY <1>2
  <2> QED
    BY <2>1 DEF Track
<1>5. \A k \in 1..n : k # n => pl[k].source + Held(fr[k]) <= q
  BY DEF Track
<1>6. ASSUME NEW k \in 1..n
      PROVE  Covers(gr[k], ql[k], new)
  <2>1. Covers(fr[k], pl[k], sr)
    BY DEF Track
  <2>2. CASE k = n
    <3>1. Covers(f, p, sr)
      BY <2>1, <2>2 DEF Covers, Text
    <3>2. p.source <= q
      BY DEF Plan
    <3> QED
      BY <1>2, <2>2, <3>1, <3>2, SameCovers
  <2>3. CASE k # n
    <3>1. pl[k].source <= q
      BY <1>3, <1>5, <2>3 DEF Held, Plan
    <3> QED
      BY <1>2, <1>3, <2>1, <2>3, <3>1, SameCovers
  <2> QED
    BY <2>2, <2>3
<1>7. ASSUME NEW k \in 1..(n - 1)
      PROVE  Calls(gr[k], ql[k], ql[k + 1], new)
  <2>1. k \in 1..n /\ k # n /\ k + 1 \in 1..n
    OBVIOUS
  <2>2. Calls(fr[k], pl[k], pl[k + 1], sr) /\ gr[k] = fr[k] /\ ql[k] = pl[k]
    BY <1>2, <2>1 DEF Track
  <2>3. ql[k + 1].source = pl[k + 1].source /\ ql[k + 1].spine = pl[k + 1].spine
    BY <1>2, <2>1
  <2>4. Suspended(fr[k], pl[k], new)
    BY <1>3, <1>5, <2>1, <2>2, SameSuspended DEF Calls
  <2> QED
    BY <2>2, <2>3, <2>4 DEF Calls
<1>8. ql[1].source = 1 /\ Final(ql[1].spine) = Final(pl[1].spine)
  <2>1. ql[1].source = pl[1].source /\ ql[1].spine = pl[1].spine
    BY <1>2
  <2> QED
    BY <2>1 DEF Track
<1>9. Final(ql[1].spine).value = v
  BY <1>8 DEF Track
<1>10. Track(gr, new, ql, v)
  BY <1>2, <1>4, <1>6, <1>7, <1>8, <1>9 DEF Track
<1> QED
  BY <1>10 DEF gr, ql

\* The innermost call makes a call.
LEMMA TrackGrows ==
    ASSUME NEW fr \in Seq(Activation), NEW n \in Nat \ {0}, n = Len(fr), NEW sr, NEW pl, NEW v,
           Track(fr, sr, pl, v), NEW g \in Activation, NEW c \in Plan,
           Calls(fr[n], pl[n], c, sr), Covers(g, c, sr)
    PROVE  Track(Append(fr, g), sr, Append(pl, c), v)
<1> DEFINE gr == Append(fr, g)
           ql == Append(pl, c)
<1>1. pl \in Seq(Plan) /\ Len(pl) = n
  BY DEF Track
<1>2. /\ ql \in Seq(Plan) /\ Len(ql) = n + 1 /\ Len(gr) = n + 1
      /\ ql[n + 1] = c /\ gr[n + 1] = g
      /\ \A k \in 1..n : ql[k] = pl[k] /\ gr[k] = fr[k]
  BY <1>1, AppendProperties
<1> HIDE DEF gr, ql
<1>3. \A k \in 1..n : pl[k] \in Plan /\ fr[k] \in Activation
  BY <1>1, ElementOfSeq
<1>4. \A k \in 1..n : pl[k].source \in Nat /\ Held(fr[k]) \in Nat
  BY <1>3 DEF Plan, Held
<1>5. \A k \in 1..n : pl[k].source + Held(fr[k]) <= c.source
  <2> SUFFICES ASSUME NEW k \in 1..n PROVE pl[k].source + Held(fr[k]) <= c.source
    OBVIOUS
  <2>1. c.source = pl[n].source + Held(fr[n])
    BY DEF Calls
  <2>2. k # n => pl[k].source + Held(fr[k]) <= pl[n].source
    BY DEF Track
  <2> QED
    BY <1>4, <2>1, <2>2
<1>6. ASSUME NEW j \in 1..(n + 1), NEW k \in 1..(n + 1), j < k
      PROVE  ql[j].source + Held(gr[j]) <= ql[k].source
  <2>1. j \in 1..n /\ (k = n + 1 \/ k \in 1..n)
    BY <1>6
  <2>2. CASE k = n + 1
    BY <1>2, <1>5, <2>1, <2>2
  <2>3. CASE k \in 1..n
    <3>1. pl[j].source + Held(fr[j]) <= pl[k].source
      BY <1>6, <2>1, <2>3 DEF Track
    <3> QED
      BY <1>2, <2>1, <2>3, <3>1
  <2> QED
    BY <2>1, <2>2, <2>3
<1>7. ASSUME NEW k \in 1..(n + 1)
      PROVE  Covers(gr[k], ql[k], sr)
  <2>1. k = n + 1 \/ k \in 1..n
    OBVIOUS
  <2> QED
    BY <1>2, <2>1 DEF Track
<1>8. ASSUME NEW k \in 1..n
      PROVE  Calls(gr[k], ql[k], ql[k + 1], sr)
  <2>1. CASE k = n
    BY <1>2, <2>1
  <2>2. CASE k # n
    <3>1. k \in 1..(n - 1) /\ k + 1 \in 1..n
      BY <2>2
    <3> QED
      BY <1>2, <3>1 DEF Track
  <2> QED
    BY <2>1, <2>2
<1>9. ql[1].source = 1 /\ Final(ql[1].spine).value = v
  <2>1. ql[1] = pl[1]
    BY <1>2
  <2> QED
    BY <2>1 DEF Track
<1>10. Track(gr, sr, ql, v)
  <2>1. Len(gr) - 1 = n
    BY <1>2
  <2> QED
    BY <1>2, <1>6, <1>7, <1>8, <1>9, <2>1 DEF Track
<1> QED
  BY <1>10 DEF gr, ql

\* It returns.
LEMMA TrackShrinks ==
    ASSUME NEW fr \in Seq(Activation), NEW n \in Nat \ {0}, n + 1 = Len(fr), NEW sr, NEW pl, NEW v,
           Track(fr, sr, pl, v)
    PROVE  Track(SubSeq(fr, 1, n), sr, SubSeq(pl, 1, n), v)
<1> DEFINE gr == SubSeq(fr, 1, n)
           ql == SubSeq(pl, 1, n)
<1>1. pl \in Seq(Plan) /\ Len(pl) = n + 1
  BY DEF Track
<1>2. /\ ql \in Seq(Plan) /\ Len(ql) = n /\ Len(gr) = n
      /\ \A k \in 1..n : ql[k] = pl[k] /\ gr[k] = fr[k]
  BY <1>1, PopEffect
<1> HIDE DEF gr, ql
<1>3. \A j, k \in 1..n : j < k => ql[j].source + Held(gr[j]) <= ql[k].source
  <2> SUFFICES ASSUME NEW j \in 1..n, NEW k \in 1..n, j < k
               PROVE  ql[j].source + Held(gr[j]) <= ql[k].source
    OBVIOUS
  <2>1. j \in 1..(n + 1) /\ k \in 1..(n + 1)
    OBVIOUS
  <2> QED
    BY <1>2, <2>1 DEF Track
<1>4. ASSUME NEW k \in 1..n
      PROVE  Covers(gr[k], ql[k], sr)
  <2>1. k \in 1..(n + 1)
    OBVIOUS
  <2> QED
    BY <1>2, <2>1 DEF Track
<1>5. ASSUME NEW k \in 1..(n - 1)
      PROVE  Calls(gr[k], ql[k], ql[k + 1], sr)
  <2>1. k \in 1..((n + 1) - 1) /\ k \in 1..n /\ k + 1 \in 1..n
    OBVIOUS
  <2> QED
    BY <1>2, <2>1 DEF Track
<1>6. ql[1].source = 1 /\ Final(ql[1].spine).value = v
  <2>1. ql[1] = pl[1]
    BY <1>2
  <2> QED
    BY <2>1 DEF Track
<1>7. Track(gr, sr, ql, v)
  BY <1>2, <1>3, <1>4, <1>5, <1>6 DEF Track
<1> QED
  BY <1>7 DEF gr, ql

-----------------------------------------------------------------------------
(* Binding powers along a spine.                                            *)

\* The phrases of a spine begin in the same place, and only the first is an operand.
LEMMA SpineFacts ==
    ASSUME NEW t, NEW s, IsSpine(t, s)
    PROVE  /\ s \in Seq(Phrase) /\ Len(s) \in Nat \ {0}
           /\ \A i \in 1..Len(s) : /\ s[i] \in Phrase /\ s[i].from = s[1].from
                                   /\ s[i].power \in Nat /\ s[i].power >= TernaryPower
                                   /\ s[i].power >= Final(s).power
           /\ \A i \in 2..Len(s) : s[i].power < UnaryPower
<1>1. s \in Seq(Phrase) /\ Len(s) \in Nat \ {0} /\ 1 \in 1..Len(s)
  BY DEF IsSpine
<1>2. \A i \in 1..Len(s) : s[i] \in Phrase /\ s[i].from = s[1].from /\ s[i].power >= Final(s).power
  BY <1>1, ElementOfSeq DEF IsSpine
<1>3. ASSUME NEW i \in 2..Len(s)
      PROVE  s[i].power \in Nat /\ s[i].power >= 25 /\ s[i].power <= 120
  <2>1. i - 1 \in 1..(Len(s) - 1) /\ (i - 1) + 1 = i
    BY <1>1
  <2>2. JoinAt(t, s[i - 1], s[i]) \/ ChooseAt(t, s[i - 1], s[i])
    BY <2>1 DEF IsSpine
  <2>3. CASE JoinAt(t, s[i - 1], s[i])
    <3>1. In(t, s[i - 1].to) \in DOMAIN Infix /\ s[i].power = Infix[In(t, s[i - 1].to)]
      BY <2>3 DEF JoinAt, Joins
    <3> QED
      BY <3>1, TokenPowers
  <2>4. CASE ChooseAt(t, s[i - 1], s[i])
    BY <2>4 DEF ChooseAt, TernaryPower
  <2> QED
    BY <2>2, <2>3, <2>4
<1>4. s[1].power \in Nat /\ s[1].power >= 25
  BY <1>1, <1>2, PhraseType DEF TernaryPower
<1>5. \A i \in 1..Len(s) : i = 1 \/ i \in 2..Len(s)
  BY <1>1
<1>6. ASSUME NEW i \in 1..Len(s)
      PROVE  s[i].power \in Nat /\ s[i].power >= 25
  <2>1. CASE i = 1
    BY <1>4, <2>1
  <2>2. CASE i \in 2..Len(s)
    BY <1>3, <2>2
  <2> QED
    BY <1>5, <2>1, <2>2
<1>7. ASSUME NEW i \in 2..Len(s)
      PROVE  s[i].power < 130
  BY <1>3
<1> QED
  BY <1>1, <1>2, <1>6, <1>7 DEF UnaryPower, TernaryPower

\* A call that takes a phrase of the spine as its right operand returns at its end.
LEMMA SpineStops ==
    ASSUME NEW t, NEW s, IsSpine(t, s), NEW b \in Nat, Stops(In(t, Final(s).to), b),
           NEW i \in 1..Len(s), NEW m \in Nat, b <= m, i # Len(s) => s[i].power <= m
    PROVE  Stops(In(t, s[i].to), m)
<1>1. CASE i = Len(s)
  BY <1>1, TokenPowers DEF Stops, Final
<1>2. CASE i # Len(s)
  <2>1. i \in 1..(Len(s) - 1) /\ s[i].power \in Nat /\ s[i].power <= m
    BY <1>2, SpineFacts
  <2>2. CASE JoinAt(t, s[i], s[i + 1])
    <3>1. In(t, s[i].to) \in DOMAIN Infix /\ s[i].power >= Infix[In(t, s[i].to)]
      BY <2>2 DEF JoinAt, Joins
    <3> QED
      BY <2>1, <3>1, TokenPowers DEF Stops
  <2>3. CASE ChooseAt(t, s[i], s[i + 1])
    <3>1. In(t, s[i].to) = "?" /\ s[i].power > 25
      BY <2>3 DEF ChooseAt, Chooses, TernaryPower
    <3> QED
      BY <2>1, <3>1, TokenPowers DEF Stops
  <2> QED
    BY <2>1, <2>2, <2>3 DEF IsSpine
<1> QED
  BY <1>1, <1>2

\* A ternary operator is the last of its spine, and no operator follows it.
LEMMA TernaryEnds ==
    ASSUME NEW t, NEW s, IsSpine(t, s), NEW b \in Nat, Stops(In(t, Final(s).to), b),
           NEW i \in 1..Len(s), s[i].power = TernaryPower, b < TernaryPower
    PROVE  In(t, s[i].to) \in Ends
<1>1. s[i].power = 25 /\ b < 25
  BY DEF TernaryPower
<1>2. Stops(In(t, s[i].to), 25)
  BY <1>1, SpineStops
<1>3. ASSUME i # Len(s)
      PROVE  FALSE
  <2>1. i \in 1..(Len(s) - 1)
    BY <1>3, SpineFacts
  <2>2. CASE JoinAt(t, s[i], s[i + 1])
    <3>1. In(t, s[i].to) \in DOMAIN Infix /\ s[i].power >= Infix[In(t, s[i].to)]
      BY <2>2 DEF JoinAt, Joins
    <3> QED
      BY <1>1, <3>1, TokenPowers
  <2>3. CASE ChooseAt(t, s[i], s[i + 1])
    BY <1>1, <2>3 DEF ChooseAt, Chooses, TernaryPower
  <2> QED
    BY <2>1, <2>2, <2>3 DEF IsSpine
<1> QED
  BY <1>1, <1>3, TokenPowers DEF Stops, Final

-----------------------------------------------------------------------------
(* What a step makes of the calls and their plans.                          *)

OnTrack(fr, sr, val, v) == \E pl : Track(fr, sr, pl, v) /\ OnTop(fr[Len(fr)], pl[Len(fr)], sr, val)

LEMMA FrameType ==
    ASSUME NEW m \in 0..UnaryPower
    PROVE  Frame(m) \in Activation /\ Frame(m).minbp = m /\ Frame(m).wait = "nud"
<1>1. m \in Nat
  BY DEF UnaryPower
<1>2. "nud" \in Waits
  BY WaitTypes
<1> QED
  BY <1>1, <1>2 DEF Frame, Activation

\* The call that is to read r, to the left of an operator that does not bind.
LEMMA PlanFor ==
    ASSUME NEW sr, NEW q \in Nat \ {0}, q \in 1..Len(sr), NEW t \in Texts, t = sr[q].tokens,
           NEW r \in Known(t), NEW m \in 0..UnaryPower, Stops(In(t, r.to), m),
           m = 0 \/ r.power > m \/ r.power >= UnaryPower
    PROVE  \E c \in Plan : /\ c.source = q /\ c.at = 0 /\ Final(c.spine) = r
                           /\ c.spine[1].from = r.from /\ Covers(Frame(m), c, sr)
<1>1. PICK s : IsSpine(t, s) /\ Final(s) = r
  BY KnownHasSpine DEF HasSpine
<1>2. /\ s \in Seq(Phrase) /\ Len(s) \in Nat \ {0}
      /\ \A i \in 1..Len(s) : /\ s[i].from = s[1].from /\ s[i].power \in Nat
                              /\ s[i].power >= TernaryPower /\ s[i].power >= r.power
      /\ \A i \in 2..Len(s) : s[i].power < UnaryPower
  BY <1>1, SpineFacts
<1>3. r \in Phrase /\ s[1].from = r.from /\ r.power \in Nat
  <2>1. Len(s) \in 1..Len(s)
    BY <1>2
  <2> QED
    BY <1>1, <1>2, <2>1, ElementOfSeq DEF Final
<1> DEFINE c == [source |-> q, spine |-> s, at |-> 0, right |-> r]
<1>4. c \in Plan /\ c.source = q /\ c.at = 0 /\ c.spine = s
  BY <1>2, <1>3 DEF Plan
<1> HIDE DEF c
<1>5. ASSUME NEW i \in 2..Len(s)
      PROVE  s[i].power > m
  <2>1. i \in 1..Len(s) /\ m \in Nat /\ UnaryPower \in Nat /\ TernaryPower \in Nat /\ TernaryPower > 0
    BY <1>2 DEF UnaryPower, TernaryPower
  <2>2. /\ s[i].power \in Nat /\ s[i].power >= TernaryPower /\ s[i].power >= r.power
        /\ s[i].power < UnaryPower
    BY <1>2, <2>1
  <2> QED
    BY <1>3, <2>1, <2>2
<1>6. Frame(m).minbp = m
  BY DEF Frame
<1>7. Covers(Frame(m), c, sr)
  BY <1>1, <1>4, <1>5, <1>6 DEF Covers, Text
<1> QED
  BY <1>1, <1>3, <1>4, <1>7

\* The innermost call goes on.
LEMMA Goes ==
    ASSUME NEW fr \in Seq(Activation), NEW n \in Nat \ {0}, n = Len(fr), NEW sr, NEW pl, NEW v,
           Track(fr, sr, pl, v),
           NEW f \in Activation, f.minbp = fr[n].minbp,
           NEW p \in Plan, p.source = pl[n].source, p.spine = pl[n].spine,
           NEW new, SameUpTo(sr, new, p.source), NEW val, OnTop(f, p, new, val)
    PROVE  OnTrack([fr EXCEPT ![n] = f], new, val, v)
<1> DEFINE gr == [fr EXCEPT ![n] = f]
           ql == [pl EXCEPT ![n] = p]
<1>1. pl \in Seq(Plan) /\ Len(pl) = n
  BY DEF Track
<1>2. Len(gr) = n /\ gr[n] = f /\ ql[n] = p
  BY <1>1
<1>3. Track(gr, new, ql, v)
  BY TrackMoves
<1> HIDE DEF gr, ql
<1>4. OnTrack(gr, new, val, v)
  BY <1>2, <1>3 DEF OnTrack
<1> QED
  BY <1>4 DEF gr

\* The innermost call calls eval_cond for the phrase p.right.
LEMMA CallsFor ==
    ASSUME NEW fr \in Seq(Activation), NEW n \in Nat \ {0}, n = Len(fr), NEW sr, NEW pl, NEW v,
           Track(fr, sr, pl, v),
           NEW f \in Activation, f.minbp = fr[n].minbp,
           NEW p \in Plan, p.source = pl[n].source, p.spine = pl[n].spine,
           NEW new, SameUpTo(sr, new, p.source), Suspended(f, p, new),
           NEW q \in Nat \ {0}, q = p.source + Held(f), q = Len(new), new[q].pos = p.right.from,
           NEW t \in Texts, t = new[q].tokens, p.right \in Known(t),
           NEW m \in 0..UnaryPower, Stops(In(t, p.right.to), m),
           m = 0 \/ p.right.power > m \/ p.right.power >= UnaryPower,
           NEW val
    PROVE  OnTrack(Append([fr EXCEPT ![n] = f], Frame(m)), new, val, v)
<1> DEFINE gr == [fr EXCEPT ![n] = f]
           ql == [pl EXCEPT ![n] = p]
           g == Frame(m)
<1>1. pl \in Seq(Plan) /\ Len(pl) = n
  BY DEF Track
<1>2. Len(gr) = n /\ gr[n] = f /\ ql[n] = p /\ gr \in Seq(Activation) /\ ql \in Seq(Plan)
      /\ Len(ql) = n
  BY <1>1
<1>3. Track(gr, new, ql, v)
  BY TrackMoves
<1> HIDE DEF gr, ql
<1>4. PICK c \in Plan : /\ c.source = q /\ c.at = 0 /\ Final(c.spine) = p.right
                        /\ c.spine[1].from = p.right.from /\ Covers(g, c, new)
  <2>1. q \in 1..Len(new)
    OBVIOUS
  <2> QED
    BY <2>1, PlanFor
<1>5. g \in Activation /\ g.wait = "nud"
  BY FrameType
<1> HIDE DEF g
<1>6. Calls(gr[n], ql[n], c, new)
  BY <1>2, <1>4 DEF Calls
<1> DEFINE hr == Append(gr, g)
           rl == Append(ql, c)
<1>7. Track(hr, new, rl, v)
  BY <1>2, <1>3, <1>4, <1>5, <1>6, TrackGrows
<1>8. Len(hr) = n + 1 /\ hr[n + 1] = g /\ rl[n + 1] = c
  BY <1>2, AppendProperties
<1> HIDE DEF hr, rl
<1>9. OnTop(g, c, new, val)
  BY <1>4, <1>5 DEF OnTop, Running
<1>10. OnTrack(hr, new, val, v)
  BY <1>7, <1>8, <1>9 DEF OnTrack
<1> QED
  BY <1>10 DEF hr, gr, g

\* The innermost call returns with the value of its phrase.
LEMMA Returns ==
    ASSUME NEW fr \in Seq(Activation), NEW n \in Nat \ {0}, n + 1 = Len(fr), NEW sr, NEW pl, NEW v,
           Track(fr, sr, pl, v), Len(sr) = pl[n + 1].source,
           sr[Len(sr)].pos = Final(pl[n + 1].spine).to
    PROVE  OnTrack(SubSeq(fr, 1, n), sr, Final(pl[n + 1].spine).value, v)
<1> DEFINE gr == SubSeq(fr, 1, n)
           ql == SubSeq(pl, 1, n)
<1>1. pl \in Seq(Plan) /\ Len(pl) = n + 1
  BY DEF Track
<1>2. Len(gr) = n /\ gr[n] = fr[n] /\ ql[n] = pl[n]
  BY <1>1, PopEffect
<1>3. Track(gr, sr, ql, v)
  BY TrackShrinks
<1> HIDE DEF gr, ql
<1>4. Calls(fr[n], pl[n], pl[n + 1], sr)
  <2>1. n \in 1..(Len(fr) - 1)
    OBVIOUS
  <2> QED
    BY <2>1 DEF Track
<1>5. OnTop(gr[n], ql[n], sr, Final(pl[n + 1].spine).value)
  BY <1>2, <1>4 DEF OnTop, Calls
<1>6. OnTrack(gr, sr, Final(pl[n + 1].spine).value, v)
  BY <1>2, <1>3, <1>5 DEF OnTrack
<1> QED
  BY <1>6 DEF gr

-----------------------------------------------------------------------------
(* The ways in which the innermost call acts.                               *)

\* What the plan of the innermost call says.
LEMMA TopPlan ==
    ASSUME CondInv, NEW pl, NEW v, Track(frames, sources, pl, v), NEW p, p = pl[Len(frames)]
    PROVE  /\ p \in Plan /\ Covers(Top, p, sources)
           /\ p.source \in 1..Len(sources) /\ Text(p, sources) = sources[p.source].tokens
           /\ Text(p, sources) \in Texts /\ IsSpine(Text(p, sources), p.spine)
           /\ p.spine \in Seq(Phrase) /\ Len(p.spine) \in Nat \ {0}
           /\ Top.minbp \in 0..UnaryPower
           /\ Stops(In(Text(p, sources), Final(p.spine).to), Top.minbp)
<1>1. Len(frames) \in Nat \ {0} /\ Top = frames[Len(frames)]
  BY StateType DEF CondInv, Top
<1>2. pl \in Seq(Plan) /\ Len(pl) = Len(frames) /\ Covers(Top, p, sources)
  BY <1>1 DEF Track
<1>3. p \in Plan
  BY <1>1, <1>2, ElementOfSeq
<1> QED
  BY <1>2, <1>3 DEF Covers, Text, IsSpine

\* Reading n tokens.
LEMMA ConsumeSame ==
    ASSUME CondInv, NEW n \in Nat, Consume(n)
    PROVE  /\ Len(sources') = Len(sources) /\ SameUpTo(sources, sources', Len(sources))
           /\ sources'[Len(sources)].pos = Src.pos + n
           /\ sources'[Len(sources)].tokens = Src.tokens
<1>1. /\ sources \in Seq(TokenSource) /\ Len(sources) \in Nat \ {0} /\ Src \in TokenSource
      /\ Src = sources[Len(sources)]
  BY StateType DEF CondInv, SourcesOK, Src
<1> DEFINE s == [Src EXCEPT !.pos = @ + n]
<1>2. s.pos = Src.pos + n /\ s.tokens = Src.tokens
  BY <1>1 DEF TokenSource
<1>3. sources' = [sources EXCEPT ![Len(sources)] = s]
  BY <1>1 DEF Consume
<1> HIDE DEF s
<1>4. /\ Len(sources') = Len(sources) /\ sources'[Len(sources)] = s
      /\ \A k \in 1..Len(sources) : k # Len(sources) => sources'[k] = sources[k]
  BY <1>1, <1>3
<1> QED
  BY <1>1, <1>2, <1>4 DEF SameUpTo

LEMMA NothingRead ==
    ASSUME CondInv, UNCHANGED sources, NEW q \in 1..Len(sources)
    PROVE  SameUpTo(sources, sources', q)
<1>1. Len(sources) \in Nat
  BY StateType DEF CondInv
<1> QED
  BY <1>1 DEF SameUpTo

\* The call runs on with the i-th phrase of its spine as its left operand.
LEMMA Finds ==
    ASSUME CondInv, NEW pl, NEW v, Track(frames, sources, pl, v), NEW p, p = pl[Len(frames)],
           NEW i \in 1..Len(p.spine), Operand(p.spine[i].value),
           SameUpTo(sources, sources', p.source), Len(sources') = p.source,
           sources'[p.source].pos = p.spine[i].to
    PROVE  OnTrack(frames', sources', value', v)
<1>1. /\ frames \in Seq(Activation) /\ Len(frames) \in Nat \ {0} /\ Top \in Activation
      /\ Top = frames[Len(frames)]
  BY StateType DEF CondInv, Top
<1>2. p \in Plan /\ p.spine \in Seq(Phrase) /\ Len(p.spine) \in Nat \ {0}
  BY TopPlan
<1>3. p.spine[i].value \in Int /\ i \in Nat
  <2>1. p.spine[i] \in Phrase
    BY <1>2, ElementOfSeq
  <2> QED
    BY <1>2, <2>1, PhraseType
<1> DEFINE f == [Top EXCEPT !.left = p.spine[i].value, !.wait = "loop"]
           r == [p EXCEPT !.at = i]
<1>4. /\ f \in Activation /\ f.minbp = Top.minbp /\ f.wait = "loop"
      /\ f.left = p.spine[i].value
  BY <1>1, <1>3, WaitTypes DEF Activation
<1>5. r \in Plan /\ r.source = p.source /\ r.spine = p.spine /\ r.at = i
  BY <1>2, <1>3 DEF Plan
<1>6. frames' = [frames EXCEPT ![Len(frames)] = f]
  BY DEF Operand, SetTop
<1> HIDE DEF f, r
<1>7. OnTop(f, r, sources', value')
  BY <1>4, <1>5 DEF OnTop, Running
<1> QED
  BY <1>1, <1>4, <1>5, <1>6, <1>7, Goes

\* The call calls eval_cond for r, to come to the phrase after the k-th.
Asking(p, k, r) == [p EXCEPT !.at = k, !.right = r]

LEMMA AsksFor ==
    ASSUME CondInv, NEW pl, NEW v, Track(frames, sources, pl, v), NEW p, p = pl[Len(frames)],
           NEW f \in Activation, f.minbp = Top.minbp, NEW m \in 0..UnaryPower, Call(f, m),
           NEW k \in Nat, NEW t \in Texts, NEW r \in Known(t),
           SameUpTo(sources, sources', p.source), Suspended(f, Asking(p, k, r), sources'),
           Len(sources') = p.source + Held(f), sources'[Len(sources')].tokens = t,
           sources'[Len(sources')].pos = r.from,
           Stops(In(t, r.to), m), m = 0 \/ r.power > m \/ r.power >= UnaryPower
    PROVE  OnTrack(frames', sources', value', v)
<1>1. /\ frames \in Seq(Activation) /\ Len(frames) \in Nat \ {0}
      /\ Top = frames[Len(frames)]
  BY StateType DEF CondInv, Top
<1>2. p \in Plan
  BY TopPlan
<1>3. r \in Phrase
  BY KnownHasSpine, SpineType
<1> DEFINE c == Asking(p, k, r)
           q == p.source + Held(f)
<1>4. c \in Plan /\ c.source = p.source /\ c.spine = p.spine /\ c.right = r
  BY <1>2, <1>3 DEF Plan, Asking
<1>5. q \in Nat \ {0} /\ q = c.source + Held(f) /\ q = Len(sources')
  BY <1>2, <1>4 DEF Plan, Held
<1>6. frames' = Append([frames EXCEPT ![Len(frames)] = f], Frame(m))
  BY DEF Call
<1> HIDE DEF c, q
<1>7. /\ SameUpTo(sources, sources', c.source) /\ Suspended(f, c, sources')
      /\ sources'[q].pos = c.right.from /\ t = sources'[q].tokens /\ c.right \in Known(t)
      /\ Stops(In(t, c.right.to), m)
      /\ m = 0 \/ c.right.power > m \/ c.right.power >= UnaryPower
  BY <1>4, <1>5 DEF c
<1> QED
  BY <1>1, <1>4, <1>5, <1>6, <1>7, CallsFor

-----------------------------------------------------------------------------
(* nud, loop and led come along the spine.                                  *)

\* The calls are on their way to v; p is the plan of the innermost.
OnTheWay(pl, p, v) ==
    Track(frames, sources, pl, v) /\ p = pl[Len(frames)] /\ OnTop(Top, p, sources, value)

LEMMA AtNud ==
    ASSUME CondInv, NEW pl, NEW p, NEW v, OnTheWay(pl, p, v), Top.wait = "nud"
    PROVE  /\ p.at = 0 /\ Len(sources) = p.source /\ Text(p, sources) = Src.tokens
           /\ Src.pos = p.spine[1].from /\ Peeked = In(Src.tokens, p.spine[1].from)
           /\ \A k \in Nat : TokenAt(Src.pos + k) = In(Src.tokens, p.spine[1].from + k)
           /\ IsOperand(Src.tokens, p.spine[1])
           /\ Src.tokens \in Texts /\ p.spine[1] \in Phrase
<1>1. Track(frames, sources, pl, v) /\ p = pl[Len(frames)]
  BY DEF OnTheWay
<1>2. Len(sources) = p.source /\ Running(Top, p, Src.pos)
  BY WaitTypes DEF OnTheWay, OnTop, Suspended, WaitsInNud, WaitsInLed, Src
<1>3. p.at = 0 /\ Src.pos = p.spine[1].from
  BY <1>2 DEF Running
<1>4. Text(p, sources) = Src.tokens /\ Src.tokens \in Texts /\ IsSpine(Src.tokens, p.spine)
  BY <1>1, <1>2, TopPlan DEF Text, Src
<1>5. IsOperand(Src.tokens, p.spine[1]) /\ p.spine[1] \in Phrase
  <2>1. p.spine \in Seq(Phrase) /\ 1 \in 1..Len(p.spine)
    BY <1>1, TopPlan
  <2> QED
    BY <1>4, <2>1, ElementOfSeq DEF IsSpine
<1>6. Peeked = In(Src.tokens, Src.pos) /\ \A k \in Nat : TokenAt(Src.pos + k) = In(Src.tokens, Src.pos + k)
  BY DEF Peeked, TokenAt, In
<1> QED
  BY <1>2, <1>3, <1>4, <1>5, <1>6

LEMMA AtLoop ==
    ASSUME CondInv, NEW pl, NEW p, NEW v, OnTheWay(pl, p, v), Top.wait = "loop"
    PROVE  /\ p.at \in 1..Len(p.spine) /\ Len(sources) = p.source /\ Text(p, sources) = Src.tokens
           /\ Src.pos = p.spine[p.at].to /\ Peeked = In(Src.tokens, p.spine[p.at].to)
           /\ Top.left = p.spine[p.at].value
           /\ Src.tokens \in Texts
<1>1. Track(frames, sources, pl, v) /\ p = pl[Len(frames)]
  BY DEF OnTheWay
<1>2. Len(sources) = p.source /\ Running(Top, p, Src.pos)
  BY WaitTypes DEF OnTheWay, OnTop, Suspended, WaitsInNud, WaitsInLed, Src
<1>3. p.at \in 1..Len(p.spine) /\ Src.pos = p.spine[p.at].to /\ Top.left = p.spine[p.at].value
  BY <1>2 DEF Running
<1>4. Text(p, sources) = Src.tokens /\ Src.tokens \in Texts
  BY <1>1, <1>2, TopPlan DEF Text, Src
<1>5. Peeked = In(Src.tokens, Src.pos)
  BY DEF Peeked, TokenAt, In
<1> QED
  BY <1>2, <1>3, <1>4, <1>5

\* What a call that made a call finds when that one has returned.
LEMMA AtReturn ==
    ASSUME CondInv, NEW pl, NEW p, NEW v, OnTheWay(pl, p, v), Top.wait \notin {"nud", "loop"}
    PROVE  /\ WaitsInNud(Top, p, Text(p, sources)) \/ WaitsInLed(Top, p, Text(p, sources))
           /\ Top.wait = "macro" => sources[p.source].pos = p.spine[1].to
           /\ Len(sources) = p.source + Held(Top) /\ value = p.right.value
           /\ Src.pos = p.right.to
           /\ Top.wait # "macro" => /\ Len(sources) = p.source /\ Text(p, sources) = Src.tokens
                                    /\ Src.tokens \in Texts
                                    /\ Peeked = In(Src.tokens, p.right.to)
<1>1. Track(frames, sources, pl, v) /\ p = pl[Len(frames)]
  BY DEF OnTheWay
<1>2. /\ Suspended(Top, p, sources) /\ Len(sources) = p.source + Held(Top)
      /\ value = p.right.value /\ Src.pos = p.right.to
  BY DEF OnTheWay, OnTop, Running, Src
<1>3. ASSUME Top.wait # "macro"
      PROVE  /\ Len(sources) = p.source /\ Text(p, sources) = Src.tokens
             /\ Src.tokens \in Texts /\ Peeked = In(Src.tokens, p.right.to)
  <2>1. p.source \in Nat
    BY <1>1, TopPlan DEF Plan
  <2>2. Len(sources) = p.source
    BY <1>2, <1>3, <2>1 DEF Held
  <2>3. Text(p, sources) = Src.tokens /\ Src.tokens \in Texts
    BY <1>1, <2>2, TopPlan DEF Text, Src
  <2> QED
    BY <1>2, <2>2, <2>3 DEF Peeked, TokenAt, In
<1> QED
  BY <1>2, <1>3 DEF Suspended

\* No token begins operands of two kinds.
LEMMA OneKind ==
    ASSUME NEW x
    PROVE  /\ x \in DOMAIN Num => /\ x \notin DOMAIN Macros \cup DOMAIN Prefix
                                  /\ x \notin {"undefined", "defined", "("}
           /\ x \in DOMAIN Prefix => x \notin DOMAIN Macros /\ x \notin {"undefined", "defined", "("}
           /\ x \in DOMAIN Macros => x \notin {"undefined", "defined", "(", "eof"}
           /\ x \in DOMAIN Num \cup DOMAIN Prefix => x # "eof"
<1>1. DOMAIN Num = {"0", "1", "2"} /\ DOMAIN Prefix = {"!", "+", "-"}
  BY DEF Num, Prefix
<1>2. x \in DOMAIN Macros =>
        x \notin DOMAIN Num /\ x \notin DOMAIN Prefix /\ x \notin {"undefined", "defined", "(", "eof"}
  BY CondAssumption DEF Reserved, Ends
<1> QED
  BY <1>1, <1>2

LEMMA ReadsOperand ==
    ASSUME CondInv, NEW pl, NEW p, NEW v, OnTheWay(pl, p, v), Top.wait = "nud",
           NEW n \in Nat, Consume(n), Operand(p.spine[1].value),
           p.spine[1].to = p.spine[1].from + n
    PROVE  OnTrack(frames', sources', value', v)
<1>1. Track(frames, sources, pl, v) /\ p = pl[Len(frames)]
  BY DEF OnTheWay
<1>2. Len(sources) = p.source /\ Src.pos = p.spine[1].from
  BY AtNud
<1>3. /\ Len(sources') = p.source /\ SameUpTo(sources, sources', p.source)
      /\ sources'[p.source].pos = p.spine[1].to
  BY <1>2, ConsumeSame
<1>4. 1 \in 1..Len(p.spine)
  BY <1>1, TopPlan
<1> QED
  BY <1>1, <1>3, <1>4, Finds

\* A number, defined and a name that is not defined.
LEMMA OperandOnTrack ==
    ASSUME CondInv, NEW pl, NEW p, NEW v, OnTheWay(pl, p, v), Number \/ Defined \/ NotAMacro
    PROVE  OnTrack(frames', sources', value', v) /\ UNCHANGED status
<1> DEFINE e == p.spine[1]
           t == Src.tokens
<1>1. Top.wait = "nud"
  BY DEF Number, Defined, NotAMacro, At
<1>2. Peeked = In(t, e.from) /\ IsOperand(t, e)
  BY <1>1, AtNud
<1>3. \/ NumberAt(t, e) \/ UndefinedAt(t, e) \/ DefinedAt(t, e)
      \/ MacroAt(t, e) \/ ParenAt(t, e) \/ PrefixAt(t, e)
  BY <1>2 DEF IsOperand
<1>4. CASE Number
  <2>1. Peeked \in DOMAIN Num /\ Consume(1) /\ Operand(Num[Peeked])
    BY <1>4 DEF Number
  <2>2. NumberAt(t, e)
    BY <1>2, <1>3, <2>1, OneKind DEF UndefinedAt, DefinedAt, MacroAt, ParenAt, PrefixAt, IsDefined
  <2>3. e.to = e.from + 1 /\ Operand(e.value)
    BY <1>2, <2>1, <2>2 DEF NumberAt
  <2>4. UNCHANGED status
    BY <2>3 DEF Operand
  <2> QED
    BY <1>1, <2>1, <2>3, <2>4, ReadsOperand
<1>5. CASE Defined
  <2>1. Peeked = "defined"
    BY <1>5 DEF Defined
  <2>2. DefinedAt(t, e)
    BY <1>2, <1>3, <2>1, OneKind DEF NumberAt, UndefinedAt, MacroAt, ParenAt, PrefixAt
  <2>3. /\ In(t, e.from + 1) = "(" /\ IsIdent(In(t, e.from + 2)) /\ In(t, e.from + 3) = ")"
        /\ e.to = e.from + 4 /\ e.value = Truth(In(t, e.from + 2) \in DOMAIN Macros)
    BY <2>2 DEF DefinedAt, IsDefined
  <2>4. /\ TokenAt(Src.pos + 1) = In(t, e.from + 1) /\ TokenAt(Src.pos + 2) = In(t, e.from + 2)
        /\ TokenAt(Src.pos + 3) = In(t, e.from + 3)
    BY <1>1, AtNud
  <2>5. Consume(4) /\ Operand(e.value)
    BY <1>5, <2>3, <2>4 DEF Defined
  <2>6. UNCHANGED status
    BY <2>5 DEF Operand
  <2> QED
    BY <1>1, <2>3, <2>5, <2>6, ReadsOperand
<1>6. CASE NotAMacro
  <2>1. Peeked = "undefined" /\ Consume(1) /\ Operand(0)
    BY <1>6 DEF NotAMacro
  <2>2. UndefinedAt(t, e)
    BY <1>2, <1>3, <2>1, OneKind DEF NumberAt, DefinedAt, MacroAt, ParenAt, PrefixAt, IsDefined
  <2>3. e.to = e.from + 1 /\ Operand(e.value)
    BY <2>1, <2>2 DEF UndefinedAt
  <2>4. UNCHANGED status
    BY <2>3 DEF Operand
  <2> QED
    BY <1>1, <2>1, <2>3, <2>4, ReadsOperand
<1> QED
  BY <1>4, <1>5, <1>6

\* An operand that C gives a value is none that eval_cond refuses.
LEMMA OperandIsGood ==
    ASSUME CondInv, NEW pl, NEW p, NEW v, OnTheWay(pl, p, v), BadOperand
    PROVE  FALSE
<1> DEFINE e == p.spine[1]
           t == Src.tokens
<1>1. /\ Top.wait = "nud" /\ ~IsIdent(Peeked)
      /\ Peeked \notin DOMAIN Num \cup DOMAIN Prefix \cup {"("}
  BY DEF BadOperand, At
<1>2. Peeked = In(t, e.from) /\ IsOperand(t, e)
  BY <1>1, AtNud
<1> HIDE DEF e, t
<1>3. \/ NumberAt(t, e) \/ UndefinedAt(t, e) \/ DefinedAt(t, e)
      \/ MacroAt(t, e) \/ ParenAt(t, e) \/ PrefixAt(t, e)
  BY <1>2 DEF IsOperand
<1> QED
  BY <1>1, <1>2, <1>3
    DEF NumberAt, UndefinedAt, DefinedAt, MacroAt, ParenAt, PrefixAt, IsDefined, IsIdent

\* The expansion is read for the phrase that it begins with.
LEMMA MacroOnTrack ==
    ASSUME CondInv, NEW pl, NEW p, NEW v, OnTheWay(pl, p, v), MacroOperand
    PROVE  OnTrack(frames', sources', value', v) /\ UNCHANGED status
<1> DEFINE e == p.spine[1]
           t == Src.tokens
           f == [Top EXCEPT !.wait = "macro"]
           u == Macros[Peeked]
           s == Advanced(1)
           n == Len(sources)
<1>1. /\ Top.wait = "nud" /\ Peeked \in DOMAIN Macros /\ Call(f, 0) /\ UNCHANGED status
      /\ sources' = Append(s, Source(u))
  BY DEF MacroOperand, At, Advanced
<1>2. Peeked = In(t, e.from) /\ IsOperand(t, e) /\ n = p.source /\ Src.pos = e.from /\ p.at = 0
      /\ Text(p, sources) = t /\ t \in Texts /\ e \in Phrase
  BY <1>1, AtNud
<1>3. Track(frames, sources, pl, v) /\ p = pl[Len(frames)]
  BY DEF OnTheWay
<1>4. Top \in Activation /\ n \in Nat \ {0} /\ sources \in Seq(TokenSource) /\ Src = sources[n]
      /\ "macro" \in Waits /\ Src \in TokenSource
  BY StateType, WaitTypes DEF CondInv, SourcesOK, Src
<1>5. f \in Activation /\ f.minbp = Top.minbp /\ f.wait = "macro" /\ Held(f) = 1
  BY <1>4 DEF Activation, Held
<1>6. MacroAt(t, e)
  <2>1. \/ NumberAt(t, e) \/ UndefinedAt(t, e) \/ DefinedAt(t, e)
        \/ MacroAt(t, e) \/ ParenAt(t, e) \/ PrefixAt(t, e)
    BY <1>2 DEF IsOperand
  <2> QED
    BY <1>1, <1>2, <2>1, OneKind DEF NumberAt, UndefinedAt, DefinedAt, ParenAt, PrefixAt, IsDefined
<1>7. PICK r \in Known(u) : r.from = 1 /\ In(u, r.to) \in Ends /\ e.value = r.value
  BY <1>2, <1>6 DEF MacroAt, Ends
<1>8. e.to = Src.pos + 1 /\ u \in Texts
  BY <1>1, <1>2, <1>6, TextFacts DEF MacroAt
<1>9. /\ s \in Seq(TokenSource) /\ Len(s) = n /\ s[n].tokens = t /\ s[n].pos = e.to
      /\ \A k \in 1..n : k # n => s[k] = sources[k]
  <2> DEFINE r2 == [Src EXCEPT !.pos = @ + 1]
  <2>1. r2 \in TokenSource /\ r2.tokens = t /\ r2.pos = e.to
    BY <1>4, <1>8 DEF TokenSource
  <2>2. s = [sources EXCEPT ![n] = r2]
    BY <1>4 DEF Advanced
  <2> HIDE DEF r2, s
  <2> QED
    BY <1>4, <2>1, <2>2
<1>10. Source(u) \in TokenSource /\ Source(u).tokens = u /\ Source(u).pos = 1
  BY <1>8, TextFacts DEF Source, TokenSource
<1> HIDE DEF s
<1>11. /\ Len(sources') = n + 1 /\ sources'[n + 1] = Source(u)
       /\ \A k \in 1..n : sources'[k] = s[k]
  BY <1>1, <1>4, <1>9, <1>10, AppendProperties
<1>12. SameUpTo(sources, sources', p.source)
  <2>1. sources[n].tokens = t
    BY <1>4
  <2> HIDE DEF t
  <2>2. \A i \in 1..n : sources'[i].tokens = sources[i].tokens
    BY <1>9, <1>11, <2>1
  <2>3. \A i \in 1..(n - 1) : sources'[i].pos = sources[i].pos
    BY <1>4, <1>9, <1>11
  <2>4. Len(sources') \in Nat /\ n \in 1..Len(sources')
    BY <1>4, <1>11
  <2> QED
    BY <1>2, <2>2, <2>3, <2>4 DEF SameUpTo
<1>13. Suspended(f, Asking(p, 0, r), sources')
  <2>1. p \in Plan
    BY <1>3, TopPlan
  <2>2. /\ Asking(p, 0, r).at = 0 /\ Asking(p, 0, r).right = r /\ Asking(p, 0, r).source = p.source
        /\ Asking(p, 0, r).spine = p.spine
    BY <2>1 DEF Asking, Plan
  <2>3. sources'[p.source].pos = e.to
    BY <1>2, <1>4, <1>9, <1>11
  <2> HIDE DEF f
  <2> QED
    BY <1>5, <1>7, <2>2, <2>3 DEF Suspended, WaitsInNud
<1> HIDE DEF f, u, e, t
<1>14. /\ Len(sources') = p.source + Held(f) /\ sources'[Len(sources')].tokens = u
       /\ sources'[Len(sources')].pos = r.from /\ Stops(In(u, r.to), 0)
  BY <1>2, <1>4, <1>5, <1>7, <1>10, <1>11 DEF Stops
<1>15. 0 \in 0..UnaryPower
  BY DEF UnaryPower
<1> QED
  BY <1>1, <1>3, <1>5, <1>7, <1>8, <1>12, <1>13, <1>14, <1>15, AsksFor

\* A call for the phrase r that stands behind the token that is read.
LEMMA CallsBehind ==
    ASSUME CondInv, NEW pl, NEW p, NEW v, OnTheWay(pl, p, v), Len(sources) = p.source,
           NEW f \in Activation, f.minbp = Top.minbp, f.wait # "macro",
           NEW m \in 0..UnaryPower, Call(f, m), Consume(1),
           NEW k \in Nat, NEW r \in Known(Src.tokens), r.from = Src.pos + 1,
           \/ WaitsInNud(f, Asking(p, k, r), Src.tokens)
           \/ WaitsInLed(f, Asking(p, k, r), Src.tokens),
           Stops(In(Src.tokens, r.to), m), m = 0 \/ r.power > m \/ r.power >= UnaryPower
    PROVE  OnTrack(frames', sources', value', v)
<1>1. Track(frames, sources, pl, v) /\ p = pl[Len(frames)]
  BY DEF OnTheWay
<1>2. p \in Plan /\ Text(p, sources) = Src.tokens /\ Src.tokens \in Texts
  BY <1>1, TopPlan DEF Src
<1>3. /\ Len(sources') = p.source /\ SameUpTo(sources, sources', p.source)
      /\ sources'[p.source].pos = r.from /\ sources'[p.source].tokens = Src.tokens
  BY ConsumeSame
<1>4. Held(f) = 0 /\ p.source + Held(f) = p.source
  BY <1>2 DEF Held, Plan
<1>5. Asking(p, k, r).source = p.source
  BY <1>2 DEF Asking, Plan
<1>6. Suspended(f, Asking(p, k, r), sources')
  <2>1. Text(Asking(p, k, r), sources') = Src.tokens
    BY <1>3, <1>5 DEF Text
  <2> QED
    BY <2>1 DEF Suspended
<1> QED
  BY <1>1, <1>2, <1>3, <1>4, <1>6, AsksFor

LEMMA PrefixOnTrack ==
    ASSUME CondInv, NEW pl, NEW p, NEW v, OnTheWay(pl, p, v), PrefixOperator
    PROVE  OnTrack(frames', sources', value', v) /\ UNCHANGED status
<1> DEFINE e == p.spine[1]
           t == Src.tokens
           w == IF Peeked = "!" THEN "!" ELSE IF Peeked = "+" THEN "unary +" ELSE "unary -"
           f == [Top EXCEPT !.wait = w]
<1>1. /\ Top.wait = "nud" /\ Peeked \in DOMAIN Prefix /\ Call(f, Prefix[Peeked]) /\ Consume(1)
      /\ UNCHANGED status
  BY DEF PrefixOperator, At
<1>2. Peeked = In(t, e.from) /\ IsOperand(t, e) /\ Len(sources) = p.source /\ Src.pos = e.from
  BY <1>1, AtNud
<1>3. Track(frames, sources, pl, v) /\ p = pl[Len(frames)] /\ p \in Plan
  BY TopPlan DEF OnTheWay
<1>4. Top \in Activation /\ w \in Waits
  BY StateType, WaitTypes DEF CondInv
<1>5. f \in Activation /\ f.minbp = Top.minbp /\ f.wait = w
  BY <1>4 DEF Activation
<1>6. PrefixAt(t, e)
  <2>1. \/ NumberAt(t, e) \/ UndefinedAt(t, e) \/ DefinedAt(t, e)
        \/ MacroAt(t, e) \/ ParenAt(t, e) \/ PrefixAt(t, e)
    BY <1>2 DEF IsOperand
  <2> QED
    BY <1>1, <1>2, <2>1, OneKind DEF NumberAt, UndefinedAt, DefinedAt, MacroAt, ParenAt, IsDefined
<1>7. PICK r \in Known(t) : /\ r.from = e.from + 1 /\ r.power >= UnaryPower
                            /\ e.to = r.to /\ e.value = Unary(Peeked, r.value)
  BY <1>2, <1>6 DEF PrefixAt
<1>8. Prefix[Peeked] = UnaryPower /\ UnaryPower \in 0..UnaryPower
  <2>1. Peeked \in {"!", "+", "-"}
    BY <1>1 DEF Prefix
  <2> QED
    BY <2>1 DEF Prefix, UnaryPower
<1>9. Stops(In(t, r.to), UnaryPower)
  <2>1. /\ Text(p, sources) = t /\ IsSpine(t, p.spine) /\ Len(p.spine) \in Nat \ {0}
        /\ Top.minbp \in 0..UnaryPower /\ Stops(In(t, Final(p.spine).to), Top.minbp)
    BY <1>1, <1>3, TopPlan, AtNud
  <2>2. 1 \in 1..Len(p.spine) /\ UnaryPower \in Nat
    BY <2>1 DEF UnaryPower
  <2>3. Top.minbp \in Nat /\ Top.minbp <= UnaryPower
    BY <2>1, <2>2
  <2>4. e.power <= UnaryPower
    BY <1>6 DEF PrefixAt, UnaryPower
  <2> HIDE DEF t
  <2>5. Stops(In(t, e.to), UnaryPower)
    BY <2>1, <2>2, <2>3, <2>4, SpineStops
  <2> QED
    BY <1>7, <2>5
<1>10. WaitsInNud(f, Asking(p, 0, r), t)
  <2>1. /\ Asking(p, 0, r).at = 0 /\ Asking(p, 0, r).right = r /\ Asking(p, 0, r).spine = p.spine
    BY <1>3 DEF Asking, Plan
  <2>2. Peeked \in {"!", "+", "-"}
    BY <1>1 DEF Prefix
  <2>3. \/ w = "!" /\ e.value = Truth(r.value = 0)
        \/ w = "unary +" /\ e.value = r.value
        \/ w = "unary -" /\ e.value = -r.value
    BY <1>7, <2>2 DEF Unary
  <2> HIDE DEF f, w
  <2> QED
    BY <1>5, <1>7, <2>1, <2>3 DEF WaitsInNud
<1>11. f.wait # "macro"
  <2>1. w # "macro"
    OBVIOUS
  <2> HIDE DEF f, w
  <2> QED
    BY <1>5, <2>1
<1> HIDE DEF f, w
<1> QED
  BY <1>1, <1>2, <1>3, <1>5, <1>7, <1>8, <1>9, <1>10, <1>11, CallsBehind

LEMMA ParenOnTrack ==
    ASSUME CondInv, NEW pl, NEW p, NEW v, OnTheWay(pl, p, v), OpenParen
    PROVE  OnTrack(frames', sources', value', v) /\ UNCHANGED status
<1> DEFINE e == p.spine[1]
           t == Src.tokens
           f == [Top EXCEPT !.wait = "paren"]
<1>1. /\ Top.wait = "nud" /\ Peeked = "(" /\ Call(f, 0) /\ Consume(1) /\ UNCHANGED status
  BY DEF OpenParen, At
<1>2. Peeked = In(t, e.from) /\ IsOperand(t, e) /\ Len(sources) = p.source /\ Src.pos = e.from
  BY <1>1, AtNud
<1>3. p \in Plan
  BY TopPlan DEF OnTheWay
<1>4. Top \in Activation /\ "paren" \in Waits
  BY StateType, WaitTypes DEF CondInv
<1>5. f \in Activation /\ f.minbp = Top.minbp /\ f.wait = "paren"
  BY <1>4 DEF Activation
<1>6. ParenAt(t, e)
  <2>1. \/ NumberAt(t, e) \/ UndefinedAt(t, e) \/ DefinedAt(t, e)
        \/ MacroAt(t, e) \/ ParenAt(t, e) \/ PrefixAt(t, e)
    BY <1>2 DEF IsOperand
  <2> QED
    BY <1>1, <1>2, <2>1, OneKind DEF NumberAt, UndefinedAt, DefinedAt, MacroAt, PrefixAt, IsDefined
<1>7. PICK r \in Known(t) : /\ r.from = e.from + 1 /\ In(t, r.to) = ")"
                            /\ e.to = r.to + 1 /\ e.value = r.value
  BY <1>6 DEF ParenAt
<1>8. Stops(In(t, r.to), 0) /\ 0 \in 0..UnaryPower
  BY <1>7 DEF Stops, Ends, UnaryPower
<1>9. WaitsInNud(f, Asking(p, 0, r), t)
  <2>1. /\ Asking(p, 0, r).at = 0 /\ Asking(p, 0, r).right = r /\ Asking(p, 0, r).spine = p.spine
    BY <1>3 DEF Asking, Plan
  <2> HIDE DEF f
  <2> QED
    BY <1>5, <1>7, <2>1 DEF WaitsInNud
<1>10. f.wait # "macro"
  BY <1>5
<1> HIDE DEF f
<1> QED
  BY <1>1, <1>2, <1>5, <1>7, <1>8, <1>9, <1>10, CallsBehind

\* What stands behind the phrase that the call has read so far.
LEMMA Turn ==
    ASSUME CondInv, NEW pl, NEW p, NEW v, OnTheWay(pl, p, v), Top.wait = "loop"
    PROVE  LET l == p.spine[p.at]
               e == p.spine[p.at + 1]
           IN \/ p.at = Len(p.spine) /\ Stops(Peeked, Top.minbp)
              \/ /\ p.at \in 1..(Len(p.spine) - 1) /\ JoinAt(Src.tokens, l, e)
                 /\ Peeked \in DOMAIN Infix /\ Binds(Peeked) /\ ~Decided(Peeked)
              \/ /\ p.at \in 1..(Len(p.spine) - 1) /\ ChooseAt(Src.tokens, l, e)
                 /\ Peeked = "?" /\ Binds("?")
<1> DEFINE l == p.spine[p.at]
           e == p.spine[p.at + 1]
           t == Src.tokens
<1>1. Track(frames, sources, pl, v) /\ p = pl[Len(frames)]
  BY DEF OnTheWay
<1>2. /\ p.at \in 1..Len(p.spine) /\ Peeked = In(t, l.to) /\ Top.left = l.value
      /\ Text(p, sources) = t
  BY AtLoop
<1>3. /\ Covers(Top, p, sources) /\ IsSpine(t, p.spine) /\ Len(p.spine) \in Nat \ {0}
      /\ Stops(In(t, Final(p.spine).to), Top.minbp)
  BY <1>1, <1>2, TopPlan
<1>4. CASE p.at = Len(p.spine)
  BY <1>2, <1>3, <1>4 DEF Final
<1>5. CASE p.at # Len(p.spine)
  <2>1. p.at \in 1..(Len(p.spine) - 1) /\ p.at + 1 \in 2..Len(p.spine)
    BY <1>2, <1>3, <1>5
  <2>2. e.power > Top.minbp
    BY <1>3, <2>1 DEF Covers
  <2>3. CASE JoinAt(t, l, e)
    <3>1. /\ Peeked \in DOMAIN Infix /\ e.power = Infix[Peeked]
          /\ Peeked = "||" => l.value = 0
          /\ Peeked = "&&" => l.value # 0
      BY <1>2, <2>3 DEF JoinAt, Joins, Decides
    <3>2. Binds(Peeked)
      BY <2>2, <3>1, TokenPowers DEF Binds
    <3>3. ~Decided(Peeked)
      BY <1>2, <3>1 DEF Decided
    <3> QED
      BY <2>1, <2>3, <3>1, <3>2, <3>3
  <2>4. CASE ChooseAt(t, l, e)
    <3>1. Peeked = "?" /\ e.power = 25
      BY <1>2, <2>4 DEF ChooseAt, Chooses, TernaryPower
    <3>2. Binds("?")
      BY <2>2, <3>1, TokenPowers DEF Binds
    <3> QED
      BY <2>1, <2>4, <3>1, <3>2
  <2> QED
    BY <1>3, <2>1, <2>3, <2>4 DEF IsSpine
<1> QED
  BY <1>4, <1>5

\* Where eval_cond computes what C does, no operator is decided by its left side,
\* and it refuses none.
LEMMA OperatorIsGood ==
    ASSUME CondInv, NEW pl, NEW p, NEW v, OnTheWay(pl, p, v), ShortCircuit \/ BadOperator
    PROVE  FALSE
<1>1. Top.wait = "loop"
  BY DEF ShortCircuit, BadOperator, At
<1>2. \/ Stops(Peeked, Top.minbp)
      \/ Peeked \in DOMAIN Infix /\ Binds(Peeked) /\ ~Decided(Peeked)
      \/ Peeked = "?" /\ Binds("?")
  BY <1>1, Turn
<1>3. Top.minbp \in Nat
  BY StateType DEF CondInv, Activation
<1>4. Stops(Peeked, Top.minbp) => ~Binds(Peeked) /\ (Peeked \in Ends \/ IsOperator(Peeked))
  BY <1>3, TokenPowers DEF Stops, Binds
<1>5. CASE ShortCircuit
  <2>1. Binds(Peeked) /\ Decided(Peeked)
    BY <1>5 DEF ShortCircuit
  <2> QED
    BY <1>2, <1>4, <2>1 DEF Decided
<1>6. CASE BadOperator
  <2>1. /\ Peeked \notin Ends
        /\ IsOperator(Peeked) => Binds(Peeked) /\ Peeked \notin DOMAIN Infix \cup {"?"}
    BY <1>6 DEF BadOperator
  <2> QED
    BY <1>2, <1>4, <2>1, TokenPowers
<1> QED
  BY <1>5, <1>6

LEMMA InfixOnTrack ==
    ASSUME CondInv, NEW pl, NEW p, NEW v, OnTheWay(pl, p, v), InfixOperator
    PROVE  OnTrack(frames', sources', value', v) /\ UNCHANGED status
<1> DEFINE l == p.spine[p.at]
           e == p.spine[p.at + 1]
           t == Src.tokens
           op == Peeked
           f == [Top EXCEPT !.wait = op]
<1>1. /\ Top.wait = "loop" /\ op \in DOMAIN Infix /\ Binds(op) /\ Call(f, Infix[op]) /\ Consume(1)
      /\ UNCHANGED status
  BY DEF InfixOperator, At
<1>2. /\ p.at \in 1..Len(p.spine) /\ op = In(t, l.to) /\ Top.left = l.value
      /\ Text(p, sources) = t /\ Len(sources) = p.source /\ Src.pos = l.to
  BY <1>1, AtLoop
<1>3. Top \in Activation /\ op \in Waits /\ op # "macro"
  BY <1>1, StateType, WaitTypes DEF CondInv
<1>4. f \in Activation /\ f.minbp = Top.minbp /\ f.wait = op /\ f.left = Top.left
  BY <1>3 DEF Activation
<1>5. p.at \in 1..(Len(p.spine) - 1) /\ JoinAt(t, l, e)
  <2>1. Stops(op, Top.minbp) => ~Binds(op)
    <3>1. Top.minbp \in Nat
      BY <1>3 DEF Activation
    <3> QED
      BY <3>1, TokenPowers DEF Stops, Binds
  <2> QED
    BY <1>1, <2>1, Turn, TokenPowers
<1>6. PICK r \in Known(t) : /\ Joins(t, l, r)
                            /\ op = "/" => r.value # 0
                            /\ e.to = r.to /\ e.power = Infix[op]
                            /\ e.value = Apply(op, l.value, r.value)
  BY <1>2, <1>5 DEF JoinAt
<1>7. r.from = Src.pos + 1 /\ r.power > Infix[op]
  BY <1>2, <1>6 DEF Joins
<1>8. /\ p \in Plan /\ IsSpine(t, p.spine) /\ Len(p.spine) \in Nat \ {0}
      /\ Stops(In(t, Final(p.spine).to), Top.minbp)
  BY <1>2, TopPlan DEF OnTheWay
<1>9. Infix[op] \in Nat /\ Infix[op] <= 120 /\ Top.minbp <= Infix[op] /\ Top.minbp \in Nat
  <2>1. Bp(op) = Infix[op] /\ Infix[op] \in Nat /\ Infix[op] <= 120
    BY <1>1, TokenPowers
  <2>2. Top.minbp \in Nat /\ Bp(op) > Top.minbp
    BY <1>1, <1>3 DEF Activation, Binds
  <2> QED
    BY <2>1, <2>2
<1>10. Infix[op] \in 0..UnaryPower
  BY <1>9 DEF UnaryPower
<1>11. Stops(In(t, r.to), Infix[op])
  <2>1. p.at + 1 \in 1..Len(p.spine)
    BY <1>5, <1>8
  <2>2. e.power <= Infix[op]
    BY <1>6, <1>9
  <2> HIDE DEF t, op
  <2>3. Stops(In(t, e.to), Infix[op])
    BY <1>8, <1>9, <2>1, <2>2, SpineStops
  <2> QED
    BY <1>6, <2>3
<1>12. WaitsInLed(f, Asking(p, p.at, r), t)
  <2>1. /\ Asking(p, p.at, r).at = p.at /\ Asking(p, p.at, r).right = r
        /\ Asking(p, p.at, r).spine = p.spine
    BY <1>8 DEF Asking, Plan
  <2> HIDE DEF f, op
  <2> QED
    BY <1>1, <1>2, <1>4, <1>5, <1>6, <1>7, <2>1 DEF WaitsInLed
<1>13. p.at \in Nat
  BY <1>2
<1> HIDE DEF f, op
<1> QED
  BY <1>1, <1>2, <1>3, <1>4, <1>7, <1>10, <1>11, <1>12, <1>13, CallsBehind

LEMMA QuestionOnTrack ==
    ASSUME CondInv, NEW pl, NEW p, NEW v, OnTheWay(pl, p, v), Question
    PROVE  OnTrack(frames', sources', value', v) /\ UNCHANGED status
<1> DEFINE l == p.spine[p.at]
           e == p.spine[p.at + 1]
           t == Src.tokens
           f == [Top EXCEPT !.wait = "then"]
<1>1. /\ Top.wait = "loop" /\ Peeked = "?" /\ Binds(Peeked) /\ Call(f, 0) /\ Consume(1)
      /\ UNCHANGED status
  BY DEF Question, At
<1>2. /\ p.at \in 1..Len(p.spine) /\ Peeked = In(t, l.to) /\ Top.left = l.value
      /\ Text(p, sources) = t /\ Len(sources) = p.source /\ Src.pos = l.to
  BY <1>1, AtLoop
<1>3. Top \in Activation /\ "then" \in Waits
  BY StateType, WaitTypes DEF CondInv
<1>4. f \in Activation /\ f.minbp = Top.minbp /\ f.wait = "then" /\ f.left = Top.left
  BY <1>3 DEF Activation
<1>5. p.at \in 1..(Len(p.spine) - 1) /\ ChooseAt(t, l, e)
  <2>1. Stops(Peeked, Top.minbp) => ~Binds(Peeked)
    <3>1. Top.minbp \in Nat
      BY <1>3 DEF Activation
    <3> QED
      BY <3>1, TokenPowers DEF Stops, Binds
  <2> QED
    BY <1>1, <2>1, Turn, TokenPowers
<1>6. PICK a \in Known(t), b \in Known(t) :
        /\ Chooses(t, l, a, b) /\ e.to = b.to /\ e.power = TernaryPower
        /\ e.value = IF l.value # 0 THEN a.value ELSE b.value
  BY <1>5 DEF ChooseAt
<1>7. a.from = Src.pos + 1 /\ In(t, a.to) = ":" /\ b.from = a.to + 1
  BY <1>2, <1>6 DEF Chooses
<1>8. Stops(In(t, a.to), 0) /\ 0 \in 0..UnaryPower
  BY <1>7 DEF Stops, Ends, UnaryPower
<1>9. p \in Plan
  BY TopPlan DEF OnTheWay
<1>10. WaitsInLed(f, Asking(p, p.at, a), t)
  <2>1. /\ Asking(p, p.at, a).at = p.at /\ Asking(p, p.at, a).right = a
        /\ Asking(p, p.at, a).spine = p.spine
    BY <1>9 DEF Asking, Plan
  <2> HIDE DEF f
  <2> QED
    BY <1>2, <1>4, <1>5, <1>6, <1>7, <2>1 DEF WaitsInLed
<1>11. p.at \in Nat
  BY <1>2
<1>12. f.wait # "macro"
  BY <1>4
<1> HIDE DEF f
<1> QED
  BY <1>1, <1>2, <1>4, <1>7, <1>8, <1>10, <1>11, <1>12, CallsBehind

\* The call returns at the end of its phrase; the outermost has C's value.
LEMMA ReturnOnTrack ==
    ASSUME CondInv, NEW pl, NEW p, NEW v, OnTheWay(pl, p, v), Return
    PROVE  \/ OnTrack(frames', sources', value', v) /\ UNCHANGED status
           \/ status' = "done" /\ value' = v
<1>1. /\ Top.wait = "loop" /\ value' = Top.left /\ UNCHANGED sources
      /\ Peeked \in Ends \/ (IsOperator(Peeked) /\ ~Binds(Peeked))
  BY DEF Return, At
<1>2. Track(frames, sources, pl, v) /\ p = pl[Len(frames)]
  BY DEF OnTheWay
<1>3. frames \in Seq(Activation) /\ Len(frames) \in Nat \ {0} /\ Src = sources[Len(sources)]
  BY StateType DEF CondInv, Src
<1>4. p.at = Len(p.spine)
  BY <1>1, Turn, TokenPowers
<1>5. /\ Len(sources) = p.source /\ sources[Len(sources)].pos = Final(p.spine).to
      /\ value' = Final(p.spine).value
  BY <1>1, <1>3, <1>4, AtLoop DEF Final
<1>6. CASE Len(frames) = 1
  BY <1>2, <1>5, <1>6 DEF Return, Track
<1>7. CASE Len(frames) # 1
  <2> DEFINE n == Len(frames) - 1
  <2>1. n \in Nat \ {0} /\ n + 1 = Len(frames)
    BY <1>3, <1>7
  <2>2. frames' = SubSeq(frames, 1, n) /\ UNCHANGED status
    BY <1>7 DEF Return
  <2> HIDE DEF n
  <2>3. OnTrack(SubSeq(frames, 1, n), sources, Final(p.spine).value, v)
    BY <1>2, <1>3, <1>5, <2>1, Returns
  <2> QED
    BY <1>1, <1>5, <2>2, <2>3
<1> QED
  BY <1>6, <1>7

\* The value that has been returned completes a phrase of the spine.
LEMMA Completes ==
    ASSUME CondInv, NEW pl, NEW p, NEW v, OnTheWay(pl, p, v),
           Top.wait \notin {"nud", "loop", "macro"}, UNCHANGED sources,
           NEW i \in 1..Len(p.spine), p.spine[i].to = p.right.to, Operand(p.spine[i].value)
    PROVE  OnTrack(frames', sources', value', v) /\ UNCHANGED status
<1>1. Track(frames, sources, pl, v) /\ p = pl[Len(frames)]
  BY DEF OnTheWay
<1>2. Len(sources) = p.source /\ Src.pos = p.right.to /\ Src = sources[Len(sources)]
  BY AtReturn DEF Src
<1>3. p.source \in 1..Len(sources)
  BY <1>1, TopPlan
<1>4. /\ SameUpTo(sources, sources', p.source) /\ Len(sources') = p.source
      /\ sources'[p.source].pos = p.spine[i].to
  BY <1>2, <1>3, NothingRead
<1>5. UNCHANGED status
  BY DEF Operand
<1> QED
  BY <1>1, <1>4, <1>5, Finds

LEMMA AppliedOnTrack ==
    ASSUME CondInv, NEW pl, NEW p, NEW v, OnTheWay(pl, p, v), Applied
    PROVE  OnTrack(frames', sources', value', v) /\ UNCHANGED status
<1> DEFINE e == p.spine[p.at + 1]
           w == Top.wait
<1>1. w \in DOMAIN Infix
  BY DEF Applied
<1>2. w \notin {"nud", "loop", "macro", "paren", "!", "unary +", "unary -", "then", "else"}
  BY <1>1, WaitTypes
<1>3. /\ WaitsInNud(Top, p, Text(p, sources)) \/ WaitsInLed(Top, p, Text(p, sources))
      /\ value = p.right.value
  BY <1>2, AtReturn
<1> HIDE DEF e, w
<1>4. /\ p.at \in 1..(Len(p.spine) - 1) /\ e.to = p.right.to
      /\ e.value = Apply(w, Top.left, p.right.value) /\ (w = "/" => p.right.value # 0)
  BY <1>2, <1>3 DEF WaitsInNud, WaitsInLed, e, w
<1>5. Operand(e.value) /\ UNCHANGED sources
  BY <1>3, <1>4 DEF Applied, w
<1>6. p.at + 1 \in 1..Len(p.spine)
  <2>1. Len(p.spine) \in Nat
    BY TopPlan DEF OnTheWay
  <2> QED
    BY <1>4, <2>1
<1> QED
  BY <1>2, <1>4, <1>5, <1>6, Completes DEF e, w

LEMMA PrefixAppliedOnTrack ==
    ASSUME CondInv, NEW pl, NEW p, NEW v, OnTheWay(pl, p, v), Negated \/ Plus \/ Minus
    PROVE  OnTrack(frames', sources', value', v) /\ UNCHANGED status
<1> DEFINE e == p.spine[1]
           w == Top.wait
<1>1. w \in {"!", "unary +", "unary -"} /\ UNCHANGED sources
  BY DEF Negated, Plus, Minus, At
<1>2. w \notin {"nud", "loop", "macro", "paren", "then", "else"} /\ w \notin DOMAIN Infix
  BY <1>1, WaitTypes
<1>3. /\ WaitsInNud(Top, p, Text(p, sources)) \/ WaitsInLed(Top, p, Text(p, sources))
      /\ value = p.right.value
  BY <1>2, AtReturn
<1> HIDE DEF e, w
<1>4. /\ e.to = p.right.to
      /\ \/ w = "!" /\ e.value = Truth(p.right.value = 0)
         \/ w = "unary +" /\ e.value = p.right.value
         \/ w = "unary -" /\ e.value = -p.right.value
  BY <1>2, <1>3 DEF WaitsInNud, WaitsInLed, e, w
<1>5. Operand(e.value)
  BY <1>3, <1>4 DEF Negated, Plus, Minus, At, w
<1>6. 1 \in 1..Len(p.spine)
  BY TopPlan DEF OnTheWay
<1> QED
  BY <1>1, <1>2, <1>4, <1>5, <1>6, Completes DEF e, w

LEMMA CloseOnTrack ==
    ASSUME CondInv, NEW pl, NEW p, NEW v, OnTheWay(pl, p, v), CloseParen
    PROVE  OnTrack(frames', sources', value', v) /\ UNCHANGED status
<1> DEFINE e == p.spine[1]
           t == Src.tokens
<1>1. Top.wait = "paren"
  BY DEF CloseParen, At
<1>2. Top.wait \notin DOMAIN Infix
  BY <1>1, WaitTypes
<1>3. /\ WaitsInNud(Top, p, t) \/ WaitsInLed(Top, p, t)
      /\ value = p.right.value /\ Len(sources) = p.source /\ Src.pos = p.right.to
      /\ Peeked = In(t, p.right.to)
  BY <1>1, AtReturn
<1> HIDE DEF e, t
<1>4. In(t, p.right.to) = ")" /\ e.to = p.right.to + 1 /\ e.value = p.right.value
  BY <1>1, <1>2, <1>3 DEF WaitsInNud, WaitsInLed, e
<1>5. Consume(1) /\ Operand(e.value) /\ UNCHANGED status
  BY <1>3, <1>4 DEF CloseParen, Operand
<1>6. /\ Len(sources') = p.source /\ SameUpTo(sources, sources', p.source)
      /\ sources'[p.source].pos = e.to
  BY <1>3, <1>4, <1>5, ConsumeSame
<1>7. Track(frames, sources, pl, v) /\ p = pl[Len(frames)] /\ 1 \in 1..Len(p.spine)
  BY TopPlan DEF OnTheWay
<1> QED
  BY <1>5, <1>6, <1>7, Finds DEF e

\* The source that held the macro is read on behind it.
LEMMA EndMacroOnTrack ==
    ASSUME CondInv, NEW pl, NEW p, NEW v, OnTheWay(pl, p, v), EndMacro
    PROVE  OnTrack(frames', sources', value', v) /\ UNCHANGED status
<1> DEFINE e == p.spine[1]
           n == p.source
<1>1. Top.wait = "macro" /\ Operand(value) /\ sources' = SubSeq(sources, 1, Len(sources) - 1)
  BY DEF EndMacro, At
<1>2. Top.wait \notin DOMAIN Infix
  BY <1>1, WaitTypes
<1>3. /\ WaitsInNud(Top, p, Text(p, sources)) \/ WaitsInLed(Top, p, Text(p, sources))
      /\ sources[n].pos = e.to /\ value = p.right.value /\ Len(sources) = n + 1
  BY <1>1, AtReturn DEF Held
<1> HIDE DEF e
<1>4. e.value = p.right.value
  BY <1>1, <1>2, <1>3 DEF WaitsInNud, WaitsInLed, e
<1>5. /\ Track(frames, sources, pl, v) /\ p = pl[Len(frames)] /\ 1 \in 1..Len(p.spine)
      /\ n \in Nat \ {0} /\ sources \in Seq(TokenSource)
  <2>1. Track(frames, sources, pl, v) /\ p = pl[Len(frames)]
    BY DEF OnTheWay
  <2>2. p \in Plan /\ 1 \in 1..Len(p.spine)
    BY <2>1, TopPlan
  <2>3. sources \in Seq(TokenSource)
    BY StateType DEF CondInv, SourcesOK
  <2> QED
    BY <2>1, <2>2, <2>3 DEF Plan
<1> HIDE DEF n
<1>6. Len(sources) - 1 = n /\ n \in Nat /\ n + 1 = Len(sources)
  BY <1>3, <1>5
<1>7. Len(sources') = n /\ \A k \in 1..n : sources'[k] = sources[k]
  BY <1>1, <1>5, <1>6, PopEffect
<1>8. SameUpTo(sources, sources', n)
  BY <1>5, <1>7 DEF SameUpTo
<1>9. sources'[n].pos = e.to
  BY <1>3, <1>5, <1>7
<1>10. Operand(e.value) /\ UNCHANGED status
  BY <1>1, <1>3, <1>4 DEF Operand
<1> QED
  BY <1>5, <1>7, <1>8, <1>9, <1>10, Finds DEF e, n

LEMMA ColonOnTrack ==
    ASSUME CondInv, NEW pl, NEW p, NEW v, OnTheWay(pl, p, v), Colon
    PROVE  OnTrack(frames', sources', value', v) /\ UNCHANGED status
<1> DEFINE e == p.spine[p.at + 1]
           t == Src.tokens
           f == [Top EXCEPT !.then = value, !.wait = "else"]
<1>1. Top.wait = "then"
  BY DEF Colon, At
<1>2. Top.wait \notin DOMAIN Infix
  BY <1>1, WaitTypes
<1>3. /\ WaitsInNud(Top, p, t) \/ WaitsInLed(Top, p, t)
      /\ value = p.right.value /\ Len(sources) = p.source /\ Src.pos = p.right.to
      /\ Peeked = In(t, p.right.to) /\ Text(p, sources) = t
  BY <1>1, AtReturn
<1> HIDE DEF e, t
<1>4. /\ p.at \in 1..(Len(p.spine) - 1) /\ Top.left = p.spine[p.at].value
      /\ e.power = TernaryPower /\ In(t, p.right.to) = ":"
      /\ \E b \in Known(t) : /\ b.from = p.right.to + 1 /\ e.to = b.to
                             /\ e.value = IF Top.left # 0 THEN p.right.value ELSE b.value
  BY <1>1, <1>2, <1>3 DEF WaitsInNud, WaitsInLed, e
<1>5. PICK b \in Known(t) : /\ b.from = p.right.to + 1 /\ e.to = b.to
                            /\ e.value = IF Top.left # 0 THEN p.right.value ELSE b.value
  BY <1>4
<1>6. /\ Consume(1) /\ Call(f, 0) /\ UNCHANGED status
  BY <1>3, <1>4 DEF Colon
<1>7. Top \in Activation /\ "else" \in Waits /\ value \in Int
  BY StateType, WaitTypes DEF CondInv
<1>8. /\ f \in Activation /\ f.minbp = Top.minbp /\ f.wait = "else" /\ f.left = Top.left
      /\ f.then = value
  BY <1>7 DEF Activation
<1> HIDE DEF f
<1>9. /\ p \in Plan /\ IsSpine(t, p.spine) /\ Len(p.spine) \in Nat \ {0}
      /\ Covers(Top, p, sources) /\ Stops(In(t, Final(p.spine).to), Top.minbp)
  BY <1>3, TopPlan DEF OnTheWay
<1>10. Stops(In(t, b.to), 0) /\ 0 \in 0..UnaryPower
  <2>1. p.at + 1 \in 2..Len(p.spine) /\ p.at + 1 \in 1..Len(p.spine)
    BY <1>4, <1>9
  <2>2. e.power > Top.minbp /\ Top.minbp \in Nat
    BY <1>7, <1>9, <2>1 DEF Covers, Activation, e
  <2>3. In(t, e.to) \in Ends
    BY <1>4, <1>9, <2>1, <2>2, TernaryEnds DEF e
  <2> QED
    BY <1>5, <2>3 DEF Stops, UnaryPower
<1>11. WaitsInLed(f, Asking(p, p.at, b), t)
  <2>1. /\ Asking(p, p.at, b).at = p.at /\ Asking(p, p.at, b).right = b
        /\ Asking(p, p.at, b).spine = p.spine
    BY <1>9 DEF Asking, Plan
  <2> QED
    BY <1>3, <1>4, <1>5, <1>8, <2>1 DEF WaitsInLed, e
<1>12. p.at \in Nat /\ f.wait # "macro" /\ b.from = Src.pos + 1
  BY <1>3, <1>4, <1>5, <1>8
<1> QED
  BY <1>3, <1>6, <1>8, <1>10, <1>11, <1>12, CallsBehind DEF t

LEMMA TernaryOnTrack ==
    ASSUME CondInv, NEW pl, NEW p, NEW v, OnTheWay(pl, p, v), EndTernary
    PROVE  OnTrack(frames', sources', value', v) /\ UNCHANGED status
<1> DEFINE e == p.spine[p.at + 1]
<1>1. /\ Top.wait = "else" /\ Operand(IF Top.left # 0 THEN Top.then ELSE value)
      /\ UNCHANGED sources
  BY DEF EndTernary, At
<1>2. Top.wait \notin DOMAIN Infix
  BY <1>1, WaitTypes
<1>3. /\ WaitsInNud(Top, p, Text(p, sources)) \/ WaitsInLed(Top, p, Text(p, sources))
      /\ value = p.right.value
  BY <1>1, AtReturn
<1> HIDE DEF e
<1>4. /\ p.at \in 1..(Len(p.spine) - 1) /\ e.to = p.right.to
      /\ e.value = IF Top.left # 0 THEN Top.then ELSE p.right.value
  BY <1>1, <1>2, <1>3 DEF WaitsInNud, WaitsInLed, e
<1>5. Operand(e.value)
  BY <1>1, <1>3, <1>4
<1>6. p.at + 1 \in 1..Len(p.spine)
  <2>1. Len(p.spine) \in Nat
    BY TopPlan DEF OnTheWay
  <2> QED
    BY <1>4, <2>1
<1> QED
  BY <1>1, <1>4, <1>5, <1>6, Completes DEF e

-----------------------------------------------------------------------------
(* A condition that C gives a value is on the way to it, or there.          *)

Sought(t) == {e.value : e \in {e \in Readings(t) : Plain(e)}}

ValueInv ==
    \A v \in Sought(sources[1].tokens) :
       \/ status = "running" /\ OnTrack(frames, sources, value, v)
       \/ status = "done" /\ value = v

LEMMA StartsOnTrack == Init => ValueInv
<1> SUFFICES ASSUME Init, NEW v \in Sought(sources[1].tokens)
             PROVE  status = "running" /\ OnTrack(frames, sources, value, v)
  BY DEF ValueInv
<1>1. PICK c \in Conditions : sources = <<Source(c)>>
  BY DEF Init
<1>2. /\ frames = <<Frame(0)>> /\ status = "running" /\ Len(sources) = 1 /\ Len(frames) = 1
      /\ sources[1].tokens = c /\ sources[1].pos = 1 /\ c \in Texts /\ frames[1] = Frame(0)
  BY <1>1 DEF Init, Source, Texts
<1>3. PICK e \in Nested(Depth)[Depth][c] :
        e.from = 1 /\ In(c, e.to) \in {"eof", "nl"} /\ v = e.value /\ Plain(e)
  BY <1>2 DEF Sought, Readings, Whole
<1>4. e \in Known(c)
  BY <1>3, MeaningAssumption DEF Known, Found
<1>5. Stops(In(c, e.to), 0) /\ 0 \in 0..UnaryPower /\ 1 \in Nat \ {0} /\ 1 \in 1..Len(sources)
  BY <1>2, <1>3 DEF Stops, Ends, UnaryPower
<1>6. PICK p \in Plan : /\ p.source = 1 /\ p.at = 0 /\ Final(p.spine) = e
                        /\ p.spine[1].from = e.from /\ Covers(Frame(0), p, sources)
  BY <1>2, <1>4, <1>5, PlanFor
<1> DEFINE pl == <<p>>
<1>7. pl \in Seq(Plan) /\ Len(pl) = 1 /\ pl[1] = p
  BY <1>6
<1> HIDE DEF pl
<1>8. Track(frames, sources, pl, v)
  BY <1>2, <1>3, <1>6, <1>7 DEF Track
<1>9. OnTop(frames[1], p, sources, value)
  BY <1>2, <1>3, <1>5, <1>6, FrameType DEF OnTop, Running
<1> QED
  BY <1>2, <1>7, <1>8, <1>9 DEF OnTrack

\* The condition stays what it is.
LEMMA ConditionStays ==
    ASSUME CondInv, [Next]_vars
    PROVE  sources'[1].tokens = sources[1].tokens
<1>1. Len(sources) \in Nat \ {0} /\ sources \in Seq(TokenSource)
  BY StateType DEF CondInv, SourcesOK
<1>2. ASSUME NEW n \in Nat, Consume(n)
      PROVE  sources'[1].tokens = sources[1].tokens
  BY <1>1, <1>2, ConsumeSame DEF SameUpTo
<1>3. CASE UNCHANGED sources
  BY <1>3
<1>4. CASE MacroOperand
  <2>1. sources' = Append(Advanced(1), Source(Macros[Peeked]))
    BY <1>4 DEF MacroOperand, Advanced
  <2> DEFINE s == [Src EXCEPT !.pos = @ + 1]
             u == Advanced(1)
  <2>2. s.tokens = Src.tokens /\ Src = sources[Len(sources)] /\ u = [sources EXCEPT ![Len(sources)] = s]
    BY StateType DEF CondInv, TokenSource, Src, Advanced
  <2> HIDE DEF s, u
  <2>3. DOMAIN u = 1..Len(sources) /\ u[1].tokens = sources[1].tokens /\ Len(u) = Len(sources)
    BY <1>1, <2>2
  <2>4. sources'[1] = u[1]
    BY <1>1, <2>1, <2>3 DEF u
  <2> QED
    BY <2>3, <2>4
<1>5. CASE EndMacro
  <2>1. /\ status = "running" /\ Top.wait = "macro"
        /\ sources' = SubSeq(sources, 1, Len(sources) - 1)
    BY <1>5 DEF EndMacro, At
  <2>2. Len(frames) \in MacroFrames(frames) /\ Len(frames) \in Nat
    BY <2>1, StateType DEF CondInv, MacroFrames, Top
  <2>3. Cardinality(MacroFrames(frames)) \in Nat /\ Cardinality(MacroFrames(frames)) # 0
    BY <2>2, MacroFramesFinite, FS_EmptySet
  <2>4. Len(sources) = 1 + Cardinality(MacroFrames(frames))
    BY <2>1 DEF CondInv, SourcesMirrorFrames, MacroFrames
  <2>5. PICK n \in Nat \ {0} : n = Len(sources) - 1
    BY <2>3, <2>4
  <2>6. n \in Nat /\ n + 1 = Len(sources) /\ 1 \in 1..n
    BY <1>1, <2>5
  <2>7. sources'[1] = sources[1]
    BY <1>1, <2>1, <2>5, <2>6, PopEffect
  <2> QED
    BY <2>7
<1>6. \/ UNCHANGED sources \/ Consume(1) \/ Consume(4) \/ MacroOperand \/ EndMacro
  BY DEF vars, Next, Number, Defined, NotAMacro, PrefixOperator, OpenParen, BadOperand,
         ShortCircuit, InfixOperator, Question, BadOperator, Return, Applied, Negated, Plus, Minus,
         CloseParen, Colon, EndTernary, Fail
<1> QED
  BY <1>2, <1>3, <1>4, <1>5, <1>6

LEMMA NextOnTrack ==
    ASSUME CondInv, NEW v, OnTrack(frames, sources, value, v), Next
    PROVE  \/ OnTrack(frames', sources', value', v) /\ UNCHANGED status
           \/ status' = "done" /\ value' = v
<1>1. PICK pl : Track(frames, sources, pl, v) /\ OnTop(Top, pl[Len(frames)], sources, value)
  BY DEF OnTrack, Top
<1> DEFINE p == pl[Len(frames)]
<1>2. OnTheWay(pl, p, v)
  BY <1>1 DEF OnTheWay
<1> HIDE DEF p
<1>3. CASE Number \/ Defined \/ NotAMacro
  BY <1>2, <1>3, OperandOnTrack
<1>4. CASE MacroOperand
  BY <1>2, <1>4, MacroOnTrack
<1>5. CASE PrefixOperator
  BY <1>2, <1>5, PrefixOnTrack
<1>6. CASE OpenParen
  BY <1>2, <1>6, ParenOnTrack
<1>7. CASE BadOperand
  BY <1>2, <1>7, OperandIsGood
<1>8. CASE ShortCircuit \/ BadOperator
  BY <1>2, <1>8, OperatorIsGood
<1>9. CASE InfixOperator
  BY <1>2, <1>9, InfixOnTrack
<1>10. CASE Question
  BY <1>2, <1>10, QuestionOnTrack
<1>11. CASE Return
  BY <1>2, <1>11, ReturnOnTrack
<1>12. CASE Applied
  BY <1>2, <1>12, AppliedOnTrack
<1>13. CASE Negated \/ Plus \/ Minus
  BY <1>2, <1>13, PrefixAppliedOnTrack
<1>14. CASE CloseParen
  BY <1>2, <1>14, CloseOnTrack
<1>15. CASE EndMacro
  BY <1>2, <1>15, EndMacroOnTrack
<1>16. CASE Colon
  BY <1>2, <1>16, ColonOnTrack
<1>17. CASE EndTernary
  BY <1>2, <1>17, TernaryOnTrack
<1> QED
  BY <1>3, <1>4, <1>5, <1>6, <1>7, <1>8, <1>9, <1>10, <1>11, <1>12, <1>13, <1>14, <1>15, <1>16,
     <1>17 DEF Next

LEMMA ValueKept ==
    ASSUME CondInv, ValueInv, [Next]_vars
    PROVE  ValueInv'
<1>1. sources'[1].tokens = sources[1].tokens
  BY ConditionStays
<1> SUFFICES ASSUME NEW v \in Sought(sources[1].tokens)
             PROVE  \/ status' = "running" /\ OnTrack(frames', sources', value', v)
                    \/ status' = "done" /\ value' = v
  BY <1>1 DEF ValueInv
<1>2. \/ status = "running" /\ OnTrack(frames, sources, value, v)
      \/ status = "done" /\ value = v
  BY DEF ValueInv
<1>3. CASE UNCHANGED vars
  BY <1>2, <1>3 DEF vars
<1>4. CASE Next
  <2>1. status = "running"
    BY <1>4 DEF Next, Number, Defined, NotAMacro, MacroOperand, PrefixOperator, OpenParen, BadOperand,
                ShortCircuit, InfixOperator, Question, BadOperator, Return, Applied, Negated, Plus,
                Minus, CloseParen, EndMacro, Colon, EndTernary, At
  <2> QED
    BY <1>2, <1>4, <2>1, NextOnTrack
<1> QED
  BY <1>3, <1>4

\* eval_cond (pp2_cond.c:111-130) computes the value that C gives a condition and
\* does not fail, for every condition, nested however deep, and all macros whose
\* text no operator takes apart, where C evaluates the whole of it.
THEOREM ValueCorrect == Spec => []ValueIsC
<1>1. CondInv /\ ValueInv /\ [Next]_vars => ValueInv'
  BY ValueKept
<1>2. ValueInv => ValueIsC
  <2> SUFFICES ASSUME ValueInv, status # "running", NEW e \in Readings(sources[1].tokens), Plain(e)
               PROVE  status = "done" /\ value = e.value
    BY DEF ValueIsC, Plain
  <2>1. e.value \in Sought(sources[1].tokens)
    BY DEF Sought
  <2> QED
    BY <2>1 DEF ValueInv
<1> QED
  BY Inductive, StartsOnTrack, <1>1, <1>2, PTL DEF Spec
=============================================================================
