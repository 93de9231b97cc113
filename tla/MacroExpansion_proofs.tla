----------------------- MODULE MacroExpansion_proofs -----------------------
(***************************************************************************)
(* Theorems about MacroExpansion, for every set of identifiers, every      *)
(* source program and every pool size.                                     *)
(***************************************************************************)
EXTENDS MacroExpansion, TLAPS, FiniteSetTheorems, SequenceTheorems

-----------------------------------------------------------------------------
(* Type correctness.  The code reads def->argnames, def->body and the name  *)
(* of the parameter an argument is for; that these exist is part of the     *)
(* inductive invariant.                                                     *)

\* Only the innermost activation is not waiting for another.
Nesting ==
    \A j \in 1..Len(frames) : frames[j].phase \in Waiting <=> j < Len(frames)

\* A macro in use is defined: its entry of `macros` is never removed.
CalleesDefined ==
    \A j \in 1..Len(frames) :
       /\ frames[j].phase # "scan" =>
             frames[j].name \in Names /\ macros[frames[j].name] # None
       /\ frames[j].phase \in {"arg", "last"} => frames[j].param \in Names

TypeInv == TypeOK /\ Nesting /\ CalleesDefined

\* next_token and peek_token yield tokens; a token that is not TOK_EOF is one
\* of the source, and an identifier's id is a name.
LEMMA TokenAtType ==
    ASSUME NEW tokens \in Seq(Token), NEW k \in Nat
    PROVE  /\ TokenAt(tokens, k) \in Token
           /\ TokenAt(tokens, k).kind = "IDENT" => TokenAt(tokens, k).id \in Names
           /\ TokenAt(tokens, k).kind # "EOF" => k \in 1..Len(tokens)
BY DEF TokenAt, EofToken, Simple, Token, Kinds

LEMMA SimpleType == \A k \in Kinds \ {"IDENT"} : Simple(k) \in Token
BY DEF Simple, Token, Kinds

LEMMA IdentType == \A n \in Names : Ident(n) \in Token
BY DEF Ident, Token, Kinds

LEMMA ActivationType ==
    ASSUME NEW tokens \in Seq(Token)
    PROVE  /\ Activation(tokens) \in Frame
           /\ Activation(tokens).phase = "scan"
BY DEF Activation, Frame, NoArgs, Phases

LEMMA ResumedType ==
    ASSUME NEW f \in Frame, NEW out \in Seq(Token)
    PROVE  /\ Resumed(f, out) \in Frame
           /\ Resumed(f, out).phase = "scan"
<1>1. f.stream \o out \in Seq(Token)
  BY ConcatProperties DEF Frame
<1>2. Activation(f.src) \in Frame
  BY ActivationType DEF Frame
<1> QED
  BY <1>1, <1>2 DEF Resumed, Activation, Frame

\* The three ways a step changes the activations.
LEMMA SetTopEffect ==
    ASSUME frames \in Seq(Frame), frames # << >>, NEW f \in Frame, SetTop(f)
    PROVE  /\ frames' \in Seq(Frame) /\ frames' # << >>
           /\ Len(frames') = Len(frames)
           /\ \A j \in 1..(Len(frames) - 1) : frames'[j] = frames[j]
           /\ frames'[Len(frames)] = f
BY DEF SetTop

LEMMA ExpandEffect ==
    ASSUME frames \in Seq(Frame), frames # << >>, NEW f \in Frame,
           NEW tokens \in Seq(Token), Expand(f, tokens)
    PROVE  /\ frames' \in Seq(Frame) /\ frames' # << >>
           /\ Len(frames') = Len(frames) + 1
           /\ \A j \in 1..(Len(frames) - 1) : frames'[j] = frames[j]
           /\ frames'[Len(frames)] = f
           /\ frames'[Len(frames) + 1] = Activation(tokens)
BY ActivationType DEF Expand

LEMMA ReturnEffect ==
    ASSUME frames \in Seq(Frame), Len(frames) > 1, NEW f \in Frame, ReturnTo(f)
    PROVE  /\ frames' \in Seq(Frame) /\ frames' # << >>
           /\ Len(frames') = Len(frames) - 1
           /\ \A j \in 1..(Len(frames) - 2) : frames'[j] = frames[j]
           /\ frames'[Len(frames) - 1] = f
<1> DEFINE n == Len(frames)
           rest == SubSeq(frames, 1, n - 1)
<1>1. rest \in Seq(Frame) /\ Len(rest) = n - 1
  BY SubSeqProperties
<1>2. \A j \in 1..(n - 1) : rest[j] = frames[j]
  BY SubSeqProperties
<1>3. frames' = [rest EXCEPT ![n - 1] = f]
  BY DEF ReturnTo
<1> HIDE DEF rest
<1> QED
  BY <1>1, <1>2, <1>3

THEOREM InitTypeInv == Init => TypeInv
<1> SUFFICES ASSUME Init PROVE TypeInv
  OBVIOUS
<1>1. PICK tokens \in Programs : frames = <<Activation(tokens)>>
  BY DEF Init
<1>2. tokens \in Seq(Token)
  BY ProgramsAssumption
<1>3. Activation(tokens) \in Frame /\ Activation(tokens).phase = "scan"
  BY <1>2, ActivationType
<1>4. frames \in Seq(Frame) /\ Len(frames) = 1 /\ frames[1].phase = "scan"
  BY <1>1, <1>3
<1>5. TypeOK
  BY <1>4, PoolAssumption DEF Init, TypeOK, Statuses
<1> QED
  BY <1>4, <1>5 DEF TypeInv, Nesting, CalleesDefined, Waiting

\* What the invariant says of the innermost activation and its current token.
LEMMA TopType ==
    ASSUME TypeInv
    PROVE  /\ Len(frames) \in Nat \ {0}
           /\ Top \in Frame /\ Top.phase \notin Waiting
           /\ Tok \in Token /\ Peeked \in Token /\ NameTok \in Token
           /\ NamePos \in Nat
           /\ Tok.kind = "IDENT" => Tok.id \in Names
           /\ NameTok.kind = "IDENT" => NameTok.id \in Names
           /\ Top.phase # "scan" =>
                 Top.name \in Names /\ macros[Top.name] \in MacroDef
<1>1. Len(frames) \in Nat \ {0} /\ Top \in Frame
  BY DEF TypeInv, TypeOK, Top
<1>2. Top.pos \in Nat /\ Top.src \in Seq(Token)
  BY <1>1 DEF Frame
<1> QED
  BY <1>1, <1>2, TokenAtType
     DEF TypeInv, TypeOK, Nesting, CalleesDefined, Top, Tok, Peeked, NameTok, NamePos

\* A step that gives the innermost activation other contents.
LEMMA SetTopTypeInv ==
    ASSUME TypeInv, NEW f \in Frame, SetTop(f),
           macros' = macros, macro_stack' \in Seq(Names),
           max_used' \in 0..MAX_BUFFERS, status' \in Statuses,
           f.phase \notin Waiting,
           f.phase # "scan" => f.name \in Names /\ macros[f.name] # None
    PROVE  TypeInv'
<1>1. /\ frames' \in Seq(Frame) /\ frames' # << >>
      /\ Len(frames') = Len(frames)
      /\ \A j \in 1..(Len(frames) - 1) : frames'[j] = frames[j]
      /\ frames'[Len(frames)] = f
  BY SetTopEffect DEF TypeInv, TypeOK
<1>2. Len(frames) \in Nat \ {0}
  BY TopType
<1>3. TypeOK'
  BY <1>1 DEF TypeInv, TypeOK
<1>4. Nesting'
  BY <1>1, <1>2 DEF TypeInv, Nesting
<1>5. CalleesDefined'
  BY <1>1, <1>2 DEF TypeInv, CalleesDefined, Waiting
<1> QED
  BY <1>3, <1>4, <1>5 DEF TypeInv

\* A step that starts another activation.
LEMMA ExpandTypeInv ==
    ASSUME TypeInv, NEW f \in Frame, NEW tokens \in Seq(Token), Expand(f, tokens),
           macros' = macros, macro_stack' \in Seq(Names),
           UNCHANGED <<max_used, status>>,
           f.phase \in Waiting,
           f.name \in Names /\ macros[f.name] # None,
           f.phase \in {"arg", "last"} => f.param \in Names
    PROVE  TypeInv'
<1>1. /\ frames' \in Seq(Frame) /\ frames' # << >>
      /\ Len(frames') = Len(frames) + 1
      /\ \A j \in 1..(Len(frames) - 1) : frames'[j] = frames[j]
      /\ frames'[Len(frames)] = f
      /\ frames'[Len(frames) + 1] = Activation(tokens)
  BY ExpandEffect DEF TypeInv, TypeOK
<1>2. Len(frames) \in Nat \ {0}
  BY TopType
<1>3. Activation(tokens).phase = "scan"
  BY ActivationType
<1>4. TypeOK'
  BY <1>1 DEF TypeInv, TypeOK
<1>5. Nesting'
  BY <1>1, <1>2, <1>3 DEF TypeInv, Nesting, Waiting
<1>6. CalleesDefined'
  BY <1>1, <1>2, <1>3 DEF TypeInv, CalleesDefined
<1> QED
  BY <1>4, <1>5, <1>6 DEF TypeInv

\* A step that ends the innermost activation.
LEMMA ReturnTypeInv ==
    ASSUME TypeInv, Len(frames) > 1, NEW f \in Frame, ReturnTo(f),
           macro_stack' \in Seq(Names),
           UNCHANGED <<macros, max_used, status>>,
           f.phase \notin Waiting,
           f.phase # "scan" => f.name \in Names /\ macros[f.name] # None
    PROVE  TypeInv'
<1>1. /\ frames' \in Seq(Frame) /\ frames' # << >>
      /\ Len(frames') = Len(frames) - 1
      /\ \A j \in 1..(Len(frames) - 2) : frames'[j] = frames[j]
      /\ frames'[Len(frames) - 1] = f
  BY ReturnEffect DEF TypeInv, TypeOK
<1>2. Len(frames) \in Nat
  BY TopType
<1>3. TypeOK'
  BY <1>1 DEF TypeInv, TypeOK
<1>4. Nesting'
  BY <1>1, <1>2 DEF TypeInv, Nesting
<1>5. CalleesDefined'
  BY <1>1, <1>2 DEF TypeInv, CalleesDefined, Waiting
<1> QED
  BY <1>3, <1>4, <1>5 DEF TypeInv

\* A step that ends the compilation.
LEMMA StopTypeInv ==
    ASSUME TypeInv, NEW s \in Statuses, Stop(s)
    PROVE  TypeInv'
BY DEF Stop, TypeInv, TypeOK, Nesting, CalleesDefined

\* A step that stores a definition.
LEMMA StoreTypeInv ==
    ASSUME TypeInv, NEW name \in Names, NEW def \in MacroDef, NEW last \in Nat,
           Store(name, def, last)
    PROVE  TypeInv'
<1> DEFINE Stored(j, moves) ==
      [frames[j] EXCEPT
         !.stale = \/ @
                   \/ /\ j > 1
                      /\ frames[j - 1].phase = "obj"
                      /\ frames[j - 1].name = name,
         !.moved = @ \/ (moves /\ frames[j].phase \in {"arg", "last"}),
         !.pos = IF j = Len(frames) THEN After(frames[j].src, last + 1) ELSE @]
<1>1. PICK moves \in BOOLEAN :
         /\ macros' = [macros EXCEPT ![name] = def]
         /\ frames' = [j \in 1..Len(frames) |-> Stored(j, moves)]
         /\ UNCHANGED <<macro_stack, max_used, status>>
  BY DEF Store
<1>2. \A j \in 1..Len(frames) :
         /\ frames[j] \in Frame
         /\ After(frames[j].src, last + 1) \in Nat
  <2> HIDE DEF Stored
  <2> TAKE j \in 1..Len(frames)
  <2>1. frames[j] \in Frame
    BY DEF TypeInv, TypeOK
  <2>2. Len(frames[j].src) \in Nat
    BY <2>1 DEF Frame
  <2> QED
    BY <2>1, <2>2 DEF After
<1>3. ASSUME NEW j \in 1..Len(frames)
      PROVE  /\ Stored(j, moves) \in Frame
             /\ Stored(j, moves).phase = frames[j].phase
             /\ Stored(j, moves).name = frames[j].name
             /\ Stored(j, moves).param = frames[j].param
  <2> DEFINE st == \/ frames[j].stale
                   \/ /\ j > 1
                      /\ frames[j - 1].phase = "obj"
                      /\ frames[j - 1].name = name
             mv == frames[j].moved \/ (moves /\ frames[j].phase \in {"arg", "last"})
             ps == IF j = Len(frames) THEN After(frames[j].src, last + 1)
                   ELSE frames[j].pos
  <2>1. st \in BOOLEAN /\ mv \in BOOLEAN
    OBVIOUS
  <2>2. ps \in Nat
    BY <1>2 DEF Frame
  <2>3. Stored(j, moves) = [frames[j] EXCEPT !.stale = st, !.moved = mv, !.pos = ps]
    BY <1>2 DEF Frame
  <2> HIDE DEF st, mv, ps, Stored
  <2> QED
    BY <1>2, <2>1, <2>2, <2>3 DEF Frame
<1> HIDE DEF Stored
<1>4. /\ frames' \in Seq(Frame) /\ Len(frames') = Len(frames)
      /\ \A j \in 1..Len(frames) : /\ frames'[j].phase = frames[j].phase
                                   /\ frames'[j].name = frames[j].name
                                   /\ frames'[j].param = frames[j].param
  BY <1>1, <1>3 DEF TypeInv, TypeOK
<1>5. macros' \in [Names -> MacroDef \cup {None}] /\ macros'[name] # None
  BY <1>1, NoneAssumption DEF TypeInv, TypeOK
<1>6. TypeOK'
  <2>1. frames' # << >>
    BY <1>4 DEF TypeInv, TypeOK
  <2> QED
    BY <1>1, <1>4, <1>5, <2>1 DEF TypeInv, TypeOK
<1>7. Nesting'
  BY <1>4 DEF TypeInv, Nesting
<1>8. \A n \in Names : macros[n] # None => macros'[n] # None
  BY <1>1, <1>5 DEF TypeInv, TypeOK
<1>9. CalleesDefined'
  BY <1>4, <1>8 DEF TypeInv, CalleesDefined
<1> QED
  BY <1>6, <1>7, <1>9 DEF TypeInv

\* What a # define stores: a body that lies behind the name and the parameters, on
\* their line.
LEMMA DefineEffect ==
    ASSUME TypeInv, DefineObjlike \/ DefineFnlike
    PROVE  /\ AtDefine /\ NameTok.id \in Names
           /\ \E first \in Nat \ {0, 1}, last \in Nat, def \in MacroDef :
                 /\ last <= Len(Top.src) /\ Top.src[first - 1].kind # "NL"
                 /\ IsBody(Top.src, first, last)
                 /\ def.body = SubSeq(Top.src, first, last)
                 /\ Store(NameTok.id, def, last)
<1>1. /\ Top.src \in Seq(Token) /\ NamePos \in Nat \ {0} /\ Len(Top.src) \in Nat
      /\ NameTok.kind = "IDENT" => NameTok.id \in Names
  BY TopType DEF Frame, NamePos
<1>2. AtDefine /\ NameTok.kind = "IDENT" /\ NameTok.id \in Names
  BY <1>1 DEF DefineObjlike, DefineFnlike
<1>3. NamePos \in 1..Len(Top.src) /\ Top.src[NamePos].kind = "IDENT"
  BY <1>1, <1>2 DEF NameTok, TokenAt, EofToken, Simple
<1>4. ASSUME NEW first \in Nat \ {0}, NEW last \in Nat
      PROVE  SubSeq(Top.src, first, last) \in Seq(Token) \/ last > Len(Top.src)
  BY <1>1, SubSeqProperties
<1> DEFINE lp == NamePos + 1
<1>5. CASE DefineObjlike
  <2>1. PICK last \in NamePos..Len(Top.src) :
           /\ IsBody(Top.src, lp, last)
           /\ Store(NameTok.id,
                    [fnlike |-> FALSE, argnames |-> << >>, body |-> SubSeq(Top.src, lp, last)],
                    last)
    BY <1>5 DEF DefineObjlike
  <2> DEFINE body == SubSeq(Top.src, lp, last)
             def == [fnlike |-> FALSE, argnames |-> << >>, body |-> body]
  <2>2. /\ lp \in Nat \ {0, 1} /\ lp - 1 = NamePos /\ last \in Nat /\ last <= Len(Top.src)
    BY <1>1
  <2>3. body \in Seq(Token)
    BY <1>4, <2>2
  <2> HIDE DEF body
  <2>4. def \in MacroDef /\ def.body = body /\ Store(NameTok.id, def, last)
    BY <2>1, <2>3 DEF MacroDef, body
  <2>5. Top.src[lp - 1].kind # "NL"
    BY <1>3, <2>2
  <2> HIDE DEF lp, def
  <2> QED
    BY <1>2, <2>1, <2>2, <2>4, <2>5 DEF body
<1>6. CASE DefineFnlike
  <2> DEFINE end(m) == ParamListEnd(lp, m)
             names(m) == [k \in 1..m |-> Top.src[lp + 2 * k - 1].id]
  <2>1. PICK m \in 0..Len(Top.src), last \in NamePos..Len(Top.src) :
           /\ IsParamList(Top.src, lp, m)
           /\ IsBody(Top.src, end(m) + 1, last)
           /\ Store(NameTok.id,
                    [fnlike |-> TRUE, argnames |-> names(m),
                     body |-> SubSeq(Top.src, end(m) + 1, last)],
                    last)
    BY <1>6 DEF DefineFnlike
  <2> DEFINE e == end(m)
             body == SubSeq(Top.src, e + 1, last)
             def == [fnlike |-> TRUE, argnames |-> names(m), body |-> body]
  <2>2. lp \in Nat /\ m \in Nat /\ last \in Nat /\ last <= Len(Top.src)
    BY <1>1
  <2>3. e \in Nat \ {0} /\ Top.src[e].kind = "RP"
    BY <2>1, <2>2 DEF ParamListEnd, IsParamList
  <2>4. \A k \in 1..m : lp + 2 * k - 1 \in 1..Len(Top.src)
    <3>1. e <= Len(Top.src) /\ e = IF m = 0 THEN lp + 1 ELSE lp + 2 * m
      BY <2>1 DEF IsParamList, ParamListEnd
    <3> HIDE DEF lp, e
    <3> QED
      BY <1>1, <2>2, <3>1
  <2>5. \A k \in 1..m : Top.src[lp + 2 * k - 1].id \in Names
    <3> TAKE k \in 1..m
    <3>1. Top.src[lp + 2 * k - 1].kind = "IDENT" /\ Top.src[lp + 2 * k - 1] \in Token
      BY <1>1, <2>1, <2>4 DEF IsParamList
    <3> QED
      BY <3>1 DEF Token
  <2>6. names(m) \in Seq(Names)
    BY <2>5
  <2> HIDE DEF e, names
  <2>7. e + 1 \in Nat \ {0, 1} /\ (e + 1) - 1 = e
    BY <2>3
  <2>8. body \in Seq(Token)
    BY <1>4, <2>2, <2>7
  <2>9. IsBody(Top.src, e + 1, last) /\ Store(NameTok.id, def, last)
    BY <2>1 DEF e, names
  <2>10. Top.src[(e + 1) - 1].kind # "NL"
    BY <2>3, <2>7
  <2> HIDE DEF body
  <2>11. def \in MacroDef /\ def.body = body
    BY <2>6, <2>8 DEF MacroDef
  <2> HIDE DEF def
  <2> QED
    BY <1>2, <2>2, <2>7, <2>9, <2>10, <2>11 DEF body
<1> QED
  BY <1>5, <1>6

LEMMA DirectiveTypeInv == TypeInv /\ Directive => TypeInv'
<1> SUFFICES ASSUME TypeInv, Directive PROVE TypeInv'
  OBVIOUS
<1>1. CASE DefineObjlike \/ DefineFnlike
  BY <1>1, DefineEffect, StoreTypeInv
<1>2. CASE BadDefine \/ StepIf \/ BadDirective
  BY <1>2, StopTypeInv DEF BadDefine, StepIf, BadDirective, Statuses
<1> QED
  BY <1>1, <1>2 DEF Directive

LEMMA StepTypeInv == TypeInv /\ Step => TypeInv'
<1> SUFFICES ASSUME TypeInv, Step PROVE TypeInv'
  OBVIOUS
<1>1. /\ Top \in Frame /\ Top.phase \notin Waiting
      /\ Tok \in Token
      /\ Tok.kind = "IDENT" => Tok.id \in Names
      /\ Top.phase # "scan" => Top.name \in Names /\ macros[Top.name] \in MacroDef
  BY TopType
<1>2. /\ macro_stack \in Seq(Names) /\ max_used \in 0..MAX_BUFFERS
      /\ status \in Statuses /\ macros \in [Names -> MacroDef \cup {None}]
  BY DEF TypeInv, TypeOK
<1>3. ASSUME Top.phase = "scan", Emit,
             UNCHANGED <<macros, macro_stack, max_used, status>>
      PROVE  TypeInv'
  <2> DEFINE out == Append(Top.stream, Tok)
             pos == Top.pos + 1
             g == [Top EXCEPT !.stream = out, !.pos = pos]
  <2>1. out \in Seq(Token) /\ pos \in Nat
    BY <1>1 DEF Frame
  <2>2. SetTop(g)
    BY <1>3 DEF Emit
  <2> HIDE DEF out, pos
  <2>3. g \in Frame /\ g.phase = "scan"
    BY <1>1, <1>3, <2>1 DEF Frame
  <2> HIDE DEF g
  <2> QED
    BY <1>2, <1>3, <2>2, <2>3, SetTopTypeInv DEF Waiting
<1>4. CASE StepPlain
  <2>1. CASE Tok.kind = "NL"
    <3> DEFINE pos == Top.pos + 1
               g == [Top EXCEPT !.pos = pos]
    <3>1. pos \in Nat
      BY <1>1 DEF Frame
    <3>2. SetTop(g) /\ Top.phase = "scan"
      BY <1>4, <2>1 DEF StepPlain, Reading, Running
    <3> HIDE DEF pos
    <3>3. g \in Frame /\ g.phase = "scan"
      BY <1>1, <3>1, <3>2 DEF Frame
    <3> HIDE DEF g
    <3> QED
      BY <1>2, <1>4, <3>2, <3>3, SetTopTypeInv DEF StepPlain, Waiting
  <2>2. CASE Tok.kind # "NL"
    BY <1>3, <1>4, <2>2 DEF StepPlain, Reading, Running
  <2> QED
    BY <2>1, <2>2
<1>5. CASE UseAsPlain
  BY <1>3, <1>5 DEF UseAsPlain, Reading, Running
<1>6. CASE UseObjlike
  <2> DEFINE pos == Top.pos + 1
             g == [Top EXCEPT !.phase = "obj", !.name = Tok.id, !.pos = pos]
  <2>1. Tok.id \in Names /\ macros[Tok.id] # None /\ macros[Tok.id].body \in Seq(Token)
    BY <1>1, <1>2, <1>6 DEF UseObjlike, IsMacro, MacroDef
  <2>2. pos \in Nat
    BY <1>1 DEF Frame
  <2>3. macro_stack' \in Seq(Names)
    BY <1>2, <1>6, <2>1 DEF UseObjlike
  <2>4. Expand(g, macros[Tok.id].body) /\ UNCHANGED <<macros, max_used, status>>
    BY <1>6 DEF UseObjlike
  <2> HIDE DEF pos
  <2>5. g \in Frame /\ g.phase = "obj" /\ g.name = Tok.id
    BY <1>1, <2>1, <2>2 DEF Frame, Phases
  <2> HIDE DEF g
  <2> QED
    BY <2>1, <2>3, <2>4, <2>5, ExpandTypeInv DEF Waiting
<1>7. CASE UseFnlike
  <2> DEFINE pos == Top.pos + 2
             g == [Top EXCEPT !.phase = "args", !.name = Tok.id, !.pos = pos]
  <2>1. Tok.id \in Names /\ macros[Tok.id] # None
    BY <1>1, <1>7 DEF UseFnlike, AtCall, IsMacro
  <2>2. pos \in Nat
    BY <1>1 DEF Frame
  <2>3. max_used' \in 0..MAX_BUFFERS
    BY <1>2, <1>7, PoolAssumption DEF UseFnlike
  <2>4. SetTop(g) /\ UNCHANGED <<macros, macro_stack, status>>
    BY <1>7 DEF UseFnlike
  <2> HIDE DEF pos
  <2>5. g \in Frame /\ g.phase = "args" /\ g.name = Tok.id
    BY <1>1, <2>1, <2>2 DEF Frame, Phases
  <2> HIDE DEF g
  <2> QED
    BY <1>2, <2>1, <2>3, <2>4, <2>5, SetTopTypeInv DEF Waiting
<1>8. CASE PoolExhausted
  BY <1>8, StopTypeInv DEF PoolExhausted, Statuses
<1> QED
  BY <1>4, <1>5, <1>6, <1>7, <1>8 DEF Step

\* The facts of TypeInv that the cases below use.
LEMMA StateType ==
    ASSUME TypeInv
    PROVE  /\ Top \in Frame /\ Top.phase \notin Waiting
           /\ Tok \in Token
           /\ Top.pos + 1 \in Nat /\ Top.argnum + 1 \in Nat \ {0}
           /\ Top.phase # "scan" =>
                 Top.name \in Names /\ Callee \in MacroDef /\ macros[Top.name] # None
           /\ macro_stack \in Seq(Names) /\ max_used \in 0..MAX_BUFFERS
           /\ status \in Statuses /\ macros \in [Names -> MacroDef \cup {None}]
           /\ frames \in Seq(Frame) /\ Len(frames) \in Nat \ {0}
<1>1. Top \in Frame /\ Len(frames) \in Nat \ {0}
  BY TopType
<1>2. Top.pos \in Nat /\ Top.argnum \in Nat
  BY <1>1 DEF Frame
<1> QED
  BY <1>1, <1>2, TopType, NoneAssumption DEF Callee, TypeInv, TypeOK

LEMMA ArgumentsTypeInv == TypeInv /\ Arguments => TypeInv'
<1> SUFFICES ASSUME TypeInv, Arguments PROVE TypeInv'
  OBVIOUS
<1>1. ASSUME NEW depth \in Nat, Collect(depth), Top.phase = "args"
      PROVE  TypeInv'
  <2> DEFINE arg == Append(Top.arg, Tok)
             pos == Top.pos + 1
             g == [Top EXCEPT !.arg = arg, !.depth = depth, !.pos = pos]
  <2>1. arg \in Seq(Token) /\ pos \in Nat
    BY StateType DEF Frame
  <2>2. SetTop(g) /\ UNCHANGED <<macros, macro_stack, max_used, status>>
    BY <1>1 DEF Collect
  <2> HIDE DEF arg, pos
  <2>3. g \in Frame /\ g.phase = "args" /\ g.name = Top.name
    BY <1>1, <2>1, StateType DEF Frame
  <2> HIDE DEF g
  <2> QED
    BY <1>1, <2>2, <2>3, StateType, SetTopTypeInv DEF Waiting
<1>2. CASE CollectOpen \/ CollectClose \/ CollectInner \/ CollectPlain
  <2>1. Top.depth \in Nat
    BY StateType DEF Frame
  <2> QED
    BY <1>1, <1>2, <2>1
       DEF CollectOpen, CollectClose, CollectInner, CollectPlain, Collecting,
           Reading, Running
<1>3. CASE CollectEof
  <2> DEFINE arg == IF Top.arg # << >> /\ Top.arg[Len(Top.arg)] = EofToken THEN Top.arg
                    ELSE Append(Top.arg, EofToken)
             g == [Top EXCEPT !.arg = arg]
  <2>1. Top.phase = "args" /\ SetTop(g) /\ UNCHANGED <<macros, macro_stack, max_used, status>>
    BY <1>3 DEF CollectEof, Collecting, Reading, Running
  <2>2. EofToken \in Token
    BY SimpleType DEF EofToken, Kinds
  <2>3. Top.arg \in Seq(Token)
    BY StateType DEF Frame
  <2>4. arg \in Seq(Token)
    BY <2>2, <2>3
  <2> HIDE DEF arg
  <2>5. g \in Frame /\ g.phase = "args" /\ g.name = Top.name
    BY <2>1, <2>4, StateType DEF Frame
  <2> HIDE DEF g
  <2> QED
    BY <2>1, <2>5, StateType, SetTopTypeInv DEF Waiting
<1>4. ASSUME NEW phase \in {"arg", "last"}, Top.phase = "args", PushArg(phase),
             Top.argnum + 1 <= Len(Callee.argnames)
      PROVE  TypeInv'
  <2> DEFINE pos == Top.pos + 1
             num == Top.argnum + 1
             param == Callee.argnames[Top.argnum + 1]
             g == [Top EXCEPT !.phase = phase, !.pos = pos, !.argnum = num,
                              !.param = param]
  <2>1. pos \in Nat /\ num \in Nat /\ Top.arg \in Seq(Token)
    BY StateType DEF Frame
  <2>2. param \in Names
    BY <1>4, StateType DEF MacroDef
  <2>3. Expand(g, Top.arg) /\ UNCHANGED <<macros, macro_stack, max_used, status>>
    BY <1>4 DEF PushArg
  <2> HIDE DEF pos, num, param
  <2>4. g \in Frame /\ g.phase = phase /\ g.name = Top.name /\ g.param = param
    BY <2>1, <2>2, StateType DEF Frame, Phases
  <2> HIDE DEF g
  <2> QED
    BY <1>4, <2>1, <2>2, <2>3, <2>4, StateType, ExpandTypeInv DEF Waiting
<1>5. CASE CommaArg
  <2>1. Top.argnum + 1 <= Len(Callee.argnames)
    BY <1>5, StateType DEF CommaArg, AtDelimiter, Collecting, Reading, Running,
                           MacroDef, Frame
  <2> QED
    BY <1>4, <1>5, <2>1 DEF CommaArg, AtDelimiter, Collecting, Reading, Running
<1>6. CASE LastArg
  <2>1. Len(Callee.argnames) \in Nat
    BY <1>6, StateType DEF LastArg, AtDelimiter, Collecting, Reading, Running, MacroDef
  <2> QED
    BY <1>4, <1>6, <2>1 DEF LastArg, AtDelimiter, Collecting, Reading, Running
<1>7. CASE CloseEmpty
  <2> DEFINE pos == Top.pos + 1
             g == [Top EXCEPT !.phase = "enter", !.pos = pos]
  <2>1. pos \in Nat
    BY StateType
  <2>2. /\ SetTop(g) /\ UNCHANGED <<macros, macro_stack, max_used, status>>
        /\ Top.phase = "args"
    BY <1>7 DEF CloseEmpty, AtDelimiter, Collecting, Reading, Running
  <2> HIDE DEF pos
  <2>3. g \in Frame /\ g.phase = "enter" /\ g.name = Top.name
    BY <2>1, StateType DEF Frame, Phases
  <2> HIDE DEF g
  <2> QED
    BY <2>2, <2>3, StateType, SetTopTypeInv DEF Waiting
<1>8. CASE UnclosedCall \/ ExcessArg \/ ArgMismatch
  BY <1>8, StopTypeInv DEF UnclosedCall, ExcessArg, ArgMismatch, Statuses
<1> QED
  BY <1>2, <1>3, <1>5, <1>6, <1>7, <1>8 DEF Arguments

LEMMA BodyTypeInv == TypeInv /\ Body => TypeInv'
<1> SUFFICES ASSUME TypeInv, Body PROVE TypeInv'
  OBVIOUS
<1>1. CASE EnterBody
  <2> DEFINE g == [Top EXCEPT !.phase = "subst", !.todo = Callee.body]
  <2>1. Top.phase = "enter" /\ SetTop(g) /\ UNCHANGED <<macros, max_used, status>>
    BY <1>1 DEF EnterBody, Running
  <2>2. g \in Frame /\ g.phase = "subst" /\ g.name = Top.name
    BY <2>1, StateType DEF Frame, Phases, MacroDef
  <2>3. macro_stack' \in Seq(Names)
    BY <1>1, <2>1, StateType DEF EnterBody
  <2> HIDE DEF g
  <2> QED
    BY <2>1, <2>2, <2>3, StateType, SetTopTypeInv DEF Waiting
<1>2. ASSUME NEW k \in Nat, NEW out \in Seq(Token), Processed(k, out),
             Top.phase \in {"subst", "paste"}
      PROVE  TypeInv'
  <2> DEFINE todo == Rest(Top.todo, k)
             buf == Top.buf \o out
             g == [Top EXCEPT !.todo = todo, !.buf = buf]
  <2>1. todo \in Seq(Token)
    <3> HIDE DEF todo, buf, g
    <3>1. Top \in Frame
      BY StateType
    <3>2. Top.todo \in Seq(Token)
      BY <3>1 DEF Frame
    <3>3. k + 1 \in Nat /\ Len(Top.todo) \in Nat
      BY <3>2
    <3> QED
      BY <3>2, <3>3, SubSeqProperties DEF Rest, todo
  <2>2. buf \in Seq(Token)
    <3>1. Top \in Frame
      BY StateType
    <3>2. Top.buf \in Seq(Token)
      BY <3>1 DEF Frame
    <3> QED
      BY <3>2, ConcatProperties
  <2>3. SetTop(g) /\ UNCHANGED <<macros, macro_stack, max_used, status>>
    BY <1>2 DEF Processed
  <2> HIDE DEF todo, buf
  <2>4. g \in Frame /\ g.phase = Top.phase /\ g.name = Top.name
    BY <2>1, <2>2, StateType DEF Frame
  <2> HIDE DEF g
  <2> QED
    BY <1>2, <2>3, <2>4, StateType, SetTopTypeInv DEF Waiting
<1>3. ASSUME Top.todo # << >>
      PROVE  Head(Top.todo) \in Token /\ <<Head(Top.todo)>> \in Seq(Token)
  BY <1>3, StateType DEF Frame
<1>4. CASE Substitute
  <2> DEFINE t == Head(Top.todo)
  <2>1. Top.phase = "subst" /\ t \in Token /\ <<t>> \in Seq(Token)
    BY <1>3, <1>4 DEF Substitute, Running
  <2>2. ASSUME IsParam(t) PROVE Top.args[t.id] \in Seq(Token)
    BY <2>1, <2>2, StateType DEF IsParam, Frame, Token
  <2>3. (IF IsParam(t) THEN Top.args[t.id] ELSE <<t>>) \in Seq(Token)
    BY <2>1, <2>2
  <2> QED
    BY <1>2, <1>4, <2>1, <2>3 DEF Substitute
<1>5. CASE Stringify
  <2>1. <<Simple("VAL")>> \in Seq(Token) /\ Top.phase = "subst"
    BY <1>5, SimpleType DEF Kinds, Stringify, Running
  <2> QED
    BY <1>2, <1>5, <2>1, StopTypeInv DEF Stringify, Statuses
<1>6. CASE EndSubst
  <2> DEFINE nil == << >>
             g == [Top EXCEPT !.phase = "paste", !.todo = Top.buf, !.buf = nil]
  <2>1. /\ Top.phase = "subst" /\ SetTop(g)
        /\ UNCHANGED <<macros, macro_stack, max_used, status>>
    BY <1>6 DEF EndSubst, Running
  <2>2. nil \in Seq(Token) /\ Top.buf \in Seq(Token)
    BY StateType DEF Frame
  <2> HIDE DEF nil
  <2>3. g \in Frame /\ g.phase = "paste" /\ g.name = Top.name
    BY <2>2, StateType DEF Frame, Phases
  <2> HIDE DEF g
  <2> QED
    BY <2>1, <2>3, StateType, SetTopTypeInv DEF Waiting
<1>7. CASE KeepToken
  BY <1>2, <1>3, <1>7 DEF KeepToken, Running
<1>8. CASE JoinIdent
  <2> DEFINE todo == <<Ident(Joined)>> \o Rest(Top.todo, 3)
             g == [Top EXCEPT !.todo = todo]
  <2>1. /\ Top.phase = "paste" /\ SetTop(g)
        /\ UNCHANGED <<macros, macro_stack, max_used, status>>
    BY <1>8 DEF JoinIdent, Running
  <2>2. /\ Top.todo \in Seq(Token) /\ 3 <= Len(Top.todo)
        /\ Top.todo[1].kind = "IDENT" /\ Top.todo[3].kind = "IDENT"
    BY <1>8, StateType DEF JoinIdent, Joins, PasteAt, Frame
  <2>3. Top.todo[1] \in Token /\ Top.todo[3] \in Token
    BY <2>2
  <2>4. Top.todo[1].id \in Names /\ Top.todo[3].id \in Names
    BY <2>2, <2>3 DEF Token
  <2>5. Joined \in Names
    BY <1>8, <2>4, ConcatAssumption DEF JoinIdent, Joined
  <2>6. <<Ident(Joined)>> \in Seq(Token)
    BY <2>5, IdentType
  <2>7. todo \in Seq(Token)
    BY <2>2, <2>6, SubSeqProperties, ConcatProperties DEF Rest
  <2> HIDE DEF todo
  <2>8. g \in Frame /\ g.phase = Top.phase /\ g.name = Top.name
    BY <2>7, StateType DEF Frame
  <2> HIDE DEF g
  <2> QED
    BY <2>1, <2>8, StateType, SetTopTypeInv DEF Waiting
<1>9. CASE JoinKeyword
  <2>1. <<Simple("OP")>> \in Seq(Token) /\ Top.phase = "paste"
    BY <1>9, SimpleType DEF Kinds, JoinKeyword, Running
  <2> QED
    BY <1>2, <1>9, <2>1, StopTypeInv DEF JoinKeyword, Statuses
<1>10. CASE Rescan
  <2> DEFINE g == [Top EXCEPT !.phase = "rescan"]
  <2>1. /\ Top.phase = "paste" /\ Expand(g, Top.buf)
        /\ UNCHANGED <<macros, macro_stack, max_used, status>>
    BY <1>10 DEF Rescan, Running
  <2>2. g \in Frame /\ g.phase = "rescan" /\ g.name = Top.name /\ Top.buf \in Seq(Token)
    BY StateType DEF Frame, Phases
  <2> HIDE DEF g
  <2> QED
    BY <2>1, <2>2, StateType, ExpandTypeInv DEF Waiting
<1> QED
  BY <1>1, <1>4, <1>5, <1>6, <1>7, <1>8, <1>9, <1>10 DEF Body

LEMMA ReturnTypeInvStep == TypeInv /\ Return => TypeInv'
<1> SUFFICES ASSUME TypeInv, Return PROVE TypeInv'
  OBVIOUS
<1>1. CASE Finish
  BY <1>1, StopTypeInv DEF Finish, Statuses
<1>2. ASSUME Len(frames) > 1
      PROVE  /\ Caller \in Frame /\ Top.stream \in Seq(Token)
             /\ Caller.phase # "scan" =>
                   Caller.name \in Names /\ macros[Caller.name] # None
             /\ Caller.phase \in {"arg", "last"} => Caller.param \in Names
  <2>1. Len(frames) - 1 \in 1..Len(frames)
    BY <1>2, StateType
  <2>2. Caller \in Frame
    BY <2>1, StateType DEF Caller
  <2> QED
    BY <2>1, <2>2, StateType DEF Caller, TypeInv, CalleesDefined, Frame
<1>3. ASSUME NEW phase, ReturnFrom(phase) PROVE TypeInv'
  <2> DEFINE g == Resumed(Caller, Top.stream)
  <2>1. /\ Len(frames) > 1 /\ ReturnTo(g)
        /\ macro_stack' = SubSeq(macro_stack, 1, Len(macro_stack) - 1)
        /\ UNCHANGED <<macros, max_used, status>>
    BY <1>3 DEF ReturnFrom
  <2>2. macro_stack' \in Seq(Names)
    BY <2>1, StateType, SubSeqProperties
  <2>3. g \in Frame /\ g.phase = "scan"
    BY <1>2, <2>1, ResumedType
  <2> HIDE DEF g
  <2> QED
    BY <2>1, <2>2, <2>3, ReturnTypeInv DEF Waiting
<1>4. CASE ReturnArg
  <2> DEFINE phase == IF Caller.phase = "last" THEN "enter" ELSE "args"
             args == [Caller.args EXCEPT ![Caller.param] = Top.stream]
             nil == << >>
             g == [Caller EXCEPT !.phase = phase, !.args = args, !.arg = nil]
  <2>1. /\ Len(frames) > 1 /\ Caller.phase \in {"arg", "last"}
        /\ UNCHANGED <<macros, macro_stack, max_used, status>>
    BY <1>4 DEF ReturnArg
  <2>2. Caller \in Frame /\ Caller.args \in [Names -> Seq(Token) \cup {None}]
    BY <1>2, <2>1 DEF Frame
  <2>3. ReturnTo(g)
    BY <1>4 DEF ReturnArg
  <2>4. phase \in {"enter", "args"}
    OBVIOUS
  <2>5. args \in [Names -> Seq(Token) \cup {None}]
    BY <1>2, <2>1, <2>2
  <2>7. nil \in Seq(Token)
    OBVIOUS
  <2> HIDE DEF phase, args, nil
  <2>6. g \in Frame /\ g.phase = phase /\ g.name = Caller.name
    BY <2>2, <2>4, <2>5, <2>7 DEF Frame, Phases
  <2> HIDE DEF g
  <2> QED
    BY <1>2, <2>1, <2>3, <2>4, <2>6, StateType, ReturnTypeInv DEF Waiting
<1> QED
  BY <1>1, <1>3, <1>4 DEF Return, ReturnObj, ReturnRescan

LEMMA NextTypeInv == TypeInv /\ [Next]_vars => TypeInv'
<1> SUFFICES ASSUME TypeInv, [Next]_vars PROVE TypeInv'
  OBVIOUS
<1>1. CASE TouchStale
  BY <1>1, StopTypeInv DEF TouchStale, Statuses
<1>2. CASE UNCHANGED vars
  BY <1>2 DEF vars, TypeInv, TypeOK, Nesting, CalleesDefined
<1> QED
  BY <1>1, <1>2, DirectiveTypeInv, StepTypeInv, ArgumentsTypeInv, BodyTypeInv,
     ReturnTypeInvStep DEF Next

LEMMA TypeInvariant == Spec => []TypeInv
BY InitTypeInv, NextTypeInv, PTL DEF Spec

\* The types hold for all programs and any size of the pool; in particular
\* every def, body and parameter name that the code dereferences exists.
THEOREM TypeCorrect == Spec => []TypeOK
<1>1. TypeInv => TypeOK
  BY DEF TypeInv
<1> QED
  BY <1>1, TypeInvariant, PTL

-----------------------------------------------------------------------------
(* The macro stack.  A call checks macro_stack before it expands its        *)
(* arguments and pushes its name after: that its name is still not below it *)
(* then is the part of the invariant that makes NoSelfNesting inductive.    *)

\* Phases of a call whose callee is not on macro_stack yet.
Pending == {"args", "arg", "last", "enter"}

\* The length of macro_stack when only the first j activations were there.
Height(j) == Cardinality(Held(j))

PendingAreFresh ==
    \A j \in 1..Len(frames) :
       frames[j].phase \in Pending =>
          \A k \in 1..Height(j) : macro_stack[k] # frames[j].name

StackInv == StackMirrorsCalls /\ NoSelfNesting /\ PendingAreFresh

LEMMA HeightType ==
    ASSUME NEW j \in Nat
    PROVE  IsFiniteSet(Held(j)) /\ Height(j) \in Nat
<1>1. IsFiniteSet(1..j)
  BY FS_Interval
<1>2. Held(j) \subseteq 1..j
  BY DEF Held
<1>3. IsFiniteSet(Held(j))
  BY <1>1, <1>2, FS_Subset
<1> QED
  BY <1>3, FS_CardinalityType DEF Height

LEMMA HeightMonotone ==
    ASSUME NEW i \in Nat, NEW j \in Nat, i <= j
    PROVE  Height(i) <= Height(j)
<1>1. Held(i) \subseteq Held(j)
  BY DEF Held
<1> QED
  BY <1>1, HeightType, FS_Subset DEF Height

\* An activation that holds its macro adds one to the height, others nothing.
LEMMA HeightNext ==
    ASSUME NEW j \in Nat \ {0}
    PROVE  /\ frames[j].phase \in Holding =>
                 Held(j) = Held(j - 1) \cup {j} /\ Height(j) = Height(j - 1) + 1
           /\ frames[j].phase \notin Holding =>
                 Held(j) = Held(j - 1) /\ Height(j) = Height(j - 1)
<1>1. ASSUME frames[j].phase \in Holding
      PROVE  Held(j) = Held(j - 1) \cup {j} /\ Height(j) = Height(j - 1) + 1
  <2>1. Held(j) = Held(j - 1) \cup {j} /\ j \notin Held(j - 1)
    BY <1>1 DEF Held
  <2>2. IsFiniteSet(Held(j - 1))
    BY HeightType
  <2> QED
    BY <2>1, <2>2, FS_AddElement DEF Height
<1>2. ASSUME frames[j].phase \notin Holding
      PROVE  Held(j) = Held(j - 1) /\ Height(j) = Height(j - 1)
  BY <1>2 DEF Held, Height
<1> QED
  BY <1>1, <1>2

\* Held depends on nothing but which activations hold their macros.
LEMMA HeldUnchanged ==
    ASSUME NEW m \in Nat,
           \A k \in 1..m : frames'[k].phase \in Holding <=> frames[k].phase \in Holding
    PROVE  \A j \in 0..m : Held(j)' = Held(j) /\ Height(j)' = Height(j)
<1> TAKE j \in 0..m
<1>1. \A k \in 1..j : frames'[k].phase \in Holding <=> frames[k].phase \in Holding
  OBVIOUS
<1>2. Held(j)' = Held(j)
  BY <1>1 DEF Held
<1> QED
  BY <1>2 DEF Height

\* Activations above the m-th that hold nothing do not count.
LEMMA HeldPrefix ==
    ASSUME NEW m \in Nat, NEW n \in Nat, m <= n,
           \A k \in (m + 1)..n : frames[k].phase \notin Holding
    PROVE  Held(n) = Held(m) /\ Height(n) = Height(m)
BY DEF Held, Height

\* A step that leaves macro_stack alone and changes, above the m-th activation,
\* only ones that hold nothing.
LEMMA SameStack ==
    ASSUME TypeInv, TypeInv', StackInv, macro_stack' = macro_stack,
           NEW m \in Nat, m <= Len(frames), m <= Len(frames'),
           \A j \in 1..m : /\ frames'[j].phase \in Holding <=> frames[j].phase \in Holding
                           /\ frames'[j].phase \in Holding =>
                                 frames'[j].name = frames[j].name
                           /\ frames'[j].phase \in Pending =>
                                 \A k \in 1..Height(j) : macro_stack[k] # frames'[j].name,
           \A j \in (m + 1)..Len(frames) : frames[j].phase \notin Holding,
           \A j \in (m + 1)..Len(frames') : frames'[j].phase = "scan"
    PROVE  StackInv'
<1>1. Len(frames) \in Nat /\ Len(frames') \in Nat
  BY DEF TypeInv, TypeOK
<1>2. \A j \in 0..m : Held(j)' = Held(j) /\ Height(j)' = Height(j)
  BY HeldUnchanged
<1>3. Held(Len(frames)) = Held(m) /\ Height(Len(frames)) = Height(m)
  BY <1>1, HeldPrefix
<1>4. Held(Len(frames))' = Held(m)' /\ Height(Len(frames))' = Height(m)'
  <2>1. \A k \in (m + 1)..Len(frames') : frames'[k].phase \notin Holding
    BY DEF Holding
  <2>2. Held(Len(frames))' = Held(m)'
    BY <1>1, <2>1 DEF Held
  <2> QED
    BY <2>2 DEF Height
<1>5. StackMirrorsCalls'
  <2>1. /\ Held(Len(frames))' = Held(m) /\ Held(Len(frames)) = Held(m)
        /\ Height(Len(frames))' = Height(m) /\ Height(Len(frames)) = Height(m)
    <3>1. m \in 0..m
      OBVIOUS
    <3> QED
      BY <1>2, <1>3, <1>4, <3>1
  <2>2. ASSUME NEW j \in Held(m)
        PROVE  /\ macro_stack[Height(j)] = frames[j].name
               /\ Height(j)' = Height(j) /\ frames'[j].name = frames[j].name
    <3>1. j \in 1..m /\ j \in 0..m /\ frames[j].phase \in Holding
      BY DEF Held
    <3>2. macro_stack[Height(j)] = frames[j].name
      BY <2>1 DEF StackInv, StackMirrorsCalls, Height
    <3> QED
      BY <1>2, <3>1, <3>2
  <2>3. Len(macro_stack) = Height(m)
    BY <2>1 DEF StackInv, StackMirrorsCalls, Height
  <2> QED
    BY <2>1, <2>2, <2>3 DEF StackMirrorsCalls, Height
<1>6. NoSelfNesting'
  BY DEF StackInv, NoSelfNesting
<1>7. PendingAreFresh'
  BY <1>1, <1>2 DEF PendingAreFresh, Pending
<1> QED
  BY <1>5, <1>6, <1>7 DEF StackInv

\* A step that pushes the macro that the innermost activation goes on to hold.
LEMMA PushStack ==
    ASSUME TypeInv, TypeInv', StackInv,
           NEW n \in Nat \ {0}, n = Len(frames), n <= Len(frames'),
           frames[n].phase \notin Holding, frames'[n].phase \in Holding,
           macro_stack' = Append(macro_stack, frames'[n].name),
           \A k \in 1..Len(macro_stack) : macro_stack[k] # frames'[n].name,
           \A j \in 1..(n - 1) : frames'[j] = frames[j],
           \A j \in (n + 1)..Len(frames') : frames'[j].phase = "scan"
    PROVE  StackInv'
<1> DEFINE len == Len(macro_stack)
<1>1. /\ Len(frames') \in Nat /\ macro_stack \in Seq(Names)
      /\ len \in Nat /\ frames'[n].name \in Names
  BY DEF TypeInv, TypeOK, CalleesDefined, Holding
<1>2. \A j \in 0..(n - 1) : Held(j)' = Held(j) /\ Height(j)' = Height(j)
  <2>1. /\ n - 1 \in Nat
        /\ \A k \in 1..(n - 1) : frames'[k].phase \in Holding
                                   <=> frames[k].phase \in Holding
    OBVIOUS
  <2> QED
    BY <2>1, HeldUnchanged
<1>3. Held(n) = Held(n - 1) /\ Height(n) = Height(n - 1)
  BY HeightNext
<1>4. Held(n)' = Held(n - 1) \cup {n}
  <2>1. Held(n)' = Held(n - 1)' \cup {n}
    BY DEF Held
  <2> QED
    BY <1>2, <2>1
<1>5. Height(n)' = Height(n - 1) + 1
  <2>1. IsFiniteSet(Held(n - 1)) /\ n \notin Held(n - 1)
    <3>1. n - 1 \in Nat
      OBVIOUS
    <3> QED
      BY <3>1, HeightType DEF Held
  <2> QED
    BY <1>4, <2>1, FS_AddElement DEF Height
<1>6. Held(Len(frames))' = Held(n)' /\ Height(Len(frames))' = Height(n)'
  <2>1. \A k \in (n + 1)..Len(frames') : frames'[k].phase \notin Holding
    BY DEF Holding
  <2>2. Held(Len(frames))' = Held(n)'
    BY <1>1, <2>1 DEF Held
  <2> QED
    BY <2>2 DEF Height
<1>7. len = Height(n - 1) /\ \A j \in Held(n - 1) : macro_stack[Height(j)] = frames[j].name
  BY <1>3 DEF StackInv, StackMirrorsCalls, Height
<1>8. ASSUME NEW j \in Nat, j < n
      PROVE  Height(j) \in Nat /\ Height(j) <= len
  BY <1>7, <1>8, HeightType, HeightMonotone
<1>9. /\ Len(macro_stack') = len + 1
      /\ \A k \in 1..len : macro_stack'[k] = macro_stack[k]
      /\ macro_stack'[len + 1] = frames'[n].name
  BY <1>1
<1>10. StackMirrorsCalls'
  <2>1. ASSUME NEW j \in Held(n - 1)
        PROVE  macro_stack'[Height(j)'] = frames'[j].name
    <3>1. j \in 1..(n - 1)
      BY DEF Held
    <3>2. Height(j) \in 1..len
      <4>1. Height(j) = Height(j - 1) + 1
        BY <3>1, HeightNext DEF Held
      <4>2. j \in Nat /\ j - 1 \in Nat
        BY <3>1
      <4>3. Height(j - 1) \in Nat /\ Height(j) \in Nat
        BY <3>1, <4>2, HeightType
      <4> QED
        BY <1>8, <3>1, <4>1, <4>3
    <3> QED
      BY <1>2, <1>7, <1>9, <3>1, <3>2
  <2>2. macro_stack'[Height(n)'] = frames'[n].name
    BY <1>5, <1>7, <1>9
  <2> QED
    BY <1>4, <1>5, <1>6, <1>7, <1>9, <2>1, <2>2 DEF StackMirrorsCalls, Height
<1>11. NoSelfNesting'
  BY <1>1, <1>9 DEF StackInv, NoSelfNesting
<1>12. PendingAreFresh'
  <2> SUFFICES ASSUME NEW j \in 1..Len(frames'), frames'[j].phase \in Pending,
                      NEW k \in 1..Height(j)'
               PROVE  macro_stack'[k] # frames'[j].name
    BY DEF PendingAreFresh
  <2>1. j \in 1..(n - 1)
    BY <1>1 DEF Pending, Holding
  <2>2. Height(j)' = Height(j) /\ Height(j) \in Nat /\ Height(j) <= len
    BY <1>2, <1>8, <2>1
  <2>3. frames[j].phase \in Pending /\ frames'[j].name = frames[j].name
    BY <2>1
  <2>4. macro_stack[k] # frames[j].name
    BY <2>1, <2>2, <2>3 DEF StackInv, PendingAreFresh
  <2> QED
    BY <1>1, <1>9, <2>2, <2>3, <2>4
<1> QED
  BY <1>10, <1>11, <1>12 DEF StackInv

\* A step that ends the expansion of the macro on top of the stack.
LEMMA PopStack ==
    ASSUME TypeInv, TypeInv', StackInv,
           NEW n \in Nat, n = Len(frames), n > 1, Len(frames') = n - 1,
           frames[n].phase \notin Holding, frames[n - 1].phase \in Holding,
           frames'[n - 1].phase = "scan",
           macro_stack' = SubSeq(macro_stack, 1, Len(macro_stack) - 1),
           \A j \in 1..(n - 2) : frames'[j] = frames[j]
    PROVE  StackInv'
<1> DEFINE len == Len(macro_stack)
<1>1. macro_stack \in Seq(Names) /\ len \in Nat
  BY DEF TypeInv, TypeOK
<1>2. \A j \in 0..(n - 2) : Held(j)' = Held(j) /\ Height(j)' = Height(j)
  <2>1. /\ n - 2 \in Nat
        /\ \A k \in 1..(n - 2) : frames'[k].phase \in Holding
                                   <=> frames[k].phase \in Holding
    OBVIOUS
  <2> QED
    BY <2>1, HeldUnchanged
<1>3. Held(n) = Held(n - 2) \cup {n - 1} /\ Height(n) = Height(n - 2) + 1
  <2>1. Held(n) = Held(n - 1) /\ Height(n) = Height(n - 1)
    BY HeightNext
  <2>2. n - 1 \in Nat \ {0} /\ (n - 1) - 1 = n - 2
    OBVIOUS
  <2> QED
    BY <2>1, <2>2, HeightNext
<1>4. Held(n - 1)' = Held(n - 2) /\ Height(n - 1)' = Height(n - 2)
  <2>1. frames'[n - 1].phase \notin Holding
    BY DEF Holding
  <2>2. Held(n - 1)' = Held(n - 2)'
    BY <2>1 DEF Held
  <2> QED
    BY <1>2, <2>2 DEF Height
<1>5. len = Height(n - 2) + 1 /\ \A j \in Held(n - 2) : macro_stack[Height(j)] = frames[j].name
  BY <1>3 DEF StackInv, StackMirrorsCalls, Height
<1>6. ASSUME NEW j \in 0..(n - 2)
      PROVE  Height(j) \in Nat /\ Height(j) <= len - 1
  <2>1. j \in Nat /\ n - 2 \in Nat /\ j <= n - 2
    OBVIOUS
  <2>2. Height(j) \in Nat /\ Height(n - 2) \in Nat /\ Height(j) <= Height(n - 2)
    BY <2>1, HeightType, HeightMonotone
  <2> QED
    BY <1>5, <2>2
<1>7. /\ Len(macro_stack') = len - 1
      /\ \A k \in 1..(len - 1) : macro_stack'[k] = macro_stack[k]
  <2>1. n - 2 \in Nat
    OBVIOUS
  <2>2. len - 1 \in Nat
    BY <1>5, <2>1, HeightType
  <2>3. 1 \in 1..(len + 1) /\ len - 1 \in (1 - 1)..len
    BY <2>2
  <2> HIDE DEF len
  <2>4. macro_stack' = SubSeq(macro_stack, 1, len - 1)
    BY DEF len
  <2>5. Len(macro_stack) = len
    BY DEF len
  <2> QED
    BY <1>1, <2>2, <2>3, <2>4, <2>5, SubSeqProperties
<1>8. StackMirrorsCalls'
  <2>1. ASSUME NEW j \in Held(n - 2)
        PROVE  macro_stack'[Height(j)'] = frames'[j].name
    <3>1. j \in 1..(n - 2)
      BY DEF Held
    <3>2. Height(j) \in 1..(len - 1)
      <4>1. Height(j) = Height(j - 1) + 1
        BY <3>1, HeightNext DEF Held
      <4>2. j \in Nat /\ j - 1 \in Nat
        BY <3>1
      <4>3. Height(j - 1) \in Nat /\ Height(j) \in Nat
        BY <3>1, <4>2, HeightType
      <4> QED
        BY <1>6, <3>1, <4>1, <4>3
    <3> QED
      BY <1>2, <1>5, <1>7, <3>1, <3>2
  <2>2. Held(Len(frames))' = Held(n - 2) /\ Cardinality(Held(n - 2)) = len - 1
    <3>1. n - 2 \in Nat
      OBVIOUS
    <3>2. Height(n - 2) \in Nat
      BY <3>1, HeightType
    <3> QED
      BY <1>4, <1>5, <3>2 DEF Held, Height
  <2> QED
    BY <1>7, <2>1, <2>2 DEF StackMirrorsCalls, Height
<1>9. NoSelfNesting'
  BY <1>1, <1>7 DEF StackInv, NoSelfNesting
<1>10. PendingAreFresh'
  <2> SUFFICES ASSUME NEW j \in 1..Len(frames'), frames'[j].phase \in Pending,
                      NEW k \in 1..Height(j)'
               PROVE  macro_stack'[k] # frames'[j].name
    BY DEF PendingAreFresh
  <2>1. j \in 1..(n - 2)
    BY DEF Pending
  <2> QED
    BY <1>2, <1>6, <1>7, <2>1 DEF StackInv, PendingAreFresh
<1> QED
  BY <1>8, <1>9, <1>10 DEF StackInv

\* The three ways a step changes the activations, seen by the stack.
LEMMA SetTopStack ==
    ASSUME TypeInv, TypeInv', StackInv, macro_stack' = macro_stack,
           NEW f, SetTop(f),
           f.phase \in Holding <=> Top.phase \in Holding,
           f.phase \in Holding => f.name = Top.name,
           f.phase \in Pending =>
              \/ Top.phase \in Pending /\ f.name = Top.name
              \/ ~Cyclic(f.name)
    PROVE  StackInv'
<1> DEFINE n == Len(frames)
<1>1. n \in Nat \ {0} /\ frames \in Seq(Frame)
  BY TopType DEF TypeInv, TypeOK
<1>2. /\ Len(frames') = n /\ frames'[n] = f
      /\ \A j \in 1..(n - 1) : frames'[j] = frames[j]
  BY <1>1 DEF SetTop
<1>3. Height(n) = Len(macro_stack) /\ Top = frames[n]
  BY DEF StackInv, StackMirrorsCalls, Height, Top
<1> HIDE DEF n
<1>4. f.phase \in Pending => \A k \in 1..Height(n) : macro_stack[k] # f.name
  BY <1>1, <1>3 DEF StackInv, PendingAreFresh, Cyclic, n
<1>5. ASSUME NEW j \in 1..n
      PROVE  /\ frames'[j].phase \in Holding <=> frames[j].phase \in Holding
             /\ frames'[j].phase \in Holding => frames'[j].name = frames[j].name
             /\ frames'[j].phase \in Pending =>
                   \A k \in 1..Height(j) : macro_stack[k] # frames'[j].name
  <2>1. CASE j = n
    BY <1>2, <1>3, <1>4, <2>1
  <2>2. CASE j # n
    <3>1. frames'[j] = frames[j]
      BY <1>1, <1>2, <2>2
    <3> QED
      BY <3>1 DEF StackInv, PendingAreFresh, n
  <2> QED
    BY <2>1, <2>2
<1> QED
  BY <1>1, <1>2, <1>5, SameStack DEF n

LEMMA ExpandStack ==
    ASSUME TypeInv, TypeInv', StackInv, NEW f, NEW tokens, Expand(f, tokens)
    PROVE  /\ Len(frames') = Len(frames) + 1
           /\ frames'[Len(frames)] = f
           /\ \A j \in 1..(Len(frames) - 1) : frames'[j] = frames[j]
           /\ frames'[Len(frames) + 1].phase = "scan"
<1>1. Len(frames) \in Nat \ {0} /\ frames \in Seq(Frame)
  BY TopType DEF TypeInv, TypeOK
<1>2. Activation(tokens).phase = "scan"
  BY DEF Activation
<1> QED
  BY <1>1, <1>2 DEF Expand

LEMMA ReturnStack ==
    ASSUME TypeInv, Len(frames) > 1, NEW f, ReturnTo(f)
    PROVE  /\ Len(frames') = Len(frames) - 1
           /\ frames'[Len(frames) - 1] = f
           /\ \A j \in 1..(Len(frames) - 2) : frames'[j] = frames[j]
<1> DEFINE n == Len(frames)
           rest == SubSeq(frames, 1, n - 1)
<1>1. n \in Nat /\ frames \in Seq(Frame)
  BY TopType DEF TypeInv, TypeOK
<1>2. rest \in Seq(Frame) /\ Len(rest) = n - 1 /\ \A j \in 1..(n - 1) : rest[j] = frames[j]
  BY <1>1, SubSeqProperties
<1>3. frames' = [rest EXCEPT ![n - 1] = f]
  BY DEF ReturnTo
<1> HIDE DEF rest
<1> QED
  BY <1>1, <1>2, <1>3

LEMMA StopStack ==
    ASSUME StackInv, frames' = frames, macro_stack' = macro_stack
    PROVE  StackInv'
BY DEF StackInv, StackMirrorsCalls, NoSelfNesting, PendingAreFresh, Height, Held

LEMMA StoreStack ==
    ASSUME TypeInv, TypeInv', StackInv, NEW name, NEW def, NEW last,
           Store(name, def, last)
    PROVE  StackInv'
<1> DEFINE n == Len(frames)
           stale(j) == \/ frames[j].stale
                       \/ /\ j > 1
                          /\ frames[j - 1].phase = "obj"
                          /\ frames[j - 1].name = name
           moved(j, moves) == frames[j].moved \/ (moves /\ frames[j].phase \in {"arg", "last"})
           pos(j) == IF j = n THEN After(frames[j].src, last + 1) ELSE frames[j].pos
           Stored(j, moves) == [frames[j] EXCEPT !.stale = stale(j),
                                                 !.moved = moved(j, moves),
                                                 !.pos = pos(j)]
<1>1. n \in Nat /\ frames \in Seq(Frame)
  BY DEF TypeInv, TypeOK
<1>2. PICK moves \in BOOLEAN :
         /\ frames' = [j \in 1..n |-> Stored(j, moves)]
         /\ macro_stack' = macro_stack
  BY DEF Store
<1> HIDE DEF stale, moved, pos
<1>3. \A j \in 1..n : Stored(j, moves).phase = frames[j].phase
                   /\ Stored(j, moves).name = frames[j].name
  BY <1>1 DEF Frame
<1> HIDE DEF Stored
<1>4. Len(frames') = n
  BY <1>1, <1>2
<1>5. \A j \in 1..n : frames'[j].phase = frames[j].phase /\ frames'[j].name = frames[j].name
  BY <1>2, <1>3
<1>6. \A j \in 1..n : frames'[j].phase \in Pending =>
         \A k \in 1..Height(j) : macro_stack[k] # frames'[j].name
  BY <1>5 DEF StackInv, PendingAreFresh
<1> QED
  BY <1>1, <1>2, <1>4, <1>5, <1>6, SameStack

LEMMA DirectiveStack ==
    ASSUME TypeInv, TypeInv', StackInv, Directive
    PROVE  StackInv'
<1>1. CASE DefineObjlike
  BY <1>1, StoreStack DEF DefineObjlike
<1>2. CASE DefineFnlike
  BY <1>2, StoreStack DEF DefineFnlike
<1>3. CASE BadDefine \/ StepIf \/ BadDirective
  BY <1>3, StopStack DEF BadDefine, StepIf, BadDirective, Stop
<1> QED
  BY <1>1, <1>2, <1>3 DEF Directive

LEMMA StepStack ==
    ASSUME TypeInv, TypeInv', StackInv, Step
    PROVE  StackInv'
<1>1. Top \in Frame /\ Len(frames) \in Nat \ {0} /\ Top = frames[Len(frames)]
  BY StateType DEF Top
<1>2. Top.phase = "scan" \/ PoolExhausted
  BY DEF Step, StepPlain, UseAsPlain, UseObjlike, UseFnlike, AtCall, Reading, Running
<1>3. CASE StepPlain \/ UseAsPlain
  <2> DEFINE g == [Top EXCEPT !.pos = @ + 1]
             h == [Top EXCEPT !.stream = Append(@, Tok), !.pos = @ + 1]
  <2>1. /\ SetTop(g) \/ SetTop(h)
        /\ macro_stack' = macro_stack /\ Top.phase = "scan"
    BY <1>3 DEF StepPlain, UseAsPlain, Emit, Reading, Running
  <2>2. g.phase = "scan" /\ h.phase = "scan"
    BY <1>1, <2>1 DEF Frame
  <2> HIDE DEF g, h
  <2> QED
    BY <2>1, <2>2, SetTopStack DEF Holding, Pending
<1>4. CASE UseFnlike
  <2> DEFINE g == [Top EXCEPT !.phase = "args", !.name = Tok.id, !.pos = @ + 2]
  <2>1. /\ SetTop(g) /\ macro_stack' = macro_stack
        /\ Top.phase = "scan" /\ ~Cyclic(Tok.id)
    BY <1>4 DEF UseFnlike, AtCall, Reading, Running
  <2>2. g.phase = "args" /\ g.name = Tok.id
    BY <1>1 DEF Frame
  <2> HIDE DEF g
  <2> QED
    BY <2>1, <2>2, SetTopStack DEF Holding
<1>5. CASE UseObjlike
  <2> DEFINE n == Len(frames)
             g == [Top EXCEPT !.phase = "obj", !.name = Tok.id, !.pos = @ + 1]
  <2>1. /\ Expand(g, macros[Tok.id].body)
        /\ macro_stack' = Append(macro_stack, Tok.id)
        /\ ~Cyclic(Tok.id) /\ Top.phase = "scan"
    BY <1>5 DEF UseObjlike, Reading, Running
  <2>2. g.phase = "obj" /\ g.name = Tok.id
    BY <1>1 DEF Frame
  <2> HIDE DEF g
  <2>3. /\ Len(frames') = n + 1 /\ frames'[n] = g
        /\ \A j \in 1..(n - 1) : frames'[j] = frames[j]
        /\ frames'[n + 1].phase = "scan"
    BY <2>1, ExpandStack
  <2>4. /\ frames[n].phase \notin Holding /\ frames'[n].phase \in Holding
        /\ frames'[n].name = Tok.id
    BY <1>1, <2>1, <2>2, <2>3 DEF Holding
  <2>5. \A k \in 1..Len(macro_stack) : macro_stack[k] # frames'[n].name
    BY <2>1, <2>4 DEF Cyclic
  <2>6. \A j \in (n + 1)..Len(frames') : frames'[j].phase = "scan"
    BY <1>1, <2>3
  <2> QED
    BY <1>1, <2>1, <2>3, <2>4, <2>5, <2>6, PushStack
<1>6. CASE PoolExhausted
  BY <1>6, StopStack DEF PoolExhausted, Stop
<1> QED
  BY <1>3, <1>4, <1>5, <1>6 DEF Step

\* The innermost activation keeps its phase and its macro.
LEMMA KeepStack ==
    ASSUME TypeInv, TypeInv', StackInv, macro_stack' = macro_stack,
           NEW f, SetTop(f), f.phase = Top.phase, f.name = Top.name
    PROVE  StackInv'
BY SetTopStack

\* It starts to expand tokens, and neither holds more nor less than before.
LEMMA WaitStack ==
    ASSUME TypeInv, TypeInv', StackInv, macro_stack' = macro_stack,
           NEW f, NEW tokens, Expand(f, tokens), f.name = Top.name,
           f.phase \in Holding <=> Top.phase \in Holding,
           f.phase \in Pending => Top.phase \in Pending
    PROVE  StackInv'
<1> DEFINE n == Len(frames)
<1>1. n \in Nat \ {0} /\ Top = frames[n]
  BY StateType DEF Top
<1>2. /\ Len(frames') = n + 1 /\ frames'[n] = f
      /\ \A j \in 1..(n - 1) : frames'[j] = frames[j]
      /\ frames'[n + 1].phase = "scan"
  BY ExpandStack
<1>3. ASSUME NEW j \in 1..n
      PROVE  /\ frames'[j].phase \in Holding <=> frames[j].phase \in Holding
             /\ frames'[j].phase \in Holding => frames'[j].name = frames[j].name
             /\ frames'[j].phase \in Pending =>
                   \A k \in 1..Height(j) : macro_stack[k] # frames'[j].name
  <2>1. CASE j = n
    BY <1>1, <1>2, <2>1 DEF StackInv, PendingAreFresh
  <2>2. CASE j # n
    <3>1. frames'[j] = frames[j]
      BY <1>1, <1>2, <2>2
    <3> QED
      BY <3>1 DEF StackInv, PendingAreFresh
  <2> QED
    BY <2>1, <2>2
<1> QED
  BY <1>1, <1>2, <1>3, SameStack

LEMMA ArgumentsStack ==
    ASSUME TypeInv, TypeInv', StackInv, Arguments
    PROVE  StackInv'
<1>1. Top \in Frame
  BY StateType
<1>2. ASSUME NEW depth, Collect(depth)
      PROVE  StackInv'
  <2> DEFINE g == [Top EXCEPT !.arg = Append(@, Tok), !.depth = depth, !.pos = @ + 1]
  <2>1. SetTop(g) /\ macro_stack' = macro_stack
    BY <1>2 DEF Collect
  <2>2. g.phase = Top.phase /\ g.name = Top.name
    BY <1>1 DEF Frame
  <2> HIDE DEF g
  <2> QED
    BY <2>1, <2>2, KeepStack
<1>3. CASE CollectOpen \/ CollectClose \/ CollectInner \/ CollectPlain
  BY <1>2, <1>3 DEF CollectOpen, CollectClose, CollectInner, CollectPlain
<1>4. CASE CollectEof
  <2> DEFINE arg == IF Top.arg # << >> /\ Top.arg[Len(Top.arg)] = EofToken THEN Top.arg
                    ELSE Append(Top.arg, EofToken)
             g == [Top EXCEPT !.arg = arg]
  <2>1. SetTop(g) /\ macro_stack' = macro_stack
    BY <1>4 DEF CollectEof
  <2> HIDE DEF arg
  <2>2. g.phase = Top.phase /\ g.name = Top.name
    BY <1>1 DEF Frame
  <2> HIDE DEF g
  <2> QED
    BY <2>1, <2>2, KeepStack
<1>5. ASSUME NEW phase \in {"arg", "last"}, PushArg(phase), Top.phase = "args"
      PROVE  StackInv'
  <2> DEFINE param == Callee.argnames[Top.argnum + 1]
             g == [Top EXCEPT !.phase = phase, !.pos = @ + 1, !.argnum = @ + 1,
                              !.param = param]
  <2>1. Expand(g, Top.arg) /\ macro_stack' = macro_stack
    BY <1>5 DEF PushArg
  <2> HIDE DEF param
  <2>2. g.phase = phase /\ g.name = Top.name
    BY <1>1 DEF Frame
  <2> HIDE DEF g
  <2> QED
    BY <1>5, <2>1, <2>2, WaitStack DEF Holding, Pending
<1>6. CASE CommaArg \/ LastArg
  BY <1>5, <1>6 DEF CommaArg, LastArg, AtDelimiter, Collecting, Reading, Running
<1>7. CASE CloseEmpty
  <2> DEFINE g == [Top EXCEPT !.phase = "enter", !.pos = @ + 1]
  <2>1. SetTop(g) /\ macro_stack' = macro_stack /\ Top.phase = "args"
    BY <1>7 DEF CloseEmpty, AtDelimiter, Collecting, Reading, Running
  <2>2. g.phase = "enter" /\ g.name = Top.name
    BY <1>1 DEF Frame
  <2> HIDE DEF g
  <2> QED
    BY <2>1, <2>2, SetTopStack DEF Holding, Pending
<1>8. CASE UnclosedCall \/ ExcessArg \/ ArgMismatch
  BY <1>8, StopStack DEF UnclosedCall, ExcessArg, ArgMismatch, Stop
<1> QED
  BY <1>3, <1>4, <1>6, <1>7, <1>8 DEF Arguments

LEMMA BodyStack ==
    ASSUME TypeInv, TypeInv', StackInv, Body
    PROVE  StackInv'
<1>1. Top \in Frame /\ Len(frames) \in Nat \ {0} /\ Top = frames[Len(frames)]
  BY StateType DEF Top
<1>2. CASE EnterBody
  <2> DEFINE n == Len(frames)
             g == [Top EXCEPT !.phase = "subst", !.todo = Callee.body]
  <2>1. SetTop(g) /\ macro_stack' = Append(macro_stack, Top.name) /\ Top.phase = "enter"
    BY <1>2 DEF EnterBody, Running
  <2>2. g.phase = "subst" /\ g.name = Top.name
    BY <1>1 DEF Frame
  <2> HIDE DEF g
  <2>3. /\ Len(frames') = n /\ frames'[n] = g
        /\ \A j \in 1..(n - 1) : frames'[j] = frames[j]
    <3>1. frames \in Seq(Frame)
      BY StateType
    <3> QED
      BY <1>1, <2>1, <3>1 DEF SetTop
  <2>4. /\ frames[n].phase \notin Holding /\ frames'[n].phase \in Holding
        /\ frames'[n].name = Top.name /\ frames[n].phase \in Pending
    BY <1>1, <2>1, <2>2, <2>3 DEF Holding, Pending
  <2>5. Height(n) = Len(macro_stack)
    BY DEF StackInv, StackMirrorsCalls, Height
  <2>6. n \in 1..n
    BY <1>1
  <2>7. \A k \in 1..Len(macro_stack) : macro_stack[k] # frames'[n].name
    BY <1>1, <2>4, <2>5, <2>6 DEF StackInv, PendingAreFresh
  <2>8. \A j \in (n + 1)..Len(frames') : frames'[j].phase = "scan"
    BY <1>1, <2>3
  <2> QED
    BY <1>1, <2>1, <2>3, <2>4, <2>7, <2>8, PushStack
<1>3. ASSUME NEW k, NEW out, Processed(k, out)
      PROVE  StackInv'
  <2> DEFINE g == [Top EXCEPT !.todo = Rest(@, k), !.buf = @ \o out]
  <2>1. SetTop(g) /\ macro_stack' = macro_stack
    BY <1>3 DEF Processed
  <2>2. g.phase = Top.phase /\ g.name = Top.name
    BY <1>1 DEF Frame
  <2> HIDE DEF g
  <2> QED
    BY <2>1, <2>2, KeepStack
<1>4. CASE Substitute \/ Stringify \/ KeepToken \/ JoinKeyword
  BY <1>3, <1>4, StopStack DEF Substitute, Stringify, KeepToken, JoinKeyword, Stop
<1>5. CASE EndSubst
  <2> DEFINE g == [Top EXCEPT !.phase = "paste", !.todo = Top.buf, !.buf = << >>]
  <2>1. SetTop(g) /\ macro_stack' = macro_stack /\ Top.phase = "subst"
    BY <1>5 DEF EndSubst, Running
  <2>2. g.phase = "paste" /\ g.name = Top.name
    BY <1>1 DEF Frame
  <2> HIDE DEF g
  <2> QED
    BY <2>1, <2>2, SetTopStack DEF Holding, Pending
<1>6. CASE JoinIdent
  <2> DEFINE g == [Top EXCEPT !.todo = <<Ident(Joined)>> \o Rest(@, 3)]
  <2>1. SetTop(g) /\ macro_stack' = macro_stack
    BY <1>6 DEF JoinIdent
  <2>2. g.phase = Top.phase /\ g.name = Top.name
    BY <1>1 DEF Frame
  <2> HIDE DEF g
  <2> QED
    BY <2>1, <2>2, KeepStack
<1>7. CASE Rescan
  <2> DEFINE g == [Top EXCEPT !.phase = "rescan"]
  <2>1. Expand(g, Top.buf) /\ macro_stack' = macro_stack /\ Top.phase = "paste"
    BY <1>7 DEF Rescan, Running
  <2>2. g.phase = "rescan" /\ g.name = Top.name
    BY <1>1 DEF Frame
  <2> HIDE DEF g
  <2> QED
    BY <2>1, <2>2, WaitStack DEF Holding, Pending
<1> QED
  BY <1>2, <1>4, <1>5, <1>6, <1>7 DEF Body

LEMMA ReturnStepStack ==
    ASSUME TypeInv, TypeInv', StackInv, Return
    PROVE  StackInv'
<1> DEFINE n == Len(frames)
<1>1. n \in Nat \ {0} /\ Top = frames[n] /\ Caller = frames[n - 1]
  BY StateType DEF Top, Caller
<1>2. CASE Finish
  BY <1>2, StopStack DEF Finish, Stop
<1>3. ASSUME NEW phase \in {"obj", "rescan"}, ReturnFrom(phase)
      PROVE  StackInv'
  <2> DEFINE g == Resumed(Caller, Top.stream)
  <2>1. /\ n > 1 /\ ReturnTo(g) /\ Caller.phase \in Holding
        /\ Top.phase = "scan"
        /\ macro_stack' = SubSeq(macro_stack, 1, Len(macro_stack) - 1)
    BY <1>3 DEF ReturnFrom, AtEnd, Reading, Running, Holding
  <2>2. g.phase = "scan"
    BY DEF Resumed, Activation
  <2> HIDE DEF g
  <2>3. /\ Len(frames') = n - 1 /\ frames'[n - 1] = g
        /\ \A j \in 1..(n - 2) : frames'[j] = frames[j]
    BY <2>1, ReturnStack
  <2>4. frames[n].phase \notin Holding
    BY <1>1, <2>1 DEF Holding
  <2> QED
    BY <1>1, <2>1, <2>2, <2>3, <2>4, PopStack
<1>4. CASE ReturnArg
  <2> DEFINE phase == IF Caller.phase = "last" THEN "enter" ELSE "args"
             args == [Caller.args EXCEPT ![Caller.param] = Top.stream]
             g == [Caller EXCEPT !.phase = phase, !.args = args, !.arg = << >>]
             m == n - 1
  <2>1. /\ n > 1 /\ Caller.phase \in {"arg", "last"} /\ Top.phase = "scan"
        /\ macro_stack' = macro_stack
    BY <1>4 DEF ReturnArg, AtEnd, Reading, Running
  <2>2. ReturnTo(g)
    BY <1>4 DEF ReturnArg
  <2>3. phase \in {"enter", "args"} /\ m \in 1..n /\ m \in Nat
    BY <1>1, <2>1
  <2>4. Caller \in Frame
    BY <1>1, <2>3, StateType
  <2> HIDE DEF phase, args
  <2>5. g.phase = phase /\ g.name = Caller.name
    BY <2>4 DEF Frame
  <2> HIDE DEF g
  <2>6. /\ Len(frames') = m /\ frames'[m] = g
        /\ \A j \in 1..(n - 2) : frames'[j] = frames[j]
    BY <2>1, <2>2, ReturnStack
  <2>7. ASSUME NEW j \in 1..m
        PROVE  /\ frames'[j].phase \in Holding <=> frames[j].phase \in Holding
               /\ frames'[j].phase \in Holding => frames'[j].name = frames[j].name
               /\ frames'[j].phase \in Pending =>
                     \A k \in 1..Height(j) : macro_stack[k] # frames'[j].name
    <3>1. CASE j = m
      <4>1. frames[j].phase \in Pending /\ frames[j].phase \notin Holding
        BY <1>1, <2>1, <3>1 DEF Pending, Holding
      <4>2. frames'[j].phase \notin Holding /\ frames'[j].name = frames[j].name
        BY <1>1, <2>3, <2>5, <2>6, <3>1 DEF Holding
      <4> QED
        BY <2>3, <3>1, <4>1, <4>2 DEF StackInv, PendingAreFresh
    <3>2. CASE j # m
      <4>1. frames'[j] = frames[j]
        BY <1>1, <2>6, <3>2
      <4> QED
        BY <1>1, <4>1 DEF StackInv, PendingAreFresh
    <3> QED
      BY <3>1, <3>2
  <2>8. \A j \in (m + 1)..n : frames[j].phase \notin Holding
    <3>1. \A j \in (m + 1)..n : j = n
      BY <1>1
    <3> QED
      BY <1>1, <2>1, <3>1 DEF Holding
  <2>9. \A j \in (m + 1)..Len(frames') : frames'[j].phase = "scan"
    BY <1>1, <2>6
  <2> HIDE DEF m
  <2> QED
    BY <2>1, <2>3, <2>6, <2>7, <2>8, <2>9, SameStack
<1> QED
  BY <1>2, <1>3, <1>4 DEF Return, ReturnObj, ReturnRescan

LEMMA InitStackInv == Init => StackInv
<1> SUFFICES ASSUME Init PROVE StackInv
  OBVIOUS
<1>1. PICK tokens \in Programs : frames = <<Activation(tokens)>>
  BY DEF Init
<1>2. Len(frames) = 1 /\ frames[1].phase = "scan" /\ macro_stack = << >>
  BY <1>1 DEF Init, Activation
<1>3. Held(1) = {}
  BY <1>2 DEF Held, Holding
<1>4. Cardinality({}) = 0
  BY FS_EmptySet
<1> QED
  BY <1>2, <1>3, <1>4
     DEF StackInv, StackMirrorsCalls, NoSelfNesting, PendingAreFresh, Pending

LEMMA NextStackInv == TypeInv /\ TypeInv' /\ StackInv /\ [Next]_vars => StackInv'
<1> SUFFICES ASSUME TypeInv, TypeInv', StackInv, [Next]_vars PROVE StackInv'
  OBVIOUS
<1>1. CASE TouchStale
  BY <1>1, StopStack DEF TouchStale, Stop
<1>2. CASE UNCHANGED vars
  BY <1>2, StopStack DEF vars
<1> QED
  BY <1>1, <1>2, DirectiveStack, StepStack, ArgumentsStack, BodyStack,
     ReturnStepStack DEF Next

LEMMA StackInvariant == Spec => []StackInv
<1>1. Init => StackInv
  BY InitStackInv
<1>2. TypeInv /\ TypeInv' /\ StackInv /\ [Next]_vars => StackInv'
  BY NextStackInv
<1> QED
  BY <1>1, <1>2, TypeInvariant, PTL DEF Spec

\* For every program: each push on macro_stack has met its pop whenever the
\* expansion it was made for is over, and none sooner.
THEOREM StackCorrect == Spec => []StackMirrorsCalls
<1>1. StackInv => StackMirrorsCalls
  BY DEF StackInv
<1> QED
  BY <1>1, StackInvariant, PTL

\* For every program: check_cyclic_macros keeps a macro from being expanded
\* inside its own expansion.
THEOREM CyclesAreCut == Spec => []NoSelfNesting
<1>1. StackInv => NoSelfNesting
  BY DEF StackInv
<1> QED
  BY <1>1, StackInvariant, PTL

\* Expansion nests no deeper than there are identifiers: macro_stack, and with it the
\* recursion through macro bodies, is bounded whatever the program.
THEOREM NestingIsBounded ==
    ASSUME IsFiniteSet(Names)
    PROVE  Spec => [](Len(macro_stack) <= Cardinality(Names))
<1>1. ASSUME TypeInv, StackInv PROVE Len(macro_stack) <= Cardinality(Names)
  <2>1. PICK n \in Nat : n = Len(macro_stack)
    BY <1>1, StateType
  <2> DEFINE name == [k \in 1..n |-> macro_stack[k]]
  <2>2. name \in [1..n -> Names]
    BY <1>1, <2>1, StateType
  <2>3. IsFiniteSet(1..n) /\ Cardinality(1..n) = n
    BY FS_Interval
  <2>4. Cardinality(Names) \in Nat
    BY FS_CardinalityType
  <2>5. \A j, k \in 1..n : name[j] = name[k] => j = k
    BY <1>1, <2>1 DEF StackInv, NoSelfNesting
  <2> HIDE DEF name
  <2>6. ~(Cardinality(Names) < n)
    BY <2>2, <2>3, <2>5, FS_PigeonHole
  <2>7. n <= Cardinality(Names)
    BY <2>4, <2>6
  <2> QED
    BY <2>1, <2>7
<1> QED
  BY <1>1, TypeInvariant, StackInvariant, PTL
-----------------------------------------------------------------------------
(* Directives are not copied: where a # could pass from one activation to   *)
(* another on its way to the output.                                        *)

\* What an activation has put out, or bound to a parameter, or pastes, is free of #;
\* only a source, an argument not yet expanded and a body may contain it.
IsClean(f) ==
    /\ ~HasHash(f.stream) /\ ~HasHash(f.buf)
    /\ \A n \in Names : f.args[n] # None => ~HasHash(f.args[n])
    /\ f.phase = "paste" => ~HasHash(f.todo)

CleanInv == NoDirectiveInOutput /\ \A j \in 1..Len(frames) : IsClean(frames[j])

\* What sequences that are made of others contain.
LEMMA HashOf ==
    ASSUME NEW s \in Seq(Token), NEW t \in Seq(Token), ~HasHash(s), ~HasHash(t)
    PROVE  ~HasHash(s \o t)
BY DEF HasHash

LEMMA HashOne ==
    ASSUME NEW t \in Token, t.kind # "HASH"
    PROVE  <<t>> \in Seq(Token) /\ ~HasHash(<<t>>)
BY DEF HasHash

LEMMA HashAppend ==
    ASSUME NEW s \in Seq(Token), NEW t \in Token, ~HasHash(s), t.kind # "HASH"
    PROVE  ~HasHash(Append(s, t))
BY DEF HasHash

LEMMA HashRest ==
    ASSUME NEW s \in Seq(Token), NEW k \in Nat, ~HasHash(s)
    PROVE  Rest(s, k) \in Seq(Token) /\ ~HasHash(Rest(s, k))
<1>1. Len(s) \in Nat /\ k + 1 \in Nat \ {0}
  OBVIOUS
<1>2. Rest(s, k) \in Seq(Token)
  BY <1>1, SubSeqProperties DEF Rest
<1>3. \A i \in 1..Len(Rest(s, k)) : i + k \in 1..Len(s) /\ Rest(s, k)[i] = s[i + k]
  <2> TAKE i \in 1..Len(Rest(s, k))
  <2> QED
    BY <1>1, SubSeqProperties DEF Rest
<1> QED
  BY <1>2, <1>3 DEF HasHash

LEMMA HashEmpty == ~HasHash(<< >>)
BY DEF HasHash

LEMMA CleanActivation ==
    ASSUME NEW tokens \in Seq(Token)
    PROVE  IsClean(Activation(tokens)) /\ Activation(tokens).src = tokens
BY HashEmpty DEF Activation, IsClean, NoArgs

LEMMA CleanTop ==
    ASSUME TypeInv, CleanInv
    PROVE  IsClean(Top) /\ Top = frames[Len(frames)]
BY StateType DEF CleanInv, Top

\* The ways a step changes the activations.
LEMMA SetTopClean ==
    ASSUME TypeInv, CleanInv, NEW f \in Frame, SetTop(f), IsClean(f), f.src = Top.src
    PROVE  CleanInv'
<1>1. /\ Len(frames) \in Nat \ {0} /\ Len(frames') = Len(frames)
      /\ \A j \in 1..(Len(frames) - 1) : frames'[j] = frames[j]
      /\ frames'[Len(frames)] = f
  BY StateType, SetTopEffect DEF TypeInv, TypeOK
<1>2. \A j \in 1..Len(frames) : IsClean(frames'[j]) /\ frames'[j].src = frames[j].src
  BY <1>1 DEF CleanInv, Top
<1>3. \A j \in 1..Len(frames) : ~HasHash(frames'[j].stream)
  BY <1>2 DEF IsClean
<1>4. \A j \in 1..Len(frames) : j > 1 => j - 1 \in 1..(Len(frames) - 1)
  BY <1>1
<1>5. \A j \in 1..Len(frames) :
         j > 1 /\ frames'[j - 1].phase = "rescan" => ~HasHash(frames'[j].src)
  BY <1>1, <1>2, <1>4 DEF CleanInv, NoDirectiveInOutput
<1> QED
  BY <1>1, <1>2, <1>3, <1>5 DEF CleanInv, NoDirectiveInOutput

LEMMA ExpandClean ==
    ASSUME TypeInv, CleanInv, NEW f \in Frame, NEW tokens \in Seq(Token), Expand(f, tokens),
           IsClean(f), f.src = Top.src, f.phase = "rescan" => ~HasHash(tokens)
    PROVE  CleanInv'
<1> DEFINE n == Len(frames)
<1>1. /\ n \in Nat \ {0} /\ Len(frames') = n + 1
      /\ \A j \in 1..(n - 1) : frames'[j] = frames[j]
      /\ frames'[n] = f /\ frames'[n + 1] = Activation(tokens)
  BY StateType, ExpandEffect DEF TypeInv, TypeOK
<1>2. \A j \in 1..n : IsClean(frames'[j]) /\ frames'[j].src = frames[j].src
  BY <1>1 DEF CleanInv, Top
<1>3. IsClean(frames'[n + 1]) /\ frames'[n + 1].src = tokens
  BY <1>1, CleanActivation
<1>4. \A j \in 1..(n + 1) : IsClean(frames'[j])
  BY <1>1, <1>2, <1>3
<1>5. \A j \in 1..(n + 1) : ~HasHash(frames'[j].stream)
  BY <1>4 DEF IsClean
<1>6. \A j \in 1..(n + 1) :
         j > 1 /\ frames'[j - 1].phase = "rescan" => ~HasHash(frames'[j].src)
  <2> TAKE j \in 1..(n + 1)
  <2>1. CASE j = n + 1
    BY <1>1, <1>3, <2>1
  <2>2. CASE j \in 1..n /\ j > 1
    <3>1. j - 1 \in 1..(n - 1)
      BY <1>1, <2>2
    <3> QED
      BY <1>1, <1>2, <2>2, <3>1 DEF CleanInv, NoDirectiveInOutput
  <2> QED
    BY <1>1, <2>1, <2>2
<1> QED
  BY <1>1, <1>4, <1>5, <1>6 DEF CleanInv, NoDirectiveInOutput

LEMMA ReturnClean ==
    ASSUME TypeInv, CleanInv, Len(frames) > 1, NEW f \in Frame, ReturnTo(f),
           IsClean(f), f.src = Caller.src
    PROVE  CleanInv'
<1> DEFINE n == Len(frames)
<1>1. /\ n \in Nat /\ n > 1 /\ Len(frames') = n - 1
      /\ \A j \in 1..(n - 2) : frames'[j] = frames[j]
      /\ frames'[n - 1] = f
  BY StateType, ReturnEffect DEF TypeInv, TypeOK
<1>2. \A j \in 1..(n - 1) : IsClean(frames'[j]) /\ frames'[j].src = frames[j].src
  BY <1>1 DEF CleanInv, Caller
<1>3. \A j \in 1..(n - 1) : ~HasHash(frames'[j].stream)
  BY <1>2 DEF IsClean
<1>4. \A j \in 1..(n - 1) : j > 1 => j - 1 \in 1..(n - 2)
  BY <1>1
<1>5. \A j \in 1..(n - 1) :
         j > 1 /\ frames'[j - 1].phase = "rescan" => ~HasHash(frames'[j].src)
  BY <1>1, <1>2, <1>4 DEF CleanInv, NoDirectiveInOutput
<1> QED
  BY <1>1, <1>2, <1>3, <1>5 DEF CleanInv, NoDirectiveInOutput

LEMMA SameClean ==
    ASSUME CleanInv, UNCHANGED frames
    PROVE  CleanInv'
BY DEF CleanInv, NoDirectiveInOutput

\* A definition changes nothing of an activation that CleanInv speaks of.
LEMMA StoreClean ==
    ASSUME TypeInv, CleanInv, NEW name, NEW def, NEW last, Store(name, def, last)
    PROVE  CleanInv'
<1>1. \A j \in 1..Len(frames) : frames[j] \in Frame
  BY StateType
<1>2. /\ Len(frames') = Len(frames)
      /\ \A j \in 1..Len(frames) :
            /\ frames'[j].src = frames[j].src /\ frames'[j].stream = frames[j].stream
            /\ frames'[j].buf = frames[j].buf /\ frames'[j].args = frames[j].args
            /\ frames'[j].phase = frames[j].phase /\ frames'[j].todo = frames[j].todo
  <2> DEFINE Stored(j, moves) ==
        [frames[j] EXCEPT
           !.stale = \/ @
                     \/ /\ j > 1
                        /\ frames[j - 1].phase = "obj"
                        /\ frames[j - 1].name = name,
           !.moved = @ \/ (moves /\ frames[j].phase \in {"arg", "last"}),
           !.pos = IF j = Len(frames) THEN After(frames[j].src, last + 1) ELSE @]
  <2>1. PICK moves \in BOOLEAN :
           /\ macros' = [macros EXCEPT ![name] = def]
           /\ frames' = [j \in 1..Len(frames) |-> Stored(j, moves)]
           /\ UNCHANGED <<macro_stack, max_used, status>>
    BY DEF Store
  <2>2. ASSUME NEW j \in 1..Len(frames)
        PROVE  /\ Stored(j, moves).src = frames[j].src
               /\ Stored(j, moves).stream = frames[j].stream
               /\ Stored(j, moves).buf = frames[j].buf /\ Stored(j, moves).args = frames[j].args
               /\ Stored(j, moves).phase = frames[j].phase
               /\ Stored(j, moves).todo = frames[j].todo
    BY <1>1 DEF Frame
  <2> HIDE DEF Stored
  <2>3. Len(frames) \in Nat
    BY StateType
  <2> QED
    BY <2>1, <2>2, <2>3
<1>3. \A j \in 1..Len(frames) : IsClean(frames'[j])
  BY <1>2 DEF CleanInv, IsClean
<1>4. \A j \in 1..Len(frames) : j > 1 => j - 1 \in 1..Len(frames)
  BY StateType
<1> QED
  BY <1>2, <1>3, <1>4 DEF CleanInv, NoDirectiveInOutput

\* The actions.
LEMMA StepClean == TypeInv /\ CleanInv /\ Step => CleanInv'
<1> SUFFICES ASSUME TypeInv, CleanInv, Step PROVE CleanInv'
  OBVIOUS
<1>1. /\ Top \in Frame /\ Tok \in Token /\ IsClean(Top)
      /\ Tok.kind = "IDENT" => Tok.id \in Names
      /\ macros \in [Names -> MacroDef \cup {None}]
  BY TopType, StateType, CleanTop
<1>2. ASSUME Emit, Tok.kind # "HASH", Top.phase = "scan" PROVE CleanInv'
  <2> DEFINE out == Append(Top.stream, Tok)
             pos == Top.pos + 1
             g == [Top EXCEPT !.stream = out, !.pos = pos]
  <2>1. out \in Seq(Token) /\ pos \in Nat /\ SetTop(g) /\ ~HasHash(out)
    BY <1>1, <1>2, HashAppend DEF Frame, Emit, IsClean
  <2> HIDE DEF out, pos
  <2>2. g \in Frame /\ g.src = Top.src /\ g.phase = "scan" /\ g.stream = out
        /\ g.buf = Top.buf /\ g.args = Top.args
    BY <1>1, <1>2, <2>1 DEF Frame
  <2> HIDE DEF g
  <2>3. IsClean(g)
    BY <1>1, <2>1, <2>2 DEF IsClean
  <2> QED
    BY <2>1, <2>2, <2>3, SetTopClean
<1>3. CASE StepPlain
  <2>1. CASE Tok.kind = "NL"
    <3> DEFINE pos == Top.pos + 1
               g == [Top EXCEPT !.pos = pos]
    <3>1. pos \in Nat /\ SetTop(g)
      BY <1>1, <1>3, <2>1 DEF StepPlain, Frame
    <3> HIDE DEF pos
    <3>2. g \in Frame /\ g.src = Top.src /\ IsClean(g)
      BY <1>1, <3>1 DEF Frame, IsClean
    <3> HIDE DEF g
    <3> QED
      BY <3>1, <3>2, SetTopClean
  <2>2. CASE Tok.kind # "NL"
    BY <1>2, <1>3, <2>2 DEF StepPlain, Reading, Running
  <2> QED
    BY <2>1, <2>2
<1>4. CASE UseAsPlain
  BY <1>2, <1>4 DEF UseAsPlain, IsMacro, Reading, Running
<1>5. CASE UseObjlike
  <2> DEFINE pos == Top.pos + 1
             g == [Top EXCEPT !.phase = "obj", !.name = Tok.id, !.pos = pos]
  <2>1. /\ pos \in Nat /\ Tok.id \in Names /\ macros[Tok.id].body \in Seq(Token)
        /\ Expand(g, macros[Tok.id].body)
    BY <1>1, <1>5 DEF UseObjlike, IsMacro, MacroDef, Frame
  <2> HIDE DEF pos
  <2>2. g \in Frame /\ g.src = Top.src /\ g.phase = "obj" /\ g.stream = Top.stream
        /\ g.buf = Top.buf /\ g.args = Top.args
    BY <1>1, <2>1 DEF Frame, Phases
  <2> HIDE DEF g
  <2>3. IsClean(g)
    BY <1>1, <2>2 DEF IsClean
  <2> QED
    BY <2>1, <2>2, <2>3, ExpandClean
<1>6. CASE UseFnlike
  <2> DEFINE pos == Top.pos + 2
             g == [Top EXCEPT !.phase = "args", !.name = Tok.id, !.pos = pos]
  <2>1. pos \in Nat /\ Tok.id \in Names /\ SetTop(g)
    BY <1>1, <1>6 DEF UseFnlike, AtCall, IsMacro, Frame
  <2> HIDE DEF pos
  <2>2. g \in Frame /\ g.src = Top.src /\ g.phase = "args" /\ g.stream = Top.stream
        /\ g.buf = Top.buf /\ g.args = Top.args
    BY <1>1, <2>1 DEF Frame, Phases
  <2> HIDE DEF g
  <2>3. IsClean(g)
    BY <1>1, <2>2 DEF IsClean
  <2> QED
    BY <2>1, <2>2, <2>3, SetTopClean
<1>7. CASE PoolExhausted
  BY <1>7, SameClean DEF PoolExhausted, Stop
<1> QED
  BY <1>3, <1>4, <1>5, <1>6, <1>7 DEF Step

LEMMA ArgumentsClean == TypeInv /\ CleanInv /\ Arguments => CleanInv'
<1> SUFFICES ASSUME TypeInv, CleanInv, Arguments PROVE CleanInv'
  OBVIOUS
<1>1. Top \in Frame /\ Tok \in Token /\ IsClean(Top)
  BY StateType, TopType, CleanTop
<1>2. ASSUME NEW depth \in Nat, Collect(depth), Top.phase = "args" PROVE CleanInv'
  <2> DEFINE arg == Append(Top.arg, Tok)
             pos == Top.pos + 1
             g == [Top EXCEPT !.arg = arg, !.depth = depth, !.pos = pos]
  <2>1. arg \in Seq(Token) /\ pos \in Nat /\ SetTop(g)
    BY <1>1, <1>2 DEF Frame, Collect
  <2> HIDE DEF arg, pos
  <2>2. g \in Frame /\ g.src = Top.src /\ IsClean(g)
    BY <1>1, <2>1 DEF Frame, IsClean
  <2> HIDE DEF g
  <2> QED
    BY <2>1, <2>2, SetTopClean
<1>3. CASE CollectOpen \/ CollectClose \/ CollectInner \/ CollectPlain
  <2>1. Top.depth \in Nat
    BY <1>1 DEF Frame
  <2> QED
    BY <1>2, <1>3, <2>1 DEF CollectOpen, CollectClose, CollectInner, CollectPlain, Collecting,
                            Reading, Running
<1>4. CASE CollectEof
  <2> DEFINE arg == IF Top.arg # << >> /\ Top.arg[Len(Top.arg)] = EofToken THEN Top.arg
                    ELSE Append(Top.arg, EofToken)
             g == [Top EXCEPT !.arg = arg]
  <2>1. SetTop(g) /\ arg \in Seq(Token)
    <3>1. EofToken \in Token /\ Top.arg \in Seq(Token)
      BY <1>1, SimpleType DEF EofToken, Kinds, Frame
    <3> QED
      BY <1>4, <3>1 DEF CollectEof
  <2> HIDE DEF arg
  <2>2. g \in Frame /\ g.src = Top.src /\ IsClean(g)
    BY <1>1, <2>1 DEF Frame, IsClean
  <2> HIDE DEF g
  <2> QED
    BY <2>1, <2>2, SetTopClean
<1>5. ASSUME NEW phase \in {"arg", "last"}, PushArg(phase), Top.phase = "args",
             Callee.argnames[Top.argnum + 1] \in Names
      PROVE  CleanInv'
  <2> DEFINE pos == Top.pos + 1
             num == Top.argnum + 1
             param == Callee.argnames[Top.argnum + 1]
             g == [Top EXCEPT !.phase = phase, !.pos = pos, !.argnum = num, !.param = param]
  <2>1. /\ pos \in Nat /\ num \in Nat /\ param \in Names /\ Top.arg \in Seq(Token)
        /\ Expand(g, Top.arg)
    BY <1>1, <1>5 DEF Frame, PushArg
  <2> HIDE DEF pos, num, param
  <2>2. g \in Frame /\ g.src = Top.src /\ g.phase = phase /\ g.stream = Top.stream
        /\ g.buf = Top.buf /\ g.args = Top.args
    BY <1>1, <2>1 DEF Frame, Phases
  <2> HIDE DEF g
  <2>3. IsClean(g)
    BY <1>1, <2>2 DEF IsClean
  <2> QED
    BY <2>1, <2>2, <2>3, ExpandClean
<1>6. CASE CommaArg \/ LastArg
  <2>1. Top.phase = "args"
    BY <1>6 DEF CommaArg, LastArg, AtDelimiter, Collecting, Reading, Running
  <2>2. Callee \in MacroDef /\ Top.argnum \in Nat
    BY <1>1, <2>1, StateType DEF Frame
  <2>5. Callee.argnames \in Seq(Names) /\ Len(Callee.argnames) \in Nat
    BY <2>2 DEF MacroDef
  <2>3. Top.argnum + 1 \in 1..Len(Callee.argnames)
    BY <1>6, <2>2, <2>5 DEF CommaArg, LastArg
  <2>4. Callee.argnames[Top.argnum + 1] \in Names
    BY <2>3, <2>5
  <2> QED
    BY <1>5, <1>6, <2>1, <2>4 DEF CommaArg, LastArg
<1>7. CASE CloseEmpty
  <2> DEFINE pos == Top.pos + 1
             g == [Top EXCEPT !.phase = "enter", !.pos = pos]
  <2>1. pos \in Nat /\ SetTop(g)
    BY <1>1, <1>7 DEF CloseEmpty, Frame
  <2> HIDE DEF pos
  <2>2. g \in Frame /\ g.src = Top.src /\ IsClean(g)
    BY <1>1, <2>1 DEF Frame, Phases, IsClean
  <2> HIDE DEF g
  <2> QED
    BY <2>1, <2>2, SetTopClean
<1>8. CASE UnclosedCall \/ ExcessArg \/ ArgMismatch
  BY <1>8, SameClean DEF UnclosedCall, ExcessArg, ArgMismatch, Stop
<1> QED
  BY <1>3, <1>4, <1>6, <1>7, <1>8 DEF Arguments

LEMMA BodyClean == TypeInv /\ CleanInv /\ Body => CleanInv'
<1> SUFFICES ASSUME TypeInv, CleanInv, Body PROVE CleanInv'
  OBVIOUS
<1>1. /\ Top \in Frame /\ IsClean(Top) /\ Top.todo \in Seq(Token) /\ Top.buf \in Seq(Token)
      /\ Top.args \in [Names -> Seq(Token) \cup {None}]
      /\ ~HasHash(Top.buf) /\ (Top.phase = "paste" => ~HasHash(Top.todo))
  BY StateType, CleanTop DEF Frame, IsClean
<1>2. CASE EnterBody
  <2> DEFINE g == [Top EXCEPT !.phase = "subst", !.todo = Callee.body]
  <2>1. SetTop(g) /\ Callee.body \in Seq(Token)
    BY <1>2, StateType DEF EnterBody, Running, MacroDef
  <2>2. g \in Frame /\ g.src = Top.src /\ IsClean(g)
    BY <1>1, <2>1 DEF Frame, Phases, IsClean
  <2> HIDE DEF g
  <2> QED
    BY <2>1, <2>2, SetTopClean
<1>3. ASSUME NEW k \in Nat, NEW out \in Seq(Token), Processed(k, out), ~HasHash(out)
      PROVE  CleanInv'
  <2> DEFINE todo == Rest(Top.todo, k)
             buf == Top.buf \o out
             g == [Top EXCEPT !.todo = todo, !.buf = buf]
  <2>1. SetTop(g)
    BY <1>3 DEF Processed
  <2>2. buf \in Seq(Token) /\ ~HasHash(buf)
    BY <1>1, <1>3, HashOf, ConcatProperties
  <2>3. todo \in Seq(Token) /\ (Top.phase = "paste" => ~HasHash(todo))
    <3>1. Len(Top.todo) \in Nat /\ k + 1 \in Nat \ {0}
      BY <1>1
    <3>2. todo \in Seq(Token)
      BY <1>1, <3>1, SubSeqProperties DEF Rest
    <3> QED
      BY <1>1, <3>2, HashRest
  <2> HIDE DEF todo, buf
  <2>4. g \in Frame /\ g.src = Top.src /\ g.phase = Top.phase /\ g.stream = Top.stream
        /\ g.buf = buf /\ g.args = Top.args /\ g.todo = todo
    BY <1>1, <2>2, <2>3 DEF Frame
  <2> HIDE DEF g
  <2>5. IsClean(g)
    BY <1>1, <2>2, <2>3, <2>4 DEF IsClean
  <2> QED
    BY <2>1, <2>4, <2>5, SetTopClean
<1>4. ASSUME Top.todo # << >>
      PROVE  Head(Top.todo) \in Token /\ Head(Top.todo) = Top.todo[1] /\ 1 \in 1..Len(Top.todo)
  BY <1>1, <1>4
<1>5. CASE Substitute
  <2> DEFINE t == Head(Top.todo)
  <2>1. t \in Token /\ t.kind # "HASH"
    BY <1>4, <1>5 DEF Substitute
  <2>2. CASE IsParam(t)
    <3>1. t.id \in Names /\ Top.args[t.id] # None
      BY <2>1, <2>2 DEF IsParam, Token
    <3>2. Top.args[t.id] \in Seq(Token) /\ ~HasHash(Top.args[t.id])
      BY <1>1, <3>1 DEF IsClean
    <3> QED
      BY <1>3, <1>5, <2>2, <3>2 DEF Substitute
  <2>3. CASE ~IsParam(t)
    <3>1. <<t>> \in Seq(Token) /\ ~HasHash(<<t>>)
      BY <2>1, HashOne
    <3> QED
      BY <1>3, <1>5, <2>3, <3>1 DEF Substitute
  <2> QED
    BY <2>2, <2>3
<1>6. CASE Stringify
  <2>1. Simple("VAL") \in Token /\ Simple("VAL").kind # "HASH"
    BY SimpleType DEF Kinds, Simple
  <2>2. <<Simple("VAL")>> \in Seq(Token) /\ ~HasHash(<<Simple("VAL")>>)
    BY <2>1, HashOne
  <2> QED
    BY <1>3, <1>6, <2>2, SameClean DEF Stringify, Stop
<1>7. CASE EndSubst
  <2> DEFINE nil == << >>
             g == [Top EXCEPT !.phase = "paste", !.todo = Top.buf, !.buf = nil]
  <2>1. SetTop(g) /\ nil \in Seq(Token) /\ ~HasHash(nil)
    BY <1>7, HashEmpty DEF EndSubst
  <2> HIDE DEF nil
  <2>2. g \in Frame /\ g.src = Top.src /\ g.stream = Top.stream
        /\ g.buf = nil /\ g.args = Top.args /\ g.todo = Top.buf
    BY <1>1, <2>1 DEF Frame, Phases
  <2> HIDE DEF g
  <2>3. IsClean(g)
    BY <1>1, <2>1, <2>2 DEF IsClean
  <2> QED
    BY <2>1, <2>2, <2>3, SetTopClean
<1>8. CASE KeepToken
  <2>1. Top.phase = "paste" /\ Top.todo # << >>
    BY <1>8 DEF KeepToken, Running
  <2>2. Head(Top.todo) \in Token /\ Head(Top.todo).kind # "HASH"
    BY <1>1, <1>4, <2>1 DEF HasHash
  <2>3. <<Head(Top.todo)>> \in Seq(Token) /\ ~HasHash(<<Head(Top.todo)>>)
    BY <2>2, HashOne
  <2> QED
    BY <1>3, <1>8, <2>3 DEF KeepToken
<1>9. CASE JoinIdent
  <2> DEFINE todo == <<Ident(Joined)>> \o Rest(Top.todo, 3)
             g == [Top EXCEPT !.todo = todo]
  <2>1. SetTop(g) /\ Top.phase = "paste"
    BY <1>9 DEF JoinIdent, Running
  <2>2. /\ Top.todo[1] \in Token /\ Top.todo[3] \in Token
        /\ Top.todo[1].kind = "IDENT" /\ Top.todo[3].kind = "IDENT"
    BY <1>1, <1>9 DEF JoinIdent, Joins, PasteAt
  <2>3. Joined \in Names
    BY <1>9, <2>2, ConcatAssumption DEF JoinIdent, Joined, Token
  <2>4. Ident(Joined) \in Token /\ Ident(Joined).kind # "HASH"
    BY <2>3, IdentType DEF Ident
  <2>5. <<Ident(Joined)>> \in Seq(Token) /\ ~HasHash(<<Ident(Joined)>>)
    BY <2>4, HashOne
  <2>6. Rest(Top.todo, 3) \in Seq(Token) /\ ~HasHash(Rest(Top.todo, 3))
    BY <1>1, <2>1, HashRest
  <2>7. todo \in Seq(Token) /\ ~HasHash(todo)
    BY <2>5, <2>6, HashOf, ConcatProperties
  <2> HIDE DEF todo
  <2>8. g \in Frame /\ g.src = Top.src /\ g.stream = Top.stream
        /\ g.buf = Top.buf /\ g.args = Top.args /\ g.todo = todo
    BY <1>1, <2>7 DEF Frame
  <2> HIDE DEF g
  <2>9. IsClean(g)
    BY <1>1, <2>7, <2>8 DEF IsClean
  <2> QED
    BY <2>1, <2>8, <2>9, SetTopClean
<1>10. CASE JoinKeyword
  <2>1. Simple("OP") \in Token /\ Simple("OP").kind # "HASH"
    BY SimpleType DEF Kinds, Simple
  <2>2. <<Simple("OP")>> \in Seq(Token) /\ ~HasHash(<<Simple("OP")>>)
    BY <2>1, HashOne
  <2> QED
    BY <1>3, <1>10, <2>2, SameClean DEF JoinKeyword, Stop
<1>11. CASE Rescan
  <2> DEFINE g == [Top EXCEPT !.phase = "rescan"]
  <2>1. Expand(g, Top.buf)
    BY <1>11 DEF Rescan
  <2>2. g \in Frame /\ g.src = Top.src /\ g.phase = "rescan" /\ g.stream = Top.stream
        /\ g.buf = Top.buf /\ g.args = Top.args
    BY <1>1 DEF Frame, Phases
  <2> HIDE DEF g
  <2>3. IsClean(g)
    BY <1>1, <2>2 DEF IsClean
  <2> QED
    BY <1>1, <2>1, <2>2, <2>3, ExpandClean
<1> QED
  BY <1>2, <1>5, <1>6, <1>7, <1>8, <1>9, <1>10, <1>11 DEF Body

LEMMA ReturnStepClean == TypeInv /\ CleanInv /\ Return => CleanInv'
<1> SUFFICES ASSUME TypeInv, CleanInv, Return PROVE CleanInv'
  OBVIOUS
<1>1. CASE Finish
  BY <1>1, SameClean DEF Finish, Stop
<1>2. /\ Top \in Frame /\ Top.stream \in Seq(Token) /\ ~HasHash(Top.stream)
      /\ Len(frames) \in Nat
  BY StateType, CleanTop DEF Frame, IsClean
<1>3. ASSUME Len(frames) > 1
      PROVE  /\ Caller \in Frame /\ Caller.stream \in Seq(Token) /\ ~HasHash(Caller.stream)
             /\ Caller.src \in Seq(Token) /\ IsClean(Caller)
  <2>1. Len(frames) - 1 \in 1..Len(frames)
    BY <1>2, <1>3
  <2>2. Caller \in Frame /\ IsClean(Caller)
    BY <2>1, StateType DEF Caller, CleanInv
  <2> QED
    BY <2>2 DEF Frame, IsClean
<1>4. ASSUME NEW phase, ReturnFrom(phase) PROVE CleanInv'
  <2> DEFINE g == Resumed(Caller, Top.stream)
  <2>1. Len(frames) > 1 /\ ReturnTo(g)
    BY <1>4 DEF ReturnFrom
  <2>2. g \in Frame /\ g.phase = "scan"
    BY <1>2, <1>3, <2>1, ResumedType
  <2>3. g.src = Caller.src /\ g.stream = Caller.stream \o Top.stream /\ g.buf = << >> /\ g.args = NoArgs
    BY DEF Resumed, Activation
  <2>4. ~HasHash(g.stream)
    BY <1>2, <1>3, <2>1, <2>3, HashOf
  <2> HIDE DEF g
  <2>5. IsClean(g)
    BY <2>2, <2>3, <2>4, HashEmpty DEF IsClean, NoArgs
  <2> QED
    BY <2>1, <2>2, <2>3, <2>5, ReturnClean
<1>5. CASE ReturnArg
  <2> DEFINE phase == IF Caller.phase = "last" THEN "enter" ELSE "args"
             args == [Caller.args EXCEPT ![Caller.param] = Top.stream]
             nil == << >>
             g == [Caller EXCEPT !.phase = phase, !.args = args, !.arg = nil]
  <2>1. Len(frames) > 1 /\ ReturnTo(g) /\ phase \in {"enter", "args"} /\ nil \in Seq(Token)
    BY <1>5 DEF ReturnArg
  <2>2. Caller.args \in [Names -> Seq(Token) \cup {None}]
    BY <1>3, <2>1 DEF Frame
  <2>3. /\ args \in [Names -> Seq(Token) \cup {None}]
        /\ \A n \in Names : args[n] = Top.stream \/ args[n] = Caller.args[n]
    BY <1>2, <2>2
  <2> HIDE DEF phase, args, nil
  <2>4. g \in Frame /\ g.src = Caller.src /\ g.phase = phase /\ g.stream = Caller.stream
        /\ g.buf = Caller.buf /\ g.args = args
    BY <1>3, <2>1, <2>3 DEF Frame, Phases
  <2> HIDE DEF g
  <2>5. IsClean(g)
    BY <1>2, <1>3, <2>1, <2>3, <2>4 DEF IsClean
  <2> QED
    BY <2>1, <2>4, <2>5, ReturnClean
<1> QED
  BY <1>1, <1>4, <1>5 DEF Return, ReturnObj, ReturnRescan

LEMMA CleanInvariant == Spec => []CleanInv
<1>1. Init => CleanInv
  <2> SUFFICES ASSUME Init PROVE CleanInv
    OBVIOUS
  <2>1. PICK tokens \in Programs : frames = <<Activation(tokens)>>
    BY DEF Init
  <2>2. IsClean(Activation(tokens))
    BY ProgramsAssumption, CleanActivation
  <2>3. Len(frames) = 1 /\ IsClean(frames[1])
    BY <2>1, <2>2
  <2> QED
    BY <2>3 DEF CleanInv, NoDirectiveInOutput, IsClean
<1>2. TypeInv /\ CleanInv /\ [Next]_vars => CleanInv'
  <2> SUFFICES ASSUME TypeInv, CleanInv, [Next]_vars PROVE CleanInv'
    OBVIOUS
  <2>1. CASE Directive
    <3>1. CASE BadDefine \/ StepIf \/ BadDirective
      BY <3>1, SameClean DEF BadDefine, StepIf, BadDirective, Stop
    <3> QED
      BY <2>1, <3>1, StoreClean DEF Directive, DefineObjlike, DefineFnlike
  <2>2. CASE TouchStale \/ UNCHANGED vars
    BY <2>2, SameClean DEF TouchStale, Stop, vars
  <2> QED
    BY <2>1, <2>2, StepClean, ArgumentsClean, BodyClean, ReturnStepClean DEF Next
<1> QED
  BY <1>1, <1>2, TypeInvariant, PTL DEF Spec

\* For every program: a # is obeyed, stringifies or is refused; none reaches the
\* parser, or the rescanning of a body (preprocess_2.c, pp2_macro.c:308-309).
THEOREM DirectivesStayInside == Spec => []NoDirectiveInOutput
<1>1. CleanInv => NoDirectiveInOutput
  BY DEF CleanInv
<1> QED
  BY <1>1, CleanInvariant, PTL
-----------------------------------------------------------------------------
(* Nothing freed is read.  A definition frees or moves what an activation   *)
(* still reads only when it stands inside a body or a call: where the       *)
(* program's # defines are, and that bodies and arguments are slices of it, *)
(* is what the invariant follows through the activations.                   *)

NoDirectiveIn(tokens, first, last) == \A k \in first..last : ~IsDirective(tokens, k)

Quiet(tokens) == NoDirectiveIn(tokens, 1, Len(tokens))

\* The argument that f collects is its source from `first` on, and behind the end of
\* the source one TOK_EOF.
Gathered(f, first) ==
    \/ f.arg = SubSeq(f.src, first, f.pos - 1)
    \/ /\ TokenAt(f.src, f.pos).kind = "EOF"
       /\ f.arg = Append(SubSeq(f.src, first, f.pos - 1), EofToken)

\* Behind the parenthesis at `open`, which is not closed before f.pos.
Enclosed(f, open) ==
    /\ Opened(f.src, open, f.pos - 1) = f.depth + 1
    /\ \A k \in open..(f.pos - 1) : Opened(f.src, open, k) >= 1

InCall(f) ==
    f.phase \in {"args", "arg"} =>
       /\ f.pos - 1 <= Len(f.src)
       /\ \E open \in 1..(f.pos - 1) :
             /\ Enclosed(f, open)
             /\ f.phase = "args" => \E first \in (open + 1)..f.pos : Gathered(f, first)

IsCalm(f) ==
    /\ ~f.stale /\ ~f.moved
    /\ f.phase = "scan" => f.arg = << >> /\ f.depth = 0
    /\ InCall(f)

Calm ==
    /\ \A j \in 1..Len(frames) : IsCalm(frames[j])
    /\ \A j \in 2..Len(frames) : Quiet(frames[j].src)
    /\ \A n \in Names : macros[n] # None => Quiet(macros[n].body)
    /\ status # "stale"

CalmInv == DirectivesOnOwnLines(Source) => Calm

\* The last token of a sequence is followed by TOK_EOF, whose ident is not `define`.
LEMMA EndIsNoDirective ==
    /\ EofToken \in Token /\ EofToken.kind = "EOF"
    /\ TRUE \notin DefineReads(EofToken)
BY SimpleType DEF EofToken, Simple, Kinds, DefineReads

LEMMA QuietSlice ==
    ASSUME NEW s \in Seq(Token), NEW first \in Nat \ {0}, NEW last \in Nat,
           last <= Len(s), NoDirectiveIn(s, first, last)
    PROVE  SubSeq(s, first, last) \in Seq(Token) /\ Quiet(SubSeq(s, first, last))
<1> DEFINE t == SubSeq(s, first, last)
<1>1. \A k \in first..last : s[k] \in Token
  OBVIOUS
<1>2. /\ t \in Seq(Token)
      /\ Len(t) = IF first <= last THEN last - first + 1 ELSE 0
      /\ \A k \in 1..(last - first + 1) : t[k] = s[first + k - 1]
  BY <1>1, SubSeqProperties
<1> HIDE DEF t
<1>3. ASSUME NEW k \in 1..Len(t) PROVE ~IsDirective(t, k)
  <2>1. t[k] = s[first + k - 1] /\ first + k - 1 \in first..last
    BY <1>2
  <2>2. CASE k = Len(t)
    <3>1. TokenAt(t, k + 1) = EofToken
      BY <1>2, <2>2 DEF TokenAt
    <3> QED
      BY <3>1, EndIsNoDirective DEF IsDirective
  <2>3. CASE k # Len(t)
    <3>1. TokenAt(t, k + 1) = t[k + 1] /\ t[k + 1] = s[first + k]
      BY <1>2, <2>3 DEF TokenAt
    <3>2. TokenAt(s, first + k - 1 + 1) = s[first + k]
      BY <1>2, <2>1, <2>3 DEF TokenAt
    <3> QED
      BY <2>1, <3>1, <3>2 DEF IsDirective, NoDirectiveIn
  <2> QED
    BY <2>2, <2>3
<1> QED
  BY <1>2, <1>3 DEF Quiet, NoDirectiveIn, t

LEMMA QuietWithoutHash ==
    ASSUME NEW s \in Seq(Token), ~HasHash(s)
    PROVE  Quiet(s)
BY DEF HasHash, Quiet, NoDirectiveIn, IsDirective

\* A body lies on the line of its definition, behind the macro's name.
LEMMA QuietBody ==
    ASSUME NEW s \in Seq(Token), DirectivesOnOwnLines(s),
           NEW first \in Nat, first > 1, NEW last \in Nat, last <= Len(s),
           IsBody(s, first, last), s[first - 1].kind # "NL"
    PROVE  SubSeq(s, first, last) \in Seq(Token) /\ Quiet(SubSeq(s, first, last))
<1>1. ASSUME NEW k \in first..last PROVE ~IsDirective(s, k)
  <2>1. k \in 1..Len(s) /\ k # 1
    OBVIOUS
  <2>2. s[k - 1].kind # "NL"
    <3>1. k = first \/ k - 1 \in first..last
      OBVIOUS
    <3> QED
      BY <3>1 DEF IsBody
  <2> QED
    BY <2>1, <2>2 DEF DirectivesOnOwnLines, StartsLine
<1> QED
  BY <1>1, QuietSlice DEF NoDirectiveIn

\* The positions of a kind of token.
Places(s, kind, j, k) == {m \in j..k : s[m].kind = kind}

\* One more token counts one more of its kind, and none of another.
LEMMA CountNext ==
    ASSUME NEW s, NEW kind, NEW j \in Nat, NEW k \in Nat, j <= k + 1
    PROVE  /\ Cardinality(Places(s, kind, j, k)) \in Nat
           /\ Cardinality(Places(s, kind, j, k + 1)) =
                 Cardinality(Places(s, kind, j, k))
                   + (IF s[k + 1].kind = kind THEN 1 ELSE 0)
<1>1. IsFiniteSet(Places(s, kind, j, k))
  <2>1. Places(s, kind, j, k) \subseteq j..k /\ IsFiniteSet(j..k)
    BY FS_Interval DEF Places
  <2> QED
    BY <2>1, FS_Subset
<1>2. Cardinality(Places(s, kind, j, k)) \in Nat
  BY <1>1, FS_CardinalityType
<1>3. Places(s, kind, j, k + 1) =
         IF s[k + 1].kind = kind THEN Places(s, kind, j, k) \cup {k + 1}
         ELSE Places(s, kind, j, k)
  BY DEF Places
<1>4. k + 1 \notin Places(s, kind, j, k)
  BY DEF Places
<1>5. Cardinality(Places(s, kind, j, k) \cup {k + 1}) = Cardinality(Places(s, kind, j, k)) + 1
  BY <1>1, <1>4, FS_AddElement
<1> QED
  BY <1>2, <1>3, <1>5

\* What a token does to the depth of parentheses.
Turn(t) == IF t.kind = "LP" THEN 1 ELSE IF t.kind = "RP" THEN 0 - 1 ELSE 0

LEMMA OpenedNext ==
    ASSUME NEW s, NEW j \in Nat, NEW k \in Nat, j <= k + 1
    PROVE  /\ Opened(s, j, k) \in Int /\ Turn(s[k + 1]) \in Int
           /\ Opened(s, j, k + 1) = Opened(s, j, k) + Turn(s[k + 1])
<1>1. \A n : Opened(s, j, n) = Cardinality(Places(s, "LP", j, n))
                                 - Cardinality(Places(s, "RP", j, n))
  BY DEF Opened, Places
<1>2. /\ Cardinality(Places(s, "LP", j, k)) \in Nat
      /\ Cardinality(Places(s, "LP", j, k + 1)) =
            Cardinality(Places(s, "LP", j, k)) + (IF s[k + 1].kind = "LP" THEN 1 ELSE 0)
  BY CountNext
<1>3. /\ Cardinality(Places(s, "RP", j, k)) \in Nat
      /\ Cardinality(Places(s, "RP", j, k + 1)) =
            Cardinality(Places(s, "RP", j, k)) + (IF s[k + 1].kind = "RP" THEN 1 ELSE 0)
  BY CountNext
<1> QED
  BY <1>1, <1>2, <1>3 DEF Turn

\* Nothing is opened before the first token.
LEMMA OpenedNothing ==
    ASSUME NEW s, NEW k \in Nat
    PROVE  Opened(s, k + 1, k) = 0
<1>1. \A kind : {m \in (k + 1)..k : s[m].kind = kind} = {}
  OBVIOUS
<1>2. Cardinality({}) = 0
  BY FS_EmptySet
<1> QED
  BY <1>1, <1>2 DEF Opened

\* The token at the end of a slice makes it one longer.
LEMMA SliceNext ==
    ASSUME NEW s \in Seq(Token), NEW first \in Nat \ {0}, NEW k \in 1..Len(s), first <= k
    PROVE  Append(SubSeq(s, first, k - 1), s[k]) = SubSeq(s, first, k)
<1> DEFINE t == SubSeq(s, first, k - 1)
           u == SubSeq(s, first, k)
<1>1. (\A m \in first..k : s[m] \in Token) /\ s[k] \in Token /\ k - first \in Nat
  OBVIOUS
<1>2. /\ t \in Seq(Token) /\ Len(t) = k - first
      /\ \A m \in 1..(k - first) : t[m] = s[first + m - 1]
  BY <1>1, SubSeqProperties
<1>3. /\ u \in Seq(Token) /\ Len(u) = k - first + 1
      /\ \A m \in 1..(k - first + 1) : u[m] = s[first + m - 1]
  BY <1>1, SubSeqProperties
<1> HIDE DEF t, u
<1>4. Append(t, s[k]) \in Seq(Token) /\ Len(Append(t, s[k])) = Len(u)
  BY <1>1, <1>2, <1>3
<1>5. \A m \in 1..Len(u) : Append(t, s[k])[m] = u[m]
  BY <1>1, <1>2, <1>3
<1>6. Append(t, s[k]) = u
  BY <1>3, <1>4, <1>5
<1> QED
  BY <1>6 DEF t, u

LEMMA EmptySlice ==
    ASSUME NEW s, NEW k \in Nat
    PROVE  SubSeq(s, k, k - 1) = << >>
BY SubSeqEmpty

\* Reading a token that leaves the call open leaves the parenthesis enclosing.
LEMMA EnclosedNext ==
    ASSUME NEW f, NEW g, NEW p \in Nat, NEW d \in Nat, NEW e \in Nat,
           f.pos = p, f.depth = d, g.pos = p + 1, g.depth = e, g.src = f.src,
           e = d + Turn(f.src[p]), NEW open \in 1..(p - 1), Enclosed(f, open)
    PROVE  Enclosed(g, open)
<1> DEFINE turn == Turn(f.src[p])
           before == Opened(f.src, open, p - 1)
           after == Opened(f.src, open, p)
<1>1. turn \in Int /\ e = d + turn
  BY DEF Turn
<1>2. /\ open \in Nat /\ p - 1 \in Nat /\ (p - 1) + 1 = p /\ (p + 1) - 1 = p
      /\ open <= p
  OBVIOUS
<1>3. before = d + 1 /\ \A k \in open..(p - 1) : Opened(f.src, open, k) >= 1
  BY DEF Enclosed
<1>4. before \in Int /\ Opened(f.src, open, (p - 1) + 1) = before + Turn(f.src[(p - 1) + 1])
  BY <1>2, OpenedNext
<1>5. after = before + turn
  BY <1>2, <1>4
<1> HIDE DEF turn, before
<1>6. after = e + 1
  <2> HIDE DEF after
  <2> QED
    BY <1>1, <1>3, <1>5
<1>7. ASSUME NEW k \in open..p PROVE Opened(f.src, open, k) >= 1
  <2>1. k = p \/ k \in open..(p - 1)
    BY <1>2
  <2> QED
    BY <1>3, <1>6, <2>1
<1> QED
  BY <1>2, <1>6, <1>7 DEF Enclosed

\* Whoever takes the current token of the call into the argument is still in the call.
LEMMA CollectInCall ==
    ASSUME NEW f \in Frame, NEW g \in Frame, f.phase = "args", InCall(f),
           NEW p \in Nat, NEW d \in Nat, NEW e \in Nat,
           f.pos = p, f.depth = d, g.pos = p + 1, g.depth = e,
           g.phase = "args", g.src = f.src, g.arg = Append(f.arg, f.src[p]),
           p \in 1..Len(f.src), f.src[p].kind # "EOF", e = d + Turn(f.src[p])
    PROVE  InCall(g)
<1>1. f.src \in Seq(Token) /\ Len(f.src) \in Nat
  BY DEF Frame
<1>2. PICK open \in 1..(p - 1) :
         Enclosed(f, open) /\ \E first \in (open + 1)..p : Gathered(f, first)
  BY DEF InCall
<1>3. PICK first \in (open + 1)..p : Gathered(f, first)
  BY <1>2
<1>4. Enclosed(g, open)
  BY <1>2, EnclosedNext
<1>5. open \in Nat /\ open > 0 /\ open <= p - 1 /\ (p + 1) - 1 = p
  OBVIOUS
<1>6. first \in Nat \ {0} /\ first > open /\ first <= p
  BY <1>5
<1>7. f.arg = SubSeq(f.src, first, p - 1)
  BY <1>3 DEF Gathered, TokenAt
<1>8. g.arg = SubSeq(f.src, first, p)
  BY <1>1, <1>6, <1>7, SliceNext
<1>9. Gathered(g, first)
  BY <1>5, <1>8 DEF Gathered
<1>10. first \in (open + 1)..(p + 1) /\ open \in 1..p
  BY <1>5, <1>6
<1>11. p <= Len(f.src)
  BY <1>1
<1> QED
  BY <1>4, <1>5, <1>9, <1>10, <1>11 DEF InCall

\* What the invariant says of the innermost activation.
LEMMA CalmTop ==
    ASSUME TypeInv, Calm
    PROVE  /\ IsCalm(Top) /\ Top = frames[Len(frames)] /\ Len(frames) \in Nat \ {0}
           /\ Len(frames) = 1 => Top.src = Source
           /\ Len(frames) > 1 => Quiet(Top.src)
<1>1. Len(frames) \in Nat \ {0}
  BY StateType
<1> QED
  BY <1>1 DEF Calm, Top, Source

\* The ways a step changes the activations.
LEMMA SetTopCalm ==
    ASSUME TypeInv, Calm, status = "run", NEW f \in Frame, SetTop(f), IsCalm(f),
           f.src = Top.src, macros' = macros, status' = status
    PROVE  Calm'
<1>1. /\ Len(frames) \in Nat \ {0} /\ Len(frames') = Len(frames)
      /\ \A j \in 1..(Len(frames) - 1) : frames'[j] = frames[j]
      /\ frames'[Len(frames)] = f
  BY StateType, SetTopEffect DEF TypeInv, TypeOK
<1>2. ASSUME NEW j \in 1..Len(frames)
      PROVE  IsCalm(frames'[j]) /\ frames'[j].src = frames[j].src
  <2>1. CASE j = Len(frames)
    BY <1>1, <2>1 DEF Top
  <2>2. CASE j # Len(frames)
    BY <1>1, <2>2 DEF Calm
  <2> QED
    BY <2>1, <2>2
<1>3. \A j \in 2..Len(frames) : j \in 1..Len(frames)
  OBVIOUS
<1>4. \A j \in 2..Len(frames) : Quiet(frames'[j].src)
  BY <1>2, <1>3 DEF Calm
<1> QED
  BY <1>1, <1>2, <1>4 DEF Calm

LEMMA ActivationCalm ==
    ASSUME NEW tokens \in Seq(Token)
    PROVE  IsCalm(Activation(tokens)) /\ Activation(tokens).src = tokens
BY DEF Activation, IsCalm, InCall

LEMMA ExpandCalm ==
    ASSUME TypeInv, Calm, status = "run", NEW f \in Frame, NEW tokens \in Seq(Token),
           Expand(f, tokens), IsCalm(f), f.src = Top.src, Quiet(tokens),
           macros' = macros, status' = status
    PROVE  Calm'
<1> DEFINE n == Len(frames)
<1>1. /\ n \in Nat \ {0} /\ Len(frames') = n + 1
      /\ \A j \in 1..(n - 1) : frames'[j] = frames[j]
      /\ frames'[n] = f /\ frames'[n + 1] = Activation(tokens)
  BY StateType, ExpandEffect DEF TypeInv, TypeOK
<1>2. ASSUME NEW j \in 1..n
      PROVE  IsCalm(frames'[j]) /\ frames'[j].src = frames[j].src
  <2>1. CASE j = n
    BY <1>1, <2>1 DEF Top
  <2>2. CASE j # n
    BY <1>1, <2>2 DEF Calm
  <2> QED
    BY <2>1, <2>2
<1>3. IsCalm(frames'[n + 1]) /\ Quiet(frames'[n + 1].src)
  BY <1>1, ActivationCalm
<1>4. \A j \in 1..(n + 1) : IsCalm(frames'[j])
  <2>1. \A j \in 1..(n + 1) : j \in 1..n \/ j = n + 1
    BY <1>1
  <2> QED
    BY <1>2, <1>3, <2>1
<1>5. \A j \in 2..(n + 1) : Quiet(frames'[j].src)
  <2>1. \A j \in 2..(n + 1) : (j \in 1..n /\ j \in 2..n) \/ j = n + 1
    BY <1>1
  <2>2. \A j \in 2..n : Quiet(frames[j].src)
    BY DEF Calm
  <2> QED
    BY <1>2, <1>3, <2>1, <2>2
<1> QED
  BY <1>1, <1>4, <1>5 DEF Calm

LEMMA ReturnCalm ==
    ASSUME TypeInv, Calm, status = "run", Len(frames) > 1, NEW f \in Frame, ReturnTo(f),
           IsCalm(f), f.src = Caller.src, macros' = macros, status' = status
    PROVE  Calm'
<1> DEFINE n == Len(frames)
<1>1. /\ n \in Nat /\ n > 1 /\ Len(frames') = n - 1
      /\ \A j \in 1..(n - 2) : frames'[j] = frames[j]
      /\ frames'[n - 1] = f
  BY StateType, ReturnEffect DEF TypeInv, TypeOK
<1>2. ASSUME NEW j \in 1..(n - 1)
      PROVE  IsCalm(frames'[j]) /\ frames'[j].src = frames[j].src
  <2>1. CASE j = n - 1
    BY <1>1, <2>1 DEF Caller
  <2>2. CASE j # n - 1
    BY <1>1, <2>2 DEF Calm
  <2> QED
    BY <2>1, <2>2
<1>3. \A j \in 2..(n - 1) : j \in 1..(n - 1) /\ j \in 2..n
  BY <1>1
<1>4. \A j \in 2..(n - 1) : Quiet(frames'[j].src)
  BY <1>2, <1>3 DEF Calm
<1> QED
  BY <1>1, <1>2, <1>4 DEF Calm

LEMMA StopCalm ==
    ASSUME Calm, NEW s, Stop(s), s # "stale"
    PROVE  Calm'
BY DEF Stop, Calm, Top

\* What a definition changes: the tables, the position, and what has been freed.
LEMMA StoreEffect ==
    ASSUME TypeInv, NEW name, NEW def, NEW last, Store(name, def, last)
    PROVE  /\ macros' = [macros EXCEPT ![name] = def]
           /\ macro_stack' = macro_stack /\ status' = status
           /\ Len(frames') = Len(frames)
           /\ \A j \in 1..Len(frames) :
                 /\ frames'[j].src = frames[j].src /\ frames'[j].stream = frames[j].stream
                 /\ frames'[j].phase = frames[j].phase /\ frames'[j].name = frames[j].name
                 /\ frames'[j].arg = frames[j].arg /\ frames'[j].depth = frames[j].depth
                 /\ frames'[j].args = frames[j].args /\ frames'[j].todo = frames[j].todo
                 /\ frames'[j].buf = frames[j].buf
                 /\ frames[j].phase = "scan" /\ ~frames[j].moved => ~frames'[j].moved
           /\ ~frames[1].stale => ~frames'[1].stale
           /\ frames'[Len(frames)].pos = After(Top.src, last + 1)
<1>1. (\A j \in 1..Len(frames) : frames[j] \in Frame) /\ Len(frames) \in Nat \ {0}
  BY StateType
<1> DEFINE Stored(j, moves) ==
      [frames[j] EXCEPT
         !.stale = \/ @
                   \/ /\ j > 1
                      /\ frames[j - 1].phase = "obj"
                      /\ frames[j - 1].name = name,
         !.moved = @ \/ (moves /\ frames[j].phase \in {"arg", "last"}),
         !.pos = IF j = Len(frames) THEN After(frames[j].src, last + 1) ELSE @]
<1>2. PICK moves \in BOOLEAN :
         /\ macros' = [macros EXCEPT ![name] = def]
         /\ frames' = [j \in 1..Len(frames) |-> Stored(j, moves)]
         /\ UNCHANGED <<macro_stack, max_used, status>>
  BY DEF Store
<1>3. ASSUME NEW j \in 1..Len(frames)
      PROVE  LET g == Stored(j, moves) IN
             /\ g.src = frames[j].src /\ g.stream = frames[j].stream
             /\ g.phase = frames[j].phase /\ g.name = frames[j].name
             /\ g.arg = frames[j].arg /\ g.depth = frames[j].depth
             /\ g.args = frames[j].args /\ g.todo = frames[j].todo
             /\ g.buf = frames[j].buf
             /\ frames[j].phase = "scan" /\ ~frames[j].moved => ~g.moved
             /\ j = 1 /\ ~frames[j].stale => ~g.stale
             /\ j = Len(frames) => g.pos = After(frames[j].src, last + 1)
  <2> DEFINE st == \/ frames[j].stale
                   \/ /\ j > 1
                      /\ frames[j - 1].phase = "obj"
                      /\ frames[j - 1].name = name
             mv == frames[j].moved \/ (moves /\ frames[j].phase \in {"arg", "last"})
             ps == IF j = Len(frames) THEN After(frames[j].src, last + 1)
                   ELSE frames[j].pos
  <2>1. Stored(j, moves) = [frames[j] EXCEPT !.stale = st, !.moved = mv, !.pos = ps]
    BY <1>1 DEF Frame
  <2>2. /\ frames[j].phase = "scan" /\ ~frames[j].moved => ~mv
        /\ j = 1 /\ ~frames[j].stale => ~st
        /\ j = Len(frames) => ps = After(frames[j].src, last + 1)
    BY <1>1 DEF Frame
  <2> HIDE DEF st, mv, ps, Stored
  <2> QED
    BY <1>1, <2>1, <2>2 DEF Frame
<1> HIDE DEF Stored
<1>4. Len(frames') = Len(frames) /\ \A j \in 1..Len(frames) : frames'[j] = Stored(j, moves)
  BY <1>1, <1>2
<1>5. 1 \in 1..Len(frames) /\ Len(frames) \in 1..Len(frames)
  BY <1>1
<1> QED
  BY <1>2, <1>3, <1>4, <1>5 DEF Top

\* The program is read, from its beginning to its end, and never written.
Onwards == Source' = Source /\ (~Directive => frames'[1].pos >= frames[1].pos)

LEMMA SourceKept == TypeInv /\ [Next]_vars => Onwards
<1> SUFFICES ASSUME TypeInv, [Next]_vars PROVE Onwards
  OBVIOUS
<1>1. /\ Top \in Frame /\ frames \in Seq(Frame) /\ Len(frames) \in Nat \ {0}
      /\ Top.pos \in Nat /\ frames[1].pos \in Nat
      /\ Top.pos >= Top.pos /\ Top.pos + 1 >= Top.pos /\ Top.pos + 2 >= Top.pos
      /\ frames[1].pos >= frames[1].pos
  <2>1. Top \in Frame /\ frames[1] \in Frame
    BY StateType
  <2>2. Top.pos \in Nat /\ frames[1].pos \in Nat
    BY <2>1 DEF Frame
  <2> QED
    BY <2>1, <2>2, StateType
<1>2. ASSUME NEW f, SetTop(f), f.src = Top.src, f.pos >= Top.pos PROVE Onwards
  BY <1>1, <1>2 DEF SetTop, Onwards, Source, Top
<1>3. ASSUME NEW f, NEW tokens, Expand(f, tokens), f.src = Top.src, f.pos >= Top.pos PROVE Onwards
  <2> DEFINE below == [frames EXCEPT ![Len(frames)] = f]
  <2>1. Len(below) \in Nat \ {0} /\ below[1].src = frames[1].src /\ below[1].pos >= frames[1].pos
    BY <1>1, <1>3 DEF Top
  <2>2. frames' = Append(below, Activation(tokens))
    BY <1>3 DEF Expand
  <2> HIDE DEF below
  <2> QED
    BY <2>1, <2>2 DEF Onwards, Source
<1>4. ASSUME NEW f, Len(frames) > 1, ReturnTo(f), f.src = Caller.src,
             f.pos >= Caller.pos
      PROVE  Onwards
  <2> DEFINE n == Len(frames)
             rest == SubSeq(frames, 1, n - 1)
  <2>1. rest \in Seq(Frame) /\ Len(rest) = n - 1 /\ rest[1] = frames[1] /\ 1 \in 1..(n - 1)
    BY <1>1, <1>4, SubSeqProperties
  <2>2. frames' = [rest EXCEPT ![n - 1] = f]
    BY <1>4 DEF ReturnTo
  <2> HIDE DEF rest
  <2> QED
    BY <1>1, <1>4, <2>1, <2>2 DEF Onwards, Source, Caller
<1>5. ASSUME NEW s, Stop(s) PROVE Onwards
  BY <1>1, <1>5 DEF Stop, Onwards, Source
<1>6. CASE Directive
  <2>1. ASSUME NEW name, NEW def, NEW last, Store(name, def, last) PROVE Onwards
    BY <1>1, <1>6, <2>1, StoreEffect DEF Onwards, Source
  <2> QED
    BY <1>5, <1>6, <2>1 DEF Directive, DefineObjlike, DefineFnlike, BadDefine, StepIf, BadDirective
<1>7. CASE Step
  <2>1. CASE StepPlain \/ UseAsPlain
    BY <1>1, <1>2, <2>1 DEF StepPlain, UseAsPlain, Emit, Frame
  <2>2. CASE UseObjlike
    <3>1. [Top EXCEPT !.phase = "obj", !.name = Tok.id, !.pos = @ + 1].src = Top.src
      BY <1>1 DEF Frame
    <3>2. [Top EXCEPT !.phase = "obj", !.name = Tok.id, !.pos = @ + 1].pos = Top.pos + 1
      BY <1>1 DEF Frame
    <3> QED
      BY <1>1, <1>3, <2>2, <3>1, <3>2 DEF UseObjlike
  <2>3. CASE UseFnlike \/ PoolExhausted
    BY <1>1, <1>2, <1>5, <2>3 DEF UseFnlike, PoolExhausted, Frame
  <2> QED
    BY <1>7, <2>1, <2>2, <2>3 DEF Step
<1>8. CASE Arguments
  <2>1. ASSUME NEW e, Collect(e) PROVE Onwards
    BY <1>1, <1>2, <2>1 DEF Collect, Frame
  <2>2. ASSUME NEW phase, PushArg(phase) PROVE Onwards
    BY <1>1, <1>3, <2>2 DEF PushArg, Frame
  <2>3. CASE CollectEof \/ CloseEmpty
    BY <1>1, <1>2, <2>3 DEF CollectEof, CloseEmpty, Frame
  <2> QED
    BY <1>5, <1>8, <2>1, <2>2, <2>3 DEF Arguments, CollectOpen, CollectClose, CollectInner,
       CollectPlain, UnclosedCall, CommaArg, ExcessArg, LastArg, ArgMismatch
<1>9. CASE Body
  <2>1. ASSUME NEW k, NEW out, Processed(k, out) PROVE Onwards
    BY <1>1, <1>2, <2>1 DEF Processed, Frame
  <2>2. CASE EnterBody \/ EndSubst \/ JoinIdent
    BY <1>1, <1>2, <2>2 DEF EnterBody, EndSubst, JoinIdent, Frame
  <2>3. CASE Rescan
    BY <1>1, <1>3, <2>3 DEF Rescan, Frame
  <2> QED
    BY <1>5, <1>9, <2>1, <2>2, <2>3 DEF Body, Substitute, Stringify, KeepToken, JoinKeyword
<1>10. CASE Return
  <2>1. ASSUME Len(frames) > 1 PROVE Caller \in Frame /\ Caller.pos >= Caller.pos
    <3>1. Caller \in Frame
      BY <1>1, <2>1 DEF Caller
    <3>2. Caller.pos \in Nat
      BY <3>1 DEF Frame
    <3> QED
      BY <3>1, <3>2
  <2>2. ASSUME NEW phase, ReturnFrom(phase) PROVE Onwards
    <3>1. Resumed(Caller, Top.stream).src = Caller.src /\ Resumed(Caller, Top.stream).pos = Caller.pos
      BY DEF Resumed, Activation
    <3> QED
      BY <1>4, <2>1, <2>2, <3>1 DEF ReturnFrom
  <2>3. CASE ReturnArg
    <3> DEFINE phase == IF Caller.phase = "last" THEN "enter" ELSE "args"
               args == [Caller.args EXCEPT ![Caller.param] = Top.stream]
    <3>1. Len(frames) > 1 /\ ReturnTo([Caller EXCEPT !.phase = phase, !.args = args, !.arg = << >>])
      BY <2>3 DEF ReturnArg
    <3> HIDE DEF phase, args
    <3>2. LET g == [Caller EXCEPT !.phase = phase, !.args = args, !.arg = << >>]
          IN  g.src = Caller.src /\ g.pos = Caller.pos
      BY <2>1, <3>1 DEF Frame
    <3> QED
      BY <1>4, <2>1, <3>1, <3>2
  <2> QED
    BY <1>5, <1>10, <2>2, <2>3 DEF Return, Finish, ReturnObj, ReturnRescan
<1> QED
  BY <1>1, <1>5, <1>6, <1>7, <1>8, <1>9, <1>10 DEF Next, TouchStale, Onwards, Source, vars

\* A definition that only the outermost activation can be reading frees nothing.
LEMMA StoreCalm ==
    ASSUME TypeInv, Calm, status = "run", Len(frames) = 1, Top.phase = "scan",
           NEW name \in Names, NEW def \in MacroDef, Quiet(def.body), NEW last \in Nat,
           Store(name, def, last)
    PROVE  Calm'
<1>1. /\ macros' = [macros EXCEPT ![name] = def] /\ status' = status
      /\ Len(frames') = 1
      /\ frames'[1].src = frames[1].src /\ frames'[1].phase = frames[1].phase
      /\ frames'[1].arg = frames[1].arg /\ frames'[1].depth = frames[1].depth
      /\ frames[1].phase = "scan" /\ ~frames[1].moved => ~frames'[1].moved
      /\ ~frames[1].stale => ~frames'[1].stale
  <2>1. 1 \in 1..Len(frames)
    OBVIOUS
  <2> QED
    BY <2>1, StoreEffect
<1>2. frames[1].phase = "scan" /\ IsCalm(frames[1])
  BY CalmTop
<1>3. IsCalm(frames'[1])
  BY <1>1, <1>2 DEF IsCalm, InCall
<1>4. \A n \in Names : macros'[n] # None => Quiet(macros'[n].body)
  <2>1. macros \in [Names -> MacroDef \cup {None}]
    BY StateType
  <2> QED
    BY <1>1, <2>1 DEF Calm
<1> QED
  BY <1>1, <1>3, <1>4 DEF Calm

\* A definition is read from the program, not from a body or an argument.
LEMMA DefinesAtSource ==
    ASSUME TypeInv, Calm, AtDefine
    PROVE  /\ status = "run" /\ Top.phase = "scan" /\ Len(frames) = 1 /\ Top.src = Source
           /\ Top.pos \in 1..Len(Source) /\ IsDirective(Source, Top.pos)
<1>1. IsDirective(Top.src, Top.pos) /\ Top.pos \in 1..Len(Top.src)
  BY EndIsNoDirective DEF AtDefine, Tok, Peeked, TokenAt, IsDirective
<1>2. ~Quiet(Top.src)
  BY <1>1 DEF Quiet, NoDirectiveIn
<1>3. Len(frames) = 1
  <2>1. PICK n \in Nat \ {0} : n = Len(frames)
    BY CalmTop
  <2>2. n = 1 \/ n > 1
    OBVIOUS
  <2> QED
    BY <1>2, <2>1, <2>2, CalmTop
<1>4. Top.src = Source
  BY <1>3, CalmTop
<1> QED
  BY <1>1, <1>3, <1>4 DEF AtDefine, Reading, Running

\* The actions.
LEMMA DirectiveCalm ==
    ASSUME TypeInv, Calm, DirectivesOnOwnLines(Source), Directive
    PROVE  Calm'
<1>1. CASE BadDefine \/ StepIf \/ BadDirective
  BY <1>1, StopCalm DEF BadDefine, StepIf, BadDirective
<1>2. CASE DefineObjlike \/ DefineFnlike
  <2>1. PICK first \in Nat \ {0, 1}, last \in Nat, def \in MacroDef :
           /\ last <= Len(Top.src) /\ Top.src[first - 1].kind # "NL"
           /\ IsBody(Top.src, first, last)
           /\ def.body = SubSeq(Top.src, first, last)
           /\ Store(NameTok.id, def, last)
    BY <1>2, DefineEffect
  <2>2. /\ NameTok.id \in Names /\ status = "run" /\ Top.phase = "scan" /\ Len(frames) = 1
        /\ DirectivesOnOwnLines(Top.src) /\ Top.src \in Seq(Token)
    BY <1>2, DefineEffect, DefinesAtSource, StateType DEF Frame
  <2>3. first \in Nat /\ first > 1
    OBVIOUS
  <2>4. Quiet(def.body)
    BY <2>1, <2>2, <2>3, QuietBody
  <2> QED
    BY <2>1, <2>2, <2>4, StoreCalm
<1> QED
  BY <1>1, <1>2 DEF Directive

LEMMA StepCalm ==
    ASSUME TypeInv, Calm, Step
    PROVE  Calm'
<1>1. /\ Top \in Frame /\ Tok \in Token /\ IsCalm(Top)
      /\ Tok.kind = "IDENT" => Tok.id \in Names
      /\ macros \in [Names -> MacroDef \cup {None}]
      /\ Top.pos \in Nat /\ Top.src \in Seq(Token) /\ Len(Top.src) \in Nat
      /\ Top.stream \in Seq(Token)
  <2>1. Top \in Frame
    BY StateType
  <2>2. Top.pos \in Nat /\ Top.src \in Seq(Token) /\ Top.stream \in Seq(Token)
    BY <2>1 DEF Frame
  <2> QED
    BY <2>1, <2>2, TopType, StateType, CalmTop
<1>2. status = "run" /\ (Top.phase = "scan" \/ PoolExhausted)
  BY DEF Step, StepPlain, UseAsPlain, UseObjlike, UseFnlike, PoolExhausted, AtCall,
         Reading, Running
<1>3. ASSUME Emit, Top.phase = "scan", UNCHANGED <<macros, macro_stack, max_used, status>>
      PROVE  Calm'
  <2> DEFINE out == Append(Top.stream, Tok)
             pos == Top.pos + 1
             g == [Top EXCEPT !.stream = out, !.pos = pos]
  <2>1. out \in Seq(Token) /\ pos \in Nat /\ SetTop(g)
    BY <1>1, <1>3 DEF Emit
  <2> HIDE DEF out, pos
  <2>2. /\ g \in Frame /\ g.src = Top.src /\ g.phase = "scan" /\ g.arg = Top.arg
        /\ g.depth = Top.depth /\ g.stale = Top.stale /\ g.moved = Top.moved
    BY <1>1, <1>3, <2>1 DEF Frame
  <2> HIDE DEF g
  <2>3. IsCalm(g)
    BY <1>1, <1>3, <2>2 DEF IsCalm, InCall
  <2> QED
    BY <1>2, <1>3, <2>1, <2>2, <2>3, SetTopCalm
<1>4. CASE StepPlain
  <2>1. CASE Tok.kind = "NL"
    <3> DEFINE pos == Top.pos + 1
               g == [Top EXCEPT !.pos = pos]
    <3>1. /\ pos \in Nat /\ SetTop(g) /\ Top.phase = "scan"
          /\ macros' = macros /\ status' = status
      BY <1>1, <1>4, <2>1 DEF StepPlain, Reading, Running
    <3> HIDE DEF pos
    <3>2. /\ g \in Frame /\ g.src = Top.src /\ g.phase = "scan" /\ g.arg = Top.arg
          /\ g.depth = Top.depth /\ g.stale = Top.stale /\ g.moved = Top.moved
      BY <1>1, <3>1 DEF Frame
    <3> HIDE DEF g
    <3>3. IsCalm(g)
      BY <1>1, <3>1, <3>2 DEF IsCalm, InCall
    <3> QED
      BY <1>2, <3>1, <3>2, <3>3, SetTopCalm
  <2>2. CASE Tok.kind # "NL"
    BY <1>3, <1>4, <2>2 DEF StepPlain, Reading, Running
  <2> QED
    BY <2>1, <2>2
<1>5. CASE UseAsPlain
  BY <1>3, <1>5 DEF UseAsPlain, Reading, Running
<1>6. CASE UseObjlike
  <2> DEFINE pos == Top.pos + 1
             g == [Top EXCEPT !.phase = "obj", !.name = Tok.id, !.pos = pos]
             body == macros[Tok.id].body
  <2>1. /\ pos \in Nat /\ Tok.id \in Names /\ body \in Seq(Token)
        /\ Expand(g, body) /\ Quiet(body) /\ macros' = macros /\ status' = status
    BY <1>1, <1>6 DEF UseObjlike, IsMacro, MacroDef, Calm
  <2> HIDE DEF pos, body
  <2>2. /\ g \in Frame /\ g.src = Top.src /\ g.phase = "obj"
        /\ g.stale = Top.stale /\ g.moved = Top.moved
    BY <1>1, <2>1 DEF Frame, Phases
  <2> HIDE DEF g
  <2>3. IsCalm(g)
    BY <1>1, <2>2 DEF IsCalm, InCall
  <2> QED
    BY <1>2, <2>1, <2>2, <2>3, ExpandCalm
<1>7. CASE UseFnlike
  <2> DEFINE p == Top.pos
             pos == p + 2
             g == [Top EXCEPT !.phase = "args", !.name = Tok.id, !.pos = pos]
  <2>1. /\ pos \in Nat /\ Tok.id \in Names /\ SetTop(g) /\ Top.phase = "scan"
        /\ macros' = macros /\ status' = status
    BY <1>1, <1>7 DEF UseFnlike, AtCall, IsMacro, Reading, Running
  <2>2. p + 1 \in 1..Len(Top.src) /\ Top.src[p + 1].kind = "LP"
    <3>1. Peeked.kind = "LP" /\ Peeked = TokenAt(Top.src, p + 1)
      BY <1>7 DEF UseFnlike, AtCall, Peeked
    <3> QED
      BY <3>1, EndIsNoDirective DEF TokenAt
  <2>3. Top.arg = << >> /\ Top.depth = 0
    BY <1>1, <2>1 DEF IsCalm
  <2>4. p \in Nat /\ pos = p + 2 /\ pos - 1 = p + 1
    BY <1>1
  <2> HIDE DEF p, pos
  <2>5. /\ g \in Frame /\ g.src = Top.src /\ g.phase = "args" /\ g.arg = << >> /\ g.depth = 0
        /\ g.stale = Top.stale /\ g.moved = Top.moved /\ g.pos = pos
    BY <1>1, <2>1, <2>3 DEF Frame, Phases
  <2> HIDE DEF g
  <2>6. Opened(Top.src, p + 1, p + 1) = 1
    <3>1. p + 1 \in Nat /\ p + 1 <= p + 1
      BY <2>4
    <3>2. Opened(Top.src, p + 1, p) = 0
      BY <2>4, OpenedNothing
    <3>3. Turn(Top.src[p + 1]) = 1
      BY <2>2 DEF Turn
    <3>4. Opened(Top.src, p + 1, p + 1) = Opened(Top.src, p + 1, p) + Turn(Top.src[p + 1])
      BY <2>4, <3>1, OpenedNext
    <3> QED
      BY <3>2, <3>3, <3>4
  <2>7. Enclosed(g, p + 1)
    <3>1. \A k \in (p + 1)..(p + 1) : k = p + 1
      BY <2>4
    <3> QED
      BY <2>4, <2>5, <2>6, <3>1 DEF Enclosed
  <2>8. Gathered(g, pos)
    BY <2>1, <2>5, EmptySlice DEF Gathered
  <2>9. p + 1 \in 1..(pos - 1) /\ pos \in (p + 1 + 1)..pos /\ pos - 1 <= Len(Top.src)
    BY <1>1, <2>2, <2>4
  <2>10. InCall(g)
    BY <2>5, <2>7, <2>8, <2>9 DEF InCall
  <2>11. IsCalm(g)
    BY <1>1, <2>5, <2>10 DEF IsCalm
  <2> QED
    BY <1>2, <2>1, <2>5, <2>11, SetTopCalm
<1>8. CASE PoolExhausted
  BY <1>8, StopCalm DEF PoolExhausted
<1> QED
  BY <1>4, <1>5, <1>6, <1>7, <1>8 DEF Step

\* A token of a call goes into the argument.
LEMMA CollectCalm ==
    ASSUME TypeInv, Calm, Collecting, Tok.kind # "EOF", NEW e \in Nat,
           e = Top.depth + Turn(Tok), Collect(e)
    PROVE  Calm'
<1> DEFINE p == Top.pos
           d == Top.depth
           arg == Append(Top.arg, Tok)
           pos == p + 1
           g == [Top EXCEPT !.arg = arg, !.depth = e, !.pos = pos]
<1>1. /\ Top \in Frame /\ Tok \in Token /\ IsCalm(Top) /\ Top.phase = "args"
      /\ status = "run" /\ macros' = macros /\ status' = status
  BY StateType, CalmTop DEF Collecting, Reading, Running, Collect
<1>2. /\ p \in Nat /\ d \in Nat /\ Top.src \in Seq(Token) /\ Top.arg \in Seq(Token)
      /\ pos \in Nat /\ pos = p + 1
  BY <1>1 DEF Frame
<1>3. p \in 1..Len(Top.src) /\ Tok = Top.src[p]
  BY EndIsNoDirective DEF Tok, TokenAt
<1>4. arg \in Seq(Token) /\ SetTop(g) /\ arg = Append(Top.arg, Top.src[p])
  BY <1>1, <1>2, <1>3 DEF Collect
<1> HIDE DEF p, d, arg, pos
<1>5. /\ g \in Frame /\ g.src = Top.src /\ g.phase = "args" /\ g.arg = arg
      /\ g.depth = e /\ g.pos = pos /\ g.stale = Top.stale /\ g.moved = Top.moved
  BY <1>1, <1>2, <1>4 DEF Frame
<1>6. Top.pos = p /\ Top.depth = d
  BY DEF p, d
<1> HIDE DEF g
<1>7. InCall(g)
  <2>1. InCall(Top)
    BY <1>1 DEF IsCalm
  <2>2. e = d + Turn(Top.src[p])
    BY <1>3, <1>6
  <2> QED
    BY <1>1, <1>2, <1>3, <1>4, <1>5, <1>6, <2>1, <2>2, CollectInCall
<1>8. IsCalm(g)
  BY <1>1, <1>5, <1>7 DEF IsCalm
<1> QED
  BY <1>1, <1>4, <1>5, <1>8, SetTopCalm

\* A finished argument lies inside the call, where no definition stands.
LEMMA ArgumentQuiet ==
    ASSUME TypeInv, Calm, DirectivesOnOwnLines(Source), Top.phase = "args",
           Tok.kind # "EOF"
    PROVE  Quiet(Top.arg)
<1>1. /\ Top.src \in Seq(Token) /\ Len(Top.src) \in Nat /\ Top.pos \in Nat
      /\ InCall(Top)
  BY StateType, CalmTop DEF Frame, IsCalm
<1>2. Top.pos - 1 <= Len(Top.src)
  BY <1>1 DEF InCall
<1>3. PICK open \in 1..(Top.pos - 1) :
         /\ \A k \in open..(Top.pos - 1) : Opened(Top.src, open, k) >= 1
         /\ \E first \in (open + 1)..Top.pos : Gathered(Top, first)
  BY <1>1 DEF InCall, Enclosed
<1>4. PICK first \in (open + 1)..Top.pos : Gathered(Top, first)
  BY <1>3
<1>5. Top.arg = SubSeq(Top.src, first, Top.pos - 1)
  BY <1>4 DEF Gathered, Tok
<1>6. /\ open \in Nat /\ open >= 1 /\ first \in Nat \ {0} /\ open <= first
      /\ Top.pos - 1 \in Nat
  BY <1>1
<1>7. ASSUME NEW k \in first..(Top.pos - 1) PROVE ~IsDirective(Top.src, k)
  <2>1. k \in 1..Len(Top.src) /\ k \in open..(Top.pos - 1) /\ open \in 1..k
    BY <1>1, <1>2, <1>6
  <2>2. CASE Len(frames) > 1
    BY <2>1, <2>2, CalmTop DEF Quiet, NoDirectiveIn
  <2>3. CASE Len(frames) = 1
    <3>1. Opened(Top.src, open, k) >= 1
      BY <1>3, <2>1
    <3>2. ASSUME IsDirective(Top.src, k) PROVE Opened(Top.src, open, k) <= 0
      BY <2>1, <2>3, <3>2, CalmTop DEF DirectivesOnOwnLines
    <3>3. Opened(Top.src, open, k) \in Int
      <4>1. k \in Nat /\ open \in Nat /\ open <= k + 1
        BY <1>6, <2>1
      <4> QED
        BY <4>1, OpenedNext
    <3> QED
      BY <3>1, <3>2, <3>3
  <2>4. Len(frames) > 1 \/ Len(frames) = 1
    <3>1. Len(frames) \in Nat \ {0}
      BY CalmTop
    <3> QED
      BY <3>1
  <2> QED
    BY <2>2, <2>3, <2>4
<1> QED
  BY <1>1, <1>2, <1>5, <1>6, <1>7, QuietSlice DEF NoDirectiveIn

\* push_fnlike_arg: the argument is expanded by an activation of its own.
LEMMA PushArgCalm ==
    ASSUME TypeInv, Calm, DirectivesOnOwnLines(Source), Top.phase = "args",
           status = "run", Top.depth = 0, Tok.kind \in {"COMMA", "RP"},
           NEW phase \in {"arg", "last"}, phase = "arg" => Tok.kind = "COMMA",
           Callee.argnames[Top.argnum + 1] \in Names, PushArg(phase)
    PROVE  Calm'
<1> DEFINE p == Top.pos
           pos == p + 1
           argnum == Top.argnum + 1
           param == Callee.argnames[Top.argnum + 1]
           g == [Top EXCEPT !.phase = phase, !.pos = pos, !.argnum = argnum, !.param = param]
<1>1. /\ Top \in Frame /\ IsCalm(Top) /\ InCall(Top)
      /\ macros' = macros /\ status' = status /\ Expand(g, Top.arg)
  BY StateType, CalmTop DEF IsCalm, PushArg
<1>2. /\ p \in Nat /\ Top.src \in Seq(Token) /\ Top.arg \in Seq(Token)
      /\ pos \in Nat /\ pos = p + 1 /\ argnum \in Nat
  BY <1>1 DEF Frame
<1>3. p \in 1..Len(Top.src) /\ Tok = Top.src[p]
  BY EndIsNoDirective DEF Tok, TokenAt
<1>4. Quiet(Top.arg)
  BY ArgumentQuiet
<1>5. Top.pos = p
  OBVIOUS
<1> HIDE DEF p, pos, argnum, param
<1>6. /\ g \in Frame /\ g.src = Top.src /\ g.phase = phase
      /\ g.depth = 0 /\ g.pos = pos /\ g.stale = Top.stale /\ g.moved = Top.moved
  BY <1>1, <1>2 DEF Frame, Phases, param
<1> HIDE DEF g
<1>7. InCall(g)
  <2>1. CASE phase = "last"
    BY <1>6, <2>1 DEF InCall
  <2>2. CASE phase = "arg"
    <3>1. PICK open \in 1..(p - 1) : Enclosed(Top, open)
      BY <1>1, <1>5 DEF InCall
    <3>2. 0 = 0 + Turn(Top.src[p])
      BY <1>3, <2>2 DEF Turn
    <3>3. Enclosed(g, open)
      BY <1>2, <1>5, <1>6, <3>1, <3>2, EnclosedNext
    <3>4. pos - 1 = p /\ p <= Len(Top.src) /\ open \in 1..p
      BY <1>2, <1>3
    <3> QED
      BY <1>6, <2>2, <3>3, <3>4 DEF InCall
  <2> QED
    BY <2>1, <2>2
<1>8. IsCalm(g)
  BY <1>1, <1>6, <1>7 DEF IsCalm
<1> QED
  BY <1>1, <1>2, <1>4, <1>6, <1>8, ExpandCalm

LEMMA ArgumentsCalm ==
    ASSUME TypeInv, Calm, DirectivesOnOwnLines(Source), Arguments
    PROVE  Calm'
<1>1. /\ Top \in Frame /\ Tok \in Token /\ IsCalm(Top) /\ Collecting
      /\ Top.phase = "args" /\ status = "run" /\ Callee \in MacroDef
  <2>1. Collecting
    BY DEF Arguments, CollectOpen, CollectClose, CollectInner, CollectPlain, CollectEof,
           UnclosedCall, CommaArg, ExcessArg, LastArg, CloseEmpty, ArgMismatch, AtDelimiter
  <2> QED
    BY <2>1, StateType, CalmTop DEF Collecting, Reading, Running
<1>2. /\ Top.depth \in Nat /\ Top.argnum \in Nat /\ Top.arg \in Seq(Token)
      /\ Top.pos \in Nat /\ Top.src \in Seq(Token)
  BY <1>1 DEF Frame
<1>3. Callee.argnames \in Seq(Names) /\ Len(Callee.argnames) \in Nat
  BY <1>1 DEF MacroDef
<1>4. CASE CollectOpen
  <2>1. Turn(Tok) = 1 /\ Top.depth + 1 \in Nat
    BY <1>2, <1>4 DEF CollectOpen, Turn
  <2> QED
    BY <1>1, <1>4, <2>1, CollectCalm DEF CollectOpen
<1>5. CASE CollectClose
  <2>1. Turn(Tok) = 0 - 1 /\ Top.depth - 1 \in Nat /\ Top.depth - 1 = Top.depth + (0 - 1)
    BY <1>2, <1>5 DEF CollectClose, Turn
  <2> QED
    BY <1>1, <1>5, <2>1, CollectCalm DEF CollectClose
<1>6. CASE CollectInner
  <2>1. Turn(Tok) = 0 /\ Top.depth = Top.depth + 0
    BY <1>2, <1>6 DEF CollectInner, Turn
  <2> QED
    BY <1>1, <1>2, <1>6, <2>1, CollectCalm DEF CollectInner
<1>7. CASE CollectPlain
  <2>1. Turn(Tok) = 0 /\ 0 = Top.depth + 0
    BY <1>2, <1>7 DEF CollectPlain, Turn
  <2> QED
    BY <1>1, <1>7, <2>1, CollectCalm DEF CollectPlain
<1>8. CASE CollectEof
  <2> DEFINE arg == IF Top.arg # << >> /\ Top.arg[Len(Top.arg)] = EofToken THEN Top.arg
                    ELSE Append(Top.arg, EofToken)
             g == [Top EXCEPT !.arg = arg]
  <2>1. SetTop(g) /\ macros' = macros /\ status' = status /\ Tok.kind = "EOF"
    BY <1>1, <1>8 DEF CollectEof, Frame
  <2>2. arg \in Seq(Token)
    BY <1>2, EndIsNoDirective
  <2>3. ASSUME NEW first \in Nat \ {0}, Gathered(Top, first)
        PROVE  arg = Append(SubSeq(Top.src, first, Top.pos - 1), EofToken) \/ arg = Top.arg
    <3> DEFINE slice == SubSeq(Top.src, first, Top.pos - 1)
    <3>1. Top.arg = slice => arg = Append(slice, EofToken) \/ arg = Top.arg
      OBVIOUS
    <3>2. slice \in Seq(Token)
      <4>1. Top.pos - 1 <= Len(Top.src)
        BY <1>1 DEF IsCalm, InCall
      <4>2. \A k \in first..(Top.pos - 1) : Top.src[k] \in Token
        BY <1>2, <4>1
      <4> QED
        BY <1>2, <4>2, SubSeqProperties
    <3> HIDE DEF slice
    <3>3. ASSUME Top.arg = Append(slice, EofToken) PROVE arg = Top.arg
      <4>1. Top.arg # << >> /\ Top.arg[Len(Top.arg)] = EofToken
        BY <3>2, <3>3, EndIsNoDirective
      <4> QED
        BY <4>1
    <3> HIDE DEF arg
    <3> QED
      BY <2>3, <3>1, <3>3 DEF Gathered, slice
  <2> HIDE DEF arg
  <2>4. /\ g \in Frame /\ g.src = Top.src /\ g.phase = "args" /\ g.arg = arg
        /\ g.depth = Top.depth /\ g.pos = Top.pos
        /\ g.stale = Top.stale /\ g.moved = Top.moved
    BY <1>1, <2>2 DEF Frame
  <2> HIDE DEF g
  <2>5. \A first \in Nat \ {0} : Gathered(Top, first) => Gathered(g, first)
    BY <2>1, <2>3, <2>4 DEF Gathered, Tok
  <2>6. \A open : Enclosed(Top, open) => Enclosed(g, open)
    BY <2>4 DEF Enclosed
  <2>7. InCall(g)
    <3>1. PICK open \in 1..(Top.pos - 1) :
             Enclosed(Top, open) /\ \E first \in (open + 1)..Top.pos : Gathered(Top, first)
      BY <1>1 DEF InCall, IsCalm
    <3>2. PICK first \in (open + 1)..Top.pos : Gathered(Top, first)
      BY <3>1
    <3>3. first \in Nat \ {0}
      BY <1>2
    <3>4. Enclosed(g, open) /\ Gathered(g, first)
      BY <2>5, <2>6, <3>1, <3>2, <3>3
    <3>5. Top.pos - 1 <= Len(Top.src)
      BY <1>1 DEF InCall, IsCalm
    <3> QED
      BY <2>4, <3>4, <3>5 DEF InCall
  <2>8. IsCalm(g)
    BY <1>1, <2>4, <2>7 DEF IsCalm
  <2> QED
    BY <1>1, <2>1, <2>4, <2>8, SetTopCalm
<1>9. CASE CommaArg
  <2>1. Top.depth = 0 /\ Tok.kind = "COMMA" /\ PushArg("arg") /\ Top.argnum < Len(Callee.argnames)
    BY <1>9 DEF CommaArg, AtDelimiter
  <2>2. Callee.argnames[Top.argnum + 1] \in Names
    BY <1>2, <1>3, <2>1
  <2> QED
    BY <1>1, <2>1, <2>2, PushArgCalm
<1>10. CASE LastArg
  <2>1. Top.depth = 0 /\ Tok.kind = "RP" /\ PushArg("last") /\ Top.argnum + 1 = Len(Callee.argnames)
    BY <1>10 DEF LastArg, AtDelimiter
  <2>2. Callee.argnames[Top.argnum + 1] \in Names
    BY <1>2, <1>3, <2>1
  <2> QED
    BY <1>1, <2>1, <2>2, PushArgCalm
<1>11. CASE CloseEmpty
  <2> DEFINE pos == Top.pos + 1
             g == [Top EXCEPT !.phase = "enter", !.pos = pos]
  <2>1. SetTop(g) /\ macros' = macros /\ status' = status /\ pos \in Nat
    BY <1>2, <1>11 DEF CloseEmpty
  <2> HIDE DEF pos
  <2>2. /\ g \in Frame /\ g.src = Top.src /\ g.phase = "enter"
        /\ g.stale = Top.stale /\ g.moved = Top.moved
    BY <1>1, <2>1 DEF Frame, Phases
  <2> HIDE DEF g
  <2>3. IsCalm(g)
    BY <1>1, <2>2 DEF IsCalm, InCall
  <2> QED
    BY <1>1, <2>1, <2>2, <2>3, SetTopCalm
<1>12. CASE UnclosedCall \/ ExcessArg \/ ArgMismatch
  BY <1>12, StopCalm DEF UnclosedCall, ExcessArg, ArgMismatch
<1> QED
  BY <1>4, <1>5, <1>6, <1>7, <1>8, <1>9, <1>10, <1>11, <1>12 DEF Arguments

LEMMA BodyCalm ==
    ASSUME TypeInv, CleanInv, Calm, Body
    PROVE  Calm'
<1>1. /\ Top \in Frame /\ IsCalm(Top) /\ Top.todo \in Seq(Token) /\ Top.buf \in Seq(Token)
      /\ ~HasHash(Top.buf) /\ status = "run"
      /\ Top.phase \in {"enter", "subst", "paste"}
  <2>1. status = "run" /\ Top.phase \in {"enter", "subst", "paste"}
    BY DEF Body, EnterBody, Substitute, Stringify, EndSubst, KeepToken, JoinIdent,
           JoinKeyword, Rescan, Running
  <2> QED
    BY <2>1, StateType, CalmTop, CleanTop DEF Frame, IsClean
\* Only what is read from the body and what has been made of it changes.
<1>2. ASSUME NEW phase \in {"subst", "paste"}, NEW todo \in Seq(Token), NEW buf \in Seq(Token),
             SetTop([Top EXCEPT !.phase = phase, !.todo = todo, !.buf = buf]),
             macros' = macros, status' = status
      PROVE  Calm'
  <2> DEFINE g == [Top EXCEPT !.phase = phase, !.todo = todo, !.buf = buf]
  <2>1. /\ g \in Frame /\ g.src = Top.src /\ g.phase = phase
        /\ g.stale = Top.stale /\ g.moved = Top.moved
    BY <1>1, <1>2 DEF Frame, Phases
  <2>2. SetTop(g)
    BY <1>2
  <2> HIDE DEF g
  <2>3. IsCalm(g)
    BY <1>1, <1>2, <2>1 DEF IsCalm, InCall
  <2> QED
    BY <1>1, <1>2, <2>1, <2>2, <2>3, SetTopCalm
<1>3. CASE EnterBody
  <2> DEFINE todo == Callee.body
  <2>1. todo \in Seq(Token) /\ macros' = macros /\ status' = status
    BY <1>3, StateType DEF EnterBody, Running, MacroDef
  <2>2. SetTop([Top EXCEPT !.phase = "subst", !.todo = todo])
    BY <1>3 DEF EnterBody
  <2> HIDE DEF todo
  <2>3. [Top EXCEPT !.phase = "subst", !.todo = todo]
          = [Top EXCEPT !.phase = "subst", !.todo = todo, !.buf = Top.buf]
    BY <1>1 DEF Frame
  <2> QED
    BY <1>1, <1>2, <2>1, <2>2, <2>3
<1>4. ASSUME NEW k \in Nat, NEW out \in Seq(Token), Processed(k, out),
             Top.phase \in {"subst", "paste"}
      PROVE  Calm'
  <2> DEFINE todo == Rest(Top.todo, k)
             buf == Top.buf \o out
  <2>1. SetTop([Top EXCEPT !.todo = todo, !.buf = buf]) /\ macros' = macros /\ status' = status
    BY <1>4 DEF Processed
  <2>2. buf \in Seq(Token) /\ todo \in Seq(Token)
    <3>1. Len(Top.todo) \in Nat /\ k + 1 \in Nat \ {0}
      BY <1>1
    <3>2. \A i \in (k + 1)..Len(Top.todo) : Top.todo[i] \in Token
      BY <1>1
    <3> QED
      BY <1>1, <1>4, <3>1, <3>2, SubSeqProperties, ConcatProperties DEF Rest
  <2> HIDE DEF todo, buf
  <2>3. [Top EXCEPT !.todo = todo, !.buf = buf]
          = [Top EXCEPT !.phase = Top.phase, !.todo = todo, !.buf = buf]
    BY <1>1 DEF Frame
  <2> QED
    BY <1>2, <1>4, <2>1, <2>2, <2>3
<1>5. ASSUME Top.todo # << >> PROVE Head(Top.todo) \in Token
  BY <1>1, <1>5
<1>6. CASE Substitute
  <2> DEFINE t == Head(Top.todo)
             out == IF IsParam(t) THEN Top.args[t.id] ELSE <<t>>
  <2>1. t \in Token /\ Processed(1, out) /\ Top.phase = "subst"
    BY <1>5, <1>6 DEF Substitute, Running
  <2>2. out \in Seq(Token)
    <3>1. Top.args \in [Names -> Seq(Token) \cup {None}]
      BY <1>1 DEF Frame
    <3>2. t.kind = "IDENT" => t.id \in Names
      BY <2>1 DEF Token
    <3> QED
      BY <2>1, <3>1, <3>2 DEF IsParam
  <2> HIDE DEF out
  <2> QED
    BY <1>4, <2>1, <2>2
<1>7. CASE Stringify
  <2>1. <<Simple("VAL")>> \in Seq(Token)
    BY SimpleType DEF Kinds
  <2> QED
    BY <1>4, <1>7, <2>1, StopCalm DEF Stringify, Running
<1>8. CASE EndSubst
  <2> DEFINE nil == << >>
  <2>1. /\ SetTop([Top EXCEPT !.phase = "paste", !.todo = Top.buf, !.buf = nil])
        /\ nil \in Seq(Token) /\ macros' = macros /\ status' = status
    BY <1>8 DEF EndSubst
  <2> HIDE DEF nil
  <2> QED
    BY <1>1, <1>2, <2>1
<1>9. CASE KeepToken
  <2>1. <<Head(Top.todo)>> \in Seq(Token)
    BY <1>5, <1>9 DEF KeepToken
  <2> QED
    BY <1>4, <1>9, <2>1 DEF KeepToken, Running
<1>10. CASE JoinIdent
  <2> DEFINE todo == <<Ident(Joined)>> \o Rest(Top.todo, 3)
  <2>1. /\ SetTop([Top EXCEPT !.todo = todo]) /\ Top.phase = "paste"
        /\ macros' = macros /\ status' = status
    BY <1>10 DEF JoinIdent, Running
  <2>2. /\ Top.todo[1] \in Token /\ Top.todo[3] \in Token
        /\ Top.todo[1].kind = "IDENT" /\ Top.todo[3].kind = "IDENT"
    BY <1>1, <1>10 DEF JoinIdent, Joins, PasteAt
  <2>3. Joined \in Names
    BY <1>10, <2>2, ConcatAssumption DEF JoinIdent, Joined, Token
  <2>4. Rest(Top.todo, 3) \in Seq(Token)
    BY <1>1, SubSeqProperties DEF Rest
  <2>5. todo \in Seq(Token)
    BY <2>3, <2>4, IdentType, ConcatProperties
  <2> HIDE DEF todo
  <2>6. [Top EXCEPT !.todo = todo]
          = [Top EXCEPT !.phase = Top.phase, !.todo = todo, !.buf = Top.buf]
    BY <1>1 DEF Frame
  <2> QED
    BY <1>1, <1>2, <2>1, <2>5, <2>6
<1>11. CASE JoinKeyword
  <2>1. <<Simple("OP")>> \in Seq(Token)
    BY SimpleType DEF Kinds
  <2> QED
    BY <1>4, <1>11, <2>1, StopCalm DEF JoinKeyword, Running
<1>12. CASE Rescan
  <2> DEFINE g == [Top EXCEPT !.phase = "rescan"]
  <2>1. Expand(g, Top.buf) /\ macros' = macros /\ status' = status
    BY <1>12 DEF Rescan
  <2>2. /\ g \in Frame /\ g.src = Top.src /\ g.phase = "rescan"
        /\ g.stale = Top.stale /\ g.moved = Top.moved
    BY <1>1 DEF Frame, Phases
  <2> HIDE DEF g
  <2>3. IsCalm(g)
    BY <1>1, <2>2 DEF IsCalm, InCall
  <2> QED
    BY <1>1, <2>1, <2>2, <2>3, ExpandCalm, QuietWithoutHash
<1> QED
  BY <1>3, <1>6, <1>7, <1>8, <1>9, <1>10, <1>11, <1>12 DEF Body

LEMMA ReturnStepCalm ==
    ASSUME TypeInv, Calm, Return
    PROVE  Calm'
<1>1. CASE Finish
  BY <1>1, StopCalm DEF Finish
<1>2. /\ Top.stream \in Seq(Token) /\ Len(frames) \in Nat /\ (~Finish => status = "run")
  BY StateType DEF Frame, Return, ReturnObj, ReturnRescan, ReturnFrom, ReturnArg, AtEnd,
                   Reading, Running
<1>3. ASSUME Len(frames) > 1
      PROVE  Caller \in Frame /\ IsCalm(Caller) /\ Caller.src \in Seq(Token) /\ Caller.pos \in Nat
  <2>1. Len(frames) - 1 \in 1..Len(frames)
    BY <1>2, <1>3
  <2>2. Caller \in Frame /\ IsCalm(Caller)
    BY <2>1, StateType DEF Caller, Calm
  <2> QED
    BY <2>2 DEF Frame
<1>4. ASSUME NEW phase, ReturnFrom(phase), status = "run" PROVE Calm'
  <2> DEFINE g == Resumed(Caller, Top.stream)
  <2>1. Len(frames) > 1 /\ ReturnTo(g) /\ macros' = macros /\ status' = status
    BY <1>4 DEF ReturnFrom
  <2>2. g \in Frame /\ g.phase = "scan"
    BY <1>2, <1>3, <2>1, ResumedType
  <2>3. /\ g.src = Caller.src /\ g.arg = << >> /\ g.depth = 0
        /\ g.stale = Caller.stale /\ ~g.moved
    BY DEF Resumed, Activation
  <2> HIDE DEF g
  <2>4. IsCalm(g)
    BY <1>3, <2>1, <2>2, <2>3 DEF IsCalm, InCall
  <2> QED
    BY <1>4, <2>1, <2>2, <2>3, <2>4, ReturnCalm
<1>5. ASSUME ReturnArg, status = "run" PROVE Calm'
  <2> DEFINE phase == IF Caller.phase = "last" THEN "enter" ELSE "args"
             args == [Caller.args EXCEPT ![Caller.param] = Top.stream]
             nil == << >>
             g == [Caller EXCEPT !.phase = phase, !.args = args, !.arg = nil]
  <2>1. /\ Len(frames) > 1 /\ ReturnTo(g) /\ phase \in {"enter", "args"}
        /\ (phase = "args" => Caller.phase = "arg")
        /\ nil \in Seq(Token) /\ nil = << >> /\ macros' = macros /\ status' = status
    BY <1>5 DEF ReturnArg
  <2>2. Caller.args \in [Names -> Seq(Token) \cup {None}]
    BY <1>3, <2>1 DEF Frame
  <2>3. args \in [Names -> Seq(Token) \cup {None}]
    BY <1>2, <2>2
  <2> HIDE DEF phase, args, nil
  <2>4. /\ g \in Frame /\ g.src = Caller.src /\ g.phase = phase /\ g.arg = nil
        /\ g.pos = Caller.pos /\ g.depth = Caller.depth
        /\ g.stale = Caller.stale /\ g.moved = Caller.moved
    BY <1>3, <2>1, <2>3 DEF Frame, Phases
  <2> HIDE DEF g
  <2>5. InCall(g)
    <3>1. CASE phase = "enter"
      BY <2>4, <3>1 DEF InCall
    <3>2. CASE phase = "args"
      <4>1. /\ Caller.pos - 1 <= Len(Caller.src)
            /\ \E open \in 1..(Caller.pos - 1) : Enclosed(Caller, open)
        BY <1>3, <2>1, <3>2 DEF IsCalm, InCall
      <4>2. PICK open \in 1..(Caller.pos - 1) : Enclosed(Caller, open)
        BY <4>1
      <4>3. Enclosed(g, open)
        BY <2>4, <4>2 DEF Enclosed
      <4>4. Gathered(g, Caller.pos)
        BY <1>3, <2>1, <2>4, EmptySlice DEF Gathered
      <4>5. Caller.pos \in (open + 1)..Caller.pos
        BY <1>3, <2>1
      <4> QED
        BY <2>4, <4>1, <4>3, <4>4, <4>5 DEF InCall
    <3> QED
      BY <2>1, <3>1, <3>2
  <2>6. IsCalm(g)
    BY <1>3, <2>1, <2>4, <2>5 DEF IsCalm
  <2> QED
    BY <1>5, <2>1, <2>4, <2>6, ReturnCalm
<1> QED
  BY <1>1, <1>2, <1>4, <1>5 DEF Return, ReturnObj, ReturnRescan

LEMMA InitCalm == Init => CalmInv
<1> SUFFICES ASSUME Init PROVE Calm
  BY DEF CalmInv
<1>1. PICK tokens \in Programs : frames = <<Activation(tokens)>>
  BY DEF Init
<1>2. IsCalm(Activation(tokens))
  BY ProgramsAssumption, ActivationCalm
<1>3. Len(frames) = 1 /\ IsCalm(frames[1])
  BY <1>1, <1>2
<1> QED
  BY <1>3 DEF Calm, Init

LEMMA NextCalm == TypeInv /\ CleanInv /\ CalmInv /\ [Next]_vars => CalmInv'
<1> SUFFICES ASSUME TypeInv, CleanInv, CalmInv, [Next]_vars, DirectivesOnOwnLines(Source)'
             PROVE  Calm'
  BY DEF CalmInv
<1>1. DirectivesOnOwnLines(Source') = DirectivesOnOwnLines(Source)'
  BY DEF DirectivesOnOwnLines, IsDirective, StartsLine, Opened, TokenAt, DefineReads,
         EofToken, Simple
<1>2. Source' = Source
  BY SourceKept DEF Onwards
<1>3. DirectivesOnOwnLines(Source) /\ Calm
  BY <1>1, <1>2 DEF CalmInv
<1>4. CASE TouchStale
  <2>1. IsCalm(Top)
    BY <1>3, CalmTop
  <2> QED
    BY <1>4, <2>1 DEF TouchStale, Reading, Running, IsCalm
<1>5. CASE UNCHANGED vars
  BY <1>3, <1>5 DEF vars, Calm, Top
<1> QED
  BY <1>3, <1>4, <1>5, DirectiveCalm, StepCalm, ArgumentsCalm, BodyCalm, ReturnStepCalm
     DEF Next

LEMMA CalmInvariant == Spec => []CalmInv
<1> QED
  BY InitCalm, NextCalm, TypeInvariant, CleanInvariant, PTL DEF Spec

\* For every program whose definitions stand on lines of their own, outside of any
\* call: no expansion reads a body that a redefinition has freed or a definition that
\* the growing table has moved (pp2_macro.c:302-306, 320); the only undefined
\* behaviour left is that of pasting.
THEOREM NothingFreedIsRead == Spec => []NoStaleUse
<1>1. CalmInv => NoStaleUse
  BY DEF CalmInv, Calm, NoStaleUse
<1> QED
  BY <1>1, CalmInvariant, PTL
-----------------------------------------------------------------------------
(* What is left of the macros.  Every identifier that an activation handles *)
(* can be come to from each object-like macro that is being expanded below  *)
(* it: one of these macros itself, cut off by check_cyclic_macros, can then *)
(* be come to from itself.                                                  *)

\* Everything but the operator ##, which makes identifiers that no body mentions.
Plain == {t \in Token : t.kind # "PASTE"}

\* Each object-like macro in use below the j-th activation can come to n.
MayName(j, n) ==
    \A i \in 1..(j - 1) : frames[i].phase = "obj" => n \in Reachable(frames[i].name)

Allowed(j) == {t \in Plain : t.kind = "IDENT" => MayName(j, t.id)}

\* RemainingMacrosAreCyclic of a token.
Loops(t) == IsMacro(t) /\ ~macros[t.id].fnlike => t.id \in Reachable(t.id)

Kept(S) == {t \in S : Loops(t)}

\* f reads and makes nothing but tokens of S.
Handles(f, S) ==
    /\ f.src \in Seq(S) /\ f.arg \in Seq(S) /\ f.todo \in Seq(S) /\ f.buf \in Seq(S)
    /\ f.args \in [Names -> Seq(S) \cup {None}]
    /\ f.stream \in Seq(Kept(S))

IsTame(f, j) ==
    /\ Handles(f, Allowed(j))
    /\ f.phase # "scan" => MayName(j, f.name) /\ (f.phase # "obj" => macros[f.name].fnlike)

\* No definition is left to be read, or nothing but definitions has been read.
Settled == NoDirectiveIn(Source, frames[1].pos, Len(Source))
Fresh == /\ Len(frames) = 1 /\ Top.phase = "scan" /\ Top.stream = << >>
         /\ StartsLine(Source, Top.pos)

PlainBodies == \A n \in Names : macros[n] # None => macros[n].body \in Seq(Plain)

AllTame == PlainBodies /\ \A j \in 1..Len(frames) : IsTame(frames[j], j)

TameInv == DefinesFirst(Source) /\ ~HasPaste => AllTame /\ (Settled \/ Fresh)

LEMMA SeqWider ==
    ASSUME NEW S, NEW T, S \subseteq T, NEW s \in Seq(S)
    PROVE  s \in Seq(T)
OBVIOUS

LEMMA AllowedFacts ==
    ASSUME NEW j
    PROVE  /\ Allowed(j) \subseteq Token /\ Kept(Allowed(j)) \subseteq Allowed(j)
           /\ \A t \in Allowed(j) : t.kind = "IDENT" => t.id \in Names /\ MayName(j, t.id)
           /\ EofToken \in Allowed(j)
           /\ Simple("VAL") \in Allowed(j) /\ Simple("OP") \in Allowed(j)
<1>1. \A k \in {"EOF", "VAL", "OP"} : Simple(k) \in Allowed(j)
  BY SimpleType DEF Allowed, Plain, Simple, Kinds
<1> QED
  BY <1>1 DEF Allowed, Plain, Kept, Token, EofToken

\* What a macro can come to: all that its body mentions, and so on.
LEMMA ReachableFacts ==
    ASSUME TypeInv, NEW n \in Names
    PROVE  /\ Mentions(n) \subseteq Reachable(n)
           /\ \A a \in Reachable(n) : Mentions(a) \subseteq Reachable(n)
<1>1. \A a \in Names : Mentions(a) \subseteq Names
  <2> TAKE a \in Names
  <2>1. CASE macros[a] = None
    BY <2>1 DEF Mentions
  <2>2. CASE macros[a] # None
    <3>1. macros[a].body \in Seq(Token)
      BY <2>2, StateType DEF MacroDef
    <3>2. \A k \in 1..Len(macros[a].body) :
             macros[a].body[k].kind = "IDENT" => macros[a].body[k].id \in Names
      BY <3>1 DEF Token
    <3> QED
      BY <2>2, <3>2 DEF Mentions
  <2> QED
    BY <2>1, <2>2
<1> QED
  BY <1>1 DEF Reachable

\* The body of a macro mentions what every macro that can come to it can come to.
LEMMA BodyAllowed ==
    ASSUME TypeInv, PlainBodies, NEW j \in Nat \ {0}, j <= Len(frames),
           \A i \in 1..(j - 1) : frames[i].phase = "obj" => frames[i].name \in Names,
           NEW n \in Names, macros[n] # None, MayName(j, n)
    PROVE  /\ macros[n].body \in Seq(Allowed(j))
           /\ macros[n].body \in Seq({t \in Plain : t.kind = "IDENT" => t.id \in Reachable(n)})
<1> DEFINE body == macros[n].body
<1>1. body \in Seq(Plain)
  BY DEF PlainBodies
<1>2. \A k \in 1..Len(body) : body[k].kind = "IDENT" => body[k].id \in Mentions(n)
  BY DEF Mentions
<1> HIDE DEF body
<1>3. \A k \in 1..Len(body) : body[k].kind = "IDENT" =>
         body[k].id \in Reachable(n) /\ MayName(j, body[k].id)
  BY <1>2, ReachableFacts DEF MayName
<1>4. \A k \in 1..Len(body) : body[k] \in Allowed(j)
  BY <1>1, <1>3 DEF Allowed
<1>5. \A k \in 1..Len(body) : body[k] \in {t \in Plain : t.kind = "IDENT" => t.id \in Reachable(n)}
  BY <1>1, <1>3
<1>6. \A S : (\A k \in 1..Len(body) : body[k] \in S) => body \in Seq(S)
  BY <1>1
<1> QED
  BY <1>4, <1>5, <1>6 DEF body

\* What tames an activation depends only on the ones below it.
LEMMA TameKept ==
    ASSUME macros' = macros, NEW j \in Nat \ {0},
           \A i \in 1..(j - 1) :
              frames'[i].phase = frames[i].phase /\ frames'[i].name = frames[i].name,
           IsTame(frames'[j], j)
    PROVE  IsTame(frames[j], j)'
<1>1. \A n : Mentions(n)' = Mentions(n)
  BY DEF Mentions
<1>2. \A n : Reachable(n)' = Reachable(n)
  BY <1>1 DEF Reachable
<1>3. \A n : MayName(j, n)' <=> MayName(j, n)
  BY <1>2 DEF MayName
<1>4. Allowed(j)' = Allowed(j)
  BY <1>3 DEF Allowed
<1>5. \A t : Loops(t)' <=> Loops(t)
  BY <1>2 DEF Loops, IsMacro
<1>6. Kept(Allowed(j))' = Kept(Allowed(j))
  BY <1>4, <1>5 DEF Kept
<1> QED
  BY <1>3, <1>4, <1>6 DEF IsTame, Handles

LEMMA TameTop ==
    ASSUME TypeInv, AllTame
    PROVE  /\ Len(frames) \in Nat \ {0} /\ Top = frames[Len(frames)] /\ IsTame(Top, Len(frames))
           /\ Top \in Frame /\ macros \in [Names -> MacroDef \cup {None}]
<1>1. Len(frames) \in Nat \ {0} /\ Top \in Frame
  BY StateType
<1> QED
  BY <1>1, StateType DEF AllTame, Top

\* The ways a step changes the activations.
LEMMA SetTopTame ==
    ASSUME TypeInv, AllTame, macros' = macros, NEW f \in Frame, SetTop(f),
           IsTame(f, Len(frames))
    PROVE  AllTame'
<1>1. /\ Len(frames) \in Nat \ {0} /\ Len(frames') = Len(frames)
      /\ \A j \in 1..(Len(frames) - 1) : frames'[j] = frames[j]
      /\ frames'[Len(frames)] = f
  BY StateType, SetTopEffect DEF TypeInv, TypeOK
<1>2. ASSUME NEW j \in 1..Len(frames) PROVE IsTame(frames[j], j)'
  <2>1. j \in Nat \ {0} /\ \A i \in 1..(j - 1) : i \in 1..(Len(frames) - 1)
    BY <1>1
  <2>2. IsTame(frames'[j], j)
    <3>1. j = Len(frames) \/ j \in 1..(Len(frames) - 1)
      BY <1>1
    <3> QED
      BY <1>1, <3>1 DEF AllTame
  <2> QED
    BY <1>1, <2>1, <2>2, TameKept
<1> QED
  BY <1>1, <1>2 DEF AllTame, PlainBodies

LEMMA ExpandTame ==
    ASSUME TypeInv, AllTame, macros' = macros, NEW f \in Frame, NEW tokens \in Seq(Token),
           Expand(f, tokens), IsTame(f, Len(frames)), tokens \in Seq(Allowed(Len(frames))),
           f.phase = "obj" =>
              tokens \in Seq({t \in Plain : t.kind = "IDENT" => t.id \in Reachable(f.name)})
    PROVE  AllTame'
<1>0. PICK n \in Nat \ {0} : n = Len(frames)
  BY StateType
<1>1. /\ n \in Nat \ {0} /\ Len(frames') = n + 1
      /\ \A j \in 1..(n - 1) : frames'[j] = frames[j]
      /\ frames'[n] = f /\ frames'[n + 1] = Activation(tokens)
  BY <1>0, StateType, ExpandEffect DEF TypeInv, TypeOK
<1>2. ASSUME NEW j \in 1..n PROVE IsTame(frames[j], j)'
  <2>1. j \in Nat \ {0} /\ \A i \in 1..(j - 1) : i \in 1..(n - 1)
    BY <1>1
  <2>2. IsTame(frames'[j], j)
    <3>1. j = n \/ j \in 1..(n - 1)
      BY <1>1
    <3> QED
      BY <1>0, <1>1, <3>1 DEF AllTame
  <2> QED
    BY <1>1, <2>1, <2>2, TameKept
<1>3. \A a : Reachable(a)' = Reachable(a)
  <2>1. \A a : Mentions(a)' = Mentions(a)
    BY DEF Mentions
  <2> QED
    BY <2>1 DEF Reachable
<1>4. ASSUME NEW k \in 1..Len(tokens) PROVE tokens[k] \in Allowed(n + 1)'
  <2>1. tokens[k] \in Allowed(n)
    BY <1>0
  <2>2. f.phase = "obj" /\ tokens[k].kind = "IDENT" => tokens[k].id \in Reachable(f.name)
    OBVIOUS
  <2>3. ASSUME tokens[k].kind = "IDENT", NEW i \in 1..n, frames'[i].phase = "obj"
        PROVE  tokens[k].id \in Reachable(frames'[i].name)
    <3>1. CASE i = n
      BY <1>1, <2>2, <2>3, <3>1
    <3>2. CASE i # n
      <4>1. i \in 1..(n - 1)
        BY <1>1, <3>2
      <4> QED
        BY <1>1, <2>1, <2>3, <4>1 DEF Allowed, MayName
    <3> QED
      BY <3>1, <3>2
  <2>4. (n + 1) - 1 = n
    BY <1>1
  <2>5. tokens[k].kind = "IDENT" => MayName(n + 1, tokens[k].id)'
    BY <1>3, <2>3, <2>4 DEF MayName
  <2> QED
    BY <2>1, <2>5 DEF Allowed
<1>5. IsTame(frames[n + 1], n + 1)'
  <2> DEFINE S == Allowed(n + 1)'
             K == Kept(Allowed(n + 1))'
  <2>1. tokens \in Seq(S)
    BY <1>4
  <2>2. << >> \in Seq(S) /\ << >> \in Seq(K)
    OBVIOUS
  <2>3. Activation(tokens).args \in [Names -> Seq(S) \cup {None}]
    BY DEF Activation, NoArgs
  <2> HIDE DEF S, K
  <2>4. LET g == Activation(tokens) IN
           /\ g.src = tokens /\ g.arg = << >> /\ g.todo = << >> /\ g.buf = << >>
           /\ g.stream = << >> /\ g.phase = "scan"
    BY DEF Activation
  <2> QED
    BY <1>1, <2>1, <2>2, <2>3, <2>4 DEF IsTame, Handles, S, K
<1> QED
  BY <1>1, <1>2, <1>5 DEF AllTame, PlainBodies

LEMMA ReturnTame ==
    ASSUME TypeInv, AllTame, macros' = macros, Len(frames) > 1, NEW f \in Frame, ReturnTo(f),
           IsTame(f, Len(frames) - 1)
    PROVE  AllTame'
<1>0. PICK n \in Nat \ {0} : n = Len(frames)
  BY StateType
<1>1. /\ n > 1 /\ Len(frames') = n - 1
      /\ \A j \in 1..(n - 2) : frames'[j] = frames[j]
      /\ frames'[n - 1] = f
  BY <1>0, StateType, ReturnEffect DEF TypeInv, TypeOK
<1>2. ASSUME NEW j \in 1..(n - 1) PROVE IsTame(frames[j], j)'
  <2>1. j \in Nat \ {0} /\ \A i \in 1..(j - 1) : i \in 1..(n - 2)
    BY <1>0
  <2>2. IsTame(frames'[j], j)
    <3>1. j = n - 1 \/ (j \in 1..(n - 2) /\ j \in 1..n)
      BY <1>1
    <3> QED
      BY <1>0, <1>1, <3>1 DEF AllTame
  <2> QED
    BY <1>1, <2>1, <2>2, TameKept
<1> QED
  BY <1>1, <1>2 DEF AllTame, PlainBodies

\* A name on macro_stack is that of a macro in use: each of the activations that hold
\* their macros has its own place there, and there are as many as places.
LEMMA HolderOf ==
    ASSUME TypeInv, StackInv, NEW name, Cyclic(name)
    PROVE  \E j \in 1..Len(frames) : frames[j].phase \in Holding /\ frames[j].name = name
<1>0. PICK n \in Nat : n = Len(frames)
  BY StateType
<1>1. PICK k \in 1..Len(macro_stack) : macro_stack[k] = name
  BY DEF Cyclic
<1> DEFINE H == Held(n)
           h == Height(n)
           T == (1..h) \ {k}
           place == [j \in H |-> Height(j)]
<1>2. /\ Len(macro_stack) = h /\ h \in Nat /\ IsFiniteSet(H) /\ Cardinality(H) = h
      /\ \A j \in H : macro_stack[Height(j)] = frames[j].name
  BY <1>0, HeightType DEF StackInv, StackMirrorsCalls, Height
<1>3. \A j \in H : /\ j \in 1..n /\ frames[j].phase \in Holding
                   /\ Height(j) \in Nat /\ Height(j - 1) \in Nat
                   /\ Height(j) = Height(j - 1) + 1
  <2> TAKE j \in H
  <2>1. j \in 1..n /\ frames[j].phase \in Holding
    BY DEF Held
  <2>2. j \in Nat \ {0} /\ j - 1 \in Nat
    BY <2>1
  <2> QED
    BY <2>1, <2>2, HeightType, HeightNext
<1>4. \A i, j \in H : i < j => Height(i) < Height(j)
  <2> SUFFICES ASSUME NEW i \in H, NEW j \in H, i < j PROVE Height(i) < Height(j)
    OBVIOUS
  <2>1. i \in Nat /\ j - 1 \in Nat /\ i <= j - 1
    BY <1>3
  <2>2. Height(i) <= Height(j - 1)
    BY <2>1, HeightMonotone
  <2> QED
    BY <1>3, <2>2
<1>5. SUFFICES ASSUME \A j \in H : Height(j) # k PROVE FALSE
  BY <1>0, <1>1, <1>2, <1>3
<1>6. \A j \in H : Height(j) \in T
  <2> TAKE j \in H
  <2>1. j \in Nat /\ j <= n
    BY <1>3
  <2>2. Height(j) <= h
    BY <2>1, HeightMonotone
  <2> QED
    BY <1>2, <1>3, <1>5, <2>2
<1>7. IsFiniteSet(T) /\ Cardinality(T) < Cardinality(H)
  <2>1. IsFiniteSet(1..h) /\ Cardinality(1..h) = h
    BY <1>2, FS_Interval
  <2>2. k \in 1..h
    BY <1>2
  <2>3. IsFiniteSet(T) /\ Cardinality(T) = h - 1
    BY <2>1, <2>2, FS_RemoveElement
  <2> QED
    BY <1>2, <2>3
<1>8. place \in [H -> T]
  BY <1>6
<1>9. \E i, j \in H : i # j /\ place[i] = place[j]
  <2> HIDE DEF place, T, H
  <2> QED
    BY <1>2, <1>7, <1>8, FS_PigeonHole
<1>10. PICK i \in H, j \in H : i # j /\ Height(i) = Height(j)
  BY <1>9
<1>11. i < j \/ j < i
  BY <1>3, <1>10
<1> QED
  BY <1>3, <1>4, <1>10, <1>11

\* A line that is not a directive and not blank: no definition follows.
LEMMA SettledFirst ==
    ASSUME TypeInv, DefinesFirst(Source), Settled \/ Fresh,
           \/ Tok.kind \notin {"HASH", "NL", "EOF"}
           \/ Top.phase # "scan" \/ Len(frames) > 1
    PROVE  Settled
<1> SUFFICES ASSUME Fresh PROVE Settled
  OBVIOUS
<1>1. /\ Len(frames) = 1 /\ Top.phase = "scan" /\ Top = frames[1] /\ Top.src = Source
      /\ Top.pos \in Nat /\ StartsLine(Source, Top.pos)
  BY StateType DEF Fresh, Top, Source, Frame
<1>2. Tok.kind \notin {"HASH", "NL", "EOF"}
  BY <1>1
<1>3. Top.pos \in 1..Len(Source) /\ Tok = Source[Top.pos]
  BY <1>1, <1>2, EndIsNoDirective DEF Tok, TokenAt
<1>4. Len(Source) \in Nat
  BY <1>1, StateType DEF Frame
<1>5. ASSUME NEW k \in (Top.pos)..Len(Source), IsDirective(Source, k) PROVE FALSE
  <2>1. k # Top.pos
    BY <1>2, <1>3, <1>5 DEF IsDirective
  <2>2. k \in 1..Len(Source) /\ Top.pos \in 1..(k - 1)
    BY <1>3, <1>4, <2>1
  <2>3. Source[Top.pos].kind \in {"HASH", "NL"}
    BY <1>1, <1>5, <2>2 DEF DefinesFirst
  <2> QED
    BY <1>2, <1>3, <2>3
<1> QED
  BY <1>1, <1>5 DEF Settled, NoDirectiveIn

\* Once no definition is left, none comes.
LEMMA SettledKept ==
    ASSUME TypeInv, Settled, [Next]_vars, ~Directive
    PROVE  Settled'
<1>1. Source' = Source /\ frames'[1].pos >= frames[1].pos
  BY SourceKept DEF Onwards
<1>2. frames[1].pos \in Nat /\ frames'[1].pos \in Nat /\ Len(Source) \in Nat
  <2>1. TypeInv'
    BY NextTypeInv
  <2>2. Len(frames) \in Nat \ {0} /\ Len(frames') \in Nat \ {0}
    BY <2>1, StateType DEF TypeInv, TypeOK
  <2>3. frames[1] \in Frame /\ frames'[1] \in Frame
    BY <2>1, <2>2 DEF TypeInv, TypeOK
  <2>4. frames[1].pos \in Nat /\ Source \in Seq(Token)
    BY <2>3 DEF Source, Frame
  <2>5. frames'[1].pos \in Nat
    BY <2>3 DEF Frame
  <2> QED
    BY <2>4, <2>5
<1>3. NoDirectiveIn(Source, frames'[1].pos, Len(Source))
  BY <1>1, <1>2 DEF Settled, NoDirectiveIn
<1> QED
  BY <1>1, <1>3 DEF Settled, NoDirectiveIn, IsDirective

\* A definition comes before all uses of macros: nothing but it is in hand.
LEMMA StoreTame ==
    ASSUME TypeInv, Calm, AllTame, Fresh, Top.src = Source,
           NEW name \in Names, NEW def \in MacroDef, def.body \in Seq(Plain),
           NEW last \in Nat, last <= Len(Source), Store(name, def, last),
           last < Len(Source) => Source[last + 1].kind = "NL"
    PROVE  AllTame' /\ (Settled \/ Fresh)'
<1>1. /\ macros' = [macros EXCEPT ![name] = def] /\ Len(frames') = 1 /\ Len(frames) = 1
      /\ frames'[1].src = frames[1].src /\ frames'[1].stream = frames[1].stream
      /\ frames'[1].phase = frames[1].phase /\ frames'[1].args = frames[1].args
      /\ frames'[1].arg = frames[1].arg /\ frames'[1].todo = frames[1].todo
      /\ frames'[1].buf = frames[1].buf
      /\ frames'[1].pos = After(Source, last + 1)
  <2>1. Len(frames) = 1 /\ 1 \in 1..Len(frames)
    BY DEF Fresh
  <2> QED
    BY <2>1, StoreEffect
<1>2. frames[1].phase = "scan" /\ frames[1].stream = << >> /\ IsTame(frames[1], 1)
  <2>1. Top = frames[1]
    BY <1>1 DEF Top
  <2> QED
    BY <1>1, <2>1, TameTop DEF Fresh
<1>3. Allowed(1)' = Allowed(1)
  BY DEF Allowed, MayName
<1>4. IsTame(frames[1], 1)'
  <2>1. << >> \in Seq(Kept(Allowed(1))')
    OBVIOUS
  <2> QED
    BY <1>1, <1>2, <1>3, <2>1 DEF IsTame, Handles
<1>5. PlainBodies'
  <2>1. macros \in [Names -> MacroDef \cup {None}]
    BY StateType
  <2>2. \A n \in Names : macros'[n] # None => macros'[n].body \in Seq(Plain)
    BY <1>1, <2>1 DEF AllTame, PlainBodies
  <2> QED
    BY <2>2 DEF PlainBodies
<1>6. Source' = Source /\ Top' = frames'[1] /\ Len(Source) \in Nat
  <2>1. frames[1] \in Frame
    BY <1>1, TameTop DEF Top
  <2>2. frames[1].src \in Seq(Token)
    BY <2>1 DEF Frame
  <2> QED
    BY <1>1, <2>2 DEF Source, Top
<1>7. (Settled \/ Fresh)'
  <2>1. CASE last < Len(Source)
    <3>1. frames'[1].pos = last + 2 /\ (last + 2) - 1 = last + 1
      BY <1>1, <1>6, <2>1 DEF After
    <3>2. StartsLine(Source', frames'[1].pos)
      BY <1>6, <2>1, <3>1 DEF StartsLine
    <3>3. Top'.phase = "scan" /\ Top'.stream = << >> /\ StartsLine(Source, Top.pos)'
      BY <1>1, <1>2, <1>6, <3>2 DEF StartsLine
    <3> QED
      BY <1>1, <3>3 DEF Fresh
  <2>2. CASE last = Len(Source)
    <3>1. frames'[1].pos = Len(Source) + 1
      BY <1>1, <1>6, <2>2 DEF After
    <3> QED
      BY <1>6, <3>1 DEF Settled, NoDirectiveIn
  <2> QED
    BY <1>6, <2>1, <2>2
<1> QED
  BY <1>1, <1>4, <1>5, <1>7 DEF AllTame

LEMMA SameTame ==
    ASSUME TypeInv, AllTame, UNCHANGED <<macros, frames>>
    PROVE  AllTame' /\ (Settled \/ Fresh => (Settled \/ Fresh)')
<1>1. ASSUME NEW j \in 1..Len(frames) PROVE IsTame(frames[j], j)'
  <2>1. j \in Nat \ {0} /\ IsTame(frames'[j], j)
    BY StateType DEF AllTame
  <2> QED
    BY <2>1, TameKept
<1>2. AllTame'
  BY <1>1 DEF AllTame, PlainBodies
<1>3. Settled \/ Fresh => (Settled \/ Fresh)'
  BY DEF Settled, Fresh, Source, Top, NoDirectiveIn, IsDirective, StartsLine
<1> QED
  BY <1>2, <1>3

\* Slices of a program without ## are plain.
LEMMA PlainSlice ==
    ASSUME TypeInv, ~HasPaste, NEW first \in Nat \ {0}, NEW last \in Nat, last <= Len(Source)
    PROVE  SubSeq(Source, first, last) \in Seq(Plain)
<1>1. Source \in Seq(Token)
  <2>1. frames[1] \in Frame
    BY StateType
  <2> QED
    BY <2>1 DEF Frame, Source
<1>2. \A k \in first..last : k \in 1..Len(Source)
  BY <1>1
<1>3. \A k \in 1..Len(Source) : Source[k] \in Plain
  BY <1>1 DEF HasPaste, Plain
<1> QED
  BY <1>1, <1>2, <1>3, SubSeqProperties

LEMMA DirectiveTame ==
    ASSUME TypeInv, Calm, ~HasPaste, AllTame, Settled \/ Fresh, Directive
    PROVE  AllTame' /\ (Settled \/ Fresh)'
<1>1. CASE BadDefine \/ StepIf \/ BadDirective
  BY <1>1, SameTame DEF BadDefine, StepIf, BadDirective, Stop
<1>2. CASE DefineObjlike \/ DefineFnlike
  <2>1. PICK first \in Nat \ {0, 1}, last \in Nat, def \in MacroDef :
           /\ last <= Len(Top.src) /\ IsBody(Top.src, first, last)
           /\ def.body = SubSeq(Top.src, first, last)
           /\ Store(NameTok.id, def, last)
    BY <1>2, DefineEffect
  <2>2. /\ NameTok.id \in Names /\ Top.src = Source /\ Len(frames) = 1
        /\ Top.pos \in 1..Len(Source) /\ IsDirective(Source, Top.pos)
    BY <1>2, DefineEffect, DefinesAtSource
  <2>3. Fresh
    <3>1. frames[1].pos = Top.pos
      BY <2>2 DEF Top
    <3>2. ~Settled
      BY <2>2, <3>1 DEF Settled, NoDirectiveIn
    <3> QED
      BY <3>2
  <2>4. def.body \in Seq(Plain)
    BY <2>1, <2>2, PlainSlice
  <2>5. last < Len(Source) => Source[last + 1].kind = "NL"
    BY <2>1, <2>2 DEF IsBody
  <2> QED
    BY <2>1, <2>2, <2>3, <2>4, <2>5, StoreTame
<1> QED
  BY <1>1, <1>2 DEF Directive

\* Blank lines may be read before a definition; whatever else is, settles the macros.
LEMMA SettledNext ==
    ASSUME TypeInv, DefinesFirst(Source), Settled \/ Fresh, Next, ~Directive
    PROVE  (Settled \/ Fresh)'
<1>1. SUFFICES ASSUME ~Settled PROVE (Settled \/ Fresh)'
  BY SettledKept
<1>2. Fresh /\ Tok.kind \in {"HASH", "NL", "EOF"} /\ Top.phase = "scan" /\ ~(Len(frames) > 1)
  BY <1>1, SettledFirst
<1>3. ASSUME UNCHANGED frames PROVE Fresh'
  BY <1>2, <1>3 DEF Fresh, Source, Top, StartsLine
<1>4. CASE Finish \/ TouchStale
  BY <1>3, <1>4 DEF Finish, TouchStale, Stop
<1>5. CASE StepPlain
  <2> DEFINE p == Top.pos
             pos == p + 1
             g == [Top EXCEPT !.pos = pos]
  <2>1. Tok.kind = "NL" /\ SetTop(g) /\ Top \in Frame
    BY <1>2, <1>5, StateType DEF StepPlain
  <2>2. p \in Nat /\ pos \in Nat /\ pos - 1 = p
    BY <2>1 DEF Frame
  <2>3. p \in 1..Len(Top.src) /\ Top.src[p].kind = "NL"
    BY <2>1, EndIsNoDirective DEF Tok, TokenAt
  <2> HIDE DEF p, pos
  <2>4. /\ g \in Frame /\ g.src = Top.src /\ g.phase = Top.phase /\ g.stream = Top.stream
        /\ g.pos = pos
    BY <2>1, <2>2 DEF Frame
  <2> HIDE DEF g
  <2>5. Len(frames) = 1 /\ Top = frames[1] /\ Len(frames') = 1 /\ frames'[1] = g
    <3>1. frames \in Seq(Frame) /\ frames # << >> /\ Len(frames) = 1
      BY <1>2 DEF Fresh, TypeInv, TypeOK
    <3> QED
      BY <2>1, <2>4, <3>1, SetTopEffect DEF Top
  <2>6. Top' = g /\ Source' = Top.src
    BY <2>4, <2>5 DEF Top, Source
  <2>7. StartsLine(Source, Top.pos)'
    BY <2>2, <2>3, <2>4, <2>6 DEF StartsLine
  <2> QED
    BY <1>2, <2>4, <2>5, <2>6, <2>7 DEF Fresh
<1>6. CASE UseAsPlain \/ UseObjlike \/ UseFnlike \/ PoolExhausted
  BY <1>2, <1>6 DEF UseAsPlain, UseObjlike, UseFnlike, PoolExhausted, AtCall, IsMacro
<1>7. CASE Arguments
  BY <1>2, <1>7 DEF Arguments, CollectOpen, CollectClose, CollectInner, CollectPlain,
     CollectEof, UnclosedCall, CommaArg, ExcessArg, LastArg, CloseEmpty, ArgMismatch,
     AtDelimiter, Collecting, Reading, Running
<1>8. CASE Body
  BY <1>2, <1>8 DEF Body, EnterBody, Substitute, Stringify, EndSubst, KeepToken, JoinIdent,
     JoinKeyword, Rescan, Running
<1>9. CASE Return /\ ~Finish
  BY <1>2, <1>9 DEF Return, ReturnObj, ReturnRescan, ReturnFrom, ReturnArg
<1> QED
  BY <1>4, <1>5, <1>6, <1>7, <1>8, <1>9 DEF Next, Step

\* The body of a macro that the innermost activation may use.
LEMMA TameBody ==
    ASSUME TypeInv, AllTame, NEW n \in Names, macros[n] # None, MayName(Len(frames), n)
    PROVE  /\ macros[n].body \in Seq(Allowed(Len(frames)))
           /\ macros[n].body \in Seq({t \in Plain : t.kind = "IDENT" => t.id \in Reachable(n)})
<1>1. PICK m \in Nat \ {0} : m = Len(frames)
  BY StateType
<1>2. \A i \in 1..(m - 1) : frames[i].phase = "obj" => frames[i].name \in Names
  <2>1. \A i \in 1..(m - 1) : i \in 1..Len(frames)
    BY <1>1
  <2> QED
    BY <2>1 DEF TypeInv, CalleesDefined
<1>3. m <= Len(frames) /\ MayName(m, n) /\ PlainBodies
  BY <1>1 DEF AllTame
<1>4. /\ macros[n].body \in Seq(Allowed(m))
      /\ macros[n].body \in Seq({t \in Plain : t.kind = "IDENT" => t.id \in Reachable(n)})
  BY <1>2, <1>3, BodyAllowed
<1> QED
  BY <1>1, <1>4

LEMMA StepTame ==
    ASSUME TypeInv, StackInv, AllTame, Step
    PROVE  AllTame'
<1> DEFINE S == Allowed(Len(frames))
<1>1. /\ Top \in Frame /\ Tok \in Token /\ IsTame(Top, Len(frames)) /\ Handles(Top, S)
      /\ Tok.kind = "IDENT" => Tok.id \in Names
      /\ macros \in [Names -> MacroDef \cup {None}]
  BY TopType, TameTop DEF IsTame
<1>2. Top.pos \in Nat /\ Top.src \in Seq(Token)
  BY <1>1 DEF Frame
<1>3. Tok.kind # "EOF" => Tok \in S
  <2>1. Tok.kind # "EOF" => Top.pos \in 1..Len(Top.src) /\ Tok = Top.src[Top.pos]
    BY EndIsNoDirective DEF Tok, TokenAt
  <2> QED
    BY <1>1, <2>1 DEF Handles
<1>4. ASSUME Tok.kind = "IDENT" PROVE MayName(Len(frames), Tok.id)
  BY <1>3, <1>4 DEF Allowed
<1>5. ASSUME Emit, Top.phase = "scan", Tok.kind # "EOF", Loops(Tok), macros' = macros
      PROVE  AllTame'
  <2> DEFINE out == Append(Top.stream, Tok)
             pos == Top.pos + 1
             g == [Top EXCEPT !.stream = out, !.pos = pos]
  <2>1. out \in Seq(Kept(S)) /\ out \in Seq(Token) /\ pos \in Nat /\ SetTop(g)
    <3>1. Tok \in Kept(S) /\ Top.stream \in Seq(Kept(S)) /\ Top.stream \in Seq(Token)
      BY <1>1, <1>3, <1>5 DEF Kept, Handles, Frame
    <3> HIDE DEF S
    <3> QED
      BY <1>1, <1>2, <1>5, <3>1 DEF Emit
  <2> HIDE DEF out, pos
  <2>2. /\ g \in Frame /\ g.src = Top.src /\ g.phase = "scan" /\ g.arg = Top.arg
        /\ g.todo = Top.todo /\ g.buf = Top.buf /\ g.args = Top.args /\ g.stream = out
    BY <1>1, <1>5, <2>1 DEF Frame
  <2> HIDE DEF g
  <2>3. IsTame(g, Len(frames))
    BY <1>1, <2>1, <2>2 DEF IsTame, Handles
  <2> QED
    BY <1>5, <2>1, <2>2, <2>3, SetTopTame
<1>6. CASE StepPlain
  <2>1. CASE Tok.kind = "NL"
    <3> DEFINE pos == Top.pos + 1
               g == [Top EXCEPT !.pos = pos]
    <3>1. pos \in Nat /\ SetTop(g) /\ macros' = macros
      BY <1>2, <1>6, <2>1 DEF StepPlain
    <3> HIDE DEF pos
    <3>2. /\ g \in Frame /\ g.src = Top.src /\ g.phase = Top.phase /\ g.arg = Top.arg
          /\ g.todo = Top.todo /\ g.buf = Top.buf /\ g.args = Top.args
          /\ g.stream = Top.stream /\ g.name = Top.name
      BY <1>1, <3>1 DEF Frame
    <3> HIDE DEF g
    <3>3. IsTame(g, Len(frames))
      BY <1>1, <3>2 DEF IsTame, Handles
    <3> QED
      BY <3>1, <3>2, <3>3, SetTopTame
  <2>2. CASE Tok.kind # "NL"
    BY <1>5, <1>6, <2>2 DEF StepPlain, Reading, Running, Loops
  <2> QED
    BY <2>1, <2>2
\* What is left of a macro is in use below, and can be come to from there.
<1>7. CASE UseAsPlain
  <2>1. IsMacro(Tok) /\ Tok.kind = "IDENT" /\ Top.phase = "scan" /\ Emit /\ macros' = macros
    BY <1>7 DEF UseAsPlain, IsMacro, Reading, Running
  <2>2. ASSUME ~macros[Tok.id].fnlike PROVE Tok.id \in Reachable(Tok.id)
    <3>1. Cyclic(Tok.id)
      BY <1>7, <2>2 DEF UseAsPlain
    <3>2. PICK j \in 1..Len(frames) : frames[j].phase \in Holding /\ frames[j].name = Tok.id
      BY <3>1, HolderOf
    <3>3. frames[j].phase = "obj"
      BY <2>2, <3>2 DEF AllTame, IsTame, Holding
    <3>4. j \in 1..(Len(frames) - 1)
      <4>1. PICK n \in Nat \ {0} : n = Len(frames)
        BY StateType
      <4>2. j # n
        BY <2>1, <3>3, <4>1 DEF Top
      <4> QED
        BY <4>1, <4>2
    <3> QED
      BY <1>4, <2>1, <3>2, <3>3, <3>4 DEF MayName
  <2> QED
    BY <1>5, <2>1, <2>2 DEF Loops
<1>8. CASE UseObjlike
  <2> DEFINE pos == Top.pos + 1
             g == [Top EXCEPT !.phase = "obj", !.name = Tok.id, !.pos = pos]
             body == macros[Tok.id].body
  <2>1. /\ pos \in Nat /\ Tok.id \in Names /\ body \in Seq(Token)
        /\ Expand(g, body) /\ macros' = macros /\ MayName(Len(frames), Tok.id)
    BY <1>1, <1>2, <1>4, <1>8 DEF UseObjlike, IsMacro, MacroDef
  <2>2. /\ body \in Seq(S)
        /\ body \in Seq({t \in Plain : t.kind = "IDENT" => t.id \in Reachable(Tok.id)})
    BY <1>8, <2>1, TameBody DEF UseObjlike, IsMacro
  <2> HIDE DEF pos, body
  <2>3. /\ g \in Frame /\ g.src = Top.src /\ g.phase = "obj" /\ g.arg = Top.arg
        /\ g.todo = Top.todo /\ g.buf = Top.buf /\ g.args = Top.args
        /\ g.stream = Top.stream /\ g.name = Tok.id
    BY <1>1, <2>1 DEF Frame, Phases
  <2> HIDE DEF g
  <2>4. IsTame(g, Len(frames))
    BY <1>1, <2>1, <2>3 DEF IsTame, Handles
  <2> QED
    BY <2>1, <2>2, <2>3, <2>4, ExpandTame
<1>9. CASE UseFnlike
  <2> DEFINE pos == Top.pos + 2
             g == [Top EXCEPT !.phase = "args", !.name = Tok.id, !.pos = pos]
  <2>1. /\ pos \in Nat /\ Tok.id \in Names /\ SetTop(g) /\ macros' = macros
        /\ MayName(Len(frames), Tok.id) /\ macros[Tok.id].fnlike
    BY <1>1, <1>2, <1>4, <1>9 DEF UseFnlike, AtCall, IsMacro
  <2> HIDE DEF pos
  <2>2. /\ g \in Frame /\ g.src = Top.src /\ g.phase = "args" /\ g.arg = Top.arg
        /\ g.todo = Top.todo /\ g.buf = Top.buf /\ g.args = Top.args
        /\ g.stream = Top.stream /\ g.name = Tok.id
    BY <1>1, <2>1 DEF Frame, Phases
  <2> HIDE DEF g
  <2>3. IsTame(g, Len(frames))
    BY <1>1, <2>1, <2>2 DEF IsTame, Handles
  <2> QED
    BY <2>1, <2>2, <2>3, SetTopTame
<1>10. CASE PoolExhausted
  BY <1>10, SameTame DEF PoolExhausted, Stop
<1> QED
  BY <1>6, <1>7, <1>8, <1>9, <1>10 DEF Step

\* A step of the innermost activation on tokens that it handles already.
LEMMA InHandTame ==
    ASSUME TypeInv, AllTame, macros' = macros, NEW f \in Frame, SetTop(f),
           Handles(f, Allowed(Len(frames))), f.phase # "scan", f.phase # "obj",
           Top.phase # "scan", Top.phase # "obj", f.name = Top.name
    PROVE  AllTame'
<1>1. IsTame(f, Len(frames))
  BY TameTop DEF IsTame
<1> QED
  BY <1>1, SetTopTame

\* An activation that expands what the innermost one has in hand.
LEMMA HandOverTame ==
    ASSUME TypeInv, AllTame, macros' = macros, NEW f \in Frame,
           NEW tokens \in Seq(Token), tokens \in Seq(Allowed(Len(frames))), Expand(f, tokens),
           Handles(f, Allowed(Len(frames))), f.phase # "scan", f.phase # "obj",
           Top.phase # "scan", Top.phase # "obj", f.name = Top.name
    PROVE  AllTame'
<1>1. IsTame(f, Len(frames))
  BY TameTop DEF IsTame
<1> QED
  BY <1>1, ExpandTame

LEMMA ArgumentsTame ==
    ASSUME TypeInv, AllTame, Arguments
    PROVE  AllTame'
<1> DEFINE S == Allowed(Len(frames))
<1>1. /\ Top \in Frame /\ Tok \in Token /\ Handles(Top, S) /\ Top.phase = "args"
      /\ Callee \in MacroDef
  <2>1. Top.phase = "args"
    BY DEF Arguments, CollectOpen, CollectClose, CollectInner, CollectPlain, CollectEof,
           UnclosedCall, CommaArg, ExcessArg, LastArg, CloseEmpty, ArgMismatch, AtDelimiter,
           Collecting, Reading, Running
  <2> QED
    BY <2>1, TameTop, StateType DEF IsTame
<1>2. /\ Top.depth \in Nat /\ Top.argnum \in Nat /\ Top.arg \in Seq(Token)
      /\ Top.pos \in Nat /\ Top.src \in Seq(Token)
  BY <1>1 DEF Frame
<1>3. Callee.argnames \in Seq(Names) /\ Len(Callee.argnames) \in Nat
  BY <1>1 DEF MacroDef
<1>4. Tok.kind # "EOF" => Tok \in S
  <2>1. Tok.kind # "EOF" => Top.pos \in 1..Len(Top.src) /\ Tok = Top.src[Top.pos]
    BY EndIsNoDirective DEF Tok, TokenAt
  <2> QED
    BY <1>1, <2>1 DEF Handles
<1>5. ASSUME NEW e \in Nat, Collect(e), Tok.kind # "EOF" PROVE AllTame'
  <2> DEFINE arg == Append(Top.arg, Tok)
             pos == Top.pos + 1
             g == [Top EXCEPT !.arg = arg, !.depth = e, !.pos = pos]
  <2>1. SetTop(g) /\ macros' = macros /\ pos \in Nat
    BY <1>2, <1>5 DEF Collect
  <2>2. arg \in Seq(S) /\ arg \in Seq(Token)
    <3>1. Top.arg \in Seq(S) /\ Tok \in S
      BY <1>1, <1>4, <1>5 DEF Handles
    <3> HIDE DEF S
    <3> QED
      BY <1>1, <1>2, <3>1
  <2> HIDE DEF arg, pos
  <2>3. /\ g \in Frame /\ g.src = Top.src /\ g.phase = "args" /\ g.arg = arg
        /\ g.todo = Top.todo /\ g.buf = Top.buf /\ g.args = Top.args
        /\ g.stream = Top.stream /\ g.name = Top.name
    BY <1>1, <2>1, <2>2, <1>5 DEF Frame
  <2> HIDE DEF g
  <2>4. Handles(g, S)
    BY <1>1, <2>2, <2>3 DEF Handles
  <2> QED
    BY <1>1, <2>1, <2>3, <2>4, InHandTame
<1>6. CASE CollectOpen \/ CollectClose \/ CollectInner \/ CollectPlain
  <2>1. Top.depth + 1 \in Nat /\ (Top.depth > 0 => Top.depth - 1 \in Nat) /\ 0 \in Nat
    BY <1>2
  <2> QED
    BY <1>2, <1>5, <1>6, <2>1 DEF CollectOpen, CollectClose, CollectInner, CollectPlain
<1>7. CASE CollectEof
  <2> DEFINE arg == IF Top.arg # << >> /\ Top.arg[Len(Top.arg)] = EofToken THEN Top.arg
                    ELSE Append(Top.arg, EofToken)
             g == [Top EXCEPT !.arg = arg]
  <2>1. SetTop(g) /\ macros' = macros
    BY <1>1, <1>7 DEF CollectEof, Frame
  <2>2. arg \in Seq(S) /\ arg \in Seq(Token)
    <3>1. Top.arg \in Seq(S) /\ EofToken \in S /\ EofToken \in Token
      BY <1>1, AllowedFacts, EndIsNoDirective DEF Handles
    <3> HIDE DEF S
    <3> QED
      BY <1>2, <3>1
  <2> HIDE DEF arg
  <2>3. /\ g \in Frame /\ g.src = Top.src /\ g.phase = "args" /\ g.arg = arg
        /\ g.todo = Top.todo /\ g.buf = Top.buf /\ g.args = Top.args
        /\ g.stream = Top.stream /\ g.name = Top.name
    BY <1>1, <2>2 DEF Frame
  <2> HIDE DEF g
  <2>4. Handles(g, S)
    BY <1>1, <2>2, <2>3 DEF Handles
  <2> QED
    BY <1>1, <2>1, <2>3, <2>4, InHandTame
<1>8. ASSUME NEW phase \in {"arg", "last"}, PushArg(phase), Top.argnum + 1 \in 1..Len(Callee.argnames)
      PROVE  AllTame'
  <2> DEFINE pos == Top.pos + 1
             argnum == Top.argnum + 1
             param == Callee.argnames[Top.argnum + 1]
             g == [Top EXCEPT !.phase = phase, !.pos = pos, !.argnum = argnum, !.param = param]
  <2>1. /\ Expand(g, Top.arg) /\ macros' = macros /\ pos \in Nat /\ argnum \in Nat
        /\ param \in Names
    BY <1>2, <1>3, <1>8 DEF PushArg
  <2> HIDE DEF pos, argnum, param
  <2>2. /\ g \in Frame /\ g.src = Top.src /\ g.phase = phase /\ g.arg = Top.arg
        /\ g.todo = Top.todo /\ g.buf = Top.buf /\ g.args = Top.args
        /\ g.stream = Top.stream /\ g.name = Top.name
    BY <1>1, <1>8, <2>1 DEF Frame, Phases
  <2> HIDE DEF g
  <2>3. Handles(g, S) /\ Top.arg \in Seq(S)
    BY <1>1, <2>2 DEF Handles
  <2> QED
    BY <1>1, <1>2, <1>8, <2>1, <2>2, <2>3, HandOverTame
<1>9. CASE CommaArg \/ LastArg
  <2>1. Top.argnum + 1 \in 1..Len(Callee.argnames)
    BY <1>2, <1>3, <1>9 DEF CommaArg, LastArg
  <2> QED
    BY <1>8, <1>9, <2>1 DEF CommaArg, LastArg
<1>10. CASE CloseEmpty
  <2> DEFINE pos == Top.pos + 1
             g == [Top EXCEPT !.phase = "enter", !.pos = pos]
  <2>1. SetTop(g) /\ macros' = macros /\ pos \in Nat
    BY <1>2, <1>10 DEF CloseEmpty
  <2> HIDE DEF pos
  <2>2. /\ g \in Frame /\ g.src = Top.src /\ g.phase = "enter" /\ g.arg = Top.arg
        /\ g.todo = Top.todo /\ g.buf = Top.buf /\ g.args = Top.args
        /\ g.stream = Top.stream /\ g.name = Top.name
    BY <1>1, <2>1 DEF Frame, Phases
  <2> HIDE DEF g
  <2>3. Handles(g, S)
    BY <1>1, <2>2 DEF Handles
  <2> QED
    BY <1>1, <2>1, <2>2, <2>3, InHandTame
<1>11. CASE UnclosedCall \/ ExcessArg \/ ArgMismatch
  BY <1>11, SameTame DEF UnclosedCall, ExcessArg, ArgMismatch, Stop
<1> QED
  BY <1>6, <1>7, <1>9, <1>10, <1>11 DEF Arguments

LEMMA BodyTame ==
    ASSUME TypeInv, AllTame, Body
    PROVE  AllTame'
<1> DEFINE S == Allowed(Len(frames))
<1>1. /\ Top \in Frame /\ Handles(Top, S) /\ Top.phase \in {"enter", "subst", "paste"}
      /\ Top.todo \in Seq(S) /\ Top.buf \in Seq(S) /\ MayName(Len(frames), Top.name)
  <2>1. Top.phase \in {"enter", "subst", "paste"}
    BY DEF Body, EnterBody, Substitute, Stringify, EndSubst, KeepToken, JoinIdent,
           JoinKeyword, Rescan, Running
  <2> QED
    BY <2>1, TameTop DEF IsTame, Handles
<1>2. \A s \in Seq(S) : s \in Seq(Token)
  <2>1. S \subseteq Token
    BY AllowedFacts
  <2> HIDE DEF S
  <2> QED
    BY <2>1, SeqWider
<1>3. ASSUME NEW phase \in {"subst", "paste"}, NEW todo \in Seq(S), NEW buf \in Seq(S),
             SetTop([Top EXCEPT !.phase = phase, !.todo = todo, !.buf = buf]),
             macros' = macros
      PROVE  AllTame'
  <2> DEFINE g == [Top EXCEPT !.phase = phase, !.todo = todo, !.buf = buf]
  <2>1. todo \in Seq(Token) /\ buf \in Seq(Token) /\ SetTop(g)
    BY <1>2, <1>3
  <2>2. /\ g \in Frame /\ g.src = Top.src /\ g.phase = phase /\ g.arg = Top.arg
        /\ g.todo = todo /\ g.buf = buf /\ g.args = Top.args
        /\ g.stream = Top.stream /\ g.name = Top.name
    BY <1>1, <1>3, <2>1 DEF Frame, Phases
  <2> HIDE DEF g
  <2>3. Handles(g, S)
    BY <1>1, <1>3, <2>2 DEF Handles
  <2> QED
    BY <1>1, <1>3, <2>1, <2>2, <2>3, InHandTame
<1>4. CASE EnterBody
  <2> DEFINE todo == Callee.body
  <2>1. todo \in Seq(S)
    <3>1. Top.name \in Names /\ macros[Top.name] # None
      BY <1>1, StateType
    <3> QED
      BY <1>1, <3>1, TameBody DEF Callee
  <2>2. SetTop([Top EXCEPT !.phase = "subst", !.todo = todo]) /\ macros' = macros
    BY <1>4 DEF EnterBody
  <2> HIDE DEF todo, S
  <2>3. [Top EXCEPT !.phase = "subst", !.todo = todo]
          = [Top EXCEPT !.phase = "subst", !.todo = todo, !.buf = Top.buf]
    BY <1>1 DEF Frame
  <2> QED
    BY <1>1, <1>3, <2>1, <2>2, <2>3
<1>5. ASSUME NEW k \in Nat, NEW out \in Seq(S), Processed(k, out),
             Top.phase \in {"subst", "paste"}
      PROVE  AllTame'
  <2> DEFINE todo == Rest(Top.todo, k)
             buf == Top.buf \o out
  <2>1. SetTop([Top EXCEPT !.todo = todo, !.buf = buf]) /\ macros' = macros
    BY <1>5 DEF Processed
  <2> HIDE DEF S
  <2>2. buf \in Seq(S) /\ todo \in Seq(S)
    <3>1. Len(Top.todo) \in Nat /\ k + 1 \in Nat \ {0}
      BY <1>1
    <3>2. \A i \in (k + 1)..Len(Top.todo) : Top.todo[i] \in S
      BY <1>1
    <3> QED
      BY <1>1, <1>5, <3>1, <3>2, SubSeqProperties, ConcatProperties DEF Rest
  <2> HIDE DEF todo, buf
  <2>3. [Top EXCEPT !.todo = todo, !.buf = buf]
          = [Top EXCEPT !.phase = Top.phase, !.todo = todo, !.buf = buf]
    BY <1>1 DEF Frame
  <2> QED
    BY <1>3, <1>5, <2>1, <2>2, <2>3
<1>6. ASSUME Top.todo # << >> PROVE <<Head(Top.todo)>> \in Seq(S) /\ Head(Top.todo) \in S
  <2> HIDE DEF S
  <2> QED
    BY <1>1, <1>6
<1>7. CASE Substitute
  <2> DEFINE t == Head(Top.todo)
             out == IF IsParam(t) THEN Top.args[t.id] ELSE <<t>>
  <2>1. t \in S /\ <<t>> \in Seq(S) /\ Processed(1, out) /\ Top.phase = "subst"
    BY <1>6, <1>7 DEF Substitute, Running
  <2>2. out \in Seq(S)
    <3>1. Top.args \in [Names -> Seq(S) \cup {None}] /\ (t.kind = "IDENT" => t.id \in Names)
      BY <1>1, <2>1, AllowedFacts DEF Handles
    <3> HIDE DEF S
    <3> QED
      BY <2>1, <3>1 DEF IsParam
  <2> HIDE DEF out
  <2> QED
    BY <1>5, <2>1, <2>2
<1>8. CASE Stringify
  <2>1. Simple("VAL") \in S
    BY AllowedFacts
  <2>2. <<Simple("VAL")>> \in Seq(S)
    <3> HIDE DEF S
    <3> QED
      BY <2>1
  <2> QED
    BY <1>5, <1>8, <2>2, SameTame DEF Stringify, Running, Stop
<1>9. CASE EndSubst
  <2> DEFINE nil == << >>
  <2>1. /\ SetTop([Top EXCEPT !.phase = "paste", !.todo = Top.buf, !.buf = nil])
        /\ nil \in Seq(S) /\ macros' = macros
    BY <1>9 DEF EndSubst
  <2> HIDE DEF nil, S
  <2> QED
    BY <1>1, <1>3, <2>1
<1>10. CASE KeepToken
  <2>1. <<Head(Top.todo)>> \in Seq(S) /\ Top.phase = "paste" /\ Processed(1, <<Head(Top.todo)>>)
    BY <1>6, <1>10 DEF KeepToken, Running
  <2> HIDE DEF S
  <2> QED
    BY <1>5, <2>1
\* Without ## in the program nothing is joined.
<1>11. ~JoinIdent /\ ~JoinKeyword
  <2>1. \A k \in 1..Len(Top.todo) : Top.todo[k].kind # "PASTE"
    <3>1. \A t \in S : t.kind # "PASTE"
      BY DEF Allowed, Plain
    <3> HIDE DEF S
    <3> QED
      BY <1>1, <3>1
  <2>2. PasteAt(Top.todo, 2) => 2 \in 1..Len(Top.todo)
    BY <1>1 DEF PasteAt
  <2> QED
    BY <2>1, <2>2 DEF JoinIdent, JoinKeyword, Joins, PasteAt
<1>12. CASE Rescan
  <2> DEFINE g == [Top EXCEPT !.phase = "rescan"]
  <2>1. Expand(g, Top.buf) /\ macros' = macros /\ Top.buf \in Seq(Token)
    BY <1>1, <1>2, <1>12 DEF Rescan
  <2>2. /\ g \in Frame /\ g.src = Top.src /\ g.phase = "rescan" /\ g.arg = Top.arg
        /\ g.todo = Top.todo /\ g.buf = Top.buf /\ g.args = Top.args
        /\ g.stream = Top.stream /\ g.name = Top.name
    BY <1>1 DEF Frame, Phases
  <2> HIDE DEF g
  <2>3. Handles(g, S)
    BY <1>1, <2>2 DEF Handles
  <2> QED
    BY <1>1, <2>1, <2>2, <2>3, HandOverTame
<1> QED
  BY <1>4, <1>7, <1>8, <1>9, <1>10, <1>11, <1>12 DEF Body

\* What an activation may put out, the one below it may.
LEMMA AllowedBelow ==
    ASSUME NEW j \in Nat \ {0}
    PROVE  Allowed(j + 1) \subseteq Allowed(j) /\ Kept(Allowed(j + 1)) \subseteq Kept(Allowed(j))
<1>1. \A n : MayName(j + 1, n) => MayName(j, n)
  BY DEF MayName
<1> QED
  BY <1>1 DEF Allowed, Kept

LEMMA ReturnStepTame ==
    ASSUME TypeInv, AllTame, Return
    PROVE  AllTame'
<1>1. CASE Finish
  BY <1>1, SameTame DEF Finish, Stop
<1>2. PICK n \in Nat \ {0} : n = Len(frames)
  BY StateType
<1> DEFINE S == Allowed(n - 1)
\* What is returned, and to whom.
<1>3. ASSUME n > 1
      PROVE  /\ Caller \in Frame /\ IsTame(Caller, n - 1) /\ Handles(Caller, S)
             /\ Top.stream \in Seq(Kept(S)) /\ Top.stream \in Seq(S) /\ Top.stream \in Seq(Token)
  <2>1. n - 1 \in 1..Len(frames) /\ n - 1 \in Nat \ {0} /\ (n - 1) + 1 = n
    BY <1>2, <1>3
  <2>2. Caller \in Frame /\ IsTame(Caller, n - 1)
    BY <1>2, <2>1, StateType DEF Caller, AllTame
  <2>3. Top.stream \in Seq(Kept(Allowed(n)))
    BY <1>2, TameTop DEF IsTame, Handles
  <2>4. Kept(Allowed(n)) \subseteq Kept(S) /\ Kept(S) \subseteq S /\ S \subseteq Token
    BY <2>1, AllowedBelow, AllowedFacts
  <2> HIDE DEF S
  <2>5. Top.stream \in Seq(Kept(S))
    BY <2>3, <2>4, SeqWider
  <2>6. Top.stream \in Seq(S)
    BY <2>4, <2>5, SeqWider
  <2>7. Top.stream \in Seq(Token)
    BY <2>4, <2>6, SeqWider
  <2> QED
    BY <2>2, <2>5, <2>6, <2>7 DEF IsTame, S
<1>4. ASSUME NEW phase, ReturnFrom(phase) PROVE AllTame'
  <2> DEFINE out == Caller.stream \o Top.stream
             g == Resumed(Caller, Top.stream)
  <2>1. n > 1 /\ ReturnTo(g) /\ macros' = macros
    BY <1>2, <1>4 DEF ReturnFrom
  <2>2. g \in Frame /\ g.phase = "scan"
    BY <1>3, <2>1, ResumedType
  <2>3. /\ g.src = Caller.src /\ g.arg = << >> /\ g.todo = << >> /\ g.buf = << >>
        /\ g.args = NoArgs /\ g.stream = out
    BY DEF Resumed, Activation
  <2>4. Handles(Caller, S) /\ Top.stream \in Seq(Kept(S))
    BY <1>3, <2>1
  <2> HIDE DEF g, S
  <2>5. out \in Seq(Kept(S))
    BY <2>4, ConcatProperties DEF Handles
  <2> HIDE DEF out
  <2>6. Handles(g, S)
    <3>1. NoArgs \in [Names -> Seq(S) \cup {None}] /\ << >> \in Seq(S)
      BY DEF NoArgs
    <3> QED
      BY <2>3, <2>4, <2>5, <3>1 DEF Handles
  <2>7. IsTame(g, n - 1)
    BY <2>2, <2>6 DEF IsTame, S
  <2> QED
    BY <1>2, <2>1, <2>2, <2>7, ReturnTame
<1>5. CASE ReturnArg
  <2> DEFINE phase == IF Caller.phase = "last" THEN "enter" ELSE "args"
             args == [Caller.args EXCEPT ![Caller.param] = Top.stream]
             nil == << >>
             g == [Caller EXCEPT !.phase = phase, !.args = args, !.arg = nil]
  <2>1. /\ n > 1 /\ ReturnTo(g) /\ phase \in {"enter", "args"} /\ macros' = macros
        /\ nil \in Seq(S) /\ nil \in Seq(Token) /\ Caller.phase \in {"arg", "last"}
    BY <1>2, <1>5 DEF ReturnArg
  <2>2. Handles(Caller, S) /\ Top.stream \in Seq(S) /\ Top.stream \in Seq(Token) /\ Caller \in Frame
    BY <1>3, <2>1
  <2>3. args \in [Names -> Seq(S) \cup {None}] /\ args \in [Names -> Seq(Token) \cup {None}]
    <3>1. /\ Caller.args \in [Names -> Seq(S) \cup {None}]
          /\ Caller.args \in [Names -> Seq(Token) \cup {None}]
      BY <2>2 DEF Handles, Frame
    <3> HIDE DEF S
    <3> QED
      BY <2>2, <3>1
  <2> HIDE DEF phase, args, nil
  <2>4. /\ g \in Frame /\ g.src = Caller.src /\ g.phase = phase /\ g.arg = nil
        /\ g.todo = Caller.todo /\ g.buf = Caller.buf /\ g.args = args
        /\ g.stream = Caller.stream /\ g.name = Caller.name
    BY <2>1, <2>2, <2>3 DEF Frame, Phases
  <2> HIDE DEF g
  <2>5. Handles(g, S)
    BY <2>1, <2>2, <2>3, <2>4 DEF Handles
  <2>6. IsTame(g, n - 1)
    BY <1>3, <2>1, <2>4, <2>5 DEF IsTame
  <2> QED
    BY <1>2, <2>1, <2>4, <2>6, ReturnTame
<1> QED
  BY <1>1, <1>4, <1>5 DEF Return, ReturnObj, ReturnRescan

LEMMA InitTame == Init => TameInv
<1> SUFFICES ASSUME Init, ~HasPaste PROVE AllTame /\ Fresh
  BY DEF TameInv
<1>1. PICK tokens \in Programs : frames = <<Activation(tokens)>>
  BY DEF Init
<1>2. /\ Len(frames) = 1 /\ frames[1] = Activation(tokens) /\ Source = tokens
      /\ tokens \in Seq(Token)
  BY <1>1, ProgramsAssumption DEF Source, Activation
<1>3. \A k \in 1..Len(tokens) : tokens[k] \in Allowed(1)
  BY <1>2 DEF HasPaste, Allowed, Plain, MayName
<1>4. Handles(Activation(tokens), Allowed(1))
  <2>1. tokens \in Seq(Allowed(1))
    BY <1>2, <1>3
  <2> QED
    BY <2>1 DEF Handles, Activation, NoArgs
<1>5. IsTame(frames[1], 1)
  BY <1>2, <1>4 DEF IsTame, Activation
<1>6. Fresh
  BY <1>2 DEF Fresh, Top, Activation, StartsLine
<1> QED
  BY <1>2, <1>5, <1>6 DEF AllTame, PlainBodies, Init

LEMMA NextTame == TypeInv /\ StackInv /\ CalmInv /\ TameInv /\ [Next]_vars => TameInv'
<1> SUFFICES ASSUME TypeInv, StackInv, CalmInv, TameInv, [Next]_vars,
                    DefinesFirst(Source)', ~HasPaste'
             PROVE  AllTame' /\ (Settled \/ Fresh)'
  BY DEF TameInv
<1>1. Source' = Source
  BY SourceKept DEF Onwards
<1>2. DefinesFirst(Source)' = DefinesFirst(Source')
  BY DEF DefinesFirst, DirectivesOnOwnLines, IsDirective, StartsLine, Opened, TokenAt,
         DefineReads, EofToken, Simple
<1>3. DefinesFirst(Source) /\ ~HasPaste
  BY <1>1, <1>2 DEF HasPaste
<1>4. Calm /\ AllTame /\ (Settled \/ Fresh)
  BY <1>3 DEF CalmInv, TameInv, DefinesFirst
<1>5. CASE Directive
  BY <1>3, <1>4, <1>5, DirectiveTame
<1>6. CASE TouchStale \/ UNCHANGED vars
  BY <1>4, <1>6, SameTame DEF TouchStale, Stop, vars
<1>7. CASE Next /\ ~Directive
  <2>1. (Settled \/ Fresh)'
    BY <1>3, <1>4, <1>7, SettledNext
  <2> QED
    BY <1>4, <1>6, <1>7, <2>1, StepTame, ArgumentsTame, BodyTame, ReturnStepTame DEF Next
<1> QED
  BY <1>5, <1>6, <1>7

LEMMA TameInvariant == Spec => []TameInv
BY InitTame, NextTame, TypeInvariant, StackInvariant, CalmInvariant, PTL DEF Spec

\* For every program that defines its macros first and pastes nothing: an object-like
\* macro left in the output is one whose expansion comes back to itself; all others
\* have been expanded, those in arguments and in rescanned bodies too
\* (pp2_macro.c:8-9, 340).
THEOREM OnlyCyclicMacrosRemain == Spec => []RemainingMacrosAreCyclic
<1>1. TypeInv /\ TameInv => RemainingMacrosAreCyclic
  <2> SUFFICES ASSUME TypeInv, AllTame, NEW k \in 1..Len(Top.stream) PROVE Loops(Top.stream[k])
    BY DEF TameInv, RemainingMacrosAreCyclic, Loops
  <2>1. Top.stream \in Seq(Kept(Allowed(Len(frames))))
    BY TameTop DEF IsTame, Handles
  <2>2. Top.stream[k] \in Kept(Allowed(Len(frames)))
    BY <2>1
  <2> QED
    BY <2>2 DEF Kept
<1> QED
  BY <1>1, TypeInvariant, TameInvariant, PTL
=============================================================================
