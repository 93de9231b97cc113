------------------------- MODULE Preprocess1_proofs -------------------------
(***************************************************************************)
(* Theorems about Preprocess1, for every source, every set of files that   *)
(* include each other in any way, with assertions and without.             *)
(***************************************************************************)
EXTENDS Preprocess1, NatInduction, TLAPS, FiniteSetTheorems, SequenceTheorems

\* Preprocessing may stop with a file just put on included_files.
InDepth == Len(stack) <= Len(included) + 1

\* The inductive invariant: the parts state each other's conditions.
PP1Inv == TypeOK /\ IncludesAreOpen /\ InDepth

\* A file is included once.
OnceEach(s) == \A i, k \in 1..Len(s) : s[i] = s[k] => i = k

\* The activations st are those of the files inc.
InStep(inc, st) ==
    /\ Len(inc) = Len(st) - 1
    /\ \A k \in 1..Len(inc) : st[k + 1].src = Contents(inc[k])

LEMMA IncludesAre ==
    IncludesAreOpen <=> /\ OnceEach(included)
                        /\ status = "running" => /\ InStep(included, stack)
                                                 /\ ~ndebug => pool = 2 * Len(stack) - 1
BY DEF IncludesAreOpen, OnceEach, InStep

LEMMA StateType ==
    ASSUME TypeOK
    PROVE  /\ stack \in Seq(Activation) /\ Len(stack) \in Nat \ {0}
           /\ Top \in Activation /\ Top = stack[Len(stack)]
           /\ Top.src \in Seq(Chars) /\ Len(Top.src) \in Nat /\ Top.id \in Nat
           /\ Top.out \in Seq(Chars)
           /\ included \in Seq(Paths) /\ Len(included) \in Nat
           /\ pool \in Nat /\ ndebug \in BOOLEAN
<1>1. stack \in Seq(Activation) /\ Len(stack) \in Nat \ {0}
  BY EmptySeq DEF TypeOK
<1>2. Top \in Activation /\ Top = stack[Len(stack)]
  BY <1>1, ElementOfSeq DEF Top
<1>3. Top.src \in Seq(Chars) /\ Top.id \in Nat /\ Top.out \in Seq(Chars)
  BY <1>2 DEF Activation
<1>4. Len(Top.src) \in Nat
  BY <1>3
<1>5. included \in Seq(Paths) /\ Len(included) \in Nat
  BY DEF TypeOK
<1>6. pool \in Nat /\ ndebug \in BOOLEAN
  BY PP1Assumption DEF TypeOK
<1> QED
  BY <1>1, <1>2, <1>3, <1>4, <1>5, <1>6

LEMMA CharTypes ==
    /\ "sp" \in Chars
    /\ \A f \in Paths : Contents(f) \in Seq(Chars)
    /\ \A src \in Seq(Chars), t \in BOOLEAN :
          Start(src, t) \in Activation /\ Start(src, t).src = src
<1>1. "sp" \in Chars
  BY DEF Chars, Special
<1>2. << >> \in Seq(Chars)
  OBVIOUS
<1>3. \A f \in Paths : Contents(f) \in Seq(Chars)
  BY <1>2, PP1Assumption DEF Contents, Paths
<1>4. \A src \in Seq(Chars), t \in BOOLEAN :
         Start(src, t) \in Activation /\ Start(src, t).src = src
  BY <1>2 DEF Start, Activation
<1> QED
  BY <1>1, <1>3, <1>4

LEMMA CurrentType ==
    ASSUME TypeOK, Current # EOF
    PROVE  Current \in Chars
<1>1. /\ Top.src \in Seq(Chars) /\ Current = Top.src[Top.id] /\ Top.id \in 1..Len(Top.src)
  BY StateType DEF Current, CharAt
<1> QED
  BY <1>1, ElementOfSeq

-----------------------------------------------------------------------------
(* Steps that end in the same way keep the invariant in the same way.       *)

LEMMA InitInv == Init => PP1Inv
<1> SUFFICES ASSUME Init PROVE PP1Inv
  OBVIOUS
<1>1. PICK src \in Sources, t \in BOOLEAN : stack = <<Start(src, t)>>
  BY DEF Init
<1>2. Start(src, t) \in Activation
  BY CharTypes, PP1Assumption
<1>3. stack \in Seq(Activation) /\ stack # << >> /\ Len(stack) = 1
  BY <1>1, <1>2
<1>4. included = << >> /\ Len(included) = 0 /\ pool = 1 /\ ndebug \in BOOLEAN
  BY DEF Init
<1>5. TypeOK
  BY <1>3, <1>4, PP1Assumption DEF Init, TypeOK, Statuses
<1>6. OnceEach(included) /\ InStep(included, stack) /\ pool = 2 * Len(stack) - 1
  BY <1>3, <1>4 DEF OnceEach, InStep
<1>7. InDepth
  BY <1>3, <1>4 DEF InDepth
<1> QED
  BY <1>5, <1>6, <1>7, IncludesAre DEF PP1Inv

\* The running activation goes on in its source.
LEMMA StepInv ==
    ASSUME PP1Inv, status = "running", NEW a \in Activation, a.src = Top.src, Step(a)
    PROVE  PP1Inv'
<1>1. /\ TypeOK /\ stack \in Seq(Activation) /\ Len(stack) \in Nat \ {0} /\ Top = stack[Len(stack)]
      /\ stack' = [stack EXCEPT ![Len(stack)] = a]
      /\ UNCHANGED <<included, pool, result, status, ndebug>>
  BY StateType DEF PP1Inv, Step
<1>2. /\ stack' \in Seq(Activation) /\ Len(stack') = Len(stack)
      /\ \A k \in 1..Len(stack) : stack'[k] = IF k = Len(stack) THEN a ELSE stack[k]
  BY <1>1
<1>3. stack' # << >>
  BY <1>1, <1>2, EmptySeq
<1>4. TypeOK'
  BY <1>1, <1>2, <1>3 DEF TypeOK
<1>5. OnceEach(included) /\ InStep(included, stack) /\ (~ndebug => pool = 2 * Len(stack) - 1)
  BY IncludesAre DEF PP1Inv
<1>6. InStep(included, stack')
  <2>1. \A k \in 1..Len(stack) : stack'[k].src = stack[k].src
    BY <1>1, <1>2
  <2>2. \A k \in 1..Len(included) : k + 1 \in 1..Len(stack)
    BY <1>1, <1>5, StateType DEF InStep
  <2> QED
    BY <1>2, <1>5, <2>1, <2>2 DEF InStep
<1>7. IncludesAreOpen'
  BY <1>1, <1>2, <1>5, <1>6 DEF IncludesAreOpen, OnceEach, InStep, Contents
<1>8. InDepth'
  BY <1>1, <1>2 DEF PP1Inv, InDepth
<1> QED
  BY <1>4, <1>7, <1>8 DEF PP1Inv

\* Preprocessing stops, with the stack as it is.
LEMMA StopInv ==
    ASSUME PP1Inv, NEW r \in Statuses \ {"running"}, Stop(r)
    PROVE  PP1Inv'
<1>1. status' = r /\ UNCHANGED <<stack, included, pool, result, ndebug>>
  BY DEF Stop
<1>2. TypeOK'
  BY <1>1 DEF PP1Inv, TypeOK
<1>3. IncludesAreOpen'
  BY <1>1 DEF PP1Inv, IncludesAreOpen
<1>4. InDepth'
  BY <1>1 DEF PP1Inv, InDepth
<1> QED
  BY <1>2, <1>3, <1>4 DEF PP1Inv

-----------------------------------------------------------------------------
(* The actions.                                                             *)

LEMMA MovedType ==
    ASSUME NEW a \in Activation, NEW loop \in {"text", "line", "block"}, NEW i \in Nat
    PROVE  /\ [a EXCEPT !.loop = loop, !.id = i] \in Activation
           /\ [a EXCEPT !.loop = loop, !.id = i].src = a.src
BY DEF Activation

LEMMA CommentsInv ==
    ASSUME PP1Inv, \/ StartLine \/ SkipLine \/ EndLine \/ StartBlock \/ SkipBlock
                   \/ EndBlock \/ UnclosedBlock \/ ReadBehind \/ Plain
    PROVE  PP1Inv'
<1>1. /\ Top \in Activation /\ Top.id \in Nat /\ Top.out \in Seq(Chars) /\ "sp" \in Chars
      /\ Append(Top.out, "sp") \in Seq(Chars)
  BY StateType, CharTypes DEF PP1Inv
<1>2. CASE StartLine
  <2> DEFINE a == [Top EXCEPT !.loop = "line", !.id = Top.id + (IF ndebug THEN 1 ELSE 2)]
  <2>1. Top.id + (IF ndebug THEN 1 ELSE 2) \in Nat
    BY <1>1
  <2>2. a \in Activation /\ a.src = Top.src
    BY <1>1, <2>1, MovedType
  <2> QED
    BY <1>2, <2>2, StepInv DEF StartLine, In
<1>3. CASE SkipLine
  <2> DEFINE a == [Top EXCEPT !.id = @ + (IF Current = "\\" /\ Next1 = "nl" THEN SpliceLength ELSE 1)]
  <2>1. SpliceLength \in Nat
    BY DEF SpliceLength
  <2>2. a \in Activation /\ a.src = Top.src
    BY <1>1, <2>1 DEF Activation
  <2> QED
    BY <1>3, <2>2, StepInv DEF SkipLine, In
<1>4. CASE EndLine
  <2> DEFINE a == [Top EXCEPT !.loop = "text", !.out = Append(@, "sp")]
  <2>1. a \in Activation /\ a.src = Top.src
    BY <1>1 DEF Activation
  <2> QED
    BY <1>4, <2>1, StepInv DEF EndLine, In
<1>5. CASE StartBlock
  <2> DEFINE a == [Top EXCEPT !.loop = "block", !.id = Top.id + 2]
  <2>1. Top.id + 2 \in Nat
    BY <1>1
  <2>2. a \in Activation /\ a.src = Top.src
    BY <1>1, <2>1, MovedType
  <2> QED
    BY <1>5, <2>2, StepInv DEF StartBlock, In
<1>6. CASE SkipBlock
  <2> DEFINE a == [Top EXCEPT !.id = @ + 1]
  <2>1. a \in Activation /\ a.src = Top.src
    BY <1>1 DEF Activation
  <2> QED
    BY <1>6, <2>1, StepInv DEF SkipBlock, In
<1>7. CASE EndBlock
  <2> DEFINE i == Top.id + 2
             o == Append(Top.out, "sp")
             a == [Top EXCEPT !.loop = "text", !.id = i, !.out = o]
  <2>1. status = "running" /\ Step(a)
    BY <1>7 DEF EndBlock, In
  <2>2. i \in Nat /\ o \in Seq(Chars)
    BY <1>1
  <2> HIDE DEF i, o
  <2>3. a \in Activation /\ a.src = Top.src
    BY <1>1, <2>2 DEF Activation
  <2> HIDE DEF a
  <2> QED
    BY <2>1, <2>3, StepInv
<1>8. CASE UnclosedBlock \/ ReadBehind
  BY <1>8, StopInv DEF UnclosedBlock, ReadBehind, Statuses
<1>9. CASE Plain
  <2> DEFINE i == Top.id + 1
             o == Append(Top.out, Current)
             a == [Top EXCEPT !.id = i, !.out = o]
  <2>1. status = "running" /\ Step(a)
    BY <1>9 DEF Plain, In
  <2>2. Current \in Chars
    BY <1>9, CurrentType DEF Plain, PP1Inv
  <2>3. i \in Nat /\ o \in Seq(Chars)
    BY <1>1, <2>2
  <2> HIDE DEF i, o
  <2>4. a \in Activation /\ a.src = Top.src
    BY <1>1, <2>3 DEF Activation
  <2> HIDE DEF a
  <2> QED
    BY <2>1, <2>4, StepInv
<1> QED
  BY <1>2, <1>3, <1>4, <1>5, <1>6, <1>7, <1>8, <1>9

LEMMA GotType == \A n : Got(n) \in {"ok", "aborted", "overrun"}
BY DEF Got

LEMMA FailuresInv ==
    ASSUME PP1Inv, \/ BadDirective \/ NotFound \/ CyclicInclude \/ ReadDirectory
                   \/ FreeCompiler
    PROVE  PP1Inv'
<1>1. CASE BadDirective
  BY <1>1, StopInv DEF BadDirective, Statuses
<1>2. CASE NotFound
  <2> DEFINE r == IF Got(1) # "ok" THEN Got(1) ELSE IF ndebug THEN "error" ELSE "aborted"
  <2>1. r \in Statuses \ {"running"}
    BY GotType DEF Statuses
  <2> QED
    BY <1>2, <2>1, StopInv DEF NotFound
<1>3. CASE CyclicInclude
  <2> DEFINE r == IF Got(1) # "ok" THEN Got(1) ELSE "error"
  <2>1. r \in Statuses \ {"running"}
    BY GotType DEF Statuses
  <2> QED
    BY <1>3, <2>1, StopInv DEF CyclicInclude
<1>4. CASE ReadDirectory
  BY <1>4, StopInv DEF ReadDirectory, Statuses
<1>5. CASE FreeCompiler
  BY <1>5, StopInv DEF FreeCompiler, Statuses
<1> QED
  BY <1>1, <1>2, <1>3, <1>4, <1>5

\* The file is not open: it is put on included_files as its activation is put on
\* the stack.
LEMMA IncludeInv ==
    ASSUME PP1Inv, Include
    PROVE  PP1Inv'
<1>1. PICK a, b \in Places :
         /\ Exists(File(a, b)) /\ ~IsCyclic(Path(File(a, b)))
         /\ IF Got(1) # "ok" THEN Stop(Got(1))
            ELSE /\ included' = Append(included, Path(File(a, b)))
                 /\ IF Got(2) # "ok"
                    THEN status' = Got(2) /\ pool' = pool + 1 /\ UNCHANGED stack
                    ELSE /\ pool' = pool + 2
                         /\ stack' = Append([stack EXCEPT ![Len(stack)].id = b],
                                            Start(Contents(Path(File(a, b))), TRUE))
                         /\ UNCHANGED status
                 /\ UNCHANGED <<result, ndebug>>
  BY DEF Include
<1> DEFINE f == Path(File(a, b))
           s == [stack EXCEPT ![Len(stack)].id = b]
           child == Start(Contents(f), TRUE)
<1>2. f \in Paths /\ \A k \in 1..Len(included) : included[k] # f
  BY <1>1 DEF Exists, Path, Paths, IsCyclic
<1>3. /\ TypeOK /\ stack \in Seq(Activation) /\ Len(stack) \in Nat \ {0} /\ Top = stack[Len(stack)]
      /\ Top \in Activation /\ b \in Nat /\ included \in Seq(Paths) /\ Len(included) \in Nat
      /\ pool \in Nat /\ ndebug \in BOOLEAN
      /\ result \in Seq(Chars)
  <2>1. b \in Nat
    BY StateType DEF PP1Inv, Places
  <2> QED
    BY <2>1, StateType DEF PP1Inv, TypeOK
<1>4. CASE Got(1) # "ok"
  <2>1. Got(1) \in Statuses \ {"running"}
    BY <1>4, GotType DEF Statuses
  <2> QED
    BY <1>1, <1>4, <2>1, StopInv
<1>5. CASE Got(1) = "ok"
  <2>1. included' = Append(included, f) /\ UNCHANGED <<result, ndebug>>
    BY <1>1, <1>5
  <2>2. status = "running"
    BY DEF Include, AtDirective, In
  <2>3. child \in Activation /\ child.src = Contents(f)
    BY <1>2, CharTypes
  <2>4. pool + 1 <= MAX_BUFFERS + 1
    BY <1>3, <1>5, PP1Assumption DEF Got
  <2> HIDE DEF f, child
  <2>5. /\ included' \in Seq(Paths) /\ Len(included') = Len(included) + 1
        /\ included'[Len(included) + 1] = f
        /\ \A k \in 1..Len(included) : included'[k] = included[k]
    BY <1>2, <1>3, <2>1, AppendProperties
  <2>6. OnceEach(included) /\ InStep(included, stack) /\ (~ndebug => pool = 2 * Len(stack) - 1)
    BY <2>2, IncludesAre DEF PP1Inv
  <2>7. OnceEach(included')
    <3>1. \A k \in 1..Len(included') : k \in 1..Len(included) \/ k = Len(included) + 1
      BY <1>3, <2>5
    <3> QED
      BY <1>2, <2>5, <2>6, <3>1 DEF OnceEach
  <2>8. CASE Got(2) # "ok"
    <3>1. status' = Got(2) /\ pool' = pool + 1 /\ UNCHANGED stack
      BY <1>1, <1>5, <2>8
    <3>2. status' # "running" /\ status' \in Statuses
      BY <2>8, <3>1, GotType DEF Statuses
    <3>3. pool' \in 1..(MAX_BUFFERS + 1)
      BY <1>3, <2>4, <3>1, PP1Assumption
    <3>4. TypeOK'
      BY <1>3, <2>1, <2>5, <3>1, <3>2, <3>3 DEF TypeOK
    <3>5. IncludesAreOpen'
      BY <2>7, <3>2 DEF IncludesAreOpen, OnceEach
    <3>6. InDepth'
      BY <1>3, <2>5, <3>1 DEF PP1Inv, InDepth
    <3> QED
      BY <3>4, <3>5, <3>6 DEF PP1Inv
  <2>9. CASE Got(2) = "ok"
    <3>1. pool' = pool + 2 /\ stack' = Append(s, child) /\ UNCHANGED status
      BY <1>1, <1>5, <2>9 DEF f, child
    <3>2. /\ s \in Seq(Activation) /\ Len(s) = Len(stack)
          /\ \A k \in 1..Len(stack) : s[k].src = stack[k].src
      <4>1. [Top EXCEPT !.id = b] \in Activation /\ [Top EXCEPT !.id = b].src = Top.src
        BY <1>3 DEF Activation
      <4>2. s = [stack EXCEPT ![Len(stack)] = [Top EXCEPT !.id = b]]
        BY <1>3
      <4> HIDE DEF s
      <4> QED
        BY <1>3, <4>1, <4>2
    <3> HIDE DEF s
    <3>3. /\ stack' \in Seq(Activation) /\ Len(stack') = Len(stack) + 1
          /\ stack'[Len(stack) + 1] = child
          /\ \A k \in 1..Len(stack) : stack'[k] = s[k]
      BY <1>3, <2>3, <3>1, <3>2, AppendProperties
    <3>4. stack' # << >>
      BY <1>3, <3>3, EmptySeq
    <3>5. pool' \in 1..(MAX_BUFFERS + 1)
      BY <1>3, <2>9, <3>1, PP1Assumption DEF Got
    <3>6. TypeOK'
      BY <1>3, <2>1, <2>5, <3>1, <3>3, <3>4, <3>5 DEF TypeOK, PP1Inv
    <3>7. InStep(included', stack')
      <4>1. Len(included') = Len(stack') - 1 /\ Len(included) + 1 = Len(stack)
        BY <1>3, <2>5, <2>6, <3>3 DEF InStep
      <4>2. ASSUME NEW k \in 1..Len(included')
            PROVE  stack'[k + 1].src = Contents(included'[k])
        <5>1. CASE k = Len(included) + 1
          BY <1>3, <2>3, <2>5, <3>3, <4>1, <5>1
        <5>2. CASE k \in 1..Len(included)
          <6>1. k + 1 \in 1..Len(stack)
            BY <1>3, <4>1, <5>2
          <6>2. stack[k + 1].src = Contents(included[k])
            BY <2>6, <5>2 DEF InStep
          <6> QED
            BY <2>5, <3>2, <3>3, <5>2, <6>1, <6>2
        <5> QED
          BY <1>3, <2>5, <5>1, <5>2
      <4> QED
        BY <4>1, <4>2 DEF InStep
    <3>8. ~ndebug => pool' = 2 * Len(stack') - 1
      <4>1. \A n \in Nat : (2 * n - 1) + 2 = 2 * (n + 1) - 1
        OBVIOUS
      <4> QED
        BY <1>3, <2>6, <3>1, <3>3, <4>1
    <3>9. IncludesAreOpen'
      BY <2>1, <2>7, <3>7, <3>8 DEF IncludesAreOpen, OnceEach, InStep, Contents
    <3>10. InDepth'
      BY <1>3, <2>5, <3>3 DEF PP1Inv, InDepth
    <3> QED
      BY <3>6, <3>9, <3>10 DEF PP1Inv
  <2> QED
    BY <2>8, <2>9
<1> QED
  BY <1>4, <1>5

LEMMA FinishInv ==
    ASSUME PP1Inv, Finish \/ FinishAborts
    PROVE  PP1Inv'
<1>1. /\ result' = Top.out /\ status' \in {"done", "aborted"}
      /\ UNCHANGED <<stack, included, pool, ndebug>>
  BY DEF Finish, FinishAborts
<1>2. Top.out \in Seq(Chars)
  BY StateType DEF PP1Inv
<1>3. TypeOK'
  BY <1>1, <1>2 DEF PP1Inv, TypeOK, Statuses
<1>4. IncludesAreOpen'
  BY <1>1 DEF PP1Inv, IncludesAreOpen
<1>5. InDepth'
  BY <1>1 DEF PP1Inv, InDepth
<1> QED
  BY <1>3, <1>4, <1>5 DEF PP1Inv

LEMMA Prefix ==
    ASSUME NEW S, NEW s \in Seq(S), NEW n \in Nat, n <= Len(s)
    PROVE  /\ SubSeq(s, 1, n) \in Seq(S) /\ Len(SubSeq(s, 1, n)) = n
           /\ \A k \in 1..n : SubSeq(s, 1, n)[k] = s[k]
<1>1. \A k \in 1..n : s[k] \in S
  BY ElementOfSeq
<1> QED
  BY <1>1, SubSeqProperties

\* The included file's activation and its name are taken off together.
LEMMA ReturnInv ==
    ASSUME PP1Inv, ReturnToIncluder
    PROVE  PP1Inv'
<1> DEFINE n == Len(stack) - 1
           m == n - 1
           front == SubSeq(stack, 1, Len(stack) - 2)
           out == Includer.out \o Top.out
<1>1. PICK j \in (Includer.id + 1)..(Len(Includer.src) + 2) :
         /\ stack' = Append(front, [Includer EXCEPT !.id = j + 1, !.out = out])
         /\ status' \in {status, "error"}
  BY DEF ReturnToIncluder
<1>2. /\ status = "running" /\ ndebug /\ Len(stack) > 1 /\ included' = Left
      /\ UNCHANGED <<pool, result, ndebug>>
  BY DEF ReturnToIncluder, Finishing, In
<1>3. /\ TypeOK /\ stack \in Seq(Activation) /\ Len(stack) \in Nat
      /\ Top.out \in Seq(Chars) /\ included \in Seq(Paths) /\ Len(included) \in Nat
  BY StateType DEF PP1Inv
<1>4. n \in Nat \ {0} /\ m \in Nat /\ m + 1 = n /\ n + 1 = Len(stack) /\ Len(stack) - 2 = m
  <2>1. Len(stack) \in Nat /\ Len(stack) > 1
    BY <1>2, <1>3
  <2>2. n \in Nat \ {0} /\ n + 1 = Len(stack)
    <3>1. \A k \in Nat : k > 1 => k - 1 \in Nat \ {0} /\ (k - 1) + 1 = k
      OBVIOUS
    <3> QED
      BY <2>1, <3>1
  <2>3. m \in Nat /\ m + 1 = n
    BY <2>1
  <2>4. Len(stack) - 2 = m
    BY <2>1
  <2> QED
    BY <2>2, <2>3, <2>4
<1>5. front = SubSeq(stack, 1, m)
  BY <1>4
<1> HIDE DEF n, m, front
<1>6. Includer = stack[n] /\ Includer \in Activation
  <2>1. n \in 1..Len(stack)
    BY <1>3, <1>4
  <2> QED
    BY <1>3, <2>1, ElementOfSeq DEF Includer, n
<1> DEFINE i == j + 1
           a == [Includer EXCEPT !.id = i, !.out = out]
<1>7. i \in Nat /\ out \in Seq(Chars)
  <2>1. Includer.id \in Nat /\ Includer.src \in Seq(Chars) /\ Includer.out \in Seq(Chars)
    BY <1>6 DEF Activation
  <2>2. Len(Includer.src) \in Nat
    BY <2>1
  <2> QED
    BY <1>3, <2>1, <2>2, ConcatProperties
<1> HIDE DEF i, out
<1>8. a \in Activation /\ a.src = stack[n].src
  BY <1>6, <1>7 DEF Activation
<1>9. stack' = Append(front, a)
  BY <1>1 DEF i, out
<1> HIDE DEF a
<1>10. /\ front \in Seq(Activation) /\ Len(front) = m
       /\ \A k \in 1..m : front[k] = stack[k]
  BY <1>3, <1>4, <1>5, Prefix
<1>11. /\ stack' \in Seq(Activation) /\ Len(stack') = n
       /\ stack'[n] = a /\ \A k \in 1..m : stack'[k] = stack[k]
  BY <1>4, <1>8, <1>9, <1>10, AppendProperties
<1>12. /\ OnceEach(included) /\ InStep(included, stack)
  BY <1>2, IncludesAre DEF PP1Inv
<1>13. Len(included) = n /\ included' = SubSeq(included, 1, m)
  BY <1>2, <1>3, <1>4, <1>12 DEF InStep, Left
<1>14. /\ included' \in Seq(Paths) /\ Len(included') = m
       /\ \A k \in 1..m : included'[k] = included[k]
  BY <1>3, <1>4, <1>13, Prefix
<1>15. TypeOK'
  <2>1. stack' # << >>
    BY <1>4, <1>11, EmptySeq
  <2> QED
    BY <1>1, <1>2, <1>3, <1>11, <1>14, <2>1 DEF TypeOK, Statuses
<1>16. OnceEach(included')
  BY <1>4, <1>12, <1>13, <1>14 DEF OnceEach
<1>17. InStep(included', stack')
  <2>1. ASSUME NEW k \in 1..m PROVE stack'[k + 1].src = Contents(included'[k])
    <3>1. stack[k + 1].src = Contents(included[k])
      BY <1>4, <1>12, <1>13 DEF InStep
    <3>2. stack'[k + 1].src = stack[k + 1].src
      <4>1. k + 1 = n \/ k + 1 \in 1..m
        BY <1>4
      <4> QED
        BY <1>8, <1>11, <4>1
    <3> QED
      BY <1>14, <3>1, <3>2
  <2>2. Len(included') = Len(stack') - 1
    BY <1>4, <1>11, <1>14
  <2> QED
    BY <1>14, <2>1, <2>2 DEF InStep
<1>18. IncludesAreOpen'
  BY <1>2, <1>16, <1>17 DEF IncludesAreOpen, OnceEach, InStep, Contents
<1>19. InDepth'
  BY <1>4, <1>11, <1>14 DEF InDepth
<1> QED
  BY <1>15, <1>18, <1>19 DEF PP1Inv

LEMMA StutterInv ==
    ASSUME PP1Inv, UNCHANGED vars
    PROVE  PP1Inv'
BY DEF PP1Inv, vars, TypeOK, IncludesAreOpen, InDepth, Contents

-----------------------------------------------------------------------------
(* The theorems.                                                            *)

\* Every state satisfies the inductive invariant.
THEOREM Inductive == Spec => []PP1Inv
<1>1. PP1Inv /\ [Next]_vars => PP1Inv'
  BY CommentsInv, FailuresInv, IncludeInv, FinishInv, ReturnInv, StutterInv DEF Next
<1> QED
  BY InitInv, <1>1, PTL DEF Spec

\* Every variable stays in its set; with assertions and without, the pool never
\* counts a buffer behind its array (buffer_pool.c).
THEOREM TypeCorrect == Spec => []TypeOK
<1>1. PP1Inv => TypeOK
  BY DEF PP1Inv
<1> QED
  BY Inductive, <1>1, PTL

\* included_files, the activations of resolve_pp1 and the buffers stay in step,
\* and no file is open twice (preprocess_1.c:21-29).
THEOREM FilesAreOpenOnce == Spec => []IncludesAreOpen
<1>1. PP1Inv => IncludesAreOpen
  BY DEF PP1Inv
<1> QED
  BY Inductive, <1>1, PTL

\* However large the pool is, resolve_pp1 is never deeper in itself than there
\* are files, and the directory, to be included, and the main file: no path is
\* pushed that is on included_files (preprocess_1.c:45-53).
THEOREM IncludesEnd ==
    ASSUME IsFiniteSet(DOMAIN Files)
    PROVE  Spec => [](Len(stack) <= Cardinality(Paths) + 1)
<1>1. IsFiniteSet(Paths)
  BY FS_AddElement DEF Paths
<1>2. PP1Inv => Len(stack) <= Cardinality(Paths) + 1
  <2> SUFFICES ASSUME PP1Inv
               PROVE  Len(stack) <= Cardinality(Paths) + 1
    OBVIOUS
  <2>1. /\ Len(stack) \in Nat /\ Len(included) \in Nat /\ included \in Seq(Paths)
        /\ OnceEach(included) /\ Len(stack) <= Len(included) + 1
    BY StateType, IncludesAre DEF PP1Inv, InDepth
  <2>2. \A k \in 1..Len(included) : included[k] \in Paths
    BY <2>1, ElementOfSeq
  <2>3. included \in Injection(1..Len(included), Paths)
    BY <2>1, <2>2 DEF OnceEach, Injection, IsInjective
  <2>4. Cardinality(1..Len(included)) <= Cardinality(Paths)
    BY <1>1, <2>3, FS_Injection
  <2>5. Cardinality(1..Len(included)) = Len(included)
    <3>1. \A n \in Nat : Cardinality(1..n) = n
      BY FS_Interval
    <3> QED
      BY <2>1, <3>1
  <2>6. Cardinality(Paths) \in Nat
    BY <1>1, FS_CardinalityType
  <2> QED
    BY <2>1, <2>4, <2>5, <2>6
<1> QED
  BY Inductive, <1>2, PTL

-----------------------------------------------------------------------------
(* The automaton: the function that is defined by recursion exists, and is  *)
(* what its definition says.                                                *)

Begin == [state |-> "text", out |-> << >>]

\* One step of the recursion, for the states of the first n characters.
Unfold(src, n, g) == [k \in 0..n |-> IF k = 0 THEN Begin ELSE Read(g[k - 1], src[k])]

LEMMA ReadingExists ==
    ASSUME NEW src \in Seq(Chars)
    PROVE  Reading(src) = Unfold(src, Len(src), Reading(src))
<1> DEFINE S == {n \in Nat : \E g : g = Unfold(src, n, g)}
<1>1. 0 \in S
  <2> DEFINE g == [k \in 0..0 |-> Begin]
  <2>1. g = Unfold(src, 0, g)
    BY DEF Unfold
  <2> QED
    BY <2>1
<1>2. ASSUME NEW n \in Nat, n \in S
      PROVE  n + 1 \in S
  <2>1. PICK g : g = Unfold(src, n, g)
    BY <1>2
  <2> DEFINE h == [k \in 0..(n + 1) |-> IF k = n + 1 THEN Read(g[n], src[n + 1]) ELSE g[k]]
  <2>2. ASSUME NEW k \in 0..(n + 1)
        PROVE  h[k] = IF k = 0 THEN Begin ELSE Read(h[k - 1], src[k])
    <3>1. CASE k = n + 1
      <4>1. k # 0 /\ k - 1 = n /\ n \in 0..(n + 1) /\ n # n + 1
        BY <3>1
      <4>2. h[k] = Read(g[n], src[k]) /\ h[n] = g[n]
        BY <3>1, <4>1
      <4> QED
        BY <4>1, <4>2
    <3>2. CASE k # n + 1
      <4>1. k \in 0..n /\ h[k] = g[k]
        BY <3>2
      <4>2. k # 0 => k - 1 \in 0..(n + 1) /\ k - 1 # n + 1
        BY <4>1
      <4>3. k # 0 => h[k - 1] = g[k - 1]
        BY <4>2
      <4>4. g[k] = IF k = 0 THEN Begin ELSE Read(g[k - 1], src[k])
        BY <2>1, <4>1 DEF Unfold
      <4> QED
        BY <4>1, <4>3, <4>4
    <3> QED
      BY <3>1, <3>2
  <2>3. h = [k \in 0..(n + 1) |-> h[k]]
    OBVIOUS
  <2> HIDE DEF h
  <2>4. h = Unfold(src, n + 1, h)
    BY <2>2, <2>3 DEF Unfold
  <2> QED
    BY <2>4
<1>3. Len(src) \in S
  <2> HIDE DEF S
  <2> QED
    BY <1>1, <1>2, Induction
<1>4. \E g : g = Unfold(src, Len(src), g)
  BY <1>3
<1>5. Reading(src) = CHOOSE g : g = Unfold(src, Len(src), g)
  BY Zenon DEF Reading, Unfold, Begin
<1> QED
  BY <1>4, <1>5

Scan == [state : {"text", "slash", "line", "splice", "block", "star"}, out : Seq(Chars)]

LEMMA ReadType ==
    ASSUME NEW s \in Scan, NEW c \in Chars
    PROVE  Read(s, c) \in Scan
<1>1. /\ s.out \in Seq(Chars) /\ Append(s.out, c) \in Seq(Chars)
      /\ Append(s.out, "sp") \in Seq(Chars)
      /\ Append(Append(s.out, "sp"), c) \in Seq(Chars)
      /\ Append(Append(s.out, "/"), c) \in Seq(Chars)
  BY DEF Scan, Chars, Special
<1> QED
  BY <1>1 DEF Read, Scan

\* What the automaton has read is what it reads on from.
LEMMA ReadingSteps ==
    ASSUME NEW src \in Seq(Chars)
    PROVE  /\ Reading(src)[0] = Begin
           /\ \A k \in 1..Len(src) : Reading(src)[k] = Read(Reading(src)[k - 1], src[k])
           /\ \A k \in 0..Len(src) : Reading(src)[k] \in Scan
<1> DEFINE r == Reading(src)
           n == Len(src)
           S == {k \in Nat : k <= n => r[k] \in Scan}
<1>1. n \in Nat
  OBVIOUS
<1>2. r = Unfold(src, n, r)
  BY ReadingExists
<1> HIDE DEF r, n
<1>3. r[0] = Begin /\ \A k \in 1..n : r[k] = Read(r[k - 1], src[k])
  BY <1>1, <1>2 DEF Unfold
<1>4. 0 \in S
  <2>1. Begin \in Scan
    <3>1. << >> \in Seq(Chars)
      OBVIOUS
    <3> QED
      BY <3>1 DEF Begin, Scan
  <2> QED
    BY <1>3, <2>1
<1>5. ASSUME NEW k \in Nat, k \in S
      PROVE  k + 1 \in S
  <2>1. k + 1 <= n => k + 1 \in 1..n /\ (k + 1) - 1 = k /\ k <= n
    BY <1>1
  <2>2. k + 1 <= n => src[k + 1] \in Chars
    BY <2>1 DEF n
  <2>3. k + 1 <= n => r[k + 1] = Read(r[k], src[k + 1])
    BY <1>3, <2>1
  <2> QED
    BY <1>5, <2>1, <2>2, <2>3, ReadType
<1>6. \A k \in 0..n : r[k] \in Scan
  <2>1. Nat \subseteq S
    <3> HIDE DEF S
    <3> QED
      BY <1>4, <1>5, Induction
  <2> QED
    BY <1>1, <2>1
<1> QED
  BY <1>3, <1>6 DEF r, n

-----------------------------------------------------------------------------
(* The automaton beside the activation.                                     *)

CharIn(src, i) == IF i \in 1..Len(src) THEN src[i] ELSE EOF

\* The state of the automaton before the character at i.  A splice at the end
\* takes the cursor one place further than the source.
StateAt(src, i) == Reading(src)[IF i <= Len(src) THEN i - 1 ELSE Len(src)]

\* The loop that the activation is in and what it has put out, against the
\* state s of the automaton and the character c at the cursor.
InText(s, c, out) ==
    \/ s.state = "text" /\ out = s.out
    \/ s.state = "slash" /\ c \notin {"/", "*"} /\ out = Append(s.out, "/")
    \/ /\ \/ s.state = "line" /\ c = "nl"
          \/ s.state \in {"line", "splice"} /\ c = EOF
       /\ out = Append(s.out, "sp")

InLine(s, c, out) ==
    /\ out = s.out
    /\ \/ s.state = "line"
       \/ s.state = "splice" /\ c # "nl"

InBlock(s, c, out) ==
    /\ out = s.out
    /\ \/ s.state = "block"
       \/ s.state = "star" /\ c # "/"

Agrees(src, i, loop, out) ==
    /\ loop = "text" => InText(StateAt(src, i), CharIn(src, i), out)
    /\ loop = "line" => InLine(StateAt(src, i), CharIn(src, i), out)
    /\ loop = "block" => InBlock(StateAt(src, i), CharIn(src, i), out)

LEMMA CharFacts ==
    ASSUME NEW src \in Seq(Chars), NEW i \in Nat \ {0}
    PROVE  /\ StateAt(src, i) \in Scan
           /\ CharIn(src, i) # EOF <=> i <= Len(src)
           /\ CharIn(src, i) # EOF =>
                /\ CharIn(src, i) \in Chars
                /\ StateAt(src, i + 1) = Read(StateAt(src, i), CharIn(src, i))
           /\ CharIn(src, i) = EOF => StateAt(src, i) = ReadAll(src) /\ CharIn(src, i + 1) = EOF
<1> DEFINE n == Len(src)
<1>1. n \in Nat
  OBVIOUS
<1>2. EOF \notin Chars
  BY PP1Assumption DEF Chars, Special, EOF
<1>3. \A k \in 1..n : src[k] \in Chars
  OBVIOUS
<1>4. i <= n <=> i \in 1..n
  BY <1>1
<1>5. CharIn(src, i) # EOF <=> i <= n
  BY <1>2, <1>3, <1>4 DEF CharIn
<1>6. /\ \A k \in 1..n : Reading(src)[k] = Read(Reading(src)[k - 1], src[k])
      /\ \A k \in 0..n : Reading(src)[k] \in Scan
  BY ReadingSteps
<1> HIDE DEF n
<1>7. StateAt(src, i) = Reading(src)[IF i <= n THEN i - 1 ELSE n]
  BY DEF StateAt, n
<1>8. StateAt(src, i + 1) = Reading(src)[IF i + 1 <= n THEN i ELSE n]
  <2>1. (i + 1) - 1 = i
    OBVIOUS
  <2> QED
    BY <2>1 DEF StateAt, n
<1>9. (IF i <= n THEN i - 1 ELSE n) \in 0..n
  BY <1>1
<1>10. CASE i <= n
  <2>1. CharIn(src, i) = src[i] /\ i \in 1..n /\ src[i] \in Chars
    BY <1>3, <1>4, <1>10 DEF CharIn, n
  <2>2. (IF i + 1 <= n THEN i ELSE n) = i
    BY <1>1, <1>10
  <2> QED
    BY <1>5, <1>6, <1>7, <1>8, <1>9, <1>10, <2>1, <2>2 DEF n
<1>11. CASE ~(i <= n)
  <2>1. ~(i + 1 \in 1..n)
    BY <1>1, <1>11
  <2>2. CharIn(src, i + 1) = EOF
    BY <2>1 DEF CharIn, n
  <2> QED
    BY <1>5, <1>6, <1>7, <1>9, <1>11, <2>2 DEF n, ReadAll
<1> QED
  BY <1>10, <1>11

\* The cases of Read that change the state: where it goes, and that nothing is
\* put out, or what.
LEMMA ReadCases ==
    ASSUME NEW s \in Scan, NEW c \in Chars
    PROVE  /\ s.state = "text" =>
                IF c = "/" THEN Read(s, c).state = "slash" /\ Read(s, c).out = s.out
                ELSE Read(s, c).state = "text" /\ Read(s, c).out = Append(s.out, c)
           /\ s.state = "slash" /\ c \in {"/", "*"} =>
                /\ Read(s, c).state = IF c = "/" THEN "line" ELSE "block"
                /\ Read(s, c).out = s.out
           /\ s.state = "slash" /\ c \notin {"/", "*"} =>
                Read(s, c).state = "text" /\ Read(s, c).out = Append(Append(s.out, "/"), c)
           /\ s.state = "line" /\ c = "nl" =>
                Read(s, c).state = "text" /\ Read(s, c).out = Append(Append(s.out, "sp"), c)
           /\ s.state \in {"line", "splice"} /\ c # "nl" =>
                /\ Read(s, c).state = IF c = "\\" THEN "splice" ELSE "line"
                /\ Read(s, c).out = s.out
           /\ s.state = "splice" /\ c = "nl" =>
                Read(s, c).state = "line" /\ Read(s, c).out = s.out
           /\ s.state \in {"block", "star"} /\ c = "*" =>
                Read(s, c).state = "star" /\ Read(s, c).out = s.out
           /\ s.state = "star" /\ c = "/" =>
                Read(s, c).state = "text" /\ Read(s, c).out = Append(s.out, "sp")
           /\ s.state \in {"block", "star"} /\ c \notin {"*", "/"} =>
                Read(s, c).state = "block" /\ Read(s, c).out = s.out
           /\ s.state = "block" /\ c # "*" =>
                Read(s, c).state = "block" /\ Read(s, c).out = s.out
BY DEF Read, Scan

\* The cursor goes over one character.
LEMMA OneOn ==
    ASSUME NEW src \in Seq(Chars), NEW i \in Nat \ {0}, CharIn(src, i) # EOF
    PROVE  /\ StateAt(src, i) \in Scan /\ CharIn(src, i) \in Chars /\ StateAt(src, i + 1) \in Scan
           /\ StateAt(src, i + 1) = Read(StateAt(src, i), CharIn(src, i))
           /\ i + 1 \in Nat \ {0}
<1>1. i + 1 \in Nat \ {0}
  OBVIOUS
<1> QED
  BY <1>1, CharFacts

LEMMA NamedChars == EOF \notin {"/", "*", "\\", "nl"}
BY DEF EOF

LEMMA TextGoesOn ==
    ASSUME NEW src \in Seq(Chars), NEW i \in Nat \ {0}, NEW out \in Seq(Chars),
           Agrees(src, i, "text", out), CharIn(src, i) # EOF,
           CharIn(src, i) = "/" => CharIn(src, i + 1) \notin {"/", "*"}
    PROVE  Agrees(src, i + 1, "text", Append(out, CharIn(src, i)))
<1> DEFINE s == StateAt(src, i)
           c == CharIn(src, i)
           d == CharIn(src, i + 1)
           t == StateAt(src, i + 1)
<1>1. s \in Scan /\ c \in Chars /\ t = Read(s, c)
  BY OneOn
<1>2. InText(s, c, out) /\ c # EOF /\ (c = "/" => d \notin {"/", "*"})
  BY DEF Agrees
<1> HIDE DEF s, c, d, t
<1>3. InText(t, d, Append(out, c))
  <2>1. CASE s.state = "text" /\ out = s.out
    BY <1>1, <1>2, <2>1, ReadCases DEF InText
  <2>2. CASE s.state = "slash" /\ c \notin {"/", "*"} /\ out = Append(s.out, "/")
    BY <1>1, <2>2, ReadCases DEF InText
  <2>3. CASE s.state = "line" /\ c = "nl" /\ out = Append(s.out, "sp")
    BY <1>1, <2>3, ReadCases DEF InText
  <2> QED
    BY <1>2, <2>1, <2>2, <2>3 DEF InText
<1> QED
  BY <1>3 DEF Agrees, s, c, d, t

LEMMA CommentOpens ==
    ASSUME NEW src \in Seq(Chars), NEW i \in Nat \ {0}, NEW out \in Seq(Chars),
           Agrees(src, i, "text", out), CharIn(src, i) = "/", CharIn(src, i + 1) \in {"/", "*"}
    PROVE  /\ CharIn(src, i + 1) = "/" => Agrees(src, i + 2, "line", out)
           /\ CharIn(src, i + 1) = "*" => Agrees(src, i + 2, "block", out)
<1> DEFINE s == StateAt(src, i)
           c == CharIn(src, i)
           d == CharIn(src, i + 1)
           t == StateAt(src, i + 1)
           u == StateAt(src, i + 2)
<1>1. s \in Scan /\ c \in Chars /\ t \in Scan /\ t = Read(s, c) /\ i + 1 \in Nat \ {0}
  BY OneOn, NamedChars
<1>2. d \in Chars /\ u = Read(t, d)
  <2>1. (i + 1) + 1 = i + 2
    OBVIOUS
  <2> QED
    BY <1>1, <2>1, OneOn, NamedChars
<1>3. InText(s, c, out) /\ c = "/" /\ d \in {"/", "*"}
  BY DEF Agrees
<1> HIDE DEF s, c, d, t, u
<1>4. s.state = "text" /\ out = s.out
  BY <1>3 DEF InText, EOF
<1>5. t.state = "slash" /\ t.out = out
  BY <1>1, <1>3, <1>4, ReadCases
<1>6. u.state = (IF d = "/" THEN "line" ELSE "block") /\ u.out = out
  BY <1>1, <1>2, <1>3, <1>5, ReadCases
<1>7. InLine(u, CharIn(src, i + 2), out) \/ d # "/"
  BY <1>6 DEF InLine
<1>8. InBlock(u, CharIn(src, i + 2), out) \/ d = "/"
  BY <1>6 DEF InBlock
<1> QED
  BY <1>7, <1>8 DEF Agrees, d, u

LEMMA LineGoesOn ==
    ASSUME NEW src \in Seq(Chars), NEW i \in Nat \ {0}, NEW out \in Seq(Chars),
           Agrees(src, i, "line", out), CharIn(src, i) \notin {"nl", EOF},
           ~(CharIn(src, i) = "\\" /\ CharIn(src, i + 1) = "nl")
    PROVE  Agrees(src, i + 1, "line", out)
<1> DEFINE s == StateAt(src, i)
           c == CharIn(src, i)
           d == CharIn(src, i + 1)
           t == StateAt(src, i + 1)
<1>1. s \in Scan /\ c \in Chars /\ t = Read(s, c)
  BY OneOn
<1>2. InLine(s, c, out) /\ c # "nl" /\ c # EOF /\ ~(c = "\\" /\ d = "nl")
  BY DEF Agrees
<1> HIDE DEF s, c, d, t
<1>3. s.state \in {"line", "splice"} /\ out = s.out
  BY <1>2 DEF InLine
<1>4. t.state = (IF c = "\\" THEN "splice" ELSE "line") /\ t.out = out
  BY <1>1, <1>2, <1>3, ReadCases
<1>5. InLine(t, d, out)
  BY <1>2, <1>4 DEF InLine
<1> QED
  BY <1>5 DEF Agrees, d, t

\* A splice and the character after it, or the end: that character is not the
\* newline of the comment, and no other splice begins with it.
LEMMA LineIsSpliced ==
    ASSUME NEW src \in Seq(Chars), NEW i \in Nat \ {0}, NEW out \in Seq(Chars),
           Agrees(src, i, "line", out), CharIn(src, i) = "\\", CharIn(src, i + 1) = "nl",
           ~SplicesMeet(src)
    PROVE  Agrees(src, i + 3, "line", out)
<1> DEFINE s == StateAt(src, i)
           t == StateAt(src, i + 1)
           u == StateAt(src, i + 2)
           v == StateAt(src, i + 3)
           e == CharIn(src, i + 2)
           f == CharIn(src, i + 3)
<1>1. /\ s \in Scan /\ "\\" \in Chars /\ t \in Scan /\ t = Read(s, "\\")
      /\ i + 1 \in Nat \ {0} /\ (i + 1) + 1 = i + 2 /\ (i + 2) + 1 = i + 3
  BY OneOn, NamedChars
<1>2. u \in Scan /\ "nl" \in Chars /\ u = Read(t, "nl") /\ i + 2 \in Nat \ {0}
  BY <1>1, OneOn, NamedChars
<1>3. InLine(s, "\\", out)
  BY DEF Agrees
<1>4. e # EOF => e \in Chars /\ v = Read(u, e)
  BY <1>1, <1>2, OneOn
<1>5. e = EOF => v = u /\ f = EOF
  <2>1. i + 3 \in Nat \ {0}
    BY <1>2
  <2>2. e = EOF => u = ReadAll(src) /\ f = EOF
    BY <1>1, <1>2, CharFacts
  <2>3. f = EOF => v = ReadAll(src)
    BY <2>1, CharFacts
  <2> QED
    BY <2>2, <2>3
<1>6. t.state = "splice" => e # "nl" /\ ~(e = "\\" /\ f = "nl")
  <2> SUFFICES ASSUME t.state = "splice", e = "nl" \/ (e = "\\" /\ f = "nl")
               PROVE  SplicesMeet(src)
    OBVIOUS
  <2>1. e # EOF /\ Len(src) \in Nat
    BY NamedChars
  <2>2. i + 2 <= Len(src) /\ i + 1 <= Len(src) /\ i + 1 \in 1..(Len(src) - 1)
    BY <1>2, <2>1, CharFacts
  <2>3. t = Reading(src)[(i + 1) - 1] /\ src[i + 1] = "nl"
    BY <2>1, <2>2 DEF StateAt, CharIn
  <2>4. src[(i + 1) + 1] = e
    BY <1>1, <2>1, <2>2 DEF CharIn
  <2>5. f = "nl" => (i + 1) + 2 <= Len(src) /\ src[(i + 1) + 2] = f
    <3>1. (i + 1) + 2 = i + 3 /\ i + 3 \in Nat \ {0}
      OBVIOUS
    <3>2. f = "nl" => i + 3 <= Len(src)
      BY <3>1, CharFacts, NamedChars
    <3> QED
      BY <2>1, <3>1, <3>2 DEF CharIn
  <2> HIDE DEF t, e, f
  <2> DEFINE k == i + 1
  <2>6. /\ k \in 1..(Len(src) - 1) /\ Reading(src)[k - 1].state = "splice" /\ src[k] = "nl"
        /\ \/ src[k + 1] = "nl"
           \/ src[k + 1] = "\\" /\ k + 2 <= Len(src) /\ src[k + 2] = "nl"
    BY <2>2, <2>3, <2>4, <2>5
  <2> HIDE DEF k
  <2> QED
    BY <2>6 DEF SplicesMeet
<1> HIDE DEF s, t, u, v, e, f
<1>7. s.state \in {"line", "splice"} /\ out = s.out
  BY <1>3 DEF InLine, EOF
<1>8. t.state = "splice" /\ t.out = out
  BY <1>1, <1>7, ReadCases
<1>9. u.state = "line" /\ u.out = out
  BY <1>1, <1>2, <1>8, ReadCases
<1>10. e # EOF => v.state = (IF e = "\\" THEN "splice" ELSE "line") /\ v.out = out
  BY <1>2, <1>4, <1>6, <1>8, <1>9, ReadCases
<1>11. InLine(v, f, out)
  BY <1>5, <1>6, <1>8, <1>9, <1>10 DEF InLine
<1> QED
  BY <1>11 DEF Agrees, v, f

LEMMA LineEnds ==
    ASSUME NEW src \in Seq(Chars), NEW i \in Nat \ {0}, NEW out \in Seq(Chars),
           Agrees(src, i, "line", out), CharIn(src, i) \in {"nl", EOF}
    PROVE  Agrees(src, i, "text", Append(out, "sp"))
BY DEF Agrees, InLine, InText, EOF

LEMMA BlockGoesOn ==
    ASSUME NEW src \in Seq(Chars), NEW i \in Nat \ {0}, NEW out \in Seq(Chars),
           Agrees(src, i, "block", out), CharIn(src, i) # EOF,
           ~(CharIn(src, i) = "*" /\ CharIn(src, i + 1) = "/")
    PROVE  Agrees(src, i + 1, "block", out)
<1> DEFINE s == StateAt(src, i)
           c == CharIn(src, i)
           d == CharIn(src, i + 1)
           t == StateAt(src, i + 1)
<1>1. s \in Scan /\ c \in Chars /\ t = Read(s, c)
  BY OneOn
<1>2. InBlock(s, c, out) /\ ~(c = "*" /\ d = "/")
  BY DEF Agrees
<1> HIDE DEF s, c, d, t
<1>3. t.out = out /\ (t.state = "block" \/ (t.state = "star" /\ c = "*"))
  <2>1. CASE s.state = "block" /\ c # "*"
    BY <1>1, <1>2, <2>1, ReadCases DEF InBlock
  <2>2. CASE c = "*"
    BY <1>1, <1>2, <2>2, ReadCases DEF InBlock
  <2>3. CASE s.state = "star" /\ c # "*"
    BY <1>1, <1>2, <2>3, ReadCases DEF InBlock
  <2> QED
    BY <1>2, <2>1, <2>2, <2>3 DEF InBlock
<1>4. InBlock(t, d, out)
  BY <1>2, <1>3 DEF InBlock
<1> QED
  BY <1>4 DEF Agrees, d, t

LEMMA BlockEnds ==
    ASSUME NEW src \in Seq(Chars), NEW i \in Nat \ {0}, NEW out \in Seq(Chars),
           Agrees(src, i, "block", out), CharIn(src, i) = "*", CharIn(src, i + 1) = "/"
    PROVE  Agrees(src, i + 2, "text", Append(out, "sp"))
<1> DEFINE s == StateAt(src, i)
           t == StateAt(src, i + 1)
           u == StateAt(src, i + 2)
<1>1. /\ s \in Scan /\ "*" \in Chars /\ t \in Scan /\ t = Read(s, "*")
      /\ i + 1 \in Nat \ {0} /\ (i + 1) + 1 = i + 2
  BY OneOn, NamedChars
<1>2. "/" \in Chars /\ u = Read(t, "/")
  BY <1>1, OneOn, NamedChars
<1>3. s.state \in {"block", "star"} /\ out = s.out
  BY DEF Agrees, InBlock
<1> HIDE DEF s, t, u
<1>4. t.state = "star" /\ t.out = out
  BY <1>1, <1>3, ReadCases
<1>5. u.state = "text" /\ u.out = Append(out, "sp")
  BY <1>1, <1>2, <1>4, ReadCases
<1> QED
  BY <1>5 DEF Agrees, InText, u

-----------------------------------------------------------------------------
(* In a build with assertions, on a source of which OutputIsUncommented      *)
(* speaks, there is one activation, and the automaton runs beside it.       *)

Plainly(a) == ~HasDirective(a.src) /\ a.terminated /\ ~SplicesMeet(a.src)
Bare == ~ndebug /\ Plainly(stack[1])

ScanInv ==
    Bare => /\ Len(stack) = 1 /\ Top.id \in Nat \ {0}
            /\ status = "running" => Agrees(Top.src, Top.id, Top.loop, Top.out)

UncommentInv == ScanInv /\ (Bare => Resolved)

LEMMA InitUncomment == Init => UncommentInv
<1> SUFFICES ASSUME Init PROVE UncommentInv
  OBVIOUS
<1>1. PICK src \in Sources, b \in BOOLEAN : stack = <<Start(src, b)>>
  BY DEF Init
<1>2. src \in Seq(Chars) /\ Len(stack) = 1 /\ Top = Start(src, b) /\ status = "running"
  BY <1>1, PP1Assumption DEF Init, Top
<1>3. Top.id = 1 /\ Top.loop = "text" /\ Top.out = << >> /\ Top.src = src
  BY <1>2 DEF Start
<1>4. StateAt(src, 1) = Begin
  <2>1. Len(src) \in Nat
    BY <1>2
  <2>2. (IF 1 <= Len(src) THEN 1 - 1 ELSE Len(src)) = 0
    BY <2>1
  <2> QED
    BY <1>2, <2>2, ReadingSteps DEF StateAt
<1>5. Agrees(src, 1, "text", << >>)
  BY <1>4 DEF Agrees, InText, Begin
<1>6. Resolved
  BY <1>2 DEF Resolved
<1> QED
  BY <1>2, <1>3, <1>5, <1>6 DEF UncommentInv, ScanInv

\* What the invariant says of the running activation.
LEMMA BareFacts ==
    ASSUME PP1Inv, UncommentInv, Bare, status = "running"
    PROVE  /\ Len(stack) = 1 /\ Top = stack[1] /\ Top.id \in Nat \ {0}
           /\ Top.src \in Seq(Chars) /\ Top.out \in Seq(Chars)
           /\ Agrees(Top.src, Top.id, Top.loop, Top.out)
           /\ Current = CharIn(Top.src, Top.id) /\ Next1 = CharIn(Top.src, Top.id + 1)
           /\ Current # "#" /\ Top.terminated /\ ~SplicesMeet(Top.src)
<1>1. /\ Len(stack) = 1 /\ Top.id \in Nat \ {0}
      /\ Agrees(Top.src, Top.id, Top.loop, Top.out)
  BY DEF UncommentInv, ScanInv
<1>2. Top = stack[1] /\ Top.src \in Seq(Chars) /\ Top.out \in Seq(Chars)
  BY <1>1, StateType DEF PP1Inv
<1>3. Current = CharIn(Top.src, Top.id) /\ Next1 = CharIn(Top.src, Top.id + 1)
  BY DEF Current, Next1, CharAt, CharIn
<1>4. Current # "#"
  BY <1>2, <1>3 DEF Bare, Plainly, HasDirective, CharIn, EOF
<1> QED
  BY <1>1, <1>2, <1>3, <1>4 DEF Bare, Plainly

\* A step of the scan that keeps beside the automaton keeps the invariant.
LEMMA ScanStep ==
    ASSUME PP1Inv, UncommentInv, status = "running",
           NEW a \in Activation, a.src = Top.src, a.terminated = Top.terminated, Step(a),
           Bare => a.id \in Nat \ {0} /\ Agrees(a.src, a.id, a.loop, a.out)
    PROVE  UncommentInv'
<1>1. /\ stack \in Seq(Activation) /\ Len(stack) \in Nat \ {0} /\ Top = stack[Len(stack)]
      /\ stack' = [stack EXCEPT ![Len(stack)] = a]
      /\ UNCHANGED <<included, pool, result, status, ndebug>>
  BY StateType DEF PP1Inv, Step
<1>2. /\ Len(stack') = Len(stack)
      /\ \A k \in 1..Len(stack) : stack'[k] = IF k = Len(stack) THEN a ELSE stack[k]
  BY <1>1
<1>3. stack'[1].src = stack[1].src /\ stack'[1].terminated = stack[1].terminated
  BY <1>1, <1>2
<1>4. Bare' <=> Bare
  BY <1>1, <1>3 DEF Bare, Plainly
<1>5. ScanInv'
  <2> SUFFICES ASSUME Bare'
               PROVE  /\ Len(stack') = 1 /\ Top'.id \in Nat \ {0}
                      /\ Agrees(Top'.src, Top'.id, Top'.loop, Top'.out)
    BY DEF ScanInv
  <2>1. Bare /\ Len(stack) = 1
    BY <1>4 DEF UncommentInv, ScanInv
  <2>2. Top' = a
    BY <1>1, <1>2, <2>1 DEF Top
  <2> QED
    BY <1>2, <2>1, <2>2
<1>6. Resolved'
  BY <1>1 DEF Resolved
<1> QED
  BY <1>5, <1>6 DEF UncommentInv

LEMMA CommentsUncomment ==
    ASSUME PP1Inv, UncommentInv,
           \/ StartLine \/ SkipLine \/ EndLine \/ StartBlock \/ SkipBlock \/ EndBlock \/ Plain
    PROVE  UncommentInv'
<1> DEFINE src == Top.src
           i == Top.id
           out == Top.out
<1>1. /\ Top \in Activation /\ i \in Nat /\ out \in Seq(Chars) /\ "sp" \in Chars
      /\ Append(out, "sp") \in Seq(Chars) /\ status = "running"
  BY StateType, CharTypes
     DEF PP1Inv, StartLine, SkipLine, EndLine, StartBlock, SkipBlock, EndBlock, Plain, In
<1>2. ASSUME Bare
      PROVE  /\ i \in Nat \ {0} /\ src \in Seq(Chars) /\ Agrees(src, i, Top.loop, out)
             /\ Current = CharIn(src, i) /\ Next1 = CharIn(src, i + 1) /\ ~ndebug
             /\ ~SplicesMeet(src)
             /\ i + 1 \in Nat \ {0} /\ i + 2 \in Nat \ {0} /\ i + 3 \in Nat \ {0}
  <2>1. i \in Nat \ {0}
    BY <1>1, <1>2, BareFacts
  <2> QED
    BY <1>1, <1>2, <2>1, BareFacts DEF Bare
<1> HIDE DEF src, i, out
<1>3. CASE StartLine
  <2> DEFINE j == i + (IF ndebug THEN 1 ELSE 2)
             a == [Top EXCEPT !.loop = "line", !.id = j]
  <2>1. j \in Nat /\ Step(a)
    BY <1>1, <1>3 DEF StartLine, i
  <2>2. Bare => j = i + 2 /\ Agrees(src, i + 2, "line", out)
    BY <1>1, <1>2, <1>3, CommentOpens DEF StartLine, OpensLine, In
  <2> HIDE DEF j
  <2>3. /\ a \in Activation /\ a.src = src /\ a.terminated = Top.terminated
        /\ a.id = j /\ a.loop = "line" /\ a.out = out
    BY <1>1, <2>1 DEF Activation, src, out
  <2> HIDE DEF a
  <2> QED
    BY <1>1, <1>2, <2>1, <2>2, <2>3, ScanStep DEF src
<1>4. CASE SkipLine
  <2> DEFINE j == i + (IF Current = "\\" /\ Next1 = "nl" THEN SpliceLength ELSE 1)
             a == [Top EXCEPT !.id = j]
  <2>1. j \in Nat /\ Step(a) /\ Top.loop = "line" /\ Current \notin {"nl", EOF}
    BY <1>1, <1>4 DEF SkipLine, In, SpliceLength, i
  <2>2. Bare => j \in Nat \ {0} /\ Agrees(src, j, "line", out)
    <3>1. CASE Current = "\\" /\ Next1 = "nl"
      BY <1>1, <1>2, <2>1, <3>1, LineIsSpliced DEF SpliceLength
    <3>2. CASE ~(Current = "\\" /\ Next1 = "nl")
      <4>1. j = i + 1
        BY <3>2
      <4> QED
        BY <1>1, <1>2, <2>1, <3>2, <4>1, LineGoesOn
    <3> QED
      BY <3>1, <3>2
  <2> HIDE DEF j
  <2>3. /\ a \in Activation /\ a.src = src /\ a.terminated = Top.terminated
        /\ a.id = j /\ a.loop = "line" /\ a.out = out
    BY <1>1, <2>1 DEF Activation, src, out
  <2> HIDE DEF a
  <2> QED
    BY <1>1, <2>1, <2>2, <2>3, ScanStep DEF src
<1>5. CASE EndLine
  <2> DEFINE o == Append(out, "sp")
             a == [Top EXCEPT !.loop = "text", !.out = o]
  <2>1. o \in Seq(Chars) /\ Step(a) /\ Top.loop = "line" /\ Current \in {"nl", EOF}
    BY <1>1, <1>5 DEF EndLine, In, out
  <2>2. Bare => Agrees(src, i, "text", o)
    BY <1>1, <1>2, <2>1, LineEnds
  <2> HIDE DEF o
  <2>3. /\ a \in Activation /\ a.src = src /\ a.terminated = Top.terminated
        /\ a.id = i /\ a.loop = "text" /\ a.out = o
    BY <1>1, <2>1 DEF Activation, src, i
  <2> HIDE DEF a
  <2> QED
    BY <1>1, <1>2, <2>1, <2>2, <2>3, ScanStep DEF src
<1>6. CASE StartBlock
  <2> DEFINE j == i + 2
             a == [Top EXCEPT !.loop = "block", !.id = j]
  <2>1. j \in Nat /\ Step(a)
    BY <1>1, <1>6 DEF StartBlock, i
  <2>2. Bare => Agrees(src, i + 2, "block", out)
    BY <1>1, <1>2, <1>6, CommentOpens DEF StartBlock, OpensBlock, In
  <2>3. Bare => j \in Nat \ {0} /\ Agrees(src, j, "block", out)
    BY <1>2, <2>2
  <2> HIDE DEF j
  <2>4. /\ a \in Activation /\ a.src = src /\ a.terminated = Top.terminated
        /\ a.id = j /\ a.loop = "block" /\ a.out = out
    BY <1>1, <2>1 DEF Activation, src, out
  <2> HIDE DEF a
  <2> QED
    BY <1>1, <2>1, <2>3, <2>4, ScanStep DEF src
<1>7. CASE SkipBlock
  <2> DEFINE j == i + 1
             a == [Top EXCEPT !.id = j]
  <2>1. /\ j \in Nat /\ Step(a) /\ Top.loop = "block" /\ Current # EOF
        /\ ~(Current = "*" /\ Next1 = "/")
    BY <1>1, <1>7 DEF SkipBlock, In, i
  <2>2. Bare => j \in Nat \ {0} /\ Agrees(src, j, "block", out)
    BY <1>1, <1>2, <2>1, BlockGoesOn
  <2> HIDE DEF j
  <2>3. /\ a \in Activation /\ a.src = src /\ a.terminated = Top.terminated
        /\ a.id = j /\ a.loop = "block" /\ a.out = out
    BY <1>1, <2>1 DEF Activation, src, out
  <2> HIDE DEF a
  <2> QED
    BY <1>1, <2>1, <2>2, <2>3, ScanStep DEF src
<1>8. CASE EndBlock
  <2> DEFINE j == i + 2
             o == Append(out, "sp")
             a == [Top EXCEPT !.loop = "text", !.id = j, !.out = o]
  <2>1. /\ j \in Nat /\ o \in Seq(Chars) /\ Step(a)
        /\ Top.loop = "block" /\ Current = "*" /\ Next1 = "/"
    BY <1>1, <1>8 DEF EndBlock, In, i, out
  <2>2. Bare => j \in Nat \ {0} /\ Agrees(src, j, "text", o)
    BY <1>1, <1>2, <2>1, BlockEnds
  <2> HIDE DEF j, o
  <2>3. /\ a \in Activation /\ a.src = src /\ a.terminated = Top.terminated
        /\ a.id = j /\ a.loop = "text" /\ a.out = o
    BY <1>1, <2>1 DEF Activation, src
  <2> HIDE DEF a
  <2> QED
    BY <1>1, <2>1, <2>2, <2>3, ScanStep DEF src
<1>9. CASE Plain
  <2> DEFINE j == i + 1
             o == Append(out, Current)
             a == [Top EXCEPT !.id = j, !.out = o]
  <2>1. Current \in Chars
    BY <1>9, CurrentType DEF Plain, PP1Inv
  <2>2. /\ j \in Nat /\ o \in Seq(Chars) /\ Step(a)
        /\ Top.loop = "text" /\ Current # EOF /\ ~OpensLine /\ ~OpensBlock
    BY <1>1, <1>9, <2>1 DEF Plain, In, i, out
  <2>3. Bare /\ Current = "/" => Next1 \notin {"/", "*"}
    BY <1>2, <2>2 DEF OpensLine, OpensBlock
  <2>4. Bare => j \in Nat \ {0} /\ Agrees(src, j, "text", o)
    BY <1>1, <1>2, <2>2, <2>3, TextGoesOn
  <2> HIDE DEF j, o
  <2>5. /\ a \in Activation /\ a.src = src /\ a.terminated = Top.terminated
        /\ a.id = j /\ a.loop = "text" /\ a.out = o
    BY <1>1, <2>2 DEF Activation, src
  <2> HIDE DEF a
  <2> QED
    BY <1>1, <2>2, <2>4, <2>5, ScanStep DEF src
<1> QED
  BY <1>3, <1>4, <1>5, <1>6, <1>7, <1>8, <1>9

\* Scanning stops: only a block comment that is open is an error.
LEMMA StopScan ==
    ASSUME PP1Inv, UncommentInv, NEW r \in Statuses \ {"running"}, Stop(r),
           Bare => /\ r \notin {"aborted", "done"}
                   /\ r = "error" => ReadAll(stack[1].src).state \in {"block", "star"}
    PROVE  UncommentInv'
<1>1. status' = r /\ UNCHANGED <<stack, included, pool, result, ndebug>>
  BY DEF Stop
<1>2. ScanInv'
  BY <1>1 DEF UncommentInv, ScanInv, Bare, Top
<1>3. (Bare => Resolved)'
  BY <1>1 DEF Resolved, Bare
<1> QED
  BY <1>2, <1>3 DEF UncommentInv

\* At the end of the source the automaton has read all of it.
LEMMA AtTheEnd ==
    ASSUME PP1Inv, UncommentInv, Bare, status = "running", Current = EOF
    PROVE  /\ Top.loop = "text" => /\ ReadAll(stack[1].src).state \notin {"block", "star"}
                                   /\ Top.out = Uncommented(stack[1].src)
           /\ Top.loop = "block" => ReadAll(stack[1].src).state \in {"block", "star"}
<1> DEFINE s == ReadAll(Top.src)
<1>1. /\ Top = stack[1] /\ Top.id \in Nat \ {0} /\ Top.src \in Seq(Chars)
      /\ Agrees(Top.src, Top.id, Top.loop, Top.out) /\ CharIn(Top.src, Top.id) = EOF
  BY BareFacts
<1>2. StateAt(Top.src, Top.id) = s
  BY <1>1, CharFacts
<1>3. /\ Top.loop = "text" => InText(s, EOF, Top.out)
      /\ Top.loop = "block" => InBlock(s, EOF, Top.out)
  BY <1>1, <1>2 DEF Agrees
<1>4. InText(s, EOF, Top.out) => s.state \notin {"block", "star"} /\ Top.out = Uncommented(Top.src)
  BY DEF InText, Uncommented, EOF
<1>5. InBlock(s, EOF, Top.out) => s.state \in {"block", "star"}
  BY DEF InBlock
<1> QED
  BY <1>1, <1>3, <1>4, <1>5

LEMMA NoDirectiveRead ==
    ASSUME PP1Inv, UncommentInv, AtDirective
    PROVE  ~Bare
<1>1. status = "running" /\ Current = "#"
  BY DEF AtDirective, In, IsDirective, Directive
<1> QED
  BY <1>1, BareFacts

LEMMA StopsUncomment ==
    ASSUME PP1Inv, UncommentInv,
           \/ UnclosedBlock \/ ReadBehind \/ BadDirective \/ NotFound \/ CyclicInclude
           \/ ReadDirectory \/ FreeCompiler
    PROVE  UncommentInv'
<1>1. CASE UnclosedBlock
  <2>1. Bare => ReadAll(stack[1].src).state \in {"block", "star"}
    BY <1>1, AtTheEnd DEF UnclosedBlock, In
  <2>2. Stop("error") /\ "error" \in Statuses \ {"running"}
    BY <1>1 DEF UnclosedBlock, Statuses
  <2> QED
    BY <2>1, <2>2, StopScan
<1>2. CASE BadDirective
  <2>1. Stop("error") /\ "error" \in Statuses \ {"running"} /\ ~Bare
    BY <1>2, NoDirectiveRead DEF BadDirective, Statuses
  <2> QED
    BY <2>1, StopScan
<1>3. CASE NotFound
  <2> DEFINE r == IF Got(1) # "ok" THEN Got(1) ELSE IF ndebug THEN "error" ELSE "aborted"
  <2>1. r \in Statuses \ {"running"}
    BY GotType DEF Statuses
  <2>2. Stop(r) /\ ~Bare
    BY <1>3, NoDirectiveRead DEF NotFound
  <2> QED
    BY <2>1, <2>2, StopScan
<1>4. CASE CyclicInclude
  <2> DEFINE r == IF Got(1) # "ok" THEN Got(1) ELSE "error"
  <2>1. r \in Statuses \ {"running"}
    BY GotType DEF Statuses
  <2>2. Stop(r) /\ ~Bare
    BY <1>4, NoDirectiveRead DEF CyclicInclude
  <2> QED
    BY <2>1, <2>2, StopScan
<1>5. CASE ReadDirectory
  <2>1. Stop("aborted") /\ "aborted" \in Statuses \ {"running"} /\ ~Bare
    BY <1>5, NoDirectiveRead DEF ReadDirectory, Statuses
  <2> QED
    BY <2>1, StopScan
<1>6. CASE ReadBehind
  <2>1. Stop("aborted") /\ "aborted" \in Statuses \ {"running"} /\ ~Bare
    BY <1>6, BareFacts DEF ReadBehind, In, Statuses
  <2> QED
    BY <2>1, StopScan
<1>7. CASE FreeCompiler
  <2>1. PICK r \in {"freed", "bad free"} : Stop(r)
    BY <1>7 DEF FreeCompiler
  <2>2. r \in Statuses \ {"running"} /\ r \notin {"error", "aborted", "done"}
    BY DEF Statuses
  <2> QED
    BY <2>1, <2>2, StopScan
<1> QED
  BY <1>1, <1>2, <1>3, <1>4, <1>5, <1>6, <1>7

\* An include is no step of a source without directives, and its caller stays.
LEMMA IncludeUncomment ==
    ASSUME PP1Inv, UncommentInv, Include
    PROVE  UncommentInv'
<1>1. stack \in Seq(Activation) /\ Len(stack) \in Nat \ {0} /\ ~Bare
  BY StateType, NoDirectiveRead DEF PP1Inv, Include
<1>2. /\ ndebug' = ndebug
      /\ stack'[1].src = stack[1].src /\ stack'[1].terminated = stack[1].terminated
  <2>1. PICK b \in Places :
           \/ Stop(Got(1))
           \/ ndebug' = ndebug /\ UNCHANGED stack
           \/ \E f : /\ ndebug' = ndebug
                    /\ stack' = Append([stack EXCEPT ![Len(stack)].id = b], f)
    BY DEF Include
  <2>2. CASE Stop(Got(1)) \/ (ndebug' = ndebug /\ UNCHANGED stack)
    BY <2>2 DEF Stop
  <2>3. CASE \E f : /\ ndebug' = ndebug
                    /\ stack' = Append([stack EXCEPT ![Len(stack)].id = b], f)
    <3> PICK f : /\ ndebug' = ndebug
                 /\ stack' = Append([stack EXCEPT ![Len(stack)].id = b], f)
      BY <2>3
    <3> DEFINE s == [stack EXCEPT ![Len(stack)].id = b]
    <3>1. b \in Nat
      BY StateType DEF PP1Inv, Places
    <3>2. Top \in Activation /\ Top = stack[Len(stack)]
      BY StateType DEF PP1Inv
    <3>3. /\ [Top EXCEPT !.id = b] \in Activation /\ [Top EXCEPT !.id = b].src = Top.src
          /\ [Top EXCEPT !.id = b].terminated = Top.terminated
      BY <3>1, <3>2 DEF Activation
    <3>4. s = [stack EXCEPT ![Len(stack)] = [Top EXCEPT !.id = b]]
      BY <3>2
    <3> HIDE DEF s
    <3>5. /\ s \in Seq(Activation) /\ Len(s) = Len(stack)
          /\ s[1].src = stack[1].src /\ s[1].terminated = stack[1].terminated
      BY <1>1, <3>2, <3>3, <3>4
    <3>6. stack'[1] = s[1]
      BY <1>1, <3>5 DEF s
    <3> QED
      BY <3>5, <3>6
  <2> QED
    BY <2>1, <2>2, <2>3
<1>3. ~Bare'
  BY <1>1, <1>2 DEF Bare, Plainly
<1> QED
  BY <1>3 DEF UncommentInv, ScanInv

LEMMA EndUncomment ==
    ASSUME PP1Inv, UncommentInv, FinishAborts \/ Finish \/ ReturnToIncluder
    PROVE  UncommentInv'
<1>1. CASE FinishAborts
  <2>1. /\ status = "running" /\ Top.loop = "text" /\ Current = EOF
        /\ result' = Top.out /\ status' = "aborted" /\ UNCHANGED <<stack, ndebug>>
    BY <1>1 DEF FinishAborts, Finishing, In
  <2>2. ScanInv'
    BY <2>1 DEF UncommentInv, ScanInv, Bare, Top
  <2>3. Bare => /\ ReadAll(stack[1].src).state \notin {"block", "star"}
                /\ Top.out = Uncommented(stack[1].src)
    BY <2>1, AtTheEnd
  <2>4. (Bare => Resolved)'
    BY <2>1, <2>3 DEF Resolved, Bare
  <2> QED
    BY <2>2, <2>4 DEF UncommentInv
<1>2. CASE Finish \/ ReturnToIncluder
  <2>1. ndebug /\ UNCHANGED ndebug
    BY <1>2, Zenon DEF Finish, ReturnToIncluder, Finishing
  <2>2. ~Bare'
    BY <2>1 DEF Bare
  <2> QED
    BY <2>2 DEF UncommentInv, ScanInv
<1> QED
  BY <1>1, <1>2

LEMMA StutterUncomment ==
    ASSUME UncommentInv, UNCHANGED vars
    PROVE  UncommentInv'
BY DEF vars, UncommentInv, ScanInv, Resolved, Bare, Top

\* resolve_pp1 (preprocess_1.c:106-181), with assertions, keeps exactly the text
\* outside comments, with one space for each, and reports exactly the block
\* comments left open, in every source that ends with a NUL, has no directives
\* and no splice in a line comment right before another or the comment's end.
THEOREM CommentsAreResolved == Spec => []OutputIsUncommented
<1>1. PP1Inv /\ UncommentInv /\ [Next]_vars => UncommentInv'
  BY CommentsUncomment, StopsUncomment, IncludeUncomment, EndUncomment, StutterUncomment DEF Next
<1>2. UncommentInv => OutputIsUncommented
  BY DEF UncommentInv, OutputIsUncommented, Bare, Plainly
<1> QED
  BY InitUncomment, Inductive, <1>1, <1>2, PTL DEF Spec
=============================================================================
