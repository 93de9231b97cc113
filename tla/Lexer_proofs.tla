---------------------------- MODULE Lexer_proofs ----------------------------
(***************************************************************************)
(* Theorems about Lexer, for every source and every order of calls and     *)
(* lookaheads: types, the longest lexemes, and that lookahead tells what   *)
(* is taken later.                                                         *)
(***************************************************************************)
EXTENDS Lexer, TLAPS, FiniteSetTheorems, SequenceTheorems

-----------------------------------------------------------------------------
(* The inductive invariant.                                                 *)

\* Where the token begins that is being looked for.
Begun == IF phase \in {"ident", "num", "string"} THEN pos ELSE cursor

\* Where the next token that the client takes can begin at the earliest: lookahead
\* goes back to its mark.
Reached == IF phase # "idle" /\ call.fn = "peek" THEN call.mark ELSE Begun

Last == taken[Len(taken)]
LastEnd == IF taken = << >> THEN 1 ELSE End(Last)

\* Since the last token there were only blanks; if there was none, the lexer is on the
\* line of the name it has just taken.
ReachedInv ==
    /\ \A j \in LastEnd..(Reached.id - 1) : CharAt(j) = "sp"
    /\ taken # << >> /\ Last.kind = "ident" =>
          /\ End(Last) <= Reached.id
          /\ End(Last) = Reached.id => Reached.line = Last.pos.line

\* What lies between pos and the cursor, in each of the scanners.
WordInv ==
    phase = "ident" =>
       /\ pos.id < cursor.id /\ cursor.id <= Len(source) + 1 /\ pos.line = cursor.line
       /\ CharAt(pos.id) \in Letters
       /\ \A j \in pos.id..(cursor.id - 1) : CharAt(j) \in Letters \cup Digits

NumInv ==
    phase = "num" =>
       /\ pos.id < cursor.id /\ cursor.id <= Len(source) + 1
       /\ CharAt(pos.id) \in Digits
       /\ \A j \in pos.id..(cursor.id - 1) : CharAt(j) \in Digits \cup {"."}
       /\ decimal <=> \E j \in pos.id..(cursor.id - 1) : CharAt(j) = "."
       /\ \A j, k \in pos.id..(cursor.id - 1) : CharAt(j) = "." /\ CharAt(k) = "." => j = k
       /\ CharAt(cursor.id - 1) = "." =>
             CharAt(cursor.id) \in Digits \/ cursor.id = Len(source) + 1

\* The rest of the source, from the token's start, and the cursor's place in it.
Ahead == Piece(pos.id, Len(source) + 1)
Place == cursor.id - pos.id + 1

\* The string that w begins with is open before place k, which is not escaped.
IsOpen(w, k) ==
    /\ ~Escaped(w, k)
    /\ \A j \in 2..(k - 1) : w[j] = "quote" => Escaped(w, j)

StrInv ==
    phase = "string" =>
       /\ pos.id < cursor.id /\ CharAt(pos.id) = "quote"
       /\ cursor.id <= Len(source) => IsOpen(Ahead, Place)

ScanInv == WordInv /\ NumInv /\ StrInv

\* Token t is the longest lexeme at its place.
IsLongest(t) ==
    /\ t.kind \notin {"eof", "error"} => t.text # << >> /\ t.len = Len(t.text) % LEN_SIZE
    /\ t.kind = "eof" => t.pos.id > Len(source)
    /\ t.kind = "error" =>
          \A j \in t.pos.id..(Len(source) + 1), kind \in Kinds : ~Lexeme(t.pos.id, j, kind)
    /\ t.kind \notin {"eof", "error"} /\ ~ReadsBehind(t) =>
          /\ Lexeme(t.pos.id, End(t), t.kind) /\ t.text = Piece(t.pos.id, End(t))
          /\ \A j \in (End(t) + 1)..(Len(source) + 1), kind \in Kinds : ~Lexeme(t.pos.id, j, kind)

\* Every token taken is, and begins after blanks.
TakenInv ==
    \A k \in 1..Len(taken) :
       /\ IsLongest(taken[k])
       /\ \A j \in (IF k = 1 THEN 1 ELSE End(taken[k - 1]))..(taken[k].pos.id - 1) :
             CharAt(j) = "sp"

LexInv == TypeOK /\ ScanInv /\ ReachedInv /\ TakenInv /\ AdjacentIsTextual

-----------------------------------------------------------------------------
(* Lookahead.                                                               *)

\* A cursor has the line and the column of its place, whichever way it came there.
OnPath(c) ==
    /\ c.line = 1 + Cardinality({j \in 1..(c.id - 1) : CharAt(j) = "nl"})
    /\ \E b \in 0..(c.id - 1) :
          /\ b = 0 \/ CharAt(b) = "nl"
          /\ \A j \in (b + 1)..(c.id - 1) : CharAt(j) # "nl"
          /\ c.col = c.id - b

\* No longer piece of the source that begins at place i is a lexeme.
CannotGrow(i, e) == \A j \in (e + 1)..(Len(source) + 1), kind \in Kinds : ~Lexeme(i, j, kind)

\* All of token t follows from the place where it begins.
Exact(t) ==
    /\ IsLongest(t) /\ OnPath(t.pos) /\ CharAt(t.pos.id) # "sp"
    /\ t.kind # "eof" => t.pos.id <= Len(source)
    /\ t.kind \in {"eof", "error"} => t.text = << >> /\ t.len = 1 % LEN_SIZE
    /\ ReadsBehind(t) => EndsInPoint

\* The token of a call that begins at place i, and the place where the next call begins.
IsTokenAt(t, i) ==
    /\ Exact(t) /\ i <= t.pos.id
    /\ \A j \in i..(t.pos.id - 1) : CharAt(j) = "sp"
NextPlace(t) == IF t.pos.id > Len(source) + BEHIND THEN t.pos.id ELSE End(t)

\* The tokens of calls that follow each other, the first of which begins at place i.
IsChain(s, i) ==
    /\ \A k \in 1..Len(s) : /\ i <= s[k].pos.id
                            /\ IsTokenAt(s[k], IF k = 1 THEN i ELSE NextPlace(s[k - 1]))
    /\ \A j, k \in 1..Len(s) : j < k => NextPlace(s[j]) <= s[k].pos.id
ChainEnd(s, i) == IF s = << >> THEN i ELSE NextPlace(s[Len(s)])

PathInv == OnPath(cursor) /\ OnPath(pos) /\ OnPath(call.mark) /\ Len(source) < SIZE_SIZE

\* What a lookahead has passed since its mark, and what is left of its count.
Passed(s) ==
    /\ IsChain(s, call.mark.id) /\ \A k \in 1..Len(s) : s[k].kind # "eof"
    /\ ChainEnd(s, call.mark.id) <= Begun.id /\ Len(s) < Begun.id
    /\ \A j \in ChainEnd(s, call.mark.id)..(Begun.id - 1) : CharAt(j) = "sp"
    /\ call.n > 0 => call.left = call.n - Len(s) /\ call.left > 0
    /\ call.n = 0 => call.left = IF s = << >> THEN 0 ELSE SIZE_SIZE - Len(s)

IsPeeking == call.fn = "peek" /\ phase \notin {"idle", "aborted"}

PassedInv == IsPeeking => \E s \in Seq(Token) : Passed(s)

\* The token that was promised is the last of those still to come.
Coming(p, s) ==
    /\ p.n > 0 /\ IsChain(s, Reached.id) /\ s # << >> /\ s[Len(s)] = p.token
    /\ Len(taken) + Len(s) <= p.after + p.n
    /\ p.token.kind = "eof" \/ Len(taken) + Len(s) = p.after + p.n

Kept(p) ==
    \/ p.n = 0 /\ p.token.kind = "eof"
    \/ p.n > 0 /\ p.after + p.n <= Len(taken) /\ taken[p.after + p.n] = p.token
    \/ /\ p.n > 0 /\ p.token.kind = "eof"
       /\ \E j \in 1..Len(taken) : j < p.after + p.n /\ taken[j] = p.token

PromiseInv ==
    ~EndsInPoint =>
       /\ \A p \in promised : Kept(p) \/ \E s \in Seq(Token) : Coming(p, s)
       /\ \A j \in 1..Len(taken) : taken[j].kind # "eof" => taken[j].pos.id < Reached.id

PeekInv == PathInv /\ PassedInv /\ PromiseInv

\* The call has token t and leaves the cursor at c.
Has(t, c) ==
    /\ t \in Token /\ c \in Cursor /\ Exact(t) /\ t.pos = Begun
    /\ OnPath(c) /\ c.id = NextPlace(t)
    /\ t.kind = "ident" => c.line = t.pos.line
HasToken == \E t \in Token, c \in Cursor :
    /\ Has(t, c) /\ Return(t, c) /\ UNCHANGED <<source, pos, decimal>>
    /\ phase \notin {"idle", "aborted"}

-----------------------------------------------------------------------------
(* Types.                                                                   *)

LEMMA Constants ==
    /\ LEN_SIZE \in Nat /\ LEN_SIZE > 0 /\ SIZE_SIZE \in Nat /\ SIZE_SIZE > 1
    /\ MaxPeek \in 0..(SIZE_SIZE - 1) /\ \A n \in Nat : n % LEN_SIZE \in 0..(LEN_SIZE - 1)
<1>1. LEN_SIZE \in Nat /\ LEN_SIZE > 0 /\ SIZE_SIZE \in Nat /\ SIZE_SIZE > 1
  BY LexerAssumption
<1>2. \A n, m \in Nat : m > 0 => n % m \in 0..(m - 1)
  OBVIOUS
<1>3. \A n \in Nat : n % LEN_SIZE \in 0..(LEN_SIZE - 1)
  BY <1>1, <1>2
<1>4. MaxPeek \in 0..(SIZE_SIZE - 1)
  BY LexerAssumption
<1> QED
  BY <1>1, <1>3, <1>4

LEMMA StateType ==
    ASSUME TypeOK
    PROVE  /\ source \in Seq(Chars) /\ Len(source) \in Nat
           /\ cursor.id \in Nat /\ cursor.id > 0 /\ cursor.line \in Nat /\ cursor.col \in Nat
           /\ pos.id \in Nat /\ pos.id > 0 /\ pos.line \in Nat /\ pos.col \in Nat
           /\ call.mark \in Cursor /\ call.left \in Nat /\ call.n \in Nat
           /\ taken \in Seq(Token) /\ Len(taken) \in Nat
           /\ \A k \in 1..Len(taken) : taken[k] \in Token
BY Constants DEF TypeOK, Cursor, Calls

LEMMA CharIs ==
    ASSUME source \in Seq(Chars), NEW i \in Int
    PROVE  /\ i \in 1..Len(source) => CharAt(i) = source[i] /\ CharAt(i) \in Chars
           /\ CharAt(i) # NUL => i \in 1..Len(source)
           /\ CharAt(i) = NUL => i \notin 1..Len(source)
<1>1. NUL \notin Chars
  BY DEF NUL, Chars, Letters, Digits, OpChars, Separators
<1>2. ASSUME i \in 1..Len(source) PROVE CharAt(i) = source[i] /\ source[i] \in Chars
  BY <1>2 DEF CharAt
<1>3. i \notin 1..Len(source) => CharAt(i) = NUL
  BY DEF CharAt
<1> QED
  BY <1>1, <1>2, <1>3

LEMMA AdvancedIs ==
    ASSUME source \in Seq(Chars), NEW c \in Cursor
    PROVE  /\ Advanced(c) \in Cursor /\ c.id <= Advanced(c).id /\ Advanced(c).id <= c.id + 1
           /\ c.id <= Len(source) + BEHIND => Advanced(c).id = c.id + 1
           /\ CharAt(c.id) # "nl" => Advanced(c).line = c.line
BY DEF Advanced, Cursor, BEHIND

\* A piece of the source has the characters of the source.
LEMMA PieceIs ==
    ASSUME source \in Seq(Chars), NEW i \in Nat \ {0}, NEW j \in i..(Len(source) + 1)
    PROVE  /\ Piece(i, j) \in Seq(Chars) /\ Len(Piece(i, j)) = j - i
           /\ \A k \in 1..(j - i) : /\ Piece(i, j)[k] = source[i + k - 1]
                                    /\ Piece(i, j)[k] = CharAt(i + k - 1)
<1>1. Len(source) \in Nat /\ i \in Int /\ j - 1 \in Int
  OBVIOUS
<1>2. Piece(i, j) \in Seq(Chars) /\ Len(Piece(i, j)) = j - i
  BY <1>1, SubSeqProperties DEF Piece
<1>3. \A k \in 1..(j - i) : Piece(i, j)[k] = source[i + k - 1]
  BY <1>1, SubSeqProperties DEF Piece
<1>4. \A k \in 1..(j - i) : i + k - 1 \in 1..Len(source)
  BY <1>1
<1> QED
  BY <1>2, <1>3, <1>4 DEF CharAt

LEMMA TokenTypes ==
    ASSUME NEW p \in Cursor, NEW kind \in Kinds
    PROVE  /\ \A text \in Seq(Chars) : NewToken(p, kind, text) \in Token
           /\ Short(p, kind) \in Token
<1>1. \A text \in Seq(Chars) : Len(text) \in Nat
  OBVIOUS
<1>2. << >> \in Seq(Chars) /\ 1 \in Nat
  OBVIOUS
<1> QED
  BY <1>1, <1>2, Constants DEF NewToken, Short, Token

LEMMA EndIs ==
    ASSUME NEW t \in Token
    PROVE  End(t) \in Nat /\ End(t) > t.pos.id /\ t.pos.id \in Nat \ {0} /\ t.pos.line \in Nat
           /\ t.text \in Seq(Chars) /\ Len(t.text) \in Nat
           /\ (t.text # << >> => End(t) = t.pos.id + Len(t.text))
BY DEF End, Token, Cursor
-----------------------------------------------------------------------------
(* Lexemes.                                                                 *)

IsSpelling(w, n) == w \in Seq(OpChars) /\ Len(w) = n /\ w[1] \in OpChars

LEMMA Spellings ==
    /\ Len(Operators) = 16
    /\ \A k \in 1..3 : IsSpelling(Operators[k], 3)
    /\ \A k \in 4..11 : IsSpelling(Operators[k], 2)
    /\ \A k \in 12..16 : IsSpelling(Operators[k], 1)
<1>1. /\ Operators[1] = <<"<", "<", "=">> /\ Operators[2] = <<">", ">", "=">>
      /\ Operators[3] = <<".", ".", ".">> /\ Operators[4] = <<"-", "-">>
      /\ Operators[5] = <<"=", "=">> /\ Operators[6] = <<"<", "=">>
      /\ Operators[7] = <<">", "=">> /\ Operators[8] = <<"<", "<">>
      /\ Operators[9] = <<">", ">">> /\ Operators[10] = <<"-", "=">>
      /\ Operators[11] = <<"-", ">">> /\ Operators[12] = <<"-">> /\ Operators[13] = <<"=">>
      /\ Operators[14] = <<"<">> /\ Operators[15] = <<">">> /\ Operators[16] = <<".">>
      /\ Len(Operators) = 16
  BY DEF Operators
<1>2. \A a, b, c \in OpChars : /\ IsSpelling(<<a, b, c>>, 3) /\ IsSpelling(<<a, b>>, 2)
                               /\ IsSpelling(<<a>>, 1)
  BY DEF IsSpelling
<1>3. "<" \in OpChars /\ "=" \in OpChars /\ ">" \in OpChars /\ "-" \in OpChars /\ "." \in OpChars
  BY DEF OpChars
<1>4. /\ IsSpelling(Operators[1], 3) /\ IsSpelling(Operators[2], 3) /\ IsSpelling(Operators[3], 3)
      /\ IsSpelling(Operators[4], 2) /\ IsSpelling(Operators[5], 2) /\ IsSpelling(Operators[6], 2)
      /\ IsSpelling(Operators[7], 2) /\ IsSpelling(Operators[8], 2) /\ IsSpelling(Operators[9], 2)
      /\ IsSpelling(Operators[10], 2) /\ IsSpelling(Operators[11], 2)
      /\ IsSpelling(Operators[12], 1) /\ IsSpelling(Operators[13], 1) /\ IsSpelling(Operators[14], 1)
      /\ IsSpelling(Operators[15], 1) /\ IsSpelling(Operators[16], 1)
  BY <1>1, <1>2, <1>3
<1>5. /\ \A k \in 1..3 : k = 1 \/ k = 2 \/ k = 3
      /\ \A k \in 4..11 : k = 4 \/ k = 5 \/ k = 6 \/ k = 7 \/ k = 8 \/ k = 9 \/ k = 10 \/ k = 11
      /\ \A k \in 12..16 : k = 12 \/ k = 13 \/ k = 14 \/ k = 15 \/ k = 16
  OBVIOUS
<1> QED
  BY <1>1, <1>4, <1>5

\* No operator of the table is longer than one before it: this is why lex_op may take
\* the first that matches.
LEMMA TableDescends ==
    /\ \A k \in 1..Len(Operators) : /\ Operators[k] \in Seq(OpChars) /\ Len(Operators[k]) \in Nat
                                    /\ Len(Operators[k]) > 0 /\ Operators[k][1] \in OpChars
    /\ \A j, k \in 1..Len(Operators) : j < k => Len(Operators[j]) >= Len(Operators[k])
<1> DEFINE L(k) == Len(Operators[k])
<1>1. /\ \A k \in 1..3 : L(k) = 3
      /\ \A k \in 4..11 : L(k) = 2
      /\ \A k \in 12..16 : L(k) = 1
  <2>1. \A k \in 1..3 : L(k) = 3
    BY Spellings DEF IsSpelling
  <2>2. \A k \in 4..11 : L(k) = 2
    BY Spellings DEF IsSpelling
  <2>3. \A k \in 12..16 : L(k) = 1
    BY Spellings DEF IsSpelling
  <2> QED
    BY <2>1, <2>2, <2>3
<1>2. \A k \in 1..16 : k \in 1..3 \/ k \in 4..11 \/ k \in 12..16
  OBVIOUS
<1>3. \A k \in 1..16 : Operators[k] \in Seq(OpChars) /\ Operators[k][1] \in OpChars
  BY <1>2, Spellings DEF IsSpelling
<1> HIDE DEF L
<1>4. \A k \in 1..16 : L(k) \in Nat /\ L(k) > 0
  BY <1>1, <1>2
<1>5. \A j, k \in 1..16 : j < k => L(j) >= L(k)
  BY <1>1, <1>2
<1>6. Len(Operators) = 16
  BY Spellings
<1>7. /\ \A k \in 1..16 : /\ Operators[k] \in Seq(OpChars) /\ L(k) \in Nat
                          /\ L(k) > 0 /\ Operators[k][1] \in OpChars
      /\ \A j, k \in 1..16 : j < k => L(j) >= L(k)
  BY <1>3, <1>4, <1>5
<1> QED
  BY <1>6, <1>7 DEF L

\* The first character of a lexeme tells its class.
LEMMA FirstCharacter ==
    ASSUME NEW w \in Seq(Chars), Len(w) > 0, NEW kind \in Kinds, IsLexeme(w, kind)
    PROVE  /\ kind \notin {"eof", "error"} /\ w # << >> /\ w[1] \in Chars
           /\ w[1] \in Letters => IsWord(w)
           /\ w[1] \in Digits => IsNumber(w)
           /\ w[1] \in OpChars => IsOperator(w)
           /\ w[1] = "quote" => IsString(w)
           /\ w[1] \in Separators \cup {"nl"} => Len(w) = 1
           /\ w[1] \in Letters \cup Digits \cup OpChars \cup Separators \cup {"quote", "nl"}
<1>6. w # << >> /\ w[1] \in Chars
  OBVIOUS
<1>1. CASE kind \in {"ident", "keyword"}
  <2>1. IsWord(w)
    <3>1. w \in Keywords => w = <<"i", "f">>
      BY DEF Keywords
    <3>2. IsWord(<<"i", "f">>)
      BY DEF IsWord, Letters, Digits
    <3> QED
      BY <1>1, <3>1, <3>2 DEF IsLexeme
  <2>2. w[1] \in Letters
    BY <2>1 DEF IsWord
  <2>3. w[1] \notin Digits \cup OpChars \cup Separators \cup {"quote", "nl"}
    BY <2>2 DEF Letters, Digits, OpChars, Separators
  <2> QED
    BY <1>1, <1>6, <2>1, <2>2, <2>3
<1>2. CASE kind = "val"
  <2>1. CASE IsNumber(w)
    <3>1. w[1] \in Digits
      BY <2>1 DEF IsNumber
    <3>2. w[1] \notin Letters \cup OpChars \cup Separators \cup {"quote", "nl"}
      BY <3>1 DEF Letters, Digits, OpChars, Separators
    <3> QED
      BY <1>2, <1>6, <2>1, <3>1, <3>2
  <2>2. CASE IsString(w)
    <3>1. w[1] = "quote"
      BY <2>2 DEF IsString
    <3>2. w[1] \notin Letters \cup Digits \cup OpChars \cup Separators \cup {"nl"}
      BY <3>1 DEF Letters, Digits, OpChars, Separators
    <3> QED
      BY <1>2, <1>6, <2>2, <3>1, <3>2
  <2> QED
    BY <1>2, <2>1, <2>2 DEF IsLexeme
<1>3. CASE kind = "op"
  <2>1. IsOperator(w)
    BY <1>3 DEF IsLexeme
  <2>2. w[1] \in OpChars
    <3>1. PICK k \in 1..Len(Operators) : w = Operators[k]
      BY <2>1 DEF IsOperator
    <3> QED
      BY <3>1, TableDescends
  <2>3. w[1] \notin Letters \cup Digits \cup Separators \cup {"quote", "nl"}
    BY <2>2 DEF Letters, Digits, OpChars, Separators
  <2> QED
    BY <1>3, <1>6, <2>1, <2>2, <2>3
<1>4. CASE kind \in {"sep", "newline"}
  <2>1. Len(w) = 1 /\ w[1] \in Separators \cup {"nl"}
    BY <1>4 DEF IsLexeme
  <2>2. w[1] \notin Letters \cup Digits \cup OpChars \cup {"quote"}
    BY <2>1 DEF Letters, Digits, OpChars, Separators
  <2> QED
    BY <1>4, <1>6, <2>1, <2>2
<1>5. kind \notin {"eof", "error"}
  BY DEF IsLexeme
<1> QED
  BY <1>1, <1>2, <1>3, <1>4, <1>5 DEF Kinds

\* ... and that of a lexeme in the source, of whatever length.
LEMMA FirstOfLexeme ==
    ASSUME source \in Seq(Chars), NEW i \in Nat \ {0}, NEW j \in Int, NEW kind \in Kinds,
           Lexeme(i, j, kind)
    PROVE  /\ j \in (i + 1)..(Len(source) + 1) /\ i \in 1..Len(source)
           /\ Piece(i, j) \in Seq(Chars) /\ Len(Piece(i, j)) = j - i
           /\ \A k \in 1..(j - i) : Piece(i, j)[k] = CharAt(i + k - 1)
           /\ CharAt(i) \in Letters => IsWord(Piece(i, j))
           /\ CharAt(i) \in Digits => IsNumber(Piece(i, j))
           /\ CharAt(i) \in OpChars => IsOperator(Piece(i, j))
           /\ CharAt(i) = "quote" => IsString(Piece(i, j))
           /\ CharAt(i) \in Separators \cup {"nl"} => j = i + 1
           /\ CharAt(i) \in Letters \cup Digits \cup OpChars \cup Separators \cup {"quote", "nl"}
<1> DEFINE w == Piece(i, j)
<1>1. j \in (i + 1)..(Len(source) + 1) /\ IsLexeme(w, kind) /\ Len(source) \in Nat
  BY DEF Lexeme
<1>2. j \in i..(Len(source) + 1) /\ i \in 1..Len(source) /\ 1 \in 1..(j - i)
  BY <1>1
<1>3. w \in Seq(Chars) /\ Len(w) = j - i /\ \A k \in 1..(j - i) : w[k] = CharAt(i + k - 1)
  BY <1>2, PieceIs
<1>4. Len(w) > 0 /\ w[1] = CharAt(i)
  BY <1>2, <1>3
<1> HIDE DEF w
<1>5. /\ w[1] \in Letters => IsWord(w)
      /\ w[1] \in Digits => IsNumber(w)
      /\ w[1] \in OpChars => IsOperator(w)
      /\ w[1] = "quote" => IsString(w)
      /\ w[1] \in Separators \cup {"nl"} => Len(w) = 1
      /\ w[1] \in Letters \cup Digits \cup OpChars \cup Separators \cup {"quote", "nl"}
  BY <1>1, <1>3, <1>4, FirstCharacter
<1>6. Len(w) = 1 => j = i + 1
  <2>1. \A a \in Int : a - i = 1 => a = i + 1
    OBVIOUS
  <2> QED
    BY <1>3, <2>1
<1> QED
  BY <1>1, <1>2, <1>3, <1>4, <1>5, <1>6 DEF w

\* Whether a place is escaped depends on what stands before it only.
LEMMA EscapedSame ==
    ASSUME NEW v, NEW w, NEW k \in Nat, \A i \in 2..(k - 1) : v[i] = w[i]
    PROVE  Escaped(v, k) <=> Escaped(w, k)
<1>1. \A j \in 2..(k - 1) : \A i \in j..(k - 1) : i \in 2..(k - 1)
  OBVIOUS
<1>2. {j \in 2..(k - 1) : \A i \in j..(k - 1) : v[i] = "\\"}
        = {j \in 2..(k - 1) : \A i \in j..(k - 1) : w[i] = "\\"}
  BY <1>1
<1> QED
  BY <1>2 DEF Escaped

\* A backslash escapes the next place if it is not escaped itself.
LEMMA EscapedNext ==
    ASSUME NEW w, NEW k \in Nat, k >= 2
    PROVE  /\ w[k] = "\\" => (Escaped(w, k + 1) <=> ~Escaped(w, k))
           /\ w[k] # "\\" => ~Escaped(w, k + 1)
<1> DEFINE Run(m) == {j \in 2..(m - 1) : \A i \in j..(m - 1) : w[i] = "\\"}
<1>1. /\ Escaped(w, k) <=> Cardinality(Run(k)) % 2 = 1
      /\ Escaped(w, k + 1) <=> Cardinality(Run(k + 1)) % 2 = 1
  BY DEF Escaped
<1>2. IsFiniteSet(Run(k)) /\ k \notin Run(k)
  <2>1. IsFiniteSet(2..(k - 1))
    BY FS_Interval
  <2>2. Run(k) \subseteq 2..(k - 1) /\ k \notin 2..(k - 1)
    OBVIOUS
  <2> QED
    BY <2>1, <2>2, FS_Subset
<1>3. Cardinality(Run(k)) \in Nat
  BY <1>2, FS_CardinalityType
<1>4. ASSUME w[k] = "\\" PROVE Run(k + 1) = Run(k) \cup {k}
  <2>1. \A j : j \in 2..k <=> j \in 2..(k - 1) \/ j = k
    OBVIOUS
  <2>2. \A j \in 2..(k - 1) : \A i : i \in j..k <=> i \in j..(k - 1) \/ i = k
    OBVIOUS
  <2>3. k + 1 - 1 = k /\ \A i : i \in k..k <=> i = k
    OBVIOUS
  <2> QED
    BY <1>4, <2>1, <2>2, <2>3
<1>5. ASSUME w[k] # "\\" PROVE Run(k + 1) = {}
  <2>1. k + 1 - 1 = k /\ \A j \in 2..k : k \in j..k
    OBVIOUS
  <2> QED
    BY <1>5, <2>1
<1> HIDE DEF Run
<1>6. w[k] = "\\" => Cardinality(Run(k + 1)) = Cardinality(Run(k)) + 1
  BY <1>2, <1>4, FS_AddElement
<1>7. \A n \in Nat : (n + 1) % 2 = 1 <=> ~(n % 2 = 1)
  OBVIOUS
<1>8. w[k] # "\\" => Cardinality(Run(k + 1)) = 0
  BY <1>5, FS_EmptySet
<1> QED
  BY <1>1, <1>3, <1>6, <1>7, <1>8

LEMMA NotEscaped ==
    ASSUME NEW w PROVE ~Escaped(w, 2) /\ ~Escaped(w, 1)
<1>2. {j \in 2..(2 - 1) : \A i \in j..(2 - 1) : w[i] = "\\"} = {}
  OBVIOUS
<1>3. {j \in 2..(1 - 1) : \A i \in j..(1 - 1) : w[i] = "\\"} = {}
  OBVIOUS
<1> QED
  BY <1>2, <1>3, FS_EmptySet DEF Escaped

-----------------------------------------------------------------------------
(* Cursors.                                                                 *)

\* A cursor that passes over text without a newline.
LEMMA PathOver ==
    ASSUME NEW c \in Cursor, NEW d \in Cursor, OnPath(c), c.id <= d.id,
           d.line = c.line, d.col = c.col + (d.id - c.id),
           \A j \in c.id..(d.id - 1) : CharAt(j) # "nl"
    PROVE  OnPath(d)
<1> DEFINE i == c.id
           e == d.id
<1>1. i \in Nat /\ i > 0 /\ e \in Nat /\ i <= e /\ c.col \in Nat
  BY DEF Cursor
<1>2. c.line = 1 + Cardinality({j \in 1..(i - 1) : CharAt(j) = "nl"})
  BY DEF OnPath
<1>3. PICK b \in 0..(i - 1) : /\ b = 0 \/ CharAt(b) = "nl"
                              /\ \A j \in (b + 1)..(i - 1) : CharAt(j) # "nl"
                              /\ c.col = i - b
  BY DEF OnPath
<1>4. \A j \in i..(e - 1) : CharAt(j) # "nl"
  OBVIOUS
<1>5. d.line = c.line /\ d.col = c.col + (e - i)
  OBVIOUS
<1> HIDE DEF i, e
<1>6. \A j : j \in 1..(e - 1) <=> j \in 1..(i - 1) \/ j \in i..(e - 1)
  BY <1>1
<1>7. {j \in 1..(e - 1) : CharAt(j) = "nl"} = {j \in 1..(i - 1) : CharAt(j) = "nl"}
  BY <1>4, <1>6
<1>8. /\ b \in 0..(e - 1) /\ (i - b) + (e - i) = e - b
      /\ \A j \in (b + 1)..(e - 1) : j \in (b + 1)..(i - 1) \/ j \in i..(e - 1)
  BY <1>1
<1>9. \E a \in 0..(e - 1) : /\ a = 0 \/ CharAt(a) = "nl"
                            /\ \A j \in (a + 1)..(e - 1) : CharAt(j) # "nl"
                            /\ d.col = e - a
  BY <1>3, <1>4, <1>5, <1>8
<1> QED
  BY <1>2, <1>5, <1>7, <1>9 DEF OnPath, e

LEMMA PathAdvanced ==
    ASSUME source \in Seq(Chars), NEW c \in Cursor, OnPath(c)
    PROVE  OnPath(Advanced(c))
<1> DEFINE nls(m) == {j \in 1..(m - 1) : CharAt(j) = "nl"}
           i == c.id
           d == Advanced(c)
<1>1. i \in Nat /\ i > 0 /\ c.line \in Nat /\ c.col \in Nat /\ Len(source) \in Nat
  BY DEF Cursor
<1>2. c.line = 1 + Cardinality(nls(i))
  BY DEF OnPath
<1>3. PICK b \in 0..(i - 1) : /\ b = 0 \/ CharAt(b) = "nl"
                              /\ \A j \in (b + 1)..(i - 1) : CharAt(j) # "nl"
                              /\ c.col = i - b
  BY DEF OnPath
<1>4. CASE i > Len(source) + BEHIND
  BY <1>4 DEF Advanced
<1>5. CASE ~(i > Len(source) + BEHIND) /\ CharAt(i) = "nl"
  <2>1. d.id = i + 1 /\ d.line = c.line + 1 /\ d.col = 1
    BY <1>5 DEF Advanced
  <2> HIDE DEF d, i
  <2>2. nls(i + 1) = nls(i) \cup {i} /\ i \notin nls(i)
    <3>1. \A j : j \in 1..(i + 1 - 1) <=> j \in 1..(i - 1) \/ j = i
      BY <1>1
    <3>2. i \notin 1..(i - 1)
      BY <1>1
    <3> QED
      BY <1>5, <3>1, <3>2
  <2>3. IsFiniteSet(nls(i))
    <3>1. IsFiniteSet(1..(i - 1))
      BY <1>1, FS_Interval
    <3>2. nls(i) \subseteq 1..(i - 1)
      OBVIOUS
    <3> QED
      BY <3>1, <3>2, FS_Subset
  <2> HIDE DEF nls
  <2>4. Cardinality(nls(i + 1)) = Cardinality(nls(i)) + 1 /\ Cardinality(nls(i)) \in Nat
    BY <2>2, <2>3, FS_AddElement, FS_CardinalityType
  <2>5. d.line = 1 + Cardinality(nls(i + 1))
    BY <1>2, <2>1, <2>4 DEF i
  <2>6. /\ i \in 0..(i + 1 - 1) /\ 1 = i + 1 - i /\ \A j \in (i + 1)..(i + 1 - 1) : FALSE
    BY <1>1
  <2>7. \E a \in 0..(d.id - 1) : /\ a = 0 \/ CharAt(a) = "nl"
                                 /\ \A j \in (a + 1)..(d.id - 1) : CharAt(j) # "nl"
                                 /\ d.col = d.id - a
    BY <1>5, <2>1, <2>6
  <2>8. d.line = 1 + Cardinality({j \in 1..(d.id - 1) : CharAt(j) = "nl"})
    BY <2>1, <2>5 DEF nls
  <2>9. OnPath(d)
    BY <2>7, <2>8 DEF OnPath
  <2> QED
    BY <2>9 DEF d
<1>6. CASE ~(i > Len(source) + BEHIND) /\ CharAt(i) # "nl"
  <2>0. d \in Cursor
    BY AdvancedIs
  <2>1. d.id = i + 1 /\ d.line = c.line /\ d.col = c.col + 1
    BY <1>6 DEF Advanced
  <2> HIDE DEF d
  <2>2. \A j \in i..(i + 1 - 1) : j = i
    BY <1>1
  <2>3. \A j \in c.id..(d.id - 1) : CharAt(j) # "nl"
    BY <1>1, <1>6, <2>1, <2>2
  <2>4. c.id <= d.id /\ d.col = c.col + (d.id - c.id)
    BY <1>1, <2>1
  <2>5. OnPath(d)
    BY <2>0, <2>1, <2>3, <2>4, PathOver
  <2> QED
    BY <2>5 DEF d
<1> QED
  BY <1>4, <1>5, <1>6

LEMMA PathUnique ==
    ASSUME NEW c \in Cursor, NEW d \in Cursor, OnPath(c), OnPath(d), c.id = d.id
    PROVE  c = d
<1> DEFINE i == c.id
<1>1. c.line = d.line
  BY DEF OnPath
<1>2. PICK a \in 0..(i - 1) : /\ a = 0 \/ CharAt(a) = "nl"
                              /\ \A j \in (a + 1)..(i - 1) : CharAt(j) # "nl"
                              /\ c.col = i - a
  BY DEF OnPath
<1>3. PICK b \in 0..(i - 1) : /\ b = 0 \/ CharAt(b) = "nl"
                              /\ \A j \in (b + 1)..(i - 1) : CharAt(j) # "nl"
                              /\ d.col = i - b
  BY DEF OnPath
<1>4. i \in Nat /\ i > 0
  BY DEF Cursor
<1>5. a = b
  <2>1. a < b => b \in (a + 1)..(i - 1) /\ b # 0
    BY <1>4
  <2>2. b < a => a \in (b + 1)..(i - 1) /\ a # 0
    BY <1>4
  <2>3. ~(a < b) /\ ~(b < a)
    BY <1>2, <1>3, <2>1, <2>2
  <2> QED
    BY <1>4, <2>3
<1>6. c.col = d.col
  BY <1>2, <1>3, <1>5
<1> QED
  BY <1>1, <1>6 DEF Cursor

\* Kinds of lexemes begin with different characters or are told apart by the table.
LEMMA KindOf ==
    ASSUME NEW w, NEW kind \in Kinds, IsLexeme(w, kind)
    PROVE  /\ kind \in {"ident", "keyword"} => w[1] \in Letters
           /\ kind = "val" => w[1] \in Digits \cup {"quote"}
           /\ kind = "op" => w[1] \in OpChars
           /\ kind = "sep" => w[1] \in Separators
           /\ kind = "newline" => w[1] = "nl"
           /\ kind = "keyword" <=> w \in Keywords
           /\ kind \in {"ident", "keyword", "val", "op", "sep", "newline"}
<1>1. w \in Keywords => w[1] \in Letters
  BY DEF Keywords, Letters
<1>2. CASE kind \in {"ident", "keyword"}
  BY <1>1, <1>2 DEF IsLexeme, IsWord
<1>3. CASE kind = "val"
  <2>1. w[1] \in Digits \cup {"quote"}
    <3>1. CASE IsNumber(w)
      BY <3>1 DEF IsNumber
    <3>2. CASE IsString(w)
      BY <3>2 DEF IsString
    <3> QED
      BY <1>3, <3>1, <3>2 DEF IsLexeme
  <2>2. w[1] \notin Letters
    BY <2>1 DEF Digits, Letters
  <2> QED
    BY <1>1, <1>3, <2>1, <2>2
<1>4. CASE kind = "op"
  <2>1. w[1] \in OpChars
    <3>1. PICK k \in 1..Len(Operators) : w = Operators[k]
      BY <1>4 DEF IsLexeme, IsOperator
    <3> QED
      BY <3>1, TableDescends
  <2>2. w[1] \notin Letters
    BY <2>1 DEF OpChars, Letters
  <2> QED
    BY <1>1, <1>4, <2>1, <2>2
<1>5. CASE kind = "sep"
  <2>1. w[1] \in Separators
    BY <1>5 DEF IsLexeme
  <2>2. w[1] \notin Letters
    BY <2>1 DEF Separators, Letters
  <2> QED
    BY <1>1, <1>5, <2>1, <2>2
<1>6. CASE kind = "newline"
  <2>1. w[1] = "nl"
    BY <1>6 DEF IsLexeme
  <2>2. w[1] \notin Letters
    BY <2>1 DEF Letters
  <2> QED
    BY <1>1, <1>6, <2>1, <2>2
<1>7. kind \in {"ident", "keyword", "val", "op", "sep", "newline"}
  BY DEF IsLexeme
<1> QED
  BY <1>2, <1>3, <1>4, <1>5, <1>6, <1>7

LEMMA KindUnique ==
    ASSUME NEW w, NEW j \in Kinds, NEW k \in Kinds, IsLexeme(w, j), IsLexeme(w, k)
    PROVE  j = k
<1>1. \A c : /\ c \in Letters => c \notin Digits \cup OpChars \cup Separators \cup {"quote", "nl"}
             /\ c \in Digits \cup {"quote"} => c \notin OpChars \cup Separators \cup {"nl"}
             /\ c \in OpChars => c \notin Separators \cup {"nl"}
             /\ c \in Separators => c # "nl"
  BY DEF Letters, Digits, OpChars, Separators
<1> DEFINE Fits(kind) == /\ kind \in {"ident", "keyword"} => w[1] \in Letters
                         /\ kind = "val" => w[1] \in Digits \cup {"quote"}
                         /\ kind = "op" => w[1] \in OpChars
                         /\ kind = "sep" => w[1] \in Separators
                         /\ kind = "newline" => w[1] = "nl"
                         /\ kind = "keyword" <=> w \in Keywords
                         /\ kind \in {"ident", "keyword", "val", "op", "sep", "newline"}
<1>2. Fits(j) /\ Fits(k)
  BY KindOf
<1> QED
  BY <1>1, <1>2

\* What lex_next_token has depends only on the place where it is called, unless
\* peek_next may have led lex_num on.
LEMMA TokenUnique ==
    ASSUME source \in Seq(Chars), ~EndsInPoint, NEW i \in Nat, NEW t \in Token, NEW u \in Token,
           IsTokenAt(t, i), IsTokenAt(u, i)
    PROVE  t = u
<1> DEFINE p == t.pos.id
           q == u.pos.id
<1>1. /\ p \in Nat \ {0} /\ q \in Nat \ {0} /\ t.pos \in Cursor /\ u.pos \in Cursor
      /\ t.kind \in Kinds /\ u.kind \in Kinds /\ Len(source) \in Nat
  BY EndIs DEF Token
<1>2. Exact(t) /\ Exact(u) /\ IsLongest(t) /\ IsLongest(u)
  BY DEF IsTokenAt, Exact
<1>3. p = q
  <2>1. /\ i <= p /\ CharAt(p) # "sp" /\ \A j \in i..(p - 1) : CharAt(j) = "sp"
        /\ i <= q /\ CharAt(q) # "sp" /\ \A j \in i..(q - 1) : CharAt(j) = "sp"
    BY DEF IsTokenAt, Exact
  <2> HIDE DEF p, q
  <2>2. (p < q => p \in i..(q - 1)) /\ (q < p => q \in i..(p - 1))
    BY <1>1, <2>1
  <2>3. ~(p < q) /\ ~(q < p)
    BY <2>1, <2>2
  <2> QED
    BY <1>1, <2>3
<1>4. t.pos = u.pos
  BY <1>1, <1>2, <1>3, PathUnique DEF Exact
<1>5. ASSUME NEW x \in Token, Exact(x), x.kind \notin {"eof", "error"}
      PROVE  /\ Lexeme(x.pos.id, End(x), x.kind) /\ x.text = Piece(x.pos.id, End(x))
             /\ CannotGrow(x.pos.id, End(x)) /\ x.len = Len(x.text) % LEN_SIZE
             /\ x.pos.id <= Len(source) /\ End(x) \in Nat
             /\ End(x) \in (x.pos.id + 1)..(Len(source) + 1)
  <2>1. ~ReadsBehind(x) /\ IsLongest(x) /\ x.pos.id <= Len(source)
    BY <1>5 DEF Exact
  <2>2. Lexeme(x.pos.id, End(x), x.kind)
    BY <1>5, <2>1 DEF IsLongest
  <2>3. End(x) \in (x.pos.id + 1)..(Len(source) + 1)
    BY <2>2 DEF Lexeme
  <2> QED
    BY <1>5, <2>1, <2>2, <2>3, EndIs DEF IsLongest, CannotGrow
<1>6. ASSUME NEW x \in Token, Exact(x), NEW y \in Token, Exact(y), x.pos.id = y.pos.id,
             x.kind \in {"eof", "error"}
      PROVE  x.kind = y.kind
  <2>1. CASE x.kind = "eof"
    <3>1. x.pos.id > Len(source) /\ x.pos.id \in Nat
      BY <1>6, <2>1, EndIs DEF Exact, IsLongest
    <3>2. y.kind # "eof" => y.pos.id <= Len(source)
      BY <1>6 DEF Exact
    <3> QED
      BY <1>1, <1>6, <2>1, <3>1, <3>2
  <2>2. CASE x.kind = "error"
    <3>1. y.kind # "eof"
      <4>1. x.pos.id <= Len(source) /\ x.pos.id \in Nat
        BY <1>6, <2>2, EndIs DEF Exact
      <4>2. y.kind = "eof" => y.pos.id > Len(source)
        BY <1>6 DEF Exact, IsLongest
      <4> QED
        BY <1>1, <1>6, <4>1, <4>2
    <3>2. ASSUME y.kind # "error" PROVE FALSE
      <4>1. /\ Lexeme(y.pos.id, End(y), y.kind) /\ End(y) \in Nat /\ y.kind \in Kinds
            /\ End(y) \in (y.pos.id + 1)..(Len(source) + 1)
        BY <1>5, <1>6, <3>1, <3>2 DEF Token
      <4>2. \A j \in x.pos.id..(Len(source) + 1), kind \in Kinds : ~Lexeme(x.pos.id, j, kind)
        BY <1>6, <2>2 DEF Exact, IsLongest
      <4>3. x.pos.id \in Nat
        BY EndIs
      <4>4. End(y) \in x.pos.id..(Len(source) + 1)
        BY <1>1, <1>6, <4>1, <4>3
      <4> QED
        BY <1>6, <4>1, <4>2, <4>4
    <3> QED
      BY <2>2, <3>2
  <2> QED
    BY <1>6, <2>1, <2>2
<1>7. CASE t.kind \in {"eof", "error"} \/ u.kind \in {"eof", "error"}
  <2>1. t.kind = u.kind /\ t.kind \in {"eof", "error"}
    BY <1>2, <1>3, <1>6, <1>7
  <2>2. t.text = u.text /\ t.len = u.len
    BY <1>2, <2>1 DEF Exact
  <2> QED
    BY <1>4, <2>1, <2>2 DEF Token
<1>8. CASE t.kind \notin {"eof", "error"} /\ u.kind \notin {"eof", "error"}
  <2> DEFINE e == End(t)
             f == End(u)
  <2>1. /\ Lexeme(p, e, t.kind) /\ t.text = Piece(p, e) /\ CannotGrow(p, e)
        /\ t.len = Len(t.text) % LEN_SIZE /\ e \in Nat /\ e <= Len(source) + 1
    BY <1>2, <1>5, <1>8
  <2>2. /\ Lexeme(p, f, u.kind) /\ u.text = Piece(p, f) /\ CannotGrow(p, f)
        /\ u.len = Len(u.text) % LEN_SIZE /\ f \in Nat /\ f <= Len(source) + 1
    BY <1>2, <1>3, <1>5, <1>8
  <2> HIDE DEF e, f, p
  <2>3. /\ e < f => f \in (e + 1)..(Len(source) + 1)
        /\ f < e => e \in (f + 1)..(Len(source) + 1)
    BY <1>1, <2>1, <2>2
  <2>4. ~(e < f) /\ ~(f < e)
    BY <1>1, <2>1, <2>2, <2>3 DEF CannotGrow
  <2>5. e = f
    BY <2>1, <2>2, <2>4
  <2>6. IsLexeme(t.text, t.kind) /\ IsLexeme(t.text, u.kind) /\ t.text = u.text
    BY <2>1, <2>2, <2>5 DEF Lexeme
  <2>7. t.kind = u.kind
    BY <1>1, <2>6, KindUnique
  <2>8. t.len = u.len
    BY <2>1, <2>2, <2>6
  <2> QED
    BY <1>4, <2>6, <2>7, <2>8 DEF Token
<1> QED
  BY <1>7, <1>8

LEMMA NextPlaceIs ==
    ASSUME source \in Seq(Chars), NEW t \in Token
    PROVE  /\ NextPlace(t) \in Nat /\ t.pos.id <= NextPlace(t) /\ NextPlace(t) <= End(t)
           /\ t.pos.id <= Len(source) => NextPlace(t) = End(t) /\ t.pos.id < NextPlace(t)
<1> DEFINE p == t.pos.id
           e == End(t)
<1>1. e \in Nat /\ e > p /\ p \in Nat /\ Len(source) \in Nat
  BY EndIs
<1>2. NextPlace(t) = IF p > Len(source) + 4 THEN p ELSE e
  BY DEF NextPlace, BEHIND
<1> HIDE DEF p, e
<1>3. NextPlace(t) \in Nat /\ p <= NextPlace(t) /\ NextPlace(t) <= e
  BY <1>1, <1>2
<1>4. p <= Len(source) => NextPlace(t) = e /\ p < NextPlace(t)
  BY <1>1, <1>2
<1> QED
  BY <1>3, <1>4 DEF p, e

LEMMA ChainAppend ==
    ASSUME source \in Seq(Chars), NEW i \in Nat, NEW s \in Seq(Token), NEW t \in Token,
           IsChain(s, i), IsTokenAt(t, ChainEnd(s, i))
    PROVE  /\ IsChain(Append(s, t), i) /\ Append(s, t) \in Seq(Token) /\ Append(s, t) # << >>
           /\ Len(Append(s, t)) = Len(s) + 1 /\ Append(s, t)[Len(s) + 1] = t
           /\ \A k \in 1..Len(s) : Append(s, t)[k] = s[k]
           /\ ChainEnd(Append(s, t), i) = NextPlace(t)
<1> DEFINE r == Append(s, t)
           n == Len(s)
           m == n + 1
<1>1. /\ r \in Seq(Token) /\ Len(r) = m /\ r[m] = t /\ n \in Nat /\ r # << >>
      /\ \A k \in 1..n : r[k] = s[k] /\ s[k] \in Token
  OBVIOUS
<1>2. \A k \in 1..n : /\ i <= s[k].pos.id /\ s[k].pos.id \in Nat /\ NextPlace(s[k]) \in Nat
                      /\ s[k].pos.id <= NextPlace(s[k])
                      /\ IsTokenAt(s[k], IF k = 1 THEN i ELSE NextPlace(s[k - 1]))
  BY <1>1, EndIs, NextPlaceIs DEF IsChain
<1>3. \A j, k \in 1..n : j < k => NextPlace(s[j]) <= s[k].pos.id
  BY DEF IsChain
<1>4. t.pos.id \in Nat /\ ChainEnd(s, i) <= t.pos.id
  BY EndIs DEF IsTokenAt
<1>5. IF n = 0 THEN ChainEnd(s, i) = i ELSE ChainEnd(s, i) = NextPlace(s[n]) /\ n \in 1..n
  BY <1>1 DEF ChainEnd
<1> HIDE DEF r
<1>6. i <= t.pos.id
  <2>1. CASE n = 0
    BY <1>4, <1>5, <2>1
  <2>2. CASE n # 0
    <3>1. /\ i <= s[n].pos.id /\ s[n].pos.id \in Nat /\ NextPlace(s[n]) \in Nat
          /\ s[n].pos.id <= NextPlace(s[n]) /\ NextPlace(s[n]) <= t.pos.id
      BY <1>2, <1>4, <1>5, <2>2
    <3> QED
      BY <1>4, <3>1
  <2> QED
    BY <2>1, <2>2
<1>7. \A j \in 1..n : NextPlace(s[j]) <= t.pos.id
  <2> TAKE j \in 1..n
  <2>1. n \in 1..n /\ n # 0 /\ (j = n \/ j < n)
    BY <1>1
  <2>2. NextPlace(s[n]) <= t.pos.id
    BY <1>4, <1>5, <2>1
  <2>3. CASE j < n
    <3>1. NextPlace(s[j]) <= s[n].pos.id /\ s[n].pos.id <= NextPlace(s[n])
      BY <1>2, <1>3, <2>1, <2>3
    <3>2. NextPlace(s[j]) \in Nat /\ s[n].pos.id \in Nat /\ NextPlace(s[n]) \in Nat
      BY <1>2, <2>1
    <3> QED
      BY <1>4, <2>2, <3>1, <3>2
  <2> QED
    BY <2>1, <2>2, <2>3
<1>8. \A k \in 1..m : (k \in 1..n /\ k # m /\ (k # 1 => k - 1 \in 1..n)) \/ k = m
  BY <1>1
<1>9. \A k \in 1..m : /\ i <= r[k].pos.id
                      /\ IsTokenAt(r[k], IF k = 1 THEN i ELSE NextPlace(r[k - 1]))
  <2> TAKE k \in 1..m
  <2>1. CASE k \in 1..n
    <3>1. r[k] = s[k] /\ (k # 1 => r[k - 1] = s[k - 1])
      BY <1>1, <1>8, <2>1
    <3> QED
      BY <1>2, <2>1, <3>1
  <2>2. CASE k = m
    <3>1. (IF k = 1 THEN i ELSE NextPlace(r[k - 1])) = ChainEnd(s, i)
      <4>1. k = 1 <=> n = 0
        BY <1>1, <2>2
      <4>2. k # 1 => k - 1 = n /\ r[n] = s[n]
        BY <1>1, <1>5, <2>2
      <4> QED
        BY <1>5, <4>1, <4>2
    <3> QED
      BY <1>1, <1>6, <2>2, <3>1
  <2> QED
    BY <1>8, <2>1, <2>2
<1>10. \A j, k \in 1..m : j < k => NextPlace(r[j]) <= r[k].pos.id
  <2> TAKE j, k \in 1..m
  <2> SUFFICES ASSUME j < k PROVE NextPlace(r[j]) <= r[k].pos.id
    OBVIOUS
  <2>1. j \in 1..n /\ r[j] = s[j]
    BY <1>1
  <2>2. CASE k \in 1..n
    BY <1>1, <1>3, <2>1, <2>2
  <2>3. CASE k = m
    BY <1>1, <1>7, <2>1, <2>3
  <2> QED
    BY <1>8, <2>2, <2>3
<1>11. IsChain(r, i)
  BY <1>1, <1>9, <1>10 DEF IsChain
<1>12. ChainEnd(r, i) = NextPlace(t)
  BY <1>1 DEF ChainEnd
<1> QED
  BY <1>1, <1>11, <1>12 DEF r

LEMMA ChainTail ==
    ASSUME source \in Seq(Chars), NEW i \in Nat, NEW s \in Seq(Token), s # << >>, IsChain(s, i)
    PROVE  /\ s[1] \in Token /\ IsTokenAt(s[1], i)
           /\ Tail(s) \in Seq(Token) /\ Len(Tail(s)) = Len(s) - 1
           /\ IsChain(Tail(s), NextPlace(s[1]))
           /\ Tail(s) # << >> => Tail(s)[Len(Tail(s))] = s[Len(s)] /\ Len(s) > 1
           /\ Tail(s) = << >> => s[Len(s)] = s[1] /\ Len(s) = 1
<1> DEFINE r == Tail(s)
           n == Len(s) - 1
<1>1. /\ r \in Seq(Token) /\ Len(r) = n /\ n \in Nat /\ Len(s) = n + 1 /\ 1 \in 1..Len(s)
      /\ \A k \in 1..n : r[k] = s[k + 1] /\ k + 1 \in 1..Len(s)
      /\ r = << >> <=> n = 0
  <2>1. n \in Nat /\ Len(s) = n + 1 /\ 1 \in 1..Len(s) /\ \A k \in 1..n : k + 1 \in 1..Len(s)
    OBVIOUS
  <2>2. r \in Seq(Token) /\ Len(r) = n /\ \A k \in 1..n : r[k] = s[k + 1]
    <3>1. /\ Tail(s) \in Seq(Token) /\ Len(Tail(s)) = Len(s) - 1
          /\ \A k \in 1..Len(Tail(s)) : Tail(s)[k] = s[k + 1]
      BY HeadTailProperties
    <3> QED
      BY <3>1
  <2>3. r = << >> <=> n = 0
    <3>1. \A x \in Seq(Token) : x = << >> <=> Len(x) = 0
      OBVIOUS
    <3> QED
      BY <2>2, <3>1
  <2> QED
    BY <2>1, <2>2, <2>3
<1>2. \A k \in 1..Len(s) : IsTokenAt(s[k], IF k = 1 THEN i ELSE NextPlace(s[k - 1]))
  BY DEF IsChain
<1>3. \A j, k \in 1..Len(s) : j < k => NextPlace(s[j]) <= s[k].pos.id
  BY DEF IsChain
<1>4. s[1] \in Token /\ IsTokenAt(s[1], i)
  BY <1>1, <1>2
<1> HIDE DEF r, n
<1>5. \A k \in 1..n : /\ NextPlace(s[1]) <= r[k].pos.id
                      /\ IsTokenAt(r[k], IF k = 1 THEN NextPlace(s[1]) ELSE NextPlace(r[k - 1]))
  <2> TAKE k \in 1..n
  <2>1. k + 1 # 1 /\ 1 < k + 1 /\ (k + 1) - 1 = k /\ r[k] = s[k + 1] /\ k + 1 \in 1..Len(s)
    BY <1>1
  <2>2. NextPlace(s[1]) <= r[k].pos.id
    BY <1>1, <1>3, <2>1
  <2>3. IsTokenAt(r[k], NextPlace(s[k]))
    BY <1>2, <2>1
  <2>4. k # 1 => r[k - 1] = s[k]
    <3>1. k # 1 => k - 1 \in 1..n /\ (k - 1) + 1 = k
      BY <1>1
    <3> QED
      BY <1>1, <3>1
  <2> QED
    BY <2>2, <2>3, <2>4
<1>6. \A j, k \in 1..n : j < k => NextPlace(r[j]) <= r[k].pos.id
  <2>1. \A j, k \in 1..n : j < k => j + 1 < k + 1
    BY <1>1
  <2> QED
    BY <1>1, <1>3, <2>1
<1>7. IsChain(r, NextPlace(s[1]))
  BY <1>1, <1>5, <1>6 DEF IsChain
<1>8. n # 0 => n \in 1..n
  BY <1>1
<1>9. /\ r # << >> => r[Len(r)] = s[Len(s)] /\ Len(s) > 1
      /\ r = << >> => s[Len(s)] = s[1] /\ Len(s) = 1
  BY <1>1, <1>8
<1> QED
  BY <1>1, <1>4, <1>7, <1>9 DEF r, n

\* A blank is passed over.
LEMMA ChainSkip ==
    ASSUME source \in Seq(Chars), NEW i \in Nat, NEW s \in Seq(Token), IsChain(s, i),
           CharAt(i) = "sp"
    PROVE  IsChain(s, i + 1)
<1>1. \A k \in 1..Len(s) : /\ s[k] \in Token /\ s[k].pos.id \in Nat /\ NextPlace(s[k]) \in Nat
                           /\ s[k].pos.id <= NextPlace(s[k])
                           /\ IsTokenAt(s[k], IF k = 1 THEN i ELSE NextPlace(s[k - 1]))
  BY EndIs, NextPlaceIs DEF IsChain
<1>2. \A j, k \in 1..Len(s) : j < k => NextPlace(s[j]) <= s[k].pos.id
  BY DEF IsChain
<1>3. ASSUME 1 \in 1..Len(s) PROVE IsTokenAt(s[1], i + 1) /\ i + 1 <= s[1].pos.id
  <2>1. IsTokenAt(s[1], i) /\ s[1].pos.id \in Nat
    BY <1>1, <1>3
  <2>2. /\ Exact(s[1]) /\ i <= s[1].pos.id /\ CharAt(s[1].pos.id) # "sp"
        /\ \A j \in i..(s[1].pos.id - 1) : CharAt(j) = "sp"
    BY <2>1 DEF IsTokenAt, Exact
  <2>3. i # s[1].pos.id
    BY <2>2
  <2>4. i + 1 <= s[1].pos.id
    BY <2>1, <2>2, <2>3
  <2>5. \A j \in (i + 1)..(s[1].pos.id - 1) : j \in i..(s[1].pos.id - 1)
    BY <2>1
  <2> QED
    BY <2>2, <2>4, <2>5 DEF IsTokenAt
<1>4. \A k \in 1..Len(s) : i + 1 <= s[k].pos.id
  <2> TAKE k \in 1..Len(s)
  <2>1. 1 \in 1..Len(s) /\ (k = 1 \/ 1 < k)
    OBVIOUS
  <2>2. CASE 1 < k
    <3>1. /\ i + 1 <= s[1].pos.id /\ s[1].pos.id <= NextPlace(s[1])
          /\ NextPlace(s[1]) <= s[k].pos.id
      BY <1>1, <1>2, <1>3, <2>1, <2>2
    <3>2. s[1].pos.id \in Nat /\ NextPlace(s[1]) \in Nat /\ s[k].pos.id \in Nat
      BY <1>1, <2>1
    <3> QED
      BY <3>1, <3>2
  <2> QED
    BY <1>3, <2>1, <2>2
<1>5. \A k \in 1..Len(s) : IsTokenAt(s[k], IF k = 1 THEN i + 1 ELSE NextPlace(s[k - 1]))
  BY <1>1, <1>3
<1> QED
  BY <1>2, <1>4, <1>5 DEF IsChain

-----------------------------------------------------------------------------
(* Steps that keep what is said of the tokens taken.                        *)

LEMMA SameText ==
    ASSUME UNCHANGED source
    PROVE  /\ \A j : CharAt(j)' = CharAt(j)
           /\ \A t : IsLongest(t)' <=> IsLongest(t)
<1>1. \A j : CharAt(j)' = CharAt(j)
  BY DEF CharAt
<1>2. \A i, j, kind : Lexeme(i, j, kind)' <=> Lexeme(i, j, kind)
  BY DEF Lexeme, Piece
<1>3. \A i, j : Piece(i, j)' = Piece(i, j)
  BY DEF Piece
<1>4. \A t : ReadsBehind(t)' <=> ReadsBehind(t)
  BY DEF ReadsBehind
<1> QED
  BY <1>1, <1>2, <1>3, <1>4 DEF IsLongest

LEMMA SameChain ==
    ASSUME UNCHANGED source
    PROVE  /\ \A c : OnPath(c)' <=> OnPath(c)
           /\ \A s, i : IsChain(s, i)' <=> IsChain(s, i)
           /\ \A s, i : ChainEnd(s, i)' = ChainEnd(s, i)
           /\ EndsInPoint' <=> EndsInPoint
<1>1. \A j : CharAt(j)' = CharAt(j)
  BY SameText
<1>2. \A t : (IsLongest(t)' <=> IsLongest(t)) /\ (ReadsBehind(t)' <=> ReadsBehind(t))
  BY SameText DEF ReadsBehind
<1>3. EndsInPoint' <=> EndsInPoint
  BY DEF EndsInPoint
<1>4. \A t : NextPlace(t)' = NextPlace(t)
  BY DEF NextPlace
<1>5. \A c : OnPath(c)' <=> OnPath(c)
  BY <1>1 DEF OnPath
<1>6. \A t : Exact(t)' <=> Exact(t)
  BY <1>1, <1>2, <1>3, <1>5 DEF Exact
<1>7. \A t, i : IsTokenAt(t, i)' <=> IsTokenAt(t, i)
  BY <1>1, <1>6 DEF IsTokenAt
<1>8. \A s, i : IsChain(s, i)' <=> IsChain(s, i)
  BY <1>4, <1>7 DEF IsChain
<1>9. \A s, i : ChainEnd(s, i)' = ChainEnd(s, i)
  BY <1>4 DEF ChainEnd
<1> QED
  BY <1>3, <1>5, <1>8, <1>9

\* Tokens before and after a step that takes none.
LEMMA StableInv ==
    ASSUME LexInv, UNCHANGED <<source, taken>>, Reached' = Reached
    PROVE  ReachedInv' /\ TakenInv' /\ AdjacentIsTextual'
<1>1. Last' = Last /\ LastEnd' = LastEnd
  BY DEF Last, LastEnd
<1>2. ReachedInv'
  BY <1>1, SameText DEF LexInv, ReachedInv
<1>3. TakenInv'
  BY SameText DEF LexInv, TakenInv
<1>4. AdjacentIsTextual'
  BY DEF LexInv, AdjacentIsTextual
<1> QED
  BY <1>2, <1>3, <1>4

\* are_tokens_adjacent on a name and a token after it.
LEMMA AdjacentIs ==
    ASSUME NEW name \in Token, NEW paren \in Token, name.kind = "ident", IsLongest(name),
           End(name) <= paren.pos.id,
           End(name) = paren.pos.id => paren.pos.line = name.pos.line
    PROVE  Adjacent(name, paren) <=> End(name) = paren.pos.id /\ Len(name.text) < LEN_SIZE
<1> DEFINE n == Len(name.text)
           p == name.pos.id
           q == paren.pos.id
<1>1. /\ name.text # << >> /\ name.len = n % LEN_SIZE /\ n \in Nat /\ p \in Nat /\ q \in Nat
      /\ End(name) = p + n
  BY EndIs DEF IsLongest
<1>2. LEN_SIZE \in Nat /\ LEN_SIZE > 0
  BY Constants
<1>3. Adjacent(name, paren) <=> name.pos.line = paren.pos.line /\ p + name.len = q
  BY DEF Adjacent
<1> HIDE DEF n, p, q
<1>4. \A a, b \in Nat : b > 0 => /\ a % b \in Nat /\ a % b < b
                                 /\ a < b => a % b = a
  OBVIOUS
<1>5. /\ name.len \in Nat /\ name.len < LEN_SIZE
      /\ n < LEN_SIZE => name.len = n
  BY <1>1, <1>2, <1>4
<1>6. CASE n < LEN_SIZE
  BY <1>1, <1>3, <1>5, <1>6 DEF q, n
<1>7. CASE ~(n < LEN_SIZE)
  <2>1. p + name.len < p + n
    BY <1>1, <1>2, <1>5, <1>7
  <2>2. p + name.len # q
    BY <1>1, <1>5, <2>1 DEF q
  <2> QED
    BY <1>3, <1>7, <2>2 DEF n
<1> QED
  BY <1>6, <1>7

\* A call that has a token keeps the invariant.
LEMMA ReturnInv ==
    ASSUME LexInv, NEW t \in Token, NEW c \in Cursor, Return(t, c),
           UNCHANGED <<source, pos, decimal>>, phase # "idle",
           IsLongest(t), t.pos = Begun, c.id <= End(t),
           t.kind = "ident" => c.id = End(t) /\ c.line = t.pos.line
    PROVE  LexInv'
<1>1. TypeOK /\ ReachedInv /\ TakenInv /\ AdjacentIsTextual
  BY DEF LexInv
<1>2. /\ taken \in Seq(Token) /\ Len(taken) \in Nat /\ \A k \in 1..Len(taken) : taken[k] \in Token
      /\ call.mark \in Cursor /\ call.left \in Nat /\ call.n \in Nat
  BY <1>1, StateType
<1>3. call \in Calls /\ call.fn \in {"next", "peek"} /\ c.id \in Nat
  BY <1>1 DEF TypeOK, Calls, Cursor
<1>4. ScanInv'
  <2>1. phase' \in {"idle", "start"}
    BY DEF Return
  <2> QED
    BY <2>1 DEF ScanInv, WordInv, NumInv, StrInv
<1>5. CASE call.fn = "next"
  <2>1. /\ taken' = Append(taken, t) /\ cursor' = c /\ phase' = "idle"
        /\ UNCHANGED <<call, promised>>
    BY <1>5 DEF Return
  <2>2. /\ taken' \in Seq(Token) /\ Len(taken') = Len(taken) + 1
        /\ \A k \in 1..Len(taken) : taken'[k] = taken[k]
        /\ taken'[Len(taken) + 1] = t /\ taken' # << >>
    BY <1>2, <2>1
  <2>3. TypeOK'
    BY <1>1, <2>1, <2>2 DEF TypeOK
  <2>4. Reached = t.pos /\ Reached' = c /\ Last' = t /\ LastEnd' = End(t)
    BY <1>5, <2>1, <2>2 DEF Reached, Begun, Last, LastEnd
  <2>5. End(t) \in Nat /\ t.pos.id \in Nat
    BY EndIs
  <2>6. ReachedInv'
    <3>1. \A j \in End(t)..(c.id - 1) : FALSE
      BY <1>3, <2>5
    <3> QED
      BY <2>2, <2>4, <3>1 DEF ReachedInv
  <2>7. TakenInv'
    <3> SUFFICES ASSUME NEW k \in 1..Len(taken')
                 PROVE  /\ IsLongest(taken'[k])
                        /\ \A j \in (IF k = 1 THEN 1 ELSE End(taken'[k - 1]))..(taken'[k].pos.id - 1) :
                              CharAt(j) = "sp"
      BY SameText DEF TakenInv
    <3>1. CASE k \in 1..Len(taken)
      <4>1. taken'[k] = taken[k] /\ (k # 1 => taken'[k - 1] = taken[k - 1])
        BY <1>2, <2>2, <3>1
      <4> QED
        BY <1>1, <3>1, <4>1 DEF TakenInv
    <3>2. CASE k = Len(taken) + 1
      <4>1. taken'[k] = t
        BY <2>2, <3>2
      <4>2. (IF k = 1 THEN 1 ELSE End(taken'[k - 1])) = LastEnd
        <5>1. k = 1 <=> taken = << >>
          BY <1>2, <3>2
        <5>2. k # 1 => taken'[k - 1] = Last
          BY <1>2, <2>2, <3>2, <5>1 DEF Last
        <5> QED
          BY <5>1, <5>2 DEF LastEnd
      <4> QED
        BY <1>1, <2>4, <4>1, <4>2 DEF ReachedInv
    <3> QED
      BY <1>2, <2>2, <3>1, <3>2
  <2>8. AdjacentIsTextual'
    <3> SUFFICES ASSUME NEW k \in 1..(Len(taken') - 1),
                        taken'[k].kind = "ident", taken'[k + 1].kind = "sep"
                 PROVE  Adjacent(taken'[k], taken'[k + 1]) <=>
                           /\ End(taken'[k]) = taken'[k + 1].pos.id
                           /\ Len(taken'[k].text) < LEN_SIZE
      BY DEF AdjacentIsTextual
    <3>1. CASE k \in 1..(Len(taken) - 1)
      <4>1. taken'[k] = taken[k] /\ taken'[k + 1] = taken[k + 1]
        BY <1>2, <2>2, <3>1
      <4> QED
        BY <1>1, <3>1, <4>1 DEF AdjacentIsTextual
    <3>2. CASE k = Len(taken)
      <4>1. /\ taken'[k] = taken[k] /\ taken'[k + 1] = t /\ taken # << >>
            /\ Last = taken[k] /\ k \in 1..Len(taken)
        BY <1>2, <2>2, <3>2 DEF Last
      <4>2. /\ End(Last) <= t.pos.id
            /\ End(Last) = t.pos.id => t.pos.line = Last.pos.line
        BY <1>1, <2>4, <4>1 DEF ReachedInv
      <4>3. IsLongest(Last) /\ Last \in Token
        BY <1>1, <1>2, <4>1 DEF TakenInv
      <4> QED
        BY <4>1, <4>2, <4>3, AdjacentIs
    <3> QED
      BY <1>2, <2>2, <3>1, <3>2
  <2> QED
    BY <1>4, <2>3, <2>6, <2>7, <2>8 DEF LexInv
<1>6. CASE call.fn = "peek"
  <2>1. /\ call' = [call EXCEPT !.left = Left] /\ UNCHANGED taken
        /\ \/ cursor' = c /\ phase' = "start" /\ UNCHANGED promised
           \/ /\ cursor' = call.mark /\ phase' = "idle"
              /\ promised' = promised \cup {[n |-> call.n, after |-> Len(taken), token |-> t]}
    BY <1>6 DEF Return, Rewound
  <2>2. Left \in 0..(SIZE_SIZE - 1)
    <3>1. \A a \in Nat, b \in Nat : b > 0 => (a - 1) % b \in 0..(b - 1)
      OBVIOUS
    <3> QED
      BY <1>2, <3>1, Constants DEF Left
  <2>3. call' \in Calls /\ call'.fn = "peek" /\ call'.mark = call.mark
    BY <1>3, <1>6, <2>1, <2>2 DEF Calls
  <2>4. TypeOK'
    <3>1. \A p \in promised' : p \in [n : Nat, after : Nat, token : Token]
      BY <1>1, <1>2, <2>1 DEF TypeOK
    <3>2. cursor' \in Cursor /\ phase' \in {"idle", "start"}
      BY <1>2, <2>1
    <3> QED
      BY <1>1, <2>1, <2>3, <3>1, <3>2 DEF TypeOK
  <2>5. Reached' = Reached
    BY <1>6, <2>1, <2>3 DEF Reached, Begun
  <2> QED
    BY <1>4, <2>1, <2>4, <2>5, StableInv DEF LexInv
<1> QED
  BY <1>3, <1>5, <1>6

-----------------------------------------------------------------------------
(* The calls, and the steps of the scanners.                                *)

LEMMA InitInv == Init => LexInv
<1> SUFFICES ASSUME Init PROVE LexInv
  OBVIOUS
<1>1. TypeOK
  <2>1. source \in Seq(Chars) /\ << >> \in Seq(Token) /\ cursor \in Cursor
    BY LexerAssumption DEF Init, Cursor
  <2>2. call \in Calls
    BY <2>1, Constants DEF Init, Calls
  <2> QED
    BY <2>1, <2>2 DEF Init, TypeOK
<1>2. taken = << >> /\ Len(taken) = 0 /\ phase = "idle" /\ Reached.id = 1 /\ LastEnd = 1
  BY DEF Init, Reached, Begun, LastEnd
<1>3. ScanInv
  BY <1>2 DEF ScanInv, WordInv, NumInv, StrInv
<1>4. ReachedInv
  BY <1>2 DEF ReachedInv
<1>5. TakenInv /\ AdjacentIsTextual
  BY <1>2 DEF TakenInv, AdjacentIsTextual
<1> QED
  BY <1>1, <1>3, <1>4, <1>5 DEF LexInv

LEMMA CallInv ==
    ASSUME LexInv, NEW fn \in {"next", "peek"}, NEW n \in 0..(SIZE_SIZE - 1), Call(fn, n)
    PROVE  LexInv'
<1>1. /\ phase = "idle" /\ phase' = "start"
      /\ call' = [fn |-> fn, n |-> n, left |-> n, mark |-> cursor]
      /\ UNCHANGED <<source, cursor, pos, decimal, taken, promised>>
  BY DEF Call
<1>2. n \in Nat /\ cursor \in Cursor
  BY Constants DEF LexInv, TypeOK
<1>3. call' \in Calls
  BY <1>1, <1>2 DEF Calls
<1>4. TypeOK'
  BY <1>1, <1>3 DEF LexInv, TypeOK
<1>5. ScanInv'
  BY <1>1 DEF ScanInv, WordInv, NumInv, StrInv
<1>6. Reached' = Reached
  BY <1>1 DEF Reached, Begun
<1> QED
  BY <1>1, <1>4, <1>5, <1>6, StableInv DEF LexInv

\* A step that only moves the cursor, within a token or to begin one.
LEMMA ScanStep ==
    ASSUME LexInv, UNCHANGED <<source, call, taken, promised>>, cursor' \in Cursor,
           phase # "idle", phase' \in {"ident", "num", "string", "aborted"},
           decimal' \in BOOLEAN, pos' \in Cursor,
           Begun' = Begun, ScanInv'
    PROVE  LexInv'
<1>1. TypeOK'
  BY DEF LexInv, TypeOK
<1>2. Reached' = Reached
  BY DEF Reached
<1> QED
  BY <1>1, <1>2, StableInv DEF LexInv

LEMMA AbortInv == LexInv /\ NegativeIndex => LexInv'
<1> SUFFICES ASSUME LexInv, NegativeIndex PROVE LexInv'
  OBVIOUS
<1>1. /\ phase = "start" /\ phase' = "aborted"
      /\ UNCHANGED <<source, cursor, pos, decimal, call, taken, promised>>
  BY DEF NegativeIndex
<1>2. Begun' = Begun
  BY <1>1 DEF Begun
<1>3. ScanInv'
  BY <1>1 DEF ScanInv, WordInv, NumInv, StrInv
<1>4. cursor' \in Cursor /\ pos' \in Cursor /\ decimal' \in BOOLEAN
  BY <1>1 DEF LexInv, TypeOK
<1> QED
  BY <1>1, <1>2, <1>3, <1>4, ScanStep

LEMMA SkipInv == LexInv /\ Skip => LexInv'
<1> SUFFICES ASSUME LexInv, Skip PROVE LexInv'
  OBVIOUS
<1>1. /\ phase = "start" /\ phase' = "start" /\ CharAt(cursor.id) = "sp"
      /\ cursor' = Advanced(cursor)
      /\ UNCHANGED <<source, pos, decimal, call, taken, promised>>
  BY DEF Skip, Go, Peek
<1>2. /\ source \in Seq(Chars) /\ cursor \in Cursor /\ cursor.id \in Nat /\ Len(source) \in Nat
      /\ taken \in Seq(Token) /\ Len(taken) \in Nat /\ \A k \in 1..Len(taken) : taken[k] \in Token
  BY StateType DEF LexInv, TypeOK
<1>3. cursor.id \in 1..Len(source)
  BY <1>1, <1>2, CharIs DEF NUL
<1>4. cursor' \in Cursor /\ cursor'.id = cursor.id + 1
  BY <1>1, <1>2, <1>3, AdvancedIs DEF BEHIND
<1>5. TypeOK'
  BY <1>1, <1>4 DEF LexInv, TypeOK
<1>6. ScanInv'
  BY <1>1 DEF ScanInv, WordInv, NumInv, StrInv
<1>7. CASE call.fn = "peek"
  <2>1. Reached' = Reached
    BY <1>1, <1>7 DEF Reached
  <2> QED
    BY <1>1, <1>5, <1>6, <2>1, StableInv DEF LexInv
<1>8. CASE call.fn # "peek"
  <2>1. Reached = cursor /\ Reached' = cursor' /\ Last' = Last /\ LastEnd' = LastEnd
    BY <1>1, <1>8 DEF Reached, Begun, Last, LastEnd
  <2>2. taken # << >> => End(Last) \in Nat
    BY <1>2, EndIs DEF Last
  <2>3. LastEnd \in Nat
    BY <2>2 DEF LastEnd
  <2>4. \A j \in LastEnd..(cursor'.id - 1) : j \in LastEnd..(cursor.id - 1) \/ j = cursor.id
    BY <1>2, <1>4, <2>3
  <2>5. \A j \in LastEnd..(cursor'.id - 1) : CharAt(j) = "sp"
    BY <1>1, <2>1, <2>4 DEF LexInv, ReachedInv
  <2>6. taken # << >> /\ Last.kind = "ident" => End(Last) < cursor'.id
    BY <1>2, <1>4, <2>1, <2>2 DEF LexInv, ReachedInv
  <2>7. taken # << >> /\ Last.kind = "ident" => End(Last) <= cursor'.id /\ End(Last) # cursor'.id
    BY <1>2, <1>4, <2>2, <2>6
  <2>8. ReachedInv'
    BY <1>1, <2>1, <2>5, <2>7, SameText DEF ReachedInv
  <2>9. TakenInv'
    BY <1>1, SameText DEF LexInv, TakenInv
  <2>10. AdjacentIsTextual'
    BY <1>1 DEF LexInv, AdjacentIsTextual
  <2> QED
    BY <1>5, <1>6, <2>8, <2>9, <2>10 DEF LexInv
<1> QED
  BY <1>7, <1>8

\* What every step of a scanner from a character that is not the end starts from.
LEMMA AtCharacter ==
    ASSUME LexInv, Peek # NUL
    PROVE  /\ cursor.id \in 1..Len(source) /\ cursor.id \in Nat /\ Len(source) \in Nat
           /\ cursor \in Cursor /\ pos \in Cursor /\ pos.id \in Nat /\ pos.id > 0
           /\ Peek = CharAt(cursor.id) /\ Peek \in Chars /\ source \in Seq(Chars)
           /\ Advanced(cursor) \in Cursor /\ Advanced(cursor).id = cursor.id + 1
           /\ Peek # "nl" => Advanced(cursor).line = cursor.line
           /\ cursor.line \in Nat
<1>1. /\ source \in Seq(Chars) /\ cursor \in Cursor /\ cursor.id \in Nat /\ Len(source) \in Nat
      /\ pos \in Cursor /\ pos.id \in Nat /\ pos.id > 0 /\ cursor.line \in Nat
  BY StateType DEF LexInv, TypeOK
<1>2. cursor.id \in 1..Len(source) /\ Peek = CharAt(cursor.id) /\ Peek \in Chars
  BY <1>1, CharIs DEF Peek
<1> QED
  BY <1>1, <1>2, AdvancedIs DEF BEHIND

LEMMA ClassesAreChars ==
    NUL \notin Letters \cup Digits \cup OpChars \cup Separators \cup {"quote", "nl", "@", "\\", "high", "sp"}
BY DEF NUL, Letters, Digits, OpChars, Separators

LEMMA BeginInv ==
    ASSUME LexInv, NEW chars, NEW next, Begin(chars, next),
           \/ chars = Letters /\ next = "ident"
           \/ chars = Digits /\ next = "num"
           \/ chars = {"quote"} /\ next = "string"
    PROVE  LexInv'
<1>1. /\ phase = "start" /\ Peek \in chars /\ pos' = cursor /\ decimal' = FALSE
      /\ cursor' = Advanced(cursor) /\ phase' = next
      /\ UNCHANGED <<source, call, taken, promised>>
  BY DEF Begin, Go
<1>2. Peek # NUL /\ Peek # "nl" /\ Peek # "."
  BY <1>1 DEF NUL, Letters, Digits
<1>3. /\ cursor.id \in 1..Len(source) /\ cursor.id \in Nat /\ Len(source) \in Nat
      /\ cursor \in Cursor /\ source \in Seq(Chars) /\ Peek = CharAt(cursor.id)
      /\ cursor' \in Cursor /\ cursor'.id = cursor.id + 1 /\ cursor'.line = cursor.line
  BY <1>1, <1>2, AtCharacter
<1>4. \A j \in Int : j \in pos'.id..(cursor'.id - 1) <=> j = cursor.id
  BY <1>1, <1>3
<1>5. \A j : CharAt(j)' = CharAt(j)
  BY <1>1, SameText
<1>6. WordInv'
  <2>1. next = "ident" => CharAt(cursor.id) \in Letters
    BY <1>1, <1>3
  <2>2. pos'.id < cursor'.id /\ cursor'.id <= Len(source) + 1 /\ pos'.line = cursor'.line
    BY <1>1, <1>3
  <2>3. pos'.id = cursor.id
    BY <1>1
  <2> QED
    BY <1>1, <1>4, <1>5, <2>1, <2>2, <2>3 DEF WordInv
<1>7. NumInv'
  <2>1. next = "num" => CharAt(cursor.id) \in Digits
    BY <1>1, <1>3
  <2>2. pos'.id < cursor'.id /\ cursor'.id <= Len(source) + 1 /\ cursor'.id - 1 = cursor.id
    BY <1>1, <1>3
  <2>3. pos'.id = cursor.id /\ CharAt(cursor.id) # "."
    BY <1>1, <1>2, <1>3
  <2> QED
    BY <1>1, <1>4, <1>5, <2>1, <2>2, <2>3 DEF NumInv
<1>8. StrInv'
  <2>1. next = "string" => CharAt(cursor.id) = "quote"
    BY <1>1, <1>3
  <2>2. Place' = 2 /\ pos'.id < cursor'.id
    BY <1>1, <1>3 DEF Place
  <2>3. \A w : IsOpen(w, 2)
    BY NotEscaped DEF IsOpen
  <2> QED
    BY <1>1, <1>5, <2>1, <2>2, <2>3 DEF StrInv
<1>9. Begun' = Begun
  BY <1>1 DEF Begun
<1> QED
  BY <1>1, <1>3, <1>6, <1>7, <1>8, <1>9, ScanStep DEF ScanInv

LEMMA AheadIs ==
    ASSUME source \in Seq(Chars), pos.id \in Nat \ {0}, pos.id <= Len(source) + 1
    PROVE  \A k \in 1..(Len(source) + 1 - pos.id) : Ahead[k] = CharAt(pos.id + k - 1)
<1> DEFINE i == pos.id
           e == Len(source) + 1
<1>1. i \in Nat \ {0} /\ e \in i..(Len(source) + 1) /\ Ahead = Piece(i, e)
  BY DEF Ahead
<1> HIDE DEF i, e
<1>2. \A k \in 1..(e - i) : Ahead[k] = CharAt(i + k - 1)
  BY <1>1, PieceIs
<1> QED
  BY <1>2 DEF i, e

\* An open string stays open behind a character that is not a quote, and behind a
\* backslash and whatever follows it.
LEMMA OpenAfter ==
    ASSUME NEW w, NEW k \in Nat, k >= 2, IsOpen(w, k), w[k] # "quote"
    PROVE  /\ w[k] # "\\" => IsOpen(w, k + 1)
           /\ w[k] = "\\" => IsOpen(w, k + 2)
<1>1. ~Escaped(w, k) /\ \A j \in 2..(k - 1) : w[j] = "quote" => Escaped(w, j)
  BY DEF IsOpen
<1>2. \A j \in 2..(k + 1 - 1) : j \in 2..(k - 1) \/ j = k
  OBVIOUS
<1>3. \A j \in 2..(k + 1 - 1) : w[j] = "quote" => Escaped(w, j)
  BY <1>1, <1>2
<1>4. w[k] # "\\" => IsOpen(w, k + 1)
  BY <1>3, EscapedNext DEF IsOpen
<1>5. ASSUME w[k] = "\\" PROVE IsOpen(w, k + 2)
  <2>1. Escaped(w, k + 1)
    BY <1>1, <1>5, EscapedNext
  <2>2. k + 1 \in Nat /\ k + 1 >= 2 /\ (k + 1) + 1 = k + 2
    OBVIOUS
  <2>3. ~Escaped(w, k + 2)
    <3>1. /\ w[k + 1] = "\\" => (Escaped(w, (k + 1) + 1) <=> ~Escaped(w, k + 1))
          /\ w[k + 1] # "\\" => ~Escaped(w, (k + 1) + 1)
      BY <2>2, EscapedNext
    <3> QED
      BY <2>1, <2>2, <3>1
  <2>4. \A j \in 2..(k + 2 - 1) : j \in 2..(k + 1 - 1) \/ j = k + 1
    OBVIOUS
  <2>5. \A j \in 2..(k + 2 - 1) : w[j] = "quote" => Escaped(w, j)
    BY <1>3, <2>1, <2>4
  <2> QED
    BY <2>3, <2>5 DEF IsOpen
<1> QED
  BY <1>4, <1>5

LEMMA MoreIdentInv == LexInv /\ MoreIdent => LexInv'
<1> SUFFICES ASSUME LexInv, MoreIdent PROVE LexInv'
  OBVIOUS
<1>1. /\ phase = "ident" /\ phase' = "ident" /\ Peek \in Letters \cup Digits
      /\ cursor' = Advanced(cursor)
      /\ UNCHANGED <<source, pos, decimal, call, taken, promised>>
  BY DEF MoreIdent, Go
<1>2. Peek # NUL /\ Peek # "nl"
  BY <1>1 DEF NUL, Letters, Digits
<1>3. /\ cursor.id \in 1..Len(source) /\ cursor.id \in Nat /\ Len(source) \in Nat
      /\ pos \in Cursor /\ pos.id \in Nat /\ Peek = CharAt(cursor.id)
      /\ cursor' \in Cursor /\ cursor'.id = cursor.id + 1 /\ cursor'.line = cursor.line
  BY <1>1, <1>2, AtCharacter
<1>4. \A j : CharAt(j)' = CharAt(j)
  BY <1>1, SameText
<1>5. WordInv'
  <2>1. /\ pos.id < cursor.id /\ pos.line = cursor.line /\ CharAt(pos.id) \in Letters
        /\ \A j \in pos.id..(cursor.id - 1) : CharAt(j) \in Letters \cup Digits
    BY <1>1 DEF LexInv, ScanInv, WordInv
  <2>2. \A j \in pos.id..(cursor'.id - 1) : j \in pos.id..(cursor.id - 1) \/ j = cursor.id
    BY <1>3
  <2>3. \A j \in pos.id..(cursor'.id - 1) : CharAt(j) \in Letters \cup Digits
    BY <1>1, <1>3, <2>1, <2>2
  <2>4. pos.id < cursor'.id /\ cursor'.id <= Len(source) + 1
    BY <1>3, <2>1
  <2> QED
    BY <1>1, <1>3, <1>4, <2>1, <2>3, <2>4 DEF WordInv
<1>6. NumInv' /\ StrInv'
  BY <1>1 DEF NumInv, StrInv
<1>7. Begun' = Begun /\ decimal' \in BOOLEAN
  BY <1>1 DEF Begun, LexInv, TypeOK
<1> QED
  BY <1>1, <1>3, <1>5, <1>6, <1>7, ScanStep DEF ScanInv

LEMMA MoreNumInv == LexInv /\ MoreNum => LexInv'
<1> SUFFICES ASSUME LexInv, MoreNum PROVE LexInv'
  OBVIOUS
<1>1. /\ phase = "num" /\ phase' = "num" /\ Peek \in Digits
      /\ cursor' = Advanced(cursor)
      /\ UNCHANGED <<source, pos, decimal, call, taken, promised>>
  BY DEF MoreNum, Go
<1>2. Peek # NUL /\ Peek # "."
  BY <1>1 DEF NUL, Digits
<1>3. /\ cursor.id \in 1..Len(source) /\ cursor.id \in Nat /\ Len(source) \in Nat
      /\ pos \in Cursor /\ pos.id \in Nat /\ Peek = CharAt(cursor.id)
      /\ cursor' \in Cursor /\ cursor'.id = cursor.id + 1
  BY <1>1, <1>2, AtCharacter
<1>4. \A j : CharAt(j)' = CharAt(j)
  BY <1>1, SameText
<1>5. NumInv'
  <2>1. /\ pos.id < cursor.id /\ CharAt(pos.id) \in Digits
        /\ \A j \in pos.id..(cursor.id - 1) : CharAt(j) \in Digits \cup {"."}
        /\ decimal <=> \E j \in pos.id..(cursor.id - 1) : CharAt(j) = "."
        /\ \A j, k \in pos.id..(cursor.id - 1) : CharAt(j) = "." /\ CharAt(k) = "." => j = k
    BY <1>1 DEF LexInv, ScanInv, NumInv
  <2>2. \A j : j \in pos.id..(cursor'.id - 1) <=> j \in pos.id..(cursor.id - 1) \/ j = cursor.id
    BY <1>3, <2>1
  <2>3. CharAt(cursor.id) \in Digits /\ CharAt(cursor.id) # "."
    BY <1>1, <1>2, <1>3
  <2>4. \A j \in pos.id..(cursor'.id - 1) : CharAt(j) \in Digits \cup {"."}
    BY <2>1, <2>2, <2>3
  <2>5. decimal <=> \E j \in pos.id..(cursor'.id - 1) : CharAt(j) = "."
    BY <2>1, <2>2, <2>3
  <2>6. \A j, k \in pos.id..(cursor'.id - 1) : CharAt(j) = "." /\ CharAt(k) = "." => j = k
    BY <2>1, <2>2, <2>3
  <2>7. pos.id < cursor'.id /\ cursor'.id <= Len(source) + 1 /\ cursor'.id - 1 = cursor.id
    BY <1>3, <2>1
  <2> QED
    BY <1>1, <1>4, <2>1, <2>3, <2>4, <2>5, <2>6, <2>7 DEF NumInv
<1>6. WordInv' /\ StrInv'
  BY <1>1 DEF WordInv, StrInv
<1>7. Begun' = Begun /\ decimal' \in BOOLEAN
  BY <1>1 DEF Begun, LexInv, TypeOK
<1> QED
  BY <1>1, <1>3, <1>5, <1>6, <1>7, ScanStep DEF ScanInv

\* A point is followed by a digit or, if peek_next made one up, by the end.
LEMMA PointInv == LexInv /\ Point => LexInv'
<1> SUFFICES ASSUME LexInv, Point PROVE LexInv'
  OBVIOUS
<1>1. /\ phase = "num" /\ phase' = "num" /\ decimal' = TRUE
      /\ cursor' = Advanced(cursor)
      /\ UNCHANGED <<source, pos, call, taken, promised>>
  BY DEF Point, Go
<1>2. /\ Peek = "." /\ ~decimal
      /\ CharAt(cursor.id + 1) \in Digits \/ cursor.id = Len(source)
  BY DEF Point, IsPoint, PeekNext
<1>3. /\ cursor.id \in 1..Len(source) /\ cursor.id \in Nat /\ Len(source) \in Nat
      /\ pos \in Cursor /\ pos.id \in Nat /\ Peek = CharAt(cursor.id)
      /\ cursor' \in Cursor /\ cursor'.id = cursor.id + 1
  BY <1>1, <1>2, AtCharacter DEF NUL
<1>4. \A j : CharAt(j)' = CharAt(j)
  BY <1>1, SameText
<1>5. NumInv'
  <2>1. /\ pos.id < cursor.id /\ CharAt(pos.id) \in Digits
        /\ \A j \in pos.id..(cursor.id - 1) : CharAt(j) \in Digits \cup {"."}
        /\ \A j \in pos.id..(cursor.id - 1) : CharAt(j) # "."
    BY <1>1, <1>2 DEF LexInv, ScanInv, NumInv
  <2>2. \A j : j \in pos.id..(cursor'.id - 1) <=> j \in pos.id..(cursor.id - 1) \/ j = cursor.id
    BY <1>3, <2>1
  <2>3. CharAt(cursor.id) = "."
    BY <1>2, <1>3
  <2>4. \A j \in pos.id..(cursor'.id - 1) : CharAt(j) \in Digits \cup {"."}
    BY <2>1, <2>2, <2>3
  <2>5. \E j \in pos.id..(cursor'.id - 1) : CharAt(j) = "."
    BY <2>2, <2>3
  <2>6. \A j, k \in pos.id..(cursor'.id - 1) : CharAt(j) = "." /\ CharAt(k) = "." => j = k
    BY <2>1, <2>2
  <2>7. pos.id < cursor'.id /\ cursor'.id <= Len(source) + 1 /\ cursor'.id = cursor.id + 1
    BY <1>3, <2>1
  <2>8. CharAt(cursor'.id) \in Digits \/ cursor'.id = Len(source) + 1
    BY <1>2, <1>3
  <2> QED
    BY <1>1, <1>4, <2>1, <2>4, <2>5, <2>6, <2>7, <2>8 DEF NumInv
<1>6. WordInv' /\ StrInv'
  BY <1>1 DEF WordInv, StrInv
<1>7. Begun' = Begun /\ decimal' \in BOOLEAN
  BY <1>1 DEF Begun
<1> QED
  BY <1>1, <1>3, <1>5, <1>6, <1>7, ScanStep DEF ScanInv

LEMMA MoreStrInv == LexInv /\ MoreStr => LexInv'
<1> SUFFICES ASSUME LexInv, MoreStr PROVE LexInv'
  OBVIOUS
<1> DEFINE once == Advanced(cursor)
           twice == Advanced(Advanced(cursor))
<1>1. /\ phase = "string" /\ phase' = "string" /\ Peek # "quote"
      /\ cursor' = IF Peek = "\\" THEN twice ELSE once
      /\ UNCHANGED <<source, pos, decimal, call, taken, promised>>
  BY DEF MoreStr
<1>2. /\ source \in Seq(Chars) /\ cursor \in Cursor /\ cursor.id \in Nat /\ Len(source) \in Nat
      /\ pos \in Cursor /\ pos.id \in Nat /\ pos.id > 0
  BY StateType DEF LexInv, TypeOK
<1>3. /\ once \in Cursor /\ cursor.id <= once.id /\ once.id <= cursor.id + 1
      /\ cursor.id <= Len(source) + BEHIND => once.id = cursor.id + 1
  BY <1>2, AdvancedIs
<1>4. /\ twice \in Cursor /\ once.id <= twice.id /\ twice.id <= once.id + 1
      /\ once.id <= Len(source) + BEHIND => twice.id = once.id + 1
  BY <1>2, <1>3, AdvancedIs
<1>5. once.id \in Nat /\ twice.id \in Nat
  BY <1>3, <1>4 DEF Cursor
<1> HIDE DEF once, twice
<1>6. cursor' \in Cursor /\ cursor.id <= cursor'.id /\ cursor'.id \in Nat
  BY <1>1, <1>2, <1>3, <1>4, <1>5
<1>7. pos.id < cursor.id /\ CharAt(pos.id) = "quote"
  BY <1>1 DEF LexInv, ScanInv, StrInv
<1>8. ASSUME cursor'.id <= Len(source)
      PROVE  IsOpen(Ahead, cursor'.id - pos.id + 1)
  <2>1. /\ cursor.id <= Len(source) /\ cursor.id <= Len(source) + BEHIND
        /\ once.id <= Len(source) + BEHIND
    BY <1>1, <1>2, <1>3, <1>4, <1>5, <1>6, <1>8 DEF BEHIND
  <2>2. cursor'.id = IF Peek = "\\" THEN cursor.id + 2 ELSE cursor.id + 1
    BY <1>1, <1>2, <1>3, <1>4, <1>5, <2>1
  <2>3. IsOpen(Ahead, Place)
    BY <1>1, <2>1 DEF LexInv, ScanInv, StrInv
  <2>4. Ahead[Place] = Peek
    <3>1. pos.id \in Nat \ {0} /\ Len(source) + 1 \in pos.id..(Len(source) + 1)
      BY <1>2, <1>7, <2>1
    <3>2. Place \in 1..(Len(source) + 1 - pos.id) /\ pos.id + Place - 1 = cursor.id
      BY <1>2, <1>7, <2>1 DEF Place
    <3> QED
      BY <1>2, <3>1, <3>2, AheadIs DEF Peek
  <2>5. Place \in Nat /\ Place >= 2
    BY <1>2, <1>7 DEF Place
  <2>6. CASE Peek = "\\"
    <3>1. cursor'.id - pos.id + 1 = Place + 2
      BY <1>2, <2>2, <2>6 DEF Place
    <3> QED
      BY <1>1, <2>3, <2>4, <2>5, <2>6, <3>1, OpenAfter
  <2>7. CASE Peek # "\\"
    <3>1. cursor'.id - pos.id + 1 = Place + 1
      BY <1>2, <2>2, <2>7 DEF Place
    <3> QED
      BY <1>1, <2>3, <2>4, <2>5, <2>7, <3>1, OpenAfter
  <2> QED
    BY <2>6, <2>7
<1>9. StrInv'
  <2>1. Ahead' = Ahead /\ Place' = cursor'.id - pos.id + 1
    BY <1>1 DEF Ahead, Piece, Place
  <2>2. pos.id < cursor'.id
    BY <1>2, <1>6, <1>7
  <2>3. pos' = pos /\ source' = source /\ \A j : CharAt(j)' = CharAt(j)
    BY <1>1, SameText
  <2>4. \A w, k : IsOpen(w, k)' <=> IsOpen(w, k)
    BY DEF IsOpen, Escaped
  <2> QED
    BY <1>7, <1>8, <2>1, <2>2, <2>3, <2>4 DEF StrInv
<1>10. WordInv' /\ NumInv'
  BY <1>1 DEF WordInv, NumInv
<1>11. Begun' = Begun /\ decimal' \in BOOLEAN
  BY <1>1 DEF Begun, LexInv, TypeOK
<1> QED
  BY <1>1, <1>2, <1>6, <1>9, <1>10, <1>11, ScanStep DEF ScanInv

-----------------------------------------------------------------------------
(* The steps that have a token.                                             *)

LEMMA LongestIs ==
    ASSUME source \in Seq(Chars), NEW p \in Cursor, NEW e \in Int,
           p.id < e, e <= Len(source) + 1,
           NEW kind \in Kinds, kind \notin {"eof", "error"},
           NEW text, text = Piece(p.id, e),
           kind # "val" \/ text[Len(text)] # "." \/ e # Len(source) + 1 =>
              IsLexeme(text, kind) /\ CannotGrow(p.id, e)
    PROVE  /\ NewToken(p, kind, text) \in Token /\ IsLongest(NewToken(p, kind, text))
           /\ NewToken(p, kind, text).pos = p /\ End(NewToken(p, kind, text)) = e
           /\ NewToken(p, kind, text).kind = kind
<1> DEFINE t == NewToken(p, kind, text)
           i == p.id
<1>1. i \in Nat \ {0} /\ Len(source) \in Nat /\ e \in i..(Len(source) + 1) /\ i < e
  BY DEF Cursor
<1>2. text \in Seq(Chars) /\ Len(text) = e - i
  BY <1>1, PieceIs
<1>3. /\ t.pos = p /\ t.kind = kind /\ t.text = text /\ t.len = Len(text) % LEN_SIZE
      /\ t \in Token
  BY <1>2, TokenTypes DEF NewToken
<1> HIDE DEF t
<1>4. text # << >>
  BY <1>1, <1>2
<1>5. End(t) = e
  BY <1>1, <1>2, <1>3, <1>4, EndIs
<1>6. ~ReadsBehind(t) => IsLexeme(text, kind) /\ CannotGrow(i, e)
  BY <1>3, <1>5 DEF ReadsBehind
<1>7. e \in (i + 1)..(Len(source) + 1)
  BY <1>1
<1>8. IsLongest(t)
  <2>1. t.pos.id = i
    BY <1>3
  <2> HIDE DEF i
  <2> QED
    BY <1>3, <1>4, <1>5, <1>6, <1>7, <2>1 DEF IsLongest, Lexeme, CannotGrow, i
<1> QED
  BY <1>3, <1>5, <1>8 DEF t

LEMMA HasProper ==
    ASSUME source \in Seq(Chars), PathInv, NEW t \in Token, NEW c \in Cursor,
           IsLongest(t), t.pos = Begun, t.kind \notin {"eof", "error"},
           t.pos.id <= Len(source), CharAt(t.pos.id) # "sp", ReadsBehind(t) => EndsInPoint,
           OnPath(c), c.id = End(t), t.kind = "ident" => c.line = t.pos.line
    PROVE  Has(t, c)
<1>1. OnPath(t.pos)
  BY DEF PathInv, Begun
<1>2. c.id = NextPlace(t)
  BY NextPlaceIs
<1> QED
  BY <1>1, <1>2 DEF Has, Exact

LEMMA EndIdentHas == LexInv /\ PathInv /\ EndIdent => HasToken
<1> SUFFICES ASSUME LexInv, PathInv, EndIdent PROVE HasToken
  OBVIOUS
<1> DEFINE kind == IF Slice \in Keywords THEN "keyword" ELSE "ident"
           i == pos.id
           e == cursor.id
           t == NewToken(pos, kind, Slice)
<1>1. /\ phase = "ident" /\ Peek \notin Letters \cup Digits
      /\ Return(t, cursor) /\ UNCHANGED <<source, pos, decimal>>
  BY DEF EndIdent, Scanned
<1>2. /\ source \in Seq(Chars) /\ cursor \in Cursor /\ pos \in Cursor
      /\ i \in Nat \ {0} /\ e \in Nat /\ Len(source) \in Nat
  BY StateType DEF LexInv, TypeOK
<1>3. /\ i < e /\ e <= Len(source) + 1 /\ pos.line = cursor.line
      /\ CharAt(i) \in Letters
      /\ \A j \in i..(e - 1) : CharAt(j) \in Letters \cup Digits
  BY <1>1 DEF LexInv, ScanInv, WordInv
<1>4. CharAt(e) \notin Letters \cup Digits
  BY <1>1 DEF Peek
<1>5. Slice = Piece(i, e)
  BY DEF Slice, Piece
<1>6. kind \in Kinds /\ kind \notin {"eof", "error", "val"}
  BY DEF Kinds
<1>7. IsLexeme(Slice, kind)
  <2>1. IsWord(Slice)
    <3> HIDE DEF i, e
    <3>1. e \in i..(Len(source) + 1)
      BY <1>2, <1>3
    <3>2. Len(Slice) = e - i /\ \A k \in 1..(e - i) : Slice[k] = CharAt(i + k - 1)
      BY <1>2, <1>5, <3>1, PieceIs
    <3>3. 1 \in 1..(e - i) /\ i + 1 - 1 = i /\ \A k \in 1..(e - i) : i + k - 1 \in i..(e - 1)
      BY <1>2, <1>3
    <3> QED
      BY <1>3, <3>2, <3>3 DEF IsWord
  <2> QED
    BY <2>1 DEF IsLexeme
<1>8. CannotGrow(i, e)
  <2> SUFFICES ASSUME NEW j \in (e + 1)..(Len(source) + 1), NEW k \in Kinds, Lexeme(i, j, k)
               PROVE  FALSE
    BY DEF CannotGrow
  <2> HIDE DEF i, e
  <2>1. /\ j \in Int /\ IsWord(Piece(i, j)) /\ Len(Piece(i, j)) = j - i
        /\ \A m \in 1..(j - i) : Piece(i, j)[m] = CharAt(i + m - 1)
    BY <1>2, <1>3, FirstOfLexeme
  <2>2. e - i + 1 \in 1..(j - i) /\ i + (e - i + 1) - 1 = e
    BY <1>2, <1>3
  <2> QED
    BY <1>4, <2>1, <2>2 DEF IsWord
<1> HIDE DEF kind
<1>9. t \in Token /\ IsLongest(t) /\ t.pos = pos /\ End(t) = e /\ t.kind = kind
  BY <1>2, <1>3, <1>5, <1>6, <1>7, <1>8, LongestIs
<1>10. t.pos = Begun
  BY <1>1, <1>9 DEF Begun
<1>11. CharAt(i) # "sp" /\ i <= Len(source)
  BY <1>2, <1>3 DEF Letters
<1> HIDE DEF t
<1>12. Has(t, cursor)
  BY <1>2, <1>3, <1>6, <1>9, <1>10, <1>11, HasProper DEF PathInv, ReadsBehind
<1> QED
  BY <1>1, <1>2, <1>9, <1>12 DEF HasToken

\* What lex_num has read is a number, unless peek_next has led it on, and goes on to where
\* it is no longer one.
LEMMA EndNumHas == LexInv /\ PathInv /\ EndNum => HasToken
<1> SUFFICES ASSUME LexInv, PathInv, EndNum PROVE HasToken
  OBVIOUS
<1> DEFINE i == pos.id
           e == cursor.id
           t == NewToken(pos, "val", Slice)
<1>1. /\ phase = "num" /\ Peek \notin Digits /\ \E c \in PeekNext : ~IsPoint(c)
      /\ Return(t, cursor) /\ UNCHANGED <<source, pos, decimal>>
  BY DEF EndNum, Scanned
<1>2. /\ source \in Seq(Chars) /\ cursor \in Cursor /\ pos \in Cursor
      /\ i \in Nat \ {0} /\ e \in Nat /\ Len(source) \in Nat
  BY StateType DEF LexInv, TypeOK
<1>3. /\ i < e /\ e <= Len(source) + 1 /\ CharAt(i) \in Digits
      /\ \A j \in i..(e - 1) : CharAt(j) \in Digits \cup {"."}
      /\ decimal <=> \E j \in i..(e - 1) : CharAt(j) = "."
      /\ \A j, k \in i..(e - 1) : CharAt(j) = "." /\ CharAt(k) = "." => j = k
      /\ CharAt(e - 1) = "." => CharAt(e) \in Digits \/ e = Len(source) + 1
  BY <1>1 DEF LexInv, ScanInv, NumInv
<1>4. CharAt(e) \notin Digits
  BY <1>1 DEF Peek
<1>5. /\ CharAt(e) = "." /\ CharAt(e + 1) \in Digits => decimal
      /\ CharAt(e) = "." => e \in 1..Len(source)
  <2>1. e = Len(source) => CharAt(e + 1) = NUL
    BY <1>2 DEF CharAt
  <2>2. CharAt(e + 1) \in Digits => PeekNext = {CharAt(e + 1)}
    BY <2>1 DEF PeekNext, NUL, Digits
  <2>3. CharAt(e) = "." /\ CharAt(e + 1) \in Digits => decimal
    BY <1>1, <2>2 DEF IsPoint, Peek
  <2>4. CharAt(e) = "." => e \in 1..Len(source)
    BY <1>2, CharIs DEF NUL
  <2> QED
    BY <2>3, <2>4
<1>6. Slice = Piece(i, e)
  BY DEF Slice, Piece
<1> HIDE DEF i, e
<1>7. Len(Slice) = e - i /\ \A k \in 1..(e - i) : Slice[k] = CharAt(i + k - 1)
  <2>1. e \in i..(Len(source) + 1)
    BY <1>2, <1>3
  <2> QED
    BY <1>2, <1>6, <2>1, PieceIs
<1>8. ASSUME Slice[Len(Slice)] # "." \/ e # Len(source) + 1
      PROVE  IsNumber(Slice) /\ CannotGrow(i, e)
  <2>1. /\ 1 \in 1..(e - i) /\ i + 1 - 1 = i /\ e - i \in 1..(e - i) /\ i + (e - i) - 1 = e - 1
        /\ e - 1 \in i..(e - 1) /\ \A k \in 1..(e - i) : i + k - 1 \in i..(e - 1)
        /\ \A j, k \in 1..(e - i) : i + j - 1 = i + k - 1 => j = k
    BY <1>2, <1>3
  <2>2. Slice[Len(Slice)] = CharAt(e - 1) /\ Slice[1] = CharAt(i)
    BY <1>7, <2>1
  <2>3. CharAt(e - 1) # "."
    BY <1>3, <1>4, <1>8, <2>2
  <2>4. CharAt(e - 1) \in Digits
    BY <1>3, <2>1, <2>3
  <2>5. IsNumber(Slice)
    <3>1. \A k \in 1..Len(Slice) : Slice[k] \in Digits \cup {"."}
      BY <1>3, <1>7, <2>1
    <3>2. \A j, k \in 1..Len(Slice) : Slice[j] = "." /\ Slice[k] = "." => j = k
      BY <1>3, <1>7, <2>1
    <3> QED
      BY <1>3, <2>2, <2>4, <3>1, <3>2 DEF IsNumber
  <2>6. CannotGrow(i, e)
    <3> SUFFICES ASSUME NEW j \in (e + 1)..(Len(source) + 1), NEW kind \in Kinds,
                        Lexeme(i, j, kind)
                 PROVE  FALSE
      BY DEF CannotGrow
    <3> DEFINE w == Piece(i, j)
    <3>1. /\ j \in Int /\ IsNumber(w) /\ Len(w) = j - i
          /\ \A m \in 1..(j - i) : w[m] = CharAt(i + m - 1)
      BY <1>2, <1>3, FirstOfLexeme
    <3> HIDE DEF w
    <3>2. /\ w[j - i] \in Digits /\ \A k \in 1..(j - i) : w[k] \in Digits \cup {"."}
          /\ \A m, k \in 1..(j - i) : w[m] = "." /\ w[k] = "." => m = k
      BY <3>1 DEF IsNumber
    <3>3. /\ e - i + 1 \in 1..(j - i) /\ i + (e - i + 1) - 1 = e
          /\ j - i \in 1..(j - i) /\ i + (j - i) - 1 = j - 1
          /\ j # e + 1 => e - i + 2 \in 1..(j - i) /\ i + (e - i + 2) - 1 = e + 1
      BY <1>2, <1>3
    <3>4. w[e - i + 1] = "." /\ CharAt(e) = "."
      BY <1>4, <3>1, <3>2, <3>3
    <3>5. j # e + 1
      <4>1. j = e + 1 => w[j - i] = "."
        <5>1. j = e + 1 => j - i = e - i + 1
          BY <1>2, <1>3
        <5> QED
          BY <3>4, <5>1
      <4> QED
        BY <3>2, <4>1 DEF Digits
    <3>6. w[e - i + 2] # "."
      <4>1. e - i + 1 # e - i + 2
        BY <1>2
      <4> QED
        BY <3>2, <3>3, <3>4, <3>5, <4>1
    <3>7. CharAt(e + 1) \in Digits
      BY <3>1, <3>2, <3>3, <3>5, <3>6
    <3>8. PICK m \in i..(e - 1) : CharAt(m) = "."
      BY <1>3, <1>5, <3>4, <3>7
    <3>9. m - i + 1 \in 1..(j - i) /\ i + (m - i + 1) - 1 = m /\ m - i + 1 # e - i + 1
      BY <1>2, <1>3
    <3> QED
      BY <3>1, <3>2, <3>3, <3>4, <3>8, <3>9
  <2> QED
    BY <2>5, <2>6
<1>9. t \in Token /\ IsLongest(t) /\ t.pos = pos /\ End(t) = e /\ t.kind = "val"
  <2>1. "val" \in Kinds
    BY DEF Kinds
  <2>2. IsNumber(Slice) => IsLexeme(Slice, "val")
    BY DEF IsLexeme
  <2> QED
    BY <1>2, <1>3, <1>6, <1>8, <2>1, <2>2, LongestIs DEF i
<1>10. t.pos = Begun
  BY <1>1, <1>9 DEF Begun
<1>11. CharAt(i) # "sp" /\ i <= Len(source)
  BY <1>2, <1>3 DEF Digits
<1>12. t.text = Slice
  BY DEF NewToken
<1>13. ReadsBehind(t) => EndsInPoint
  <2> SUFFICES ASSUME ReadsBehind(t) PROVE EndsInPoint
    OBVIOUS
  <2>1. Slice[Len(Slice)] = "." /\ e = Len(source) + 1
    BY <1>9, <1>12 DEF ReadsBehind
  <2>2. /\ e - i \in 1..(e - i) /\ i + (e - i) - 1 = e - 1 /\ e - 1 \in 1..Len(source)
        /\ e - 1 = Len(source) /\ e - 1 \in i..(e - 1)
    BY <1>2, <1>3, <2>1
  <2>3. CharAt(e - 1) = "."
    BY <1>7, <2>1, <2>2
  <2>4. i # e - 1
    BY <1>3, <2>3 DEF Digits
  <2>5. /\ e - 2 \in i..(e - 1) /\ e - 2 # e - 1 /\ e - 2 \in 1..Len(source)
        /\ e - 2 = Len(source) - 1 /\ Len(source) > 1
    <3> DEFINE L == Len(source)
    <3>1. i \in Nat /\ i > 0 /\ e \in Nat /\ L \in Nat /\ i < e /\ e = L + 1 /\ i # e - 1
      BY <1>2, <1>3, <2>1, <2>4
    <3> HIDE DEF L
    <3>2. /\ e - 2 \in i..(e - 1) /\ e - 2 # e - 1 /\ e - 2 \in 1..L
          /\ e - 2 = L - 1 /\ L > 1
      BY <3>1
    <3> QED
      BY <3>2 DEF L
  <2>6. CharAt(e - 2) \in Digits
    BY <1>3, <2>2, <2>3, <2>5
  <2>7. CharAt(e - 1) = source[Len(source)] /\ CharAt(e - 2) = source[Len(source) - 1]
    BY <2>2, <2>5 DEF CharAt
  <2> QED
    BY <2>3, <2>5, <2>6, <2>7 DEF EndsInPoint
<1> HIDE DEF t
<1>14. Has(t, cursor)
  BY <1>2, <1>9, <1>10, <1>11, <1>13, HasProper DEF PathInv, i, e
<1> QED
  BY <1>1, <1>2, <1>9, <1>14 DEF HasToken

\* The first operator of the table that matches is the longest that does.
LEMMA LexOpHas == LexInv /\ PathInv /\ LexOp => HasToken
<1> SUFFICES ASSUME LexInv, PathInv, LexOp PROVE HasToken
  OBVIOUS
<1> DEFINE i == cursor.id
<1>1. PICK k \in 1..Len(Operators) :
         /\ Matches(Operators[k]) /\ \A j \in 1..(k - 1) : ~Matches(Operators[j])
         /\ At1(NewToken(cursor, "op", Operators[k]), Behind(Operators[k]))
  BY DEF LexOp
<1> DEFINE w == Operators[k]
           e == i + Len(w)
           t == NewToken(cursor, "op", w)
<1>2. /\ source \in Seq(Chars) /\ cursor \in Cursor /\ i \in Nat \ {0} /\ Len(source) \in Nat
      /\ cursor.col \in Nat
  BY StateType DEF LexInv, TypeOK
<1>3. CharAt(i) \in OpChars
  BY DEF LexOp, Peek
<1>4. /\ phase = "start" /\ Return(t, Behind(w)) /\ UNCHANGED <<source, pos, decimal>>
  BY <1>1 DEF At1
<1>5. w \in Seq(OpChars) /\ Len(w) \in Nat /\ Len(w) > 0
  BY TableDescends
<1>6. Len(w) <= Len(source) - i + 1 /\ \A m \in 1..Len(w) : CharAt(i + m - 1) = w[m]
  BY <1>1 DEF Matches
<1>7. Behind(w) \in Cursor /\ Behind(w).id = e
  <2>1. \A n \in Nat : LET c == [cursor EXCEPT !.id = @ + n, !.col = @ + n]
                     IN c \in Cursor /\ c.id = i + n
    <3>1. \A a \in Nat \ {0}, b, n \in Nat : a + n \in Nat \ {0} /\ b + n \in Nat
      OBVIOUS
    <3> QED
      BY <1>2, <3>1 DEF Cursor
  <2> QED
    BY <1>5, <2>1 DEF Behind
<1>8. IsOperator(w)
  BY DEF IsOperator
<1>9. \A m \in 1..Len(Operators) : Matches(Operators[m]) => Len(Operators[m]) <= Len(w)
  <2> SUFFICES ASSUME NEW m \in 1..Len(Operators), Matches(Operators[m])
               PROVE  Len(Operators[m]) <= Len(w)
    OBVIOUS
  <2>1. Len(Operators) \in Nat /\ Len(Operators[m]) \in Nat
    BY Spellings, TableDescends
  <2>2. m \notin 1..(k - 1)
    BY <1>1
  <2>3. m = k \/ k < m
    BY <2>1, <2>2
  <2>4. k < m => Len(Operators[k]) >= Len(Operators[m])
    BY TableDescends
  <2> HIDE DEF w
  <2>5. Len(Operators[k]) = Len(w) /\ Len(Operators[k]) \in Nat
    BY TableDescends DEF w
  <2> QED
    BY <2>1, <2>3, <2>4, <2>5
<1> HIDE DEF i, w
<1>10. e \in i..(Len(source) + 1) /\ i < e /\ e - i = Len(w) /\ e \in Int
  BY <1>2, <1>5, <1>6
<1>11. w = Piece(i, e)
  <2>1. /\ Piece(i, e) \in Seq(Chars) /\ Len(Piece(i, e)) = e - i
        /\ \A m \in 1..(e - i) : Piece(i, e)[m] = CharAt(i + m - 1)
    BY <1>2, <1>10, PieceIs
  <2>2. w \in Seq(Chars)
    BY <1>5 DEF Chars
  <2> DEFINE v == Piece(i, e)
  <2>3. /\ v \in Seq(Chars) /\ Len(v) = Len(w) /\ \A m \in 1..Len(w) : v[m] = w[m]
    BY <1>6, <1>10, <2>1
  <2> HIDE DEF v
  <2>4. v = w
    BY <2>2, <2>3, SeqEqual
  <2> QED
    BY <2>4 DEF v
<1>12. CannotGrow(i, e)
  <2> SUFFICES ASSUME NEW j \in (e + 1)..(Len(source) + 1), NEW kind \in Kinds,
                      Lexeme(i, j, kind)
               PROVE  FALSE
    BY DEF CannotGrow
  <2>1. /\ j \in Int /\ IsOperator(Piece(i, j)) /\ Len(Piece(i, j)) = j - i
        /\ \A m \in 1..(j - i) : Piece(i, j)[m] = CharAt(i + m - 1)
    BY <1>2, <1>3, <1>10, FirstOfLexeme
  <2>2. PICK m \in 1..Len(Operators) : Piece(i, j) = Operators[m]
    BY <2>1 DEF IsOperator
  <2>3. j - i <= Len(source) - i + 1 /\ j - i > Len(w) /\ j - i \in Int /\ Len(w) \in Int
    BY <1>2, <1>5, <1>10
  <2>4. Matches(Operators[m])
    BY <2>1, <2>2, <2>3 DEF Matches, i
  <2>5. j - i <= Len(w)
    BY <1>9, <2>1, <2>2, <2>4
  <2> QED
    BY <2>3, <2>5
<1>13. /\ t \in Token /\ IsLongest(t) /\ t.pos = cursor /\ End(t) = e /\ t.kind = "op"
  <2>1. "op" \in Kinds
    BY DEF Kinds
  <2>2. IsLexeme(w, "op")
    BY <1>8 DEF IsLexeme
  <2>3. e <= Len(source) + 1 /\ e \in Int
    BY <1>10, <1>2
  <2> HIDE DEF e
  <2>4. w = Piece(cursor.id, e) /\ cursor.id < e /\ CannotGrow(cursor.id, e)
    BY <1>10, <1>11, <1>12 DEF i
  <2> QED
    BY <1>2, <2>1, <2>2, <2>3, <2>4, LongestIs
<1>14. t.pos = Begun
  BY <1>4, <1>13 DEF Begun
<1>15. e \in Int /\ i <= Len(source) /\ CharAt(i) # "sp"
  BY <1>2, <1>3, <1>10 DEF OpChars
<1> HIDE DEF t
<1>16. OnPath(Behind(w))
  <2>1. /\ Behind(w).line = cursor.line /\ Behind(w).col = cursor.col + Len(w)
        /\ cursor.id = i /\ Behind(w).id - i = Len(w) /\ i <= Behind(w).id
    BY <1>2, <1>5, <1>7, <1>10 DEF Behind, Cursor, i
  <2>2. \A j \in i..(e - 1) : j - i + 1 \in 1..Len(w) /\ i + (j - i + 1) - 1 = j
    BY <1>2, <1>5, <1>10
  <2>3. \A m \in 1..Len(w) : w[m] # "nl"
    BY <1>5 DEF OpChars
  <2>4. \A j \in i..(e - 1) : CharAt(j) # "nl"
    BY <1>6, <2>2, <2>3
  <2> HIDE DEF e
  <2> QED
    BY <1>2, <1>7, <2>1, <2>4, PathOver DEF PathInv
<1> HIDE DEF e
<1>17. Has(t, Behind(w))
  <2>1. t.kind # "val" /\ t.kind # "ident" /\ t.kind \notin {"eof", "error"}
    BY <1>13
  <2>2. t.pos.id <= Len(source) /\ CharAt(t.pos.id) # "sp"
    BY <1>13, <1>15 DEF i
  <2> QED
    BY <1>2, <1>7, <1>13, <1>14, <1>16, <2>1, <2>2, HasProper DEF ReadsBehind
<1> QED
  BY <1>4, <1>7, <1>13, <1>17 DEF HasToken

\* lex_str stops at the first quote that is not escaped.
LEMMA EndStrHas == LexInv /\ PathInv /\ EndStr => HasToken
<1> SUFFICES ASSUME LexInv, PathInv, EndStr PROVE HasToken
  OBVIOUS
<1> DEFINE i == pos.id
           e == cursor.id + 1
           w == Append(Slice, "quote")
           t == NewToken(pos, "val", w)
<1>1. /\ phase = "string" /\ Peek = "quote"
      /\ Return(t, Advanced(cursor)) /\ UNCHANGED <<source, pos, decimal>>
  BY DEF EndStr
<1>2. /\ source \in Seq(Chars) /\ pos \in Cursor /\ i \in Nat \ {0} /\ Len(source) \in Nat
      /\ cursor.id \in 1..Len(source) /\ cursor.id \in Nat /\ CharAt(cursor.id) = "quote"
      /\ Advanced(cursor) \in Cursor /\ Advanced(cursor).id = e
  BY <1>1, AtCharacter DEF NUL
<1>3. i < cursor.id /\ CharAt(i) = "quote" /\ IsOpen(Ahead, Place)
  BY <1>1, <1>2 DEF LexInv, ScanInv, StrInv
<1>4. Slice = Piece(i, cursor.id)
  BY DEF Slice, Piece
<1>5. \A m \in 1..(Len(source) + 1 - i) : Ahead[m] = CharAt(i + m - 1)
  <2>1. pos.id <= Len(source) + 1
    BY <1>2, <1>3
  <2> QED
    BY <1>2, <2>1, AheadIs
<1>6. Place = e - i
  BY <1>2 DEF Place
<1> DEFINE c == cursor.id
<1>7. /\ c \in 1..Len(source) /\ c \in Nat /\ CharAt(c) = "quote" /\ i < c
      /\ e = c + 1 /\ Slice = Piece(i, c)
  BY <1>2, <1>3, <1>4
<1> HIDE DEF i, c, e
<1>8. e - i \in Nat /\ e - i >= 2 /\ e <= Len(source) + 1 /\ i < e /\ e \in Int
  BY <1>2, <1>7
<1>9. w = Piece(i, e) /\ Len(w) = e - i /\ \A m \in 1..(e - i) : w[m] = CharAt(i + m - 1)
  <2>1. c \in i..(Len(source) + 1) /\ e \in i..(Len(source) + 1)
    BY <1>2, <1>7
  <2>2. /\ Piece(i, c) \in Seq(Chars) /\ Len(Piece(i, c)) = c - i
        /\ \A m \in 1..(c - i) : Piece(i, c)[m] = CharAt(i + m - 1)
    BY <1>2, <2>1, PieceIs
  <2>3. /\ Piece(i, e) \in Seq(Chars) /\ Len(Piece(i, e)) = e - i
        /\ \A m \in 1..(e - i) : Piece(i, e)[m] = CharAt(i + m - 1)
    BY <1>2, <2>1, PieceIs
  <2>4. "quote" \in Chars
    BY DEF Chars
  <2>5. c - i \in Nat /\ e - i = (c - i) + 1 /\ i + (e - i) - 1 = c
    BY <1>2, <1>7
  <2>6. w \in Seq(Chars) /\ Len(w) = (c - i) + 1 /\ w[(c - i) + 1] = "quote"
    BY <1>7, <2>2, <2>4
  <2>7. \A m \in 1..(c - i) : w[m] = CharAt(i + m - 1)
    BY <1>7, <2>2, <2>4
  <2>8. \A m \in 1..(e - i) : m \in 1..(c - i) \/ m = e - i
    BY <2>5
  <2>9. \A m \in 1..(e - i) : w[m] = CharAt(i + m - 1)
    BY <1>7, <2>5, <2>6, <2>7, <2>8
  <2> DEFINE v == Piece(i, e)
  <2>10. v \in Seq(Chars) /\ Len(v) = Len(w) /\ \A m \in 1..Len(v) : v[m] = w[m]
    BY <2>3, <2>5, <2>6, <2>9
  <2>11. Len(w) = e - i
    BY <2>5, <2>6
  <2> HIDE DEF v, w
  <2>12. v = w
    BY <2>6, <2>10, SeqEqual
  <2> QED
    BY <2>9, <2>11, <2>12 DEF v
<1> HIDE DEF w
\* Any piece from i on that holds place c agrees with what is ahead of the token up to there.
<1>10. ASSUME NEW v, NEW n \in Int, n >= e - i, n <= Len(source) + 1 - i,
              \A m \in 1..n : v[m] = CharAt(i + m - 1)
       PROVE  /\ v[1] = "quote" /\ v[e - i] = "quote" /\ ~Escaped(v, e - i)
              /\ \A j \in 2..(e - i - 1) : v[j] = "quote" => Escaped(v, j)
  <2>0. n \in Int /\ n >= e - i /\ n <= Len(source) + 1 - i
    BY <1>10
  <2>1. \A m \in 1..n : m \in 1..(Len(source) + 1 - i)
    BY <1>2, <1>8, <2>0
  <2>2. \A m \in 1..n : v[m] = Ahead[m]
    BY <1>5, <1>10, <2>1
  <2>3. \A k \in 2..(e - i) : \A m \in 2..(k - 1) : m \in 1..n
    BY <1>8, <2>0
  <2>4. \A k \in 2..(e - i) : Escaped(v, k) <=> Escaped(Ahead, k)
    <3> TAKE k \in 2..(e - i)
    <3>1. k \in Nat /\ \A m \in 2..(k - 1) : v[m] = Ahead[m]
      BY <2>2, <2>3
    <3> DEFINE a == Ahead
    <3>2. \A m \in 2..(k - 1) : v[m] = a[m]
      BY <3>1
    <3> HIDE DEF a
    <3>3. Escaped(v, k) <=> Escaped(a, k)
      BY <3>1, <3>2, EscapedSame
    <3> QED
      BY <3>3 DEF a
  <2>5. /\ 1 \in 1..n /\ i + 1 - 1 = i /\ e - i \in 1..n /\ i + (e - i) - 1 = c
        /\ e - i \in 2..(e - i)
        /\ \A j \in 2..(e - i - 1) : j \in 2..(e - i) /\ j \in 1..n
    BY <1>2, <1>7, <1>8, <2>0
  <2>6. v[1] = "quote" /\ v[e - i] = "quote"
    BY <1>3, <1>7, <1>10, <2>5 DEF i
  <2>7. ~Escaped(v, e - i)
    BY <1>3, <1>6, <2>4, <2>5 DEF IsOpen
  <2>8. \A j \in 2..(e - i - 1) : v[j] = "quote" => Escaped(v, j)
    BY <1>3, <1>6, <2>2, <2>4, <2>5 DEF IsOpen
  <2> QED
    BY <2>6, <2>7, <2>8
<1>11. IsString(w)
  <2>1. e - i \in Int /\ e - i >= e - i /\ e - i <= Len(source) + 1 - i
    BY <1>2, <1>8
  <2>2. /\ w[1] = "quote" /\ w[e - i] = "quote" /\ ~Escaped(w, e - i)
        /\ \A j \in 2..(e - i - 1) : w[j] = "quote" => Escaped(w, j)
    BY <1>9, <1>10, <2>1
  <2>3. \A k \in 1..(e - i) : k = 1 \/ k = e - i \/ k \in 2..(e - i - 1)
    BY <1>8
  <2>4. \A k \in 2..(e - i - 1) : k # 1 /\ k # e - i
    BY <1>8
  <2>5. \A k \in 1..(e - i) : w[k] = "quote" /\ ~Escaped(w, k) <=> k \in {1, e - i}
    BY <2>2, <2>3, <2>4, NotEscaped
  <2> QED
    BY <1>8, <1>9, <2>5 DEF IsString
<1>12. CannotGrow(i, e)
  <2> SUFFICES ASSUME NEW j \in (e + 1)..(Len(source) + 1), NEW kind \in Kinds,
                      Lexeme(i, j, kind)
               PROVE  FALSE
    BY DEF CannotGrow
  <2> DEFINE v == Piece(i, j)
  <2>1. /\ j \in Int /\ IsString(v) /\ Len(v) = j - i
        /\ \A m \in 1..(j - i) : v[m] = CharAt(i + m - 1)
    BY <1>2, <1>3, <1>8, FirstOfLexeme
  <2> HIDE DEF v
  <2>2. j - i \in Int /\ j - i >= e - i /\ j - i <= Len(source) + 1 - i
    BY <1>2, <1>8
  <2>3. v[e - i] = "quote" /\ ~Escaped(v, e - i)
    BY <1>10, <2>1, <2>2
  <2>4. e - i \in 1..(j - i) /\ e - i # 1 /\ e - i # j - i
    BY <1>2, <1>8
  <2> QED
    BY <2>1, <2>3, <2>4 DEF IsString
<1>13. t \in Token /\ IsLongest(t) /\ t.pos = pos /\ End(t) = e /\ t.kind = "val"
  <2>1. "val" \in Kinds
    BY DEF Kinds
  <2>2. IsLexeme(w, "val")
    BY <1>11 DEF IsLexeme
  <2>3. w = Piece(pos.id, e) /\ pos.id < e /\ CannotGrow(pos.id, e)
    BY <1>8, <1>9, <1>12 DEF i
  <2> QED
    BY <1>2, <1>8, <2>1, <2>2, <2>3, LongestIs
<1>14. t.pos = Begun
  BY <1>1, <1>13 DEF Begun
<1>15. UNCHANGED <<source, pos, decimal>> /\ phase = "string" /\ Return(t, Advanced(cursor))
  BY <1>1
<1>16. t.text = w /\ i <= Len(source) /\ CharAt(i) # "sp"
  BY <1>2, <1>3, <1>7 DEF NewToken
<1>17. w[Len(w)] = "quote"
  BY <1>8, <1>9, <1>11 DEF IsString
<1>18. OnPath(Advanced(cursor))
  <2>1. cursor \in Cursor /\ OnPath(cursor)
    BY DEF LexInv, TypeOK, PathInv
  <2> QED
    BY <1>2, <2>1, PathAdvanced
<1> HIDE DEF t
<1>19. Has(t, Advanced(cursor))
  <2>1. ~ReadsBehind(t)
    BY <1>16, <1>17 DEF ReadsBehind
  <2>2. t.pos.id <= Len(source) /\ CharAt(t.pos.id) # "sp"
    BY <1>13, <1>16 DEF i
  <2> QED
    BY <1>2, <1>13, <1>14, <1>18, <2>1, <2>2, HasProper
<1> QED
  BY <1>2, <1>13, <1>15, <1>19 DEF HasToken

\* A character that is a token, of whatever kind.
LEMMA OneCharHas ==
    ASSUME LexInv, PathInv, NEW kind \in {"sep", "newline"}, IsLexeme(<<Peek>>, kind),
           At1(NewToken(cursor, kind, <<Peek>>), Advanced(cursor)),
           Peek \in Separators \cup {"nl"}
    PROVE  HasToken
<1> DEFINE i == cursor.id
           w == <<Peek>>
           t == NewToken(cursor, kind, w)
<1>1. /\ phase = "start" /\ Return(t, Advanced(cursor)) /\ UNCHANGED <<source, pos, decimal>>
  BY DEF At1
<1>2. /\ source \in Seq(Chars) /\ cursor \in Cursor /\ Len(source) \in Nat
      /\ i \in 1..Len(source) /\ i \in Nat \ {0} /\ CharAt(i) = Peek /\ Peek \in Chars
      /\ Advanced(cursor) \in Cursor /\ Advanced(cursor).id = i + 1
  <2>1. Peek # NUL
    BY DEF NUL, Separators
  <2>2. cursor.id \in 1..Len(source) => cursor.id \in Nat \ {0}
    OBVIOUS
  <2> QED
    BY <2>1, <2>2, AtCharacter
<1> HIDE DEF i
<1>3. w = Piece(i, i + 1)
  <2>1. i + 1 \in i..(Len(source) + 1) /\ (i + 1) - i = 1 /\ i + 1 - 1 = i /\ 1 \in 1..1
    BY <1>2
  <2>2. Piece(i, i + 1) \in Seq(Chars) /\ Len(Piece(i, i + 1)) = 1 /\ Piece(i, i + 1)[1] = Peek
    <3> DEFINE e == i + 1
    <3>1. e \in i..(Len(source) + 1) /\ e - i = 1
      BY <2>1
    <3> HIDE DEF e
    <3>2. /\ Piece(i, e) \in Seq(Chars) /\ Len(Piece(i, e)) = e - i
          /\ \A k \in 1..(e - i) : Piece(i, e)[k] = CharAt(i + k - 1)
      BY <1>2, <3>1, PieceIs
    <3>3. Piece(i, e) \in Seq(Chars) /\ Len(Piece(i, e)) = 1 /\ Piece(i, e)[1] = Peek
      BY <1>2, <2>1, <3>1, <3>2
    <3> QED
      BY <3>3 DEF e
  <2> DEFINE v == Piece(i, i + 1)
  <2>3. v \in Seq(Chars) /\ Len(v) = 1 /\ v[1] = Peek
    BY <2>2
  <2> HIDE DEF v
  <2>4. v = <<Peek>>
    BY <2>3
  <2> QED
    BY <2>4 DEF v
<1> DEFINE e == i + 1
<1>4. e \in Int /\ i < e /\ e <= Len(source) + 1
  BY <1>2
<1>5. CannotGrow(i, e)
  <2> SUFFICES ASSUME NEW j \in (e + 1)..(Len(source) + 1), NEW k \in Kinds, Lexeme(i, j, k)
               PROVE  FALSE
    BY DEF CannotGrow
  <2>1. j \in Int
    BY <1>4
  <2>2. j = i + 1
    BY <1>2, <2>1, FirstOfLexeme
  <2> QED
    BY <1>2, <2>2
<1>6. t \in Token /\ IsLongest(t) /\ t.pos = cursor /\ End(t) = e /\ t.kind = kind
  <2>1. kind \in Kinds /\ kind \notin {"eof", "error"}
    BY DEF Kinds
  <2> HIDE DEF e, w
  <2>2. w = Piece(cursor.id, e) /\ cursor.id < e /\ CannotGrow(cursor.id, e)
    BY <1>3, <1>4, <1>5 DEF i, e
  <2>3. IsLexeme(w, kind)
    BY DEF w
  <2> QED
    BY <1>2, <1>4, <2>1, <2>2, <2>3, LongestIs
<1>7. t.pos = Begun
  BY <1>1, <1>6 DEF Begun
<1>8. i <= Len(source) /\ CharAt(i) # "sp" /\ Advanced(cursor).id = End(t)
  <2>1. Peek # "sp"
    BY DEF Separators
  <2> QED
    BY <1>2, <1>6, <2>1
<1>9. OnPath(Advanced(cursor))
  BY <1>2, PathAdvanced DEF PathInv
<1> HIDE DEF t
<1>10. Has(t, Advanced(cursor))
  <2>1. t.kind # "val" /\ t.kind # "ident" /\ t.kind \notin {"eof", "error"}
    BY <1>6
  <2>2. t.pos.id <= Len(source) /\ CharAt(t.pos.id) # "sp"
    BY <1>6, <1>8 DEF i
  <2> QED
    BY <1>2, <1>6, <1>7, <1>8, <1>9, <2>1, <2>2, HasProper DEF ReadsBehind
<1> QED
  BY <1>1, <1>2, <1>6, <1>10 DEF HasToken

\* The end of the source, and a character that begins no token.
LEMMA ShortHas ==
    ASSUME LexInv, PathInv, LexEof \/ LexError
    PROVE  HasToken
<1> DEFINE kind == IF Peek = NUL THEN "eof" ELSE "error"
           t == Short(cursor, kind)
<1>1. /\ phase = "start" /\ Return(t, Advanced(cursor)) /\ UNCHANGED <<source, pos, decimal>>
      /\ Peek = NUL \/ Peek \in {"@", "\\", "high"}
  BY DEF LexEof, LexError, At1, NUL
<1>2. /\ source \in Seq(Chars) /\ cursor \in Cursor /\ cursor.id \in Nat \ {0}
      /\ Len(source) \in Nat
  BY StateType DEF LexInv, TypeOK
<1>3. /\ t.pos = cursor /\ t.kind = kind /\ t.text = << >>
      /\ t \in Token /\ End(t) = cursor.id + 1
  <2>1. kind \in Kinds
    BY DEF Kinds
  <2> HIDE DEF kind
  <2> QED
    BY <1>2, <2>1, TokenTypes DEF Short, End
<1>4. IsLongest(t)
  <2>1. CASE Peek = NUL
    <3>1. cursor.id > Len(source)
      BY <1>2, <2>1, CharIs DEF Peek
    <3> QED
      BY <1>3, <2>1, <3>1 DEF IsLongest
  <2>2. CASE Peek # NUL
    <3>1. CharAt(cursor.id) \notin Letters \cup Digits \cup OpChars \cup Separators \cup {"quote", "nl"}
      BY <1>1, <2>2 DEF Peek, Letters, Digits, OpChars, Separators
    <3>2. \A j \in Int, k \in Kinds : ~Lexeme(cursor.id, j, k)
      BY <1>2, <3>1, FirstOfLexeme
    <3>3. \A j \in cursor.id..(Len(source) + 1) : j \in Int
      BY <1>2
    <3> QED
      BY <1>3, <2>2, <3>2, <3>3 DEF IsLongest
  <2> QED
    BY <2>1, <2>2
<1>5. Advanced(cursor) \in Cursor /\ OnPath(Advanced(cursor)) /\ OnPath(cursor)
  BY <1>2, AdvancedIs, PathAdvanced DEF PathInv
<1>6. t.pos = Begun /\ t.kind # "ident"
  BY <1>1, <1>3 DEF Begun
<1>7. Advanced(cursor).id = NextPlace(t)
  BY <1>3 DEF Advanced, NextPlace
<1>8. Exact(t)
  <2>1. CharAt(cursor.id) # "sp"
    BY <1>1 DEF Peek, NUL
  <2>2. t.kind # "eof" => cursor.id <= Len(source)
    <3>1. Peek # NUL => cursor.id \in 1..Len(source)
      BY <1>2, CharIs DEF Peek
    <3> QED
      BY <1>3, <3>1
  <2>3. t.len = 1 % LEN_SIZE /\ ~ReadsBehind(t)
    BY <1>3 DEF Short, ReadsBehind
  <2> HIDE DEF t
  <2> QED
    BY <1>3, <1>4, <1>5, <2>1, <2>2, <2>3 DEF Exact
<1>9. Has(t, Advanced(cursor))
  BY <1>3, <1>5, <1>6, <1>7, <1>8 DEF Has
<1> HIDE DEF t
<1> QED
  BY <1>1, <1>3, <1>5, <1>9 DEF HasToken

-----------------------------------------------------------------------------
(* The calls of lookahead, and the steps between tokens.                    *)

LEMMA PeekInit == Init => PeekInv
<1> SUFFICES ASSUME Init PROVE PeekInv
  OBVIOUS
<1>1. cursor = [id |-> 1, line |-> 1, col |-> 1] /\ pos = cursor /\ call.mark = cursor
  BY DEF Init
<1>2. OnPath([id |-> 1, line |-> 1, col |-> 1])
  <2>1. {j \in 1..(1 - 1) : CharAt(j) = "nl"} = {} /\ 0 \in 0..(1 - 1) /\ 1 = 1 - 0
        /\ \A j \in (0 + 1)..(1 - 1) : FALSE
    OBVIOUS
  <2>2. Cardinality({j \in 1..(1 - 1) : CharAt(j) = "nl"}) = 0
    BY <2>1, FS_EmptySet
  <2> QED
    BY <2>1, <2>2 DEF OnPath
<1>3. Len(source) < SIZE_SIZE
  BY LexerAssumption DEF Init
<1>4. PassedInv /\ PromiseInv
  BY DEF Init, PassedInv, PromiseInv, IsPeeking
<1> QED
  BY <1>1, <1>2, <1>3, <1>4 DEF PeekInv, PathInv

\* Promises, while no token is taken and the place of the next one stays.
LEMMA PromisesStay ==
    ASSUME PromiseInv, UNCHANGED <<source, taken, promised>>, Reached' = Reached
    PROVE  PromiseInv'
<1>1. \A p : Kept(p)' <=> Kept(p)
  BY DEF Kept
<1>2. \A p, s : Coming(p, s)' <=> Coming(p, s)
  BY SameChain DEF Coming
<1>3. EndsInPoint' <=> EndsInPoint
  BY SameChain
<1> QED
  BY <1>1, <1>2, <1>3 DEF PromiseInv

LEMMA PeekCall ==
    ASSUME LexInv, PeekInv, NEW fn \in {"next", "peek"}, NEW n \in 0..(SIZE_SIZE - 1), Call(fn, n)
    PROVE  PeekInv'
<1>1. /\ phase = "idle" /\ phase' = "start"
      /\ call' = [fn |-> fn, n |-> n, left |-> n, mark |-> cursor]
      /\ UNCHANGED <<source, cursor, pos, decimal, taken, promised>>
  BY DEF Call
<1>2. Reached' = Reached
  BY <1>1 DEF Reached, Begun
<1>3. PathInv'
  BY <1>1, SameChain DEF PeekInv, PathInv
<1>4. PromiseInv'
  BY <1>1, <1>2, PromisesStay DEF PeekInv
<1>5. PassedInv'
  <2> SUFFICES ASSUME fn = "peek" PROVE Passed(<< >>)' /\ << >> \in Seq(Token)
    BY <1>1 DEF PassedInv, IsPeeking
  <2>1. cursor.id \in Nat /\ cursor.id > 0 /\ n \in Nat
    BY StateType, Constants DEF LexInv
  <2>2. Begun' = cursor /\ call'.mark = cursor /\ call'.n = n /\ call'.left = n
    BY <1>1 DEF Begun
  <2>3. \A i : IsChain(<< >>, i) /\ ChainEnd(<< >>, i) = i
    BY DEF IsChain, ChainEnd
  <2>4. \A i : IsChain(<< >>, i)' /\ ChainEnd(<< >>, i)' = i
    BY <1>1, <2>3, SameChain
  <2>5. Len(<< >>) = 0 /\ (\A k \in 1..0 : FALSE) /\ \A j \in cursor.id..(cursor.id - 1) : FALSE
    BY <2>1
  <2>6. /\ Len(<< >>) < cursor.id /\ n - Len(<< >>) = n /\ cursor.id <= cursor.id
        /\ n # 0 => n > 0
    BY <2>1, <2>5
  <2> QED
    BY <2>1, <2>2, <2>4, <2>5, <2>6 DEF Passed
<1> QED
  BY <1>3, <1>4, <1>5 DEF PeekInv

\* A step that only moves the cursor, within a token or to begin one.
LEMMA PeekScan ==
    ASSUME PeekInv, UNCHANGED <<source, call, taken, promised>>,
           phase \notin {"idle", "aborted"}, phase' # "idle", Begun' = Begun,
           OnPath(cursor'), OnPath(pos')
    PROVE  PeekInv'
<1>1. Reached' = Reached
  BY DEF Reached
<1>2. PathInv'
  BY SameChain DEF PeekInv, PathInv
<1>3. PromiseInv'
  BY <1>1, PromisesStay DEF PeekInv
<1>4. \A s : Passed(s) => Passed(s)'
  <2>1. \A j : CharAt(j)' = CharAt(j)
    BY SameText
  <2> QED
    BY <2>1, SameChain DEF Passed
<1>5. PassedInv'
  BY <1>4 DEF PeekInv, PassedInv, IsPeeking
<1> QED
  BY <1>2, <1>3, <1>5 DEF PeekInv

LEMMA PeekSkip == LexInv /\ PeekInv /\ Skip => PeekInv'
<1> SUFFICES ASSUME LexInv, PeekInv, Skip PROVE PeekInv'
  OBVIOUS
<1>1. /\ phase = "start" /\ phase' = "start" /\ CharAt(cursor.id) = "sp"
      /\ cursor' = Advanced(cursor)
      /\ UNCHANGED <<source, pos, decimal, call, taken, promised>>
  BY DEF Skip, Go, Peek
<1>2. /\ source \in Seq(Chars) /\ cursor \in Cursor /\ cursor.id \in Nat /\ cursor.id > 0
      /\ cursor'.id = cursor.id + 1 /\ call.mark.id \in Nat
  <2>1. Peek # NUL
    BY <1>1 DEF Peek, NUL
  <2> QED
    BY <1>1, <2>1, AtCharacter, StateType DEF LexInv, Cursor
<1>3. OnPath(cursor')
  BY <1>1, <1>2, PathAdvanced DEF PeekInv, PathInv
<1>4. PathInv'
  BY <1>1, <1>3, SameChain DEF PeekInv, PathInv
<1>5. Begun = cursor /\ Begun' = cursor'
  BY <1>1 DEF Begun
<1>6. \A j : CharAt(j)' = CharAt(j)
  BY <1>1, SameText
<1>7. PassedInv'
  <2> SUFFICES ASSUME IsPeeking PROVE \E s \in Seq(Token) : Passed(s)'
    BY <1>1 DEF PassedInv, IsPeeking
  <2>1. PICK s \in Seq(Token) : Passed(s)
    BY DEF PeekInv, PassedInv
  <2> DEFINE i == call.mark.id
             e == ChainEnd(s, i)
             c == cursor.id
  <2>2. /\ IsChain(s, i) /\ \A k \in 1..Len(s) : s[k].kind # "eof"
        /\ e <= c /\ Len(s) < c /\ \A j \in e..(c - 1) : CharAt(j) = "sp"
        /\ call.n > 0 => call.left = call.n - Len(s) /\ call.left > 0
        /\ call.n = 0 => call.left = IF s = << >> THEN 0 ELSE SIZE_SIZE - Len(s)
    BY <1>5, <2>1 DEF Passed
  <2>3. e \in Nat
    <3>1. CASE s = << >>
      BY <1>2, <3>1 DEF ChainEnd
    <3>2. CASE s # << >>
      <4>1. s[Len(s)] \in Token
        BY <3>2
      <4> QED
        BY <1>2, <3>2, <4>1, NextPlaceIs DEF ChainEnd
    <3> QED
      BY <3>1, <3>2
  <2>4. CharAt(c) = "sp" /\ c \in Nat
    BY <1>1, <1>2
  <2> HIDE DEF e, c
  <2>5. e <= c + 1 /\ Len(s) < c + 1 /\ \A j \in e..(c + 1 - 1) : CharAt(j) = "sp"
    <3>1. \A j \in e..(c + 1 - 1) : j \in e..(c - 1) \/ j = c
      BY <2>3, <2>4
    <3>2. Len(s) \in Nat
      OBVIOUS
    <3>3. e <= c + 1 /\ Len(s) < c + 1
      BY <2>2, <2>3, <2>4, <3>2
    <3> QED
      BY <2>2, <2>4, <3>1, <3>3
  <2>6. IsChain(s, i)' /\ ChainEnd(s, i)' = e /\ i' = i
    BY <1>1, <2>2, SameChain DEF e
  <2>7. Begun'.id = c + 1
    BY <1>2, <1>5 DEF c
  <2>8. Passed(s)'
    <3>1. e <= Begun'.id /\ Len(s) < Begun'.id /\ \A j \in e..(Begun'.id - 1) : CharAt(j)' = "sp"
      <4> DEFINE d == Begun'.id
      <4>1. d = c + 1
        BY <2>7
      <4> HIDE DEF d
      <4>2. e <= d /\ Len(s) < d /\ \A j \in e..(d - 1) : CharAt(j) = "sp"
        <5>1. d \in Nat /\ \A j \in e..(d - 1) : j \in e..(c + 1 - 1)
          BY <2>3, <2>4, <4>1
        <5> QED
          BY <2>5, <4>1, <5>1
      <4>3. e <= d /\ Len(s) < d /\ \A j \in e..(d - 1) : CharAt(j)' = "sp"
        BY <1>6, <4>2
      <4> QED
        BY <4>3 DEF d
    <3>2. /\ call'.n > 0 => call'.left = call'.n - Len(s) /\ call'.left > 0
          /\ call'.n = 0 => call'.left = IF s = << >> THEN 0 ELSE SIZE_SIZE - Len(s)
      BY <1>1, <2>2
    <3> QED
      BY <2>2, <2>6, <3>1, <3>2 DEF Passed
  <2> QED
    BY <2>8
<1>8. PromiseInv'
  <2>1. CASE call.fn = "peek"
    <3>1. Reached' = Reached
      BY <1>1, <2>1 DEF Reached
    <3> QED
      BY <1>1, <3>1, PromisesStay DEF PeekInv
  <2>2. CASE call.fn # "peek"
    <3>1. Reached = cursor /\ Reached' = cursor'
      BY <1>1, <2>2 DEF Reached, Begun
    <3>2. \A p : Kept(p)' <=> Kept(p)
      BY <1>1 DEF Kept
    <3>3. \A p : \A s \in Seq(Token) : Coming(p, s) => Coming(p, s)'
      <4> SUFFICES ASSUME NEW p, NEW s \in Seq(Token), Coming(p, s) PROVE Coming(p, s)'
        OBVIOUS
      <4>1. IsChain(s, cursor.id)
        BY <3>1 DEF Coming
      <4>2. IsChain(s, cursor.id + 1)
        BY <1>1, <1>2, <4>1, ChainSkip
      <4>3. IsChain(s, Reached.id)'
        <5> DEFINE i == cursor.id + 1
        <5>1. IsChain(s, i) /\ Reached'.id = i
          BY <1>2, <3>1, <4>2
        <5> HIDE DEF i
        <5>2. \A k : IsChain(s, k)' <=> IsChain(s, k)
          BY <1>1, SameChain
        <5> QED
          BY <5>1, <5>2
      <4> QED
        BY <1>1, <4>3 DEF Coming
    <3>4. \A j \in 1..Len(taken) : taken[j].pos.id < cursor.id => taken[j].pos.id < cursor.id + 1
      <4>1. \A j \in 1..Len(taken) : taken[j].pos.id \in Nat
        BY StateType, EndIs DEF LexInv
      <4> QED
        BY <1>2, <4>1
    <3>5. EndsInPoint' <=> EndsInPoint
      BY <1>1, SameChain
    <3>6. ASSUME ~EndsInPoint
          PROVE  \A p \in promised : Kept(p)' \/ \E s \in Seq(Token) : Coming(p, s)'
      BY <3>2, <3>3, <3>6 DEF PeekInv, PromiseInv
    <3>7. ASSUME ~EndsInPoint
          PROVE  \A j \in 1..Len(taken) : taken[j].kind # "eof" => taken[j].pos.id < Reached'.id
      BY <1>2, <3>1, <3>4, <3>7 DEF PeekInv, PromiseInv
    <3> QED
      BY <1>1, <3>5, <3>6, <3>7 DEF PromiseInv
  <2> QED
    BY <2>1, <2>2
<1> QED
  BY <1>4, <1>7, <1>8 DEF PeekInv

LEMMA LeftIs ==
    ASSUME call.left \in 0..(SIZE_SIZE - 1)
    PROVE  /\ call.left > 0 => Left = call.left - 1
           /\ call.left = 0 => Left = SIZE_SIZE - 1
<1>1. SIZE_SIZE \in Nat /\ SIZE_SIZE > 1
  BY Constants
<1>2. \A b \in Nat, a \in Int : b > 1 /\ a >= 0 /\ a < b => a % b = a
  OBVIOUS
<1>3. \A b \in Nat : b > 1 => (0 - 1) % b = b - 1
  OBVIOUS
<1> DEFINE l == call.left
<1>4. l \in Nat /\ l <= SIZE_SIZE - 1 /\ Left = (l - 1) % SIZE_SIZE
  BY <1>1 DEF Left
<1> HIDE DEF l
<1>5. l > 0 => Left = l - 1
  BY <1>1, <1>2, <1>4
<1>6. l = 0 => Left = SIZE_SIZE - 1
  BY <1>1, <1>3, <1>4
<1> QED
  BY <1>5, <1>6 DEF l

\* A token that the client takes is the first of those to come for every promise.
LEMMA PeekTake ==
    ASSUME LexInv, PeekInv, NEW t \in Token, NEW c \in Cursor, Has(t, c), Return(t, c),
           UNCHANGED <<source, pos, decimal>>, phase # "idle", call.fn = "next"
    PROVE  PeekInv'
<1>1. /\ taken' = Append(taken, t) /\ cursor' = c /\ phase' = "idle"
      /\ UNCHANGED <<call, promised>>
  BY DEF Return
<1>2. /\ source \in Seq(Chars) /\ taken \in Seq(Token) /\ Len(taken) \in Nat /\ Len(source) \in Nat
      /\ \A k \in 1..Len(taken) : taken[k] \in Token
      /\ \A p \in promised : p.n \in Nat /\ p.after \in Nat
  BY StateType DEF LexInv, TypeOK
<1> DEFINE m == Len(taken) + 1
           i == t.pos.id
<1>3. /\ taken' \in Seq(Token) /\ Len(taken') = m /\ taken'[m] = t
      /\ \A k \in 1..Len(taken) : taken'[k] = taken[k]
  BY <1>1, <1>2
<1>4. Exact(t) /\ t.pos = Begun /\ OnPath(c) /\ c.id = NextPlace(t) /\ i \in Nat /\ c.id \in Nat
  BY EndIs DEF Has, Cursor
<1>5. Reached = t.pos /\ Reached' = c
  BY <1>1, <1>4 DEF Reached, Begun
<1>6. PathInv'
  BY <1>1, <1>4, SameChain DEF PeekInv, PathInv
<1>7. PassedInv'
  BY <1>1 DEF PassedInv, IsPeeking
<1>8. IsTokenAt(t, i)
  BY <1>4 DEF IsTokenAt
<1>9. \A s, k : IsChain(s, k)' <=> IsChain(s, k)
  BY SameChain
<1>10. ASSUME NEW p \in promised, Kept(p) PROVE Kept(p)'
  <2>1. p.n > 0 => p.after + p.n \in Nat /\ p.after + p.n > 0
    BY <1>2
  <2>2. p.n > 0 /\ p.after + p.n <= Len(taken) => p.after + p.n \in 1..Len(taken)
    BY <1>2, <2>1
  <2>3. p.after + p.n <= Len(taken) => p.after + p.n <= m
    BY <1>2
  <2>4. \A j \in 1..Len(taken) : j \in 1..m
    BY <1>2
  <2> HIDE DEF m
  <2> QED
    BY <1>3, <1>10, <2>2, <2>3, <2>4 DEF Kept
<1>11. ASSUME ~EndsInPoint, NEW p \in promised, NEW s \in Seq(Token), Coming(p, s)
       PROVE  Kept(p)' \/ \E r \in Seq(Token) : Coming(p, r)'
  <2>1. /\ p.n > 0 /\ IsChain(s, i) /\ s # << >> /\ s[Len(s)] = p.token
        /\ Len(taken) + Len(s) <= p.after + p.n
        /\ p.token.kind = "eof" \/ Len(taken) + Len(s) = p.after + p.n
    BY <1>5, <1>11 DEF Coming
  <2>2. /\ s[1] \in Token /\ IsTokenAt(s[1], i)
        /\ Tail(s) \in Seq(Token) /\ Len(Tail(s)) = Len(s) - 1
        /\ IsChain(Tail(s), NextPlace(s[1]))
        /\ Tail(s) # << >> => Tail(s)[Len(Tail(s))] = s[Len(s)] /\ Len(s) > 1
        /\ Tail(s) = << >> => s[Len(s)] = s[1] /\ Len(s) = 1
    BY <1>2, <1>4, <2>1, ChainTail
  <2>3. s[1] = t
    BY <1>2, <1>4, <1>8, <1>11, <2>2, TokenUnique
  <2> DEFINE g == p.after + p.n
  <2>4. g \in Nat /\ Len(s) \in Nat /\ g > 0
    BY <1>2, <2>1
  <2>5. CASE Tail(s) = << >>
    <3>1. p.token = t /\ Len(s) = 1 /\ m <= g /\ (p.token.kind = "eof" \/ m = g)
      BY <2>1, <2>2, <2>3, <2>5
    <3>2. m \in Nat /\ m \in 1..m
      BY <1>2
    <3> HIDE DEF m, g
    <3>3. m < g \/ m = g
      BY <2>4, <3>1, <3>2
    <3>4. g = m => g <= m
      BY <2>4, <3>2
    <3>5. \/ g <= m /\ taken'[g] = p.token
          \/ p.token.kind = "eof" /\ \E j \in 1..m : j < g /\ taken'[j] = p.token
      BY <1>3, <3>1, <3>2, <3>3, <3>4
    <3>6. \/ p.after + p.n <= m /\ taken'[p.after + p.n] = p.token
          \/ p.token.kind = "eof" /\ \E j \in 1..m : j < p.after + p.n /\ taken'[j] = p.token
      BY <3>5 DEF g
    <3> QED
      BY <1>3, <2>1, <3>6 DEF Kept
  <2>6. CASE Tail(s) # << >>
    <3> DEFINE r == Tail(s)
    <3>1. /\ r \in Seq(Token) /\ IsChain(r, c.id) /\ r # << >> /\ r[Len(r)] = p.token
          /\ Len(r) = Len(s) - 1
      BY <1>4, <2>1, <2>2, <2>3, <2>6
    <3> HIDE DEF r
    <3>2. m + Len(r) = Len(taken) + Len(s)
      BY <1>2, <2>4, <3>1
    <3>3. IsChain(r, Reached.id)'
      <4> DEFINE k == c.id
      <4>1. IsChain(r, k) /\ Reached'.id = k
        BY <1>5, <3>1
      <4> HIDE DEF k
      <4> QED
        BY <1>9, <4>1
    <3>4. Coming(p, r)'
      BY <1>3, <2>1, <3>1, <3>2, <3>3 DEF Coming
    <3> QED
      BY <3>1, <3>4
  <2> QED
    BY <2>5, <2>6
<1>12. ASSUME ~EndsInPoint, NEW j \in 1..m, taken'[j].kind # "eof"
       PROVE  taken'[j].pos.id < c.id
  <2>1. i <= c.id /\ (i <= Len(source) => i < c.id)
    BY <1>2, <1>4, NextPlaceIs
  <2>2. CASE j \in 1..Len(taken)
    <3>1. taken[j].pos.id < i /\ taken[j] \in Token /\ taken'[j] = taken[j]
      BY <1>2, <1>3, <1>5, <1>12, <2>2 DEF PeekInv, PromiseInv
    <3>2. taken[j].pos.id \in Nat
      BY <3>1, EndIs
    <3> QED
      BY <1>4, <2>1, <3>1, <3>2
  <2>3. CASE j = m
    <3>1. taken'[j] = t /\ t.kind # "eof"
      BY <1>3, <1>12, <2>3
    <3> QED
      BY <1>4, <2>1, <3>1 DEF Exact
  <2> QED
    BY <1>2, <2>2, <2>3
<1>13. PromiseInv'
  <2> SUFFICES ASSUME ~EndsInPoint
               PROVE  /\ \A p \in promised : Kept(p)' \/ \E s \in Seq(Token) : Coming(p, s)'
                      /\ \A j \in 1..m : taken'[j].kind # "eof" => taken'[j].pos.id < c.id
    BY <1>1, <1>3, <1>5, SameChain DEF PromiseInv
  <2>1. \A p \in promised : Kept(p) \/ \E s \in Seq(Token) : Coming(p, s)
    BY DEF PeekInv, PromiseInv
  <2> HIDE DEF m
  <2> QED
    BY <1>10, <1>11, <1>12, <2>1
<1> QED
  BY <1>6, <1>7, <1>13 DEF PeekInv

\* A token that lookahead passes, or returns.
LEMMA PeekPass ==
    ASSUME LexInv, PeekInv, NEW t \in Token, NEW c \in Cursor, Has(t, c), Return(t, c),
           UNCHANGED <<source, pos, decimal>>, phase \notin {"idle", "aborted"},
           call.fn = "peek"
    PROVE  PeekInv'
<1> DEFINE i == call.mark.id
           l == call.left
           b == t.pos.id
<1>1. /\ call' = [call EXCEPT !.left = Left] /\ UNCHANGED <<source, pos, taken>>
      /\ IF Left > 0 /\ t.kind # "eof"
         THEN cursor' = c /\ phase' = "start" /\ UNCHANGED promised
         ELSE /\ cursor' = call.mark /\ phase' = "idle"
              /\ promised' = promised \cup {[n |-> call.n, after |-> Len(taken), token |-> t]}
  BY DEF Return, Rewound
<1>2. /\ source \in Seq(Chars) /\ Len(taken) \in Nat /\ Len(source) \in Nat
      /\ call.mark \in Cursor /\ call.n \in Nat /\ l \in 0..(SIZE_SIZE - 1) /\ l \in Nat
      /\ i \in Nat
  BY StateType DEF LexInv, TypeOK, Calls, Cursor
<1>3. /\ call'.fn = "peek" /\ call'.n = call.n /\ call'.mark = call.mark /\ call'.left = Left
  BY <1>1 DEF LexInv, TypeOK, Calls
<1>4. Exact(t) /\ t.pos = Begun /\ OnPath(c) /\ c.id = NextPlace(t) /\ b \in Nat /\ c.id \in Nat
  BY EndIs DEF Has, Cursor
<1>5. Reached = call.mark /\ Reached' = call.mark
  BY <1>1, <1>3 DEF Reached, Begun
<1>6. PathInv'
  BY <1>1, <1>3, <1>4, SameChain DEF PeekInv, PathInv
<1>7. PICK s \in Seq(Token) : Passed(s)
  BY DEF PeekInv, PassedInv, IsPeeking
<1> DEFINE e == ChainEnd(s, i)
           r == Append(s, t)
           n == Len(s)
<1>8. /\ IsChain(s, i) /\ \A k \in 1..n : s[k].kind # "eof"
      /\ e <= b /\ n < b /\ \A j \in e..(b - 1) : CharAt(j) = "sp"
      /\ call.n > 0 => l = call.n - n /\ l > 0
      /\ call.n = 0 => l = IF s = << >> THEN 0 ELSE SIZE_SIZE - n
  BY <1>4, <1>7 DEF Passed
<1>9. IsTokenAt(t, e)
  BY <1>4, <1>8 DEF IsTokenAt
<1>10. /\ IsChain(r, i) /\ r \in Seq(Token) /\ r # << >> /\ Len(r) = n + 1
       /\ r[n + 1] = t /\ \A k \in 1..n : r[k] = s[k]
       /\ ChainEnd(r, i) = c.id
  BY <1>2, <1>4, <1>8, <1>9, ChainAppend
<1>11. n \in Nat /\ SIZE_SIZE \in Nat /\ SIZE_SIZE > 1 /\ (s = << >> <=> n = 0)
  BY Constants
<1>12. /\ l > 0 => Left = l - 1
       /\ l = 0 => Left = SIZE_SIZE - 1
  BY <1>2, LeftIs
<1>13. t.kind # "eof" => b <= Len(source) /\ b < c.id /\ b < SIZE_SIZE
  <2>1. b <= Len(source) => b < NextPlace(t)
    BY <1>2, NextPlaceIs
  <2>2. Len(source) < SIZE_SIZE /\ (t.kind # "eof" => b <= Len(source))
    BY <1>4 DEF PeekInv, PathInv, Exact
  <2> HIDE DEF b
  <2> QED
    BY <1>2, <1>4, <1>11, <2>1, <2>2
<1> HIDE DEF e, r, n, l, b, i
<1>14. call.n > 0 => Left = call.n - (n + 1) /\ Left >= 0 /\ Left \in Nat
  BY <1>2, <1>8, <1>11, <1>12
<1>15. call.n = 0 /\ t.kind # "eof" => Left = SIZE_SIZE - (n + 1) /\ Left > 0
  <2>1. CASE s = << >>
    BY <1>8, <1>11, <1>12, <2>1
  <2>2. CASE s # << >> /\ call.n = 0 /\ t.kind # "eof"
    <3>1. n + 1 < SIZE_SIZE
      BY <1>4, <1>8, <1>11, <1>13, <2>2
    <3>2. l = SIZE_SIZE - n /\ l > 0
      BY <1>8, <1>11, <2>2, <3>1
    <3> QED
      BY <1>11, <1>12, <3>1, <3>2
  <2> QED
    BY <2>1, <2>2
<1>16. \A p : Kept(p)' <=> Kept(p)
  BY <1>1 DEF Kept
<1>17. \A p, u : Coming(p, u)' <=> Coming(p, u)
  BY <1>1, <1>5, SameChain DEF Coming
<1>18. CASE Left > 0 /\ t.kind # "eof"
  <2>1. cursor' = c /\ phase' = "start" /\ UNCHANGED promised
    BY <1>1, <1>18
  <2>2. PromiseInv'
    BY <1>1, <1>5, <2>1, PromisesStay DEF PeekInv
  <2>3. ASSUME NEW u \in Seq(Token), u = r PROVE Passed(u)'
    <3>1. Begun' = c /\ call'.mark = call.mark
      BY <1>3, <2>1 DEF Begun
    <3>2. IsChain(u, call.mark.id) /\ ChainEnd(u, call.mark.id) = c.id
      BY <1>10, <2>3 DEF i
    <3>3. IsChain(u, call.mark.id)' /\ ChainEnd(u, call.mark.id)' = c.id
      <4>1. \A k : (IsChain(u, k)' <=> IsChain(u, k)) /\ ChainEnd(u, k)' = ChainEnd(u, k)
        BY <1>1, SameChain
      <4> QED
        BY <3>1, <3>2, <4>1
    <3>4. \A k \in 1..Len(u) : u[k].kind # "eof"
      <4>1. \A k \in 1..(n + 1) : k \in 1..n \/ k = n + 1
        BY <1>11
      <4> QED
        BY <1>8, <1>10, <1>18, <2>3, <4>1
    <3>5. c.id <= c.id /\ Len(u) < c.id /\ \A j \in c.id..(c.id - 1) : FALSE
      BY <1>4, <1>8, <1>10, <1>11, <1>13, <1>18, <2>3
    <3>6. /\ call'.n > 0 => call'.left = call'.n - Len(u) /\ call'.left > 0
          /\ call'.n = 0 => call'.left = IF u = << >> THEN 0 ELSE SIZE_SIZE - Len(u)
      BY <1>3, <1>10, <1>14, <1>15, <1>18, <2>3
    <3> QED
      BY <3>1, <3>3, <3>4, <3>5, <3>6 DEF Passed
  <2>4. PassedInv'
    BY <1>10, <2>3 DEF PassedInv
  <2> QED
    BY <1>6, <2>2, <2>4 DEF PeekInv
<1>19. CASE ~(Left > 0 /\ t.kind # "eof")
  <2> DEFINE q == [n |-> call.n, after |-> Len(taken), token |-> t]
  <2>1. cursor' = call.mark /\ phase' = "idle" /\ promised' = promised \cup {q}
    BY <1>1, <1>19
  <2>2. PassedInv'
    BY <2>1 DEF PassedInv, IsPeeking
  <2>3. Kept(q) \/ Coming(q, r)
    <3>1. CASE call.n = 0
      BY <1>15, <1>19, <3>1 DEF Kept
    <3>2. CASE call.n > 0
      <4>1. Len(r) = call.n - Left /\ Left >= 0 /\ (t.kind = "eof" \/ Left = 0)
        BY <1>2, <1>10, <1>11, <1>14, <1>19, <3>2
      <4>2. /\ Len(taken) + Len(r) <= Len(taken) + call.n
            /\ t.kind = "eof" \/ Len(taken) + Len(r) = Len(taken) + call.n
        BY <1>2, <1>14, <3>2, <4>1
      <4> QED
        BY <1>5, <1>10, <3>2, <4>2 DEF Coming, i
    <3> QED
      BY <1>2, <3>1, <3>2
  <2> HIDE DEF q
  <2>4. PromiseInv'
    <3> SUFFICES ASSUME ~EndsInPoint
                 PROVE  /\ \A p \in promised' : Kept(p) \/ \E u \in Seq(Token) : Coming(p, u)
                        /\ \A j \in 1..Len(taken) : taken[j].kind # "eof" => taken[j].pos.id < Reached.id
      BY <1>1, <1>5, <1>16, <1>17, SameChain DEF PromiseInv
    <3> QED
      BY <1>10, <2>1, <2>3 DEF PeekInv, PromiseInv
  <2> QED
    BY <1>6, <2>2, <2>4 DEF PeekInv
<1> QED
  BY <1>18, <1>19

-----------------------------------------------------------------------------
(* The invariant.                                                           *)

\* A call that has a token keeps the invariant.
LEMMA TokenInv == LexInv /\ PeekInv /\ HasToken => LexInv' /\ PeekInv'
<1> SUFFICES ASSUME LexInv, PeekInv, HasToken PROVE LexInv' /\ PeekInv'
  OBVIOUS
<1>1. PICK t \in Token, c \in Cursor :
         /\ Has(t, c) /\ Return(t, c) /\ UNCHANGED <<source, pos, decimal>>
         /\ phase \notin {"idle", "aborted"}
  BY DEF HasToken
<1>2. IsLongest(t) /\ t.pos = Begun /\ c.id = NextPlace(t)
  BY <1>1 DEF Has, Exact
<1>3. c.id <= End(t)
  BY <1>2, NextPlaceIs DEF LexInv, TypeOK
<1>4. t.kind = "ident" => c.id = End(t) /\ c.line = t.pos.line
  <2>1. t.kind = "ident" => t.pos.id <= Len(source) /\ c.line = t.pos.line
    BY <1>1 DEF Has, Exact
  <2> QED
    BY <1>2, <2>1, NextPlaceIs DEF LexInv, TypeOK
<1>5. LexInv'
  BY <1>1, <1>2, <1>3, <1>4, ReturnInv
<1>6. call.fn \in {"next", "peek"}
  BY DEF LexInv, TypeOK, Calls
<1>7. PeekInv'
  BY <1>1, <1>6, PeekTake, PeekPass
<1> QED
  BY <1>5, <1>7

\* A step within a token, or to begin one, keeps it.
LEMMA StepInv ==
    ASSUME LexInv, PeekInv,
           BeginIdent \/ BeginNum \/ BeginStr \/ MoreIdent \/ MoreNum \/ Point \/ MoreStr \/ NegativeIndex
    PROVE  LexInv' /\ PeekInv'
<1>1. /\ source \in Seq(Chars) /\ cursor \in Cursor
      /\ OnPath(cursor) /\ OnPath(pos) /\ OnPath(Advanced(cursor)) /\ OnPath(Advanced(Advanced(cursor)))
  <2>1. source \in Seq(Chars) /\ cursor \in Cursor /\ OnPath(cursor) /\ OnPath(pos)
    BY DEF LexInv, TypeOK, PeekInv, PathInv
  <2>2. Advanced(cursor) \in Cursor /\ OnPath(Advanced(cursor))
    BY <2>1, AdvancedIs, PathAdvanced
  <2> QED
    BY <2>1, <2>2, PathAdvanced
<1>2. CASE BeginIdent \/ BeginNum \/ BeginStr
  <2>1. PICK chars, next :
           /\ Begin(chars, next)
           /\ \/ chars = Letters /\ next = "ident"
              \/ chars = Digits /\ next = "num"
              \/ chars = {"quote"} /\ next = "string"
    BY <1>2 DEF BeginIdent, BeginNum, BeginStr
  <2>2. /\ phase = "start" /\ phase' \in {"ident", "num", "string"}
        /\ pos' = cursor /\ cursor' = Advanced(cursor)
        /\ UNCHANGED <<source, call, taken, promised>>
    BY <2>1 DEF Begin, Go
  <2>3. Begun' = Begun
    BY <2>2 DEF Begun
  <2> QED
    BY <1>1, <2>1, <2>2, <2>3, BeginInv, PeekScan
<1>3. CASE MoreIdent \/ MoreNum \/ Point
  <2>1. /\ phase \in {"ident", "num"} /\ phase' = phase /\ pos' = pos /\ cursor' = Advanced(cursor)
        /\ UNCHANGED <<source, call, taken, promised>>
    BY <1>3 DEF MoreIdent, MoreNum, Point, Go
  <2>2. Begun' = Begun
    BY <2>1 DEF Begun
  <2> QED
    BY <1>1, <1>3, <2>1, <2>2, MoreIdentInv, MoreNumInv, PointInv, PeekScan
<1>4. CASE MoreStr
  <2>1. /\ phase = "string" /\ phase' = phase /\ pos' = pos
        /\ cursor' = Advanced(cursor) \/ cursor' = Advanced(Advanced(cursor))
        /\ UNCHANGED <<source, call, taken, promised>>
    BY <1>4 DEF MoreStr
  <2>2. Begun' = Begun
    BY <2>1 DEF Begun
  <2> QED
    BY <1>1, <1>4, <2>1, <2>2, MoreStrInv, PeekScan
<1>5. CASE NegativeIndex
  <2>1. /\ phase = "start" /\ phase' = "aborted"
        /\ UNCHANGED <<source, cursor, pos, decimal, call, taken, promised>>
    BY <1>5 DEF NegativeIndex
  <2>2. Begun' = Begun
    BY <2>1 DEF Begun
  <2> QED
    BY <1>1, <1>5, <2>1, <2>2, AbortInv, PeekScan
<1> QED
  BY <1>2, <1>3, <1>4, <1>5

LEMMA NextInv == (LexInv /\ PeekInv) /\ [Next]_vars => (LexInv /\ PeekInv)'
<1> SUFFICES ASSUME LexInv, PeekInv, [Next]_vars PROVE LexInv' /\ PeekInv'
  OBVIOUS
<1>0. PathInv
  BY DEF PeekInv
<1>1. CASE LexNextToken
  <2>1. Call("next", 1) /\ 1 \in 0..(SIZE_SIZE - 1)
    BY <1>1, Constants DEF LexNextToken
  <2> QED
    BY <2>1, CallInv, PeekCall
<1>2. CASE LexerPeekNth
  <2>1. PICK n \in 0..MaxPeek : Call("peek", n)
    BY <1>2 DEF LexerPeekNth
  <2>2. n \in 0..(SIZE_SIZE - 1)
    BY Constants
  <2> QED
    BY <2>1, <2>2, CallInv, PeekCall
<1>3. CASE Skip
  BY <1>3, SkipInv, PeekSkip
<1>4. CASE BeginIdent \/ BeginNum \/ BeginStr \/ MoreIdent \/ MoreNum \/ Point \/ MoreStr \/ NegativeIndex
  BY <1>4, StepInv
<1>5. CASE EndIdent
  BY <1>0, <1>5, EndIdentHas, TokenInv
<1>6. CASE EndNum
  BY <1>0, <1>6, EndNumHas, TokenInv
<1>7. CASE LexOp
  BY <1>0, <1>7, LexOpHas, TokenInv
<1>8. CASE EndStr
  BY <1>0, <1>8, EndStrHas, TokenInv
<1>9. CASE LexSeparator
  <2>1. Peek \in Separators /\ IsLexeme(<<Peek>>, "sep")
    BY <1>9 DEF LexSeparator, IsLexeme
  <2>2. HasToken
    BY <1>0, <1>9, <2>1, OneCharHas DEF LexSeparator
  <2> QED
    BY <2>2, TokenInv
<1>10. CASE LexNewline
  <2>1. Peek = "nl" /\ IsLexeme(<<Peek>>, "newline")
    BY <1>10 DEF LexNewline, IsLexeme
  <2>2. At1(NewToken(cursor, "newline", <<Peek>>), Advanced(cursor))
    BY <1>10, <2>1 DEF LexNewline
  <2>3. HasToken
    BY <1>0, <2>1, <2>2, OneCharHas
  <2> QED
    BY <2>3, TokenInv
<1>11. CASE LexEof \/ LexError
  BY <1>0, <1>11, ShortHas, TokenInv
<1>12. CASE UNCHANGED vars
  <2>1. UNCHANGED <<source, cursor, phase, pos, decimal, call, taken, promised>>
    BY <1>12 DEF vars
  <2>2. Reached' = Reached /\ Begun' = Begun /\ TypeOK'
    BY <2>1 DEF Reached, Begun, LexInv, TypeOK
  <2>3. WordInv' /\ NumInv'
    BY <2>1, SameText DEF LexInv, ScanInv, WordInv, NumInv
  <2>4. StrInv'
    <3>1. Ahead' = Ahead /\ Place' = Place
      BY <2>1 DEF Ahead, Piece, Place
    <3>2. \A w, k : IsOpen(w, k)' <=> IsOpen(w, k)
      BY DEF IsOpen, Escaped
    <3>3. IsOpen(Ahead, Place)' <=> IsOpen(Ahead, Place)
      BY <3>1, <3>2
    <3>4. StrInv
      BY DEF LexInv, ScanInv
    <3> QED
      BY <2>1, <3>3, <3>4, SameText DEF StrInv
  <2>5. LexInv'
    BY <2>1, <2>2, <2>3, <2>4, StableInv DEF LexInv, ScanInv
  <2>6. PathInv' /\ PromiseInv'
    BY <2>1, <2>2, SameChain, PromisesStay DEF PeekInv, PathInv
  <2>7. \A s : Passed(s) => Passed(s)'
    BY <2>1, <2>2, SameText, SameChain DEF Passed
  <2>8. PassedInv'
    BY <2>1, <2>7 DEF PeekInv, PassedInv, IsPeeking
  <2> QED
    BY <2>5, <2>6, <2>8 DEF PeekInv
<1> QED
  BY <1>1, <1>2, <1>3, <1>4, <1>5, <1>6, <1>7, <1>8, <1>9, <1>10, <1>11, <1>12 DEF Next, Work

\* The inductive invariant holds in every reachable state.
THEOREM Inductive == Spec => [](LexInv /\ PeekInv)
<1>1. Init => LexInv /\ PeekInv
  BY InitInv, PeekInit
<1> QED
  BY <1>1, NextInv, PTL DEF Spec

-----------------------------------------------------------------------------
(* Theorems.                                                                *)

\* Every variable stays in its set: no token, cursor or count of lookahead leaves its
\* width, whatever the source and the argument of lexer_peek_nth.
THEOREM TypeCorrect == Spec => []TypeOK
<1>1. LexInv => TypeOK
  BY DEF LexInv
<1> QED
  BY <1>1, Inductive, PTL

\* lex_next_token splits every source into the longest lexemes, with nothing but blanks
\* between them, however often lookahead goes ahead and back in between.
THEOREM TokensAreTheLongest == Spec => []LongestLexemes
<1>1. LexInv => LongestLexemes
  <2> SUFFICES ASSUME TakenInv, NEW k \in 1..Len(taken)
               PROVE  LET t == taken[k]
                          i == t.pos.id
                          before == IF k = 1 THEN 1 ELSE End(taken[k - 1])
                      IN /\ \A j \in before..(i - 1) : CharAt(j) = "sp"
                         /\ t.kind = "eof" => i > Len(source)
                         /\ t.kind = "error" =>
                               \A j \in i..(Len(source) + 1), kind \in Kinds : ~Lexeme(i, j, kind)
                         /\ t.kind \notin {"eof", "error"} /\ ~ReadsBehind(t) =>
                               /\ Lexeme(i, End(t), t.kind) /\ t.text = Piece(i, End(t))
                               /\ \A j \in (End(t) + 1)..(Len(source) + 1), kind \in Kinds :
                                     ~Lexeme(i, j, kind)
    BY DEF LexInv, LongestLexemes
  <2>1. IsLongest(taken[k])
    BY DEF TakenInv
  <2>2. \A j \in (IF k = 1 THEN 1 ELSE End(taken[k - 1]))..(taken[k].pos.id - 1) : CharAt(j) = "sp"
    BY DEF TakenInv
  <2> QED
    BY <2>1, <2>2 DEF IsLongest
<1> QED
  BY <1>1, Inductive, PTL

\* are_tokens_adjacent, which compares 16-bit lengths, decides whether a name and a
\* parenthesis touch in the source, except after a name as long as the lengths' range.
THEOREM AdjacencyIsTextual == Spec => []AdjacentIsTextual
<1>1. LexInv => AdjacentIsTextual
  BY DEF LexInv
<1> QED
  BY <1>1, Inductive, PTL

\* What lookahead returned, and where, is what lex_next_token returns when its turn
\* comes, unless the end comes before, whatever is taken or looked at in between; the
\* count of lexer_peek_nth does not wrap before the end, even from n = 0.
THEOREM LookaheadIsTrue == Spec => []PeeksTellTheFuture
<1>1. LexInv /\ PeekInv => PeeksTellTheFuture
  <2> SUFFICES ASSUME LexInv, PeekInv, ~EndsInPoint, NEW p \in promised
               PROVE  \/ p.n = 0 /\ p.token.kind = "eof"
                      \/ p.n > 0 /\ LET k == p.after + p.n IN
                            \/ k <= Len(taken) /\ taken[k] = p.token
                            \/ p.token.kind = "eof" /\ \E j \in 1..Len(taken) : j < k /\ taken[j] = p.token
                            \/ k > Len(taken) /\ \A j \in 1..Len(taken) : taken[j] # p.token
    BY DEF PeeksTellTheFuture
  <2>1. Kept(p) \/ \E s \in Seq(Token) : Coming(p, s)
    BY DEF PeekInv, PromiseInv
  <2>2. CASE Kept(p)
    BY <2>2 DEF Kept
  <2>3. ASSUME NEW s \in Seq(Token), Coming(p, s)
        PROVE  p.n > 0 /\ LET k == p.after + p.n IN
                  \/ p.token.kind = "eof" /\ \E j \in 1..Len(taken) : j < k /\ taken[j] = p.token
                  \/ k > Len(taken) /\ \A j \in 1..Len(taken) : taken[j] # p.token
    <3> DEFINE k == p.after + p.n
    <3>1. /\ p.n > 0 /\ IsChain(s, Reached.id) /\ s # << >> /\ s[Len(s)] = p.token
          /\ Len(taken) + Len(s) <= k
      BY <2>3 DEF Coming
    <3>2. /\ Len(taken) \in Nat /\ Len(s) \in Nat /\ Len(s) > 0 /\ Len(s) \in 1..Len(s)
          /\ s[Len(s)] \in Token /\ k \in Nat /\ \A j \in 1..Len(taken) : taken[j] \in Token
          /\ Reached.id \in Nat
      <4>1. p.n \in Nat /\ p.after \in Nat /\ Reached \in Cursor
        BY StateType DEF LexInv, TypeOK, Reached, Begun
      <4>2. Len(s) \in Nat /\ Len(s) > 0 /\ Len(s) \in 1..Len(s) /\ s[Len(s)] \in Token
        BY <3>1
      <4>3. k \in Nat /\ Reached.id \in Nat
        BY <4>1 DEF Cursor
      <4> QED
        BY <4>2, <4>3, StateType DEF LexInv
    <3>3. k > Len(taken) /\ \A j \in 1..Len(taken) : j < k
      BY <3>1, <3>2
    <3>4. CASE p.token.kind = "eof"
      BY <3>1, <3>3, <3>4
    <3>5. CASE p.token.kind # "eof"
      <4>1. Reached.id <= p.token.pos.id /\ p.token.pos.id \in Nat
        BY <3>1, <3>2, EndIs DEF IsChain
      <4>2. \A j \in 1..Len(taken) : taken[j].kind # "eof" => taken[j].pos.id < Reached.id
        BY DEF PeekInv, PromiseInv
      <4>3. \A j \in 1..Len(taken) : taken[j].pos.id \in Nat
        BY <3>2, EndIs
      <4>4. ASSUME NEW j \in 1..Len(taken), taken[j] = p.token PROVE FALSE
        BY <3>2, <3>5, <4>1, <4>2, <4>3, <4>4
      <4> QED
        BY <3>1, <3>3, <4>4
    <3> QED
      BY <3>4, <3>5
  <2> QED
    BY <2>1, <2>2, <2>3
<1> QED
  BY <1>1, Inductive, PTL
=============================================================================
