-------------------------------- MODULE Lexer --------------------------------
(***************************************************************************)
(* The lexer (frontend/lexer.c, on the cursor of frontend/cursor.c): from  *)
(* a source to tokens, one per call of lex_next_token, and lookahead that  *)
(* lexes ahead and then goes back to a mark.  One iteration of a loop over *)
(* characters is one step.                                                 *)
(*                                                                         *)
(* A character is a member of Chars, which has some of each class: "f" and *)
(* "i" for letters and _, "1" for digits, "@" for those that begin no      *)
(* token, "high" for those that are negative as a char.  An identifier is  *)
(* its text, since interning gives one id to each text (module Interner).  *)
(***************************************************************************)
EXTENDS Integers, Sequences, FiniteSets

CONSTANTS
    Sources,     \* the sources that are tried
    LEN_SIZE,    \* a token's length is a uint16_t: 2^16
    SIZE_SIZE,   \* the argument of lexer_peek_nth is a size_t: 2^64
    MaxPeek,     \* bounds that argument,
    MaxPeeks     \* and this the answers of lookahead that are remembered

Letters == {"i", "f"}
Digits == {"1"}
OpChars == {"<", "=", ">", "-", "."}
Separators == {"(", ","}
Chars == Letters \cup Digits \cup OpChars \cup Separators
         \cup {"sp", "nl", "quote", "\\", "@", "high"}

ASSUME LexerAssumption ==
    /\ Sources \subseteq Seq(Chars)
    /\ LEN_SIZE \in Nat \ {0} /\ SIZE_SIZE \in Nat \ {0, 1}
    /\ MaxPeek \in 0..(SIZE_SIZE - 1) /\ MaxPeeks \in Nat
    /\ \A s \in Sources : Len(s) < SIZE_SIZE    \* so is the length of a source

VARIABLES
    source,
    cursor,     \* lexer->cursor
    phase,      \* the loop that the call is in; "idle" between calls
    pos,        \* the cursor at the token's start
    decimal,    \* has_decimal of lex_num
    call,       \* which call it is, its n, what is left of that, and its mark
    taken,      \* history: the tokens that lex_next_token returned
    promised    \* history: what lookahead returned, and which token it is

vars == <<source, cursor, phase, pos, decimal, call, taken, promised>>

Keywords == {<<"i", "f">>}

\* A seeded fault: the table without regard to the length of its operators.
FaultyOperators ==
    << <<"<", "=">>, <<">", "=">>, <<"<", "<">>, <<">", ">">>, <<"-", "-">>, <<"=", "=">>,
       <<"<", "<", "=">>, <<">", ">", "=">>, <<".", ".", ".">>, <<"-", "=">>, <<"-", ">">>,
       <<"-">>, <<"=">>, <<"<">>, <<">">>, <<".">> >>

\* The operators over OpChars, in the order of OPERATORS.
Operators ==
    << <<"<", "<", "=">>, <<">", ">", "=">>, <<".", ".", ".">>, <<"-", "-">>, <<"=", "=">>,
       <<"<", "=">>, <<">", "=">>, <<"<", "<">>, <<">", ">">>, <<"-", "=">>, <<"-", ">">>,
       <<"-">>, <<"=">>, <<"<">>, <<">">>, <<".">> >>

Kinds == {"ident", "keyword", "val", "op", "sep", "newline", "eof", "error"}

Cursor == [id : Nat \ {0}, line : Nat, col : Nat]

Token == [pos : Cursor, len : 0..(LEN_SIZE - 1), kind : Kinds, text : Seq(Chars)]

\* A seeded fault: the length is the distance to the last character.
FaultyNewToken(p, kind, text) ==
    [pos |-> p, len |-> (Len(text) - 1) % LEN_SIZE, kind |-> kind, text |-> text]

\* new_token; the length of an operator or separator is that of its spelling.
NewToken(p, kind, text) ==
    [pos |-> p, len |-> Len(text) % LEN_SIZE, kind |-> kind, text |-> text]

\* EOF_TOKEN and ERROR_TOKEN
Short(p, kind) == [pos |-> p, len |-> 1 % LEN_SIZE, kind |-> kind, text |-> << >>]

-----------------------------------------------------------------------------
(* The cursor.                                                              *)

NUL == "nul"
CharAt(i) == IF i \in 1..Len(source) THEN source[i] ELSE NUL

Peek == CharAt(cursor.id)

\* peek_next: the character after the last one is not the source's, and may be
\* anything; only whether it is a digit matters to lex_num.
PeekNext ==
    IF cursor.id = Len(source) THEN {NUL} \cup Digits ELSE {CharAt(cursor.id + 1)}

\* How far behind the source the model follows the cursor.
BEHIND == 4

\* advance_cursor
Advanced(c) ==
    IF c.id > Len(source) + BEHIND THEN c
    ELSE [id |-> c.id + 1,
          line |-> IF CharAt(c.id) = "nl" THEN c.line + 1 ELSE c.line,
          col |-> IF CharAt(c.id) = "nl" THEN 1 ELSE c.col + 1]

\* str_match_cursor; no operator has a newline.
Matches(text) ==
    /\ Len(text) <= Len(source) - cursor.id + 1
    /\ \A k \in 1..Len(text) : CharAt(cursor.id + k - 1) = text[k]
Behind(text) == [cursor EXCEPT !.id = @ + Len(text), !.col = @ + Len(text)]

\* sv_slice of the source from the token's start to the cursor
Slice == SubSeq(source, pos.id, cursor.id - 1)

Calls == [fn : {"next", "peek"}, n : Nat, left : 0..(SIZE_SIZE - 1), mark : Cursor]

Init ==
    /\ source \in Sources
    /\ cursor = [id |-> 1, line |-> 1, col |-> 1] /\ pos = cursor
    /\ phase = "idle" /\ decimal = FALSE
    /\ call = [fn |-> "next", n |-> 1, left |-> 1, mark |-> cursor]
    /\ taken = << >> /\ promised = {}

-----------------------------------------------------------------------------
(* The calls of clients, and what becomes of a token.                       *)

Call(fn, n) ==
    /\ phase = "idle" /\ phase' = "start"
    /\ call' = [fn |-> fn, n |-> n, left |-> n, mark |-> cursor]
    /\ UNCHANGED <<source, cursor, pos, decimal, taken, promised>>

\* Clients may go on after the end of the source, here once.
LexNextToken == Len(SelectSeq(taken, LAMBDA t : t.kind = "eof")) < 2 /\ Call("next", 1)

\* lexer_peek_token is this with n = 1.
LexerPeekNth == \E n \in 0..MaxPeek : Cardinality(promised) < MaxPeeks /\ Call("peek", n)

\* A seeded fault: only the index is restored.
FaultyRewound(mark) == [cursor EXCEPT !.id = mark.id]

\* rewind_cursor
Rewound(mark) == mark

\* A seeded fault: the count is signed.
FaultyLeft == call.left - 1

\* --n
Left == (call.left - 1) % SIZE_SIZE

\* lex_next_token has token t and leaves the cursor at c.
Return(t, c) ==
    IF call.fn = "next"
    THEN /\ taken' = Append(taken, t) /\ cursor' = c /\ phase' = "idle"
         /\ UNCHANGED <<call, promised>>
    ELSE /\ call' = [call EXCEPT !.left = Left]
         /\ UNCHANGED taken
         /\ IF Left > 0 /\ t.kind # "eof"
            THEN cursor' = c /\ phase' = "start" /\ UNCHANGED promised
            ELSE /\ cursor' = Rewound(call.mark) /\ phase' = "idle"
                 /\ promised' = promised \cup {[n |-> call.n, after |-> Len(taken), token |-> t]}

-----------------------------------------------------------------------------
(* lex_next_token.                                                          *)

Go(next) ==
    /\ cursor' = Advanced(cursor) /\ phase' = next
    /\ UNCHANGED <<source, call, taken, promised>>

Skip == phase = "start" /\ Peek = "sp" /\ Go("start") /\ UNCHANGED <<pos, decimal>>

Begin(chars, next) ==
    /\ phase = "start" /\ Peek \in chars
    /\ pos' = cursor /\ decimal' = FALSE /\ Go(next)

\* A token that lies between pos and the cursor.
Scanned(kind) ==
    /\ Return(NewToken(pos, kind, Slice), cursor)
    /\ UNCHANGED <<source, pos, decimal>>

\* A token of length 1 or, for an operator, of its spelling's.
At1(t, c) == phase = "start" /\ Return(t, c) /\ UNCHANGED <<source, pos, decimal>>

(* lex_ident *)
BeginIdent == Begin(Letters, "ident")
MoreIdent == phase = "ident" /\ Peek \in Letters \cup Digits /\ Go("ident") /\ UNCHANGED <<pos, decimal>>
EndIdent ==
    /\ phase = "ident" /\ Peek \notin Letters \cup Digits
    /\ Scanned(IF Slice \in Keywords THEN "keyword" ELSE "ident")

(* lex_num *)
BeginNum == Begin(Digits, "num")
MoreNum == phase = "num" /\ Peek \in Digits /\ Go("num") /\ UNCHANGED <<pos, decimal>>

\* The point before character c belongs to the number.
IsPoint(c) == Peek = "." /\ c \in Digits /\ ~decimal

Point ==
    /\ phase = "num" /\ \E c \in PeekNext : IsPoint(c)
    /\ decimal' = TRUE /\ Go("num") /\ UNCHANGED pos
EndNum ==
    /\ phase = "num" /\ Peek \notin Digits /\ \E c \in PeekNext : ~IsPoint(c)
    /\ Scanned("val")

(* lex_op takes the first operator of the table that matches. *)
LexOp ==
    /\ Peek \in OpChars
    /\ \E k \in 1..Len(Operators) :
          /\ Matches(Operators[k]) /\ \A j \in 1..(k - 1) : ~Matches(Operators[j])
          /\ At1(NewToken(cursor, "op", Operators[k]), Behind(Operators[k]))

(* lex_str; a backslash takes the next character with it. *)
BeginStr == Begin({"quote"}, "string")

\* A seeded fault: a backslash takes two characters with it.
FaultyMoreStr ==
    /\ phase = "string" /\ Peek # "quote"
    /\ cursor' = IF Peek = "\\" THEN Advanced(Advanced(Advanced(cursor))) ELSE Advanced(cursor)
    /\ UNCHANGED <<source, phase, pos, decimal, call, taken, promised>>

MoreStr ==
    /\ phase = "string" /\ Peek # "quote"
    /\ cursor' = IF Peek = "\\" THEN Advanced(Advanced(cursor)) ELSE Advanced(cursor)
    /\ UNCHANGED <<source, phase, pos, decimal, call, taken, promised>>
EndStr ==
    /\ phase = "string" /\ Peek = "quote"
    /\ Return(NewToken(pos, "val", Append(Slice, "quote")), Advanced(cursor))
    /\ UNCHANGED <<source, pos, decimal>>

(* Separators, the end of the source, and what begins no token. *)
LexSeparator == Peek \in Separators /\ At1(NewToken(cursor, "sep", <<Peek>>), Advanced(cursor))
LexNewline == Peek = "nl" /\ At1(NewToken(cursor, "newline", <<"nl">>), Advanced(cursor))
LexEof == Peek = NUL /\ At1(Short(cursor, "eof"), Advanced(cursor))
LexError == Peek \in {"@", "\\", "high"} /\ At1(Short(cursor, "error"), Advanced(cursor))

\* is_op reads before its table when the char is negative; if it finds a true
\* there, no operator matches and lex_op's assertion fails.
NegativeIndex ==
    /\ phase = "start" /\ Peek = "high" /\ phase' = "aborted"
    /\ UNCHANGED <<source, cursor, pos, decimal, call, taken, promised>>

-----------------------------------------------------------------------------
Work ==
    \/ Skip \/ BeginIdent \/ MoreIdent \/ EndIdent
    \/ BeginNum \/ MoreNum \/ Point \/ EndNum
    \/ LexOp \/ BeginStr \/ MoreStr \/ EndStr
    \/ LexSeparator \/ LexNewline \/ LexEof \/ LexError \/ NegativeIndex

Next == LexNextToken \/ LexerPeekNth \/ Work

\* A call runs to its end; nothing makes a client call.
Spec == Init /\ [][Next]_vars /\ WF_vars(Work)

-----------------------------------------------------------------------------
(* Properties.                                                              *)

\* Every variable stays in its set.
TypeOK ==
    /\ source \in Seq(Chars) /\ cursor \in Cursor /\ pos \in Cursor
    /\ phase \in {"idle", "start", "ident", "num", "string", "aborted"}
    /\ decimal \in BOOLEAN /\ call \in Calls /\ taken \in Seq(Token)
    /\ \A p \in promised : p \in [n : Nat, after : Nat, token : Token]

\* What the tokens are, said of whole texts instead of character by character.
IsWord(w) == w[1] \in Letters /\ \A k \in 1..Len(w) : w[k] \in Letters \cup Digits
IsNumber(w) ==
    /\ w[1] \in Digits /\ w[Len(w)] \in Digits
    /\ \A k \in 1..Len(w) : w[k] \in Digits \cup {"."}
    /\ \A j, k \in 1..Len(w) : w[j] = "." /\ w[k] = "." => j = k
IsOperator(w) == \E k \in 1..Len(Operators) : w = Operators[k]

\* An odd number of backslashes stands before place k.
Escaped(w, k) ==
    Cardinality({j \in 2..(k - 1) : \A i \in j..(k - 1) : w[i] = "\\"}) % 2 = 1
IsString(w) ==
    /\ Len(w) > 1
    /\ \A k \in 1..Len(w) : w[k] = "quote" /\ ~Escaped(w, k) <=> k \in {1, Len(w)}

IsLexeme(w, kind) ==
    CASE kind = "ident" -> IsWord(w) /\ w \notin Keywords
      [] kind = "keyword" -> w \in Keywords
      [] kind = "val" -> IsNumber(w) \/ IsString(w)
      [] kind = "op" -> IsOperator(w)
      [] kind = "sep" -> Len(w) = 1 /\ w[1] \in Separators
      [] kind = "newline" -> w = <<"nl">>
      [] OTHER -> FALSE

\* The text of the source from place i to the one before j.
Piece(i, j) == SubSeq(source, i, j - 1)
Lexeme(i, j, kind) == j \in (i + 1)..(Len(source) + 1) /\ IsLexeme(Piece(i, j), kind)

\* Where a token ends, whatever its len says.
End(t) == t.pos.id + (IF t.text = << >> THEN 1 ELSE Len(t.text))

\* A number whose last point was taken for one with digits behind it, because
\* peek_next (cursor.c:88) read the character after the source.
ReadsBehind(t) == t.kind = "val" /\ t.text[Len(t.text)] = "." /\ End(t) = Len(source) + 1

EndsInPoint ==
    Len(source) > 1 /\ source[Len(source) - 1] \in Digits /\ source[Len(source)] = "."

\* Each token is the longest piece of the source that is one, though lex_op only
\* tries a table in order; between two of them there are only blanks; a character
\* is an error only if no token begins with it, and the end is the end.
LongestLexemes ==
    \A k \in 1..Len(taken) :
       LET t == taken[k]
           i == t.pos.id
           before == IF k = 1 THEN 1 ELSE End(taken[k - 1])
       IN /\ \A j \in before..(i - 1) : CharAt(j) = "sp"
          /\ t.kind = "eof" => i > Len(source)
          /\ t.kind = "error" => \A j \in i..(Len(source) + 1), kind \in Kinds : ~Lexeme(i, j, kind)
          /\ t.kind \notin {"eof", "error"} /\ ~ReadsBehind(t) =>
                /\ Lexeme(i, End(t), t.kind) /\ t.text = Piece(i, End(t))
                /\ \A j \in (End(t) + 1)..(Len(source) + 1), kind \in Kinds : ~Lexeme(i, j, kind)

\* are_tokens_adjacent (pp2_macro.c:54-56)
Adjacent(t1, t2) == t1.pos.line = t2.pos.line /\ t1.pos.id + t1.len = t2.pos.id

\* Whether a macro has parameters (pp2_macro.c:110) is what the source says: the
\* parenthesis follows the name at once.  But a name of LEN_SIZE characters or
\* more never has any.
AdjacentIsTextual ==
    \A k \in 1..(Len(taken) - 1) : LET name == taken[k] paren == taken[k + 1] IN
       name.kind = "ident" /\ paren.kind = "sep" =>
          (Adjacent(name, paren) <=> End(name) = paren.pos.id /\ Len(name.text) < LEN_SIZE)

\* Lookahead tells the truth: what lexer_peek_nth of n returned is the n-th token
\* that lex_next_token returns after it, with its place, or the end that comes
\* before; n = 0 is a lookahead to the end.  Only the character after a source that
\* ends in a digit and a point may be another one at each look.
PeeksTellTheFuture ==
    \A p \in promised :
       \/ EndsInPoint
       \/ p.n = 0 /\ p.token.kind = "eof"
       \/ p.n > 0 /\ LET k == p.after + p.n IN
             \/ k <= Len(taken) /\ taken[k] = p.token
             \/ p.token.kind = "eof" /\ \E j \in 1..Len(taken) : j < k /\ taken[j] = p.token
             \/ k > Len(taken) /\ \A j \in 1..Len(taken) : taken[j] # p.token

\* The string that lex_str is in has no closing quote.
Unclosed ==
    /\ phase = "string"
    /\ \A j \in (pos.id + 1)..(Len(source) + 1) : ~IsString(Piece(pos.id, j))

\* Every call returns, unless it reaches a string that is never closed: lex_str
\* (lexer.c:75) has no test for the end of the source.
CallsReturn == (phase # "idle") ~> (phase \in {"idle", "aborted"} \/ Unclosed)
=============================================================================
