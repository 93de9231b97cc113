----------------------------- MODULE Preprocess1 -----------------------------
(***************************************************************************)
(* The first stage of the preprocessor (frontend/preprocess_1.c, on the    *)
(* cursor of frontend/cursor.c): comments and #include.  Each activation   *)
(* of resolve_pp1 scans one source; that of an included file is a call     *)
(* made in the middle of the includer's.  One iteration of a loop over the *)
(* source is one step.                                                     *)
(*                                                                         *)
(* A character is a member of Chars.  "include" stands for the characters  *)
(* of that word and a file name for those of the name.  ndebug says        *)
(* whether assert is compiled out, and with it the calls that the code     *)
(* makes inside assert.                                                    *)
(***************************************************************************)
EXTENDS Integers, Sequences, FiniteSets

CONSTANTS
    Sources,    \* the main files that are tried
    Files,      \* from the names of the files in include_dirs to their contents
    MAX_BUFFERS \* the size of the pool of string buffers

Special == {"#", "/", "*", "\\", "nl", "sp", "quote", "<", ">", "include"}
Chars == Special \cup {"x"} \cup DOMAIN Files
EOF == "eof"

\* What fopen opens: the files, and for the empty name the include directory.
Directory == "dir"
Paths == DOMAIN Files \cup {Directory}

ASSUME PP1Assumption ==
    /\ Sources \subseteq Seq(Chars)
    /\ \A f \in DOMAIN Files :
          f \notin Special \cup {EOF, Directory} /\ Files[f] \in Seq(Chars)
    /\ MAX_BUFFERS \in Nat \ {0}

VARIABLES
    stack,      \* the activations of resolve_pp1, the running one last
    included,   \* pp1->ctx->included_files
    pool,       \* strings.max_used
    result,     \* what the last resolve_pp1 to reach its end has built
    status,
    ndebug      \* the build has NDEBUG; that of run.sh has not

vars == <<stack, included, pool, result, status, ndebug>>

\* The activation: its source, whether a NUL follows that, the place there, what
\* loop it is in, and the text of `preprocessed`.
Activation == [src : Seq(Chars), terminated : BOOLEAN, id : Nat,
               loop : {"text", "line", "block"}, out : Seq(Chars)]
Start(src, terminated) ==
    [src |-> src, terminated |-> terminated, id |-> 1, loop |-> "text", out |-> << >>]

Statuses == {"running", "done", "error", "aborted", "overrun", "freed", "bad free"}

-----------------------------------------------------------------------------
(* The cursor.                                                              *)

Top == stack[Len(stack)]
CharAt(i) == IF i \in 1..Len(Top.src) THEN Top.src[i] ELSE EOF

IsSpace(c) == c \in {"sp", "nl"}

\* skip_whitespace and skip_whitespace_except_newline
Skipped(i, chars, j) ==
    /\ j >= i /\ CharAt(j) \notin chars
    /\ \A k \in i..(j - 1) : CharAt(k) \in chars

\* get_till_delim from i ends before j.
TillDelim(i, delim, j) ==
    /\ j \in i..(Len(Top.src) + 1)
    /\ CharAt(j) \in {delim, EOF}
    /\ \A k \in i..(j - 1) : Top.src[k] # delim

In(loop) == status = "running" /\ Top.loop = loop
Current == CharAt(Top.id)
Next1 == CharAt(Top.id + 1)

Step(a) == stack' = [stack EXCEPT ![Len(stack)] = a] /\ UNCHANGED <<included, pool, result, status, ndebug>>

\* assert(FALSE), and initiate_error, whose longjmp restores nothing.
Stop(reason) == status' = reason /\ UNCHANGED <<stack, included, pool, result, ndebug>>

\* A seeded fault: a pool that grows when nothing asserts that it is not full.
FaultyGot(n) == IF ~ndebug /\ pool + n > MAX_BUFFERS THEN "aborted" ELSE "ok"

\* What bp_get does to the pool, n times.  The buffer is the one before the
\* next free one: the first is buffers[-1], and what a store to it overwrites is
\* not followed.  So without the assertion there is one more than the pool's size.
Got(n) ==
    IF pool + n <= MAX_BUFFERS THEN "ok"
    ELSE IF ~ndebug THEN "aborted" ELSE IF pool + n <= MAX_BUFFERS + 1 THEN "ok" ELSE "overrun"

Init ==
    /\ \E src \in Sources, terminated \in BOOLEAN : stack = <<Start(src, terminated)>>
    /\ included = << >> /\ pool = 1 /\ result = << >> /\ status = "running"
    /\ ndebug \in BOOLEAN

-----------------------------------------------------------------------------
(* Comments.  ch_expect_cursor moves the cursor inside assert, so without   *)
(* assertions the slash that is tested for is the one already read.         *)

\* A seeded fault: the newline of a splice is not skipped with it.
FaultySpliceLength == 1

SpliceLength == IF ndebug THEN 1 ELSE 3

OpensLine == Current = "/" /\ (ndebug \/ Next1 = "/")
OpensBlock == Current = "/" /\ ~ndebug /\ Next1 = "*"

StartLine ==
    /\ In("text") /\ OpensLine
    /\ Step([Top EXCEPT !.loop = "line", !.id = @ + (IF ndebug THEN 1 ELSE 2)])

SkipLine ==
    /\ In("line") /\ Current \notin {"nl", EOF}
    /\ Step([Top EXCEPT !.id = @ + (IF Current = "\\" /\ Next1 = "nl" THEN SpliceLength ELSE 1)])

\* A seeded fault: only a newline ends a line comment.
FaultyEndLine ==
    /\ In("line") /\ Current = "nl"
    /\ Step([Top EXCEPT !.loop = "text", !.out = Append(@, "sp")])

EndLine ==
    /\ In("line") /\ Current \in {"nl", EOF}
    /\ Step([Top EXCEPT !.loop = "text", !.out = Append(@, "sp")])

StartBlock ==
    /\ In("text") /\ OpensBlock
    /\ Step([Top EXCEPT !.loop = "block", !.id = @ + 2])

SkipBlock ==
    /\ In("block") /\ Current # EOF /\ ~(Current = "*" /\ Next1 = "/")
    /\ Step([Top EXCEPT !.id = @ + 1])

EndBlock ==
    /\ In("block") /\ Current = "*" /\ Next1 = "/"
    /\ Step([Top EXCEPT !.loop = "text", !.id = @ + 2, !.out = Append(@, "sp")])

UnclosedBlock == In("block") /\ Current = EOF /\ Stop("error")

\* At the last character peek_next reads the one behind the source.  If that
\* looks like the end of a splice or of a comment, ch_expect_cursor finds that
\* it is not there.
ReadBehind ==
    /\ Top.id = Len(Top.src) /\ ~Top.terminated /\ ~ndebug
    /\ (In("line") /\ Current = "\\") \/ (In("block") /\ Current = "*")
    /\ Stop("aborted")

-----------------------------------------------------------------------------
(* #include.                                                                *)

\* `#`, white space, newlines too, and `include`, which ends before i.
Directive(i) ==
    /\ Current = "#"
    /\ \E j \in (Top.id + 1)..Len(Top.src) :
          Skipped(Top.id + 1, {"sp", "nl"}, j) /\ CharAt(j) = "include" /\ i = j + 1

IsDirective == \E i \in 1..(Len(Top.src) + 1) : Directive(i)

Closing(c) == IF c = "quote" THEN "quote" ELSE ">"

\* The file name of the directive is the text from a to b - 1.
Names(a, b) ==
    /\ CharAt(a - 1) \in {"quote", "<"}
    /\ TillDelim(a, Closing(CharAt(a - 1)), b)
    /\ \E i \in 1..(Len(Top.src) + 1) : Directive(i) /\ Skipped(i, {"sp"}, a - 1)

Places == 1..(Len(Top.src) + 2)
File(a, b) == SubSeq(Top.src, a, b - 1)
Exists(name) == name = << >> \/ (Len(name) = 1 /\ name[1] \in DOMAIN Files)
Path(name) == IF name = << >> THEN Directory ELSE name[1]

AtDirective == In("text") /\ IsDirective

BadDirective ==
    /\ AtDirective
    /\ ~\E a, b \in Places : Names(a, b)
    /\ Stop("error")

\* bp_save asserts that the buffer is the one after the last, which it is not.
NotFound ==
    /\ AtDirective
    /\ \E a, b \in Places : Names(a, b) /\ ~Exists(File(a, b))
    /\ Stop(IF Got(1) # "ok" THEN Got(1) ELSE IF ndebug THEN "error" ELSE "aborted")

\* A seeded fault: only the file that includes is looked at.
FaultyLastIsCyclic(f) == included # << >> /\ included[Len(included)] = f

\* check_cyclic_includes
IsCyclic(f) == \E k \in 1..Len(included) : included[k] = f

CyclicInclude ==
    /\ AtDirective
    /\ \E a, b \in Places :
          /\ Names(a, b) /\ Exists(File(a, b)) /\ IsCyclic(Path(File(a, b)))
          /\ Stop(IF Got(1) # "ok" THEN Got(1) ELSE "error")

\* Without assertions read_file does not call fseek, and reads nothing.
Contents(f) == IF ndebug \/ f = Directory THEN << >> ELSE Files[f]

\* The size that ftell gives for a directory may be nothing that malloc or fread
\* can do with.
ReadDirectory ==
    /\ AtDirective /\ ~ndebug
    /\ \E a \in Places : Names(a, a) /\ ~IsCyclic(Directory)
    /\ Stop("aborted")

\* open_included_file takes one buffer and resolve_pp1 of the child another.
Include ==
    /\ AtDirective
    /\ \E a, b \in Places :
          /\ Names(a, b) /\ Exists(File(a, b)) /\ ~IsCyclic(Path(File(a, b)))
          /\ IF Got(1) # "ok" THEN Stop(Got(1))
             ELSE /\ included' = Append(included, Path(File(a, b)))
                  /\ IF Got(2) # "ok"
                     THEN status' = Got(2) /\ pool' = pool + 1 /\ UNCHANGED stack
                     ELSE /\ pool' = pool + 2
                          /\ stack' = Append([stack EXCEPT ![Len(stack)].id = b],
                                             Start(Contents(Path(File(a, b))), TRUE))
                          /\ UNCHANGED status
                  /\ UNCHANGED <<result, ndebug>>

-----------------------------------------------------------------------------
(* The rest of resolve_pp1.                                                 *)

\* default_body; a backslash never has a newline in its own place.
Plain ==
    /\ In("text") /\ Current # EOF
    /\ ~OpensLine /\ ~OpensBlock /\ ~IsDirective
    /\ Step([Top EXCEPT !.id = @ + 1, !.out = Append(@, Current)])

Finishing == In("text") /\ Current = EOF

\* The text is built, and the assertion of bp_save fails.
FinishAborts ==
    /\ Finishing /\ ~ndebug
    /\ result' = Top.out /\ status' = "aborted"
    /\ UNCHANGED <<stack, included, pool, ndebug>>

\* bp_save without its assertion does not count the buffer as free again.
Finish ==
    /\ Finishing /\ ndebug /\ Len(stack) = 1
    /\ result' = Top.out /\ status' = "done"
    /\ UNCHANGED <<stack, included, pool, ndebug>>

Includer == stack[Len(stack) - 1]

\* kv_pop(included_files)
Left == SubSeq(included, 1, Len(included) - 1)

\* Back in the includer, whose id is at the end of the file name.
ReturnToIncluder ==
    /\ Finishing /\ ndebug /\ Len(stack) > 1
    /\ included' = Left
    /\ LET a == Includer
           at(i) == IF i <= Len(a.src) THEN a.src[i] ELSE EOF
           out == a.out \o Top.out
           front == SubSeq(stack, 1, Len(stack) - 2)
       IN \E j \in (a.id + 1)..(Len(a.src) + 2) :
             /\ at(j) # "sp" /\ \A k \in (a.id + 1)..(j - 1) : at(k) = "sp"
             /\ stack' = Append(front, [a EXCEPT !.id = j + 1, !.out = out])
             /\ status' = IF at(j) \in {"nl", EOF} THEN status ELSE "error"
    /\ UNCHANGED <<pool, result, ndebug>>

\* The client's answer to an error: free_ppctx frees the paths of included_files,
\* which were borrowed.  A path shorter than DS_SSO_CAP is inside its buffer; how
\* long the paths are is left open.
FreeCompiler ==
    /\ status = "error"
    /\ \E freed \in {"freed", "bad free"} :
          (included = << >> => freed = "freed") /\ Stop(freed)

-----------------------------------------------------------------------------
Next ==
    \/ StartLine \/ SkipLine \/ EndLine
    \/ StartBlock \/ SkipBlock \/ EndBlock \/ UnclosedBlock \/ ReadBehind
    \/ BadDirective \/ NotFound \/ CyclicInclude \/ ReadDirectory \/ Include
    \/ Plain \/ FinishAborts \/ Finish \/ ReturnToIncluder \/ FreeCompiler

\* One thread, which runs until it stops.
Spec == Init /\ [][Next]_vars /\ WF_vars(Next)

-----------------------------------------------------------------------------
(* The text outside comments, said as a finite automaton that reads one     *)
(* character at a time: two slashes open a comment that ends before the     *)
(* first newline with no backslash before it, a slash and a star one that   *)
(* ends with the first star and slash behind, and each leaves a space.      *)

Read(s, c) ==
    LET Go(state) == [s EXCEPT !.state = state]
        Keep(text) == [state |-> "text", out |-> text]
    IN CASE s.state = "text"  -> IF c = "/" THEN Go("slash") ELSE Keep(Append(s.out, c))
         [] s.state = "slash" -> IF c = "/" THEN Go("line")
                                 ELSE IF c = "*" THEN Go("block")
                                 ELSE Keep(Append(Append(s.out, "/"), c))
         [] s.state = "line"  -> IF c = "nl" THEN Keep(Append(Append(s.out, "sp"), c))
                                 ELSE IF c = "\\" THEN Go("splice") ELSE s
         [] s.state = "splice" -> IF c = "\\" THEN s ELSE Go("line")
         [] s.state = "block" -> IF c = "*" THEN Go("star") ELSE s
         [] s.state = "star"  -> IF c = "/" THEN Keep(Append(s.out, "sp"))
                                 ELSE IF c = "*" THEN s ELSE Go("block")

\* The states of the automaton: the k-th is the one after k characters.
Reading(src) ==
    LET state[k \in 0..Len(src)] ==
          IF k = 0 THEN [state |-> "text", out |-> << >>] ELSE Read(state[k - 1], src[k])
    IN state

ReadAll(src) == Reading(src)[Len(src)]

\* What is still to be said at the end of the source.
Uncommented(src) ==
    LET s == ReadAll(src) IN
      IF s.state = "slash" THEN Append(s.out, "/")
      ELSE IF s.state \in {"line", "splice"} THEN Append(s.out, "sp") ELSE s.out

HasDirective(src) == \E k \in 1..Len(src) : src[k] = "#"

\* A splice in a line comment, and right behind it another or the comment's end.
SplicesMeet(src) ==
    \E k \in 1..(Len(src) - 1) :
       /\ Reading(src)[k - 1].state = "splice" /\ src[k] = "nl"
       /\ \/ src[k + 1] = "nl"
          \/ src[k + 1] = "\\" /\ k + 2 <= Len(src) /\ src[k + 2] = "nl"

\* At the end, the result is the text outside comments, and there is an error
\* exactly for a block comment left open.
Resolved ==
    LET src == stack[1].src
        open == ReadAll(src).state \in {"block", "star"}
    IN  /\ status \in {"aborted", "done"} => ~open /\ result = Uncommented(src)
        /\ status = "error" => open

-----------------------------------------------------------------------------
(* Properties.                                                              *)

\* Every variable stays in its set.
TypeOK ==
    /\ stack \in Seq(Activation) /\ stack # << >>
    /\ included \in Seq(Paths)
    /\ pool \in 1..(MAX_BUFFERS + 1)
    /\ result \in Seq(Chars) /\ status \in Statuses /\ ndebug \in BOOLEAN

\* included_files, the activations and the buffers stay in step: each open file
\* is the source of one activation and is open once, so that check_cyclic_includes
\* (preprocess_1.c:21-29) cuts every cycle; each activation but the first has a
\* buffer for its text and one for its path.
IncludesAreOpen ==
    /\ \A i, k \in 1..Len(included) : included[i] = included[k] => i = k
    /\ status = "running" =>
          /\ Len(included) = Len(stack) - 1
          /\ \A k \in 1..Len(included) : stack[k + 1].src = Contents(included[k])
          /\ ~ndebug => pool = 2 * Len(stack) - 1

\* "this will only resolve #include and comments" (preprocess_1.h:3-4): resolve_pp1
\* (preprocess_1.c:106-181) keeps exactly the text outside comments,
\* one space for each comment, and reports exactly the block comments left open.
\* That is so in a build with assertions, for a source without directives that
\* ends with a NUL and in which no splice is followed at once by another or by
\* the end of its comment: OnlyCommentsGo is the same without these conditions.
OutputIsUncommented ==
    LET src == stack[1].src
    IN  Resolved \/ ndebug \/ HasDirective(src) \/ ~stack[1].terminated \/ SplicesMeet(src)

\* The same of every source without directives, in both builds: the newline that
\* ends a comment is seen behind a splice too (preprocess_1.c:136-140), a slash by
\* itself opens none (cursor.h:35, preprocess_1.c:133), and nothing hangs on the
\* character behind the source (cursor.c:88).
OnlyCommentsGo == HasDirective(stack[1].src) \/ Resolved

\* Every source is scanned to an end, whatever it includes.
Ends == <>(status # "running")
=============================================================================
