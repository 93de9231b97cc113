------------------------------- MODULE Region -------------------------------
(***************************************************************************)
(* What an arena promises its clients: an allocation shares memory with    *)
(* nothing that is live, and going back to a mark releases what was        *)
(* allocated since and nothing else.  Marks are used like a stack.         *)
(*                                                                         *)
(* An object is a stretch [from, to) of chunk number `chunk`, or, in chunk *)
(* 0, a block of its own from malloc.                                      *)
(***************************************************************************)
EXTENDS Naturals, Sequences

VARIABLES
    live,    \* the objects that clients may still use
    saved    \* for each mark that is still to be used, the objects live then

vars == <<live, saved>>

Object == [id : Nat, chunk : Nat, from : Nat, to : Nat]

Overlap(o, p) ==
    /\ o.chunk = p.chunk
    /\ IF o.chunk = 0 THEN o.id = p.id ELSE o.from < p.to /\ p.from < o.to

Init == live = {} /\ saved = << >>

Alloc ==
    /\ \E o \in live' :
          /\ o \in Object
          /\ \A p \in live : o.id # p.id /\ ~Overlap(o, p)
          /\ live' = live \cup {o}
    /\ UNCHANGED saved

Mark == saved' = Append(saved, live) /\ UNCHANGED live

Front == SubSeq(saved, 1, Len(saved) - 1)

Release ==
    /\ saved # << >>
    /\ live' = saved[Len(saved)]
    /\ saved' = Front

Keep == saved # << >> /\ saved' = Front /\ UNCHANGED live

Clear == live' = {} /\ saved' = << >>

Next == Alloc \/ Mark \/ Release \/ Keep \/ Clear

Spec == Init /\ [][Next]_vars
=============================================================================
