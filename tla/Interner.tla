------------------------------ MODULE Interner ------------------------------
(***************************************************************************)
(* What an intern table promises: each string has one id, ids are handed   *)
(* out from 0 without gaps, and an id once handed out is never changed.    *)
(***************************************************************************)
EXTENDS Naturals

CONSTANT Strings

VARIABLES
    ids,    \* pairs of a string and its id
    len     \* the next id

vars == <<ids, len>>

Init == ids = {} /\ len = 0

Known(s) == \E id \in 0..(len - 1) : <<s, id>> \in ids

Enter(s) ==
    /\ ~Known(s)
    /\ ids' = ids \cup {<<s, len>>}
    /\ len' = len + 1

Next == \E s \in Strings : Enter(s)

Spec == Init /\ [][Next]_vars
=============================================================================
