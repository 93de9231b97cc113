--------------------------------- MODULE Map ---------------------------------
(***************************************************************************)
(* What a map promises: a partial function from ids to values, which       *)
(* changes only where a value is set and when it is destroyed.             *)
(***************************************************************************)
CONSTANTS Ids, Values

VARIABLE map

Empty == [id \in {} |-> id]

Init == map = Empty

\* id gets a value, new or instead of its old one.
Set(id) ==
    /\ id \in DOMAIN map' /\ map'[id] \in Values
    /\ map' = [i \in DOMAIN map \cup {id} |-> IF i = id THEN map'[id] ELSE map[i]]

Destroy == map' = Empty

Next == Destroy \/ \E id \in Ids : Set(id)

Spec == Init /\ [][Next]_map
=============================================================================
