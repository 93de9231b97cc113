---------------------------- MODULE NatInduction ----------------------------
(***************************************************************************)
(* Induction over the natural numbers, for sets.                           *)
(***************************************************************************)
EXTENDS Integers, TLAPS, WellFoundedInduction

Below == {p \in Nat \X Nat : p[1] < p[2]}

LEMMA BelowIsWellFounded == IsWellFoundedOn(Below, Nat)
BY NatLessThanWellFounded, Zenon DEF OpToRel, Below

LEMMA Least ==
    ASSUME NEW S \in SUBSET Nat, S # {}
    PROVE  \E m \in S : \A n \in S : m <= n
<1>1. \E m \in S : \A n \in S : <<n, m>> \notin Below
  BY BelowIsWellFounded, WFMin
<1>2. \A m, n \in S : <<n, m>> \notin Below => ~(n < m)
  BY DEF Below
<1>3. \A m, n \in S : ~(n < m) => m <= n
  OBVIOUS
<1> QED
  BY <1>1, <1>2, <1>3

LEMMA Induction ==
    ASSUME NEW S, 0 \in S, \A n \in Nat : n \in S => n + 1 \in S
    PROVE  Nat \subseteq S
<1> SUFFICES ASSUME Nat \ S # {} PROVE FALSE
  OBVIOUS
<1>1. PICK m \in Nat \ S : \A n \in Nat \ S : m <= n
  BY Least
<1>2. m # 0 /\ m \in Nat /\ m - 1 \in Nat /\ m - 1 \in S
  BY <1>1
<1> QED
  BY <1>1, <1>2
=============================================================================
