-------------------------- MODULE Lifecycle_proofs --------------------------
(***************************************************************************)
(* Theorems about Lifecycle, for any number of calls, with errors anywhere *)
(* in them, for every set of files and ids, with assertions and without.   *)
(***************************************************************************)
EXTENDS Lifecycle, NatInduction, TLAPS, FiniteSetTheorems, SequenceTheorems

-----------------------------------------------------------------------------
(* Lemmas about InternMap: what setting, looking up and destroying do to   *)
(* what look-ups see, however the vector and the bits grow.  First, there  *)
(* is always a capacity that is enough.                                     *)

\* Twice a power of 2 is one: an odd divisor of 2 * p divides p.
LEMMA TwicePower ==
    ASSUME NEW p \in Nat, IsPowerOf2(p)
    PROVE  IsPowerOf2(2 * p)
<1>1. p > 0 /\ 2 * p > 0
  BY DEF IsPowerOf2
<1> SUFFICES ASSUME NEW d \in 2..(2 * p), (2 * p) % d = 0, d % 2 # 0
             PROVE  FALSE
  BY <1>1 DEF IsPowerOf2
<1>2. PICK q \in Int : 2 * p = d * q
  BY <1>1
<1>3. PICK e \in Int : d = 2 * e + 1
  OBVIOUS
<1>4. PICK r \in Int : q = 2 * r \/ q = 2 * r + 1
  <2>1. q = 2 * (q \div 2) \/ q = 2 * (q \div 2) + 1
    OBVIOUS
  <2> QED
    BY <2>1
<1>5. q # 2 * r + 1
  <2> SUFFICES ASSUME q = 2 * r + 1 PROVE FALSE
    OBVIOUS
  <2>1. d * q = 2 * (d * r) + d
    BY <1>3
  <2>2. d * r \in Int
    BY <1>3
  <2> DEFINE x == d * r
  <2> HIDE DEF x
  <2>3. x \in Int /\ 2 * p = 2 * x + 2 * e + 1
    BY <2>1, <2>2, <1>2, <1>3 DEF x
  <2> QED
    BY <2>3
<1>6. p = d * r
  BY <1>2, <1>4, <1>5
<1>7. r >= 1
  BY <1>6, <1>1
<1>8. d <= p
  BY <1>6, <1>7, <1>1
<1>9. p % d = 0
  <2> DEFINE t == p \div d
  <2> DEFINE m == p % d
  <2>1. t \in Int /\ m \in 0..(d - 1) /\ p = d * t + m
    OBVIOUS
  <2> HIDE DEF t, m
  <2>2. d * r = d * t + m
    BY <2>1, <1>6
  <2>3. m = d * (r - t)
    BY <2>1, <2>2
  <2>4. ~(r - t >= 1)
    <3> SUFFICES ASSUME r - t >= 1 PROVE FALSE
      OBVIOUS
    <3>1. d * (r - t) >= d
      BY <2>1
    <3> QED
      BY <3>1, <2>1, <2>3
  <2>5. ~(r - t <= -1)
    <3> SUFFICES ASSUME r - t <= -1 PROVE FALSE
      OBVIOUS
    <3>1. d * (r - t) <= -d
      BY <2>1
    <3> QED
      BY <3>1, <2>1, <2>3
  <2>6. r - t = 0
    BY <2>1, <2>4, <2>5
  <2>7. m = 0
    BY <2>1, <2>3, <2>6
  <2> QED
    BY <2>7 DEF m
<1> QED
  BY <1>8, <1>9 DEF IsPowerOf2

LEMMA OneIsPower == IsPowerOf2(1)
BY DEF IsPowerOf2

LEMMA RoundupIsEnough ==
    ASSUME NEW x \in Nat, x > 0
    PROVE  Roundup(x) \in Nat /\ x <= Roundup(x)
<1> DEFINE Good(y) == \E p \in y..(2 * y) : IsPowerOf2(p) /\ p < 2 * y
<1> DEFINE S == {n \in Nat : Good(n + 1)}
<1>1. 0 \in S
  BY OneIsPower
<1>2. ASSUME NEW n \in Nat, n \in S PROVE n + 1 \in S
  <2>1. PICK p \in (n + 1)..(2 * (n + 1)) : IsPowerOf2(p) /\ p < 2 * (n + 1)
    BY <1>2
  <2>2. CASE p >= n + 2
    BY <2>1, <2>2
  <2>3. CASE p = n + 1
    <3>1. IsPowerOf2(2 * p)
      BY <2>1, TwicePower
    <3>2. 2 * p \in (n + 2)..(2 * (n + 2)) /\ 2 * p < 2 * (n + 2)
      BY <2>3
    <3> QED
      BY <3>1, <3>2
  <2> QED
    BY <2>1, <2>2, <2>3
<1>3. Nat \subseteq S
  <2> HIDE DEF S
  <2> QED
    BY <1>1, <1>2, Induction
<1>4. x - 1 \in S
  BY <1>3
<1>5. Good(x)
  BY <1>4
<1> QED
  BY <1>5 DEF Roundup

LEMMA DoubledIsEnough ==
    ASSUME NEW i \in Nat, num_bits \in Nat, num_bits > 0
    PROVE  Doubled(i) \in Nat /\ num_bits <= Doubled(i) /\ i < Doubled(i)
<1> DEFINE Good(k, p) == IsPowerOf2(p) /\ k < num_bits * p /\ (p = 1 \/ num_bits * p <= 2 * k)
<1> DEFINE S == {k \in Nat : \E p \in Nat : Good(k, p)}
<1>1. 0 \in S
  BY OneIsPower
<1>2. ASSUME NEW n \in Nat, n \in S PROVE n + 1 \in S
  <2>1. PICK p \in Nat : Good(n, p)
    BY <1>2
  <2> DEFINE s == num_bits * p
  <2>2. s \in Nat /\ num_bits * (2 * p) = 2 * s
    OBVIOUS
  <2>3. CASE s > n + 1
    <3>1. Good(n + 1, p)
      BY <2>1, <2>2, <2>3
    <3> QED
      BY <3>1
  <2>4. CASE s = n + 1
    <3>1. IsPowerOf2(2 * p)
      BY <2>1, TwicePower
    <3>2. Good(n + 1, 2 * p)
      BY <3>1, <2>2, <2>4
    <3> QED
      BY <3>2
  <2> QED
    BY <2>1, <2>2, <2>3, <2>4
<1>3. Nat \subseteq S
  <2> HIDE DEF S
  <2> QED
    BY <1>1, <1>2, Induction
<1>4. PICK p \in Nat : Good(i, p)
  BY <1>3
<1>5. p >= 1 /\ num_bits <= num_bits * p /\ p <= num_bits * p /\ num_bits * p \in Nat
  BY <1>4 DEF IsPowerOf2
<1>6. p \in 1..(2 * i + 1) /\ num_bits * p \in num_bits..(2 * (num_bits + i))
  BY <1>4, <1>5
<1>7. \E s \in num_bits..(2 * (num_bits + i)) :
         \E r \in 1..(2 * i + 1) :
            IsPowerOf2(r) /\ s = num_bits * r /\ i < s /\ (r = 1 \/ s <= 2 * i)
  BY <1>4, <1>6
<1> QED
  BY <1>7 DEF Doubled

-----------------------------------------------------------------------------
(* What the operations do.                                                  *)

\* The map keeps its shape.
MapInv(Values) ==
    /\ InternMapTypeOK(Values)
    /\ num_bits \in Nat
    /\ data.m \in Nat /\ data = [n |-> data.n, m |-> data.m, a |-> data.a]

LEMMA MapFacts ==
    ASSUME NEW Values, MapInv(Values)
    PROVE  /\ data.n \in Nat /\ data.m \in Nat /\ data.n <= data.m
           /\ data.a \in [0..(data.m - 1) -> Values \cup {Uninit}]
           /\ num_bits \in Nat /\ bitset \in [0..(num_bits - 1) -> {0, 1}]
           /\ \A j : Has(j) => /\ j \in Nat /\ j < num_bits /\ j < data.n
                               /\ Get(j) = data.a[j] /\ Get(j) \in Values
<1>1. /\ data.n \in Nat /\ data.m \in Nat /\ data.n <= data.m
      /\ data.a \in [0..(data.m - 1) -> Values \cup {Uninit}]
      /\ num_bits \in Nat /\ bitset \in [0..(num_bits - 1) -> {0, 1}]
  BY DEF MapInv, InternMapTypeOK
<1>2. ASSUME NEW j, Has(j)
      PROVE  /\ j \in Nat /\ j < num_bits /\ j < data.n
             /\ Get(j) = data.a[j] /\ Get(j) \in Values
  <2>1. j \in 0..(num_bits - 1)
    BY <1>1, <1>2 DEF Has
  <2>2. j < data.n /\ data.a[j] \in Values
    BY <2>1, <1>2 DEF MapInv, InternMapTypeOK
  <2> QED
    BY <2>1, <2>2, <1>1 DEF Get
<1> QED
  BY <1>1, <1>2

LEMMA NewBits ==
    ASSUME NEW D \in Nat, bitset' \in [0..(D - 1) -> {0, 1}]
    PROVE  num_bits' = D
<1>1. DOMAIN bitset' = 0..(D - 1)
  OBVIOUS
<1>2. Cardinality(0..(D - 1)) = D
  BY FS_Interval
<1> QED
  BY <1>1, <1>2 DEF num_bits

\* The bits that WithBit(i) adds are not set.
LEMMA GrownBits ==
    ASSUME NEW Values, MapInv(Values), num_bits > 0, NEW i \in Nat
    PROVE  /\ Doubled(i) \in Nat /\ num_bits <= Doubled(i) /\ i < Doubled(i)
           /\ WithBit(i) \in [0..(Doubled(i) - 1) -> {0, 1}]
           /\ \A j : (j \in DOMAIN WithBit(i) /\ WithBit(i)[j] = 1) <=> Has(j)
<1>1. num_bits \in Nat /\ bitset \in [0..(num_bits - 1) -> {0, 1}]
  BY MapFacts
<1>2. Doubled(i) \in Nat /\ num_bits <= Doubled(i) /\ i < Doubled(i)
  BY <1>1, DoubledIsEnough
<1> DEFINE D == Doubled(i)
<1> DEFINE n == num_bits
<1>3. WithBit(i) = [j \in 0..(D - 1) |-> IF j < n THEN bitset[j] ELSE 0]
  BY DEF WithBit
<1>4. \A j : Has(j) <=> j \in 0..(n - 1) /\ bitset[j] = 1
  BY <1>1 DEF Has
<1>5. D \in Nat /\ n \in Nat /\ n <= D /\ bitset \in [0..(n - 1) -> {0, 1}]
  BY <1>1, <1>2
<1> HIDE DEF D, n
<1>6. WithBit(i) \in [0..(D - 1) -> {0, 1}]
  BY <1>3, <1>5
<1>7. ASSUME NEW j PROVE (j \in DOMAIN WithBit(i) /\ WithBit(i)[j] = 1) <=> Has(j)
  <2>1. CASE j \in 0..(n - 1)
    BY <2>1, <1>3, <1>4, <1>5
  <2>2. CASE j \notin 0..(n - 1)
    BY <2>2, <1>3, <1>4, <1>5
  <2> QED
    BY <2>1, <2>2
<1> QED
  BY <1>2, <1>6, <1>7 DEF D

\* A look-up changes nothing that look-ups see.
LEMMA LookUp ==
    ASSUME NEW Values, MapInv(Values), num_bits > 0, NEW i \in Nat,
           bitset' = WithBit(i), data' = data
    PROVE  /\ MapInv(Values)' /\ num_bits' > 0
           /\ \A j : (Has(j)' <=> Has(j)) /\ Get(j)' = Get(j)
<1>1. /\ Doubled(i) \in Nat /\ num_bits <= Doubled(i) /\ num_bits \in Nat
      /\ bitset' \in [0..(Doubled(i) - 1) -> {0, 1}]
  BY GrownBits, MapFacts
<1>2. num_bits' = Doubled(i)
  BY <1>1, NewBits
<1>3. \A j : Has(j)' <=> Has(j)
  BY GrownBits DEF Has
<1>4. \A j : Get(j)' = Get(j)
  BY DEF Get
<1>5. InternMapTypeOK(Values)'
  <2>1. data'.n \in 0..data'.m /\ data'.a \in [0..(data'.m - 1) -> Values \cup {Uninit}]
    BY MapFacts
  <2>2. \A j : Has(j)' => j < data'.n /\ data'.a[j] \in Values
    BY <1>3, MapFacts
  <2> QED
    BY <1>1, <1>2, <2>1, <2>2 DEF InternMapTypeOK
<1> QED
  BY <1>1, <1>2, <1>3, <1>4, <1>5 DEF MapInv

LEMMA RoomForFacts ==
    ASSUME NEW Values, MapInv(Values), NEW i \in Nat
    PROVE  LET v == RoomFor(data, i) IN
           /\ v = [n |-> v.n, m |-> v.m, a |-> v.a]
           /\ v.n \in Nat /\ v.m \in Nat /\ v.n <= v.m /\ i < v.n /\ data.n <= v.n
           /\ v.a \in [0..(v.m - 1) -> Values \cup {Uninit}]
           /\ \A j \in Nat : j < data.n => v.a[j] = data.a[j]
<1>1. /\ data.n \in Nat /\ data.m \in Nat /\ data.n <= data.m
      /\ data.a \in [0..(data.m - 1) -> Values \cup {Uninit}]
      /\ data = [n |-> data.n, m |-> data.m, a |-> data.a]
  BY MapFacts DEF MapInv
<1> DEFINE v == RoomFor(data, i)
<1>2. CASE data.m <= i
  <2> DEFINE R == Roundup(i + 1)
  <2>1. R \in Nat /\ i + 1 <= R
    BY RoundupIsEnough
  <2>2. v = [n |-> i + 1, m |-> R,
             a |-> [j \in 0..(R - 1) |-> IF j < data.m THEN data.a[j] ELSE Uninit]]
    BY <1>2 DEF RoomFor
  <2>3. v.n = i + 1 /\ v.m = R
        /\ v.a = [j \in 0..(R - 1) |-> IF j < data.m THEN data.a[j] ELSE Uninit]
    BY <2>2
  <2>4. v = [n |-> v.n, m |-> v.m, a |-> v.a]
    BY <2>2, <2>3
  <2> HIDE DEF R, v
  <2>5. v.a \in [0..(R - 1) -> Values \cup {Uninit}]
    BY <1>1, <2>1, <2>3
  <2>6. \A j \in Nat : j < data.n => v.a[j] = data.a[j]
    BY <1>1, <1>2, <2>1, <2>3
  <2>7. v.n \in Nat /\ v.m \in Nat /\ v.n <= v.m /\ i < v.n /\ data.n <= v.n
    BY <1>1, <1>2, <2>1, <2>3
  <2> QED
    BY <2>3, <2>4, <2>5, <2>6, <2>7 DEF v
<1>3. CASE ~(data.m <= i) /\ data.n <= i
  <2>1. v = [data EXCEPT !.n = i + 1]
    BY <1>3 DEF RoomFor
  <2>2. v.n = i + 1 /\ v.m = data.m /\ v.a = data.a /\ v = [n |-> v.n, m |-> v.m, a |-> v.a]
    BY <2>1, <1>1
  <2> HIDE DEF v
  <2> QED
    BY <2>2, <1>1, <1>3 DEF v
<1>4. CASE ~(data.m <= i) /\ ~(data.n <= i)
  <2>1. v = data
    BY <1>4 DEF RoomFor
  <2> HIDE DEF v
  <2> QED
    BY <2>1, <1>1, <1>4 DEF v
<1> QED
  BY <1>2, <1>3, <1>4, <1>1

\* Setting a value changes only what is seen of its id.
LEMMA SetValue ==
    ASSUME NEW Values, MapInv(Values), num_bits > 0, NEW i \in Nat, NEW val \in Values,
           imap_set(val, i)
    PROVE  /\ MapInv(Values)' /\ num_bits' > 0
           /\ \A j : Has(j)' <=> Has(j) \/ j = i
           /\ Get(i)' = val
           /\ \A j : Has(j) /\ j # i => Get(j)' = Get(j)
<1> DEFINE v == RoomFor(data, i)
<1> DEFINE D == Doubled(i)
<1> DEFINE B == WithBit(i)
<1>1. /\ v = [n |-> v.n, m |-> v.m, a |-> v.a]
      /\ v.n \in Nat /\ v.m \in Nat /\ v.n <= v.m /\ i < v.n /\ data.n <= v.n
      /\ v.a \in [0..(v.m - 1) -> Values \cup {Uninit}]
      /\ \A j \in Nat : j < data.n => v.a[j] = data.a[j]
  BY RoomForFacts
<1>2. /\ D \in Nat /\ num_bits <= D /\ i < D /\ B \in [0..(D - 1) -> {0, 1}]
      /\ \A j : (j \in DOMAIN B /\ B[j] = 1) <=> Has(j)
      /\ num_bits \in Nat
  BY GrownBits, MapFacts
<1>3. data' = [v EXCEPT !.a[i] = val] /\ bitset' = [B EXCEPT ![i] = 1]
  BY DEF imap_set
<1>4. data.n \in Nat
      /\ \A j : Has(j) => j \in Nat /\ j < data.n /\ Get(j) = data.a[j] /\ Get(j) \in Values
  BY MapFacts
<1> HIDE DEF v, D, B
<1>5. bitset' \in [0..(D - 1) -> {0, 1}]
  BY <1>2, <1>3
<1>6. num_bits' = D
  BY <1>5, <1>2, NewBits
<1>7. \A j : Has(j)' <=> Has(j) \/ j = i
  <2>1. DOMAIN bitset' = DOMAIN B /\ i \in DOMAIN B
    BY <1>2, <1>3
  <2>2. bitset'[i] = 1 /\ \A j \in DOMAIN B : j # i => bitset'[j] = B[j]
    BY <1>2, <1>3
  <2> QED
    BY <1>2, <2>1, <2>2 DEF Has
<1>8. data'.n = v.n /\ data'.m = v.m /\ data'.a = [v.a EXCEPT ![i] = val]
      /\ data' = [n |-> data'.n, m |-> data'.m, a |-> data'.a]
  BY <1>1, <1>3
<1>9. data'.a \in [0..(v.m - 1) -> Values \cup {Uninit}]
  BY <1>1, <1>8
<1>10. data'.a[i] = val /\ \A j \in Nat : j < data.n /\ j # i => data'.a[j] = data.a[j]
  BY <1>1, <1>8
<1>11. Get(i)' = val
  BY <1>1, <1>8, <1>10 DEF Get
<1>12. \A j : Has(j) /\ j # i => Get(j)' = Get(j)
  <2> SUFFICES ASSUME NEW j, Has(j), j # i PROVE Get(j)' = Get(j)
    OBVIOUS
  <2>1. j \in Nat /\ j < data.n /\ Get(j) = data.a[j] /\ j < data'.n
    BY <1>1, <1>4, <1>8
  <2>2. Get(j)' = data'.a[j]
    BY <2>1 DEF Get
  <2> QED
    BY <2>1, <2>2, <1>10
<1>13. \A j : Has(j)' => j < data'.n /\ data'.a[j] \in Values
  <2> SUFFICES ASSUME NEW j, Has(j)' PROVE j < data'.n /\ data'.a[j] \in Values
    OBVIOUS
  <2>1. CASE j = i
    BY <2>1, <1>1, <1>8, <1>10
  <2>2. CASE j # i
    <3>1. Has(j)
      BY <2>2, <1>7
    <3>2. j \in Nat /\ j < data.n /\ data.n \in Nat /\ data.a[j] \in Values
      BY <3>1, <1>4
    <3>3. data'.a[j] \in Values
      BY <3>2, <2>2, <1>10
    <3>4. j < data'.n
      BY <3>2, <1>1, <1>8
    <3> QED
      BY <3>3, <3>4
  <2> QED
    BY <2>1, <2>2
<1>14. InternMapTypeOK(Values)'
  BY <1>1, <1>5, <1>6, <1>8, <1>9, <1>13 DEF InternMapTypeOK
<1> QED
  BY <1>1, <1>2, <1>6, <1>7, <1>8, <1>11, <1>12, <1>14 DEF MapInv

\* The map is empty at first and when it has been destroyed.
LEMMA EmptyMap ==
    ASSUME NEW Values, imap_init
    PROVE  MapInv(Values) /\ num_bits > 0 /\ \A j : ~Has(j)
<1>1. NUM_BITS \in Nat \ {0}
  BY InternMapAssumption
<1>2. bitset \in [0..(NUM_BITS - 1) -> {0, 1}] /\ \A j \in DOMAIN bitset : bitset[j] = 0
  BY <1>1 DEF imap_init
<1>3. num_bits = NUM_BITS
  BY <1>1, <1>2, FS_Interval DEF num_bits
<1>4. \A j : ~Has(j)
  BY <1>2 DEF Has
<1>5. data.n = 0 /\ data.m = 0 /\ data.a \in [0..(0 - 1) -> Values \cup {Uninit}]
      /\ data = [n |-> data.n, m |-> data.m, a |-> data.a]
  BY DEF imap_init
<1> QED
  BY <1>1, <1>2, <1>3, <1>4, <1>5 DEF MapInv, InternMapTypeOK

LEMMA DestroyedMap ==
    ASSUME NEW Values, imap_destroy
    PROVE  MapInv(Values)' /\ \A j : ~Has(j)'
<1>1. bitset' \in [0..(0 - 1) -> {0, 1}] /\ DOMAIN bitset' = {}
  BY DEF imap_destroy
<1>2. num_bits' = 0
  BY <1>1, NewBits
<1>3. \A j : ~Has(j)'
  BY <1>1 DEF Has
<1>4. data'.n = 0 /\ data'.m = 0 /\ data'.a \in [0..(0 - 1) -> Values \cup {Uninit}]
      /\ data' = [n |-> data'.n, m |-> data'.m, a |-> data'.a]
  BY DEF imap_destroy
<1> QED
  BY <1>1, <1>2, <1>3, <1>4 DEF MapInv, InternMapTypeOK

\* What imap_destroy passes to its destructor is what can be seen.
LEMMA DestroyedAre ==
    ASSUME NEW Values, MapInv(Values)
    PROVE  \A d : d \in Destroyed <=> \E j : Has(j) /\ d = Get(j)
<1>1. data.n \in Nat
      /\ \A j : Has(j) => j \in Nat /\ j < data.n /\ Get(j) = data.a[j]
  BY MapFacts
<1> SUFFICES ASSUME NEW d PROVE d \in Destroyed <=> \E j : Has(j) /\ d = Get(j)
  OBVIOUS
<1>2. ASSUME d \in Destroyed PROVE \E j : Has(j) /\ d = Get(j)
  BY <1>1, <1>2 DEF Destroyed
<1>3. ASSUME NEW j, Has(j), d = Get(j) PROVE d \in Destroyed
  <2>1. j \in {k \in 0..(data.n - 1) : Has(k)} /\ d = data.a[j]
    BY <1>1, <1>3
  <2> QED
    BY <2>1 DEF Destroyed
<1> QED
  BY <1>2, <1>3

-----------------------------------------------------------------------------
(* The same, said of the function that look-ups see.                        *)

LEMMA AbstractionIs ==
    /\ \A j : j \in DOMAIN Abstraction <=> Has(j)
    /\ \A j \in DOMAIN Abstraction : Abstraction[j] = Get(j)
<1>1. DOMAIN Abstraction = {j \in DOMAIN bitset : Has(j)}
  BY DEF Abstraction
<1>2. \A j : j \in DOMAIN Abstraction <=> Has(j)
  BY <1>1 DEF Has
<1> QED
  BY <1>1, <1>2 DEF Abstraction

LEMMA AbstractionIsNext ==
    /\ \A j : j \in DOMAIN Abstraction' <=> Has(j)'
    /\ \A j \in DOMAIN Abstraction' : Abstraction'[j] = Get(j)'
<1>1. DOMAIN Abstraction' = {j \in DOMAIN bitset' : Has(j)'}
  BY DEF Abstraction
<1>2. \A j : j \in DOMAIN Abstraction' <=> Has(j)'
  BY <1>1 DEF Has
<1> QED
  BY <1>1, <1>2 DEF Abstraction

LEMMA AbstractionType ==
    Abstraction = [j \in DOMAIN Abstraction |-> Abstraction[j]]
    /\ Abstraction' = [j \in DOMAIN Abstraction' |-> Abstraction'[j]]
BY DEF Abstraction

LEMMA AbstractLookUp ==
    ASSUME NEW Values, MapInv(Values), num_bits > 0, NEW i \in Nat,
           bitset' = WithBit(i), data' = data
    PROVE  Abstraction' = Abstraction
<1>1. DOMAIN Abstraction' = DOMAIN Abstraction
  BY LookUp, AbstractionIs, AbstractionIsNext
<1>2. \A j \in DOMAIN Abstraction : Abstraction'[j] = Abstraction[j]
  BY <1>1, LookUp, AbstractionIs, AbstractionIsNext
<1> QED
  BY <1>1, <1>2, AbstractionType

\* The map m where i has the value val.
With(m, i, val) == [j \in DOMAIN m \cup {i} |-> IF j = i THEN val ELSE m[j]]

LEMMA AbstractSet ==
    ASSUME NEW Values, MapInv(Values), num_bits > 0, NEW i \in Nat, NEW val \in Values,
           imap_set(val, i)
    PROVE  Abstraction' = With(Abstraction, i, val)
<1>1. DOMAIN Abstraction' = DOMAIN Abstraction \cup {i}
  BY SetValue, AbstractionIs, AbstractionIsNext
<1>2. Abstraction'[i] = val
  BY <1>1, SetValue, AbstractionIs, AbstractionIsNext
<1>3. \A j \in DOMAIN Abstraction : j # i => Abstraction'[j] = Abstraction[j]
  BY <1>1, SetValue, AbstractionIs, AbstractionIsNext
<1> QED
  BY <1>1, <1>2, <1>3, AbstractionType DEF With

LEMMA AbstractEmpty ==
    ASSUME \A j : ~Has(j)
    PROVE  DOMAIN Abstraction = {}
BY AbstractionIs

LEMMA AbstractDestroy ==
    ASSUME imap_destroy
    PROVE  DOMAIN Abstraction' = {}
BY DestroyedMap, AbstractionIsNext

-----------------------------------------------------------------------------
(* From here on the variables that Lifecycle groups are named one by one.   *)

USE DEF memory, opt, defs, strings

-----------------------------------------------------------------------------
(* The inductive invariant.                                                 *)

KeptState == [included : Seq(Path), stack : Seq(Ids), sources : Nat, def : MacroDef]

History == [start : KeptState, returned : BOOLEAN, lost : SUBSET Nat, inside : BOOLEAN,
            texts : SUBSET Nat, redone : SUBSET Nat]

\* What TypeOK leaves open: the history, and that only ids are keys of the map.
ShapeInv ==
    /\ MapInv(MacroDef) /\ history \in History
    /\ phase # "freed" => num_bits > 0
    /\ \A j : Has(j) => j \in Ids

\* Files are only inside each other in the first stage, and activations only run in
\* the second; paths are left over only by an error inside a file.
StageInv ==
    /\ phase \in {"idle", "pp2", "bad free", "freed"} => depth = 0
    /\ phase = "pp2" <=> streams # << >>
    /\ phase = "pp1" => depth < Len(source_stack)
    /\ phase \in {"idle", "pp1", "pp2", "bad free"} /\ ~history.inside => Len(included_files) = depth

\* Results share no memory, and the paths' memory is that of buffers.
SharingInv ==
    /\ \A r, s \in results : r.obj = s.obj /\ r.obj # 0 => r = s
    /\ \A k \in 1..Len(included_files) : included_files[k].mem \in pooled \cup {0}

\* A pointer into a source, of the client, a macro or a running activation.
IsView(v) ==
    \/ \E r \in results : v \in r.views
    \/ \E i \in DOMAIN Abstraction : v \in Abstraction[i].views
    \/ \E k \in 1..Len(streams) : v \in streams[k].views \cup streams[k].from

\* Only texts of the first stage are pointed into; they stay on the stack of sources
\* below those of the files that are being included.
ViewsInv ==
    /\ history.texts \subseteq 1..fresh
    /\ phase = "pp1" => \A k \in (Len(source_stack) - depth + 1)..Len(source_stack) :
                           source_stack[k] \notin history.texts
    /\ phase # "freed" =>
          \A v : IsView(v) => /\ v \in history.texts
                              /\ \/ v \in history.redone
                                 \/ \E k \in 1..Len(source_stack) : source_stack[k] = v

\* t begins with s.
Begins(s, t) == Len(s) <= Len(t) /\ \A k \in 1..Len(s) : t[k] = s[k]

\* What a call has added to what it found.
CallInv ==
    phase \in {"pp1", "pp2"} =>
       /\ ~history.returned
       /\ Begins(history.start.included, included_files)
       /\ Len(included_files) = Len(history.start.included) + depth
       /\ Begins(history.start.stack, macro_stack)
       /\ Len(macro_stack) = Len(history.start.stack)
                             + (IF phase = "pp2" THEN Len(streams) - 1 ELSE 0)
       /\ Len(source_stack) = history.start.sources + depth
       /\ bufdef = history.start.def \/ bufdef = NoDef

-----------------------------------------------------------------------------
(* Types.                                                                   *)

LEMMA StateType ==
    ASSUME TypeOK
    PROVE  /\ ndebug \in BOOLEAN /\ MaxObjects \in Nat /\ Ids \subseteq Nat
           /\ fresh \in Nat /\ fresh \in 0..MaxObjects
           /\ \A o \in heap : o \in Nat /\ 1 <= o /\ o <= fresh
           /\ include_dirs \in Seq(Objects) /\ source_stack \in Seq(Objects)
           /\ included_files \in Seq(Path) /\ macro_stack \in Seq(Ids)
           /\ bufdef \in MacroDef /\ max_used \in Nat /\ max_used \in 0..(MAX_BUFFERS + 1)
           /\ pooled \subseteq Objects /\ depth \in Nat /\ streams \in Seq(Stream)
           /\ \A r \in results : r.obj \in OrNull(Objects) /\ r.views \subseteq Objects
<1>1. MaxObjects \in Nat /\ Ids \subseteq Nat
  BY LifecycleAssumption, InternMapAssumption
<1>2. fresh \in Nat /\ fresh \in 0..MaxObjects
  <2>1. fresh \in 0..MaxObjects
    BY DEF TypeOK
  <2> QED
    BY <2>1, <1>1
<1>3. \A o \in heap : o \in Nat /\ 1 <= o /\ o <= fresh
  <2>1. heap \subseteq 1..fresh
    BY DEF TypeOK
  <2> QED
    BY <2>1, <1>2
<1>4. /\ include_dirs \in Seq(Objects) /\ source_stack \in Seq(Objects)
      /\ included_files \in Seq(Path) /\ macro_stack \in Seq(Ids)
      /\ bufdef \in MacroDef /\ pooled \subseteq Objects /\ depth \in Nat
      /\ streams \in Seq(Stream) /\ ndebug \in BOOLEAN
  BY DEF TypeOK
<1>5. max_used \in Nat /\ max_used \in 0..(MAX_BUFFERS + 1)
  <2>1. max_used \in 0..(MAX_BUFFERS + 1)
    BY DEF TypeOK
  <2> QED
    BY <2>1 DEF MAX_BUFFERS
<1>6. \A r \in results : r.obj \in OrNull(Objects) /\ r.views \subseteq Objects
  <2>1. results \subseteq [obj : OrNull(Objects), views : SUBSET Objects]
    BY DEF TypeOK
  <2> QED
    BY <2>1
<1> QED
  BY <1>1, <1>2, <1>3, <1>4, <1>5, <1>6

LEMMA NoDefType == NoDef \in MacroDef
BY DEF NoDef, MacroDef, OrNull

LEMMA Lengths ==
    ASSUME TypeOK
    PROVE  /\ Len(include_dirs) \in Nat /\ Len(source_stack) \in Nat /\ Len(included_files) \in Nat
           /\ Len(macro_stack) \in Nat /\ Len(streams) \in Nat
BY StateType

LEMMA HistoryType ==
    ASSUME ShapeInv
    PROVE  /\ history.start \in KeptState /\ history.returned \in BOOLEAN
           /\ history.lost \subseteq Nat /\ history.inside \in BOOLEAN
           /\ history.texts \subseteq Nat /\ history.redone \subseteq Nat
BY DEF ShapeInv, History

LEMMA KeptTypes ==
    ASSUME TypeOK
    PROVE  Kept \in KeptState /\ NothingKept \in KeptState
<1>1. Kept \in KeptState
  BY StateType, Lengths DEF Kept, KeptState
<1>2. NothingKept \in KeptState
  BY NoDefType, EmptySeq DEF NothingKept, KeptState
<1> QED
  BY <1>1, <1>2

\* The objects that are allocated are those from fresh + 1 on.
LEMMA AllocateFacts ==
    ASSUME TypeOK, NEW new, NEW old, Allocate(new, old)
    PROVE  /\ fresh' \in 0..MaxObjects /\ fresh <= fresh'
           /\ \A o \in new : o \in Objects /\ o \in Nat /\ fresh < o /\ o <= fresh'
           /\ heap' = (heap \cup new) \ old /\ heap' \subseteq 1..fresh'
<1>1. fresh \in Nat /\ MaxObjects \in Nat /\ fresh \in 0..MaxObjects /\ heap \subseteq 1..fresh
  BY StateType DEF TypeOK
<1>2. IsFiniteSet(Objects)
  BY <1>1, FS_Interval DEF Objects
<1>3. new \subseteq Objects /\ new = (fresh + 1)..(fresh + Cardinality(new))
      /\ fresh' = fresh + Cardinality(new) /\ heap' = (heap \cup new) \ old
  BY DEF Allocate
<1>4. IsFiniteSet(new) /\ Cardinality(new) \in Nat
  BY <1>2, <1>3, FS_Subset, FS_CardinalityType
<1>5. fresh' \in Nat /\ fresh <= fresh'
  BY <1>1, <1>3, <1>4
<1>6. fresh' <= MaxObjects
  <2>1. CASE fresh' = fresh
    BY <2>1, <1>1
  <2>2. CASE fresh' # fresh
    <3>1. fresh' \in (fresh + 1)..(fresh + Cardinality(new))
      BY <2>2, <1>1, <1>3, <1>4, <1>5
    <3>2. fresh' \in Objects
      BY <3>1, <1>3
    <3> QED
      BY <3>2, <1>1 DEF Objects
  <2> QED
    BY <2>1, <2>2
<1>7. \A o \in new : o \in Objects /\ o \in Nat /\ fresh < o /\ o <= fresh'
  BY <1>1, <1>3, <1>4 DEF Objects
<1>8. heap' \subseteq 1..fresh'
  <2> SUFFICES ASSUME NEW o \in heap' PROVE o \in 1..fresh'
    OBVIOUS
  <2>1. CASE o \in heap
    BY <2>1, <1>1, <1>5
  <2>2. CASE o \in new
    BY <2>2, <1>1, <1>7, <1>5
  <2> QED
    BY <2>1, <2>2, <1>3
<1> QED
  BY <1>1, <1>3, <1>5, <1>6, <1>7, <1>8

LEMMA ReleaseFacts ==
    ASSUME TypeOK, NEW old, Release(old)
    PROVE  fresh' = fresh /\ heap' = heap \ old
<1>1. fresh \in Nat /\ Cardinality({}) = 0
  BY StateType, FS_EmptySet
<1> QED
  BY <1>1 DEF Release, Allocate

\* New memory for a vector that has none; one that has some keeps it.
LEMMA PushedFacts ==
    ASSUME TypeOK, NEW obj \in OrNull(Objects)
    PROVE  /\ obj = 0 => Pushed(obj) = fresh + 1 /\ New(Pushed(obj)) = {fresh + 1}
           /\ obj # 0 => Pushed(obj) = obj
           /\ obj \in heap \cup {0} => New(obj) = {}
           /\ Pushed(obj) # 0
<1>1. fresh \in Nat /\ fresh + 1 \notin heap \cup {0}
  BY StateType
<1> QED
  BY <1>1 DEF Pushed, New

LEMMA LeftFacts ==
    ASSUME NEW S, NEW s \in Seq(S)
    PROVE  /\ Left(s) \in Seq(S)
           /\ s # << >> => Len(Left(s)) = Len(s) - 1
           /\ Len(s) > 0 => Len(Left(s)) = Len(s) - 1
           /\ \A k \in 1..(Len(s) - 1) : Left(s)[k] = s[k]
<1>1. Len(s) \in Nat /\ (s # << >> => Len(s) > 0)
  BY EmptySeq
<1>2. CASE Len(s) = 0
  <2>1. s = << >>
    BY <1>2, EmptySeq
  <2>2. Left(s) = << >>
    BY <2>1 DEF Left
  <2>3. Left(s) \in Seq(S)
    BY <2>2, EmptySeq
  <2> QED
    BY <2>1, <2>3, <1>2
<1>3. CASE Len(s) > 0
  <2> DEFINE n == Len(s) - 1
  <2>2. n \in Nat /\ 1 \in Int /\ \A k \in 1..n : s[k] \in S
    BY <1>1, <1>3, ElementOfSeq
  <2> HIDE DEF n
  <2>3. /\ SubSeq(s, 1, n) \in Seq(S) /\ Len(SubSeq(s, 1, n)) = IF 1 <= n THEN n - 1 + 1 ELSE 0
        /\ \A k \in 1..(n - 1 + 1) : SubSeq(s, 1, n)[k] = s[1 + k - 1]
    BY <2>2, SubSeqProperties
  <2>4. Len(SubSeq(s, 1, n)) = n /\ \A k \in 1..n : SubSeq(s, 1, n)[k] = s[k]
    BY <2>2, <2>3
  <2>1. /\ SubSeq(s, 1, Len(s) - 1) \in Seq(S) /\ Len(SubSeq(s, 1, Len(s) - 1)) = Len(s) - 1
        /\ \A k \in 1..(Len(s) - 1) : SubSeq(s, 1, Len(s) - 1)[k] = s[k]
    BY <2>3, <2>4 DEF n
  <2> QED
    BY <2>1 DEF Left
<1> QED
  BY <1>1, <1>2, <1>3

LEMMA LastFacts ==
    ASSUME NEW S, NEW s \in Seq(S), Len(s) > 0
    PROVE  Last(s) = s[Len(s)] /\ Last(s) \in S
BY ElementOfSeq DEF Last

-----------------------------------------------------------------------------
(* Steps keep the types.                                                    *)

LEMMA MapKept ==
    ASSUME ShapeInv, UNCHANGED <<data, bitset>>
    PROVE  /\ MapInv(MacroDef)' /\ num_bits' = num_bits
           /\ Abstraction' = Abstraction /\ \A j : (Has(j)' <=> Has(j)) /\ Get(j)' = Get(j)
BY DEF ShapeInv, MapInv, InternMapTypeOK, num_bits, Abstraction, Has, Get

LEMMA ShapeKept ==
    ASSUME ShapeInv, UNCHANGED <<data, bitset>>, history' \in History,
           phase = "freed" => phase' = "freed"
    PROVE  ShapeInv'
BY MapKept DEF ShapeInv

LEMMA MapIsTyped ==
    ASSUME ShapeInv
    PROVE  InternMapTypeOK(MacroDef)
BY DEF ShapeInv, MapInv

LEMMA MapIsTypedNext ==
    ASSUME ShapeInv'
    PROVE  InternMapTypeOK(MacroDef)'
BY DEF ShapeInv, MapInv

LEMMA OneObject ==
    ASSUME TypeOK, NEW old, Allocate({fresh + 1}, old)
    PROVE  /\ fresh + 1 \in Objects /\ fresh' \in 0..MaxObjects /\ heap' \subseteq 1..fresh'
           /\ heap' = (heap \cup {fresh + 1}) \ old /\ fresh + 1 \notin heap /\ fresh + 1 <= fresh'
BY AllocateFacts, StateType

\* What Stop and errors do.
LEMMA StopTypes ==
    ASSUME TypeOK, ShapeInv, NEW reason \in {"bad free", "aborted", "overrun"}, Stop(reason),
           phase # "freed"
    PROVE  TypeOK' /\ ShapeInv'
<1>1. ShapeInv'
  BY ShapeKept DEF Stop, ShapeInv
<1> QED
  BY <1>1, MapIsTypedNext DEF Stop, TypeOK

LEMMA ErrorHistory ==
    ASSUME TypeOK, ShapeInv, initiate_error
    PROVE  history' \in History
<1>1. NothingKept \in KeptState /\ history \in History
  BY KeptTypes DEF ShapeInv
<1>2. Owned(streams) \subseteq Nat
  <2>1. \A k \in 1..Len(streams) : streams[k].obj \in Nat
    <3> SUFFICES ASSUME NEW k \in 1..Len(streams) PROVE streams[k].obj \in Nat
      OBVIOUS
    <3>1. streams[k] \in Stream
      BY StateType, ElementOfSeq
    <3> QED
      BY <3>1, StateType DEF Stream, OrNull, Objects
  <2> QED
    BY <2>1 DEF Owned
<1> DEFINE inside == history.inside \/ depth > 0
<1>3. inside \in BOOLEAN
  OBVIOUS
<1> DEFINE lost == history.lost \cup Owned(streams)
<1>4. lost \subseteq Nat
  BY <1>2, HistoryType
<1>5. history' = [history EXCEPT !.start = NothingKept, !.lost = lost, !.inside = inside]
  BY DEF initiate_error
<1> HIDE DEF inside, lost
<1> QED
  BY <1>1, <1>3, <1>4, <1>5 DEF History

\* An error that touches nothing but what it unwinds.
LEMMA ErrorTypes ==
    ASSUME TypeOK, ShapeInv, initiate_error, UNCHANGED <<bufdef, memory>>, phase # "freed",
           max_used' \in 0..(MAX_BUFFERS + 1)
    PROVE  TypeOK' /\ ShapeInv'
<1>1. ShapeInv'
  BY ShapeKept, ErrorHistory DEF initiate_error
<1>2. depth' \in Nat /\ streams' \in Seq(Stream)
  BY EmptySeq DEF initiate_error
<1> QED
  BY <1>1, <1>2, MapIsTypedNext DEF initiate_error, TypeOK

LEMMA GotIs ==
    ASSUME TypeOK, NEW n \in {1, 2}
    PROVE  /\ Got(n) # "ok" => Got(n) \in {"aborted", "overrun"}
           /\ Got(n) = "ok" => max_used + n \in 0..(MAX_BUFFERS + 1)
           /\ Got(1) = "ok" => max_used + 1 \in 0..(MAX_BUFFERS + 1)
BY StateType DEF Got, MAX_BUFFERS

LEMMA IncludeDirTypes ==
    ASSUME TypeOK, ShapeInv, opt_include_dir
    PROVE  TypeOK' /\ ShapeInv'
<1>1. ShapeInv'
  BY ShapeKept DEF opt_include_dir, ShapeInv
<1>2. fresh + 1 \in Objects /\ fresh' \in 0..MaxObjects /\ heap' \subseteq 1..fresh'
  BY OneObject DEF opt_include_dir
<1>3. include_dirs' \in Seq(Objects)
  BY <1>2, StateType, AppendProperties DEF opt_include_dir
<1> QED
  BY <1>1, <1>2, <1>3, MapIsTypedNext DEF opt_include_dir, TypeOK

LEMMA AddSourceTypes ==
    ASSUME TypeOK, ShapeInv, opt_add_source
    PROVE  TypeOK' /\ ShapeInv'
<1>1. history' \in History
  BY KeptTypes DEF opt_add_source, ShapeInv, History
<1>2. ShapeInv'
  BY <1>1, ShapeKept DEF opt_add_source
<1>3. fresh + 1 \in Objects /\ fresh' \in 0..MaxObjects /\ heap' \subseteq 1..fresh'
  BY OneObject DEF opt_add_source
<1>4. source_stack' \in Seq(Objects)
  BY <1>3, StateType, AppendProperties DEF opt_add_source
<1> QED
  BY <1>2, <1>3, <1>4, MapIsTypedNext DEF opt_add_source, TypeOK

LEMMA PreprocessTypes ==
    ASSUME TypeOK, ShapeInv, compiler_preprocess
    PROVE  TypeOK' /\ ShapeInv'
<1>1. CASE Got(1) # "ok"
  BY <1>1, GotIs, StopTypes DEF compiler_preprocess
<1>2. CASE Got(1) = "ok"
  <2>1. history' \in History
    BY <1>2, KeptTypes DEF compiler_preprocess, ShapeInv, History
  <2>2. ShapeInv'
    BY <1>2, <2>1, ShapeKept DEF compiler_preprocess
  <2>3. max_used' \in 0..(MAX_BUFFERS + 1)
    BY <1>2, GotIs DEF compiler_preprocess
  <2> QED
    BY <1>2, <2>2, <2>3, MapIsTypedNext DEF compiler_preprocess, TypeOK
<1> QED
  BY <1>1, <1>2

LEMMA FreeResultTypes ==
    ASSUME TypeOK, ShapeInv, FreeResult
    PROVE  TypeOK' /\ ShapeInv'
<1>1. ShapeInv'
  BY ShapeKept DEF FreeResult, ShapeInv
<1>2. PICK r \in results : results' = results \ {r} /\ Release({r.obj})
  BY DEF FreeResult
<1>3. fresh' = fresh /\ heap' = heap \ {r.obj}
  BY <1>2, ReleaseFacts
<1> QED
  BY <1>1, <1>2, <1>3, MapIsTypedNext DEF FreeResult, TypeOK

LEMMA FreeCompilerTypes ==
    ASSUME TypeOK, ShapeInv, free_compiler
    PROVE  TypeOK' /\ ShapeInv'
<1>1. CASE \E k \in 1..Len(included_files) : included_files[k].mem = 0
  BY <1>1, StopTypes DEF free_compiler
<1>2. CASE ~ \E k \in 1..Len(included_files) : included_files[k].mem = 0
  <2>1. imap_destroy /\ phase' = "freed"
    BY <1>2 DEF free_compiler
  <2>2. MapInv(MacroDef)' /\ \A j : ~Has(j)'
    BY <2>1, DestroyedMap
  <2>3. history' \in History
    <3> DEFINE lost == history.lost \cup ({bufdef.args} \cup pooled)
    <3>1. history' = [history EXCEPT !.lost = lost]
      BY <1>2 DEF free_compiler
    <3>2. bufdef.args \in Nat /\ pooled \subseteq Nat
      BY StateType DEF MacroDef, OrNull, Objects
    <3>3. lost \in SUBSET Nat
      BY <3>2, HistoryType
    <3> HIDE DEF lost
    <3> QED
      BY <3>1, <3>3 DEF ShapeInv, History
  <2>4. ShapeInv'
    BY <2>1, <2>2, <2>3 DEF ShapeInv
  <2>5. PICK old : Release(old)
    BY <1>2 DEF free_compiler
  <2>6. fresh' = fresh /\ heap' \subseteq heap
    BY <2>5, ReleaseFacts
  <2>7. /\ include_dirs' \in Seq(Objects) /\ source_stack' \in Seq(Objects)
        /\ included_files' \in Seq(Path) /\ macro_stack' \in Seq(Ids)
        /\ bufdef' \in MacroDef /\ max_used' \in 0..(MAX_BUFFERS + 1) /\ pooled' \subseteq Objects
    BY <1>2, NoDefType, EmptySeq DEF free_compiler, MAX_BUFFERS
  <2>8. UNCHANGED <<ndebug, depth, streams, results>>
    BY <1>2 DEF free_compiler
  <2> QED
    BY <2>1, <2>4, <2>6, <2>7, <2>8, MapIsTypedNext DEF TypeOK
<1> QED
  BY <1>1, <1>2

LEMMA Pp1ErrorTypes ==
    ASSUME TypeOK, ShapeInv, Pp1Error \/ Pp2Error
    PROVE  TypeOK' /\ ShapeInv'
<1>1. initiate_error /\ UNCHANGED <<bufdef, memory, max_used>> /\ phase # "freed"
  BY DEF Pp1Error, Pp2Error, Scanning
<1>2. max_used' \in 0..(MAX_BUFFERS + 1)
  BY <1>1, StateType
<1> QED
  BY <1>1, <1>2, ErrorTypes

LEMMA IncludeErrorTypes ==
    ASSUME TypeOK, ShapeInv, IncludeError
    PROVE  TypeOK' /\ ShapeInv'
<1>1. phase # "freed"
  BY DEF IncludeError, Scanning
<1>2. CASE Got(1) # "ok"
  BY <1>1, <1>2, GotIs, StopTypes DEF IncludeError
<1>3. CASE Got(1) = "ok" /\ Stop("aborted")
  BY <1>1, <1>3, StopTypes
<1>4. CASE Got(1) = "ok" /\ ~Stop("aborted")
  <2>1. initiate_error /\ max_used' = max_used + 1 /\ UNCHANGED <<bufdef, memory>>
    BY <1>4 DEF IncludeError
  <2>2. max_used' \in 0..(MAX_BUFFERS + 1)
    BY <2>1, <1>4, GotIs
  <2> QED
    BY <1>1, <2>1, <2>2, ErrorTypes
<1> QED
  BY <1>2, <1>3, <1>4

\* The new objects of Include are the contents of the file and the path's memory.
LEMMA IncludeFacts ==
    ASSUME TypeOK, Include
    PROVE  \E f \in Files, mem \in {0, fresh + 2} :
              /\ Allocate({fresh + 1, mem} \ {0}, {})
              /\ included_files' = Append(included_files, [file |-> f, mem |-> mem])
              /\ pooled' = pooled \cup ({mem} \ {0})
              /\ fresh + 1 \in Objects /\ mem \in OrNull(Objects)
<1>1. PICK f \in Files, mem \in {0, fresh + 2} :
              /\ Allocate({fresh + 1, mem} \ {0}, {})
              /\ included_files' = Append(included_files, [file |-> f, mem |-> mem])
              /\ pooled' = pooled \cup ({mem} \ {0})
  BY DEF Include
<1>2. fresh + 1 \in Objects
  BY <1>1, AllocateFacts, StateType
<1>3. mem \in OrNull(Objects)
  BY <1>1, AllocateFacts DEF OrNull
<1> QED
  BY <1>1, <1>2, <1>3

LEMMA IncludeTypes ==
    ASSUME TypeOK, ShapeInv, Include
    PROVE  TypeOK' /\ ShapeInv'
<1>1. PICK f \in Files, mem \in {0, fresh + 2} :
              /\ Allocate({fresh + 1, mem} \ {0}, {})
              /\ included_files' = Append(included_files, [file |-> f, mem |-> mem])
              /\ pooled' = pooled \cup ({mem} \ {0})
              /\ fresh + 1 \in Objects /\ mem \in OrNull(Objects)
  BY IncludeFacts
<1>2. source_stack' = Append(source_stack, fresh + 1)
      /\ UNCHANGED <<ndebug, include_dirs, macro_stack, defs, streams, results, history>>
      /\ Got(1) = "ok" /\ phase = "pp1"
  BY DEF Include, Scanning
<1>3. ShapeInv'
  BY <1>2, ShapeKept DEF ShapeInv
<1>4. fresh' \in 0..MaxObjects /\ heap' \subseteq 1..fresh'
  BY <1>1, AllocateFacts
<1>5. source_stack' \in Seq(Objects)
  BY <1>1, <1>2, StateType, AppendProperties
<1>6. included_files' \in Seq(Path)
  <2>1. [file |-> f, mem |-> mem] \in Path
    BY <1>1 DEF Path
  <2> QED
    BY <2>1, <1>1, StateType, AppendProperties
<1>7. pooled' \subseteq Objects
  BY <1>1, StateType DEF OrNull
<1>8. max_used' \in 0..(MAX_BUFFERS + 1) /\ depth' \in Nat
      /\ phase' \in {"pp1", "aborted", "overrun"}
  <2>1. CASE Got(2) # "ok"
    BY <2>1, <1>2, GotIs, StateType DEF Include
  <2>2. CASE Got(2) = "ok"
    BY <2>2, <1>2, GotIs, StateType DEF Include
  <2> QED
    BY <2>1, <2>2
<1> QED
  BY <1>2, <1>3, <1>4, <1>5, <1>6, <1>7, <1>8, MapIsTypedNext DEF TypeOK

LEMMA ReturnTypes ==
    ASSUME TypeOK, ShapeInv, ReturnToIncluder
    PROVE  TypeOK' /\ ShapeInv'
<1>1. ShapeInv'
  BY ShapeKept DEF ReturnToIncluder, ShapeInv
<1>2. included_files' \in Seq(Path) /\ source_stack' \in Seq(Objects)
  BY LeftFacts, StateType DEF ReturnToIncluder
<1>3. fresh' = fresh /\ heap' \subseteq heap
  BY ReleaseFacts DEF ReturnToIncluder
<1>4. depth' \in Nat
  BY StateType DEF ReturnToIncluder
<1> QED
  BY <1>1, <1>2, <1>3, <1>4, MapIsTypedNext DEF ReturnToIncluder, TypeOK

LEMMA EndPp1AbortsTypes ==
    ASSUME TypeOK, ShapeInv, EndPp1Aborts
    PROVE  TypeOK' /\ ShapeInv'
BY StopTypes DEF EndPp1Aborts

LEMMA EndPp1Types ==
    ASSUME TypeOK, ShapeInv, EndPp1
    PROVE  TypeOK' /\ ShapeInv'
<1>1. fresh + 1 \in Objects /\ fresh' \in 0..MaxObjects /\ heap' \subseteq 1..fresh'
  BY OneObject DEF EndPp1
<1>2. source_stack' \in Seq(Objects)
  BY <1>1, StateType, LeftFacts, AppendProperties DEF EndPp1
<1>3. NewStream({fresh + 1}) \in Stream
  BY <1>1 DEF NewStream, Stream, OrNull
<1>4. streams' \in Seq(Stream)
  <2>1. \A S : \A x \in S : <<x>> \in Seq(S)
    OBVIOUS
  <2> QED
    BY <1>3, <2>1 DEF EndPp1
<1>5. history' \in History
  <2> DEFINE texts == history.texts \cup {fresh + 1}
  <2> DEFINE redone == history.redone \cup (history.texts \cap {Last(source_stack)})
  <2>1. history' = [history EXCEPT !.texts = texts, !.redone = redone]
    BY DEF EndPp1
  <2>2. texts \in SUBSET Nat /\ redone \in SUBSET Nat
    BY StateType, HistoryType
  <2> HIDE DEF texts, redone
  <2> QED
    BY <2>1, <2>2 DEF ShapeInv, History
<1>6. ShapeInv'
  BY <1>5, ShapeKept DEF EndPp1
<1> QED
  BY <1>1, <1>2, <1>4, <1>6, MapIsTypedNext DEF EndPp1, TypeOK

\* The running activation, and the memory it pushes to.
LEMMA RunningFacts ==
    ASSUME TypeOK, StageInv, phase = "pp2"
    PROVE  /\ Len(streams) \in Nat /\ Len(streams) > 0 /\ Running = streams[Len(streams)]
           /\ Running \in Stream /\ Running.obj \in OrNull(Objects)
           /\ Running.views \subseteq Objects /\ Running.from \subseteq Objects
<1>1. Len(streams) \in Nat /\ Len(streams) > 0
  BY StateType, EmptySeq DEF StageInv
<1>2. Running = streams[Len(streams)] /\ Running \in Stream
  BY <1>1, StateType, ElementOfSeq DEF Running
<1>3. \A s \in Stream : s.obj \in OrNull(Objects) /\ s.views \subseteq Objects /\ s.from \subseteq Objects
  BY DEF Stream
<1> QED
  BY <1>1, <1>2, <1>3

LEMMA WithObjAndViews ==
    ASSUME NEW s \in Stream, NEW o, NEW v
    PROVE  [s EXCEPT !.obj = o, !.views = v] = [obj |-> o, views |-> v, from |-> s.from]
<1> DEFINE f == s.from
<1> DEFINE r == [s EXCEPT !.obj = o, !.views = v]
<1>1. r \in [obj : {o}, views : {v}, from : {f}]
  <2>1. s \in [obj : OrNull(Objects), views : SUBSET Objects, from : {f}]
    BY DEF Stream
  <2> HIDE DEF f
  <2> QED
    BY <2>1
<1>2. \A x \in [obj : {o}, views : {v}, from : {f}] : x = [obj |-> o, views |-> v, from |-> f]
  <2> HIDE DEF f
  <2> QED
    OBVIOUS
<1> HIDE DEF r
<1>3. r = [obj |-> o, views |-> v, from |-> f]
  BY <1>1, <1>2
<1> QED
  BY <1>3 DEF r

LEMMA NewFacts ==
    ASSUME TypeOK, NEW obj \in OrNull(Objects), NEW old, Allocate(New(Pushed(obj)), old)
    PROVE  Pushed(obj) \in Objects
<1>1. CASE obj = 0
  <2>1. Pushed(obj) = fresh + 1 /\ New(Pushed(obj)) = {fresh + 1}
    BY <1>1, PushedFacts
  <2> QED
    BY <2>1, OneObject
<1>2. CASE obj # 0
  BY <1>2, PushedFacts DEF OrNull
<1> QED
  BY <1>1, <1>2

LEMMA PushFacts ==
    ASSUME TypeOK, StageInv, Push
    PROVE  LET obj == Pushed(Running.obj) IN
           /\ Allocate(New(obj), {}) /\ obj \in Objects
           /\ streams' = Append(Left(streams),
                                [obj |-> obj, views |-> Running.views \cup Running.from,
                                 from |-> Running.from])
<1> DEFINE obj == Pushed(Running.obj)
<1>1. /\ Running \in Stream /\ Running.obj \in OrNull(Objects)
  BY RunningFacts DEF Push
<1>2. /\ Allocate(New(obj), {})
      /\ streams' = Append(Left(streams), [Running EXCEPT !.obj = obj, !.views = @ \cup Running.from])
  BY DEF Push
<1>3. obj \in Objects
  BY <1>1, <1>2, NewFacts
<1> HIDE DEF obj
<1>4. [Running EXCEPT !.obj = obj, !.views = @ \cup Running.from]
        = [obj |-> obj, views |-> Running.views \cup Running.from, from |-> Running.from]
  BY <1>1, WithObjAndViews
<1> QED
  BY <1>2, <1>3, <1>4 DEF obj

\* A look-up of the map may grow its bits.
LEMMA PushMap ==
    ASSUME TypeOK, ShapeInv, Push
    PROVE  /\ MapInv(MacroDef)' /\ num_bits' > 0 /\ Abstraction' = Abstraction
           /\ \A j : (Has(j)' <=> Has(j)) /\ Get(j)' = Get(j)
<1>1. num_bits > 0 /\ MapInv(MacroDef) /\ data' = data
  BY DEF Push, ShapeInv
<1>2. CASE bitset' = bitset
  BY <1>1, <1>2, MapKept
<1>3. CASE bitset' # bitset
  <2>1. PICK id \in Ids : bitset' = WithBit(id)
    BY <1>3 DEF Push
  <2>2. id \in Nat
    BY StateType
  <2>3. MapInv(MacroDef)' /\ num_bits' > 0 /\ \A j : (Has(j)' <=> Has(j)) /\ Get(j)' = Get(j)
    BY <1>1, <2>1, <2>2, LookUp
  <2>4. Abstraction' = Abstraction
    BY <1>1, <2>1, <2>2, AbstractLookUp
  <2> QED
    BY <2>3, <2>4
<1> QED
  BY <1>2, <1>3

LEMMA PushTypes ==
    ASSUME TypeOK, ShapeInv, StageInv, Push
    PROVE  TypeOK' /\ ShapeInv'
<1> DEFINE top == [obj |-> Pushed(Running.obj), views |-> Running.views \cup Running.from,
                   from |-> Running.from]
<1>1. /\ Allocate(New(Pushed(Running.obj)), {}) /\ Pushed(Running.obj) \in Objects
      /\ streams' = Append(Left(streams), top)
  BY PushFacts
<1>2. top \in Stream
  <2>1. Running.views \subseteq Objects /\ Running.from \subseteq Objects
    BY RunningFacts DEF Push
  <2> QED
    BY <1>1, <2>1 DEF Stream, OrNull
<1>3. streams' \in Seq(Stream)
  <2> HIDE DEF top
  <2> QED
    BY <1>1, <1>2, StateType, LeftFacts, AppendProperties
<1>4. fresh' \in 0..MaxObjects /\ heap' \subseteq 1..fresh'
  BY <1>1, AllocateFacts
<1>5. ShapeInv'
  BY PushMap DEF Push, ShapeInv
<1> HIDE DEF top
<1> QED
  BY <1>3, <1>4, <1>5, MapIsTypedNext DEF Push, TypeOK

LEMMA MacroFacts ==
    ASSUME ShapeInv
    PROVE  \A i : Has(i) => /\ i \in Ids /\ Get(i) \in MacroDef
                            /\ Get(i).args \in OrNull(Objects) /\ Get(i).body \in OrNull(Objects)
                            /\ Get(i).views \subseteq Objects /\ Get(i) = Abstraction[i]
<1>1. MapInv(MacroDef) /\ \A j : Has(j) => j \in Ids
  BY DEF ShapeInv
<1>2. \A j : Has(j) => Get(j) \in MacroDef
  BY <1>1, MapFacts
<1>3. \A d \in MacroDef : d.args \in OrNull(Objects) /\ d.body \in OrNull(Objects)
                          /\ d.views \subseteq Objects
  BY DEF MacroDef
<1> QED
  BY <1>1, <1>2, <1>3, AbstractionIs

LEMMA BeginUseFacts ==
    ASSUME BeginUse
    PROVE  \E id \in Ids : /\ Has(id)
                           /\ macro_stack' = Append(macro_stack, id)
                           /\ streams' = Append(streams, NewStream(Get(id).views))
BY DEF BeginUse

LEMMA BeginUseTypes ==
    ASSUME TypeOK, ShapeInv, BeginUse
    PROVE  TypeOK' /\ ShapeInv'
<1>1. PICK id \in Ids : /\ Has(id)
                        /\ macro_stack' = Append(macro_stack, id)
                        /\ streams' = Append(streams, NewStream(Get(id).views))
  BY BeginUseFacts
<1>2. NewStream(Get(id).views) \in Stream
  BY <1>1, MacroFacts DEF NewStream, Stream, OrNull
<1>3. macro_stack' \in Seq(Ids) /\ streams' \in Seq(Stream)
  BY <1>1, <1>2, StateType, AppendProperties
<1>4. ShapeInv'
  BY ShapeKept DEF BeginUse, ShapeInv
<1> QED
  BY <1>3, <1>4, MapIsTypedNext DEF BeginUse, TypeOK

\* What becomes of the stream of an activation that ends.
LEMMA EndUseFacts ==
    ASSUME TypeOK, StageInv, EndUse
    PROVE  LET outer == streams[Len(streams) - 1]
               obj == IF Running.obj = 0 THEN outer.obj ELSE Pushed(outer.obj)
           IN /\ Len(streams) \in Nat /\ Len(streams) > 1
              /\ outer \in Stream /\ outer.obj \in OrNull(Objects)
              /\ Allocate(New(obj), {Running.obj}) /\ obj \in OrNull(Objects)
              /\ streams' = Append(Left(Left(streams)),
                                   [obj |-> obj, views |-> outer.views \cup Running.views,
                                    from |-> outer.from])
<1> DEFINE outer == streams[Len(streams) - 1]
<1> DEFINE obj == IF Running.obj = 0 THEN outer.obj ELSE Pushed(outer.obj)
<1>1. Len(streams) \in Nat /\ Len(streams) > 1 /\ Len(streams) - 1 \in 1..Len(streams)
  BY StateType DEF EndUse
<1>2. outer \in Stream
  <2> DEFINE n == Len(streams) - 1
  <2> HIDE DEF n
  <2>1. streams[n] \in Stream
    BY <1>1, StateType, ElementOfSeq DEF n
  <2> QED
    BY <2>1 DEF n
<1>3. outer.obj \in OrNull(Objects)
  BY <1>2 DEF Stream
<1>4. /\ Allocate(New(obj), {Running.obj})
      /\ streams' = Append(Left(Left(streams)),
                           [outer EXCEPT !.obj = obj, !.views = @ \cup Running.views])
  BY DEF EndUse
<1> HIDE DEF outer
<1>5. obj \in OrNull(Objects)
  <2>1. CASE Running.obj = 0
    BY <2>1, <1>3
  <2>2. CASE Running.obj # 0
    <3>1. Pushed(outer.obj) \in Objects
      BY <2>2, <1>3, <1>4, NewFacts
    <3> QED
      BY <2>2, <3>1 DEF OrNull
  <2> QED
    BY <2>1, <2>2
<1> HIDE DEF obj
<1>6. [outer EXCEPT !.obj = obj, !.views = @ \cup Running.views]
        = [obj |-> obj, views |-> outer.views \cup Running.views, from |-> outer.from]
  BY <1>2, WithObjAndViews
<1> QED
  BY <1>1, <1>2, <1>3, <1>4, <1>5, <1>6 DEF obj, outer

LEMMA EndUseTypes ==
    ASSUME TypeOK, ShapeInv, StageInv, EndUse
    PROVE  TypeOK' /\ ShapeInv'
<1> DEFINE outer == streams[Len(streams) - 1]
<1> DEFINE obj == IF Running.obj = 0 THEN outer.obj ELSE Pushed(outer.obj)
<1> DEFINE top == [obj |-> obj, views |-> outer.views \cup Running.views, from |-> outer.from]
<1>1. /\ outer \in Stream /\ Allocate(New(obj), {Running.obj}) /\ obj \in OrNull(Objects)
      /\ streams' = Append(Left(Left(streams)), top)
  BY EndUseFacts
<1> HIDE DEF outer, obj
<1>2. top \in Stream
  <2>1. Running.views \subseteq Objects
    BY RunningFacts DEF EndUse
  <2>2. outer.views \subseteq Objects /\ outer.from \subseteq Objects
    BY <1>1 DEF Stream
  <2> QED
    BY <1>1, <2>1, <2>2 DEF Stream
<1> HIDE DEF top
<1>3. streams' \in Seq(Stream)
  BY <1>1, <1>2, StateType, LeftFacts, AppendProperties
<1>4. fresh' \in 0..MaxObjects /\ heap' \subseteq 1..fresh'
  BY <1>1, AllocateFacts
<1>5. macro_stack' \in Seq(Ids)
  BY StateType, LeftFacts DEF EndUse, Popped
<1>6. ShapeInv'
  BY ShapeKept DEF EndUse, ShapeInv
<1> QED
  BY <1>3, <1>4, <1>5, <1>6, MapIsTypedNext DEF EndUse, TypeOK

LEMMA BufdefFacts ==
    ASSUME TypeOK
    PROVE  /\ bufdef.fn \in BOOLEAN /\ bufdef.args \in OrNull(Objects)
           /\ bufdef.body \in OrNull(Objects) /\ bufdef.views \subseteq Objects
<1>1. bufdef \in MacroDef
  BY StateType
<1>2. \A d \in MacroDef : /\ d.fn \in BOOLEAN /\ d.args \in OrNull(Objects)
                          /\ d.body \in OrNull(Objects) /\ d.views \subseteq Objects
  BY DEF MacroDef
<1> QED
  BY <1>1, <1>2

LEMMA DefineErrorFacts ==
    ASSUME TypeOK, DefineError
    PROVE  \E args \in OrNull(Objects) :
              /\ args = bufdef.args \/ args = Pushed(bufdef.args)
              /\ Allocate(New(args), {}) /\ bufdef'.args = args /\ bufdef' \in MacroDef
<1>1. PICK args \in {bufdef.args, Pushed(bufdef.args)} :
             bufdef' = [bufdef EXCEPT !.fn = TRUE, !.args = args] /\ Allocate(New(args), {})
  BY DEF DefineError
<1>2. args \in OrNull(Objects)
  <2>1. CASE args = bufdef.args
    BY <2>1, BufdefFacts
  <2>2. CASE args = Pushed(bufdef.args)
    BY <2>2, <1>1, BufdefFacts, NewFacts DEF OrNull
  <2> QED
    BY <2>1, <2>2, <1>1
<1>3. bufdef \in MacroDef
  BY StateType
<1>4. bufdef' \in MacroDef /\ bufdef'.args = args
  BY <1>1, <1>2, <1>3 DEF MacroDef
<1> QED
  BY <1>1, <1>2, <1>4

LEMMA DefineErrorTypes ==
    ASSUME TypeOK, ShapeInv, DefineError
    PROVE  TypeOK' /\ ShapeInv'
<1>1. PICK args \in OrNull(Objects) :
             Allocate(New(args), {}) /\ bufdef' \in MacroDef
  BY DefineErrorFacts
<1>2. fresh' \in 0..MaxObjects /\ heap' \subseteq 1..fresh'
  BY <1>1, AllocateFacts
<1>3. initiate_error /\ phase # "freed" /\ max_used' = max_used
  BY DEF DefineError, Outermost
<1>4. ShapeInv'
  BY <1>3, ShapeKept, ErrorHistory DEF initiate_error
<1>5. depth' \in Nat /\ streams' \in Seq(Stream)
  BY <1>3, EmptySeq DEF initiate_error
<1> QED
  BY <1>1, <1>2, <1>3, <1>4, <1>5, MapIsTypedNext DEF initiate_error, TypeOK

\* The macro that is defined, and what it is made from.
LEMMA MacroDefFacts ==
    ASSUME TypeOK, ShapeInv, StageInv, macro_def
    PROVE  \E id \in Ids, def \in MacroDef :
              /\ Allocate(New(def.args) \cup {def.body}, OldDef(id))
              /\ imap_set(def, id)
              /\ def.args = bufdef.args \/ def.args = Pushed(bufdef.args)
              /\ def.args \in OrNull(Objects) /\ def.body \in Objects
              /\ def.body = fresh + 1 + Cardinality(New(def.args))
              /\ def.views = Running.from
<1>1. PICK id \in Ids, fn \in BOOLEAN :
          LET args == IF fn THEN Pushed(bufdef.args) ELSE bufdef.args
              body == fresh + 1 + Cardinality(New(args))
          IN /\ Allocate(New(args) \cup {body}, OldDef(id))
             /\ imap_set([fn |-> fn \/ bufdef.fn, args |-> args, body |-> body,
                          views |-> Running.from], id)
  BY DEF macro_def
<1> DEFINE args == IF fn THEN Pushed(bufdef.args) ELSE bufdef.args
<1> DEFINE body == fresh + 1 + Cardinality(New(args))
<1> DEFINE fnlike == fn \/ bufdef.fn
<1> DEFINE def == [fn |-> fnlike, args |-> args, body |-> body, views |-> Running.from]
<1>2. Allocate(New(args) \cup {body}, OldDef(id)) /\ imap_set(def, id)
  BY <1>1
<1>3. args = bufdef.args \/ args = Pushed(bufdef.args)
  OBVIOUS
<1>4. args \in OrNull(Objects)
  <2>1. CASE args = bufdef.args
    BY <2>1, BufdefFacts
  <2>2. CASE args # bufdef.args
    <3>1. args = Pushed(bufdef.args)
      BY <2>2
    <3>2. bufdef.args = 0
      BY <2>2, <3>1, BufdefFacts, PushedFacts
    <3>3. args = fresh + 1 /\ New(args) = {fresh + 1}
      BY <3>1, <3>2, BufdefFacts, PushedFacts
    <3>4. fresh + 1 \in New(args) \cup {body}
      BY <3>3
    <3> HIDE DEF args, body
    <3>5. fresh + 1 \in Objects
      BY <1>2, <3>4, AllocateFacts
    <3> QED
      BY <3>3, <3>5 DEF OrNull
  <2> QED
    BY <2>1, <2>2
<1>5. body \in Objects
  <2> HIDE DEF args, body, def
  <2> QED
    BY <1>2, AllocateFacts
<1>6. Running.from \subseteq Objects
  BY RunningFacts DEF macro_def, Outermost
<1>7. fnlike \in BOOLEAN
  OBVIOUS
<1>8. body = fresh + 1 + Cardinality(New(args))
  OBVIOUS
<1> HIDE DEF args, body, fnlike
<1>9. def \in MacroDef
  BY <1>4, <1>5, <1>6, <1>7 DEF MacroDef, OrNull
<1>10. def.args = args /\ def.body = body /\ def.views = Running.from
  OBVIOUS
<1> HIDE DEF def
<1> QED
  BY <1>2, <1>3, <1>4, <1>5, <1>8, <1>9, <1>10

LEMMA MacroDefTypes ==
    ASSUME TypeOK, ShapeInv, StageInv, macro_def
    PROVE  TypeOK' /\ ShapeInv'
<1>1. PICK id \in Ids, def \in MacroDef :
              /\ Allocate(New(def.args) \cup {def.body}, OldDef(id))
              /\ imap_set(def, id)
  BY MacroDefFacts
<1>2. fresh' \in 0..MaxObjects /\ heap' \subseteq 1..fresh'
  BY <1>1, AllocateFacts
<1>3. MapInv(MacroDef) /\ num_bits > 0 /\ id \in Nat
  BY StateType DEF ShapeInv, macro_def, Outermost
<1>4. MapInv(MacroDef)' /\ num_bits' > 0 /\ \A j : Has(j)' <=> Has(j) \/ j = id
  BY <1>1, <1>3, SetValue
<1>5. bufdef' \in MacroDef
  BY NoDefType DEF macro_def
<1>6. UNCHANGED <<ndebug, phase, opt, included_files, macro_stack, strings, depth, streams,
                  results, history>>
  BY DEF macro_def
<1>7. ShapeInv'
  BY <1>4, <1>6 DEF ShapeInv
<1> QED
  BY <1>2, <1>5, <1>6, <1>7, MapIsTypedNext DEF TypeOK

LEMMA EndPp2Types ==
    ASSUME TypeOK, ShapeInv, StageInv, EndPp2
    PROVE  TypeOK' /\ ShapeInv'
<1>1. history' \in History
  BY DEF EndPp2, ShapeInv, History
<1>2. ShapeInv'
  BY <1>1, ShapeKept DEF EndPp2, Outermost
<1>3. Result \in [obj : OrNull(Objects), views : SUBSET Objects]
  BY RunningFacts DEF Result, EndPp2, Outermost
<1>4. results' \subseteq [obj : OrNull(Objects), views : SUBSET Objects]
  BY <1>3 DEF EndPp2, TypeOK
<1>5. streams' \in Seq(Stream)
  BY EmptySeq DEF EndPp2
<1> QED
  BY <1>2, <1>4, <1>5, MapIsTypedNext DEF EndPp2, TypeOK

LEMMA TypesStep ==
    ASSUME TypeOK, ShapeInv, StageInv, [Next]_vars
    PROVE  TypeOK' /\ ShapeInv'
<1>1. CASE UNCHANGED vars
  <2>1. ShapeInv'
    BY <1>1, ShapeKept DEF vars, ShapeInv
  <2> QED
    BY <1>1, <2>1, MapIsTypedNext DEF vars, TypeOK
<1> QED
  BY <1>1, IncludeDirTypes, AddSourceTypes, PreprocessTypes, FreeResultTypes, FreeCompilerTypes,
     Pp1ErrorTypes, IncludeErrorTypes, IncludeTypes, ReturnTypes, EndPp1AbortsTypes, EndPp1Types,
     PushTypes, BeginUseTypes, EndUseTypes, DefineErrorTypes, MacroDefTypes, EndPp2Types DEF Next

-----------------------------------------------------------------------------
(* Steps keep the stages.                                                   *)

LEMMA StageStep ==
    ASSUME TypeOK, ShapeInv, StageInv, [Next]_vars
    PROVE  StageInv'
<1>1. depth \in Nat /\ Len(source_stack) \in Nat /\ Len(included_files) \in Nat /\ Len(streams) \in Nat
  BY StateType, Lengths
<1>3. history.inside \in BOOLEAN /\ history \in History
  BY HistoryType DEF ShapeInv
<1>4. CASE UNCHANGED vars
  BY <1>4 DEF vars, StageInv
<1>5. ASSUME NEW reason \in {"bad free", "aborted", "overrun"}, Stop(reason), phase # "freed",
             phase # "pp2", reason = "bad free" => phase = "idle"
      PROVE StageInv'
  BY <1>5 DEF Stop, StageInv
<1>6. ASSUME initiate_error, UNCHANGED source_stack, phase \in {"pp1", "pp2"}
      PROVE StageInv'
  <2>1. history'.inside = (history.inside \/ depth > 0) /\ phase' = "idle" /\ depth' = 0
        /\ streams' = << >> /\ included_files' = included_files
    BY <1>3, <1>6 DEF initiate_error, History
  <2>2. ~history'.inside => ~history.inside /\ ~(depth > 0)
    BY <2>1, Zenon
  <2>3. ASSUME ~history'.inside PROVE Len(included_files') = 0
    <3>1. ~history.inside /\ ~(depth > 0)
      BY <2>2, <2>3, Zenon
    <3>2. Len(included_files) = depth
      BY <3>1, <1>6 DEF StageInv
    <3> QED
      BY <1>1, <2>1, <3>1, <3>2
  <2> QED
    BY <2>1, <2>3 DEF StageInv
<1>7. CASE opt_include_dir
  BY <1>7 DEF opt_include_dir, StageInv
<1>8. CASE opt_add_source
  <2>1. history'.inside = history.inside
    BY <1>3, <1>8 DEF opt_add_source, History
  <2> QED
    BY <2>1, <1>8 DEF opt_add_source, StageInv
<1>9. CASE compiler_preprocess
  <2>1. CASE Got(1) # "ok"
    BY <1>5, <1>9, <2>1, GotIs DEF compiler_preprocess
  <2>2. CASE Got(1) = "ok"
    <3>1. history'.inside = history.inside /\ phase' = "pp1"
      BY <1>3, <1>9, <2>2 DEF compiler_preprocess, History
    <3>2. depth = 0 /\ Len(source_stack) > 0
      BY <1>1, <1>9, StateType, EmptySeq DEF compiler_preprocess, StageInv
    <3> QED
      BY <3>1, <3>2, <1>9, <2>2 DEF compiler_preprocess, StageInv
  <2> QED
    BY <2>1, <2>2
<1>10. CASE FreeResult
  BY <1>10 DEF FreeResult, StageInv
<1>11. CASE free_compiler
  <2>1. CASE Stop("bad free")
    BY <1>5, <1>11, <2>1 DEF free_compiler
  <2>2. CASE ~Stop("bad free")
    BY <1>11, <2>2 DEF free_compiler, StageInv
  <2> QED
    BY <2>1, <2>2
<1>12. CASE Pp1Error
  BY <1>6, <1>12 DEF Pp1Error, Scanning, initiate_error
<1>13. CASE IncludeError
  <2>1. CASE Got(1) # "ok"
    BY <1>5, <1>13, <2>1, GotIs DEF IncludeError, Scanning
  <2>2. CASE Got(1) = "ok" /\ Stop("aborted")
    BY <1>5, <1>13, <2>2 DEF IncludeError, Scanning
  <2>3. CASE Got(1) = "ok" /\ ~Stop("aborted")
    BY <1>6, <1>13, <2>3 DEF IncludeError, Scanning, initiate_error
  <2> QED
    BY <2>1, <2>2, <2>3
<1>14. CASE Include
  <2>1. PICK x : included_files' = Append(included_files, x)
    BY <1>14 DEF Include
  <2>2. Len(included_files') = Len(included_files) + 1
        /\ Len(source_stack') = Len(source_stack) + 1
    BY <1>14, <2>1, StateType, AppendProperties DEF Include
  <2>3. phase = "pp1" /\ UNCHANGED <<streams, history>>
    BY <1>14 DEF Include, Scanning
  <2>4. CASE Got(2) # "ok"
    <3>1. phase' \in {"aborted", "overrun"}
      BY <1>14, <2>4, GotIs DEF Include
    <3> QED
      BY <2>3, <3>1 DEF StageInv
  <2>5. CASE Got(2) = "ok"
    <3>1. depth' = depth + 1 /\ phase' = phase
      BY <1>14, <2>5 DEF Include
    <3> QED
      BY <1>1, <2>2, <2>3, <3>1 DEF StageInv
  <2> QED
    BY <2>4, <2>5
<1>15. CASE ReturnToIncluder
  <2>1. phase = "pp1" /\ depth > 0 /\ depth' = depth - 1 /\ UNCHANGED <<phase, streams, history>>
    BY <1>15 DEF ReturnToIncluder
  <2>2. Len(source_stack') = Len(source_stack) - 1
    BY <1>1, <1>15, <2>1, StateType, LeftFacts DEF ReturnToIncluder, StageInv
  <2>3. ~history.inside => Len(included_files') = Len(included_files) - 1
    BY <1>1, <1>15, <2>1, StateType, LeftFacts DEF ReturnToIncluder, StageInv
  <2> QED
    BY <1>1, <2>1, <2>2, <2>3 DEF StageInv
<1>16. CASE EndPp1Aborts
  BY <1>5, <1>16 DEF EndPp1Aborts
<1>17. CASE EndPp1
  <2>1. history'.inside = history.inside /\ phase' = "pp2" /\ streams' # << >>
    BY <1>3, <1>17 DEF EndPp1, History
  <2> QED
    BY <2>1, <1>17 DEF EndPp1, StageInv
<1>18. CASE Pp2Error
  BY <1>6, <1>18 DEF Pp2Error, initiate_error
<1>19. CASE Push
  <2>1. streams' # << >>
    <3>1. PICK x : streams' = Append(Left(streams), x)
      BY <1>19 DEF Push
    <3> QED
      BY <3>1, StateType, LeftFacts, AppendProperties
  <2> QED
    BY <2>1, <1>19 DEF Push, StageInv
<1>20. CASE BeginUse
  <2>1. streams' # << >>
    <3>1. PICK x : streams' = Append(streams, x)
      BY <1>20 DEF BeginUse
    <3>2. streams \in Seq(Stream)
      BY StateType
    <3> QED
      BY <3>1, <3>2
  <2> QED
    BY <2>1, <1>20 DEF BeginUse, StageInv
<1>21. CASE EndUse
  <2>1. streams' # << >>
    <3>1. PICK x : streams' = Append(Left(Left(streams)), x)
      BY <1>21 DEF EndUse
    <3>2. Left(Left(streams)) \in Seq(Stream)
      BY StateType, LeftFacts
    <3> QED
      BY <3>1, <3>2, AppendProperties
  <2> QED
    BY <2>1, <1>21 DEF EndUse, StageInv
<1>22. CASE DefineError
  BY <1>6, <1>22 DEF DefineError, Outermost, initiate_error
<1>23. CASE macro_def
  BY <1>23 DEF macro_def, StageInv
<1>24. CASE EndPp2
  <2>1. history'.inside = history.inside
    BY <1>3, <1>24 DEF EndPp2, History
  <2> QED
    BY <2>1, <1>24 DEF EndPp2, Outermost, StageInv
<1> QED
  BY <1>4, <1>7, <1>8, <1>9, <1>10, <1>11, <1>12, <1>13, <1>14, <1>15, <1>16, <1>17, <1>18,
     <1>19, <1>20, <1>21, <1>22, <1>23, <1>24 DEF Next

-----------------------------------------------------------------------------
(* Owners.  A place is where a pointer that will be freed lies: a kind of   *)
(* place, which one, and the object, or 0.                                  *)

Listed(tag, s) == {<<tag, k, s[k]>> : k \in 1..Len(s)}
ArgsOf(m) == {<<"args", i, m[i].args>> : i \in DOMAIN m}
BodiesOf(m) == {<<"body", i, m[i].body>> : i \in DOMAIN m}
StreamsOf(ss) == {<<"stream", k, ss[k].obj>> : k \in 1..Len(ss)}
ResultsOf(rs) == {<<"result", r.obj, r.obj>> : r \in rs}
PoolOf(pool) == {<<"pool", o, o>> : o \in pool}

Places == Listed("dir", include_dirs) \cup Listed("source", source_stack)
          \cup ArgsOf(Abstraction) \cup BodiesOf(Abstraction) \cup {<<"bufdef", 0, bufdef.args>>}
          \cup StreamsOf(streams) \cup ResultsOf(results) \cup PoolOf(pooled)

\* Each live object is at one place or lost, and only live ones are.
Accounted(P, live, lost) ==
    /\ \A h \in P : h[3] # 0 => h[3] \in live
    /\ \A g, h \in P : g[3] # 0 /\ g[3] = h[3] => g = h
    /\ \A o \in live : o \in lost \/ \E h \in P : h[3] = o

\* Objects are allocated and freed, and the places rem give way to the places add.
Moved(P, live, Q, rem, add, new, old, gone) ==
    /\ \A h : h \in Q <=> (h \in P /\ h \notin rem) \/ h \in add
    /\ rem \subseteq P
    /\ \A o \in new : o \notin live
    /\ \A g, h \in add : g[3] # 0 /\ g[3] = h[3] => g = h
    /\ \A g \in add : g[3] # 0 => g[3] \notin old /\ (g[3] \in new \/ \E h \in rem : h[3] = g[3])
    /\ \A h \in P : h \notin rem /\ h[3] # 0 => h[3] \notin old
    /\ \A h \in rem : h[3] # 0 => h[3] \in old \/ h[3] \in gone \/ \E g \in add : g[3] = h[3]
    /\ \A o \in new : o \in gone \/ \E g \in add : g[3] = o

LEMMA Change ==
    ASSUME NEW P, NEW live, NEW lost, Accounted(P, live, lost), 0 \notin live,
           NEW Q, NEW rem, NEW add, NEW new, NEW old, NEW gone, lost \subseteq gone,
           Moved(P, live, Q, rem, add, new, old, gone)
    PROVE  Accounted(Q, (live \cup new) \ old, gone)
<1>m. /\ \A h : h \in Q <=> (h \in P /\ h \notin rem) \/ h \in add
      /\ rem \subseteq P
      /\ \A o \in new : o \notin live
      /\ \A g, h \in add : g[3] # 0 /\ g[3] = h[3] => g = h
      /\ \A g \in add : g[3] # 0 => g[3] \notin old /\ (g[3] \in new \/ \E h \in rem : h[3] = g[3])
      /\ \A h \in P : h \notin rem /\ h[3] # 0 => h[3] \notin old
      /\ \A h \in rem : h[3] # 0 => h[3] \in old \/ h[3] \in gone \/ \E g \in add : g[3] = h[3]
      /\ \A o \in new : o \in gone \/ \E g \in add : g[3] = o
  BY DEF Moved
<1> USE <1>m
<1>1. ASSUME NEW h \in Q, h[3] # 0 PROVE h[3] \in (live \cup new) \ old
  BY <1>1 DEF Accounted
<1>2. ASSUME NEW g \in P, g \notin rem, NEW h \in add, g[3] # 0, g[3] = h[3] PROVE FALSE
  <2>1. CASE h[3] \in new
    BY <1>2, <2>1 DEF Accounted
  <2>2. CASE h[3] \notin new
    <3>1. PICK r \in rem : r[3] = h[3]
      BY <1>2, <2>2
    <3>2. r = g
      BY <1>2, <3>1 DEF Accounted
    <3> QED
      BY <1>2, <3>2
  <2> QED
    BY <2>1, <2>2
<1>3. ASSUME NEW g \in Q, NEW h \in Q, g[3] # 0, g[3] = h[3] PROVE g = h
  <2>1. CASE g \in add /\ h \in add
    BY <1>3, <2>1
  <2>2. CASE g \in add /\ h \notin add
    BY <1>2, <1>3, <2>2
  <2>3. CASE g \notin add /\ h \in add
    BY <1>2, <1>3, <2>3
  <2>4. CASE g \notin add /\ h \notin add
    BY <1>3, <2>4 DEF Accounted
  <2> QED
    BY <2>1, <2>2, <2>3, <2>4
<1>4. ASSUME NEW o \in (live \cup new) \ old PROVE o \in gone \/ \E h \in Q : h[3] = o
  <2>1. CASE o \in new
    BY <2>1
  <2>2. CASE o \in live
    <3>1. CASE o \in lost
      BY <3>1
    <3>2. CASE o \notin lost
      <4>1. PICK h \in P : h[3] = o
        BY <2>2, <3>2 DEF Accounted
      <4>2. CASE h \in rem
        BY <1>4, <2>2, <4>1, <4>2
      <4>3. CASE h \notin rem
        BY <4>1, <4>3
      <4> QED
        BY <4>2, <4>3
    <3> QED
      BY <3>1, <3>2
  <2> QED
    BY <1>4, <2>1, <2>2
<1> QED
  BY <1>1, <1>3, <1>4 DEF Accounted

\* Nothing but the lost objects changes.
LEMMA SamePlaces ==
    ASSUME NEW P, NEW live, NEW lost, Accounted(P, live, lost), 0 \notin live,
           NEW gone, lost \subseteq gone,
           NEW Q, \A h : h[3] # 0 => (h \in Q <=> h \in P)
    PROVE  Accounted(Q, live, gone)
<1>1. \A h \in Q : h[3] # 0 => h[3] \in live
  BY DEF Accounted
<1>2. \A g, h \in Q : g[3] # 0 /\ g[3] = h[3] => g = h
  BY DEF Accounted
<1>3. ASSUME NEW o \in live PROVE o \in gone \/ \E h \in Q : h[3] = o
  <2>1. CASE o \in lost
    BY <2>1
  <2>2. CASE o \notin lost
    <3>1. PICK h \in P : h[3] = o
      BY <2>2 DEF Accounted
    <3> QED
      BY <3>1
  <2> QED
    BY <2>1, <2>2
<1> QED
  BY <1>1, <1>2, <1>3 DEF Accounted

LEMMA ListedAppend ==
    ASSUME NEW tag, NEW S, NEW s \in Seq(S), NEW x \in S
    PROVE  \A h : h \in Listed(tag, Append(s, x)) <=> h \in Listed(tag, s) \/ h = <<tag, Len(s) + 1, x>>
<1> DEFINE t == Append(s, x)
<1>1. Len(s) \in Nat /\ Len(t) = Len(s) + 1 /\ t[Len(s) + 1] = x
      /\ \A k \in 1..Len(s) : t[k] = s[k]
  BY AppendProperties
<1> HIDE DEF t
<1>2. \A h : h \in Listed(tag, t) <=> h \in Listed(tag, s) \/ h = <<tag, Len(s) + 1, x>>
  <2> SUFFICES ASSUME NEW h
               PROVE  h \in Listed(tag, t) <=> h \in Listed(tag, s) \/ h = <<tag, Len(s) + 1, x>>
    OBVIOUS
  <2>1. ASSUME NEW k \in 1..Len(t), h = <<tag, k, t[k]>>
        PROVE  h \in Listed(tag, s) \/ h = <<tag, Len(s) + 1, x>>
    BY <1>1, <2>1 DEF Listed
  <2>2. ASSUME NEW k \in 1..Len(s), h = <<tag, k, s[k]>> PROVE h \in Listed(tag, t)
    <3>1. k \in 1..Len(t) /\ h = <<tag, k, t[k]>>
      BY <1>1, <2>2
    <3> QED
      BY <3>1 DEF Listed
  <2>3. ASSUME h = <<tag, Len(s) + 1, x>> PROVE h \in Listed(tag, t)
    <3>1. Len(s) + 1 \in 1..Len(t) /\ h = <<tag, Len(s) + 1, t[Len(s) + 1]>>
      BY <1>1, <2>3
    <3> QED
      BY <3>1 DEF Listed
  <2> QED
    BY <2>1, <2>2, <2>3 DEF Listed
<1> QED
  BY <1>2 DEF t

LEMMA ListedLeft ==
    ASSUME NEW tag, NEW S, NEW s \in Seq(S), Len(s) > 0
    PROVE  \A h : h \in Listed(tag, Left(s)) <=> h \in Listed(tag, s) /\ h # <<tag, Len(s), s[Len(s)]>>
<1> DEFINE t == Left(s)
<1>1. Len(s) \in Nat /\ Len(t) = Len(s) - 1 /\ \A k \in 1..(Len(s) - 1) : t[k] = s[k]
  BY LeftFacts
<1> HIDE DEF t
<1>2. \A h : h \in Listed(tag, t) <=> h \in Listed(tag, s) /\ h # <<tag, Len(s), s[Len(s)]>>
  <2> SUFFICES ASSUME NEW h
               PROVE  h \in Listed(tag, t) <=> h \in Listed(tag, s) /\ h # <<tag, Len(s), s[Len(s)]>>
    OBVIOUS
  <2>1. ASSUME NEW k \in 1..Len(t), h = <<tag, k, t[k]>>
        PROVE  h \in Listed(tag, s) /\ h # <<tag, Len(s), s[Len(s)]>>
    <3>1. k \in 1..Len(s) /\ h = <<tag, k, s[k]>> /\ k # Len(s)
      BY <1>1, <2>1
    <3> QED
      BY <3>1 DEF Listed
  <2>2. ASSUME NEW k \in 1..Len(s), h = <<tag, k, s[k]>>, h # <<tag, Len(s), s[Len(s)]>>
        PROVE  h \in Listed(tag, t)
    <3>1. k \in 1..Len(t) /\ h = <<tag, k, t[k]>>
      BY <1>1, <2>2
    <3> QED
      BY <3>1 DEF Listed
  <2> QED
    BY <2>1, <2>2 DEF Listed
<1> QED
  BY <1>2 DEF t

\* The first n streams stay, and one takes the place of the others.
LEMMA StreamsTop ==
    ASSUME NEW ss, NEW tt, NEW n \in Nat, Len(ss) \in Nat, n <= Len(ss), Len(tt) = n + 1,
           \A k \in 1..n : tt[k] = ss[k]
    PROVE  \A h : h \in StreamsOf(tt) <=> \/ h \in StreamsOf(ss) /\ h[2] \in 1..n
                                          \/ h = <<"stream", n + 1, tt[n + 1].obj>>
<1> SUFFICES ASSUME NEW h
             PROVE  h \in StreamsOf(tt) <=> \/ h \in StreamsOf(ss) /\ h[2] \in 1..n
                                            \/ h = <<"stream", n + 1, tt[n + 1].obj>>
  OBVIOUS
<1>1. ASSUME NEW k \in 1..Len(tt), h = <<"stream", k, tt[k].obj>>
      PROVE  \/ h \in StreamsOf(ss) /\ h[2] \in 1..n
             \/ h = <<"stream", n + 1, tt[n + 1].obj>>
  <2>1. CASE k = n + 1
    BY <1>1, <2>1
  <2>2. CASE k # n + 1
    <3>1. k \in 1..n /\ k \in 1..Len(ss) /\ h = <<"stream", k, ss[k].obj>> /\ h[2] = k
      BY <1>1, <2>2
    <3> QED
      BY <3>1 DEF StreamsOf
  <2> QED
    BY <2>1, <2>2
<1>2. ASSUME NEW k \in 1..Len(ss), h = <<"stream", k, ss[k].obj>>, h[2] \in 1..n
      PROVE  h \in StreamsOf(tt)
  <2>1. k \in 1..n
    BY <1>2
  <2>2. k \in 1..Len(tt) /\ h = <<"stream", k, tt[k].obj>>
    BY <1>2, <2>1
  <2> QED
    BY <2>2 DEF StreamsOf
<1>3. ASSUME h = <<"stream", n + 1, tt[n + 1].obj>> PROVE h \in StreamsOf(tt)
  <2>1. n + 1 \in 1..Len(tt)
    OBVIOUS
  <2> QED
    BY <1>3, <2>1 DEF StreamsOf
<1> QED
  BY <1>1, <1>2, <1>3 DEF StreamsOf

\* id gets the macro d.
LEMMA MacroPlaces ==
    ASSUME NEW m, NEW id, NEW d
    PROVE  /\ \A h : h \in ArgsOf(With(m, id, d)) <=>
                        (h \in ArgsOf(m) /\ h[2] # id) \/ h = <<"args", id, d.args>>
           /\ \A h : h \in BodiesOf(With(m, id, d)) <=>
                        (h \in BodiesOf(m) /\ h[2] # id) \/ h = <<"body", id, d.body>>
<1> DEFINE w == With(m, id, d)
<1>1. /\ \A j : j \in DOMAIN w <=> j \in DOMAIN m \/ j = id
      /\ w[id] = d /\ \A j \in DOMAIN m : j # id => w[j] = m[j]
  BY DEF With
<1> HIDE DEF w
<1>2. ASSUME NEW h
      PROVE  h \in ArgsOf(w) <=> (h \in ArgsOf(m) /\ h[2] # id) \/ h = <<"args", id, d.args>>
  BY <1>1 DEF ArgsOf
<1>3. ASSUME NEW h
      PROVE  h \in BodiesOf(w) <=> (h \in BodiesOf(m) /\ h[2] # id) \/ h = <<"body", id, d.body>>
  BY <1>1 DEF BodiesOf
<1> QED
  BY <1>2, <1>3 DEF w

\* Places of different kinds are different.
LEMMA Kinds ==
    /\ \A tag, s : \A h \in Listed(tag, s) : h[1] = tag
    /\ \A m : (\A h \in ArgsOf(m) : h[1] = "args") /\ (\A h \in BodiesOf(m) : h[1] = "body")
    /\ \A ss : \A h \in StreamsOf(ss) : h[1] = "stream"
    /\ \A rs : \A h \in ResultsOf(rs) : h[1] = "result"
    /\ \A pool : \A h \in PoolOf(pool) : h[1] = "pool"
BY DEF Listed, ArgsOf, BodiesOf, StreamsOf, ResultsOf, PoolOf

OwnInv == Accounted(Places, heap, history.lost)

LEMMA PlacesAre ==
    \A h : h \in Places <=> \/ h \in Listed("dir", include_dirs)
                            \/ h \in Listed("source", source_stack)
                            \/ h \in ArgsOf(Abstraction) \/ h \in BodiesOf(Abstraction)
                            \/ h = <<"bufdef", 0, bufdef.args>>
                            \/ h \in StreamsOf(streams)
                            \/ h \in ResultsOf(results) \/ h \in PoolOf(pooled)
BY DEF Places

LEMMA PlacesNext ==
    \A h : h \in Places' <=> \/ h \in Listed("dir", include_dirs')
                             \/ h \in Listed("source", source_stack')
                             \/ h \in ArgsOf(Abstraction') \/ h \in BodiesOf(Abstraction')
                             \/ h = <<"bufdef", 0, bufdef'.args>>
                             \/ h \in StreamsOf(streams')
                             \/ h \in ResultsOf(results') \/ h \in PoolOf(pooled')
BY DEF Places

\* What the prover needs to know of every place.
LEMMA KindsAre ==
    /\ \A h \in Listed("dir", include_dirs) : h[1] = "dir"
    /\ \A h \in Listed("source", source_stack) : h[1] = "source"
    /\ \A h \in ArgsOf(Abstraction) : h[1] = "args"
    /\ \A h \in BodiesOf(Abstraction) : h[1] = "body"
    /\ \A h \in StreamsOf(streams) : h[1] = "stream"
    /\ \A h \in ResultsOf(results) : h[1] = "result"
    /\ \A h \in PoolOf(pooled) : h[1] = "pool"
BY Kinds

LEMMA NotNull ==
    ASSUME TypeOK
    PROVE  0 \notin heap /\ fresh \in Nat /\ \A o \in heap : o # fresh + 1 /\ o # fresh + 2
BY StateType

\* Steps that touch no pointer.
LEMMA OwnKept ==
    ASSUME TypeOK, ShapeInv, OwnInv,
           UNCHANGED <<heap, include_dirs, source_stack, bufdef, data, bitset, streams, results, pooled>>,
           history'.lost = history.lost
    PROVE  OwnInv'
<1>1. Abstraction' = Abstraction
  BY MapKept
<1>2. Places' = Places
  BY <1>1 DEF Places
<1> QED
  BY <1>2 DEF OwnInv

LEMMA OwnStop ==
    ASSUME TypeOK, ShapeInv, OwnInv, NEW reason, Stop(reason)
    PROVE  OwnInv'
BY OwnKept DEF Stop

LEMMA OwnIncludeDir ==
    ASSUME TypeOK, ShapeInv, OwnInv, opt_include_dir
    PROVE  OwnInv'
<1> DEFINE add == {<<"dir", Len(include_dirs) + 1, fresh + 1>>}
<1>1. Allocate({fresh + 1}, {}) /\ include_dirs' = Append(include_dirs, fresh + 1)
      /\ UNCHANGED <<source_stack, bufdef, data, bitset, streams, results, pooled, history>>
  BY DEF opt_include_dir
<1>2. fresh + 1 \in Objects /\ heap' = (heap \cup {fresh + 1}) \ {}
  BY <1>1, OneObject
<1>3. Abstraction' = Abstraction
  BY <1>1, MapKept
<1>4. \A h : h \in Listed("dir", include_dirs') <=> h \in Listed("dir", include_dirs) \/ h \in add
  BY <1>1, <1>2, StateType, ListedAppend
<1>5. \A h : h \in Places' <=> (h \in Places /\ h \notin {}) \/ h \in add
  <2> HIDE DEF add
  <2> QED
    BY <1>1, <1>3, <1>4, PlacesAre, PlacesNext
<1>6. \A g \in add : g[3] = fresh + 1
  OBVIOUS
<1>7. \A g, h \in add : g = h
  OBVIOUS
<1>8. \E g \in add : g[3] = fresh + 1
  OBVIOUS
<1> HIDE DEF add
<1>9. Moved(Places, heap, Places', {}, add, {fresh + 1}, {}, history.lost)
  BY <1>5, <1>6, <1>7, <1>8, NotNull DEF Moved
<1>10. Accounted(Places', (heap \cup {fresh + 1}) \ {}, history.lost)
  BY <1>9, NotNull, Change DEF OwnInv
<1> QED
  BY <1>1, <1>2, <1>10 DEF OwnInv

LEMMA OwnMoved ==
    ASSUME TypeOK, OwnInv, NEW rem, NEW add, NEW new, NEW old,
           Moved(Places, heap, Places', rem, add, new, old, history'.lost),
           heap' = (heap \cup new) \ old, history.lost \subseteq history'.lost
    PROVE  OwnInv'
<1>1. Accounted(Places', (heap \cup new) \ old, history'.lost)
  BY NotNull, Change DEF OwnInv
<1> QED
  BY <1>1 DEF OwnInv

LEMMA OwnAddSource ==
    ASSUME TypeOK, ShapeInv, OwnInv, opt_add_source
    PROVE  OwnInv'
<1> DEFINE add == {<<"source", Len(source_stack) + 1, fresh + 1>>}
<1>1. Allocate({fresh + 1}, {}) /\ source_stack' = Append(source_stack, fresh + 1)
      /\ UNCHANGED <<include_dirs, bufdef, data, bitset, streams, results, pooled>>
  BY DEF opt_add_source
<1>2. fresh + 1 \in Objects /\ heap' = (heap \cup {fresh + 1}) \ {}
  BY <1>1, OneObject
<1>3. Abstraction' = Abstraction /\ history'.lost = history.lost
  BY <1>1, MapKept DEF opt_add_source, ShapeInv, History
<1>4. \A h : h \in Listed("source", source_stack') <=> h \in Listed("source", source_stack) \/ h \in add
  BY <1>1, <1>2, StateType, ListedAppend
<1>5. \A h : h \in Places' <=> (h \in Places /\ h \notin {}) \/ h \in add
  <2> HIDE DEF add
  <2> QED
    BY <1>1, <1>3, <1>4, PlacesAre, PlacesNext
<1>6. (\A g \in add : g[3] = fresh + 1) /\ (\A g, h \in add : g = h)
      /\ \E g \in add : g[3] = fresh + 1
  OBVIOUS
<1> HIDE DEF add
<1>7. Moved(Places, heap, Places', {}, add, {fresh + 1}, {}, history'.lost)
  BY <1>5, <1>6, NotNull DEF Moved
<1> QED
  BY <1>2, <1>3, <1>7, OwnMoved

LEMMA OwnFreeResult ==
    ASSUME TypeOK, ShapeInv, OwnInv, SharingInv, FreeResult
    PROVE  OwnInv'
<1>1. PICK r \in results : results' = results \ {r} /\ Release({r.obj})
  BY DEF FreeResult
<1>2. heap' = (heap \cup {}) \ {r.obj}
  BY <1>1, ReleaseFacts
<1>3. UNCHANGED <<include_dirs, source_stack, bufdef, data, bitset, streams, pooled, history>>
  BY DEF FreeResult
<1>4. Abstraction' = Abstraction
  BY <1>3, MapKept
<1> DEFINE it == <<"result", r.obj, r.obj>>
<1>5. it \in ResultsOf(results) /\ it \in Places /\ it[3] = r.obj
  BY PlacesAre DEF ResultsOf
<1>6. CASE r.obj = 0
  <2>1. \A h : h[3] # 0 => (h \in ResultsOf(results') <=> h \in ResultsOf(results))
    BY <1>1, <1>6 DEF ResultsOf
  <2>2. \A h : h[3] # 0 => (h \in Places' <=> h \in Places)
    BY <1>3, <1>4, <2>1, PlacesAre, PlacesNext
  <2>3. heap' = heap
    BY <1>2, <1>6, NotNull
  <2>4. Accounted(Places', heap, history.lost)
    BY <2>2, NotNull, SamePlaces DEF OwnInv
  <2> QED
    BY <1>3, <2>3, <2>4 DEF OwnInv
<1>7. CASE r.obj # 0
  <2>1. \A h : h \in ResultsOf(results') <=> h \in ResultsOf(results) /\ h # it
    <3> SUFFICES ASSUME NEW h
                 PROVE  h \in ResultsOf(results') <=> h \in ResultsOf(results) /\ h # it
      OBVIOUS
    <3>1. ASSUME NEW s \in results, s # r, h = <<"result", s.obj, s.obj>> PROVE h # it
      <4>1. s.obj # r.obj
        BY <1>7, <3>1 DEF SharingInv
      <4> QED
        BY <3>1, <4>1
    <3> QED
      BY <1>1, <3>1 DEF ResultsOf
  <2> HIDE DEF it
  <2>2. \A h : h \in Places' <=> (h \in Places /\ h \notin {it}) \/ h \in {}
    <3>1. it[1] = "result"
      BY <1>5, KindsAre
    <3> QED
      BY <1>3, <1>4, <2>1, <3>1, PlacesAre, PlacesNext, KindsAre
  <2>3. \A h \in Places : h \notin {it} /\ h[3] # 0 => h[3] \notin {r.obj}
    BY <1>5 DEF OwnInv, Accounted
  <2>4. Moved(Places, heap, Places', {it}, {}, {}, {r.obj}, history'.lost)
    BY <1>5, <2>2, <2>3 DEF Moved
  <2> QED
    BY <1>2, <1>3, <2>4, OwnMoved
<1> QED
  BY <1>6, <1>7

\* Errors lose the streams; DefineError may first push to bufdef.
LEMMA OwnError ==
    ASSUME TypeOK, ShapeInv, OwnInv, initiate_error,
           NEW args, args = bufdef.args \/ args = Pushed(bufdef.args),
           bufdef'.args = args, heap' = (heap \cup New(args)) \ {}
    PROVE  OwnInv'
<1> DEFINE rem == {h \in Places : h[1] \in {"stream", "bufdef"}}
<1> DEFINE add == {<<"bufdef", 0, args>>}
<1> DEFINE buf == <<"bufdef", 0, bufdef.args>>
<1>1. UNCHANGED <<include_dirs, source_stack, data, bitset, results, pooled>> /\ streams' = << >>
  BY DEF initiate_error
<1>2. history'.lost = history.lost \cup Owned(streams)
  BY DEF initiate_error, ShapeInv, History
<1>3. Abstraction' = Abstraction
  BY <1>1, MapKept
<1>4. StreamsOf(streams') = {}
  BY <1>1 DEF StreamsOf
<1>5. \A h : h \in Places' <=> (h \in Places /\ h \notin rem) \/ h \in add
  <2>1. buf[1] = "bufdef"
    OBVIOUS
  <2>2. \A h : h \in rem <=> h \in StreamsOf(streams) \/ h = buf
    BY <2>1, PlacesAre, KindsAre
  <2> HIDE DEF rem, buf
  <2>3. \A h : h \in Places /\ h \notin rem <=>
              \/ h \in Listed("dir", include_dirs) \/ h \in Listed("source", source_stack)
              \/ h \in ArgsOf(Abstraction) \/ h \in BodiesOf(Abstraction)
              \/ h \in ResultsOf(results) \/ h \in PoolOf(pooled)
    BY <2>1, <2>2, PlacesAre, KindsAre DEF buf
  <2> QED
    BY <1>1, <1>3, <1>4, <2>3, PlacesNext
<1>6. rem \subseteq Places
  OBVIOUS
<1>7. \A h \in rem : h[3] # 0 => h[3] \in Owned(streams) \/ h = buf
  <2>1. \A h \in StreamsOf(streams) : h[3] # 0 => h[3] \in Owned(streams)
    BY DEF StreamsOf, Owned
  <2> QED
    BY <2>1, PlacesAre, KindsAre
<1>8. buf \in rem /\ buf[3] = bufdef.args
  BY PlacesAre
<1>9. (\A g \in add : g[3] = args) /\ (\A g, h \in add : g = h) /\ \E g \in add : g[3] = args
  OBVIOUS
<1>10. args # 0 => args \in New(args) \/ args = bufdef.args
  <2>1. CASE args = bufdef.args
    BY <2>1
  <2>2. CASE args # bufdef.args
    BY <2>2, BufdefFacts, PushedFacts
  <2> QED
    BY <2>1, <2>2
<1>11. bufdef.args # 0 => args = bufdef.args
  BY BufdefFacts, PushedFacts
<1>12. \A o \in New(args) : o \notin heap /\ o = args
  BY DEF New
<1> HIDE DEF rem, add, buf
<1>13. Moved(Places, heap, Places', rem, add, New(args), {}, history'.lost)
  <2>1. \A g \in add : g[3] # 0 => g[3] \notin {} /\ (g[3] \in New(args) \/ \E h \in rem : h[3] = g[3])
    BY <1>8, <1>9, <1>10
  <2>2. \A h \in rem : h[3] # 0 => h[3] \in {} \/ h[3] \in history'.lost \/ \E g \in add : g[3] = h[3]
    BY <1>2, <1>7, <1>8, <1>9, <1>11
  <2>3. \A o \in New(args) : o \in history'.lost \/ \E g \in add : g[3] = o
    BY <1>9, <1>12
  <2> QED
    BY <1>5, <1>6, <1>9, <1>12, <2>1, <2>2, <2>3 DEF Moved
<1> QED
  BY <1>2, <1>13, OwnMoved

LEMMA BufdefIsLive ==
    ASSUME TypeOK, OwnInv
    PROVE  bufdef.args \in heap \cup {0} /\ New(bufdef.args) = {}
<1>1. <<"bufdef", 0, bufdef.args>> \in Places
  BY PlacesAre
<1>2. bufdef.args # 0 => bufdef.args \in heap
  BY <1>1 DEF OwnInv, Accounted
<1> QED
  BY <1>2 DEF New

LEMMA OwnErrors ==
    ASSUME TypeOK, ShapeInv, OwnInv, initiate_error, UNCHANGED <<bufdef, heap>>
    PROVE  OwnInv'
<1>1. heap' = (heap \cup New(bufdef.args)) \ {}
  BY BufdefIsLive
<1> QED
  BY <1>1, OwnError

LEMMA OwnDefineError ==
    ASSUME TypeOK, ShapeInv, OwnInv, DefineError
    PROVE  OwnInv'
<1>1. PICK args \in OrNull(Objects) :
              /\ args = bufdef.args \/ args = Pushed(bufdef.args)
              /\ Allocate(New(args), {}) /\ bufdef'.args = args
  BY DefineErrorFacts
<1>2. heap' = (heap \cup New(args)) \ {}
  BY <1>1, AllocateFacts
<1> QED
  BY <1>1, <1>2, OwnError DEF DefineError

LEMMA OwnInclude ==
    ASSUME TypeOK, ShapeInv, OwnInv, Include
    PROVE  OwnInv'
<1>1. PICK f \in Files, mem \in {0, fresh + 2} :
              /\ Allocate({fresh + 1, mem} \ {0}, {})
              /\ pooled' = pooled \cup ({mem} \ {0})
              /\ fresh + 1 \in Objects
  BY IncludeFacts
<1>2. source_stack' = Append(source_stack, fresh + 1)
      /\ UNCHANGED <<include_dirs, bufdef, data, bitset, streams, results, history>>
  BY DEF Include
<1> DEFINE src == <<"source", Len(source_stack) + 1, fresh + 1>>
<1> DEFINE add == {src} \cup PoolOf({mem} \ {0})
<1> DEFINE new == {fresh + 1, mem} \ {0}
<1>3. Abstraction' = Abstraction
  BY <1>2, MapKept
<1>4. \A h : h \in Listed("source", source_stack') <=> h \in Listed("source", source_stack) \/ h = src
  BY <1>1, <1>2, StateType, ListedAppend
<1>5. \A h : h \in PoolOf(pooled') <=> h \in PoolOf(pooled) \/ h \in PoolOf({mem} \ {0})
  BY <1>1 DEF PoolOf
<1>6. \A h : h \in Places' <=> (h \in Places /\ h \notin {}) \/ h \in add
  <2>1. \A h : h \in add <=> h = src \/ h \in PoolOf({mem} \ {0})
    OBVIOUS
  <2> HIDE DEF src, add
  <2> QED
    BY <1>2, <1>3, <1>4, <1>5, <2>1, PlacesAre, PlacesNext
<1>7. heap' = (heap \cup new) \ {}
  BY <1>1, AllocateFacts
<1>8. \A o \in new : o \notin heap
  BY NotNull
<1>9. \A h \in PoolOf({mem} \ {0}) : h[3] = mem /\ mem # 0 /\ mem = fresh + 2 /\ h = <<"pool", mem, mem>>
  BY DEF PoolOf
<1>10. src[3] = fresh + 1 /\ fresh + 1 # fresh + 2
  BY NotNull
<1>11. \A g \in add : g[3] \in new
  <2> HIDE DEF src
  <2> QED
    BY <1>9, <1>10, NotNull
<1>12. \A g, h \in add : g[3] = h[3] => g = h
  <2> HIDE DEF src
  <2> QED
    BY <1>9, <1>10
<1>13. \A o \in new : \E g \in add : g[3] = o
  <2>1. src \in add
    OBVIOUS
  <2>2. mem # 0 => \E g \in add : g[3] = mem
    <3> SUFFICES ASSUME mem # 0 PROVE \E g \in add : g[3] = mem
      OBVIOUS
    <3>1. <<"pool", mem, mem>> \in PoolOf({mem} \ {0})
      BY DEF PoolOf
    <3>2. <<"pool", mem, mem>> \in add /\ <<"pool", mem, mem>>[3] = mem
      BY <3>1
    <3> QED
      BY <3>2
  <2> HIDE DEF add, src
  <2> QED
    BY <1>10, <2>1, <2>2
<1> HIDE DEF add, new, src
<1>14. Moved(Places, heap, Places', {}, add, new, {}, history'.lost)
  BY <1>6, <1>8, <1>11, <1>12, <1>13 DEF Moved
<1> QED
  BY <1>2, <1>7, <1>14, OwnMoved

\* The last source, which is freed.
LEMMA LastSource ==
    ASSUME TypeOK, OwnInv, source_stack # << >>
    PROVE  LET it == <<"source", Len(source_stack), Last(source_stack)>> IN
           /\ Len(source_stack) > 0 /\ Len(source_stack) \in Nat
           /\ Last(source_stack) = source_stack[Len(source_stack)]
           /\ it \in Listed("source", source_stack) /\ it \in Places
           /\ Last(source_stack) \in heap /\ Last(source_stack) # 0 /\ Last(source_stack) # fresh + 1
           /\ \A h \in Places : h[3] = Last(source_stack) => h = it
           /\ \A h : h \in Listed("source", Left(source_stack)) <=>
                        h \in Listed("source", source_stack) /\ h # it
<1> DEFINE it == <<"source", Len(source_stack), Last(source_stack)>>
<1>1. Len(source_stack) > 0 /\ Len(source_stack) \in Nat
  BY StateType, EmptySeq
<1>2. Last(source_stack) = source_stack[Len(source_stack)] /\ Last(source_stack) \in Objects
  BY <1>1, StateType, LastFacts
<1>3. it \in Listed("source", source_stack)
  BY <1>1, <1>2 DEF Listed
<1>4. it \in Places /\ it[3] = Last(source_stack)
  BY <1>3, PlacesAre
<1>5. Last(source_stack) # 0
  BY <1>2 DEF Objects
<1>6. Last(source_stack) \in heap
  BY <1>4, <1>5 DEF OwnInv, Accounted
<1>7. \A h \in Places : h[3] = Last(source_stack) => h = it
  BY <1>4, <1>5 DEF OwnInv, Accounted
<1>8. \A h : h \in Listed("source", Left(source_stack)) <=>
                h \in Listed("source", source_stack) /\ h # it
  BY <1>1, <1>2, StateType, ListedLeft
<1> QED
  BY <1>1, <1>2, <1>3, <1>4, <1>5, <1>6, <1>7, <1>8, NotNull

LEMMA OwnReturn ==
    ASSUME TypeOK, ShapeInv, StageInv, OwnInv, ReturnToIncluder
    PROVE  OwnInv'
<1> DEFINE it == <<"source", Len(source_stack), Last(source_stack)>>
<1>1. source_stack # << >>
  BY StateType, EmptySeq DEF ReturnToIncluder, StageInv
<1>2. /\ it \in Places /\ it \in Listed("source", source_stack)
      /\ \A h \in Places : h[3] = Last(source_stack) => h = it
      /\ \A h : h \in Listed("source", Left(source_stack)) <=>
                   h \in Listed("source", source_stack) /\ h # it
  BY <1>1, LastSource
<1>3. it[3] = Last(source_stack) /\ it[1] = "source"
  OBVIOUS
<1>4. source_stack' = Left(source_stack) /\ Release({Last(source_stack)})
      /\ UNCHANGED <<include_dirs, bufdef, data, bitset, streams, results, pooled, history>>
  BY DEF ReturnToIncluder
<1>5. Abstraction' = Abstraction
  BY <1>4, MapKept
<1>6. heap' = (heap \cup {}) \ {Last(source_stack)}
  BY <1>4, ReleaseFacts
<1> HIDE DEF it
<1>7. \A h : h \in Places' <=> (h \in Places /\ h \notin {it}) \/ h \in {}
  BY <1>2, <1>3, <1>4, <1>5, PlacesAre, PlacesNext, KindsAre
<1>8. Moved(Places, heap, Places', {it}, {}, {}, {Last(source_stack)}, history'.lost)
  BY <1>2, <1>3, <1>7 DEF Moved
<1> QED
  BY <1>4, <1>6, <1>8, OwnMoved

LEMMA OwnEndPp1 ==
    ASSUME TypeOK, ShapeInv, StageInv, OwnInv, EndPp1
    PROVE  OwnInv'
<1> DEFINE it == <<"source", Len(source_stack), Last(source_stack)>>
<1> DEFINE text == <<"source", Len(source_stack), fresh + 1>>
<1> DEFINE none == <<"stream", 1, 0>>
<1>1. source_stack # << >> /\ streams = << >>
  BY StateType, EmptySeq DEF EndPp1, StageInv
<1>2. /\ it \in Places /\ it \in Listed("source", source_stack) /\ Len(source_stack) > 0
      /\ Last(source_stack) # fresh + 1
      /\ \A h \in Places : h[3] = Last(source_stack) => h = it
      /\ \A h : h \in Listed("source", Left(source_stack)) <=>
                   h \in Listed("source", source_stack) /\ h # it
  BY <1>1, LastSource
<1>3. it[3] = Last(source_stack) /\ it[1] = "source" /\ text[3] = fresh + 1 /\ none[3] = 0
  OBVIOUS
<1>4. /\ source_stack' = Append(Left(source_stack), fresh + 1)
      /\ Allocate({fresh + 1}, {Last(source_stack)}) /\ streams' = <<NewStream({fresh + 1})>>
      /\ UNCHANGED <<include_dirs, bufdef, data, bitset, results, pooled>>
  BY DEF EndPp1
<1>5. Abstraction' = Abstraction /\ history'.lost = history.lost
  BY <1>4, MapKept DEF EndPp1, ShapeInv, History
<1>6. heap' = (heap \cup {fresh + 1}) \ {Last(source_stack)} /\ fresh + 1 \in Objects
  BY <1>4, OneObject
<1>7. \A h : h \in Listed("source", source_stack') <=>
                (h \in Listed("source", source_stack) /\ h # it) \/ h = text
  <2>1. Left(source_stack) \in Seq(Objects) /\ Len(Left(source_stack)) + 1 = Len(source_stack)
    BY <1>2, StateType, LeftFacts
  <2>2. \A h : h \in Listed("source", source_stack') <=>
                  h \in Listed("source", Left(source_stack)) \/ h = text
    BY <1>4, <1>6, <2>1, ListedAppend
  <2> QED
    BY <1>2, <2>2
<1>8. StreamsOf(streams) = {} /\ \A h : h \in StreamsOf(streams') <=> h = none
  <2>1. Len(streams') = 1 /\ streams'[1] = NewStream({fresh + 1})
    BY <1>4
  <2>2. streams'[1].obj = 0
    BY <2>1 DEF NewStream
  <2> QED
    BY <1>1, <2>1, <2>2 DEF StreamsOf
<1>9. \A g \in {text, none} : g[3] = 0 \/ g = text
  OBVIOUS
<1> HIDE DEF it, text, none
<1>10. \A h : h \in Places' <=> (h \in Places /\ h \notin {it}) \/ h \in {text, none}
  BY <1>2, <1>3, <1>4, <1>5, <1>7, <1>8, PlacesAre, PlacesNext, KindsAre
<1>11. Moved(Places, heap, Places', {it}, {text, none}, {fresh + 1}, {Last(source_stack)}, history'.lost)
  BY <1>2, <1>3, <1>9, <1>10, NotNull DEF Moved
<1> QED
  BY <1>5, <1>6, <1>11, OwnMoved

\* The streams after the n-th give way to one, whose memory is obj.
StreamsMoved(n, obj, new, old) ==
    /\ n <= Len(streams) /\ Len(streams') = n + 1
    /\ \A k \in 1..n : streams'[k] = streams[k]
    /\ streams'[n + 1].obj = obj
    /\ heap' = (heap \cup new) \ old
    /\ \A o \in new : o \notin heap /\ o = obj
    /\ obj # 0 => obj \notin old /\ (obj \in new \/ \E k \in (n + 1)..Len(streams) : streams[k].obj = obj)
    /\ \A k \in (n + 1)..Len(streams) :
          streams[k].obj # 0 => streams[k].obj \in old \/ streams[k].obj = obj
    /\ \A o \in old : o # 0 => \E k \in (n + 1)..Len(streams) : streams[k].obj = o

LEMMA OwnStreams ==
    ASSUME TypeOK, ShapeInv, OwnInv, NEW n \in Nat, NEW obj, NEW new, NEW old,
           StreamsMoved(n, obj, new, old),
           UNCHANGED <<include_dirs, source_stack, bufdef, results, pooled>>,
           Abstraction' = Abstraction, history'.lost = history.lost
    PROVE  OwnInv'
<1>m. /\ n <= Len(streams) /\ Len(streams') = n + 1
      /\ \A k \in 1..n : streams'[k] = streams[k]
      /\ streams'[n + 1].obj = obj
      /\ heap' = (heap \cup new) \ old
      /\ \A o \in new : o \notin heap /\ o = obj
      /\ obj # 0 => obj \notin old /\ (obj \in new \/ \E k \in (n + 1)..Len(streams) : streams[k].obj = obj)
      /\ \A k \in (n + 1)..Len(streams) :
            streams[k].obj # 0 => streams[k].obj \in old \/ streams[k].obj = obj
      /\ \A o \in old : o # 0 => \E k \in (n + 1)..Len(streams) : streams[k].obj = o
  BY DEF StreamsMoved
<1> USE <1>m
<1> DEFINE rem == {h \in StreamsOf(streams) : h[2] \notin 1..n}
<1> DEFINE top == <<"stream", n + 1, obj>>
<1>1. Len(streams) \in Nat
  BY Lengths
<1>2. \A h : h \in StreamsOf(streams') <=> (h \in StreamsOf(streams) /\ h \notin rem) \/ h = top
  <2>1. \A h : h \in StreamsOf(streams') <=> \/ h \in StreamsOf(streams) /\ h[2] \in 1..n
                                             \/ h = <<"stream", n + 1, streams'[n + 1].obj>>
    BY <1>1, StreamsTop
  <2> QED
    BY <2>1
<1>3. rem \subseteq Places /\ \A h \in rem : h[1] = "stream"
  BY PlacesAre, KindsAre
<1>4. \A h : h \in Places' <=> (h \in Places /\ h \notin rem) \/ h \in {top}
  <2> HIDE DEF rem, top
  <2> QED
    BY <1>2, <1>3, PlacesAre, PlacesNext, KindsAre
<1>5. \A h \in rem : \E k \in (n + 1)..Len(streams) : h = <<"stream", k, streams[k].obj>>
  BY <1>1 DEF StreamsOf
<1>6. ASSUME NEW k \in (n + 1)..Len(streams)
      PROVE  \E h \in rem : h[3] = streams[k].obj
  <2> DEFINE h == <<"stream", k, streams[k].obj>>
  <2>1. k \in 1..Len(streams) /\ k \notin 1..n
    BY <1>1
  <2>2. h \in StreamsOf(streams) /\ h[2] = k /\ h[3] = streams[k].obj
    BY <2>1 DEF StreamsOf
  <2> QED
    BY <2>1, <2>2
<1>7. top[3] = obj
  OBVIOUS
<1>8. \A h \in rem : h[3] # 0 => h[3] \in old \/ h[3] = obj
  BY <1>5
<1> HIDE DEF rem, top
<1>9. \A h \in Places : h \notin rem /\ h[3] # 0 => h[3] \notin old
  <2> SUFFICES ASSUME NEW h \in Places, h \notin rem, h[3] # 0, h[3] \in old PROVE FALSE
    OBVIOUS
  <2>1. PICK g \in rem : g[3] = h[3]
    BY <1>6
  <2>2. g = h
    BY <2>1, <1>3 DEF OwnInv, Accounted
  <2> QED
    BY <2>1, <2>2
<1>10. obj # 0 => obj \notin old /\ (obj \in new \/ \E h \in rem : h[3] = obj)
  BY <1>6
<1>11. Moved(Places, heap, Places', rem, {top}, new, old, history'.lost)
  BY <1>3, <1>4, <1>7, <1>8, <1>9, <1>10 DEF Moved
<1> QED
  BY <1>11, OwnMoved

\* A stream's memory is live.
LEMMA StreamIsLive ==
    ASSUME TypeOK, OwnInv, NEW k \in 1..Len(streams)
    PROVE  streams[k].obj \in heap \cup {0} /\ New(streams[k].obj) = {}
<1>1. <<"stream", k, streams[k].obj>> \in StreamsOf(streams)
  BY DEF StreamsOf
<1>2. <<"stream", k, streams[k].obj>> \in Places
  BY <1>1, PlacesAre
<1>3. streams[k].obj # 0 => streams[k].obj \in heap
  BY <1>2 DEF OwnInv, Accounted
<1> QED
  BY <1>3 DEF New

\* The streams below the one on top.
LEMMA TopReplaced ==
    ASSUME TypeOK, NEW x, Len(streams) > 0, streams' = Append(Left(streams), x)
    PROVE  /\ Len(streams') = Len(streams) /\ streams'[Len(streams)] = x
           /\ \A k \in 1..(Len(streams) - 1) : streams'[k] = streams[k]
<1>1. /\ Len(streams) \in Nat /\ Left(streams) \in Seq(Stream) /\ Len(Left(streams)) = Len(streams) - 1
      /\ \A k \in 1..(Len(streams) - 1) : Left(streams)[k] = streams[k]
  BY StateType, Lengths, LeftFacts
<1> DEFINE s == Left(streams)
<1> HIDE DEF s
<1>2. s \in Seq(Stream) /\ Len(s) \in Nat /\ streams' = Append(s, x)
  BY <1>1 DEF s
<1>3. Len(streams') = Len(s) + 1 /\ streams'[Len(s) + 1] = x /\ \A k \in 1..Len(s) : streams'[k] = s[k]
  BY <1>2
<1> QED
  BY <1>1, <1>3 DEF s

LEMMA OwnPush ==
    ASSUME TypeOK, ShapeInv, StageInv, OwnInv, Push
    PROVE  OwnInv'
<1> DEFINE obj == Pushed(Running.obj)
<1> DEFINE n == Len(streams) - 1
<1> DEFINE top == [obj |-> obj, views |-> Running.views \cup Running.from, from |-> Running.from]
<1>1. Allocate(New(obj), {}) /\ obj \in Objects /\ streams' = Append(Left(streams), top)
  BY PushFacts
<1>2. /\ Len(streams) \in Nat /\ Len(streams) > 0 /\ Running = streams[Len(streams)]
      /\ Running.obj \in OrNull(Objects)
  BY RunningFacts DEF Push
<1>3. n \in Nat /\ n + 1 = Len(streams) /\ Len(streams') = n + 1 /\ streams'[n + 1] = top
      /\ \A k \in 1..n : streams'[k] = streams[k]
  BY <1>1, <1>2, TopReplaced
<1>4. top.obj = obj
  OBVIOUS
<1>5. Abstraction' = Abstraction
  BY PushMap
<1>6. UNCHANGED <<include_dirs, source_stack, bufdef, results, pooled, history>>
  BY DEF Push
<1>7. heap' = (heap \cup New(obj)) \ {}
  BY <1>1, AllocateFacts
<1>8. obj \in New(obj) \/ Running.obj = obj
  <2>1. CASE Running.obj = 0
    BY <2>1, <1>2, PushedFacts
  <2>2. CASE Running.obj # 0
    BY <2>2, <1>2, PushedFacts
  <2> QED
    BY <2>1, <2>2
<1>9. Running.obj # 0 => Running.obj = obj
  BY <1>2, PushedFacts
<1>10. \A o \in New(obj) : o \notin heap /\ o = obj
  BY DEF New
<1> HIDE DEF obj, n, top
<1>11. \A k \in (n + 1)..Len(streams) : streams[k] = Running
  BY <1>2, <1>3
<1>12. n + 1 \in (n + 1)..Len(streams)
  BY <1>2, <1>3
<1>13. obj \in New(obj) \/ \E k \in (n + 1)..Len(streams) : streams[k].obj = obj
  BY <1>8, <1>11, <1>12
<1>14. \A k \in (n + 1)..Len(streams) : streams[k].obj # 0 => streams[k].obj \in {} \/ streams[k].obj = obj
  BY <1>9, <1>11
<1>15. n <= Len(streams) /\ streams'[n + 1].obj = obj
  BY <1>2, <1>3, <1>4
<1>16. StreamsMoved(n, obj, New(obj), {})
  BY <1>3, <1>7, <1>10, <1>13, <1>14, <1>15 DEF StreamsMoved
<1> QED
  BY <1>3, <1>5, <1>6, <1>16, OwnStreams

LEMMA OwnBeginUse ==
    ASSUME TypeOK, ShapeInv, OwnInv, BeginUse
    PROVE  OwnInv'
<1>1. PICK id \in Ids : Has(id) /\ streams' = Append(streams, NewStream(Get(id).views))
  BY BeginUseFacts
<1> DEFINE n == Len(streams)
<1>2. n \in Nat /\ streams \in Seq(Stream)
  BY StateType, Lengths
<1>3. NewStream(Get(id).views) \in Stream /\ NewStream(Get(id).views).obj = 0
  BY <1>1, MacroFacts DEF NewStream, Stream, OrNull
<1>4. Len(streams') = n + 1 /\ streams'[n + 1] = NewStream(Get(id).views)
      /\ \A k \in 1..n : streams'[k] = streams[k]
  BY <1>1, <1>2, <1>3, AppendProperties
<1>5. UNCHANGED <<include_dirs, source_stack, bufdef, results, pooled, history, heap, data, bitset>>
  BY DEF BeginUse
<1>6. Abstraction' = Abstraction
  BY <1>5, MapKept
<1>7. n <= Len(streams) /\ \A k \in (n + 1)..Len(streams) : FALSE
  BY <1>2
<1>8. heap' = (heap \cup {}) \ {}
  BY <1>5
<1> HIDE DEF n
<1>9. StreamsMoved(n, 0, {}, {})
  BY <1>3, <1>4, <1>7, <1>8 DEF StreamsMoved
<1> QED
  BY <1>2, <1>5, <1>6, <1>9, OwnStreams

LEMMA OwnEndUse ==
    ASSUME TypeOK, ShapeInv, StageInv, OwnInv, EndUse
    PROVE  OwnInv'
<1> DEFINE outer == streams[Len(streams) - 1]
<1> DEFINE obj == IF Running.obj = 0 THEN outer.obj ELSE Pushed(outer.obj)
<1> DEFINE top == [obj |-> obj, views |-> outer.views \cup Running.views, from |-> outer.from]
<1> DEFINE n == Len(streams) - 2
<1>1. /\ Len(streams) \in Nat /\ Len(streams) > 1 /\ outer.obj \in OrNull(Objects)
      /\ Allocate(New(obj), {Running.obj})
      /\ streams' = Append(Left(Left(streams)), top)
  BY EndUseFacts
<1>2. n \in Nat /\ n + 1 = Len(streams) - 1 /\ n + 2 = Len(streams)
  BY <1>1
<1> HIDE DEF n
<1>3. Running = streams[Len(streams)]
  BY DEF Running
<1>4. \A k \in (n + 1)..Len(streams) : streams[k] = outer \/ streams[k] = Running
  <2>1. \A k \in (n + 1)..Len(streams) : k = Len(streams) - 1 \/ k = Len(streams)
    <3> HIDE DEF outer, obj, top
    <3> QED
      BY <1>2
  <2> QED
    BY <2>1, <1>3
<1>5. /\ n + 1 \in (n + 1)..Len(streams) /\ streams[n + 1] = outer
      /\ Len(streams) \in (n + 1)..Len(streams)
  BY <1>1, <1>2
<1>6. Len(streams') = n + 1 /\ streams'[n + 1] = top /\ \A k \in 1..n : streams'[k] = streams[k]
  <2> DEFINE s == Left(streams)
  <2>1. s \in Seq(Stream) /\ Len(s) = n + 1 /\ \A k \in 1..(n + 1) : s[k] = streams[k]
    <3> HIDE DEF outer, obj, top
    <3>1. streams \in Seq(Stream) /\ Len(streams) > 0 /\ Len(streams) - 1 = n + 1
      BY <1>1, <1>2, StateType
    <3>2. s \in Seq(Stream) /\ Len(s) = Len(streams) - 1
          /\ \A k \in 1..(Len(streams) - 1) : s[k] = streams[k]
      BY <3>1, LeftFacts
    <3> HIDE DEF s
    <3> QED
      BY <3>1, <3>2
  <2> DEFINE r == Left(s)
  <2>3. streams' = Append(r, top)
    BY <1>1
  <2> HIDE DEF s, outer, obj, top
  <2>2. r \in Seq(Stream) /\ Len(r) = n /\ \A k \in 1..n : r[k] = s[k]
    <3>1. Len(s) > 0 /\ Len(s) - 1 = n
      BY <1>2, <2>1
    <3>2. r \in Seq(Stream) /\ Len(r) = Len(s) - 1 /\ \A k \in 1..(Len(s) - 1) : r[k] = s[k]
      BY <3>1, <2>1, LeftFacts
    <3> HIDE DEF r
    <3> QED
      BY <3>1, <3>2
  <2> HIDE DEF r
  <2>4. Len(streams') = n + 1 /\ streams'[n + 1] = top /\ \A k \in 1..n : streams'[k] = r[k]
    BY <1>2, <2>2, <2>3
  <2> QED
    BY <1>2, <2>1, <2>2, <2>4
<1>7. top.obj = obj
  OBVIOUS
<1>8. heap' = (heap \cup New(obj)) \ {Running.obj}
  BY <1>1, AllocateFacts
<1>9. outer.obj \in heap \cup {0} /\ New(outer.obj) = {} /\ Running.obj \in heap \cup {0}
  <2> HIDE DEF outer, n
  <2>1. n + 1 \in 1..Len(streams) /\ Len(streams) \in 1..Len(streams)
    BY <1>1, <1>2
  <2> QED
    BY <1>3, <1>5, <2>1, StreamIsLive
<1>10. outer.obj # 0 => outer.obj # Running.obj
  <2> DEFINE g == <<"stream", n + 1, streams[n + 1].obj>>
  <2> DEFINE h == <<"stream", n + 2, streams[n + 2].obj>>
  <2> HIDE DEF outer, obj, top
  <2>1. n + 1 \in 1..Len(streams) /\ n + 2 \in 1..Len(streams)
    BY <1>1, <1>2
  <2>2. g \in StreamsOf(streams) /\ h \in StreamsOf(streams)
    BY <2>1 DEF StreamsOf
  <2>3. g \in Places /\ h \in Places
    BY <2>2, PlacesAre
  <2>4. g[2] = n + 1 /\ h[2] = n + 2 /\ g[3] = streams[n + 1].obj /\ h[3] = streams[n + 2].obj
    OBVIOUS
  <2>5. streams[n + 1].obj = outer.obj /\ streams[n + 2].obj = Running.obj /\ n + 1 # n + 2
    BY <1>2, <1>3, <1>5
  <2> HIDE DEF g, h
  <2> QED
    BY <2>3, <2>4, <2>5 DEF OwnInv, Accounted
<1>11. outer.obj # 0 => obj = outer.obj
  BY <1>1, PushedFacts
<1>12. obj # 0 => obj \notin {Running.obj} /\ (obj \in New(obj) \/ outer.obj = obj)
  <2>1. CASE outer.obj # 0
    BY <2>1, <1>10, <1>11
  <2>2. CASE outer.obj = 0 /\ Running.obj = 0
    BY <2>2
  <2>3. CASE outer.obj = 0 /\ Running.obj # 0
    <3>1. obj = fresh + 1 /\ New(obj) = {fresh + 1}
      BY <2>3, <1>1, PushedFacts
    <3> QED
      BY <3>1, <1>9, NotNull
  <2> QED
    BY <2>1, <2>2, <2>3
<1>13. \A o \in New(obj) : o \notin heap /\ o = obj
  BY DEF New
<1>14. Abstraction' = Abstraction
  BY MapKept DEF EndUse
<1>15. UNCHANGED <<include_dirs, source_stack, bufdef, results, pooled, history>>
  BY DEF EndUse
<1> HIDE DEF outer, obj, top
<1>16. obj # 0 => /\ obj \notin {Running.obj}
                  /\ (obj \in New(obj) \/ \E k \in (n + 1)..Len(streams) : streams[k].obj = obj)
  BY <1>5, <1>12
<1>17. \A k \in (n + 1)..Len(streams) :
          streams[k].obj # 0 => streams[k].obj \in {Running.obj} \/ streams[k].obj = obj
  BY <1>4, <1>11
<1>18. \A o \in {Running.obj} : o # 0 => \E k \in (n + 1)..Len(streams) : streams[k].obj = o
  BY <1>3, <1>5
<1>19. n <= Len(streams) /\ streams'[n + 1].obj = obj
  BY <1>1, <1>2, <1>6, <1>7
<1>20. StreamsMoved(n, obj, New(obj), {Running.obj})
  BY <1>6, <1>8, <1>13, <1>16, <1>17, <1>18, <1>19 DEF StreamsMoved
<1> QED
  BY <1>2, <1>14, <1>15, <1>20, OwnStreams

LEMMA OwnEndPp2 ==
    ASSUME TypeOK, ShapeInv, StageInv, OwnInv, EndPp2
    PROVE  OwnInv'
<1> DEFINE add == {<<"result", Running.obj, Running.obj>>}
<1>1. Len(streams) = 1 /\ Running = streams[1]
  BY DEF EndPp2, Outermost, Running
<1>2. streams' = << >> /\ results' = results \cup {[obj |-> Running.obj, views |-> Running.views]}
  BY DEF EndPp2, Result
<1>3. UNCHANGED <<include_dirs, source_stack, bufdef, data, bitset, pooled, heap>>
  BY DEF EndPp2
<1>4. Abstraction' = Abstraction /\ history'.lost = history.lost
  BY <1>3, MapKept DEF EndPp2, ShapeInv, History
<1>5. StreamsOf(streams') = {}
  BY <1>2 DEF StreamsOf
<1>6. \A h : h \in ResultsOf(results') <=> h \in ResultsOf(results) \/ h \in add
  <2> DEFINE new == [obj |-> Running.obj, views |-> Running.views]
  <2>1. new.obj = Running.obj
    OBVIOUS
  <2>2. results' = results \cup {new}
    BY <1>2
  <2> HIDE DEF new
  <2> QED
    BY <2>1, <2>2 DEF ResultsOf
<1> DEFINE rem == StreamsOf(streams)
<1>7. rem \subseteq Places /\ \A h \in rem : h[1] = "stream"
  BY PlacesAre, KindsAre
<1>8. (\A h \in rem : h[3] = Running.obj) /\ \E h \in rem : h[3] = Running.obj
  <2> DEFINE it == <<"stream", 1, Running.obj>>
  <2>1. \A h : h \in rem <=> h = it
    BY <1>1 DEF StreamsOf
  <2>2. it[3] = Running.obj
    OBVIOUS
  <2> HIDE DEF rem, it
  <2> QED
    BY <2>1, <2>2
<1>9. \A h : h \in Places' <=> (h \in Places /\ h \notin rem) \/ h \in add
  <2> HIDE DEF add
  <2> QED
    BY <1>3, <1>4, <1>5, <1>6, PlacesAre, PlacesNext, KindsAre
<1>10. (\A g \in add : g[3] = Running.obj) /\ (\A g, h \in add : g = h) /\ \E g \in add : g[3] = Running.obj
  OBVIOUS
<1> HIDE DEF rem, add
<1>11. Moved(Places, heap, Places', rem, add, {}, {}, history'.lost)
  BY <1>7, <1>8, <1>9, <1>10 DEF Moved
<1>12. heap' = (heap \cup {}) \ {}
  BY <1>3
<1> QED
  BY <1>4, <1>11, <1>12, OwnMoved

\* The definition that a macro loses, and where it lies.
LEMMA OldDefFacts ==
    ASSUME OwnInv, NEW id
    PROVE  /\ \A o \in OldDef(id) : o # 0 => o \in heap
           /\ \A o \in OldDef(id) : \E h \in Places :
                 h \in ArgsOf(Abstraction) \cup BodiesOf(Abstraction) /\ h[2] = id /\ h[3] = o
           /\ \A h \in ArgsOf(Abstraction) \cup BodiesOf(Abstraction) :
                 h[2] = id => h[3] \in OldDef(id)
<1>1. /\ \A h \in ArgsOf(Abstraction) : h[2] \in DOMAIN Abstraction /\ h[3] = Abstraction[h[2]].args
      /\ \A h \in BodiesOf(Abstraction) : h[2] \in DOMAIN Abstraction /\ h[3] = Abstraction[h[2]].body
  BY DEF ArgsOf, BodiesOf
<1>2. ASSUME NEW h \in ArgsOf(Abstraction) \cup BodiesOf(Abstraction), h[2] = id
      PROVE  h[3] \in OldDef(id)
  BY <1>1, <1>2, AbstractionIs DEF OldDef
<1>3. ASSUME NEW o \in OldDef(id)
      PROVE  \E h \in Places :
                h \in ArgsOf(Abstraction) \cup BodiesOf(Abstraction) /\ h[2] = id /\ h[3] = o
  <2>1. id \in DOMAIN Abstraction /\ (o = Abstraction[id].args \/ o = Abstraction[id].body)
    BY AbstractionIs DEF OldDef
  <2> DEFINE g == <<"args", id, Abstraction[id].args>>
  <2> DEFINE h == <<"body", id, Abstraction[id].body>>
  <2>2. g \in ArgsOf(Abstraction) /\ h \in BodiesOf(Abstraction)
    BY <2>1 DEF ArgsOf, BodiesOf
  <2>3. g[2] = id /\ g[3] = Abstraction[id].args /\ h[2] = id /\ h[3] = Abstraction[id].body
    OBVIOUS
  <2> HIDE DEF g, h
  <2>4. g \in Places /\ h \in Places
    BY <2>2, PlacesAre
  <2> QED
    BY <2>1, <2>2, <2>3, <2>4
<1>4. \A o \in OldDef(id) : o # 0 => o \in heap
  BY <1>3 DEF OwnInv, Accounted
<1> QED
  BY <1>2, <1>3, <1>4

\* The parameters and the body of a new definition are different objects.
LEMMA NewDefFacts ==
    ASSUME TypeOK, OwnInv, NEW args, args = bufdef.args \/ args = Pushed(bufdef.args),
           NEW body, body = fresh + 1 + Cardinality(New(args))
    PROVE  /\ body \notin heap /\ body # 0 /\ body # args
           /\ args # 0 => args \in New(args) \/ args = bufdef.args
           /\ bufdef.args # 0 => args = bufdef.args
           /\ \A o \in New(args) : o \notin heap /\ o = args
<1>1. fresh \in Nat /\ bufdef.args \in heap \cup {0}
  BY StateType, BufdefIsLive
<1>2. CASE New(args) = {}
  <2>1. body = fresh + 1
    BY <1>1, <1>2, FS_EmptySet
  <2>2. args \in heap \cup {0}
    BY <1>2 DEF New
  <2> QED
    BY <1>1, <1>2, <2>1, <2>2, NotNull, BufdefFacts, PushedFacts
<1>3. CASE New(args) # {}
  <2>1. args # bufdef.args
    BY <1>3, BufdefIsLive
  <2>2. args = fresh + 1 /\ New(args) = {fresh + 1} /\ bufdef.args = 0
    BY <2>1, BufdefFacts, PushedFacts
  <2>3. Cardinality({fresh + 1}) = 1
    BY FS_Singleton
  <2>4. body = fresh + 1 + 1
    BY <2>2, <2>3
  <2>5. body = fresh + 2
    BY <2>4, <1>1
  <2> QED
    BY <1>1, <2>2, <2>5, NotNull
<1> QED
  BY <1>2, <1>3

LEMMA OwnMacroDef ==
    ASSUME TypeOK, ShapeInv, StageInv, OwnInv, macro_def
    PROVE  OwnInv'
<1>1. PICK id \in Ids, def \in MacroDef :
              /\ Allocate(New(def.args) \cup {def.body}, OldDef(id))
              /\ imap_set(def, id)
              /\ def.args = bufdef.args \/ def.args = Pushed(bufdef.args)
              /\ def.body = fresh + 1 + Cardinality(New(def.args))
  BY MacroDefFacts
<1> DEFINE new == New(def.args) \cup {def.body}
<1> DEFINE A == <<"args", id, def.args>>
<1> DEFINE B == <<"body", id, def.body>>
<1> DEFINE Z == <<"bufdef", 0, 0>>
<1> DEFINE buf == <<"bufdef", 0, bufdef.args>>
<1> DEFINE rem == {h \in Places : \/ h = buf
                                  \/ h \in ArgsOf(Abstraction) \cup BodiesOf(Abstraction) /\ h[2] = id}
<1>2. /\ def.body \notin heap /\ def.body # 0 /\ def.body # def.args
      /\ def.args # 0 => def.args \in New(def.args) \/ def.args = bufdef.args
      /\ bufdef.args # 0 => def.args = bufdef.args
      /\ \A o \in New(def.args) : o \notin heap /\ o = def.args
  BY <1>1, NewDefFacts
<1>3. heap' = (heap \cup new) \ OldDef(id)
  BY <1>1, AllocateFacts
<1>4. UNCHANGED <<include_dirs, source_stack, streams, results, pooled, history>> /\ bufdef'.args = 0
  BY DEF macro_def, NoDef
<1>5. /\ \A h : h \in ArgsOf(Abstraction') <=> (h \in ArgsOf(Abstraction) /\ h[2] # id) \/ h = A
      /\ \A h : h \in BodiesOf(Abstraction') <=> (h \in BodiesOf(Abstraction) /\ h[2] # id) \/ h = B
  <2>1. MapInv(MacroDef) /\ num_bits > 0 /\ id \in Nat
    BY StateType DEF ShapeInv, macro_def, Outermost
  <2>2. imap_set(def, id) /\ def \in MacroDef
    BY <1>1
  <2>3. Abstraction' = With(Abstraction, id, def)
    BY <2>1, <2>2, AbstractSet
  <2> QED
    BY <2>3, MacroPlaces
<1>6. /\ A[1] = "args" /\ A[3] = def.args /\ B[1] = "body" /\ B[3] = def.body
      /\ Z[1] = "bufdef" /\ Z[3] = 0 /\ buf[1] = "bufdef" /\ buf[3] = bufdef.args
  OBVIOUS
<1>7. /\ rem \subseteq Places /\ buf \in rem
      /\ \A h \in rem : h = buf \/ (h \in ArgsOf(Abstraction) \cup BodiesOf(Abstraction) /\ h[2] = id)
      /\ \A h \in Places : h \in ArgsOf(Abstraction) \cup BodiesOf(Abstraction) /\ h[2] = id => h \in rem
  <2>1. buf \in Places
    BY PlacesAre
  <2>2. \A h : h \in rem <=> /\ h \in Places
                            /\ \/ h = buf
                               \/ h \in ArgsOf(Abstraction) \cup BodiesOf(Abstraction) /\ h[2] = id
    OBVIOUS
  <2> HIDE DEF buf, rem
  <2>3. rem \subseteq Places /\ buf \in rem
    BY <2>1, <2>2
  <2>4. ASSUME NEW h \in rem
        PROVE  h = buf \/ (h \in ArgsOf(Abstraction) \cup BodiesOf(Abstraction) /\ h[2] = id)
    BY <2>2
  <2>5. ASSUME NEW h \in Places, h \in ArgsOf(Abstraction) \cup BodiesOf(Abstraction) /\ h[2] = id
        PROVE  h \in rem
    BY <2>2, <2>5
  <2> QED
    BY <2>3, <2>4, <2>5
<1>8. \A h : h \in Places' <=> \/ h \in Listed("dir", include_dirs) \/ h \in Listed("source", source_stack)
                               \/ h \in ArgsOf(Abstraction') \/ h \in BodiesOf(Abstraction')
                               \/ h = Z \/ h \in StreamsOf(streams)
                               \/ h \in ResultsOf(results) \/ h \in PoolOf(pooled)
  BY <1>4, PlacesNext
<1>9. \A h : h \in Places <=> \/ h \in Listed("dir", include_dirs) \/ h \in Listed("source", source_stack)
                              \/ h \in ArgsOf(Abstraction) \/ h \in BodiesOf(Abstraction)
                              \/ h = buf \/ h \in StreamsOf(streams)
                              \/ h \in ResultsOf(results) \/ h \in PoolOf(pooled)
  BY PlacesAre
<1> HIDE DEF A, B, Z, buf, rem
<1>10. \A h : h \in Places' <=> (h \in Places /\ h \notin rem) \/ h \in {A, B, Z}
  <2> SUFFICES ASSUME NEW h PROVE h \in Places' <=> (h \in Places /\ h \notin rem) \/ h \in {A, B, Z}
    OBVIOUS
  <2>1. CASE h \in Listed("dir", include_dirs) \/ h \in Listed("source", source_stack)
             \/ h \in StreamsOf(streams) \/ h \in ResultsOf(results) \/ h \in PoolOf(pooled)
    <3>1. h[1] # "args" /\ h[1] # "body" /\ h[1] # "bufdef"
      BY <2>1, KindsAre
    <3>2. h \notin ArgsOf(Abstraction) \cup BodiesOf(Abstraction) /\ h # buf
      BY <3>1, <1>6, KindsAre
    <3> QED
      BY <2>1, <3>2, <1>7, <1>8, <1>9
  <2>2. CASE ~(h \in Listed("dir", include_dirs) \/ h \in Listed("source", source_stack)
               \/ h \in StreamsOf(streams) \/ h \in ResultsOf(results) \/ h \in PoolOf(pooled))
    <3>1. h \in Places <=> h \in ArgsOf(Abstraction) \cup BodiesOf(Abstraction) \/ h = buf
      BY <2>2, <1>9
    <3>2. h \in Places' <=> h \in ArgsOf(Abstraction') \/ h \in BodiesOf(Abstraction') \/ h = Z
      BY <2>2, <1>8
    <3>3. buf \notin ArgsOf(Abstraction) \cup BodiesOf(Abstraction)
      BY <1>6, KindsAre
    <3> QED
      BY <3>1, <3>2, <3>3, <1>5, <1>7
  <2> QED
    BY <2>1, <2>2
<1>11. /\ \A o \in OldDef(id) : o # 0 => o \in heap
       /\ \A o \in OldDef(id) : \E h \in Places :
             h \in ArgsOf(Abstraction) \cup BodiesOf(Abstraction) /\ h[2] = id /\ h[3] = o
       /\ \A h \in ArgsOf(Abstraction) \cup BodiesOf(Abstraction) : h[2] = id => h[3] \in OldDef(id)
  BY OldDefFacts
<1>12. \A h \in Places : h \notin rem /\ h[3] # 0 => h[3] \notin OldDef(id)
  <2> SUFFICES ASSUME NEW h \in Places, h \notin rem, h[3] # 0, h[3] \in OldDef(id) PROVE FALSE
    OBVIOUS
  <2>1. PICK g \in Places :
           g \in ArgsOf(Abstraction) \cup BodiesOf(Abstraction) /\ g[2] = id /\ g[3] = h[3]
    BY <1>11
  <2>2. g = h
    BY <2>1 DEF OwnInv, Accounted
  <2> QED
    BY <2>1, <2>2, <1>7
<1>13. bufdef.args # 0 => bufdef.args \notin OldDef(id)
  <2> SUFFICES ASSUME bufdef.args # 0, bufdef.args \in OldDef(id) PROVE FALSE
    OBVIOUS
  <2>1. PICK g \in Places :
           g \in ArgsOf(Abstraction) \cup BodiesOf(Abstraction) /\ g[3] = bufdef.args
    BY <1>11
  <2>2. g = buf
    BY <2>1, <1>6, <1>7 DEF OwnInv, Accounted
  <2> QED
    BY <2>1, <2>2, <1>6, KindsAre
<1>14. \A g, h \in {A, B, Z} : g[3] # 0 /\ g[3] = h[3] => g = h
  BY <1>2, <1>6
<1>15. \A g \in {A, B, Z} : g[3] # 0 =>
          g[3] \notin OldDef(id) /\ (g[3] \in new \/ \E h \in rem : h[3] = g[3])
  <2>1. A[3] # 0 => A[3] \notin OldDef(id) /\ (A[3] \in new \/ \E h \in rem : h[3] = A[3])
    BY <1>2, <1>6, <1>7, <1>11, <1>13
  <2>2. B[3] \notin OldDef(id) /\ B[3] \in new
    BY <1>2, <1>6, <1>11
  <2> QED
    BY <2>1, <2>2, <1>6
<1>16. \A h \in rem : h[3] # 0 =>
          h[3] \in OldDef(id) \/ h[3] \in history'.lost \/ \E g \in {A, B, Z} : g[3] = h[3]
  BY <1>2, <1>6, <1>7, <1>11
<1>17. \A o \in new : o \notin heap /\ \E g \in {A, B, Z} : g[3] = o
  BY <1>2, <1>6
<1> HIDE DEF new
<1>18. Moved(Places, heap, Places', rem, {A, B, Z}, new, OldDef(id), history'.lost)
  BY <1>7, <1>10, <1>12, <1>14, <1>15, <1>16, <1>17 DEF Moved
<1> QED
  BY <1>3, <1>4, <1>18, OwnMoved

LEMMA ListedSet ==
    ASSUME NEW tag, NEW S, NEW s \in Seq(S)
    PROVE  /\ \A h \in Listed(tag, s) : h[3] \in ToSet(s)
           /\ \A o \in ToSet(s) : \E h \in Listed(tag, s) : h[3] = o
<1>1. DOMAIN s = 1..Len(s)
  OBVIOUS
<1>2. ASSUME NEW h \in Listed(tag, s) PROVE h[3] \in ToSet(s)
  BY <1>1 DEF Listed, ToSet
<1>3. ASSUME NEW o \in ToSet(s) PROVE \E h \in Listed(tag, s) : h[3] = o
  <2>1. PICK k \in 1..Len(s) : o = s[k]
    BY <1>1 DEF ToSet
  <2>2. <<tag, k, s[k]>> \in Listed(tag, s) /\ <<tag, k, s[k]>>[3] = s[k]
    BY DEF Listed
  <2> QED
    BY <2>1, <2>2
<1> QED
  BY <1>2, <1>3

\* What free_opt and free_ppctx free.
Freed == ToSet(include_dirs) \cup ToSet(source_stack) \cup {p.mem : p \in ToSet(included_files)}
         \cup UNION {{d.args, d.body} : d \in Destroyed}

LEMMA FreedDefs ==
    ASSUME ShapeInv
    PROVE  /\ \A h \in ArgsOf(Abstraction) \cup BodiesOf(Abstraction) : h[3] \in Freed
           /\ \A o \in UNION {{d.args, d.body} : d \in Destroyed} :
                 \E h \in ArgsOf(Abstraction) \cup BodiesOf(Abstraction) : h[3] = o
<1>1. \A d : d \in Destroyed <=> \E j : Has(j) /\ d = Get(j)
  BY DestroyedAre DEF ShapeInv
<1>2. ASSUME NEW j \in DOMAIN Abstraction
      PROVE  Abstraction[j].args \in Freed /\ Abstraction[j].body \in Freed
  <2>1. Abstraction[j] \in Destroyed
    BY <1>1, AbstractionIs
  <2> QED
    BY <2>1 DEF Freed
<1>3. \A h \in ArgsOf(Abstraction) \cup BodiesOf(Abstraction) : h[3] \in Freed
  <2>1. ASSUME NEW h \in ArgsOf(Abstraction) PROVE h[3] \in Freed
    BY <1>2 DEF ArgsOf
  <2>2. ASSUME NEW h \in BodiesOf(Abstraction) PROVE h[3] \in Freed
    BY <1>2 DEF BodiesOf
  <2> QED
    BY <2>1, <2>2
<1>4. ASSUME NEW o \in UNION {{d.args, d.body} : d \in Destroyed}
      PROVE  \E h \in ArgsOf(Abstraction) \cup BodiesOf(Abstraction) : h[3] = o
  <2>1. PICK d \in Destroyed : o = d.args \/ o = d.body
    BY <1>4
  <2>2. PICK j \in DOMAIN Abstraction : d = Abstraction[j]
    BY <1>1, <2>1, AbstractionIs
  <2>3. CASE o = d.args
    <3>1. <<"args", j, d.args>> \in ArgsOf(Abstraction) /\ <<"args", j, d.args>>[3] = d.args
      BY <2>2 DEF ArgsOf
    <3> QED
      BY <2>3, <3>1
  <2>4. CASE o = d.body
    <3>1. <<"body", j, d.body>> \in BodiesOf(Abstraction) /\ <<"body", j, d.body>>[3] = d.body
      BY <2>2 DEF BodiesOf
    <3> QED
      BY <2>4, <3>1
  <2> QED
    BY <2>1, <2>3, <2>4
<1> QED
  BY <1>3, <1>4

LEMMA FreedPlaces ==
    ASSUME TypeOK, ShapeInv, SharingInv
    PROVE  /\ \A h \in Listed("dir", include_dirs) : h[3] \in Freed
           /\ \A h \in Listed("source", source_stack) : h[3] \in Freed
           /\ \A h \in ArgsOf(Abstraction) \cup BodiesOf(Abstraction) : h[3] \in Freed
           /\ \A o \in Freed : o # 0 => \E h \in Places : h[3] = o /\ h[1] # "result"
<1>1. include_dirs \in Seq(Objects) /\ source_stack \in Seq(Objects)
      /\ DOMAIN included_files = 1..Len(included_files)
  BY StateType
<1>2. /\ \A h \in Listed("dir", include_dirs) : h[3] \in ToSet(include_dirs)
      /\ \A o \in ToSet(include_dirs) : \E h \in Listed("dir", include_dirs) : h[3] = o
  BY <1>1, ListedSet
<1>3. /\ \A h \in Listed("source", source_stack) : h[3] \in ToSet(source_stack)
      /\ \A o \in ToSet(source_stack) : \E h \in Listed("source", source_stack) : h[3] = o
  BY <1>1, ListedSet
<1>4. ASSUME NEW o \in {p.mem : p \in ToSet(included_files)}, o # 0
      PROVE  \E h \in PoolOf(pooled) : h[3] = o
  <2>1. PICK p \in ToSet(included_files) : o = p.mem
    BY <1>4
  <2>2. PICK k \in 1..Len(included_files) : p = included_files[k]
    BY <1>1 DEF ToSet
  <2>3. o \in pooled
    BY <1>4, <2>1, <2>2 DEF SharingInv
  <2>4. <<"pool", o, o>> \in PoolOf(pooled) /\ <<"pool", o, o>>[3] = o
    BY <2>3 DEF PoolOf
  <2> QED
    BY <2>4
<1>5. ASSUME NEW o \in Freed, o # 0 PROVE \E h \in Places : h[3] = o /\ h[1] # "result"
  <2>1. CASE o \in ToSet(include_dirs)
    BY <1>2, <2>1, PlacesAre, KindsAre
  <2>2. CASE o \in ToSet(source_stack)
    BY <1>3, <2>2, PlacesAre, KindsAre
  <2>3. CASE o \in {p.mem : p \in ToSet(included_files)}
    BY <1>4, <1>5, <2>3, PlacesAre, KindsAre
  <2>4. CASE o \in UNION {{d.args, d.body} : d \in Destroyed}
    <3>1. PICK h \in ArgsOf(Abstraction) \cup BodiesOf(Abstraction) : h[3] = o
      BY <2>4, FreedDefs
    <3>2. h \in Places /\ h[1] # "result"
      BY PlacesAre, KindsAre
    <3> QED
      BY <3>1, <3>2
  <2> QED
    BY <2>1, <2>2, <2>3, <2>4 DEF Freed
<1>6. ToSet(include_dirs) \subseteq Freed /\ ToSet(source_stack) \subseteq Freed
  BY DEF Freed
<1> QED
  BY <1>2, <1>3, <1>5, <1>6, FreedDefs

LEMMA OwnFreeCompiler ==
    ASSUME TypeOK, ShapeInv, StageInv, SharingInv, OwnInv, free_compiler
    PROVE  OwnInv'
<1>1. CASE \E k \in 1..Len(included_files) : included_files[k].mem = 0
  BY <1>1, OwnStop DEF free_compiler
<1>2. CASE ~ \E k \in 1..Len(included_files) : included_files[k].mem = 0
  <2> DEFINE Z == <<"bufdef", 0, 0>>
  <2> DEFINE buf == <<"bufdef", 0, bufdef.args>>
  <2> DEFINE rem == {h \in Places : h \notin ResultsOf(results)}
  <2>1. Release(Freed) /\ imap_destroy
    BY <1>2 DEF free_compiler, Freed
  <2>2. heap' = (heap \cup {}) \ Freed
    BY <2>1, ReleaseFacts
  <2>3. /\ include_dirs' = << >> /\ source_stack' = << >> /\ bufdef'.args = 0 /\ pooled' = {}
        /\ UNCHANGED <<streams, results>>
    BY <1>2 DEF free_compiler, NoDef
  <2>4. streams = << >>
    BY DEF free_compiler, StageInv
  <2>5. history'.lost = history.lost \cup ({bufdef.args} \cup pooled)
    <3> DEFINE lost == history.lost \cup ({bufdef.args} \cup pooled)
    <3>1. history' = [history EXCEPT !.lost = lost] /\ history \in History
      BY <1>2 DEF free_compiler, ShapeInv
    <3> HIDE DEF lost
    <3>2. history'.lost = lost
      BY <3>1 DEF History
    <3> QED
      BY <3>2 DEF lost
  <2>6. /\ Listed("dir", include_dirs') = {} /\ Listed("source", source_stack') = {}
        /\ StreamsOf(streams) = {} /\ PoolOf(pooled') = {}
    BY <2>3, <2>4 DEF Listed, StreamsOf, PoolOf
  <2>7. ArgsOf(Abstraction') = {} /\ BodiesOf(Abstraction') = {}
    BY <2>1, AbstractDestroy DEF ArgsOf, BodiesOf
  <2>8. \A h : h \in Places' <=> h \in ResultsOf(results) \/ h = Z
    BY <2>3, <2>6, <2>7, PlacesNext
  <2>9. \A h \in rem : \/ h \in Listed("dir", include_dirs) \/ h \in Listed("source", source_stack)
                       \/ h \in ArgsOf(Abstraction) \cup BodiesOf(Abstraction)
                       \/ h = buf \/ h \in PoolOf(pooled)
    BY <2>6, PlacesAre
  <2>10. rem \subseteq Places /\ \A h \in Places : h \in rem \/ h \in ResultsOf(results)
    OBVIOUS
  <2>11. Z[3] = 0 /\ buf[3] = bufdef.args
    OBVIOUS
  <2>12. \A h \in ResultsOf(results) : h \in Places /\ h \notin rem
    BY PlacesAre
  <2> HIDE DEF Z, buf, rem
  <2>13. \A h : h \in Places' <=> (h \in Places /\ h \notin rem) \/ h \in {Z}
    BY <2>8, <2>10, <2>12
  <2>14. \A h \in Places : h \notin rem /\ h[3] # 0 => h[3] \notin Freed
    <3> SUFFICES ASSUME NEW h \in Places, h \notin rem, h[3] # 0, h[3] \in Freed PROVE FALSE
      OBVIOUS
    <3>1. PICK g \in Places : g[3] = h[3] /\ g[1] # "result"
      BY FreedPlaces
    <3>2. g = h
      BY <3>1 DEF OwnInv, Accounted
    <3> QED
      BY <3>1, <3>2, <2>10, KindsAre
  <2>15. \A h \in rem : h[3] # 0 => h[3] \in Freed \/ h[3] \in history'.lost
    <3>1. \A h \in PoolOf(pooled) : h[3] \in pooled
      BY DEF PoolOf
    <3> QED
      BY <3>1, <2>5, <2>9, <2>11, FreedPlaces
  <2>16. Moved(Places, heap, Places', rem, {Z}, {}, Freed, history'.lost)
    BY <2>10, <2>11, <2>13, <2>14, <2>15 DEF Moved
  <2> QED
    BY <2>2, <2>5, <2>16, OwnMoved
<1> QED
  BY <1>1, <1>2

LEMMA OwnPreprocess ==
    ASSUME TypeOK, ShapeInv, OwnInv, compiler_preprocess
    PROVE  OwnInv'
<1>1. CASE Got(1) # "ok"
  BY <1>1, OwnStop DEF compiler_preprocess
<1>2. CASE Got(1) = "ok"
  <2>1. history'.lost = history.lost
    BY <1>2 DEF compiler_preprocess, ShapeInv, History
  <2> QED
    BY <1>2, <2>1, OwnKept DEF compiler_preprocess
<1> QED
  BY <1>1, <1>2

LEMMA OwnIncludeError ==
    ASSUME TypeOK, ShapeInv, OwnInv, IncludeError
    PROVE  OwnInv'
<1>1. CASE \E reason : Stop(reason)
  BY <1>1, OwnStop
<1>2. CASE initiate_error /\ UNCHANGED <<bufdef, memory>>
  BY <1>2, OwnErrors
<1> QED
  BY <1>1, <1>2 DEF IncludeError

LEMMA OwnStep ==
    ASSUME TypeOK, ShapeInv, StageInv, SharingInv, OwnInv, [Next]_vars
    PROVE  OwnInv'
<1>1. CASE UNCHANGED vars
  BY <1>1, OwnKept DEF vars
<1>2. CASE Pp1Error \/ Pp2Error
  BY <1>2, OwnErrors DEF Pp1Error, Pp2Error
<1>3. CASE EndPp1Aborts
  BY <1>3, OwnStop DEF EndPp1Aborts
<1> QED
  BY <1>1, <1>2, <1>3, OwnIncludeDir, OwnAddSource, OwnPreprocess, OwnFreeResult, OwnFreeCompiler,
     OwnIncludeError, OwnInclude, OwnReturn, OwnEndPp1, OwnPush, OwnBeginUse, OwnEndUse,
     OwnDefineError, OwnMacroDef, OwnEndPp2 DEF Next

-----------------------------------------------------------------------------
(* Sharing, and what the parts of the invariant say about the properties.   *)

SharedMems == \A k \in 1..Len(included_files) : included_files[k].mem \in pooled \cup {0}

LEMMA MemsStep ==
    ASSUME TypeOK, SharedMems, [Next]_vars
    PROVE  SharedMems'
<1>1. included_files \in Seq(Path) /\ Len(included_files) \in Nat
  BY StateType, Lengths
<1>2. ASSUME UNCHANGED <<included_files, pooled>> PROVE SharedMems'
  BY <1>2 DEF SharedMems
<1>3. CASE Include
  <2>1. PICK f \in Files, mem \in {0, fresh + 2} :
              /\ included_files' = Append(included_files, [file |-> f, mem |-> mem])
              /\ pooled' = pooled \cup ({mem} \ {0})
    BY <1>3 DEF Include
  <2> DEFINE p == [file |-> f, mem |-> mem]
  <2>2. p.mem \in pooled' \cup {0}
    BY <2>1
  <2> HIDE DEF p
  <2>3. Len(included_files') = Len(included_files) + 1 /\ included_files'[Len(included_files) + 1] = p
        /\ \A k \in 1..Len(included_files) : included_files'[k] = included_files[k]
    BY <1>1, <2>1 DEF p
  <2>4. \A k \in 1..Len(included_files') : k \in 1..Len(included_files) \/ k = Len(included_files) + 1
    BY <1>1, <2>3
  <2>5. pooled \subseteq pooled'
    BY <2>1
  <2> QED
    BY <2>2, <2>3, <2>4, <2>5 DEF SharedMems
<1>4. CASE ReturnToIncluder
  <2>1. included_files' = Left(included_files) /\ pooled' = pooled
    BY <1>4 DEF ReturnToIncluder
  <2>2. CASE Len(included_files) > 0
    <3>1. Len(included_files') = Len(included_files) - 1
          /\ \A k \in 1..(Len(included_files) - 1) : included_files'[k] = included_files[k]
      BY <1>1, <2>1, <2>2, LeftFacts
    <3> QED
      BY <1>1, <2>1, <3>1 DEF SharedMems
  <2>3. CASE Len(included_files) = 0
    <3>1. included_files = << >>
      BY <1>1, <2>3, EmptySeq
    <3>2. included_files' = << >>
      BY <2>1, <3>1 DEF Left
    <3> QED
      BY <3>2 DEF SharedMems
  <2> QED
    BY <1>1, <2>2, <2>3
<1>5. CASE free_compiler
  <2>1. CASE included_files' = << >>
    BY <2>1 DEF SharedMems
  <2>2. CASE Stop("bad free")
    BY <1>2, <2>2 DEF Stop
  <2> QED
    BY <1>5, <2>1, <2>2 DEF free_compiler
<1>6. CASE IncludeError
  BY <1>2, <1>6 DEF IncludeError, Stop, initiate_error
<1> QED
  BY <1>2, <1>3, <1>4, <1>5, <1>6 DEF Next, vars, opt_include_dir, opt_add_source, compiler_preprocess,
     FreeResult, Pp1Error, EndPp1Aborts, EndPp1, Pp2Error, Push, BeginUse, EndUse, DefineError,
     macro_def, EndPp2, Stop, initiate_error

ResultsDiffer == \A r, s \in results : r.obj = s.obj /\ r.obj # 0 => r = s

LEMMA ResultsStep ==
    ASSUME TypeOK, OwnInv, ResultsDiffer, [Next]_vars
    PROVE  ResultsDiffer'
<1>1. ASSUME results' \subseteq results PROVE ResultsDiffer'
  BY <1>1 DEF ResultsDiffer
<1>2. CASE EndPp2
  <2>1. results' = results \cup {Result} /\ Len(streams) = 1
    BY <1>2 DEF EndPp2, Outermost
  <2>2. Result.obj = Running.obj /\ Running = streams[1]
    BY <2>1 DEF Result, Running
  <2>3. ASSUME NEW r \in results, r.obj = Result.obj, r.obj # 0 PROVE FALSE
    <3> DEFINE g == <<"result", r.obj, r.obj>>
    <3> DEFINE h == <<"stream", 1, streams[1].obj>>
    <3>1. g \in ResultsOf(results) /\ h \in StreamsOf(streams)
      BY <2>1 DEF ResultsOf, StreamsOf
    <3>2. g[3] = r.obj /\ h[3] = streams[1].obj /\ g[1] = "result" /\ h[1] = "stream"
      OBVIOUS
    <3> HIDE DEF g, h
    <3>3. g \in Places /\ h \in Places
      BY <3>1, PlacesAre
    <3> QED
      BY <2>2, <2>3, <3>2, <3>3 DEF OwnInv, Accounted
  <2> QED
    BY <2>1, <2>3 DEF ResultsDiffer
<1>3. CASE FreeResult
  BY <1>1, <1>3 DEF FreeResult
<1> QED
  BY <1>1, <1>2, <1>3 DEF Next, vars, opt_include_dir, opt_add_source, compiler_preprocess,
     free_compiler, Pp1Error, IncludeError, Include, ReturnToIncluder, EndPp1Aborts, EndPp1, Pp2Error,
     Push, BeginUse, EndUse, DefineError, macro_def, Stop, initiate_error

LEMMA SharingStep ==
    ASSUME TypeOK, OwnInv, SharingInv, [Next]_vars
    PROVE  SharingInv'
<1>1. SharedMems /\ ResultsDiffer
  BY DEF SharingInv, SharedMems, ResultsDiffer
<1>2. SharedMems' /\ ResultsDiffer'
  BY <1>1, MemsStep, ResultsStep
<1> QED
  BY <1>2 DEF SharingInv, SharedMems, ResultsDiffer

\* OwnedOnce in terms of the places.
LEMMA OwnersAre ==
    ASSUME TypeOK, ShapeInv, StageInv, OwnInv
    PROVE  OwnedOnce
<1>1. \A i : i \in Defined <=> i \in DOMAIN Abstraction
  BY AbstractionIs DEF ShapeInv, Defined
<1>2. /\ {<<"args", i, Get(i).args>> : i \in Defined} = ArgsOf(Abstraction)
      /\ {<<"body", i, Get(i).body>> : i \in Defined} = BodiesOf(Abstraction)
  BY <1>1, AbstractionIs DEF ArgsOf, BodiesOf
<1>3. Holdings = {h \in Places : h[3] # 0}
  BY <1>2 DEF Holdings, Places, Listed, StreamsOf, ResultsOf, PoolOf
<1>4. Held \subseteq heap
  BY <1>3 DEF Held, OwnInv, Accounted
<1>5. \A g, h \in Holdings : g[3] = h[3] => g = h
  BY <1>3 DEF OwnInv, Accounted
<1>6. ASSUME NEW o \in heap PROVE o \in Held \cup history.lost
  <2>1. CASE o \in history.lost
    BY <2>1
  <2>2. CASE o \notin history.lost
    <3>1. PICK h \in Places : h[3] = o
      BY <2>2 DEF OwnInv, Accounted
    <3>2. h \in Holdings
      BY <1>3, <3>1, NotNull
    <3> QED
      BY <3>1, <3>2 DEF Held
  <2> QED
    BY <2>1, <2>2
<1>7. phase \in {"idle", "bad free"} /\ included_files # << >> => history.inside
  <2> SUFFICES ASSUME phase \in {"idle", "bad free"}, ~history.inside PROVE included_files = << >>
    OBVIOUS
  <2>1. Len(included_files) = 0
    BY DEF StageInv
  <2> QED
    BY <2>1, StateType, EmptySeq
<1> QED
  BY <1>4, <1>5, <1>6, <1>7 DEF OwnedOnce

-----------------------------------------------------------------------------
(* Steps keep the views.                                                    *)

\* The files that are included are no texts of the first stage.
FilesOnTop == \A k \in (Len(source_stack) - depth + 1)..Len(source_stack) :
                 source_stack[k] \notin history.texts

OnStack(v) == \E k \in 1..Len(source_stack) : source_stack[k] = v

\* A step that leaves no text without a source, and adds no view.
ViewsLeft ==
    /\ phase = "freed" => phase' = "freed"
    /\ history'.texts = history.texts /\ history'.redone = history.redone
    /\ fresh <= fresh' /\ fresh' \in Nat
    /\ phase' # "freed" => \A v : IsView(v)' => IsView(v)
    /\ phase' # "freed" => \A v \in history.texts : OnStack(v) => OnStack(v)'
    /\ phase' = "pp1" => FilesOnTop'

LEMMA ViewsAre ==
    ASSUME ViewsInv
    PROVE  /\ history.texts \subseteq 1..fresh
           /\ phase = "pp1" => FilesOnTop
           /\ phase # "freed" => \A v : IsView(v) => v \in history.texts /\ (v \in history.redone \/ OnStack(v))
BY DEF ViewsInv, FilesOnTop, OnStack

LEMMA ViewsKept ==
    ASSUME TypeOK, ViewsInv, ViewsLeft
    PROVE  ViewsInv'
<1>1. fresh \in Nat /\ history'.texts \subseteq 1..fresh'
  <2>1. history.texts \subseteq 1..fresh /\ fresh \in Nat
    BY StateType, ViewsAre
  <2> QED
    BY <2>1 DEF ViewsLeft
<1>2. phase' = "pp1" => \A k \in (Len(source_stack') - depth' + 1)..Len(source_stack') :
                           source_stack'[k] \notin history'.texts
  BY DEF ViewsLeft, FilesOnTop
<1>3. ASSUME phase' # "freed", NEW v, IsView(v)'
      PROVE  v \in history'.texts /\ (v \in history'.redone \/ OnStack(v)')
  BY <1>3, ViewsAre DEF ViewsLeft
<1>4. \A v : OnStack(v)' <=> \E k \in 1..Len(source_stack') : source_stack'[k] = v
  BY DEF OnStack
<1> QED
  BY <1>1, <1>2, <1>3, <1>4 DEF ViewsInv

\* Views after a step, by where they are.
LEMMA ViewsNext ==
    \A v : IsView(v)' <=> \/ \E r \in results' : v \in r.views
                          \/ \E i \in DOMAIN Abstraction' : v \in Abstraction'[i].views
                          \/ \E k \in 1..Len(streams') : v \in streams'[k].views \cup streams'[k].from
BY DEF IsView

LEMMA NoNewView ==
    ASSUME results' \subseteq results, Abstraction' = Abstraction, streams' = streams \/ streams' = << >>
    PROVE  \A v : IsView(v)' => IsView(v)
BY ViewsNext DEF IsView

\* The sources after a push, and after a pop.
LEMMA OnMore ==
    ASSUME TypeOK, NEW x, source_stack' = Append(source_stack, x)
    PROVE  /\ Len(source_stack') = Len(source_stack) + 1 /\ source_stack'[Len(source_stack) + 1] = x
           /\ \A k \in 1..Len(source_stack) : source_stack'[k] = source_stack[k]
           /\ \A v : OnStack(v) => OnStack(v)'
<1>1. source_stack \in Seq(Objects) /\ Len(source_stack) \in Nat
  BY StateType, Lengths
<1>2. /\ Len(source_stack') = Len(source_stack) + 1 /\ source_stack'[Len(source_stack) + 1] = x
      /\ \A k \in 1..Len(source_stack) : source_stack'[k] = source_stack[k]
  BY <1>1
<1>3. \A k \in 1..Len(source_stack) : k \in 1..Len(source_stack')
  BY <1>1, <1>2
<1> QED
  BY <1>2, <1>3 DEF OnStack

LEMMA OnLess ==
    ASSUME TypeOK, source_stack # << >>, source_stack' = Left(source_stack)
    PROVE  /\ Len(source_stack) \in Nat /\ Len(source_stack) > 0
           /\ Len(source_stack') = Len(source_stack) - 1
           /\ \A k \in 1..(Len(source_stack) - 1) : source_stack'[k] = source_stack[k]
           /\ \A v : OnStack(v) => v = Last(source_stack) \/ OnStack(v)'
<1>1. source_stack \in Seq(Objects) /\ Len(source_stack) \in Nat /\ Len(source_stack) > 0
  BY StateType, Lengths, EmptySeq
<1>2. /\ Len(source_stack') = Len(source_stack) - 1
      /\ \A k \in 1..(Len(source_stack) - 1) : source_stack'[k] = source_stack[k]
  BY <1>1, LeftFacts
<1>3. Last(source_stack) = source_stack[Len(source_stack)]
  BY <1>1, LastFacts
<1>4. \A k \in 1..Len(source_stack) : k = Len(source_stack) \/ k \in 1..(Len(source_stack) - 1)
  BY <1>1
<1> QED
  BY <1>1, <1>2, <1>3, <1>4 DEF OnStack

LEMMA ViewsStop ==
    ASSUME TypeOK, ShapeInv, ViewsInv, NEW reason, Stop(reason), phase # "freed", reason # "pp1"
    PROVE  ViewsInv'
<1>1. UNCHANGED <<fresh, source_stack, results, streams, data, bitset, history>> /\ phase' = reason
  BY DEF Stop
<1>2. \A v : IsView(v)' => IsView(v)
  BY <1>1, MapKept, NoNewView
<1>3. ViewsLeft
  BY <1>1, <1>2, StateType DEF ViewsLeft, OnStack
<1> QED
  BY <1>3, ViewsKept

LEMMA ViewsError ==
    ASSUME TypeOK, ShapeInv, ViewsInv, initiate_error, fresh <= fresh', fresh' \in Nat, phase # "freed"
    PROVE  ViewsInv'
<1>1. UNCHANGED <<source_stack, results, data, bitset>> /\ phase' = "idle" /\ streams' = << >>
  BY DEF initiate_error
<1>2. history'.texts = history.texts /\ history'.redone = history.redone
  BY DEF initiate_error, ShapeInv, History
<1>3. \A v : IsView(v)' => IsView(v)
  BY <1>1, MapKept, NoNewView
<1>4. ViewsLeft
  BY <1>1, <1>2, <1>3 DEF ViewsLeft, OnStack
<1> QED
  BY <1>4, ViewsKept

\* Steps of the second stage that leave sources and history, outside and inside of
\* which no text is being read.
LEMMA ViewsPp2 ==
    ASSUME TypeOK, ViewsInv, phase # "freed", phase' # "pp1", fresh <= fresh', fresh' \in Nat,
           UNCHANGED source_stack,
           history'.texts = history.texts, history'.redone = history.redone,
           \A v : IsView(v)' => IsView(v)
    PROVE  ViewsInv'
<1>1. ViewsLeft
  BY DEF ViewsLeft, OnStack
<1> QED
  BY <1>1, ViewsKept

LEMMA FreshGrows ==
    ASSUME TypeOK, NEW new, NEW old, Allocate(new, old)
    PROVE  fresh <= fresh' /\ fresh' \in Nat
<1>1. fresh <= fresh' /\ fresh' \in 0..MaxObjects /\ MaxObjects \in Nat
  BY AllocateFacts, StateType
<1> QED
  BY <1>1

LEMMA ViewsIncludeDir ==
    ASSUME TypeOK, ShapeInv, ViewsInv, opt_include_dir
    PROVE  ViewsInv'
<1>1. UNCHANGED <<phase, source_stack, results, streams, data, bitset, history>> /\ phase = "idle"
      /\ fresh <= fresh' /\ fresh' \in Nat
  BY FreshGrows DEF opt_include_dir
<1>2. \A v : IsView(v)' => IsView(v)
  BY <1>1, MapKept, NoNewView
<1> QED
  BY <1>1, <1>2, ViewsPp2

LEMMA ViewsFreeResult ==
    ASSUME TypeOK, ShapeInv, ViewsInv, FreeResult
    PROVE  ViewsInv'
<1>1. UNCHANGED <<phase, source_stack, streams, data, bitset, history>> /\ phase = "idle"
      /\ results' \subseteq results
  BY DEF FreeResult
<1>2. fresh <= fresh' /\ fresh' \in Nat
  BY FreshGrows DEF FreeResult, Release
<1>3. \A v : IsView(v)' => IsView(v)
  BY <1>1, MapKept, NoNewView
<1> QED
  BY <1>1, <1>2, <1>3, ViewsPp2

LEMMA ViewsAddSource ==
    ASSUME TypeOK, ShapeInv, ViewsInv, opt_add_source
    PROVE  ViewsInv'
<1>1. UNCHANGED <<phase, results, streams, data, bitset>> /\ phase = "idle"
      /\ source_stack' = Append(source_stack, fresh + 1)
      /\ fresh <= fresh' /\ fresh' \in Nat
  BY FreshGrows DEF opt_add_source
<1>2. history'.texts = history.texts /\ history'.redone = history.redone
  BY DEF opt_add_source, ShapeInv, History
<1>3. \A v : IsView(v)' => IsView(v)
  BY <1>1, MapKept, NoNewView
<1>4. \A v : OnStack(v) => OnStack(v)'
  BY <1>1, OnMore
<1>5. ViewsLeft
  BY <1>1, <1>2, <1>3, <1>4 DEF ViewsLeft
<1> QED
  BY <1>5, ViewsKept

LEMMA ViewsPreprocess ==
    ASSUME TypeOK, ShapeInv, StageInv, ViewsInv, compiler_preprocess
    PROVE  ViewsInv'
<1>1. CASE Got(1) # "ok"
  <2>1. Stop(Got(1)) /\ Got(1) # "pp1" /\ phase # "freed"
    BY <1>1, GotIs DEF compiler_preprocess
  <2> QED
    BY <2>1, ViewsStop
<1>2. CASE Got(1) = "ok"
  <2>1. UNCHANGED <<fresh, source_stack, depth, results, streams, data, bitset>>
    BY <1>2 DEF compiler_preprocess
  <2>2. history'.texts = history.texts /\ history'.redone = history.redone
    BY <1>2 DEF compiler_preprocess, ShapeInv, History
  <2>3. \A v : IsView(v)' => IsView(v)
    BY <2>1, MapKept, NoNewView
  <2>4. FilesOnTop'
    <3>1. depth' = 0 /\ Len(source_stack') \in Nat
      BY <2>1, Lengths DEF compiler_preprocess, StageInv
    <3> QED
      BY <3>1 DEF FilesOnTop
  <2>5. phase # "freed"
    BY DEF compiler_preprocess
  <2>6. ViewsLeft
    BY <2>1, <2>2, <2>3, <2>4, <2>5, StateType DEF ViewsLeft, OnStack
  <2> QED
    BY <2>6, ViewsKept
<1> QED
  BY <1>1, <1>2

LEMMA ViewsFreeCompiler ==
    ASSUME TypeOK, ShapeInv, ViewsInv, free_compiler
    PROVE  ViewsInv'
<1>1. CASE Stop("bad free")
  BY <1>1, ViewsStop DEF free_compiler
<1>2. CASE ~Stop("bad free")
  <2>1. phase' = "freed" /\ Release(Freed)
    BY <1>2 DEF free_compiler, Freed
  <2>2. fresh <= fresh' /\ fresh' \in Nat
    BY <2>1, FreshGrows DEF Release
  <2>3. history'.texts = history.texts /\ history'.redone = history.redone
    BY <1>2 DEF free_compiler, ShapeInv, History
  <2>4. ViewsLeft
    BY <2>1, <2>2, <2>3 DEF ViewsLeft
  <2> QED
    BY <2>4, ViewsKept
<1> QED
  BY <1>1, <1>2

LEMMA ViewsInclude ==
    ASSUME TypeOK, ShapeInv, StageInv, ViewsInv, Include
    PROVE  ViewsInv'
<1>1. PICK f \in Files, mem \in {0, fresh + 2} : Allocate({fresh + 1, mem} \ {0}, {})
  BY IncludeFacts
<1>2. fresh <= fresh' /\ fresh' \in Nat /\ fresh \in Nat /\ depth \in Nat /\ Len(source_stack) \in Nat
  BY <1>1, FreshGrows, StateType, Lengths
<1>3. source_stack' = Append(source_stack, fresh + 1) /\ phase = "pp1"
      /\ UNCHANGED <<results, streams, data, bitset, history>>
  BY DEF Include, Scanning
<1>4. \A v : IsView(v)' => IsView(v)
  BY <1>3, MapKept, NoNewView
<1>5. /\ Len(source_stack') = Len(source_stack) + 1 /\ source_stack'[Len(source_stack) + 1] = fresh + 1
      /\ \A k \in 1..Len(source_stack) : source_stack'[k] = source_stack[k]
      /\ \A v : OnStack(v) => OnStack(v)'
  BY <1>3, OnMore
<1>6. phase' = "pp1" => FilesOnTop'
  <2> SUFFICES ASSUME phase' = "pp1",
                      NEW k \in (Len(source_stack') - depth' + 1)..Len(source_stack')
               PROVE  source_stack'[k] \notin history.texts
    BY <1>3 DEF FilesOnTop
  <2>1. depth' = depth + 1
    <3>1. Got(2) = "ok"
      BY GotIs DEF Include
    <3> QED
      BY <3>1 DEF Include
  <2>2. depth < Len(source_stack)
    BY <1>3 DEF StageInv
  <2>3. CASE k = Len(source_stack) + 1
    <3>1. fresh + 1 \notin history.texts
      BY <1>2, ViewsAre
    <3> QED
      BY <1>5, <2>3, <3>1
  <2>4. CASE k # Len(source_stack) + 1
    <3>1. k \in (Len(source_stack) - depth + 1)..Len(source_stack) /\ k \in 1..Len(source_stack)
      BY <1>2, <1>5, <2>1, <2>2, <2>4
    <3> QED
      BY <1>3, <1>5, <3>1, ViewsAre DEF FilesOnTop
  <2> QED
    BY <2>3, <2>4
<1>7. ViewsLeft
  BY <1>2, <1>3, <1>4, <1>5, <1>6 DEF ViewsLeft
<1> QED
  BY <1>7, ViewsKept

LEMMA ViewsReturn ==
    ASSUME TypeOK, ShapeInv, StageInv, ViewsInv, ReturnToIncluder
    PROVE  ViewsInv'
<1>1. /\ phase = "pp1" /\ depth > 0 /\ depth' = depth - 1 /\ source_stack' = Left(source_stack)
      /\ UNCHANGED <<phase, results, streams, data, bitset, history>>
  BY DEF ReturnToIncluder
<1>2. fresh' = fresh /\ fresh \in Nat /\ depth \in Nat
  BY ReleaseFacts, StateType DEF ReturnToIncluder
<1>3. source_stack # << >>
  BY <1>1, StateType, EmptySeq DEF StageInv
<1>4. /\ Len(source_stack) \in Nat /\ Len(source_stack) > 0
      /\ Len(source_stack') = Len(source_stack) - 1
      /\ \A k \in 1..(Len(source_stack) - 1) : source_stack'[k] = source_stack[k]
      /\ \A v : OnStack(v) => v = Last(source_stack) \/ OnStack(v)'
  BY <1>1, <1>3, OnLess
<1>5. \A v : IsView(v)' => IsView(v)
  BY <1>1, MapKept, NoNewView
<1>6. FilesOnTop
  BY <1>1, ViewsAre
<1>7. Last(source_stack) \notin history.texts
  <2>1. Last(source_stack) = source_stack[Len(source_stack)]
    BY <1>4, StateType, LastFacts
  <2>2. Len(source_stack) \in (Len(source_stack) - depth + 1)..Len(source_stack)
    BY <1>1, <1>2, <1>4
  <2> QED
    BY <1>6, <2>1, <2>2 DEF FilesOnTop
<1>8. FilesOnTop'
  <2> SUFFICES ASSUME NEW k \in (Len(source_stack') - depth' + 1)..Len(source_stack')
               PROVE  source_stack'[k] \notin history.texts
    BY <1>1 DEF FilesOnTop
  <2>1. depth < Len(source_stack)
    BY <1>1 DEF StageInv
  <2>2. k \in (Len(source_stack) - depth + 1)..Len(source_stack) /\ k \in 1..(Len(source_stack) - 1)
    BY <1>1, <1>2, <1>4, <2>1
  <2> QED
    BY <1>4, <1>6, <2>2 DEF FilesOnTop
<1>9. ViewsLeft
  BY <1>1, <1>2, <1>4, <1>5, <1>7, <1>8 DEF ViewsLeft
<1> QED
  BY <1>9, ViewsKept

LEMMA EndPp1History ==
    ASSUME ShapeInv, EndPp1
    PROVE  /\ history'.texts = history.texts \cup {fresh + 1}
           /\ history'.redone = history.redone \cup (history.texts \cap {Last(source_stack)})
           /\ history'.start = history.start /\ history'.returned = history.returned
<1> DEFINE texts == history.texts \cup {fresh + 1}
<1> DEFINE redone == history.redone \cup (history.texts \cap {Last(source_stack)})
<1>1. history' = [history EXCEPT !.texts = texts, !.redone = redone] /\ history \in History
  BY DEF EndPp1, ShapeInv
<1> HIDE DEF texts, redone
<1>2. history'.texts = texts /\ history'.redone = redone
      /\ history'.start = history.start /\ history'.returned = history.returned
  BY <1>1 DEF History
<1> QED
  BY <1>2 DEF texts, redone

\* The text of the first stage takes the place of its source.
LEMMA ViewsEndPp1 ==
    ASSUME TypeOK, ShapeInv, StageInv, ViewsInv, EndPp1
    PROVE  ViewsInv'
<1>1. /\ phase' = "pp2" /\ phase = "pp1" /\ Allocate({fresh + 1}, {Last(source_stack)})
      /\ source_stack' = Append(Left(source_stack), fresh + 1)
      /\ streams' = <<NewStream({fresh + 1})>>
      /\ UNCHANGED <<results, data, bitset>>
  BY DEF EndPp1
<1>2. /\ fresh' \in Nat /\ fresh \in Nat /\ fresh <= fresh' /\ fresh + 1 <= fresh'
  BY <1>1, OneObject, FreshGrows, StateType
<1>3. /\ history'.texts = history.texts \cup {fresh + 1}
      /\ history'.redone = history.redone \cup (history.texts \cap {Last(source_stack)})
  BY EndPp1History
<1>4. streams = << >> /\ Abstraction' = Abstraction
  BY <1>1, MapKept DEF StageInv
<1>5. \A v : IsView(v)' => IsView(v) \/ v = fresh + 1
  <2>1. /\ Len(streams') = 1 /\ streams'[1] = NewStream({fresh + 1})
    BY <1>1
  <2>2. NewStream({fresh + 1}).views = {} /\ NewStream({fresh + 1}).from = {fresh + 1}
    BY DEF NewStream
  <2>3. \A k \in 1..Len(streams') : streams'[k].views \cup streams'[k].from = {fresh + 1}
    BY <2>1, <2>2
  <2> QED
    BY <1>1, <1>4, <2>3, ViewsNext DEF IsView
<1>6. /\ Len(source_stack') \in Nat /\ source_stack'[Len(source_stack')] = fresh + 1 /\ Len(source_stack') > 0
      /\ \A v : OnStack(v) => v = Last(source_stack) \/ OnStack(v)'
  <2> DEFINE s == Left(source_stack)
  <2>1. source_stack \in Seq(Objects) /\ Len(source_stack) \in Nat /\ Len(source_stack) > 0
    BY <1>1, StateType, Lengths DEF StageInv
  <2>2. /\ s \in Seq(Objects) /\ Len(s) = Len(source_stack) - 1
        /\ \A k \in 1..(Len(source_stack) - 1) : s[k] = source_stack[k]
    BY <2>1, LeftFacts
  <2>3. Last(source_stack) = source_stack[Len(source_stack)]
    BY <2>1, LastFacts
  <2>4. source_stack' = Append(s, fresh + 1)
    BY <1>1
  <2> HIDE DEF s
  <2>5. /\ Len(source_stack') = Len(s) + 1 /\ source_stack'[Len(s) + 1] = fresh + 1
        /\ \A k \in 1..Len(s) : source_stack'[k] = s[k]
    BY <2>2, <2>4
  <2>6. \A k \in 1..Len(source_stack) : \/ k = Len(source_stack)
                                        \/ k \in 1..Len(source_stack') /\ source_stack'[k] = source_stack[k]
    BY <2>1, <2>2, <2>5
  <2> QED
    BY <2>1, <2>2, <2>3, <2>5, <2>6 DEF OnStack
<1>7. \A v : v = fresh + 1 => OnStack(v)'
  <2>1. Len(source_stack') \in 1..Len(source_stack')
    BY <1>6
  <2> QED
    BY <1>6, <2>1 DEF OnStack
<1>8. ASSUME NEW v, IsView(v)'
      PROVE  v \in history'.texts /\ (v \in history'.redone \/ OnStack(v)')
  <2>1. CASE v = fresh + 1
    BY <2>1, <1>3, <1>7
  <2>2. CASE IsView(v)
    BY <2>2, <1>1, <1>3, <1>6, ViewsAre
  <2> QED
    BY <1>5, <1>8, <2>1, <2>2
<1>9. history'.texts \subseteq 1..fresh'
  <2>1. history.texts \subseteq 1..fresh
    BY ViewsAre
  <2> QED
    BY <1>2, <1>3, <2>1
<1>10. \A v : OnStack(v)' <=> \E k \in 1..Len(source_stack') : source_stack'[k] = v
  BY DEF OnStack
<1> QED
  BY <1>1, <1>8, <1>9, <1>10 DEF ViewsInv

\* A new stream on top reads and holds views.
LEMMA ViewsOnTop ==
    ASSUME TypeOK, NEW n \in Nat, n <= Len(streams), Len(streams') = n + 1,
           \A k \in 1..n : streams'[k] = streams[k],
           \A v \in streams'[n + 1].views \cup streams'[n + 1].from : IsView(v),
           results' = results, Abstraction' = Abstraction
    PROVE  \A v : IsView(v)' => IsView(v)
<1> SUFFICES ASSUME NEW v, IsView(v)' PROVE IsView(v)
  OBVIOUS
<1>1. Len(streams) \in Nat
  BY Lengths
<1>2. ASSUME NEW k \in 1..Len(streams'), v \in streams'[k].views \cup streams'[k].from
      PROVE  IsView(v)
  <2>1. CASE k = n + 1
    BY <1>2, <2>1
  <2>2. CASE k # n + 1
    <3>1. k \in 1..n /\ k \in 1..Len(streams)
      BY <1>1, <2>2
    <3> QED
      BY <1>2, <3>1 DEF IsView
  <2> QED
    BY <2>1, <2>2
<1> QED
  BY <1>2, ViewsNext DEF IsView

LEMMA RunningViews ==
    ASSUME TypeOK, StageInv, phase = "pp2"
    PROVE  \A v \in Running.views \cup Running.from : IsView(v)
<1>1. Len(streams) \in 1..Len(streams) /\ Running = streams[Len(streams)]
  BY RunningFacts
<1> QED
  BY <1>1 DEF IsView

LEMMA ViewsPush ==
    ASSUME TypeOK, ShapeInv, StageInv, ViewsInv, Push
    PROVE  ViewsInv'
<1> DEFINE obj == Pushed(Running.obj)
<1> DEFINE top == [obj |-> obj, views |-> Running.views \cup Running.from, from |-> Running.from]
<1>1. Allocate(New(obj), {}) /\ streams' = Append(Left(streams), top)
  BY PushFacts
<1>2. UNCHANGED <<phase, source_stack, results, history>> /\ phase = "pp2" /\ Abstraction' = Abstraction
  BY PushMap DEF Push
<1>3. top.views = Running.views \cup Running.from /\ top.from = Running.from
  OBVIOUS
<1> HIDE DEF obj, top
<1>4. Len(streams) \in Nat /\ Len(streams) > 0
  BY <1>2, RunningFacts
<1>5. /\ Len(streams') = Len(streams) /\ streams'[Len(streams)] = top
      /\ \A k \in 1..(Len(streams) - 1) : streams'[k] = streams[k]
  BY <1>1, <1>4, TopReplaced
<1>6. \A v \in top.views \cup top.from : IsView(v)
  BY <1>2, <1>3, RunningViews
<1> DEFINE n == Len(streams) - 1
<1>7. n \in Nat /\ n <= Len(streams) /\ Len(streams) = n + 1
  BY <1>4
<1>8. \A k \in 1..n : streams'[k] = streams[k]
  BY <1>5
<1> HIDE DEF n
<1>9. Len(streams') = n + 1 /\ streams'[n + 1] = top
  BY <1>5, <1>7
<1>10. \A v : IsView(v)' => IsView(v)
  BY <1>2, <1>6, <1>7, <1>8, <1>9, ViewsOnTop
<1>11. fresh <= fresh' /\ fresh' \in Nat
  BY <1>1, FreshGrows
<1> QED
  BY <1>2, <1>10, <1>11, ViewsPp2

LEMMA ViewsBeginUse ==
    ASSUME TypeOK, ShapeInv, StageInv, ViewsInv, BeginUse
    PROVE  ViewsInv'
<1>1. PICK id \in Ids : Has(id) /\ streams' = Append(streams, NewStream(Get(id).views))
  BY BeginUseFacts
<1> DEFINE top == NewStream(Get(id).views)
<1>2. UNCHANGED <<phase, fresh, source_stack, results, history, data, bitset>> /\ phase = "pp2"
  BY DEF BeginUse
<1>3. top.views = {} /\ top.from = Get(id).views
  BY DEF NewStream
<1>4. \A v \in Get(id).views : IsView(v)
  BY <1>1, AbstractionIs DEF IsView
<1> HIDE DEF top
<1>5. streams \in Seq(Stream) /\ Len(streams) \in Nat /\ streams' = Append(streams, top)
  BY <1>1, StateType, Lengths DEF top
<1>6. Len(streams') = Len(streams) + 1 /\ streams'[Len(streams) + 1] = top
      /\ \A k \in 1..Len(streams) : streams'[k] = streams[k]
  BY <1>5
<1>7. Abstraction' = Abstraction
  BY <1>2, MapKept
<1>8. \A v : IsView(v)' => IsView(v)
  BY <1>2, <1>3, <1>4, <1>5, <1>6, <1>7, ViewsOnTop
<1> QED
  BY <1>2, <1>8, ViewsPp2, StateType

LEMMA ViewsEndUse ==
    ASSUME TypeOK, ShapeInv, StageInv, ViewsInv, EndUse
    PROVE  ViewsInv'
<1> DEFINE outer == streams[Len(streams) - 1]
<1> DEFINE obj == IF Running.obj = 0 THEN outer.obj ELSE Pushed(outer.obj)
<1> DEFINE top == [obj |-> obj, views |-> outer.views \cup Running.views, from |-> outer.from]
<1>1. /\ Len(streams) \in Nat /\ Len(streams) > 1 /\ Allocate(New(obj), {Running.obj})
      /\ streams' = Append(Left(Left(streams)), top)
  BY EndUseFacts
<1>2. UNCHANGED <<phase, source_stack, results, history, data, bitset>> /\ phase = "pp2"
  BY DEF EndUse
<1>3. top.views = outer.views \cup Running.views /\ top.from = outer.from
  OBVIOUS
<1>4. \A v \in outer.views \cup outer.from : IsView(v)
  <2>1. Len(streams) - 1 \in 1..Len(streams)
    BY <1>1
  <2> QED
    BY <2>1 DEF IsView
<1> HIDE DEF obj, outer, top
<1>5. \A v \in top.views \cup top.from : IsView(v)
  BY <1>2, <1>3, <1>4, RunningViews
<1> DEFINE n == Len(streams) - 2
<1>6. n \in Nat /\ n <= Len(streams) /\ Len(streams) = n + 2
  BY <1>1
<1> HIDE DEF n
<1>7. Len(streams') = n + 1 /\ streams'[n + 1] = top /\ \A k \in 1..n : streams'[k] = streams[k]
  <2> DEFINE s == Left(streams)
  <2>1. s \in Seq(Stream) /\ Len(s) = n + 1 /\ \A k \in 1..(n + 1) : s[k] = streams[k]
    <3>1. streams \in Seq(Stream) /\ Len(streams) > 0 /\ Len(streams) - 1 = n + 1
      BY <1>1, <1>6, StateType
    <3>2. s \in Seq(Stream) /\ Len(s) = Len(streams) - 1
          /\ \A k \in 1..(Len(streams) - 1) : s[k] = streams[k]
      BY <3>1, LeftFacts
    <3> HIDE DEF s
    <3> QED
      BY <3>1, <3>2
  <2> DEFINE r == Left(s)
  <2>2. streams' = Append(r, top)
    BY <1>1
  <2> HIDE DEF s
  <2>3. r \in Seq(Stream) /\ Len(r) = n /\ \A k \in 1..n : r[k] = s[k]
    <3>1. Len(s) > 0 /\ Len(s) - 1 = n
      BY <1>6, <2>1
    <3>2. r \in Seq(Stream) /\ Len(r) = Len(s) - 1 /\ \A k \in 1..(Len(s) - 1) : r[k] = s[k]
      BY <3>1, <2>1, LeftFacts
    <3> HIDE DEF r
    <3> QED
      BY <3>1, <3>2
  <2> HIDE DEF r
  <2>4. Len(streams') = n + 1 /\ streams'[n + 1] = top /\ \A k \in 1..n : streams'[k] = r[k]
    BY <1>6, <2>2, <2>3
  <2> QED
    BY <1>6, <2>1, <2>3, <2>4
<1>8. Abstraction' = Abstraction
  BY <1>2, MapKept
<1>9. \A v : IsView(v)' => IsView(v)
  BY <1>2, <1>5, <1>6, <1>7, <1>8, ViewsOnTop
<1>10. fresh <= fresh' /\ fresh' \in Nat
  BY <1>1, FreshGrows
<1> QED
  BY <1>2, <1>9, <1>10, ViewsPp2

LEMMA ViewsMacroDef ==
    ASSUME TypeOK, ShapeInv, StageInv, ViewsInv, macro_def
    PROVE  ViewsInv'
<1>1. PICK id \in Ids, def \in MacroDef :
              /\ Allocate(New(def.args) \cup {def.body}, OldDef(id))
              /\ imap_set(def, id) /\ def.views = Running.from
  BY MacroDefFacts
<1>2. MapInv(MacroDef) /\ num_bits > 0 /\ id \in Nat
  BY StateType DEF ShapeInv, macro_def, Outermost
<1>3. imap_set(def, id) /\ def \in MacroDef
  BY <1>1
<1>4. Abstraction' = With(Abstraction, id, def)
  BY <1>2, <1>3, AbstractSet
<1>5. UNCHANGED <<phase, source_stack, streams, results, history>> /\ phase = "pp2"
  BY DEF macro_def, Outermost
<1>6. \A v \in Running.from : IsView(v)
  BY <1>5, RunningViews
<1>7. \A v : IsView(v)' => IsView(v)
  <2> SUFFICES ASSUME NEW v, IsView(v)' PROVE IsView(v)
    OBVIOUS
  <2>1. ASSUME NEW i \in DOMAIN Abstraction', v \in Abstraction'[i].views PROVE IsView(v)
    <3>1. CASE i = id
      <4>1. Abstraction'[i] = def
        BY <1>4, <3>1 DEF With
      <4> QED
        BY <1>1, <1>6, <2>1, <4>1
    <3>2. CASE i # id
      <4>1. i \in DOMAIN Abstraction /\ Abstraction'[i] = Abstraction[i]
        BY <1>4, <2>1, <3>2 DEF With
      <4> QED
        BY <2>1, <4>1 DEF IsView
    <3> QED
      BY <3>1, <3>2
  <2> QED
    BY <1>5, <2>1, ViewsNext DEF IsView
<1>8. fresh <= fresh' /\ fresh' \in Nat
  BY <1>1, FreshGrows
<1> QED
  BY <1>5, <1>7, <1>8, ViewsPp2

LEMMA ViewsEndPp2 ==
    ASSUME TypeOK, ShapeInv, StageInv, ViewsInv, EndPp2
    PROVE  ViewsInv'
<1>1. UNCHANGED <<fresh, source_stack, data, bitset>> /\ phase = "pp2" /\ phase' = "idle"
      /\ streams' = << >> /\ results' = results \cup {Result}
  BY DEF EndPp2, Outermost
<1>2. history'.texts = history.texts /\ history'.redone = history.redone
  BY DEF EndPp2, ShapeInv, History
<1>3. Result.views = Running.views
  BY DEF Result
<1>4. \A v \in Running.views : IsView(v)
  BY <1>1, RunningViews
<1>5. Abstraction' = Abstraction
  BY <1>1, MapKept
<1>6. \A v : IsView(v)' => IsView(v)
  <2> SUFFICES ASSUME NEW v, IsView(v)' PROVE IsView(v)
    OBVIOUS
  <2>1. ASSUME NEW r \in results', v \in r.views PROVE IsView(v)
    BY <1>1, <1>3, <1>4, <2>1 DEF IsView
  <2>2. ~ \E k \in 1..Len(streams') : v \in streams'[k].views \cup streams'[k].from
    BY <1>1
  <2> QED
    BY <1>5, <2>1, <2>2, ViewsNext DEF IsView
<1> QED
  BY <1>1, <1>2, <1>6, ViewsPp2, StateType

LEMMA ViewsStep ==
    ASSUME TypeOK, ShapeInv, StageInv, ViewsInv, [Next]_vars
    PROVE  ViewsInv'
<1>1. CASE UNCHANGED vars
  <2>1. \A v : IsView(v)' => IsView(v)
    BY <1>1, MapKept, NoNewView DEF vars
  <2>2. phase = "pp1" => FilesOnTop
    BY ViewsAre
  <2>3. ViewsLeft
    BY <1>1, <2>1, <2>2, StateType DEF vars, ViewsLeft, OnStack, FilesOnTop
  <2> QED
    BY <2>3, ViewsKept
<1>2. CASE Pp1Error \/ Pp2Error
  <2>1. initiate_error /\ fresh' = fresh /\ phase # "freed"
    BY <1>2 DEF Pp1Error, Pp2Error, Scanning
  <2> QED
    BY <2>1, ViewsError, StateType
<1>3. CASE IncludeError
  <2>1. CASE Got(1) # "ok"
    <3>1. Stop(Got(1)) /\ Got(1) # "pp1" /\ phase # "freed"
      BY <1>3, <2>1, GotIs DEF IncludeError, Scanning
    <3> QED
      BY <3>1, ViewsStop
  <2>2. CASE Stop("aborted")
    BY <1>3, <2>2, ViewsStop DEF IncludeError, Scanning
  <2>3. CASE Got(1) = "ok" /\ ~Stop("aborted")
    <3>1. initiate_error /\ fresh' = fresh /\ phase # "freed"
      BY <1>3, <2>3 DEF IncludeError, Scanning
    <3> QED
      BY <3>1, ViewsError, StateType
  <2> QED
    BY <2>1, <2>2, <2>3
<1>4. CASE DefineError
  <2>1. PICK args \in OrNull(Objects) : Allocate(New(args), {})
    BY <1>4, DefineErrorFacts
  <2>2. fresh <= fresh' /\ fresh' \in Nat
    BY <2>1, FreshGrows
  <2>3. initiate_error /\ phase # "freed"
    BY <1>4 DEF DefineError, Outermost
  <2> QED
    BY <2>2, <2>3, ViewsError
<1>5. CASE EndPp1Aborts
  BY <1>5, ViewsStop DEF EndPp1Aborts
<1> QED
  BY <1>1, <1>2, <1>3, <1>4, <1>5, ViewsIncludeDir, ViewsAddSource, ViewsPreprocess, ViewsFreeResult,
     ViewsFreeCompiler, ViewsInclude, ViewsReturn, ViewsEndPp1, ViewsPush, ViewsBeginUse, ViewsEndUse,
     ViewsMacroDef, ViewsEndPp2 DEF Next

\* ViewsAreLive in terms of the views.
LEMMA ViewsAreOwned ==
    ASSUME TypeOK, ShapeInv, OwnInv, ViewsInv
    PROVE  ViewsAreLive
<1> SUFFICES ASSUME phase # "freed",
                    NEW v \in UNION ({r.views : r \in results} \cup {Get(i).views : i \in Defined})
             PROVE  v \in heap \cup history.redone
  BY DEF ViewsAreLive
<1>1. IsView(v)
  <2>1. CASE \E r \in results : v \in r.views
    BY <2>1 DEF IsView
  <2>2. CASE \E i \in Defined : v \in Get(i).views
    BY <2>2, AbstractionIs DEF IsView, Defined
  <2> QED
    BY <2>1, <2>2
<1>2. CASE v \in history.redone
  BY <1>2
<1>3. CASE v \notin history.redone
  <2>1. PICK k \in 1..Len(source_stack) : source_stack[k] = v
    BY <1>1, <1>3 DEF ViewsInv
  <2> DEFINE h == <<"source", k, source_stack[k]>>
  <2>2. h \in Listed("source", source_stack) /\ h[3] = source_stack[k]
    BY DEF Listed
  <2> HIDE DEF h
  <2>3. h \in Places
    BY <2>2, PlacesAre
  <2>4. source_stack[k] # 0
    <3>1. source_stack[k] \in Objects
      BY StateType, ElementOfSeq
    <3> QED
      BY <3>1 DEF Objects
  <2> QED
    BY <2>1, <2>2, <2>3, <2>4 DEF OwnInv, Accounted
<1> QED
  BY <1>2, <1>3

-----------------------------------------------------------------------------
(* Steps keep what a call has added to what it found.                       *)

LEMMA BeginsAppend ==
    ASSUME NEW S, NEW s \in Seq(S), NEW t \in Seq(S), Begins(s, t), NEW x \in S
    PROVE  Begins(s, Append(t, x))
<1> DEFINE u == Append(t, x)
<1>1. Len(s) \in Nat /\ Len(t) \in Nat /\ Len(u) = Len(t) + 1 /\ \A k \in 1..Len(t) : u[k] = t[k]
  OBVIOUS
<1> HIDE DEF u
<1>2. Begins(s, u)
  BY <1>1 DEF Begins
<1> QED
  BY <1>2 DEF u

LEMMA BeginsLeft ==
    ASSUME NEW S, NEW s \in Seq(S), NEW t \in Seq(S), Begins(s, t), Len(s) < Len(t)
    PROVE  Begins(s, Left(t))
<1> DEFINE u == Left(t)
<1>1. Len(s) \in Nat /\ Len(t) \in Nat /\ Len(t) > 0
  OBVIOUS
<1>2. Len(u) = Len(t) - 1 /\ \A k \in 1..(Len(t) - 1) : u[k] = t[k]
  BY <1>1, LeftFacts
<1> HIDE DEF u
<1>3. Begins(s, u)
  BY <1>1, <1>2 DEF Begins
<1> QED
  BY <1>3 DEF u

LEMMA BeginsEqual ==
    ASSUME NEW S, NEW s \in Seq(S), NEW t \in Seq(S), Begins(s, t), Len(s) = Len(t)
    PROVE  s = t
BY SeqEqual DEF Begins

LEMMA BeginsItself ==
    ASSUME NEW S, NEW s \in Seq(S)
    PROVE  Begins(s, s)
BY DEF Begins

LEMMA StartType ==
    ASSUME ShapeInv
    PROVE  /\ history.start.included \in Seq(Path) /\ history.start.stack \in Seq(Ids)
           /\ history.start.sources \in Nat /\ history.start.def \in MacroDef
           /\ Len(history.start.included) \in Nat /\ Len(history.start.stack) \in Nat
           /\ history.start = [included |-> history.start.included, stack |-> history.start.stack,
                               sources |-> history.start.sources, def |-> history.start.def]
<1>1. history.start \in KeptState
  BY HistoryType
<1> QED
  BY <1>1 DEF KeptState

InCall == phase \in {"pp1", "pp2"}

\* How much deeper the running call is in macros.
Uses == IF phase = "pp2" THEN Len(streams) - 1 ELSE 0

CallParts ==
    /\ ~history.returned
    /\ Begins(history.start.included, included_files)
    /\ Len(included_files) = Len(history.start.included) + depth
    /\ Begins(history.start.stack, macro_stack)
    /\ Len(macro_stack) = Len(history.start.stack) + Uses
    /\ Len(source_stack) = history.start.sources + depth
    /\ bufdef = history.start.def \/ bufdef = NoDef

LEMMA CallIs ==
    /\ CallInv <=> (InCall => CallParts)
    /\ CallInv' <=> (InCall' => CallParts')
BY DEF CallInv, InCall, CallParts, Uses

\* Both parts together: what is true in a call, and after one.
LEMMA CallEnds ==
    ASSUME ~InCall', phase' # "idle" \/ ~history'.returned
    PROVE  CallInv' /\ BalancedCalls'
BY CallIs DEF BalancedCalls

LEMMA CallGoesOn ==
    ASSUME InCall', CallParts'
    PROVE  CallInv' /\ BalancedCalls'
BY CallIs DEF BalancedCalls, InCall

LEMMA CallStop ==
    ASSUME NEW reason \in {"bad free", "aborted", "overrun"}, Stop(reason)
    PROVE  CallInv' /\ BalancedCalls'
<1>1. ~InCall' /\ phase' # "idle"
  BY DEF Stop, InCall
<1> QED
  BY <1>1, CallEnds

LEMMA CallError ==
    ASSUME ShapeInv, CallInv, initiate_error, InCall
    PROVE  CallInv' /\ BalancedCalls'
<1>1. ~history.returned
  BY CallIs DEF CallParts
<1>2. history'.returned = history.returned
  BY DEF initiate_error, ShapeInv, History
<1>3. ~history'.returned
  BY <1>1, <1>2, Zenon
<1>4. ~InCall'
  BY DEF initiate_error, InCall
<1> QED
  BY <1>3, <1>4, CallEnds

\* What the client does between calls.
LEMMA CallIdle ==
    ASSUME BalancedCalls, phase = "idle", phase' = "idle",
           UNCHANGED <<included_files, macro_stack, source_stack, bufdef, history>>
    PROVE  CallInv' /\ BalancedCalls'
<1>1. ~InCall'
  BY DEF InCall
<1> QED
  BY <1>1, CallIs DEF BalancedCalls, Kept

LEMMA CallPreprocess ==
    ASSUME TypeOK, ShapeInv, StageInv, compiler_preprocess
    PROVE  CallInv' /\ BalancedCalls'
<1>1. CASE Got(1) # "ok"
  <2>1. Stop(Got(1)) /\ Got(1) \in {"aborted", "overrun"}
    BY <1>1, GotIs DEF compiler_preprocess
  <2> QED
    BY <2>1, CallStop
<1>2. CASE Got(1) = "ok"
  <2>1. /\ phase' = "pp1"
        /\ UNCHANGED <<included_files, macro_stack, source_stack, bufdef, depth>>
    BY <1>2 DEF compiler_preprocess
  <2>2. ~history'.returned /\ history'.start = Kept
    BY <1>2 DEF compiler_preprocess, ShapeInv, History
  <2>3. /\ history'.start.included = included_files /\ history'.start.stack = macro_stack
        /\ history'.start.sources = Len(source_stack) /\ history'.start.def = bufdef
    BY <2>2 DEF Kept
  <2>4. depth = 0
    BY DEF compiler_preprocess, StageInv
  <2>5. Uses' = 0
    BY <2>1 DEF Uses
  <2>6. Begins(included_files, included_files) /\ Begins(macro_stack, macro_stack)
    BY StateType, BeginsItself
  <2>7. Len(included_files) \in Nat /\ Len(macro_stack) \in Nat /\ Len(source_stack) \in Nat
    BY Lengths
  <2>8. CallParts'
    BY <2>1, <2>2, <2>3, <2>4, <2>5, <2>6, <2>7 DEF CallParts
  <2>9. InCall'
    BY <2>1 DEF InCall
  <2> QED
    BY <2>8, <2>9, CallGoesOn
<1> QED
  BY <1>1, <1>2

LEMMA CallInclude ==
    ASSUME TypeOK, ShapeInv, CallInv, Include
    PROVE  CallInv' /\ BalancedCalls'
<1>1. CASE Got(2) # "ok"
  <2>1. phase' \in {"aborted", "overrun"}
    BY <1>1, GotIs DEF Include
  <2>2. ~InCall' /\ phase' # "idle"
    BY <2>1 DEF InCall
  <2> QED
    BY <2>2, CallEnds
<1>2. CASE Got(2) = "ok"
  <2>1. /\ phase = "pp1" /\ phase' = "pp1" /\ depth' = depth + 1
        /\ source_stack' = Append(source_stack, fresh + 1)
        /\ UNCHANGED <<macro_stack, bufdef, history>>
    BY <1>2 DEF Include, Scanning
  <2>2. CallParts
    BY <2>1, CallIs DEF InCall
  <2>3. /\ included_files \in Seq(Path) /\ history.start.included \in Seq(Path)
        /\ Len(included_files) \in Nat /\ Len(history.start.included) \in Nat
        /\ depth \in Nat /\ Len(source_stack) \in Nat /\ history.start.sources \in Nat
    BY StateType, StartType, Lengths
  <2>4. PICK p \in Path : included_files' = Append(included_files, p)
    <3>1. PICK f \in Files, mem \in {0, fresh + 2} :
                /\ included_files' = Append(included_files, [file |-> f, mem |-> mem])
                /\ mem \in OrNull(Objects)
      BY IncludeFacts
    <3>2. [file |-> f, mem |-> mem] \in Path
      BY <3>1 DEF Path
    <3> QED
      BY <3>1, <3>2
  <2>6. Begins(history.start.included, included_files')
    BY <2>2, <2>3, <2>4, BeginsAppend DEF CallParts
  <2>7. Len(included_files') = Len(included_files) + 1
    BY <2>3, <2>4
  <2>8. Len(source_stack') = Len(source_stack) + 1
    BY <2>1, OnMore
  <2>9. Uses = 0 /\ Uses' = 0
    BY <2>1 DEF Uses
  <2>10. Len(included_files') = Len(history.start.included) + depth'
         /\ Len(source_stack') = history.start.sources + depth'
    <3>1. Len(included_files) = Len(history.start.included) + depth
          /\ Len(source_stack) = history.start.sources + depth
      BY <2>2 DEF CallParts
    <3>2. depth' = depth + 1
      BY <2>1
    <3>3. /\ Len(history.start.included) \in Nat /\ depth \in Nat /\ history.start.sources \in Nat
          /\ Len(included_files) \in Nat /\ Len(source_stack) \in Nat
      BY <2>3
    <3>4. \A m, n, d \in Nat : m = n + d => m + 1 = n + (d + 1)
      OBVIOUS
    <3>5. Len(included_files') = Len(history.start.included) + depth'
      BY <2>7, <3>1, <3>2, <3>3, <3>4
    <3>6. Len(source_stack') = history.start.sources + depth'
      BY <2>8, <3>1, <3>2, <3>3, <3>4
    <3> QED
      BY <3>5, <3>6
  <2>11. CallParts' /\ InCall'
    BY <2>1, <2>2, <2>6, <2>9, <2>10 DEF CallParts, InCall
  <2> QED
    BY <2>11, CallGoesOn
<1> QED
  BY <1>1, <1>2

LEMMA CallReturn ==
    ASSUME TypeOK, ShapeInv, StageInv, CallInv, ReturnToIncluder
    PROVE  CallInv' /\ BalancedCalls'
<1>1. /\ phase = "pp1" /\ phase' = "pp1" /\ depth > 0 /\ depth' = depth - 1
      /\ included_files' = Left(included_files) /\ source_stack' = Left(source_stack)
      /\ UNCHANGED <<macro_stack, bufdef, history>>
  BY DEF ReturnToIncluder
<1>2. CallParts
  BY <1>1, CallIs DEF InCall
<1>3. /\ included_files \in Seq(Path) /\ history.start.included \in Seq(Path)
      /\ Len(included_files) \in Nat /\ Len(history.start.included) \in Nat
      /\ depth \in Nat /\ Len(source_stack) \in Nat /\ history.start.sources \in Nat
      /\ source_stack \in Seq(Objects)
  BY StateType, StartType, Lengths
<1>4. Len(history.start.included) < Len(included_files) /\ Len(included_files) > 0 /\ Len(source_stack) > 0
  BY <1>1, <1>2, <1>3 DEF CallParts
<1>5. Begins(history.start.included, included_files')
  BY <1>1, <1>2, <1>3, <1>4, BeginsLeft DEF CallParts
<1>6. Len(included_files') = Len(included_files) - 1 /\ Len(source_stack') = Len(source_stack) - 1
  BY <1>1, <1>3, <1>4, LeftFacts
<1>7. Uses = 0 /\ Uses' = 0
  BY <1>1 DEF Uses
<1>8. Len(included_files') = Len(history.start.included) + depth'
      /\ Len(source_stack') = history.start.sources + depth'
  BY <1>1, <1>2, <1>3, <1>6 DEF CallParts
<1>9. CallParts' /\ InCall'
  BY <1>1, <1>2, <1>5, <1>7, <1>8 DEF CallParts, InCall
<1> QED
  BY <1>9, CallGoesOn

LEMMA CallEndPp1 ==
    ASSUME TypeOK, ShapeInv, StageInv, CallInv, EndPp1
    PROVE  CallInv' /\ BalancedCalls'
<1>1. /\ phase = "pp1" /\ phase' = "pp2" /\ depth = 0 /\ Len(streams') = 1
      /\ source_stack' = Append(Left(source_stack), fresh + 1)
      /\ UNCHANGED <<included_files, macro_stack, bufdef, depth>>
  BY DEF EndPp1
<1>2. CallParts
  BY <1>1, CallIs DEF InCall
<1>3. history'.start = history.start /\ history'.returned = history.returned
  BY EndPp1History
<1>4. Len(source_stack') = Len(source_stack)
  <2> DEFINE s == Left(source_stack)
  <2>1. source_stack \in Seq(Objects) /\ Len(source_stack) \in Nat /\ Len(source_stack) > 0
    BY <1>1, StateType, Lengths DEF StageInv
  <2>2. s \in Seq(Objects) /\ Len(s) = Len(source_stack) - 1 /\ source_stack' = Append(s, fresh + 1)
    BY <1>1, <2>1, LeftFacts
  <2> HIDE DEF s
  <2> QED
    BY <2>1, <2>2
<1>5. Uses = 0 /\ Uses' = 0
  BY <1>1 DEF Uses
<1>6. CallParts' /\ InCall'
  BY <1>1, <1>2, <1>3, <1>4, <1>5 DEF CallParts, InCall
<1> QED
  BY <1>6, CallGoesOn

LEMMA CallPush ==
    ASSUME TypeOK, ShapeInv, StageInv, CallInv, Push
    PROVE  CallInv' /\ BalancedCalls'
<1>1. /\ phase = "pp2" /\ phase' = "pp2"
      /\ UNCHANGED <<included_files, macro_stack, source_stack, bufdef, depth, history>>
  BY DEF Push
<1>2. CallParts
  BY <1>1, CallIs DEF InCall
<1>3. Len(streams') = Len(streams)
  <2>1. PICK x : streams' = Append(Left(streams), x)
    BY DEF Push
  <2>2. Len(streams) > 0
    BY <1>1, RunningFacts
  <2> QED
    BY <2>1, <2>2, TopReplaced
<1>4. Uses' = Uses
  BY <1>1, <1>3 DEF Uses
<1>5. CallParts' /\ InCall'
  BY <1>1, <1>2, <1>4 DEF CallParts, InCall
<1> QED
  BY <1>5, CallGoesOn

LEMMA CallBeginUse ==
    ASSUME TypeOK, ShapeInv, StageInv, CallInv, BeginUse
    PROVE  CallInv' /\ BalancedCalls'
<1>1. /\ phase = "pp2" /\ phase' = "pp2"
      /\ UNCHANGED <<included_files, source_stack, bufdef, depth, history>>
  BY DEF BeginUse
<1>2. CallParts
  BY <1>1, CallIs DEF InCall
<1>3. PICK id \in Ids : /\ macro_stack' = Append(macro_stack, id)
                        /\ streams' = Append(streams, NewStream(Get(id).views))
  BY BeginUseFacts
<1>4. /\ macro_stack \in Seq(Ids) /\ history.start.stack \in Seq(Ids)
      /\ Len(macro_stack) \in Nat /\ Len(history.start.stack) \in Nat
      /\ streams \in Seq(Stream) /\ Len(streams) \in Nat
  BY StateType, StartType, Lengths
<1>5. Begins(history.start.stack, macro_stack')
  BY <1>2, <1>3, <1>4, BeginsAppend DEF CallParts
<1>6. Len(macro_stack') = Len(macro_stack) + 1
  BY <1>3, <1>4
<1>7. Len(streams') = Len(streams) + 1
  <2> DEFINE top == NewStream(Get(id).views)
  <2>1. streams' = Append(streams, top)
    BY <1>3
  <2> HIDE DEF top
  <2> QED
    BY <1>4, <2>1
<1>8. Uses' = Len(streams) /\ Uses = Len(streams) - 1
  BY <1>1, <1>4, <1>7 DEF Uses
<1>9. Len(macro_stack') = Len(history.start.stack) + Uses'
  BY <1>2, <1>4, <1>6, <1>8 DEF CallParts
<1>10. CallParts' /\ InCall'
  BY <1>1, <1>2, <1>5, <1>9 DEF CallParts, InCall
<1> QED
  BY <1>10, CallGoesOn

LEMMA CallEndUse ==
    ASSUME TypeOK, ShapeInv, StageInv, CallInv, EndUse
    PROVE  CallInv' /\ BalancedCalls'
<1>1. /\ phase = "pp2" /\ phase' = "pp2" /\ macro_stack' = Left(macro_stack)
      /\ Len(streams) \in Nat /\ Len(streams) > 1
      /\ UNCHANGED <<included_files, source_stack, bufdef, depth, history>>
  BY Lengths DEF EndUse, Popped
<1>2. CallParts
  BY <1>1, CallIs DEF InCall
<1>3. /\ macro_stack \in Seq(Ids) /\ history.start.stack \in Seq(Ids)
      /\ Len(macro_stack) \in Nat /\ Len(history.start.stack) \in Nat
  BY StateType, StartType, Lengths
<1>4. Uses = Len(streams) - 1
  BY <1>1 DEF Uses
<1>5. Len(history.start.stack) < Len(macro_stack) /\ Len(macro_stack) > 0
  BY <1>1, <1>2, <1>3, <1>4 DEF CallParts
<1>6. Begins(history.start.stack, macro_stack')
  BY <1>1, <1>2, <1>3, <1>5, BeginsLeft DEF CallParts
<1>7. Len(macro_stack') = Len(macro_stack) - 1
  BY <1>1, <1>3, <1>5, LeftFacts
<1>8. Len(streams') = Len(streams) - 1
  <2>1. PICK x : streams' = Append(Left(Left(streams)), x)
    BY DEF EndUse
  <2> DEFINE s == Left(streams)
  <2>2. s \in Seq(Stream) /\ Len(s) = Len(streams) - 1
    BY <1>1, StateType, LeftFacts
  <2> DEFINE r == Left(s)
  <2>3. streams' = Append(r, x)
    BY <2>1
  <2> HIDE DEF s
  <2>4. Len(s) \in Nat /\ Len(s) > 0
    BY <1>1, <2>2
  <2>5. r \in Seq(Stream) /\ Len(r) = Len(s) - 1
    BY <2>2, <2>4, LeftFacts
  <2> HIDE DEF r
  <2>6. Len(streams') = Len(r) + 1
    BY <2>3, <2>5
  <2> QED
    BY <2>2, <2>4, <2>5, <2>6
<1>9. Uses' = Len(streams) - 2
  BY <1>1, <1>8 DEF Uses
<1>10. Len(macro_stack') = Len(history.start.stack) + Uses'
  <2>1. Len(macro_stack) = Len(history.start.stack) + Uses
    BY <1>2 DEF CallParts
  <2>2. Len(streams) \in Nat
    BY <1>1
  <2> QED
    BY <1>3, <1>4, <1>7, <1>9, <2>1, <2>2
<1>11. CallParts' /\ InCall'
  BY <1>1, <1>2, <1>6, <1>10 DEF CallParts, InCall
<1> QED
  BY <1>11, CallGoesOn

LEMMA CallMacroDef ==
    ASSUME TypeOK, ShapeInv, StageInv, CallInv, macro_def
    PROVE  CallInv' /\ BalancedCalls'
<1>1. /\ phase = "pp2" /\ phase' = "pp2" /\ bufdef' = NoDef
      /\ UNCHANGED <<included_files, macro_stack, source_stack, depth, streams, history>>
  BY DEF macro_def, Outermost
<1>2. CallParts
  BY <1>1, CallIs DEF InCall
<1>3. Uses' = Uses
  BY <1>1 DEF Uses
<1>4. CallParts' /\ InCall'
  BY <1>1, <1>2, <1>3 DEF CallParts, InCall
<1> QED
  BY <1>4, CallGoesOn

\* What a call that returns leaves.
LEMMA CallEndPp2 ==
    ASSUME TypeOK, ShapeInv, StageInv, CallInv, EndPp2
    PROVE  CallInv' /\ BalancedCalls'
<1>1. /\ phase = "pp2" /\ phase' = "idle" /\ Len(streams) = 1 /\ depth = 0
      /\ UNCHANGED <<included_files, macro_stack, source_stack, bufdef>>
  BY DEF EndPp2, Outermost, StageInv
<1>2. CallParts
  BY <1>1, CallIs DEF InCall
<1>3. history'.start = history.start
  BY DEF EndPp2, ShapeInv, History
<1>4. /\ included_files \in Seq(Path) /\ history.start.included \in Seq(Path)
      /\ macro_stack \in Seq(Ids) /\ history.start.stack \in Seq(Ids)
      /\ Len(history.start.included) \in Nat /\ Len(history.start.stack) \in Nat
      /\ history.start.sources \in Nat
  BY StateType, StartType
<1>5. Uses = 0
  BY <1>1 DEF Uses
<1>6. included_files = history.start.included
  <2>1. Len(history.start.included) = Len(included_files)
    BY <1>1, <1>2, <1>4 DEF CallParts
  <2> QED
    BY <1>2, <1>4, <2>1, BeginsEqual DEF CallParts
<1>7. macro_stack = history.start.stack
  <2>1. Len(history.start.stack) = Len(macro_stack)
    BY <1>2, <1>4, <1>5 DEF CallParts
  <2> QED
    BY <1>2, <1>4, <2>1, BeginsEqual DEF CallParts
<1>8. Len(source_stack) = history.start.sources
  BY <1>1, <1>2, <1>4 DEF CallParts
<1>9. Kept' = [included |-> history.start.included, stack |-> history.start.stack,
               sources |-> history.start.sources, def |-> bufdef]
  BY <1>1, <1>6, <1>7, <1>8 DEF Kept
<1>10. history.start = [included |-> history.start.included, stack |-> history.start.stack,
                        sources |-> history.start.sources, def |-> history.start.def]
  BY StartType
<1>11. CASE bufdef = history.start.def
  <2>1. Kept' = history'.start
    BY <1>3, <1>9, <1>10, <1>11
  <2> QED
    BY <1>1, <2>1, CallIs DEF BalancedCalls, InCall
<1>12. CASE bufdef = NoDef
  <2>1. [history.start EXCEPT !.def = NoDef]
          = [included |-> history.start.included, stack |-> history.start.stack,
             sources |-> history.start.sources, def |-> NoDef]
    BY HistoryType DEF KeptState
  <2>2. Kept' = [history'.start EXCEPT !.def = NoDef]
    BY <1>3, <1>9, <1>12, <2>1
  <2> QED
    BY <1>1, <2>2, CallIs DEF BalancedCalls, InCall
<1> QED
  BY <1>2, <1>11, <1>12 DEF CallParts

LEMMA CallStep ==
    ASSUME TypeOK, ShapeInv, StageInv, CallInv, BalancedCalls, [Next]_vars
    PROVE  CallInv' /\ BalancedCalls'
<1>1. CASE UNCHANGED vars
  BY <1>1 DEF vars, CallInv, BalancedCalls, Kept
<1>2. CASE opt_include_dir \/ FreeResult
  BY <1>2, CallIdle DEF opt_include_dir, FreeResult
<1>3. CASE opt_add_source
  <2>1. ~history'.returned
    BY <1>3 DEF opt_add_source, ShapeInv, History
  <2>2. ~InCall'
    BY <1>3 DEF opt_add_source, InCall
  <2> QED
    BY <2>1, <2>2, CallEnds
<1>4. CASE free_compiler
  <2>1. CASE Stop("bad free")
    BY <2>1, CallStop
  <2>2. CASE ~Stop("bad free")
    <3>1. phase' = "freed"
      BY <1>4, <2>2 DEF free_compiler
    <3> QED
      BY <3>1, CallEnds DEF InCall
  <2> QED
    BY <2>1, <2>2
<1>5. CASE Pp1Error \/ Pp2Error \/ DefineError
  BY <1>5, CallError DEF Pp1Error, Pp2Error, DefineError, Scanning, Outermost, InCall
<1>6. CASE IncludeError
  <2>1. CASE Got(1) # "ok"
    BY <1>6, <2>1, GotIs, CallStop DEF IncludeError
  <2>2. CASE Stop("aborted")
    BY <2>2, CallStop
  <2>3. CASE Got(1) = "ok" /\ ~Stop("aborted")
    BY <1>6, <2>3, CallError DEF IncludeError, Scanning, InCall
  <2> QED
    BY <2>1, <2>2, <2>3
<1>7. CASE EndPp1Aborts
  BY <1>7, CallStop DEF EndPp1Aborts
<1> QED
  BY <1>1, <1>2, <1>3, <1>4, <1>5, <1>6, <1>7, CallPreprocess, CallInclude, CallReturn, CallEndPp1,
     CallPush, CallBeginUse, CallEndUse, CallMacroDef, CallEndPp2 DEF Next

-----------------------------------------------------------------------------
(* The inductive invariant.                                                 *)

LifeInv ==
    TypeOK /\ ShapeInv /\ StageInv /\ OwnInv /\ SharingInv /\ ViewsInv /\ CallInv /\ BalancedCalls

LEMMA InitTypes ==
    ASSUME Init
    PROVE  TypeOK /\ ShapeInv /\ DOMAIN Abstraction = {}
<1>1. MapInv(MacroDef) /\ num_bits > 0 /\ \A j : ~Has(j)
  BY EmptyMap DEF Init
<1>2. NoDef \in MacroDef /\ MaxObjects \in Nat
  BY NoDefType, LifecycleAssumption
<1>3. TypeOK
  <2>1. InternMapTypeOK(MacroDef)
    BY <1>1 DEF MapInv
  <2>2. fresh \in 0..MaxObjects /\ max_used \in 0..(MAX_BUFFERS + 1) /\ depth \in Nat
    BY <1>2 DEF Init, MAX_BUFFERS
  <2>3. /\ include_dirs \in Seq(Objects) /\ source_stack \in Seq(Objects)
        /\ included_files \in Seq(Path) /\ macro_stack \in Seq(Ids) /\ streams \in Seq(Stream)
    BY EmptySeq DEF Init
  <2> QED
    BY <1>2, <2>1, <2>2, <2>3 DEF Init, TypeOK
<1>4. history \in History
  <2>1. Kept \in KeptState
    BY <1>3, KeptTypes
  <2> QED
    BY <2>1 DEF Init, History
<1>5. ShapeInv
  BY <1>1, <1>4 DEF ShapeInv
<1> QED
  BY <1>1, <1>3, <1>5, AbstractEmpty

LEMMA InitOwns ==
    ASSUME Init
    PROVE  OwnInv
<1>1. DOMAIN Abstraction = {}
  BY InitTypes
<1>2. \A h \in Places : h = <<"bufdef", 0, 0>>
  <2>1. ArgsOf(Abstraction) = {} /\ BodiesOf(Abstraction) = {}
    BY <1>1 DEF ArgsOf, BodiesOf
  <2>2. /\ Listed("dir", include_dirs) = {} /\ Listed("source", source_stack) = {}
        /\ StreamsOf(streams) = {} /\ ResultsOf(results) = {} /\ PoolOf(pooled) = {}
    BY DEF Init, Listed, StreamsOf, ResultsOf, PoolOf
  <2>3. bufdef.args = 0
    BY DEF Init, NoDef
  <2> QED
    BY <2>1, <2>2, <2>3, PlacesAre
<1>3. \A h \in Places : h[3] = 0
  BY <1>2
<1>4. heap = {}
  BY DEF Init
<1> QED
  BY <1>3, <1>4 DEF OwnInv, Accounted

LEMMA InitOthers ==
    ASSUME Init
    PROVE  StageInv /\ SharingInv /\ ViewsInv /\ CallInv /\ BalancedCalls
<1>1. StageInv
  BY DEF Init, StageInv
<1>2. SharingInv
  BY DEF Init, SharingInv
<1>3. ViewsInv
  <2>1. DOMAIN Abstraction = {}
    BY InitTypes
  <2>2. \A v : ~IsView(v)
    BY <2>1 DEF Init, IsView
  <2> QED
    BY <2>2 DEF Init, ViewsInv
<1>4. CallInv
  BY DEF Init, CallInv
<1>5. BalancedCalls
  BY DEF Init, BalancedCalls
<1> QED
  BY <1>1, <1>2, <1>3, <1>4, <1>5

\* The parts of LifeInv hold always.
THEOREM Inductive == Spec => []LifeInv
<1>1. Init => LifeInv
  BY InitTypes, InitOwns, InitOthers DEF LifeInv
<1>2. LifeInv /\ [Next]_vars => LifeInv'
  <2> SUFFICES ASSUME LifeInv, [Next]_vars PROVE LifeInv'
    OBVIOUS
  <2>1. TypeOK /\ ShapeInv /\ StageInv /\ OwnInv /\ SharingInv /\ ViewsInv /\ CallInv /\ BalancedCalls
    BY DEF LifeInv
  <2>2. TypeOK' /\ ShapeInv'
    BY <2>1, TypesStep
  <2>3. StageInv' /\ SharingInv'
    BY <2>1, StageStep, SharingStep
  <2>4. OwnInv'
    BY <2>1, OwnStep
  <2>5. ViewsInv'
    BY <2>1, ViewsStep
  <2>6. CallInv' /\ BalancedCalls'
    BY <2>1, CallStep
  <2> QED
    BY <2>2, <2>3, <2>4, <2>5, <2>6 DEF LifeInv
<1> QED
  BY <1>1, <1>2, PTL DEF Spec

-----------------------------------------------------------------------------
(* The properties of a run of the compiler.                                 *)

\* Every variable of a compiler stays in its set (compiler.h, macros.h).
THEOREM TypeCorrect == Spec => []TypeOK
<1>1. LifeInv => TypeOK
  BY DEF LifeInv
<1> QED
  BY <1>1, Inductive, PTL

\* What free_compiler, macro_def and kv_destroy free is live and freed once, and
\* nothing else is live but what errors have lost (compiler.c, preprocess_2.c).
THEOREM OwnedCorrect == Spec => []OwnedOnce
<1>1. LifeInv => OwnedOnce
  BY OwnersAre DEF LifeInv
<1> QED
  BY <1>1, Inductive, PTL

\* Tokens of results and of macro bodies point into live sources, as long as the
\* compiler lives (compiler.c:79-81, tokens point into the source they are read from).
THEOREM ViewsCorrect == Spec => []ViewsAreLive
<1>1. LifeInv => ViewsAreLive
  BY ViewsAreOwned DEF LifeInv
<1> QED
  BY <1>1, Inductive, PTL

\* A call of compiler_preprocess that returns leaves the stacks as it found them
\* (preprocess_1.c, preprocess_2.c, pp2_macro.c).
THEOREM CallsAreBalanced == Spec => []BalancedCalls
<1>1. LifeInv => BalancedCalls
  BY DEF LifeInv
<1> QED
  BY <1>1, Inductive, PTL

-----------------------------------------------------------------------------
(* The map of macros implements a map.                                      *)

LEMMA MacroDefSets ==
    ASSUME TypeOK, ShapeInv, StageInv, macro_def
    PROVE  Abstract!Next
<1>1. PICK id \in Ids, def \in MacroDef : imap_set(def, id)
  BY MacroDefFacts
<1>2. MapInv(MacroDef) /\ num_bits > 0 /\ id \in Nat
  BY StateType DEF ShapeInv, macro_def, Outermost
<1>3. imap_set(def, id) /\ def \in MacroDef
  BY <1>1
<1>4. Abstraction' = With(Abstraction, id, def)
  BY <1>2, <1>3, AbstractSet
<1>5. id \in DOMAIN Abstraction' /\ Abstraction'[id] = def
  BY <1>4 DEF With
<1>6. Abstraction' = [i \in DOMAIN Abstraction \cup {id} |->
                         IF i = id THEN Abstraction'[id] ELSE Abstraction[i]]
  BY <1>4, <1>5 DEF With
<1>7. Abstract!Set(id)
  BY <1>5, <1>6 DEF Abstract!Set
<1> QED
  BY <1>7 DEF Abstract!Next

\* Only macro_def and free_compiler change what the map holds.
LEMMA MapStep ==
    ASSUME TypeOK, ShapeInv, StageInv, [Next]_vars
    PROVE  Abstract!Next \/ Abstraction' = Abstraction
<1>1. ASSUME UNCHANGED <<data, bitset>> PROVE Abstraction' = Abstraction
  BY <1>1, MapKept
<1>2. CASE macro_def
  BY <1>2, MacroDefSets
<1>3. CASE free_compiler
  <2>1. CASE imap_destroy
    <3>1. DOMAIN Abstraction' = {}
      BY <2>1, AbstractDestroy
    <3>2. Abstraction' = [j \in DOMAIN Abstraction' |-> Abstraction'[j]]
      BY AbstractionType
    <3>3. Abstraction' = [id \in {} |-> id]
      BY <3>1, <3>2
    <3> QED
      BY <3>3 DEF Abstract!Next, Abstract!Destroy, Abstract!Empty
  <2>2. CASE Stop("bad free")
    BY <1>1, <2>2 DEF Stop
  <2> QED
    BY <1>3, <2>1, <2>2 DEF free_compiler
<1>4. CASE Push
  BY <1>4, PushMap
<1>5. CASE IncludeError
  BY <1>1, <1>5 DEF IncludeError, Stop, initiate_error
<1> QED
  BY <1>1, <1>2, <1>3, <1>4, <1>5 DEF Next, vars, opt_include_dir, opt_add_source,
     compiler_preprocess, FreeResult, Pp1Error, Include, ReturnToIncluder, EndPp1Aborts, EndPp1,
     Pp2Error, BeginUse, EndUse, DefineError, EndPp2, Stop, initiate_error

\* da_internmap.h with its growing vector and bits is a map from ids to macros:
\* growing, by a definition or by a look-up, neither loses nor adds a macro.
THEOREM MapRefined == Spec => ImplementsMap
<1>1. Init => Abstract!Init
  <2> SUFFICES ASSUME Init PROVE Abstract!Init
    OBVIOUS
  <2>1. DOMAIN Abstraction = {} /\ Abstraction = [j \in DOMAIN Abstraction |-> Abstraction[j]]
    BY InitTypes, AbstractionType
  <2>2. Abstraction = [id \in {} |-> id]
    BY <2>1
  <2> QED
    BY <2>2 DEF Abstract!Init, Abstract!Empty
<1>2. LifeInv /\ [Next]_vars => [Abstract!Next]_Abstraction
  BY MapStep DEF LifeInv
<1> QED
  BY <1>1, <1>2, Inductive, PTL DEF Spec, ImplementsMap, Abstract!Spec
=============================================================================
