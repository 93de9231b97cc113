------------------------------ MODULE InternMap ------------------------------
(***************************************************************************)
(* The map keyed by interned strings (utils/da_internmap.h): a vector of   *)
(* values indexed by id (kv_a of thirdparty/kvec.h) and a bit for each id  *)
(* that has a value (utils/da_bitset.c).  Both grow on demand, apart from  *)
(* each other, and the bits even when one of them is only looked at.       *)
(***************************************************************************)
EXTENDS Integers, FiniteSets

CONSTANTS
    Ids,       \* the ids that are used
    NUM_BITS,  \* of new_bs, 64
    Uninit     \* what lies in a slot that nothing has been stored in

ASSUME InternMapAssumption == Ids \subseteq Nat /\ NUM_BITS \in Nat \ {0}

VARIABLES
    data,      \* its length n, its capacity m, and its slots a
    bitset     \* from 0 .. num_bits - 1 to 0 and 1

\* The only odd number that divides a power of 2 is 1.
IsPowerOf2(p) == p > 0 /\ \A d \in 2..p : p % d = 0 => d % 2 = 0

\* A seeded fault: rounded down.
FaultyRoundup(x) == CHOOSE p \in 1..x : IsPowerOf2(p) /\ 2 * p > x

\* kv_roundup32, for 0 < x
Roundup(x) == CHOOSE p \in x..(2 * x) : IsPowerOf2(p) /\ p < 2 * x

\* kv_a makes room for slot i; realloc keeps what was in the others.
RoomFor(v, i) ==
    IF v.m <= i
    THEN [n |-> i + 1, m |-> Roundup(i + 1),
          a |-> [j \in 0..(Roundup(i + 1) - 1) |-> IF j < v.m THEN v.a[j] ELSE Uninit]]
    ELSE IF v.n <= i THEN [v EXCEPT !.n = i + 1] ELSE v

num_bits == Cardinality(DOMAIN bitset)

\* What resize_bs makes of num_bits until bit i fits in.
Doubled(i) ==
    CHOOSE s \in num_bits..(2 * (num_bits + i)) :
       \E p \in 1..(2 * i + 1) :
          IsPowerOf2(p) /\ s = num_bits * p /\ i < s /\ (p = 1 \/ s <= 2 * i)

\* A seeded fault: the new bytes are not cleared.
FaultyWithBit(i) == [j \in 0..(Doubled(i) - 1) |-> IF j < num_bits THEN bitset[j] ELSE 1]

\* The bits after get_bit or set_bit has grown them for bit i.
WithBit(i) == [j \in 0..(Doubled(i) - 1) |-> IF j < num_bits THEN bitset[j] ELSE 0]

\* imap_has, where get_bit of a freed set is not 1; and imap_get where it is.
Has(i) == i \in DOMAIN bitset /\ bitset[i] = 1
Get(i) == IF i < data.n THEN data.a[i] ELSE Uninit

imap_init ==
    /\ data = [n |-> 0, m |-> 0, a |-> [j \in {} |-> Uninit]]
    /\ bitset = [j \in 0..(NUM_BITS - 1) |-> 0]

imap_set(val, i) ==
    /\ data' = [RoomFor(data, i) EXCEPT !.a[i] = val]
    /\ bitset' = [WithBit(i) EXCEPT ![i] = 1]

\* The values that imap_destroy passes to its destructor.
Destroyed == {data.a[i] : i \in {j \in 0..(data.n - 1) : Has(j)}}

\* Then free_bs, and free_ppctx sets the rest to zero.
imap_destroy ==
    /\ data' = [n |-> 0, m |-> 0, a |-> [j \in {} |-> Uninit]]
    /\ bitset' = [j \in {} |-> 0]

\* The vector and the bits keep their shape; no bit is set for a slot the vector
\* does not have.
InternMapTypeOK(Values) ==
    /\ data.n \in 0..data.m /\ data.a \in [0..(data.m - 1) -> Values \cup {Uninit}]
    /\ bitset \in [0..(num_bits - 1) -> {0, 1}]
    /\ \A i \in 0..(num_bits - 1) : Has(i) => i < data.n /\ data.a[i] \in Values

\* What look-ups see.
Abstraction == [i \in {j \in DOMAIN bitset : Has(j)} |-> Get(i)]
=============================================================================
