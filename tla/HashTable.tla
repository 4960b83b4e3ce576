----------------------------- MODULE HashTable -----------------------------
(* The hash table of libs3d/hash.c, and meshs3d's copy of it: lists of buckets *)
(* and an iterator that keeps the addresses of two of them, which may be freed *)
(* before it is used again.                                                    *)
EXTENDS Integers, Sequences, SequencesExt, FiniteSets

CONSTANTS
    Keys,       \* what the elements are found by
    Slot,       \* hash->choose(): a number for each key, before it is taken % size
    Sizes,      \* the sizes the table can have; it starts with the smallest
    Addrs       \* the addresses malloc() gives to buckets

VARIABLES
    size, table,    \* hash->size and hash->table, a list of buckets for each index
    elements,       \* hash->elements
    iter,           \* struct hash_it_t, or None
    todo            \* the keys the iteration still has to come to; not in the code

vars == <<size, table, elements, iter, todo>>
Null == "null"
None == [index |-> -2, bucket |-> Null, prev |-> Null, first |-> FALSE]
Indices(n) == 0..n - 1
choose(k, n) == Slot[k] % n

Buckets == UNION {ToSet(table[i]) : i \in Indices(size)}
KeysIn(t) == UNION {{b.key : b \in ToSet(t[i])} : i \in DOMAIN t}
AddrOf(list, j) == IF j \in DOMAIN list THEN list[j].addr ELSE Null
At(list, addr) == CHOOSE j \in DOMAIN list : list[j].addr = addr

-----------------------------------------------------------------------------
hash_find(t, n, k) == \E j \in DOMAIN t[choose(k, n)] : t[choose(k, n)][j].key = k

\* A variant that does not look whether it is.
HashAddAgain(t, n, b) == [t EXCEPT ![choose(b.key, n)] = Append(@, b)]
\* An element is added at the end of its list, unless it is there.
hash_add(t, n, b) ==
    IF hash_find(t, n, b.key) THEN t ELSE [t EXCEPT ![choose(b.key, n)] = Append(@, b)]

hash_remove_bucket(t, i, j) == [t EXCEPT ![i] = RemoveAt(@, j)]

\* The elements of the old table one by one, in lists for the new size.
hash_resize(t, old, n) ==
    FoldLeft(LAMBDA acc, i : FoldLeft(LAMBDA a, b : hash_add(a, n, b), acc, t[i]),
             [i \in Indices(n) |-> <<>>], [i \in 1..old |-> i - 1])

-----------------------------------------------------------------------------
(* hash_iterate(): an address that is no longer where it was is one that was   *)
(* removed.                                                                    *)

Forward(it) ==
    LET rest == {i \in Indices(size) : i > it.index /\ table[i] # <<>>}
        i    == CHOOSE x \in rest : \A y \in rest : x <= y
    IN  IF rest = {} THEN None
        ELSE [index |-> i, bucket |-> table[i][1].addr, prev |-> Null, first |-> TRUE]

\* A variant that does not step back when its bucket is gone.
AfterRemoved(it) == Forward(it)
\* The next element of a list, or what comes first in a later one.
After(it) ==
    LET list == table[it.index]
        j    == At(list, it.bucket)
    IN  IF it.bucket # Null /\ j < Len(list)
        THEN [it EXCEPT !.prev = it.bucket, !.bucket = list[j + 1].addr, !.first = FALSE]
        ELSE Forward(it)

Iterate(it) ==
    LET list == IF it.index = -1 THEN <<>> ELSE table[it.index]
    IN  IF it.bucket = Null THEN Forward(it)
        ELSE IF it.first
        THEN IF AddrOf(list, 1) = it.bucket THEN After(it)
             ELSE IF list # <<>> THEN [it EXCEPT !.prev = Null, !.bucket = list[1].addr]
             ELSE Forward(it)
        ELSE IF it.prev # Null /\ AddrOf(list, At(list, it.prev) + 1) # it.bucket
        THEN After([it EXCEPT !.bucket = it.prev])
        ELSE After(it)

Fresh == [index |-> -1, bucket |-> Null, prev |-> Null, first |-> FALSE]
KeyAt(it) == LET list == table[it.index] IN list[At(list, it.bucket)].key

-----------------------------------------------------------------------------
Init == /\ size = CHOOSE n \in Sizes : \A m \in Sizes : n <= m
        /\ table = [i \in Indices(size) |-> <<>>]
        /\ elements = 0
        /\ iter = None
        /\ todo = {}

\* Nobody adds while iterating, here and below; only RemoveBucket is for that.
Add(k, a) ==
    /\ iter = None
    /\ a \notin {b.addr : b \in Buckets}
    /\ table' = hash_add(table, size, [addr |-> a, key |-> k])
    /\ elements' = IF hash_find(table, size, k) THEN elements ELSE elements + 1
    /\ UNCHANGED <<size, iter, todo>>

\* The element is looked for by its key; the iterator is not told.
RemoveKey(k) ==
    LET i    == choose(k, size)
        hits == {j \in DOMAIN table[i] : table[i][j].key = k}
    IN  /\ iter = None
        /\ hits # {}
        /\ table' = hash_remove_bucket(table, i, CHOOSE j \in hits : \A x \in hits : j <= x)
        /\ elements' = elements - 1
        /\ UNCHANGED <<size, iter, todo>>

\* The element the iterator has come to, by its addresses: through prev_bucket when there is
\* one, through first_bucket otherwise.
RemoveBucket ==
    /\ iter # None
    /\ iter.bucket \in {b.addr : b \in ToSet(table[iter.index])}
    /\ table' = hash_remove_bucket(table, iter.index,
                    IF iter.prev # Null THEN At(table[iter.index], iter.prev) + 1 ELSE 1)
    /\ elements' = elements - 1
    /\ UNCHANGED <<size, iter, todo>>

Start == /\ iter = None
         /\ iter' = Iterate(Fresh)
         /\ todo' = IF iter' = None THEN {} ELSE KeysIn(table) \ {KeyAt(iter')}
         /\ UNCHANGED <<size, table, elements>>
Step ==  /\ iter # None
         /\ iter' = Iterate(iter)
         /\ todo' = IF iter' = None THEN todo ELSE todo \ {KeyAt(iter')}
         /\ UNCHANGED <<size, table, elements>>

\* meshs3d doubles the size of a table that holds more than a quarter of it.
Resize == /\ iter = None
          /\ elements * 4 > size
          /\ \E n \in Sizes : /\ n = 2 * size
                              /\ table' = hash_resize(table, size, n)
                              /\ size' = n
          /\ UNCHANGED <<elements, iter, todo>>

Next == \/ \E k \in Keys, a \in Addrs : Add(k, a)
        \/ \E k \in Keys : RemoveKey(k)
        \/ RemoveBucket \/ Start \/ Step \/ Resize
Spec == Init /\ [][Next]_vars

-----------------------------------------------------------------------------
\* However the lists were changed, by additions, removals and a new size: every element is
\* where hash_find() looks for it, once, and the number of elements is right.
FoundOnce ==
    /\ \A i \in Indices(size), k \in Keys :
          Cardinality({j \in DOMAIN table[i] : table[i][j].key = k})
              <= (IF i = choose(k, size) THEN 1 ELSE 0)
    /\ elements = Cardinality(Buckets)

\* An iteration comes to every element that was there when it began, each of them once, also
\* when those it comes to are removed ("if our bucket got deleted in the last iteration").
VisitsAll == [][iter # None /\ UNCHANGED table =>
                 IF iter' = None THEN todo = {} ELSE KeyAt(iter') \in todo]_vars
=============================================================================
