----------------------------- MODULE HashTable ------------------------------
(***************************************************************************)
(* The kernel's hash table (lib/kernel/hash.c): chains in a power of two   *)
(* of buckets, which rehash grows and shrinks with the number of elements, *)
(* unless memory is short.                                                 *)
(***************************************************************************)
EXTENDS Integers, SequencesExt, FiniteSetsExt, Bitwise

CONSTANTS
    HashKey,                \* key, and hash, of each element 1 .. n
    BEST_ELEMS_PER_BUCKET,
    MIN_BUCKETS             \* 4 in hash_init and rehash

ASSUME HashAssumption ==
    HashKey \in Seq(Nat) /\ {BEST_ELEMS_PER_BUCKET, MIN_BUCKETS} \subseteq Nat \ {0}

VARIABLES h,                \* the table
          table,            \* history: the elements it is to hold
          ret               \* history: what the last call gave and should give

HashElem == DOMAIN HashKey
NoElem   == 0

\* Buckets are numbered from 0.
NoBuckets(cnt) == [i \in 0 .. cnt - 1 |-> <<>>]
hash_init == [elem_cnt |-> 0, bucket_cnt |-> MIN_BUCKETS, buckets |-> NoBuckets(MIN_BUCKETS)]

find_bucket(t, e) == HashKey[e] & (t.bucket_cnt - 1)
find_elem(t, b, e) ==
    LET same == SelectSeq(t.buckets[b], LAMBDA x : HashKey[x] = HashKey[e])
    IN  IF same = <<>> THEN NoElem ELSE Head(same)

insert_elem(t, b, e) == [t EXCEPT !.elem_cnt = @ + 1, !.buckets[b] = <<e>> \o @]
remove_elem(t, e) ==
    [t EXCEPT !.elem_cnt = @ - 1,
              !.buckets = [b \in DOMAIN @ |-> SelectSeq(@[b], LAMBDA x : x # e)]]

turn_off_least_1bit(x) == x & (x - 1)
is_power_of_2(x) == x # 0 /\ turn_off_least_1bit(x) = 0
RECURSIVE PowerBelow(_)
PowerBelow(x) == IF is_power_of_2(x) THEN x ELSE PowerBelow(turn_off_least_1bit(x))

\* The elements in the order of hash_apply, bucket after bucket.
hash_apply(t) == FlattenSeq([i \in 1 .. t.bucket_cnt |-> t.buckets[i - 1]])

\* Each element of the old buckets, in turn, to the front of its new one.
Move(t, cnt, es) ==
    FoldLeft(LAMBDA u, e : [u EXCEPT !.buckets[find_bucket(u, e)] = <<e>> \o @],
             [t EXCEPT !.bucket_cnt = cnt, !.buckets = NoBuckets(cnt)], es)

\* memory: whether malloc has room for the new buckets.
rehash(t, memory) ==
    LET cnt == PowerBelow(Max({t.elem_cnt \div BEST_ELEMS_PER_BUCKET, MIN_BUCKETS}))
    IN  IF cnt = t.bucket_cnt \/ ~memory THEN t ELSE Move(t, cnt, hash_apply(t))

hash_find(t, e) == find_elem(t, find_bucket(t, e), e)
hash_size(t)    == t.elem_cnt
hash_empty(t)   == t.elem_cnt = 0
hash_clear(t)   == [t EXCEPT !.elem_cnt = 0, !.buckets = NoBuckets(t.bucket_cnt)]

\* The iterator: a bucket and a place in it, 0 for the bucket's head;
\* a bucket past the last one for the end.
hash_first(t) == [bucket |-> 0, at |-> 0]
RECURSIVE hash_next(_, _)
hash_next(t, i) ==
    IF i.at < Len(t.buckets[i.bucket]) THEN [i EXCEPT !.at = @ + 1]
    ELSE IF i.bucket + 1 >= t.bucket_cnt THEN [bucket |-> t.bucket_cnt, at |-> 0]
    ELSE hash_next(t, [bucket |-> i.bucket + 1, at |-> 0])
hash_cur(t, i) == IF i.bucket = t.bucket_cnt THEN NoElem ELSE t.buckets[i.bucket][i.at]
RECURSIVE Iterate(_, _)
Iterate(t, i) ==
    LET n == hash_next(t, i) IN
    IF hash_cur(t, n) = NoElem THEN <<>> ELSE <<hash_cur(t, n)>> \o Iterate(t, n)

----------------------------------------------------------------------------
\* The element of the table that is equal to e.
EqualTo(e) == LET same == {x \in table : HashKey[x] = HashKey[e]}
              IN  IF same = {} THEN NoElem ELSE CHOOSE x \in same : TRUE

HashInit == h = hash_init /\ table = {} /\ ret = [got |-> NoElem, want |-> NoElem]

hash_insert(e, memory) ==
    LET b   == find_bucket(h, e)
        old == find_elem(h, b, e)
    IN  /\ e \notin table
        /\ h' = rehash(IF old = NoElem THEN insert_elem(h, b, e) ELSE h, memory)
        /\ ret' = [got |-> old, want |-> EqualTo(e)]
        /\ table' = table \cup {x \in {e} : \A y \in table : HashKey[x] # HashKey[y]}

hash_replace(e, memory) ==
    LET b   == find_bucket(h, e)
        old == find_elem(h, b, e)
    IN  /\ e \notin table
        /\ h' = rehash(insert_elem(IF old = NoElem THEN h ELSE remove_elem(h, old), b, e), memory)
        /\ ret' = [got |-> old, want |-> EqualTo(e)]
        /\ table' = {x \in table : HashKey[x] # HashKey[e]} \cup {e}

hash_delete(e, memory) ==
    LET found == hash_find(h, e) IN
    /\ h' = IF found = NoElem THEN h ELSE rehash(remove_elem(h, found), memory)
    /\ ret' = [got |-> found, want |-> EqualTo(e)]
    /\ table' = {x \in table : HashKey[x] # HashKey[e]}

\* hash_destroy gives every element to the destructor and frees the buckets; a
\* new table is set up.
hash_destroy ==
    /\ ret' = [got |-> Range(hash_apply(h)), want |-> table]
    /\ h' = [hash_clear(h) EXCEPT !.bucket_cnt = MIN_BUCKETS, !.buckets = NoBuckets(MIN_BUCKETS)]
    /\ table' = {}

HashNext ==
    \/ \E e \in HashElem, memory \in BOOLEAN :
         hash_insert(e, memory) \/ hash_replace(e, memory) \/ hash_delete(e, memory)
    \/ hash_destroy

----------------------------------------------------------------------------
\* Whatever was inserted, replaced and deleted, and whether or not rehash got
\* memory, the table finds an element of every key it holds and of no other,
\* holds no key twice, counts its elements, and an iteration visits each
\* element exactly once; a call returns the equal element that was there, and
\* the destructor gets every element.
HashSound ==
    LET seen == Iterate(h, hash_first(h)) IN
    /\ Range(seen) = table /\ Len(seen) = Cardinality(table)
    /\ hash_size(h) = Cardinality(table) /\ hash_empty(h) = (table = {})
    /\ \A e \in HashElem : hash_find(h, e) = EqualTo(e)
    /\ ret.got = ret.want
=============================================================================
