------------------------------ MODULE Bitmaps -------------------------------
(***************************************************************************)
(* Bitmaps (lib/kernel/bitmap.c): bits in an array of ELEM_BITS-bit words. *)
(***************************************************************************)
EXTENDS Integers, SequencesExt, FiniteSetsExt, Bitwise

CONSTANT ELEM_BITS    \* bits of an elem_type
ASSUME ELEM_BITS \in Nat \ {0}

BITMAP_ERROR == -1
AllOnes      == 2 ^ ELEM_BITS - 1

elem_idx(i)  == i \div ELEM_BITS
bit_mask(i)  == 2 ^ (i % ELEM_BITS)
elem_cnt(n)  == (n + ELEM_BITS - 1) \div ELEM_BITS
last_mask(b) == IF b.bit_cnt % ELEM_BITS # 0 THEN 2 ^ (b.bit_cnt % ELEM_BITS) - 1 ELSE AllOnes

bitmap_mark(b, i)  == [b EXCEPT !.bits[elem_idx(i)] = @ | bit_mask(i)]
bitmap_reset(b, i) == [b EXCEPT !.bits[elem_idx(i)] = @ & (AllOnes - bit_mask(i))]
bitmap_flip(b, i)  == [b EXCEPT !.bits[elem_idx(i)] = @ ^^ bit_mask(i)]
bitmap_set(b, i, value) == IF value THEN bitmap_mark(b, i) ELSE bitmap_reset(b, i)
bitmap_test(b, i)  == (b.bits[elem_idx(i)] & bit_mask(i)) # 0

bitmap_set_multiple(b, start, cnt, value) ==
    FoldLeft(LAMBDA c, i : bitmap_set(c, start + i - 1, value), b, [i \in 1 .. cnt |-> i])
bitmap_set_all(b, value) == bitmap_set_multiple(b, 0, b.bit_cnt, value)

\* The words of a new bitmap hold anything until they are cleared: the unused
\* bits of the last one stay as they are.
bitmap_create(n, garbage) ==
    bitmap_set_all([bit_cnt |-> n, bits |-> [w \in 0 .. elem_cnt(n) - 1 |-> garbage]], FALSE)

bitmap_count(b, start, cnt, value) ==
    Cardinality({i \in start .. start + cnt - 1 : bitmap_test(b, i) = value})
bitmap_contains(b, start, cnt, value) ==
    \E i \in start .. start + cnt - 1 : bitmap_test(b, i) = value
bitmap_any(b, start, cnt)  == bitmap_contains(b, start, cnt, TRUE)
bitmap_none(b, start, cnt) == ~bitmap_contains(b, start, cnt, TRUE)
bitmap_all(b, start, cnt)  == ~bitmap_contains(b, start, cnt, FALSE)

bitmap_scan(b, start, cnt, value) ==
    LET fits == {i \in start .. b.bit_cnt - cnt : ~bitmap_contains(b, i, cnt, ~value)}
    IN  IF fits = {} THEN BITMAP_ERROR ELSE Min(fits)

\* The bitmap after, and the index.
bitmap_scan_and_flip(b, start, cnt, value) ==
    LET i == bitmap_scan(b, start, cnt, value) IN
    <<IF i = BITMAP_ERROR THEN b ELSE bitmap_set_multiple(b, i, cnt, ~value), i>>

bitmap_write(b) == b.bits
bitmap_read(b, file) ==
    LET n == elem_cnt(b.bit_cnt) - 1 IN
    [b EXCEPT !.bits = [file EXCEPT ![n] = @ & last_mask(b)]]

\* The bits that are on.
Bits(b) == {i \in 0 .. b.bit_cnt - 1 : bitmap_test(b, i)}
=============================================================================
