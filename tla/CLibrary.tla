------------------------------ MODULE CLibrary ------------------------------
(***************************************************************************)
(* The C library the kernel and the programs share: blocks and strings     *)
(* (lib/string.c), sorting, searching and atoi (lib/stdlib.c), 64-bit      *)
(* division from 32-bit parts (lib/arithmetic.c).  The functions are       *)
(* operators, checked against what they are to compute for every argument  *)
(* up to a bound; bitmaps are driven through sequences of calls.           *)
(*                                                                         *)
(* A block is a sequence of bytes with places counted from 0; a string is  *)
(* a block that ends with 0.  NIL is the null pointer.                     *)
(***************************************************************************)
EXTENDS Bitmaps

CONSTANTS
    Char,          \* bytes that strings are made of
    MaxText,       \* BOUND: their length
    WORD_BITS,     \* bits of a word, 32: double words are divided
    BitCnt         \* BOUND: bits of the bitmap

ASSUME LibAssumption ==
    /\ Char \subseteq Nat \ {0} /\ {MaxText, BitCnt} \subseteq Nat
    /\ WORD_BITS \in {2 ^ k : k \in 1 .. 5}

VARIABLES text,    \* the string argument
          number,  \* the number argument
          bitmap,  \* a bitmap
          on       \* history: the bits that are to be on

NIL == -1
At(s, i) == s[i + 1]
Put(s, i, c) == [k \in DOMAIN s |-> IF k = i + 1 THEN c ELSE s[k]]
Str(t) == Append(t, 0)
Slice(s, i, n) == SubSeq(s, i + 1, i + n)

----------------------------------------------------------------------------
(* string.c *)

\* Copies upwards, one byte after the other.
memcpy(m, dst, src, size) ==
    FoldLeft(LAMBDA n, k : Put(n, dst + k - 1, At(n, src + k - 1)), m, [k \in 1 .. size |-> k])

\* Mutant: always upwards.
MutantMemmove(m, dst, src, size) == <<memcpy(m, dst, src, size), dst + size>>

\* The memory after, and the place returned: the pointer that has moved.
memmove(m, dst, src, size) ==
    IF dst < src THEN <<memcpy(m, dst, src, size), dst + size>>
    ELSE <<FoldLeft(LAMBDA n, k : Put(n, dst + size - k, At(n, src + size - k)), m, [k \in 1 .. size |-> k]), dst>>

memset(m, dst, value, size) ==
    FoldLeft(LAMBDA n, k : Put(n, dst + k - 1, value), m, [k \in 1 .. size |-> k])

\* The first place below n where P holds, n if there is none.
First(n, P(_)) == Min({i \in 0 .. n - 1 : P(i)} \cup {n})
Sign(a, b) == IF a < b THEN -1 ELSE IF a > b THEN 1 ELSE 0
memcmp(a, b, size) ==
    LET i == First(size, LAMBDA k : At(a, k) # At(b, k)) IN IF i = size THEN 0 ELSE Sign(At(a, i), At(b, i))
RECURSIVE StrCmpFrom(_, _, _)
StrCmpFrom(a, b, i) ==
    IF At(a, i) # 0 /\ At(a, i) = At(b, i) THEN StrCmpFrom(a, b, i + 1) ELSE Sign(At(a, i), At(b, i))
strcmp(a, b) == StrCmpFrom(a, b, 0)

memchr(block, ch, size) ==
    LET i == First(size, LAMBDA k : At(block, k) = ch) IN IF i = size THEN NIL ELSE i

RECURSIVE strchrFrom(_, _, _)
strchrFrom(s, c, i) == IF At(s, i) = c THEN i ELSE IF At(s, i) = 0 THEN NIL ELSE strchrFrom(s, c, i + 1)
strchr(s, c) == strchrFrom(s, c, 0)

strlen(s)          == First(Len(s), LAMBDA i : At(s, i) = 0)
strnlen(s, maxlen) == First(maxlen, LAMBDA i : At(s, i) = 0)
strcspn(s, stop) == First(strlen(s), LAMBDA i : strchr(stop, At(s, i)) # NIL)
strspn(s, skip)  == First(strlen(s), LAMBDA i : strchr(skip, At(s, i)) = NIL)
strpbrk(s, stop) == LET i == strcspn(s, stop) IN IF i = strlen(s) THEN NIL ELSE i
strrchr(s, c)    == Max({i \in 0 .. strlen(s) - 1 : At(s, i) = c} \cup {NIL})
strstr(haystack, needle) ==
    LET n == strlen(needle)
        i == First(strlen(haystack) - n + 1, LAMBDA k : memcmp(Slice(haystack, k, n), needle, n) = 0)
    IN  IF strlen(haystack) < n \/ i > strlen(haystack) - n THEN NIL ELSE i

\* From place i: the string after, the token's place, the next start.
RECURSIVE SkipDelimiters(_, _, _)
SkipDelimiters(s, delims, i) ==
    IF strchr(delims, At(s, i)) # NIL /\ At(s, i) # 0 THEN SkipDelimiters(s, delims, i + 1) ELSE i
strtok_r(s, delims, i) ==
    LET token == SkipDelimiters(s, delims, i)
        end   == token + First(Len(s) - token, LAMBDA k : strchr(delims, At(s, token + k)) # NIL)
    IN  IF At(s, token) = 0 THEN <<s, NIL, token>>
        ELSE IF At(s, end) # 0 THEN <<Put(s, end, 0), token, end + 1>> ELSE <<s, token, end>>
\* The tokens of repeated calls.
RECURSIVE Tokens(_, _, _)
Tokens(s, delims, i) ==
    LET r == strtok_r(s, delims, i)
        t == Slice(r[1], r[2], Len(s) - r[2])
    IN  IF r[2] = NIL THEN <<>> ELSE <<Slice(t, 0, strlen(t))>> \o Tokens(r[1], delims, r[3])

\* The destination after, and what is returned.
Copy(dst, at, src, n) == [i \in DOMAIN dst |-> IF i - 1 - at \in 0 .. n - 1 THEN At(src, i - 1 - at) ELSE dst[i]]
strlcpy(dst, src, size) ==
    LET n == Min({size - 1, strlen(src)})
    IN  <<IF size > 0 THEN Put(Copy(dst, 0, src, n), n, 0) ELSE dst, strlen(src)>>
strlcat(dst, src, size) ==
    LET d == strlen(dst)
        n == Min({size - d - 1, strlen(src)})
    IN  <<IF size > 0 /\ d < size THEN Put(Copy(dst, d, src, n), d + n, 0) ELSE dst, strlen(src) + d>>

----------------------------------------------------------------------------
(* stdlib.c; arrays are counted from 1. *)

\* Characters of numbers: a digit is itself.
Space == 10
Plus  == 11
Minus == 12
RECURSIVE Digits(_, _, _)
Digits(s, i, value) ==
    IF i <= Len(s) /\ s[i] \in 0 .. 9 THEN Digits(s, i + 1, value * 10 - s[i]) ELSE value
atoi(s) ==
    LET start    == Min({i \in DOMAIN s : s[i] # Space} \cup {Len(s) + 1})
        sign     == IF start <= Len(s) THEN s[start] ELSE Space
        value    == Digits(s, IF sign \in {Plus, Minus} THEN start + 1 ELSE start, 0)
    IN  IF sign = Minus THEN value ELSE -value

do_swap(a, i, j) == [a EXCEPT ![i] = a[j], ![j] = a[i]]
RECURSIVE heapify(_, _, _)
heapify(a, i, cnt) ==
    LET left  == IF 2 * i <= cnt /\ a[2 * i] > a[i] THEN 2 * i ELSE i
        large == IF 2 * i + 1 <= cnt /\ a[2 * i + 1] > a[left] THEN 2 * i + 1 ELSE left
    IN  IF large = i THEN a ELSE heapify(do_swap(a, i, large), large, cnt)
sort(a) ==
    LET heap == FoldLeft(LAMBDA b, i : heapify(b, i, Len(a)), a, Reverse([i \in 1 .. Len(a) \div 2 |-> i]))
    IN  FoldLeft(LAMBDA b, i : heapify(do_swap(b, 1, i), 1, i - 1), heap, [k \in 1 .. Max({0, Len(a) - 1}) |-> Len(a) + 1 - k])

\* Places first .. last - 1, counted from 1; 0 for not found.
RECURSIVE SearchIn(_, _, _, _)
SearchIn(key, a, first, last) ==
    LET middle == first + (last - first) \div 2 IN
    IF first >= last THEN 0
    ELSE IF key < a[middle] THEN SearchIn(key, a, first, middle)
    ELSE IF key > a[middle] THEN SearchIn(key, a, middle + 1, last)
    ELSE middle
binary_search(key, a) == SearchIn(key, a, 1, Len(a) + 1)

----------------------------------------------------------------------------
(* arithmetic.c, with words of WORD_BITS bits and double words. *)

Word   == 2 ^ WORD_BITS
Double == Word * Word

\* The quotient must fit a word, or the instruction traps.
divl(n, d) == IF n \div d < Word THEN n \div d ELSE NIL

\* Leading zeros, by halves of halves.
RECURSIVE NlzBy(_, _, _)
NlzBy(x, n, width) ==
    IF width = 0 THEN n
    ELSE IF x < 2 ^ (WORD_BITS - width) THEN NlzBy(x * 2 ^ width, n + width, width \div 2)
    ELSE NlzBy(x, n, width \div 2)
nlz(x) == NlzBy(x, 0, WORD_BITS \div 2)

udiv64(n, d) ==
    LET d1 == d \div Word
        s  == nlz(d1)
        q  == divl(n \div 2, ((d * 2 ^ s) % Double) \div Word) \div 2 ^ (WORD_BITS - 1 - s)
    IN  IF d1 = 0 THEN divl(Word * ((n \div Word) % d) + (n % Word), d) + Word * ((n \div Word) \div d)
        ELSE IF n < d THEN 0
        ELSE IF (n - (q - 1) * d) % Double < d THEN q - 1 ELSE q
\* The result is a single word.
umod64(n, d) == (n - d * udiv64(n, d)) % Word

\* Two's complement.
Signed(x, size) == IF x >= size \div 2 THEN x - size ELSE x
sdiv64(n, d) ==
    LET q == udiv64(IF n >= 0 THEN n ELSE -n, IF d >= 0 THEN d ELSE -d) IN
    Signed((IF (n < 0) = (d < 0) THEN q ELSE -q) % Double, Double)
smod64(n, d) == Signed((n - d * sdiv64(n, d)) % Word, Word)

----------------------------------------------------------------------------
LibInit == /\ text = <<>> /\ number = 0
           /\ bitmap = bitmap_create(BitCnt, AllOnes) /\ on = {}

NextText(c)  == /\ Len(text) < MaxText /\ text' = Append(text, c)
                /\ UNCHANGED <<number, bitmap, on>>
NextNumber   == /\ text = <<>> /\ number < Double - 1 /\ number' = number + 1
                /\ UNCHANGED <<text, bitmap, on>>
Flip(i)      == /\ bitmap' = bitmap_flip(bitmap, i)
                /\ on' = IF i \in on THEN on \ {i} ELSE on \cup {i}
SetRange(i, n, value) ==
    /\ bitmap' = bitmap_set_multiple(bitmap, i, n, value)
    /\ on' = IF value THEN on \cup i .. i + n - 1 ELSE on \ (i .. i + n - 1)
ScanAndFlip(start, n, value) ==
    LET r == bitmap_scan_and_flip(bitmap, start, n, value) IN
    /\ bitmap' = r[1]
    /\ on' = IF r[2] = BITMAP_ERROR THEN on
             ELSE IF value THEN on \ (r[2] .. r[2] + n - 1) ELSE on \cup r[2] .. r[2] + n - 1
\* The file is read into a bitmap that held something else.
SaveAndLoad == /\ bitmap' = bitmap_read(bitmap_create(BitCnt, 0), bitmap_write(bitmap))
               /\ UNCHANGED on
NextBits == /\ text = <<>> /\ number = 0 /\ UNCHANGED <<text, number>>
            /\ \/ \E i \in 0 .. BitCnt - 1 : Flip(i) \/ \E n \in 0 .. BitCnt - i, v \in BOOLEAN : SetRange(i, n, v)
               \/ \E start, n \in 0 .. BitCnt, v \in BOOLEAN : ScanAndFlip(start, n, v)
               \/ SaveAndLoad

LibNext == (\E c \in Char : on = {} /\ number = 0 /\ NextText(c)) \/ (on = {} /\ NextNumber) \/ NextBits

----------------------------------------------------------------------------
(* What the functions are to compute. *)

Strings == UNION {[1 .. n -> Char] : n \in 0 .. 2}

\* The bytes arrive, and no others change.  "Returns DST" (string.c:21) is true
\* only of a copy to SRC or above it, and of an empty one: a copy to a place
\* below SRC returns its end.
BlocksRight ==
    \A dst, src \in 0 .. Len(text) : \A size \in 0 .. Len(text) - Max({dst, src}) :
      /\ LET moved == memmove(text, dst, src, size) IN
         /\ Slice(moved[1], dst, size) = Slice(text, src, size)
         /\ \A i \in DOMAIN text : i - 1 \notin dst .. dst + size - 1 => moved[1][i] = text[i]
         /\ moved[2] = dst <=> dst >= src \/ size = 0
      /\ memset(text, dst, 0, size) = [i \in DOMAIN text |-> IF i - 1 \in dst .. dst + size - 1 THEN 0 ELSE text[i]]

\* The first difference decides, and a prefix is smaller.
Less(a, b) == \/ Len(a) < Len(b) /\ IsPrefix(a, b)
              \/ \E i \in DOMAIN a \cap DOMAIN b : a[i] < b[i] /\ SubSeq(a, 1, i - 1) = SubSeq(b, 1, i - 1)
\* The longest runs without a byte of D.
SplitAt(D) ==
    LET open == {i \in DOMAIN text : text[i] \notin D /\ (i = 1 \/ text[i - 1] \in D)}
        shut == {i \in DOMAIN text : text[i] \notin D /\ (i = Len(text) \/ text[i + 1] \in D)}
    IN  [k \in 1 .. Cardinality(open) |->
           LET i == SetToSortSeq(open, <)[k] IN SubSeq(text, i, Min({j \in shut : j >= i}))]
SearchRight ==
    \A t \in Strings :
      LET s == Str(text)
          p == Str(t)
          found == {i \in 0 .. Len(text) - Len(t) : Slice(text, i, Len(t)) = t}
          hits  == {i \in DOMAIN text : text[i] \in Range(t)}
      IN  /\ strcmp(s, p) = (IF Less(text, t) THEN -1 ELSE IF text = t THEN 0 ELSE 1)
          /\ strstr(s, p) = (IF found = {} THEN NIL ELSE Min(found))
          /\ strcspn(s, p) = (IF hits = {} THEN Len(text) ELSE Min(hits) - 1)
          /\ strpbrk(s, p) = (IF hits = {} THEN NIL ELSE Min(hits) - 1)
          /\ strspn(s, p) = (IF hits = DOMAIN text THEN Len(text) ELSE Min(DOMAIN text \ hits) - 1)
          /\ \A c \in Char : /\ strchr(s, c) = memchr(text, c, Len(text))
                             /\ (strchr(s, c) = NIL) = (strrchr(s, c) = NIL)
                             /\ strrchr(s, c) >= strchr(s, c)
          /\ Tokens(s, p, 0) = SplitAt(Range(t))
          /\ \A size \in 0 .. Len(text) + 3 : \A room \in {[i \in 1 .. Len(text) + 3 |-> 7]} :
               LET cpy == strlcpy(room, s, size)
                   cat == strlcat(Copy(room, 0, p, Len(p)), s, size)
                   n   == Min({Len(text), size - 1})
                   all == t \o text
               IN  /\ cpy[2] = Len(text) /\ (size > 0 => Slice(cpy[1], 0, n + 1) = Str(SubSeq(text, 1, n)))
                   /\ \A i \in size + 1 .. Len(room) : cpy[1][i] = 7
                   /\ cat[2] = Len(all)
                   /\ size > Len(t) => Slice(cat[1], 0, strlen(cat[1])) = SubSeq(all, 1, Min({Len(all), size - 1}))

SortRight ==
    /\ sort(text) = SortSeq(text, <)
    /\ \A key \in Char : LET i == binary_search(key, sort(text)) IN
         IF key \in Range(text) THEN sort(text)[i] = key ELSE i = 0

\* Blanks, a sign and the digits of n.
AtoiRight ==
    \A blanks \in 0 .. 2, sign \in {<<>>, <<Plus>>, <<Minus>>}, n \in {number} :
      atoi([i \in 1 .. blanks |-> Space] \o sign \o <<n \div 100, (n \div 10) % 10, n % 10, Minus, 7>>)
        = IF sign = <<Minus>> THEN -n ELSE n

\* Every quotient is exact, rounded to zero, and no division traps.  The
\* remainder is "the remainder" that arithmetic.c:129 and 148 promise exactly
\* when it fits in a single word, which is all that umod64 and smod64 return:
\* __umoddi3 and __moddi3 hand on a wrong 64-bit remainder otherwise.
Abs(n) == IF n < 0 THEN -n ELSE n
DivisionRight ==
    \A d \in 1 .. Double - 1 :
      LET a == Signed(number, Double)
          b == Signed(d, Double)
          q == (IF (a < 0) = (b < 0) THEN 1 ELSE -1) * (Abs(a) \div Abs(b))
          r == a - b * q
      IN  /\ udiv64(number, d) = number \div d
          /\ umod64(number, d) = number % d <=> number % d < Word
          /\ sdiv64(a, b) = Signed(q % Double, Double)
          /\ smod64(a, b) = r <=> r \in -(Word \div 2) .. Word \div 2 - 1

\* A bitmap answers as the set of its bits that are on.  A scan for no bits
\* finds START, which is the 0 of bitmap.c:322 only for a scan from 0.
BitmapRight ==
    /\ Bits(bitmap) = on
    /\ \A start \in 0 .. BitCnt, v \in BOOLEAN : bitmap_scan_and_flip(bitmap, start, 0, v)[2] = start
    /\ \A start \in 0 .. BitCnt : \A n \in 0 .. BitCnt - start :
         LET part == start .. start + n - 1
             runs == {i \in start .. BitCnt - n : i .. i + n - 1 \subseteq on}
         IN  /\ bitmap_count(bitmap, start, n, TRUE) = Cardinality(part \cap on)
             /\ bitmap_any(bitmap, start, n) = (part \cap on # {})
             /\ bitmap_none(bitmap, start, n) = (part \cap on = {})
             /\ bitmap_all(bitmap, start, n) = (part \subseteq on)
             /\ bitmap_scan(bitmap, start, n, TRUE) = IF runs = {} THEN BITMAP_ERROR ELSE Min(runs)
             /\ bitmap_scan_and_flip(bitmap, start, n, TRUE)[2] = bitmap_scan(bitmap, start, n, TRUE)

(***************************************************************************)
(* The library at every boundary up to the bound: memmove copies           *)
(* overlapping blocks as if through a buffer, searches and tokens agree    *)
(* with their definitions, strlcpy and strlcat stay inside the             *)
(* destination, sort sorts, the 64-bit quotient is exact and never traps,  *)
(* and a bitmap holds exactly the bits that were set (string.c:20,         *)
(* stdlib.c:125, arithmetic.c:75, bitmap.c:216).  Where a comment promises *)
(* more than the code does - what memmove returns, remainders wider than a *)
(* word, a scan for no bits - the property says for which arguments.       *)
(***************************************************************************)
LibraryRight ==
    /\ (number = 0 /\ on = {}) => (BlocksRight /\ SearchRight /\ SortRight)
    /\ (text = <<>> /\ on = {}) => (AtoiRight /\ DivisionRight)
    /\ (text = <<>> /\ number = 0) => BitmapRight
=============================================================================
