------------------------------ MODULE Archives ------------------------------
(***************************************************************************)
(* Headers of tar archives (lib/ustar.c).  A header is a record of fields, *)
(* each a sequence of bytes; fields that the code writes and never reads   *)
(* (mode, owner, time) are the field other.  Sizes of fields and limits of *)
(* the integer types are constants.                                        *)
(***************************************************************************)
EXTENDS Integers, FiniteSets, Sequences, SequencesExt

CONSTANTS
    NAME_LEN,      \* bytes of the name field, 100
    OCTAL_LEN,     \* bytes of the octal fields, 8 to 12
    ULONG_MAX,     \* largest unsigned long, 2^32 - 1
    INT_MAX,       \* largest int, 2^31 - 1
    MaxName        \* BOUND: length of the file names that are tried

ASSUME ArchiveAssumption ==
    /\ NAME_LEN > 2 /\ MaxName \in Nat
    /\ INT_MAX < ULONG_MAX /\ 8 ^ (OCTAL_LEN - 1) > ULONG_MAX
    /\ ULONG_MAX % 8 = 7

Slash == 47
Dot   == 46
Zero  == 48
Blank32 == 32
USTAR_REGULAR   == 48
USTAR_DIRECTORY == 53
USTAR_EOF       == -1
Magic   == <<117, 0>>
Version == <<48, 48>>

\* A text in a field of n bytes, filled with null bytes.
FieldOf(t, n) == [i \in 1 .. n |-> IF i <= Len(t) THEN t[i] ELSE 0]
TextIn(field) == SubSeq(field, 1, Cardinality({i \in DOMAIN field : \A k \in 1 .. i : field[k] # 0}))
Octal(n) == [i \in 1 .. OCTAL_LEN |-> IF i = OCTAL_LEN THEN 0 ELSE Zero + ((n \div 8 ^ (OCTAL_LEN - 1 - i)) % 8)]

SumOf(bytes) == FoldLeft(LAMBDA n, c : n + c, 0, bytes)
\* As if the field of the sum held blanks.
calculate_chksum(h) ==
    SumOf(h.name) + SumOf(h.size) + SumOf(h.magic) + SumOf(h.version) + SumOf(h.prefix) + SumOf(h.other)
    + h.typeflag + Blank32 * OCTAL_LEN

RECURSIVE StripPrefixes(_)
StripPrefixes(t) ==
    IF t # <<>> /\ (t[1] = Slash \/ IsPrefix(<<Dot, Slash>>, t) \/ IsPrefix(<<Dot, Dot, Slash>>, t))
    THEN StripPrefixes(SubSeq(t, 1 + CHOOSE i \in DOMAIN t : t[i] = Slash /\ \A k \in 1 .. i - 1 : t[k] # Slash, Len(t)))
    ELSE t
strip_antisocial_prefixes(file_name) ==
    LET t == StripPrefixes(file_name) IN IF t \in {<<>>, <<Dot, Dot>>} THEN <<Dot>> ELSE t

\* An empty record where the name is too long.
NoHeader == [name |-> <<>>]
ustar_make_header(file_name, type, size) ==
    LET t == strip_antisocial_prefixes(file_name)
        h == [name |-> FieldOf(t, NAME_LEN), size |-> Octal(size), chksum |-> FieldOf(<<>>, OCTAL_LEN),
              typeflag |-> type, magic |-> Magic, version |-> Version, prefix |-> <<0>>, other |-> <<52>>]
    IN  IF Len(t) > NAME_LEN - 1 THEN NoHeader ELSE [h EXCEPT !.chksum = Octal(calculate_chksum(h))]

\* The value, or -1.
RECURSIVE OctalFrom(_, _, _)
OctalFrom(s, ofs, value) ==
    IF ofs > Len(s) THEN -1
    ELSE IF s[ofs] \in Zero .. Zero + 7
         THEN IF value > ULONG_MAX \div 8 THEN -1 ELSE OctalFrom(s, ofs + 1, s[ofs] - Zero + 8 * value)
    ELSE IF s[ofs] \in {Blank32, 0} /\ ofs > 1 THEN value ELSE -1
parse_octal_field(s) == OctalFrom(s, 1, 0)

\* Of a sector of zeros, all bytes are.
Zeros == [name |-> FieldOf(<<>>, NAME_LEN), size |-> FieldOf(<<>>, OCTAL_LEN), chksum |-> FieldOf(<<>>, OCTAL_LEN),
          typeflag |-> 0, magic |-> <<0, 0>>, version |-> <<0, 0>>, prefix |-> <<0>>, other |-> <<0>>]
is_all_zeros(h) == h = Zeros

\* The file name, type and size, or an error.
ustar_parse_header(h) ==
    LET size_ul == IF h.typeflag = USTAR_REGULAR THEN parse_octal_field(h.size) ELSE 0
        chksum  == parse_octal_field(h.chksum)
        error   == \/ h.magic # Magic \/ h.version # Version
                   \/ chksum = -1 \/ chksum # calculate_chksum(h)
                   \/ Last(h.name) # 0 \/ h.prefix # <<0>>
                   \/ h.typeflag \notin {USTAR_REGULAR, USTAR_DIRECTORY}
                   \/ size_ul \notin 0 .. INT_MAX
    IN  IF is_all_zeros(h) THEN [error |-> FALSE, file_name |-> <<>>, type |-> USTAR_EOF, size |-> 0]
        ELSE IF error THEN [error |-> TRUE, file_name |-> <<>>, type |-> USTAR_EOF, size |-> 0]
        ELSE [error |-> FALSE, file_name |-> strip_antisocial_prefixes(TextIn(h.name)),
              type |-> h.typeflag, size |-> size_ul]

----------------------------------------------------------------------------
FileNames == UNION {[1 .. n -> {Dot, Slash, 97}] : n \in 1 .. MaxName}

\* No name leaves the directory, and no part of a name is lost that need not be.
NamesStay ==
    \A t \in FileNames : LET s == strip_antisocial_prefixes(t) IN
      /\ s # <<>> /\ s[1] # Slash /\ ~IsPrefix(<<Dot, Slash>>, s) /\ ~IsPrefix(<<Dot, Dot, Slash>>, s) /\ s # <<Dot, Dot>>
      /\ IsSuffix(s, t) \/ s = <<Dot>>
      /\ t[1] = 97 => s = t

Fields == [1 .. OCTAL_LEN -> {0, Blank32, Zero, Zero + 1, Zero + 7, 97}]
\* Digits up to a blank or a null byte, no more than fit.
OctalRight ==
    \A f \in Fields :
      LET n == Cardinality({i \in DOMAIN f : \A k \in 1 .. i : f[k] \in Zero .. Zero + 7})
          v == FoldLeft(LAMBDA m, c : 8 * m + c - Zero, 0, SubSeq(f, 1, n))
      IN  parse_octal_field(f) = IF n \in 1 .. OCTAL_LEN - 1 /\ f[n + 1] \in {0, Blank32} /\ v <= ULONG_MAX THEN v ELSE -1

\* A header is read as it was written, and one changed byte does not make it
\* another one.
HeadersRight ==
    \A t \in FileNames, type \in {USTAR_REGULAR, USTAR_DIRECTORY}, size \in {0, 1, 8, INT_MAX, INT_MAX + 1} :
      LET s == strip_antisocial_prefixes(t)
          h == ustar_make_header(t, type, size)
          r == ustar_parse_header(h)
      IN  IF Len(s) >= NAME_LEN THEN h = NoHeader
          ELSE /\ r = IF type = USTAR_REGULAR /\ size > INT_MAX
                      THEN [error |-> TRUE, file_name |-> <<>>, type |-> USTAR_EOF, size |-> 0]
                      ELSE [error |-> FALSE, file_name |-> s, type |-> type, size |-> IF type = USTAR_REGULAR THEN size ELSE 0]
               /\ \A f \in {"name", "size", "chksum", "prefix"} : \A i \in DOMAIN h[f], c \in {0, Blank32, Zero + 1, 97} :
                    LET q == ustar_parse_header([h EXCEPT ![f][i] = c]) IN q = r \/ q.error

(***************************************************************************)
(* Archives keep what is put into them: a header gives back its name, type *)
(* and size, one damaged byte is noticed, a number that does not fit is    *)
(* refused, and no file name points out of the root directory              *)
(* (lib/ustar.c:39, 67, 124, 190).                                         *)
(***************************************************************************)
ArchivesRight == NamesStay /\ OctalRight /\ HeadersRight
=============================================================================
