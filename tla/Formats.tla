------------------------------ MODULE Formats -------------------------------
(***************************************************************************)
(* Formatted output: printf's conversions (lib/stdio.c) and what becomes   *)
(* of the characters, in a string (vsnprintf) or through the buffer of a   *)
(* program's console (lib/user/console.c).  A character is a string of     *)
(* length one, a text is a sequence of them, and a format ends with NUL.   *)
(*                                                                         *)
(* The types keep their ratios: int, long, ptrdiff_t and size_t have       *)
(* WORD_BITS bits, intmax_t and long long twice as many, short half and    *)
(* char a quarter.  An argument is a number of the widest type, of which   *)
(* each type takes its low bits, or a text.                                *)
(***************************************************************************)
EXTENDS CLibrary

CONSTANTS
    CONSOLE_BUF,   \* size of the console buffer of a program, 64
    DIGITS_BUF,    \* size of format_integer's buffer, 64
    PER_LINE,      \* bytes per line of hex_dump, 16
    KILO,          \* 1024
    Widths,        \* BOUND: field widths that are tried
    Precisions     \* BOUND: precisions

ASSUME FormatAssumption ==
    /\ CONSOLE_BUF \in Nat \ {0} /\ PER_LINE \in Nat \ {0} /\ KILO \in Nat \ {0, 1}
    /\ DIGITS_BUF > 3 * WORD_BITS
    /\ Widths \subseteq Nat /\ Precisions \subseteq Nat

NUL == "NUL"
Numerals == <<"0", "1", "2", "3", "4", "5", "6", "7", "8", "9", "a", "b", "c", "d", "e", "f">>
Decimal  == {Numerals[i] : i \in 1 .. 10}
Numeral(ch) == (CHOOSE i \in DOMAIN Numerals : Numerals[i] = ch) - 1
Flags == {"-", "+", " ", "#", "0", "'"}

output_dup(ch, cnt) == [k \in 1 .. Max({0, cnt}) |-> ch]

\* What the letters choose: struct integer_base.
Base(letter) ==
    CASE letter \in {"d", "i", "u"} -> [base |-> 10, x |-> FALSE, group |-> 3]
      [] letter = "o"               -> [base |-> 8, x |-> FALSE, group |-> 3]
      [] letter \in {"x", "X", "p"} -> [base |-> 16, x |-> TRUE, group |-> 4]

----------------------------------------------------------------------------
(* parse_conversion: flags, width, precision and type of the conversion    *)
(* at place i, the place of its letter, and the arguments that remain.     *)

Past(f, i, set) == Min({k \in i .. Len(f) : f[k] \notin set})

\* Digits, or * for the next argument.
Amount(f, i, args) ==
    IF f[i] = "*" THEN [val |-> Head(args), at |-> i + 1, args |-> Tail(args)]
    ELSE LET end == Past(f, i, Decimal)
         IN  [val |-> FoldLeft(LAMBDA n, ch : 10 * n + Numeral(ch), 0, SubSeq(f, i, end - 1)),
              at |-> end, args |-> args]

\* Letters of the type and the bits they stand for.
TypeAt(f, i) ==
    CASE f[i] = "h" /\ f[i + 1] = "h" -> [bits |-> WORD_BITS \div 4, len |-> 2]
      [] f[i] = "h" /\ f[i + 1] # "h" -> [bits |-> WORD_BITS \div 2, len |-> 1]
      [] f[i] = "l" /\ f[i + 1] = "l" -> [bits |-> 2 * WORD_BITS, len |-> 2]
      [] f[i] = "j"                   -> [bits |-> 2 * WORD_BITS, len |-> 1]
      [] f[i] \in {"t", "z"} \/ (f[i] = "l" /\ f[i + 1] # "l") -> [bits |-> WORD_BITS, len |-> 1]
      [] OTHER                        -> [bits |-> WORD_BITS, len |-> 0]

\* A minus or a precision overrides 0, a plus overrides the blank.  A negative
\* width is a minus that comes too late to do so.
Conversion(f, given, w, q) ==
    LET t   == TypeAt(f, q.at)
        off == (IF "-" \in given \/ q.val >= 0 THEN {"0"} ELSE {}) \cup (IF "+" \in given THEN {" "} ELSE {})
    IN  [flags |-> (given \cup (IF w.val < 0 THEN {"-"} ELSE {})) \ off,
         width |-> Abs(w.val), precision |-> Max({q.val, -1}),
         bits |-> t.bits, at |-> q.at + t.len, args |-> q.args]
AfterWidth(f, given, w) ==
    Conversion(f, given, w, IF f[w.at] = "." THEN Amount(f, w.at + 1, w.args) ELSE [w EXCEPT !.val = -1])
parse_conversion(f, i, args) ==
    LET p == Past(f, i, Flags) IN AfterWidth(f, Range(SubSeq(f, i, p - 1)), Amount(f, p, args))

----------------------------------------------------------------------------
(* The conversions.  The digits are made from the last to the first, as    *)
(* the code's buffer holds them.                                           *)

RECURSIVE DigitsBackward(_, _, _, _)
DigitsBackward(value, b, grouped, cnt) ==
    IF value = 0 THEN <<>>
    ELSE (IF grouped /\ cnt > 0 /\ cnt % b.group = 0 THEN <<",">> ELSE <<>>)
         \o <<Numerals[(value % b.base) + 1]>> \o DigitsBackward(value \div b.base, b, grouped, cnt + 1)

\* The digits are filled up to the precision, and an octal number begins with 0.
ToPrecision(digits, c) ==
    digits \o output_dup("0", (IF c.precision < 0 THEN 1 ELSE Min({c.precision, DIGITS_BUF - 1})) - Len(digits))
WithOctal(buf, b, c) ==
    IF "#" \in c.flags /\ b.base = 8 /\ (buf = <<>> \/ Last(buf) # "0") THEN Append(buf, "0") ELSE buf
Laid(sign, x, buf, c) ==
    LET pad == c.width - Len(buf) - Len(x) - Len(sign)
    IN  (IF c.flags \cap {"-", "0"} = {} THEN output_dup(" ", pad) ELSE <<>>)
        \o sign \o x
        \o (IF "0" \in c.flags THEN output_dup("0", pad) ELSE <<>>)
        \o Reverse(buf)
        \o (IF "-" \in c.flags THEN output_dup(" ", pad) ELSE <<>>)
format_integer(value, is_signed, negative, b, c) ==
    LET sign == IF ~is_signed THEN <<>>
                ELSE IF negative THEN <<"-">>
                ELSE IF "+" \in c.flags THEN <<"+">>
                ELSE IF " " \in c.flags THEN <<" ">> ELSE <<>>
        x    == IF "#" \in c.flags /\ value # 0 /\ b.x THEN <<"0", "x">> ELSE <<>>
    IN  Laid(sign, x, WithOctal(ToPrecision(DigitsBackward(value, b, "'" \in c.flags, 0), c), b, c), c)

format_string(string, length, c) ==
    LET pad == output_dup(" ", c.width - length) IN
    (IF "-" \in c.flags THEN <<>> ELSE pad) \o SubSeq(string, 1, length) \o (IF "-" \in c.flags THEN pad ELSE <<>>)

\* One conversion; an unknown letter takes no argument and says so.
Convert(letter, c) ==
    LET low == Head(c.args) % 2 ^ c.bits
        val == Signed(low, 2 ^ c.bits)
    IN  CASE letter \in {"d", "i"}           -> format_integer(Abs(val), TRUE, val < 0, Base(letter), c)
          [] letter \in {"o", "u", "x", "X"} -> format_integer(low, FALSE, FALSE, Base(letter), c)
          [] letter = "p" -> format_integer(Head(c.args) % Word, FALSE, FALSE, Base(letter), [c EXCEPT !.flags = {"#"}])
          [] letter = "c" -> format_string(<<Head(c.args)>>, 1, c)
          [] letter = "s" -> LET s == Head(c.args)
                             IN  format_string(s, IF c.precision < 0 THEN Len(s) ELSE Min({Len(s), c.precision}), c)
          [] OTHER        -> <<"<<no", letter, ">>">>

RECURSIVE VprintfFrom(_, _, _)
AfterConversion(f, c) ==
    Convert(f[c.at], c)
    \o VprintfFrom(f, c.at + 1, IF f[c.at] \in {"d", "i", "o", "u", "x", "X", "c", "s", "p"} THEN Tail(c.args) ELSE c.args)
VprintfFrom(f, i, args) ==
    IF f[i] = NUL THEN <<>>
    ELSE IF f[i] # "%" THEN <<f[i]>> \o VprintfFrom(f, i + 1, args)
    ELSE IF f[i + 1] = "%" THEN <<"%">> \o VprintfFrom(f, i + 2, args)
    ELSE AfterConversion(f, parse_conversion(f, i + 1, args))
__vprintf(f, args) == VprintfFrom(f, 1, args)

----------------------------------------------------------------------------
(* Where the characters go. *)

\* The buffer after, and what is returned.
vsnprintf_helper(aux, ch) ==
    [aux EXCEPT !.length = @ + 1,
                !.p = IF aux.length < aux.max_length THEN @ + 1 ELSE @,
                !.buffer = IF aux.length < aux.max_length THEN Put(@, aux.p, ch) ELSE @]
vsnprintf(buffer, buf_size, f, args) ==
    LET aux == FoldLeft(vsnprintf_helper,
                        [buffer |-> buffer, p |-> 0, length |-> 0, max_length |-> Max({0, buf_size - 1})],
                        __vprintf(f, args))
    IN  <<IF buf_size > 0 THEN Put(aux.buffer, aux.p, NUL) ELSE aux.buffer, aux.length>>

\* The texts that are written, and the number of characters.
flush(aux) == [aux EXCEPT !.written = IF aux.buf # <<>> THEN Append(@, aux.buf) ELSE @, !.buf = <<>>]
add_char(aux, ch) ==
    LET a == [aux EXCEPT !.buf = Append(@, ch)]
        b == IF Len(a.buf) >= CONSOLE_BUF THEN flush(a) ELSE a
    IN  [b EXCEPT !.char_cnt = @ + 1]
vhprintf(f, args) ==
    LET aux == flush(FoldLeft(add_char, [buf |-> <<>>, written |-> <<>>, char_cnt |-> 0], __vprintf(f, args)))
    IN  <<aux.written, aux.char_cnt>>

\* The lines of a dump: offset, and the bytes with the columns they are in.
RECURSIVE hex_dump(_, _)
hex_dump(ofs, buf) ==
    LET start == ofs % PER_LINE
        n     == Min({PER_LINE - start, Len(buf)})
    IN  IF buf = <<>> THEN <<>>
        ELSE <<[ofs |-> ofs - start, cells |-> [k \in 1 .. n |-> <<start + k - 1, buf[k]>>]]>>
             \o hex_dump(ofs + n, SubSeq(buf, n + 1, Len(buf)))

Factors == <<"bytes", "kB", "MB", "GB", "TB">>
RECURSIVE ScaledFrom(_, _)
ScaledFrom(size, i) ==
    IF size >= KILO /\ i < Len(Factors) THEN ScaledFrom(size \div KILO, i + 1) ELSE <<size, Factors[i]>>
print_human_readable_size(size) == IF size = 1 THEN <<1, "byte">> ELSE ScaledFrom(size, 1)

----------------------------------------------------------------------------
(* What is to be printed. *)

\* A format with one conversion; star: width and precision are arguments.
Specs == [flags : SUBSET Flags, width : Widths, precision : Precisions \cup {-1}, letter : {"d", "o", "x"}, star : BOOLEAN]
Written(n) == IF n < 10 THEN <<Numerals[n + 1]>> ELSE <<Numerals[n \div 10 + 1], Numerals[(n % 10) + 1]>>
FormatOf(s) ==
    <<"<", "%">> \o SetToSeq(s.flags)
    \o (IF s.star THEN <<"*">> ELSE IF s.width = 0 THEN <<>> ELSE Written(s.width))
    \o (IF s.precision < 0 THEN <<>> ELSE <<".">> \o IF s.star THEN <<"*">> ELSE Written(s.precision))
    \o <<s.letter, ">", NUL>>
ArgsOf(s, arg) ==
    IF s.star THEN <<s.width>> \o (IF s.precision < 0 THEN <<>> ELSE <<s.precision>>) \o <<arg>> ELSE <<arg>>

\* The number that a text shows: blanks, signs, commas and x carry no value.
Shown(t, base) == FoldLeft(LAMBDA n, ch : base * n + Numeral(ch), 0, SelectSeq(t, LAMBDA ch : ch \in Range(Numerals)))
Count(t, set) == Cardinality({i \in DOMAIN t : t[i] \in set})

Field(s, arg) == LET out == __vprintf(FormatOf(s), ArgsOf(s, arg)) IN SubSeq(out, 2, Len(out) - 1)

IntegerRight(s, arg) ==
    \A field \in {Field(s, arg)} :
    LET b     == Base(s.letter)
        val   == IF s.letter = "d" THEN Signed(arg % Word, Word) ELSE arg % Word
        body  == SelectSeq(field, LAMBDA ch : ch # " ")
        after(i) == Count(SubSeq(field, i, Len(field)), Range(Numerals))
    IN  /\ Shown(field, b.base) = Abs(val)
        /\ Count(field, {"-"}) = IF val < 0 THEN 1 ELSE 0
        /\ Count(field, {"+"}) = IF s.letter = "d" /\ val >= 0 /\ "+" \in s.flags THEN 1 ELSE 0
        \* Exactly the width where the number is no wider.
        /\ Len(field) >= s.width
        /\ Len(field) > s.width => Count(field, {" "}) = (IF s.letter = "d" /\ val >= 0 /\ " " \in s.flags /\ "+" \notin s.flags THEN 1 ELSE 0)
        \* Padded on one side.
        /\ "-" \in s.flags /\ body # <<>> /\ " " \notin s.flags => field[1] # " "
        /\ "-" \notin s.flags /\ body # <<>> => Last(field) # " "
        \* The digits that the precision asks for, commas counted among them.
        /\ Count(field, Range(Numerals) \cup {","}) >= s.precision
        \* A precision or a minus leaves 0 without effect.
        /\ s.precision >= 0 \/ "-" \in s.flags => field = Field([s EXCEPT !.flags = @ \ {"0"}], arg)
        \* The prefixes that # asks for.
        /\ "#" \in s.flags /\ s.letter = "o" => body # <<>> /\ body[1] = "0"
        /\ (Count(field, {"x"}) = 1) = ("#" \in s.flags /\ s.letter = "x" /\ val # 0)
        \* Whole groups follow a comma.
        /\ \A i \in DOMAIN field : field[i] = "," => after(i) % b.group = 0

\* Each type takes the bits that are its own.
TypesRight ==
    \A type \in {<<"h", "h">>, <<"h">>, <<>>, <<"l">>, <<"t">>, <<"z">>, <<"j">>, <<"l", "l">>}, letter \in {"d", "u"} :
      LET size == IF type \in {<<"j">>, <<"l", "l">>} THEN Double
                  ELSE IF type = <<"h">> THEN 2 ^ (WORD_BITS \div 2)
                  ELSE IF type = <<"h", "h">> THEN 2 ^ (WORD_BITS \div 4) ELSE Word
          val == IF letter = "d" THEN Signed(number % size, size) ELSE number % size
          out == __vprintf(<<"%">> \o type \o <<letter, "%", "%", NUL>>, <<number>>)
      IN  /\ Shown(out, 10) = Abs(val) /\ (val < 0) = (Head(out) = "-") /\ Last(out) = "%"
          /\ Shown(__vprintf(<<"%", "p", NUL>>, <<number>>), 16) = number % Word

\* Cut where the buffer ends, always terminated, and written to the console in
\* the same order however the buffer fills.
OutputRight ==
    \A s \in [flags : {{}, {"-"}}, width : Widths, precision : Precisions \cup {-1}, letter : {"s"}, star : {FALSE}] :
      LET f    == FormatOf(s)
          arg  == [i \in DOMAIN text |-> Numerals[text[i]]]
          want == IF s.precision < 0 THEN arg ELSE SubSeq(arg, 1, Min({Len(arg), s.precision}))
      IN  \A out \in {__vprintf(f, <<arg>>)} :
          /\ SelectSeq(out, LAMBDA ch : ch # " ") = <<"<">> \o want \o <<">">>
          /\ Len(out) = 2 + Max({s.width, Len(want)})
          /\ FlattenSeq(vhprintf(f, <<arg>>)[1]) = out /\ vhprintf(f, <<arg>>)[2] = Len(out)
          /\ \A size \in 0 .. Len(out) + 2 :
               LET r == vsnprintf([i \in 1 .. size + 1 |-> "?"], size, f, <<arg>>)
                   n == Min({size - 1, Len(out)})
               IN  /\ r[2] = Len(out)
                   /\ size > 0 => Slice(r[1], 0, n + 1) = Append(SubSeq(out, 1, n), NUL)
                   /\ Last(r[1]) = "?"

DumpRight ==
    /\ \A ofs \in 0 .. PER_LINE : LET lines == hex_dump(ofs, text) IN
         /\ FlattenSeq([i \in DOMAIN lines |-> [k \in DOMAIN lines[i].cells |-> lines[i].cells[k][2]]]) = text
         /\ \A i \in DOMAIN lines : lines[i].ofs % PER_LINE = 0 /\ (i > 1 => lines[i].ofs = lines[i - 1].ofs + PER_LINE)
         /\ lines # <<>> => lines[1].ofs + lines[1].cells[1][1] = ofs
    /\ LET r == print_human_readable_size(number)
           k == IF number = 1 THEN 0 ELSE (CHOOSE i \in DOMAIN Factors : Factors[i] = r[2]) - 1
       IN  /\ r[1] * KILO ^ k <= number /\ number < (r[1] + 1) * KILO ^ k
           /\ r[1] < KILO \/ r[2] = "TB"

(***************************************************************************)
(* Every conversion shows the number or the text it is given, in its type, *)
(* padded to the width on the side the flags say; snprintf cuts it at the  *)
(* end of the buffer and always terminates it, and a program's console     *)
(* writes the same characters in the same order (stdio.c:26, 470,          *)
(* user/console.c:53).                                                     *)
(***************************************************************************)
FormatsRight ==
    /\ (text = <<>> /\ on = {}) => TypesRight /\ DumpRight
    /\ (text = <<>> /\ on = {} /\ number \in {0, 9, 64, Double - 1}) => \A s \in Specs : IntegerRight(s, number)
    /\ (number = 0 /\ on = {}) => OutputRight /\ DumpRight
=============================================================================
