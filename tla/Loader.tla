------------------------------- MODULE Loader -------------------------------
(***************************************************************************)
(* How a program comes into memory: the program headers of its file        *)
(* (load, validate_segment, load_segment of userprog/process.c) and the    *)
(* words of its command line on its stack (push_args of project 2,         *)
(* parse_cmdline of project 3).  What is read and written is user memory:  *)
(* a map from pages to their bytes and whether they may be written.        *)
(*                                                                         *)
(* A word has two bytes of BYTE values each; blank is the character that   *)
(* separates arguments.  The headers are taken apart already: what the     *)
(* checks of the file header test is one flag.                             *)
(***************************************************************************)
EXTENDS CLibrary

CONSTANTS
    PAGE_BYTES,    \* bytes of a page, PGSIZE
    PHYS_BASE,     \* first address of the kernel
    ADDRESSES,     \* addresses, 2^32
    PHDR_BYTES,    \* bytes of a program header, 32
    Programs,      \* BOUND: executables that are tried
    load_pages     \* BOUND: pages of the user pool

BYTE  == 16
WORD  == 2
blank == 2

ASSUME LoaderAssumption ==
    /\ PAGE_BYTES % WORD = 0 /\ PHYS_BASE % PAGE_BYTES = 0 /\ PHYS_BASE < ADDRESSES
    /\ PHYS_BASE <= BYTE * BYTE /\ load_pages \in Nat

RoundUp(n, step) == ((n + step - 1) \div step) * step
PageOf(addr) == addr \div PAGE_BYTES
StackPage == PageOf(PHYS_BASE) - 1
is_user_vaddr(addr) == addr < PHYS_BASE

----------------------------------------------------------------------------
(* Segments *)

validate_segment(phdr, length) ==
    /\ phdr.p_offset % PAGE_BYTES = phdr.p_vaddr % PAGE_BYTES
    /\ phdr.p_offset <= length
    /\ phdr.p_memsz >= phdr.p_filesz
    /\ phdr.p_memsz # 0
    /\ is_user_vaddr(phdr.p_vaddr)
    /\ is_user_vaddr((phdr.p_vaddr + phdr.p_memsz) % ADDRESSES)
    /\ (phdr.p_vaddr + phdr.p_memsz) % ADDRESSES >= phdr.p_vaddr
    /\ phdr.p_vaddr >= PAGE_BYTES

\* Page after page: what the file holds, then zeros.  It fails when memory is
\* used up, the file is too short or the page is there already.
install(mem, upage, bytes, writable) == mem @@ (upage :> [bytes |-> bytes, writable |-> writable])
load_segment(s, file, ofs, upage, read_bytes, zero_bytes, writable) ==
    LET Load(t, k) ==
          LET page_read_bytes == Min({PAGE_BYTES, Max({0, read_bytes - k * PAGE_BYTES})})
              from  == ofs + k * PAGE_BYTES
              bytes == [i \in 1 .. PAGE_BYTES |-> IF i <= page_read_bytes THEN file.bytes[from + i] ELSE 0]
          IN  IF ~t.ok THEN t
              ELSE IF Cardinality(DOMAIN t.mem) = load_pages \/ from + page_read_bytes > Len(file.bytes)
                      \/ upage + k \in DOMAIN t.mem
                   THEN [t EXCEPT !.ok = FALSE]
              ELSE [t EXCEPT !.mem = install(@, upage + k, bytes, writable)]
    IN  FoldLeft(Load, s, [k \in 1 .. (read_bytes + zero_bytes) \div PAGE_BYTES |-> k - 1])

PT_IGNORED == {"NULL", "NOTE", "PHDR", "STACK", "other"}
LoadSegmentOf(s, file, phdr) ==
    LET page_offset == phdr.p_vaddr % PAGE_BYTES
        read_bytes  == IF phdr.p_filesz > 0 THEN page_offset + phdr.p_filesz ELSE 0
        zero_bytes  == RoundUp(page_offset + phdr.p_memsz, PAGE_BYTES) - read_bytes
    IN  IF validate_segment(phdr, Len(file.bytes))
        THEN load_segment(s, file, phdr.p_offset - (phdr.p_offset % PAGE_BYTES), PageOf(phdr.p_vaddr),
                          read_bytes, zero_bytes, phdr.writable)
        ELSE [s EXCEPT !.ok = FALSE]

setup_stack(s) ==
    IF ~s.ok \/ Cardinality(DOMAIN s.mem) = load_pages \/ StackPage \in DOMAIN s.mem THEN [s EXCEPT !.ok = FALSE]
    ELSE [s EXCEPT !.mem = install(@, StackPage, [i \in 1 .. PAGE_BYTES |-> 0], TRUE)]

\* The headers one after the other, and then the stack.
load(file) ==
    LET Phdr(s, i) ==
          LET at == file.e_phoff + (i - 1) * PHDR_BYTES
              ph == file.phdrs[i]
          IN  IF ~s.ok THEN s
              ELSE IF at + PHDR_BYTES > Len(file.bytes) \/ ph.p_type \in {"DYNAMIC", "INTERP", "SHLIB"}
                   THEN [s EXCEPT !.ok = FALSE]
              ELSE IF ph.p_type \in PT_IGNORED THEN s
              ELSE LoadSegmentOf(s, file, ph)
        start == [ok |-> file.valid_header, mem |-> <<>>]
    IN  setup_stack(FoldLeft(Phdr, start, [i \in DOMAIN file.phdrs |-> i]))

----------------------------------------------------------------------------
(* The command line.  Both put the arguments on the last page of user      *)
(* memory; page is its bytes and place counts from its beginning.          *)

UPage == PHYS_BASE - PAGE_BYTES
WordBytes(v) == <<v % BYTE, v \div BYTE>>
NoPage == [i \in 1 .. PAGE_BYTES |-> 0]
Patch(page, place, bytes) == [i \in DOMAIN page |-> IF i - place \in DOMAIN bytes THEN bytes[i - place] ELSE page[i]]

\* Project 2: downwards from the top, byte by byte.  A value that does not fit
\* ends the process.
PushBytes(s, bytes) ==
    LET at == s.at - Len(bytes) IN
    IF ~s.ok \/ at < 0 THEN [s EXCEPT !.ok = FALSE]
    ELSE [s EXCEPT !.at = at, !.page = Patch(@, at, bytes)]
NewStack == [ok |-> TRUE, at |-> PAGE_BYTES, page |-> NoPage, address |-> <<>>]
PushValues(argv) ==
    LET Value(s, i) == LET t == PushBytes(s, Append(argv[i], 0)) IN [t EXCEPT !.address = <<UPage + t.at>> \o @]
    IN  FoldLeft(Value, NewStack, Reverse([i \in DOMAIN argv |-> i]))
PushWords(s, words) == FoldLeft(LAMBDA t, w : PushBytes(t, WordBytes(w)), s, words)
\* A null pointer and a byte, the addresses, where they are, and how many.
PushVector(s) ==
    LET t == PushWords(PushBytes(PushWords(s, <<0>>), <<0>>), Reverse(s.address))
    IN  PushWords(t, <<UPage + t.at, Len(s.address), 0>>)
push_args(cmd) == PushVector(PushValues(Tokens(cmd, <<blank, 0>>, 0)))

\* Project 3: every value is rounded up to words; the command line is pushed
\* whole, and cut up where it is.
push(s, bytes) ==
    LET psize == RoundUp(Len(bytes), WORD) IN
    IF ~s.ok \/ s.at < psize THEN [s EXCEPT !.ok = FALSE]
    ELSE [s EXCEPT !.at = @ - psize, !.page = Patch(@, s.at - Len(bytes), bytes)]

\* The page after strtok_r has cut the line, and the places of the words.
RECURSIVE CutFrom(_, _, _)
CutFrom(page, i, found) ==
    LET r == strtok_r(page, <<blank, 0>>, i) IN
    IF r[2] = NIL THEN <<page, found>> ELSE CutFrom(r[1], r[3], Append(found, r[2]))
RECURSIVE reverse(_, _)
reverse(words, i) ==
    IF i > Len(words) \div 2 THEN words
    ELSE reverse([words EXCEPT ![i] = words[Len(words) + 1 - i], ![Len(words) + 1 - i] = words[i]], i + 1)

ReversePointers(s, argc) ==
    LET ptrs == [k \in 1 .. argc |-> Slice(s.page, s.at + (k - 1) * WORD, WORD)]
    IN  [s EXCEPT !.page = Patch(@, s.at, FlattenSeq(reverse(ptrs, 1)))]
PushAll(s, words) == FoldLeft(LAMBDA t, w : push(t, WordBytes(w)), s, words)
\* page is cut at the words, which begin at these places.
PushPointers(s, page, places) ==
    LET t == PushAll([s EXCEPT !.page = page], [k \in DOMAIN places |-> UPage + places[k]])
    IN  IF t.ok THEN PushAll(ReversePointers(t, Len(places)), <<UPage + t.at, Len(places), 0>>) ELSE t
parse_cmdline(cmd) ==
    LET s   == PushAll(push(NewStack, cmd), <<0>>)
        cut == CutFrom(s.page, PAGE_BYTES - Len(cmd), <<>>)
    IN  IF s.ok THEN PushPointers(s, cut[1], cut[2]) ELSE s

----------------------------------------------------------------------------
(* What the program finds. *)

WordAt(page, place) == At(page, place) + BYTE * At(page, place + 1)
StringAt(page, place) == SubSeq(page, place + 1, place + First(PAGE_BYTES - place, LAMBDA k : At(page, place + k) = 0))
\* At the stack pointer: a return address, argc, argv; behind argv[argc] a null.
Finds(s, argv) ==
    LET at == WordAt(s.page, s.at + 2 * WORD) - UPage IN
    /\ WordAt(s.page, s.at) = 0
    /\ WordAt(s.page, s.at + WORD) = Len(argv)
    /\ \A i \in DOMAIN argv : StringAt(s.page, WordAt(s.page, at + (i - 1) * WORD) - UPage) = argv[i]
    /\ WordAt(s.page, at + Len(argv) * WORD) = 0

\* Arguments arrive as they were written or, if they need more than a page,
\* the program does not start; project 3 leaves the stack aligned.
ArgumentsRight ==
    LET argv == SplitAt({blank})
        sum  == FoldLeft(LAMBDA n, t : n + Len(t) + 1, 0, argv)
        two  == push_args(Str(text))
        three == parse_cmdline(Str(text))
    IN  argv # <<>> =>
          /\ two.ok = (sum + (Len(argv) + 4) * WORD + 1 <= PAGE_BYTES)
          /\ two.ok => Finds(two, argv)
          /\ three.ok = (RoundUp(Len(text) + 1, WORD) + (Len(argv) + 4) * WORD <= PAGE_BYTES)
          /\ three.ok => Finds(three, argv) /\ three.at % WORD = 0

\* A program that is loaded finds each segment in its place: the bytes of the
\* file, zeros behind them, in pages of its own below PHYS_BASE and above page 0.
SegmentRight(file, mem, ph) ==
    \A i \in 0 .. ph.p_memsz - 1 :
      LET addr == ph.p_vaddr + i
          page == PageOf(addr)
      IN  /\ page \in 1 .. StackPage - 1 /\ page \in DOMAIN mem
          /\ mem[page].writable = ph.writable
          /\ mem[page].bytes[(addr % PAGE_BYTES) + 1] = IF i < ph.p_filesz THEN file.bytes[ph.p_offset + i + 1] ELSE 0
LoadRight ==
    \A file \in Programs :
      LET s == load(file)
          loaded == {ph \in Range(file.phdrs) : ph.p_type = "LOAD"}
      IN  s.ok => /\ \A ph \in loaded : SegmentRight(file, s.mem, ph)
                  /\ s.mem[StackPage].writable /\ s.mem[StackPage].bytes = NoPage
                  /\ DOMAIN s.mem = {StackPage} \cup UNION {PageOf(ph.p_vaddr) .. PageOf(ph.p_vaddr + ph.p_memsz - 1) : ph \in loaded}
                  /\ Cardinality(DOMAIN s.mem) <= load_pages

(***************************************************************************)
(* Whatever its file and its command line say, a program that starts finds *)
(* its segments where the headers put them, nothing else mapped but a      *)
(* zeroed stack, and on the stack argc, argv and the words of the command  *)
(* line (process.c:432, 487, 541, project 3's process.c:766).              *)
(***************************************************************************)
LoaderRight == /\ (number = 0 /\ on = {}) => ArgumentsRight
               /\ (number = 0 /\ on = {} /\ text = <<>>) => LoadRight
=============================================================================
