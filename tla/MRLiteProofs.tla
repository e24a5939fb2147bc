---------------------------- MODULE MRLiteProofs ----------------------------
(***************************************************************************)
(* Proofs about MRLite and its input splits: every line of the input       *)
(* reaches one mapper once and in order, the answer that ends a JobServlet *)
(* is the one to its own task, and the results have each line where it     *)
(* belongs and only there.                                                 *)
(***************************************************************************)
EXTENDS MRLite, FiniteSetTheorems, SequenceTheorems, WellFoundedInduction, TLAPS

\* A set of naturals has a least element: induction by least counterexample.
LEMMA LeastElement == ASSUME NEW T, T \subseteq Nat, T # {} PROVE \E m \in T : \A n \in T : m <= n
<1>1. PICK m \in T : \A n \in T : ~(<<n, m>> \in OpToRel(<, Nat))
  BY NatLessThanWellFounded, WFMin
<1>2. \A n \in T : ~(n < m)
  BY <1>1 DEF OpToRel
<1> QED BY <1>2

----------------------------------------------------------------------------
(* Offsets and lines of the file. *)

\* The input is a sequence of positive line lengths.
LEMMA FileType == Len(File) \in Nat /\ DOMAIN File = 1 .. Len(File)
                    /\ \A n \in 1 .. Len(File) : File[n] \in Nat /\ File[n] > 0
BY SplitAssumption

\* The number of its lines.
LEMMA LenFile == Len(File) \in Nat
BY FileType

\* EndOf satisfies its recursive equation.
LEMMA EndOfDef ==
  \A n \in 0 .. Len(File) : EndOf[n] = IF n = 0 THEN 0 ELSE EndOf[n - 1] + File[n]
<1> DEFINE Upto(m, g) == g = [n \in 0 .. m |-> IF n = 0 THEN 0 ELSE g[n - 1] + File[n]]
           Bad == {m \in 0 .. Len(File) : ~ \E g : Upto(m, g)}
<1>1. Bad = {}
  <2> SUFFICES ASSUME Bad # {} PROVE FALSE
    OBVIOUS
  <2>1. PICK m \in Bad : \A n \in Bad : m <= n
    <3>1. Bad \subseteq Nat
      BY FileType
    <3> QED BY <3>1, LeastElement
  <2>2. m \in 0 .. Len(File) /\ Len(File) \in Nat
    BY <2>1, FileType
  <2>3. CASE m = 0
    <3>1. Upto(0, [n \in 0 .. 0 |-> 0])
      OBVIOUS
    <3> QED BY <2>1, <2>3, <3>1
  <2>4. CASE m # 0
    <3>1. m - 1 \in 0 .. Len(File) /\ m - 1 \notin Bad
      BY <2>1, <2>2, <2>4
    <3>2. PICK g : Upto(m - 1, g)
      BY <3>1
    <3> DEFINE h == [n \in 0 .. m |-> IF n = m THEN g[m - 1] + File[m] ELSE g[n]]
    <3>3. \A n \in 0 .. m : h[n] = IF n = 0 THEN 0 ELSE h[n - 1] + File[n]
      <4> SUFFICES ASSUME NEW n \in 0 .. m PROVE h[n] = IF n = 0 THEN 0 ELSE h[n - 1] + File[n]
        OBVIOUS
      <4>1. CASE n = m
        BY <4>1, <2>2, <2>4
      <4>2. CASE n # m
        <5>1. n \in 0 .. m - 1
          BY <4>2, <2>2
        <5>2. g[n] = IF n = 0 THEN 0 ELSE g[n - 1] + File[n]
          BY <5>1, <3>2
        <5> QED BY <5>1, <5>2, <2>2, <4>2
      <4> QED BY <4>1, <4>2
    <3>4. Upto(m, h)
      BY <3>3
    <3> HIDE DEF h
    <3> QED BY <3>4, <2>1
  <2> QED BY <2>3, <2>4
<1>2. \E g : Upto(Len(File), g)
  BY <1>1, FileType
<1>3. EndOf = [n \in 0 .. Len(File) |-> IF n = 0 THEN 0 ELSE EndOf[n - 1] + File[n]]
  BY <1>2 DEF EndOf
<1> QED
  BY <1>3

\* Offsets are naturals, and grow with the number of lines.
LEMMA EndOfGrows ==
  \A n \in 0 .. Len(File) : EndOf[n] \in Nat /\ \A m \in 0 .. Len(File) : m < n => EndOf[m] < EndOf[n]
<1> DEFINE P(n) == EndOf[n] \in Nat /\ \A m \in 0 .. Len(File) : m < n => EndOf[m] < EndOf[n]
           Bad == {n \in 0 .. Len(File) : ~P(n)}
<1> SUFFICES ASSUME Bad # {} PROVE FALSE
  OBVIOUS
<1>1. PICK n \in Bad : \A k \in Bad : n <= k
  <2>1. Bad \subseteq Nat
    BY FileType
  <2> QED BY <2>1, LeastElement
<1>2. n \in 0 .. Len(File) /\ n \in Nat
  BY <1>1, FileType
<1>3. n # 0
  BY EndOfDef, FileType, <1>1, <1>2
<1>4. n - 1 \in 0 .. Len(File) /\ n \in 1 .. Len(File) /\ n - 1 \notin Bad
  BY <1>1, <1>2, <1>3, FileType
<1>5. P(n - 1)
  BY <1>4
<1>6. EndOf[n] = EndOf[n - 1] + File[n] /\ File[n] \in Nat /\ File[n] > 0
  BY <1>2, <1>3, <1>4, EndOfDef, FileType
<1>7. P(n)
  <2>1. EndOf[n] \in Nat /\ EndOf[n - 1] < EndOf[n] /\ EndOf[n - 1] \in Nat
    BY <1>5, <1>6
  <2>2. ASSUME NEW m \in 0 .. Len(File), m < n PROVE EndOf[m] < EndOf[n]
    <3>1. CASE m = n - 1
      BY <3>1, <2>1
    <3>2. CASE m # n - 1
      <4>1. m < n - 1
        BY <3>2, <2>2, <1>2, FileType
      <4>2. EndOf[m] < EndOf[n - 1]
        BY <4>1, <1>5, <2>2
      <4>3. EndOf[m] \in Int
        BY <1>5, <2>2, <4>1, <1>1, FileType, <1>2
      <4> QED BY <4>2, <4>3, <2>1
    <3> QED BY <3>1, <3>2
  <2> QED BY <2>1, <2>2
<1> QED BY <1>7, <1>1

\* Offsets at which a line ends, or the file begins.
Ends == {EndOf[n] : n \in 0 .. Len(File)}

\* The line ends lie in the file, its two ends among them.
LEMMA EndsType ==
  /\ Ends \subseteq Nat /\ 0 \in Ends /\ FileLength \in Ends
  /\ \A x \in Ends : x <= FileLength
  /\ EndOf[0] = 0
<1>1. EndOf[0] = 0 /\ 0 \in 0 .. Len(File) /\ Len(File) \in 0 .. Len(File)
  BY EndOfDef, FileType
<1>2. ASSUME NEW n \in 0 .. Len(File) PROVE EndOf[n] <= EndOf[Len(File)]
  <2>1. n = Len(File) \/ n < Len(File)
    BY LenFile
  <2> QED BY <2>1, EndOfGrows, <1>1
<1> QED BY <1>1, <1>2, EndOfGrows DEF Ends, FileLength

\* Every offset inside the file lies in a line.
LEMMA LineAround ==
  ASSUME NEW pos \in Nat, pos < FileLength
  PROVE  \E n \in 1 .. Len(File) : EndOf[n] > pos /\ EndOf[n - 1] <= pos
<1> DEFINE T == {n \in 0 .. Len(File) : EndOf[n] > pos}
<1>1. Len(File) \in T /\ T \subseteq Nat
  BY FileType DEF FileLength
<1>2. PICK n \in T : \A k \in T : n <= k
  BY <1>1, LeastElement
<1>3. n # 0 /\ n \in 0 .. Len(File)
  BY <1>2, EndsType
<1>4. n \in 1 .. Len(File) /\ n - 1 \in 0 .. Len(File) /\ n - 1 \notin T
  BY <1>2, <1>3, FileType
<1>5. EndOf[n - 1] <= pos
  BY <1>4, EndOfGrows
<1> QED BY <1>2, <1>4, <1>5

\* readLine leaves the file pointer at the end of the line it was in.
LEMMA AfterLineIs ==
  ASSUME NEW pos \in Nat, pos <= FileLength
  PROVE  /\ AfterLine(pos) \in Ends /\ AfterLine(pos) >= pos
         /\ pos < FileLength => \E n \in 1 .. Len(File) :
              AfterLine(pos) = EndOf[n] /\ EndOf[n] > pos /\ EndOf[n - 1] <= pos
         /\ pos = FileLength => AfterLine(pos) = pos
<1>0. FileLength \in Nat
  BY EndsType
<1>1. CASE pos = FileLength
  BY <1>1, <1>0, EndsType DEF AfterLine
<1>2. CASE pos < FileLength
  <2> DEFINE n == CHOOSE n \in 1 .. Len(File) : EndOf[n] > pos /\ EndOf[n - 1] <= pos
  <2>1. n \in 1 .. Len(File) /\ EndOf[n] > pos /\ EndOf[n - 1] <= pos
    BY <1>2, LineAround
  <2>2. AfterLine(pos) = EndOf[n]
    BY <1>2, <1>0 DEF AfterLine
  <2> HIDE DEF n
  <2>3. n \in 0 .. Len(File) /\ EndOf[n] \in Nat
    BY <2>1, EndOfGrows, FileType
  <2> QED BY <2>1, <2>2, <2>3, <1>2, <1>0 DEF Ends
<1> QED BY <1>1, <1>2, <1>0

\* ... and keeps the order of two offsets.
LEMMA AfterLineGrows ==
  ASSUME NEW p \in Nat, NEW q \in Nat, p <= q, q <= FileLength
  PROVE  AfterLine(p) <= AfterLine(q)
<1>0. FileLength \in Nat /\ p <= FileLength /\ AfterLine(p) \in Nat /\ AfterLine(q) \in Nat
        /\ AfterLine(p) <= FileLength
  <2>1. FileLength \in Nat /\ p <= FileLength
    BY EndsType
  <2> QED BY <2>1, AfterLineIs, EndsType
<1>1. CASE q = FileLength
  BY <1>1, <1>0, AfterLineIs
<1>2. CASE q < FileLength
  <2>0. p < FileLength
    BY <1>2, <1>0
  <2>1. PICK m \in 1 .. Len(File) : AfterLine(p) = EndOf[m] /\ EndOf[m] > p /\ EndOf[m - 1] <= p
    BY <2>0, <1>0, AfterLineIs
  <2>2. PICK n \in 1 .. Len(File) : AfterLine(q) = EndOf[n] /\ EndOf[n] > q /\ EndOf[n - 1] <= q
    BY <1>2, <1>0, AfterLineIs
  <2>3. m \in 0 .. Len(File) /\ n \in 0 .. Len(File) /\ m - 1 \in 0 .. Len(File) /\ m \in Nat /\ n \in Nat
    BY FileType
  <2>4. EndOf[m - 1] \in Nat /\ EndOf[n] \in Nat /\ EndOf[m] \in Nat
    BY <2>3, EndOfGrows
  <2>5. EndOf[m - 1] < EndOf[n]
    BY <2>1, <2>2, <2>4
  <2>6. ~(n < m - 1) /\ n # m - 1
    BY <2>5, <2>4, <2>3, EndOfGrows
  <2>7. m = n \/ m < n
    BY <2>6, <2>3
  <2> QED BY <2>7, <2>1, <2>2, <2>3, <2>4, EndOfGrows
<1> QED BY <1>1, <1>2, <1>0

\* From the start of a line, readLine reads that line.
LEMMA NextLine ==
  ASSUME NEW n \in 1 .. Len(File)
  PROVE  AfterLine(EndOf[n - 1]) = EndOf[n] /\ LineAt(EndOf[n - 1]) = n
<1>0. n \in Nat /\ n \in 0 .. Len(File) /\ n - 1 \in 0 .. Len(File) /\ n - 1 < n /\ n > 0
        /\ EndOf[n - 1] \in Nat
  BY FileType, EndOfGrows
<1>1. EndOf[n - 1] < FileLength
  <2>1. EndOf[n - 1] < EndOf[n] /\ EndOf[n] \in Nat /\ EndOf[n] <= FileLength /\ FileLength \in Nat
    BY <1>0, EndOfGrows, EndsType DEF Ends
  <2> QED BY <2>1, <1>0
<1>2. PICK m \in 1 .. Len(File) : /\ AfterLine(EndOf[n - 1]) = EndOf[m]
                                  /\ EndOf[m] > EndOf[n - 1] /\ EndOf[m - 1] <= EndOf[n - 1]
  <2>1. EndOf[n - 1] <= FileLength
    BY <1>0, <1>1, EndsType
  <2> QED BY <2>1, <1>0, <1>1, AfterLineIs
<1>3. m \in Nat /\ m \in 0 .. Len(File) /\ m - 1 \in 0 .. Len(File) /\ EndOf[m] \in Nat /\ EndOf[m - 1] \in Nat
  BY FileType, EndOfGrows
<1>4. ~(m < n - 1) /\ m # n - 1 /\ ~(n - 1 < m - 1)
  BY <1>2, <1>3, <1>0, EndOfGrows
<1>5. m = n
  BY <1>4, <1>0, <1>3
<1>6. ASSUME NEW k \in 1 .. Len(File), EndOf[k - 1] = EndOf[n - 1] PROVE k = n
  <2>1. k - 1 \in 0 .. Len(File) /\ k \in Nat
    BY FileType
  <2>2. ~(k - 1 < n - 1) /\ ~(n - 1 < k - 1)
    BY <2>1, <1>0, <1>6, EndOfGrows
  <2> QED BY <2>1, <2>2, <1>0
<1> QED BY <1>2, <1>5, <1>6 DEF LineAt

\* The lines that begin before the end of line p are the first p.
LEMMA LinesBeforeAt == \A p \in 0 .. Len(File) : LinesBefore(EndOf[p]) = p
<1> SUFFICES ASSUME NEW p \in 0 .. Len(File) PROVE LinesBefore(EndOf[p]) = p
  OBVIOUS
<1>1. {n \in DOMAIN File : EndOf[n - 1] < EndOf[p]} = 1 .. p
  <2>1. ASSUME NEW n \in 1 .. Len(File) PROVE EndOf[n - 1] < EndOf[p] <=> n <= p
    <3>1. n \in Nat /\ p \in Nat /\ n - 1 \in 0 .. Len(File) /\ EndOf[n - 1] \in Nat /\ EndOf[p] \in Nat
      BY FileType, EndOfGrows
    <3>2. n - 1 < p => EndOf[n - 1] < EndOf[p]
      BY <3>1, EndOfGrows
    <3>3. p < n - 1 => EndOf[p] < EndOf[n - 1]
      BY <3>1, EndOfGrows
    <3> QED BY <3>1, <3>2, <3>3
  <2> QED BY <2>1, FileType
<1>2. Cardinality(1 .. p) = p
  BY FS_Interval, FileType
<1> QED BY <1>1, <1>2 DEF LinesBefore

\* The lines between two line ends, by number.
LEMMA Between ==
  ASSUME NEW p \in 0 .. Len(File), NEW q \in 0 .. Len(File)
  PROVE  LinesBetween(EndOf[p], EndOf[q]) = [k \in 1 .. q - p |-> p + k]
BY LinesBeforeAt DEF LinesBetween

\* Multiples keep order.
LEMMA Products ==
  ASSUME NEW a \in Nat, NEW b \in Nat, NEW d \in Nat, a <= b PROVE a * d <= b * d /\ a * d \in Nat
OBVIOUS

\* n even shares fit into the whole.
LEMMA Share ==
  ASSUME NEW n \in Nat \ {0}, NEW x \in Nat PROVE x \div n \in Nat /\ n * (x \div n) <= x
OBVIOUS

\* initializeOffsets gives line ends in order, from the start of the file.
LEMMA OffsetsInOrder ==
  ASSUME NEW n \in Nat \ {0}
  PROVE  /\ initializeOffsets(n) \in [1 .. n -> Ends]
         /\ initializeOffsets(n)[1] = 0
         /\ \A i, j \in 1 .. n : i <= j => initializeOffsets(n)[i] <= initializeOffsets(n)[j]
<1> DEFINE d == FileLength \div n
           at(i) == (i - 1) * d
<1>1. d \in Nat /\ n * d <= FileLength /\ FileLength \in Nat
  BY Share, EndsType
<1> HIDE DEF d
<1>2. ASSUME NEW i \in 1 .. n PROVE at(i) \in Nat /\ at(i) <= FileLength
  <2>1. i - 1 \in Nat /\ i - 1 <= n /\ n \in Nat
    OBVIOUS
  <2>2. (i - 1) * d <= n * d /\ (i - 1) * d \in Nat /\ n * d \in Nat
    BY <2>1, <1>1, Products
  <2> QED BY <2>2, <1>1
<1>3. ASSUME NEW i \in 1 .. n, NEW j \in 1 .. n, i <= j PROVE at(i) <= at(j)
  <2>1. i - 1 \in Nat /\ j - 1 \in Nat /\ i - 1 <= j - 1
    BY <1>3
  <2> QED BY <2>1, <1>1, Products
<1>4. \A i \in 1 .. n : initializeOffsets(n)[i] = IF i = 1 THEN 0 ELSE AfterLine(at(i))
  BY DEF initializeOffsets, d
<1>5. \A i \in 1 .. n : AfterLine(at(i)) \in Ends
  BY <1>2, AfterLineIs
<1>6. \A i, j \in 1 .. n : i <= j => AfterLine(at(i)) <= AfterLine(at(j))
  BY <1>2, <1>3, AfterLineGrows
<1> HIDE DEF at
<1>7. \A i \in 1 .. n : initializeOffsets(n)[i] \in Ends
  BY <1>4, <1>5, EndsType
<1>8. initializeOffsets(n) = [i \in 1 .. n |-> initializeOffsets(n)[i]]
  BY DEF initializeOffsets
<1>9. ASSUME NEW i \in 1 .. n, NEW j \in 1 .. n, i <= j
      PROVE  initializeOffsets(n)[i] <= initializeOffsets(n)[j]
  <2>1. CASE i = 1
    <3>1. initializeOffsets(n)[j] \in Nat /\ initializeOffsets(n)[i] = 0
      BY <2>1, <1>4, <1>7, EndsType
    <3> QED BY <3>1
  <2>2. CASE i # 1
    BY <2>2, <1>4, <1>6, <1>9
  <2> QED BY <2>1, <2>2
<1> QED BY <1>4, <1>7, <1>8, <1>9

(* One split. *)

----------------------------------------------------------------------------
(* One split. *)

\* A split.
Split == [pos : Ends, end : Ends, start : Ends, at : {"loop", "fill", "done", "failed"},
          queue : Seq(Nat), block : Seq(Nat), empty : BOOLEAN, read : Seq(Nat)]

\* What follows the lines of a split in its queue.
Pill(s) == IF s.at = "done" /\ ~s.empty THEN <<POISON_PILL>> ELSE <<>>

\* A split whose lines are where they should be.
SplitOK(s) ==
    /\ s \in Split
    /\ s.start <= s.pos /\ s.pos <= s.end
    /\ s.at = "done" => s.pos = s.end
    /\ s.empty => s.at = "done" /\ s.block = <<>> /\ s.queue = <<>>
    /\ s.read \o s.block \o s.queue = LinesBetween(s.start, s.pos) \o Pill(s)

\* One field of a split at a time.
LEMMA SplitExcept ==
  ASSUME NEW s \in Split
  PROVE  /\ \A x \in Seq(Nat) : [s EXCEPT !.queue = x] \in Split
         /\ \A x \in Seq(Nat) : [s EXCEPT !.block = x] \in Split
         /\ \A x \in Seq(Nat) : [s EXCEPT !.read = x] \in Split
         /\ \A x \in Ends : [s EXCEPT !.pos = x] \in Split
         /\ \A x \in {"loop", "fill", "done", "failed"} : [s EXCEPT !.at = x] \in Split
         /\ \A x \in BOOLEAN : [s EXCEPT !.empty = x] \in Split
BY DEF Split

\* Concatenation of sequences of lines.
LEMMA Assoc ==
  ASSUME NEW x \in Seq(Nat), NEW y \in Seq(Nat), NEW z \in Seq(Nat)
  PROVE  (x \o y) \o z = x \o (y \o z) /\ x \o y \in Seq(Nat)
<1>1. (x \o y) \o z = x \o (y \o z)
  <2> DEFINE l == (x \o y) \o z
             r == x \o (y \o z)
  <2>1. l \in Seq(Nat) /\ r \in Seq(Nat) /\ Len(l) = Len(r) /\ \A i \in 1 .. Len(l) : l[i] = r[i]
    BY SMTT(40)
  <2> HIDE DEF l, r
  <2>2. l = r
    BY <2>1, SeqEqual
  <2> QED BY <2>2 DEF l, r
<1>2. x \o y \in Seq(Nat)
  OBVIOUS
<1> QED BY <1>1, <1>2

\* The head of the queue goes to the end of the block.
LEMMA MoveHead ==
  ASSUME NEW a \in Seq(Nat), NEW b \in Seq(Nat), NEW q \in Seq(Nat), q # <<>>
  PROVE  /\ a \o Append(b, Head(q)) \o Tail(q) = a \o b \o q
         /\ a \o Append(b, Head(q)) \o <<>> \o Tail(q) = a \o b \o q
<1> DEFINE h == Head(q)
           t == Tail(q)
<1>1. h \in Nat /\ t \in Seq(Nat) /\ q = <<h>> \o t
  OBVIOUS
<1> HIDE DEF h, t
<1>2. Append(b, h) = b \o <<h>> /\ <<h>> \in Seq(Nat) /\ b \o <<h>> \in Seq(Nat) /\ a \o b \in Seq(Nat)
  BY <1>1
<1>3. a \o (b \o <<h>>) = (a \o b) \o <<h>> /\ a \o (b \o <<h>>) \in Seq(Nat)
  BY <1>2, Assoc, SMTT(40)
<1>4. ((a \o b) \o <<h>>) \o t = (a \o b) \o (<<h>> \o t)
  <2> DEFINE ab == a \o b
             hh == <<h>>
  <2>1. ab \in Seq(Nat) /\ hh \in Seq(Nat) /\ t \in Seq(Nat)
    BY <1>1, <1>2
  <2> HIDE DEF ab, hh
  <2>2. (ab \o hh) \o t = ab \o (hh \o t)
    BY <2>1, SMTT(30)
  <2> QED BY <2>2 DEF ab, hh
<1>5. (a \o (b \o <<h>>)) \o <<>> = a \o (b \o <<h>>)
  BY <1>3
<1> QED BY <1>1, <1>2, <1>3, <1>4, <1>5 DEF h, t

\* Append and concatenation.
LEMMA AppendLast ==
  ASSUME NEW a \in Seq(Nat), NEW q \in Seq(Nat), NEW x \in Nat
  PROVE  Append(q, x) = q \o <<x>> /\ (a \o q) \o <<x>> = a \o (q \o <<x>>)
<1>1. <<x>> \in Seq(Nat)
  OBVIOUS
<1>2. Append(q, x) = q \o <<x>>
  BY AppendIsConcat
<1>3. (a \o q) \o <<x>> = a \o (q \o <<x>>)
  <2> DEFINE xx == <<x>>
  <2> HIDE DEF xx
  <2> QED BY <1>1, Assoc DEF xx
<1> QED BY <1>2, <1>3

\* The pill is a natural.
LEMMA PillType == POISON_PILL \in Nat
BY DEF POISON_PILL

\* The lines between two line ends are naturals, and none is the pill.
LEMMA LinesType ==
  ASSUME NEW x \in Ends, NEW y \in Ends
  PROVE  /\ LinesBetween(x, y) \in Seq(Nat)
         /\ \A k \in DOMAIN LinesBetween(x, y) : LinesBetween(x, y)[k] # POISON_PILL
         /\ x = y => LinesBetween(x, y) = <<>>
<1>1. PICK p \in 0 .. Len(File), q \in 0 .. Len(File) : x = EndOf[p] /\ y = EndOf[q]
  BY DEF Ends
<1>2. LinesBetween(x, y) = [k \in 1 .. q - p |-> p + k] /\ p \in Nat /\ q \in Nat
  BY <1>1, Between, LenFile
<1>3. x = y => p = q
  <2>1. p < q => EndOf[p] < EndOf[q]
    BY EndOfGrows
  <2>2. q < p => EndOf[q] < EndOf[p]
    BY EndOfGrows
  <2>3. EndOf[p] \in Nat /\ EndOf[q] \in Nat
    BY EndOfGrows
  <2> QED BY <1>1, <1>2, <2>1, <2>2, <2>3
<1>4. [k \in 1 .. q - p |-> p + k] \in Seq(Nat)
  <2>1. CASE q - p \in Nat
    BY <2>1, <1>2
  <2>2. CASE q < p
    <3>1. 1 .. q - p = 1 .. 0
      BY <2>2, <1>2
    <3> QED BY <3>1
  <2> QED BY <2>1, <2>2, <1>2
<1>5. \A k \in 1 .. q - p : p + k # 0
  BY <1>2
<1>6. x = y => [k \in 1 .. q - p |-> p + k] = <<>>
  <2> SUFFICES ASSUME x = y PROVE [k \in 1 .. q - p |-> p + k] = <<>>
    OBVIOUS
  <2>1. 1 .. q - p = {}
    BY <1>3, <1>2
  <2> QED BY <2>1
<1> QED BY <1>2, <1>4, <1>5, <1>6 DEF POISON_PILL

\* The fields of a split.
LEMMA SplitType ==
  ASSUME NEW s \in Split
  PROVE  /\ s.pos \in Ends /\ s.end \in Ends /\ s.start \in Ends
         /\ s.pos \in Nat /\ s.end \in Nat /\ s.start \in Nat
         /\ s.queue \in Seq(Nat) /\ s.block \in Seq(Nat) /\ s.read \in Seq(Nat)
         /\ s.read \o s.block \in Seq(Nat)
         /\ LinesBetween(s.start, s.pos) \in Seq(Nat)
<1>1. s.pos \in Ends /\ s.end \in Ends /\ s.start \in Ends
        /\ s.queue \in Seq(Nat) /\ s.block \in Seq(Nat) /\ s.read \in Seq(Nat)
  BY DEF Split
<1>2. s.read \o s.block \in Seq(Nat)
  BY <1>1
<1>3. s.pos \in Nat /\ s.end \in Nat /\ s.start \in Nat
  BY <1>1, EndsType
<1>4. LinesBetween(s.start, s.pos) \in Seq(Nat)
  BY <1>1, LinesType
<1> QED BY <1>1, <1>2, <1>3, <1>4

\* Reading one line adds it to the lines passed, and stays within the split.
LEMMA OneMoreLine ==
  ASSUME NEW x \in Ends, NEW pos \in Ends, NEW end \in Ends, x <= pos, pos < end
  PROVE  /\ AfterLine(pos) \in Ends /\ AfterLine(pos) <= end /\ pos <= AfterLine(pos)
         /\ LineAt(pos) \in Nat
         /\ LinesBetween(x, AfterLine(pos)) = Append(LinesBetween(x, pos), LineAt(pos))
<1>1. PICK p \in 0 .. Len(File), q \in 0 .. Len(File), e \in 0 .. Len(File) :
        x = EndOf[p] /\ pos = EndOf[q] /\ end = EndOf[e]
  BY DEF Ends
<1>2. p \in Nat /\ q \in Nat /\ e \in Nat /\ Len(File) \in Nat
        /\ EndOf[p] \in Nat /\ EndOf[q] \in Nat /\ EndOf[e] \in Nat
  BY LenFile, EndOfGrows
<1>3. p <= q /\ q < e
  <2>1. q < p => EndOf[q] < EndOf[p]
    BY EndOfGrows
  <2>2. e < q => EndOf[e] < EndOf[q]
    BY EndOfGrows
  <2> QED BY <2>1, <2>2, <1>1, <1>2
<1>4. q + 1 \in 1 .. Len(File) /\ q + 1 \in 0 .. Len(File) /\ (q + 1) - 1 = q
  BY <1>2, <1>3
<1>5. AfterLine(pos) = EndOf[q + 1] /\ LineAt(pos) = q + 1
  BY <1>1, <1>4, NextLine
<1>6. EndOf[q + 1] \in Nat /\ EndOf[q] < EndOf[q + 1] /\ EndOf[q + 1] <= EndOf[e]
  <2>1. EndOf[q + 1] \in Nat /\ EndOf[q] < EndOf[q + 1]
    BY <1>4, <1>2, EndOfGrows
  <2>2. q + 1 < e => EndOf[q + 1] < EndOf[e]
    BY <1>4, EndOfGrows
  <2> QED BY <2>1, <2>2, <1>2, <1>3
<1>7. LinesBetween(x, pos) = [k \in 1 .. q - p |-> p + k]
        /\ LinesBetween(x, EndOf[q + 1]) = [k \in 1 .. (q + 1) - p |-> p + k]
  BY <1>1, <1>4, Between
<1>8. [k \in 1 .. (q + 1) - p |-> p + k] = Append([k \in 1 .. q - p |-> p + k], q + 1)
  <2>1. q - p \in Nat /\ (q + 1) - p = (q - p) + 1 /\ p + ((q - p) + 1) = q + 1
    BY <1>2, <1>3
  <2> DEFINE a == [k \in 1 .. q - p |-> p + k]
             b == [k \in 1 .. (q - p) + 1 |-> p + k]
  <2>2. a \in Seq(Nat) /\ Len(a) = q - p /\ b \in Seq(Nat) /\ Len(b) = (q - p) + 1
    BY <2>1, <1>2
  <2>3. \A k \in 1 .. Len(b) : b[k] = Append(a, q + 1)[k]
    BY <2>1, <2>2, <1>2
  <2> HIDE DEF a, b
  <2>4. Append(a, q + 1) \in Seq(Nat) /\ Len(Append(a, q + 1)) = Len(b)
    BY <2>1, <2>2, <1>2
  <2>5. b = Append(a, q + 1)
    BY <2>2, <2>3, <2>4, SeqEqual
  <2> QED BY <2>5, <2>1 DEF a, b
<1>9. AfterLine(pos) \in Ends
  BY <1>4, <1>5 DEF Ends
<1>10. pos <= AfterLine(pos) /\ AfterLine(pos) <= end
  BY <1>1, <1>2, <1>5, <1>6
<1>11. LineAt(pos) \in Nat
  BY <1>5, <1>2
<1>12. LinesBetween(x, AfterLine(pos)) = Append(LinesBetween(x, pos), LineAt(pos))
  BY <1>5, <1>7, <1>8
<1> QED BY <1>9, <1>10, <1>11, <1>12

\* ReaderLoop puts the pill after the last line.
LEMMA LoopKeeps ==
  ASSUME NEW s, SplitOK(s), s.at = "loop", s.pos >= s.end
  PROVE  SplitOK([s EXCEPT !.queue = Append(@, POISON_PILL), !.at = "done"])
<1> DEFINE t == [s EXCEPT !.queue = Append(@, POISON_PILL), !.at = "done"]
           lines == LinesBetween(s.start, s.pos)
<1>1. s \in Split /\ ~s.empty /\ s.pos <= s.end /\ s.read \o s.block \o s.queue = lines \o <<>>
  BY DEF SplitOK, Pill
<1>2. s.pos \in Nat /\ s.end \in Nat /\ lines \in Seq(Nat) /\ s.queue \in Seq(Nat)
        /\ s.read \o s.block \in Seq(Nat) /\ s.read \in Seq(Nat) /\ s.block \in Seq(Nat)
  BY <1>1, SplitType
<1> HIDE DEF lines
<1>3. /\ t \in Split /\ t.queue = Append(s.queue, POISON_PILL) /\ t.at = "done" /\ t.read = s.read
      /\ t.block = s.block /\ t.pos = s.pos /\ t.end = s.end /\ t.start = s.start /\ t.empty = s.empty
  <2>1. Append(s.queue, POISON_PILL) \in Seq(Nat)
    BY <1>2 DEF POISON_PILL
  <2>2. t \in Split
    BY <1>1, <2>1, SplitExcept
  <2> QED BY <1>1, <2>2 DEF Split
<1> HIDE DEF t
<1>4. s.read \o s.block \o Append(s.queue, POISON_PILL) = (s.read \o s.block \o s.queue) \o <<POISON_PILL>>
  <2>1. /\ Append(s.queue, POISON_PILL) = s.queue \o <<POISON_PILL>>
        /\ (s.read \o s.block \o s.queue) \o <<POISON_PILL>> = s.read \o s.block \o (s.queue \o <<POISON_PILL>>)
    BY <1>2, PillType, AppendLast
  <2> QED BY <2>1
<1>5. lines \o <<>> = lines
  BY <1>2
<1>6. s.pos = s.end
  BY <1>1, <1>2
<1>7. t.read \o t.block \o t.queue = LinesBetween(t.start, t.pos) \o Pill(t)
  BY <1>1, <1>3, <1>4, <1>5 DEF Pill, lines
<1> QED BY <1>1, <1>3, <1>6, <1>7 DEF t, SplitOK

\* fillQueue adds the next line of the file to the queue.
LEMMA FillKeeps ==
  ASSUME NEW s, SplitOK(s), s.at = "fill", s.pos < s.end
  PROVE  SplitOK([s EXCEPT !.queue = Append(@, LineAt(s.pos)), !.pos = AfterLine(@)])
<1> DEFINE t == [s EXCEPT !.queue = Append(@, LineAt(s.pos)), !.pos = AfterLine(@)]
           lines == LinesBetween(s.start, s.pos)
           n == LineAt(s.pos)
<1>1. s \in Split /\ ~s.empty /\ s.start <= s.pos /\ s.read \o s.block \o s.queue = lines \o <<>>
  BY DEF SplitOK, Pill
<1>2. s.pos \in Ends /\ s.end \in Ends /\ s.start \in Ends /\ lines \in Seq(Nat) /\ s.queue \in Seq(Nat)
        /\ s.read \o s.block \in Seq(Nat) /\ s.read \in Seq(Nat) /\ s.block \in Seq(Nat)
  BY <1>1, SplitType
<1>3. /\ AfterLine(s.pos) \in Ends /\ AfterLine(s.pos) <= s.end /\ s.pos <= AfterLine(s.pos) /\ n \in Nat
      /\ LinesBetween(s.start, AfterLine(s.pos)) = Append(lines, n)
  BY <1>1, <1>2, OneMoreLine
<1> HIDE DEF lines, n
<1>4. /\ t \in Split /\ t.queue = Append(s.queue, n) /\ t.at = "fill" /\ t.read = s.read
      /\ t.block = s.block /\ t.pos = AfterLine(s.pos) /\ t.end = s.end /\ t.start = s.start /\ t.empty = s.empty
  <2>1. Append(s.queue, n) \in Seq(Nat)
    BY <1>2, <1>3
  <2>2. t = [[s EXCEPT !.queue = Append(s.queue, n)] EXCEPT !.pos = AfterLine(s.pos)]
    BY <1>1 DEF Split, n
  <2>3. t \in Split
    BY <1>1, <1>3, <2>1, <2>2, SplitExcept
  <2> QED BY <1>1, <2>2, <2>3 DEF Split
<1> HIDE DEF t
<1>5. s.read \o s.block \o Append(s.queue, n) = (s.read \o s.block \o s.queue) \o <<n>>
  <2>1. /\ Append(s.queue, n) = s.queue \o <<n>>
        /\ (s.read \o s.block \o s.queue) \o <<n>> = s.read \o s.block \o (s.queue \o <<n>>)
    BY <1>2, <1>3, AppendLast
  <2> QED BY <2>1
<1>6. lines \o <<>> = lines /\ Append(lines, n) = lines \o <<n>> /\ Append(lines, n) \o <<>> = Append(lines, n)
  BY <1>2, <1>3
<1>7. t.read \o t.block \o t.queue = LinesBetween(t.start, t.pos) \o Pill(t)
  BY <1>1, <1>3, <1>4, <1>5, <1>6 DEF Pill
<1>8. t.start <= t.pos
  <2>1. s.start \in Nat /\ s.pos \in Nat /\ AfterLine(s.pos) \in Nat
    BY <1>2, <1>3, EndsType
  <2> QED BY <2>1, <1>1, <1>3, <1>4
<1> QED BY <1>1, <1>3, <1>4, <1>7, <1>8 DEF t, SplitOK

\* A pill at the head of the queue is all there is in it, and every line of the
\* split was taken.
LEMMA HeadIsPill ==
  ASSUME NEW s, SplitOK(s), s.queue # <<>>, Head(s.queue) = POISON_PILL
  PROVE  /\ s.queue = <<POISON_PILL>> /\ s.at = "done"
         /\ s.read \o s.block = LinesBetween(s.start, s.end)
<1> DEFINE lines == LinesBetween(s.start, s.pos)
           taken == s.read \o s.block
           all == taken \o s.queue
           k == Len(taken) + 1
<1>1. s \in Split /\ all = lines \o Pill(s) /\ (s.at = "done" => s.pos = s.end)
  BY DEF SplitOK
<1>2. /\ lines \in Seq(Nat) /\ \A j \in DOMAIN lines : lines[j] # POISON_PILL
      /\ taken \in Seq(Nat) /\ s.queue \in Seq(Nat) /\ Pill(s) \in Seq(Nat)
  BY <1>1, LinesType DEF Split, Pill, POISON_PILL
<1> HIDE DEF lines, taken
<1>3. /\ Len(all) = Len(taken) + Len(s.queue) /\ Len(s.queue) >= 1 /\ Len(taken) \in Nat /\ Len(s.queue) \in Nat
      /\ all[k] = POISON_PILL /\ k \in 1 .. Len(all)
  BY <1>2
<1>4. Len(all) = Len(lines) + Len(Pill(s)) /\ Len(lines) \in Nat
  BY <1>1, <1>2
<1>5. k > Len(lines)
  <2> SUFFICES ASSUME k <= Len(lines) PROVE FALSE
    BY <1>3, <1>4
  <2>1. k \in DOMAIN lines /\ (lines \o Pill(s))[k] = lines[k]
    BY <1>2, <1>3
  <2> QED BY <2>1, <1>1, <1>2, <1>3
<1>6. Pill(s) = <<POISON_PILL>> /\ s.at = "done"
  <2>1. Len(Pill(s)) # 0
    BY <1>3, <1>4, <1>5
  <2> QED BY <2>1 DEF Pill
<1>7. Len(taken) = Len(lines) /\ Len(s.queue) = 1
  <2>1. Len(Pill(s)) = 1
    BY <1>6
  <2>2. Len(taken) + Len(s.queue) = Len(lines) + 1
    BY <2>1, <1>3, <1>4
  <2>3. Len(taken) + 1 > Len(lines) /\ Len(s.queue) >= 1
    BY <1>3, <1>5
  <2>4. Len(taken) \in Nat /\ Len(s.queue) \in Nat /\ Len(lines) \in Nat
    BY <1>3, <1>4
  <2>5. \A a, b, c \in Nat : a + b = c + 1 /\ a + 1 > c /\ b >= 1 => a = c /\ b = 1
    OBVIOUS
  <2> QED BY <2>2, <2>3, <2>4, <2>5
<1>8. s.queue = <<POISON_PILL>>
  BY <1>2, <1>7
<1>9. taken = lines
  <2>1. \A j \in 1 .. Len(taken) : all[j] = taken[j] /\ (lines \o Pill(s))[j] = lines[j]
    BY <1>2, <1>7
  <2> QED BY <2>1, <1>1, <1>2, <1>7, SeqEqual
<1> QED BY <1>1, <1>6, <1>8, <1>9 DEF lines, taken

\* readBlock takes the pill.
LEMMA TakePillKeeps ==
  ASSUME NEW s, SplitOK(s), s.queue # <<>>, Head(s.queue) = POISON_PILL
  PROVE  SplitOK([s EXCEPT !.queue = Tail(@), !.empty = TRUE, !.read = @ \o s.block, !.block = <<>>])
<1> DEFINE t == [s EXCEPT !.queue = Tail(@), !.empty = TRUE, !.read = @ \o s.block, !.block = <<>>]
<1>1. s.queue = <<POISON_PILL>> /\ s.at = "done" /\ s.read \o s.block = LinesBetween(s.start, s.end)
  BY HeadIsPill
<1>2. s \in Split /\ s.pos = s.end /\ s.start <= s.pos /\ s.pos <= s.end
  BY <1>1 DEF SplitOK
<1>3. s.read \o s.block \in Seq(Nat) /\ Tail(s.queue) = <<>> /\ <<>> \in Seq(Nat)
  BY <1>1, <1>2, SplitType
<1>4. /\ t \in Split /\ t.queue = <<>> /\ t.at = "done" /\ t.read = s.read \o s.block
      /\ t.block = <<>> /\ t.pos = s.pos /\ t.end = s.end /\ t.start = s.start /\ t.empty = TRUE
  <2>1. t \in Split
    BY <1>2, <1>3, SplitExcept
  <2> QED BY <1>1, <1>2, <1>3, <2>1 DEF Split
<1> HIDE DEF t
<1>5. t.read \o t.block \o t.queue = LinesBetween(t.start, t.pos) \o Pill(t)
  <2>1. Pill(t) = <<>>
    BY <1>4 DEF Pill
  <2>2. (s.read \o s.block) \o <<>> = s.read \o s.block
    BY <1>3
  <2> QED BY <2>1, <2>2, <1>4, <1>1, <1>2
<1> QED BY <1>2, <1>4, <1>5 DEF t, SplitOK

\* readBlock takes a line.
LEMMA TakeLineKeeps ==
  ASSUME NEW s, SplitOK(s), s.queue # <<>>, ~s.empty
  PROVE  /\ SplitOK([s EXCEPT !.queue = Tail(@), !.read = @ \o Append(s.block, Head(s.queue)), !.block = <<>>])
         /\ SplitOK([s EXCEPT !.queue = Tail(@), !.block = Append(s.block, Head(s.queue))])
<1> DEFINE full == Append(s.block, Head(s.queue))
           t == [s EXCEPT !.queue = Tail(@), !.read = @ \o full, !.block = <<>>]
           u == [s EXCEPT !.queue = Tail(@), !.block = full]
<1>1. s \in Split /\ s.start <= s.pos /\ s.pos <= s.end /\ (s.at = "done" => s.pos = s.end)
        /\ s.read \o s.block \o s.queue = LinesBetween(s.start, s.pos) \o Pill(s)
  BY DEF SplitOK
<1>2. s.read \in Seq(Nat) /\ s.block \in Seq(Nat) /\ s.queue \in Seq(Nat)
  BY <1>1 DEF Split
<1>3. full \in Seq(Nat) /\ Tail(s.queue) \in Seq(Nat) /\ s.read \o full \in Seq(Nat) /\ <<>> \in Seq(Nat)
  BY <1>2
<1>4. s.read \o full \o Tail(s.queue) = s.read \o s.block \o s.queue
        /\ (s.read \o full) \o <<>> \o Tail(s.queue) = s.read \o s.block \o s.queue
  BY <1>2, MoveHead
<1> HIDE DEF full
<1>5. /\ t \in Split /\ t.queue = Tail(s.queue) /\ t.at = s.at /\ t.read = s.read \o full
      /\ t.block = <<>> /\ t.pos = s.pos /\ t.end = s.end /\ t.start = s.start /\ t.empty = s.empty
  BY <1>1, <1>3 DEF Split
<1>6. /\ u \in Split /\ u.queue = Tail(s.queue) /\ u.at = s.at /\ u.read = s.read
      /\ u.block = full /\ u.pos = s.pos /\ u.end = s.end /\ u.start = s.start /\ u.empty = s.empty
  BY <1>1, <1>3 DEF Split
<1> HIDE DEF t, u
<1>7. SplitOK(t)
  BY <1>1, <1>4, <1>5 DEF SplitOK, Pill
<1>8. SplitOK(u)
  BY <1>1, <1>4, <1>6 DEF SplitOK, Pill
<1> QED BY <1>7, <1>8 DEF t, u, full

----------------------------------------------------------------------------
(* The splits together. *)

\* The splits cover the file, in order.
SplitsInv ==
    /\ splits \in Seq(Split)
    /\ \A i \in DOMAIN splits : SplitOK(splits[i])
    /\ splits # <<>> => splits[1].start = 0 /\ splits[Len(splits)].end = FileLength
    /\ \A i \in 1 .. Len(splits) - 1 : splits[i].end = splits[i + 1].start
    /\ \A i, j \in DOMAIN splits : i < j => splits[i].end <= splits[j].start

\* A step of one split keeps the order of all of them.
LEMMA ReplaceSplit ==
  ASSUME SplitsInv, NEW i \in DOMAIN splits, NEW t, SplitOK(t),
         t.start = splits[i].start, t.end = splits[i].end,
         splits' = [splits EXCEPT ![i] = t]
  PROVE  SplitsInv'
<1>1. /\ splits' \in Seq(Split) /\ Len(splits') = Len(splits) /\ DOMAIN splits' = DOMAIN splits
      /\ splits # <<>> /\ splits' # <<>> /\ Len(splits) \in Nat \ {0} /\ DOMAIN splits = 1 .. Len(splits)
  BY DEF SplitsInv, SplitOK
<1>2. \A k \in DOMAIN splits : splits'[k] = IF k = i THEN t ELSE splits[k]
  BY <1>1
<1>3. \A k \in DOMAIN splits : splits'[k].start = splits[k].start /\ splits'[k].end = splits[k].end
  BY <1>2
<1>4. \A k \in DOMAIN splits' : SplitOK(splits'[k])
  BY <1>1, <1>2 DEF SplitsInv
<1>5. 1 \in DOMAIN splits /\ Len(splits) \in DOMAIN splits
        /\ \A k \in 1 .. Len(splits) - 1 : k \in DOMAIN splits /\ k + 1 \in DOMAIN splits
  BY <1>1
<1>6. splits'[1].start = 0 /\ splits'[Len(splits')].end = FileLength
  BY <1>1, <1>3, <1>5 DEF SplitsInv
<1>7. \A k \in 1 .. Len(splits') - 1 : splits'[k].end = splits'[k + 1].start
  BY <1>1, <1>3, <1>5 DEF SplitsInv
<1>8. \A k, j \in DOMAIN splits' : k < j => splits'[k].end <= splits'[j].start
  BY <1>1, <1>3 DEF SplitsInv
<1>9. SplitOK(t)' <=> SplitOK(t)
  OBVIOUS
<1> QED BY <1>1, <1>4, <1>6, <1>7, <1>8 DEF SplitsInv

\* Each split is well formed.
LEMMA SplitsSet ==
  ASSUME SplitsInv, NEW i \in DOMAIN splits
  PROVE  splits[i] \in Split /\ SplitOK(splits[i]) /\ splits \in [DOMAIN splits -> Split]
<1>1. splits \in Seq(Split) /\ SplitOK(splits[i])
  BY DEF SplitsInv
<1>2. splits \in [DOMAIN splits -> Split]
  BY <1>1
<1> QED BY <1>1, <1>2 DEF SplitOK

\* The steps of a reader keep the splits' invariant ...
LEMMA ReaderSteps ==
  ASSUME SplitsInv, NEW i \in DOMAIN splits, ReaderLoop(i) \/ fillQueue(i) \/ ReaderFails(i)
  PROVE  SplitsInv'
<1> DEFINE s == splits[i]
<1>0. s \in Split /\ SplitOK(s) /\ splits \in [DOMAIN splits -> Split]
  BY SplitsSet
<1>1. CASE /\ s.at = "loop" /\ s.pos >= s.end
           /\ splits' = [splits EXCEPT ![i].queue = Append(@, POISON_PILL), ![i].at = "done"]
  <2> DEFINE t == [s EXCEPT !.queue = Append(@, POISON_PILL), !.at = "done"]
  <2>1. splits' = [splits EXCEPT ![i] = t]
    BY <1>0, <1>1
  <2>2. SplitOK(t) /\ t.start = s.start /\ t.end = s.end
    BY <1>0, <1>1, LoopKeeps DEF Split
  <2> HIDE DEF t
  <2> QED BY <2>1, <2>2, ReplaceSplit
<1>2. CASE splits' = [splits EXCEPT ![i].at = "fill"] /\ s.at = "loop"
  <2> DEFINE t == [s EXCEPT !.at = "fill"]
  <2>1. splits' = [splits EXCEPT ![i] = t]
    BY <1>0, <1>2
  <2>2. SplitOK(t) /\ t.start = s.start /\ t.end = s.end
    BY <1>0, <1>2 DEF Split, SplitOK, Pill
  <2> HIDE DEF t
  <2> QED BY <2>1, <2>2, ReplaceSplit
<1>3. CASE /\ s.at = "fill" /\ s.pos < s.end
           /\ splits' = [splits EXCEPT ![i].queue = Append(@, LineAt(s.pos)), ![i].pos = AfterLine(@)]
  <2> DEFINE t == [s EXCEPT !.queue = Append(@, LineAt(s.pos)), !.pos = AfterLine(@)]
  <2>1. splits' = [splits EXCEPT ![i] = t]
    BY <1>0, <1>3
  <2>2. SplitOK(t) /\ t.start = s.start /\ t.end = s.end
    BY <1>0, <1>3, FillKeeps DEF Split
  <2> HIDE DEF t
  <2> QED BY <2>1, <2>2, ReplaceSplit
<1>4. CASE splits' = [splits EXCEPT ![i].at = "loop"] /\ s.at = "fill"
  <2> DEFINE t == [s EXCEPT !.at = "loop"]
  <2>1. splits' = [splits EXCEPT ![i] = t]
    BY <1>0, <1>4
  <2>2. SplitOK(t) /\ t.start = s.start /\ t.end = s.end
    BY <1>0, <1>4 DEF Split, SplitOK, Pill
  <2> HIDE DEF t
  <2> QED BY <2>1, <2>2, ReplaceSplit
<1>5. CASE splits' = [splits EXCEPT ![i].at = "failed"] /\ s.at \in {"loop", "fill"}
  <2> DEFINE t == [s EXCEPT !.at = "failed"]
  <2>1. splits' = [splits EXCEPT ![i] = t]
    BY <1>0, <1>5
  <2>2. SplitOK(t) /\ t.start = s.start /\ t.end = s.end
    BY <1>0, <1>5 DEF Split, SplitOK, Pill
  <2> HIDE DEF t
  <2> QED BY <2>1, <2>2, ReplaceSplit
<1> QED
  BY <1>1, <1>2, <1>3, <1>4, <1>5 DEF ReaderLoop, fillQueue, ReaderFails

\* ... so does taking a line ...
LEMMA TakeLineStep ==
  ASSUME SplitsInv, NEW i \in DOMAIN splits, TakeLine(i) PROVE SplitsInv'
<1> DEFINE s == splits[i]
<1>0. s \in Split /\ SplitOK(s) /\ splits \in [DOMAIN splits -> Split] /\ s.queue # <<>> /\ ~s.empty
  BY SplitsSet DEF TakeLine
<1>1. CASE /\ Head(s.queue) = POISON_PILL
           /\ splits' = [splits EXCEPT ![i].queue = Tail(@), ![i].empty = TRUE,
                                       ![i].read = @ \o s.block, ![i].block = <<>>]
  <2> DEFINE t == [s EXCEPT !.queue = Tail(@), !.empty = TRUE, !.read = @ \o s.block, !.block = <<>>]
  <2>1. splits' = [splits EXCEPT ![i] = t]
    BY <1>0, <1>1
  <2>2. SplitOK(t) /\ t.start = s.start /\ t.end = s.end
    BY <1>0, <1>1, TakePillKeeps DEF Split
  <2> HIDE DEF t
  <2> QED BY <2>1, <2>2, ReplaceSplit
<1>2. CASE splits' = [splits EXCEPT ![i].queue = Tail(@),
                                    ![i].read = @ \o Append(s.block, Head(s.queue)), ![i].block = <<>>]
  <2> DEFINE t == [s EXCEPT !.queue = Tail(@), !.read = @ \o Append(s.block, Head(s.queue)), !.block = <<>>]
  <2>1. splits' = [splits EXCEPT ![i] = t]
    BY <1>0, <1>2
  <2>2. SplitOK(t) /\ t.start = s.start /\ t.end = s.end
    BY <1>0, <1>2, TakeLineKeeps DEF Split
  <2> HIDE DEF t
  <2> QED BY <2>1, <2>2, ReplaceSplit
<1>3. CASE splits' = [splits EXCEPT ![i].queue = Tail(@), ![i].block = Append(s.block, Head(s.queue))]
  <2> DEFINE t == [s EXCEPT !.queue = Tail(@), !.block = Append(s.block, Head(s.queue))]
  <2>1. splits' = [splits EXCEPT ![i] = t]
    BY <1>0, <1>3
  <2>2. SplitOK(t) /\ t.start = s.start /\ t.end = s.end
    BY <1>0, <1>3, TakeLineKeeps DEF Split
  <2> HIDE DEF t
  <2> QED BY <2>1, <2>2, ReplaceSplit
<1> QED
  BY <1>1, <1>2, <1>3 DEF TakeLine

\* ... and initializeBuffer establishes it.
LEMMA StartSplits ==
  ASSUME NEW n \in Nat \ {0}, splits' = initializeBuffer(n) PROVE SplitsInv'
<1> DEFINE o == initializeOffsets(n)
           end(i) == IF i = n THEN FileLength ELSE o[i + 1]
<1>1. o \in [1 .. n -> Ends] /\ o[1] = 0 /\ \A i, j \in 1 .. n : i <= j => o[i] <= o[j]
  BY OffsetsInOrder
<1>2. splits' = [i \in 1 .. n |-> SplitQueue(o[i], end(i))]
  BY DEF initializeBuffer
<1> HIDE DEF o
<1>3. ASSUME NEW i \in 1 .. n PROVE end(i) \in Ends /\ o[i] \in Ends /\ o[i] <= end(i)
  <2>1. CASE i = n
    BY <2>1, <1>1, EndsType
  <2>2. CASE i # n
    <3>1. i + 1 \in 1 .. n /\ i <= i + 1
      BY <2>2
    <3> QED BY <3>1, <2>2, <1>1
  <2> QED BY <2>1, <2>2
<1>4. ASSUME NEW x \in Ends, NEW y \in Ends, x <= y
      PROVE  SplitOK(SplitQueue(x, y)) /\ SplitQueue(x, y).start = x /\ SplitQueue(x, y).end = y
  <2> DEFINE q == SplitQueue(x, y)
  <2>1. q \in Split /\ q.start = x /\ q.end = y /\ q.pos = x /\ q.at = "loop" /\ q.empty = FALSE
          /\ q.queue = <<>> /\ q.block = <<>> /\ q.read = <<>>
    BY DEF SplitQueue, Split
  <2>2. x <= x
    BY EndsType
  <2>3. LinesBetween(x, x) = <<>>
    BY LinesType
  <2>4. Pill(q) = <<>> /\ <<>> \o <<>> \o <<>> = <<>> \o <<>>
    BY <2>1 DEF Pill
  <2> HIDE DEF q
  <2>5. SplitOK(q)
    BY <2>1, <2>2, <2>3, <2>4, <1>4 DEF SplitOK
  <2> QED BY <2>1, <2>5 DEF q
<1>5. \A i \in 1 .. n : SplitOK(splits'[i]) /\ splits'[i].start = o[i] /\ splits'[i].end = end(i)
  BY <1>2, <1>3, <1>4
<1>6. splits' \in Seq(Split) /\ Len(splits') = n /\ DOMAIN splits' = 1 .. n
  <2>1. \A i \in 1 .. n : splits'[i] \in Split
    BY <1>5 DEF SplitOK
  <2> QED BY <2>1, <1>2
<1>7. splits'[1].start = 0 /\ splits'[n].end = FileLength /\ 1 \in 1 .. n /\ n \in 1 .. n
  BY <1>1, <1>5
<1>8. \A i \in 1 .. n - 1 : splits'[i].end = splits'[i + 1].start
  <2> SUFFICES ASSUME NEW i \in 1 .. n - 1 PROVE splits'[i].end = splits'[i + 1].start
    OBVIOUS
  <2>1. i \in 1 .. n /\ i + 1 \in 1 .. n /\ i # n
    OBVIOUS
  <2> QED BY <2>1, <1>5
<1>9. ASSUME NEW i \in 1 .. n, NEW j \in 1 .. n, i < j PROVE splits'[i].end <= splits'[j].start
  <2>1. i + 1 \in 1 .. n /\ i + 1 <= j /\ i # n
    BY <1>9
  <2>2. end(i) = o[i + 1] /\ o[i + 1] <= o[j]
    BY <2>1, <1>1
  <2> QED BY <2>2, <1>5
<1> QED BY <1>5, <1>6, <1>7, <1>8, <1>9 DEF SplitsInv

\* The splits' invariant implies LinesOnce.
LEMMA LinesOnceFollows == ASSUME SplitsInv PROVE LinesOnce
<1> DEFINE Lines(i) == Range(LinesBetween(splits[i].start, splits[i].end))
<1>1. ASSUME NEW i \in DOMAIN splits
      PROVE  Lines(i) = {n \in DOMAIN File : splits[i].start <= EndOf[n - 1] /\ EndOf[n - 1] < splits[i].end}
  <2> DEFINE s == splits[i]
  <2>1. s \in Split
    BY SplitsSet
  <2>2. PICK p \in 0 .. Len(File), q \in 0 .. Len(File) : s.start = EndOf[p] /\ s.end = EndOf[q]
    BY <2>1 DEF Split, Ends
  <2>3. LinesBetween(s.start, s.end) = [k \in 1 .. q - p |-> p + k]
    BY <2>2, Between
  <2>4. p \in Nat /\ q \in Nat /\ Len(File) \in Nat
    BY LenFile
  <2>5. Lines(i) = {p + k : k \in 1 .. q - p}
    BY <2>3 DEF Range
  <2>6. {p + k : k \in 1 .. q - p} = {n \in 1 .. Len(File) : p <= n - 1 /\ n - 1 < q}
    <3>1. \A k \in 1 .. q - p : p + k \in 1 .. Len(File) /\ p <= (p + k) - 1 /\ (p + k) - 1 < q
      BY <2>4
    <3>2. \A n \in 1 .. Len(File) : p <= n - 1 /\ n - 1 < q => n - p \in 1 .. q - p /\ n = p + (n - p)
      BY <2>4
    <3> QED BY <3>1, <3>2
  <2>7. ASSUME NEW n \in 1 .. Len(File)
        PROVE  (p <= n - 1 <=> EndOf[p] <= EndOf[n - 1]) /\ (n - 1 < q <=> EndOf[n - 1] < EndOf[q])
    <3>1. n - 1 \in 0 .. Len(File) /\ n - 1 \in Nat
      BY <2>4
    <3>2. EndOf[n - 1] \in Nat /\ EndOf[p] \in Nat /\ EndOf[q] \in Nat
      BY <3>1, EndOfGrows
    <3>3. (p < n - 1 => EndOf[p] < EndOf[n - 1]) /\ (n - 1 < p => EndOf[n - 1] < EndOf[p])
            /\ (n - 1 < q => EndOf[n - 1] < EndOf[q]) /\ (q < n - 1 => EndOf[q] < EndOf[n - 1])
      BY <3>1, EndOfGrows
    <3> QED BY <3>1, <3>2, <3>3, <2>4
  <2> QED BY <2>2, <2>5, <2>6, <2>7, FileType
<1>2. ASSUME splits # <<>> PROVE UNION {Lines(i) : i \in DOMAIN splits} = DOMAIN File
  <2>1. /\ splits[1].start = 0 /\ splits[Len(splits)].end = FileLength /\ DOMAIN splits = 1 .. Len(splits)
        /\ Len(splits) \in Nat \ {0}
        /\ \A i \in 1 .. Len(splits) - 1 : splits[i].end = splits[i + 1].start
    BY <1>2 DEF SplitsInv
  <2>2. ASSUME NEW n \in DOMAIN File PROVE \E i \in DOMAIN splits : n \in Lines(i)
    <3> DEFINE x == EndOf[n - 1]
               T == {i \in DOMAIN splits : x < splits[i].end}
    <3>1. n - 1 \in 0 .. Len(File) /\ n - 1 < Len(File) /\ Len(File) \in 0 .. Len(File)
      BY FileType
    <3>2. x \in Nat /\ x < FileLength
      BY <3>1, EndOfGrows DEF FileLength
    <3> HIDE DEF x
    <3>3. Len(splits) \in T /\ T \subseteq Nat
      BY <3>2, <2>1
    <3>4. PICK i \in T : \A j \in T : i <= j
      BY <3>3, LeastElement
    <3>5. splits[i].start <= x
      <4>1. CASE i = 1
        BY <4>1, <2>1, <3>2
      <4>2. CASE i # 1
        <5>1. i - 1 \in 1 .. Len(splits) - 1 /\ i - 1 \in DOMAIN splits /\ (i - 1) + 1 = i
          BY <4>2, <2>1
        <5>2. i - 1 \notin T
          BY <3>4, <5>1, <2>1
        <5>3. splits[i - 1].end = splits[i].start /\ splits[i - 1].end \in Nat
          <6>1. splits[i - 1] \in Split
            BY <5>1, SplitsSet
          <6> QED BY <6>1, <5>1, <2>1, SplitType
        <5> QED BY <5>1, <5>2, <5>3, <3>2
      <4> QED BY <4>1, <4>2
    <3> HIDE DEF Lines
    <3> QED BY <3>4, <3>5, <1>1 DEF x
  <2>3. \A i \in DOMAIN splits : Lines(i) \subseteq DOMAIN File
    BY <1>1
  <2> HIDE DEF Lines
  <2> QED BY <2>2, <2>3
<1>3. ASSUME NEW i \in DOMAIN splits, NEW j \in DOMAIN splits, i < j, NEW m \in Lines(i), NEW n \in Lines(j)
      PROVE  m < n
  <2>1. m \in DOMAIN File /\ EndOf[m - 1] < splits[i].end /\ n \in DOMAIN File /\ splits[j].start <= EndOf[n - 1]
    <3> HIDE DEF Lines
    <3> QED BY <1>1, <1>3
  <2>2. splits[i].end <= splits[j].start
    BY <1>3 DEF SplitsInv
  <2>3. splits[i].end \in Nat /\ splits[j].start \in Nat
    BY SplitsSet, SplitType
  <2>4. m - 1 \in 0 .. Len(File) /\ n - 1 \in 0 .. Len(File) /\ m \in Nat /\ n \in Nat
    BY <2>1, FileType
  <2>5. EndOf[m - 1] \in Nat /\ EndOf[n - 1] \in Nat /\ (n - 1 < m - 1 => EndOf[n - 1] < EndOf[m - 1])
    BY <2>4, EndOfGrows
  <2>6. EndOf[m - 1] < EndOf[n - 1]
    BY <2>1, <2>2, <2>3, <2>5
  <2> QED BY <2>4, <2>5, <2>6
<1>4. ASSUME NEW i \in DOMAIN splits
      PROVE  LET s == splits[i]
                 pill == IF s.at = "done" /\ ~s.empty THEN <<POISON_PILL>> ELSE <<>>
             IN  /\ s.read \o s.block \o s.queue = LinesBetween(s.start, s.pos) \o pill
                 /\ s.empty => s.read = LinesBetween(s.start, s.end)
  <2> DEFINE s == splits[i]
  <2>1. SplitOK(s) /\ s \in Split
    BY SplitsSet
  <2>2. s.read \o s.block \o s.queue = LinesBetween(s.start, s.pos) \o Pill(s)
    BY <2>1 DEF SplitOK
  <2>3. ASSUME s.empty PROVE s.read = LinesBetween(s.start, s.end)
    <3>1. s.block = <<>> /\ s.queue = <<>> /\ s.pos = s.end /\ Pill(s) = <<>>
      BY <2>1, <2>3 DEF SplitOK, Pill
    <3>2. s.read \in Seq(Nat) /\ LinesBetween(s.start, s.pos) \in Seq(Nat)
      BY <2>1, SplitType
    <3>3. s.read \o <<>> \o <<>> = s.read /\ LinesBetween(s.start, s.pos) \o <<>> = LinesBetween(s.start, s.pos)
      BY <3>2
    <3> QED BY <2>2, <3>1, <3>3
  <2> QED BY <2>2, <2>3 DEF Pill
<1> QED BY <1>2, <1>3, <1>4 DEF LinesOnce

----------------------------------------------------------------------------
(* The invariant of the framework. *)

\* The types of the values.
NodeInfo == [client : Client, no : Nat]
Task == [kind : {"map", "reduce"}, job : Nat, no : Nat, reduce : Nat \ {0}, part : Nat,
         mappers : SUBSET NodeInfo]
Job  == [no : Nat, reduce : Nat]
Line == {"CLIENT_NUMBER_ACCEPTED", "Task_Finished", "Invalid Task configuration provided"}
Key  == Nat \X Nat \X Nat
Ats  == {"idle", "open", "read", "mapped", "store", "fetch"}
ClientRec == [st : {"off", "asked", "joined", "gone"}, id : Nat \cup {None}, at : Ats,
              task : Task \cup {None}, split : Nat \cup {None}, rest : Seq(Nat),
              store : SUBSET [key : Key, line : Nat], fetched : SUBSET NodeInfo,
              input : SUBSET (NodeInfo \X Nat), clean : BOOLEAN]
LinkRec == [to : Seq(Task), from : Seq(Line)]
ServRec == [at : {"none", "send", "wait", "done"}, task : Task \cup {None}, line : Line \cup {None}]

\* The types of the variables.
ClientsOK == cl \in [Client -> ClientRec] /\ \A c \in Client : cl[c].at # "idle" => cl[c].task \in Task
LinksOK   == link \in [Client -> LinkRec]
ServsOK   == serv \in [Client -> ServRec] /\ \A c \in Client : serv[c].at # "none" => serv[c].task \in Task
NodesOK   == nodes \in Seq((Nat \cup {None}) \X Client)
ListenOK  == listener \in [with : Client \cup {None}, next : Nat]
SchedOK   == /\ sched \in [at : {"wait", "map", "split", "mapping", "reducing", "dead"},
                           job : Job \cup {None}, reduce : Nat, mappers : SUBSET NodeInfo]
             /\ sched.at # "wait" => sched.job \in Job /\ sched.reduce # 0
JobsOK    == jobs \in [queue : Seq(Job), accepted : Seq(Job), finished : Seq(Job), lost : Seq(Job)]
ResultsOK == results \subseteq [job : Nat, part : Nat, groups : SUBSET SUBSET (NodeInfo \X Nat),
                                clean : BOOLEAN]
TypeOK ==
    /\ SplitsInv /\ ClientsOK /\ LinksOK /\ ServsOK /\ NodesOK /\ ListenOK /\ SchedOK
    /\ JobsOK /\ splitIndex \in Nat /\ faults \in Nat /\ ResultsOK

\* c is a node; c has no task before its answer.
IsNode(c) == \E k \in DOMAIN nodes : nodes[k][2] = c
Quiet(c)  == cl[c].at \in {"idle", "store"}

\* A client before it is a node ...
Joining(c) ==
    /\ cl[c].st \in {"off", "asked"} => ~IsNode(c) /\ link[c].to = <<>> /\ link[c].from = <<>> /\ cl[c].at = "idle"
    /\ cl[c].st = "asked" => listener.with = c
    /\ listener.with = c => ~IsNode(c) /\ cl[c].st # "off"
    /\ cl[c].st = "joined" /\ ~IsNode(c) =>
         /\ listener.with = c /\ cl[c].at = "idle"
         /\ link[c].to = <<>> /\ link[c].from = <<"CLIENT_NUMBER_ACCEPTED">>
    /\ serv[c].at # "none" => IsNode(c)

\* ... and as a node.
NoTask(c)   == link[c].to = <<>> /\ link[c].from = <<>> /\ Quiet(c)
Sent(c)     == link[c].to = <<serv[c].task>> /\ link[c].from = <<>> /\ Quiet(c) /\ serv[c].at = "wait"
Working(c)  == /\ link[c].to = <<>> /\ link[c].from = <<>> /\ ~Quiet(c)
               /\ serv[c].at = "wait" /\ cl[c].task = serv[c].task
Answered(c) == /\ link[c].to = <<>> /\ Quiet(c) /\ serv[c].at = "wait" /\ cl[c].task = serv[c].task
               /\ link[c].from \in {<<"Task_Finished">>, <<"Invalid Task configuration provided">>}
Serving(c)  == cl[c].st = "joined" /\ IsNode(c) => NoTask(c) \/ Sent(c) \/ Working(c) \/ Answered(c)

\* Every client is in its turn, and there are servlets in a phase only.
Turns == \A c \in Client : Joining(c) /\ Serving(c)
NoServlets == sched.at \in {"wait", "map", "split", "dead"} => \A c \in Client : serv[c].at = "none"

\* The turns of a client imply AnswersMatch.
LEMMA AnswersMatchFollows == ASSUME TypeOK, Turns PROVE AnswersMatch
<1> SUFFICES ASSUME NEW c \in Client, cl[c].st = "joined"
    PROVE LET working  == cl[c].at \notin {"idle", "store"}
              answers  == {k \in DOMAIN link[c].from : link[c].from[k] = "Task_Finished"}
              pending  == Len(link[c].to) + Cardinality(answers) + (IF working THEN 1 ELSE 0)
          IN  /\ pending <= 1
              /\ pending = 1 => serv[c].at = "wait"
              /\ link[c].to # <<>> => Head(link[c].to) = serv[c].task
              /\ working \/ answers # {} => cl[c].task = serv[c].task
  BY DEF AnswersMatch
<1> DEFINE answers == {k \in DOMAIN link[c].from : link[c].from[k] = "Task_Finished"}
<1>0. Cardinality({}) = 0 /\ Cardinality({1}) = 1
  BY FS_EmptySet, FS_Singleton
<1>1. CASE ~IsNode(c)
  <2>1. cl[c].at = "idle" /\ link[c].to = <<>> /\ link[c].from = <<"CLIENT_NUMBER_ACCEPTED">>
    BY <1>1 DEF Turns, Joining
  <2>2. answers = {}
    BY <2>1
  <2>3. cl[c].at \in {"idle", "store"} /\ Len(link[c].to) = 0 /\ link[c].to = <<>>
    BY <2>1
  <2>4. Cardinality(answers) = 0
    BY <2>2, <1>0
  <2> HIDE DEF answers
  <2> QED BY <2>2, <2>3, <2>4 DEF answers
<1>2. CASE NoTask(c)
  <2>1. answers = {}
    BY <1>2 DEF NoTask
  <2> QED BY <2>1, <1>2, <1>0 DEF NoTask, Quiet
<1>3. CASE Sent(c)
  <2>1. answers = {}
    BY <1>3 DEF Sent
  <2> QED BY <2>1, <1>3, <1>0 DEF Sent, Quiet
<1>4. CASE Working(c)
  <2>1. answers = {}
    BY <1>4 DEF Working
  <2> QED BY <2>1, <1>4, <1>0 DEF Working, Quiet
<1>5. CASE Answered(c)
  <2>0. PICK m : link[c].from = <<m>>
    BY <1>5 DEF Answered
  <2>1. answers = {} \/ answers = {1}
    BY <2>0
  <2>2. Cardinality(answers) \in {0, 1}
    BY <2>1, <1>0
  <2>3. Len(link[c].to) = 0 /\ link[c].to = <<>> /\ cl[c].at \in {"idle", "store"}
          /\ serv[c].at = "wait" /\ cl[c].task = serv[c].task
    BY <1>5 DEF Answered, Quiet
  <2> HIDE DEF answers
  <2> QED BY <2>2, <2>3 DEF answers
<1> QED BY <1>1, <1>2, <1>3, <1>4, <1>5 DEF Turns, Serving

----------------------------------------------------------------------------
(* Steps that leave clients alone. *)

\* A client that a step does not touch keeps its place in its turn.
LEMMA Untouched ==
  ASSUME NEW c \in Client, Joining(c), Serving(c),
         cl'[c] = cl[c], link'[c] = link[c], serv'[c] = serv[c],
         UNCHANGED <<nodes, listener>>
  PROVE  Joining(c)' /\ Serving(c)'
<1>1. IsNode(c)' <=> IsNode(c)
  BY DEF IsNode
<1>2. Joining(c)'
  BY <1>1 DEF Joining
<1>3. NoTask(c)' <=> NoTask(c)
  BY DEF NoTask, Quiet
<1>4. (Sent(c)' <=> Sent(c)) /\ (Working(c)' <=> Working(c)) /\ (Answered(c)' <=> Answered(c))
  BY DEF Sent, Working, Answered, Quiet
<1> QED BY <1>1, <1>2, <1>3, <1>4 DEF Serving

\* The inductive invariant; what MapFinish needs, Reading, is kept apart.
IInv == TypeOK /\ Turns /\ NoServlets

----------------------------------------------------------------------------
(* One step at a time. *)

\* One field of a client at a time.
LEMMA ClientExcept ==
  ASSUME NEW r \in ClientRec
  PROVE  /\ \A x \in {"off", "asked", "joined", "gone"} : [r EXCEPT !.st = x] \in ClientRec
         /\ \A x \in Nat \cup {None} : [r EXCEPT !.id = x] \in ClientRec
         /\ \A x \in Ats : [r EXCEPT !.at = x] \in ClientRec
         /\ \A x \in Task : [r EXCEPT !.task = x] \in ClientRec
         /\ \A x \in Nat : [r EXCEPT !.split = x] \in ClientRec
         /\ \A x \in Seq(Nat) : [r EXCEPT !.rest = x] \in ClientRec
         /\ \A x \in SUBSET [key : Key, line : Nat] : [r EXCEPT !.store = x] \in ClientRec
         /\ \A x \in SUBSET NodeInfo : [r EXCEPT !.fetched = x] \in ClientRec
         /\ \A x \in SUBSET (NodeInfo \X Nat) : [r EXCEPT !.input = x] \in ClientRec
         /\ \A x \in BOOLEAN : [r EXCEPT !.clean = x] \in ClientRec
BY ZenonT(40) DEF ClientRec

\* A step that changes one client ...
LEMMA OneClient ==
  ASSUME ClientsOK, NEW c \in Client, NEW r \in ClientRec, r.at # "idle" => r.task \in Task,
         cl' = [cl EXCEPT ![c] = r]
  PROVE  ClientsOK' /\ cl'[c] = r /\ \A d \in Client \ {c} : cl'[d] = cl[d]
BY DEF ClientsOK

\* ... one socket ...
LEMMA OneLink ==
  ASSUME LinksOK, NEW c \in Client, NEW l \in LinkRec, link' = [link EXCEPT ![c] = l]
  PROVE  LinksOK' /\ link'[c] = l /\ \A d \in Client \ {c} : link'[d] = link[d]
BY DEF LinksOK

\* ... or one servlet.
LEMMA OneServ ==
  ASSUME ServsOK, NEW c \in Client, NEW v \in ServRec, v.at # "none" => v.task \in Task,
         serv' = [serv EXCEPT ![c] = v]
  PROVE  ServsOK' /\ serv'[c] = v /\ \A d \in Client \ {c} : serv'[d] = serv[d]
BY DEF ServsOK

\* A reply of a client.
LEMMA Replied ==
  ASSUME LinksOK, NEW c \in Client, NEW line \in Line, Reply(c, line)
  PROVE  /\ LinksOK' /\ link'[c].to = link[c].to /\ link'[c].from = Append(link[c].from, line)
         /\ \A d \in Client \ {c} : link'[d] = link[d]
<1> DEFINE l == [link[c] EXCEPT !.from = Append(@, line)]
<1>1. link[c] \in LinkRec /\ link[c].from \in Seq(Line)
  BY DEF LinksOK, LinkRec
<1>2. l \in LinkRec /\ l.to = link[c].to /\ l.from = Append(link[c].from, line)
  <2>1. Append(link[c].from, line) \in Seq(Line)
    BY <1>1
  <2> QED BY <1>1, <2>1 DEF LinkRec
<1>3. link' = [link EXCEPT ![c] = l]
  BY DEF Reply, LinksOK
<1> HIDE DEF l
<1> QED BY <1>2, <1>3, OneLink

\* A step of client c alone.
LEMMA Alone ==
  ASSUME Turns, NEW c \in Client, UNCHANGED <<nodes, listener>>,
         \A d \in Client \ {c} : cl'[d] = cl[d] /\ link'[d] = link[d] /\ serv'[d] = serv[d],
         Joining(c)', Serving(c)'
  PROVE  Turns'
<1> SUFFICES ASSUME NEW d \in Client PROVE Joining(d)' /\ Serving(d)'
  BY DEF Turns
<1>1. CASE d = c
  BY <1>1
<1>2. CASE d # c
  BY <1>2, Untouched DEF Turns
<1> QED BY <1>1, <1>2

\* The servlets stay as they are.
LEMMA SameServs == ASSUME NoServlets, UNCHANGED <<sched, serv>> PROVE NoServlets'
BY DEF NoServlets

\* What IsNode, Quiet and the cases of Serving become.
LEMMA SameNodes == ASSUME UNCHANGED nodes, NEW c PROVE IsNode(c)' <=> IsNode(c)
BY DEF IsNode

\* Accept keeps the invariant: the listener talks to nobody else.
LEMMA AcceptStep == ASSUME IInv, NEW c \in Client, Accept(c) PROVE IInv'
<1> DEFINE r == [[cl[c] EXCEPT !.st = "asked"] EXCEPT !.id = listener.next]
<1>0. /\ cl \in [Client -> ClientRec] /\ cl[c] \in ClientRec /\ cl[c].st = "off" /\ listener.with = None
      /\ listener.next \in Nat /\ listener' = [generateNodeId EXCEPT !.with = c] /\ None \notin Client
      /\ UNCHANGED <<splits, link, serv, nodes, sched, jobs, splitIndex, faults, results>>
      /\ listener \in [with : Client \cup {None}, next : Nat]
  BY MRLiteAssumption DEF IInv, TypeOK, ClientsOK, ListenOK, Accept
<1>1. r \in ClientRec /\ r.st = "asked" /\ r.at = cl[c].at /\ r.task = cl[c].task /\ cl' = [cl EXCEPT ![c] = r]
  <2>1. r \in ClientRec
    BY <1>0, ClientExcept
  <2>2. cl' = [cl EXCEPT ![c] = r]
    BY <1>0 DEF Accept
  <2> QED BY <1>0, <2>1, <2>2 DEF ClientRec
<1> HIDE DEF r
<1>2. ClientsOK' /\ cl'[c] = r /\ \A d \in Client \ {c} : cl'[d] = cl[d]
  BY <1>0, <1>1, OneClient DEF IInv, TypeOK, ClientsOK
<1>3. listener'.with = c /\ ListenOK'
  <2>1. listener.next + 1 \in Nat
    BY <1>0
  <2>2. listener' = [[listener EXCEPT !.next = listener.next + 1] EXCEPT !.with = c]
    BY <1>0 DEF generateNodeId
  <2> QED BY <1>0, <2>1, <2>2 DEF ListenOK
<1>4. TypeOK'
  BY <1>0, <1>2, <1>3 DEF IInv, TypeOK, SplitsInv, LinksOK, ServsOK, NodesOK, SchedOK, JobsOK, ResultsOK
<1>5. Joining(c)' /\ Serving(c)'
  <2>1. IsNode(c)' <=> IsNode(c)
    BY <1>0, SameNodes
  <2> QED BY <1>0, <1>1, <1>2, <1>3, <2>1 DEF IInv, Turns, Joining, Serving
<1>6. ASSUME NEW d \in Client \ {c} PROVE Joining(d)' /\ Serving(d)'
  <2>1. IsNode(d)' <=> IsNode(d)
    BY <1>0, SameNodes
  <2>2. Joining(d)'
    BY <1>0, <1>2, <1>3, <2>1 DEF IInv, Turns, Joining
  <2>3. Serving(d)'
    BY <1>0, <1>2, <2>1 DEF IInv, Turns, Serving, NoTask, Sent, Working, Answered, Quiet
  <2> QED BY <2>2, <2>3
<1> QED
  BY <1>0, <1>4, <1>5, <1>6, SameServs DEF IInv, Turns

\* AcceptNumber keeps the invariant: the acknowledgement is the only line.
LEMMA AcceptNumberStep == ASSUME IInv, NEW c \in Client, AcceptNumber(c) PROVE IInv'
<1> DEFINE r == [cl[c] EXCEPT !.st = "joined"]
<1>0. /\ cl \in [Client -> ClientRec] /\ cl[c] \in ClientRec /\ cl[c].st = "asked" /\ cl' = [cl EXCEPT ![c] = r]
      /\ Reply(c, "CLIENT_NUMBER_ACCEPTED")
      /\ UNCHANGED <<splits, serv, nodes, listener, sched, jobs, splitIndex, faults, results>>
  BY DEF IInv, TypeOK, ClientsOK, AcceptNumber, master
<1>1. r \in ClientRec /\ r.st = "joined" /\ r.at = cl[c].at /\ r.task = cl[c].task
  <2>1. r \in ClientRec
    BY <1>0, ClientExcept
  <2> QED BY <1>0, <2>1 DEF ClientRec
<1> HIDE DEF r
<1>2. ClientsOK' /\ cl'[c] = r /\ \A d \in Client \ {c} : cl'[d] = cl[d]
  BY <1>0, <1>1, OneClient DEF IInv, TypeOK, ClientsOK
<1>3. /\ LinksOK' /\ link'[c].to = link[c].to /\ link'[c].from = Append(link[c].from, "CLIENT_NUMBER_ACCEPTED")
      /\ \A d \in Client \ {c} : link'[d] = link[d]
  BY <1>0, Replied DEF IInv, TypeOK, Line
<1>4. TypeOK'
  BY <1>0, <1>2, <1>3 DEF IInv, TypeOK, SplitsInv, ListenOK, ServsOK, NodesOK, SchedOK, JobsOK, ResultsOK
<1>5. Joining(c)' /\ Serving(c)'
  <2>1. IsNode(c)' <=> IsNode(c)
    BY <1>0, SameNodes
  <2>2. link[c].to = <<>> /\ link[c].from = <<>> /\ ~IsNode(c) /\ listener.with = c /\ cl[c].at = "idle"
          /\ serv[c].at = "none"
    BY <1>0 DEF IInv, Turns, Joining
  <2>3. link'[c].from = <<"CLIENT_NUMBER_ACCEPTED">>
    BY <1>3, <2>2
  <2> QED BY <1>0, <1>1, <1>2, <1>3, <2>1, <2>2, <2>3 DEF Joining, Serving
<1>6. Turns'
  BY <1>0, <1>2, <1>3, <1>5, Alone DEF IInv
<1> QED
  BY <1>0, <1>4, <1>6, SameServs DEF IInv

\* saveClientNodeDetails keeps the invariant: it takes the acknowledgement off
\* the socket, so that no servlet reads it.
LEMMA saveStep == ASSUME IInv, saveClientNodeDetails PROVE IInv'
<1>c. PICK c \in Client : c = listener.with
  BY DEF IInv, TypeOK, ListenOK, saveClientNodeDetails
<1>0. /\ c = listener.with /\ listener \in [with : Client \cup {None}, next : Nat]
      /\ listener' = [listener EXCEPT !.with = None] /\ None \notin Client
      /\ UNCHANGED <<splits, cl, serv, sched, jobs, splitIndex, faults, results>>
      /\ link \in [Client -> LinkRec] /\ link[c] \in LinkRec /\ cl[c] \in ClientRec
      /\ nodes \in Seq((Nat \cup {None}) \X Client)
  BY <1>c, MRLiteAssumption DEF IInv, TypeOK, ClientsOK, LinksOK, ListenOK, NodesOK, saveClientNodeDetails
<1>1. listener'.with = None /\ ListenOK'
  BY <1>0 DEF ListenOK
<1>2. CASE link[c].from # <<>> /\ link' = [link EXCEPT ![c].from = Tail(@)] /\ nodes' = addNewClientNode(c)
  <2> DEFINE l == [link[c] EXCEPT !.from = Tail(@)]
  <2>1. l \in LinkRec /\ l.to = link[c].to /\ l.from = Tail(link[c].from) /\ link' = [link EXCEPT ![c] = l]
    <3>1. Tail(link[c].from) \in Seq(Line)
      BY <1>0, <1>2 DEF LinkRec
    <3> QED BY <1>0, <1>2, <3>1 DEF LinkRec
  <2> HIDE DEF l
  <2>2. LinksOK' /\ link'[c] = l /\ \A d \in Client \ {c} : link'[d] = link[d]
    BY <1>0, <2>1, OneLink DEF IInv, TypeOK
  <2>3. nodes' = Append(nodes, <<cl[c].id, c>>) /\ <<cl[c].id, c>> \in (Nat \cup {None}) \X Client
    BY <1>0, <1>2 DEF addNewClientNode, ClientRec
  <2>4. NodesOK' /\ \A d \in Client : IsNode(d)' <=> IsNode(d) \/ d = c
    <3>1. NodesOK' /\ Len(nodes') = Len(nodes) + 1 /\ Len(nodes) \in Nat
            /\ nodes'[Len(nodes) + 1] = <<cl[c].id, c>> /\ \A k \in 1 .. Len(nodes) : nodes'[k] = nodes[k]
            /\ DOMAIN nodes = 1 .. Len(nodes) /\ DOMAIN nodes' = 1 .. Len(nodes) + 1
      BY <1>0, <2>3 DEF NodesOK
    <3>2. ASSUME NEW d \in Client, IsNode(d) PROVE IsNode(d)'
      BY <3>1, <3>2 DEF IsNode
    <3>3. IsNode(c)'
      <4>1. Len(nodes) + 1 \in DOMAIN nodes' /\ nodes'[Len(nodes) + 1][2] = c
        BY <3>1
      <4> QED BY <4>1 DEF IsNode
    <3>4. ASSUME NEW d \in Client, IsNode(d)', d # c PROVE IsNode(d)
      <4>1. PICK k \in DOMAIN nodes' : nodes'[k][2] = d
        BY <3>4 DEF IsNode
      <4>2. k # Len(nodes) + 1
        BY <4>1, <3>1, <3>4
      <4>3. k \in 1 .. Len(nodes)
        BY <4>1, <4>2, <3>1
      <4> QED BY <4>1, <4>3, <3>1 DEF IsNode
    <3> QED BY <3>1, <3>2, <3>3, <3>4
  <2>5. TypeOK'
    BY <1>0, <1>1, <2>2, <2>4 DEF IInv, TypeOK, SplitsInv, ClientsOK, ServsOK, SchedOK, JobsOK, ResultsOK
  <2>6. Joining(c)' /\ Serving(c)'
    <3>1. ~IsNode(c) /\ cl[c].st \notin {"off", "asked"}
      BY <1>0, <1>2 DEF IInv, Turns, Joining
    <3>2. Joining(c)'
      BY <1>0, <1>1, <2>4, <3>1 DEF Joining
    <3>3. ASSUME cl[c].st = "joined" PROVE NoTask(c)'
      <4>1. cl[c].at = "idle" /\ link[c].to = <<>> /\ link[c].from = <<"CLIENT_NUMBER_ACCEPTED">>
        BY <3>1, <3>3, <1>0 DEF IInv, Turns, Joining
      <4>2. link'[c].from = <<>> /\ link'[c].to = <<>>
        BY <4>1, <2>1, <2>2
      <4> QED BY <4>1, <4>2, <1>0 DEF NoTask, Quiet
    <3> QED BY <3>2, <3>3, <1>0 DEF Serving
  <2>7. ASSUME NEW d \in Client \ {c} PROVE Joining(d)' /\ Serving(d)'
    <3>1. IsNode(d)' <=> IsNode(d)
      BY <2>4
    <3>2. Joining(d)'
      BY <1>0, <1>1, <2>2, <3>1 DEF IInv, Turns, Joining
    <3>3. Serving(d)'
      BY <1>0, <2>2, <3>1 DEF IInv, Turns, Serving, NoTask, Sent, Working, Answered, Quiet
    <3> QED BY <3>2, <3>3
  <2> QED
    BY <1>0, <2>5, <2>6, <2>7, SameServs DEF IInv, Turns
<1>3. CASE cl[c].st = "gone" /\ UNCHANGED <<link, nodes>>
  <2>1. TypeOK'
    BY <1>0, <1>1, <1>3 DEF IInv, TypeOK, SplitsInv, ClientsOK, LinksOK, NodesOK, ServsOK, SchedOK, JobsOK, ResultsOK
  <2>2. ASSUME NEW d \in Client PROVE Joining(d)' /\ Serving(d)'
    <3>1. IsNode(d)' <=> IsNode(d)
      BY <1>3, SameNodes
    <3>2. Joining(d)'
      BY <1>0, <1>1, <1>3, <3>1 DEF IInv, Turns, Joining
    <3>3. Serving(d)'
      BY <1>0, <1>3, <3>1 DEF IInv, Turns, Serving, NoTask, Sent, Working, Answered, Quiet
    <3> QED BY <3>2, <3>3
  <2> QED
    BY <1>0, <2>1, <2>2, SameServs DEF IInv, Turns
<1> QED
  BY <1>0, <1>2, <1>3 DEF saveClientNodeDetails

\* Disconnect keeps the invariant.
LEMMA DisconnectStep == ASSUME IInv, NEW c \in Client, Disconnect(c) PROVE IInv'
<1> DEFINE r == [[IdleClient EXCEPT !.st = "gone"] EXCEPT !.id = cl[c].id]
<1>0. /\ cl \in [Client -> ClientRec] /\ cl[c] \in ClientRec /\ cl[c].st \in {"asked", "joined"}
      /\ cl' = [cl EXCEPT ![c] = r] /\ faults \in Nat /\ faults' = faults + 1
      /\ UNCHANGED <<splits, link, serv, nodes, listener, sched, jobs, splitIndex, results>>
  BY DEF IInv, TypeOK, ClientsOK, Disconnect, master, Fault, IdleClient
<1>1. r \in ClientRec /\ r.st = "gone" /\ r.at = "idle"
  <2>1. IdleClient \in ClientRec /\ IdleClient.at = "idle"
    <3>1. <<>> \in Seq(Nat)
      OBVIOUS
    <3> QED BY <3>1 DEF IdleClient, ClientRec, Ats
  <2>2. cl[c].id \in Nat \cup {None}
    BY <1>0 DEF ClientRec
  <2>3. r \in ClientRec
    BY <2>1, <2>2, ClientExcept
  <2> QED BY <2>1, <2>3 DEF ClientRec
<1> HIDE DEF r
<1>2. ClientsOK' /\ cl'[c] = r /\ \A d \in Client \ {c} : cl'[d] = cl[d]
  BY <1>0, <1>1, OneClient DEF IInv, TypeOK
<1>4. TypeOK'
  BY <1>0, <1>2 DEF IInv, TypeOK, SplitsInv, LinksOK, ListenOK, ServsOK, NodesOK, SchedOK, JobsOK, ResultsOK
<1>5. Joining(c)' /\ Serving(c)'
  <2>1. IsNode(c)' <=> IsNode(c)
    BY <1>0, SameNodes
  <2> QED BY <1>0, <1>1, <1>2, <2>1 DEF IInv, Turns, Joining, Serving
<1>6. Turns'
  BY <1>0, <1>2, <1>5, Alone DEF IInv
<1> QED
  BY <1>0, <1>4, <1>6, SameServs DEF IInv

\* A client goes on with its task.
LEMMA Works ==
  ASSUME Turns, ClientsOK, NEW c \in Client, ~Quiet(c), NEW r \in ClientRec, cl' = [cl EXCEPT ![c] = r],
         r.st = cl[c].st, r.task = cl[c].task, r.at \notin {"idle", "store"}, r.task \in Task,
         UNCHANGED <<link, serv, nodes, listener>>
  PROVE  ClientsOK' /\ Turns'
<1>2. ClientsOK' /\ cl'[c] = r /\ \A d \in Client \ {c} : cl'[d] = cl[d]
  BY OneClient
<1>3. IsNode(c)' <=> IsNode(c)
  BY SameNodes
<1>4. cl[c].at \notin {"idle", "store"}
  BY DEF Quiet
<1>5. Joining(c)'
  BY <1>2, <1>3, <1>4 DEF Turns, Joining
<1>6. Serving(c)'
  <2> SUFFICES ASSUME cl[c].st = "joined", IsNode(c) PROVE Working(c)'
    BY <1>2, <1>3 DEF Serving
  <2>1. Working(c)
    BY DEF Turns, Serving, NoTask, Sent, Answered
  <2> QED BY <2>1, <1>2 DEF Working, Quiet
<1> QED
  BY <1>2, <1>5, <1>6, Alone

\* A line on an empty socket.
LEMMA AppendEmpty == ASSUME NEW x PROVE Append(<<>>, x) = <<x>>
OBVIOUS

\* A client answers its task.
LEMMA Answers ==
  ASSUME Turns, ClientsOK, LinksOK, NEW c \in Client, ~Quiet(c), NEW r \in ClientRec, cl' = [cl EXCEPT ![c] = r],
         r.st = cl[c].st, r.task = cl[c].task, r.at \in {"idle", "store"}, r.task \in Task,
         NEW line \in {"Task_Finished", "Invalid Task configuration provided"}, Reply(c, line),
         UNCHANGED <<serv, nodes, listener>>
  PROVE  ClientsOK' /\ LinksOK' /\ Turns'
<1>1. /\ LinksOK' /\ link'[c].to = link[c].to /\ link'[c].from = Append(link[c].from, line)
      /\ \A d \in Client \ {c} : link'[d] = link[d]
  BY Replied DEF Line
<1>2. ClientsOK' /\ cl'[c] = r /\ \A d \in Client \ {c} : cl'[d] = cl[d]
  BY OneClient
<1>3. IsNode(c)' <=> IsNode(c)
  BY SameNodes
<1>4. cl[c].at \notin {"idle", "store"}
  BY DEF Quiet
<1>7. cl[c].st \notin {"off", "asked"} /\ (cl[c].st = "joined" => IsNode(c))
  BY <1>4 DEF Turns, Joining
<1>5. Joining(c)'
  <2>1. Joining(c)
    BY DEF Turns
  <2> QED BY <2>1, <1>2, <1>3, <1>7 DEF Joining
<1>6. Serving(c)'
  <2> SUFFICES ASSUME cl[c].st = "joined", IsNode(c) PROVE Answered(c)'
    BY <1>2, <1>3 DEF Serving
  <2>1. Working(c)
    BY DEF Turns, Serving, NoTask, Sent, Answered
  <2>2. link'[c].from = <<line>> /\ link'[c].to = <<>>
    <3>1. link[c].from = <<>> /\ link[c].to = <<>>
      BY <2>1 DEF Working
    <3> QED BY <3>1, <1>1, AppendEmpty
  <2>3. link'[c].from \in {<<"Task_Finished">>, <<"Invalid Task configuration provided">>}
    BY <2>2
  <2> QED BY <2>1, <2>2, <2>3, <1>2 DEF Working, Answered, Quiet
<1> QED
  BY <1>1, <1>2, <1>5, <1>6, Alone

\* A client stores its output.
LEMMA Stores ==
  ASSUME Turns, ClientsOK, NEW c \in Client, cl[c].at = "store", NEW r \in ClientRec, cl' = [cl EXCEPT ![c] = r],
         r.st = cl[c].st, r.task = cl[c].task, r.at \in {"idle", "store"}, r.task \in Task,
         UNCHANGED <<link, serv, nodes, listener>>
  PROVE  ClientsOK' /\ Turns'
<1>2. ClientsOK' /\ cl'[c] = r /\ \A d \in Client \ {c} : cl'[d] = cl[d]
  BY OneClient
<1>3. IsNode(c)' <=> IsNode(c)
  BY SameNodes
<1>5. Joining(c)'
  BY <1>2, <1>3 DEF Turns, Joining
<1>6. Serving(c)'
  <2> SUFFICES ASSUME cl[c].st = "joined", IsNode(c) PROVE NoTask(c)' \/ Sent(c)' \/ Working(c)' \/ Answered(c)'
    BY <1>2, <1>3 DEF Serving
  <2>1. NoTask(c) \/ Sent(c) \/ Answered(c)
    BY DEF Turns, Serving, Working, Quiet
  <2>2. NoTask(c) => NoTask(c)'
    BY <1>2 DEF NoTask, Quiet
  <2>3. Sent(c) => Sent(c)'
    BY <1>2 DEF Sent, Quiet
  <2>4. Answered(c) => Answered(c)'
    BY <1>2 DEF Answered, Quiet
  <2> QED BY <2>1, <2>2, <2>3, <2>4
<1> QED
  BY <1>2, <1>5, <1>6, Alone

\* What the invariant says of one client.
LEMMA ClientType ==
  ASSUME IInv, NEW c \in Client
  PROVE  /\ cl \in [Client -> ClientRec] /\ cl[c] \in ClientRec /\ ClientsOK /\ LinksOK /\ Turns
         /\ cl[c].at # "idle" => cl[c].task \in Task
         /\ splitIndex \in Nat /\ faults \in Nat /\ link \in [Client -> LinkRec] /\ link[c] \in LinkRec
BY DEF IInv, TypeOK, ClientsOK, LinksOK

\* A task that is answered as invalid.
LEMMA TaskInvalidStep ==
  ASSUME IInv, NEW c \in Client, ~Quiet(c), TaskInvalid(c), faults' \in Nat PROVE IInv'
<1> DEFINE r == [cl[c] EXCEPT !.at = "idle"]
<1>0. /\ cl' = [cl EXCEPT ![c] = r] /\ Reply(c, "Invalid Task configuration provided")
      /\ UNCHANGED <<splits, serv, nodes, listener, sched, jobs, splitIndex, results>>
  BY ClientType DEF TaskInvalid, ClientUnchanged, master
<1>1. cl[c] \in ClientRec /\ cl[c].task \in Task
  BY ClientType DEF Quiet
<1>2. r \in ClientRec
  BY <1>1, ClientExcept DEF Ats
<1>3. r.st = cl[c].st /\ r.task = cl[c].task /\ r.at = "idle"
  BY <1>1 DEF ClientRec
<1> HIDE DEF r
<1>4. ClientsOK' /\ LinksOK' /\ Turns'
  BY <1>0, <1>1, <1>2, <1>3, ClientType, Answers
<1>5. TypeOK'
  BY <1>0, <1>4 DEF IInv, TypeOK, SplitsInv, ListenOK, ServsOK, NodesOK, SchedOK, JobsOK, ResultsOK
<1> QED
  BY <1>0, <1>4, <1>5, SameServs DEF IInv

\* A user function that throws.
LEMMA UserFunctionSteps ==
  ASSUME IInv, NEW c \in Client, executeUserMapperFunction(c) \/ executeUserReduceFunction(c) PROVE IInv'
<1>1. TaskInvalid(c) /\ ~Quiet(c) /\ faults' = faults + 1
  BY DEF executeUserMapperFunction, executeUserReduceFunction, Fault, Quiet
<1>2. faults' \in Nat
  BY <1>1, ClientType
<1> QED BY <1>1, <1>2, TaskInvalidStep

\* OpenHandle keeps the invariant.
LEMMA OpenHandleStep == ASSUME IInv, NEW c \in Client, OpenHandle(c) PROVE IInv'
<1> DEFINE r == [[cl[c] EXCEPT !.at = "read"] EXCEPT !.split = splitIndex + 1]
<1>0. /\ cl' = [cl EXCEPT ![c] = r] /\ splitIndex' = splitIndex + 1 /\ cl[c].at = "open"
      /\ UNCHANGED <<splits, link, serv, nodes, listener, sched, jobs, faults, results>>
  BY ClientType DEF OpenHandle, nextSplit, ClientUnchanged, master
<1>1. cl[c] \in ClientRec /\ cl[c].task \in Task /\ splitIndex + 1 \in Nat
  BY <1>0, ClientType
<1>2. r \in ClientRec
  BY <1>1, ClientExcept DEF Ats
<1>3. r.st = cl[c].st /\ r.task = cl[c].task /\ r.at = "read"
  BY <1>1 DEF ClientRec
<1> HIDE DEF r
<1>4. ClientsOK' /\ Turns'
  BY <1>0, <1>1, <1>2, <1>3, ClientType, Works DEF Quiet
<1>5. TypeOK'
  BY <1>0, <1>1, <1>4 DEF IInv, TypeOK, SplitsInv, LinksOK, ListenOK, ServsOK, NodesOK, SchedOK, JobsOK, ResultsOK
<1> QED
  BY <1>0, <1>4, <1>5, SameServs DEF IInv

\* NoSplit keeps the invariant.
LEMMA NoSplitStep == ASSUME IInv, NEW c \in Client, NoSplit(c) PROVE IInv'
<1>1. TaskInvalid(c) /\ ~Quiet(c) /\ faults' \in Nat
  BY ClientType DEF NoSplit, TaskInvalid, Quiet
<1> QED BY <1>1, TaskInvalidStep

\* MapRead keeps the invariant.
LEMMA MapReadStep == ASSUME IInv, NEW c \in Client, MapRead(c) PROVE IInv'
<1> DEFINE r == [cl[c] EXCEPT !.at = "mapped"]
<1>0. /\ cl' = cl \/ cl' = [cl EXCEPT ![c] = r]
      /\ cl[c].at = "read" /\ cl[c].split \in DOMAIN splits
      /\ TakeLine(cl[c].split)
      /\ UNCHANGED <<link, serv, nodes, listener, sched, jobs, splitIndex, faults, results>>
  BY ClientType DEF MapRead, readLine, ClientUnchanged, master
<1>1. cl[c] \in ClientRec /\ cl[c].task \in Task
  BY <1>0, ClientType
<1>2. r \in ClientRec
  BY <1>1, ClientExcept DEF Ats
<1>3. r.st = cl[c].st /\ r.task = cl[c].task /\ r.at = "mapped"
  BY <1>1 DEF ClientRec
<1> HIDE DEF r
<1>4. SplitsInv'
  <2>1. PICK i \in DOMAIN splits : i = cl[c].split
    BY <1>0
  <2> QED BY <1>0, <2>1, TakeLineStep DEF IInv, TypeOK
<1>5. ClientsOK' /\ Turns'
  <2>1. CASE cl' = cl
    BY <2>1, <1>0, Untouched DEF IInv, TypeOK, ClientsOK, Turns
  <2>2. CASE cl' = [cl EXCEPT ![c] = r]
    BY <2>2, <1>0, <1>1, <1>2, <1>3, ClientType, Works DEF Quiet
  <2> QED BY <1>0, <2>1, <2>2
<1>6. TypeOK'
  BY <1>0, <1>4, <1>5 DEF IInv, TypeOK, LinksOK, ListenOK, ServsOK, NodesOK, SchedOK, JobsOK, ResultsOK
<1> QED
  BY <1>0, <1>5, <1>6, SameServs DEF IInv

\* An index of splits, where a client is reading.
LEMMA ReadType == ASSUME SplitsInv, NEW i \in DOMAIN splits PROVE splits[i].read \in Seq(Nat)
BY SplitsSet, SplitType

\* A client that has read its split to the end has one.
Reading == \A c \in Client : cl[c].at = "mapped" => cl[c].split \in DOMAIN splits

\* MapFinish keeps the invariant: it answers before it stores.
LEMMA MapFinishStep == ASSUME IInv, Reading, NEW c \in Client, MapFinish(c) PROVE IInv'
<1> DEFINE r == [[cl[c] EXCEPT !.at = "store"] EXCEPT !.rest = splits[cl[c].split].read]
<1>0. /\ cl' = [cl EXCEPT ![c] = r] /\ cl[c].at = "mapped" /\ Reply(c, "Task_Finished")
      /\ UNCHANGED <<splits, serv, nodes, listener, sched, jobs, splitIndex, faults, results>>
  BY ClientType DEF MapFinish, ClientUnchanged, master
<1>1. cl[c] \in ClientRec /\ cl[c].task \in Task /\ splits[cl[c].split].read \in Seq(Nat)
  BY <1>0, ClientType, ReadType DEF Reading, IInv, TypeOK
<1>2. r \in ClientRec
  BY <1>1, ClientExcept DEF Ats
<1>3. r.st = cl[c].st /\ r.task = cl[c].task /\ r.at = "store"
  BY <1>1 DEF ClientRec
<1> HIDE DEF r
<1>4. ClientsOK' /\ LinksOK' /\ Turns'
  BY <1>0, <1>1, <1>2, <1>3, ClientType, Answers DEF Quiet
<1>5. TypeOK'
  BY <1>0, <1>4 DEF IInv, TypeOK, SplitsInv, ListenOK, ServsOK, NodesOK, SchedOK, JobsOK, ResultsOK
<1> QED
  BY <1>0, <1>4, <1>5, SameServs DEF IInv

\* partitionMapOut keeps the invariant, whatever the servlet of a later phase
\* has sent meanwhile.
LEMMA partitionMapOutStep == ASSUME IInv, NEW c \in Client, partitionMapOut(c) PROVE IInv'
<1> DEFINE t == cl[c].task
           line == Head(cl[c].rest)
           store == putKeyValue(cl[c].store, <<t.job, t.no, getPartition(line, t.reduce)>>, line)
<1>0. /\ cl[c].at = "store"
      /\ cl' = IF cl[c].rest = <<>> THEN [cl EXCEPT ![c].at = "idle"]
               ELSE [cl EXCEPT ![c].rest = Tail(@), ![c].store = store]
      /\ UNCHANGED <<splits, link, serv, nodes, listener, sched, jobs, splitIndex, faults, results>>
  BY ClientType DEF partitionMapOut, ClientUnchanged, master
<1>1. cl[c] \in ClientRec /\ t \in Task /\ cl \in [Client -> ClientRec]
  BY <1>0, ClientType
<1>2. CASE cl[c].rest = <<>>
  <2> DEFINE r == [cl[c] EXCEPT !.at = "idle"]
  <2>1. r \in ClientRec /\ cl' = [cl EXCEPT ![c] = r]
    BY <1>0, <1>1, <1>2, ClientExcept DEF Ats
  <2>2. r.st = cl[c].st /\ r.task = cl[c].task /\ r.at = "idle"
    BY <1>1 DEF ClientRec
  <2> HIDE DEF r
  <2>3. ClientsOK' /\ Turns'
    BY <2>1, <2>2, <1>0, <1>1, ClientType, Stores
  <2> QED BY <2>3, <1>0
             DEF IInv, TypeOK, SplitsInv, LinksOK, ListenOK, ServsOK, NodesOK, SchedOK, JobsOK, ResultsOK, NoServlets
<1>3. CASE cl[c].rest # <<>>
  <2>1. cl[c].rest \in Seq(Nat) /\ cl[c].store \in SUBSET [key : Key, line : Nat]
    BY <1>1 DEF ClientRec
  <2>2. Tail(cl[c].rest) \in Seq(Nat) /\ line \in Nat
    BY <2>1, <1>3
  <2>3. store \in SUBSET [key : Key, line : Nat]
    <3>1. t.job \in Nat /\ t.no \in Nat /\ t.reduce \in Nat \ {0}
      BY <1>1 DEF Task
    <3>2. getPartition(line, t.reduce) \in Nat
      BY <2>2, <3>1 DEF getPartition
    <3>3. <<t.job, t.no, getPartition(line, t.reduce)>> \in Key
      BY <3>1, <3>2 DEF Key
    <3> DEFINE key == <<t.job, t.no, getPartition(line, t.reduce)>>
    <3>4. store = cl[c].store \cup {[key |-> key, line |-> line]}
      BY DEF putKeyValue
    <3> HIDE DEF line, t, key, store
    <3>5. [key |-> key, line |-> line] \in [key : Key, line : Nat]
      BY <2>2, <3>3 DEF key
    <3> QED BY <2>1, <3>4, <3>5
  <2> HIDE DEF store, line
  <2> DEFINE r == [[cl[c] EXCEPT !.rest = Tail(@)] EXCEPT !.store = store]
  <2>4. cl' = [cl EXCEPT ![c] = r]
    BY <1>0, <1>1, <1>3
  <2>5. r \in ClientRec
    <3>1. [cl[c] EXCEPT !.rest = Tail(@)] \in ClientRec
      BY <1>1, <2>2, ClientExcept
    <3> QED BY <3>1, <2>3, ClientExcept
  <2>6. r.st = cl[c].st /\ r.task = cl[c].task /\ r.at = "store"
    BY <1>0, <1>1 DEF ClientRec
  <2> HIDE DEF r
  <2>7. ClientsOK' /\ Turns'
    BY <2>4, <2>5, <2>6, <1>0, <1>1, ClientType, Stores
  <2> QED BY <2>7, <1>0
             DEF IInv, TypeOK, SplitsInv, LinksOK, ListenOK, ServsOK, NodesOK, SchedOK, JobsOK, ResultsOK, NoServlets
<1> QED BY <1>2, <1>3

\* receiveMapPartition keeps the invariant.
LEMMA receiveStep ==
  ASSUME IInv, NEW c \in Client, NEW m, receiveMapPartition(c, m) PROVE IInv'
<1> DEFINE t == cl[c].task
           from == cl[m.client]
           got == {<<m, line>> : line \in serveMapOutputPartition(m.client, <<t.job, m.no, t.part>>)}
           ok == cl[c].clean /\ from.st = "joined" /\ ~(from.at = "store" /\ from.task.job = t.job)
           r == [[[cl[c] EXCEPT !.fetched = @ \cup {m}] EXCEPT !.input = @ \cup got] EXCEPT !.clean = ok]
<1>0. /\ cl[c].at = "fetch" /\ m \in t.mappers
      /\ UNCHANGED <<splits, link, serv, nodes, listener, sched, jobs, splitIndex, faults, results>>
  BY DEF receiveMapPartition, ClientUnchanged, master
<1>1. cl[c] \in ClientRec /\ t \in Task /\ cl \in [Client -> ClientRec]
  BY <1>0, ClientType
<1>2. m \in NodeInfo /\ m.client \in Client
  BY <1>0, <1>1 DEF Task, NodeInfo
<1>3. cl' = [cl EXCEPT ![c] = r]
  BY <1>1 DEF receiveMapPartition
<1>4. got \subseteq NodeInfo \X Nat
  <2>1. serveMapOutputPartition(m.client, <<t.job, m.no, t.part>>) \subseteq Nat
    <3>1. cl[m.client].store \subseteq [key : Key, line : Nat]
      BY <1>1, <1>2 DEF ClientRec
    <3> HIDE DEF t
    <3> QED BY <3>1 DEF serveMapOutputPartition, getValueForKey
  <2> HIDE DEF t
  <2> QED BY <2>1, <1>2
<1>5. ok \in BOOLEAN
  <2>1. cl[c].clean \in BOOLEAN
    BY <1>1 DEF ClientRec
  <2> QED BY <2>1
<1> HIDE DEF got, ok, t
<1>6. r \in ClientRec
  <2>1. cl[c].fetched \cup {m} \in SUBSET NodeInfo /\ cl[c].input \cup got \in SUBSET (NodeInfo \X Nat)
    BY <1>1, <1>2, <1>4 DEF ClientRec
  <2>2. [cl[c] EXCEPT !.fetched = @ \cup {m}] \in ClientRec
    BY <1>1, <2>1, ClientExcept
  <2>3. [[cl[c] EXCEPT !.fetched = @ \cup {m}] EXCEPT !.input = @ \cup got] \in ClientRec
    <3>1. [cl[c] EXCEPT !.fetched = @ \cup {m}].input = cl[c].input
      BY <1>1 DEF ClientRec
    <3> QED BY <3>1, <2>1, <2>2, ClientExcept
  <2> QED BY <1>5, <2>3, ClientExcept
<1>7. r.st = cl[c].st /\ r.task = cl[c].task /\ r.at = "fetch"
  BY <1>0, <1>1 DEF ClientRec
<1> HIDE DEF r
<1>8. ClientsOK' /\ Turns'
  BY <1>0, <1>1, <1>3, <1>6, <1>7, ClientType, Works DEF Quiet, t
<1>9. TypeOK'
  BY <1>0, <1>8 DEF IInv, TypeOK, SplitsInv, LinksOK, ListenOK, ServsOK, NodesOK, SchedOK, JobsOK, ResultsOK
<1> QED
  BY <1>0, <1>8, <1>9, SameServs DEF IInv

\* ReduceFinish keeps the invariant.
LEMMA ReduceFinishStep == ASSUME IInv, NEW c \in Client, ReduceFinish(c) PROVE IInv'
<1> DEFINE r == [cl[c] EXCEPT !.at = "idle"]
           grouped == groupMapResultsByKey(cl[c].input)
<1>0. /\ cl' = [cl EXCEPT ![c] = r] /\ cl[c].at = "fetch"
      /\ UNCHANGED <<splits, serv, nodes, listener, sched, jobs, splitIndex, faults>>
  BY ClientType DEF ReduceFinish, shuffle, ClientUnchanged, master
<1>1. cl[c] \in ClientRec /\ cl[c].task \in Task
  BY <1>0, ClientType
<1>2. r \in ClientRec
  BY <1>1, ClientExcept DEF Ats
<1>3. r.st = cl[c].st /\ r.task = cl[c].task /\ r.at = "idle"
  BY <1>1 DEF ClientRec
<1> HIDE DEF r
<1>4. PICK line \in {"Task_Finished", "Invalid Task configuration provided"} : Reply(c, line)
  BY DEF ReduceFinish
<1>5. ClientsOK' /\ LinksOK' /\ Turns'
  BY <1>0, <1>1, <1>2, <1>3, <1>4, ClientType, Answers DEF Quiet
<1>6. ResultsOK'
  <2>1. CASE UNCHANGED results
    BY <2>1 DEF IInv, TypeOK, ResultsOK
  <2>2. CASE /\ None \notin grouped
             /\ results' = results \cup {[job |-> cl[c].task.job, part |-> cl[c].task.part,
                                          groups |-> grouped, clean |-> cl[c].clean]}
    <3>1. cl[c].input \subseteq NodeInfo \X Nat /\ cl[c].clean \in BOOLEAN
      BY <1>1 DEF ClientRec
    <3>2. cl[c].task.job \in Nat /\ cl[c].task.part \in Nat
      BY <1>1 DEF Task
    <3>3. grouped \subseteq SUBSET (NodeInfo \X Nat)
      BY <2>2, <3>1 DEF groupMapResultsByKey
    <3> HIDE DEF grouped
    <3>4. [job |-> cl[c].task.job, part |-> cl[c].task.part, groups |-> grouped, clean |-> cl[c].clean]
            \in [job : Nat, part : Nat, groups : SUBSET SUBSET (NodeInfo \X Nat), clean : BOOLEAN]
      BY <3>1, <3>2, <3>3
    <3> QED BY <2>2, <3>4 DEF IInv, TypeOK, ResultsOK
  <2> QED BY <2>1, <2>2 DEF ReduceFinish
<1>7. TypeOK'
  BY <1>0, <1>5, <1>6 DEF IInv, TypeOK, SplitsInv, ListenOK, ServsOK, NodesOK, SchedOK, JobsOK
<1> QED
  BY <1>0, <1>5, <1>7, SameServs DEF IInv

\* The readers keep the invariant.
LEMMA ReaderStep ==
  ASSUME IInv, NEW i \in DOMAIN splits, Reader(i) \/ ReadError(i) PROVE IInv'
<1>1. /\ ReaderLoop(i) \/ fillQueue(i) \/ ReaderFails(i)
      /\ UNCHANGED <<cl, link, serv, nodes, listener, sched, jobs, splitIndex, results>>
      /\ faults' \in Nat
  BY DEF IInv, TypeOK, Reader, ReadError, Fault, master
<1>2. SplitsInv'
  BY <1>1, ReaderSteps DEF IInv, TypeOK
<1>3. Turns'
  BY <1>1, Untouched DEF IInv, Turns
<1>4. TypeOK'
  BY <1>1, <1>2 DEF IInv, TypeOK, ClientsOK, LinksOK, ListenOK, ServsOK, NodesOK, SchedOK, JobsOK, ResultsOK
<1> QED
  BY <1>1, <1>3, <1>4, SameServs DEF IInv

\* A step that leaves the clients and their servlets alone.
LEMMA SameTurns ==
  ASSUME Turns, UNCHANGED <<cl, link, serv, nodes, listener>> PROVE Turns'
BY Untouched DEF Turns

\* Submit keeps the invariant.
LEMMA SubmitStep == ASSUME IInv, NEW n \in JobConf, Submit(n) PROVE IInv'
<1> DEFINE j == [NewJobConf EXCEPT !.no = Len(jobs.accepted) + 1, !.reduce = n]
<1>0. /\ n >= 0 /\ n \in Int /\ jobs' = [jobs EXCEPT !.queue = Append(@, j), !.accepted = Append(@, j)]
      /\ UNCHANGED <<splits, cl, link, serv, nodes, listener, sched, splitIndex, faults, results>>
  BY MRLiteAssumption DEF Submit, scheduleJob, queueJob, isValidJobConfiguration
<1>1. jobs \in [queue : Seq(Job), accepted : Seq(Job), finished : Seq(Job), lost : Seq(Job)]
  BY DEF IInv, TypeOK, JobsOK
<1>2. j \in Job
  <2>1. Len(jobs.accepted) + 1 \in Nat
    BY <1>1
  <2>2. n \in Nat
    BY <1>0
  <2>3. ASSUME NEW k \in Nat PROVE [NewJobConf EXCEPT !.no = k, !.reduce = n] \in Job
    BY <2>2 DEF NewJobConf, Job
  <2> QED BY <2>1, <2>3
<1> HIDE DEF j
<1>3. JobsOK'
  <2>1. Append(jobs.queue, j) \in Seq(Job) /\ Append(jobs.accepted, j) \in Seq(Job)
    BY <1>1, <1>2
  <2> QED BY <1>0, <1>1, <2>1 DEF JobsOK
<1>4. TypeOK'
  BY <1>0, <1>3 DEF IInv, TypeOK, SplitsInv, ClientsOK, LinksOK, ListenOK, ServsOK, NodesOK, SchedOK, ResultsOK
<1> QED
  BY <1>0, <1>4, SameTurns, SameServs DEF IInv

\* A job has at least one reduce task.
LEMMA ReduceTasks ==
  ASSUME NodesOK, NEW n \in Nat PROVE estimateTotalReduceTasks(n) \in Nat \ {0}
<1>1. Len(nodes) \in Nat
  BY DEF NodesOK
<1>2. \A k \in Nat : (IF n > k THEN IF k < 2 THEN 1 ELSE k - 1 ELSE IF n > 0 THEN n ELSE 1) \in Nat \ {0}
  OBVIOUS
<1> QED BY <1>1, <1>2 DEF estimateTotalReduceTasks

\* Dequeue keeps the invariant.
LEMMA DequeueStep == ASSUME IInv, Dequeue PROVE IInv'
<1> DEFINE j == Head(jobs.queue)
           n == estimateTotalReduceTasks(j.reduce)
<1>0. /\ sched.at = "wait" /\ jobs.queue # <<>> /\ jobs' = [jobs EXCEPT !.queue = Tail(@)]
      /\ sched' = [sched EXCEPT !.at = "map", !.job = j, !.reduce = n]
      /\ UNCHANGED <<splits, cl, link, serv, nodes, listener, splitIndex, faults, results>>
  BY DEF Dequeue, dequeueJob
<1>1. /\ jobs \in [queue : Seq(Job), accepted : Seq(Job), finished : Seq(Job), lost : Seq(Job)]
      /\ sched \in [at : {"wait", "map", "split", "mapping", "reducing", "dead"},
                    job : Job \cup {None}, reduce : Nat, mappers : SUBSET NodeInfo]
  BY DEF IInv, TypeOK, JobsOK, SchedOK
<1>2. j \in Job /\ Tail(jobs.queue) \in Seq(Job)
  BY <1>0, <1>1
<1>3. n \in Nat \ {0}
  BY <1>2, ReduceTasks DEF Job, IInv, TypeOK
<1> HIDE DEF j, n
<1>4. JobsOK' /\ SchedOK' /\ sched'.at = "map"
  BY <1>0, <1>1, <1>2, <1>3 DEF JobsOK, SchedOK
<1>5. TypeOK'
  BY <1>0, <1>4 DEF IInv, TypeOK, SplitsInv, ClientsOK, LinksOK, ListenOK, ServsOK, NodesOK, ResultsOK
<1>6. NoServlets'
  BY <1>0, <1>4 DEF IInv, NoServlets
<1> QED
  BY <1>0, <1>5, <1>6, SameTurns DEF IInv

\* The servlets of a phase replace those of the one before, which have ended.
LEMMA NewServlets ==
  ASSUME Turns, \A c \in Client : serv[c].at # "wait", UNCHANGED <<cl, link, nodes, listener>>,
         \A c \in Client : serv'[c].at # "none" => IsNode(c)
  PROVE  Turns'
<1> SUFFICES ASSUME NEW c \in Client PROVE Joining(c)' /\ Serving(c)'
  BY DEF Turns
<1>1. IsNode(c)' <=> IsNode(c)
  BY SameNodes
<1>2. Joining(c)'
  BY <1>1 DEF Turns, Joining
<1>3. ASSUME cl[c].st = "joined", IsNode(c) PROVE NoTask(c)'
  <2>1. NoTask(c)
    BY <1>3 DEF Turns, Serving, Sent, Working, Answered
  <2> QED BY <2>1 DEF NoTask, Quiet
<1> QED BY <1>1, <1>2, <1>3 DEF Serving

\* The servlet of a task.
LEMMA ServletType ==
  ASSUME NEW t \in Task
  PROVE  JobServlet(t) \in ServRec /\ JobServlet(t).at = "send" /\ JobServlet(t).task \in Task
BY DEF JobServlet, ServRec

\* No servlet.
LEMMA NoServletType == NoServlet \in ServRec /\ NoServlet.at = "none"
BY DEF NoServlet, ServRec

\* getClientNode finds nodes only.
LEMMA getClientNodeIs ==
  ASSUME NodesOK, NEW c \in Client
  PROVE  getClientNode(c) \subseteq Nat \ {0} /\ (getClientNode(c) # {} => IsNode(c))
<1>1. DOMAIN nodes \subseteq Nat \ {0}
  BY DEF NodesOK
<1> QED BY <1>1 DEF getClientNode, IsNode

\* Task configurations: the defaults, ...
LEMMA NewTaskConfType == NewTaskConf \in Task
BY DEF NewTaskConf, Task

\* ... a mapper's ...
LEMMA MapTaskType ==
  ASSUME SchedOK, sched.at # "wait", NEW k \in Nat PROVE createMapperTaskConf(k) \in Task
BY NewTaskConfType DEF createMapperTaskConf, SchedOK, Task, Job

\* ... and a reducer's.
LEMMA ReduceTaskType ==
  ASSUME SchedOK, sched.at # "wait", NEW k \in Nat PROVE createReducerTaskConf(k) \in Task
BY NewTaskConfType DEF createReducerTaskConf, SchedOK, Task, Job

\* The job is dropped when its input cannot be opened ...
LEMMA InputUnreadableStep == ASSUME IInv, InputUnreadable PROVE IInv'
<1>0. /\ sched.at = "map" /\ faults' = faults + 1
      /\ jobs' = [jobs EXCEPT !.lost = Append(@, sched.job)]
      /\ sched' = [sched EXCEPT !.at = "wait", !.job = None]
      /\ UNCHANGED <<splits, cl, link, serv, nodes, listener, splitIndex, results>>
      /\ SchedOK /\ JobsOK /\ NoServlets
  BY DEF InputUnreadable, Fault, IInv, TypeOK
<1>1. SchedOK' /\ JobsOK'
  <2>1. sched.job \in Job /\ jobs.lost \in Seq(Job)
    BY <1>0 DEF SchedOK, JobsOK
  <2>2. Append(jobs.lost, sched.job) \in Seq(Job)
    BY <2>1
  <2> QED BY <1>0, <2>2 DEF SchedOK, JobsOK
<1>2. faults' \in Nat
  BY <1>0 DEF IInv, TypeOK
<1>3. TypeOK'
  BY <1>0, <1>1, <1>2 DEF IInv, TypeOK, SplitsInv, ClientsOK, LinksOK, ListenOK, ServsOK, NodesOK, ResultsOK
<1>4. NoServlets'
  BY <1>0 DEF NoServlets
<1> QED BY <1>0, <1>3, <1>4, SameTurns DEF IInv

\* ... the scheduler's thread may end ...
LEMMA NoNodesStep == ASSUME IInv, NoNodes PROVE IInv'
<1>0. /\ sched.at = "map" /\ sched' = [sched EXCEPT !.at = "dead"]
      /\ UNCHANGED <<splits, cl, link, serv, nodes, listener, jobs, splitIndex, faults, results>>
      /\ SchedOK /\ NoServlets
  BY DEF NoNodes, IInv, TypeOK
<1>1. SchedOK' /\ sched'.at = "dead"
  BY <1>0 DEF SchedOK
<1>2. TypeOK'
  BY <1>0, <1>1 DEF IInv, TypeOK, SplitsInv, ClientsOK, LinksOK, ListenOK, ServsOK, NodesOK, JobsOK, ResultsOK
<1>3. NoServlets'
  BY <1>0 DEF NoServlets
<1> QED BY <1>0, <1>2, <1>3, SameTurns DEF IInv

\* ... or the splits are made, if they are not there.
LEMMA OpenInputStep == ASSUME IInv, OpenInput PROVE IInv'
<1>0. /\ sched.at = "map" /\ nodes # <<>> /\ startFileSplitServer
      /\ sched' = [sched EXCEPT !.at = "split", !.mappers = createMapperNodesInfoList]
      /\ UNCHANGED <<cl, link, serv, nodes, listener, jobs, splitIndex, faults, results>>
      /\ SchedOK /\ NodesOK /\ NoServlets
  BY DEF OpenInput, IInv, TypeOK
<1>1. SplitsInv'
  <2>1. CASE splits' = splits
    BY <2>1 DEF IInv, TypeOK, SplitsInv
  <2>2. CASE splits' = initializeBuffer(Len(nodes))
    <3>1. Len(nodes) \in Nat \ {0}
      BY <1>0 DEF NodesOK
    <3> QED BY <3>1, <2>2, StartSplits
  <2> QED BY <2>1, <2>2, <1>0 DEF startFileSplitServer
<1>2. SchedOK' /\ sched'.at = "split"
  <2>1. createMapperNodesInfoList \subseteq NodeInfo
    BY <1>0 DEF createMapperNodesInfoList, NodesOK, NodeInfo
  <2> QED BY <2>1, <1>0 DEF SchedOK
<1>3. TypeOK'
  BY <1>0, <1>1, <1>2 DEF IInv, TypeOK, ClientsOK, LinksOK, ListenOK, ServsOK, NodesOK, JobsOK, ResultsOK
<1>4. NoServlets'
  BY <1>0 DEF NoServlets
<1> QED BY <1>0, <1>3, <1>4, SameTurns DEF IInv

\* The servlets of a map phase: those of the nodes that were found.
Servlets(found) ==
    [c \in Client |->
       LET k == {m.no : m \in {n \in found : n.client = c}} IN
       IF k = {} THEN NoServlet ELSE JobServlet(createMapperTaskConf(CHOOSE no \in k : TRUE))]

\* The map phase starts with servlets for the nodes that were found.
LEMMA MapPhaseIs ==
  ASSUME NodesOK, scheduleMapTasksToSlaveNodes
  PROVE  /\ sched.at = "split" /\ UNCHANGED <<splits, cl, link, nodes, listener, jobs, splitIndex, faults, results>>
         /\ \E found \in SUBSET createMapperNodesInfoList :
              /\ sched.mappers \subseteq found
              /\ sched' = [sched EXCEPT !.at = "mapping", !.mappers = found]
              /\ serv' = Servlets(found)
         /\ createMapperNodesInfoList \subseteq NodeInfo
<1>1. createMapperNodesInfoList \subseteq NodeInfo
  BY DEF createMapperNodesInfoList, NodesOK, NodeInfo
<1> DEFINE Found(last) == {m \in createMapperNodesInfoList : m.no <= last}
<1>2. PICK last \in DOMAIN nodes : /\ sched.mappers \subseteq Found(last)
                                   /\ sched' = [sched EXCEPT !.at = "mapping", !.mappers = Found(last)]
                                   /\ serv' = Servlets(Found(last))
  BY DEF scheduleMapTasksToSlaveNodes, Servlets
<1>3. Found(last) \in SUBSET createMapperNodesInfoList
  OBVIOUS
<1>4. sched.at = "split" /\ UNCHANGED <<splits, cl, link, nodes, listener, jobs, splitIndex, faults, results>>
  BY DEF scheduleMapTasksToSlaveNodes
<1> HIDE DEF Found
<1> QED BY <1>1, <1>2, <1>3, <1>4

\* A client has a servlet of the phase if it was found, with the number it was
\* found under.
LEMMA ServletOf ==
  ASSUME NodesOK, NEW found, found \subseteq createMapperNodesInfoList, NEW c \in Client
  PROVE  \/ /\ Servlets(found)[c] = NoServlet
            /\ \A m \in found : m.client # c
         \/ \E k \in DOMAIN nodes :
              /\ nodes[k][2] = c /\ Servlets(found)[c] = JobServlet(createMapperTaskConf(k))
<1> DEFINE k == {m.no : m \in {n \in found : n.client = c}}
           no == CHOOSE j \in k : TRUE
<1>1. Servlets(found)[c] = IF k = {} THEN NoServlet ELSE JobServlet(createMapperTaskConf(no))
  BY DEF Servlets
<1>2. CASE k = {}
  BY <1>1, <1>2
<1>3. CASE k # {}
  <2>1. no \in k
    BY <1>3
  <2>2. PICK m \in found : m.client = c /\ no = m.no
    BY <2>1
  <2>3. PICK j \in DOMAIN nodes : m = [client |-> nodes[j][2], no |-> j]
    BY <2>2 DEF createMapperNodesInfoList
  <2>4. nodes[j][2] = c /\ no = j
    BY <2>2, <2>3
  <2>5. Servlets(found)[c] = JobServlet(createMapperTaskConf(no))
    BY <1>1, <1>3
  <2> HIDE DEF k, no
  <2> QED BY <2>3, <2>4, <2>5
<1> QED BY <1>2, <1>3

\* The map phase starts when there are no servlets.
LEMMA MapPhaseStep == ASSUME IInv, scheduleMapTasksToSlaveNodes PROVE IInv'
<1>0. SchedOK /\ NodesOK /\ Turns /\ NoServlets
  BY DEF IInv, TypeOK
<1>1. /\ sched.at = "split" /\ UNCHANGED <<splits, cl, link, nodes, listener, jobs, splitIndex, faults, results>>
      /\ \A c \in Client : serv[c].at = "none"
  BY <1>0, MapPhaseIs DEF NoServlets
<1>2. PICK found \in SUBSET createMapperNodesInfoList :
        /\ sched' = [sched EXCEPT !.at = "mapping", !.mappers = found]
        /\ serv' = Servlets(found)
  BY <1>0, MapPhaseIs
<1>3. SchedOK' /\ sched'.at = "mapping"
  <2>1. found \subseteq NodeInfo
    BY <1>0, MapPhaseIs
  <2> QED BY <2>1, <1>0, <1>1, <1>2 DEF SchedOK
<1>4. ASSUME NEW c \in Client
      PROVE  serv'[c] \in ServRec /\ (serv'[c].at # "none" => serv'[c].task \in Task /\ IsNode(c))
  <2>1. CASE Servlets(found)[c] = NoServlet
    BY <2>1, <1>2, NoServletType
  <2>2. ASSUME NEW k \in DOMAIN nodes, nodes[k][2] = c,
               Servlets(found)[c] = JobServlet(createMapperTaskConf(k))
        PROVE  serv'[c] \in ServRec /\ serv'[c].task \in Task /\ IsNode(c)
    <3>1. k \in Nat /\ IsNode(c)
      BY <2>2, <1>0 DEF IsNode, NodesOK
    <3>2. createMapperTaskConf(k) \in Task
      BY <3>1, <1>0, <1>1, MapTaskType
    <3> QED BY <2>2, <3>1, <3>2, <1>2, ServletType
  <2> QED BY <2>1, <2>2, <1>0, ServletOf
<1>5. ServsOK'
  <2>1. DOMAIN serv' = Client /\ serv' = [c \in Client |-> serv'[c]]
    BY <1>2 DEF Servlets
  <2> QED BY <1>4, <2>1 DEF ServsOK
<1>6. Turns'
  BY <1>0, <1>1, <1>4, NewServlets
<1>7. TypeOK'
  BY <1>1, <1>3, <1>5 DEF IInv, TypeOK, SplitsInv, ClientsOK, LinksOK, ListenOK, NodesOK, JobsOK, ResultsOK
<1> QED BY <1>3, <1>6, <1>7 DEF IInv, NoServlets

\* The reduce phase starts when all servlets have been joined.
LEMMA ReducePhaseStep == ASSUME IInv, scheduleReduceTasksToSlaveNodes PROVE IInv'
<1> DEFINE i(c) == getClientNode(c) \cap 1 .. sched.reduce
<1>0. /\ sched.at = "mapping"
      /\ UNCHANGED <<splits, cl, link, nodes, listener, jobs, splitIndex, faults, results>>
      /\ sched' = [sched EXCEPT !.at = "reducing"]
      /\ serv' = [c \in Client |->
                  IF i(c) = {} THEN NoServlet
                  ELSE JobServlet(createReducerTaskConf((CHOOSE k \in i(c) : TRUE) - 1))]
      /\ SchedOK /\ NodesOK /\ Turns /\ \A c \in Client : serv[c].at # "wait"
  BY DEF scheduleReduceTasksToSlaveNodes, AllJoined, IInv, TypeOK
<1>1. SchedOK' /\ sched'.at = "reducing"
  BY <1>0 DEF SchedOK
<1>2. ASSUME NEW c \in Client
      PROVE  serv'[c] \in ServRec /\ (serv'[c].at # "none" => serv'[c].task \in Task /\ IsNode(c))
  <2>1. CASE i(c) = {}
    BY <2>1, <1>0, NoServletType
  <2>2. CASE i(c) # {}
    <3> DEFINE k == CHOOSE k \in i(c) : TRUE
    <3>1. k \in i(c)
      BY <2>2
    <3> HIDE DEF k
    <3>2. k \in Nat \ {0} /\ IsNode(c)
      BY <3>1, <1>0, getClientNodeIs
    <3>3. k - 1 \in Nat
      BY <3>2
    <3>4. createReducerTaskConf(k - 1) \in Task
      BY <3>3, <1>0, ReduceTaskType
    <3>5. serv'[c] = JobServlet(createReducerTaskConf(k - 1))
      BY <2>2, <1>0 DEF k
    <3> QED BY <3>2, <3>4, <3>5, ServletType
  <2> QED BY <2>1, <2>2
<1>3. ServsOK'
  BY <1>0, <1>2 DEF ServsOK
<1>4. Turns'
  BY <1>0, <1>2, NewServlets
<1>5. TypeOK'
  BY <1>0, <1>1, <1>3 DEF IInv, TypeOK, SplitsInv, ClientsOK, LinksOK, ListenOK, NodesOK, JobsOK, ResultsOK
<1> QED BY <1>1, <1>4, <1>5 DEF IInv, NoServlets

\* So does the end of a job.
LEMMA JobFinishedStep == ASSUME IInv, JobFinished PROVE IInv'
<1>0. /\ sched.at # "wait" /\ jobs' = [jobs EXCEPT !.finished = Append(@, sched.job)]
      /\ UNCHANGED <<splits, cl, link, nodes, listener, splitIndex, faults, results>>
      /\ sched' = [sched EXCEPT !.at = "wait", !.job = None, !.mappers = {}]
      /\ serv' = [c \in Client |-> NoServlet]
      /\ SchedOK /\ JobsOK /\ Turns /\ \A c \in Client : serv[c].at # "wait"
  BY DEF JobFinished, AllJoined, IInv, TypeOK
<1>1. SchedOK' /\ JobsOK'
  <2>1. sched.job \in Job /\ jobs.finished \in Seq(Job)
    BY <1>0 DEF SchedOK, JobsOK
  <2>2. Append(jobs.finished, sched.job) \in Seq(Job)
    BY <2>1
  <2> QED BY <1>0, <2>2 DEF SchedOK, JobsOK
<1>2. ServsOK' /\ \A c \in Client : serv'[c].at = "none"
  BY <1>0, NoServletType DEF ServsOK
<1>3. Turns'
  BY <1>0, <1>2, NewServlets
<1>4. TypeOK'
  BY <1>0, <1>1, <1>2 DEF IInv, TypeOK, SplitsInv, ClientsOK, LinksOK, ListenOK, NodesOK, ResultsOK
<1> QED BY <1>2, <1>3, <1>4 DEF IInv, NoServlets

\* ServletSend keeps the invariant: nothing else is under way on the socket.
LEMMA ServletSendStep == ASSUME IInv, NEW c \in Client, ServletSend(c) PROVE IInv'
<1> DEFINE v == [serv[c] EXCEPT !.at = "wait"]
           l == [link[c] EXCEPT !.to = Append(@, serv[c].task)]
<1>0. /\ serv[c].at = "send" /\ serv[c] \in ServRec /\ serv[c].task \in Task /\ link[c] \in LinkRec
      /\ serv' = [serv EXCEPT ![c] = v] /\ link' = [link EXCEPT ![c] = l]
      /\ UNCHANGED <<splits, cl, nodes, listener, sched, jobs, splitIndex, faults, results>>
  BY DEF ServletSend, master, IInv, TypeOK, ServsOK, LinksOK
<1>1. v \in ServRec /\ v.at = "wait" /\ v.task = serv[c].task
  BY <1>0 DEF ServRec
<1>2. l \in LinkRec /\ l.to = Append(link[c].to, serv[c].task) /\ l.from = link[c].from
  <2>1. Append(link[c].to, serv[c].task) \in Seq(Task)
    BY <1>0 DEF LinkRec
  <2> QED BY <1>0, <2>1 DEF LinkRec
<1> HIDE DEF v, l
<1>3. ServsOK' /\ serv'[c] = v /\ \A d \in Client \ {c} : serv'[d] = serv[d]
  BY <1>0, <1>1, OneServ DEF IInv, TypeOK
<1>4. LinksOK' /\ link'[c] = l /\ \A d \in Client \ {c} : link'[d] = link[d]
  BY <1>0, <1>2, OneLink DEF IInv, TypeOK
<1>5. IsNode(c) /\ (IsNode(c)' <=> IsNode(c)) /\ Joining(c) /\ Serving(c)
  BY <1>0, SameNodes DEF IInv, Turns, Joining
<1>6. Joining(c)'
  BY <1>0, <1>5 DEF Joining
<1>7. Serving(c)'
  <2> SUFFICES ASSUME cl[c].st = "joined" PROVE Sent(c)'
    BY <1>0 DEF Serving
  <2>1. NoTask(c)
    BY <1>0, <1>5 DEF Serving, Sent, Working, Answered
  <2>2. link'[c].to = <<serv'[c].task>>
    BY <2>1, <1>1, <1>2, <1>3, <1>4, AppendEmpty DEF NoTask
  <2> QED BY <2>1, <2>2, <1>0, <1>1, <1>2, <1>3, <1>4 DEF NoTask, Sent, Quiet
<1>8. Turns'
  BY <1>0, <1>3, <1>4, <1>6, <1>7, Alone DEF IInv
<1>9. TypeOK'
  BY <1>0, <1>3, <1>4 DEF IInv, TypeOK, SplitsInv, ClientsOK, ListenOK, NodesOK, SchedOK, JobsOK, ResultsOK
<1>10. NoServlets'
  BY <1>0 DEF IInv, NoServlets
<1> QED BY <1>8, <1>9, <1>10 DEF IInv

\* The only line is read.
LEMMA TailOne == ASSUME NEW x PROVE Tail(<<x>>) = <<>>
OBVIOUS

\* ServletRead keeps the invariant.
LEMMA ServletReadStep == ASSUME IInv, NEW c \in Client, ServletRead(c) PROVE IInv'
<1>0. /\ serv[c].at = "wait" /\ serv[c] \in ServRec /\ serv[c].task \in Task /\ link[c] \in LinkRec
      /\ UNCHANGED <<splits, cl, nodes, listener, sched, jobs, splitIndex, faults, results>>
      /\ serv \in [Client -> ServRec] /\ link \in [Client -> LinkRec]
  BY DEF ServletRead, master, IInv, TypeOK, ServsOK, LinksOK
<1>5. IsNode(c) /\ (IsNode(c)' <=> IsNode(c)) /\ Joining(c) /\ Serving(c)
  BY <1>0, SameNodes DEF IInv, Turns, Joining
<1>10. NoServlets'
  BY <1>0 DEF IInv, NoServlets
<1>1. CASE /\ link[c].from # <<>>
           /\ link' = [link EXCEPT ![c].from = Tail(@)]
           /\ serv' = [serv EXCEPT ![c].line = Head(link[c].from), ![c].at =
                         IF Head(link[c].from) = "Task_Finished" THEN "done" ELSE "wait"]
  <2> DEFINE a == IF Head(link[c].from) = "Task_Finished" THEN "done" ELSE "wait"
             h == Head(link[c].from)
             v == [[serv[c] EXCEPT !.line = h] EXCEPT !.at = a]
             l == [link[c] EXCEPT !.from = Tail(@)]
  <2>1. h \in Line /\ Tail(link[c].from) \in Seq(Line) /\ a \in {"wait", "done"}
    BY <1>0, <1>1 DEF LinkRec
  <2>2. serv' = [serv EXCEPT ![c] = v] /\ link' = [link EXCEPT ![c] = l]
    BY <1>0, <1>1
  <2> HIDE DEF a, h
  <2>3. v \in ServRec /\ v.at = a /\ v.task = serv[c].task
    BY <1>0, <2>1 DEF ServRec
  <2>4. l \in LinkRec /\ l.from = Tail(link[c].from) /\ l.to = link[c].to
    BY <1>0, <2>1 DEF LinkRec
  <2> HIDE DEF v, l
  <2>5. ServsOK' /\ serv'[c] = v /\ \A d \in Client \ {c} : serv'[d] = serv[d]
    BY <1>0, <2>2, <2>3, OneServ DEF IInv, TypeOK
  <2>6. LinksOK' /\ link'[c] = l /\ \A d \in Client \ {c} : link'[d] = link[d]
    BY <1>0, <2>2, <2>4, OneLink DEF IInv, TypeOK
  <2>7. Joining(c)'
    BY <1>0, <1>5 DEF Joining
  <2>8. Serving(c)'
    <3> SUFFICES ASSUME cl[c].st = "joined" PROVE NoTask(c)'
      BY <1>0 DEF Serving
    <3>1. Answered(c)
      BY <1>1, <1>5 DEF Serving, NoTask, Sent, Working
    <3>2. PICK m : link[c].from = <<m>>
      BY <3>1 DEF Answered
    <3>3. link'[c].from = <<>> /\ link'[c].to = <<>>
      BY <3>1, <3>2, <2>4, <2>6, TailOne DEF Answered
    <3> QED BY <3>1, <3>3, <1>0 DEF Answered, NoTask, Quiet
  <2>9. Turns'
    BY <1>0, <2>5, <2>6, <2>7, <2>8, Alone DEF IInv
  <2>10. TypeOK'
    BY <1>0, <2>5, <2>6 DEF IInv, TypeOK, SplitsInv, ClientsOK, ListenOK, NodesOK, SchedOK, JobsOK, ResultsOK
  <2> QED BY <2>9, <2>10, <1>10 DEF IInv
<1>2. CASE cl[c].st = "gone" /\ serv' = [serv EXCEPT ![c].at = "done"] /\ UNCHANGED link
  <2> DEFINE v == [serv[c] EXCEPT !.at = "done"]
  <2>1. v \in ServRec /\ v.task = serv[c].task /\ serv' = [serv EXCEPT ![c] = v]
    BY <1>0, <1>2 DEF ServRec
  <2> HIDE DEF v
  <2>2. ServsOK' /\ serv'[c] = v /\ \A d \in Client \ {c} : serv'[d] = serv[d]
    BY <1>0, <2>1, OneServ DEF IInv, TypeOK
  <2>3. Joining(c)' /\ Serving(c)'
    BY <1>0, <1>2, <1>5 DEF Joining, Serving
  <2>4. Turns'
    BY <1>0, <1>2, <2>2, <2>3, Alone DEF IInv
  <2>5. TypeOK'
    BY <1>0, <1>2, <2>2 DEF IInv, TypeOK, SplitsInv, ClientsOK, LinksOK, ListenOK, NodesOK, SchedOK, JobsOK, ResultsOK
  <2> QED BY <2>4, <2>5, <1>10 DEF IInv
<1> QED BY <1>1, <1>2 DEF ServletRead

\* TakeTask keeps the invariant: the task is that of the waiting servlet.
LEMMA TakeTaskStep == ASSUME IInv, NEW c \in Client, TakeTask(c) PROVE IInv'
<1> DEFINE h == Head(link[c].to)
           a == IF Head(link[c].to).kind = "map" THEN "open" ELSE "fetch"
           l == [link[c] EXCEPT !.to = Tail(@)]
           r1 == [[cl[c] EXCEPT !.task = h] EXCEPT !.fetched = {}]
           r2 == [[r1 EXCEPT !.input = {}] EXCEPT !.clean = TRUE]
           r == [r2 EXCEPT !.at = a]
<1>0. /\ cl[c].st = "joined" /\ cl[c].at = "idle" /\ link[c].to # <<>> /\ cl[c] \in ClientRec /\ link[c] \in LinkRec
      /\ link' = [link EXCEPT ![c] = l] /\ cl' = [cl EXCEPT ![c] = r]
      /\ UNCHANGED <<splits, serv, nodes, listener, sched, jobs, splitIndex, faults, results>>
  BY ClientType DEF TakeTask, ClientUnchanged, master
<1>1. h \in Task /\ Tail(link[c].to) \in Seq(Task) /\ a \in Ats \ {"idle", "store"}
  BY <1>0 DEF LinkRec, Ats
<1> HIDE DEF h, a
<1>2. r \in ClientRec
  <2>1. r1 \in ClientRec
    BY <1>0, <1>1, ClientExcept
  <2> HIDE DEF r1
  <2>2. r2 \in ClientRec
    BY <2>1, ClientExcept
  <2> HIDE DEF r2
  <2> QED BY <2>2, <1>1, ClientExcept
<1>3. r.st = "joined" /\ r.task = h /\ r.at = a
  BY <1>0 DEF ClientRec
<1>4. l \in LinkRec /\ l.to = Tail(link[c].to) /\ l.from = link[c].from
  BY <1>0, <1>1 DEF LinkRec
<1> HIDE DEF l, r
<1>5. ClientsOK' /\ cl'[c] = r /\ \A d \in Client \ {c} : cl'[d] = cl[d]
  BY <1>0, <1>1, <1>2, <1>3, OneClient DEF IInv, TypeOK
<1>6. LinksOK' /\ link'[c] = l /\ \A d \in Client \ {c} : link'[d] = link[d]
  BY <1>0, <1>4, OneLink DEF IInv, TypeOK
<1>7. IsNode(c) /\ (IsNode(c)' <=> IsNode(c)) /\ Joining(c) /\ Serving(c)
  BY <1>0, SameNodes DEF IInv, Turns, Joining
<1>8. Joining(c)'
  BY <1>0, <1>3, <1>5, <1>7 DEF Joining
<1>9. Working(c)'
  <2>1. Sent(c)
    BY <1>0, <1>7 DEF Serving, NoTask, Working, Answered
  <2>2. link[c].to = <<serv[c].task>>
    BY <2>1 DEF Sent
  <2>3. h = serv[c].task /\ link'[c].to = <<>> /\ link'[c].from = <<>>
    BY <2>1, <2>2, <1>4, <1>6 DEF h, Sent
  <2> QED BY <2>1, <2>3, <1>0, <1>1, <1>3, <1>5 DEF Working, Sent, Quiet
<1>10. Turns'
  BY <1>0, <1>5, <1>6, <1>8, <1>9, Alone DEF IInv, Serving
<1>11. TypeOK'
  BY <1>0, <1>5, <1>6 DEF IInv, TypeOK, SplitsInv, ListenOK, ServsOK, NodesOK, SchedOK, JobsOK, ResultsOK
<1> QED
  BY <1>0, <1>10, <1>11, SameServs DEF IInv

----------------------------------------------------------------------------
(* All steps, and the theorems. *)

\* No step takes a split away.
LEMMA SplitsGrow == ASSUME IInv, Next PROVE DOMAIN splits \subseteq DOMAIN splits'
<1>1. ASSUME NEW i \in DOMAIN splits, TakeLine(i) \/ ReaderLoop(i) \/ fillQueue(i) \/ ReaderFails(i)
      PROVE  DOMAIN splits' = DOMAIN splits
  <2>1. PICK f : splits' = [splits EXCEPT ![i] = f]
    BY <1>1 DEF TakeLine, ReaderLoop, fillQueue, ReaderFails
  <2> QED BY <2>1
<1>2. ASSUME NEW c \in Client, MapRead(c) PROVE DOMAIN splits' = DOMAIN splits
  <2>1. PICK i \in DOMAIN splits : TakeLine(i)
    BY <1>2 DEF MapRead, readLine
  <2> QED BY <2>1, <1>1
<1>3. ASSUME NEW i \in DOMAIN splits, Reader(i) \/ ReadError(i) PROVE DOMAIN splits' = DOMAIN splits
  BY <1>1, <1>3 DEF Reader, ReadError
<1>4. ASSUME OpenInput PROVE DOMAIN splits \subseteq DOMAIN splits'
  <2>1. splits = <<>> \/ splits' = splits
    BY <1>4 DEF OpenInput, startFileSplitServer
  <2>2. DOMAIN <<>> = {}
    OBVIOUS
  <2> QED BY <2>1, <2>2
<1>5. ASSUME NEW c \in Client, ClientStep(c), ~MapRead(c) PROVE splits' = splits
  BY <1>5 DEF ClientStep, AcceptNumber, TakeTask, OpenHandle, NoSplit, MapFinish, partitionMapOut,
              ReduceFinish, receiveMapPartition
<1>6. ASSUME NEW c \in Client, Accept(c) \/ Disconnect(c) \/ Servlet(c) \/ executeUserMapperFunction(c)
                                \/ executeUserReduceFunction(c)
      PROVE splits' = splits
  BY <1>6 DEF Accept, Disconnect, Servlet, ServletSend, ServletRead, executeUserMapperFunction,
              executeUserReduceFunction, TaskInvalid
<1>7. ASSUME (\E n \in JobConf : Submit(n)) \/ saveClientNodeDetails \/ (Scheduler /\ ~OpenInput)
      PROVE splits' = splits
  BY <1>7 DEF Submit, saveClientNodeDetails, Scheduler, Dequeue, InputUnreadable, NoNodes, JobFinished,
              scheduleMapTasksToSlaveNodes, scheduleReduceTasksToSlaveNodes
<1> QED BY <1>2, <1>3, <1>4, <1>5, <1>6, <1>7 DEF Next

\* A client that has read its split to the end keeps it.
LEMMA ReadingStep == ASSUME IInv, Reading, Next PROVE Reading'
<1>0. cl \in [Client -> ClientRec] /\ DOMAIN splits \subseteq DOMAIN splits'
  BY SplitsGrow DEF IInv, TypeOK, ClientsOK
<1> DEFINE Keeps == \A d \in Client : cl'[d].at = "mapped" =>
                      cl[d].at = "mapped" /\ cl'[d].split = cl[d].split
<1>1. ASSUME Keeps PROVE Reading'
  BY <1>0, <1>1 DEF Reading
<1>c. ASSUME NEW c \in Client, NEW r, cl' = [cl EXCEPT ![c] = r],
             r.at = "mapped" => cl[c].at = "mapped" /\ r.split = cl[c].split
      PROVE  Keeps
  BY <1>0, <1>c
<1>2. CASE cl' = cl
  BY <1>2, <1>1
<1>3. ASSUME NEW c \in Client, MapRead(c) PROVE Reading'
  <2>1. cl[c].split \in DOMAIN splits /\ (cl' = cl \/ cl' = [cl EXCEPT ![c].at = "mapped"])
    BY <1>3 DEF MapRead, readLine
  <2>2. CASE cl' = [cl EXCEPT ![c].at = "mapped"]
    <3>1. cl'[c].split = cl[c].split /\ \A d \in Client \ {c} : cl'[d] = cl[d]
      BY <1>0, <2>2 DEF ClientRec
    <3> QED BY <2>1, <3>1, <1>0 DEF Reading
  <2> QED BY <2>1, <2>2, <1>2
<1>4. ASSUME NEW c \in Client, ClientStep(c), ~MapRead(c) PROVE Reading'
  <2> DEFINE Field(r) == r.at = "mapped" => cl[c].at = "mapped" /\ r.split = cl[c].split
  <2>0. cl[c] \in ClientRec
    BY <1>0
  <2>1. CASE AcceptNumber(c)
    <3>1. cl' = [cl EXCEPT ![c] = [cl[c] EXCEPT !.st = "joined"]]
      BY <2>1, <1>0 DEF AcceptNumber
    <3>2. Field([cl[c] EXCEPT !.st = "joined"])
      BY <2>0 DEF ClientRec
    <3> QED BY <3>1, <3>2, <1>c, <1>1
  <2>2. CASE TakeTask(c)
    <3>1. cl'[c].at # "mapped" /\ \A d \in Client \ {c} : cl'[d] = cl[d]
      BY <2>2, <2>0, <1>0 DEF TakeTask, ClientRec
    <3> QED BY <3>1, <1>1
  <2>3. CASE OpenHandle(c)
    <3>1. cl'[c].at # "mapped" /\ \A d \in Client \ {c} : cl'[d] = cl[d]
      BY <2>3, <2>0, <1>0 DEF OpenHandle, ClientRec
    <3> QED BY <3>1, <1>1
  <2>4. CASE NoSplit(c)
    <3>1. cl'[c].at # "mapped" /\ \A d \in Client \ {c} : cl'[d] = cl[d]
      BY <2>4, <2>0, <1>0 DEF NoSplit, ClientRec
    <3> QED BY <3>1, <1>1
  <2>5. CASE MapFinish(c)
    <3>1. cl'[c].at # "mapped" /\ \A d \in Client \ {c} : cl'[d] = cl[d]
      BY <2>5, <2>0, <1>0 DEF MapFinish, ClientRec
    <3> QED BY <3>1, <1>1
  <2>6. CASE partitionMapOut(c)
    <3>1. cl'[c].at # "mapped" /\ \A d \in Client \ {c} : cl'[d] = cl[d]
      BY <2>6, <2>0, <1>0 DEF partitionMapOut, ClientRec
    <3> QED BY <3>1, <1>1
  <2>7. CASE ReduceFinish(c)
    <3>1. cl'[c].at # "mapped" /\ \A d \in Client \ {c} : cl'[d] = cl[d]
      BY <2>7, <2>0, <1>0 DEF ReduceFinish, ClientRec
    <3> QED BY <3>1, <1>1
  <2>8. CASE \E m \in sched.mappers : receiveMapPartition(c, m)
    <3> PICK m \in sched.mappers : receiveMapPartition(c, m)
      BY <2>8
    <3> DEFINE t == cl[c].task
               from == cl[m.client]
               got == {<<m, line>> : line \in serveMapOutputPartition(m.client, <<t.job, m.no, t.part>>)}
               ok == cl[c].clean /\ from.st = "joined" /\ ~(from.at = "store" /\ from.task.job = t.job)
               r == [[[cl[c] EXCEPT !.fetched = @ \cup {m}] EXCEPT !.input = @ \cup got] EXCEPT !.clean = ok]
    <3>0. cl' = [cl EXCEPT ![c] = r] /\ cl[c].at = "fetch"
      BY <1>0 DEF receiveMapPartition
    <3> HIDE DEF got, ok
    <3>1. r.at = cl[c].at
      BY <2>0 DEF ClientRec
    <3> HIDE DEF r
    <3>2. cl'[c].at # "mapped" /\ \A d \in Client \ {c} : cl'[d] = cl[d]
      BY <3>0, <3>1, <1>0
    <3>3. Keeps
      BY <3>2
    <3> HIDE DEF Keeps
    <3> QED BY <3>3, <1>1
  <2> QED BY <1>4, <2>1, <2>2, <2>3, <2>4, <2>5, <2>6, <2>7, <2>8 DEF ClientStep
<1>5. ASSUME NEW c \in Client, Accept(c) PROVE Reading'
  <2>1. cl'[c].at = cl[c].at /\ cl'[c].split = cl[c].split /\ \A d \in Client \ {c} : cl'[d] = cl[d]
    BY <1>5, <1>0 DEF Accept, ClientRec
  <2> QED BY <2>1, <1>1
<1>6. ASSUME NEW c \in Client, Disconnect(c) PROVE Reading'
  <2>1. cl'[c].at # "mapped" /\ \A d \in Client \ {c} : cl'[d] = cl[d]
    BY <1>6, <1>0 DEF Disconnect, IdleClient
  <2> QED BY <2>1, <1>1
<1>7. ASSUME NEW c \in Client, executeUserMapperFunction(c) \/ executeUserReduceFunction(c) PROVE Reading'
  <2>1. cl' = [cl EXCEPT ![c].at = "idle"]
    BY <1>7 DEF executeUserMapperFunction, executeUserReduceFunction, TaskInvalid
  <2>2. cl'[c].at # "mapped" /\ \A d \in Client \ {c} : cl'[d] = cl[d]
    BY <2>1, <1>0 DEF ClientRec
  <2> QED BY <2>2, <1>1
<1>8. ASSUME NEW c \in Client, Servlet(c) PROVE cl' = cl
  BY <1>8 DEF Servlet, ServletSend, ServletRead
<1>9. ASSUME \/ \E n \in JobConf : Submit(n)
             \/ saveClientNodeDetails \/ Scheduler
             \/ \E i \in DOMAIN splits : Reader(i) \/ ReadError(i)
      PROVE cl' = cl
  BY <1>9 DEF Submit, saveClientNodeDetails, Scheduler, Dequeue, InputUnreadable, NoNodes, OpenInput,
              scheduleMapTasksToSlaveNodes, scheduleReduceTasksToSlaveNodes, JobFinished, Reader, ReadError
<1> QED BY <1>2, <1>3, <1>4, <1>5, <1>6, <1>7, <1>8, <1>9 DEF Next

\* Init establishes the invariant.
LEMMA InitOK == Init => IInv /\ Reading
<1> SUFFICES ASSUME Init PROVE IInv /\ Reading
  OBVIOUS
<1>1. splits = <<>> /\ DOMAIN splits = {} /\ Len(splits) = 0 /\ splits \in Seq(Split)
  BY DEF Init
<1>2. SplitsInv
  BY <1>1 DEF SplitsInv
<1>3. IdleClient \in ClientRec /\ IdleClient.at = "idle" /\ IdleClient.st = "off"
  <2>1. <<>> \in Seq(Nat)
    OBVIOUS
  <2> QED BY <2>1 DEF IdleClient, ClientRec, Ats
<1>4. ClientsOK /\ \A c \in Client : cl[c].at = "idle" /\ cl[c].st = "off"
  BY <1>3 DEF Init, ClientsOK
<1>5. LinksOK /\ \A c \in Client : link[c].to = <<>> /\ link[c].from = <<>>
  <2>1. <<>> \in Seq(Task) /\ <<>> \in Seq(Line)
    OBVIOUS
  <2>2. [to |-> <<>>, from |-> <<>>] \in LinkRec
    BY <2>1 DEF LinkRec
  <2> QED BY <2>2 DEF Init, LinksOK
<1>6. ServsOK /\ \A c \in Client : serv[c].at = "none"
  BY NoServletType DEF Init, ServsOK
<1>7. NodesOK /\ \A c \in Client : ~IsNode(c)
  BY DEF Init, NodesOK, IsNode
<1>8. ListenOK /\ listener.with = None /\ None \notin Client
  BY MRLiteAssumption DEF Init, ListenOK
<1>9. SchedOK /\ JobsOK /\ splitIndex \in Nat /\ faults \in Nat /\ ResultsOK
  <2>1. <<>> \in Seq(Job)
    OBVIOUS
  <2>2. JobsOK
    BY <2>1 DEF Init, JobsOK
  <2> QED BY <2>2 DEF Init, SchedOK, ResultsOK
<1>10. TypeOK
  BY <1>2, <1>4, <1>5, <1>6, <1>7, <1>8, <1>9 DEF TypeOK
<1>11. Turns
  BY <1>4, <1>6, <1>7, <1>8, <1>5 DEF Turns, Joining, Serving
<1> QED BY <1>10, <1>11, <1>4, <1>6 DEF IInv, NoServlets, Reading

\* Every step keeps the invariant.
LEMMA NextKeeps == ASSUME IInv, Reading, Next PROVE IInv' /\ Reading'
<1>1. ASSUME NEW c \in Client, ClientStep(c) PROVE IInv'
  BY <1>1, AcceptNumberStep, TakeTaskStep, OpenHandleStep, NoSplitStep, MapReadStep, MapFinishStep,
     partitionMapOutStep, ReduceFinishStep, receiveStep DEF ClientStep
<1>2. ASSUME NEW c \in Client,
             Accept(c) \/ Disconnect(c) \/ Servlet(c) \/ executeUserMapperFunction(c) \/ executeUserReduceFunction(c)
      PROVE IInv'
  BY <1>2, AcceptStep, DisconnectStep, ServletSendStep, ServletReadStep, UserFunctionSteps DEF Servlet
<1>3. ASSUME Scheduler PROVE IInv'
  BY <1>3, DequeueStep, InputUnreadableStep, NoNodesStep, OpenInputStep, MapPhaseStep, ReducePhaseStep,
     JobFinishedStep DEF Scheduler
<1>4. IInv'
  BY <1>1, <1>2, <1>3, SubmitStep, saveStep, ReaderStep DEF Next
<1> QED BY <1>4, ReadingStep

\* So does a step that changes nothing.
LEMMA StutterKeeps == ASSUME IInv, Reading, UNCHANGED vars PROVE IInv' /\ Reading'
<1>1. TypeOK'
  BY DEF vars, IInv, TypeOK, SplitsInv, ClientsOK, LinksOK, ListenOK, ServsOK, NodesOK, SchedOK, JobsOK, ResultsOK
<1>2. Turns'
  BY SameTurns DEF IInv, vars
<1> QED BY <1>1, <1>2, SameServs DEF IInv, Reading, vars

\* The inductive invariant holds in every state, for every number of clients,
\* every input file, block size and buffer thresholds.
THEOREM Invariance == Spec => [](IInv /\ Reading)
<1>1. Init => IInv /\ Reading
  BY InitOK
<1>2. (IInv /\ Reading) /\ [Next]_vars => (IInv /\ Reading)'
  BY NextKeeps, StutterKeeps
<1> QED BY <1>1, <1>2, PTL DEF Spec

\* Every line of the file reaches the mapper of exactly one split, once and in
\* order (FileSplitBuffer, SplitQueueReader, SplitQueue), for every file, number
\* of nodes, block size and buffer thresholds.
THEOREM LinesOnceHolds == Spec => []LinesOnce
<1>1. IInv /\ Reading => LinesOnce
  BY LinesOnceFollows DEF IInv, TypeOK
<1> QED BY <1>1, Invariance, PTL

\* The line that ends a JobServlet answers the task it sent (JobServlet, JobClient),
\* for any number of clients, jobs and faults.
THEOREM AnswersMatchHolds == Spec => []AnswersMatch
<1>1. IInv /\ Reading => AnswersMatch
  BY AnswersMatchFollows DEF IInv
<1> QED BY <1>1, Invariance, PTL

----------------------------------------------------------------------------
(* ReduceExact: the copies of a line. *)

\* The key under which a map task stores a line.
TaskKey(t, line) == <<t.job, t.no, getPartition(line, t.reduce)>>

\* Node c's line, under key: in its store, still to be stored, in the input of a
\* reducer, or in a result.
Stored(c, key, line)  == \E p \in cl[c].store : p.key = key /\ p.line = line
ToStore(c, key, line) == /\ cl[c].at = "store" /\ line \in Range(cl[c].rest)
                         /\ key = TaskKey(cl[c].task, line)
Fetched(c, key, line) == \E d \in Client : \E p \in cl[d].input :
    p[1].client = c /\ p[2] = line /\ key = <<cl[d].task.job, p[1].no, cl[d].task.part>>
Reduced(c, key, line) == \E r \in results : \E p \in UNION r.groups :
    p[1].client = c /\ p[2] = line /\ key = <<r.job, p[1].no, r.part>>
Copy(c, key, line) == \/ Stored(c, key, line) \/ ToStore(c, key, line)
                      \/ Fetched(c, key, line) \/ Reduced(c, key, line)

\* A split is used up when no mapper will read or report it any more.
UsedUp(i) == /\ i \in DOMAIN splits /\ i <= splitIndex
             /\ \A c \in Client : cl[c].at \in {"read", "mapped"} => cl[c].split # i

\* All copies of a line have one client and one key, and its split is used up.
OneOrigin ==
    /\ \A c, d \in Client : \A k, l, line :
         Copy(c, k, line) /\ Copy(d, l, line) => c = d /\ k = l
    /\ \A c \in Client : \A k, line : Copy(c, k, line) =>
         \E i \in DOMAIN splits : UsedUp(i) /\ line \in Range(splits[i].read)

\* The pill is not handed out as a line.
NoPill == \A i \in DOMAIN splits :
    POISON_PILL \notin Range(splits[i].read) \cup Range(splits[i].block)

\* A split is handed out once.
SplitsApart ==
    /\ \A c \in Client : cl[c].split # None => cl[c].split \in 1 .. splitIndex
    /\ \A c, d \in Client : c # d /\ cl[c].split # None => cl[c].split # cl[d].split

\* What was copied is still in the store of a node that is there.
StillStored ==
    \A c \in Client : \A key, line :
      Fetched(c, key, line) \/ Reduced(c, key, line) => Stored(c, key, line) \/ cl[c].st = "gone"

\* The groups of a result have a line each.
ByLine(r) == r.groups = {{q \in UNION r.groups : q[2] = p[2]} : p \in UNION r.groups}
Grouped   == \A r \in results : ByLine(r)

\* A client is one node, ...
NodesApart == \A j, k \in DOMAIN nodes : nodes[j][2] = nodes[k][2] => j = k

\* ... and maps and stores under its own number.
NumberOf(c, k) == k \in DOMAIN nodes /\ nodes[k][2] = c
Numbered ==
    \A c \in Client :
      /\ \A p \in cl[c].store : NumberOf(c, p.key[2])
      /\ cl[c].at = "fetch" <=> cl[c].at # "idle" /\ cl[c].task.kind = "reduce"
      /\ cl[c].at # "idle" /\ cl[c].task.kind = "map" => NumberOf(c, cl[c].task.no)
      /\ serv[c].at # "none" /\ serv[c].task.kind = "map" => NumberOf(c, serv[c].task.no)

----------------------------------------------------------------------------
(* ReduceExact: nothing is missing while no client is lost. *)

NoneGone == \A c \in Client : cl[c].st # "gone"
\* The first job that gets splits has not begun, has them, is mapped, or is
\* reduced; later jobs find no split left and never end.
Before   == jobs.finished = <<>> /\ sched.at \in {"wait", "map", "dead"}
Opened   == jobs.finished = <<>> /\ sched.at = "split"
Mapping  == jobs.finished = <<>> /\ sched.at = "mapping"
Reducing == jobs.finished = <<>> /\ sched.at = "reducing"
Later    == jobs.finished # <<>>

\* The first nodes, one per split, are mappers of the first job.
Mapper(k) == nodes[k][2]
SplitMappers == {[client |-> Mapper(k), no |-> k] : k \in DOMAIN splits}

\* A line of its split is in the mapper's store, or will be.
Keeps(c, line) ==
    \/ \E p \in cl[c].store : p.line = line /\ p.key[1] = sched.job.no
    \/ cl[c].at = "store" /\ line \in Range(cl[c].rest)

Mapped(c) == serv[c].at = "done" \/ "Task_Finished" \in Range(link[c].from)

BeforeOK == Before => /\ splits = <<>> /\ results = {}
                      /\ \A c \in Client : cl[c].at = "idle"

OpenedOK == Opened =>
    /\ splits # <<>> /\ DOMAIN splits \subseteq DOMAIN nodes /\ SplitMappers \subseteq sched.mappers
    /\ results = {}
    /\ \A c \in Client : cl[c].at = "idle"

FirstOK == Mapping \/ Reducing =>
    /\ splits # <<>> /\ DOMAIN splits \subseteq DOMAIN nodes /\ SplitMappers \subseteq sched.mappers
    /\ \A c \in Client :
         /\ cl[c].at # "idle" => cl[c].task.job = sched.job.no
         /\ serv[c].at # "none" =>
              /\ serv[c].task.job = sched.job.no
              /\ serv[c].task.kind = IF Mapping THEN "map" ELSE "reduce"
              /\ Reducing => serv[c].task.mappers = sched.mappers

MappingOK == Mapping =>
    /\ results = {}
    /\ \A k \in DOMAIN splits : serv[Mapper(k)].at # "none"
    /\ \A c \in Client : Mapped(c) =>
         /\ cl[c].split \in DOMAIN splits /\ cl[c].at \notin {"read", "mapped"}
         /\ \A line \in Range(splits[cl[c].split].read) : Keeps(c, line)

\* No more lines are read once the first job is mapped.
ReadOut == Reducing \/ Later =>
    /\ splits # <<>> /\ DOMAIN splits \subseteq 1 .. splitIndex
    /\ \A c \in Client : /\ cl[c].at # "mapped"
                         /\ cl[c].at = "read" => cl[c].split \notin DOMAIN splits

LaterOK == Later =>
    /\ sched.at # "reducing"
    /\ sched.at = "split" => sched.mappers # {}
    /\ sched.at = "mapping" =>
         /\ \E c \in Client : serv[c].at # "none"
         /\ \A c \in Client : ~Mapped(c) /\ (serv[c].at # "none" => serv[c].task.kind = "map")

ReducingOK == Reducing =>
    /\ \A i \in DOMAIN splits : \A line \in Range(splits[i].read) :
         \E k \in DOMAIN splits : Keeps(Mapper(k), line)
    /\ \A c \in Client : cl[c].at = "fetch" /\ cl[c].clean =>
         \A m \in cl[c].fetched :
            /\ cl[m.client].at # "store"
            /\ \A p \in cl[m.client].store :
                 p.key = <<cl[c].task.job, m.no, cl[c].task.part>> => <<m, p.line>> \in cl[c].input

\* A line that is not in a clean result is stored for another partition.
Complete ==
    \A r \in results : r.clean =>
      \A i \in DOMAIN splits : \A line \in Range(splits[i].read) :
        \/ \E p \in UNION r.groups : p[2] = line
        \/ \E c \in Client : \E p \in cl[c].store :
             p.line = line /\ p.key[1] = r.job /\ p.key[3] # r.part

WholeOK == NoneGone => BeforeOK /\ OpenedOK /\ FirstOK /\ MappingOK /\ ReadOut /\ LaterOK /\ ReducingOK /\ Complete

----------------------------------------------------------------------------
(* What each action changes. *)

\* All clients but c are left alone.
OnlyClient(c) == \A d \in Client \ {c} : cl'[d] = cl[d]

\* The steps of a client that neither reads nor stores change its fields as follows.
LEMMA AcceptFields ==
  ASSUME IInv, NEW c \in Client, Accept(c) \/ AcceptNumber(c)
  PROVE  /\ OnlyClient(c) /\ cl[c].st # "gone" /\ cl'[c].st # "gone"
         /\ \A f \in {"at", "task", "split", "rest", "store", "fetched", "input", "clean"} : cl'[c][f] = cl[c][f]
         /\ UNCHANGED <<splits, serv, nodes, sched, jobs, splitIndex, results>>
         /\ Accept(c) => link' = link
         /\ AcceptNumber(c) => Reply(c, "CLIENT_NUMBER_ACCEPTED")
BY ClientType DEF Accept, AcceptNumber, OnlyClient, ClientRec, master

\* A client that leaves has nothing any more.
LEMMA DisconnectFields ==
  ASSUME IInv, NEW c \in Client, Disconnect(c)
  PROVE  /\ OnlyClient(c) /\ cl[c].st # "gone" /\ cl'[c].st = "gone" /\ cl'[c].at = "idle" /\ cl'[c].split = None
         /\ cl'[c].store = {} /\ cl'[c].input = {}
         /\ UNCHANGED <<splits, link, serv, nodes, sched, jobs, splitIndex, results>>
BY ClientType DEF Disconnect, OnlyClient, ClientRec, master, IdleClient

\* A client takes the task of its servlet.
LEMMA TakeTaskFields ==
  ASSUME IInv, NEW c \in Client, TakeTask(c)
  PROVE  /\ OnlyClient(c) /\ cl[c].at = "idle" /\ cl[c].st = "joined" /\ link[c].to # <<>>
         /\ cl'[c].at = IF cl'[c].task.kind = "map" THEN "open" ELSE "fetch"
         /\ cl'[c].input = {} /\ cl'[c].fetched = {} /\ cl'[c].task = Head(link[c].to)
         /\ \A f \in {"st", "split", "rest", "store"} : cl'[c][f] = cl[c][f]
         /\ link' = [link EXCEPT ![c].to = Tail(@)]
         /\ UNCHANGED <<splits, serv, nodes, sched, jobs, splitIndex, results>>
BY ClientType, SMTT(40) DEF TakeTask, OnlyClient, ClientRec, ClientUnchanged, master

\* A task is invalid.
Gives(c) == executeUserMapperFunction(c) \/ executeUserReduceFunction(c) \/ NoSplit(c)
\* What the scheduler's steps that give out tasks, and those that begin and end, leave alone.
LEMMA GivesFields ==
  ASSUME IInv, NEW c \in Client, Gives(c)
  PROVE  /\ OnlyClient(c) /\ cl[c].at # "store" /\ cl'[c].at = "idle" /\ cl[c].at # "idle"
         /\ \A f \in {"st", "task", "split", "rest", "store", "fetched", "input", "clean"} : cl'[c][f] = cl[c][f]
         /\ Reply(c, "Invalid Task configuration provided")
         /\ UNCHANGED <<splits, serv, nodes, sched, jobs, splitIndex, results>>
<1>1. /\ cl' = [cl EXCEPT ![c].at = "idle"] /\ Reply(c, "Invalid Task configuration provided")
      /\ UNCHANGED <<splits, serv, nodes, listener, sched, jobs, splitIndex, results>>
      /\ cl[c].at \in {"open", "mapped", "fetch", "read"}
  BY DEF Gives, executeUserMapperFunction, executeUserReduceFunction, NoSplit, TaskInvalid, ClientUnchanged, master
<1>2. cl \in [Client -> ClientRec] /\ cl[c] \in ClientRec
  BY ClientType
<1> QED BY <1>1, <1>2 DEF OnlyClient, ClientRec

\* A mapper is given the next split.
LEMMA OpenFields ==
  ASSUME IInv, NEW c \in Client, OpenHandle(c)
  PROVE  /\ OnlyClient(c) /\ cl[c].at = "open" /\ cl'[c].at = "read"
         /\ cl'[c].split = splitIndex + 1 /\ splitIndex' = splitIndex + 1
         /\ \A f \in {"st", "task", "rest", "store", "fetched", "input", "clean"} : cl'[c][f] = cl[c][f]
         /\ UNCHANGED <<splits, link, serv, nodes, sched, jobs, results>>
BY ClientType DEF OpenHandle, nextSplit, OnlyClient, ClientRec, ClientUnchanged, master

\* A mapper reads a line, or finds that there are no more.
LEMMA MapReadFields ==
  ASSUME IInv, NEW c \in Client, MapRead(c)
  PROVE  /\ OnlyClient(c) /\ cl[c].at = "read" /\ cl'[c].at \in {"read", "mapped"}
         /\ cl[c].split \in DOMAIN splits /\ TakeLine(cl[c].split)
         /\ \A f \in {"st", "task", "split", "rest", "store", "fetched", "input", "clean"} : cl'[c][f] = cl[c][f]
         /\ UNCHANGED <<link, serv, nodes, sched, jobs, splitIndex, results>>
BY ClientType DEF MapRead, readLine, OnlyClient, ClientRec, ClientUnchanged, master

\* A mapper reports what it has read.
LEMMA MapFinishFields ==
  ASSUME IInv, NEW c \in Client, MapFinish(c)
  PROVE  /\ OnlyClient(c) /\ cl[c].at = "mapped" /\ cl'[c].at = "store"
         /\ cl'[c].rest = splits[cl[c].split].read
         /\ \A f \in {"st", "task", "split", "store", "fetched", "input", "clean"} : cl'[c][f] = cl[c][f]
         /\ Reply(c, "Task_Finished")
         /\ UNCHANGED <<splits, serv, nodes, sched, jobs, splitIndex, results>>
BY ClientType DEF MapFinish, OnlyClient, ClientRec, ClientUnchanged, master

\* A mapper stores a line, or has stored all.
LEMMA StoreFields ==
  ASSUME IInv, NEW c \in Client, partitionMapOut(c)
  PROVE  /\ OnlyClient(c) /\ cl[c].at = "store"
         /\ \/ /\ cl[c].rest = <<>> /\ cl'[c].at = "idle" /\ cl'[c].store = cl[c].store /\ cl'[c].rest = cl[c].rest
            \/ /\ cl[c].rest # <<>> /\ cl'[c].at = "store" /\ cl'[c].rest = Tail(cl[c].rest)
               /\ cl'[c].store = cl[c].store \cup {[key  |-> TaskKey(cl[c].task, Head(cl[c].rest)),
                                                    line |-> Head(cl[c].rest)]}
         /\ \A f \in {"st", "task", "split", "fetched", "input", "clean"} : cl'[c][f] = cl[c][f]
         /\ UNCHANGED <<splits, link, serv, nodes, sched, jobs, splitIndex, results>>
BY ClientType DEF partitionMapOut, putKeyValue, TaskKey, OnlyClient, ClientRec, ClientUnchanged, master

\* A reducer copies from node m.
LEMMA FetchFields ==
  ASSUME IInv, NEW c \in Client, NEW m, receiveMapPartition(c, m)
  PROVE  /\ OnlyClient(c) /\ cl[c].at = "fetch" /\ m \in cl[c].task.mappers
         /\ cl'[c].fetched = cl[c].fetched \cup {m}
         /\ cl'[c].input = cl[c].input \cup {<<m, p.line>> : p \in
               {q \in cl[m.client].store : q.key = <<cl[c].task.job, m.no, cl[c].task.part>>}}
         /\ cl'[c].clean => cl[c].clean /\ ~(cl[m.client].at = "store" /\ cl[m.client].task.job = cl[c].task.job)
         /\ \A f \in {"st", "at", "task", "split", "rest", "store"} : cl'[c][f] = cl[c][f]
         /\ UNCHANGED <<splits, link, serv, nodes, sched, jobs, splitIndex, results>>
<1> DEFINE t == cl[c].task
           from == cl[m.client]
           found == {q \in from.store : q.key = <<t.job, m.no, t.part>>}
           got == {<<m, line>> : line \in serveMapOutputPartition(m.client, <<t.job, m.no, t.part>>)}
           ok == cl[c].clean /\ from.st = "joined" /\ ~(from.at = "store" /\ from.task.job = t.job)
<1>1. got = {<<m, p.line>> : p \in found}
  BY DEF serveMapOutputPartition, getValueForKey
<1>2. /\ cl' = [cl EXCEPT ![c].fetched = @ \cup {m}, ![c].input = @ \cup got, ![c].clean = ok]
      /\ cl[c].at = "fetch" /\ m \in t.mappers
      /\ UNCHANGED <<splits, link, serv, nodes, sched, jobs, splitIndex, results>>
  BY DEF receiveMapPartition, ClientUnchanged, master
<1>3. cl \in [Client -> ClientRec] /\ cl[c] \in ClientRec
  BY ClientType
<1>4. ok => cl[c].clean /\ ~(from.at = "store" /\ from.task.job = t.job)
  OBVIOUS
<1> HIDE DEF got, ok
<1>5. /\ OnlyClient(c) /\ cl'[c].fetched = cl[c].fetched \cup {m} /\ cl'[c].input = cl[c].input \cup got
      /\ cl'[c].clean = ok
      /\ \A f \in {"st", "at", "task", "split", "rest", "store"} : cl'[c][f] = cl[c][f]
  BY <1>2, <1>3 DEF OnlyClient, ClientRec
<1> QED BY <1>1, <1>2, <1>4, <1>5

\* A reducer ends: its result, if it has one, are its input's lines.
LEMMA ReduceFields ==
  ASSUME IInv, NEW c \in Client, ReduceFinish(c)
  PROVE  /\ OnlyClient(c) /\ cl[c].at = "fetch" /\ cl'[c].at = "idle" /\ cl[c].fetched = cl[c].task.mappers
         /\ \A f \in {"st", "task", "split", "rest", "store", "fetched", "input", "clean"} : cl'[c][f] = cl[c][f]
         /\ UNCHANGED <<splits, serv, nodes, sched, jobs, splitIndex>>
         /\ \/ Reply(c, "Invalid Task configuration provided") /\ results' = results
            \/ Reply(c, "Task_Finished") /\ \E r :
                 /\ results' = results \cup {r} /\ r.job = cl[c].task.job /\ r.part = cl[c].task.part
                 /\ r.clean = cl[c].clean /\ UNION r.groups = cl[c].input /\ ByLine(r)
<1> DEFINE grouped == groupMapResultsByKey(cl[c].input)
           r == [job |-> cl[c].task.job, part |-> cl[c].task.part, groups |-> grouped, clean |-> cl[c].clean]
<1>1. ASSUME None \notin grouped PROVE UNION grouped = cl[c].input /\ grouped = {{q \in cl[c].input : q[2] = p[2]} : p \in cl[c].input}
  <2>1. grouped = {{q \in cl[c].input : q[2] = p[2]} : p \in cl[c].input}
    BY <1>1 DEF groupMapResultsByKey
  <2>2. ASSUME NEW p \in cl[c].input PROVE p \in UNION grouped
    <3>1. p \in {q \in cl[c].input : q[2] = p[2]} /\ {q \in cl[c].input : q[2] = p[2]} \in grouped
      BY <2>1
    <3> QED BY <3>1
  <2>3. UNION grouped \subseteq cl[c].input
    BY <2>1
  <2> QED BY <2>1, <2>2, <2>3
<1>2. r.job = cl[c].task.job /\ r.part = cl[c].task.part /\ r.clean = cl[c].clean /\ r.groups = grouped
  OBVIOUS
<1>3. /\ OnlyClient(c) /\ cl[c].at = "fetch" /\ cl'[c].at = "idle" /\ cl[c].fetched = cl[c].task.mappers
      /\ \A f \in {"st", "task", "split", "rest", "store", "fetched", "input", "clean"} : cl'[c][f] = cl[c][f]
      /\ UNCHANGED <<splits, serv, nodes, sched, jobs, splitIndex>>
  BY ClientType DEF ReduceFinish, shuffle, OnlyClient, ClientRec, ClientUnchanged, master
<1>4. \/ Reply(c, "Invalid Task configuration provided") /\ results' = results
      \/ Reply(c, "Task_Finished") /\ None \notin grouped /\ results' = results \cup {r}
  BY DEF ReduceFinish
<1>5. ASSUME None \notin grouped PROVE UNION r.groups = cl[c].input /\ ByLine(r)
  BY <1>1, <1>2, <1>5 DEF ByLine
<1> HIDE DEF r, grouped
<1> QED BY <1>2, <1>3, <1>4, <1>5

\* Whatever is neither a client's step nor a phase's.
Aside == \/ \E c \in Client : Servlet(c)
         \/ \E n \in JobConf : Submit(n)
         \/ saveClientNodeDetails \/ Scheduler
         \/ \E i \in DOMAIN splits : Reader(i) \/ ReadError(i)

\* Steps beside the clients leave them, the results and the splits handed out alone.
LEMMA AsideFields == ASSUME Aside PROVE UNCHANGED <<cl, results, splitIndex>>
BY DEF Aside, Servlet, ServletSend, ServletRead, Submit, saveClientNodeDetails, Scheduler, Dequeue,
       InputUnreadable, NoNodes, OpenInput, scheduleMapTasksToSlaveNodes, scheduleReduceTasksToSlaveNodes, JobFinished, Reader, ReadError, Fault,
       master

\* The actions, each under the name of its effect.
LEMMA Actions ==
  ASSUME Next
  PROVE  \/ Aside
         \/ \E c \in Client :
              \/ Accept(c) \/ AcceptNumber(c) \/ Disconnect(c) \/ TakeTask(c) \/ Gives(c) \/ OpenHandle(c)
              \/ MapRead(c) \/ MapFinish(c) \/ partitionMapOut(c) \/ ReduceFinish(c)
              \/ \E m \in sched.mappers : receiveMapPartition(c, m)
BY DEF Next, Aside, ClientStep, Gives

----------------------------------------------------------------------------
(* What has been read, and the copies of it. *)

\* What has been read grows, for a split with a mapper at work only, and splits stay.
LEMMA Reads ==
  ASSUME IInv, Next
  PROVE  /\ \A i \in DOMAIN splits :
              /\ i \in DOMAIN splits' /\ Range(splits[i].read) \subseteq Range(splits'[i].read)
              /\ \/ splits'[i].read = splits[i].read
                 \/ \E c \in Client : cl[c].at = "read" /\ cl[c].split = i
         /\ splits # <<>> => splits' # <<>> /\ DOMAIN splits' = DOMAIN splits
<1> DEFINE Good == /\ \A i \in DOMAIN splits :
                        /\ i \in DOMAIN splits' /\ Range(splits[i].read) \subseteq Range(splits'[i].read)
                        /\ \/ splits'[i].read = splits[i].read
                           \/ \E c \in Client : cl[c].at = "read" /\ cl[c].split = i
                   /\ splits # <<>> => splits' # <<>> /\ DOMAIN splits' = DOMAIN splits
<1>0. SplitsInv /\ splits \in Seq(Split)
  BY DEF IInv, TypeOK, SplitsInv
<1>1. ASSUME splits' = splits PROVE Good
  BY <1>1
<1>2. ASSUME NEW i \in DOMAIN splits, NEW f, splits' = [splits EXCEPT ![i] = f],
             Range(splits[i].read) \subseteq Range(f.read),
             f.read = splits[i].read \/ \E c \in Client : cl[c].at = "read" /\ cl[c].split = i
      PROVE  Good
  <2>1. DOMAIN splits' = DOMAIN splits /\ splits' # <<>> /\ \A j \in DOMAIN splits : splits'[j] = IF j = i THEN f ELSE splits[j]
    BY <1>0, <1>2
  <2> QED BY <2>1, <1>2
<1>3. ASSUME NEW i \in DOMAIN splits, ReaderLoop(i) \/ fillQueue(i) \/ ReaderFails(i) PROVE Good
  <2>1. splits[i] \in Split
    BY <1>0, SplitsSet
  <2>2. PICK f : splits' = [splits EXCEPT ![i] = f] /\ f.read = splits[i].read
    BY <1>3, <2>1 DEF ReaderLoop, fillQueue, ReaderFails, Split
  <2> QED BY <2>2, <1>2
<1>4. ASSUME NEW c \in Client, MapRead(c) PROVE Good
  <2> DEFINE i == cl[c].split
             s == splits[i]
  <2>1. i \in DOMAIN splits /\ TakeLine(i) /\ cl[c].at = "read"
    BY <1>4, MapReadFields
  <2>2. s \in Split /\ s.read \in Seq(Nat) /\ s.block \in Seq(Nat) /\ s.queue \in Seq(Nat) /\ s.queue # <<>>
    BY <2>1, <1>0, SplitsSet DEF Split, TakeLine
  <2>3. Append(s.block, Head(s.queue)) \in Seq(Nat)
    BY <2>2
  <2>4. \A x \in Seq(Nat) : Range(s.read) \subseteq Range(s.read \o x)
    <3> SUFFICES ASSUME NEW x \in Seq(Nat), NEW k \in DOMAIN s.read PROVE s.read[k] \in Range(s.read \o x)
      BY DEF Range
    <3>1. k \in DOMAIN (s.read \o x) /\ (s.read \o x)[k] = s.read[k]
      BY <2>2
    <3> QED BY <3>1 DEF Range
  <2>5. PICK f : splits' = [splits EXCEPT ![i] = f] /\ Range(s.read) \subseteq Range(f.read)
    <3>1. CASE splits' = [splits EXCEPT ![i].queue = Tail(@), ![i].empty = TRUE,
                                        ![i].read = @ \o s.block, ![i].block = <<>>]
      <4> DEFINE f == [s EXCEPT !.queue = Tail(@), !.empty = TRUE, !.read = @ \o s.block, !.block = <<>>]
      <4>1. splits' = [splits EXCEPT ![i] = f] /\ f.read = s.read \o s.block
        BY <3>1, <2>2, <2>1 DEF Split
      <4> HIDE DEF f
      <4> QED BY <4>1, <2>2, <2>4
    <3>2. CASE splits' = [splits EXCEPT ![i].queue = Tail(@),
                                        ![i].read = @ \o Append(s.block, Head(s.queue)), ![i].block = <<>>]
      <4> DEFINE f == [s EXCEPT !.queue = Tail(@), !.read = @ \o Append(s.block, Head(s.queue)), !.block = <<>>]
      <4>1. splits' = [splits EXCEPT ![i] = f] /\ f.read = s.read \o Append(s.block, Head(s.queue))
        BY <3>2, <2>2, <2>1 DEF Split
      <4> HIDE DEF f
      <4> QED BY <4>1, <2>3, <2>4
    <3>3. CASE splits' = [splits EXCEPT ![i].queue = Tail(@), ![i].block = Append(s.block, Head(s.queue))]
      <4> DEFINE f == [s EXCEPT !.queue = Tail(@), !.block = Append(s.block, Head(s.queue))]
      <4>1. splits' = [splits EXCEPT ![i] = f] /\ f.read = s.read
        BY <3>3, <2>2, <2>1 DEF Split
      <4> HIDE DEF f
      <4> QED BY <4>1
    <3> QED BY <3>1, <3>2, <3>3, <2>1 DEF TakeLine
  <2> QED BY <2>1, <2>5, <1>2
<1>5. ASSUME Aside PROVE Good
  <2>1. ASSUME NEW i \in DOMAIN splits, Reader(i) \/ ReadError(i) PROVE Good
    BY <2>1, <1>3 DEF Reader, ReadError
  <2>2. CASE OpenInput
    <3>1. splits' = splits \/ splits = <<>>
      BY <2>2 DEF OpenInput, startFileSplitServer
    <3>2. DOMAIN <<>> = {}
      OBVIOUS
    <3> QED BY <3>1, <3>2, <1>1
  <2>3. CASE \/ Dequeue \/ InputUnreadable \/ NoNodes \/ JobFinished \/ saveClientNodeDetails
             \/ scheduleMapTasksToSlaveNodes \/ scheduleReduceTasksToSlaveNodes
    <3>1. splits' = splits
      BY <2>3 DEF Dequeue, InputUnreadable, NoNodes, JobFinished, saveClientNodeDetails,
                  scheduleMapTasksToSlaveNodes, scheduleReduceTasksToSlaveNodes
    <3> QED BY <3>1, <1>1
  <2>4. ASSUME NEW c \in Client, Servlet(c) PROVE Good
    BY <2>4, <1>1 DEF Servlet, ServletSend, ServletRead
  <2>5. ASSUME NEW n \in JobConf, Submit(n) PROVE Good
    BY <2>5, <1>1 DEF Submit
  <2> HIDE DEF Good
  <2> QED BY <1>5, <2>1, <2>2, <2>3, <2>4, <2>5 DEF Aside, Scheduler
<1>6. ASSUME NEW c \in Client,
             \/ Accept(c) \/ AcceptNumber(c) \/ Disconnect(c) \/ TakeTask(c) \/ Gives(c) \/ OpenHandle(c)
             \/ MapFinish(c) \/ partitionMapOut(c) \/ ReduceFinish(c)
             \/ \E m \in sched.mappers : receiveMapPartition(c, m)
      PROVE  Good
  <2>1. splits' = splits
    BY <1>6, AcceptFields, DisconnectFields, TakeTaskFields, GivesFields, OpenFields, MapFinishFields,
       StoreFields, ReduceFields, FetchFields
  <2> QED BY <2>1, <1>1
<1> HIDE DEF Good
<1>7. Good
  BY <1>4, <1>5, <1>6, Actions
<1> QED BY <1>7 DEF Good

\* Sequences: the head and the tail have the lines of the whole.
LEMMA HeadTail ==
  ASSUME NEW q \in Seq(Nat), q # <<>>
  PROVE  /\ Head(q) \in Range(q) /\ Range(Tail(q)) \subseteq Range(q)
         /\ \A x \in Range(q) : x = Head(q) \/ x \in Range(Tail(q))
<1>1. Len(q) \in Nat \ {0} /\ DOMAIN q = 1 .. Len(q) /\ Head(q) = q[1] /\ 1 \in DOMAIN q
  OBVIOUS
<1>2. Tail(q) \in Seq(Nat) /\ DOMAIN Tail(q) = 1 .. Len(q) - 1 /\ \A k \in 1 .. Len(q) - 1 : Tail(q)[k] = q[k + 1]
  OBVIOUS
<1>3. ASSUME NEW k \in DOMAIN Tail(q) PROVE Tail(q)[k] \in Range(q)
  <2>1. k + 1 \in DOMAIN q /\ Tail(q)[k] = q[k + 1]
    BY <1>1, <1>2
  <2> QED BY <2>1 DEF Range
<1>4. ASSUME NEW k \in DOMAIN q, k # 1 PROVE q[k] \in Range(Tail(q))
  <2>1. k - 1 \in DOMAIN Tail(q) /\ Tail(q)[k - 1] = q[k]
    BY <1>1, <1>2, <1>4
  <2> QED BY <2>1 DEF Range
<1> QED BY <1>1, <1>3, <1>4 DEF Range

\* Only MapFinish makes copies of lines that have none.
LEMMA CopiesKept ==
  ASSUME IInv, Next, \A c \in Client : ~MapFinish(c)
  PROVE  \A d \in Client : \A k, line : Copy(d, k, line)' => Copy(d, k, line)
<1> DEFINE Old == \A d \in Client : \A k, line : Copy(d, k, line)' => Copy(d, k, line)
<1>1. ASSUME Aside PROVE Old
  <2>1. UNCHANGED <<cl, results>>
    BY <1>1, AsideFields
  <2> QED BY <2>1 DEF Copy, Stored, ToStore, Fetched, Reduced
<1>2. ASSUME results' = results, NEW c \in Client, OnlyClient(c), cl'[c].store \subseteq cl[c].store,
             \/ cl'[c].at # "store"
             \/ cl'[c].at = cl[c].at /\ cl'[c].rest = cl[c].rest /\ cl'[c].task = cl[c].task,
             cl'[c].input = {} \/ (cl'[c].input = cl[c].input /\ cl'[c].task = cl[c].task)
      PROVE  Old
  <2> SUFFICES ASSUME NEW d \in Client, NEW k, NEW line, Copy(d, k, line)' PROVE Copy(d, k, line)
    OBVIOUS
  <2>1. CASE Stored(d, k, line)'
    <3>1. Stored(d, k, line)
      BY <2>1, <1>2 DEF Stored, OnlyClient
    <3> QED BY <3>1 DEF Copy
  <2>2. CASE ToStore(d, k, line)'
    <3>1. ToStore(d, k, line)
      BY <2>2, <1>2 DEF ToStore, OnlyClient
    <3> QED BY <3>1 DEF Copy
  <2>3. CASE Fetched(d, k, line)'
    <3>1. Fetched(d, k, line)
      BY <2>3, <1>2 DEF Fetched, OnlyClient
    <3> QED BY <3>1 DEF Copy
  <2>4. CASE Reduced(d, k, line)'
    <3>1. Reduced(d, k, line)
      BY <2>4, <1>2 DEF Reduced
    <3> QED BY <3>1 DEF Copy
  <2> QED BY <2>1, <2>2, <2>3, <2>4 DEF Copy
<1>3. ASSUME NEW c \in Client, Accept(c) \/ AcceptNumber(c) PROVE Old
  BY <1>2, <1>3, AcceptFields
<1>4. ASSUME NEW c \in Client, Disconnect(c) PROVE Old
  <2>1. cl'[c].at # "store" /\ cl'[c].input = {} /\ cl'[c].store \subseteq cl[c].store /\ OnlyClient(c) /\ results' = results
    BY <1>4, DisconnectFields
  <2> HIDE DEF Old
  <2> QED BY <2>1, <1>2
<1>5. ASSUME NEW c \in Client, TakeTask(c) PROVE Old
  <2>1. cl'[c].at # "store" /\ cl'[c].input = {} /\ cl'[c].store \subseteq cl[c].store /\ OnlyClient(c) /\ results' = results
    BY <1>5, TakeTaskFields
  <2> HIDE DEF Old
  <2> QED BY <2>1, <1>2
<1>6. ASSUME NEW c \in Client, Gives(c) PROVE Old
  BY <1>2, <1>6, GivesFields
<1>7. ASSUME NEW c \in Client, OpenHandle(c) PROVE Old
  BY <1>2, <1>7, OpenFields
<1>8. ASSUME NEW c \in Client, MapRead(c) PROVE Old
  <2>1. cl'[c].at # "store"
    BY <1>8, MapReadFields
  <2> QED BY <2>1, <1>2, <1>8, MapReadFields
<1>9. ASSUME NEW c \in Client, partitionMapOut(c) PROVE Old
  <2>1. CASE cl[c].rest = <<>>
    BY <2>1, <1>2, <1>9, StoreFields
  <2>2. CASE cl[c].rest # <<>>
    <3>0. cl[c].rest \in Seq(Nat)
      BY ClientType DEF ClientRec
    <3>1. /\ results' = results /\ OnlyClient(c) /\ cl[c].at = "store" /\ cl'[c].rest = Tail(cl[c].rest)
          /\ cl'[c].store = cl[c].store \cup {[key  |-> TaskKey(cl[c].task, Head(cl[c].rest)),
                                               line |-> Head(cl[c].rest)]}
          /\ cl'[c].input = cl[c].input /\ cl'[c].task = cl[c].task
      BY <2>2, <1>9, StoreFields
    <3> SUFFICES ASSUME NEW d \in Client, NEW k, NEW line, Copy(d, k, line)' PROVE Copy(d, k, line)
      OBVIOUS
    <3>2. CASE Stored(d, k, line)'
      <4>1. PICK p \in cl'[d].store : p.key = k /\ p.line = line
        BY <3>2 DEF Stored
      <4>2. CASE p \in cl[d].store
        BY <4>1, <4>2 DEF Copy, Stored
      <4>3. CASE p \notin cl[d].store
        <5>1. d = c /\ p = [key |-> TaskKey(cl[c].task, Head(cl[c].rest)), line |-> Head(cl[c].rest)]
          BY <4>1, <4>3, <3>1 DEF OnlyClient
        <5>2. ToStore(d, k, line)
          BY <5>1, <4>1, <3>0, <3>1, <2>2, HeadTail DEF ToStore
        <5> QED BY <5>2 DEF Copy
      <4> QED BY <4>2, <4>3
    <3>3. CASE ToStore(d, k, line)'
      <4>1. ToStore(d, k, line)
        BY <3>3, <3>0, <3>1, <2>2, HeadTail DEF ToStore, OnlyClient
      <4> QED BY <4>1 DEF Copy
    <3>4. CASE Fetched(d, k, line)'
      <4>1. Fetched(d, k, line)
        BY <3>4, <3>1 DEF Fetched, OnlyClient
      <4> QED BY <4>1 DEF Copy
    <3>5. CASE Reduced(d, k, line)'
      <4>1. Reduced(d, k, line)
        BY <3>5, <3>1 DEF Reduced
      <4> QED BY <4>1 DEF Copy
    <3> QED BY <3>2, <3>3, <3>4, <3>5 DEF Copy
  <2> QED BY <2>1, <2>2
<1>10. ASSUME NEW c \in Client, ReduceFinish(c) PROVE Old
  <2>0. OnlyClient(c) /\ cl'[c].at # "store" /\ cl'[c].store = cl[c].store /\ cl'[c].input = cl[c].input /\ cl'[c].task = cl[c].task
    BY <1>10, ReduceFields
  <2>1. CASE results' = results
    BY <2>0, <2>1, <1>2
  <2>2. CASE results' # results
    <3>1. PICK r : /\ results' = results \cup {r} /\ r.job = cl[c].task.job /\ r.part = cl[c].task.part
                   /\ UNION r.groups = cl[c].input
      BY <2>2, <1>10, ReduceFields
    <3> SUFFICES ASSUME NEW d \in Client, NEW k, NEW line, Copy(d, k, line)' PROVE Copy(d, k, line)
      OBVIOUS
    <3>2. CASE Stored(d, k, line)'
      <4>1. Stored(d, k, line)
        BY <3>2, <2>0 DEF Stored, OnlyClient
      <4> QED BY <4>1 DEF Copy
    <3>3. CASE ToStore(d, k, line)'
      <4>1. ToStore(d, k, line)
        BY <3>3, <2>0 DEF ToStore, OnlyClient
      <4> QED BY <4>1 DEF Copy
    <3>4. CASE Fetched(d, k, line)'
      <4>1. Fetched(d, k, line)
        BY <3>4, <2>0 DEF Fetched, OnlyClient
      <4> QED BY <4>1 DEF Copy
    <3>5. CASE Reduced(d, k, line)'
      <4>1. PICK q \in results' : \E p \in UNION q.groups :
               p[1].client = d /\ p[2] = line /\ k = <<q.job, p[1].no, q.part>>
        BY <3>5 DEF Reduced
      <4>2. CASE q \in results
        BY <4>1, <4>2 DEF Copy, Reduced
      <4>3. CASE q = r
        <5>1. Fetched(d, k, line)
          BY <4>1, <4>3, <3>1 DEF Fetched
        <5> QED BY <5>1 DEF Copy
      <4> QED BY <4>2, <4>3, <3>1
    <3> QED BY <3>2, <3>3, <3>4, <3>5 DEF Copy
  <2> QED BY <2>1, <2>2
<1>11. ASSUME NEW c \in Client, NEW m, receiveMapPartition(c, m) PROVE Old
  <2>0. /\ OnlyClient(c) /\ cl'[c].at # "store" /\ cl'[c].store = cl[c].store /\ cl'[c].task = cl[c].task /\ results' = results
        /\ cl'[c].input = cl[c].input \cup {<<m, p.line>> : p \in
              {q \in cl[m.client].store : q.key = <<cl[c].task.job, m.no, cl[c].task.part>>}}
    BY <1>11, FetchFields
  <2> SUFFICES ASSUME NEW d \in Client, NEW k, NEW line, Copy(d, k, line)' PROVE Copy(d, k, line)
    OBVIOUS
  <2>1. CASE Stored(d, k, line)'
    <3>1. Stored(d, k, line)
      BY <2>1, <2>0 DEF Stored, OnlyClient
    <3> QED BY <3>1 DEF Copy
  <2>2. CASE ToStore(d, k, line)'
    <3>1. ToStore(d, k, line)
      BY <2>2, <2>0 DEF ToStore, OnlyClient
    <3> QED BY <3>1 DEF Copy
  <2>3. CASE Fetched(d, k, line)'
    <3>0. PICK e \in Client : \E p \in cl'[e].input :
             p[1].client = d /\ p[2] = line /\ k = <<cl'[e].task.job, p[1].no, cl'[e].task.part>>
      BY <2>3 DEF Fetched
    <3>1. PICK p \in cl'[e].input :
             p[1].client = d /\ p[2] = line /\ k = <<cl'[e].task.job, p[1].no, cl'[e].task.part>>
      BY <3>0
    <3>2. CASE p \in cl[e].input
      <4>1. cl'[e].task = cl[e].task
        BY <2>0 DEF OnlyClient
      <4> QED BY <3>1, <3>2, <4>1 DEF Copy, Fetched
    <3>3. CASE p \notin cl[e].input
      <4>1. e = c
        BY <3>1, <3>3, <2>0 DEF OnlyClient
      <4>2. PICK q \in cl[m.client].store : q.key = <<cl[c].task.job, m.no, cl[c].task.part>> /\ p = <<m, q.line>>
        BY <3>1, <3>3, <4>1, <2>0
      <4>3. Stored(d, k, line)
        BY <3>1, <4>1, <4>2, <2>0 DEF Stored
      <4> QED BY <4>3 DEF Copy
    <3> QED BY <3>2, <3>3
  <2>4. CASE Reduced(d, k, line)'
    <3>1. Reduced(d, k, line)
      BY <2>4, <2>0 DEF Reduced
    <3> QED BY <3>1 DEF Copy
  <2> QED BY <2>1, <2>2, <2>3, <2>4 DEF Copy
<1> HIDE DEF Old
<1>12. Old
  BY <1>1, <1>3, <1>4, <1>5, <1>6, <1>7, <1>8, <1>9, <1>10, <1>11, Actions
<1> QED BY <1>12 DEF Old

\* The lines of two sequences put together.
LEMMA RangeConcat ==
  ASSUME NEW x \in Seq(Nat), NEW y \in Seq(Nat)
  PROVE  Range(x \o y) = Range(x) \cup Range(y) /\ \A n \in Nat : Range(Append(y, n)) = Range(y) \cup {n}
<1>1. /\ DOMAIN (x \o y) = 1 .. Len(x) + Len(y) /\ Len(x) \in Nat /\ Len(y) \in Nat
      /\ DOMAIN x = 1 .. Len(x) /\ DOMAIN y = 1 .. Len(y)
      /\ \A k \in 1 .. Len(x) + Len(y) : (x \o y)[k] = IF k <= Len(x) THEN x[k] ELSE y[k - Len(x)]
  OBVIOUS
<1>2. ASSUME NEW k \in DOMAIN x PROVE k \in DOMAIN (x \o y) /\ (x \o y)[k] = x[k]
  BY <1>1
<1>3. ASSUME NEW k \in DOMAIN y PROVE k + Len(x) \in DOMAIN (x \o y) /\ (x \o y)[k + Len(x)] = y[k]
  <2>1. k + Len(x) \in 1 .. Len(x) + Len(y) /\ ~(k + Len(x) <= Len(x)) /\ (k + Len(x)) - Len(x) = k
    BY <1>1
  <2> QED BY <1>1, <2>1
<1>4. ASSUME NEW k \in DOMAIN (x \o y)
      PROVE  \/ k \in DOMAIN x /\ (x \o y)[k] = x[k]
             \/ k - Len(x) \in DOMAIN y /\ (x \o y)[k] = y[k - Len(x)]
  <2>1. CASE k <= Len(x)
    BY <1>1, <2>1
  <2>2. CASE ~(k <= Len(x))
    <3>1. k - Len(x) \in 1 .. Len(y)
      BY <1>1, <2>2
    <3> QED BY <1>1, <2>2, <3>1
  <2> QED BY <2>1, <2>2
<1>5. Range(x \o y) = Range(x) \cup Range(y)
  <2>1. Range(x) \subseteq Range(x \o y)
    BY <1>2 DEF Range
  <2>2. Range(y) \subseteq Range(x \o y)
    BY <1>3 DEF Range
  <2>3. Range(x \o y) \subseteq Range(x) \cup Range(y)
    BY <1>4 DEF Range
  <2> QED BY <2>1, <2>2, <2>3
<1>6. ASSUME NEW n \in Nat PROVE Range(Append(y, n)) = Range(y) \cup {n}
  <2>1. DOMAIN Append(y, n) = 1 .. Len(y) + 1 /\ \A k \in 1 .. Len(y) + 1 : Append(y, n)[k] = IF k <= Len(y) THEN y[k] ELSE n
    OBVIOUS
  <2>2. Len(y) + 1 \in 1 .. Len(y) + 1 /\ ~(Len(y) + 1 <= Len(y)) /\ \A k \in 1 .. Len(y) : k \in 1 .. Len(y) + 1 /\ k <= Len(y)
    BY <1>1
  <2>3. \A k \in 1 .. Len(y) + 1 : k <= Len(y) => k \in 1 .. Len(y)
    OBVIOUS
  <2> QED BY <1>1, <2>1, <2>2, <2>3 DEF Range
<1> QED BY <1>5, <1>6

\* The pill stays out of what is handed out.
LEMMA NoPillStep == ASSUME IInv, NoPill, Next PROVE NoPill'
<1>0. SplitsInv /\ splits \in Seq(Split)
  BY DEF IInv, TypeOK, SplitsInv
<1> DEFINE Pure(s) == POISON_PILL \notin Range(s.read) \cup Range(s.block)
<1>1. ASSUME splits' = splits PROVE NoPill'
  BY <1>1 DEF NoPill
<1>2. ASSUME NEW i \in DOMAIN splits, NEW f, splits' = [splits EXCEPT ![i] = f], Pure(f) PROVE NoPill'
  <2>1. DOMAIN splits' = DOMAIN splits /\ \A j \in DOMAIN splits : splits'[j] = IF j = i THEN f ELSE splits[j]
    BY <1>0, <1>2
  <2> QED BY <2>1, <1>2 DEF NoPill
<1>3. ASSUME NEW i \in DOMAIN splits, ReaderLoop(i) \/ fillQueue(i) \/ ReaderFails(i) PROVE NoPill'
  <2>1. splits[i] \in Split
    BY <1>0, SplitsSet
  <2>2. PICK f : splits' = [splits EXCEPT ![i] = f] /\ f.read = splits[i].read /\ f.block = splits[i].block
    BY <1>3, <2>1 DEF ReaderLoop, fillQueue, ReaderFails, Split
  <2>3. Pure(f)
    BY <2>2 DEF NoPill
  <2> QED BY <2>2, <2>3, <1>2
<1>4. ASSUME NEW i \in DOMAIN splits, TakeLine(i) PROVE NoPill'
  <2> DEFINE s == splits[i]
             h == Head(s.queue)
  <2>2. s \in Split /\ s.read \in Seq(Nat) /\ s.block \in Seq(Nat) /\ s.queue \in Seq(Nat) /\ s.queue # <<>> /\ Pure(s)
    BY <1>4, <1>0, SplitsSet DEF Split, TakeLine, NoPill
  <2>3. h \in Nat /\ <<>> \in Seq(Nat) /\ Range(<<>>) = {} /\ Append(s.block, h) \in Seq(Nat)
    BY <2>2 DEF Range
  <2>4. CASE splits' = [splits EXCEPT ![i].queue = Tail(@), ![i].empty = TRUE,
                                      ![i].read = @ \o s.block, ![i].block = <<>>]
    <3> DEFINE f == [s EXCEPT !.queue = Tail(@), !.empty = TRUE, !.read = @ \o s.block, !.block = <<>>]
    <3>1. splits' = [splits EXCEPT ![i] = f] /\ f.read = s.read \o s.block /\ f.block = <<>>
      BY <2>4, <2>2 DEF Split
    <3> HIDE DEF f
    <3>2. Range(f.read) = Range(s.read) \cup Range(s.block)
      BY <3>1, <2>2, RangeConcat
    <3>3. Pure(f)
      BY <3>1, <3>2, <2>2, <2>3
    <3> QED BY <3>1, <3>3, <1>2
  <2>5. CASE /\ h # POISON_PILL
             /\ splits' = [splits EXCEPT ![i].queue = Tail(@),
                                         ![i].read = @ \o Append(s.block, h), ![i].block = <<>>]
    <3> DEFINE f == [s EXCEPT !.queue = Tail(@), !.read = @ \o Append(s.block, h), !.block = <<>>]
    <3>1. splits' = [splits EXCEPT ![i] = f] /\ f.read = s.read \o Append(s.block, h) /\ f.block = <<>>
      BY <2>5, <2>2 DEF Split
    <3> HIDE DEF f
    <3>2. Range(f.read) = Range(s.read) \cup Range(s.block) \cup {h}
      <4> HIDE DEF h, s
      <4>1. Range(Append(s.block, h)) = Range(s.block) \cup {h}
        BY <2>2, <2>3, RangeConcat
      <4>2. Range(s.read \o Append(s.block, h)) = Range(s.read) \cup Range(Append(s.block, h))
        BY <2>2, <2>3, RangeConcat
      <4> QED BY <3>1, <4>1, <4>2
    <3>3. Pure(f)
      BY <3>1, <3>2, <2>2, <2>3, <2>5
    <3> QED BY <3>1, <3>3, <1>2
  <2>6. CASE h # POISON_PILL /\ splits' = [splits EXCEPT ![i].queue = Tail(@), ![i].block = Append(s.block, h)]
    <3> DEFINE f == [s EXCEPT !.queue = Tail(@), !.block = Append(s.block, h)]
    <3>1. splits' = [splits EXCEPT ![i] = f] /\ f.read = s.read /\ f.block = Append(s.block, h)
      BY <2>6, <2>2 DEF Split
    <3> HIDE DEF f
    <3>2. Range(Append(s.block, h)) = Range(s.block) \cup {h}
      <4> HIDE DEF h
      <4> QED BY <2>2, <2>3, RangeConcat
    <3>3. Pure(f)
      BY <3>1, <3>2, <2>2, <2>3, <2>6
    <3> QED BY <3>1, <3>3, <1>2
  <2> QED BY <2>4, <2>5, <2>6, <1>4 DEF TakeLine
<1>5. ASSUME NEW c \in Client, MapRead(c) PROVE NoPill'
  BY <1>5, <1>4, MapReadFields
<1>6. ASSUME Aside PROVE NoPill'
  <2>1. ASSUME NEW i \in DOMAIN splits, Reader(i) \/ ReadError(i) PROVE NoPill'
    BY <2>1, <1>3 DEF Reader, ReadError
  <2>2. CASE OpenInput
    <3>1. ASSUME splits' = initializeBuffer(Len(nodes)) PROVE NoPill'
      <4>1. \A i \in DOMAIN splits' : splits'[i].read = <<>> /\ splits'[i].block = <<>>
        BY <3>1 DEF initializeBuffer, SplitQueue
      <4>2. Range(<<>>) = {}
        BY DEF Range
      <4> QED BY <4>1, <4>2 DEF NoPill
    <3>2. splits' = splits \/ splits' = initializeBuffer(Len(nodes))
      BY <2>2 DEF OpenInput, startFileSplitServer
    <3> QED BY <3>1, <3>2, <1>1
  <2>3. CASE \/ Dequeue \/ InputUnreadable \/ NoNodes \/ JobFinished \/ saveClientNodeDetails
             \/ scheduleMapTasksToSlaveNodes \/ scheduleReduceTasksToSlaveNodes
    <3>1. splits' = splits
      BY <2>3 DEF Dequeue, InputUnreadable, NoNodes, JobFinished, saveClientNodeDetails,
                  scheduleMapTasksToSlaveNodes, scheduleReduceTasksToSlaveNodes
    <3> QED BY <3>1, <1>1
  <2>4. ASSUME NEW c \in Client, Servlet(c) PROVE NoPill'
    BY <2>4, <1>1 DEF Servlet, ServletSend, ServletRead
  <2>5. ASSUME NEW n \in JobConf, Submit(n) PROVE NoPill'
    BY <2>5, <1>1 DEF Submit
  <2> QED BY <1>6, <2>1, <2>2, <2>3, <2>4, <2>5 DEF Aside, Scheduler
<1>7. ASSUME NEW c \in Client,
             \/ Accept(c) \/ AcceptNumber(c) \/ Disconnect(c) \/ TakeTask(c) \/ Gives(c) \/ OpenHandle(c)
             \/ MapFinish(c) \/ partitionMapOut(c) \/ ReduceFinish(c)
             \/ \E m \in sched.mappers : receiveMapPartition(c, m)
      PROVE  NoPill'
  <2>1. splits' = splits
    BY <1>7, AcceptFields, DisconnectFields, TakeTaskFields, GivesFields, OpenFields, MapFinishFields,
       StoreFields, ReduceFields, FetchFields
  <2> QED BY <2>1, <1>1
<1> QED BY <1>5, <1>6, <1>7, Actions

\* What has been read of a split is among its lines.
LEMMA ReadLines ==
  ASSUME SplitsInv, NoPill, NEW i \in DOMAIN splits
  PROVE  Range(splits[i].read) \subseteq Range(LinesBetween(splits[i].start, splits[i].end))
<1> DEFINE s == splits[i]
           passed == LinesBetween(s.start, s.pos)
           rest == s.block \o s.queue
<1>1. s \in Split /\ SplitOK(s) /\ s.pos \in Ends /\ s.start \in Ends /\ s.end \in Ends
        /\ s.read \in Seq(Nat) /\ s.block \in Seq(Nat) /\ s.queue \in Seq(Nat)
  BY SplitsSet, SplitType
<1>2. passed \in Seq(Nat) /\ Pill(s) \in Seq(Nat) /\ Range(Pill(s)) \subseteq {POISON_PILL}
  <2>1. passed \in Seq(Nat)
    BY <1>1, LinesType
  <2>2. Pill(s) \in {<<>>, <<POISON_PILL>>}
    BY DEF Pill
  <2>3. <<>> \in Seq(Nat) /\ <<POISON_PILL>> \in Seq(Nat) /\ Range(<<>>) = {} /\ Range(<<POISON_PILL>>) = {POISON_PILL}
    BY PillType DEF Range
  <2> HIDE DEF passed
  <2> QED BY <2>1, <2>2, <2>3
<1>3. s.read \o s.block \o s.queue = passed \o Pill(s) /\ s.start <= s.pos /\ s.pos <= s.end
  BY <1>1 DEF SplitOK
<1>4. Range(s.read) \subseteq Range(s.read \o s.block \o s.queue)
  <2>1. s.read \o s.block \in Seq(Nat)
    BY <1>1
  <2> QED BY <2>1, <1>1, RangeConcat, ZenonT(40)
<1>5. Range(passed \o Pill(s)) = Range(passed) \cup Range(Pill(s))
  <2> HIDE DEF passed
  <2> QED BY <1>2, RangeConcat
<1>6. Range(s.read) \subseteq Range(passed)
  <2>1. POISON_PILL \notin Range(s.read)
    BY DEF NoPill
  <2> HIDE DEF passed, s
  <2> QED BY <2>1, <1>2, <1>3, <1>4, <1>5
<1>7. Range(passed) \subseteq Range(LinesBetween(s.start, s.end))
  <2>1. PICK p \in 0 .. Len(File) : s.start = EndOf[p]
    BY <1>1 DEF Ends
  <2>2. PICK q \in 0 .. Len(File) : s.pos = EndOf[q]
    BY <1>1 DEF Ends
  <2>3. PICK r \in 0 .. Len(File) : s.end = EndOf[r]
    BY <1>1 DEF Ends
  <2>4. q <= r /\ q \in Nat /\ r \in Nat /\ p \in Nat
    <3>1. EndOf[q] <= EndOf[r] /\ EndOf[q] \in Nat /\ EndOf[r] \in Nat /\ (r < q => EndOf[r] < EndOf[q])
      BY <2>2, <2>3, <1>3, EndOfGrows
    <3> QED BY <3>1, LenFile
  <2>5. passed = [k \in 1 .. q - p |-> p + k] /\ LinesBetween(s.start, s.end) = [k \in 1 .. r - p |-> p + k]
    BY <2>1, <2>2, <2>3, Between
  <2>6. 1 .. q - p \subseteq 1 .. r - p
    BY <2>4
  <2> HIDE DEF passed
  <2> QED BY <2>5, <2>6 DEF Range
<1> QED BY <1>6, <1>7

\* No line is read from two splits.
LEMMA ReadApart ==
  ASSUME SplitsInv, NoPill, NEW i \in DOMAIN splits, NEW j \in DOMAIN splits, i # j, NEW line,
         line \in Range(splits[i].read), line \in Range(splits[j].read)
  PROVE  FALSE
<1> DEFINE Lines(h) == Range(LinesBetween(splits[h].start, splits[h].end))
<1>1. \A h, k \in DOMAIN splits : h < k => \A m \in Lines(h), n \in Lines(k) : m < n
  BY LinesOnceFollows DEF LinesOnce
<1>2. line \in Lines(i) /\ line \in Lines(j)
  BY ReadLines
<1>3. i \in Nat /\ j \in Nat /\ line \in Nat
  <2>1. splits[i].read \in Seq(Nat) /\ DOMAIN splits \subseteq Nat
    BY ReadType DEF SplitsInv
  <2>2. Range(splits[i].read) \subseteq Nat
    BY <2>1 DEF Range
  <2> QED BY <2>1, <2>2
<1> HIDE DEF Lines
<1> QED BY <1>1, <1>2, <1>3

----------------------------------------------------------------------------
(* One origin, one split, one number. *)

\* Splits are handed out once.
LEMMA SplitsApartStep == ASSUME IInv, SplitsApart, Next PROVE SplitsApart'
<1>0. splitIndex \in Nat
  BY DEF IInv, TypeOK
<1>1. ASSUME splitIndex' = splitIndex, NEW c \in Client, OnlyClient(c), cl'[c].split \in {None, cl[c].split} PROVE SplitsApart'
  BY <1>1 DEF SplitsApart, OnlyClient
<1>2. ASSUME NEW c \in Client, OpenHandle(c) PROVE SplitsApart'
  <2>1. OnlyClient(c) /\ cl'[c].split = splitIndex + 1 /\ splitIndex' = splitIndex + 1
    BY <1>2, OpenFields
  <2>2. \A d \in Client : cl[d].split # None => cl[d].split \in 1 .. splitIndex' /\ cl[d].split # splitIndex + 1
    BY <1>0, <2>1 DEF SplitsApart
  <2>3. splitIndex + 1 \in 1 .. splitIndex'
    BY <1>0, <2>1
  <2> QED BY <2>1, <2>2, <2>3 DEF SplitsApart, OnlyClient
<1>3. ASSUME Aside PROVE SplitsApart'
  BY <1>3, AsideFields DEF SplitsApart
<1>4. ASSUME NEW c \in Client, Disconnect(c) PROVE SplitsApart'
  <2>1. splitIndex' = splitIndex /\ OnlyClient(c) /\ cl'[c].split = None
    BY <1>4, DisconnectFields
  <2> QED BY <2>1, <1>1
<1>5. ASSUME NEW c \in Client, Accept(c) \/ AcceptNumber(c) \/ TakeTask(c) \/ Gives(c) PROVE SplitsApart'
  <2>1. splitIndex' = splitIndex /\ OnlyClient(c) /\ cl'[c].split = cl[c].split
    BY <1>5, AcceptFields, TakeTaskFields, GivesFields
  <2> QED BY <2>1, <1>1
<1>6. ASSUME NEW c \in Client, MapRead(c) \/ MapFinish(c) \/ partitionMapOut(c) PROVE SplitsApart'
  <2>1. splitIndex' = splitIndex /\ OnlyClient(c) /\ cl'[c].split = cl[c].split
    BY <1>6, MapReadFields, MapFinishFields, StoreFields
  <2> QED BY <2>1, <1>1
<1>7. ASSUME NEW c \in Client, ReduceFinish(c) \/ \E m \in sched.mappers : receiveMapPartition(c, m) PROVE SplitsApart'
  <2>1. splitIndex' = splitIndex /\ OnlyClient(c) /\ cl'[c].split = cl[c].split
    BY <1>7, ReduceFields, FetchFields
  <2> QED BY <2>1, <1>1
<1> QED BY <1>2, <1>3, <1>4, <1>5, <1>6, <1>7, Actions

\* A split that is used up stays so.
LEMMA UsedUpStays == ASSUME IInv, Next, NEW i, UsedUp(i) PROVE UsedUp(i)'
<1>0. splitIndex \in Nat /\ i \in DOMAIN splits /\ i <= splitIndex /\ i \in DOMAIN splits' /\ i \in Nat
  BY Reads DEF UsedUp, IInv, TypeOK, SplitsInv
<1>1. ASSUME splitIndex' \in Nat, splitIndex <= splitIndex',
             \A c \in Client : cl'[c].at \in {"read", "mapped"} => cl'[c].split # i
      PROVE  UsedUp(i)'
  BY <1>0, <1>1 DEF UsedUp
<1>2. ASSUME splitIndex' = splitIndex, NEW c \in Client, OnlyClient(c),
             cl'[c].at \in {"read", "mapped"} => cl[c].at \in {"read", "mapped"} /\ cl'[c].split = cl[c].split
      PROVE  UsedUp(i)'
  BY <1>0, <1>2, <1>1 DEF UsedUp, OnlyClient
<1>3. ASSUME NEW c \in Client, OpenHandle(c) PROVE UsedUp(i)'
  <2>1. OnlyClient(c) /\ cl'[c].split = splitIndex + 1 /\ splitIndex' = splitIndex + 1
    BY <1>3, OpenFields
  <2>2. splitIndex + 1 # i /\ splitIndex' \in Nat /\ splitIndex <= splitIndex'
    BY <2>1, <1>0
  <2> QED BY <2>1, <2>2, <1>1 DEF UsedUp, OnlyClient
<1>4. ASSUME Aside PROVE UsedUp(i)'
  BY <1>0, <1>4, AsideFields DEF UsedUp
<1>5. ASSUME NEW c \in Client,
             \/ Disconnect(c) \/ TakeTask(c) \/ Gives(c) \/ MapFinish(c) \/ partitionMapOut(c) \/ ReduceFinish(c)
             \/ \E m \in sched.mappers : receiveMapPartition(c, m)
      PROVE  UsedUp(i)'
  <2>1. splitIndex' = splitIndex /\ OnlyClient(c) /\ cl'[c].at \notin {"read", "mapped"}
    BY <1>5, DisconnectFields, TakeTaskFields, GivesFields, MapFinishFields, StoreFields, ReduceFields, FetchFields, ZenonT(40)
  <2> QED BY <2>1, <1>2
<1>6. ASSUME NEW c \in Client, Accept(c) \/ AcceptNumber(c) \/ MapRead(c) PROVE UsedUp(i)'
  <2>1. /\ splitIndex' = splitIndex /\ OnlyClient(c) /\ cl'[c].split = cl[c].split
        /\ cl'[c].at \in {"read", "mapped"} => cl[c].at \in {"read", "mapped"}
    BY <1>6, AcceptFields, MapReadFields
  <2> QED BY <2>1, <1>2
<1> QED BY <1>3, <1>4, <1>5, <1>6, Actions

\* A mapper that reports has used its split up.
LEMMA Reported ==
  ASSUME IInv, SplitsApart, NEW c \in Client, MapFinish(c), Reading, NEW i, i = cl[c].split PROVE UsedUp(i)'
<1>1. /\ OnlyClient(c) /\ cl[c].at = "mapped" /\ cl'[c].at = "store" /\ i \in DOMAIN splits
      /\ splits' = splits /\ splitIndex' = splitIndex
  BY MapFinishFields DEF Reading
<1>2. DOMAIN splits \subseteq Nat /\ splitIndex \in Nat
  BY DEF IInv, TypeOK, SplitsInv
<1>3. i # None /\ i \in Nat
  BY <1>1, <1>2, MRLiteAssumption
<1>4. i <= splitIndex /\ \A d \in Client \ {c} : cl[d].split # i
  BY <1>2, <1>3 DEF SplitsApart
<1>5. \A d \in Client : cl'[d].at \in {"read", "mapped"} => cl'[d].split # i
  <2>1. \A d \in Client \ {c} : cl'[d].split # i
    BY <1>1, <1>4 DEF OnlyClient
  <2> QED BY <2>1, <1>1
<1> QED BY <1>1, <1>4, <1>5 DEF UsedUp

\* The copies of a line keep one origin: a report makes copies of lines of a
\* split from which there are none.
LEMMA OneOriginStep ==
  ASSUME IInv, Reading, NoPill, SplitsApart, OneOrigin, Next PROVE OneOrigin'
<1> DEFINE Used(line) == \E i \in DOMAIN splits : UsedUp(i) /\ line \in Range(splits[i].read)
<1>1. ASSUME NEW line, Used(line) PROVE Used(line)'
  <2>1. PICK i \in DOMAIN splits : UsedUp(i) /\ line \in Range(splits[i].read)
    BY <1>1
  <2>2. UsedUp(i)' /\ i \in DOMAIN splits' /\ line \in Range(splits'[i].read)
    BY <2>1, UsedUpStays, Reads
  <2> QED BY <2>2
<1>2. CASE \A c \in Client : ~MapFinish(c)
  <2>1. \A d \in Client : \A k, line : Copy(d, k, line)' => Copy(d, k, line)
    BY <1>2, CopiesKept
  <2>2. \A d \in Client : \A k, line : Copy(d, k, line) => Used(line)
    BY DEF OneOrigin
  <2>3. \A d \in Client : \A k, line : Copy(d, k, line)' => Used(line)'
    <3> HIDE DEF Used
    <3> QED BY <2>1, <2>2, <1>1
  <2> HIDE DEF Used
  <2>4. \A c, d \in Client : \A k, l, line : Copy(c, k, line)' /\ Copy(d, l, line)' => c = d /\ k = l
    BY <2>1 DEF OneOrigin
  <2> QED BY <2>3, <2>4 DEF OneOrigin, Used
<1>3. ASSUME NEW c \in Client, MapFinish(c) PROVE OneOrigin'
  <2>0. PICK i : i = cl[c].split
    OBVIOUS
  <2> DEFINE New(d, k, line) == d = c /\ k = TaskKey(cl[c].task, line) /\ line \in Range(splits[i].read)
  <2>1. /\ OnlyClient(c) /\ cl[c].at = "mapped" /\ cl'[c].at = "store" /\ i \in DOMAIN splits
        /\ splits' = splits /\ results' = results /\ cl'[c].task = cl[c].task /\ cl'[c].store = cl[c].store
        /\ cl'[c].input = cl[c].input /\ cl'[c].rest = splits[i].read
    BY <2>0, <1>3, MapFinishFields DEF Reading
  <2>2. UsedUp(i)'
    BY <2>0, <1>3, Reported
  <2>3. ASSUME NEW d \in Client, NEW k, NEW line, Copy(d, k, line)' PROVE Copy(d, k, line) \/ New(d, k, line)
    <3>1. CASE Stored(d, k, line)'
      <4>1. Stored(d, k, line)
        BY <3>1, <2>1 DEF Stored, OnlyClient
      <4> QED BY <4>1 DEF Copy
    <3>2. CASE ToStore(d, k, line)'
      <4>1. ToStore(d, k, line) \/ New(d, k, line)
        BY <3>2, <2>1 DEF ToStore, OnlyClient
      <4> QED BY <4>1 DEF Copy
    <3>3. CASE Fetched(d, k, line)'
      <4>1. Fetched(d, k, line)
        BY <3>3, <2>1 DEF Fetched, OnlyClient
      <4> QED BY <4>1 DEF Copy
    <3>4. CASE Reduced(d, k, line)'
      <4>1. Reduced(d, k, line)
        BY <3>4, <2>1 DEF Reduced
      <4> QED BY <4>1 DEF Copy
    <3> QED BY <2>3, <3>1, <3>2, <3>3, <3>4 DEF Copy
  <2>4. ASSUME NEW d \in Client, NEW k, NEW line, Copy(d, k, line) PROVE line \notin Range(splits[i].read) /\ Used(line)
    <3>1. PICK j \in DOMAIN splits : UsedUp(j) /\ line \in Range(splits[j].read)
      BY <2>4 DEF OneOrigin
    <3>2. j # i
      BY <3>1, <2>0, <2>1 DEF UsedUp
    <3>3. SplitsInv
      BY DEF IInv, TypeOK
    <3>4. line \notin Range(splits[i].read)
      BY <3>1, <3>2, <3>3, <2>1, ReadApart
    <3> QED BY <3>1, <3>4
  <2>5. ASSUME NEW line, line \in Range(splits[i].read) PROVE Used(line)'
    <3>1. i \in DOMAIN splits' /\ line \in Range(splits'[i].read)
      BY <2>1, <2>5
    <3>2. \E h \in DOMAIN splits' : UsedUp(h)' /\ line \in Range(splits'[h].read)
      BY <3>1, <2>2
    <3> QED BY <3>2
  <2>6. ASSUME NEW d \in Client, NEW k, NEW line, Copy(d, k, line)' PROVE Used(line)'
    <3> HIDE DEF Used
    <3> QED BY <2>3, <2>4, <2>5, <2>6, <1>1
  <2>7. ASSUME NEW d \in Client, NEW e \in Client, NEW k, NEW l, NEW line, Copy(d, k, line)', Copy(e, l, line)'
        PROVE  d = e /\ k = l
    <3>1. Copy(d, k, line) \/ New(d, k, line)
      BY <2>3, <2>7
    <3>2. Copy(e, l, line) \/ New(e, l, line)
      BY <2>3, <2>7
    <3>3. ~(Copy(d, k, line) /\ New(e, l, line)) /\ ~(New(d, k, line) /\ Copy(e, l, line))
      BY <2>4
    <3>4. CASE Copy(d, k, line) /\ Copy(e, l, line)
      BY <3>4 DEF OneOrigin
    <3>5. CASE New(d, k, line) /\ New(e, l, line)
      BY <3>5
    <3> HIDE DEF New
    <3> QED BY <3>1, <3>2, <3>3, <3>4, <3>5
  <2> HIDE DEF Used, New
  <2> QED BY <2>6, <2>7 DEF OneOrigin, Used
<1> QED BY <1>2, <1>3

\* A client that has gone stays away, and another one loses nothing it has stored.
LEMMA StoresGrow ==
  ASSUME IInv, Next, NEW c \in Client
  PROVE  /\ cl[c].st = "gone" => cl'[c].st = "gone"
         /\ cl[c].store \subseteq cl'[c].store \/ cl'[c].st = "gone"
<1>1. ASSUME Aside PROVE cl' = cl
  BY <1>1, AsideFields
<1>2. ASSUME NEW d \in Client, Disconnect(d) \/ Accept(d) \/ AcceptNumber(d)
      PROVE  /\ OnlyClient(d) /\ cl[d].st # "gone"
             /\ cl[d].store \subseteq cl'[d].store \/ cl'[d].st = "gone"
  BY <1>2, AcceptFields, DisconnectFields
<1>3. ASSUME NEW d \in Client, TakeTask(d) \/ Gives(d) \/ OpenHandle(d) \/ MapRead(d)
      PROVE  OnlyClient(d) /\ cl'[d].st = cl[d].st /\ cl'[d].store = cl[d].store
  BY <1>3, TakeTaskFields, GivesFields, OpenFields, MapReadFields
<1>5. ASSUME NEW d \in Client, MapFinish(d) \/ ReduceFinish(d) \/ \E m \in sched.mappers : receiveMapPartition(d, m)
      PROVE  OnlyClient(d) /\ cl'[d].st = cl[d].st /\ cl'[d].store = cl[d].store
  BY <1>5, MapFinishFields, ReduceFields, FetchFields
<1>4. ASSUME NEW d \in Client, partitionMapOut(d)
      PROVE  OnlyClient(d) /\ cl'[d].st = cl[d].st /\ cl[d].store \subseteq cl'[d].store
  BY <1>4, StoreFields
<1> QED BY <1>1, <1>2, <1>3, <1>4, <1>5, Actions DEF OnlyClient

\* What was copied is still stored.
LEMMA StillStoredStep == ASSUME IInv, StillStored, Next PROVE StillStored'
<1> SUFFICES ASSUME NEW d \in Client, NEW k, NEW line, Fetched(d, k, line)' \/ Reduced(d, k, line)'
             PROVE  Stored(d, k, line)' \/ cl'[d].st = "gone"
  BY DEF StillStored
<1>1. ASSUME Stored(d, k, line) PROVE Stored(d, k, line)' \/ cl'[d].st = "gone"
  BY <1>1, StoresGrow DEF Stored
<1>2. ASSUME Fetched(d, k, line) \/ Reduced(d, k, line) PROVE Stored(d, k, line)' \/ cl'[d].st = "gone"
  <2>1. Stored(d, k, line) \/ cl[d].st = "gone"
    BY <1>2 DEF StillStored
  <2> QED BY <2>1, <1>1, StoresGrow
<1>3. ASSUME UNCHANGED results, NEW c \in Client, OnlyClient(c),
             cl'[c].input = {} \/ (cl'[c].input = cl[c].input /\ cl'[c].task = cl[c].task)
      PROVE  Fetched(d, k, line) \/ Reduced(d, k, line)
  BY <1>3 DEF Fetched, Reduced, OnlyClient
<1>4. CASE Aside
  BY <1>2, <1>4, AsideFields DEF Fetched, Reduced
<1> DEFINE Good == Stored(d, k, line)' \/ cl'[d].st = "gone"
           Kept(c) == /\ results' = results /\ OnlyClient(c)
                      /\ cl'[c].input = {} \/ (cl'[c].input = cl[c].input /\ cl'[c].task = cl[c].task)
<1>5. ASSUME NEW c \in Client,
             \/ Accept(c) \/ AcceptNumber(c) \/ Disconnect(c) \/ TakeTask(c) \/ Gives(c) \/ OpenHandle(c)
             \/ MapRead(c) \/ MapFinish(c) \/ partitionMapOut(c)
      PROVE  Good
  <2>1. ASSUME Accept(c) \/ AcceptNumber(c) PROVE Kept(c)
    BY <2>1, AcceptFields
  <2>2. ASSUME Disconnect(c) PROVE Kept(c)
    BY <2>2, DisconnectFields
  <2>3. ASSUME TakeTask(c) PROVE Kept(c)
    BY <2>3, TakeTaskFields
  <2>4. ASSUME Gives(c) \/ OpenHandle(c) PROVE Kept(c)
    BY <2>4, GivesFields, OpenFields
  <2>5. ASSUME MapRead(c) \/ MapFinish(c) \/ partitionMapOut(c) PROVE Kept(c)
    BY <2>5, MapReadFields, MapFinishFields, StoreFields
  <2>6. Kept(c)
    <3> HIDE DEF Kept
    <3> QED BY <1>5, <2>1, <2>2, <2>3, <2>4, <2>5
  <2>7. Fetched(d, k, line) \/ Reduced(d, k, line)
    BY <2>6, <1>3
  <2> QED BY <2>7, <1>2
<1>6. ASSUME NEW c \in Client, ReduceFinish(c) PROVE Stored(d, k, line)' \/ cl'[d].st = "gone"
  <2>0. OnlyClient(c) /\ cl'[c].input = cl[c].input /\ cl'[c].task = cl[c].task
    BY <1>6, ReduceFields
  <2>1. CASE results' = results
    BY <2>0, <2>1, <1>3, <1>2
  <2>2. CASE results' # results
    <3>1. PICK r : /\ results' = results \cup {r} /\ r.job = cl[c].task.job /\ r.part = cl[c].task.part
                   /\ UNION r.groups = cl[c].input
      BY <2>2, <1>6, ReduceFields
    <3>2. Fetched(d, k, line)' => Fetched(d, k, line)
      BY <2>0 DEF Fetched, OnlyClient
    <3>3. ASSUME Reduced(d, k, line)' PROVE Fetched(d, k, line) \/ Reduced(d, k, line)
      <4>1. PICK q \in results' : \E p \in UNION q.groups :
               p[1].client = d /\ p[2] = line /\ k = <<q.job, p[1].no, q.part>>
        BY <3>3 DEF Reduced
      <4>2. CASE q \in results
        BY <4>1, <4>2 DEF Reduced
      <4>3. CASE q = r
        BY <4>1, <4>3, <3>1 DEF Fetched
      <4> QED BY <4>2, <4>3, <3>1
    <3> QED BY <3>2, <3>3, <1>2
  <2> QED BY <2>1, <2>2
<1>7. ASSUME NEW c \in Client, NEW m, receiveMapPartition(c, m) PROVE Stored(d, k, line)' \/ cl'[d].st = "gone"
  <2>0. /\ OnlyClient(c) /\ cl'[c].task = cl[c].task /\ results' = results
        /\ cl'[c].input = cl[c].input \cup {<<m, p.line>> : p \in
              {q \in cl[m.client].store : q.key = <<cl[c].task.job, m.no, cl[c].task.part>>}}
    <3>1. \A f \in {"st", "at", "task", "split", "rest", "store"} : cl'[c][f] = cl[c][f]
      BY <1>7, FetchFields
    <3>2. cl'[c].task = cl[c].task
      BY <3>1
    <3>3. OnlyClient(c) /\ results' = results
      BY <1>7, FetchFields
    <3>4. cl'[c].input = cl[c].input \cup {<<m, p.line>> : p \in
              {q \in cl[m.client].store : q.key = <<cl[c].task.job, m.no, cl[c].task.part>>}}
      BY <1>7, FetchFields, SMTT(40)
    <3> QED BY <3>2, <3>3, <3>4
  <2>1. Reduced(d, k, line)' => Reduced(d, k, line)
    BY <2>0 DEF Reduced
  <2>2. ASSUME Fetched(d, k, line)' PROVE Fetched(d, k, line) \/ Stored(d, k, line)
    <3>0. PICK e \in Client : \E p \in cl'[e].input :
             p[1].client = d /\ p[2] = line /\ k = <<cl'[e].task.job, p[1].no, cl'[e].task.part>>
      BY <2>2 DEF Fetched
    <3>1. PICK p \in cl'[e].input :
             p[1].client = d /\ p[2] = line /\ k = <<cl'[e].task.job, p[1].no, cl'[e].task.part>>
      BY <3>0
    <3>2. CASE p \in cl[e].input
      <4>1. cl'[e].task = cl[e].task
        BY <2>0 DEF OnlyClient
      <4> QED BY <3>1, <3>2, <4>1 DEF Fetched
    <3>3. CASE p \notin cl[e].input
      <4>1. e = c
        BY <3>1, <3>3, <2>0 DEF OnlyClient
      <4>2. PICK q \in cl[m.client].store : q.key = <<cl[c].task.job, m.no, cl[c].task.part>> /\ p = <<m, q.line>>
        BY <3>1, <3>3, <4>1, <2>0
      <4> QED BY <3>1, <4>1, <4>2, <2>0 DEF Stored
    <3> QED BY <3>2, <3>3
  <2> QED BY <2>1, <2>2, <1>1, <1>2
<1> QED BY <1>4, <1>5, <1>6, <1>7, Actions

----------------------------------------------------------------------------
(* The phases of a job. *)

\* Nodes are added only.
LEMMA NodesGrow ==
  ASSUME IInv, Next
  PROVE  /\ DOMAIN nodes \subseteq DOMAIN nodes' /\ \A k \in DOMAIN nodes : nodes'[k] = nodes[k]
         /\ \A c \in Client : \A k : NumberOf(c, k) => NumberOf(c, k)'
<1>1. DOMAIN nodes \subseteq DOMAIN nodes' /\ \A k \in DOMAIN nodes : nodes'[k] = nodes[k]
  <2>1. CASE nodes' = nodes
    BY <2>1
  <2>2. ASSUME NEW c, nodes' = addNewClientNode(c)
        PROVE DOMAIN nodes \subseteq DOMAIN nodes' /\ \A k \in DOMAIN nodes : nodes'[k] = nodes[k]
    <3> DEFINE n == <<cl[c].id, c>>
    <3>1. nodes' = Append(nodes, n)
      BY <2>2 DEF addNewClientNode
    <3>2. DOMAIN nodes = 1 .. Len(nodes) /\ Len(nodes) \in Nat
      BY DEF IInv, TypeOK, NodesOK
    <3>3. DOMAIN Append(nodes, n) = 1 .. Len(nodes) + 1 /\ \A k \in 1 .. Len(nodes) : Append(nodes, n)[k] = nodes[k]
      BY <3>2 DEF IInv, TypeOK, NodesOK
    <3> QED BY <3>1, <3>2, <3>3
  <2>3. ASSUME Aside PROVE nodes' = nodes \/ \E c : nodes' = addNewClientNode(c)
    BY <2>3 DEF Aside, Servlet, ServletSend, ServletRead, Submit, saveClientNodeDetails, Scheduler, Dequeue,
       InputUnreadable, NoNodes, OpenInput, scheduleMapTasksToSlaveNodes, scheduleReduceTasksToSlaveNodes,
       JobFinished, Reader, ReadError, master
  <2>4. ASSUME NEW c \in Client,
               \/ Accept(c) \/ AcceptNumber(c) \/ Disconnect(c) \/ TakeTask(c) \/ Gives(c) \/ OpenHandle(c)
        PROVE nodes' = nodes
    BY <2>4, AcceptFields, DisconnectFields, TakeTaskFields, GivesFields, OpenFields
  <2>5. ASSUME NEW c \in Client, MapRead(c) \/ MapFinish(c) \/ partitionMapOut(c) PROVE nodes' = nodes
    BY <2>5, MapReadFields, MapFinishFields, StoreFields
  <2>6. ASSUME NEW c \in Client, ReduceFinish(c) \/ \E m \in sched.mappers : receiveMapPartition(c, m) PROVE nodes' = nodes
    BY <2>6, ReduceFields, FetchFields
  <2> QED BY <2>1, <2>2, <2>3, <2>4, <2>5, <2>6, Actions
<1> QED BY <1>1 DEF NumberOf

\* The input is opened: the nodes there are will be mappers.
LEMMA OpenInputFields ==
  ASSUME IInv, OpenInput
  PROVE  /\ sched.at = "map" /\ nodes # <<>> /\ sched'.at = "split" /\ sched'.job = sched.job
         /\ sched'.mappers = createMapperNodesInfoList
         /\ splits' = IF splits = <<>> THEN initializeBuffer(Len(nodes)) ELSE splits
         /\ UNCHANGED <<cl, link, serv, nodes, jobs, splitIndex, results>>
<1>1. /\ sched.at = "map" /\ nodes # <<>> /\ startFileSplitServer
      /\ sched' = [sched EXCEPT !.at = "split", !.mappers = createMapperNodesInfoList]
      /\ UNCHANGED <<cl, link, serv, nodes, jobs, splitIndex, results>> /\ SchedOK
  BY DEF OpenInput, IInv, TypeOK
<1> QED BY <1>1 DEF startFileSplitServer, SchedOK

\* The map phase starts: every mapper has a servlet with its map task.
LEMMA MapPhaseFields ==
  ASSUME IInv, scheduleMapTasksToSlaveNodes
  PROVE  /\ sched.at = "split" /\ UNCHANGED <<splits, cl, link, nodes, jobs, splitIndex, results>>
         /\ \A c \in Client : serv[c].at = "none"
         /\ sched'.at = "mapping" /\ sched'.job = sched.job
         /\ sched.mappers \subseteq sched'.mappers /\ sched'.mappers \subseteq NodeInfo
         /\ \A c \in Client :
              /\ serv'[c].at \in {"none", "send"}
              /\ (\E m \in sched'.mappers : m.client = c) => serv'[c].at = "send"
              /\ serv'[c].at # "none" => /\ serv'[c].task.kind = "map" /\ serv'[c].task.job = sched.job.no
                                         /\ NumberOf(c, serv'[c].task.no)
<1>0. SchedOK /\ NodesOK /\ NoServlets
  BY DEF IInv, TypeOK
<1>1. /\ sched.at = "split" /\ UNCHANGED <<splits, cl, link, nodes, jobs, splitIndex, results>>
      /\ \A c \in Client : serv[c].at = "none"
  BY <1>0, MapPhaseIs DEF NoServlets
<1>2. PICK found \in SUBSET createMapperNodesInfoList :
        /\ sched.mappers \subseteq found
        /\ sched' = [sched EXCEPT !.at = "mapping", !.mappers = found]
        /\ serv' = Servlets(found)
  BY <1>0, MapPhaseIs
<1>3. sched'.at = "mapping" /\ sched'.job = sched.job /\ sched'.mappers = found /\ found \subseteq NodeInfo
  BY <1>0, <1>2, MapPhaseIs DEF SchedOK
<1>4. ASSUME NEW c \in Client
      PROVE  /\ serv'[c].at \in {"none", "send"}
             /\ (\E m \in found : m.client = c) => serv'[c].at = "send"
             /\ serv'[c].at # "none" => /\ serv'[c].task.kind = "map" /\ serv'[c].task.job = sched.job.no
                                        /\ NumberOf(c, serv'[c].task.no)
  <2>1. CASE Servlets(found)[c] = NoServlet /\ \A m \in found : m.client # c
    BY <2>1, <1>2, NoServletType
  <2>2. ASSUME NEW k \in DOMAIN nodes, nodes[k][2] = c,
               Servlets(found)[c] = JobServlet(createMapperTaskConf(k))
        PROVE  /\ serv'[c].at = "send" /\ serv'[c].task.kind = "map" /\ serv'[c].task.job = sched.job.no
               /\ NumberOf(c, serv'[c].task.no)
    <3>1. serv'[c].at = "send" /\ serv'[c].task = createMapperTaskConf(k)
      BY <2>2, <1>2 DEF JobServlet
    <3>2. createMapperTaskConf(k).kind = "map" /\ createMapperTaskConf(k).job = sched.job.no /\ createMapperTaskConf(k).no = k
      BY DEF createMapperTaskConf, NewTaskConf
    <3>3. NumberOf(c, k)
      BY <2>2 DEF NumberOf
    <3> QED BY <3>1, <3>2, <3>3
  <2> QED BY <2>1, <2>2, <1>0, ServletOf
<1> QED BY <1>1, <1>2, <1>3, <1>4

\* The reduce phase starts.
LEMMA ReducePhaseFields ==
  ASSUME IInv, scheduleReduceTasksToSlaveNodes
  PROVE  /\ sched.at = "mapping" /\ AllJoined /\ UNCHANGED <<splits, cl, link, nodes, jobs, splitIndex, results>>
         /\ sched'.at = "reducing" /\ sched'.job = sched.job /\ sched'.mappers = sched.mappers
         /\ \A c \in Client : serv'[c].at # "none" =>
              /\ serv'[c].at = "send" /\ serv'[c].task.kind = "reduce" /\ serv'[c].task.job = sched.job.no
              /\ serv'[c].task.mappers = sched.mappers
<1>1. /\ sched.at = "mapping" /\ AllJoined /\ UNCHANGED <<splits, cl, link, nodes, jobs, splitIndex, results>>
      /\ sched' = [sched EXCEPT !.at = "reducing"] /\ SchedOK
  BY DEF scheduleReduceTasksToSlaveNodes, IInv, TypeOK
<1>2. sched'.at = "reducing" /\ sched'.job = sched.job /\ sched'.mappers = sched.mappers
  BY <1>1 DEF SchedOK
<1>3. ASSUME NEW c \in Client, serv'[c].at # "none"
      PROVE  /\ serv'[c].at = "send" /\ serv'[c].task.kind = "reduce" /\ serv'[c].task.job = sched.job.no
             /\ serv'[c].task.mappers = sched.mappers
  <2>1. serv'[c] = NoServlet \/ \E k : serv'[c] = JobServlet(createReducerTaskConf(k))
    BY DEF scheduleReduceTasksToSlaveNodes
  <2>2. PICK k : serv'[c] = JobServlet(createReducerTaskConf(k))
    BY <2>1, <1>3, NoServletType
  <2>3. serv'[c].at = "send" /\ serv'[c].task = createReducerTaskConf(k)
    BY <2>2 DEF JobServlet
  <2>4. /\ createReducerTaskConf(k).kind = "reduce" /\ createReducerTaskConf(k).job = sched.job.no
        /\ createReducerTaskConf(k).mappers = sched.mappers
    BY DEF createReducerTaskConf, NewTaskConf
  <2> QED BY <2>3, <2>4
<1> QED BY <1>1, <1>2, <1>3

\* The job ends.
LEMMA FinishFields ==
  ASSUME IInv, JobFinished
  PROVE  /\ sched.at \in {"mapping", "reducing"} /\ AllJoined
         /\ UNCHANGED <<splits, cl, link, nodes, splitIndex, results>>
         /\ sched'.at = "wait" /\ jobs'.finished # <<>> /\ \A c \in Client : serv'[c].at = "none"
<1>1. /\ sched.at \in {"mapping", "reducing"} /\ AllJoined
      /\ UNCHANGED <<splits, cl, link, nodes, splitIndex, results>>
      /\ sched' = [sched EXCEPT !.at = "wait", !.job = None, !.mappers = {}]
      /\ jobs' = [jobs EXCEPT !.finished = Append(@, sched.job)]
      /\ serv' = [c \in Client |-> NoServlet] /\ SchedOK /\ JobsOK
  BY DEF JobFinished, IInv, TypeOK
<1>2. sched'.at = "wait" /\ \A c \in Client : serv'[c].at = "none"
  BY <1>1, NoServletType DEF SchedOK
<1>3. jobs'.finished # <<>>
  <2>1. sched.job \in Job /\ jobs.finished \in Seq(Job) /\ jobs'.finished = Append(jobs.finished, sched.job)
    BY <1>1 DEF SchedOK, JobsOK
  <2> QED BY <2>1
<1> QED BY <1>1, <1>2, <1>3

\* A servlet sends its task or reads a line.
LEMMA ServletFields ==
  ASSUME IInv, NEW c \in Client, Servlet(c)
  PROVE  /\ UNCHANGED <<splits, cl, nodes, sched, jobs, splitIndex, results>>
         /\ \A d \in Client \ {c} : serv'[d] = serv[d] /\ link'[d] = link[d]
         /\ serv[c].at # "none" /\ serv'[c].at # "none" /\ serv'[c].task = serv[c].task
         /\ \/ serv'[c].at = "wait" /\ link'[c].from = link[c].from
            \/ /\ link[c].from # <<>> /\ link'[c].from = Tail(link[c].from)
               /\ serv'[c].at = "done" => Head(link[c].from) = "Task_Finished"
            \/ cl[c].st = "gone"
<1>0. serv[c] \in ServRec /\ link[c] \in LinkRec /\ serv \in [Client -> ServRec] /\ link \in [Client -> LinkRec]
  BY DEF IInv, TypeOK, ServsOK, LinksOK
<1>1. CASE ServletSend(c)
  <2>1. /\ serv[c].at = "send" /\ serv' = [serv EXCEPT ![c].at = "wait"]
        /\ link' = [link EXCEPT ![c].to = Append(link[c].to, serv[c].task)]
        /\ UNCHANGED <<splits, cl, nodes, sched, jobs, splitIndex, results>>
    BY <1>1 DEF ServletSend, master
  <2> QED BY <1>0, <2>1 DEF ServRec, LinkRec
<1>2. CASE ServletRead(c)
  <2>1. serv[c].at = "wait" /\ UNCHANGED <<splits, cl, nodes, sched, jobs, splitIndex, results>>
    BY <1>2 DEF ServletRead, master
  <2>2. CASE /\ link[c].from # <<>> /\ link' = [link EXCEPT ![c].from = Tail(@)]
             /\ serv' = [serv EXCEPT ![c].line = Head(link[c].from), ![c].at =
                           IF Head(link[c].from) = "Task_Finished" THEN "done" ELSE "wait"]
    BY <1>0, <2>1, <2>2 DEF ServRec, LinkRec
  <2>3. CASE link[c].from = <<>> /\ cl[c].st = "gone" /\ serv' = [serv EXCEPT ![c].at = "done"] /\ link' = link
    BY <1>0, <2>1, <2>3 DEF ServRec, LinkRec
  <2> QED BY <1>2, <2>2, <2>3 DEF ServletRead
<1> QED BY <1>1, <1>2 DEF Servlet

----------------------------------------------------------------------------
(* Whose turn it is. *)

\* A client at work has taken its servlet's task and has not answered it.
LEMMA Busy ==
  ASSUME IInv, NEW c \in Client, cl[c].st # "gone", ~Quiet(c)
  PROVE  serv[c].at = "wait" /\ cl[c].task = serv[c].task /\ link[c].to = <<>> /\ link[c].from = <<>>
<1>1. Joining(c) /\ Serving(c) /\ cl[c] \in ClientRec
  BY ClientType DEF IInv, Turns
<1>2. cl[c].st = "joined" /\ IsNode(c)
  BY <1>1 DEF Joining, Quiet, ClientRec
<1> QED BY <1>1, <1>2 DEF Serving, NoTask, Sent, Working, Answered

\* The task that a client takes is its servlet's.
LEMMA Taken ==
  ASSUME IInv, NEW c \in Client, TakeTask(c)
  PROVE  serv[c].at = "wait" /\ cl'[c].task = serv[c].task /\ link[c].from = <<>> /\ cl[c].at = "idle"
<1>1. Joining(c) /\ Serving(c)
  BY DEF IInv, Turns
<1>2. cl[c].st = "joined" /\ link[c].to # <<>> /\ cl'[c].task = Head(link[c].to) /\ cl[c].at = "idle"
  BY TakeTaskFields
<1>3. Sent(c)
  BY <1>1, <1>2 DEF Joining, Serving, NoTask, Working, Answered
<1>4. Head(<<serv[c].task>>) = serv[c].task
  OBVIOUS
<1> QED BY <1>2, <1>3, <1>4 DEF Sent

\* A client that has reported has no task at hand.
LEMMA MappedQuiet ==
  ASSUME IInv, NEW c \in Client, cl[c].st # "gone", Mapped(c)
  PROVE  Quiet(c) /\ serv[c].at # "none" /\ link[c].to = <<>>
<1>1. Joining(c) /\ Serving(c) /\ cl[c] \in ClientRec
  BY ClientType DEF IInv, Turns
<1>2. Range(<<>>) = {} /\ Range(<<"CLIENT_NUMBER_ACCEPTED">>) = {"CLIENT_NUMBER_ACCEPTED"}
  BY DEF Range
<1>3. cl[c].st = "joined" /\ IsNode(c)
  BY <1>1, <1>2 DEF Joining, Mapped, ClientRec
<1> QED BY <1>1, <1>2, <1>3 DEF Serving, Mapped, NoTask, Sent, Working, Answered, Quiet

\* Only a report or a result makes a client one that has reported, or a servlet's start undoes it.
LEMMA AppendRange == ASSUME NEW S, NEW s \in Seq(S), NEW e PROVE Range(Append(s, e)) = Range(s) \cup {e}
<1>1. DOMAIN s = 1 .. Len(s) /\ Len(s) \in Nat
  OBVIOUS
<1>2. DOMAIN Append(s, e) = 1 .. Len(s) + 1 /\ \A k \in 1 .. Len(s) + 1 : Append(s, e)[k] = IF k = Len(s) + 1 THEN e ELSE s[k]
  OBVIOUS
<1>3. /\ \A k \in 1 .. Len(s) : k \in 1 .. Len(s) + 1 /\ k # Len(s) + 1
      /\ \A k \in 1 .. Len(s) + 1 : k # Len(s) + 1 => k \in 1 .. Len(s)
      /\ Len(s) + 1 \in 1 .. Len(s) + 1
  BY <1>1
<1> QED BY <1>1, <1>2, <1>3 DEF Range

----------------------------------------------------------------------------
(* Nodes and their numbers. *)

\* No client becomes a node twice.
LEMMA NodesApartStep == ASSUME IInv, NodesApart, Next PROVE NodesApart'
<1>1. CASE nodes' = nodes
  BY <1>1 DEF NodesApart
<1>2. ASSUME NEW c \in Client, ~IsNode(c), nodes' = addNewClientNode(c) PROVE NodesApart'
  <2> DEFINE n == <<cl[c].id, c>>
  <2>1. nodes' = Append(nodes, n) /\ n[2] = c
    BY <1>2 DEF addNewClientNode
  <2>2. DOMAIN nodes = 1 .. Len(nodes) /\ Len(nodes) \in Nat
    BY DEF IInv, TypeOK, NodesOK
  <2>3. /\ DOMAIN nodes' = 1 .. Len(nodes) + 1 /\ nodes'[Len(nodes) + 1] = n
        /\ \A k \in 1 .. Len(nodes) : nodes'[k] = nodes[k]
    BY <2>1, <2>2 DEF IInv, TypeOK, NodesOK
  <2>4. \A k \in 1 .. Len(nodes) : nodes[k][2] # c
    BY <1>2, <2>2 DEF IsNode
  <2>5. \A k \in 1 .. Len(nodes) + 1 : k \in 1 .. Len(nodes) \/ k = Len(nodes) + 1
    BY <2>2
  <2> HIDE DEF n
  <2> QED BY <2>1, <2>2, <2>3, <2>4, <2>5 DEF NodesApart
<1>3. CASE saveClientNodeDetails
  <2>1. Joining(listener.with) /\ listener.with \in Client
    BY <1>3 DEF saveClientNodeDetails, IInv, Turns, TypeOK, ListenOK
  <2> QED BY <1>1, <1>2, <1>3, <2>1 DEF saveClientNodeDetails, Joining
<1>4. ASSUME Aside, ~saveClientNodeDetails PROVE nodes' = nodes
  BY <1>4 DEF Aside, Servlet, ServletSend, ServletRead, Submit, Scheduler, Dequeue,
     InputUnreadable, NoNodes, OpenInput, scheduleMapTasksToSlaveNodes, scheduleReduceTasksToSlaveNodes, JobFinished, Reader, ReadError, master
<1>5. ASSUME NEW c \in Client,
             \/ Accept(c) \/ AcceptNumber(c) \/ Disconnect(c) \/ TakeTask(c) \/ Gives(c) \/ OpenHandle(c)
      PROVE nodes' = nodes
  BY <1>5, AcceptFields, DisconnectFields, TakeTaskFields, GivesFields, OpenFields
<1>6. ASSUME NEW c \in Client, MapRead(c) \/ MapFinish(c) \/ partitionMapOut(c) PROVE nodes' = nodes
  BY <1>6, MapReadFields, MapFinishFields, StoreFields
<1>7. ASSUME NEW c \in Client, ReduceFinish(c) \/ \E m \in sched.mappers : receiveMapPartition(c, m) PROVE nodes' = nodes
  BY <1>7, ReduceFields, FetchFields
<1> QED BY <1>1, <1>3, <1>4, <1>5, <1>6, <1>7, Actions

\* A client's stored lines, its task and its servlet's task have its number.
Numbers(c) ==
    /\ \A p \in cl[c].store : NumberOf(c, p.key[2])
    /\ cl[c].at = "fetch" <=> cl[c].at # "idle" /\ cl[c].task.kind = "reduce"
    /\ cl[c].at # "idle" /\ cl[c].task.kind = "map" => NumberOf(c, cl[c].task.no)
Served(c) == serv[c].at # "none" /\ serv[c].task.kind = "map" => NumberOf(c, serv[c].task.no)

\* Every step keeps nodes and numbers together.
LEMMA NumberedStep == ASSUME IInv, Numbered, Next PROVE Numbered'
<1>0. \A c \in Client : Numbers(c) /\ Served(c)
  BY DEF Numbered, Numbers, Served
<1>1. \A c \in Client : \A k : NumberOf(c, k) => NumberOf(c, k)'
  BY NodesGrow
<1>2. ASSUME \A c \in Client : Numbers(c)' /\ Served(c)' PROVE Numbered'
  BY <1>2 DEF Numbered, Numbers, Served
<1>3. ASSUME NEW c \in Client, cl'[c] = cl[c] PROVE Numbers(c)'
  <2> QED BY <1>0, <1>1, <1>3 DEF Numbers
<1>4. ASSUME NEW c \in Client, serv'[c] = serv[c] PROVE Served(c)'
  <2> QED BY <1>0, <1>1, <1>4 DEF Served
<1>5. ASSUME NEW c \in Client, OnlyClient(c), serv' = serv, Numbers(c)' PROVE Numbered'
  BY <1>2, <1>3, <1>4, <1>5 DEF OnlyClient
  \* A client's step that keeps its store and its task.
<1>6. ASSUME NEW c \in Client, OnlyClient(c), serv' = serv, cl'[c].store \subseteq cl[c].store,
             \/ cl'[c].at = "idle"
             \/ /\ cl'[c].task = cl[c].task /\ cl[c].at # "idle"
                /\ cl'[c].at = "fetch" <=> cl[c].at = "fetch"
      PROVE  Numbered'
  <2>1. Numbers(c)'
    BY <1>0, <1>1, <1>6 DEF Numbers
  <2> QED BY <2>1, <1>5, <1>6
<1>7. ASSUME NEW c \in Client, Accept(c) \/ AcceptNumber(c) PROVE Numbered'
  <2>1. \A f \in {"at", "task", "split", "rest", "store", "fetched", "input", "clean"} : cl'[c][f] = cl[c][f]
    BY <1>7, AcceptFields
  <2>2. cl'[c].at = cl[c].at /\ cl'[c].task = cl[c].task /\ cl'[c].store = cl[c].store
    BY <2>1
  <2> QED BY <2>2, <1>6, <1>7, AcceptFields
<1>8. ASSUME NEW c \in Client, Disconnect(c) PROVE Numbered'
  <2>1. OnlyClient(c) /\ serv' = serv /\ cl'[c].store \subseteq cl[c].store /\ cl'[c].at = "idle"
    BY <1>8, DisconnectFields
  <2> QED BY <2>1, <1>6
<1>9. ASSUME NEW c \in Client, TakeTask(c) PROVE Numbered'
  <2>1. \A f \in {"st", "split", "rest", "store"} : cl'[c][f] = cl[c][f]
    BY <1>9, TakeTaskFields
  <2>2. /\ cl'[c].store = cl[c].store /\ OnlyClient(c) /\ serv' = serv
        /\ cl'[c].at = IF cl'[c].task.kind = "map" THEN "open" ELSE "fetch"
    BY <1>9, <2>1, TakeTaskFields
  <2>3. cl'[c].task = serv[c].task /\ serv[c].at = "wait"
    BY <1>9, Taken
  <2>4. serv[c].task.kind \in {"map", "reduce"}
    <3>1. serv[c].task \in Task
      BY <2>3 DEF IInv, TypeOK, ServsOK
    <3> QED BY <3>1 DEF Task
  <2>5. Numbers(c)'
    BY <1>0, <1>1, <2>2, <2>3, <2>4 DEF Numbers, Served
  <2> QED BY <2>2, <2>5, <1>5
<1>10. ASSUME NEW c \in Client, Gives(c) PROVE Numbered'
  <2>1. OnlyClient(c) /\ serv' = serv /\ cl'[c].store \subseteq cl[c].store /\ cl'[c].at = "idle"
    BY <1>10, GivesFields
  <2> QED BY <2>1, <1>6
<1>11. ASSUME NEW c \in Client, OpenHandle(c) \/ MapRead(c) \/ MapFinish(c) PROVE Numbered'
  <2>1. /\ OnlyClient(c) /\ serv' = serv /\ cl'[c].store \subseteq cl[c].store /\ cl'[c].task = cl[c].task
        /\ cl'[c].at # "fetch" /\ cl[c].at # "fetch" /\ cl[c].at # "idle"
    BY <1>11, OpenFields, MapReadFields, MapFinishFields
  <2> QED BY <2>1, <1>6
<1>12. ASSUME NEW c \in Client, partitionMapOut(c) PROVE Numbered'
  <2> DEFINE line == Head(cl[c].rest)
             p == [key |-> TaskKey(cl[c].task, line), line |-> line]
  <2>1. OnlyClient(c) /\ serv' = serv /\ cl'[c].task = cl[c].task /\ cl[c].at = "store"
        /\ cl'[c].at \in {"idle", "store"} /\ cl'[c].store \subseteq cl[c].store \cup {p}
    BY <1>12, StoreFields
  <2>2. cl[c].task.kind = "map"
    <3>1. cl[c].task \in Task
      BY <2>1 DEF IInv, TypeOK, ClientsOK
    <3> QED BY <3>1, <2>1, <1>0 DEF Task, Numbers
  <2>3. p.key[2] = cl[c].task.no
    BY DEF TaskKey
  <2>4. NumberOf(c, p.key[2])
    BY <1>0, <2>1, <2>2, <2>3 DEF Numbers
  <2> HIDE DEF p
  <2>5. \A q \in cl'[c].store : NumberOf(c, q.key[2])'
    BY <1>0, <1>1, <2>1, <2>4 DEF Numbers
  <2>6. Numbers(c)'
    BY <1>0, <1>1, <2>1, <2>2, <2>5 DEF Numbers
  <2> QED BY <2>1, <2>6, <1>5
<1>13. ASSUME NEW c \in Client, ReduceFinish(c) PROVE Numbered'
  <2>1. OnlyClient(c) /\ serv' = serv /\ cl'[c].store \subseteq cl[c].store /\ cl'[c].at = "idle"
    BY <1>13, ReduceFields
  <2> QED BY <2>1, <1>6
<1>14. ASSUME NEW c \in Client, NEW m, receiveMapPartition(c, m) PROVE Numbered'
  <2>1. \A f \in {"st", "at", "task", "split", "rest", "store"} : cl'[c][f] = cl[c][f]
    BY <1>14, FetchFields
  <2>2. cl'[c].at = cl[c].at /\ cl'[c].task = cl[c].task /\ cl'[c].store = cl[c].store
    BY <2>1
  <2>3. OnlyClient(c) /\ serv' = serv /\ cl[c].at = "fetch"
    BY <1>14, FetchFields
  <2> QED BY <2>2, <2>3, <1>6
<1>15. ASSUME Aside PROVE Numbered'
  <2>0. cl' = cl
    BY <1>15, AsideFields
  <2>1. ASSUME \A c \in Client : Served(c)' PROVE Numbered'
    BY <2>0, <2>1, <1>2, <1>3
  <2>2. CASE serv' = serv
    BY <2>2, <2>1, <1>4
  <2>3. CASE scheduleMapTasksToSlaveNodes
    <3>1. \A c \in Client : serv'[c].at # "none" => NumberOf(c, serv'[c].task.no)
      BY <2>3, MapPhaseFields
    <3> QED BY <3>1, <2>1, <1>1 DEF Served
  <2>4. CASE scheduleReduceTasksToSlaveNodes
    <3>1. \A c \in Client : serv'[c].at # "none" => serv'[c].task.kind = "reduce"
      BY <2>4, ReducePhaseFields
    <3> QED BY <3>1, <2>1 DEF Served
  <2>5. CASE JobFinished
    <3>1. \A c \in Client : serv'[c].at = "none"
      BY <2>5, FinishFields
    <3> QED BY <3>1, <2>1 DEF Served
  <2>6. ASSUME NEW c \in Client, Servlet(c) PROVE Numbered'
    <3>1. /\ \A d \in Client \ {c} : serv'[d] = serv[d]
          /\ serv[c].at # "none" /\ serv'[c].task = serv[c].task
      BY <2>6, ServletFields
    <3>2. Served(c)'
      BY <3>1, <1>0, <1>1 DEF Served
    <3> QED BY <3>1, <3>2, <2>1, <1>4
  <2>7. ASSUME \/ \E n \in JobConf : Submit(n)
               \/ saveClientNodeDetails \/ Dequeue \/ InputUnreadable \/ NoNodes \/ OpenInput
               \/ \E i \in DOMAIN splits : Reader(i) \/ ReadError(i)
        PROVE  serv' = serv
    BY <2>7 DEF Submit, saveClientNodeDetails, Dequeue, InputUnreadable, NoNodes, OpenInput, Reader, ReadError
  <2> QED BY <1>15, <2>2, <2>3, <2>4, <2>5, <2>6, <2>7 DEF Aside, Scheduler
<1> QED BY <1>7, <1>8, <1>9, <1>10, <1>11, <1>12, <1>13, <1>14, <1>15, Actions

\* Results keep their form.
LEMMA GroupedStep == ASSUME IInv, Grouped, Next PROVE Grouped'
<1>1. CASE results' = results
  BY <1>1 DEF Grouped
<1>2. ASSUME NEW c \in Client, ReduceFinish(c) PROVE Grouped'
  <2>1. results' = results \/ \E r : results' = results \cup {r} /\ ByLine(r)
    BY <1>2, ReduceFields
  <2>2. ASSUME NEW r, results' = results \cup {r}, ByLine(r) PROVE Grouped'
    <3>1. \A q \in results' : ByLine(q)
      BY <2>2 DEF Grouped
    <3> QED BY <3>1 DEF Grouped
  <2> QED BY <2>1, <2>2, <1>1
<1>3. ASSUME Aside PROVE results' = results
  BY <1>3, AsideFields
<1>4. ASSUME NEW c \in Client,
             \/ Accept(c) \/ AcceptNumber(c) \/ Disconnect(c) \/ TakeTask(c) \/ Gives(c) \/ OpenHandle(c)
      PROVE results' = results
  BY <1>4, AcceptFields, DisconnectFields, TakeTaskFields, GivesFields, OpenFields
<1>5. ASSUME NEW c \in Client, MapRead(c) \/ MapFinish(c) \/ partitionMapOut(c) PROVE results' = results
  BY <1>5, MapReadFields, MapFinishFields, StoreFields
<1>6. ASSUME NEW c \in Client, NEW m, receiveMapPartition(c, m) PROVE results' = results
  BY <1>6, FetchFields
<1> QED BY <1>1, <1>2, <1>3, <1>4, <1>5, <1>6, Actions

----------------------------------------------------------------------------
(* What a step means to one client, while none is lost. *)

\* The client's fields below are as they were.
Same(c) == \A f \in {"at", "task", "split", "rest", "store", "fetched", "input", "clean"} : cl'[c][f] = cl[c][f]

\* A client that is not lost takes a step of its own, or stays.
LEMMA Moves ==
  ASSUME IInv, Next, NEW c \in Client, cl'[c].st # "gone"
  PROVE  \/ TakeTask(c) \/ Gives(c) \/ OpenHandle(c) \/ MapRead(c) \/ MapFinish(c) \/ partitionMapOut(c)
         \/ ReduceFinish(c) \/ \E m \in sched.mappers : receiveMapPartition(c, m)
         \/ Same(c)
<1>1. ASSUME cl'[c] = cl[c] PROVE Same(c)
  BY <1>1 DEF Same
<1>2. ASSUME Aside PROVE Same(c)
  BY <1>1, <1>2, AsideFields
<1>3. ASSUME NEW d \in Client, Accept(d) \/ AcceptNumber(d) PROVE Same(c)
  <2>1. OnlyClient(d) /\ Same(d)
    BY <1>3, AcceptFields DEF Same
  <2> QED BY <2>1, <1>1 DEF OnlyClient
<1>4. ASSUME NEW d \in Client, Disconnect(d) PROVE Same(c)
  BY <1>1, <1>4, DisconnectFields DEF OnlyClient
<1>5. ASSUME NEW d \in Client, TakeTask(d) \/ Gives(d) \/ OpenHandle(d) PROVE OnlyClient(d)
  BY <1>5, TakeTaskFields, GivesFields, OpenFields
<1>6. ASSUME NEW d \in Client, MapRead(d) \/ MapFinish(d) \/ partitionMapOut(d) PROVE OnlyClient(d)
  BY <1>6, MapReadFields, MapFinishFields, StoreFields
<1>7. ASSUME NEW d \in Client, ReduceFinish(d) PROVE OnlyClient(d)
  BY <1>7, ReduceFields
<1>8. ASSUME NEW d \in Client, NEW m, receiveMapPartition(d, m) PROVE OnlyClient(d)
  BY <1>8, FetchFields
<1>9. ASSUME NEW d \in Client, OnlyClient(d), c # d PROVE Same(c)
  BY <1>1, <1>9 DEF OnlyClient
<1> QED BY <1>1, <1>2, <1>3, <1>4, <1>5, <1>6, <1>7, <1>8, <1>9, Actions

\* Results come from reducers.
LEMMA NewResults == ASSUME IInv, Next PROVE results' = results \/ \E c \in Client : ReduceFinish(c)
<1>3. ASSUME Aside PROVE results' = results
  BY <1>3, AsideFields
<1>4. ASSUME NEW c \in Client,
             \/ Accept(c) \/ AcceptNumber(c) \/ Disconnect(c) \/ TakeTask(c) \/ Gives(c) \/ OpenHandle(c)
      PROVE results' = results
  BY <1>4, AcceptFields, DisconnectFields, TakeTaskFields, GivesFields, OpenFields
<1>5. ASSUME NEW c \in Client, MapRead(c) \/ MapFinish(c) \/ partitionMapOut(c) PROVE results' = results
  BY <1>5, MapReadFields, MapFinishFields, StoreFields
<1>6. ASSUME NEW c \in Client, NEW m, receiveMapPartition(c, m) PROVE results' = results
  BY <1>6, FetchFields
<1> QED BY <1>3, <1>4, <1>5, <1>6, Actions

\* A client at "store" stores, or stays.
LEMMA AtStore ==
  ASSUME IInv, Next, NEW c \in Client, cl'[c].st # "gone", cl[c].at = "store"
  PROVE  partitionMapOut(c) \/ Same(c)
<1>1. ~TakeTask(c)
  BY TakeTaskFields
<1>2. ~Gives(c) /\ ~OpenHandle(c)
  BY GivesFields, OpenFields
<1>3. ~MapRead(c) /\ ~MapFinish(c) /\ ~ReduceFinish(c)
  BY MapReadFields, MapFinishFields, ReduceFields
<1>4. \A m : ~receiveMapPartition(c, m)
  BY FetchFields
<1> QED BY <1>1, <1>2, <1>3, <1>4, Moves

\* What a client has to keep it keeps.
LEMMA KeepsStays ==
  ASSUME IInv, Next, NEW c \in Client, NEW line, cl'[c].st # "gone", sched'.job = sched.job,
         cl[c].at = "store" => cl[c].task.job = sched.job.no, Keeps(c, line)
  PROVE  Keeps(c, line)'
<1>1. ASSUME NEW p \in cl[c].store, p.line = line, p.key[1] = sched.job.no PROVE Keeps(c, line)'
  <2>1. p \in cl'[c].store
    BY StoresGrow
  <2> QED BY <1>1, <2>1 DEF Keeps
<1>2. CASE cl[c].at = "store" /\ line \in Range(cl[c].rest)
  <2>0. cl[c].rest \in Seq(Nat)
    BY ClientType DEF ClientRec
  <2>1. CASE Same(c)
    <3>1. cl'[c].at = cl[c].at /\ cl'[c].rest = cl[c].rest
      BY <2>1 DEF Same
    <3> QED BY <1>2, <3>1 DEF Keeps
  <2>2. CASE partitionMapOut(c)
    <3>0. cl[c].rest # <<>>
      BY <1>2 DEF Range
    <3>1. /\ cl'[c].at = "store" /\ cl'[c].rest = Tail(cl[c].rest)
          /\ cl'[c].store = cl[c].store \cup {[key  |-> TaskKey(cl[c].task, Head(cl[c].rest)),
                                               line |-> Head(cl[c].rest)]}
      BY <2>2, <3>0, StoreFields
    <3>2. CASE line \in Range(Tail(cl[c].rest))
      BY <3>1, <3>2 DEF Keeps
    <3>3. CASE line = Head(cl[c].rest)
      <4> DEFINE p == [key  |-> TaskKey(cl[c].task, line), line |-> line]
      <4>1. p \in cl'[c].store /\ p.line = line /\ p.key[1] = sched.job.no
        BY <3>1, <3>3, <1>2 DEF TaskKey
      <4> HIDE DEF p
      <4> QED BY <4>1 DEF Keeps
    <3> QED BY <1>2, <2>0, <3>0, <3>2, <3>3, HeadTail
  <2> QED BY <1>2, <2>1, <2>2, AtStore
<1> QED BY <1>1, <1>2 DEF Keeps

\* The steps inside a phase.
Inside == /\ sched' = sched /\ jobs'.finished = jobs.finished
          /\ \A c \in Client : serv'[c].task = serv[c].task /\ (serv'[c].at = "none" <=> serv[c].at = "none")

\* A job is taken from the queue or dropped, or the scheduler's thread ends.
NoPhase == /\ sched.at \in {"wait", "map"} /\ sched'.at \in {"wait", "map", "dead"}
           /\ jobs'.finished = jobs.finished
           /\ UNCHANGED <<splits, cl, link, serv, nodes, splitIndex, results>>

\* A phase begins or ends, or goes on.
LEMMA Phases ==
  ASSUME IInv, Next
  PROVE  \/ Inside \/ NoPhase \/ OpenInput
         \/ scheduleMapTasksToSlaveNodes \/ scheduleReduceTasksToSlaveNodes \/ JobFinished
<1>0. jobs \in [queue : Seq(Job), accepted : Seq(Job), finished : Seq(Job), lost : Seq(Job)] /\ SchedOK
  BY DEF IInv, TypeOK, JobsOK
<1>1. ASSUME serv' = serv, sched' = sched, jobs' = jobs PROVE Inside
  BY <1>1 DEF Inside
<1>2. ASSUME NEW c \in Client,
             \/ Accept(c) \/ AcceptNumber(c) \/ Disconnect(c) \/ TakeTask(c) \/ Gives(c) \/ OpenHandle(c)
      PROVE  serv' = serv /\ sched' = sched /\ jobs' = jobs
  BY <1>2, AcceptFields, DisconnectFields, TakeTaskFields, GivesFields, OpenFields
<1>3. ASSUME NEW c \in Client, MapRead(c) \/ MapFinish(c) \/ partitionMapOut(c)
      PROVE  serv' = serv /\ sched' = sched /\ jobs' = jobs
  BY <1>3, MapReadFields, MapFinishFields, StoreFields
<1>4. ASSUME NEW c \in Client, ReduceFinish(c) PROVE serv' = serv /\ sched' = sched /\ jobs' = jobs
  BY <1>4, ReduceFields
<1>5. ASSUME NEW c \in Client, NEW m, receiveMapPartition(c, m) PROVE serv' = serv /\ sched' = sched /\ jobs' = jobs
  BY <1>5, FetchFields
<1>6. ASSUME NEW c \in Client, Servlet(c) PROVE Inside
  <2>1. /\ \A d \in Client \ {c} : serv'[d] = serv[d]
        /\ serv[c].at # "none" /\ serv'[c].at # "none" /\ serv'[c].task = serv[c].task
        /\ sched' = sched /\ jobs' = jobs
    BY <1>6, ServletFields
  <2> QED BY <2>1 DEF Inside
<1>7. ASSUME NEW n \in JobConf, Submit(n) PROVE Inside
  <2>1. UNCHANGED <<serv, sched>> /\ \E j : jobs' = [jobs EXCEPT !.queue = Append(@, j), !.accepted = Append(@, j)]
    BY <1>7 DEF Submit, scheduleJob, queueJob
  <2>2. jobs'.finished = jobs.finished
    BY <2>1, <1>0
  <2> QED BY <2>1, <2>2 DEF Inside
<1>8. ASSUME saveClientNodeDetails \/ \E i \in DOMAIN splits : Reader(i) \/ ReadError(i) PROVE Inside
  <2>1. serv' = serv /\ sched' = sched /\ jobs' = jobs
    BY <1>8 DEF saveClientNodeDetails, Reader, ReadError, master
  <2> QED BY <2>1, <1>1
<1>9. ASSUME Dequeue PROVE NoPhase
  <2>1. /\ sched.at = "wait" /\ jobs' = [jobs EXCEPT !.queue = Tail(@)]
        /\ sched' = [sched EXCEPT !.at = "map", !.job = Head(jobs.queue),
                              !.reduce = estimateTotalReduceTasks(Head(jobs.queue).reduce)]
        /\ UNCHANGED <<splits, cl, link, serv, nodes, splitIndex, results>>
    BY <1>9 DEF Dequeue, dequeueJob
  <2> QED BY <1>0, <2>1 DEF SchedOK, NoPhase
<1>10. ASSUME InputUnreadable PROVE NoPhase
  <2>1. /\ sched.at = "map" /\ jobs' = [jobs EXCEPT !.lost = Append(@, sched.job)]
        /\ sched' = [sched EXCEPT !.at = "wait", !.job = None]
        /\ UNCHANGED <<splits, cl, link, serv, nodes, splitIndex, results>>
    BY <1>10 DEF InputUnreadable
  <2> QED BY <1>0, <2>1 DEF SchedOK, NoPhase
<1>11. ASSUME NoNodes PROVE NoPhase
  <2>1. /\ sched.at = "map" /\ sched' = [sched EXCEPT !.at = "dead"] /\ jobs' = jobs
        /\ UNCHANGED <<splits, cl, link, serv, nodes, splitIndex, results>>
    BY <1>11 DEF NoNodes
  <2> QED BY <1>0, <2>1 DEF SchedOK, NoPhase
<1> QED BY <1>1, <1>2, <1>3, <1>4, <1>5, <1>6, <1>7, <1>8, <1>9, <1>10, <1>11, Actions DEF Aside, Scheduler

\* Until the input is opened, there are no splits.
LEMMA NoSplits == ASSUME IInv, Next, splits = <<>>, ~OpenInput PROVE splits' = <<>>
<1>0. DOMAIN splits = {}
  OBVIOUS
<1>1. \A c \in Client : ~MapRead(c)
  BY <1>0, MapReadFields
<1>2. ASSUME NEW c \in Client,
             \/ Accept(c) \/ AcceptNumber(c) \/ Disconnect(c) \/ TakeTask(c) \/ Gives(c) \/ OpenHandle(c)
      PROVE  splits' = splits
  BY <1>2, AcceptFields, DisconnectFields, TakeTaskFields, GivesFields, OpenFields
<1>3. ASSUME NEW c \in Client, MapFinish(c) \/ partitionMapOut(c) \/ ReduceFinish(c) PROVE splits' = splits
  BY <1>3, MapFinishFields, StoreFields, ReduceFields
<1>5. ASSUME NEW c \in Client, NEW m, receiveMapPartition(c, m) PROVE splits' = splits
  BY <1>5, FetchFields
<1>6. ASSUME Aside PROVE splits' = splits
  BY <1>0, <1>6 DEF Aside, Servlet, ServletSend, ServletRead, Submit, saveClientNodeDetails, Scheduler, Dequeue,
     InputUnreadable, NoNodes, scheduleMapTasksToSlaveNodes, scheduleReduceTasksToSlaveNodes, JobFinished
<1> QED BY <1>1, <1>2, <1>3, <1>5, <1>6, Actions

\* A client has reported now if it had, or reports by this step.
LEMMA MappedNew ==
  ASSUME IInv, Next, NEW c \in Client, cl'[c].st # "gone", Mapped(c)'
  PROVE  Mapped(c) \/ MapFinish(c) \/ ReduceFinish(c)
<1>0. link \in [Client -> LinkRec] /\ link[c] \in LinkRec /\ link[c].from \in Seq(Line) /\ cl[c].st # "gone"
  BY StoresGrow DEF IInv, TypeOK, LinksOK, LinkRec
<1>1. ASSUME Range(link'[c].from) \subseteq Range(link[c].from) \cup {"CLIENT_NUMBER_ACCEPTED", "Invalid Task configuration provided"},
             serv'[c].at = "done" => Mapped(c)
      PROVE  Mapped(c)
  BY <1>1 DEF Mapped
<1>2. ASSUME link' = link, serv'[c].at = "done" => serv[c].at = "done" PROVE Mapped(c)
  BY <1>2 DEF Mapped
<1>3. ASSUME NEW d \in Client, Disconnect(d) \/ OpenHandle(d) \/ Accept(d) PROVE Mapped(c)
  BY <1>2, <1>3, DisconnectFields, OpenFields, AcceptFields
<1>4. ASSUME NEW d \in Client, MapRead(d) \/ partitionMapOut(d) PROVE Mapped(c)
  BY <1>2, <1>4, MapReadFields, StoreFields
<1>5. ASSUME NEW d \in Client, NEW m, receiveMapPartition(d, m) PROVE Mapped(c)
  BY <1>2, <1>5, FetchFields
<1>6. ASSUME NEW d \in Client, TakeTask(d) PROVE Mapped(c)
  <2>1. link' = [link EXCEPT ![d].to = Tail(link[d].to)] /\ serv' = serv
    BY <1>6, TakeTaskFields
  <2>2. link'[c].from = link[c].from
    BY <2>1, <1>0 DEF LinkRec
  <2> QED BY <1>1, <2>1, <2>2 DEF Mapped
<1>7. ASSUME NEW d \in Client, NEW line \in {"CLIENT_NUMBER_ACCEPTED", "Invalid Task configuration provided"},
             Reply(d, line), serv' = serv
      PROVE  Mapped(c)
  <2>1. link'[c].from = link[c].from \/ link'[c].from = Append(link[c].from, line)
    BY <1>0, <1>7 DEF Reply, LinkRec
  <2>2. Range(Append(link[c].from, line)) = Range(link[c].from) \cup {line}
    BY <1>0, AppendRange
  <2> QED BY <1>1, <1>7, <2>1, <2>2 DEF Mapped
<1>8. ASSUME NEW d \in Client, NEW line, d # c, Reply(d, line), serv' = serv PROVE Mapped(c)
  <2>1. link'[c] = link[c]
    BY <1>0, <1>8 DEF Reply
  <2> QED BY <1>1, <1>8, <2>1 DEF Mapped
<1>9. ASSUME NEW d \in Client, AcceptNumber(d) \/ Gives(d) PROVE Mapped(c)
  BY <1>7, <1>9, AcceptFields, GivesFields
<1>10. ASSUME NEW d \in Client, d # c, MapFinish(d) \/ ReduceFinish(d) PROVE Mapped(c)
  <2>1. serv' = serv /\ \E line : Reply(d, line)
    BY <1>10, MapFinishFields, ReduceFields
  <2> QED BY <2>1, <1>8, <1>10
<1>11. ASSUME NEW s \in Seq(Line), s # <<>> PROVE Range(Tail(s)) \subseteq Range(s) /\ Head(s) \in Range(s)
  <2>1. DOMAIN s = 1 .. Len(s) /\ Len(s) \in Nat \ {0} /\ Head(s) = s[1] /\ 1 \in 1 .. Len(s)
    BY <1>11
  <2>2. DOMAIN Tail(s) = 1 .. Len(s) - 1 /\ \A k \in 1 .. Len(s) - 1 : Tail(s)[k] = s[k + 1] /\ k + 1 \in 1 .. Len(s)
    BY <1>11, <2>1
  <2> QED BY <2>1, <2>2 DEF Range
<1>12. ASSUME NEW d \in Client, Servlet(d) PROVE Mapped(c)
  <2>1. CASE c # d
    BY <2>1, <1>12, ServletFields DEF Mapped
  <2>2. CASE c = d /\ serv'[c].at = "wait" /\ link'[c].from = link[c].from
    BY <2>2 DEF Mapped
  <2>3. CASE /\ c = d /\ link[c].from # <<>> /\ link'[c].from = Tail(link[c].from)
             /\ serv'[c].at = "done" => Head(link[c].from) = "Task_Finished"
    <3>1. Range(Tail(link[c].from)) \subseteq Range(link[c].from) /\ Head(link[c].from) \in Range(link[c].from)
      BY <1>0, <1>11, <2>3
    <3> QED BY <2>3, <3>1, <1>1 DEF Mapped
  <2> QED BY <1>0, <1>12, <2>1, <2>2, <2>3, ServletFields
<1>13. ASSUME saveClientNodeDetails PROVE Mapped(c)
  <2> DEFINE d == listener.with
  <2>1. serv' = serv /\ d # None /\ (link' = link \/ (link[d].from # <<>> /\ link' = [link EXCEPT ![d].from = Tail(@)]))
    BY <1>13 DEF saveClientNodeDetails
  <2>2. d \in Client
    BY <2>1 DEF IInv, TypeOK, ListenOK
  <2> HIDE DEF d
  <2>3. CASE link[d].from # <<>> /\ link' = [link EXCEPT ![d].from = Tail(@)]
    <3>1. link'[c].from = link[c].from \/ (link[c].from # <<>> /\ link'[c].from = Tail(link[c].from))
      BY <2>2, <2>3, <1>0 DEF LinkRec
    <3>2. Range(link'[c].from) \subseteq Range(link[c].from)
      BY <3>1, <1>0, <1>11
    <3> QED BY <3>2, <2>1, <1>1 DEF Mapped
  <2> QED BY <2>1, <2>3, <1>2
<1>14. ASSUME scheduleMapTasksToSlaveNodes PROVE Mapped(c)
  <2>1. link' = link /\ serv'[c].at \in {"none", "send"}
    BY <1>14, MapPhaseFields
  <2> QED BY <2>1, <1>2
<1>15. ASSUME scheduleReduceTasksToSlaveNodes PROVE Mapped(c)
  <2>1. link' = link /\ (serv'[c].at # "none" => serv'[c].at = "send")
    BY <1>15, ReducePhaseFields
  <2> QED BY <2>1, <1>2
<1>16. ASSUME JobFinished PROVE Mapped(c)
  BY <1>2, <1>16, FinishFields
<1>17. ASSUME \/ \E n \in JobConf : Submit(n)
              \/ Dequeue \/ InputUnreadable \/ NoNodes \/ OpenInput
              \/ \E i \in DOMAIN splits : Reader(i) \/ ReadError(i)
       PROVE  Mapped(c)
  <2>1. link' = link /\ serv' = serv
    BY <1>17 DEF Submit, Dequeue, InputUnreadable, NoNodes, OpenInput, Reader, ReadError
  <2> QED BY <2>1, <1>2
<1> QED BY <1>3, <1>4, <1>5, <1>6, <1>9, <1>10, <1>12, <1>13, <1>14, <1>15, <1>16, <1>17, Actions DEF Aside, Scheduler

----------------------------------------------------------------------------
(* The phases of the first job, and of those after it. *)

\* Nobody comes back.
LEMMA NoneGoneBefore == ASSUME IInv, Next, NoneGone' PROVE NoneGone
BY StoresGrow DEF NoneGone

\* What the proof of a part may use.
Calm == /\ IInv /\ Reading /\ SplitsApart /\ NodesApart /\ Numbered
        /\ NoneGone /\ NoneGone'
        /\ BeforeOK /\ OpenedOK /\ FirstOK /\ MappingOK /\ ReadOut /\ LaterOK /\ ReducingOK /\ Complete

\* While map tasks are out, no reducer is at work.
LEMMA NoReducer ==
  ASSUME IInv, Numbered, NoneGone, \A c \in Client : serv[c].at # "none" => serv[c].task.kind = "map", NEW c \in Client
  PROVE  cl[c].at # "fetch"
<1> SUFFICES ASSUME cl[c].at = "fetch" PROVE FALSE
  OBVIOUS
<1>1. cl[c].task.kind = "reduce"
  BY DEF Numbered
<1>2. serv[c].at = "wait" /\ cl[c].task = serv[c].task
  BY Busy DEF Quiet, NoneGone
<1> QED BY <1>1, <1>2

\* Without servlets, clients that do nothing go on so.
LEMMA IdleStays ==
  ASSUME IInv, Next, NoneGone, NoneGone', results = {},
         \A c \in Client : serv[c].at = "none" /\ cl[c].at = "idle"
  PROVE  results' = {} /\ \A c \in Client : cl'[c].at = "idle"
<1>1. results' = {}
  BY NewResults, ReduceFields
<1>2. ASSUME NEW c \in Client PROVE cl'[c].at = "idle"
  <2>1. ~TakeTask(c)
    BY Taken
  <2>2. ~Gives(c) /\ ~OpenHandle(c)
    BY GivesFields, OpenFields
  <2>3. ~MapRead(c) /\ ~MapFinish(c) /\ ~partitionMapOut(c) /\ ~ReduceFinish(c)
    BY MapReadFields, MapFinishFields, StoreFields, ReduceFields
  <2>4. \A m : ~receiveMapPartition(c, m)
    BY FetchFields
  <2>5. Same(c)
    BY <2>1, <2>2, <2>3, <2>4, Moves DEF NoneGone
  <2> QED BY <2>5 DEF Same
<1> QED BY <1>1, <1>2

\* Before the first job's map phase, clients do nothing.
LEMMA BeforeStep == ASSUME Calm, Next PROVE BeforeOK'
<1> SUFFICES ASSUME Before' PROVE splits' = <<>> /\ results' = {} /\ \A c \in Client : cl'[c].at = "idle"
  BY DEF BeforeOK
<1>0. IInv /\ NoneGone /\ NoneGone' /\ SchedOK
  BY DEF Calm, IInv, TypeOK
<1>1. CASE Inside
  <2>1. Before
    BY <1>1 DEF Before, Inside
  <2>2. splits = <<>> /\ results = {} /\ \A c \in Client : cl[c].at = "idle"
    BY <2>1 DEF Calm, BeforeOK
  <2>3. ~OpenInput
    <3>1. OpenInput => sched'.at # sched.at
      BY <1>0, OpenInputFields
    <3> QED BY <1>1, <3>1 DEF Inside
  <2>4. \A c \in Client : serv[c].at = "none"
    BY <2>1, <1>0 DEF Before, IInv, NoServlets
  <2> QED BY <1>0, <2>2, <2>3, <2>4, IdleStays, NoSplits
<1>2. CASE NoPhase
  <2>1. Before /\ UNCHANGED <<splits, cl, results>>
    BY <1>2 DEF Before, NoPhase
  <2> QED BY <2>1 DEF Calm, BeforeOK
<1>3. CASE OpenInput
  BY <1>0, <1>3, OpenInputFields DEF Before
<1>4. CASE scheduleMapTasksToSlaveNodes
  BY <1>0, <1>4, MapPhaseFields DEF Before
<1>5. CASE scheduleReduceTasksToSlaveNodes
  BY <1>0, <1>5, ReducePhaseFields DEF Before
<1>6. CASE JobFinished
  BY <1>0, <1>6, FinishFields DEF Before
<1> QED BY <1>0, <1>1, <1>2, <1>3, <1>4, <1>5, <1>6, Phases

\* The nodes that have a split stay, under their numbers.
LEMMA SplitMappersStay ==
  ASSUME IInv, Next, splits # <<>>, DOMAIN splits \subseteq DOMAIN nodes
  PROVE  /\ splits' # <<>> /\ DOMAIN splits' = DOMAIN splits /\ DOMAIN splits' \subseteq DOMAIN nodes'
         /\ SplitMappers' = SplitMappers
<1>1. splits' # <<>> /\ DOMAIN splits' = DOMAIN splits
  BY Reads
<1>2. DOMAIN nodes \subseteq DOMAIN nodes' /\ \A k \in DOMAIN nodes : nodes'[k] = nodes[k]
  BY NodesGrow
<1>3. \A k \in DOMAIN splits : Mapper(k)' = Mapper(k)
  BY <1>2 DEF Mapper
<1> QED BY <1>1, <1>2, <1>3 DEF SplitMappers

\* The input is opened for the nodes that there are.
LEMMA OpenedStep == ASSUME Calm, Next PROVE OpenedOK'
<1> SUFFICES ASSUME Opened'
             PROVE  /\ splits' # <<>> /\ DOMAIN splits' \subseteq DOMAIN nodes' /\ SplitMappers' \subseteq sched'.mappers
                    /\ results' = {}
                    /\ \A c \in Client : cl'[c].at = "idle"
  BY DEF OpenedOK
<1>0. IInv /\ NoneGone /\ NoneGone' /\ SchedOK
  BY DEF Calm, IInv, TypeOK
<1>1. CASE Inside
  <2>1. Opened /\ sched'.mappers = sched.mappers
    BY <1>1 DEF Opened, Inside
  <2>2. /\ splits # <<>> /\ DOMAIN splits \subseteq DOMAIN nodes /\ SplitMappers \subseteq sched.mappers
        /\ results = {} /\ \A c \in Client : cl[c].at = "idle"
    BY <2>1 DEF Calm, OpenedOK
  <2>3. \A c \in Client : serv[c].at = "none"
    BY <2>1, <1>0 DEF Opened, IInv, NoServlets
  <2>4. /\ splits' # <<>> /\ DOMAIN splits' \subseteq DOMAIN nodes' /\ SplitMappers' = SplitMappers
    BY <1>0, <2>2, SplitMappersStay
  <2> QED BY <1>0, <2>1, <2>2, <2>3, <2>4, IdleStays
<1>2. CASE OpenInput
  <2>1. /\ sched.at = "map" /\ nodes # <<>> /\ sched'.mappers = createMapperNodesInfoList
        /\ splits' = IF splits = <<>> THEN initializeBuffer(Len(nodes)) ELSE splits
        /\ UNCHANGED <<cl, nodes, jobs, results>>
    BY <1>0, <1>2, OpenInputFields
  <2>2. Before
    BY <2>1 DEF Before, Opened
  <2>3. splits = <<>> /\ results = {} /\ \A c \in Client : cl[c].at = "idle"
    BY <2>2 DEF Calm, BeforeOK
  <2>4. Len(nodes) \in Nat \ {0} /\ DOMAIN nodes = 1 .. Len(nodes)
    BY <2>1, <1>0 DEF IInv, TypeOK, NodesOK
  <2>5. DOMAIN splits' = 1 .. Len(nodes) /\ splits' # <<>>
    <3>1. DOMAIN splits' = 1 .. Len(nodes)
      BY <2>1, <2>3 DEF initializeBuffer
    <3>2. DOMAIN <<>> = {}
      OBVIOUS
    <3> QED BY <2>4, <3>1, <3>2
  <2>6. SplitMappers' \subseteq sched'.mappers
    BY <2>1, <2>4, <2>5 DEF SplitMappers, Mapper, createMapperNodesInfoList
  <2> QED BY <2>1, <2>3, <2>4, <2>5, <2>6
<1>3. CASE NoPhase
  BY <1>3 DEF Opened, NoPhase
<1>4. CASE scheduleMapTasksToSlaveNodes
  BY <1>0, <1>4, MapPhaseFields DEF Opened
<1>5. CASE scheduleReduceTasksToSlaveNodes
  BY <1>0, <1>5, ReducePhaseFields DEF Opened
<1>6. CASE JobFinished
  BY <1>0, <1>6, FinishFields DEF Opened
<1> QED BY <1>0, <1>1, <1>2, <1>3, <1>4, <1>5, <1>6, Phases

\* The tasks of a phase keep to its job.
TasksOK ==
    \A c \in Client :
      /\ cl[c].at # "idle" => cl[c].task.job = sched.job.no
      /\ serv[c].at # "none" =>
           /\ serv[c].task.job = sched.job.no
           /\ serv[c].task.kind = IF Mapping THEN "map" ELSE "reduce"
           /\ Reducing => serv[c].task.mappers = sched.mappers

\* Every step keeps the first job's mappers, tasks and servlets together.
LEMMA FirstStep == ASSUME Calm, Next PROVE FirstOK'
<1> SUFFICES ASSUME (Mapping \/ Reducing)'
             PROVE /\ splits' # <<>> /\ DOMAIN splits' \subseteq DOMAIN nodes'
                   /\ SplitMappers' \subseteq sched'.mappers
                   /\ TasksOK'
  BY DEF FirstOK, TasksOK
<1>0. IInv /\ NoneGone /\ NoneGone' /\ SchedOK
  BY DEF Calm, IInv, TypeOK
<1>1. ASSUME Opened \/ Mapping \/ Reducing, sched.mappers \subseteq sched'.mappers
      PROVE  /\ splits' # <<>> /\ DOMAIN splits' \subseteq DOMAIN nodes'
             /\ SplitMappers' \subseteq sched'.mappers
  <2>1. splits # <<>> /\ DOMAIN splits \subseteq DOMAIN nodes /\ SplitMappers \subseteq sched.mappers
    BY <1>1 DEF Calm, FirstOK, OpenedOK
  <2> QED BY <1>0, <1>1, <2>1, SplitMappersStay
<1>2. ASSUME Mapping \/ Reducing, Inside, NEW c \in Client, cl'[c].at # "idle"
      PROVE  cl'[c].task.job = sched.job.no
  <2>0. /\ cl[c].at # "idle" => cl[c].task.job = sched.job.no
        /\ serv[c].at # "none" => serv[c].task.job = sched.job.no
    BY <1>2 DEF Calm, FirstOK
  <2>1. CASE TakeTask(c)
    BY <2>0, <2>1, <1>0, Taken
  <2>2. CASE Gives(c) \/ ReduceFinish(c)
    BY <1>0, <1>2, <2>2, GivesFields, ReduceFields
  <2>3. CASE OpenHandle(c) \/ MapRead(c)
    <3>1. cl'[c].task = cl[c].task /\ cl[c].at # "idle"
      BY <1>0, <2>3, OpenFields, MapReadFields
    <3> QED BY <3>1, <2>0
  <2>4. CASE MapFinish(c) \/ partitionMapOut(c)
    <3>1. cl'[c].task = cl[c].task /\ cl[c].at # "idle"
      BY <1>0, <2>4, MapFinishFields, StoreFields
    <3> QED BY <3>1, <2>0
  <2>5. ASSUME NEW m, receiveMapPartition(c, m) PROVE cl'[c].task.job = sched.job.no
    <3>1. cl'[c].task = cl[c].task /\ cl[c].at # "idle"
      BY <1>0, <2>5, FetchFields
    <3> QED BY <3>1, <2>0
  <2>6. CASE Same(c)
    <3>1. cl'[c].task = cl[c].task /\ cl[c].at # "idle"
      BY <1>2, <2>6 DEF Same
    <3> QED BY <3>1, <2>0
  <2> QED BY <1>0, <2>1, <2>2, <2>3, <2>4, <2>5, <2>6, Moves DEF NoneGone
<1>3. CASE Inside
  <2>1. (Mapping' <=> Mapping) /\ (Reducing' <=> Reducing) /\ (Mapping \/ Reducing) /\ sched' = sched
    BY <1>3 DEF Mapping, Reducing, Inside
  <2>3. TasksOK
    BY <2>1 DEF Calm, FirstOK, TasksOK
  <2>4. \A c \in Client : serv'[c].task = serv[c].task /\ (serv'[c].at = "none" <=> serv[c].at = "none")
    BY <1>3 DEF Inside
  <2>5. \A c \in Client : cl'[c].at # "idle" => cl'[c].task.job = sched.job.no
    BY <1>2, <1>3, <2>1
  <2>6. TasksOK'
    BY <2>1, <2>3, <2>4, <2>5 DEF TasksOK
  <2> QED BY <1>1, <2>1, <2>6
<1>4. CASE NoPhase \/ OpenInput
  BY <1>0, <1>4, OpenInputFields DEF Mapping, Reducing, NoPhase
<1>5. CASE scheduleMapTasksToSlaveNodes
  <2>1. /\ sched.at = "split" /\ UNCHANGED <<cl, jobs>>
        /\ sched'.at = "mapping" /\ sched'.job = sched.job /\ sched.mappers \subseteq sched'.mappers
        /\ \A c \in Client :
              serv'[c].at # "none" => serv'[c].task.kind = "map" /\ serv'[c].task.job = sched.job.no
    BY <1>0, <1>5, MapPhaseFields
  <2>2. Opened /\ Mapping'
    BY <2>1 DEF Opened, Mapping, Reducing
  <2>3. \A c \in Client : cl[c].at = "idle"
    BY <2>2 DEF Calm, OpenedOK
  <2>4. TasksOK'
    BY <2>1, <2>2, <2>3 DEF TasksOK, Reducing, Mapping
  <2> QED BY <1>1, <2>1, <2>2, <2>4
<1>6. CASE scheduleReduceTasksToSlaveNodes
  <2>1. /\ sched.at = "mapping" /\ UNCHANGED <<splits, cl, link, nodes, jobs, splitIndex, results>>
        /\ sched'.at = "reducing" /\ sched'.job = sched.job /\ sched'.mappers = sched.mappers
        /\ \A c \in Client : serv'[c].at # "none" =>
              /\ serv'[c].task.kind = "reduce" /\ serv'[c].task.job = sched.job.no
              /\ serv'[c].task.mappers = sched.mappers
    BY <1>0, <1>6, ReducePhaseFields
  <2>2. Mapping /\ Reducing' /\ ~Mapping'
    BY <2>1 DEF Mapping, Reducing
  <2>3. TasksOK'
    BY <2>1, <2>2 DEF TasksOK, Calm, FirstOK
  <2> QED BY <1>1, <2>1, <2>2, <2>3
<1>7. CASE JobFinished
  BY <1>0, <1>7, FinishFields DEF Mapping, Reducing
<1> QED BY <1>0, <1>3, <1>4, <1>5, <1>6, <1>7, Phases

\* The map phase of the first job.
LEMMA MappingStep == ASSUME Calm, Next PROVE MappingOK'
<1> DEFINE Done(c) == /\ cl[c].split \in DOMAIN splits /\ cl[c].at \notin {"read", "mapped"}
                      /\ \A line \in Range(splits[cl[c].split].read) : Keeps(c, line)
<1> SUFFICES ASSUME Mapping' PROVE /\ results' = {}
                                   /\ \A k \in DOMAIN splits' : serv'[Mapper(k)'].at # "none"
                                   /\ \A c \in Client : Mapped(c)' => Done(c)'
  BY DEF MappingOK
<1>0. IInv /\ Reading /\ NoneGone /\ NoneGone' /\ Numbered /\ SchedOK /\ SplitsApart
  BY DEF Calm, IInv, TypeOK
<1>1. CASE Inside
  <2>1. Mapping /\ sched' = sched
    BY <1>1 DEF Mapping, Inside
  <2>2. /\ results = {} /\ (\A k \in DOMAIN splits : serv[Mapper(k)].at # "none")
        /\ (\A c \in Client : Mapped(c) => Done(c))
    BY <2>1 DEF Calm, MappingOK
  <2>3. /\ splits # <<>> /\ DOMAIN splits \subseteq DOMAIN nodes
        /\ \A c \in Client : /\ cl[c].at # "idle" => cl[c].task.job = sched.job.no
                             /\ serv[c].at # "none" => serv[c].task.kind = "map"
    BY <2>1 DEF Calm, FirstOK
  <2>4. \A c \in Client : cl[c].at # "fetch"
    BY <1>0, <2>3, NoReducer
  <2>5. results' = {}
    BY <1>0, <2>2, <2>4, NewResults, ReduceFields
  <2>6. ASSUME NEW k \in DOMAIN splits' PROVE serv'[Mapper(k)'].at # "none"
    <3>1. k \in DOMAIN splits /\ k \in DOMAIN nodes /\ nodes'[k] = nodes[k]
      BY <1>0, <2>3, Reads, NodesGrow
    <3>2. Mapper(k)' = Mapper(k) /\ Mapper(k) \in Client
      BY <3>1, <1>0 DEF Mapper, IInv, TypeOK, NodesOK
    <3>3. serv[Mapper(k)].at # "none"
      BY <3>1, <2>2
    <3> QED BY <3>2, <3>3, <1>1 DEF Inside
  <2>7. ASSUME NEW c \in Client, Mapped(c)' PROVE Done(c)'
    <3>0. cl'[c].st # "gone" /\ cl[c].st # "gone"
      BY <1>0 DEF NoneGone
    <3>1. ~ReduceFinish(c)
      BY <1>0, <2>4, ReduceFields
    <3>2. CASE MapFinish(c)
      <4>1. /\ cl[c].at = "mapped" /\ cl[c].split \in DOMAIN splits /\ cl'[c].at = "store"
            /\ cl'[c].rest = splits[cl[c].split].read /\ cl'[c].split = cl[c].split /\ splits' = splits
        BY <1>0, <3>2, MapFinishFields DEF Reading
      <4> QED BY <4>1 DEF Keeps
    <3>3. CASE Mapped(c) /\ ~MapFinish(c)
      <4>1. Quiet(c) /\ serv[c].at # "none" /\ link[c].to = <<>> /\ Done(c)
        BY <1>0, <3>0, <3>3, <2>2, MappedQuiet
      <4>2. ~TakeTask(c)
        BY <4>1, <1>0, TakeTaskFields
      <4>3. ~Gives(c) /\ ~OpenHandle(c)
        BY <4>1, <1>0, GivesFields, OpenFields DEF Quiet
      <4>4. ~MapRead(c)
        BY <4>1, <1>0, MapReadFields DEF Quiet
      <4>5. \A m : ~receiveMapPartition(c, m)
        BY <4>1, <1>0, FetchFields DEF Quiet
      <4>6. cl'[c].split = cl[c].split /\ cl'[c].at \notin {"read", "mapped"}
        <5>1. Same(c) \/ partitionMapOut(c)
          BY <1>0, <3>0, <3>1, <3>3, <4>2, <4>3, <4>4, <4>5, Moves
        <5>2. CASE Same(c)
          <6>1. cl'[c].split = cl[c].split /\ cl'[c].at = cl[c].at
            BY <5>2 DEF Same
          <6> QED BY <6>1, <4>1
        <5>3. CASE partitionMapOut(c)
          BY <1>0, <5>3, StoreFields
        <5> QED BY <5>1, <5>2, <5>3
      <4>7. PICK i \in DOMAIN splits : i = cl[c].split
        BY <4>1
      <4>8. i \in DOMAIN splits' /\ splits'[i].read = splits[i].read
        <5>1. \A d \in Client : ~(cl[d].at = "read" /\ cl[d].split = i)
          <6>1. DOMAIN splits \subseteq Nat
            BY <1>0 DEF IInv, TypeOK, SplitsInv
          <6>2. i # None
            BY <6>1, MRLiteAssumption
          <6> QED BY <4>1, <4>7, <6>2, <1>0 DEF SplitsApart
        <5> QED BY <5>1, <1>0, Reads
      <4>9. ASSUME NEW line \in Range(splits[i].read) PROVE Keeps(c, line)'
        <5>1. Keeps(c, line)
          BY <4>1, <4>7
        <5> QED BY <5>1, <1>0, <3>0, <2>1, <2>3, KeepsStays
      <4> QED BY <4>6, <4>7, <4>8, <4>9
    <3> HIDE DEF Done
    <3> QED BY <1>0, <2>7, <3>0, <3>1, <3>2, <3>3, MappedNew
  <2> HIDE DEF Done
  <2> QED BY <2>5, <2>6, <2>7
<1>2. CASE NoPhase \/ OpenInput
  BY <1>0, <1>2, OpenInputFields DEF Mapping, NoPhase
<1>3. CASE scheduleMapTasksToSlaveNodes
  <2>1. /\ sched.at = "split" /\ UNCHANGED <<splits, cl, link, nodes, jobs, results>>
        /\ sched.mappers \subseteq sched'.mappers
        /\ \A c \in Client :
              /\ serv[c].at = "none" /\ serv'[c].at \in {"none", "send"}
              /\ (\E m \in sched'.mappers : m.client = c) => serv'[c].at = "send"
    BY <1>0, <1>3, MapPhaseFields
  <2>2. Opened
    BY <2>1 DEF Opened, Mapping
  <2>3. results = {} /\ DOMAIN splits \subseteq DOMAIN nodes /\ SplitMappers \subseteq sched.mappers
    BY <2>2 DEF Calm, OpenedOK
  <2>4. \A c \in Client : ~Mapped(c)
    BY <1>0, <2>1, MappedQuiet DEF NoneGone
  <2>5. ASSUME NEW c \in Client PROVE ~Mapped(c)'
    BY <2>1, <2>4 DEF Mapped
  <2>6. ASSUME NEW k \in DOMAIN splits' PROVE serv'[Mapper(k)'].at # "none"
    <3>1. k \in DOMAIN splits /\ Mapper(k)' = Mapper(k) /\ Mapper(k) \in Client
      BY <2>1, <2>3, <2>6, <1>0 DEF Mapper, IInv, TypeOK, NodesOK
    <3>2. [client |-> Mapper(k), no |-> k] \in sched'.mappers
      BY <3>1, <2>1, <2>3 DEF SplitMappers
    <3>3. serv'[Mapper(k)].at = "send"
      BY <3>1, <3>2, <2>1
    <3> QED BY <3>1, <3>3
  <2> QED BY <2>1, <2>3, <2>5, <2>6
<1>4. CASE scheduleReduceTasksToSlaveNodes
  BY <1>0, <1>4, ReducePhaseFields DEF Mapping
<1>5. CASE JobFinished
  BY <1>0, <1>5, FinishFields DEF Mapping
<1> QED BY <1>0, <1>1, <1>2, <1>3, <1>4, <1>5, Phases

\* When the servlets of the first job's map phase have been joined, every split
\* has been read by one of its mappers: there are as many mappers as splits.
LEMMA AllRead ==
  ASSUME Calm, Mapping, AllJoined
  PROVE  /\ \A c \in Client : Quiet(c)
         /\ \A i \in DOMAIN splits : \E k \in DOMAIN splits :
              /\ cl[Mapper(k)].split = i
              /\ \A line \in Range(splits[i].read) : Keeps(Mapper(k), line)
<1> DEFINE S == DOMAIN splits
           f == [k \in S |-> cl[Mapper(k)].split]
<1>0. IInv /\ NoneGone /\ NodesApart /\ SplitsApart
  BY DEF Calm
<1>1. S \subseteq DOMAIN nodes /\ (\A k \in S : serv[Mapper(k)].at # "none")
      /\ \A c \in Client : Mapped(c) => /\ cl[c].split \in S
                                        /\ \A line \in Range(splits[cl[c].split].read) : Keeps(c, line)
  BY DEF Calm, FirstOK, MappingOK
<1>2. ASSUME NEW k \in S PROVE Mapper(k) \in Client /\ Mapped(Mapper(k))
  <2>1. Mapper(k) \in Client
    BY <1>0, <1>1 DEF Mapper, IInv, TypeOK, NodesOK
  <2> QED BY <2>1, <1>1 DEF Mapped, AllJoined
<1>3. f \in [S -> S]
  BY <1>1, <1>2
<1>4. ASSUME NEW k \in S, NEW l \in S, f[k] = f[l] PROVE k = l
  <2> SUFFICES ASSUME k # l PROVE FALSE
    OBVIOUS
  <2>1. Mapper(k) # Mapper(l)
    BY <1>0, <1>1 DEF NodesApart, Mapper
  <2>2. cl[Mapper(k)].split = cl[Mapper(l)].split /\ cl[Mapper(k)].split \in S
    BY <1>1, <1>2, <1>4
  <2>3. S \subseteq Nat
    BY <1>0 DEF IInv, TypeOK, SplitsInv
  <2>4. cl[Mapper(k)].split # None
    BY <2>2, <2>3, MRLiteAssumption
  <2> HIDE DEF S, f
  <2> QED BY <1>0, <1>2, <2>1, <2>2, <2>4 DEF SplitsApart
<1>5. IsFiniteSet(S)
  <2>1. S = 1 .. Len(splits) /\ Len(splits) \in Nat
    BY <1>0 DEF IInv, TypeOK, SplitsInv
  <2> QED BY <2>1, FS_Interval
<1>6. \A i \in S : \E k \in S : f[k] = i
  <2>1. f \in Injection(S, S)
    <3> HIDE DEF f, S
    <3> QED BY <1>3, <1>4 DEF Injection, IsInjective
  <2>2. f \in Surjection(S, S)
    <3> HIDE DEF f, S
    <3> QED BY <2>1, <1>5, FS_Injection
  <2> HIDE DEF f, S
  <2> QED BY <2>2 DEF Surjection
<1>7. ASSUME NEW i \in S
      PROVE  \E k \in S : cl[Mapper(k)].split = i /\ \A line \in Range(splits[i].read) : Keeps(Mapper(k), line)
  <2>1. PICK k \in S : f[k] = i
    BY <1>6
  <2>2. cl[Mapper(k)].split = i
    BY <2>1
  <2> QED BY <2>2, <1>1, <1>2
<1>8. \A c \in Client : Quiet(c)
  BY <1>0, Busy DEF AllJoined, NoneGone
<1> QED BY <1>7, <1>8

\* After the first job's map phase the splits are read.
LEMMA SplitsRead ==
  ASSUME Calm, Mapping, AllJoined PROVE splits # <<>> /\ DOMAIN splits \subseteq 1 .. splitIndex
<1>1. splits # <<>> /\ DOMAIN splits \subseteq Nat /\ SplitsApart /\ DOMAIN splits \subseteq DOMAIN nodes
  BY DEF Calm, FirstOK, IInv, TypeOK, SplitsInv
<1>2. ASSUME NEW i \in DOMAIN splits PROVE i \in 1 .. splitIndex
  <2>1. PICK k \in DOMAIN splits : cl[Mapper(k)].split = i
    BY AllRead
  <2>2. Mapper(k) \in Client
    BY <1>1 DEF Mapper, Calm, IInv, TypeOK, NodesOK
  <2>3. i # None
    BY <1>1, MRLiteAssumption
  <2> QED BY <1>1, <2>1, <2>2, <2>3 DEF SplitsApart
<1> QED BY <1>1, <1>2

\* Once the first job is mapped no line is read any more.
LEMMA ReadOutStep == ASSUME Calm, Next PROVE ReadOut'
<1> DEFINE Out == /\ splits # <<>> /\ DOMAIN splits \subseteq 1 .. splitIndex
                  /\ \A c \in Client : /\ cl[c].at # "mapped"
                                       /\ cl[c].at = "read" => cl[c].split \notin DOMAIN splits
<1> SUFFICES ASSUME (Reducing \/ Later)' PROVE Out'
  BY DEF ReadOut
<1>0. IInv /\ NoneGone /\ NoneGone' /\ splitIndex \in Nat
  BY DEF Calm, IInv, TypeOK
<1>1. ASSUME Reducing \/ Later PROVE Out'
  <2>1. Out
    BY <1>1 DEF Calm, ReadOut
  <2>2. splits' # <<>> /\ DOMAIN splits' = DOMAIN splits
    BY <2>1, <1>0, Reads
  <2>3. splitIndex' = splitIndex \/ splitIndex' = splitIndex + 1
    <3>1. ASSUME NEW c \in Client,
                 \/ Accept(c) \/ AcceptNumber(c) \/ Disconnect(c) \/ TakeTask(c) \/ Gives(c) \/ OpenHandle(c)
          PROVE  splitIndex' = splitIndex \/ splitIndex' = splitIndex + 1
      BY <1>0, <3>1, AcceptFields, DisconnectFields, TakeTaskFields, GivesFields, OpenFields
    <3>2. ASSUME NEW c \in Client, MapRead(c) \/ MapFinish(c) \/ partitionMapOut(c) \/ ReduceFinish(c)
          PROVE  splitIndex' = splitIndex
      BY <1>0, <3>2, MapReadFields, MapFinishFields, StoreFields, ReduceFields
    <3>3. ASSUME NEW c \in Client, NEW m, receiveMapPartition(c, m) PROVE splitIndex' = splitIndex
      BY <1>0, <3>3, FetchFields
    <3> QED BY <3>1, <3>2, <3>3, Actions, AsideFields
  <2>4. ASSUME NEW c \in Client PROVE cl'[c].at # "mapped" /\ (cl'[c].at = "read" => cl'[c].split \notin DOMAIN splits)
    <3>0. cl[c].at # "mapped" /\ (cl[c].at = "read" => cl[c].split \notin DOMAIN splits) /\ cl'[c].st # "gone"
      BY <2>1, <1>0 DEF NoneGone
    <3>1. CASE TakeTask(c)
      BY <1>0, <3>1, TakeTaskFields
    <3>2. CASE Gives(c)
      BY <1>0, <3>2, GivesFields
    <3>3. CASE OpenHandle(c)
      <4>1. cl'[c].at = "read" /\ cl'[c].split = splitIndex + 1
        BY <1>0, <3>3, OpenFields
      <4>2. splitIndex + 1 \notin 1 .. splitIndex
        BY <1>0
      <4> QED BY <4>1, <4>2, <2>1
    <3>4. ~MapRead(c) /\ ~MapFinish(c)
      BY <1>0, <3>0, MapReadFields, MapFinishFields
    <3>5. CASE partitionMapOut(c)
      BY <1>0, <3>5, StoreFields
    <3>6. CASE ReduceFinish(c)
      BY <1>0, <3>6, ReduceFields
    <3>7. ASSUME NEW m, receiveMapPartition(c, m) PROVE cl'[c].at = "fetch"
      <4>1. cl[c].at = "fetch" /\ cl'[c].at = cl[c].at
        BY <1>0, <3>7, FetchFields
      <4> QED BY <4>1
    <3>8. CASE Same(c)
      <4>1. cl'[c].at = cl[c].at /\ cl'[c].split = cl[c].split
        BY <3>8 DEF Same
      <4> QED BY <4>1, <3>0
    <3> QED BY <1>0, <3>0, <3>1, <3>2, <3>3, <3>4, <3>5, <3>6, <3>7, <3>8, Moves
  <2>5. DOMAIN splits \subseteq 1 .. splitIndex'
    <3>1. 1 .. splitIndex \subseteq 1 .. splitIndex + 1
      BY <1>0
    <3> QED BY <2>1, <2>3, <3>1
  <2> QED BY <2>2, <2>4, <2>5
<1>2. ASSUME Mapping, AllJoined, UNCHANGED <<splits, cl, splitIndex>> PROVE Out'
  <2>1. \A c \in Client : Quiet(c)
    BY <1>2, AllRead
  <2>2. splits # <<>> /\ DOMAIN splits \subseteq 1 .. splitIndex
    BY <1>2, SplitsRead
  <2> QED BY <1>2, <2>1, <2>2 DEF Quiet
<1>3. CASE Inside
  BY <1>1, <1>3 DEF Reducing, Later, Inside
<1>4. CASE NoPhase \/ OpenInput
  BY <1>0, <1>1, <1>4, OpenInputFields DEF Reducing, Later, NoPhase
<1>5. CASE scheduleMapTasksToSlaveNodes
  BY <1>0, <1>1, <1>5, MapPhaseFields DEF Reducing, Later
<1>6. CASE scheduleReduceTasksToSlaveNodes
  <2>1. sched.at = "mapping" /\ AllJoined /\ UNCHANGED <<splits, cl, splitIndex, jobs>>
    BY <1>0, <1>6, ReducePhaseFields
  <2>2. Mapping \/ Later
    BY <2>1 DEF Mapping, Later
  <2> QED BY <1>1, <1>2, <2>1, <2>2
<1>7. CASE JobFinished
  <2>1. sched.at \in {"mapping", "reducing"} /\ AllJoined /\ UNCHANGED <<splits, cl, splitIndex>>
    BY <1>0, <1>7, FinishFields
  <2>2. Mapping \/ Reducing \/ Later
    BY <2>1 DEF Mapping, Later, Reducing
  <2> QED BY <1>1, <1>2, <2>1, <2>2
<1> HIDE DEF Out
<1> QED BY <1>0, <1>3, <1>4, <1>5, <1>6, <1>7, Phases

\* No mapper of a later job ever reports.
LEMMA LaterStep == ASSUME Calm, Next PROVE LaterOK'
<1> DEFINE Idle == \A c \in Client : ~Mapped(c) /\ (serv[c].at # "none" => serv[c].task.kind = "map")
           Some == \E c \in Client : serv[c].at # "none"
<1> SUFFICES ASSUME Later'
             PROVE  /\ sched'.at # "reducing" /\ (sched'.at = "mapping" => Some' /\ Idle')
                    /\ sched'.at = "split" => sched'.mappers # {}
  BY DEF LaterOK
<1>0. IInv /\ NoneGone /\ NoneGone' /\ Numbered
  BY DEF Calm
<1>1. CASE Inside
  <2>1. Later /\ sched' = sched
    BY <1>1 DEF Inside, Later
  <2>2. /\ sched.at # "reducing" /\ (sched.at = "mapping" => Some /\ Idle)
        /\ sched.at = "split" => sched.mappers # {}
    BY <2>1 DEF Calm, LaterOK
  <2>3. ASSUME sched.at = "mapping", NEW c \in Client PROVE ~Mapped(c)' /\ (serv'[c].at # "none" => serv'[c].task.kind = "map")
    <3>1. cl[c].at # "fetch"
      BY <1>0, <2>2, <2>3, NoReducer
    <3>2. cl[c].at # "mapped"
      BY <2>1 DEF Calm, ReadOut
    <3>3. ~MapFinish(c) /\ ~ReduceFinish(c)
      BY <1>0, <3>1, <3>2, MapFinishFields, ReduceFields
    <3>4. ~Mapped(c)'
      BY <1>0, <2>2, <2>3, <3>3, MappedNew DEF NoneGone
    <3>5. serv[c].at # "none" => serv[c].task.kind = "map"
      BY <2>2, <2>3
    <3> QED BY <3>4, <3>5, <1>1 DEF Inside
  <2>4. Some => Some'
    BY <1>1 DEF Inside
  <2>5. sched.at = "mapping" => Idle'
    BY <2>3
  <2>6. sched'.at = sched.at /\ sched'.mappers = sched.mappers
    BY <2>1
  <2> HIDE DEF Some, Idle
  <2> QED BY <2>2, <2>4, <2>5, <2>6
<1>2. CASE NoPhase
  BY <1>2 DEF NoPhase
<1>3. CASE OpenInput
  <2>1. sched'.at = "split" /\ nodes # <<>> /\ sched'.mappers = createMapperNodesInfoList
    BY <1>0, <1>3, OpenInputFields
  <2>2. DOMAIN nodes # {}
    <3>1. nodes \in Seq((Nat \cup {None}) \X Client)
      BY <1>0 DEF IInv, TypeOK, NodesOK
    <3>2. DOMAIN nodes = 1 .. Len(nodes) /\ Len(nodes) \in Nat \ {0}
      BY <3>1, <2>1
    <3>3. 1 \in DOMAIN nodes
      BY <3>2
    <3> QED BY <3>3
  <2> QED BY <2>1, <2>2 DEF createMapperNodesInfoList
<1>4. CASE scheduleMapTasksToSlaveNodes
  <2>1. /\ sched.at = "split" /\ sched'.at = "mapping" /\ UNCHANGED <<cl, link, jobs>>
        /\ sched.mappers \subseteq sched'.mappers /\ sched'.mappers \subseteq NodeInfo
        /\ \A c \in Client :
              /\ serv[c].at = "none" /\ serv'[c].at \in {"none", "send"}
              /\ (\E m \in sched'.mappers : m.client = c) => serv'[c].at = "send"
              /\ serv'[c].at # "none" => serv'[c].task.kind = "map"
    BY <1>0, <1>4, MapPhaseFields
  <2>2. \A c \in Client : ~Mapped(c)
    BY <1>0, <2>1, MappedQuiet DEF NoneGone
  <2>3. Idle'
    BY <2>1, <2>2 DEF Mapped
  <2>4. Some'
    <3>1. Later /\ sched.mappers # {}
      BY <2>1 DEF Later, Calm, LaterOK
    <3>2. PICK m \in sched.mappers : TRUE
      BY <3>1
    <3>3. m \in sched'.mappers /\ m.client \in Client
      BY <3>2, <2>1 DEF NodeInfo
    <3>4. serv'[m.client].at = "send"
      BY <3>3, <2>1
    <3> QED BY <3>3, <3>4
  <2> HIDE DEF Some, Idle
  <2> QED BY <2>1, <2>3, <2>4
<1>5. CASE scheduleReduceTasksToSlaveNodes
  <2>1. sched.at = "mapping" /\ AllJoined /\ jobs' = jobs
    BY <1>0, <1>5, ReducePhaseFields
  <2>2. Later
    BY <2>1 DEF Later
  <2>3. Some /\ Idle
    BY <2>1, <2>2 DEF Calm, LaterOK
  <2> QED BY <2>1, <2>3 DEF AllJoined, Mapped
<1>6. CASE JobFinished
  BY <1>0, <1>6, FinishFields
<1> HIDE DEF Some, Idle
<1> QED BY <1>0, <1>1, <1>2, <1>3, <1>4, <1>5, <1>6, Phases

\* When the first job is mapped, no more lines are read.
LEMMA ReadStays ==
  ASSUME Calm, Next, Reducing \/ Later, NEW i \in DOMAIN splits
  PROVE  splits'[i].read = splits[i].read /\ DOMAIN splits' = DOMAIN splits
<1>1. splits # <<>> /\ \A c \in Client : ~(cl[c].at = "read" /\ cl[c].split = i)
  BY DEF Calm, ReadOut
<1>2. IInv
  BY DEF Calm
<1> QED BY <1>1, <1>2, Reads

\* What the mapper of a fetched partition has stored is in the input.
Has(c, m) ==
    /\ cl[m.client].at # "store"
    /\ \A p \in cl[m.client].store :
         p.key = <<cl[c].task.job, m.no, cl[c].task.part>> => <<m, p.line>> \in cl[c].input

\* While the first job is reduced, what is mapped stays and a clean fetch misses nothing.
LEMMA ReducingStep == ASSUME Calm, Next PROVE ReducingOK'
<1> DEFINE Kept == \A i \in DOMAIN splits : \A line \in Range(splits[i].read) :
                      \E k \in DOMAIN splits : Keeps(Mapper(k), line)
           Held == \A c \in Client : cl[c].at = "fetch" /\ cl[c].clean => \A m \in cl[c].fetched : Has(c, m)
<1> SUFFICES ASSUME Reducing' PROVE Kept' /\ Held'
  BY DEF ReducingOK, Has
<1>0. IInv /\ NoneGone /\ NoneGone'
  BY DEF Calm
<1>1. CASE Inside
  <2>1. Reducing /\ sched' = sched
    BY <1>1 DEF Reducing, Inside
  <2>2. Kept /\ Held
    <3> HIDE DEF Held, Kept
    <3> QED BY <2>1 DEF Calm, ReducingOK, Has, Held, Kept
  <2>3. /\ splits # <<>> /\ DOMAIN splits \subseteq DOMAIN nodes
        /\ \A c \in Client : cl[c].at # "idle" => cl[c].task.job = sched.job.no
    BY <2>1 DEF Calm, FirstOK
  <2>4. ASSUME NEW i \in DOMAIN splits', NEW line \in Range(splits'[i].read)
        PROVE  \E k \in DOMAIN splits' : Keeps(Mapper(k), line)'
    <3>1. i \in DOMAIN splits /\ DOMAIN splits' = DOMAIN splits
      BY <1>0, <2>3, Reads
    <3>2. splits'[i].read = splits[i].read
      BY <2>1, <3>1, ReadStays
    <3>3. PICK k \in DOMAIN splits : Keeps(Mapper(k), line)
      BY <2>2, <3>1, <3>2
    <3>4. PICK c \in Client : c = Mapper(k)
      BY <2>3, <1>0 DEF Mapper, IInv, TypeOK, NodesOK
    <3>5. Mapper(k)' = c
      BY <3>3, <3>4, <2>3, <1>0, NodesGrow DEF Mapper
    <3>6. Keeps(c, line)
      BY <3>3, <3>4
    <3>7. Keeps(c, line)'
      <4>1. cl'[c].st # "gone"
        BY <1>0 DEF NoneGone
      <4>2. cl[c].at = "store" => cl[c].task.job = sched.job.no
        BY <2>3
      <4> QED BY <3>6, <4>1, <4>2, <1>0, <2>1, KeepsStays
    <3>8. Keeps(Mapper(k), line)'
      BY <3>5, <3>7 DEF Keeps
    <3> QED BY <3>1, <3>8
  <2>5. \A d \in Client : cl[d].at # "mapped"
    BY <2>1 DEF Calm, ReadOut
  \* A client that is not storing starts to store no more, and its store stays.
  <2>6. ASSUME NEW d \in Client, cl[d].at # "store" PROVE cl'[d].at # "store" /\ cl'[d].store = cl[d].store
    <3>1. CASE TakeTask(d)
      BY <1>0, <3>1, TakeTaskFields
    <3>2. CASE Gives(d) \/ OpenHandle(d)
      BY <1>0, <3>2, GivesFields, OpenFields
    <3>3. CASE MapRead(d) \/ ReduceFinish(d)
      BY <1>0, <3>3, MapReadFields, ReduceFields
    <3>4. ~MapFinish(d) /\ ~partitionMapOut(d)
      BY <1>0, <2>5, <2>6, MapFinishFields, StoreFields
    <3>5. ASSUME NEW m, receiveMapPartition(d, m) PROVE cl'[d].at # "store" /\ cl'[d].store = cl[d].store
      <4>1. cl'[d].at = cl[d].at /\ cl'[d].store = cl[d].store
        BY <1>0, <3>5, FetchFields
      <4> QED BY <4>1, <2>6
    <3>6. CASE Same(d)
      BY <2>6, <3>6 DEF Same
    <3> QED BY <1>0, <3>1, <3>2, <3>3, <3>4, <3>5, <3>6, Moves DEF NoneGone
  <2>7. ASSUME NEW c \in Client, NEW m, m.client \in Client, Has(c, m), cl'[c].task = cl[c].task, cl[c].input \subseteq cl'[c].input
        PROVE  Has(c, m)'
    <3>1. cl'[m.client].at # "store" /\ cl'[m.client].store = cl[m.client].store
      BY <2>6, <2>7 DEF Has
    <3> QED BY <2>7, <3>1 DEF Has
  <2>8. ASSUME NEW c \in Client, cl'[c].at = "fetch", cl'[c].clean, NEW m \in cl'[c].fetched PROVE Has(c, m)'
    <3>0. cl'[c].st # "gone" /\ \A d \in Client : cl[d].fetched \subseteq NodeInfo /\ (cl[d].at # "idle" => cl[d].task.mappers \subseteq NodeInfo)
      <4>1. ASSUME NEW d \in Client PROVE cl[d].fetched \subseteq NodeInfo
        BY <1>0, ClientType DEF ClientRec
      <4>2. ASSUME NEW d \in Client, cl[d].at # "idle" PROVE cl[d].task.mappers \subseteq NodeInfo
        <5>1. cl[d].task \in Task
          BY <1>0, <4>2 DEF IInv, TypeOK, ClientsOK
        <5> QED BY <5>1 DEF Task
      <4>3. cl'[c].st # "gone"
        BY <1>0 DEF NoneGone
      <4> QED BY <4>1, <4>2, <4>3
    <3>1. ~TakeTask(c)
      BY <1>0, <2>8, TakeTaskFields
    <3>2. ~Gives(c) /\ ~OpenHandle(c)
      BY <1>0, <2>8, GivesFields, OpenFields
    <3>3. ~MapRead(c) /\ ~MapFinish(c) /\ ~partitionMapOut(c) /\ ~ReduceFinish(c)
      BY <1>0, <2>8, MapReadFields, MapFinishFields, StoreFields, ReduceFields
    <3>4. CASE Same(c)
      <4>1. cl'[c].at = cl[c].at /\ cl'[c].clean = cl[c].clean /\ cl'[c].fetched = cl[c].fetched
              /\ cl'[c].task = cl[c].task /\ cl'[c].input = cl[c].input
        BY <3>4 DEF Same
      <4>2. Has(c, m) /\ m.client \in Client
        BY <2>2, <2>8, <4>1, <3>0 DEF NodeInfo
      <4> QED BY <4>1, <4>2, <2>7
    <3>5. ASSUME NEW n, receiveMapPartition(c, n) PROVE Has(c, m)'
      <4>1. /\ cl[c].at = "fetch" /\ n \in cl[c].task.mappers
            /\ cl'[c].fetched = cl[c].fetched \cup {n}
            /\ cl'[c].input = cl[c].input \cup {<<n, p.line>> : p \in
                  {q \in cl[n.client].store : q.key = <<cl[c].task.job, n.no, cl[c].task.part>>}}
            /\ cl'[c].clean => cl[c].clean /\ ~(cl[n.client].at = "store" /\ cl[n.client].task.job = cl[c].task.job)
        BY <1>0, <3>5, FetchFields, SMTT(40)
      <4>2. cl'[c].task = cl[c].task
        <5>1. \A f \in {"st", "at", "task", "split", "rest", "store"} : cl'[c][f] = cl[c][f]
          BY <1>0, <3>5, FetchFields
        <5> QED BY <5>1
      <4>3. CASE m \in cl[c].fetched
        <5>1. Has(c, m) /\ m.client \in Client
          BY <2>2, <2>8, <4>1, <4>3, <3>0 DEF NodeInfo
        <5>2. cl[c].input \subseteq cl'[c].input
          BY <4>1
        <5> QED BY <5>1, <5>2, <4>2, <2>7
      <4>4. CASE m = n
        <5>1. n.client \in Client
          BY <4>1, <3>0 DEF NodeInfo
        <5>2. cl[n.client].at # "store"
          BY <5>1, <4>1, <2>3, <2>8
        <5>3. cl'[n.client].at # "store" /\ cl'[n.client].store = cl[n.client].store
          BY <5>1, <5>2, <2>6
        <5>4. \A p \in cl[n.client].store :
                p.key = <<cl[c].task.job, n.no, cl[c].task.part>> => <<n, p.line>> \in cl'[c].input
          BY <4>1
        <5> QED BY <4>2, <4>4, <5>3, <5>4 DEF Has
      <4> QED BY <4>1, <4>3, <4>4, <2>8
    <3> QED BY <1>0, <3>0, <3>1, <3>2, <3>3, <3>4, <3>5, Moves
  <2> QED BY <2>4, <2>8
<1>2. CASE NoPhase \/ OpenInput
  BY <1>0, <1>2, OpenInputFields DEF Reducing, NoPhase
<1>3. CASE scheduleMapTasksToSlaveNodes
  BY <1>0, <1>3, MapPhaseFields DEF Reducing
<1>4. CASE scheduleReduceTasksToSlaveNodes
  <2>1. sched.at = "mapping" /\ AllJoined /\ UNCHANGED <<splits, cl, jobs, nodes>> /\ sched'.job = sched.job
    BY <1>0, <1>4, ReducePhaseFields
  <2>2. Mapping
    BY <2>1 DEF Mapping, Reducing
  <2>3. \A c \in Client : cl[c].at # "fetch"
    BY <2>1, <2>2, AllRead DEF Quiet
  <2>4. Kept
    BY <2>1, <2>2, AllRead
  <2>5. Kept'
    BY <2>1, <2>4 DEF Keeps, Mapper
  <2> QED BY <2>1, <2>3, <2>5
<1>5. CASE JobFinished
  BY <1>0, <1>5, FinishFields DEF Reducing
<1> HIDE DEF Kept, Held
<1> QED BY <1>0, <1>1, <1>2, <1>3, <1>4, <1>5, Phases

\* A line is stored for another partition.
Other(job, part, line) ==
    \E c \in Client : \E p \in cl[c].store : p.line = line /\ p.key[1] = job /\ p.key[3] # part

\* A reducer that has everything makes a complete result.
LEMMA ResultComplete ==
  ASSUME Calm, Reducing, NEW c \in Client, cl[c].at = "fetch", cl[c].clean, cl[c].fetched = cl[c].task.mappers,
         NEW i \in DOMAIN splits, NEW line \in Range(splits[i].read)
  PROVE  (\E p \in cl[c].input : p[2] = line) \/ Other(cl[c].task.job, cl[c].task.part, line)
<1>0. IInv /\ NoneGone /\ Numbered /\ NodesApart
  BY DEF Calm
<1>1. PICK k \in DOMAIN splits : Keeps(Mapper(k), line)
  BY DEF Calm, ReducingOK
<1>2. k \in DOMAIN nodes
  BY DEF Calm, FirstOK
<1>3. PICK d \in Client : d = Mapper(k)
  BY <1>0, <1>2 DEF Mapper, IInv, TypeOK, NodesOK
<1>4. PICK m : m = [client |-> d, no |-> k]
  OBVIOUS
<1>5. m \in cl[c].fetched /\ m.client = d /\ m.no = k
  <2>1. serv[c].at = "wait" /\ cl[c].task = serv[c].task
    BY <1>0, Busy DEF NoneGone, Quiet
  <2>2. cl[c].task.mappers = sched.mappers
    BY <2>1 DEF Calm, FirstOK
  <2>3. m \in sched.mappers
    BY <1>3, <1>4 DEF Calm, FirstOK, SplitMappers
  <2> QED BY <2>2, <2>3, <1>4
<1>6. /\ cl[d].at # "store"
      /\ \A p \in cl[d].store : p.key = <<cl[c].task.job, k, cl[c].task.part>> => <<m, p.line>> \in cl[c].input
  BY <1>5 DEF Calm, ReducingOK
<1>7. PICK p \in cl[d].store : p.line = line /\ p.key[1] = sched.job.no
  BY <1>1, <1>3, <1>6 DEF Keeps
<1>8. cl[c].task.job = sched.job.no
  BY DEF Calm, FirstOK
<1>9. CASE p.key[3] # cl[c].task.part
  BY <1>7, <1>8, <1>9 DEF Other
<1>10. CASE p.key[3] = cl[c].task.part
  <2>1. p.key[2] = k
    BY <1>0, <1>2, <1>3 DEF Numbered, NumberOf, NodesApart, Mapper
  <2>2. p.key \in Nat \X Nat \X Nat
    BY <1>0, ClientType DEF ClientRec, Key
  <2>3. p.key = <<p.key[1], p.key[2], p.key[3]>>
    BY <2>2
  <2>4. <<m, line>> \in cl[c].input
    BY <1>6, <1>7, <1>8, <1>10, <2>1, <2>3
  <2>5. <<m, line>>[2] = line
    OBVIOUS
  <2> QED BY <2>4, <2>5
<1> QED BY <1>9, <1>10

\* A clean result keeps having, with what is stored for other partitions, every line.
LEMMA CompleteStep == ASSUME Calm, Next PROVE Complete'
<1> DEFINE Has1(r, line) == (\E p \in UNION r.groups : p[2] = line) \/ Other(r.job, r.part, line)
           Has2(r, line) == (\E p \in UNION r.groups : p[2] = line) \/ Other(r.job, r.part, line)'
<1>0. IInv /\ NoneGone /\ NoneGone' /\ Numbered /\ SchedOK
  BY DEF Calm, IInv, TypeOK
<1>1. SUFFICES ASSUME NEW r \in results', r.clean, NEW i \in DOMAIN splits', NEW line \in Range(splits'[i].read)
               PROVE  Has2(r, line)
  <2>1. ASSUME \A r \in results' : r.clean =>
               \A i \in DOMAIN splits' : \A line \in Range(splits'[i].read) : Has2(r, line)
        PROVE  Complete'
    BY <2>1 DEF Complete, Other
  <2> HIDE DEF Has2
  <2> QED BY <2>1
<1>2. ASSUME NEW job, NEW part, Other(job, part, line) PROVE Other(job, part, line)'
  <2>1. PICK c \in Client : \E p \in cl[c].store : p.line = line /\ p.key[1] = job /\ p.key[3] # part
    BY <1>2 DEF Other
  <2>2. cl[c].store \subseteq cl'[c].store
    BY <1>0, StoresGrow DEF NoneGone
  <2> QED BY <2>1, <2>2 DEF Other
<1>3. ASSUME Reducing \/ Later PROVE i \in DOMAIN splits /\ line \in Range(splits[i].read)
  <2>1. splits # <<>>
    BY <1>3 DEF Calm, ReadOut
  <2>2. DOMAIN splits' = DOMAIN splits
    BY <1>0, <2>1, Reads
  <2> QED BY <1>1, <1>3, <2>2, ReadStays
<1>4. Before \/ Opened \/ Mapping \/ Reducing \/ Later
  BY <1>0 DEF Before, Opened, Mapping, Reducing, Later, SchedOK
<1>5. CASE r \in results
  <2>1. Reducing \/ Later
    BY <1>4, <1>5 DEF Calm, BeforeOK, OpenedOK, MappingOK
  <2>2. Has1(r, line)
    BY <1>1, <1>3, <1>5, <2>1 DEF Calm, Complete, Other
  <2> QED BY <2>2, <1>2
<1>6. CASE r \notin results
  <2>1. PICK c \in Client : ReduceFinish(c)
    BY <1>0, <1>1, <1>6, NewResults
  <2>2. /\ cl[c].at = "fetch" /\ cl[c].fetched = cl[c].task.mappers
        /\ r.job = cl[c].task.job /\ r.part = cl[c].task.part
        /\ r.clean = cl[c].clean /\ UNION r.groups = cl[c].input
    <3>1. cl[c].at = "fetch" /\ cl[c].fetched = cl[c].task.mappers /\ results' # results
      BY <1>0, <1>1, <1>6, <2>1, ReduceFields
    <3>2. PICK q : /\ results' = results \cup {q} /\ q.job = cl[c].task.job /\ q.part = cl[c].task.part
                   /\ q.clean = cl[c].clean /\ UNION q.groups = cl[c].input
      BY <1>0, <3>1, <2>1, ReduceFields
    <3>3. r = q
      BY <3>2, <1>1, <1>6
    <3> QED BY <3>1, <3>2, <3>3
  <2>3. Reducing
    <3>1. ~Before /\ ~Opened
      BY <2>2 DEF Calm, BeforeOK, OpenedOK
    <3>2. ~Mapping
      <4>1. ASSUME Mapping PROVE \A d \in Client : serv[d].at # "none" => serv[d].task.kind = "map"
        BY <4>1 DEF Calm, FirstOK
      <4> QED BY <4>1, <1>0, <2>2, NoReducer
    <3>3. ~Later
      <4>1. serv[c].at = "wait"
        BY <1>0, <2>2, Busy DEF NoneGone, Quiet
      <4>2. sched.at \notin {"wait", "map", "split", "dead"}
        BY <4>1, <1>0 DEF IInv, NoServlets
      <4>3. ASSUME Later PROVE sched.at = "mapping"
        BY <4>2, <4>3, <1>0 DEF Calm, LaterOK, SchedOK
      <4>4. ASSUME Later PROVE \A d \in Client : serv[d].at # "none" => serv[d].task.kind = "map"
        BY <4>3, <4>4 DEF Calm, LaterOK
      <4> QED BY <4>4, <1>0, <2>2, NoReducer
    <3> QED BY <1>4, <3>1, <3>2, <3>3
  <2>4. i \in DOMAIN splits /\ line \in Range(splits[i].read)
    BY <1>3, <2>3
  <2>5. Has1(r, line)
    BY <1>1, <2>2, <2>3, <2>4, ResultComplete
  <2> QED BY <2>5, <1>2
<1> QED BY <1>5, <1>6

\* While no client is lost, nothing is missing.
LEMMA WholeStep ==
  ASSUME IInv, Reading, SplitsApart, NodesApart, Numbered, WholeOK, Next PROVE WholeOK'
<1> SUFFICES ASSUME NoneGone'
             PROVE  (BeforeOK /\ OpenedOK /\ FirstOK /\ MappingOK /\ ReadOut /\ LaterOK /\ ReducingOK /\ Complete)'
  BY DEF WholeOK
<1>1. Calm
  BY NoneGoneBefore DEF Calm, WholeOK
<1> QED BY <1>1, BeforeStep, OpenedStep, FirstStep, MappingStep, ReadOutStep, LaterStep, ReducingStep, CompleteStep

----------------------------------------------------------------------------
(* ReduceExact. *)

ReduceInv == /\ NoPill /\ SplitsApart /\ OneOrigin /\ StillStored /\ NodesApart /\ Numbered /\ Grouped
             /\ WholeOK

\* There is nothing at first.
LEMMA ReduceInit == Init => ReduceInv
<1> SUFFICES ASSUME Init PROVE ReduceInv
  OBVIOUS
<1>1. /\ splits = <<>> /\ DOMAIN splits = {} /\ results = {} /\ nodes = <<>> /\ DOMAIN nodes = {}
      /\ jobs.finished = <<>> /\ sched.at = "wait"
      /\ \A c \in Client : /\ cl[c].at = "idle" /\ cl[c].store = {} /\ cl[c].input = {} /\ cl[c].split = None
                           /\ serv[c].at = "none"
  BY DEF Init, IdleClient, NoServlet
<1>2. \A c \in Client : \A k, line : ~Copy(c, k, line)
  BY <1>1 DEF Copy, Stored, ToStore, Fetched, Reduced
<1>3. NoPill /\ SplitsApart /\ NodesApart /\ Numbered /\ Grouped
  BY <1>1 DEF NoPill, SplitsApart, NodesApart, Numbered, Grouped
<1>4. OneOrigin
  BY <1>2 DEF OneOrigin
<1>5. StillStored
  BY <1>2 DEF StillStored, Copy
<1>6. WholeOK
  BY <1>1 DEF WholeOK, BeforeOK, OpenedOK, FirstOK, MappingOK, ReadOut, LaterOK, ReducingOK, Complete,
              Before, Opened, Mapping, Reducing, Later
<1> QED BY <1>3, <1>4, <1>5, <1>6 DEF ReduceInv

\* Every step keeps it.
LEMMA ReduceNext == ASSUME IInv, Reading, ReduceInv, Next PROVE ReduceInv'
BY NoPillStep, SplitsApartStep, OneOriginStep, StillStoredStep, NodesApartStep, NumberedStep, GroupedStep,
   WholeStep DEF ReduceInv

\* So does a step that changes nothing.
LEMMA ReduceStutter == ASSUME ReduceInv, UNCHANGED vars PROVE ReduceInv'
<1>0. UNCHANGED <<splits, cl, link, serv, nodes, listener, sched, jobs, splitIndex, faults, results>>
  BY DEF vars
<1>1. \A c \in Client : \A k, line : Copy(c, k, line)' <=> Copy(c, k, line)
  BY <1>0 DEF Copy, Stored, ToStore, Fetched, Reduced
<1>2. OneOrigin'
  BY <1>0, <1>1 DEF ReduceInv, OneOrigin, UsedUp
<1>3. NoPill' /\ SplitsApart' /\ NodesApart' /\ Grouped'
  BY <1>0 DEF ReduceInv, NoPill, SplitsApart, NodesApart, Grouped
<1>4. Numbered'
  BY <1>0 DEF ReduceInv, Numbered, NumberOf
<1>5. StillStored'
  BY <1>0 DEF ReduceInv, StillStored, Stored, Fetched, Reduced
<1>6. WholeOK'
  <2>1. /\ (NoneGone' <=> NoneGone) /\ (Mapping' <=> Mapping) /\ (Reducing' <=> Reducing) /\ (Before' <=> Before)
        /\ (Opened' <=> Opened) /\ (Later' <=> Later) /\ SplitMappers' = SplitMappers
    BY <1>0 DEF NoneGone, Mapping, Reducing, Before, Opened, Later, SplitMappers, Mapper
  <2>2. \A c \in Client : (Mapped(c)' <=> Mapped(c)) /\ \A line : Keeps(c, line)' <=> Keeps(c, line)
    BY <1>0 DEF Mapped, Keeps
  <2>3. ASSUME NoneGone PROVE (BeforeOK /\ OpenedOK /\ FirstOK /\ LaterOK /\ ReadOut)'
    BY <1>0, <2>1, <2>2, <2>3 DEF ReduceInv, WholeOK, BeforeOK, OpenedOK, FirstOK, LaterOK, ReadOut
  <2>4. ASSUME NoneGone PROVE MappingOK'
    BY <1>0, <2>1, <2>2, <2>4 DEF ReduceInv, WholeOK, MappingOK, Mapper
  <2>5. ASSUME NoneGone PROVE ReducingOK'
    BY <1>0, <2>1, <2>5 DEF ReduceInv, WholeOK, ReducingOK, Mapper, Keeps
  <2>6. ASSUME NoneGone PROVE Complete'
    BY <1>0, <2>6 DEF ReduceInv, WholeOK, Complete
  <2> QED BY <2>1, <2>3, <2>4, <2>5, <2>6 DEF WholeOK
<1> QED BY <1>2, <1>3, <1>4, <1>5, <1>6 DEF ReduceInv

\* A set whose members have different second parts, in groups of one each, has
\* as many members as groups and as second parts.
LEMMA Singles ==
  ASSUME NEW X, NEW N, IsFiniteSet(N), \A p \in X : p[2] \in N, \A p, q \in X : p[2] = q[2] => p = q
  PROVE  LET groups == {{q \in X : q[2] = p[2]} : p \in X}
             lines  == {p[2] : p \in X}
         IN  Cardinality(lines) = Cardinality(groups) /\ Cardinality(lines) = Cardinality(X)
<1> DEFINE groups == {{q \in X : q[2] = p[2]} : p \in X}
           lines  == {p[2] : p \in X}
           f == [p \in X |-> p[2]]
           g == [p \in X |-> {p}]
<1>1. f \in Bijection(X, lines)
  <2>1. f \in [X -> lines] /\ (\A p, q \in X : f[p] = f[q] => p = q) /\ (\A n \in lines : \E p \in X : f[p] = n)
    OBVIOUS
  <2> HIDE DEF f, lines
  <2> QED BY <2>1 DEF Bijection, Injection, Surjection, IsInjective
<1>2. groups = {{p} : p \in X}
  <2>1. \A p \in X : {q \in X : q[2] = p[2]} = {p}
    OBVIOUS
  <2> QED BY <2>1
<1>3. g \in Bijection(X, groups)
  <2>1. g \in [X -> groups]
    BY <1>2
  <2>2. \A p, q \in X : g[p] = g[q] => p = q
    OBVIOUS
  <2>3. \A n \in groups : \E p \in X : g[p] = n
    BY <1>2
  <2> HIDE DEF g, groups
  <2> QED BY <2>1, <2>2, <2>3 DEF Bijection, Injection, Surjection, IsInjective
<1>4. IsFiniteSet(X)
  <2>1. f \in Injection(X, N)
    <3>1. f \in [X -> N] /\ (\A p, q \in X : f[p] = f[q] => p = q)
      OBVIOUS
    <3> HIDE DEF f
    <3> QED BY <3>1 DEF Injection, IsInjective
  <2> HIDE DEF f
  <2> QED BY <2>1, FS_Injection
<1>5. ExistsBijection(X, lines) /\ ExistsBijection(X, groups)
  <2> HIDE DEF f, g, lines, groups
  <2> QED BY <1>1, <1>3 DEF ExistsBijection
<1>6. Cardinality(lines) = Cardinality(X) /\ Cardinality(groups) = Cardinality(X)
  <2> HIDE DEF lines, groups
  <2> QED BY <1>4, <1>5, FS_Bijection
<1> HIDE DEF lines, groups
<1> QED BY <1>6 DEF lines, groups

\* The invariants imply ReduceExact.
LEMMA ReduceExactFollows == ASSUME IInv, ReduceInv PROVE ReduceExact
<1> DEFINE input(r) == UNION r.groups
           lines(r) == {p[2] : p \in input(r)}
           read     == UNION {Range(splits[i].read) : i \in DOMAIN splits}
           key(r, p) == <<r.job, p[1].no, r.part>>
<1>0. /\ results \subseteq [job : Nat, part : Nat, groups : SUBSET SUBSET (NodeInfo \X Nat), clean : BOOLEAN]
      /\ SplitsInv
  BY DEF IInv, TypeOK, ResultsOK
<1>1. ASSUME NEW r \in results, NEW p \in input(r)
      PROVE  /\ p \in NodeInfo \X Nat /\ p[1].client \in Client /\ p[1] \in NodeInfo
             /\ Reduced(p[1].client, key(r, p), p[2]) /\ Copy(p[1].client, key(r, p), p[2])
  <2>1. p \in NodeInfo \X Nat
    BY <1>0, <1>1
  <2>2. p[1] \in NodeInfo /\ p[1].client \in Client
    BY <2>1 DEF NodeInfo
  <2>3. Reduced(p[1].client, key(r, p), p[2])
    BY <1>1 DEF Reduced
  <2> QED BY <2>1, <2>2, <2>3 DEF Copy
<1>2. ASSUME NEW r \in results, NEW q \in results, NEW p \in input(r), NEW o \in input(q), p[2] = o[2], r.job = q.job
      PROVE  r.part = q.part /\ p = o
  <2>1. p[1].client = o[1].client /\ key(r, p) = key(q, o)
    <3> DEFINE c == p[1].client
               d == o[1].client
               k == key(r, p)
               l == key(q, o)
    <3>1. Copy(c, k, p[2]) /\ Copy(d, l, p[2]) /\ c \in Client /\ d \in Client
      BY <1>1, <1>2
    <3> HIDE DEF c, d, k, l
    <3>2. c = d /\ k = l
      BY <3>1 DEF ReduceInv, OneOrigin
    <3> QED BY <3>2 DEF c, d, k, l
  <2>2. p[1].no = o[1].no /\ r.part = q.part
    BY <2>1
  <2>3. p \in NodeInfo \X Nat /\ o \in NodeInfo \X Nat
    BY <1>1
  <2>4. p[1] = o[1]
    BY <2>1, <2>2, <2>3 DEF NodeInfo
  <2> QED BY <2>2, <2>3, <2>4, <1>2
<1>3. ASSUME NEW r \in results, NEW p \in input(r) PROVE p[2] \in read
  <2>1. Copy(p[1].client, key(r, p), p[2]) /\ p[1].client \in Client
    BY <1>1, <1>3
  <2>2. PICK i \in DOMAIN splits : p[2] \in Range(splits[i].read)
    BY <2>1 DEF ReduceInv, OneOrigin
  <2> QED BY <2>2
<1>4. read \subseteq 1 .. Len(File)
  <2>1. ASSUME NEW i \in DOMAIN splits, NEW n \in Range(splits[i].read) PROVE n \in 1 .. Len(File)
    <3>1. n \in Range(LinesBetween(splits[i].start, splits[i].end))
      BY <1>0, ReadLines DEF ReduceInv
    <3>2. UNION {Range(LinesBetween(splits[j].start, splits[j].end)) : j \in DOMAIN splits} = DOMAIN File
      <4>1. splits # <<>>
        BY <2>1
      <4> QED BY <4>1, <1>0, LinesOnceFollows DEF LinesOnce
    <3>3. n \in DOMAIN File
      BY <3>1, <3>2
    <3> QED BY <3>3, FileType
  <2> QED BY <2>1
<1>5. IsFiniteSet(1 .. Len(File))
  BY LenFile, FS_Interval
<1>6. ASSUME NEW r \in results
      PROVE  Cardinality(lines(r)) = Cardinality(r.groups) /\ Cardinality(lines(r)) = Cardinality(input(r))
  <2>1. \A p \in input(r) : p[2] \in 1 .. Len(File)
    <3> HIDE DEF read, input
    <3> QED BY <1>3, <1>4
  <2>2. \A p, q \in input(r) : p[2] = q[2] => p = q
    BY <1>2
  <2>3. r.groups = {{q \in input(r) : q[2] = p[2]} : p \in input(r)}
    BY DEF ReduceInv, Grouped, ByLine
  <2> HIDE DEF input
  <2>4. Cardinality(lines(r)) = Cardinality({{q \in input(r) : q[2] = p[2]} : p \in input(r)})
          /\ Cardinality(lines(r)) = Cardinality(input(r))
    BY <1>5, <2>1, <2>2, Singles
  <2> QED BY <2>3, <2>4
<1>7. ASSUME NEW r \in results, NEW p \in input(r)
      PROVE  p[2] \in getValueForKey(cl[p[1].client].store, key(r, p)) \/ cl[p[1].client].st = "gone"
  <2>1. Stored(p[1].client, key(r, p), p[2]) \/ cl[p[1].client].st = "gone"
    BY <1>1, <1>7 DEF ReduceInv, StillStored
  <2> QED BY <2>1 DEF Stored, getValueForKey
<1>8. ASSUME NEW r \in results, r.clean, \A c \in Client : cl[c].st # "gone", NEW line \in read \ lines(r)
      PROVE  \E c \in Client : \E p \in cl[c].store : p.line = line /\ p.key[1] = r.job /\ p.key[3] # r.part
  <2>1. NoneGone
    BY <1>8 DEF NoneGone
  <2>2. Complete
    BY <2>1 DEF ReduceInv, WholeOK
  <2>3. PICK i \in DOMAIN splits : line \in Range(splits[i].read)
    BY <1>8
  <2>4. ~ \E p \in UNION r.groups : p[2] = line
    BY <1>8
  <2> QED BY <1>8, <2>2, <2>3, <2>4 DEF Complete
<1>9. ASSUME NEW r \in results, NEW q \in results, q.job = r.job, q.part # r.part
      PROVE  lines(r) \cap lines(q) = {}
  BY <1>2, <1>9
<1>10. ASSUME NEW r \in results PROVE lines(r) \subseteq read
  <2> HIDE DEF read
  <2> QED BY <1>3
<1> QED BY <1>6, <1>7, <1>8, <1>9, <1>10 DEF ReduceExact

\* The invariant behind ReduceExact holds in every state: each line has one
\* origin, whatever is lost, and nothing is missing while no client is.
THEOREM ReduceInvariance == Spec => []ReduceInv
<1>1. Init => ReduceInv
  BY ReduceInit
<1>2. (IInv /\ Reading) /\ ReduceInv /\ [Next]_vars => ReduceInv'
  BY ReduceNext, ReduceStutter
<1> QED BY <1>1, <1>2, Invariance, PTL DEF Spec

\* A reducer is given lines of its own job and partition only, none twice, none
\* that another reducer of the job has, and all of them when no map node was lost
\* or still storing (ShuffleMapPartition, MapOutputServer, ReducerMetaInfo), for
\* any number of clients, jobs, reducers and faults and for every input.
THEOREM ReduceExactHolds == Spec => []ReduceExact
<1>1. IInv /\ Reading /\ ReduceInv => ReduceExact
  BY ReduceExactFollows
<1> QED BY <1>1, Invariance, ReduceInvariance, PTL

=============================================================================
