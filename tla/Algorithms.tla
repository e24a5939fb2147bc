----------------------------- MODULE Algorithms -----------------------------
(***************************************************************************)
(* The sorting, searching, counting and packing exercises of               *)
(* src/fun/logicpro/ds as functions.  Places in arrays are counted from 1; *)
(* what is printed is a sequence.                                          *)
(***************************************************************************)
EXTENDS Integers, SequencesExt, FiniteSetsExt, Bitwise

CONSTANTS MaxValue,    \* of an array's items
          MaxArray,    \* length
          MaxN         \* of a number argument
ASSUME AlgorithmsAssumption == {MaxValue, MaxArray, MaxN} \subseteq Nat

VARIABLES array, num   \* the arguments

Hang  == -2            \* the call does not return
Fails == -1            \* it throws

Swapped(a, i, j) == [a EXCEPT ![i] = a[j], ![j] = a[i]]
UpTo(i, j) == [k \in 1 .. (IF j < i THEN 0 ELSE j - i + 1) |-> i + k - 1]
Halves(a)  == <<SubSeq(a, 1, Len(a) \div 2), SubSeq(a, Len(a) \div 2 + 1, Len(a))>>

----------------------------------------------------------------------------
(* Sorts.java *)

\* The item at i moves down to its place below.
RECURSIVE ShiftDown(_, _, _)
ShiftDown(a, j, v) ==
    IF j > 1 /\ a[j - 1] > v THEN ShiftDown([a EXCEPT ![j] = a[j - 1]], j - 1, v)
    ELSE [a EXCEPT ![j] = v]
insertionSort(a) == FoldLeft(LAMBDA b, i : ShiftDown(b, i, b[i]), a, UpTo(2, Len(a)))

RECURSIVE SwapDown(_, _)
SwapDown(a, j) == IF j > 1 /\ a[j] < a[j - 1] THEN SwapDown(Swapped(a, j, j - 1), j - 1) ELSE a
insertionSortEasy(a) == FoldLeft(SwapDown, a, UpTo(1, Len(a)))

\* The array, and the first place whose pass swapped nothing.
BubblePass(a, i) == FoldLeft(LAMBDA b, j : IF b[j] < b[i] THEN Swapped(b, i, j) ELSE b, a, UpTo(i + 1, Len(a)))
RECURSIVE BubbleFrom(_, _)
BubbleFrom(a, i) ==
    IF i > Len(a) \/ BubblePass(a, i) = a THEN <<a, i>> ELSE BubbleFrom(BubblePass(a, i), i + 1)
bubbleSort(a) == BubbleFrom(a, 1)

SelectMin(a, i) == FoldLeft(LAMBDA least, j : IF a[j] < a[least] THEN j ELSE least, i, UpTo(i + 1, Len(a)))
selectionSort(a) == FoldLeft(LAMBDA b, i : Swapped(b, i, SelectMin(b, i)), a, UpTo(1, Len(a)))

\* The walks of partition.  The upper bound stops i only if it comes to it from below.
RECURSIVE ScanUp(_, _, _, _)
ScanUp(a, i, lo, hi) ==
    IF i > Len(a) THEN Fails
    ELSE IF a[i] >= a[lo] THEN i
    ELSE IF i + 1 = hi THEN hi ELSE ScanUp(a, i + 1, lo, hi)
RECURSIVE ScanDown(_, _, _)
ScanDown(a, j, lo) == IF a[j] <= a[lo] THEN j ELSE IF j - 1 = lo THEN lo ELSE ScanDown(a, j - 1, lo)
RECURSIVE PartitionFrom(_, _, _, _, _)
PartitionFrom(a, i0, j0, lo, hi) ==
    LET i == ScanUp(a, i0, lo, hi)
        j == ScanDown(a, j0, lo)
    IN  IF i = Fails THEN <<a, Fails>>
        ELSE IF i >= j THEN <<Swapped(a, lo, j), j>>
        ELSE IF a[i] = a[lo] /\ a[j] = a[lo] THEN <<a, Hang>>
        ELSE PartitionFrom(Swapped(a, i, j), i, j, lo, hi)
partition(a, lo, hi) == PartitionFrom(a, lo + 1, hi, lo, hi)

\* The array, and whether the call returns.
RECURSIVE quickSort(_, _, _)
quickSort(a, lo, hi) ==
    LET p    == partition(a, lo, hi)
        left == quickSort(p[1], lo, p[2] - 1)
    IN  IF lo >= hi THEN <<a, 0>>
        ELSE IF p[2] < 0 THEN p
        ELSE IF left[2] < 0 THEN left ELSE quickSort(left[1], p[2] + 1, hi)

RECURSIVE MergeRest(_, _)
MergeRest(a, b) ==
    IF a = <<>> THEN b ELSE IF b = <<>> THEN a
    ELSE IF a[1] < b[1] THEN <<a[1]>> \o MergeRest(Tail(a), b) ELSE <<b[1]>> \o MergeRest(a, Tail(b))

mergeSortedArrays(a, b) ==
    IF a[Len(a)] < b[1] THEN a \o b ELSE IF b[Len(b)] < a[1] THEN b \o a ELSE MergeRest(a, b)
RECURSIVE mergeSort(_)
mergeSort(a) ==
    IF Len(a) <= 1 THEN a ELSE mergeSortedArrays(mergeSort(Halves(a)[1]), mergeSort(Halves(a)[2]))
\* The halves are filled in one loop.
RECURSIVE mergeSort2(_)
mergeSort2(a) ==
    LET mid == Len(a) \div 2 IN
    IF Len(a) <= 1 THEN a
    ELSE mergeSortedArrays(mergeSort2([k \in 1 .. mid |-> a[k]]), mergeSort2([k \in 1 .. Len(a) - mid |-> a[mid + k]]))

----------------------------------------------------------------------------
(* Knapsack.java and KnapsackBruteForce.java; row i, column j of the matrix is at [i][j], both from 0. *)

getSolutionMatrix(values, weights, capacity) ==
    LET Row(prev, i) == [j \in 0 .. capacity |->
            IF j >= weights[i] THEN Max({prev[j], values[i] + prev[j - weights[i]]}) ELSE prev[j]]
        rows == FoldLeft(LAMBDA m, i : Append(m, Row(m[i], i)), <<[j \in 0 .. capacity |-> 0]>>, UpTo(1, Len(values)))
    IN  [i \in 0 .. Len(values) |-> rows[i + 1]]

RECURSIVE SubsetFrom(_, _, _, _)
SubsetFrom(matrix, weights, i, j) ==
    IF j < 0 \/ i = 0 THEN <<>>
    ELSE IF matrix[i][j] # matrix[i - 1][j] THEN <<i>> \o SubsetFrom(matrix, weights, i - 1, j - weights[i])
    ELSE SubsetFrom(matrix, weights, i - 1, j)
getOptimalSubset(matrix, weights, capacity) == SubsetFrom(matrix, weights, Len(weights), capacity)

TotalOf(s, I) == MapThenSumSet(LAMBDA i : s[i], I)
\* The best value and items so far; -1 for Integer.MIN_VALUE.
RECURSIVE solve(_, _, _, _, _, _)
solve(values, weights, capacity, k, current, best) ==
    IF k = 0
    THEN IF TotalOf(weights, current) <= capacity /\ TotalOf(values, current) > best[1]
         THEN <<TotalOf(values, current), current>> ELSE best
    ELSE solve(values, weights, capacity, k - 1, current \ {k},
               solve(values, weights, capacity, k - 1, current \cup {k}, best))

----------------------------------------------------------------------------
(* MatrixSearch.java, MatrixMultiplication.java; a matrix is a sequence of rows. *)

\* The walk down the diagonal: the last place, or that the value is there.
RECURSIVE Diagonal(_, _, _, _)
Diagonal(matrix, value, p, q) ==
    LET mid == <<(p[1] + q[1]) \div 2, (p[2] + q[2]) \div 2>>
        at  == matrix[mid[1] + 1][mid[2] + 1]
    IN  IF mid = p \/ mid = q THEN [at |-> mid, found |-> FALSE]
        ELSE IF value = at THEN [at |-> mid, found |-> TRUE]
        ELSE IF value < at THEN Diagonal(matrix, value, p, mid) ELSE Diagonal(matrix, value, mid, q)
RECURSIVE findCore(_, _, _, _)
findCore(matrix, value, p, q) ==
    LET first == matrix[p[1] + 1][p[2] + 1]
        last  == matrix[q[1] + 1][q[2] + 1]
        mid   == Diagonal(matrix, value, p, q)
    IN  IF value < first \/ value > last THEN FALSE
        ELSE IF value = first \/ value = last THEN TRUE
        ELSE IF mid.found THEN TRUE
        ELSE \/ mid.at[1] < Len(matrix) - 1 /\ findCore(matrix, value, <<mid.at[1] + 1, p[2]>>, <<q[1], mid.at[2]>>)
             \/ mid.at[2] < Len(matrix[1]) - 1 /\ findCore(matrix, value, <<p[1], mid.at[2] + 1>>, <<mid.at[1], q[2]>>)

matrixMultiplication(a, b) ==
    IF Len(a[1]) # Len(b) THEN <<>>
    ELSE [i \in DOMAIN a |-> [k \in DOMAIN b[1] |-> FoldLeft(LAMBDA s, j : s + a[i][j] * b[j][k], 0, UpTo(1, Len(a[i])))]]

----------------------------------------------------------------------------
(* RecursionVsIteration.java, FiboSeries.java *)

factorialIterative(k) == FoldLeft(LAMBDA r, i : r * i, 1, UpTo(2, k))
RECURSIVE factorialRecursive(_)
factorialRecursive(k) == IF k < 2 THEN 1 ELSE k * factorialRecursive(k - 1)

RECURSIVE fibonacciRecursiveBasic(_, _, _)
fibonacciRecursiveBasic(i, j, k) ==
    IF i > k THEN <<>> ELSE <<i>> \o (IF j <= k THEN fibonacciRecursiveBasic(j, i + j, k) ELSE <<>>)
RECURSIVE fibonacciRecursiveImproved(_, _, _)
fibonacciRecursiveImproved(i, j, k) == IF j < k THEN <<j>> \o fibonacciRecursiveImproved(j, i + j, k) ELSE <<>>
fibonacciRecursive(k) == IF k >= 0 THEN <<0>> \o fibonacciRecursiveImproved(0, 1, k) ELSE <<>>
RECURSIVE FibonacciLoop(_, _, _)
FibonacciLoop(i, j, k) == IF j <= k THEN <<j>> \o FibonacciLoop(j, i + j, k) ELSE <<>>
fibonacciIterative(k) == <<0>> \o FibonacciLoop(0, 1, k)
\* The first numbers, and as many as asked for.
RECURSIVE FiboSteps(_, _, _)
FiboSteps(i, j, limit) == IF limit > 0 THEN <<j>> \o FiboSteps(j, i + j, limit - 1) ELSE <<>>
printFibo(limit) == <<0>> \o FiboSteps(0, 1, limit - 1)

RECURSIVE TriangularSeriesRecursive(_)
TriangularSeriesRecursive(k) == IF k <= 1 THEN 1 ELSE k + TriangularSeriesRecursive(k - 1)
TriangularSeriesIterative(k) == IF k < 1 THEN 0 ELSE FoldLeft(LAMBDA s, i : s + i, 0, UpTo(1, k))

shiftbyone(w, size) ==
    LET p == Len(w) - size IN
    SubSeq(w, 1, p) \o SubSeq(w, p + 2, Len(w)) \o <<w[p + 1]>>
\* The word after, and what has been displayed.
RECURSIVE findAnagrams(_, _, _)
findAnagrams(w, shown, size) ==
    IF size <= 1 THEN <<w, shown>>
    ELSE FoldLeft(LAMBDA r, i : LET t == findAnagrams(r[1], r[2], size - 1) IN
                      <<shiftbyone(t[1], size), IF size = 2 THEN Append(t[2], t[1]) ELSE t[2]>>,
                  <<w, shown>>, UpTo(1, size))

\* The place, 0 if there is none; lb and ub are counted from 0, and / rounds towards 0.
RECURSIVE binarySearchResursive(_, _, _, _)
binarySearchResursive(a, v, lb, ub) ==
    LET mid == IF lb + ub < 0 THEN 0 ELSE (lb + ub) \div 2 IN
    IF mid >= Len(a) THEN Fails
    ELSE IF a[mid + 1] = v THEN mid + 1
    ELSE IF ub < lb THEN 0
    ELSE IF a[mid + 1] > v THEN binarySearchResursive(a, v, lb, mid - 1)
    ELSE binarySearchResursive(a, v, mid + 1, ub)
binarySearchIterative(a, v) == binarySearchResursive(a, v, 0, Len(a) - 1)

RECURSIVE raisingNumberToPower(_, _)
raisingNumberToPower(base, power) == IF power = 0 THEN 1 ELSE base * raisingNumberToPower(base, power - 1)
RECURSIVE raisingNumberToPower2(_, _)
raisingNumberToPower2(base, power) ==
    IF power = 1 THEN base
    ELSE raisingNumberToPower2(base * base, power \div 2) * (IF power % 2 = 1 THEN base ELSE 1)
raisingNumberToPowerIterative(base, power) == FoldLeft(LAMBDA r, i : r * base, 1, UpTo(1, power))

\* The decimal digits.
RECURSIVE DigitsOf(_)
DigitsOf(t) == IF t < 10 THEN <<t>> ELSE Append(DigitsOf(t \div 10), t % 10)
RECURSIVE sumOfDigits(_)
sumOfDigits(t) == IF Len(DigitsOf(t)) = 1 THEN t ELSE sumOfDigits(FoldLeft(+, 0, DigitsOf(t)))

----------------------------------------------------------------------------
(* InterviewQuestions.java, StringReplaceUsingCharArray.java *)

findSumPairs(a, result) == {p \in (DOMAIN a) \X (DOMAIN a) : p[1] # p[2] /\ a[p[1]] + a[p[2]] = result}
findNonDuplicateFromDuplicateNumberedArray(a) == FoldLeft(LAMBDA x, v : x ^^ v, a[1], Tail(a))

\* The two pointers j and k of a sorted array, for the item at i.
RECURSIVE TwoPointers(_, _, _, _, _)
TwoPointers(a, sum, i, j, k) ==
    LET t == a[i] + a[j] + a[k] IN
    IF k <= j THEN {}
    ELSE IF t = sum THEN {<<i, j, k>>} \cup TwoPointers(a, sum, i, j, k - 1)
    ELSE IF t > sum THEN TwoPointers(a, sum, i, j, k - 1)
    ELSE TwoPointers(a, sum, i, j + 1, k)
SUM3Problem(a, sum) == UNION {TwoPointers(a, sum, i, i + 1, Len(a)) : i \in 1 .. Len(a) - 3}

\* In place from the right: every blank (1) becomes three characters.
Blank == 1
Code  == <<10, 11, 12>>
RECURSIVE ReplaceFrom(_, _, _)
ReplaceFrom(ch, from, to) ==
    IF from = 0 THEN ch
    ELSE IF ch[from] = Blank
    THEN ReplaceFrom([k \in DOMAIN ch |-> IF k \in to - 2 .. to THEN Code[k - to + 3] ELSE ch[k]], from - 1, to - 3)
    ELSE ReplaceFrom([k \in DOMAIN ch |-> IF k = to THEN ch[from] ELSE ch[k]], from - 1, to - 1)
replace(text) ==
    LET spaces == Len(SelectSeq(text, LAMBDA c : c = Blank)) IN
    ReplaceFrom(text \o [k \in 1 .. 2 * spaces |-> Blank], Len(text), Len(text) + 2 * spaces)

----------------------------------------------------------------------------
AlgorithmsInit == array = <<>> /\ num = 0
NextItem(v) == num = 0 /\ Len(array) < MaxArray /\ array' = Append(array, v) /\ UNCHANGED num
NextNum     == array = <<>> /\ num < MaxN /\ num' = num + 1 /\ UNCHANGED array
AlgorithmsNext == (\E v \in 0 .. MaxValue : NextItem(v)) \/ NextNum

----------------------------------------------------------------------------
InOrder(a) == \A i, j \in DOMAIN a : i < j => a[i] <= a[j]
Permuted(a, b) == \A v \in Range(a) \cup Range(b) :
                     Cardinality({i \in DOMAIN a : a[i] = v}) = Cardinality({i \in DOMAIN b : b[i] = v})

\* insertionSort, selectionSort and the merge sorts sort; partition stays within
\* its bounds (Sorts.java:188) unless two items at the end of the array are out of
\* order, where it throws, or equal items make it swap them for ever: without
\* either, quickSort sorts.  bubbleSort returns as soon as a pass has
\* swapped nothing, at a place where everything before is smaller than
\* everything after: it has sorted exactly the arrays whose rest is sorted then.
SortsRight ==
    LET quick  == quickSort(array, 1, Len(array))
        bubble == bubbleSort(array)
        sorted == insertionSort(array)
        n      == Len(array)
    IN  /\ InOrder(sorted) /\ Permuted(sorted, array)
        /\ {insertionSortEasy(array), selectionSort(array), mergeSort(array), mergeSort2(array)} = {sorted}
        /\ quick[2] = Hang => ~IsInjective(array)
        /\ quick[2] = Fails => quick[1][n] < quick[1][n - 1]
        /\ quick[2] >= 0 => quick[1] = sorted
        /\ Permuted(bubble[1], array)
        /\ \A i \in 1 .. bubble[2], j \in DOMAIN array : i <= j /\ i <= n => bubble[1][i] <= bubble[1][j]
        /\ bubble[1] = sorted <=> InOrder(SubSeq(bubble[1], bubble[2] + 1, n))
        /\ array = <<0, 2, 1>> => bubble[1] = array

\* The matrix of Knapsack gives the value of the brute-force solution for every
\* capacity, and the subset it reads off fits and has that value.
KnapsackRight ==
    LET weights == array
        values  == Reverse(array)
    IN  \A capacity \in 0 .. 4 :
          LET matrix == getSolutionMatrix(values, weights, capacity)
              best   == solve(values, weights, capacity, Len(array), {}, <<-1, {}>>)
              subset == getOptimalSubset(matrix, weights, capacity)
          IN  /\ matrix[Len(array)][capacity] = best[1]
              /\ IsInjective(subset) /\ TotalOf(weights, Range(subset)) <= capacity
              /\ TotalOf(values, Range(subset)) = best[1]

\* findCore finds exactly the values of a matrix whose rows and columns are
\* sorted; products of matrices are associative; the other searches over arrays.
\* SUM3Problem finds a triple if there is one (InterviewQuestions.java:365-382)
\* that does not start at the third last item, where its loop does not begin.
ArraysRight ==
    LET square == [r \in 1 .. 2 |-> SubSeq(array, 2 * r - 1, 2 * r)]
        sorted == insertionSort(array)
        \* three rows and columns that grow by the items of the array
        table3 == [r \in 1 .. 3 |-> [c \in 1 .. 3 |-> TotalOf(array, (1 .. r - 1) \cup (3 .. c + 1))]]
        grams  == findAnagrams([k \in 1 .. Len(array) |-> k], <<>>, Len(array))
    IN  /\ Len(array) = 4 =>
             \A v \in 0 .. 4 * MaxValue :
               findCore(table3, v, <<0, 0>>, <<2, 2>>) = (\E i, j \in 1 .. 3 : table3[i][j] = v)
        /\ Len(array) = 4 =>
             matrixMultiplication(matrixMultiplication(square, square), <<<<1, 2>>, <<0, 3>>>>) =
             matrixMultiplication(square, matrixMultiplication(square, <<<<1, 2>>, <<0, 3>>>>))
        /\ Len(array) > 1 => /\ Len(grams[2]) = factorialIterative(Len(array)) /\ IsInjective(grams[2])
                             /\ grams[1] = [k \in 1 .. Len(array) |-> k]
        /\ array # <<>> => \A v \in 0 .. MaxValue :
             LET at == binarySearchIterative(sorted, v) IN
             IF v \in Range(array) THEN at \in DOMAIN sorted /\ sorted[at] = v ELSE at = 0
        /\ \A sum \in 0 .. 3 * MaxValue :
             LET found == SUM3Problem(sorted, sum) IN
             /\ \A t \in found : t[1] < t[2] /\ t[2] < t[3] /\ sorted[t[1]] + sorted[t[2]] + sorted[t[3]] = sum
             /\ found = {} <=>
                  \A i, j, k \in DOMAIN array : i < j /\ j < k /\ sorted[i] + sorted[j] + sorted[k] = sum
                                                => i > Len(array) - 3
             /\ \A p \in findSumPairs(array, sum) : Reverse(p) \in findSumPairs(array, sum)
        /\ array # <<>> => findNonDuplicateFromDuplicateNumberedArray(array \o Tail(array)) = array[1]
        /\ replace(array) = FlattenSeq([k \in DOMAIN array |-> IF array[k] = Blank THEN Code ELSE <<array[k]>>])

\* The iterative and the recursive versions agree where both are meant to.
\* fibonacciRecursive stops before n where the others stop after it: it differs
\* from the series of RecursionVsIteration.java:85 exactly if that ends with n.
SeriesRight ==
    LET fib == fibonacciIterative(num) IN
    /\ factorialIterative(num) = factorialRecursive(num)
    /\ fib = fibonacciRecursiveBasic(0, 1, num) /\ fib = printFibo(Len(fib))
    /\ fibonacciRecursive(num) = SelectSeq(fib, LAMBDA f : f = 0 \/ f < num)
    /\ fibonacciRecursive(num) = fib <=> num = 0 \/ Last(fib) # num
    /\ num > 0 => /\ TriangularSeriesRecursive(num) = TriangularSeriesIterative(num)
                  /\ 2 * TriangularSeriesRecursive(num) = num * (num + 1)
                  /\ sumOfDigits(num) = 1 + ((num - 1) % 9)
                  /\ \A b \in 0 .. 3 : {raisingNumberToPower(b, num), raisingNumberToPower2(b, num),
                                        raisingNumberToPowerIterative(b, num)} = {b ^ num}

AlgorithmsRight == SortsRight /\ KnapsackRight /\ ArraysRight /\ SeriesRight
=============================================================================
