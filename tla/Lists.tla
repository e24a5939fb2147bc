------------------------------- MODULE Lists --------------------------------
(***************************************************************************)
(* Doubly linked lists of the kernel (lib/kernel/list.c): the two header   *)
(* elements, the pointers of every element, and the operations as the      *)
(* pointer assignments they make.  There are two lists, the second one for *)
(* list_splice and for the duplicates of list_unique.                      *)
(***************************************************************************)
EXTENDS Integers, SequencesExt

CONSTANT ListKey      \* the value that less compares, for each element 1 .. n
ASSUME ListKey \in Seq(Int)

VARIABLES mem,        \* the pointers, and whether every ASSERT so far held
          contents    \* history: what the lists are to hold

NULL == 0
Elem == DOMAIN ListKey
Names == {1, 2}
list_head(l) == -2 * l
list_tail(l) == -2 * l - 1
Node == Elem \cup {list_head(l) : l \in Names} \cup {list_tail(l) : l \in Names}
less(a, b) == ListKey[a] < ListKey[b]

is_head(m, e)     == e # NULL /\ m.prev[e] = NULL /\ m.next[e] # NULL
is_interior(m, e) == e # NULL /\ m.prev[e] # NULL /\ m.next[e] # NULL
is_tail(m, e)     == e # NULL /\ m.prev[e] # NULL /\ m.next[e] = NULL

list_begin(m, l)  == m.next[list_head(l)]
list_end(l)       == list_tail(l)
list_rbegin(m, l) == m.prev[list_tail(l)]
list_rend(l)      == list_head(l)
list_empty(m, l)  == list_begin(m, l) = list_end(l)

list_init(m, l) ==
    [m EXCEPT !.prev[list_head(l)] = NULL, !.next[list_head(l)] = list_tail(l),
              !.prev[list_tail(l)] = list_head(l), !.next[list_tail(l)] = NULL]

ASSERT(m, p) == [m EXCEPT !.ok = @ /\ p]

\* list_next and list_prev, for their callers' assertions.
list_next(m, e) == IF is_head(m, e) \/ is_interior(m, e) THEN m.next[e] ELSE NULL
list_prev(m, e) == IF is_interior(m, e) \/ is_tail(m, e) THEN m.prev[e] ELSE NULL

list_insert(m, before, e) ==
    [ASSERT(m, is_interior(m, before) \/ is_tail(m, before)) EXCEPT
       !.prev[e] = m.prev[before], !.next[e] = before,
       !.next[m.prev[before]] = e, !.prev[before] = e]

\* Mutant: the element after the range keeps its pointer into it.
Mutant_list_splice(m, before, first, end) ==
    LET last == list_prev(m, end)
        cut  == [m EXCEPT !.next[m.prev[first]] = m.next[last]]
    IN  IF first = end THEN m
        ELSE [cut EXCEPT !.prev[first] = cut.prev[before], !.next[last] = before,
                         !.next[cut.prev[before]] = first, !.prev[before] = last]

list_splice(m, before, first, end) ==
    LET last == list_prev(m, end)
        cut  == [ASSERT(m, is_interior(m, first) /\ is_interior(m, last)) EXCEPT
                   !.next[m.prev[first]] = m.next[last],
                   !.prev[m.next[last]] = m.prev[first]]
    IN  IF first = end THEN m
        ELSE [cut EXCEPT !.prev[first] = cut.prev[before], !.next[last] = before,
                         !.next[cut.prev[before]] = first, !.prev[before] = last]

list_push_front(m, l, e) == list_insert(m, list_begin(m, l), e)
list_push_back(m, l, e)  == list_insert(m, list_end(l), e)

list_remove(m, e) ==
    [ASSERT(m, is_interior(m, e)) EXCEPT
       !.next[m.prev[e]] = m.next[e], !.prev[m.next[e]] = m.prev[e]]

list_front(m, l) == list_begin(m, l)
list_back(m, l)  == list_rbegin(m, l)
list_pop_front(m, l) == list_remove(ASSERT(m, ~list_empty(m, l)), list_front(m, l))
list_pop_back(m, l)  == list_remove(ASSERT(m, ~list_empty(m, l)), list_back(m, l))

\* The elements from e up to end, by next.
RECURSIVE Walk(_, _, _)
Walk(m, e, end) == IF e \in {end, NULL} THEN <<>> ELSE <<e>> \o Walk(m, list_next(m, e), end)
\* ... and back, by prev.
RECURSIVE WalkBack(_, _, _)
WalkBack(m, e, end) == IF e \in {end, NULL} THEN <<>> ELSE <<e>> \o WalkBack(m, list_prev(m, e), end)

list_size(m, l) == Len(Walk(m, list_begin(m, l), list_end(l)))

swap(m, e) == [m EXCEPT !.prev[e] = m.next[e], !.next[e] = m.prev[e]]
RECURSIVE SwapAll(_, _, _)
SwapAll(m, e, end) == IF e = end THEN m ELSE SwapAll(swap(m, e), swap(m, e).prev[e], end)

list_reverse(m, l) ==
    LET h     == list_head(l)
        t     == list_tail(l)
        all   == SwapAll(m, list_begin(m, l), list_end(l))
        ends  == [all EXCEPT !.next[h] = all.prev[t], !.prev[t] = all.next[h]]
        first == ends.next[h]
        last  == ends.prev[t]
    IN  IF list_empty(m, l) THEN m
        ELSE [ends EXCEPT !.prev[first] = ends.next[last], !.next[last] = ends.prev[first]]

is_sorted(m, a, b) ==
    LET s == Walk(m, a, b) IN \A i \in 2 .. Len(s) : ~less(s[i], s[i - 1])

RECURSIVE find_end_of_run(_, _, _)
find_end_of_run(m, a, b) ==
    LET n == list_next(m, a) IN
    IF n # b /\ ~less(n, a) THEN find_end_of_run(m, n, b) ELSE n

RECURSIVE MergeLoop(_, _, _, _)
MergeLoop(m, a0, a1b0, b1) ==
    IF a0 = a1b0 \/ a1b0 = b1 THEN m
    ELSE IF ~less(a1b0, a0) THEN MergeLoop(m, list_next(m, a0), a1b0, b1)
    ELSE LET n == list_next(m, a1b0) IN
         MergeLoop(list_splice(m, a0, list_prev(m, n), n), a0, n, b1)
inplace_merge(m, a0, a1b0, b1) ==
    MergeLoop(ASSERT(m, is_sorted(m, a0, a1b0) /\ is_sorted(m, a1b0, b1)), a0, a1b0, b1)

\* One pass: the pointers after it and the number of runs it output.
RECURSIVE SortPass(_, _, _, _)
SortPass(m, a0, end, cnt) ==
    IF a0 = end THEN <<m, cnt>>
    ELSE LET a1b0 == find_end_of_run(m, a0, end) IN
         IF a1b0 = end THEN <<m, cnt + 1>>
         ELSE LET b1 == find_end_of_run(m, a1b0, end) IN
              SortPass(inplace_merge(m, a0, a1b0, b1), b1, end, cnt + 1)
RECURSIVE list_sort(_, _)
list_sort(m, l) ==
    LET pass == SortPass(m, list_begin(m, l), list_end(l), 0) IN
    IF pass[2] > 1 THEN list_sort(pass[1], l)
    ELSE ASSERT(pass[1], is_sorted(pass[1], list_begin(pass[1], l), list_end(l)))

list_insert_ordered(m, l, e) ==
    LET above == SelectSeq(Walk(m, list_begin(m, l), list_end(l)), LAMBDA x : less(e, x))
    IN  list_insert(m, IF above = <<>> THEN list_end(l) ELSE above[1], e)

\* Duplicates go to list d, or nowhere when d is NULL.
RECURSIVE UniqueLoop(_, _, _, _)
UniqueLoop(m, l, d, e) ==
    LET n    == list_next(m, e)
        gone == list_remove(m, n)
    IN  IF n = list_end(l) THEN m
        ELSE IF ~less(e, n) /\ ~less(n, e)
             THEN UniqueLoop(IF d = NULL THEN gone ELSE list_push_back(gone, d, n), l, d, e)
             ELSE UniqueLoop(m, l, d, n)
list_unique(m, l, d) == IF list_empty(m, l) THEN m ELSE UniqueLoop(m, l, d, list_begin(m, l))

list_max(m, l) == FoldLeft(LAMBDA x, e : IF less(x, e) THEN e ELSE x, list_begin(m, l),
                           Walk(m, list_begin(m, l), list_end(l)))
list_min(m, l) == FoldLeft(LAMBDA x, e : IF less(e, x) THEN e ELSE x, list_begin(m, l),
                           Walk(m, list_begin(m, l), list_end(l)))

----------------------------------------------------------------------------
ListsInit ==
    /\ mem = list_init(list_init([next |-> [n \in Node |-> NULL], prev |-> [n \in Node |-> NULL],
                                  ok |-> TRUE], 1), 2)
    /\ contents = <<<<>>, <<>>>>

Used == Range(contents[1]) \cup Range(contents[2])

\* An element that is taken off a list is freed: its pointers mean nothing.
Become(m, c) ==
    /\ contents' = c
    /\ LET free == Elem \ (Range(c[1]) \cup Range(c[2])) IN
       mem' = [m EXCEPT !.next = [n \in Node |-> IF n \in free THEN NULL ELSE m.next[n]],
                        !.prev = [n \in Node |-> IF n \in free THEN NULL ELSE m.prev[n]]]
\* List 1 becomes s.
Now(m, s) == Become(m, [contents EXCEPT ![1] = s])

PushFront(e) == e \notin Used /\ Now(list_push_front(mem, 1, e), <<e>> \o contents[1])
PushBack(e)  == e \notin Used /\ Now(list_push_back(mem, 1, e), Append(contents[1], e))
InsertOrdered(e) ==
    /\ e \notin Used /\ is_sorted(mem, list_begin(mem, 1), list_end(1))
    /\ LET below == SelectSeq(contents[1], LAMBDA x : ~less(e, x)) IN
       Now(list_insert_ordered(mem, 1, e), InsertAt(contents[1], Len(below) + 1, e))
InsertBefore(i, e) ==
    e \notin Used /\ Now(list_insert(mem, contents[1][i], e), InsertAt(contents[1], i, e))
RemoveElem(i) == Now(list_remove(mem, contents[1][i]), RemoveAt(contents[1], i))
PopFront == contents[1] # <<>> /\ Now(list_pop_front(mem, 1), Tail(contents[1]))
PopBack  == contents[1] # <<>> /\ Now(list_pop_back(mem, 1), Front(contents[1]))
ReverseList == Now(list_reverse(mem, 1), Reverse(contents[1]))

\* Stable: equal elements keep their order.
Sorted(s) == LET pos == SetToSortSeq(DOMAIN s, LAMBDA i, j : less(s[i], s[j]) \/ (~less(s[j], s[i]) /\ i < j))
             IN  [k \in DOMAIN s |-> s[pos[k]]]
SortList == Now(list_sort(mem, 1), Sorted(contents[1]))

Repeated(s) == {i \in 2 .. Len(s) : ListKey[s[i]] = ListKey[s[i - 1]]}
Select(s, I) == LET pos == SetToSortSeq(I, <) IN [k \in 1 .. Len(pos) |-> s[pos[k]]]
Unique(d) ==
    LET s == contents[1]
        r == Repeated(s)
    IN  Become(list_unique(mem, 1, d),
               <<Select(s, DOMAIN s \ r),
                 IF d = NULL THEN contents[2] ELSE contents[2] \o Select(s, r)>>)

\* Elements i .. j - 1 of list 1 go to the end of list 2.
Splice(i, j) ==
    LET s == contents[1] IN
    Become(list_splice(mem, list_end(2), s[i], IF j > Len(s) THEN list_end(1) ELSE s[j]),
           <<SubSeq(s, 1, i - 1) \o SubSeq(s, j, Len(s)), contents[2] \o SubSeq(s, i, j - 1)>>)
ClearSecond == contents[2] # <<>> /\ Become(list_init(mem, 2), <<contents[1], <<>>>>)

ListsNext ==
    \/ \E e \in Elem : \/ PushFront(e) \/ PushBack(e) \/ InsertOrdered(e)
                       \/ \E i \in DOMAIN contents[1] : InsertBefore(i, e)
    \/ \E i \in DOMAIN contents[1] : RemoveElem(i) \/ \E j \in i .. Len(contents[1]) + 1 : Splice(i, j)
    \/ PopFront \/ PopBack \/ ReverseList \/ SortList \/ ClearSecond
    \/ \E d \in {NULL, 2} : Unique(d)

----------------------------------------------------------------------------
\* After any operations the two lists, walked forwards by next and backwards by
\* prev, hold exactly what they should, in order (list_sort is stable, and
\* list_unique keeps the first of equal neighbours); sizes and extremes are
\* right; and no ASSERT of the operations failed on the way.
ListsSound ==
    /\ mem.ok
    /\ \A l \in Names :
         LET s == contents[l] IN
         /\ Walk(mem, list_begin(mem, l), list_end(l)) = s
         /\ WalkBack(mem, list_rbegin(mem, l), list_rend(l)) = Reverse(s)
         /\ is_head(mem, list_head(l)) /\ is_tail(mem, list_tail(l))
         /\ list_size(mem, l) = Len(s)
         /\ IF s = <<>> THEN list_max(mem, l) = list_tail(l) /\ list_min(mem, l) = list_tail(l)
            ELSE \E i, j \in DOMAIN s :
                   /\ list_max(mem, l) = s[i] /\ list_min(mem, l) = s[j]
                   /\ list_front(mem, l) = s[1] /\ list_back(mem, l) = s[Len(s)]
                   /\ \A k \in DOMAIN s : ~less(s[i], s[k]) /\ ~less(s[k], s[j])
                   /\ \A k \in 1 .. i - 1 : less(s[k], s[i])
                   /\ \A k \in 1 .. j - 1 : less(s[j], s[k])
=============================================================================
