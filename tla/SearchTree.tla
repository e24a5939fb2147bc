----------------------------- MODULE SearchTree -----------------------------
(***************************************************************************)
(* The binary search tree of the exercises (src/fun/logicpro/ds/BST.java). *)
(* Values are unique, so a node goes by its value.                         *)
(***************************************************************************)
EXTENDS Containers

NoTree == [root |-> null, left |-> [i \in Item |-> null], right |-> [i \in Item |-> null]]

RECURSIVE InsertBelow(_, _, _)
InsertBelow(t, current, v) ==
    IF current < v
    THEN IF t.right[current] = null THEN <<[t EXCEPT !.right[current] = v], 1>> ELSE InsertBelow(t, t.right[current], v)
    ELSE IF current > v
    THEN IF t.left[current] = null THEN <<[t EXCEPT !.left[current] = v], 1>> ELSE InsertBelow(t, t.left[current], v)
    ELSE <<t, 0>>
insert(t, v) == IF t.root = null THEN <<[t EXCEPT !.root = v], 1>> ELSE InsertBelow(t, t.root, v)

\* The tree after, and the root of the subtree.
RECURSIVE insertRecursive(_, _, _)
insertRecursive(t, current, v) ==
    LET l == insertRecursive(t, t.left[current], v)
        r == insertRecursive(t, t.right[current], v)
    IN  IF current = null THEN <<t, v>>
        ELSE IF current > v THEN <<[l[1] EXCEPT !.left[current] = l[2]], current>>
        ELSE IF current < v THEN <<[r[1] EXCEPT !.right[current] = r[2]], current>>
        ELSE <<t, current>>

RECURSIVE searchRecursive(_, _, _)
searchRecursive(t, current, k) ==
    current # null /\ (IF current > k THEN searchRecursive(t, t.left[current], k)
                       ELSE IF current < k THEN searchRecursive(t, t.right[current], k) ELSE TRUE)
\* The loop passes the same nodes.
search(t, k) == searchRecursive(t, t.root, k)

RECURSIVE Leftmost(_, _, _)
Leftmost(t, parent, current) ==
    IF t.left[current] = null THEN <<parent, current>> ELSE Leftmost(t, current, t.left[current])
\* The tree after, and what takes the place of n.
findSuccessor(t, n) ==
    LET end == Leftmost(t, n, t.right[n])
        cut == [t.left EXCEPT ![end[1]] = t.right[end[2]]]
    IN  IF t.left[n] # null /\ t.right[n] # null
        THEN <<[t EXCEPT !.left = [cut EXCEPT ![end[2]] = cut[n]], !.right[end[2]] = t.right[n]], end[2]>>
        ELSE <<t, IF t.left[n] # null THEN t.left[n] ELSE t.right[n]>>

RECURSIVE ParentOf(_, _, _, _)
ParentOf(t, parent, current, k) ==
    IF current > k THEN ParentOf(t, current, t.left[current], k)
    ELSE IF current < k THEN ParentOf(t, current, t.right[current], k) ELSE parent
\* The node that is taken out is forgotten.
delete(t, k) ==
    LET s == findSuccessor(t, k)
        p == ParentOf(t, null, t.root, k)
        u == IF t.root = k THEN [s[1] EXCEPT !.root = s[2]]
             ELSE IF k < p THEN [s[1] EXCEPT !.left[p] = s[2]] ELSE [s[1] EXCEPT !.right[p] = s[2]]
    IN  IF ~search(t, k) THEN <<t, Exception>> ELSE <<[u EXCEPT !.left[k] = null, !.right[k] = null], k>>

InTreeOrder(S) == SetToSortSeq(S, <)
\* delete expects a tree that is not empty.  A node with two children whose
\* right child has no left child becomes its own right child.
BST ==
    /\ kind = "BST"
    /\ \E v \in Item :
         LET has == v \in Range(ideal)
             add == InTreeOrder(Range(ideal) \cup {v})
         IN
         \/ Call(insert(obj, v)[1], insert(obj, v)[2], <<add, IF has THEN 0 ELSE 1>>, FALSE)
         \/ LET r == insertRecursive(obj, obj.root, v) IN Call([r[1] EXCEPT !.root = r[2]], null, <<add, null>>, FALSE)
         \/ Call(obj, IF search(obj, v) THEN 1 ELSE 0, <<ideal, IF has THEN 1 ELSE 0>>, FALSE)
         \/ LET d == delete(obj, v) IN
            IF obj.root = null THEN Call(obj, Crash, <<ideal, Exception>>, TRUE)
            ELSE Call(d[1], d[2], IF has THEN <<InTreeOrder(Range(ideal) \ {v}), v>> ELSE <<ideal, Exception>>,
                      /\ has /\ obj.left[v] # null /\ obj.right[v] # null /\ obj.left[obj.right[v]] = null)

----------------------------------------------------------------------------
(* Functions of the tree below a node. *)

RECURSIVE inOrder(_, _)
inOrder(t, n) == IF n = null THEN <<>> ELSE inOrder(t, t.left[n]) \o <<n>> \o inOrder(t, t.right[n])
RECURSIVE preOrder(_, _)
preOrder(t, n) == IF n = null THEN <<>> ELSE <<n>> \o preOrder(t, t.left[n]) \o preOrder(t, t.right[n])
RECURSIVE postOrder(_, _)
postOrder(t, n) == IF n = null THEN <<>> ELSE postOrder(t, t.left[n]) \o postOrder(t, t.right[n]) \o <<n>>

Children(t, n) == SelectSeq(<<t.left[n], t.right[n]>>, LAMBDA c : c # null)
RECURSIVE Drain(_, _)
Drain(t, queue) == IF queue = <<>> THEN <<>> ELSE <<Head(queue)>> \o Drain(t, Tail(queue) \o Children(t, Head(queue)))
levelOrder(t, n) == IF n = null THEN <<>> ELSE Drain(t, <<n>>)

RECURSIVE LevelsFrom(_, _)
LevelsFrom(t, level) ==
    LET below == FoldLeft(LAMBDA r, n : r \o Children(t, n), <<>>, level)
    IN  <<level>> \o IF below = <<>> THEN <<>> ELSE LevelsFrom(t, below)
getLevelWiseNodesList(t, n) == LevelsFrom(t, <<n>>)

RECURSIVE totalNumberOfNodes(_, _)
totalNumberOfNodes(t, n) ==
    IF n = null THEN 0 ELSE 1 + totalNumberOfNodes(t, t.left[n]) + totalNumberOfNodes(t, t.right[n])

\* The array after, and the next index.
RECURSIVE inOrderBSTPopulateToArray(_, _, _, _)
inOrderBSTPopulateToArray(t, n, array, index) ==
    LET l == inOrderBSTPopulateToArray(t, t.left[n], array, index) IN
    IF n = null THEN <<array, index>>
    ELSE inOrderBSTPopulateToArray(t, t.right[n], [l[1] EXCEPT ![l[2]] = n], l[2] + 1)

RECURSIVE isBinaryBST(_, _, _, _)
isBinaryBST(t, n, max, min) ==
    n = null \/ (/\ n <= max /\ n >= min
                 /\ isBinaryBST(t, t.left[n], n, min) /\ isBinaryBST(t, t.right[n], max, n))

Join(m, l, r) ==
    [root |-> m,
     left  |-> [i \in Item |-> IF i = m THEN l.root ELSE Max({l.left[i], r.left[i]})],
     right |-> [i \in Item |-> IF i = m THEN r.root ELSE Max({l.right[i], r.right[i]})]]
RECURSIVE createBSTFromSortedArray(_, _, _)
createBSTFromSortedArray(a, start, end) ==
    LET mid == (start + end) \div 2 IN
    IF start = end THEN Join(a[start], NoTree, NoTree)
    ELSE Join(a[mid], IF mid > start THEN createBSTFromSortedArray(a, start, mid - 1) ELSE NoTree,
                      IF mid < end THEN createBSTFromSortedArray(a, mid + 1, end) ELSE NoTree)

RECURSIVE isBSTEqual(_, _, _, _)
isBSTEqual(t, n, u, m) ==
    IF n = null \/ m = null THEN n = m
    ELSE n = m /\ isBSTEqual(t, t.left[n], u, u.left[m]) /\ isBSTEqual(t, t.right[n], u, u.right[m])

RECURSIVE avgDepth(_, _)
avgDepth(t, n) == IF n = null THEN 0 ELSE 1 + (avgDepth(t, t.left[n]) + avgDepth(t, t.right[n])) \div 2
RECURSIVE minDepthRecursive(_, _)
minDepthRecursive(t, n) ==
    IF n = null THEN 0 ELSE 1 + Min({minDepthRecursive(t, t.left[n]), minDepthRecursive(t, t.right[n])})
RECURSIVE maxDepthRecursive(_, _)
maxDepthRecursive(t, n) ==
    IF n = null THEN 0 ELSE 1 + Max({maxDepthRecursive(t, t.left[n]), maxDepthRecursive(t, t.right[n])})

RECURSIVE LastTurnLeft(_, _, _, _)
LastTurnLeft(t, at, n, successor) ==
    IF at = n THEN successor
    ELSE IF n < at THEN LastTurnLeft(t, t.left[at], n, at) ELSE LastTurnLeft(t, t.right[at], n, successor)
\* null stands for the null pointer that the largest node runs into.
getNextInOrderSuccessor(t, n) ==
    IF t.right[n] # null THEN Leftmost(t, n, t.right[n])[2] ELSE LastTurnLeft(t, t.root, n, null)

\* The nodes are marked and stay marked: a second call finds them visited.
RECURSIVE DepthBySteps(_, _, _, _)
DepthBySteps(t, stack, visited, deepest) ==
    LET n    == Head(stack)
        most == Max({deepest, Len(stack)})
        seen == visited \cup {n}
        todo == SelectSeq(Children(t, n), LAMBDA c : c \notin seen)
    IN  IF stack = <<>> THEN <<deepest, visited>>
        ELSE IF todo # <<>> THEN DepthBySteps(t, <<Head(todo)>> \o stack, seen, most)
        ELSE DepthBySteps(t, Tail(stack), seen, most)
maxDepth(t, n, visited) == IF n = null THEN <<0, visited>> ELSE DepthBySteps(t, <<n>>, visited, 0)

----------------------------------------------------------------------------
Kinds == {"StackUsingFixedSizedArray", "StackUsingArrayList", "QueueUsingDoubleStack", "LinearQueueUsingArray",
          "CircularQueueUsingArrayWithCount", "BST"} \cup Stacks \cup ArrayQueues \cup Heaps \cup LinkedKinds

ContainersInit ==
    /\ kind \in Kinds /\ obj = IF kind = "BST" THEN NoTree ELSE New(kind)
    /\ ideal = <<>> /\ answer = <<null, null>> /\ spoiled = FALSE

ContainersNext ==
    \/ StackUsingFixedSizedArray \/ StackUsingArrayList \/ StackUsingLinkedList
    \/ QueueUsingDoubleStack \/ QueueUsingSingleStack \/ LinearQueueUsingArray \/ LinearQueueUsingLinkedList
    \/ CircularQueueUsingArrayWithCount \/ CircularQueue \/ CircularQueueUsingArrayWithExtraSpace
    \/ CicularQueueUsingSingleLinkedList \/ DequeWithSingleLinkedList \/ DequeWithDoubleLinkedList
    \/ SingleLinkedList2 \/ MaxBinaryHeapUsingArray \/ MinBinaryHeapUsingArray \/ BST

----------------------------------------------------------------------------
\* Every function of the tree agrees with the set of values in it.
TreeRight ==
    LET t == obj
        n == Len(ideal)
        levels == getLevelWiseNodesList(t, t.root)
        made == createBSTFromSortedArray(ideal, 1, n)
    IN  /\ inOrder(t, t.root) = ideal /\ totalNumberOfNodes(t, t.root) = n
        /\ isBinaryBST(t, t.root, Max(Item), Min(Item))
        /\ maxDepth(t, t.root, {})[1] = maxDepthRecursive(t, t.root)
        /\ t.root # null =>
             /\ isBSTEqual(t, t.root, insertRecursive(t, t.root, t.root)[1], t.root)
             /\ Reverse(postOrder(t, t.root))[1] = preOrder(t, t.root)[1]
             /\ Range(preOrder(t, t.root)) = Range(ideal) /\ Range(postOrder(t, t.root)) = Range(ideal)
             /\ levelOrder(t, t.root) = FoldLeft(\o, <<>>, levels)
             /\ Len(levels) = maxDepthRecursive(t, t.root)
             /\ inOrderBSTPopulateToArray(t, t.root, [i \in 1 .. n |-> 0], 1) = <<ideal, n + 1>>
             /\ minDepthRecursive(t, t.root) <= avgDepth(t, t.root)
             /\ avgDepth(t, t.root) <= maxDepthRecursive(t, t.root)
             /\ \A i \in 1 .. n : getNextInOrderSuccessor(t, ideal[i]) = IF i = n THEN null ELSE ideal[i + 1]
             /\ inOrder(made, made.root) = ideal
             /\ maxDepthRecursive(made, made.root) <= minDepthRecursive(made, made.root) + 1

\* The last call lost an item, kept one that was taken, or answered something
\* else than what was due; a node of the tree that is its own child.
Departs ==
    \/ answer[1] # answer[2]
    \/ IF kind = "BST" THEN \E i \in Item : obj.right[i] = i ELSE Kept # ideal

\* The classes that no legal sequence of calls takes out of their contract.
Faithful == {"StackUsingFixedSizedArray", "StackUsingLinkedList", "QueueUsingDoubleStack", "QueueUsingSingleStack",
             "CircularQueue", "CicularQueueUsingSingleLinkedList"}

(***************************************************************************)
(* Every container keeps the items and gives the answers of the abstract   *)
(* stack, queue, deque, list, heap or set, counts its items right, and the *)
(* tree's traversals, depths and successors agree with the sorted values:  *)
(* the classes of Faithful after any calls, the others up to exactly the   *)
(* calls that their actions mark as departing (src/fun/logicpro/ds).       *)
(***************************************************************************)
ContainersRight ==
    /\ spoiled <=> Departs
    /\ kind \in Faithful => ~spoiled
    /\ ~spoiled => IF kind = "BST" THEN TreeRight ELSE Size = Len(ideal)
=============================================================================
