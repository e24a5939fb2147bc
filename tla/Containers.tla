----------------------------- MODULE Containers -----------------------------
(***************************************************************************)
(* The containers of the exercises (src/fun/logicpro/ds): stacks, queues,  *)
(* deques, a linked list and heaps, each driven by any sequence of calls   *)
(* beside the abstract container it stands for.  One action per class; its *)
(* disjuncts are the methods.                                              *)
(*                                                                         *)
(* Several classes leave their contract at some call (a pointer that is    *)
(* not set, a counter that is not reset): an item is lost, or the answer   *)
(* is not the one that is due.  The action marks the call that does so:    *)
(* `spoiled' ends the history, and the property is that a call is marked   *)
(* exactly if the class departs there.                                     *)
(***************************************************************************)
EXTENDS Integers, SequencesExt, FiniteSetsExt

CONSTANTS Item,        \* what is stored where order matters
          Payload,     \* and where it does not
          MaxItems     \* BOUND: room of a container

ASSUME ContainersAssumption == IsFiniteSet(Item) /\ Item \cup Payload \subseteq Nat \ {0} /\ MaxItems \in Nat \ {0}

VARIABLES kind,        \* the class
          obj,         \* the fields of the object
          ideal,       \* history: what it is to contain, first first
          answer,      \* the last result and the one that was due
          spoiled      \* history: the class has left its contract

ctVars == <<kind, obj, ideal, answer, spoiled>>

null      == 0
Exception == -1
Crash     == -2        \* an exception the class does not throw itself

\* What a call is to leave and to return.
AddFirst(v) == IF Len(ideal) = MaxItems THEN <<ideal, Exception>> ELSE <<<<v>> \o ideal, v>>
AddLast(v)  == IF Len(ideal) = MaxItems THEN <<ideal, Exception>> ELSE <<Append(ideal, v), v>>
TakeFirst   == IF ideal = <<>> THEN <<ideal, Exception>> ELSE <<Tail(ideal), Head(ideal)>>
TakeLast    == IF ideal = <<>> THEN <<ideal, Exception>> ELSE <<Front(ideal), Last(ideal)>>
PeekFirst   == <<ideal, TakeFirst[2]>>
PeekLast    == <<ideal, TakeLast[2]>>

\* A call: the fields after, the result, what was due, and whether the class
\* departs from it here.
Call(o, result, due, bad) ==
    /\ ~spoiled
    /\ obj' = o /\ answer' = <<result, due[2]>> /\ ideal' = due[1] /\ spoiled' = bad
    /\ UNCHANGED kind
Refuse(due) == Call(obj, Exception, due, FALSE)
Room == Len(ideal) < MaxItems

----------------------------------------------------------------------------
(* Stacks; the first item is the top. *)

StackUsingFixedSizedArray ==
    /\ kind = "StackUsingFixedSizedArray"
    /\ LET top == obj.topOfStack IN
       \/ \E v \in Payload :                                             \* push
            IF top = MaxItems - 1 THEN Refuse(AddFirst(v))
            ELSE Call([obj EXCEPT !.topOfStack = top + 1, !.stack[top + 1] = v], v, AddFirst(v), FALSE)
       \/ IF top = -1 THEN Refuse(TakeFirst)                        \* pop
          ELSE Call([obj EXCEPT !.topOfStack = top - 1, !.stack[top] = null], obj.stack[top], TakeFirst, FALSE)
       \/ Call(obj, IF top = -1 THEN Exception ELSE obj.stack[top], PeekFirst, FALSE)

\* pop leaves a null behind and push adds at the end of the list: after a pop
\* the two no longer agree on the top.
StackUsingArrayList ==
    /\ kind = "StackUsingArrayList" /\ Len(obj.stack) < MaxItems + 2
    /\ LET top == obj.topOfStack IN
       \/ \E v \in Payload :
            LET s == Append(obj.stack, v) IN                          \* push
            Room /\ Call([topOfStack |-> top + 1, stack |-> s], s[top + 2], AddFirst(v), Len(s) # top + 2)
       \/ IF top = -1 THEN Refuse(TakeFirst)                        \* pop
          ELSE Call([topOfStack |-> top - 1, stack |-> [obj.stack EXCEPT ![top + 1] = null]],
                    obj.stack[top + 1], TakeFirst, FALSE)
       \/ Call(obj, IF top = -1 THEN Exception ELSE obj.stack[top + 1], PeekFirst, FALSE)

\* The chain of nodes from first on, as a sequence: nothing else points into it.
StackPush(s, v) == <<v>> \o s
StackPop(s)     == IF s = <<>> THEN <<s, Exception>> ELSE <<Tail(s), Head(s)>>
StackUsingLinkedList ==
    /\ kind = "StackUsingLinkedList"
    /\ \/ \E v \in Payload : Room /\ Call(StackPush(obj, v), v, AddFirst(v), FALSE)
       \/ Call(StackPop(obj)[1], StackPop(obj)[2], TakeFirst, FALSE)
       \/ Call(obj, StackPop(obj)[2], PeekFirst, FALSE)

----------------------------------------------------------------------------
(* Queues. *)

\* The stack popped empty onto the other.
QueueUsingDoubleStack ==
    /\ kind = "QueueUsingDoubleStack"
    /\ \/ \E v \in Payload : Room /\ Call([obj EXCEPT !.inbox = StackPush(@, v)], v, AddLast(v), FALSE)
       \/ LET outbox == IF obj.outbox = <<>> THEN FoldLeft(StackPush, <<>>, obj.inbox) ELSE obj.outbox
              inbox  == IF obj.outbox = <<>> THEN <<>> ELSE obj.inbox
          IN  Call([inbox |-> inbox, outbox |-> StackPop(outbox)[1]], StackPop(outbox)[2], TakeFirst, FALSE)

RECURSIVE EnqueueUnder(_, _)
EnqueueUnder(s, v) ==
    IF s = <<>> THEN StackPush(s, v) ELSE StackPush(EnqueueUnder(StackPop(s)[1], v), StackPop(s)[2])
QueueUsingSingleStack ==
    /\ kind = "QueueUsingSingleStack"
    /\ \/ \E v \in Payload : Room /\ Call(EnqueueUnder(obj, v), v, AddLast(v), FALSE)
       \/ Call(StackPop(obj)[1], StackPop(obj)[2], TakeFirst, FALSE)

\* Once rear is at the end an item fits only after the queue has been emptied;
\* an enqueue before that fails with rear already moved past the end.
LinearQueueUsingArray ==
    /\ kind = "LinearQueueUsingArray"
    /\ \/ \E v \in Payload :
            LET reset == obj.n = 0 /\ obj.rear = MaxItems - 1 /\ obj.front = MaxItems
                rear  == IF reset THEN 0 ELSE obj.rear + 1
            IN  IF obj.n = MaxItems THEN Refuse(AddLast(v))
                ELSE IF rear = MaxItems THEN Call([obj EXCEPT !.rear = rear], Crash, AddLast(v), TRUE)
                ELSE Call([obj EXCEPT !.array[rear] = v, !.rear = rear, !.n = @ + 1,
                                      !.front = IF reset THEN 0 ELSE @], v, AddLast(v), FALSE)
       \/ IF obj.n = 0 THEN Refuse(TakeFirst)
          ELSE Call([obj EXCEPT !.array[obj.front] = null, !.front = @ + 1, !.n = @ - 1],
                    obj.array[obj.front], TakeFirst, FALSE)
       \/ Call(obj, IF obj.n = 0 THEN Exception ELSE obj.array[obj.front], PeekFirst, FALSE)
       \/ Call(obj, IF obj.n = 0 THEN Exception ELSE obj.array[obj.rear], PeekLast, FALSE)

Wrap(i, n) == IF i + 1 = n THEN 0 ELSE i + 1

\* initialize() resets the pointers and not the count.
CircularQueueUsingArrayWithCount ==
    /\ kind = "CircularQueueUsingArrayWithCount"
    /\ \/ \E v \in Payload :
            LET rear == Wrap(obj.rear, MaxItems) IN
            IF obj.n = MaxItems THEN Refuse(AddLast(v))
            ELSE Call([obj EXCEPT !.array[rear] = v, !.rear = rear, !.n = @ + 1], v, AddLast(v), FALSE)
       \/ IF obj.n = 0 THEN Refuse(TakeFirst)
          ELSE Call([obj EXCEPT !.array[obj.front] = null, !.front = Wrap(@, MaxItems), !.n = @ - 1],
                    obj.array[obj.front], TakeFirst, FALSE)
       \/ Call(obj, IF obj.n = 0 THEN Exception ELSE obj.array[obj.front], PeekFirst, FALSE)
       \/ Call(obj, IF obj.n = 0 THEN Exception ELSE obj.array[obj.rear], PeekLast, FALSE)
       \/ Call([obj EXCEPT !.front = 0, !.rear = MaxItems - 1], null, <<<<>>, null>>, ideal # <<>>)

\* A queue of size s holds s - 1 items.
CircularQueue ==
    /\ kind = "CircularQueue"
    /\ LET size == MaxItems + 1 IN
       \/ \E v \in Payload :
            LET tail == (obj.rear + 1) % size IN
            IF tail = obj.front THEN Refuse(AddLast(v))
            ELSE Call([obj EXCEPT !.array[obj.rear] = v, !.rear = tail], v, AddLast(v), FALSE)
       \/ IF obj.front = obj.rear THEN Refuse(TakeFirst)
          ELSE Call([obj EXCEPT !.front = (@ + 1) % size], obj.array[obj.front], TakeFirst, FALSE)
       \/ Call([obj EXCEPT !.front = 0, !.rear = 0], null, <<<<>>, null>>, FALSE)

\* A full queue drops its oldest item instead of refusing the new one.  rearPeek
\* reads the place of the next item, not the last one.
CircularQueueUsingArrayWithExtraSpace ==
    /\ kind = "CircularQueueUsingArrayWithExtraSpace"
    /\ LET size == MaxItems + 1
           empty == obj.front = obj.rear
       IN
       \/ \E v \in Payload :
            LET rear == Wrap(obj.rear, size)
                full == rear = obj.front
            IN  Call([obj EXCEPT !.array[obj.rear] = v, !.rear = rear,
                                 !.front = IF full THEN Wrap(@, size) ELSE @], v, AddLast(v), full)
       \/ IF empty THEN Refuse(TakeFirst)
          ELSE Call([obj EXCEPT !.array[obj.front] = null, !.front = Wrap(@, size)],
                    obj.array[obj.front], TakeFirst, FALSE)
       \/ Call(obj, IF empty THEN Exception ELSE obj.array[obj.front], PeekFirst, FALSE)
       \/ Call(obj, IF empty THEN Exception ELSE obj.array[obj.rear], PeekLast,
               ~empty /\ obj.array[obj.rear] # obj.array[(obj.rear + MaxItems) % size])
       \/ Call([obj EXCEPT !.front = 0, !.rear = 0], null, <<<<>>, null>>, FALSE)

----------------------------------------------------------------------------
(* Linked containers: nodes with value, next and previous, and the fields  *)
(* front (leftEnd, first), rear (rightEnd) and n (nElements).  A node that *)
(* nothing points to is collected.                                         *)

Ids == 1 .. MaxItems + 1
RECURSIVE ReachableFrom(_, _)
ReachableFrom(o, S) ==
    LET T == (S \cup {o.next[i] : i \in S} \cup {o.previous[i] : i \in S}) \ {null}
    IN  IF T = S THEN S ELSE ReachableFrom(o, T)
Collect(o) ==
    LET used == ReachableFrom(o, {o.front, o.rear} \ {null})
        Keep(g) == [i \in Ids |-> IF i \in used THEN g[i] ELSE null]
    IN  [o EXCEPT !.value = Keep(@), !.next = Keep(@), !.previous = Keep(@)]
Linked(o, result, due, bad) == Call(Collect(o), result, due, bad)
NewNode(o, v) ==
    LET i == Min({k \in Ids : o.value[k] = null}) IN <<i, [o EXCEPT !.value[i] = v]>>

\* enqueue never sets front: nothing can be taken out, and the second item takes
\* the place of the first.
LinearQueueUsingLinkedList ==
    /\ kind = "LinearQueueUsingLinkedList"
    /\ \/ \E v \in Payload :
            LET new == NewNode(obj, v)
                i   == new[1]
                o   == IF obj.rear # null THEN [new[2] EXCEPT !.next[obj.rear] = i] ELSE new[2]
            IN  IF obj.n = MaxItems THEN Refuse(AddLast(v))
                ELSE Linked([o EXCEPT !.rear = i, !.n = @ + 1], v, AddLast(v), obj.n > 0)
       \/ IF obj.front = null \/ obj.n = 0 THEN Call(obj, Exception, TakeFirst, ideal # <<>>)
          ELSE Linked([obj EXCEPT !.front = obj.next[@], !.n = @ - 1], obj.value[obj.front], TakeFirst, FALSE)
       \/ Call(obj, IF obj.front = null THEN Exception ELSE obj.value[obj.front], PeekFirst, ideal # <<>>)
       \/ Call(obj, IF obj.rear = null THEN Exception ELSE obj.value[obj.rear], PeekLast, FALSE)

CicularQueueUsingSingleLinkedList ==
    /\ kind = "CicularQueueUsingSingleLinkedList"
    /\ LET empty == obj.n = 0 \/ (obj.rear = null /\ obj.front = null) IN
       \/ \E v \in Payload :
            LET new == NewNode(obj, v)
                i   == new[1]
                o   == IF empty THEN [new[2] EXCEPT !.next[i] = i, !.front = i]
                       ELSE [new[2] EXCEPT !.next[i] = obj.next[obj.rear], !.next[obj.rear] = i]
            IN  IF obj.n = MaxItems THEN Refuse(AddLast(v))
                ELSE Linked([o EXCEPT !.rear = i, !.n = @ + 1], v, AddLast(v), FALSE)
       \/ IF empty THEN Refuse(TakeFirst)
          ELSE LET second == obj.next[obj.front] IN
               Linked(IF obj.n = 1 THEN [obj EXCEPT !.front = null, !.rear = null, !.n = 0]
                      ELSE [obj EXCEPT !.front = second, !.next[obj.rear] = second, !.n = @ - 1],
                      obj.value[obj.front], TakeFirst, FALSE)
       \/ Call(obj, IF obj.front = null THEN Exception ELSE obj.value[obj.front], PeekFirst, FALSE)
       \/ Call(obj, IF obj.rear = null THEN Exception ELSE obj.value[obj.rear], PeekLast, FALSE)

\* removeRight of the only item leaves both ends on it.
RECURSIVE BeforeLast(_, _, _)
BeforeLast(o, previous, i) == IF o.next[i] = null THEN previous ELSE BeforeLast(o, i, o.next[i])
DequeWithSingleLinkedList ==
    /\ kind = "DequeWithSingleLinkedList"
    /\ \/ \E v \in Payload :                                             \* insertLeft
            LET new == NewNode(obj, v) IN
            IF obj.n = MaxItems THEN Refuse(AddFirst(v))
            ELSE Linked([new[2] EXCEPT !.next[new[1]] = obj.front, !.front = new[1], !.n = @ + 1,
                                       !.rear = IF obj.front = null THEN new[1] ELSE @], v, AddFirst(v), FALSE)
       \/ \E v \in Payload :                                             \* insertRight
            LET new == NewNode(obj, v)
                o   == IF obj.rear # null THEN [new[2] EXCEPT !.next[obj.rear] = new[1]]
                       ELSE [new[2] EXCEPT !.front = new[1]]
            IN  IF obj.n = MaxItems THEN Refuse(AddLast(v))
                ELSE Linked([o EXCEPT !.rear = new[1], !.n = @ + 1], v, AddLast(v), FALSE)
       \/ IF obj.n = 0 THEN Refuse(TakeFirst)                         \* removeLeft
          ELSE LET left == obj.next[obj.front] IN
               Linked([obj EXCEPT !.front = left, !.rear = IF left = null THEN null ELSE @, !.n = @ - 1],
                      obj.value[obj.front], TakeFirst, FALSE)
       \/ IF obj.n = 0 THEN Refuse(TakeLast)                          \* removeRight
          ELSE LET right == BeforeLast(obj, obj.front, obj.front) IN
               Linked([obj EXCEPT !.rear = right, !.next[right] = null, !.n = @ - 1],
                      obj.value[obj.rear], TakeLast, obj.n = 1)
       \/ Call(obj, IF obj.n = 0 THEN Exception ELSE obj.value[obj.front], PeekFirst, FALSE)
       \/ Call(obj, IF obj.n = 0 THEN Exception ELSE obj.value[obj.rear], PeekLast, FALSE)

\* The first insertion sets only one end, and a removal needs a second item:
\* the two ends know nothing of each other.
DequeWithDoubleLinkedList ==
    /\ kind = "DequeWithDoubleLinkedList"
    /\ \/ \E v \in Payload :                                             \* insertLeft
            LET new == NewNode(obj, v)
                o   == IF obj.front # null
                       THEN [new[2] EXCEPT !.next[new[1]] = obj.front, !.previous[obj.front] = new[1]] ELSE new[2]
            IN  IF obj.n = MaxItems THEN Refuse(AddFirst(v))
                ELSE Linked([o EXCEPT !.front = new[1], !.n = @ + 1], v, AddFirst(v), obj.front = null /\ obj.n > 0)
       \/ \E v \in Payload :                                             \* insertRight
            LET new == NewNode(obj, v)
                o   == IF obj.rear # null
                       THEN [new[2] EXCEPT !.next[obj.rear] = new[1], !.previous[new[1]] = obj.rear] ELSE new[2]
            IN  IF obj.n = MaxItems THEN Refuse(AddLast(v))
                ELSE Linked([o EXCEPT !.rear = new[1], !.n = @ + 1], v, AddLast(v), obj.rear = null /\ obj.n > 0)
       \/ LET left == obj.next[obj.front] IN                          \* removeLeft
          IF obj.n = 0 THEN Refuse(TakeFirst)
          ELSE IF obj.front = null THEN Call(obj, Crash, TakeFirst, TRUE)
          ELSE IF left = null THEN Linked([obj EXCEPT !.front = null], Crash, TakeFirst, TRUE)
          ELSE Linked([obj EXCEPT !.front = left, !.previous[left] = null, !.n = @ - 1],
                      obj.value[obj.front], TakeFirst, FALSE)
       \/ LET right == obj.previous[obj.rear] IN                      \* removeRight
          IF obj.n = 0 THEN Refuse(TakeLast)
          ELSE IF obj.rear = null THEN Call(obj, Crash, TakeLast, TRUE)
          ELSE IF right = null THEN Linked([obj EXCEPT !.rear = null], Crash, TakeLast, TRUE)
          ELSE Linked([obj EXCEPT !.rear = right, !.next[right] = null, !.n = @ - 1],
                      obj.value[obj.rear], TakeLast, FALSE)
       \/ Call(obj, IF obj.n = 0 THEN Exception ELSE IF obj.front = null THEN Crash ELSE obj.value[obj.front],
               PeekFirst, obj.n > 0 /\ obj.front = null)
       \/ Call(obj, IF obj.n = 0 THEN Exception ELSE IF obj.rear = null THEN Crash ELSE obj.value[obj.rear],
               PeekLast, obj.n > 0 /\ obj.rear = null)

----------------------------------------------------------------------------
(* SingleLinkedList2: the list of front; x is the value looked for. *)

RECURSIVE Chain(_, _)
Chain(o, i) == IF i = null THEN <<>> ELSE <<i>> \o Chain(o, o.next[i])
Nodes == Chain(obj, obj.front)
\* The place of the first node with value x, 0 if there is none.
PlaceOf(x) == Min({k \in DOMAIN Nodes : obj.value[Nodes[k]] = x} \cup {MaxItems + 1}) % (MaxItems + 1)
PlaceDue(x) == Min({k \in DOMAIN ideal : ideal[k] = x} \cup {MaxItems + 1}) % (MaxItems + 1)

insertBefore(x, v) ==
    LET k == PlaceOf(x)
        new == NewNode(obj, v)
    IN  Room /\
        Linked(IF k = 0 THEN obj
               ELSE IF k = 1 THEN [new[2] EXCEPT !.next[new[1]] = obj.front, !.front = new[1]]
               ELSE [new[2] EXCEPT !.next[new[1]] = Nodes[k], !.next[Nodes[k - 1]] = new[1]],
               Min({k, 1}),
               IF PlaceDue(x) = 0 THEN <<ideal, 0>> ELSE <<InsertAt(ideal, PlaceDue(x), v), 1>>, FALSE)
insertAfter(x, v) ==
    LET k == PlaceOf(x)
        new == NewNode(obj, v)
    IN  Room /\
        Linked(IF k = 0 THEN obj
               ELSE [new[2] EXCEPT !.next[new[1]] = obj.next[Nodes[k]], !.next[Nodes[k]] = new[1]],
               Min({k, 1}),
               IF PlaceDue(x) = 0 THEN <<ideal, 0>> ELSE <<InsertAt(ideal, PlaceDue(x) + 1, v), 1>>, FALSE)
insertAtStart(v) ==
    LET new == NewNode(obj, v) IN
    Room /\ Linked([new[2] EXCEPT !.next[new[1]] = obj.front, !.front = new[1]], v, AddFirst(v), FALSE)
deleteFirst ==
    IF obj.front = null THEN Call(obj, null, <<ideal, null>>, FALSE)
    ELSE Linked([obj EXCEPT !.front = obj.next[@]], obj.value[obj.front], TakeFirst, FALSE)
\* The empty list is not expected.
deleteAt(x) ==
    LET k == PlaceOf(x) IN
    IF obj.front = null THEN Call(obj, Crash, <<ideal, 0>>, TRUE)
    ELSE Linked(IF k = 0 THEN obj
                ELSE IF k = 1 THEN [obj EXCEPT !.front = obj.next[@]]
                ELSE [obj EXCEPT !.next[Nodes[k - 1]] = obj.next[Nodes[k]]],
                Min({k, 1}),
                IF PlaceDue(x) = 0 THEN <<ideal, 0>> ELSE <<RemoveAt(ideal, PlaceDue(x)), 1>>, FALSE)
\* `previous' stays on the first node: from the fourth place on the nodes in
\* between are lost too.
deleteBefore(x) ==
    LET k == PlaceOf(x) IN
    Linked(IF k < 2 THEN obj
           ELSE IF k = 2 THEN [obj EXCEPT !.front = Nodes[2]]
           ELSE [obj EXCEPT !.next[obj.front] = Nodes[k]],
           IF k < 2 THEN 0 ELSE 1,
           IF PlaceDue(x) < 2 THEN <<ideal, 0>> ELSE <<RemoveAt(ideal, PlaceDue(x) - 1), 1>>, k > 3)
searchList(x) == Call(obj, Min({PlaceOf(x), 1}), <<ideal, Min({PlaceDue(x), 1})>>, FALSE)
reverseIterative ==
    Linked(FoldLeft(LAMBDA o, i : [o EXCEPT !.next[i] = o.front, !.front = i], [obj EXCEPT !.front = null], Nodes),
           null, <<Reverse(ideal), null>>, FALSE)
\* The list after, and its first node.
RECURSIVE reverseRecursive(_, _, _)
reverseRecursive(o, current, previous) ==
    IF o.next[current] = null
    THEN <<[o EXCEPT !.next[previous] = null, !.next[current] = previous], current>>
    ELSE LET r == reverseRecursive(o, o.next[current], current)
         IN  <<[r[1] EXCEPT !.next[current] = previous], r[2]>>
\* A list of fewer than two nodes is not expected.
reverseRecursiveMain ==
    IF Len(Nodes) < 2 THEN Call(obj, Crash, <<Reverse(ideal), null>>, TRUE)
    ELSE LET r == reverseRecursive(obj, obj.front, null)
         IN  Linked([r[1] EXCEPT !.front = r[2]], null, <<Reverse(ideal), null>>, FALSE)
SingleLinkedList2 ==
    /\ kind = "SingleLinkedList2"
    /\ \/ \E x, v \in Payload : insertBefore(x, v) \/ insertAfter(x, v)
       \/ \E x \in Payload : insertAtStart(x) \/ deleteAt(x) \/ deleteBefore(x) \/ searchList(x)
       \/ deleteFirst \/ reverseIterative \/ reverseRecursiveMain

----------------------------------------------------------------------------
(* Heaps in an array: s is 1 for the largest first and -1 for the smallest. *)

\* Mutant: the first child is taken, not the larger.
RECURSIVE MutantSink(_, _, _, _)
MutantSink(a, len, k, s) ==
    LET j == 2 * k + 1 IN
    IF j >= len THEN a
    ELSE IF s * a[k] > s * a[j] THEN a
    ELSE MutantSink([a EXCEPT ![j] = a[k], ![k] = a[j]], len, j, s)

RECURSIVE sink(_, _, _, _)
sink(a, len, k, s) ==
    LET l == 2 * k + 1
        j == IF l < len - 1 /\ s * a[l] < s * a[l + 1] THEN l + 1 ELSE l
    IN  IF l >= len THEN a
        ELSE IF s * a[k] > s * a[j] THEN a
        ELSE sink([a EXCEPT ![j] = a[k], ![k] = a[j]], len, j, s)

RECURSIVE swim(_, _, _)
swim(a, k, s) ==
    LET parent == (k - 1) \div 2 IN
    IF k > 0 /\ s * a[parent] < s * a[k] THEN swim([a EXCEPT ![parent] = a[k], ![k] = a[parent]], parent, s) ELSE a

AddSorted(v, s) == IF ~Room THEN <<ideal, Exception>>
                   ELSE <<SortSeq(Append(ideal, v), LAMBDA x, y : s * x > s * y), v>>
\* A peek into the empty heap returns what the array happens to hold.
Heap(s) ==
    \/ \E v \in Item :
         IF obj.n = MaxItems THEN Refuse(AddSorted(v, s))
         ELSE Call([array |-> swim([obj.array EXCEPT ![obj.n] = v], obj.n, s), n |-> obj.n + 1],
                   v, AddSorted(v, s), FALSE)
    \/ IF obj.n = 0 THEN Refuse(TakeFirst)
       ELSE Call([array |-> sink([obj.array EXCEPT ![0] = obj.array[obj.n - 1]], obj.n - 1, 0, s), n |-> obj.n - 1],
                 obj.array[0], TakeFirst, FALSE)
    \/ Call(obj, obj.array[0], PeekFirst, obj.n = 0)
MaxBinaryHeapUsingArray == kind = "MaxBinaryHeapUsingArray" /\ Heap(1)
MinBinaryHeapUsingArray == kind = "MinBinaryHeapUsingArray" /\ Heap(-1)

----------------------------------------------------------------------------
Stacks == {"StackUsingLinkedList", "QueueUsingSingleStack"}
ArrayQueues == {"CircularQueue", "CircularQueueUsingArrayWithExtraSpace"}
Heaps  == {"MaxBinaryHeapUsingArray", "MinBinaryHeapUsingArray"}
LinkedKinds == {"LinearQueueUsingLinkedList", "CicularQueueUsingSingleLinkedList", "DequeWithSingleLinkedList",
                "DequeWithDoubleLinkedList", "SingleLinkedList2"}
EmptyArray == [i \in 0 .. MaxItems |-> null]
NoNodes == [i \in Ids |-> null]
\* The constructors.
New(k) ==
    CASE k = "StackUsingFixedSizedArray" -> [topOfStack |-> -1, stack |-> EmptyArray]
      [] k = "StackUsingArrayList"       -> [topOfStack |-> -1, stack |-> <<>>]
      [] k \in Stacks                    -> <<>>
      [] k = "QueueUsingDoubleStack"     -> [inbox |-> <<>>, outbox |-> <<>>]
      [] k = "LinearQueueUsingArray"     -> [array |-> EmptyArray, front |-> 0, rear |-> -1, n |-> 0]
      [] k = "CircularQueueUsingArrayWithCount" -> [array |-> EmptyArray, front |-> 0, rear |-> MaxItems - 1, n |-> 0]
      [] k \in ArrayQueues               -> [array |-> EmptyArray, front |-> 0, rear |-> 0]
      [] k \in Heaps                     -> [array |-> EmptyArray, n |-> 0]
      [] k \in LinkedKinds               -> [front |-> null, rear |-> null, n |-> 0,
                                            value |-> NoNodes, next |-> NoNodes, previous |-> NoNodes]

\* getSize, or the counter that isFull and isEmpty look at.
Size == CASE kind \in {"StackUsingFixedSizedArray", "StackUsingArrayList"} -> obj.topOfStack + 1
          [] kind \in Stacks -> Len(obj)
          [] kind = "QueueUsingDoubleStack" -> Len(obj.inbox) + Len(obj.outbox)
          [] kind \in ArrayQueues -> (obj.rear - obj.front) % (MaxItems + 1)
          [] kind = "SingleLinkedList2" -> Len(Nodes)
          [] OTHER -> obj.n

\* The items that the fields still lead to, first first: down from the top,
\* from the front on, or backwards from the rear if there is no front.
RECURSIVE BackChain(_, _)
BackChain(o, i) == IF i = null THEN <<>> ELSE BackChain(o, o.previous[i]) \o <<i>>
Ends == IF obj.front # null THEN Nodes ELSE BackChain(obj, obj.rear)
Around(n) == FoldLeft(LAMBDA s, i : Append(s, IF s = <<>> THEN obj.front ELSE obj.next[Last(s)]), <<>>, [i \in 1 .. n |-> i])
Values(s) == [i \in DOMAIN s |-> obj.value[s[i]]]
Places(first, n, size) == [i \in 1 .. n |-> obj.array[(first + i - 1) % size]]
Kept == CASE kind = "StackUsingFixedSizedArray" -> [i \in 1 .. Size |-> obj.stack[Size - i]]
          [] kind = "StackUsingArrayList" -> [i \in 1 .. Size |-> obj.stack[Size + 1 - i]]
          [] kind \in Stacks -> obj
          [] kind = "QueueUsingDoubleStack" -> obj.outbox \o Reverse(obj.inbox)
          [] kind \in ArrayQueues -> Places(obj.front, Size, MaxItems + 1)
          [] kind = "LinearQueueUsingArray" -> Places(obj.front, Size, MaxItems + 1)
          [] kind = "CircularQueueUsingArrayWithCount" -> Places(obj.front, Size, MaxItems)
          [] kind = "MaxBinaryHeapUsingArray" -> SortSeq(Places(0, Size, MaxItems + 1), >)
          [] kind = "MinBinaryHeapUsingArray" -> SortSeq(Places(0, Size, MaxItems + 1), <)
          [] kind = "CicularQueueUsingSingleLinkedList" -> Values(Around(obj.n))
          [] OTHER -> Values(Ends)
=============================================================================
