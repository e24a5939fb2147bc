---------------------------- MODULE ConsoleProofs ----------------------------
(***************************************************************************)
(* Proofs about keyboard and serial input and console output (module       *)
(* Console): InputInOrder, OutputUnmixed and SleepsForReason for any       *)
(* number of threads, any size of the interrupt queues and any length of   *)
(* the messages, and what SynchProofs shows of the kernel, with the        *)
(* interrupt handlers among the steps.  The inductive invariant CInv adds  *)
(* to IInv what a thread in the midst of a queue operation holds, and which*)
(* characters of a message are still to come.                              *)
(***************************************************************************)
EXTENDS Console, SynchProofs, SequenceTheorems

\* The size of a queue, and the rings with bytes from S.
N == INTQ_BUFSIZE
Rings(S) == [buf : [0 .. N - 1 -> S], head : 0 .. N - 1, tail : 0 .. N - 1,
             waiter : Threads \cup {NULL}]

-----------------------------------------------------------------------------
(* Rings: the arithmetic of devices/intq.c.                               *)

\* next wraps around at the end of the ring.
LEMMA NextPos ==
    ASSUME NEW p \in 0 .. N - 1
    PROVE  next(p) = (IF p = N - 1 THEN 0 ELSE p + 1) /\ next(p) \in 0 .. N - 1
  <1>1. N \in Nat \ {0, 1} BY ConsoleAssumption DEF N
  <1>2. CASE p = N - 1
    <2>1. N % N = 0 BY <1>1
    <2> QED BY <1>1, <1>2, <2>1 DEF next, N
  <1>3. CASE p # N - 1
    <2>1. (p + 1) % N = p + 1 BY <1>1, <1>3
    <2> QED BY <1>1, <1>3, <2>1 DEF next, N
  <1> QED BY <1>2, <1>3

\* The bytes of a ring, without the remainders: how many, and where each one is.
LEMMA RingFacts ==
    ASSUME NEW S, NEW k \in Rings(S)
    PROVE  /\ Contents(k) \in Seq(S)
           /\ Len(Contents(k)) = IF k.head >= k.tail THEN k.head - k.tail
                                 ELSE k.head - k.tail + N
           /\ \A i \in 1 .. Len(Contents(k)) :
                Contents(k)[i] = k.buf[IF k.tail + i - 1 < N THEN k.tail + i - 1
                                       ELSE k.tail + i - 1 - N]
  <1> DEFINE h == k.head
             t == k.tail
             n == IF h >= t THEN h - t ELSE h - t + N
             At1(i) == IF t + i - 1 < N THEN t + i - 1 ELSE t + i - 1 - N
  <1>1. N \in Nat \ {0, 1} BY ConsoleAssumption DEF N
  <1>2. /\ h \in 0 .. N - 1 /\ t \in 0 .. N - 1 /\ k.buf \in [0 .. N - 1 -> S]
    BY DEF Rings
  <1> HIDE DEF h, t
  <1>3. (h - t) % N = n
    <2>1. CASE h >= t
      <3>1. h - t \in 0 .. N - 1 BY <1>1, <1>2, <2>1
      <3> HIDE DEF N
      <3>2. \A a \in 0 .. N - 1 : a % N = a BY <1>1
      <3> QED BY <2>1, <3>1, <3>2
    <2>2. CASE ~(h >= t)
      <3>1. h - t \in (0 - N) .. -1 /\ h - t \in Int BY <1>1, <1>2, <2>2
      <3>2. \A a \in (0 - N) .. -1 : a % N = a + N BY <1>1
      <3> QED BY <2>2, <3>1, <3>2
    <2> QED BY <2>1, <2>2
  <1>4. n \in 0 .. N - 1 BY <1>1, <1>2
  <1>5. ASSUME NEW i \in 1 .. n PROVE (t + i - 1) % N = At1(i) /\ At1(i) \in 0 .. N - 1
    <2>1. CASE t + i - 1 < N
      <3>1. t + i - 1 \in 0 .. N - 1 BY <1>1, <1>2, <1>4, <2>1
      <3>2. \A a \in 0 .. N - 1 : a % N = a BY <1>1
      <3> QED BY <2>1, <3>1, <3>2
    <2>2. CASE ~(t + i - 1 < N)
      <3>1. t + i - 1 \in N .. 2 * N - 1 BY <1>1, <1>2, <1>4, <2>2
      <3>2. \A a \in N .. 2 * N - 1 : a % N = a - N BY <1>1
      <3>3. t + i - 1 - N \in 0 .. N - 1 BY <1>1, <1>2, <1>4, <2>2, <3>1
      <3>4. At1(i) = t + i - 1 - N BY <2>2
      <3>5. PICK a \in N .. 2 * N - 1 : a = t + i - 1 BY <3>1
      <3>6. a % N = a - N BY <3>2
      <3> HIDE DEF At1
      <3>7. (t + i - 1) % N = t + i - 1 - N BY <1>1, <1>2, <1>4, <3>5, <3>6
      <3> QED BY <3>3, <3>4, <3>7
    <2> QED BY <2>1, <2>2
  <1>6. Contents(k) = [i \in 1 .. n |-> k.buf[(t + i - 1) % N]]
    BY <1>3 DEF Contents, N, h, t
  <1> HIDE DEF n, At1
  <1>7. \A i \in 1 .. n : Contents(k)[i] = k.buf[At1(i)] /\ Contents(k)[i] \in S
    BY <1>2, <1>5, <1>6
  <1>8. Contents(k) \in Seq(S) /\ Len(Contents(k)) = n
    <2>1. n \in Nat BY <1>1, <1>4
    <2>2. Contents(k) \in [1 .. n -> S] BY <1>6, <1>7
    <2> QED BY <2>1, <2>2
  <1> QED BY <1>7, <1>8 DEF n, h, t, At1

\* intq_putc appends its byte; the queue forgets who sleeps on it.
LEMMA PutRing ==
    ASSUME NEW S, NEW k \in Rings(S), NEW b \in S, ~intq_full(k)
    PROVE  /\ Put(k, b) \in Rings(S) /\ Put(k, b).waiter = NULL
           /\ Contents(Put(k, b)) = Append(Contents(k), b)
           /\ ~intq_empty(Put(k, b))
  <1> DEFINE j == [buf |-> [k.buf EXCEPT ![k.head] = b], head |-> next(k.head),
                   tail |-> k.tail, waiter |-> NULL]
  <1>1. N \in Nat \ {0, 1} BY ConsoleAssumption DEF N
  <1>2. Put(k, b) = j
    <2>1. k = [buf |-> k.buf, head |-> k.head, tail |-> k.tail, waiter |-> k.waiter]
      BY DEF Rings
    <2> DEFINE w == Put(k, b)
    <2>2. DOMAIN w = {"buf", "head", "tail", "waiter"} BY <2>1 DEF Put
    <2>3. w.buf = j.buf /\ w.head = j.head /\ w.tail = j.tail /\ w.waiter = j.waiter
      BY <2>1 DEF Put
    <2> QED BY <2>1, <2>2, <2>3 DEF Put
  <1>3. j \in Rings(S) BY NextPos DEF Rings
  <1>4. k.head \in 0 .. N - 1 /\ k.tail \in 0 .. N - 1 /\ k.buf \in [0 .. N - 1 -> S]
    BY DEF Rings
  <1>5. next(k.head) # k.tail BY DEF intq_full
  <1> DEFINE c == Contents(k)
             d == Contents(j)
  <1>6. /\ c \in Seq(S)
        /\ Len(c) = IF k.head >= k.tail THEN k.head - k.tail ELSE k.head - k.tail + N
        /\ \A i \in 1 .. Len(c) :
             c[i] = k.buf[IF k.tail + i - 1 < N THEN k.tail + i - 1 ELSE k.tail + i - 1 - N]
    BY RingFacts
  <1>7. /\ d \in Seq(S)
        /\ Len(d) = IF j.head >= j.tail THEN j.head - j.tail ELSE j.head - j.tail + N
        /\ \A i \in 1 .. Len(d) :
             d[i] = j.buf[IF j.tail + i - 1 < N THEN j.tail + i - 1 ELSE j.tail + i - 1 - N]
    BY <1>3, RingFacts
  <1> HIDE DEF c, d
  <1>8. /\ j.tail = k.tail /\ j.head = IF k.head = N - 1 THEN 0 ELSE k.head + 1
        /\ \A i \in 0 .. N - 1 : j.buf[i] = IF i = k.head THEN b ELSE k.buf[i]
    BY <1>4, NextPos
  <1>a. j.waiter = NULL OBVIOUS
  <1> HIDE DEF j
  <1>b. (IF k.head = N - 1 THEN 0 ELSE k.head + 1) # k.tail BY <1>4, <1>5, NextPos
  <1>9. Len(d) = Len(c) + 1
    BY <1>1, <1>4, <1>6, <1>7, <1>8, <1>b
  <1>10. ASSUME NEW i \in 1 .. Len(c) PROVE d[i] = c[i]
    <2> DEFINE p == IF k.tail + i - 1 < N THEN k.tail + i - 1 ELSE k.tail + i - 1 - N
    <2>1. p \in 0 .. N - 1 /\ p # k.head BY <1>1, <1>4, <1>6
    <2>2. c[i] = k.buf[p] BY <1>6
    <2>3. d[i] = j.buf[p] BY <1>6, <1>7, <1>8, <1>9
    <2> HIDE DEF p
    <2> QED BY <1>8, <2>1, <2>2, <2>3
  <1>11. d[Len(c) + 1] = b
    <2> DEFINE i == Len(c) + 1
               p == IF k.tail + i - 1 < N THEN k.tail + i - 1 ELSE k.tail + i - 1 - N
    <2>1. p = k.head BY <1>1, <1>4, <1>6
    <2>2. i \in 1 .. Len(d) BY <1>6, <1>9
    <2>3. d[i] = j.buf[p] BY <1>7, <1>8, <2>2
    <2> HIDE DEF p
    <2> QED BY <1>4, <1>8, <2>1, <2>3
  <1>12. d = Append(c, b)
    <2>1. Append(c, b) \in Seq(S) /\ Len(Append(c, b)) = Len(c) + 1 BY <1>6
    <2>2. \A i \in 1 .. Len(c) + 1 : Append(c, b)[i] = IF i = Len(c) + 1 THEN b ELSE c[i]
      BY <1>6
    <2>3. \A i \in 1 .. Len(d) : d[i] = Append(c, b)[i]
      BY <1>6, <1>9, <1>10, <1>11, <2>2
    <2> QED BY <1>7, <1>9, <2>1, <2>3
  <1>13. ~intq_empty(j) BY <1>8, <1>1, <1>4, <1>b DEF intq_empty
  <1> QED BY <1>2, <1>3, <1>12, <1>13, <1>a DEF c, d

\* intq_getc takes the oldest byte; after it the queue has room.
LEMMA TakeRing ==
    ASSUME NEW S, NEW k \in Rings(S), ~intq_empty(k)
    PROVE  /\ Take(k) \in Rings(S) /\ Take(k).waiter = NULL
           /\ Contents(k) # <<>> /\ Head(Contents(k)) = k.buf[k.tail]
           /\ Contents(Take(k)) = Tail(Contents(k)) /\ ~intq_full(Take(k))
  <1> DEFINE j == [buf |-> k.buf, head |-> k.head, tail |-> next(k.tail), waiter |-> NULL]
  <1>1. N \in Nat \ {0, 1} BY ConsoleAssumption DEF N
  <1>2. Take(k) = j
    <2>1. k = [buf |-> k.buf, head |-> k.head, tail |-> k.tail, waiter |-> k.waiter]
      BY DEF Rings
    <2> DEFINE w == Take(k)
    <2>2. DOMAIN w = {"buf", "head", "tail", "waiter"} BY <2>1 DEF Take
    <2>3. w.buf = j.buf /\ w.head = j.head /\ w.tail = j.tail /\ w.waiter = j.waiter
      BY <2>1 DEF Take
    <2> QED BY <2>1, <2>2, <2>3 DEF Take
  <1>3. j \in Rings(S) BY NextPos DEF Rings
  <1>4. k.head \in 0 .. N - 1 /\ k.tail \in 0 .. N - 1 /\ k.buf \in [0 .. N - 1 -> S]
    BY DEF Rings
  <1>5. k.head # k.tail BY DEF intq_empty
  <1> DEFINE c == Contents(k)
             d == Contents(j)
  <1>6. /\ c \in Seq(S)
        /\ Len(c) = IF k.head >= k.tail THEN k.head - k.tail ELSE k.head - k.tail + N
        /\ \A i \in 1 .. Len(c) :
             c[i] = k.buf[IF k.tail + i - 1 < N THEN k.tail + i - 1 ELSE k.tail + i - 1 - N]
    BY RingFacts
  <1>7. /\ d \in Seq(S)
        /\ Len(d) = IF j.head >= j.tail THEN j.head - j.tail ELSE j.head - j.tail + N
        /\ \A i \in 1 .. Len(d) :
             d[i] = j.buf[IF j.tail + i - 1 < N THEN j.tail + i - 1 ELSE j.tail + i - 1 - N]
    BY <1>3, RingFacts
  <1> HIDE DEF c, d
  <1>8. /\ j.head = k.head /\ j.tail = IF k.tail = N - 1 THEN 0 ELSE k.tail + 1
        /\ j.buf = k.buf /\ j.waiter = NULL
    BY <1>4, NextPos
  <1> HIDE DEF j
  <1>9. Len(c) = Len(d) + 1 /\ Len(c) \in Nat /\ Len(d) \in Nat
    BY <1>1, <1>4, <1>5, <1>6, <1>7, <1>8
  <1>10. ASSUME NEW i \in 1 .. Len(d) PROVE d[i] = c[i + 1]
    <2> DEFINE p == IF k.tail + i < N THEN k.tail + i ELSE k.tail + i - N
    <2>0. i + 1 \in 1 .. Len(c) BY <1>9
    <2>1. c[i + 1] = k.buf[p] BY <1>4, <1>6, <2>0
    <2>2. (IF j.tail + i - 1 < N THEN j.tail + i - 1 ELSE j.tail + i - 1 - N) = p
      <3>1. CASE k.tail = N - 1 BY <1>1, <1>4, <1>7, <1>8, <3>1
      <3>2. CASE k.tail # N - 1 BY <1>1, <1>4, <1>7, <1>8, <3>2
      <3> QED BY <3>1, <3>2
    <2>3. d[i] = j.buf[p] BY <1>7, <2>2
    <2> QED BY <1>8, <2>1, <2>3
  <1>11. c # <<>> /\ Head(c) = c[1] BY <1>6, <1>9
  <1>12. c[1] = k.buf[k.tail] BY <1>1, <1>4, <1>6, <1>9
  <1>13. d = Tail(c)
    <2>1. Tail(c) \in Seq(S) /\ Len(Tail(c)) = Len(c) - 1 BY <1>6, <1>11
    <2>2. \A i \in 1 .. Len(c) - 1 : Tail(c)[i] = c[i + 1] BY <1>6, <1>11
    <2>3. \A i \in 1 .. Len(d) : d[i] = Tail(c)[i] BY <1>9, <1>10, <2>2
    <2> QED BY <1>7, <1>9, <2>1, <2>3
  <1>14. ~intq_full(j)
    <2>1. next(j.head) = IF k.head = N - 1 THEN 0 ELSE k.head + 1 BY <1>4, <1>8, NextPos
    <2> QED BY <1>1, <1>4, <1>5, <1>8, <2>1 DEF intq_full
  <1> QED BY <1>2, <1>3, <1>8, <1>11, <1>12, <1>13, <1>14 DEF c, d

\* A full queue is not empty, since it has at least two places, one of them unused.
LEMMA FullNotEmpty == ASSUME NEW S, NEW k \in Rings(S), intq_full(k) PROVE ~intq_empty(k)
  <1>1. N \in Nat \ {0, 1} BY ConsoleAssumption DEF N
  <1>2. k.head \in 0 .. N - 1 BY DEF Rings
  <1> QED BY <1>1, <1>2, NextPos DEF intq_full, intq_empty

\* A byte that moves from the front of one sequence to the end of the other.
LEMMA JoinFacts ==
    ASSUME NEW S, NEW s \in Seq(S), NEW c \in Seq(S)
    PROVE  /\ s \o c \in Seq(S) /\ s \o <<>> = s
           /\ \A b \in S : s \o Append(c, b) = Append(s \o c, b)
           /\ c # <<>> => Append(s, Head(c)) \o Tail(c) = s \o c
  <1>1. s \o c \in Seq(S) /\ s \o <<>> = s OBVIOUS
  <1>2. ASSUME NEW b \in S PROVE s \o Append(c, b) = Append(s \o c, b) OBVIOUS
  <1>3. ASSUME c # <<>> PROVE Append(s, Head(c)) \o Tail(c) = s \o c
    <2> DEFINE h == <<Head(c)>>
               t == Tail(c)
    <2>1. h \in Seq(S) /\ t \in Seq(S) BY <1>3
    <2>2. h \o t = c
      <3>1. h \o t \in Seq(S) /\ Len(h \o t) = Len(c) BY <1>3
      <3>2. \A i \in 1 .. Len(h \o t) : (h \o t)[i] = c[i] BY <1>3
      <3> QED BY <3>1, <3>2, SeqEqual
    <2>3. Append(s, Head(c)) = s \o h BY <1>3
    <2> HIDE DEF h, t
    <2>4. (s \o h) \o t = s \o (h \o t) BY <2>1, ConcatAssociative
    <2> QED BY <2>2, <2>3, <2>4 DEF t
  <1> QED BY <1>1, <1>2, <1>3

-----------------------------------------------------------------------------
(* The kernel's invariant, kept by the steps of Console.                  *)

\* Threads put at the end of the ready list, none of them twice.
LEMMA ConcatQueue ==
    ASSUME NEW S, NEW r \in Seq(S), NEW w \in Seq(S), IsInjective(r), IsInjective(w),
           ToSet(r) \cap ToSet(w) = {}
    PROVE  /\ r \o w \in Seq(S) /\ ToSet(r \o w) = ToSet(r) \cup ToSet(w)
           /\ IsInjective(r \o w)
  <1> DEFINE z == r \o w
             m == Len(r)
             n == Len(w)
  <1>1. /\ z \in Seq(S) /\ Len(z) = m + n
        /\ \A i \in 1 .. m + n : z[i] = IF i <= m THEN r[i] ELSE w[i - m]
    BY ConcatProperties
  <1>2. /\ m \in Nat /\ n \in Nat /\ DOMAIN z = 1 .. m + n
        /\ DOMAIN r = 1 .. m /\ DOMAIN w = 1 .. n
    BY <1>1
  <1> HIDE DEF z, m, n
  <1>3. ToSet(z) \subseteq ToSet(r) \cup ToSet(w)
    <2>1. ASSUME NEW i \in DOMAIN z PROVE z[i] \in ToSet(r) \cup ToSet(w)
      <3>1. CASE i <= m
        <4>1. i \in DOMAIN r /\ z[i] = r[i] BY <1>1, <1>2, <3>1
        <4> QED BY <4>1 DEF ToSet
      <3>2. CASE ~(i <= m)
        <4>1. i - m \in DOMAIN w /\ z[i] = w[i - m] BY <1>1, <1>2, <3>2
        <4> QED BY <4>1 DEF ToSet
      <3> QED BY <3>1, <3>2
    <2> QED BY <2>1 DEF ToSet
  <1>4. ToSet(r) \subseteq ToSet(z)
    <2>1. ASSUME NEW i \in DOMAIN r PROVE r[i] = z[i] /\ i \in DOMAIN z
      BY <1>1, <1>2
    <2> QED BY <2>1 DEF ToSet
  <1>5. ToSet(w) \subseteq ToSet(z)
    <2>1. ASSUME NEW i \in DOMAIN w PROVE w[i] = z[m + i] /\ m + i \in DOMAIN z
      BY <1>1, <1>2
    <2> QED BY <2>1 DEF ToSet
  <1>6. ASSUME NEW i \in DOMAIN z, NEW j \in DOMAIN z, z[i] = z[j] PROVE i = j
    <2>1. CASE i <= m /\ j <= m
      <3>1. i \in DOMAIN r /\ j \in DOMAIN r /\ r[i] = r[j] BY <1>1, <1>2, <1>6, <2>1
      <3> QED BY <3>1 DEF IsInjective
    <2>2. CASE ~(i <= m) /\ ~(j <= m)
      <3>1. i - m \in DOMAIN w /\ j - m \in DOMAIN w /\ w[i - m] = w[j - m]
        BY <1>1, <1>2, <1>6, <2>2
      <3>2. i - m = j - m BY <3>1 DEF IsInjective
      <3> QED BY <1>2, <3>2
    <2>3. CASE i <= m /\ ~(j <= m)
      <3>1. i \in DOMAIN r /\ j - m \in DOMAIN w /\ r[i] = w[j - m]
        BY <1>1, <1>2, <1>6, <2>3
      <3>2. r[i] \in ToSet(r) /\ w[j - m] \in ToSet(w) BY <3>1 DEF ToSet
      <3> QED BY <3>1, <3>2
    <2>4. CASE ~(i <= m) /\ j <= m
      <3>1. j \in DOMAIN r /\ i - m \in DOMAIN w /\ r[j] = w[i - m]
        BY <1>1, <1>2, <1>6, <2>4
      <3>2. r[j] \in ToSet(r) /\ w[i - m] \in ToSet(w) BY <3>1 DEF ToSet
      <3> QED BY <3>1, <3>2
    <2> QED BY <2>1, <2>2, <2>3, <2>4
  <1>7. IsInjective(z) BY <1>6 DEF IsInjective
  <1> QED BY <1>1, <1>3, <1>4, <1>5, <1>7 DEF z

\* The threads of w, asleep on queues, are woken.
Wakes(w) ==
    /\ status' = [t \in Threads |-> IF t \in ToSet(w) THEN "ready" ELSE status[t]]
    /\ ready_list' = ready_list \o w
    /\ cur' = cur

\* A thread that sleeps on a queue.
Asleep(t) == status[t] = "blocked" /\ pc[t].at = "iq_wait"

\* Threads that sleep on queues are made ready.
LEMMA WakeKeeps ==
    ASSUME IInv, NEW w \in Seq(Threads), IsInjective(w), \A t \in ToSet(w) : Asleep(t),
           Wakes(w), pc[main].at # "boot", idle_thread = idle,
           pc' = pc \/ (cur = idle /\ Go(At("idle_loop"))),
           UNCHANGED <<idle_thread, sema, holder, cond_waiters, tidVars>>
    PROVE  IInv'
  <1> USE SynchAssumption
  <1>1. cur \in Threads /\ status[cur] = "running" BY Running
  <1>2. ToSet(w) \subseteq Threads BY EmptyFacts
  <1>3. \A t \in Threads : status'[t] = IF t \in ToSet(w) THEN "ready" ELSE status[t]
    BY DEF Wakes
  <1>4. \A t \in ToSet(w) : t # cur /\ t # idle /\ status[t] = "blocked" /\ pc[t].at = "iq_wait"
    BY <1>1, <1>2 DEF Asleep, IInv, Frames, GoodFrame
  <1> DEFINE f == IF pc' = pc THEN pc[cur] ELSE At("idle_loop")
  <1>5. Moves(f) BY <1>1 DEF Moves, IInv, Frames, Go
  <1>6. GoodFrame(cur, f) BY <1>1 DEF IInv, Frames, GoodFrame, At
  <1>7. f = pc[cur] \/ (cur = idle /\ f = At("idle_loop")) BY DEF Go
  <1>8. pc[cur].at \in Waiting => f = pc[cur]
    BY <1>1, <1>7 DEF IInv, Frames, GoodFrame, Waiting
  <1> HIDE DEF f
  <1>9. Sched'
    <2>1. ToSet(ready_list) \cap ToSet(w) = {} BY <1>2, <1>4 DEF IInv, Sched
    <2>2. /\ ready_list' \in Seq(Threads) /\ IsInjective(ready_list')
          /\ ToSet(ready_list') = ToSet(ready_list) \cup ToSet(w)
      BY <2>1, ConcatQueue DEF IInv, Sched, Wakes
    <2>3. status' \in [Threads -> {"none", "blocked", "ready", "running", "dying", "freed"}]
      BY DEF Wakes, IInv, Sched
    <2>4. cur' = cur /\ idle_thread' = idle_thread BY DEF Wakes
    <2> QED BY <1>2, <1>3, <1>4, <2>2, <2>3, <2>4 DEF IInv, Sched
  <1>10. Frames' BY <1>5, <1>6, FramesKept
  <1>11. Data' BY DEF IInv, Data, tidVars
  <1>12. Boot'
    <2>1. \A t \in Threads : status'[t] = "none" <=> status[t] = "none" BY <1>2, <1>3, <1>4
    <2>2. \A t \in Threads : pc[t].at = "run" => pc'[t].at = "run" \/ t = cur BY <1>5 DEF Moves
    <2>3. pc'[main].at # "boot"
      BY <1>1, <1>5, <1>7 DEF Moves, At
    <2> QED BY <1>1, <2>1, <2>2, <2>3 DEF IInv, Boot
  <1>13. Waiters'
    <2>1. \A s \in Sems : ToSet(sema[s].waiters) \subseteq Threads
      BY EmptyFacts DEF IInv, Data, Semas
    <2>2. ASSUME NEW s \in Sems, NEW t \in ToSet(sema[s].waiters)
          PROVE  t \in Threads /\ t \notin ToSet(w) /\ t # cur
      BY <1>1, <1>4, <2>1 DEF IInv, Waiters
    <2> QED BY <1>3, <1>5, <2>2 DEF IInv, Waiters, Moves
  <1>14. News'
    <2>1. ASSUME NEW t \in Threads, new[t] # NULL
          PROVE  status'[new[t]] = "blocked" /\ pc'[new[t]].at = "run"
      <3>1. /\ new[t] \in Threads /\ status[new[t]] = "blocked"
            /\ pc[new[t]].at = "run" BY <2>1 DEF IInv, News, Data
      <3> QED BY <1>1, <1>3, <1>4, <1>5, <3>1 DEF Moves
    <2>2. ASSUME NEW t \in Threads, Creating(pc'[t]) PROVE new[t] # NULL
      BY <1>1, <1>5, <1>7, <2>2 DEF IInv, News, Moves, Creating, At
    <2>3. \A t, u \in Threads : new[t] # NULL /\ t # u => new[u] # new[t] BY DEF IInv, News
    <2> QED BY <2>1, <2>2, <2>3 DEF News, tidVars
  <1>15. Tokens'
    BY <1>1, <1>5, <1>7 DEF IInv, Tokens, Has, InTransit, Moves, At
  <1>16. Tids' BY <1>1, <1>5, <1>7 DEF IInv, Tids, UniqueTids, Moves, tidVars, At
  <1>17. NoLostWakeup'
    <2>1. ASSUME NEW s \in Sems PROVE Woken(s)' = Woken(s)
      BY <1>1, <1>5, <1>7, <1>8 DEF Woken, Moves, Waiting, At
    <2> QED BY <2>1 DEF IInv, NoLostWakeup
  <1> QED BY <1>9, <1>10, <1>11, <1>12, <1>13, <1>14, <1>15, <1>16, <1>17 DEF IInv

\* signal wakes the thread asleep on a queue, or nobody.
LEMMA SignalWakesOne ==
    ASSUME IInv, NEW u \in Threads \cup {NULL}, u # NULL => Asleep(u), signal(u)
    PROVE  \E w \in Seq(Threads) : /\ Wakes(w) /\ IsInjective(w)
                                   /\ \A t \in ToSet(w) : t = u /\ Asleep(t)
  <1> USE SynchAssumption
  <1>1. CASE u = NULL
    <2>1. UNCHANGED schedVars BY <1>1 DEF signal
    <2>2. <<>> \in Seq(Threads) /\ ToSet(<<>>) = {} /\ IsInjective(<<>>)
      <3>1. <<>> \in Seq(Threads) OBVIOUS
      <3> QED BY <3>1, EmptyFacts
    <2>3. ready_list \o <<>> = ready_list BY ConcatEmptySeq DEF IInv, Sched
    <2>4. status = [t \in Threads |-> status[t]] BY DEF IInv, Sched
    <2>5. Wakes(<<>>)
      BY <2>1, <2>2, <2>3, <2>4 DEF Wakes, schedVars
    <2> QED BY <2>2, <2>5
  <1>2. CASE u # NULL
    <2>1. thread_unblock(u) BY <1>2 DEF signal
    <2> DEFINE w == <<u>>
    <2>2. w \in Seq(Threads) /\ ToSet(w) = {u} /\ IsInjective(w)
      <3>1. w \in Seq(Threads) /\ Len(w) = 1 /\ w[1] = u BY <1>2
      <3>2. DOMAIN w = {1} BY <3>1
      <3> QED BY <3>1, <3>2 DEF ToSet, IsInjective
    <2>3. Append(ready_list, u) = ready_list \o w BY <1>2 DEF IInv, Sched
    <2> HIDE DEF w
    <2>4. status' = [t \in Threads |-> IF t \in ToSet(w) THEN "ready" ELSE status[t]]
      BY <2>1, <2>2 DEF thread_unblock, IInv, Sched
    <2>5. Wakes(w) BY <2>1, <2>3, <2>4 DEF Wakes, thread_unblock
    <2> QED BY <1>2, <2>2, <2>5
  <1> QED BY <1>1, <1>2

\* A thread in the midst of input_getc or serial_putc ...
IqPcs == {"iq_loop", "iq_lock", "iq_wait"}

\* ... is on its way in one of the two queues, and holds the lock of the queue it sleeps on.
Iq == \A t \in Threads :
    /\ pc[t].at \in IqPcs =>
         /\ pc[t].on \in {rx, tx}
         /\ pc[t].ret = IF pc[t].on = rx THEN "run" ELSE "print"
    /\ pc[t].at = "iq_wait" => holder[pc[t].on] = t

\* Where the thread is that takes a step of this module.
LEMMA Caller ==
    ASSUME IInv, pc[cur].at \in IqPcs \cup {"run", "print"}
    PROVE  cur \in Threads /\ cur # idle /\ idle_thread = idle /\ pc[main].at # "boot"
  <1>1. cur \in Threads BY Running
  <1>2. pc[cur].at \notin {"boot", "started", "down", "idle", "idle_loop", "hlt"} BY DEF IqPcs
  <1>3. cur # idle BY <1>1, <1>2, SynchAssumption DEF IInv, Frames, GoodFrame
  <1> QED BY <1>1, <1>2, <1>3, Booted

\* input_getc begins.
LEMMA InputGetcKeeps == ASSUME IInv, InputGetc PROVE IInv'
  <1> DEFINE f == Frame("iq_loop", rx, "run")
  <1>1. pc[cur].at = "run" /\ cur \in Threads /\ cur # idle
    BY Caller DEF InputGetc, IsAt
  <1>2. Moves(f) /\ GoodFrame(cur, f) /\ f.at = "iq_loop" /\ ~Creating(f)
    BY <1>1, GoMoves, ConsoleAssumption DEF InputGetc, GoodFrame, Frame, Creating
  <1> HIDE DEF f
  <1> QED BY <1>1, <1>2, QuietKeeps DEF InputGetc, schedVars, IInv, Data

\* A thread takes the lock of a queue and becomes the holder in the same step.
LEMMA IqTakenKeeps ==
    ASSUME IInv, NEW x \in Locks, NEW f, Moves(f), GoodFrame(cur, f),
           f.at \in {"iq_wait", "panic"}, pc[cur].at \in {"iq_loop", "iq_lock"},
           pc[cur].on = x, sema[x].value > 0, sema' = [sema EXCEPT ![x].value = @ - 1],
           holder' = [holder EXCEPT ![x] = cur], Sched', Kept,
           UNCHANGED <<idle_thread, cond_waiters, tidVars>>
    PROVE  IInv'
  <1> USE SynchAssumption
  <1>0. x \in Sems BY DEF Sems
  <1>1. cur \in Threads /\ idle_thread = idle /\ pc[main].at # "boot"
    BY Caller DEF IqPcs
  <1>2. /\ sema' \in Semas
        /\ sema'[x] = [value |-> sema[x].value - 1, waiters |-> sema[x].waiters]
        /\ \A s \in Sems \ {x} : sema'[s] = sema[s]
    BY <1>0, TakeFacts DEF IInv, Data
  <1>3. ~Creating(f) /\ f.at \notin Waiting BY DEF Creating, Waiting
  <1>4. Frames' BY FramesKept
  <1>5. Data' BY <1>1, <1>2 DEF IInv, Data, tidVars
  <1>6. Boot' BY <1>1, BootKept
  <1>7. \A s \in Sems : sema'[s].waiters = sema[s].waiters BY <1>0, <1>2
  <1>8. Waiters' BY <1>7, WaitersKept
  <1>9. News' BY <1>3, NewsKept DEF tidVars
  <1>10. NoLostWakeup' BY <1>0, <1>2, <1>3, TakeWakeups
  <1>11. sema[x].value = 1 /\ \A t \in Threads : ~Has(t, x) BY DEF IInv, Tokens
  <1>12. Tokens'
    <2>1. \A l \in Locks, t \in Threads : InTransit(t, l)' <=> InTransit(t, l)
      BY <1>1 DEF InTransit, Moves
    <2>2. \A l \in Locks, t \in Threads : holder'[l] = t <=> holder[l] = t \/ (l = x /\ t = cur)
      BY <1>1, <1>11 DEF IInv, Data, Has
    <2>3. sema'[x].value = 0 /\ \A l \in Locks \ {x} : sema'[l].value = sema[l].value
      BY <1>2, <1>11 DEF Sems
    <2> QED BY <1>11, <2>1, <2>2, <2>3 DEF IInv, Tokens, Has
  <1>13. Tids'
    <2>1. \A t \in Threads \ {cur} : holder[tid_lock] = t => holder'[tid_lock] = t
      BY <1>11 DEF Has, IInv, Data
    <2> QED BY <2>1, TidsKept DEF tidVars
  <1> QED BY <1>4, <1>5, <1>6, <1>8, <1>9, <1>10, <1>12, <1>13 DEF IInv

\* wait of devices/intq.c: the lock is taken and the thread sleeps, or it waits for the lock.
LEMMA IqLockKeeps == ASSUME IInv, Iq, IqLock PROVE IInv'
  <1> USE SynchAssumption
  <1> DEFINE x == pc[cur].on
             r == pc[cur].ret
  <1>1. /\ cur \in Threads /\ cur # idle /\ idle_thread = idle /\ pc[main].at # "boot"
        /\ pc[cur].at \in {"iq_loop", "iq_lock"}
    BY Caller DEF IqLock, IsAt, IqPcs
  <1>2. x \in {rx, tx} /\ x \in Locks /\ x \in Sems /\ r \in {"run", "print"}
    BY <1>1, ConsoleAssumption DEF Iq, IqPcs, Sems
  <1>3. UNCHANGED <<idle_thread, cond_waiters, tidVars>> BY DEF IqLock, IqUnchanged
  <1>4. CASE /\ sema[x].value = 0
             /\ sema' = [sema EXCEPT ![x].waiters = Append(@, cur)]
             /\ Go(Frame("iq_lock", x, r)) /\ thread_block /\ UNCHANGED <<q, holder>>
    <2> DEFINE f == Frame("iq_lock", x, r)
               d == Frame("own", x, "run")
    <2>1. sema_down(x, f, d) BY <1>4 DEF sema_down
    <2>2. GoodFrame(cur, f) /\ f.at = "iq_lock" /\ f.on = x /\ f.ret # "tid_load"
      BY <1>1, <1>2 DEF GoodFrame, Frame
    <2>3. GoodFrame(cur, d) /\ d.at = "own" /\ d.on = x /\ d.ret = "run"
      BY <1>1, <1>2 DEF GoodFrame, Frame
    <2> HIDE DEF f, d
    <2> QED BY <1>1, <1>2, <1>3, <1>4, <2>1, <2>2, <2>3, SemaDownKeeps DEF Waiting
  <1>5. CASE /\ sema[x].value > 0
             /\ sema' = [sema EXCEPT ![x].value = @ - 1]
             /\ holder' = [holder EXCEPT ![x] = cur]
             /\ Go(Frame("iq_wait", x, r)) /\ thread_block
    <2> DEFINE f == Frame("iq_wait", x, r)
    <2>1. Moves(f) /\ GoodFrame(cur, f) /\ f.at = "iq_wait"
      BY <1>1, <1>2, <1>5, GoMoves DEF GoodFrame, Frame
    <2>2. Sched' /\ Kept
      BY <1>1, <1>3, <1>5, ScheduleKeeps DEF IInv, thread_block
    <2> HIDE DEF f
    <2> QED BY <1>1, <1>2, <1>3, <1>5, <2>1, <2>2, IqTakenKeeps
  <1>6. CASE /\ sema[x].value > 0
             /\ sema' = [sema EXCEPT ![x].value = @ - 1]
             /\ holder' = [holder EXCEPT ![x] = cur]
             /\ Go(At("panic")) /\ UNCHANGED schedVars
    <2> DEFINE f == At("panic")
    <2>1. Moves(f) /\ GoodFrame(cur, f) /\ f.at = "panic"
      BY <1>1, <1>6, GoMoves DEF GoodFrame, At
    <2>2. Sched' /\ Kept
      BY <1>3, <1>6, KeptIfSame DEF IInv, Sched, schedVars
    <2> HIDE DEF f
    <2> QED BY <1>1, <1>2, <1>3, <1>6, <2>1, <2>2, IqTakenKeeps
  <1> QED BY <1>4, <1>5, <1>6 DEF IqLock

\* A thread woken from a queue releases the lock of the queue.
LEMMA IqWokenKeeps == ASSUME IInv, Iq, IqWoken PROVE IInv'
  <1> USE SynchAssumption
  <1> DEFINE x == pc[cur].on
             f == Frame("iq_loop", x, pc[cur].ret)
  <1>1. /\ cur \in Threads /\ cur # idle /\ idle_thread = idle /\ pc[main].at # "boot"
        /\ pc[cur].at = "iq_wait"
    BY Caller DEF IqWoken, IsAt, IqPcs
  <1>2. x \in {rx, tx} /\ x \in Locks /\ x \in Sems /\ holder[x] = cur
    BY <1>1, ConsoleAssumption DEF Iq, IqPcs, Sems
  <1>3. Moves(f) /\ GoodFrame(cur, f) /\ f.at = "iq_loop" /\ ~Creating(f)
    BY <1>1, <1>2, GoMoves DEF IqWoken, GoodFrame, Frame, Creating
  <1>4. /\ UNCHANGED <<idle_thread, cond_waiters, new, next_tid, tid, tmp_tid>>
        /\ sema_up(x) /\ holder' = [holder EXCEPT ![x] = NULL]
    BY DEF IqWoken, IqUnchanged, tidVars
  <1>5. PICK y \in Locks : y = x BY <1>2
  <1> HIDE DEF f, x
  <1>6. /\ Sched' /\ Boot' /\ Waiters' /\ News' /\ NoLostWakeup'
        /\ sema' \in Semas /\ sema'[y].value = sema[y].value + 1
        /\ \A s \in Sems \ {y} : sema'[s] = sema[s]
    <2>1. f.at \notin Waiting /\ f.at # "boot" /\ pc[cur].at \notin Waiting
      BY <1>1, <1>3 DEF Waiting
    <2> QED BY <1>1, <1>2, <1>3, <1>4, <1>5, <2>1, SemaUpKeeps
  <1>7. Frames' BY <1>3, FramesKept
  <1>8. Data' BY <1>4, <1>6 DEF IInv, Data
  <1>9. sema[y].value = 0 /\ \A t \in Threads : Has(t, y) => t = cur /\ ~InTransit(t, y)
    BY <1>1, <1>2, <1>5 DEF IInv, Tokens, Has
  <1>10. Tokens'
    <2>1. \A l \in Locks, t \in Threads : InTransit(t, l)' <=> InTransit(t, l)
      BY <1>1, <1>3 DEF InTransit, Moves
    <2>2. \A l \in Locks, t \in Threads : holder'[l] = t <=> holder[l] = t /\ l # y
      BY <1>4, <1>5 DEF IInv, Data
    <2>3. sema'[y].value = 1 /\ \A l \in Locks \ {y} : sema'[l].value = sema[l].value
      BY <1>6, <1>9 DEF Sems
    <2> QED BY <1>9, <2>1, <2>2, <2>3 DEF IInv, Tokens, Has
  <1>11. Tids'
    <2>1. \A t \in Threads \ {cur} : holder[tid_lock] = t => holder'[tid_lock] = t
      BY <1>2, <1>4 DEF IInv, Data
    <2> QED BY <1>3, <1>4, <2>1, TidsKept
  <1> QED BY <1>6, <1>7, <1>8, <1>10, <1>11 DEF IInv

\* intq_getc and intq_putc: the queues are not among the kernel's own state.
LEMMA DoneKeeps == ASSUME IInv, GetcDone \/ PutcDone PROVE IInv'
  <1> USE SynchAssumption
  <1>1. /\ cur \in Threads /\ cur # idle /\ pc[cur].at = "iq_loop"
        /\ UNCHANGED <<schedVars, idle_thread, sema, holder, tidVars, cond_waiters>>
    BY Caller DEF GetcDone, PutcDone, IsAt, IqPcs, IqUnchanged
  <1>2. PICK a \in {"run", "print"} : Go(At(a)) BY DEF GetcDone, PutcDone
  <1>3. Moves(At(a)) /\ GoodFrame(cur, At(a)) /\ ~Creating(At(a)) /\ At(a).at = a
    BY <1>1, <1>2, GoMoves DEF GoodFrame, At, Creating
  <1> QED BY <1>1, <1>3, QuietKeeps DEF schedVars, IInv, Data

\* putbuf acquires the console lock.
LEMMA PutbufKeeps == ASSUME IInv, Putbuf PROVE IInv'
BY AcquireKeeps, ConsoleAssumption DEF Putbuf, IsAt

\* putbuf goes on to the next character or releases the console lock.
LEMMA PrintNextKeeps == ASSUME IInv, PrintNext PROVE IInv'
  <1> USE SynchAssumption
  <1>1. /\ cur \in Threads /\ cur # idle /\ pc[cur].at = "print"
        /\ UNCHANGED <<schedVars, idle_thread, sema, tidVars, cond_waiters>>
    BY Caller DEF PrintNext, IsAt
  <1>2. CASE Go(Frame("iq_loop", tx, "print")) /\ UNCHANGED holder
    <2> DEFINE f == Frame("iq_loop", tx, "print")
    <2>1. Moves(f) /\ GoodFrame(cur, f) /\ ~Creating(f) /\ f.at = "iq_loop"
      BY <1>1, <1>2, GoMoves, ConsoleAssumption DEF GoodFrame, Frame, Creating
    <2> HIDE DEF f
    <2> QED BY <1>1, <1>2, <2>1, QuietKeeps DEF schedVars, IInv, Data
  <1>3. CASE lock_release(console_lock, "run")
    BY <1>1, <1>3, ReleaseKeeps, ConsoleAssumption
  <1> QED BY <1>2, <1>3 DEF PrintNext

\* Who sleeps on a queue.
Sleepers == \A x \in {rx, tx} : q[x].waiter \in Threads \cup {NULL}

\* A queue's sleeping thread is woken, with interrupts off or by a handler.
LEMMA SignalKeepsAll ==
    ASSUME IInv, NEW u \in Threads \cup {NULL}, u # NULL => Asleep(u), signal(u),
           idle_thread = idle, pc[main].at # "boot",
           pc' = pc \/ (cur = idle /\ Go(At("idle_loop"))),
           UNCHANGED <<idle_thread, sema, holder, cond_waiters, tidVars>>
    PROVE  IInv'
  <1>1. PICK w \in Seq(Threads) : /\ Wakes(w) /\ IsInjective(w)
                                  /\ \A t \in ToSet(w) : t = u /\ Asleep(t)
    BY SignalWakesOne
  <1> QED BY <1>1, WakeKeeps

\* SleepsForReason, of one queue.
LEMMA WaiterAsleep ==
    ASSUME SleepsForReason, NEW x \in {rx, tx}, q[x].waiter # NULL
    PROVE  Asleep(q[x].waiter) /\ pc[q[x].waiter].on = x
BY DEF SleepsForReason, Asleep

\* putchar with interrupts off wakes who sleeps on the full queue.
LEMMA PutcharIntrOffKeeps == ASSUME IInv, Sleepers, SleepsForReason, PutcharIntrOff PROVE IInv'
  <1> DEFINE u == IF intq_full(q[tx]) THEN q[tx].waiter ELSE NULL
  <1>1. idle_thread = idle /\ pc[main].at # "boot"
    BY Caller DEF PutcharIntrOff, IsAt
  <1>2. u \in Threads \cup {NULL} /\ (u # NULL => Asleep(u))
    BY WaiterAsleep DEF Sleepers
  <1>3. signal(u) BY DEF PutcharIntrOff
  <1> HIDE DEF u
  <1> QED BY <1>1, <1>2, <1>3, SignalKeepsAll DEF PutcharIntrOff

\* serial_flush does so too.
LEMMA SerialFlushKeeps == ASSUME IInv, Sleepers, SleepsForReason, SerialFlush PROVE IInv'
  <1>1. idle_thread = idle /\ pc[main].at # "boot"
    BY Caller DEF SerialFlush, IsAt
  <1>2. q[tx].waiter \in Threads \cup {NULL} /\ (q[tx].waiter # NULL => Asleep(q[tx].waiter))
    BY WaiterAsleep DEF Sleepers
  <1> QED BY <1>1, <1>2, SignalKeepsAll DEF SerialFlush

\* Where a handler runs: the hand-shake with the idle thread may not be over.
LEMMA Handler ==
    ASSUME IInv, IntrOn, Unhalt
    PROVE  /\ pc[main].at # "boot"
           /\ pc' = pc \/ (cur = idle /\ idle_thread = idle /\ Go(At("idle_loop")))
  <1> USE SynchAssumption
  <1>1. cur \in Threads /\ pc[cur].at # "boot" BY Running DEF IntrOn
  <1>2. pc[main].at # "boot" BY <1>1 DEF IInv, Boot
  <1>3. pc[cur].at = "hlt" => cur = idle /\ idle_thread = idle
    BY <1>1, Booted DEF IInv, Frames, GoodFrame
  <1> QED BY <1>2, <1>3 DEF Unhalt, IsAt, Go

\* A handler that wakes nobody.
LEMMA NoWakeKeeps ==
    ASSUME IInv, IntrOn, Unhalt, UNCHANGED <<status, ready_list, cur>>,
           UNCHANGED <<idle_thread, sema, holder, cond_waiters, tidVars>>
    PROVE  IInv'
  <1>1. pc' = pc \/ (cur = idle /\ Go(At("idle_loop")) /\ pc[cur].at = "hlt")
    BY Handler, Running, SynchAssumption DEF Unhalt, IsAt, IInv, Frames, GoodFrame
  <1>2. CASE pc' = pc BY <1>2, StutterKeeps
  <1>3. CASE cur = idle /\ Go(At("idle_loop")) /\ pc[cur].at = "hlt"
    <2> DEFINE f == At("idle_loop")
    <2>1. Moves(f) /\ GoodFrame(cur, f) /\ ~Creating(f) /\ f.at = "idle_loop"
      BY <1>3, GoMoves DEF GoodFrame, At, Creating
    <2> HIDE DEF f
    <2> QED BY <1>3, <2>1, QuietKeeps DEF IInv, Data
  <1> QED BY <1>1, <1>2, <1>3

\* If a thread is asleep on a queue the hand-shake is over.
LEMMA AsleepBooted ==
    ASSUME IInv, NEW t \in Threads, Asleep(t) PROVE idle_thread = idle
BY SynchAssumption DEF Asleep, IInv, Boot, Frames, GoodFrame, Sched

\* A handler that wakes threads, whether or not the hand-shake with the idle thread is over.
LEMMA HandlerWakes ==
    ASSUME IInv, IntrOn, Unhalt, NEW w \in Seq(Threads), IsInjective(w),
           \A t \in ToSet(w) : Asleep(t), Wakes(w),
           UNCHANGED <<idle_thread, sema, holder, cond_waiters, tidVars>>
    PROVE  IInv'
  <1>1. CASE ToSet(w) = {}
    <2>1. w = <<>> BY <1>1, EmptyFacts
    <2>2. ready_list' = ready_list BY <2>1, ConcatEmptySeq DEF Wakes, IInv, Sched
    <2>3. status = [t \in Threads |-> status[t]] BY DEF IInv, Sched
    <2>4. status' = status BY <1>1, <2>3 DEF Wakes
    <2> QED BY <2>2, <2>4, NoWakeKeeps DEF Wakes
  <1>2. CASE ToSet(w) # {}
    <2>1. idle_thread = idle BY <1>2, AsleepBooted, EmptyFacts
    <2> QED BY <2>1, Handler, WakeKeeps
  <1> QED BY <1>1, <1>2

\* keyboard_interrupt wakes who sleeps on the input buffer.
LEMMA KeyboardInterruptKeeps ==
    ASSUME IInv, Sleepers, SleepsForReason, KeyboardInterrupt PROVE IInv'
  <1>1. q[rx].waiter \in Threads \cup {NULL} /\ (q[rx].waiter # NULL => Asleep(q[rx].waiter))
    BY WaiterAsleep DEF Sleepers
  <1>2. PICK w \in Seq(Threads) : /\ Wakes(w) /\ IsInjective(w)
                                  /\ \A t \in ToSet(w) : t = q[rx].waiter /\ Asleep(t)
    BY <1>1, SignalWakesOne DEF KeyboardInterrupt
  <1> QED BY <1>2, HandlerWakes DEF KeyboardInterrupt

\* p holds thread u, or nobody.
OneOrNone(p, u) == p \in {<<>>, <<u>>}

\* The sequences of the threads that a serial interrupt wakes.
LEMMA WokenSeq ==
    ASSUME NEW S, NEW u \in S, NEW v \in S, NEW p, NEW r, OneOrNone(p, u), OneOrNone(r, v),
           p = <<u>> /\ r = <<v>> => u # v
    PROVE  /\ p \o r \in Seq(S) /\ IsInjective(p \o r)
           /\ \A t \in ToSet(p \o r) : (t = u /\ p = <<u>>) \/ (t = v /\ r = <<v>>)
  <1>1. ASSUME NEW x \in S PROVE <<x>> \in Seq(S) /\ ToSet(<<x>>) = {x} /\ IsInjective(<<x>>)
    <2>1. <<x>> \in Seq(S) /\ Len(<<x>>) = 1 /\ <<x>>[1] = x OBVIOUS
    <2>2. DOMAIN <<x>> = {1} BY <2>1
    <2> QED BY <2>1, <2>2 DEF ToSet, IsInjective
  <1>2. <<>> \in Seq(S) /\ ToSet(<<>>) = {} /\ IsInjective(<<>>)
    <2>1. <<>> \in Seq(S) OBVIOUS
    <2> QED BY <2>1, EmptyFacts
  <1>3. p \in Seq(S) /\ IsInjective(p) /\ \A t \in ToSet(p) : t = u /\ p = <<u>>
    BY <1>1, <1>2 DEF OneOrNone
  <1>4. r \in Seq(S) /\ IsInjective(r) /\ \A t \in ToSet(r) : t = v /\ r = <<v>>
    BY <1>1, <1>2 DEF OneOrNone
  <1>5. ToSet(p) \cap ToSet(r) = {} BY <1>3, <1>4
  <1>6. p \o r \in Seq(S) /\ ToSet(p \o r) = ToSet(p) \cup ToSet(r) /\ IsInjective(p \o r)
    BY <1>3, <1>4, <1>5, ConcatQueue
  <1> QED BY <1>3, <1>4, <1>6

\* serial_interrupt wakes at most one thread for each queue, two different ones.
LEMMA SerialWakes ==
    ASSUME IInv, Sleepers, SleepsForReason, SerialInterrupt
    PROVE  \E w \in Seq(Threads) :
             /\ Wakes(w) /\ IsInjective(w)
             /\ \A t \in ToSet(w) :
                  /\ Asleep(t)
                  /\ \/ rbr /\ ~intq_full(q[rx]) /\ t = q[rx].waiter
                     \/ thr /\ ~intq_empty(q[tx]) /\ t = q[tx].waiter
  <1> DEFINE in  == rbr /\ ~intq_full(q[rx])
             out == thr /\ ~intq_empty(q[tx])
             a == in /\ q[rx].waiter # NULL
             b == out /\ q[tx].waiter # NULL
             w == (IF a THEN <<q[rx].waiter>> ELSE <<>>)
                  \o (IF b THEN <<q[tx].waiter>> ELSE <<>>)
  <1>1. /\ status' = [t \in Threads |-> IF t \in ToSet(w) THEN "ready" ELSE status[t]]
        /\ ready_list' = ready_list \o w /\ cur' = cur
    BY DEF SerialInterrupt
  <1>2. /\ a => Asleep(q[rx].waiter) /\ pc[q[rx].waiter].on = rx /\ q[rx].waiter \in Threads
        /\ b => Asleep(q[tx].waiter) /\ pc[q[tx].waiter].on = tx /\ q[tx].waiter \in Threads
    BY WaiterAsleep DEF Sleepers
  <1>3. PICK u \in Threads : a => u = q[rx].waiter BY <1>2, SynchAssumption
  <1>4. PICK v \in Threads : b => v = q[tx].waiter BY <1>2, SynchAssumption
  <1> DEFINE p == IF a THEN <<q[rx].waiter>> ELSE <<>>
             r == IF b THEN <<q[tx].waiter>> ELSE <<>>
  <1>5. p \in {<<>>, <<u>>} /\ (p = <<u>> => a \/ <<u>> = <<>>) BY <1>3
  <1>6. r \in {<<>>, <<v>>} /\ (r = <<v>> => b \/ <<v>> = <<>>) BY <1>4
  <1>7. a /\ b => u # v BY <1>2, <1>3, <1>4, ConsoleAssumption
  <1>8. (a => Asleep(u)) /\ (b => Asleep(v)) BY <1>2, <1>3, <1>4
  <1>9. \A x \in Threads : <<x>> # <<>> OBVIOUS
  <1> HIDE DEF a, b, p, r
  <1>10. /\ p \o r \in Seq(Threads) /\ IsInjective(p \o r)
         /\ \A t \in ToSet(p \o r) : (t = u /\ p = <<u>>) \/ (t = v /\ r = <<v>>)
    <2>1. p = <<u>> /\ r = <<v>> => u # v BY <1>5, <1>6, <1>7, <1>9
    <2>2. OneOrNone(p, u) /\ OneOrNone(r, v) BY <1>5, <1>6 DEF OneOrNone
    <2> QED BY <2>1, <2>2, WokenSeq
  <1>11. Wakes(p \o r) BY <1>1 DEF Wakes, p, r
  <1>12. \A t \in ToSet(p \o r) : Asleep(t) BY <1>5, <1>6, <1>8, <1>9, <1>10
  <1>13. \A t \in ToSet(p \o r) : (in /\ t = q[rx].waiter) \/ (out /\ t = q[tx].waiter)
    BY <1>3, <1>4, <1>5, <1>6, <1>9, <1>10 DEF a, b
  <1> QED BY <1>10, <1>11, <1>12, <1>13

\* serial_interrupt keeps the invariant of the kernel.
LEMMA SerialInterruptKeeps ==
    ASSUME IInv, Sleepers, SleepsForReason, SerialInterrupt PROVE IInv'
  <1>1. PICK w \in Seq(Threads) : /\ Wakes(w) /\ IsInjective(w)
                                  /\ \A t \in ToSet(w) : Asleep(t)
    BY SerialWakes
  <1> QED BY <1>1, HandlerWakes DEF SerialInterrupt

-----------------------------------------------------------------------------
(* The kernel's steps, seen from Console.                                 *)

\* A thread that acquires the console lock, in sema_down or about to store to
\* lock->holder.
Acquiring(f) == f.at \in {"down", "own"} /\ f.ret = "print"

\* It is the console lock that they acquire.
Acquires == \A t \in Threads : Acquiring(pc[t]) => pc[t].on = console_lock

\* Where the kernel's own steps leave a thread that is on its way through this
\* module: they neither begin nor disturb an operation of it.
SameWay(g, f) ==
    \/ f = g
    \/ /\ g.at \notin IqPcs \cup {"print"} /\ f.at \notin IqPcs
       /\ \/ f.at # "print" /\ ~Acquiring(f)
          \/ g.at = "down" /\ Acquiring(f) /\ f.on = g.on /\ Acquiring(g)
          \/ f.at = "print" /\ g.at = "own" /\ g.ret = "print"

\* A step of Synch moves the running thread only, and that way.
LEMMA NextWay ==
    ASSUME IInv, Acquires, [Next]_synchVars, NEW t \in Threads
    PROVE  /\ SameWay(pc[t], pc'[t])
           /\ t # cur => pc'[t] = pc[t]
  <1> DEFINE g == pc[cur]
  <1>0. cur \in Threads /\ GoodFrame(cur, g) BY Running DEF IInv, Frames
  <1>1. SUFFICES \/ pc' = pc
                 \/ \E f : Go(f) /\ SameWay(g, f)
    BY <1>0, GoMoves DEF Moves, SameWay
  <1>2. CASE UNCHANGED synchVars BY <1>2 DEF synchVars
  <1>3. CASE TimerInterrupt
    <2>1. pc' = pc \/ (Go(At("idle_loop")) /\ pc[cur].at = "hlt")
      BY <1>3 DEF TimerInterrupt, Unhalt, IsAt, Go
    <2>2. pc[cur].at = "hlt" => SameWay(g, At("idle_loop"))
      BY DEF SameWay, At, IqPcs, Acquiring
    <2> QED BY <2>1, <2>2
  <1>4. ASSUME NEW f, f.at \notin IqPcs \cup {"print"}, ~Acquiring(f),
               g.at \notin IqPcs \cup {"print"}
        PROVE  SameWay(g, f)
    BY <1>4 DEF SameWay
  <1>5. CASE ThreadStart \/ WaitIdleStarted \/ IdleStart \/ IdleBlock
    <2>1. PICK f \in {At("started"), Frame("down", idle, "run"), At("run"), At("idle_loop"), At("hlt")} :
             Go(f) /\ g.at \in {"boot", "started", "idle", "idle_loop"}
      BY <1>5 DEF ThreadStart, WaitIdleStarted, IdleStart, IdleBlock, sema_down, IsAt
    <2> QED BY <1>4, <2>1 DEF IqPcs, Acquiring, At, Frame
  <1>6. CASE Resume
    <2>1. g.at = "down" /\ (Go(g) \/ Go(IF g.on \in Locks THEN Frame("own", g.on, g.ret) ELSE At(g.ret)))
      BY <1>6 DEF Resume, sema_down, IsAt
    <2>2. CASE Go(g) BY <2>2 DEF SameWay
    <2>3. CASE Go(Frame("own", g.on, g.ret))
      BY <2>1, <2>3 DEF SameWay, Acquiring, Frame, IqPcs
    <2>4. CASE g.on \notin Locks /\ Go(At(g.ret))
      <3>1. g.ret # "print" BY <2>1, <2>4, <1>0, ConsoleAssumption DEF Acquires, Acquiring
      <3> QED BY <2>1, <2>4, <3>1, <1>0 DEF GoodFrame, SameWay, At, Acquiring, IqPcs
    <2> QED BY <2>1, <2>2, <2>3, <2>4
  <1>7. CASE Up
    <2>1. g.at = "up" /\ Go(At(g.ret)) BY <1>7 DEF Up, IsAt
    <2> QED BY <1>0, <1>4, <2>1 DEF GoodFrame, IqPcs, Acquiring, At
  <1>8. CASE SetHolder
    <2>1. g.at = "own" /\ Go(At(g.ret)) BY <1>8 DEF SetHolder, IsAt
    <2> QED BY <1>0, <2>1 DEF GoodFrame, IqPcs, Acquiring, At, SameWay
  <1>9. CASE \/ LockAcquire(mon) \/ LockTryAcquire(mon) \/ LockRelease(mon)
             \/ CondWait \/ CondWaitRelease \/ CondWaitDown \/ CondWaitAcquire
             \/ TidAcquire \/ TidLoad \/ TidStore \/ ThreadCreated
    <2>1. \E a \in {"down", "own", "up"}, s \in {mon, tid_lock, cur},
             r \in {"run", "cw_down", "cw_acquire", "tid_load", "created"} :
             Go(Frame(a, s, r)) \/ Go(At("cw_release")) \/ Go(At("cw_acquire"))
             \/ Go(At("tid_store")) \/ Go(At("run"))
      BY <1>9 DEF LockAcquire, LockTryAcquire, LockRelease, CondWait, CondWaitRelease,
                  CondWaitDown, CondWaitAcquire, TidAcquire, TidLoad, TidStore,
                  ThreadCreated, lock_acquire, lock_release, sema_down
    <2>2. PICK f : /\ Go(f) /\ f.at \in {"down", "own", "up", "cw_release", "cw_acquire", "tid_store", "run"}
                   /\ f.ret # "print"
      BY <2>1 DEF Frame, At
    <2>3. g.at \in {"run", "cw_release", "cw_down", "cw_acquire", "tid_acquire", "tid_load", "tid_store", "created"}
      BY <1>9 DEF LockAcquire, LockTryAcquire, LockRelease, CondWait, CondWaitRelease,
                  CondWaitDown, CondWaitAcquire, TidAcquire, TidLoad, TidStore,
                  ThreadCreated, IsAt
    <2> QED BY <1>4, <2>2, <2>3 DEF IqPcs, Acquiring
  <1>10. CASE CondSignal \/ CondBroadcast
    <2>1. PICK r \in {"run", "broadcast"} : cond_signal(r)
      BY <1>10 DEF CondSignal, CondBroadcast
    <2>2. Go(IF cond_waiters = <<>> THEN At(r) ELSE Frame("up", Head(cond_waiters), r))
      BY <2>1 DEF cond_signal
    <2>3. g.at \in {"run", "broadcast"} BY <1>10 DEF CondSignal, CondBroadcast, IsAt
    <2>4. PICK f : Go(f) /\ f.at \in {"up", "run", "broadcast"} BY <2>2 DEF At, Frame
    <2> QED BY <1>4, <2>3, <2>4 DEF IqPcs, Acquiring
  <1>11. CASE \/ \E u \in Threads : ThreadCreate(u)
              \/ ThreadExit \/ ThreadYield \/ TimerSleepTurn
              \/ \E n \in 1 .. MaxSleep : TimerSleep(n)
    <2>1. pc' = pc \/ \E a \in {"tid_acquire", "dead", "run", "sleep"} : Go(At(a))
      BY <1>11 DEF ThreadCreate, ThreadExit, ThreadYield, TimerSleepTurn, TimerSleep
    <2>2. g.at \in {"run", "sleep"}
      BY <1>11 DEF ThreadCreate, ThreadExit, ThreadYield, TimerSleepTurn, TimerSleep, IsAt
    <2> QED BY <1>4, <2>1, <2>2 DEF IqPcs, Acquiring, At
  <1> HIDE DEF g
  <1> QED BY <1>2, <1>3, <1>5, <1>6, <1>7, <1>8, <1>9, <1>10, <1>11 DEF Next, ThreadStep

\* Those steps take no lock away from such a thread, and a thread that gets to
\* print has just become the holder.
LEMMA NextHolder ==
    ASSUME IInv, Acquires, [Next]_synchVars, NEW t \in Threads, NEW l \in Locks
    PROVE  /\ holder[l] = t /\ pc[t].at \in IqPcs \cup {"print"} => holder'[l] = t
           /\ pc'[t].at = "print" /\ pc[t].at = "own" /\ pc[t].on = l => holder'[l] = t
  <1>0. cur \in Threads /\ holder \in [Locks -> Threads \cup {NULL}]
    BY Running DEF IInv, Data
  <1>1. CASE SetHolder
    <2>1. PICK x \in Locks : x = pc[cur].on
      BY <1>0, <1>1 DEF IInv, Frames, GoodFrame, SetHolder, IsAt
    <2>2. holder[x] = NULL
      BY <1>0, <1>1, <2>1 DEF IInv, Tokens, Has, InTransit, SetHolder, IsAt
    <2>3. holder' = [holder EXCEPT ![x] = cur] BY <1>1, <2>1 DEF SetHolder
    <2>4. t # cur => pc'[t] = pc[t] BY NextWay
    <2> QED BY <1>0, <2>1, <2>2, <2>3, <2>4, SynchAssumption
  <1>2. CASE (\E x \in Locks, r \in {"run", "cw_down", "created"} : lock_release(x, r))
             /\ pc[cur].at \in {"run", "cw_release", "tid_store"}
    <2>1. PICK x \in Locks : holder[x] = cur /\ holder' = [holder EXCEPT ![x] = NULL]
      BY <1>2 DEF lock_release
    <2>2. t # cur => pc'[t] = pc[t] BY NextWay
    <2> QED BY <1>0, <1>2, <2>1, <2>2 DEF IqPcs
  <1>3. CASE UNCHANGED holder
    <2>1. CASE t = cur /\ pc[t].at = "own" /\ pc'[t].at = "print"
      <3>1. Resume \/ Up \/ SetHolder \/ IsAt("own") BY <2>1 DEF IsAt
      <3>2. SetHolder \/ UNCHANGED pc \/ pc' = [pc EXCEPT ![cur] = At("idle_loop")]
        BY <2>1, SynchAssumption
           DEF Next, ThreadStep, ThreadStart, WaitIdleStarted, IdleStart, IdleBlock,
         Resume, Up, LockAcquire, LockTryAcquire, LockRelease, CondWait, CondWaitRelease,
         CondWaitDown, CondWaitAcquire, CondSignal, CondBroadcast, ThreadCreate, TidAcquire,
         TidLoad, TidStore, ThreadCreated, ThreadExit, ThreadYield, TimerSleep,
         TimerSleepTurn, TimerInterrupt, Unhalt, synchVars, IsAt
      <3> QED BY <1>0, <1>1, <2>1, <3>2 DEF At, IInv, Frames
    <2> QED BY <1>3, <2>1, NextWay
  <1>4. CASE Next
    BY <1>1, <1>2, <1>3, <1>4, SynchAssumption
       DEF Next, ThreadStep, ThreadStart, WaitIdleStarted, IdleStart, IdleBlock,
         Resume, Up, LockAcquire, LockTryAcquire, LockRelease, CondWait, CondWaitRelease,
         CondWaitDown, CondWaitAcquire, CondSignal, CondBroadcast, ThreadCreate, TidAcquire,
         TidLoad, TidStore, ThreadCreated, ThreadExit, ThreadYield, TimerSleep,
         TimerSleepTurn, TimerInterrupt, IsAt
  <1> QED BY <1>3, <1>4 DEF synchVars

\* A step of schedule wakes nobody but the idle thread.
LEMMA ScheduleBlocked ==
    ASSUME IInv, NEW st, NEW r, schedule([status EXCEPT ![cur] = st], r),
           r = ready_list \/ r = Append(ready_list, cur),
           NEW t \in Threads, t # idle, status[t] = "blocked"
    PROVE  status'[t] = "blocked"
  <1>1. cur \in Threads /\ status[cur] = "running" BY Running
  <1>2. next_thread_to_run(r) # t
    <2>1. CASE r = <<>>
      BY <2>1, SynchAssumption DEF next_thread_to_run, IInv, Sched
    <2>2. CASE r # <<>>
      <3>1. r \in Seq(Threads) /\ ToSet(r) \subseteq ToSet(ready_list) \cup {cur}
        <4>1. ready_list \in Seq(Threads) BY DEF IInv, Sched
        <4>2. /\ Append(ready_list, cur) \in Seq(Threads)
              /\ ToSet(Append(ready_list, cur)) = ToSet(ready_list) \cup {cur}
          BY <1>1, <4>1, AppendFacts
        <4>3. CASE r = ready_list BY <4>1, <4>3
        <4>4. CASE r = Append(ready_list, cur) BY <4>2, <4>4
        <4> QED BY <4>3, <4>4
      <3>2. Head(r) \in ToSet(r) BY <2>2, <3>1, TailFacts
      <3>3. t \notin ToSet(ready_list) BY DEF IInv, Sched
      <3> QED BY <1>1, <2>2, <3>1, <3>2, <3>3 DEF next_thread_to_run
    <2> QED BY <2>1, <2>2
  <1>3. t # cur BY <1>1
  <1>4. status \in [Threads -> {"none", "blocked", "ready", "running", "dying", "freed"}]
    BY DEF IInv, Sched
  <1> QED BY <1>2, <1>3, <1>4 DEF schedule, thread_schedule_tail

\* Who calls sema_up wakes a thread that waits for a semaphore, not for a queue.
LEMMA UpAsleep ==
    ASSUME IInv, NEW s \in Sems, sema_up(s), NEW t \in Threads, Asleep(t)
    PROVE  status'[t] = "blocked"
  <1> USE DEF Asleep
  <1>1. CASE sema[s].waiters = <<>> BY <1>1 DEF sema_up, schedVars
  <1>2. CASE sema[s].waiters # <<>>
    <2>1. sema[s].waiters \in Seq(Threads) BY DEF IInv, Data, Semas
    <2> DEFINE u == Head(sema[s].waiters)
    <2>2. u \in Threads /\ u \in ToSet(sema[s].waiters) BY <1>2, <2>1, TailFacts
    <2>3. thread_unblock(u) BY <1>2 DEF sema_up
    <2>4. pc[u].at \in {"down", "iq_lock"} BY <2>2 DEF IInv, Waiters
    <2> HIDE DEF u
    <2> QED BY <2>2, <2>3, <2>4 DEF thread_unblock, IInv, Sched
  <1> QED BY <1>1, <1>2

\* Nor does a thread that blocks in sema_down.
LEMMA DownAsleep ==
    ASSUME IInv, NEW s, NEW f, NEW d, sema_down(s, f, d), NEW t \in Threads, Asleep(t)
    PROVE  status'[t] = "blocked"
  <1>1. t # idle BY SynchAssumption DEF Asleep, IInv, Frames, GoodFrame
  <1>2. CASE thread_block BY <1>1, <1>2, ScheduleBlocked DEF thread_block, Asleep
  <1>3. CASE UNCHANGED schedVars BY <1>3 DEF schedVars, Asleep
  <1> QED BY <1>2, <1>3 DEF sema_down

\* Only the handlers and functions of this module wake a thread that sleeps on a
\* queue.
LEMMA NextAsleep ==
    ASSUME IInv, [Next]_synchVars, NEW t \in Threads, Asleep(t)
    PROVE  status'[t] = "blocked"
  <1> USE SynchAssumption DEF Asleep
  <1>0. /\ cur \in Threads /\ status[cur] = "running" /\ t # cur /\ t # idle
        /\ status \in [Threads -> {"none", "blocked", "ready", "running", "dying", "freed"}]
    BY Running DEF IInv, Sched, Frames, GoodFrame
  <1>1. CASE UNCHANGED status BY <1>1
  <1>2. CASE \E st : schedule([status EXCEPT ![cur] = st], ready_list)
                     \/ schedule([status EXCEPT ![cur] = st], Append(ready_list, cur))
    BY <1>0, <1>2, ScheduleBlocked
  <1>3. CASE thread_block BY <1>2, <1>3 DEF thread_block
  <1>4. CASE thread_yield BY <1>2, <1>4 DEF thread_yield
  <1>5. CASE \E u \in Threads \ {t} : thread_unblock(u)
    BY <1>0, <1>5 DEF thread_unblock
  <1>6. CASE \E s \in Sems : sema_up(s) BY <1>6, UpAsleep
  <1>7. CASE \E s, f, d : sema_down(s, f, d) BY <1>7, DownAsleep
  <1>8. CASE Next
    <2>1. CASE ThreadStart BY <1>5, <2>1, <1>0 DEF ThreadStart, IInv, Frames, GoodFrame
    <2>2. CASE WaitIdleStarted \/ Resume \/ CondWaitDown
      BY <1>7, <2>2 DEF WaitIdleStarted, Resume, CondWaitDown
    <2>3. CASE \E l \in Locks : LockAcquire(l)
      BY <1>7, <2>3 DEF LockAcquire, lock_acquire
    <2>4. CASE TidAcquire \/ CondWaitAcquire
      BY <1>7, <2>4 DEF TidAcquire, CondWaitAcquire, lock_acquire
    <2>5. CASE IdleStart BY <1>6, <2>5 DEF IdleStart, Sems
    <2>6. CASE Up BY <1>0, <1>6, <2>6 DEF Up, IsAt, IInv, Frames, GoodFrame
    <2>7. CASE \E u \in Threads : ThreadCreate(u)
      BY <1>0, <2>7 DEF ThreadCreate
    <2>8. CASE ThreadCreated
      <3>1. new[cur] # NULL
        BY <1>0, <2>8 DEF ThreadCreated, IsAt, IInv, News, Creating
      <3>2. new[cur] \in Threads /\ pc[new[cur]].at = "run"
        BY <1>0, <3>1 DEF IInv, News, Data
      <3> QED BY <1>5, <2>8, <3>2 DEF ThreadCreated
    <2>9. CASE ThreadExit BY <1>2, <2>9 DEF ThreadExit
    <2>10. CASE ThreadYield \/ TimerSleepTurn
      BY <1>1, <1>4, <2>10 DEF ThreadYield, TimerSleepTurn, schedVars
    <2>11. CASE TimerInterrupt BY <1>1, <1>4, <2>11 DEF TimerInterrupt
    <2>12. CASE IdleBlock BY <1>3, <2>12 DEF IdleBlock
    <2>13. CASE \/ SetHolder \/ LockTryAcquire(mon) \/ LockRelease(mon) \/ CondWait
                \/ CondWaitRelease \/ CondSignal \/ CondBroadcast \/ TidLoad \/ TidStore
                \/ \E n \in 1 .. MaxSleep : TimerSleep(n)
      BY <1>1, <2>13 DEF SetHolder, LockTryAcquire, LockRelease, CondWait, CondWaitRelease,
         CondSignal, CondBroadcast, TidLoad, TidStore, TimerSleep, schedVars
    <2> QED BY <1>8, <2>1, <2>2, <2>3, <2>4, <2>5, <2>6, <2>7, <2>8, <2>9, <2>10, <2>11,
               <2>12, <2>13 DEF Next, ThreadStep
  <1> QED BY <1>1, <1>8 DEF synchVars, schedVars

-----------------------------------------------------------------------------
(* The queues and what goes through them.                                 *)

\* What putbuf queues, or what the buffer holds at first.
Char == (Threads \X Nat \X Nat) \cup {0}

\* The types of the state of this module.
IoTypes ==
    /\ DOMAIN q = {rx, tx} /\ q[rx] \in Rings(Nat) /\ q[tx] \in Rings(Char)
    /\ typed \in Nat /\ got \in Seq(Nat) /\ sent \in Seq(Char)
    /\ msgs \in [Threads -> Nat] /\ left \in [Threads -> Nat]

\* Two rings with the same bytes.
SameRing(j, k) == j.buf = k.buf /\ j.head = k.head /\ j.tail = k.tail

\* The waiter is not among the bytes.
LEMMA SameContents ==
    ASSUME NEW j, NEW k, SameRing(j, k)
    PROVE  Contents(j) = Contents(k) /\ (intq_empty(j) <=> intq_empty(k))
           /\ (intq_full(j) <=> intq_full(k))
BY DEF SameRing, Contents, intq_empty, intq_full

\* A new value of one field of a ring.
LEMMA WaiterRing ==
    ASSUME NEW S, NEW k \in Rings(S), NEW u \in Threads \cup {NULL}
    PROVE  /\ [k EXCEPT !.waiter = u] \in Rings(S) /\ SameRing([k EXCEPT !.waiter = u], k)
           /\ [k EXCEPT !.waiter = u].waiter = u
  <1> DEFINE j == [k EXCEPT !.waiter = u]
  <1>1. j = [buf |-> k.buf, head |-> k.head, tail |-> k.tail, waiter |-> u] BY DEF Rings
  <1>2. \A b \in [0 .. N - 1 -> S], h, t \in 0 .. N - 1, w \in Threads \cup {NULL} :
           [buf |-> b, head |-> h, tail |-> t, waiter |-> w] \in Rings(S)
    BY DEF Rings
  <1>3. k.buf \in [0 .. N - 1 -> S] /\ k.head \in 0 .. N - 1 /\ k.tail \in 0 .. N - 1
    BY DEF Rings
  <1> QED BY <1>1, <1>2, <1>3 DEF SameRing

\* serial_flush empties the queue.
LEMMA FlushRing ==
    ASSUME NEW S, NEW k \in Rings(S)
    PROVE  LET j == [k EXCEPT !.tail = k.head, !.waiter = NULL]
           IN  j \in Rings(S) /\ Contents(j) = <<>> /\ j.waiter = NULL
  <1> DEFINE j == [k EXCEPT !.tail = k.head, !.waiter = NULL]
  <1>1. j = [buf |-> k.buf, head |-> k.head, tail |-> k.head, waiter |-> NULL]
    <2>1. k = [buf |-> k.buf, head |-> k.head, tail |-> k.tail, waiter |-> k.waiter]
      BY DEF Rings
    <2>2. DOMAIN k = {"buf", "head", "tail", "waiter"} BY <2>1
    <2>3. j = [f \in {"buf", "head", "tail", "waiter"} |->
                 IF f = "waiter" THEN NULL ELSE IF f = "tail" THEN k.head ELSE k[f]]
      BY <2>2
    <2> QED BY <2>3
  <1>2. \A b \in [0 .. N - 1 -> S], h, t \in 0 .. N - 1, w \in Threads \cup {NULL} :
           [buf |-> b, head |-> h, tail |-> t, waiter |-> w] \in Rings(S)
    BY DEF Rings
  <1>3. k.buf \in [0 .. N - 1 -> S] /\ k.head \in 0 .. N - 1 /\ k.tail \in 0 .. N - 1
    BY DEF Rings
  <1>4. j \in Rings(S) /\ j.head = j.tail /\ j.waiter = NULL BY <1>1, <1>2, <1>3
  <1> HIDE DEF j
  <1>5. Contents(j) \in Seq(S) /\ Len(Contents(j)) = 0
    BY <1>4, RingFacts DEF Rings
  <1> QED BY <1>4, <1>5 DEF j

\* What a step does to the queues, and to what comes out of them and goes in.
QSame(x) == SameRing(q'[x], q[x]) /\ q'[x] \in (IF x = rx THEN Rings(Nat) ELSE Rings(Char))

\* What a step does to the input: nothing, a byte put, a byte taken.
InputStep ==
    \/ QSame(rx) /\ UNCHANGED <<typed, got>>
    \/ ~intq_full(q[rx]) /\ q'[rx] = Put(q[rx], typed + 1) /\ typed' = typed + 1 /\ got' = got
    \/ ~intq_empty(q[rx]) /\ q'[rx] = Take(q[rx]) /\ typed' = typed
       /\ got' = Append(got, q[rx].buf[q[rx].tail])

\* Each of these keeps the input in order.
LEMMA InputKeeps ==
    ASSUME IoTypes, InputInOrder, InputStep
    PROVE  /\ InputInOrder' /\ q'[rx] \in Rings(Nat) /\ typed' \in Nat /\ got' \in Seq(Nat)
  <1> DEFINE k == q[rx]
             c == Contents(k)
             o == [i \in 1 .. typed |-> i]
  <1>1. k \in Rings(Nat) /\ c \in Seq(Nat) /\ got \in Seq(Nat) /\ typed \in Nat
    BY RingFacts DEF IoTypes
  <1>2. got \o c = o BY DEF InputInOrder
  <1>3. CASE QSame(rx) /\ UNCHANGED <<typed, got>>
    BY <1>1, <1>2, <1>3, SameContents DEF QSame, InputInOrder
  <1>4. CASE ~intq_full(k) /\ q'[rx] = Put(k, typed + 1) /\ typed' = typed + 1 /\ got' = got
    <2>1. typed + 1 \in Nat BY <1>1
    <2>2. q'[rx] \in Rings(Nat) /\ Contents(q'[rx]) = Append(c, typed + 1)
      BY <1>1, <1>4, <2>1, PutRing
    <2>3. got \o Append(c, typed + 1) = Append(o, typed + 1)
      <3> HIDE DEF c, o
      <3>1. got \o Append(c, typed + 1) = Append(got \o c, typed + 1)
        BY <1>1, <2>1, JoinFacts
      <3> QED BY <1>2, <3>1
    <2>4. Append(o, typed + 1) = [i \in 1 .. typed + 1 |-> i]
      <3>1. o \in Seq(Nat) /\ Len(o) = typed BY <1>1
      <3>2. Append(o, typed + 1) \in Seq(Nat) /\ Len(Append(o, typed + 1)) = typed + 1
        BY <1>1, <3>1
      <3>3. \A i \in 1 .. typed + 1 : Append(o, typed + 1)[i] = i BY <1>1, <3>1
      <3> DEFINE p == [i \in 1 .. typed + 1 |-> i]
      <3>4. p \in Seq(Nat) /\ Len(p) = typed + 1 BY <1>1
      <3>5. \A i \in 1 .. typed + 1 : p[i] = i OBVIOUS
      <3> HIDE DEF p, o
      <3>6. Append(o, typed + 1) = p BY <3>2, <3>3, <3>4, <3>5, SeqEqual
      <3> QED BY <3>6 DEF p
    <2>5. (got \o Contents(q[rx]))' = Append(o, typed + 1) BY <1>4, <2>2, <2>3
    <2>6. (got \o Contents(q[rx]))' = [i \in 1 .. typed' |-> i] BY <1>4, <2>4, <2>5
    <2> QED BY <1>1, <1>4, <2>1, <2>2, <2>6 DEF InputInOrder
  <1>5. CASE ~intq_empty(k) /\ q'[rx] = Take(k) /\ typed' = typed
             /\ got' = Append(got, k.buf[k.tail])
    <2>1. /\ q'[rx] \in Rings(Nat) /\ c # <<>> /\ Head(c) = k.buf[k.tail]
          /\ Contents(q'[rx]) = Tail(c)
      BY <1>1, <1>5, TakeRing
    <2> HIDE DEF c
    <2>2. Append(got, Head(c)) \o Tail(c) = got \o c BY <1>1, <2>1, JoinFacts
    <2>3. got' \in Seq(Nat) /\ got' = Append(got, Head(c)) BY <1>1, <1>5, <2>1, TailFacts
    <2>4. (got \o Contents(q[rx]))' = o BY <1>2, <2>1, <2>2, <2>3
    <2> QED BY <1>1, <1>5, <2>1, <2>3, <2>4 DEF InputInOrder
  <1> QED BY <1>3, <1>4, <1>5 DEF InputStep

\* What a step that prints nothing does to the output: nothing, or bytes sent.
OutputStep ==
    \/ QSame(tx) /\ sent' = sent
    \/ ~intq_empty(q[tx]) /\ q'[tx] = Take(q[tx])
       /\ sent' = Append(sent, q[tx].buf[q[tx].tail])
    \/ q'[tx] = [q[tx] EXCEPT !.tail = q[tx].head, !.waiter = NULL]
       /\ sent' = sent \o Contents(q[tx])

\* None of these changes what has been printed.
LEMMA OutputKeeps ==
    ASSUME IoTypes, OutputStep
    PROVE  Printed' = Printed /\ q'[tx] \in Rings(Char) /\ sent' \in Seq(Char)
  <1> DEFINE k == q[tx]
             c == Contents(k)
  <1>1. k \in Rings(Char) /\ c \in Seq(Char) /\ sent \in Seq(Char)
    BY RingFacts DEF IoTypes
  <1>2. CASE QSame(tx) /\ sent' = sent
    BY <1>1, <1>2, SameContents, ConsoleAssumption DEF QSame, Printed
  <1>3. CASE ~intq_empty(k) /\ q'[tx] = Take(k) /\ sent' = Append(sent, k.buf[k.tail])
    <2>1. /\ q'[tx] \in Rings(Char) /\ c # <<>> /\ Head(c) = k.buf[k.tail]
          /\ Contents(q'[tx]) = Tail(c)
      BY <1>1, <1>3, TakeRing
    <2> HIDE DEF c
    <2>2. Append(sent, Head(c)) \o Tail(c) = sent \o c BY <1>1, <2>1, JoinFacts
    <2>3. sent' \in Seq(Char) /\ sent' = Append(sent, Head(c)) BY <1>1, <1>3, <2>1, TailFacts
    <2>4. Printed' = sent \o c BY <2>1, <2>2, <2>3 DEF Printed
    <2> QED BY <2>1, <2>3, <2>4 DEF Printed, c
  <1>4. CASE q'[tx] = [k EXCEPT !.tail = k.head, !.waiter = NULL] /\ sent' = sent \o c
    <2>1. q'[tx] \in Rings(Char) /\ Contents(q'[tx]) = <<>> BY <1>1, <1>4, FlushRing
    <2>2. sent \o c \in Seq(Char) BY <1>1
    <2> HIDE DEF c
    <2>3. Printed' = sent \o c BY <1>4, <2>1, <2>2, ConcatEmptySeq DEF Printed
    <2> QED BY <1>4, <2>1, <2>2, <2>3 DEF Printed, c
  <1> QED BY <1>2, <1>3, <1>4 DEF OutputStep

\* A character is printed into a queue with room, or a full one is first relieved.
LEMMA PrintedGrows ==
    ASSUME IoTypes, NEW b \in Char,
           \/ /\ ~intq_full(q[tx]) /\ q'[tx] = Put(q[tx], b) /\ sent' = sent
           \/ /\ intq_full(q[tx]) /\ q'[tx] = Put(Take(q[tx]), b)
              /\ sent' = Append(sent, q[tx].buf[q[tx].tail])
    PROVE  Printed' = Append(Printed, b) /\ q'[tx] \in Rings(Char) /\ sent' \in Seq(Char)
           /\ q'[tx].waiter = NULL
  <1> DEFINE k == q[tx]
             c == Contents(k)
  <1>1. k \in Rings(Char) /\ c \in Seq(Char) /\ sent \in Seq(Char)
    BY RingFacts DEF IoTypes
  <1>2. CASE ~intq_full(k) /\ q'[tx] = Put(k, b) /\ sent' = sent
    <2>1. q'[tx] \in Rings(Char) /\ Contents(q'[tx]) = Append(c, b) /\ q'[tx].waiter = NULL
      BY <1>1, <1>2, PutRing
    <2>2. sent \o Append(c, b) = Append(sent \o c, b) BY <1>1, JoinFacts
    <2> HIDE DEF c
    <2>3. Printed' = Append(sent \o c, b) BY <1>2, <2>1, <2>2 DEF Printed
    <2> QED BY <1>1, <1>2, <2>1, <2>3 DEF Printed, c
  <1>3. CASE intq_full(k) /\ q'[tx] = Put(Take(k), b) /\ sent' = Append(sent, k.buf[k.tail])
    <2>1. /\ Take(k) \in Rings(Char) /\ c # <<>> /\ Head(c) = k.buf[k.tail]
          /\ Contents(Take(k)) = Tail(c) /\ ~intq_full(Take(k))
      BY <1>1, <1>3, FullNotEmpty, TakeRing
    <2>2. /\ q'[tx] \in Rings(Char) /\ Contents(q'[tx]) = Append(Tail(c), b)
          /\ q'[tx].waiter = NULL
      BY <1>3, <2>1, PutRing
    <2>3. sent' \in Seq(Char) /\ sent' = Append(sent, Head(c)) /\ Tail(c) \in Seq(Char)
      BY <1>1, <1>3, <2>1, TailFacts
    <2>4. sent' \o Append(Tail(c), b) = Append(sent' \o Tail(c), b) BY <2>3, JoinFacts
    <2> HIDE DEF c
    <2>5. Append(sent, Head(c)) \o Tail(c) = sent \o c BY <1>1, <2>1, JoinFacts
    <2>6. Printed' = Append(sent \o c, b) BY <2>2, <2>3, <2>4, <2>5 DEF Printed
    <2> QED BY <2>2, <2>3, <2>6 DEF Printed, c
  <1> QED BY <1>2, <1>3

-----------------------------------------------------------------------------
(* Console output.                                                        *)

\* A thread that prints a message, under the console lock.
Printing(f) == f.at = "print" \/ (f.at \in IqPcs /\ f.on = tx)

\* The thread that prints is the holder of the console lock, and the character
\* that it has printed last is the last one.
Out == \A t \in Threads :
    /\ Printing(pc[t]) => holder[console_lock] = t
    /\ pc[t].at \in IqPcs /\ pc[t].on = tx => left[t] > 0
    /\ Acquiring(pc[t]) => left[t] = MsgLen
    /\ left[t] <= MsgLen
    /\ Printing(pc[t]) /\ left[t] < MsgLen =>
         Printed # <<>> /\ Printed[Len(Printed)] = <<t, msgs[t], left[t] + 1>>

\* Of a message that is being printed, or about to be, the characters from left on
\* are still to come.
Chars == \A i \in 1 .. Len(Printed) :
    LET b == Printed[i] IN
    /\ b \in Threads \X Nat \X Nat /\ b[2] <= msgs[b[1]]
    /\ b[2] = msgs[b[1]] /\ (Printing(pc[b[1]]) \/ Acquiring(pc[b[1]])) => b[3] > left[b[1]]

\* What is shown about the output.
Output == Out /\ Chars /\ OutputUnmixed

\* The running thread goes on at f, as the calls of this module do.
StepsTo(f) ==
    /\ Moves(f)
    /\ f.at \in IqPcs => f.on \in {rx, tx} /\ f.ret = IF f.on = rx THEN "run" ELSE "print"
    /\ f.at = "iq_wait" => holder'[f.on] = cur
    /\ Acquiring(f) => f.on = console_lock
    /\ \A t \in Threads \ {cur}, l \in Locks : holder[l] = t => holder'[l] = t

\* Iq and Acquires are kept by such a step.
LEMMA WaysKept ==
    ASSUME IInv, Iq, Acquires, NEW f, StepsTo(f) PROVE Iq' /\ Acquires'
  <1>1. \A t \in Threads : pc'[t] = IF t = cur THEN f ELSE pc[t] BY DEF StepsTo, Moves
  <1>2. {rx, tx} \subseteq Locks BY ConsoleAssumption
  <1>3. ASSUME NEW t \in Threads, pc'[t].at \in IqPcs
        PROVE  pc'[t].on \in {rx, tx} /\ pc'[t].ret = IF pc'[t].on = rx THEN "run" ELSE "print"
    BY <1>1, <1>3 DEF StepsTo, Iq
  <1>4. ASSUME NEW t \in Threads, pc'[t].at = "iq_wait" PROVE holder'[pc'[t].on] = t
    BY <1>1, <1>2, <1>3, <1>4 DEF StepsTo, Iq, IqPcs
  <1>5. ASSUME NEW t \in Threads, Acquiring(pc'[t]) PROVE pc'[t].on = console_lock
    BY <1>1, <1>5 DEF StepsTo, Acquires
  <1> QED BY <1>3, <1>4, <1>5 DEF Iq, Acquires

\* Nothing is printed, and nobody goes beyond acquiring the console lock.
LEMMA QuietOutput ==
    ASSUME Output, Printed' = Printed, msgs' = msgs, left' = left,
           \A t \in Threads :
             /\ Printing(pc'[t]) => holder'[console_lock] = t
             /\ Printing(pc'[t]) => Printing(pc[t]) \/ Acquiring(pc[t])
             /\ pc'[t].at \in IqPcs /\ pc'[t].on = tx => left[t] > 0
             /\ Acquiring(pc'[t]) => Acquiring(pc[t])
    PROVE  Output'
  <1>1. Out'
    <2>1. ASSUME NEW t \in Threads, Printing(pc'[t]), left[t] < MsgLen
          PROVE  Printed # <<>> /\ Printed[Len(Printed)] = <<t, msgs[t], left[t] + 1>>
      <3>1. ~Acquiring(pc[t]) BY <2>1, ConsoleAssumption DEF Output, Out
      <3> QED BY <2>1, <3>1 DEF Output, Out
    <2> QED BY <2>1 DEF Output, Out
  <1>2. Chars'
    <2>1. ASSUME NEW i \in 1 .. Len(Printed)
          PROVE  LET b == Printed[i] IN
                 /\ b \in Threads \X Nat \X Nat /\ b[2] <= msgs[b[1]]
                 /\ b[2] = msgs[b[1]] /\ (Printing(pc'[b[1]]) \/ Acquiring(pc'[b[1]]))
                      => b[3] > left[b[1]]
      BY <2>1 DEF Output, Chars
    <2> QED BY <2>1 DEF Chars
  <1>3. OutputUnmixed' BY DEF Output, OutputUnmixed
  <1> QED BY <1>1, <1>2, <1>3 DEF Output

\* The same, of a step of the running thread.
LEMMA QuietStep ==
    ASSUME IInv, Output, NEW f, StepsTo(f), Printed' = Printed, msgs' = msgs, left' = left,
           Printing(f) => Printing(pc[cur]) /\ holder'[console_lock] = cur,
           f.at \in IqPcs /\ f.on = tx => left[cur] > 0,
           Acquiring(f) => Acquiring(pc[cur])
    PROVE  Output'
  <1>1. \A t \in Threads : pc'[t] = IF t = cur THEN f ELSE pc[t] BY DEF StepsTo, Moves
  <1>2. ASSUME NEW t \in Threads
        PROVE  /\ Printing(pc'[t]) => holder'[console_lock] = t
               /\ Printing(pc'[t]) => Printing(pc[t]) \/ Acquiring(pc[t])
               /\ pc'[t].at \in IqPcs /\ pc'[t].on = tx => left[t] > 0
               /\ Acquiring(pc'[t]) => Acquiring(pc[t])
    <2>1. CASE t = cur BY <1>1, <2>1
    <2>2. CASE t # cur BY <1>1, <2>2, ConsoleAssumption DEF StepsTo, Output, Out
    <2> QED BY <2>1, <2>2
  <1> QED BY <1>2, QuietOutput

\* A character is appended to what was printed.
LEMMA AppendChar ==
    ASSUME NEW S, NEW p \in Seq(S), NEW b \in S
    PROVE  /\ Len(Append(p, b)) = Len(p) + 1 /\ Len(p) \in Nat /\ Append(p, b) # <<>>
           /\ Append(p, b)[Len(p) + 1] = b
           /\ \A i \in 1 .. Len(p) : Append(p, b)[i] = p[i]
  <1>1. Len(Append(p, b)) = Len(p) + 1 /\ Len(p) \in Nat OBVIOUS
  <1>2. Append(p, b) # <<>> BY AppendFacts
  <1>3. Append(p, b)[Len(p) + 1] = b /\ \A i \in 1 .. Len(p) : Append(p, b)[i] = p[i] OBVIOUS
  <1> QED BY <1>1, <1>2, <1>3

\* OutputUnmixed is kept by character b, new, which begins a message or follows the
\* character before it.
LEMMA UnmixedGrows ==
    ASSUME OutputUnmixed, Printed \in Seq(Char), NEW b \in Char, Printed' = Append(Printed, b),
           \A i \in 1 .. Len(Printed) : Printed[i] # b,
           b[3] < MsgLen => Printed # <<>> /\ Printed[Len(Printed)] = <<b[1], b[2], b[3] + 1>>
    PROVE  OutputUnmixed'
  <1> DEFINE m == Len(Printed)
             P == Append(Printed, b)
  <1>1. /\ Len(P) = m + 1 /\ m \in Nat /\ P[m + 1] = b
        /\ \A i \in 1 .. m : P[i] = Printed[i]
    BY AppendChar
  <1>2. Printed # <<>> => m > 0 OBVIOUS
  <1> HIDE DEF P, m
  <1>3. ASSUME NEW i \in 1 .. m + 1
        PROVE  /\ P[i][3] < MsgLen => i > 1 /\ P[i - 1] = <<P[i][1], P[i][2], P[i][3] + 1>>
               /\ \A j \in 1 .. i - 1 : P[j] # P[i]
    <2>1. CASE i = m + 1
      <3>1. P[i] = b /\ i - 1 = m BY <1>1, <2>1
      <3>2. \A j \in 1 .. i - 1 : P[j] # P[i] BY <1>1, <3>1 DEF m
      <3>3. ASSUME b[3] < MsgLen PROVE i > 1 /\ P[i - 1] = <<b[1], b[2], b[3] + 1>>
        BY <1>1, <1>2, <2>1, <3>1, <3>3 DEF m
      <3> QED BY <3>1, <3>2, <3>3
    <2>2. CASE i # m + 1
      <3>1. i \in 1 .. m /\ P[i] = Printed[i] BY <1>1, <2>2
      <3>2. \A j \in 1 .. i - 1 : j \in 1 .. m /\ P[j] = Printed[j] BY <1>1, <3>1
      <3>3. i > 1 => P[i - 1] = Printed[i - 1] BY <1>1, <3>1, <3>2
      <3> QED BY <3>1, <3>2, <3>3 DEF OutputUnmixed, m
    <2> QED BY <2>1, <2>2
  <1>4. Printed' = P /\ Len(P) = m + 1 BY <1>1 DEF P
  <1> QED BY <1>3, <1>4 DEF OutputUnmixed

-----------------------------------------------------------------------------
(* The inductive invariant.                                               *)

\* The inductive invariant.
CInv == /\ IInv /\ IoTypes /\ Iq /\ Acquires /\ SleepsForReason /\ InputInOrder /\ Output

\* Only threads sleep on queues.
LEMMA SleepersType == IoTypes => Sleepers
BY DEF IoTypes, Sleepers, Rings

\* A thread asleep on a queue is left asleep, or its queue forgets it.
LEMMA SleepsKept ==
    ASSUME SleepsForReason,
           \A x \in {rx, tx} :
             \/ q'[x].waiter = NULL
             \/ /\ q'[x] = q[x]
                /\ q[x].waiter # NULL => /\ status'[q[x].waiter] = "blocked"
                                         /\ pc'[q[x].waiter] = pc[q[x].waiter]
    PROVE  SleepsForReason'
  <1>1. ASSUME NEW x \in {rx, tx}, q'[x].waiter # NULL
        PROVE  /\ IF x = rx THEN intq_empty(q'[x]) ELSE intq_full(q'[x])
               /\ status'[q'[x].waiter] = "blocked"
               /\ pc'[q'[x].waiter].at = "iq_wait" /\ pc'[q'[x].waiter].on = x
    <2>1. q'[x] = q[x] /\ q[x].waiter # NULL BY <1>1
    <2>2. /\ status'[q[x].waiter] = "blocked" /\ pc'[q[x].waiter] = pc[q[x].waiter]
      BY <2>1
    <2> QED BY <2>1, <2>2 DEF SleepsForReason, MustWait
  <1>2. SleepsForReason' = \A x \in {rx, tx} : q'[x].waiter # NULL =>
            /\ IF x = rx THEN intq_empty(q'[x]) ELSE intq_full(q'[x])
            /\ status'[q'[x].waiter] = "blocked"
            /\ pc'[q'[x].waiter].at = "iq_wait" /\ pc'[q'[x].waiter].on = x
    BY DEF SleepsForReason, MustWait
  <1> QED BY <1>1, <1>2

\* The thread asleep on a queue is not the running one.
LEMMA SleeperFacts ==
    ASSUME CInv, NEW x \in {rx, tx}, q[x].waiter # NULL
    PROVE  /\ q[x].waiter \in Threads /\ Asleep(q[x].waiter) /\ pc[q[x].waiter].on = x
           /\ q[x].waiter # cur
  <1>1. q[x].waiter \in Threads BY SleepersType DEF CInv, Sleepers
  <1>2. Asleep(q[x].waiter) /\ pc[q[x].waiter].on = x BY WaiterAsleep DEF CInv
  <1>3. status[cur] = "running" BY Running DEF CInv
  <1> QED BY <1>1, <1>2, <1>3 DEF Asleep

\* The state the kernel boots in satisfies it.
LEMMA InitCInv == ConsoleInit => CInv
  <1> SUFFICES ASSUME ConsoleInit PROVE CInv OBVIOUS
  <1> USE SynchAssumption, ConsoleAssumption
  <1>1. IInv BY InitIInv DEF ConsoleInit
  <1> DEFINE k == [buf |-> [i \in 0 .. INTQ_BUFSIZE - 1 |-> 0], head |-> 0, tail |-> 0,
                   waiter |-> NULL]
  <1>2. q = [x \in {rx, tx} |-> k] BY DEF ConsoleInit
  <1>3. k \in Rings(Nat) /\ k \in Rings(Char) BY DEF Rings, N, Char
  <1>4. k.head = 0 /\ k.tail = 0 /\ k.waiter = NULL OBVIOUS
  <1> HIDE DEF k
  <1>5. Contents(k) = <<>>
    <2>1. k \in Rings(Nat) /\ k.head >= k.tail /\ k.head - k.tail = 0 BY <1>3, <1>4
    <2>2. Contents(k) \in Seq(Nat) /\ Len(Contents(k)) = 0 BY <2>1, RingFacts
    <2> QED BY <2>2
  <1>6. IoTypes BY <1>2, <1>3 DEF IoTypes, ConsoleInit
  <1>7. Iq /\ Acquires BY DEF Iq, Acquires, Acquiring, IqPcs, ConsoleInit, Init, At
  <1>8. SleepsForReason BY <1>2, <1>4 DEF SleepsForReason
  <1>9. InputInOrder
    <2>1. got \o Contents(q[rx]) = <<>> BY <1>2, <1>5 DEF ConsoleInit
    <2>2. [i \in 1 .. 0 |-> i] = <<>> OBVIOUS
    <2> QED BY <2>1, <2>2 DEF InputInOrder, ConsoleInit
  <1>10. Output
    <2>1. Printed = <<>> BY <1>2, <1>5 DEF ConsoleInit, Printed
    <2>2. Len(Printed) = 0 BY <2>1
    <2>3. \A t \in Threads : ~Printing(pc[t]) /\ ~Acquiring(pc[t])
      BY DEF Printing, Acquiring, IqPcs, ConsoleInit, Init, At
    <2>4. \A t \in Threads : left[t] = 0 /\ pc[t].at \notin IqPcs
      BY DEF ConsoleInit, Init, At, IqPcs
    <2>5. Out BY <2>3, <2>4 DEF Out
    <2>6. Chars BY <2>2 DEF Chars
    <2>7. OutputUnmixed BY <2>2 DEF OutputUnmixed
    <2> QED BY <2>5, <2>6, <2>7 DEF Output
  <1> QED BY <1>1, <1>6, <1>7, <1>8, <1>9, <1>10 DEF CInv

\* A step that leaves the queues and the counts of characters alone.
LEMMA IoSame ==
    ASSUME IoTypes, InputInOrder, UNCHANGED <<q, typed, got, sent>>
    PROVE  /\ InputInOrder' /\ Printed' = Printed
           /\ msgs' \in [Threads -> Nat] /\ left' \in [Threads -> Nat] => IoTypes'
BY DEF IoTypes, InputInOrder, Printed

\* The kernel's own steps.
LEMMA NextKeepsAll ==
    ASSUME CInv, Next \/ UNCHANGED synchVars,
           UNCHANGED <<q, typed, got, sent, msgs, left>>
    PROVE  CInv'
  <1> USE DEF CInv
  <1>0. [Next]_synchVars OBVIOUS
  <1>1. IInv' BY <1>0, NextKeeps
  <1>2. UNCHANGED <<q, typed, got, sent, msgs, left>> OBVIOUS
  <1>3. IoTypes' /\ InputInOrder' /\ Printed' = Printed BY <1>2, IoSame DEF IoTypes
  <1>4. \A t \in Threads : SameWay(pc[t], pc'[t]) /\ (t # cur => pc'[t] = pc[t])
    BY <1>0, NextWay
  <1>5. \A t \in Threads, l \in Locks :
          /\ holder[l] = t /\ pc[t].at \in IqPcs \cup {"print"} => holder'[l] = t
          /\ pc'[t].at = "print" /\ pc[t].at = "own" /\ pc[t].on = l => holder'[l] = t
    BY <1>0, NextHolder
  <1>6. Iq' /\ Acquires'
    <2>1. ASSUME NEW t \in Threads, pc'[t].at \in IqPcs
          PROVE  pc'[t] = pc[t] /\ pc'[t].on \in {rx, tx}
                 /\ pc'[t].ret = IF pc'[t].on = rx THEN "run" ELSE "print"
      BY <1>4, <2>1 DEF SameWay, Iq
    <2>2. ASSUME NEW t \in Threads, pc'[t].at = "iq_wait" PROVE holder'[pc'[t].on] = t
      BY <1>5, <2>1, <2>2, ConsoleAssumption DEF IqPcs, Iq
    <2>3. ASSUME NEW t \in Threads, Acquiring(pc'[t]) PROVE pc'[t].on = console_lock
      BY <1>4, <2>3 DEF SameWay, Acquires, Acquiring
    <2> QED BY <2>1, <2>2, <2>3 DEF Iq, Acquires
  <1>7. SleepsForReason'
    <2>1. ASSUME NEW x \in {rx, tx}, q[x].waiter # NULL
          PROVE  /\ status'[q[x].waiter] = "blocked"
                 /\ pc'[q[x].waiter] = pc[q[x].waiter]
      <3>1. q[x].waiter \in Threads /\ Asleep(q[x].waiter) /\ q[x].waiter # cur
        BY <2>1, SleeperFacts
      <3> QED BY <1>0, <1>4, <3>1, NextAsleep
    <2> QED BY <1>2, <2>1, SleepsKept
  <1>8. Output'
    <2>1. ASSUME NEW t \in Threads
          PROVE  /\ Printing(pc'[t]) => holder'[console_lock] = t
                 /\ Printing(pc'[t]) => Printing(pc[t]) \/ Acquiring(pc[t])
                 /\ pc'[t].at \in IqPcs /\ pc'[t].on = tx => left[t] > 0
                 /\ Acquiring(pc'[t]) => Acquiring(pc[t])
      <3>1. CASE pc'[t] = pc[t]
        <4>1. Printing(pc[t]) => pc[t].at \in IqPcs \cup {"print"} BY DEF Printing
        <4> QED BY <1>5, <3>1, <4>1, ConsoleAssumption DEF Output, Out
      <3>2. CASE pc'[t].at \notin IqPcs \cup {"print"} /\ (Acquiring(pc'[t]) => Acquiring(pc[t]))
        BY <3>2 DEF Printing
      <3>3. CASE pc'[t].at = "print" /\ pc[t].at = "own" /\ pc[t].ret = "print"
        <4>1. Acquiring(pc[t]) /\ pc[t].on = console_lock BY <3>3 DEF Acquiring, Acquires
        <4>2. holder'[console_lock] = t BY <1>5, <3>3, <4>1, ConsoleAssumption
        <4> QED BY <3>3, <4>1, <4>2 DEF Printing, Acquiring, IqPcs
      <3> QED BY <1>4, <3>1, <3>2, <3>3 DEF SameWay, Acquiring
    <2> QED BY <1>2, <1>3, <2>1, QuietOutput
  <1> QED BY <1>1, <1>3, <1>6, <1>7, <1>8

-----------------------------------------------------------------------------
(* Every step keeps it.                                                   *)

\* The queues of a step that puts or takes nothing.
LEMMA NoIo ==
    ASSUME IoTypes, UNCHANGED <<q, typed, got, sent>> PROVE InputStep /\ OutputStep
BY ConsoleAssumption DEF IoTypes, InputStep, OutputStep, QSame, SameRing

\* The steps that print nothing: what they leave to be shown.
LEMMA Assembles ==
    ASSUME CInv, IInv', Iq', Acquires', SleepsForReason', Output', InputStep, OutputStep,
           DOMAIN q' = {rx, tx}, UNCHANGED <<msgs, left>>
    PROVE  CInv'
  <1>1. InputInOrder' /\ q'[rx] \in Rings(Nat) /\ typed' \in Nat /\ got' \in Seq(Nat)
    BY InputKeeps DEF CInv
  <1>2. q'[tx] \in Rings(Char) /\ sent' \in Seq(Char) BY OutputKeeps DEF CInv
  <1>3. IoTypes' BY <1>1, <1>2 DEF CInv, IoTypes
  <1> QED BY <1>1, <1>3 DEF CInv

\* OutputKeeps, from the invariant.
LEMMA NothingPrinted == ASSUME CInv, OutputStep PROVE Printed' = Printed
BY OutputKeeps DEF CInv

\* The queues' sleepers are left alone by a step that changes no queue.
LEMMA SleepersStay ==
    ASSUME CInv, q' = q, NEW f, Moves(f),
           \A t \in Threads : Asleep(t) => status'[t] = "blocked"
    PROVE  SleepsForReason'
  <1>1. ASSUME NEW x \in {rx, tx}, q[x].waiter # NULL
        PROVE  status'[q[x].waiter] = "blocked" /\ pc'[q[x].waiter] = pc[q[x].waiter]
    BY <1>1, SleeperFacts DEF Moves
  <1> QED BY <1>1, SleepsKept DEF CInv

\* input_getc begins: no queue changes.
LEMMA InputGetcAll == ASSUME CInv, InputGetc PROVE CInv'
  <1> USE SynchAssumption, ConsoleAssumption DEF CInv
  <1> DEFINE f == Frame("iq_loop", rx, "run")
  <1>1. /\ IInv' /\ cur \in Threads /\ pc[cur].at = "run" /\ Go(f)
        /\ UNCHANGED <<schedVars, holder, ioVars>>
    BY InputGetcKeeps, Running DEF InputGetc, IsAt
  <1>2. StepsTo(f)
    BY <1>1, GoMoves DEF StepsTo, Frame, IqPcs, Acquiring
  <1>3. UNCHANGED <<q, typed, got, sent, msgs, left>> BY <1>1 DEF ioVars
  <1>4. Iq' /\ Acquires' BY <1>2, WaysKept
  <1>5. SleepsForReason' BY <1>1, <1>2, <1>3, SleepersStay DEF StepsTo, schedVars, Asleep
  <1>6. InputStep /\ OutputStep BY <1>3, NoIo
  <1>7. ~Printing(f) /\ ~(f.at \in IqPcs /\ f.on = tx) /\ ~Acquiring(f)
    BY DEF Printing, Frame, Acquiring, IqPcs
  <1> HIDE DEF f
  <1>8. Output' BY <1>2, <1>3, <1>6, <1>7, NothingPrinted, QuietStep
  <1> QED BY <1>1, <1>3, <1>4, <1>5, <1>6, <1>8, Assembles DEF IoTypes

\* A woken thread releases the lock of the queue, and looks at the queue again.
LEMMA IqWokenAll == ASSUME CInv, IqWoken PROVE CInv'
  <1> USE SynchAssumption, ConsoleAssumption DEF CInv
  <1> DEFINE x == pc[cur].on
             f == Frame("iq_loop", x, pc[cur].ret)
  <1>1. /\ IInv' /\ cur \in Threads /\ pc[cur].at = "iq_wait" /\ Go(f)
        /\ holder' = [holder EXCEPT ![x] = NULL] /\ sema_up(x)
        /\ UNCHANGED <<q, typed, got, sent, msgs, left>>
    BY IqWokenKeeps, Running DEF IqWoken, IsAt, IqUnchanged
  <1>2. x \in {rx, tx} /\ pc[cur].ret = IF x = rx THEN "run" ELSE "print"
    BY <1>1 DEF Iq, IqPcs
  <1>3. \A t \in Threads \ {cur}, l \in Locks : holder[l] = t => holder'[l] = t
    BY <1>1 DEF IInv, Data, Iq
  <1>4. StepsTo(f)
    BY <1>1, <1>2, <1>3, GoMoves DEF StepsTo, Frame, IqPcs, Acquiring
  <1>5. Iq' /\ Acquires' BY <1>4, WaysKept
  <1>6. SleepsForReason'
    <2>1. \A t \in Threads : Asleep(t) => status'[t] = "blocked"
      BY <1>1, <1>2, UpAsleep DEF Sems
    <2> QED BY <1>1, <1>4, <2>1, SleepersStay DEF StepsTo
  <1>7. InputStep /\ OutputStep BY <1>1, NoIo
  <1>8. /\ Printing(f) => Printing(pc[cur]) /\ x = tx
        /\ f.at \in IqPcs /\ f.on = tx => left[cur] > 0
        /\ ~Acquiring(f)
    BY <1>1 DEF Printing, Frame, Acquiring, IqPcs, Output, Out
  <1>9. Printing(f) => holder'[console_lock] = cur
    BY <1>1, <1>8 DEF Output, Out, IInv, Data
  <1> HIDE DEF f
  <1>10. Output' BY <1>1, <1>4, <1>7, <1>8, <1>9, NothingPrinted, QuietStep
  <1> QED BY <1>1, <1>5, <1>6, <1>7, <1>10, Assembles DEF IoTypes

\* A thread that has printed all of its message gives the console lock back.
LEMMA PrintNextAll == ASSUME CInv, PrintNext PROVE CInv'
  <1> USE SynchAssumption, ConsoleAssumption DEF CInv
  <1>1. /\ IInv' /\ cur \in Threads /\ pc[cur].at = "print"
        /\ UNCHANGED <<status, q, typed, got, sent, msgs, left>>
    BY PrintNextKeeps, Running DEF PrintNext, IsAt, schedVars, ioVars
  <1>2. PICK f : /\ Go(f) /\ StepsTo(f) /\ ~Acquiring(f)
                 /\ Printing(f) => holder'[console_lock] = cur
                 /\ f.at \in IqPcs /\ f.on = tx => left[cur] > 0
    <2>1. CASE left[cur] > 0 /\ Go(Frame("iq_loop", tx, "print")) /\ UNCHANGED holder
      <3> DEFINE f == Frame("iq_loop", tx, "print")
      <3>1. StepsTo(f) /\ ~Acquiring(f)
        BY <2>1, GoMoves DEF StepsTo, Frame, IqPcs, Acquiring
      <3>2. holder'[console_lock] = cur BY <1>1, <2>1 DEF Output, Out, Printing
      <3> QED BY <2>1, <3>1, <3>2
    <2>2. CASE lock_release(console_lock, "run")
      <3> DEFINE f == Frame("up", console_lock, "run")
      <3>1. Go(f) /\ holder[console_lock] = cur /\ holder' = [holder EXCEPT ![console_lock] = NULL]
        BY <2>2 DEF lock_release
      <3>2. \A t \in Threads \ {cur}, l \in Locks : holder[l] = t => holder'[l] = t
        BY <3>1 DEF IInv, Data
      <3>3. StepsTo(f) /\ ~Acquiring(f) /\ ~Printing(f) /\ f.at \notin IqPcs
        BY <3>1, <3>2, GoMoves DEF StepsTo, Frame, IqPcs, Acquiring, Printing
      <3> QED BY <3>1, <3>3
    <2> QED BY <2>1, <2>2 DEF PrintNext
  <1>3. Iq' /\ Acquires' BY <1>2, WaysKept
  <1>4. SleepsForReason' BY <1>1, <1>2, SleepersStay DEF StepsTo, Asleep
  <1>5. InputStep /\ OutputStep BY <1>1, NoIo
  <1>6. Printing(pc[cur]) BY <1>1 DEF Printing
  <1>7. Output' BY <1>1, <1>2, <1>5, <1>6, NothingPrinted, QuietStep
  <1> QED BY <1>1, <1>3, <1>4, <1>5, <1>7, Assembles DEF IoTypes

\* A thread falls asleep on a queue: its lock was free, so nobody else was about to.
LEMMA IqLockAll == ASSUME CInv, IqLock PROVE CInv'
  <1> USE SynchAssumption, ConsoleAssumption DEF CInv
  <1> DEFINE x == pc[cur].on
             r == pc[cur].ret
  <1>1. /\ IInv' /\ cur \in Threads /\ pc[cur].at \in {"iq_loop", "iq_lock"}
        /\ UNCHANGED <<typed, got, sent, msgs, left>>
        /\ cur # idle
    BY IqLockKeeps, Running, Caller DEF IqLock, IsAt, IqUnchanged, IqPcs
  <1>2. x \in {rx, tx} /\ x \in Locks /\ r = IF x = rx THEN "run" ELSE "print"
    BY <1>1 DEF Iq, IqPcs
  <1>3. \A t \in Threads : Printing(pc[cur]) => holder[console_lock] = cur
    BY <1>1 DEF Output, Out
  <1>4. thread_block \/ UNCHANGED schedVars BY DEF IqLock
  <1>5. \A t \in Threads : Asleep(t) => status'[t] = "blocked"
    <2>1. ASSUME NEW t \in Threads, Asleep(t) PROVE status'[t] = "blocked"
      <3>1. t # idle BY <2>1 DEF Asleep, IInv, Frames, GoodFrame
      <3>2. CASE thread_block BY <2>1, <3>1, <3>2, ScheduleBlocked DEF thread_block, Asleep
      <3>3. CASE UNCHANGED schedVars BY <2>1, <3>3 DEF schedVars, Asleep
      <3> QED BY <1>4, <3>2, <3>3
    <2> QED BY <2>1
  <1>6. PICK f : /\ Go(f)
                 /\ \/ f = Frame("iq_lock", x, r) /\ UNCHANGED <<q, holder>>
                    \/ /\ sema[x].value > 0 /\ holder' = [holder EXCEPT ![x] = cur]
                       /\ \/ /\ f = Frame("iq_wait", x, r) /\ MustWait(x)
                             /\ q' = [q EXCEPT ![x].waiter = cur] /\ thread_block
                          \/ f = At("panic") /\ UNCHANGED q
    BY DEF IqLock
  <1>7. \A t \in Threads \ {cur}, l \in Locks : holder[l] = t => holder'[l] = t
    <2>1. sema[x].value > 0 => \A t \in Threads : holder[x] # t
      BY <1>2 DEF IInv, Tokens, Has
    <2> QED BY <1>2, <1>6, <2>1 DEF IInv, Data
  <1>8. /\ f.at \in IqPcs => f.on = x /\ f.ret = r
        /\ f.at = "iq_wait" => holder'[f.on] = cur
        /\ ~Acquiring(f) /\ (Printing(f) => Printing(pc[cur]))
    <2>1. \/ f = Frame("iq_lock", x, r)
          \/ f = At("panic")
          \/ f = Frame("iq_wait", x, r) /\ holder' = [holder EXCEPT ![x] = cur]
      BY <1>6
    <2>2. ~Acquiring(f) /\ (f.at \in IqPcs => f.on = x /\ f.ret = r)
      BY <2>1 DEF IqPcs, Frame, At, Acquiring
    <2>3. f.at \notin IqPcs => f.at = "panic" BY <2>1 DEF IqPcs, Frame, At
    <2>4. Printing(f) => Printing(pc[cur]) BY <1>1, <2>2, <2>3 DEF Printing, IqPcs, At
    <2>5. f.at = "iq_wait" => holder' = [holder EXCEPT ![x] = cur] BY <2>1 DEF Frame, At
    <2>6. f.at = "iq_wait" => holder'[f.on] = cur
      BY <1>2, <2>2, <2>5 DEF IInv, Data, IqPcs
    <2> QED BY <2>2, <2>4, <2>6
  <1>9. StepsTo(f) BY <1>2, <1>6, <1>7, <1>8, GoMoves DEF StepsTo
  <1>10. Iq' /\ Acquires' BY <1>9, WaysKept
  <1>11. /\ DOMAIN q' = {rx, tx} /\ SameRing(q'[rx], q[rx]) /\ SameRing(q'[tx], q[tx])
         /\ q'[rx] \in Rings(Nat) /\ q'[tx] \in Rings(Char)
         /\ \/ q' = q
            \/ /\ MustWait(x) /\ q'[x].waiter = cur /\ f = Frame("iq_wait", x, r) /\ thread_block
               /\ \A y \in {rx, tx} \ {x} : q'[y] = q[y]
    <2>1. CASE q' = q BY <2>1 DEF IoTypes, SameRing
    <2>2. CASE /\ f = Frame("iq_wait", x, r) /\ MustWait(x)
               /\ q' = [q EXCEPT ![x].waiter = cur] /\ thread_block
      <3>1. /\ DOMAIN q' = {rx, tx} /\ q'[x] = [q[x] EXCEPT !.waiter = cur]
            /\ \A y \in {rx, tx} \ {x} : q'[y] = q[y]
        BY <1>2, <2>2 DEF IoTypes
      <3>2. q[x] \in Rings(IF x = rx THEN Nat ELSE Char) BY <1>2 DEF IoTypes
      <3>3. /\ q'[x] \in Rings(IF x = rx THEN Nat ELSE Char) /\ SameRing(q'[x], q[x])
            /\ q'[x].waiter = cur
        BY <1>1, <3>1, <3>2, WaiterRing
      <3> HIDE DEF x, r
      <3>4. x = rx \/ x = tx BY <1>2
      <3> QED BY <2>2, <3>1, <3>3, <3>4 DEF IoTypes, SameRing
    <2> QED BY <1>6, <2>1, <2>2
  <1>12. InputStep /\ OutputStep BY <1>1, <1>11 DEF InputStep, OutputStep, QSame
  <1>13. SleepsForReason'
    <2>1. CASE q' = q BY <1>5, <1>9, <2>1, SleepersStay DEF StepsTo
    <2>2. CASE /\ MustWait(x) /\ q'[x].waiter = cur /\ f = Frame("iq_wait", x, r) /\ thread_block
               /\ \A y \in {rx, tx} \ {x} : q'[y] = q[y]
      <3>1. status'[cur] = "blocked"
        <4>1. idle_thread = idle BY <1>1, Caller DEF IqPcs
        <4> QED BY <1>1, <2>2, <4>1, ScheduleKeeps DEF thread_block, IInv, IqLock, IqUnchanged
      <3>2. pc'[cur] = f BY <1>1, <1>9 DEF StepsTo, Moves
      <3>3. IF x = rx THEN intq_empty(q'[x]) ELSE intq_full(q'[x])
        BY <1>2, <1>11, <2>2, SameContents DEF MustWait
      <3>4. ASSUME NEW y \in {rx, tx} \ {x}, q'[y].waiter # NULL
            PROVE  /\ IF y = rx THEN intq_empty(q'[y]) ELSE intq_full(q'[y])
                   /\ status'[q'[y].waiter] = "blocked"
                   /\ pc'[q'[y].waiter].at = "iq_wait" /\ pc'[q'[y].waiter].on = y
        <4>1. q'[y] = q[y] /\ q[y].waiter # NULL BY <2>2, <3>4
        <4>2. /\ q[y].waiter \in Threads /\ Asleep(q[y].waiter) /\ q[y].waiter # cur
          BY <4>1, SleeperFacts
        <4>3. status'[q[y].waiter] = "blocked" /\ pc'[q[y].waiter] = pc[q[y].waiter]
          BY <1>5, <1>9, <4>2 DEF StepsTo, Moves
        <4> QED BY <4>1, <4>3 DEF SleepsForReason, MustWait
      <3>5. SleepsForReason' = \A y \in {rx, tx} : q'[y].waiter # NULL =>
              /\ IF y = rx THEN intq_empty(q'[y]) ELSE intq_full(q'[y])
              /\ status'[q'[y].waiter] = "blocked"
              /\ pc'[q'[y].waiter].at = "iq_wait" /\ pc'[q'[y].waiter].on = y
        BY DEF SleepsForReason, MustWait
      <3>6. pc'[cur].at = "iq_wait" /\ pc'[cur].on = x BY <2>2, <3>2 DEF Frame
      <3> QED BY <2>2, <3>1, <3>3, <3>4, <3>5, <3>6
    <2> QED BY <1>11, <2>1, <2>2
  <1>14. Output'
    <2>1. Printing(f) => holder'[console_lock] = cur
      BY <1>2, <1>3, <1>6, <1>8 DEF IInv, Data
    <2>2. f.at \in IqPcs /\ f.on = tx => left[cur] > 0
      BY <1>1, <1>8 DEF Output, Out, IqPcs
    <2> QED BY <1>1, <1>8, <1>9, <1>12, <2>1, <2>2, NothingPrinted, QuietStep
  <1> QED BY <1>1, <1>10, <1>11, <1>12, <1>13, <1>14, Assembles

\* signal wakes nobody but the thread it is given.
LEMMA SignalOthers ==
    ASSUME IInv, NEW u \in Threads \cup {NULL}, signal(u)
    PROVE  \A t \in Threads : t # u => status'[t] = status[t]
BY DEF signal, thread_unblock, schedVars, IInv, Sched

\* A thread that stays where it is, or the idle thread that goes on after hlt.
LEMMA StandsStill ==
    ASSUME CInv, pc' = pc \/ Go(At("idle_loop")), holder' = holder
    PROVE  \E f : /\ StepsTo(f) /\ (Acquiring(f) => Acquiring(pc[cur]))
                  /\ Printing(f) => Printing(pc[cur]) /\ holder'[console_lock] = cur
                  /\ f.at \in IqPcs /\ f.on = tx => left[cur] > 0
  <1> USE DEF CInv
  <1>0. cur \in Threads BY Running
  <1>1. CASE pc' = pc
    <2> DEFINE f == pc[cur]
    <2>1. Moves(f) BY <1>0, <1>1 DEF Moves, IInv, Frames
    <2>2. StepsTo(f) BY <1>0, <2>1 DEF StepsTo, Iq, IqPcs, Acquires
    <2>3. /\ Printing(f) => holder'[console_lock] = cur
          /\ f.at \in IqPcs /\ f.on = tx => left[cur] > 0
      BY <1>0 DEF Output, Out
    <2> QED BY <2>2, <2>3
  <1>2. CASE Go(At("idle_loop"))
    <2> DEFINE f == At("idle_loop")
    <2>1. StepsTo(f) /\ ~Acquiring(f) /\ ~Printing(f) /\ f.at \notin IqPcs
      BY <1>2, GoMoves DEF StepsTo, At, IqPcs, Acquiring, Printing
    <2> QED BY <2>1
  <1> QED BY <1>1, <1>2

\* intq_getc takes a byte and wakes a thread that waits for room.
LEMMA GetcDoneAll == ASSUME CInv, GetcDone PROVE CInv'
  <1> USE SynchAssumption, ConsoleAssumption DEF CInv
  <1> DEFINE f == At("run")
  <1>1. /\ IInv' /\ cur \in Threads /\ pc[cur].at = "iq_loop" /\ Go(f)
        /\ ~intq_empty(q[rx]) /\ q' = [q EXCEPT ![rx] = Take(@)]
        /\ got' = Append(got, q[rx].buf[q[rx].tail])
        /\ UNCHANGED <<status, holder, typed, sent, msgs, left>>
    BY DoneKeeps, Running DEF GetcDone, IsAt, MustWait, IqUnchanged, schedVars
  <1>2. StepsTo(f) /\ ~Printing(f) /\ ~Acquiring(f) /\ f.at \notin IqPcs
    BY <1>1, GoMoves DEF StepsTo, At, IqPcs, Acquiring, Printing
  <1> HIDE DEF f
  <1>3. Iq' /\ Acquires' BY <1>2, WaysKept
  <1>4. DOMAIN q' = {rx, tx} /\ q'[rx] = Take(q[rx]) /\ q'[tx] = q[tx]
    BY <1>1 DEF IoTypes
  <1>5. InputStep BY <1>1, <1>4 DEF InputStep
  <1>6. OutputStep BY <1>1, <1>4 DEF OutputStep, QSame, SameRing, IoTypes
  <1>7. q'[rx].waiter = NULL BY <1>1, <1>4, TakeRing DEF IoTypes
  <1>8. SleepsForReason'
    <2>1. q[tx].waiter # NULL =>
            status'[q[tx].waiter] = "blocked" /\ pc'[q[tx].waiter] = pc[q[tx].waiter]
      BY <1>1, <1>2, SleeperFacts DEF StepsTo, Moves, Asleep
    <2> QED BY <1>4, <1>7, <2>1, SleepsKept
  <1>9. Output' BY <1>1, <1>2, <1>6, NothingPrinted, QuietStep
  <1> QED BY <1>1, <1>3, <1>4, <1>5, <1>6, <1>8, <1>9, Assembles

\* serial_flush polls everything out.
LEMMA SerialFlushAll == ASSUME CInv, SerialFlush PROVE CInv'
  <1> USE SynchAssumption, ConsoleAssumption DEF CInv
  <1>1. /\ IInv'
        /\ q' = [q EXCEPT ![tx].tail = q[tx].head, ![tx].waiter = NULL]
        /\ sent' = sent \o Contents(q[tx]) /\ signal(q[tx].waiter)
        /\ UNCHANGED <<pc, holder, typed, got, msgs, left>>
    BY SleepersType, SerialFlushKeeps DEF SerialFlush
  <1>2. /\ DOMAIN q' = {rx, tx} /\ q'[rx] = q[rx]
        /\ q'[tx] = [q[tx] EXCEPT !.tail = q[tx].head, !.waiter = NULL]
    BY <1>1 DEF IoTypes
  <1>3. InputStep BY <1>1, <1>2 DEF InputStep, QSame, SameRing, IoTypes
  <1>4. OutputStep BY <1>1, <1>2 DEF OutputStep
  <1>5. q'[tx].waiter = NULL BY <1>2, FlushRing DEF IoTypes
  <1>6. PICK f : /\ StepsTo(f) /\ (Acquiring(f) => Acquiring(pc[cur]))
                 /\ Printing(f) => Printing(pc[cur]) /\ holder'[console_lock] = cur
                 /\ f.at \in IqPcs /\ f.on = tx => left[cur] > 0
    BY <1>1, StandsStill
  <1>7. Iq' /\ Acquires' BY <1>6, WaysKept
  <1>8. SleepsForReason'
    <2>1. ASSUME q[rx].waiter # NULL
          PROVE  status'[q[rx].waiter] = "blocked" /\ pc'[q[rx].waiter] = pc[q[rx].waiter]
      <3>1. q[rx].waiter \in Threads /\ Asleep(q[rx].waiter) /\ pc[q[rx].waiter].on = rx
        BY <2>1, SleeperFacts
      <3>2. q[tx].waiter # NULL => pc[q[tx].waiter].on = tx BY SleeperFacts
      <3>3. q[rx].waiter # q[tx].waiter BY <3>1, <3>2
      <3>4. q[tx].waiter \in Threads \cup {NULL} BY SleepersType DEF Sleepers
      <3> QED BY <1>1, <3>1, <3>3, <3>4, SignalOthers DEF Asleep
    <2> QED BY <1>2, <1>5, <2>1, SleepsKept
  <1>9. Output' BY <1>1, <1>4, <1>6, NothingPrinted, QuietStep
  <1> QED BY <1>1, <1>2, <1>3, <1>4, <1>7, <1>8, <1>9, Assembles

\* keyboard_interrupt puts a byte, and wakes who waits for one.
LEMMA KeyboardInterruptAll == ASSUME CInv, KeyboardInterrupt PROVE CInv'
  <1> USE SynchAssumption, ConsoleAssumption DEF CInv
  <1>1. /\ IInv' /\ ~intq_full(q[rx]) /\ typed' = typed + 1
        /\ q' = [q EXCEPT ![rx] = Put(@, typed + 1)] /\ signal(q[rx].waiter)
        /\ UNCHANGED <<holder, got, sent, msgs, left>>
    BY SleepersType, KeyboardInterruptKeeps DEF KeyboardInterrupt
  <1>2. DOMAIN q' = {rx, tx} /\ q'[tx] = q[tx] /\ q'[rx] = Put(q[rx], typed + 1)
    BY <1>1 DEF IoTypes
  <1>3. InputStep BY <1>1, <1>2 DEF InputStep
  <1>4. OutputStep BY <1>1, <1>2 DEF OutputStep, QSame, SameRing, IoTypes
  <1>5. q'[rx].waiter = NULL
    <2>1. typed + 1 \in Nat BY DEF IoTypes
    <2> QED BY <1>1, <1>2, <2>1, PutRing DEF IoTypes
  <1>6. pc' = pc \/ Go(At("idle_loop")) BY DEF KeyboardInterrupt, Unhalt, Go
  <1>7. PICK f : /\ StepsTo(f) /\ (Acquiring(f) => Acquiring(pc[cur]))
                 /\ Printing(f) => Printing(pc[cur]) /\ holder'[console_lock] = cur
                 /\ f.at \in IqPcs /\ f.on = tx => left[cur] > 0
    BY <1>1, <1>6, StandsStill
  <1>8. Iq' /\ Acquires' BY <1>7, WaysKept
  <1>9. SleepsForReason'
    <2>1. ASSUME q[tx].waiter # NULL
          PROVE  status'[q[tx].waiter] = "blocked" /\ pc'[q[tx].waiter] = pc[q[tx].waiter]
      <3>1. /\ q[tx].waiter \in Threads /\ Asleep(q[tx].waiter) /\ pc[q[tx].waiter].on = tx
            /\ q[tx].waiter # cur
        BY <2>1, SleeperFacts
      <3>2. q[rx].waiter # NULL => pc[q[rx].waiter].on = rx BY SleeperFacts
      <3>3. q[rx].waiter # q[tx].waiter BY <3>1, <3>2
      <3>4. q[rx].waiter \in Threads \cup {NULL} BY SleepersType DEF Sleepers
      <3>5. status'[q[tx].waiter] = status[q[tx].waiter] BY <1>1, <3>1, <3>3, <3>4, SignalOthers
      <3> QED BY <1>7, <3>1, <3>5 DEF Asleep, StepsTo, Moves
    <2> QED BY <1>2, <1>5, <2>1, SleepsKept
  <1>10. Output' BY <1>1, <1>4, <1>7, NothingPrinted, QuietStep
  <1> QED BY <1>1, <1>2, <1>3, <1>4, <1>8, <1>9, <1>10, Assembles

\* serial_interrupt puts a byte into one queue and takes one from the other.
LEMMA SerialInterruptAll == ASSUME CInv, SerialInterrupt PROVE CInv'
  <1> USE SynchAssumption, ConsoleAssumption DEF CInv
  <1> DEFINE in  == rbr /\ ~intq_full(q[rx])
             out == thr /\ ~intq_empty(q[tx])
  <1>1. /\ IInv' /\ UNCHANGED <<holder, got, msgs, left>>
        /\ typed' = IF in THEN typed + 1 ELSE typed
        /\ sent' = IF out THEN Append(sent, q[tx].buf[q[tx].tail]) ELSE sent
    BY SleepersType, SerialInterruptKeeps DEF SerialInterrupt
  <1>2. DOMAIN q' = {rx, tx}
        /\ q'[rx] = (IF in THEN Put(q[rx], typed + 1) ELSE q[rx])
        /\ q'[tx] = (IF out THEN Take(q[tx]) ELSE q[tx])
    BY DEF SerialInterrupt
  <1>3. InputStep BY <1>1, <1>2 DEF InputStep, QSame, SameRing, IoTypes
  <1>4. OutputStep BY <1>1, <1>2 DEF OutputStep, QSame, SameRing, IoTypes
  <1>5. (in => q'[rx].waiter = NULL) /\ (out => q'[tx].waiter = NULL)
    <2>1. typed + 1 \in Nat BY DEF IoTypes
    <2>2. in => q'[rx].waiter = NULL BY <1>2, <2>1, PutRing DEF IoTypes
    <2>3. out => q'[tx].waiter = NULL BY <1>2, TakeRing DEF IoTypes
    <2> QED BY <2>2, <2>3
  <1>6. pc' = pc \/ Go(At("idle_loop")) BY DEF SerialInterrupt, Unhalt, Go
  <1>7. PICK f : /\ StepsTo(f) /\ (Acquiring(f) => Acquiring(pc[cur]))
                 /\ Printing(f) => Printing(pc[cur]) /\ holder'[console_lock] = cur
                 /\ f.at \in IqPcs /\ f.on = tx => left[cur] > 0
    BY <1>1, <1>6, StandsStill
  <1>8. Iq' /\ Acquires' BY <1>7, WaysKept
  <1>9. SleepsForReason'
    <2>1. PICK w \in Seq(Threads) :
             /\ Wakes(w)
             /\ \A t \in ToSet(w) : (in /\ t = q[rx].waiter) \/ (out /\ t = q[tx].waiter)
      BY SleepersType, SerialWakes
    <2> HIDE DEF in, out
    <2>2. ASSUME NEW x \in {rx, tx}, ~(x = rx /\ in), ~(x = tx /\ out)
          PROVE  /\ q'[x] = q[x]
                 /\ q[x].waiter # NULL => /\ status'[q[x].waiter] = "blocked"
                                          /\ pc'[q[x].waiter] = pc[q[x].waiter]
      <3>1. q'[x] = q[x] BY <1>2, <2>2
      <3>2. ASSUME q[x].waiter # NULL
            PROVE  status'[q[x].waiter] = "blocked" /\ pc'[q[x].waiter] = pc[q[x].waiter]
        <4>1. /\ q[x].waiter \in Threads /\ Asleep(q[x].waiter) /\ pc[q[x].waiter].on = x
              /\ q[x].waiter # cur
          BY <3>2, SleeperFacts
        <4>2. \A y \in {rx, tx} \ {x} : q[y].waiter = q[x].waiter => FALSE
          <5>1. \A y \in {rx, tx} : q[y].waiter # NULL => pc[q[y].waiter].on = y
            BY SleeperFacts
          <5> QED BY <3>2, <4>1, <5>1
        <4>3. q[x].waiter \notin ToSet(w) BY <2>1, <2>2, <4>2
        <4> QED BY <1>7, <2>1, <4>1, <4>3 DEF Wakes, Asleep, StepsTo, Moves
      <3> QED BY <3>1, <3>2
    <2>3. ASSUME NEW x \in {rx, tx}
          PROVE  \/ q'[x].waiter = NULL
                 \/ /\ q'[x] = q[x]
                    /\ q[x].waiter # NULL => /\ status'[q[x].waiter] = "blocked"
                                             /\ pc'[q[x].waiter] = pc[q[x].waiter]
      BY <1>5, <2>2
    <2> QED BY <2>3, SleepsKept
  <1>10. Output' BY <1>1, <1>4, <1>7, NothingPrinted, QuietStep
  <1> QED BY <1>1, <1>2, <1>3, <1>4, <1>8, <1>9, <1>10, Assembles

\* What has been printed is a sequence of characters.
LEMMA PrintedType == IoTypes => Printed \in Seq(Char)
  <1> SUFFICES ASSUME IoTypes PROVE Printed \in Seq(Char) OBVIOUS
  <1>1. Contents(q[tx]) \in Seq(Char) /\ sent \in Seq(Char) BY RingFacts DEF IoTypes
  <1> HIDE DEF Contents
  <1> QED BY <1>1 DEF Printed

\* A message begins with a number of its own.
LEMMA PutbufAll == ASSUME CInv, Putbuf PROVE CInv'
  <1> USE SynchAssumption, ConsoleAssumption DEF CInv
  <1>1. /\ IInv' /\ cur \in Threads /\ pc[cur].at = "run"
        /\ lock_acquire(console_lock, "print")
        /\ msgs' = [msgs EXCEPT ![cur] = @ + 1] /\ left' = [left EXCEPT ![cur] = MsgLen]
        /\ UNCHANGED <<holder, q, typed, got, sent>>
    BY PutbufKeeps, Running DEF Putbuf, IsAt
  <1>2. PICK f : /\ Go(f) /\ Acquiring(f) /\ f.on = console_lock
    BY <1>1 DEF lock_acquire, sema_down, Frame, Acquiring
  <1>3. StepsTo(f) /\ ~Printing(f) /\ f.at \notin IqPcs
    BY <1>1, <1>2, GoMoves DEF StepsTo, Acquiring, IqPcs, Printing
  <1>4. Iq' /\ Acquires' BY <1>3, WaysKept
  <1>5. \A t \in Threads : pc'[t] = IF t = cur THEN f ELSE pc[t] BY <1>3 DEF StepsTo, Moves
  <1>6. SleepsForReason'
    <2>1. \A t \in Threads : Asleep(t) => status'[t] = "blocked"
      BY <1>1, DownAsleep DEF lock_acquire
    <2> QED BY <1>1, <1>3, <2>1, SleepersStay DEF StepsTo
  <1>7. /\ msgs' \in [Threads -> Nat] /\ left' \in [Threads -> Nat]
        /\ msgs'[cur] = msgs[cur] + 1 /\ left'[cur] = MsgLen /\ msgs[cur] \in Nat
        /\ \A t \in Threads \ {cur} : msgs'[t] = msgs[t] /\ left'[t] = left[t]
    BY <1>1 DEF IoTypes
  <1>8. IoTypes' /\ InputInOrder' /\ Printed' = Printed BY <1>1, <1>7, IoSame
  <1>9. Output'
    <2>1. Out'
      <3>1. ASSUME NEW t \in Threads
            PROVE  /\ Printing(pc'[t]) => holder[console_lock] = t
                   /\ pc'[t].at \in IqPcs /\ pc'[t].on = tx => left'[t] > 0
                   /\ Acquiring(pc'[t]) => left'[t] = MsgLen
                   /\ left'[t] <= MsgLen
                   /\ Printing(pc'[t]) /\ left'[t] < MsgLen =>
                        Printed # <<>> /\ Printed[Len(Printed)] = <<t, msgs'[t], left'[t] + 1>>
        <4>1. CASE t = cur BY <1>3, <1>5, <1>7, <4>1
        <4>2. CASE t # cur BY <1>5, <1>7, <4>2 DEF Output, Out
        <4> QED BY <4>1, <4>2
      <3> QED BY <1>1, <1>8, <3>1 DEF Out
    <2>2. Chars'
      <3>1. ASSUME NEW i \in 1 .. Len(Printed)
            PROVE  LET b == Printed[i] IN
                   /\ b \in Threads \X Nat \X Nat /\ b[2] <= msgs'[b[1]]
                   /\ b[2] = msgs'[b[1]] /\ (Printing(pc'[b[1]]) \/ Acquiring(pc'[b[1]]))
                        => b[3] > left'[b[1]]
        <4> DEFINE b == Printed[i]
        <4>1. /\ b \in Threads \X Nat \X Nat /\ b[2] <= msgs[b[1]]
              /\ b[2] = msgs[b[1]] /\ (Printing(pc[b[1]]) \/ Acquiring(pc[b[1]]))
                   => b[3] > left[b[1]]
          BY DEF Output, Chars
        <4> HIDE DEF b
        <4>2. b[1] \in Threads /\ b[2] \in Nat BY <4>1
        <4>3. CASE b[1] = cur
          <5>1. b[2] <= msgs'[b[1]] /\ b[2] # msgs'[b[1]] BY <1>7, <4>1, <4>2, <4>3
          <5> QED BY <4>1, <5>1 DEF b
        <4>4. CASE b[1] # cur
          <5>1. pc'[b[1]] = pc[b[1]] /\ msgs'[b[1]] = msgs[b[1]] /\ left'[b[1]] = left[b[1]]
            BY <1>5, <1>7, <4>2, <4>4
          <5> QED BY <4>1, <5>1 DEF b
        <4> QED BY <4>3, <4>4 DEF b
      <3> QED BY <1>8, <3>1 DEF Chars
    <2>3. OutputUnmixed' BY <1>8 DEF Output, OutputUnmixed
    <2> QED BY <2>1, <2>2, <2>3 DEF Output
  <1> QED BY <1>1, <1>4, <1>6, <1>8, <1>9

\* serial_putc queues the next character of the message.
LEMMA PutcDoneAll == ASSUME CInv, PutcDone PROVE CInv'
  <1> USE SynchAssumption, ConsoleAssumption DEF CInv
  <1> DEFINE f == At("print")
             b == <<cur, msgs[cur], left[cur]>>
  <1>1. /\ IInv' /\ cur \in Threads /\ pc[cur].at = "iq_loop" /\ pc[cur].on = tx /\ Go(f)
        /\ ~intq_full(q[tx]) /\ q' = [q EXCEPT ![tx] = Put(@, b)]
        /\ left' = [left EXCEPT ![cur] = @ - 1]
        /\ UNCHANGED <<status, holder, typed, got, sent, msgs>>
    BY DoneKeeps, Running DEF PutcDone, IsAt, MustWait, IqUnchanged, schedVars
  <1>2. /\ StepsTo(f) /\ Printing(f) /\ ~Acquiring(f) /\ f.at \notin IqPcs
    BY <1>1, GoMoves DEF StepsTo, At, IqPcs, Acquiring, Printing
  <1>3. Printing(pc[cur]) /\ holder[console_lock] = cur /\ left[cur] > 0 /\ left[cur] <= MsgLen
    BY <1>1 DEF Printing, IqPcs, Output, Out
  <1>4. /\ left' \in [Threads -> Nat] /\ left'[cur] = left[cur] - 1 /\ left[cur] \in Nat
        /\ \A t \in Threads \ {cur} : left'[t] = left[t] /\ pc'[t] = pc[t]
        /\ pc'[cur] = f /\ msgs[cur] \in Nat
    BY <1>1, <1>2, <1>3 DEF IoTypes, StepsTo, Moves
  <1> HIDE DEF f
  <1>5. Iq' /\ Acquires' BY <1>2, WaysKept
  <1>6. DOMAIN q' = {rx, tx} /\ q'[tx] = Put(q[tx], b) /\ q'[rx] = q[rx]
    BY <1>1 DEF IoTypes
  <1>7. b \in Char /\ b[1] = cur /\ b[2] = msgs[cur] /\ b[3] = left[cur]
    BY <1>1, <1>4 DEF Char
  <1>8. b = <<b[1], b[2], b[3]>> OBVIOUS
  <1> HIDE DEF b
  <1>9. /\ Printed' = Append(Printed, b) /\ q'[tx] \in Rings(Char) /\ sent' \in Seq(Char)
        /\ q'[tx].waiter = NULL
    BY <1>1, <1>6, <1>7, PrintedGrows
  <1>10. InputStep BY <1>1, <1>6 DEF InputStep, QSame, SameRing, IoTypes
  <1>11. InputInOrder' /\ IoTypes'
    BY <1>1, <1>4, <1>6, <1>9, <1>10, InputKeeps DEF IoTypes
  <1>12. SleepsForReason'
    <2>1. q[rx].waiter # NULL =>
            status'[q[rx].waiter] = "blocked" /\ pc'[q[rx].waiter] = pc[q[rx].waiter]
      BY <1>1, <1>4, SleeperFacts DEF Asleep
    <2> QED BY <1>6, <1>9, <2>1, SleepsKept
  <1>13. Printed \in Seq(Char) BY PrintedType
  <1> DEFINE m == Len(Printed)
             P == Append(Printed, b)
  <1>14. /\ Len(P) = m + 1 /\ m \in Nat /\ P[m + 1] = b /\ P # <<>>
         /\ \A i \in 1 .. m : P[i] = Printed[i]
    BY <1>7, <1>13, AppendChar
  <1>15. ASSUME NEW i \in 1 .. m
         PROVE  LET c == Printed[i] IN
                /\ c \in Threads \X Nat \X Nat /\ c[2] <= msgs[c[1]]
                /\ c[2] = msgs[c[1]] /\ (Printing(pc[c[1]]) \/ Acquiring(pc[c[1]]))
                     => c[3] > left[c[1]]
    BY DEF Output, Chars
  <1>16. OutputUnmixed'
    <2>1. ASSUME NEW i \in 1 .. m PROVE Printed[i] # b
      <3>1. SUFFICES ASSUME Printed[i] = b PROVE FALSE OBVIOUS
      <3>2. b[2] = msgs[b[1]] /\ Printing(pc[b[1]]) => b[3] > left[b[1]] BY <1>15, <3>1
      <3> QED BY <1>3, <1>4, <1>7, <3>2
    <2>2. b[3] < MsgLen => Printed # <<>> /\ Printed[Len(Printed)] = <<b[1], b[2], b[3] + 1>>
      BY <1>1, <1>3, <1>7 DEF Output, Out
    <2> QED BY <1>7, <1>9, <1>13, <2>1, <2>2, UnmixedGrows DEF Output
  <1>17. Chars'
    <2>1. ASSUME NEW i \in 1 .. m + 1
          PROVE  LET c == P[i] IN
                 /\ c \in Threads \X Nat \X Nat /\ c[2] <= msgs[c[1]]
                 /\ c[2] = msgs[c[1]] /\ (Printing(pc'[c[1]]) \/ Acquiring(pc'[c[1]]))
                      => c[3] > left'[c[1]]
      <3>1. CASE i = m + 1
        <4>1. P[i] = b BY <1>14, <3>1
        <4>2. b \in Threads \X Nat \X Nat BY <1>1, <1>4, <1>7, <1>8
        <4> QED BY <1>4, <1>7, <4>1, <4>2
      <3>2. CASE i # m + 1
        <4>1. i \in 1 .. m /\ P[i] = Printed[i] BY <1>14, <3>2
        <4> DEFINE c == Printed[i]
        <4>2. /\ c \in Threads \X Nat \X Nat /\ c[2] <= msgs[c[1]]
              /\ c[2] = msgs[c[1]] /\ (Printing(pc[c[1]]) \/ Acquiring(pc[c[1]]))
                   => c[3] > left[c[1]]
          BY <1>15, <4>1
        <4> HIDE DEF c, P
        <4>3. c[1] \in Threads /\ c[3] \in Nat BY <4>2
        <4>4. CASE c[1] = cur BY <1>3, <1>4, <4>2, <4>3, <4>4, <4>1 DEF c
        <4>5. CASE c[1] # cur BY <1>4, <4>2, <4>3, <4>5, <4>1 DEF c
        <4> QED BY <4>4, <4>5
      <3> QED BY <3>1, <3>2
    <2> HIDE DEF P
    <2>2. Printed' = P /\ Len(P) = m + 1 /\ msgs' = msgs BY <1>1, <1>9, <1>14 DEF P
    <2> QED BY <2>1, <2>2 DEF Chars
  <1>18. Out'
    <2> HIDE DEF P, m
    <2>1. Printed' = P /\ P # <<>> /\ Len(P) = m + 1 /\ P[m + 1] = b
      BY <1>9, <1>14 DEF P
    <2>2. P[Len(P)] = <<cur, msgs[cur], left'[cur] + 1>> BY <1>4, <1>7, <1>8, <2>1
    <2>3. ASSUME NEW t \in Threads
          PROVE  /\ Printing(pc'[t]) => holder[console_lock] = t
                 /\ pc'[t].at \in IqPcs /\ pc'[t].on = tx => left'[t] > 0
                 /\ Acquiring(pc'[t]) => left'[t] = MsgLen
                 /\ left'[t] <= MsgLen
                 /\ Printing(pc'[t]) => t = cur
      <3>1. CASE t = cur BY <1>2, <1>3, <1>4, <3>1
      <3>2. CASE t # cur BY <1>3, <1>4, <3>2 DEF Output, Out
      <3> QED BY <3>1, <3>2
    <2> QED BY <1>1, <2>1, <2>2, <2>3 DEF Out
  <1>19. Output' BY <1>16, <1>17, <1>18 DEF Output
  <1> QED BY <1>1, <1>5, <1>11, <1>12, <1>19

\* putchar with interrupts off prints only where the console lock is free, so that no
\* message is torn.
LEMMA PutcharIntrOffAll == ASSUME CInv, PutcharIntrOff PROVE CInv'
  <1> USE SynchAssumption, ConsoleAssumption DEF CInv
  <1> DEFINE b == <<cur, msgs[cur] + 1, MsgLen>>
             full == intq_full(q[tx])
  <1>1. /\ IInv' /\ cur \in Threads /\ pc[cur].at = "run"
        /\ sema[console_lock].value > 0
        /\ q' = [q EXCEPT ![tx] = Put(IF full THEN Take(q[tx]) ELSE q[tx], b)]
        /\ sent' = IF full THEN Append(sent, q[tx].buf[q[tx].tail]) ELSE sent
        /\ signal(IF full THEN q[tx].waiter ELSE NULL)
        /\ msgs' = [msgs EXCEPT ![cur] = @ + 1]
        /\ UNCHANGED <<holder, pc, typed, got, left>>
    BY SleepersType, PutcharIntrOffKeeps, Running DEF PutcharIntrOff, IsAt
  <1>2. PICK f : StepsTo(f) BY <1>1, StandsStill
  <1>3. Iq' /\ Acquires' BY <1>2, WaysKept
  <1>4. /\ msgs' \in [Threads -> Nat] /\ msgs'[cur] = msgs[cur] + 1 /\ msgs[cur] \in Nat
        /\ \A t \in Threads \ {cur} : msgs'[t] = msgs[t]
        /\ left \in [Threads -> Nat]
    BY <1>1 DEF IoTypes
  <1>5. b \in Char /\ b[1] = cur /\ b[2] = msgs[cur] + 1 /\ b[3] = MsgLen
        /\ b \in Threads \X Nat \X Nat
    BY <1>1, <1>4 DEF Char
  <1> HIDE DEF b
  <1>6. /\ DOMAIN q' = {rx, tx} /\ q'[rx] = q[rx]
        /\ q'[tx] = Put(IF full THEN Take(q[tx]) ELSE q[tx], b)
    BY <1>1 DEF IoTypes
  <1>7. /\ Printed' = Append(Printed, b) /\ q'[tx] \in Rings(Char) /\ sent' \in Seq(Char)
        /\ q'[tx].waiter = NULL
    <2>1. CASE full BY <1>1, <1>5, <1>6, <2>1, PrintedGrows
    <2>2. CASE ~full BY <1>1, <1>5, <1>6, <2>2, PrintedGrows
    <2> QED BY <2>1, <2>2
  <1>8. InputStep BY <1>1, <1>6 DEF InputStep, QSame, SameRing, IoTypes
  <1>9. InputInOrder' /\ IoTypes'
    BY <1>1, <1>4, <1>6, <1>7, <1>8, InputKeeps DEF IoTypes
  <1>10. SleepsForReason'
    <2>1. ASSUME q[rx].waiter # NULL
          PROVE  status'[q[rx].waiter] = "blocked" /\ pc'[q[rx].waiter] = pc[q[rx].waiter]
      <3> DEFINE u == IF full THEN q[tx].waiter ELSE NULL
      <3>1. q[rx].waiter \in Threads /\ Asleep(q[rx].waiter) /\ pc[q[rx].waiter].on = rx
        BY <2>1, SleeperFacts
      <3>2. q[tx].waiter # NULL => pc[q[tx].waiter].on = tx BY SleeperFacts
      <3>3. q[rx].waiter # u BY <2>1, <3>1, <3>2
      <3>4. u \in Threads \cup {NULL} BY SleepersType DEF Sleepers
      <3>5. signal(u) BY <1>1
      <3> HIDE DEF u
      <3> QED BY <1>1, <3>1, <3>3, <3>4, <3>5, SignalOthers DEF Asleep
    <2> QED BY <1>6, <1>7, <2>1, SleepsKept
  <1>11. Printed \in Seq(Char) BY PrintedType
  <1> DEFINE m == Len(Printed)
             P == Append(Printed, b)
  <1>12. /\ Len(P) = m + 1 /\ m \in Nat /\ P[m + 1] = b
         /\ \A i \in 1 .. m : P[i] = Printed[i]
    BY <1>5, <1>11, AppendChar
  <1>13. ASSUME NEW i \in 1 .. m
         PROVE  LET c == Printed[i] IN
                /\ c \in Threads \X Nat \X Nat /\ c[2] <= msgs[c[1]]
                /\ c[2] = msgs[c[1]] /\ (Printing(pc[c[1]]) \/ Acquiring(pc[c[1]]))
                     => c[3] > left[c[1]]
    BY DEF Output, Chars
  <1>14. OutputUnmixed'
    <2>1. ASSUME NEW i \in 1 .. m PROVE Printed[i] # b
      <3>1. SUFFICES ASSUME Printed[i] = b PROVE FALSE OBVIOUS
      <3>2. b[2] <= msgs[b[1]] BY <1>13, <3>1
      <3> QED BY <1>4, <1>5, <3>2
    <2>2. ~(b[3] < MsgLen) BY <1>5
    <2> QED BY <1>5, <1>7, <1>11, <2>1, <2>2, UnmixedGrows DEF Output
  <1>15. ~Printing(pc[cur]) /\ ~Acquiring(pc[cur]) /\ pc[cur].at \notin IqPcs
    BY <1>1 DEF Printing, Acquiring, IqPcs
  <1>16. Chars'
    <2>1. ASSUME NEW i \in 1 .. m + 1
          PROVE  LET c == P[i] IN
                 /\ c \in Threads \X Nat \X Nat /\ c[2] <= msgs'[c[1]]
                 /\ c[2] = msgs'[c[1]] /\ (Printing(pc[c[1]]) \/ Acquiring(pc[c[1]]))
                      => c[3] > left[c[1]]
      <3>1. CASE i = m + 1
        <4>1. P[i] = b BY <1>12, <3>1
        <4> QED BY <1>4, <1>5, <1>15, <4>1
      <3>2. CASE i # m + 1
        <4>1. i \in 1 .. m /\ P[i] = Printed[i] BY <1>12, <3>2
        <4> DEFINE c == Printed[i]
        <4>2. /\ c \in Threads \X Nat \X Nat /\ c[2] <= msgs[c[1]]
              /\ c[2] = msgs[c[1]] /\ (Printing(pc[c[1]]) \/ Acquiring(pc[c[1]]))
                   => c[3] > left[c[1]]
          BY <1>13, <4>1
        <4> HIDE DEF c, P
        <4>3. c[1] \in Threads /\ c[2] \in Nat BY <4>2
        <4>4. CASE c[1] = cur
          <5>1. msgs'[c[1]] = msgs[c[1]] + 1 /\ msgs[c[1]] \in Nat BY <1>4, <4>4
          <5>2. c[2] <= msgs'[c[1]] /\ c[2] # msgs'[c[1]] BY <4>2, <4>3, <5>1
          <5> QED BY <4>1, <4>2, <5>2 DEF c
        <4>5. CASE c[1] # cur BY <1>4, <4>1, <4>2, <4>3, <4>5 DEF c
        <4> QED BY <4>4, <4>5
      <3> QED BY <3>1, <3>2
    <2> HIDE DEF P
    <2>2. Printed' = P /\ Len(P) = m + 1 BY <1>7, <1>12 DEF P
    <2> QED BY <1>1, <2>1, <2>2 DEF Chars
  <1>17. Out'
    <2>1. \A t \in Threads : ~Printing(pc[t])
      <3>1. \A t \in Threads : ~Has(t, console_lock) BY <1>1 DEF IInv, Tokens
      <3> QED BY <3>1 DEF Has, Output, Out
    <2>2. \A t \in Threads : ~(pc[t].at \in IqPcs /\ pc[t].on = tx) BY <2>1 DEF Printing
    <2> QED BY <1>1, <2>1, <2>2 DEF Output, Out
  <1>18. Output' BY <1>14, <1>16, <1>17 DEF Output
  <1> QED BY <1>1, <1>3, <1>9, <1>10, <1>18

\* Every step keeps the invariant.
LEMMA ConsoleNextKeeps == ASSUME CInv, [ConsoleNext]_vars PROVE CInv'
  <1>1. CASE Next /\ UNCHANGED ioVars BY <1>1, NextKeepsAll DEF ioVars
  <1>2. CASE InputGetc \/ IqLock \/ IqWoken \/ GetcDone \/ PutcDone
    BY <1>2, InputGetcAll, IqLockAll, IqWokenAll, GetcDoneAll, PutcDoneAll
  <1>3. CASE Putbuf \/ PrintNext \/ PutcharIntrOff \/ SerialFlush
    BY <1>3, PutbufAll, PrintNextAll, PutcharIntrOffAll, SerialFlushAll
  <1>4. CASE KeyboardInterrupt \/ SerialInterrupt
    BY <1>4, KeyboardInterruptAll, SerialInterruptAll
  <1>5. CASE UartReceives \/ UartSends \/ UNCHANGED vars
    BY <1>5, NextKeepsAll DEF UartReceives, UartSends, vars, ioVars
  <1> QED BY <1>1, <1>2, <1>3, <1>4, <1>5 DEF ConsoleNext, ConsoleStep, Interrupt

-----------------------------------------------------------------------------
(* The theorems.                                                          *)

\* A step of this module leaves the abstract lock alone, but for the calls of
\* lock_acquire and lock_release with interrupts off.
LEMMA ConsoleLockStep == ASSUME CInv, [ConsoleNext]_vars PROVE [A!Next]_holder
  <1> USE SynchAssumption, ConsoleAssumption DEF CInv
  <1>0. cur \in Threads /\ holder \in [Locks -> Threads \cup {NULL}]
    BY Running DEF IInv, Data
  <1>1. CASE [Next]_synchVars BY <1>1, LockStep
  <1>2. CASE UNCHANGED holder BY <1>2
  <1>3. CASE \E l \in Locks : holder[l] # NULL /\ holder' = [holder EXCEPT ![l] = NULL]
    BY <1>3 DEF A!Next, A!Release
  <1>4. CASE \E l \in Locks : holder[l] = NULL /\ holder' = [holder EXCEPT ![l] = cur]
    BY <1>0, <1>4 DEF A!Next, A!Acquire
  <1>5. CASE IqLock
    <2>1. pc[cur].on \in Locks BY <1>0, <1>5 DEF IqLock, IsAt, Iq, IqPcs
    <2>2. PICK l \in Locks : l = pc[cur].on BY <2>1
    <2>3. sema[l].value > 0 => holder[l] = NULL
      BY <1>0 DEF IInv, Tokens, Has
    <2>4. UNCHANGED holder \/ (sema[l].value > 0 /\ holder' = [holder EXCEPT ![l] = cur])
      BY <1>5, <2>2 DEF IqLock
    <2> QED BY <1>2, <1>4, <2>3, <2>4
  <1>6. CASE IqWoken
    <2>1. pc[cur].on \in Locks /\ holder[pc[cur].on] = cur
      BY <1>0, <1>6 DEF IqWoken, IsAt, Iq, IqPcs
    <2> QED BY <1>0, <1>3, <1>6, <2>1 DEF IqWoken
  <1>7. CASE PrintNext
    BY <1>0, <1>2, <1>3, <1>7 DEF PrintNext, lock_release
  <1>8. CASE InputGetc \/ GetcDone \/ PutcDone \/ Putbuf \/ PutcharIntrOff \/ SerialFlush
    BY <1>2, <1>8 DEF InputGetc, GetcDone, PutcDone, Putbuf, PutcharIntrOff, SerialFlush
  <1>9. CASE KeyboardInterrupt \/ SerialInterrupt \/ UartReceives \/ UartSends \/ UNCHANGED vars
    BY <1>2, <1>9 DEF KeyboardInterrupt, SerialInterrupt, UartReceives, UartSends, vars,
                      synchVars
  <1> QED BY <1>1, <1>5, <1>6, <1>7, <1>8, <1>9 DEF ConsoleNext, ConsoleStep, Interrupt

\* The invariant holds throughout, for any number of threads, any size of the queues
\* and any length of the messages.
THEOREM ConsoleInvariance == ConsoleSpec => []CInv
  <1>1. CInv /\ [ConsoleNext]_vars => CInv' BY ConsoleNextKeeps
  <1> QED BY InitCInv, <1>1, PTL DEF ConsoleSpec

\* Characters are read in the order they were typed, each once, whatever handler puts
\* them and whoever sleeps on the input buffer.
THEOREM InputInOrderHolds == ConsoleSpec => []InputInOrder
  <1>1. CInv => InputInOrder BY DEF CInv
  <1> QED BY <1>1, ConsoleInvariance, PTL

\* Characters leave in the order they were printed and no message is mixed with another
\* one: the console lock does what lib/kernel/console.c has it for.
THEOREM OutputUnmixedHolds == ConsoleSpec => []OutputUnmixed
  <1>1. CInv => OutputUnmixed BY DEF CInv, Output
  <1> QED BY <1>1, ConsoleInvariance, PTL

\* wait and signal of devices/intq.c: a thread registered on a queue is blocked, and the
\* queue is what it waits for it not to be.
THEOREM SleepsForReasonHolds == ConsoleSpec => []SleepsForReason
  <1>1. CInv => SleepsForReason BY DEF CInv
  <1> QED BY <1>1, ConsoleInvariance, PTL

\* What SynchProofs shows of the kernel alone holds with the handlers, which wake
\* threads without sema_up, as well.
THEOREM QueuesWithDevices == ConsoleSpec => [](OneQueuePerThread /\ NoLostWakeup /\ UniqueTids)
  <1>1. CInv => OneQueuePerThread /\ NoLostWakeup /\ UniqueTids
    BY QueuesApart DEF CInv, IInv, Tids
  <1> QED BY <1>1, ConsoleInvariance, PTL

\* The locks of the queues, acquired with interrupts off, are abstract locks too.
THEOREM LockWithDevices == ConsoleSpec => ImplementsLock
  <1>1. ConsoleInit => A!Init BY DEF ConsoleInit, Init, A!Init
  <1>2. CInv /\ [ConsoleNext]_vars => [A!Next]_holder BY ConsoleLockStep
  <1> QED BY ConsoleInvariance, <1>1, <1>2, PTL DEF ConsoleSpec, ImplementsLock, A!Spec
==============================================================================
