----------------------------- MODULE SynchProofs -----------------------------
(***************************************************************************)
(* Proofs about the scheduler and the synchronisation primitives (module   *)
(* Synch) for any number of threads: OneQueuePerThread, NoLostWakeup and   *)
(* UniqueTids, which the run kernel_sync checks for six threads, and that  *)
(* the locks implement AbstractLock.  The inductive invariant IInv says    *)
(* where a thread can be and what it has while it is there; its heart is   *)
(* Tokens, which counts a thread between sema_down and the store to        *)
(* lock->holder among those that have the lock.                            *)
(***************************************************************************)
EXTENDS Synch, FiniteSetTheorems, TLAPS

-----------------------------------------------------------------------------
(* Lemmas about the operators of the model: sequences as queues.          *)

\* What Append (list_push_back) does to a queue.
LEMMA AppendFacts ==
    ASSUME NEW S, NEW q \in Seq(S), NEW x \in S
    PROVE  /\ Append(q, x) \in Seq(S) /\ Append(q, x) # <<>>
           /\ ToSet(Append(q, x)) = ToSet(q) \cup {x}
           /\ IsInjective(q) /\ x \notin ToSet(q) => IsInjective(Append(q, x))
  <1>1. Append(q, x) \in Seq(S) /\ Append(q, x) # <<>>
    <2>1. Append(q, x) \in Seq(S) /\ Len(Append(q, x)) = Len(q) + 1 OBVIOUS
    <2>2. Len(<<>>) = 0 /\ Len(q) \in Nat OBVIOUS
    <2> QED BY <2>1, <2>2
  <1>2. ToSet(Append(q, x)) = ToSet(q) \cup {x}
    <2>1. ASSUME NEW y \in ToSet(Append(q, x)) PROVE y \in ToSet(q) \cup {x}
      BY <2>1 DEF ToSet
    <2>2. ASSUME NEW y \in ToSet(q) \cup {x} PROVE y \in ToSet(Append(q, x))
      <3>1. CASE y = x
        <4>1. Append(q, x)[Len(q) + 1] = x /\ Len(q) + 1 \in DOMAIN Append(q, x) OBVIOUS
        <4> QED BY <3>1, <4>1 DEF ToSet
      <3>2. CASE y \in ToSet(q)
        <4>1. PICK i \in DOMAIN q : y = q[i] BY <3>2 DEF ToSet
        <4>2. i \in DOMAIN Append(q, x) /\ Append(q, x)[i] = y BY <4>1
        <4> QED BY <4>2 DEF ToSet
      <3> QED BY <2>2, <3>1, <3>2
    <2> QED BY <2>1, <2>2
  <1>3. IsInjective(q) /\ x \notin ToSet(q) => IsInjective(Append(q, x))
    BY DEF ToSet, IsInjective
  <1> QED BY <1>1, <1>2, <1>3

\* What Head and Tail (list_pop_front) do to a queue that is not empty.
LEMMA TailFacts ==
    ASSUME NEW S, NEW q \in Seq(S), q # <<>>
    PROVE  /\ Head(q) \in S /\ Tail(q) \in Seq(S) /\ Head(q) \in ToSet(q)
           /\ ToSet(Tail(q)) \subseteq ToSet(q)
           /\ IsInjective(q) => /\ IsInjective(Tail(q))
                                /\ ToSet(Tail(q)) = ToSet(q) \ {Head(q)}
  <1>1. /\ Head(q) \in S /\ Tail(q) \in Seq(S) /\ Head(q) = q[1]
        /\ 1 \in DOMAIN q /\ Len(Tail(q)) = Len(q) - 1
        /\ \A i \in 1 .. Len(q) - 1 : Tail(q)[i] = q[i + 1]
    OBVIOUS
  <1>2. Head(q) \in ToSet(q) BY <1>1 DEF ToSet
  <1>3. ToSet(Tail(q)) \subseteq ToSet(q)
    BY <1>1 DEF ToSet
  <1>4. ASSUME IsInjective(q) PROVE IsInjective(Tail(q))
    BY <1>1, <1>4 DEF IsInjective
  <1>5. ASSUME IsInjective(q) PROVE ToSet(Tail(q)) = ToSet(q) \ {Head(q)}
    <2>1. ASSUME NEW y \in ToSet(Tail(q)) PROVE y # Head(q)
      BY <1>1, <1>5, <2>1 DEF ToSet, IsInjective
    <2>2. ASSUME NEW y \in ToSet(q), y # Head(q) PROVE y \in ToSet(Tail(q))
      <3>1. PICK i \in DOMAIN q : y = q[i] BY <2>2 DEF ToSet
      <3>2. i - 1 \in DOMAIN Tail(q) /\ Tail(q)[i - 1] = y BY <1>1, <2>2, <3>1
      <3> QED BY <3>2 DEF ToSet
    <2> QED BY <1>3, <2>1, <2>2
  <1> QED BY <1>1, <1>2, <1>3, <1>4, <1>5

\* A queue is empty when it has no members.
LEMMA EmptyFacts ==
    ASSUME NEW S, NEW q \in Seq(S)
    PROVE  /\ ToSet(q) \subseteq S
           /\ q = <<>> <=> ToSet(q) = {}
           /\ q = <<>> => IsInjective(q)
  <1>1. q = <<>> <=> Len(q) = 0 OBVIOUS
  <1>2. DOMAIN q = 1 .. Len(q) /\ Len(q) \in Nat /\ \A i \in DOMAIN q : q[i] \in S OBVIOUS
  <1>3. ToSet(q) \subseteq S BY <1>2 DEF ToSet
  <1>4. q = <<>> => ToSet(q) = {} /\ IsInjective(q) BY <1>1, <1>2 DEF ToSet, IsInjective
  <1>5. ASSUME q # <<>> PROVE ToSet(q) # {}
    <2>1. 1 \in DOMAIN q BY <1>1, <1>2, <1>5
    <2> QED BY <2>1 DEF ToSet
  <1> QED BY <1>3, <1>4, <1>5

-----------------------------------------------------------------------------
(* The inductive invariant.                                               *)

\* The scheduler: exactly the running thread is running, and the ready list holds
\* the threads that are ready, the idle thread excepted, once each.
Sched ==
    /\ status \in [Threads -> {"none", "blocked", "ready", "running", "dying", "freed"}]
    /\ ready_list \in Seq(Threads) /\ cur \in Threads /\ idle_thread \in {NULL, idle}
    /\ \A t \in Threads : status[t] = "running" <=> t = cur
    /\ IsInjective(ready_list)
    /\ \A t \in Threads : t \in ToSet(ready_list) <=> status[t] = "ready" /\ t # idle_thread
    /\ idle_thread = idle => status[idle] # "none"

\* The places a thread can be at, and what a call of each kind is about.
GoodFrame(t, f) ==
    /\ f.at \in {"down", "up"} => f.on \in Sems
    /\ f.at \in {"own", "iq_loop", "iq_lock", "iq_wait"} => f.on \in Locks
    /\ f.at = "down" => f.ret \in {"run", "tid_load", "cw_acquire", "print"}
    /\ f.at = "own" => f.ret \in {"run", "tid_load", "print"}
    /\ f.at = "up" => f.ret \in {"run", "cw_down", "created", "broadcast"}
    /\ f.at \in {"down", "own"} /\ f.ret = "tid_load" => f.on = tid_lock
    /\ f.at = "down" /\ f.ret = "cw_acquire" => f.on \notin Locks
    /\ f.at \in {"boot", "started"} => t = main
    /\ f.at \in {"idle", "idle_loop", "hlt"} <=> t = idle

\* Every thread is at such a place.
Frames == /\ DOMAIN pc = Threads
          /\ \A t \in Threads : GoodFrame(t, pc[t])

\* The values of sema.
Semas == [Sems -> [value : Nat, waiters : Seq(Threads)]]

\* The types of the rest of the state.
Data ==
    /\ sema \in Semas
    /\ holder \in [Locks -> Threads \cup {NULL}]
    /\ cond_waiters \in Seq(Threads)
    /\ next_tid \in Nat /\ tid \in [Threads -> Nat] /\ tmp_tid \in [Threads -> Nat]
    /\ new \in [Threads -> Threads \cup {NULL}]

\* Until the hand-shake with the idle thread is over, only main and idle run and
\* main waits for nothing else; a thread that does not exist yet is nowhere.
Boot ==
    /\ pc[main].at = "boot" =>
         /\ cur = main /\ idle_thread = NULL /\ sema[idle].value = 0
         /\ \A t \in Threads \ {main} : status[t] = "none"
         /\ \A t \in Threads \ {main} : pc[t].at \in {"run", "idle"}
    /\ pc[main].at # "boot" /\ idle_thread = NULL =>
         /\ status[idle] \in {"ready", "running"} /\ pc[idle].at = "idle"
         /\ \A t \in Threads \ {main, idle} : status[t] = "none"
         /\ pc[main].at \in {"started", "down"}
         /\ pc[main].at = "down" => pc[main].on = idle
         /\ sema[idle].value = 0
    /\ status[main] # "none"
    /\ pc[main].at # "boot" => status[idle] # "none"
    /\ \A t \in Threads \ {idle} : status[t] = "none" => pc[t].at = "run"

\* A waiter is blocked in sema_down on that semaphore.
Waiters ==
    \A s \in Sems :
      /\ IsInjective(sema[s].waiters)
      /\ \A t \in ToSet(sema[s].waiters) :
           /\ status[t] = "blocked"
           /\ pc[t].at \in {"down", "iq_lock"} /\ pc[t].on = s

\* A thread that is inside thread_create, wherever it waits in it ...
Creating(f) ==
    \/ f.at \in {"tid_acquire", "tid_load", "tid_store", "created"}
    \/ f.at \in {"down", "own", "up"} /\ f.ret \in {"tid_load", "created"}

\* ... has a thread that nobody else is making, blocked before its first step.
News ==
    \A t \in Threads :
      /\ new[t] # NULL =>
           /\ status[new[t]] = "blocked" /\ pc[new[t]].at = "run"
           /\ \A u \in Threads \ {t} : new[u] # new[t]
      /\ Creating(pc[t]) => new[t] # NULL

\* A thread that has downed the lock's semaphore and is not its holder yet, or no
\* longer ...
InTransit(t, l) == pc[t].at \in {"own", "up"} /\ pc[t].on = l

\* ... owns the lock as the holder does.
Has(t, l)       == holder[l] = t \/ InTransit(t, l)

\* The semaphore of a lock is 0 or 1, and 0 while a thread has the lock; at most
\* one does.  This is what makes the late store to lock->holder harmless.
Tokens ==
    \A l \in Locks :
      /\ sema[l].value \in {0, 1}
      /\ \A t \in Threads : Has(t, l) =>
           /\ sema[l].value = 0
           /\ \A u \in Threads : Has(u, l) => u = t
           /\ ~(holder[l] = t /\ InTransit(t, l))

\* Only the holder of tid_lock is between the load and the store of next_tid, and
\* what it has loaded is not stale.
Tids ==
    /\ UniqueTids
    /\ \A t \in Threads :
         /\ tid[t] < next_tid
         /\ pc[t].at \in {"tid_load", "tid_store"} => holder[tid_lock] = t
         /\ pc[t].at = "tid_store" => tmp_tid[t] = next_tid

\* The inductive invariant.
IInv == /\ Sched /\ Frames /\ Data /\ Boot /\ Waiters /\ News /\ Tokens /\ Tids
        /\ NoLostWakeup

\* The state thread_init leaves satisfies it.
LEMMA InitIInv == Init => IInv
  <1> SUFFICES ASSUME Init PROVE IInv OBVIOUS
  <1> USE SynchAssumption DEF Init, At, Sems
  <1>0. <<>> \in Seq(Threads) /\ ToSet(<<>>) = {} /\ IsInjective(<<>>)
    <2>1. <<>> \in Seq(Threads) OBVIOUS
    <2> QED BY <2>1, EmptyFacts
  <1>1. Sched BY <1>0 DEF Sched
  <1>2. Frames BY DEF Frames, GoodFrame
  <1>3. Data BY <1>0 DEF Data, Semas
  <1>4. Boot BY DEF Boot
  <1>5. Waiters BY <1>0 DEF Waiters
  <1>6. News BY DEF News, Creating
  <1>7. Tokens BY DEF Tokens, Has, InTransit
  <1>8. Tids BY DEF Tids, UniqueTids
  <1>9. NoLostWakeup BY DEF NoLostWakeup
  <1> QED BY <1>1, <1>2, <1>3, <1>4, <1>5, <1>6, <1>7, <1>8, <1>9 DEF IInv

-----------------------------------------------------------------------------
(* What the parts of a step keep.                                         *)

\* What schedule does to the statuses of the other threads: nobody that is blocked
\* is woken (the idle thread excepted, which needs no waking).
Kept ==
    /\ \A t \in Threads \ {idle} : status[t] = "blocked" => status'[t] = "blocked"
    /\ \A t \in Threads : status[t] = "none" <=> status'[t] = "none"
    /\ \A t \in Threads : status[t] = "ready" => status'[t] \in {"ready", "running"}

\* schedule, for a thread that blocks, yields or dies, keeps the ready list right.
LEMMA ScheduleKeeps ==
    ASSUME Sched, NEW st \in {"blocked", "ready", "dying"}, NEW r,
           r = IF st = "ready" /\ cur # idle_thread THEN Append(ready_list, cur) ELSE ready_list,
           r # <<>> \/ idle_thread = idle,
           st = "dying" => cur # idle,
           schedule([status EXCEPT ![cur] = st], r), UNCHANGED idle_thread
    PROVE  /\ Sched' /\ Kept
           /\ st = "blocked" /\ cur # idle => status'[cur] = "blocked"
           /\ st = "ready" => status'[cur] \in {"ready", "running"}
  <1> DEFINE s == [status EXCEPT ![cur] = st]
             nxt == next_thread_to_run(r)
  <1> USE SynchAssumption
  <1>0. idle_thread # NULL => idle_thread \in Threads
    BY DEF Sched
  <1>1. /\ r \in Seq(Threads) /\ IsInjective(r)
        /\ \A t \in Threads : t \in ToSet(r) <=> s[t] = "ready" /\ t # idle_thread
    BY AppendFacts DEF Sched
  <1>2. /\ nxt \in Threads /\ ready_list' \in Seq(Threads) /\ IsInjective(ready_list')
        /\ nxt = idle_thread \/ s[nxt] = "ready"
        /\ \A t \in Threads : t \in ToSet(ready_list') <=> s[t] = "ready" /\ t # idle_thread /\ t # nxt
    <2>1. CASE r = <<>>
      BY <1>0, <1>1, <2>1, EmptyFacts DEF Sched, schedule, next_thread_to_run
    <2>2. CASE r # <<>>
      <3>1. ready_list' = Tail(r) /\ nxt = Head(r) BY <2>2 DEF schedule, next_thread_to_run
      <3>2. /\ Head(r) \in Threads /\ Tail(r) \in Seq(Threads) /\ Head(r) \in ToSet(r)
            /\ IsInjective(Tail(r)) /\ ToSet(Tail(r)) = ToSet(r) \ {Head(r)}
        BY <1>1, <2>2, TailFacts
      <3> HIDE DEF s, nxt
      <3> QED BY <1>1, <3>1, <3>2
    <2> QED BY <2>1, <2>2
  <1>3. /\ cur' = nxt
        /\ status' = [t \in Threads |->
                    CASE t = nxt -> "running"
                      [] t = cur /\ t # nxt /\ s[t] = "dying" /\ t # main -> "freed"
                      [] OTHER -> s[t]]
    BY DEF schedule, thread_schedule_tail
  <1>4. \A t \in Threads : status'[t] = IF t = nxt THEN "running" ELSE
           IF t = cur /\ s[t] = "dying" /\ t # main THEN "freed" ELSE s[t]
    BY <1>3
  <1>5. \A t \in Threads : s[t] = IF t = cur THEN st ELSE status[t]
    BY DEF Sched
  <1> HIDE DEF s, nxt
  <1>6. status' \in [Threads -> {"none", "blocked", "ready", "running", "dying", "freed"}]
    <2>1. \A t \in Threads : status'[t] \in {"none", "blocked", "ready", "running", "dying", "freed"}
      BY <1>4, <1>5 DEF Sched
    <2> QED BY <1>3, <2>1
  <1>7. Sched'
    BY <1>2, <1>3, <1>4, <1>5, <1>6 DEF Sched
  <1>8. Kept
    BY <1>2, <1>3, <1>4, <1>5 DEF Sched, Kept
  <1>9. /\ st = "blocked" /\ cur # idle => status'[cur] = "blocked"
        /\ st = "ready" => status'[cur] \in {"ready", "running"}
    BY <1>2, <1>3, <1>4, <1>5 DEF Sched
  <1> QED BY <1>7, <1>8, <1>9

\* thread_unblock keeps the ready list right.
LEMMA UnblockKeeps ==
    ASSUME Sched, NEW u \in Threads, status[u] \in {"blocked", "none"},
           u # idle_thread, thread_unblock(u),
           \/ UNCHANGED idle_thread
           \/ cur = idle /\ idle_thread' = idle
    PROVE  /\ Sched' /\ cur' = cur /\ status'[u] = "ready"
           /\ \A t \in Threads \ {u} : status'[t] = status[t]
  <1> USE SynchAssumption
  <1>1. u \notin ToSet(ready_list) /\ u # cur BY DEF Sched
  <1> QED BY <1>1, AppendFacts DEF Sched, thread_unblock

\* A thread is put on the waiters of a semaphore.
LEMMA PushFacts ==
    ASSUME sema \in Semas, NEW s \in Sems, NEW t \in Threads,
           sema' = [sema EXCEPT ![s].waiters = Append(@, t)]
    PROVE  /\ sema' \in Semas
           /\ sema'[s] = [value |-> sema[s].value, waiters |-> Append(sema[s].waiters, t)]
           /\ \A x \in Sems \ {s} : sema'[x] = sema[x]
  <1>1. sema'[s] = [value |-> sema[s].value, waiters |-> Append(sema[s].waiters, t)]
    BY DEF Semas
  <1>2. /\ \A x \in Sems \ {s} : sema'[x] = sema[x]
        /\ sema' = [x \in Sems |-> sema'[x]] /\ DOMAIN sema' = Sems
    BY DEF Semas
  <1>3. sema[s].value \in Nat /\ Append(sema[s].waiters, t) \in Seq(Threads)
    BY AppendFacts DEF Semas
  <1>a. \A v \in Nat, w \in Seq(Threads) :
            [value |-> v, waiters |-> w] \in [value : Nat, waiters : Seq(Threads)]
    OBVIOUS
  <1>b. sema'[s] \in [value : Nat, waiters : Seq(Threads)]
    BY <1>1, <1>3, <1>a
  <1>4. \A x \in Sems : sema'[x] \in [value : Nat, waiters : Seq(Threads)]
    BY <1>2, <1>b DEF Semas
  <1>5. sema' \in Semas BY <1>2, <1>4 DEF Semas
  <1> QED BY <1>1, <1>2, <1>5

\* The value of a semaphore is lowered.
LEMMA TakeFacts ==
    ASSUME sema \in Semas, NEW s \in Sems, sema[s].value > 0,
           sema' = [sema EXCEPT ![s].value = @ - 1]
    PROVE  /\ sema' \in Semas
           /\ sema'[s] = [value |-> sema[s].value - 1, waiters |-> sema[s].waiters]
           /\ \A x \in Sems \ {s} : sema'[x] = sema[x]
  <1>1. sema'[s] = [value |-> sema[s].value - 1, waiters |-> sema[s].waiters]
    BY DEF Semas
  <1>2. /\ \A x \in Sems \ {s} : sema'[x] = sema[x]
        /\ sema' = [x \in Sems |-> sema'[x]] /\ DOMAIN sema' = Sems
    BY DEF Semas
  <1>3. sema[s].value - 1 \in Nat /\ sema[s].waiters \in Seq(Threads)
    BY DEF Semas
  <1>a. \A v \in Nat, w \in Seq(Threads) :
            [value |-> v, waiters |-> w] \in [value : Nat, waiters : Seq(Threads)]
    OBVIOUS
  <1>b. sema'[s] \in [value : Nat, waiters : Seq(Threads)]
    BY <1>1, <1>3, <1>a
  <1>4. \A x \in Sems : sema'[x] \in [value : Nat, waiters : Seq(Threads)]
    BY <1>2, <1>b DEF Semas
  <1>5. sema' \in Semas BY <1>2, <1>4 DEF Semas
  <1> QED BY <1>1, <1>2, <1>5

\* The value of a semaphore is raised and its first waiter taken off.
LEMMA RaiseFacts ==
    ASSUME sema \in Semas, NEW s \in Sems,
           sema' = [sema EXCEPT ![s].value = @ + 1,
                                ![s].waiters = IF @ = <<>> THEN @ ELSE Tail(@)]
    PROVE  /\ sema' \in Semas
           /\ sema'[s] = [value |-> sema[s].value + 1,
                          waiters |-> IF sema[s].waiters = <<>> THEN sema[s].waiters
                                      ELSE Tail(sema[s].waiters)]
           /\ \A x \in Sems \ {s} : sema'[x] = sema[x]
  <1> DEFINE w == IF sema[s].waiters = <<>> THEN sema[s].waiters ELSE Tail(sema[s].waiters)
  <1>1. sema'[s] = [value |-> sema[s].value + 1, waiters |-> w]
    BY DEF Semas
  <1>2. /\ \A x \in Sems \ {s} : sema'[x] = sema[x]
        /\ sema' = [x \in Sems |-> sema'[x]] /\ DOMAIN sema' = Sems
    BY DEF Semas
  <1>3. sema[s].value + 1 \in Nat /\ w \in Seq(Threads)
    BY TailFacts DEF Semas
  <1> HIDE DEF w
  <1>a. \A v \in Nat, q \in Seq(Threads) :
            [value |-> v, waiters |-> q] \in [value : Nat, waiters : Seq(Threads)]
    OBVIOUS
  <1>b. sema'[s] \in [value : Nat, waiters : Seq(Threads)]
    BY <1>1, <1>3, <1>a
  <1>4. \A x \in Sems : sema'[x] \in [value : Nat, waiters : Seq(Threads)]
    BY <1>2, <1>b DEF Semas
  <1>5. sema' \in Semas BY <1>2, <1>4 DEF Semas
  <1> QED BY <1>1, <1>2, <1>5 DEF w

\* The running thread goes on at f.
Moves(f) == /\ DOMAIN pc' = Threads
            /\ \A t \in Threads : pc'[t] = IF t = cur THEN f ELSE pc[t]

\* Go does just that.
LEMMA GoMoves == ASSUME IInv, NEW f, Go(f) PROVE Moves(f)
BY DEF IInv, Frames, Go, Moves

\* Frames is kept when the thread goes to a good frame.
LEMMA FramesKept == ASSUME IInv, NEW f, Moves(f), GoodFrame(cur, f) PROVE Frames'
BY DEF IInv, Frames, Moves

\* The running thread is a thread.
LEMMA Running == ASSUME IInv PROVE cur \in Threads /\ status[cur] = "running"
BY DEF IInv, Sched

\* No status changes when none does.
LEMMA KeptIfSame == ASSUME status' = status PROVE Kept
BY DEF Kept

\* News is kept by a step that makes no thread.
LEMMA NewsKept ==
    ASSUME IInv, NEW f, Moves(f), Kept, new' = new, Creating(f) => new[cur] # NULL
    PROVE  News'
  <1> USE SynchAssumption
  <1>1. cur \in Threads /\ status[cur] = "running" BY Running
  <1>2. ASSUME NEW t \in Threads, new[t] # NULL
        PROVE  status'[new[t]] = "blocked" /\ pc'[new[t]].at = "run"
    <2>1. /\ new[t] \in Threads /\ status[new[t]] = "blocked"
          /\ pc[new[t]].at = "run" BY <1>2 DEF IInv, News, Data
    <2>2. new[t] # cur /\ new[t] # idle BY <1>1, <2>1 DEF IInv, Frames, GoodFrame
    <2> QED BY <2>1, <2>2 DEF Kept, Moves
  <1>3. ASSUME NEW t \in Threads, Creating(pc'[t]) PROVE new[t] # NULL
    BY <1>1, <1>3 DEF IInv, News, Moves
  <1>4. \A t, u \in Threads : new[t] # NULL /\ t # u => new[u] # new[t] BY DEF IInv, News
  <1> QED BY <1>2, <1>3, <1>4 DEF News

\* Boot is kept by a step of a thread that is past the hand-shake.
LEMMA BootKept ==
    ASSUME IInv, NEW f, Moves(f), Kept, f.at # "boot", pc[main].at # "boot",
           idle_thread' = idle
    PROVE  Boot'
  <1> USE SynchAssumption
  <1>1. pc'[main].at # "boot" BY DEF Moves
  <1>2. \A t \in Threads : status'[t] = "none" => status[t] = "none" /\ t # cur
    BY Running DEF Kept
  <1> QED BY <1>1, <1>2 DEF IInv, Boot, Moves

\* Waiters is kept when no semaphore gets a waiter.
LEMMA WaitersKept ==
    ASSUME IInv, NEW f, Moves(f), Kept,
           \A s \in Sems : \/ sema'[s].waiters = sema[s].waiters
                          \/ sema'[s].waiters = <<>>
    PROVE  Waiters'
  <1> USE SynchAssumption
  <1>1. ASSUME NEW s \in Sems, NEW t \in ToSet(sema[s].waiters)
        PROVE  status'[t] = "blocked" /\ pc'[t] = pc[t]
    <2>1. t \in Threads BY EmptyFacts DEF IInv, Data, Semas
    <2>2. status[t] = "blocked" /\ pc[t].at \in {"down", "iq_lock"} BY DEF IInv, Waiters
    <2>3. t # cur /\ t # idle BY <2>1, <2>2, Running DEF IInv, Frames, GoodFrame
    <2> QED BY <2>1, <2>2, <2>3 DEF Kept, Moves
  <1>2. ToSet(<<>>) = {} /\ IsInjective(<<>>)
    <2>1. <<>> \in Seq(Threads) OBVIOUS
    <2> QED BY <2>1, EmptyFacts
  <1> QED BY <1>1, <1>2 DEF IInv, Waiters

\* Where the waiters of a semaphore are.
Waiting == {"down", "iq_lock"}

\* No semaphore is upped, and none gets a waiter.
Lowered ==
    \A s \in Sems : \/ sema'[s].waiters = <<>>
                    \/ sema'[s].waiters = sema[s].waiters /\ sema'[s].value <= sema[s].value

\* No wake-up is lost by a step that ups no semaphore and wakes nobody.
LEMMA WakeupsKept ==
    ASSUME IInv, NEW f, Moves(f), f.at \notin Waiting, pc[cur].at \notin Waiting,
           Lowered, sema' \in Semas
    PROVE  NoLostWakeup'
  <1>1. ASSUME NEW s \in Sems, sema'[s].waiters = sema[s].waiters
        PROVE  Woken(s)' = Woken(s)
    BY <1>1 DEF Woken, Moves, Waiting
  <1>2. \A s \in Sems : IsFiniteSet(Woken(s)) BY SynchAssumption, FS_Subset DEF Woken
  <1>3. \A s \in Sems : Cardinality(Woken(s)) \in Nat BY <1>2, FS_CardinalityType
  <1>4. \A s \in Sems : sema[s].value \in Nat /\ sema'[s].value \in Nat BY DEF IInv, Data, Semas
  <1> QED BY <1>1, <1>3, <1>4 DEF IInv, NoLostWakeup, Lowered

\* In particular if no semaphore changes.
LEMMA SemaSame == ASSUME IInv, sema' = sema PROVE sema' \in Semas /\ Lowered
  <1>1. sema \in Semas BY DEF IInv, Data
  <1>2. \A s \in Sems : sema[s].value \in Nat BY <1>1 DEF Semas
  <1> QED BY <1>1, <1>2 DEF Lowered

\* Tokens is kept by a step that neither ups nor downs a lock's semaphore.
LEMMA TokensKept ==
    ASSUME IInv, NEW f, Moves(f), f.at \in {"own", "up"} => f.on \notin Locks,
           holder' = holder, \A l \in Locks : sema'[l].value = sema[l].value
    PROVE  Tokens'
  <1>1. \A l \in Locks, t \in Threads : InTransit(t, l)' => InTransit(t, l)
    BY DEF InTransit, Moves
  <1> QED BY <1>1 DEF IInv, Tokens, Has

\* Tids is kept by a step outside allocate_tid.
LEMMA TidsKept ==
    ASSUME IInv, NEW f, Moves(f), f.at \notin {"tid_load", "tid_store"},
           UNCHANGED <<next_tid, tid, tmp_tid>>,
           \A t \in Threads \ {cur} : holder[tid_lock] = t => holder'[tid_lock] = t
    PROVE  Tids'
BY DEF IInv, Tids, UniqueTids, Moves

\* lock_release moves the lock from its holder to the holder's call of sema_up.
LEMMA ReleaseTokens ==
    ASSUME IInv, NEW l \in Locks, NEW r, lock_release(l, r), sema' = sema,
           pc[cur].at \notin {"own", "up"}
    PROVE  Tokens'
  <1> USE SynchAssumption
  <1>1. cur \in Threads /\ holder[l] = cur BY Running DEF lock_release
  <1>2. holder' = [holder EXCEPT ![l] = NULL] /\ holder \in [Locks -> Threads \cup {NULL}]
    BY DEF lock_release, IInv, Data
  <1>3. Moves(Frame("up", l, r)) BY GoMoves DEF lock_release
  <1>4. \A x \in Locks, t \in Threads : InTransit(t, x)' <=> InTransit(t, x) \/ (t = cur /\ x = l)
    BY <1>1, <1>3 DEF InTransit, Moves, Frame
  <1>5. \A x \in Locks, t \in Threads : holder'[x] = t <=> holder[x] = t /\ x # l
    BY <1>1, <1>2
  <1>6. \A t \in Threads : Has(t, l) => t = cur
    BY <1>1 DEF IInv, Tokens, Has
  <1> QED BY <1>1, <1>4, <1>5, <1>6 DEF IInv, Tokens, Has

\* A thread that is past the hand-shake finds the idle thread known.
LEMMA Booted ==
    ASSUME IInv, pc[cur].at \notin {"boot", "started", "down", "idle"}
    PROVE  idle_thread = idle /\ pc[main].at # "boot"
  <1> USE SynchAssumption
  <1>1. cur \in Threads /\ status[cur] = "running" BY Running
  <1>2. idle_thread \in {NULL, idle} BY DEF IInv, Sched
  <1>3. pc[main].at # "boot" BY DEF IInv, Boot
  <1> QED BY <1>1, <1>2, <1>3 DEF IInv, Boot

\* The invariant is kept when nothing it mentions changes.
LEMMA StutterKeeps ==
    ASSUME IInv, UNCHANGED <<status, ready_list, cur, idle_thread, sema, holder,
                             cond_waiters, tidVars, pc>>
    PROVE  IInv'
  <1>1. Sched' /\ Frames' /\ Data' BY DEF IInv, Sched, Frames, Data, tidVars
  <1>2. Boot' /\ Waiters' /\ News' BY DEF IInv, Boot, Waiters, News, tidVars
  <1>3. Tokens' BY DEF IInv, Tokens, Has, InTransit
  <1>4. Tids' BY DEF IInv, Tids, UniqueTids, tidVars
  <1>5. NoLostWakeup' BY DEF IInv, NoLostWakeup, Woken
  <1> QED BY <1>1, <1>2, <1>3, <1>4, <1>5 DEF IInv

-----------------------------------------------------------------------------
(* The primitives.                                                        *)

\* Downing a semaphore: the thread that takes a unit is no longer on its way.
LEMMA TakeWakeups ==
    ASSUME IInv, NEW s \in Sems, NEW f, Moves(f), f.at \notin Waiting,
           pc[cur].at \in Waiting => pc[cur].on = s,
           sema[s].value > 0, sema' \in Semas,
           sema'[s] = [value |-> sema[s].value - 1, waiters |-> sema[s].waiters],
           \A x \in Sems \ {s} : sema'[x] = sema[x]
    PROVE  NoLostWakeup'
  <1> USE SynchAssumption DEF Waiting
  <1>1. cur \in Threads BY Running
  <1>2. ASSUME NEW x \in Sems, x # s PROVE Woken(x)' = Woken(x)
    BY <1>1, <1>2 DEF Woken, Moves
  <1>3. ASSUME NEW x \in Sems, x = s PROVE Woken(x)' = Woken(x) \ {cur}
    BY <1>1, <1>3 DEF Woken, Moves
  <1>4. ASSUME NEW x \in Sems, x = s, sema[x].waiters # <<>>
        PROVE  sema'[x].value <= Cardinality(Woken(x)')
    <2>1. IsFiniteSet(Woken(x)) /\ IsFiniteSet(Woken(x)') BY FS_Subset DEF Woken
    <2>2. Cardinality(Woken(x)) \in Nat /\ Cardinality(Woken(x)') \in Nat
      BY <2>1, FS_CardinalityType
    <2>3. Cardinality(Woken(x)) <= Cardinality(Woken(x)') + 1
      <3>1. CASE cur \in Woken(x)
        BY <1>3, <1>4, <2>1, <2>2, <3>1, FS_RemoveElement
      <3>2. CASE cur \notin Woken(x)
        <4>1. Woken(x)' = Woken(x) BY <1>3, <1>4, <3>2
        <4> QED BY <2>2, <4>1
      <3> QED BY <3>1, <3>2
    <2>4. sema[x].value \in Nat BY DEF IInv, Data, Semas
    <2> QED BY <1>4, <2>2, <2>3, <2>4 DEF IInv, NoLostWakeup
  <1> QED BY <1>2, <1>4 DEF IInv, NoLostWakeup

\* A turn of the loop in sema_down, on s: the thread waits at f or gets to d.
LEMMA SemaDownKeeps ==
    ASSUME IInv, NEW s \in Sems, NEW f, NEW d,
           cur # idle,
           \/ idle_thread = idle
           \/ s = idle /\ cur = main /\ pc[main].at # "boot" /\ f.at = "down",
           pc[cur].at \in Waiting => pc[cur].on = s,
           GoodFrame(cur, f), f.at \in Waiting, f.on = s,
           GoodFrame(cur, d), d.at \notin {"down", "iq_lock", "up", "tid_load", "tid_store", "boot"},
           IF s \in Locks THEN d.at = "own" /\ d.on = s ELSE d.at # "own",
           f.ret = "tid_load" \/ (d.at = "own" /\ d.ret = "tid_load") => new[cur] # NULL,
           d.at \notin {"tid_acquire", "created"},
           sema_down(s, f, d),
           UNCHANGED <<idle_thread, holder, cond_waiters, tidVars>>
    PROVE  IInv'
  <1> USE SynchAssumption DEF Sems
  <1>1. CASE /\ sema[s].value = 0
             /\ sema' = [sema EXCEPT ![s].waiters = Append(@, cur)]
             /\ Go(f) /\ thread_block
    <2>1. ready_list # <<>> \/ idle_thread = idle
      BY EmptyFacts DEF IInv, Sched, Boot
    <2>2. Sched' /\ Kept /\ status'[cur] = "blocked"
      BY <1>1, <2>1, ScheduleKeeps DEF IInv, thread_block
    <2>3. pc' = [pc EXCEPT ![cur] = f] /\ cur \in Threads /\ status[cur] = "running"
      BY <1>1 DEF IInv, Sched, Go
    <2>4. /\ sema'[s] = [value |-> sema[s].value, waiters |-> Append(sema[s].waiters, cur)]
          /\ \A x \in Sems \ {s} : sema'[x] = sema[x]
          /\ sema' \in Semas /\ sema[s].waiters \in Seq(Threads) /\ sema[s].value \in Nat
      <3>1. sema \in Semas BY DEF IInv, Data
      <3>2. sema[s].waiters \in Seq(Threads) /\ sema[s].value \in Nat BY <3>1 DEF Semas
      <3> QED BY <1>1, <2>3, <3>1, <3>2, PushFacts
    <2>a. cur \notin ToSet(sema[s].waiters)
      BY <2>3 DEF IInv, Waiters
    <2>5. Frames' BY <2>3 DEF IInv, Frames, GoodFrame
    <2>6. Data' BY <2>4 DEF IInv, Data, tidVars
    <2>7. Boot' BY <2>2, <2>3, <2>4 DEF IInv, Boot, Kept, Sched, tidVars, Waiting
    <2>8. Waiters'
      <3>1. IsInjective(sema'[s].waiters) /\ ToSet(sema'[s].waiters) = ToSet(sema[s].waiters) \cup {cur}
        BY <2>3, <2>4, <2>a, AppendFacts DEF IInv, Waiters
      <3>2. \A x \in Sems : ToSet(sema[x].waiters) \subseteq Threads
        BY EmptyFacts DEF IInv, Data, Semas
      <3>3. \A x \in Sems : \A t \in ToSet(sema[x].waiters) :
              /\ t # cur /\ t # idle /\ status'[t] = "blocked" /\ pc'[t] = pc[t]
              /\ pc[t].at \in {"down", "iq_lock"} /\ pc[t].on = x
        BY <2>2, <2>3, <3>2 DEF IInv, Waiters, Kept, Frames, GoodFrame
      <3>4. pc'[cur] = f BY <2>3 DEF IInv, Frames
      <3>5. ASSUME NEW x \in Sems, x # s
            PROVE  /\ IsInjective(sema'[x].waiters)
                   /\ \A t \in ToSet(sema'[x].waiters) :
                         /\ status'[t] = "blocked"
                         /\ pc'[t].at \in {"down", "iq_lock"} /\ pc'[t].on = x
        BY <2>4, <3>3, <3>5 DEF IInv, Waiters
      <3>6. \A t \in ToSet(sema'[s].waiters) :
                         /\ status'[t] = "blocked"
                         /\ pc'[t].at \in {"down", "iq_lock"} /\ pc'[t].on = s
        BY <2>2, <3>1, <3>3, <3>4 DEF Waiting
      <3> QED BY <3>1, <3>5, <3>6 DEF Waiters
    <2>9. News'
      <3>0. Creating(f) => new[cur] # NULL BY DEF Creating, GoodFrame, Waiting
      <3> QED BY <2>2, <2>3, <3>0, GoMoves, NewsKept DEF tidVars, Go
    <2>10. Tokens'
      <3>1. \A l \in Locks : sema'[l].value = sema[l].value BY <2>4
      <3>2. \A l \in Locks, t \in Threads : InTransit(t, l)' => InTransit(t, l)
        BY <2>3 DEF InTransit, IInv, Frames, Waiting
      <3> QED BY <3>1, <3>2 DEF IInv, Tokens, Has
    <2>11. Tids' BY <2>3 DEF IInv, Tids, UniqueTids, Frames, tidVars, Waiting
    <2>12. NoLostWakeup'
      <3>1. ASSUME NEW x \in Sems, x # s PROVE Woken(x)' = Woken(x)
        BY <2>3, <2>4, <3>1 DEF Woken, IInv, Frames, Waiting
      <3>2. IsFiniteSet(Woken(s)') BY FS_Subset DEF Woken
      <3>3. sema'[s].value <= Cardinality(Woken(s)')
        <4>1. Cardinality(Woken(s)') \in Nat BY <3>2, FS_CardinalityType
        <4> QED BY <1>1, <2>4, <4>1
      <3> QED BY <2>4, <3>1, <3>3 DEF IInv, NoLostWakeup
    <2> QED BY <2>2, <2>5, <2>6, <2>7, <2>8, <2>9, <2>10, <2>11, <2>12 DEF IInv
  <1>2. CASE /\ sema[s].value > 0
             /\ sema' = [sema EXCEPT ![s].value = @ - 1]
             /\ Go(d) /\ UNCHANGED schedVars
    <2>1. idle_thread = idle /\ pc[main].at # "boot" /\ cur \in Threads
      BY <1>2 DEF IInv, Boot, Sched
    <2>2. Sched' BY <1>2 DEF IInv, Sched, schedVars
    <2>3. /\ \A t \in Threads : pc'[t] = IF t = cur THEN d ELSE pc[t]
          /\ DOMAIN pc' = Threads /\ status' = status /\ new' = new /\ cur' = cur
      BY <1>2 DEF IInv, Frames, Go, schedVars, tidVars
    <2>4. /\ sema'[s] = [value |-> sema[s].value - 1, waiters |-> sema[s].waiters]
          /\ \A x \in Sems \ {s} : sema'[x] = sema[x]
          /\ sema' \in Semas /\ sema[s].value \in Nat
      <3>1. sema \in Semas BY DEF IInv, Data
      <3>2. sema[s].waiters \in Seq(Threads) /\ sema[s].value \in Nat BY <3>1 DEF Semas
      <3> QED BY <1>2, <3>1, <3>2, TakeFacts
    <2>5. Frames' BY <2>3 DEF IInv, Frames
    <2>6. Data' BY <2>4 DEF IInv, Data, tidVars
    <2>7. Boot' BY <2>1, <2>3, KeptIfSame, BootKept DEF Moves
    <2>8. Waiters' BY <2>3, <2>4, KeptIfSame, WaitersKept DEF Moves
    <2>9. News'
      <3>1. Creating(d) => new[cur] # NULL BY DEF Creating, GoodFrame
      <3> QED BY <2>3, <3>1, KeptIfSame, NewsKept DEF Moves
    <2>10. Tokens'
      <3>1. ASSUME NEW l \in Locks, l # s PROVE \A t \in Threads : InTransit(t, l)' => InTransit(t, l)
        BY <2>3, <3>1 DEF InTransit
      <3>2. CASE s \in Locks
        <4>1. sema[s].value = 1 /\ \A t \in Threads : ~Has(t, s)
          BY <1>2, <3>2 DEF IInv, Tokens
        <4>2. sema'[s].value = 0 /\ \A t \in Threads : Has(t, s)' => t = cur
          BY <2>3, <2>4, <4>1 DEF Has, InTransit
        <4>3. holder'[s] # cur BY <2>1, <4>1 DEF Has
        <4> QED BY <2>4, <3>1, <4>2, <4>3 DEF IInv, Tokens, Has
      <3>3. CASE s \notin Locks
        BY <2>4, <3>1, <3>3 DEF IInv, Tokens, Has
      <3> QED BY <3>2, <3>3
    <2>11. Tids' BY <2>3 DEF IInv, Tids, UniqueTids, tidVars
    <2>12. NoLostWakeup'
      <3>1. d.at \notin Waiting BY DEF Waiting
      <3>2. Moves(d) BY <2>3 DEF Moves
      <3>3. sema[s].value > 0 BY <1>2
      <3> HIDE DEF Sems
      <3> QED BY <2>4, <3>1, <3>2, <3>3, TakeWakeups
    <2> QED BY <2>2, <2>5, <2>6, <2>7, <2>8, <2>9, <2>10, <2>11, <2>12 DEF IInv
  <1> QED BY <1>1, <1>2 DEF sema_down

\* sema_up, on s, by a thread that goes on at f.
LEMMA SemaUpKeeps ==
    ASSUME IInv, NEW s \in Sems, NEW f, Moves(f), sema_up(s),
           f.at \notin Waiting, pc[cur].at \notin Waiting, f.at # "boot",
           pc[main].at # "boot", idle_thread' = idle,
           idle_thread = idle \/ cur = idle,
           new' = new, Creating(f) => new[cur] # NULL
    PROVE  /\ Sched' /\ Boot' /\ Waiters' /\ News' /\ NoLostWakeup'
           /\ sema' \in Semas /\ sema'[s].value = sema[s].value + 1
           /\ \A x \in Sems \ {s} : sema'[x] = sema[x]
  <1> USE SynchAssumption
  <1>1. sema \in Semas BY DEF IInv, Data
  <1>2. sema[s].waiters \in Seq(Threads) /\ sema[s].value \in Nat BY <1>1 DEF Semas
  <1>3. /\ sema' \in Semas
        /\ sema'[s] = [value |-> sema[s].value + 1,
                       waiters |-> IF sema[s].waiters = <<>> THEN sema[s].waiters
                                      ELSE Tail(sema[s].waiters)]
        /\ \A x \in Sems \ {s} : sema'[x] = sema[x]
    BY <1>1, RaiseFacts DEF sema_up
  <1>4. CASE sema[s].waiters = <<>>
    <2>1. UNCHANGED schedVars BY <1>4 DEF sema_up
    <2>2. Kept BY <2>1, KeptIfSame DEF schedVars
    <2>3. Sched' BY <2>1 DEF IInv, Sched, schedVars
    <2>4. Boot' BY <2>2, BootKept
    <2>5. Waiters' BY <1>3, <1>4, <2>2, WaitersKept
    <2>6. News' BY <2>2, NewsKept
    <2>7. NoLostWakeup'
      <3>1. ASSUME NEW x \in Sems, sema'[x].waiters = sema[x].waiters
            PROVE  Woken(x)' = Woken(x)
        BY <3>1 DEF Woken, Moves, Waiting
      <3> QED BY <1>3, <1>4, <3>1 DEF IInv, NoLostWakeup
    <2> QED BY <1>3, <2>3, <2>4, <2>5, <2>6, <2>7
  <1>5. CASE sema[s].waiters # <<>>
    <2> DEFINE w == sema[s].waiters
               u == Head(w)
    <2>1. /\ u \in Threads /\ u \in ToSet(w) /\ IsInjective(Tail(w))
          /\ ToSet(Tail(w)) = ToSet(w) \ {u} /\ ToSet(w) \subseteq Threads
      BY <1>2, <1>5, TailFacts, EmptyFacts DEF IInv, Waiters
    <2>2. status[u] = "blocked" /\ pc[u].at \in {"down", "iq_lock"} /\ pc[u].on = s
      BY <2>1 DEF IInv, Waiters
    <2>3. u # cur /\ u # idle /\ u # idle_thread
      BY <2>1, <2>2, Running DEF IInv, Frames, GoodFrame, Sched
    <2>4. thread_unblock(u) BY <1>5 DEF sema_up
    <2> HIDE DEF u, w
    <2>5. /\ Sched' /\ cur' = cur /\ status'[u] = "ready"
          /\ \A t \in Threads \ {u} : status'[t] = status[t]
      BY <2>1, <2>2, <2>3, <2>4, UnblockKeeps DEF IInv
    <2>6. Boot'
      <3>1. pc'[main].at # "boot" BY DEF Moves
      <3>2. \A t \in Threads : status'[t] = "none" => status[t] = "none" /\ t # cur
        BY <2>5, Running
      <3>3. status[main] # "none" /\ status[idle] # "none" BY DEF IInv, Boot
      <3>4. status'[main] # "none" /\ status'[idle] # "none" BY <2>5, <3>3
      <3> QED BY <3>1, <3>2, <3>4 DEF IInv, Boot, Moves
    <2>7. Waiters'
      <3>1. sema'[s].waiters = Tail(w) BY <1>3, <1>5 DEF w
      <3>2. ASSUME NEW x \in Sems, NEW t \in ToSet(sema'[x].waiters)
            PROVE  t \in ToSet(sema[x].waiters) /\ t # u
        <4>1. CASE x = s BY <2>1, <3>1, <3>2, <4>1 DEF w
        <4>2. CASE x # s BY <1>3, <2>2, <3>2, <4>2 DEF IInv, Waiters
        <4> QED BY <4>1, <4>2
      <3>3. ASSUME NEW x \in Sems, NEW t \in ToSet(sema[x].waiters), t # u
            PROVE  status'[t] = "blocked" /\ pc'[t] = pc[t]
        <4>1. t \in Threads BY <1>1, EmptyFacts DEF Semas
        <4>2. status[t] = "blocked" BY DEF IInv, Waiters
        <4> QED BY <2>5, <3>3, <4>1, <4>2, Running DEF Moves
      <3>4. \A x \in Sems : IsInjective(sema'[x].waiters)
        BY <1>3, <2>1, <3>1 DEF IInv, Waiters
      <3> QED BY <3>2, <3>3, <3>4 DEF IInv, Waiters
    <2>8. News'
      <3>1. ASSUME NEW t \in Threads, new[t] # NULL
            PROVE  status'[new[t]] = "blocked" /\ pc'[new[t]].at = "run"
        <4>1. /\ new[t] \in Threads /\ status[new[t]] = "blocked"
              /\ pc[new[t]].at = "run" BY <3>1 DEF IInv, News, Data
        <4> QED BY <2>2, <2>5, <4>1, Running DEF Moves
      <3>2. ASSUME NEW t \in Threads, Creating(pc'[t]) PROVE new[t] # NULL
        BY <3>2 DEF IInv, News, Moves
      <3>3. \A t, y \in Threads : new[t] # NULL /\ t # y => new[y] # new[t] BY DEF IInv, News
      <3> QED BY <3>1, <3>2, <3>3 DEF News
    <2>9. NoLostWakeup'
      <3>1. ASSUME NEW x \in Sems, x # s PROVE Woken(x)' = Woken(x)
        BY <1>3, <3>1 DEF Woken, Moves, Waiting
      <3>2. Woken(s)' = Woken(s) \cup {u} /\ u \notin Woken(s)
        BY <1>3, <1>5, <2>1, <2>2, <2>3 DEF Woken, Moves, Waiting, w
      <3>3. IsFiniteSet(Woken(s)) BY FS_Subset DEF Woken
      <3>4. Cardinality(Woken(s)') = Cardinality(Woken(s)) + 1 /\ Cardinality(Woken(s)) \in Nat
        BY <3>2, <3>3, FS_AddElement, FS_CardinalityType
      <3>5. sema'[s].value <= Cardinality(Woken(s)')
        BY <1>2, <1>3, <1>5, <3>4 DEF IInv, NoLostWakeup
      <3> QED BY <1>3, <3>1, <3>5 DEF IInv, NoLostWakeup
    <2> QED BY <1>3, <2>5, <2>6, <2>7, <2>8, <2>9
  <1> QED BY <1>4, <1>5

\* thread_yield, perhaps out of hlt.
LEMMA YieldKeeps ==
    ASSUME IInv, thread_yield, pc[main].at # "boot",
           pc' = pc \/ (cur = idle /\ idle_thread = idle /\ Go(At("idle_loop"))),
           UNCHANGED <<idle_thread, sema, holder, cond_waiters, tidVars>>
    PROVE  IInv'
  <1> USE SynchAssumption
  <1>a. cur \in Threads /\ status[cur] = "running" BY Running
  <1> DEFINE r == IF cur = idle_thread THEN ready_list ELSE Append(ready_list, cur)
  <1>1. r # <<>> \/ idle_thread = idle
    BY <1>a, AppendFacts DEF IInv, Sched
  <1>2. Sched' /\ Kept /\ status'[cur] \in {"ready", "running"}
    BY <1>1, ScheduleKeeps DEF IInv, thread_yield
  <1> DEFINE f == IF pc' = pc THEN pc[cur] ELSE At("idle_loop")
  <1>3. Moves(f) BY DEF Moves, IInv, Frames, Go
  <1>4. Frames'
    <2>1. GoodFrame(cur, f) BY <1>a DEF IInv, Frames, GoodFrame, At
    <2> QED BY <1>3, <2>1, FramesKept
  <1>5. Data' BY DEF IInv, Data, tidVars
  <1>6. Boot'
    <2>1. CASE idle_thread = idle
      <3>1. f.at # "boot"
        BY <1>a DEF IInv, Frames, GoodFrame, At
      <3> QED BY <1>2, <1>3, <2>1, <3>1, BootKept
    <2>2. CASE idle_thread = NULL
      <3>1. pc' = pc /\ sema' = sema /\ idle_thread' = NULL BY <2>2
      <3>2. status'[idle] \in {"ready", "running"}
        BY <1>2, <1>a, <2>2 DEF IInv, Boot, Kept, Sched
      <3> QED BY <1>2, <2>2, <3>1, <3>2 DEF IInv, Boot, Kept
    <2> QED BY <2>1, <2>2 DEF IInv, Sched
  <1>7. Waiters' BY <1>2, <1>3, WaitersKept
  <1>8. News'
    <2>1. Creating(f) => new[cur] # NULL BY <1>a DEF IInv, News, Creating, At
    <2> QED BY <1>2, <1>3, <2>1, NewsKept DEF tidVars
  <1>9. Tokens'
    BY <1>3, <1>a DEF IInv, Tokens, Has, InTransit, Moves, At
  <1>10. Tids' BY <1>3, <1>a DEF IInv, Tids, UniqueTids, Moves, tidVars, At
  <1>11. NoLostWakeup'
    <2>1. ASSUME NEW s \in Sems PROVE Woken(s)' = Woken(s)
      <3>1. CASE pc' = pc BY <3>1 DEF Woken
      <3>2. CASE cur = idle /\ Go(At("idle_loop"))
        BY <1>3, <1>a, <3>2 DEF Woken, Go, At, IInv, Frames, GoodFrame
      <3> QED BY <3>1, <3>2
    <2> QED BY <2>1 DEF IInv, NoLostWakeup
  <1> QED BY <1>2, <1>4, <1>5, <1>6, <1>7, <1>8, <1>9, <1>10, <1>11 DEF IInv

\* thread_block of a thread that waits for no semaphore, and thread_exit.
LEMMA StopKeeps ==
    ASSUME IInv, NEW st \in {"blocked", "dying"}, NEW f, Go(f), GoodFrame(cur, f),
           schedule([status EXCEPT ![cur] = st], ready_list),
           idle_thread = idle, pc[main].at # "boot", st = "dying" => cur # idle,
           f.at \in {"hlt", "dead"}, pc[cur].at \in {"idle_loop", "run"},
           UNCHANGED <<idle_thread, sema, holder, cond_waiters, tidVars>>
    PROVE  IInv'
  <1>1. Moves(f) /\ ~Creating(f) BY GoMoves DEF Creating
  <1>2. Sched' /\ Kept BY ScheduleKeeps DEF IInv
  <1>3. Frames' BY <1>1, FramesKept
  <1>4. Data' BY DEF IInv, Data, tidVars
  <1>5. Boot' BY <1>1, <1>2, BootKept
  <1>6. Waiters' BY <1>1, <1>2, WaitersKept
  <1>7. News' BY <1>1, <1>2, NewsKept DEF tidVars
  <1>8. Tokens' BY <1>1, TokensKept
  <1>9. Tids' BY <1>1, TidsKept DEF tidVars
  <1>10. NoLostWakeup'
    <2>1. sema' \in Semas /\ Lowered BY SemaSame
    <2> QED BY <1>1, <2>1, WakeupsKept DEF Waiting
  <1> QED BY <1>2, <1>3, <1>4, <1>5, <1>6, <1>7, <1>8, <1>9, <1>10 DEF IInv

\* A step that neither switches threads nor waits.
LEMMA LocalKeeps ==
    ASSUME IInv, NEW f, Moves(f), GoodFrame(cur, f), UNCHANGED <<status, ready_list, cur, idle_thread>>,
           pc[cur].at \notin {"boot", "started", "down", "iq_lock", "idle"},
           f.at \notin {"boot", "down", "iq_lock"},
           Lowered, sema' \in Semas, new' = new, Creating(f) => new[cur] # NULL
    PROVE  Sched' /\ Frames' /\ Boot' /\ Waiters' /\ News' /\ NoLostWakeup'
  <1>1. Kept /\ Sched' BY KeptIfSame DEF IInv, Sched
  <1>2. Frames' BY FramesKept
  <1>3. Boot' BY <1>1, Booted, BootKept
  <1>4. Waiters' BY <1>1, WaitersKept DEF Lowered
  <1>5. News' BY <1>1, NewsKept
  <1>6. NoLostWakeup' BY WakeupsKept DEF Waiting
  <1> QED BY <1>1, <1>2, <1>3, <1>4, <1>5, <1>6

\* A step that touches neither semaphores nor locks nor identifiers.
LEMMA QuietKeeps ==
    ASSUME IInv, NEW f, Moves(f), GoodFrame(cur, f),
           UNCHANGED <<status, ready_list, cur, idle_thread, sema, holder, tidVars>>,
           cond_waiters' \in Seq(Threads),
           pc[cur].at \notin {"boot", "started", "down", "iq_lock", "idle"},
           f.at \notin {"boot", "down", "iq_lock", "tid_load", "tid_store"},
           f.at \in {"own", "up"} => f.on \notin Locks,
           Creating(f) => new[cur] # NULL
    PROVE  IInv'
  <1>1. Sched' /\ Frames' /\ Boot' /\ Waiters' /\ News' /\ NoLostWakeup'
    <2>1. sema' = sema /\ sema \in Semas /\ \A x \in Sems : sema[x].value \in Nat
      BY DEF IInv, Data, Semas
    <2> QED BY <2>1, LocalKeeps DEF tidVars, Lowered
  <1>2. Data' BY DEF IInv, Data, tidVars
  <1>3. Tokens' BY TokensKept
  <1>4. Tids' BY TidsKept DEF tidVars
  <1> QED BY <1>1, <1>2, <1>3, <1>4 DEF IInv

\* lock_acquire.
LEMMA AcquireKeeps ==
    ASSUME IInv, NEW l \in Locks, NEW r \in {"run", "tid_load", "print"},
           pc[cur].at \notin {"boot", "started", "down", "idle", "iq_lock", "idle_loop", "hlt"},
           r = "tid_load" => l = tid_lock /\ new[cur] # NULL,
           lock_acquire(l, r), UNCHANGED <<idle_thread, holder, cond_waiters, tidVars>>
    PROVE  IInv'
  <1> USE SynchAssumption DEF Sems
  <1> DEFINE f == Frame("down", l, r)
             d == Frame("own", l, r)
  <1>1. cur \in Threads /\ cur # idle /\ idle_thread = idle
    BY Running, Booted DEF IInv, Frames, GoodFrame
  <1>2. GoodFrame(cur, f) /\ GoodFrame(cur, d)
    BY <1>1 DEF GoodFrame, Frame
  <1>3. /\ f.at = "down" /\ f.on = l /\ f.ret = r /\ d.at = "own" /\ d.on = l /\ d.ret = r
    BY DEF Frame
  <1>4. sema_down(l, f, d) BY DEF lock_acquire
  <1> HIDE DEF f, d
  <1> QED BY <1>1, <1>2, <1>3, <1>4, SemaDownKeeps DEF Waiting

\* lock_release up to its sema_up.
LEMMA ReleaseKeeps ==
    ASSUME IInv, NEW l \in Locks, NEW r \in {"run", "cw_down"}, lock_release(l, r),
           pc[cur].at \in {"run", "cw_release", "print"},
           UNCHANGED <<schedVars, idle_thread, sema, cond_waiters, tidVars>>
    PROVE  IInv'
  <1> USE SynchAssumption DEF Sems
  <1> DEFINE f == Frame("up", l, r)
  <1>1. cur \in Threads /\ cur # idle /\ holder[l] = cur
    BY Running DEF lock_release, IInv, Frames, GoodFrame
  <1>2. Moves(f) /\ GoodFrame(cur, f)
    BY <1>1, GoMoves DEF lock_release, GoodFrame, Frame
  <1>3. holder' = [holder EXCEPT ![l] = NULL] BY DEF lock_release
  <1>4. Sched' /\ Frames' /\ Boot' /\ Waiters' /\ News' /\ NoLostWakeup'
    <2>1. f.at = "up" /\ ~Creating(f) BY DEF Frame, Creating
    <2>2. sema' \in Semas /\ Lowered BY SemaSame
    <2> HIDE DEF f
    <2> QED BY <1>1, <1>2, <2>1, <2>2, LocalKeeps DEF schedVars, tidVars
  <1>5. Data' BY <1>3 DEF IInv, Data, tidVars
  <1>6. Tokens' BY ReleaseTokens
  <1>7. Tids'
    <2>1. \A t \in Threads \ {cur} : holder[tid_lock] = t => holder'[tid_lock] = t
      BY <1>1, <1>3 DEF IInv, Data
    <2> QED BY <1>2, <2>1, TidsKept DEF Frame, tidVars
  <1> QED BY <1>4, <1>5, <1>6, <1>7 DEF IInv

-----------------------------------------------------------------------------
(* The actions.                                                           *)

\* Each action keeps the invariant.  thread_start:
LEMMA ThreadStartKeeps == ASSUME IInv, ThreadStart PROVE IInv'
  <1> USE SynchAssumption DEF Sems
  <1> DEFINE f == At("started")
  <1>1. /\ cur = main /\ pc[main].at = "boot" /\ idle_thread = NULL /\ status[idle] = "none"
        /\ status[main] = "running"
        /\ \A t \in Threads \ {main} : status[t] = "none" /\ pc[t].at \in {"run", "idle"}
        /\ sema[idle].value = 0 /\ pc[idle].at = "idle"
    BY Running DEF ThreadStart, IsAt, IInv, Frames, GoodFrame, Boot
  <1>2. Moves(f) /\ GoodFrame(cur, f) /\ f.at = "started" /\ ~Creating(f)
    BY <1>1, GoMoves DEF ThreadStart, GoodFrame, At, Creating
  <1>3. /\ UNCHANGED <<idle_thread, sema, holder, cond_waiters, tmp_tid, new>>
        /\ thread_unblock(idle)
        /\ tid' = [tid EXCEPT ![idle] = next_tid] /\ next_tid' = next_tid + 1
    BY DEF ThreadStart
  <1>4. /\ Sched' /\ cur' = cur /\ status'[idle] = "ready"
        /\ \A t \in Threads \ {idle} : status'[t] = status[t]
    BY <1>1, <1>3, UnblockKeeps DEF IInv
  <1>5. Frames' BY <1>2, FramesKept
  <1>6. Data' BY <1>3 DEF IInv, Data
  <1>7. Boot' BY <1>1, <1>2, <1>3, <1>4 DEF Boot, Moves, IInv
  <1>8. \A s \in Sems : ToSet(sema[s].waiters) = {} /\ IsInjective(sema[s].waiters)
    <2>1. \A s \in Sems : ToSet(sema[s].waiters) \subseteq Threads
      BY EmptyFacts DEF IInv, Data, Semas
    <2> QED BY <1>1, <2>1 DEF IInv, Waiters
  <1>9. Waiters' BY <1>3, <1>8 DEF Waiters
  <1>10. \A t \in Threads : new[t] = NULL
    BY <1>1 DEF IInv, News, Data
  <1>11. News'
    <2>1. \A t \in Threads : ~Creating(pc[t]) BY <1>10 DEF IInv, News
    <2> QED BY <1>2, <1>3, <1>10, <2>1 DEF News, Moves
  <1>12. Tokens' BY <1>2, <1>3, TokensKept
  <1>13. Tids'
    <2>1. \A t \in Threads : tid[t] \in Nat /\ tid[t] < next_tid /\ next_tid \in Nat
      BY DEF IInv, Tids, Data
    <2>2. \A t \in Threads : tid'[t] = IF t = idle THEN next_tid ELSE tid[t]
      BY <1>3 DEF IInv, Data
    <2>3. UniqueTids' BY <2>1, <2>2 DEF IInv, Tids, UniqueTids
    <2>4. \A t \in Threads : tid'[t] < next_tid' BY <1>3, <2>1, <2>2
    <2>5. \A t \in Threads : pc'[t].at \notin {"tid_load", "tid_store"}
      BY <1>1, <1>2 DEF Moves
    <2> QED BY <2>3, <2>4, <2>5 DEF Tids
  <1>14. NoLostWakeup'
    <2>1. \A s \in Sems : sema[s].waiters = <<>>
      <3>1. \A s \in Sems : sema[s].waiters \in Seq(Threads) BY DEF IInv, Data, Semas
      <3>2. ASSUME NEW s \in Sems PROVE sema[s].waiters = <<>>
        <4> DEFINE w == sema[s].waiters
        <4>1. w \in Seq(Threads) /\ ToSet(w) = {} BY <1>8, <3>1
        <4> HIDE DEF w
        <4>2. w = <<>> BY <4>1, EmptyFacts
        <4> QED BY <4>2 DEF w
      <3> QED BY <3>2
    <2> QED BY <1>3, <2>1 DEF NoLostWakeup
  <1> QED BY <1>4, <1>5, <1>6, <1>7, <1>9, <1>11, <1>12, <1>13, <1>14 DEF IInv

\* sema_down (&idle_started):
LEMMA WaitIdleStartedKeeps == ASSUME IInv, WaitIdleStarted PROVE IInv'
  <1> USE SynchAssumption DEF Sems
  <1> DEFINE f == Frame("down", idle, "run")
             d == At("run")
  <1>1. /\ cur = main /\ cur # idle /\ cur \in Threads /\ idle \notin Locks
        /\ pc[cur].at = "started"
    BY Running DEF IInv, Frames, GoodFrame, WaitIdleStarted, IsAt
  <1>2. GoodFrame(cur, f) /\ GoodFrame(cur, d)
    BY <1>1 DEF GoodFrame, Frame, At
  <1>3. f.at = "down" /\ f.on = idle /\ f.ret = "run" /\ d.at = "run"
    BY DEF Frame, At
  <1>4. sema_down(idle, f, d) /\ UNCHANGED <<idle_thread, holder, cond_waiters, tidVars>>
    BY DEF WaitIdleStarted
  <1> HIDE DEF f, d
  <1> QED BY <1>1, <1>2, <1>3, <1>4, SemaDownKeeps DEF Waiting

\* sema_up (idle_started), in idle:
LEMMA IdleStartKeeps == ASSUME IInv, IdleStart PROVE IInv'
  <1> USE SynchAssumption DEF Sems
  <1> DEFINE f == At("idle_loop")
  <1>1. /\ cur \in Threads /\ pc[cur].at = "idle" /\ cur = idle /\ idle \notin Locks
    BY Running DEF IdleStart, IsAt, IInv, Frames, GoodFrame
  <1>2. Moves(f) /\ GoodFrame(cur, f) /\ f.at = "idle_loop" /\ ~Creating(f)
    BY <1>1, GoMoves DEF IdleStart, GoodFrame, At, Creating
  <1>3. /\ UNCHANGED <<holder, cond_waiters, new, next_tid, tid, tmp_tid>>
        /\ sema_up(idle) /\ idle_thread' = idle
    BY <1>1 DEF IdleStart, tidVars
  <1>4. /\ Sched' /\ Boot' /\ Waiters' /\ News' /\ NoLostWakeup'
        /\ sema' \in Semas
        /\ \A x \in Sems \ {idle} : sema'[x] = sema[x]
    <2>1. pc[main].at # "boot" BY <1>1 DEF IInv, Boot
    <2>2. f.at \notin Waiting /\ f.at # "boot" /\ pc[cur].at \notin Waiting
      BY <1>1, <1>2 DEF Waiting
    <2> HIDE DEF f
    <2> QED BY <1>1, <1>2, <1>3, <2>1, <2>2, SemaUpKeeps
  <1>5. Frames' BY <1>2, FramesKept
  <1>6. Data' BY <1>3, <1>4 DEF IInv, Data
  <1>7. Tokens' BY <1>1, <1>2, <1>3, <1>4, TokensKept
  <1>8. Tids' BY <1>2, <1>3, TidsKept
  <1> QED BY <1>4, <1>5, <1>6, <1>7, <1>8 DEF IInv

\* thread_block, in idle:
LEMMA IdleBlockKeeps == ASSUME IInv, IdleBlock PROVE IInv'
  <1>1. /\ cur \in Threads /\ cur = idle /\ pc[cur].at = "idle_loop"
        /\ idle_thread = idle /\ pc[main].at # "boot"
    BY Running, Booted DEF IdleBlock, IsAt, IInv, Frames, GoodFrame
  <1>2. At("hlt").at = "hlt" /\ GoodFrame(cur, At("hlt"))
    BY <1>1, SynchAssumption DEF At, GoodFrame
  <1>3. schedule([status EXCEPT ![cur] = "blocked"], ready_list) /\ Go(At("hlt"))
    BY DEF IdleBlock, thread_block
  <1> QED BY <1>1, <1>2, <1>3, StopKeeps DEF IdleBlock

\* The loop of sema_down after a wake-up:
LEMMA ResumeKeeps == ASSUME IInv, Resume PROVE IInv'
  <1> USE SynchAssumption DEF Sems
  <1> DEFINE f == pc[cur]
             s == f.on
             d == IF s \in Locks THEN Frame("own", s, f.ret) ELSE At(f.ret)
  <1>1. /\ cur \in Threads /\ status[cur] = "running" /\ f.at = "down"
        /\ GoodFrame(cur, f) /\ s \in Sems /\ cur # idle
    BY Running DEF Resume, IsAt, IInv, Frames, GoodFrame
  <1>2. \/ idle_thread = idle
        \/ s = idle /\ cur = main /\ pc[main].at # "boot" /\ f.at = "down"
    BY <1>1 DEF IInv, Boot, Sched
  <1>3. f.ret = "tid_load" => new[cur] # NULL
    BY <1>1 DEF IInv, News, Creating
  <1>4. /\ GoodFrame(cur, d) /\ IF s \in Locks THEN d.at = "own" /\ d.on = s ELSE d.at # "own"
        /\ d.at \notin {"down", "iq_lock", "up", "tid_load", "tid_store", "boot"}
        /\ d.at \notin {"tid_acquire", "created"}
        /\ d.at = "own" => d.ret = f.ret
    BY <1>1 DEF GoodFrame, Frame, At
  <1>5. sema_down(s, f, d) /\ UNCHANGED <<idle_thread, holder, cond_waiters, tidVars>>
    BY DEF Resume
  <1> HIDE DEF d
  <1> QED BY <1>1, <1>2, <1>3, <1>4, <1>5, SemaDownKeeps DEF Waiting

\* sema_up at the end of lock_release and cond_signal:
LEMMA UpKeeps == ASSUME IInv, Up PROVE IInv'
  <1> USE SynchAssumption DEF Sems
  <1> DEFINE s == pc[cur].on
             f == At(pc[cur].ret)
  <1>1. /\ cur \in Threads /\ pc[cur].at = "up" /\ s \in Sems /\ cur # idle
        /\ pc[cur].ret \in {"run", "cw_down", "created", "broadcast"}
    BY Running DEF Up, IsAt, IInv, Frames, GoodFrame
  <1>2. /\ Moves(f) /\ GoodFrame(cur, f) /\ f.at = pc[cur].ret
        /\ Creating(f) => new[cur] # NULL
    <2>1. Moves(f) BY GoMoves DEF Up
    <2>2. f.at = pc[cur].ret /\ GoodFrame(cur, f) BY <1>1 DEF GoodFrame, At
    <2>3. Creating(f) => Creating(pc[cur]) BY <1>1 DEF Creating, At
    <2> QED BY <1>1, <2>1, <2>2, <2>3 DEF IInv, News
  <1>3. /\ UNCHANGED <<idle_thread, holder, cond_waiters, new, next_tid, tid, tmp_tid>>
        /\ sema_up(s)
    BY DEF Up, tidVars
  <1>4. /\ Sched' /\ Boot' /\ Waiters' /\ News' /\ NoLostWakeup'
        /\ sema' \in Semas /\ sema'[s].value = sema[s].value + 1
        /\ \A x \in Sems \ {s} : sema'[x] = sema[x]
    <2>1. idle_thread = idle /\ pc[main].at # "boot" BY <1>1, Booted
    <2>2. f.at \notin Waiting /\ f.at # "boot" /\ pc[cur].at \notin Waiting
      BY <1>1, <1>2 DEF Waiting
    <2> HIDE DEF f, s
    <2> QED BY <1>1, <1>2, <1>3, <2>1, <2>2, SemaUpKeeps
  <1>5. Frames' BY <1>2, FramesKept
  <1>6. Data' BY <1>3, <1>4 DEF IInv, Data
  <1>7. Tokens'
    <2>1. \A x \in Locks, t \in Threads : InTransit(t, x)' <=> InTransit(t, x) /\ t # cur
      BY <1>1, <1>2 DEF InTransit, Moves
    <2>2. CASE s \in Locks
      <3>1. sema[s].value = 0 /\ holder[s] # cur /\ \A t \in Threads : Has(t, s) => t = cur
        BY <1>1, <2>2 DEF IInv, Tokens, Has, InTransit
      <3>2. \A t \in Threads, x \in Locks : Has(t, x)' => Has(t, x) /\ x # s
        BY <1>3, <2>1, <3>1 DEF Has
      <3> QED BY <1>3, <1>4, <2>1, <3>1, <3>2 DEF IInv, Tokens, Has
    <2>3. CASE s \notin Locks
      BY <1>3, <1>4, <2>1, <2>3 DEF IInv, Tokens, Has
    <2> QED BY <2>2, <2>3
  <1>8. Tids' BY <1>1, <1>2, <1>3, TidsKept
  <1> QED BY <1>4, <1>5, <1>6, <1>7, <1>8 DEF IInv

\* The store to lock->holder:
LEMMA SetHolderKeeps == ASSUME IInv, SetHolder PROVE IInv'
  <1> USE SynchAssumption DEF Sems
  <1> DEFINE f == At(pc[cur].ret)
             l == pc[cur].on
  <1>1. /\ cur \in Threads /\ pc[cur].at = "own" /\ l \in Locks
        /\ pc[cur].ret \in {"run", "tid_load", "print"}
        /\ pc[cur].ret = "tid_load" => l = tid_lock /\ new[cur] # NULL
    BY Running DEF IInv, Frames, GoodFrame, SetHolder, IsAt, News, Creating
  <1>2. Moves(f) /\ GoodFrame(cur, f)
    BY <1>1, GoMoves DEF SetHolder, GoodFrame, At, IInv, Frames
  <1>3. UNCHANGED <<schedVars, idle_thread, sema, new, cond_waiters, next_tid, tid, tmp_tid>>
    BY DEF SetHolder, tidVars
  <1>4. Sched' /\ Frames' /\ Boot' /\ Waiters' /\ News' /\ NoLostWakeup'
    <2>1. sema \in Semas /\ \A s \in Sems : sema[s].value \in Nat BY DEF IInv, Data, Semas
    <2>2. Creating(f) => new[cur] # NULL BY <1>1 DEF Creating, At
    <2>3. f.at \notin {"boot", "down", "iq_lock"} BY <1>1 DEF At
    <2> QED BY <1>1, <1>2, <1>3, <2>1, <2>2, <2>3, LocalKeeps DEF Lowered, schedVars
  <1>5. holder' = [holder EXCEPT ![l] = cur] /\ holder \in [Locks -> Threads \cup {NULL}]
    BY DEF SetHolder, IInv, Data
  <1>6. Data' BY <1>1, <1>3, <1>5 DEF IInv, Data
  <1>7. \A t \in Threads : Has(t, l) => t = cur
    BY <1>1 DEF IInv, Tokens, Has, InTransit
  <1>8. Tokens'
    <2>1. \A x \in Locks, t \in Threads : Has(t, x)' => Has(t, x)
      BY <1>1, <1>2, <1>5 DEF Has, InTransit, Moves, At
    <2>2. \A x \in Locks, t \in Threads : InTransit(t, x)' => t # cur
      BY <1>1, <1>2 DEF InTransit, Moves, At
    <2>3. \A t \in Threads, x \in Locks : t # cur =>
              (holder'[x] = t => holder[x] = t) /\ (InTransit(t, x)' => InTransit(t, x))
      BY <1>1, <1>2, <1>5 DEF InTransit, Moves
    <2> QED BY <1>3, <2>1, <2>2, <2>3 DEF IInv, Tokens
  <1>9. Tids'
    BY <1>1, <1>2, <1>3, <1>5, <1>7 DEF IInv, Tids, UniqueTids, Moves, At, Has
  <1> QED BY <1>4, <1>6, <1>8, <1>9 DEF IInv

\* lock_acquire:
LEMMA LockAcquireKeeps == ASSUME IInv, NEW l \in Locks, LockAcquire(l) PROVE IInv'
BY AcquireKeeps DEF LockAcquire, IsAt

\* lock_try_acquire:
LEMMA LockTryAcquireKeeps == ASSUME IInv, NEW l \in Locks, LockTryAcquire(l) PROVE IInv'
  <1> USE SynchAssumption DEF Sems
  <1> DEFINE f == Frame("own", l, "run")
  <1>1. /\ cur \in Threads /\ pc[cur].at = "run" /\ sema[l].value > 0 /\ cur # idle
        /\ holder[l] # cur
    BY Running DEF LockTryAcquire, IsAt, IInv, Frames, GoodFrame
  <1>2. Moves(f) /\ GoodFrame(cur, f)
    BY <1>1, GoMoves DEF LockTryAcquire, GoodFrame, Frame
  <1>3. UNCHANGED <<schedVars, idle_thread, holder, cond_waiters, new, next_tid, tid, tmp_tid>>
    BY DEF LockTryAcquire, tidVars
  <1>4. /\ sema' \in Semas
        /\ sema'[l] = [value |-> sema[l].value - 1, waiters |-> sema[l].waiters]
        /\ \A x \in Sems \ {l} : sema'[x] = sema[x]
    BY <1>1, TakeFacts DEF LockTryAcquire, IInv, Data
  <1>5. \A x \in Sems : sema[x].value \in Nat BY DEF IInv, Data, Semas
  <1>6. Sched' /\ Frames' /\ Boot' /\ Waiters' /\ News' /\ NoLostWakeup'
    <2>1. f.at = "own" /\ ~Creating(f) BY DEF Frame, Creating
    <2>2. \A x \in Sems : sema'[x].waiters = sema[x].waiters /\ sema'[x].value <= sema[x].value
      BY <1>4, <1>5
    <2> HIDE DEF f
    <2> QED BY <1>1, <1>2, <1>3, <1>4, <2>1, <2>2, LocalKeeps DEF Lowered, schedVars
  <1>7. Data' BY <1>3, <1>4 DEF IInv, Data
  <1>8. Tokens'
    <2>1. sema[l].value = 1 /\ \A t \in Threads : ~Has(t, l) BY <1>1 DEF IInv, Tokens
    <2>2. \A x \in Locks, t \in Threads : InTransit(t, x)' <=> InTransit(t, x) \/ (t = cur /\ x = l)
      BY <1>1, <1>2 DEF InTransit, Moves, Frame
    <2> QED BY <1>1, <1>3, <1>4, <2>1, <2>2 DEF IInv, Tokens, Has
  <1>9. Tids' BY <1>2, <1>3, TidsKept DEF Frame
  <1> QED BY <1>6, <1>7, <1>8, <1>9 DEF IInv

\* lock_release:
LEMMA LockReleaseKeeps == ASSUME IInv, NEW l \in Locks, LockRelease(l) PROVE IInv'
BY ReleaseKeeps DEF LockRelease, IsAt

\* cond_wait up to its lock_release:
LEMMA CondWaitKeeps == ASSUME IInv, CondWait PROVE IInv'
  <1> USE SynchAssumption DEF Sems
  <1> DEFINE f == At("cw_release")
  <1>1. cur \in Threads /\ pc[cur].at = "run" /\ cur # idle
    BY Running DEF CondWait, IsAt, IInv, Frames, GoodFrame
  <1>2. Moves(f) /\ GoodFrame(cur, f)
    BY <1>1, GoMoves DEF CondWait, GoodFrame, At
  <1>3. UNCHANGED <<schedVars, idle_thread, holder, new, next_tid, tid, tmp_tid>>
    BY DEF CondWait, tidVars
  <1>4. /\ sema' \in Semas /\ sema'[cur].waiters = <<>>
        /\ \A x \in Sems \ {cur} : sema'[x] = sema[x]
    <2>1. sema \in Semas /\ sema' = [sema EXCEPT ![cur] = [value |-> 0, waiters |-> <<>>]]
      BY DEF IInv, Data, CondWait
    <2>2. [value |-> 0, waiters |-> <<>>] \in [value : Nat, waiters : Seq(Threads)]
      OBVIOUS
    <2>3. sema'[cur] = [value |-> 0, waiters |-> <<>>] /\ \A x \in Sems \ {cur} : sema'[x] = sema[x]
      BY <1>1, <2>1 DEF Semas
    <2>4. sema' \in Semas BY <2>1, <2>2 DEF Semas
    <2> QED BY <2>3, <2>4
  <1>5. cond_waiters' \in Seq(Threads)
    BY <1>1 DEF IInv, Data, CondWait
  <1>6. Sched' /\ Frames' /\ Boot' /\ Waiters' /\ News' /\ NoLostWakeup'
    <2>1. f.at = "cw_release" /\ ~Creating(f) BY DEF At, Creating
    <2>2. \A x \in Sems : sema[x].value \in Nat BY DEF IInv, Data, Semas
    <2>3. Lowered BY <1>4, <2>2 DEF Lowered
    <2>4. /\ UNCHANGED <<status, ready_list, cur, idle_thread>>
          /\ new' = new /\ sema' \in Semas
      BY <1>3, <1>4 DEF schedVars
    <2>5. pc[cur].at \notin {"boot", "started", "down", "iq_lock", "idle"} BY <1>1
    <2> HIDE DEF f
    <2>6. f.at \notin {"boot", "down", "iq_lock"} BY <2>1
    <2> QED BY <1>2, <2>1, <2>3, <2>4, <2>5, <2>6, LocalKeeps
  <1>7. Data' BY <1>3, <1>4, <1>5 DEF IInv, Data
  <1>8. Tokens' BY <1>1, <1>2, <1>3, <1>4, TokensKept DEF At
  <1>9. Tids' BY <1>2, <1>3, TidsKept DEF At
  <1> QED BY <1>6, <1>7, <1>8, <1>9 DEF IInv

\* lock_release in cond_wait:
LEMMA CondWaitReleaseKeeps == ASSUME IInv, CondWaitRelease PROVE IInv'
BY ReleaseKeeps, SynchAssumption DEF CondWaitRelease, IsAt

\* sema_down in cond_wait:
LEMMA CondWaitDownKeeps == ASSUME IInv, CondWaitDown PROVE IInv'
  <1> USE SynchAssumption DEF Sems
  <1> DEFINE f == Frame("down", cur, "cw_acquire")
             d == At("cw_acquire")
  <1>1. cur \in Threads /\ cur # idle /\ idle_thread = idle /\ cur \notin Locks
    BY Running, Booted DEF IInv, Frames, GoodFrame, CondWaitDown, IsAt
  <1>2. GoodFrame(cur, f) /\ GoodFrame(cur, d)
    BY <1>1 DEF GoodFrame, Frame, At
  <1>3. /\ f.at = "down" /\ f.on = cur /\ f.ret = "cw_acquire" /\ d.at = "cw_acquire"
        /\ pc[cur].at = "cw_down"
    BY DEF Frame, At, CondWaitDown, IsAt
  <1>4. sema_down(cur, f, d) /\ UNCHANGED <<idle_thread, holder, cond_waiters, tidVars>>
    BY DEF CondWaitDown
  <1> HIDE DEF f, d
  <1> QED BY <1>1, <1>2, <1>3, <1>4, SemaDownKeeps DEF Waiting

\* lock_acquire in cond_wait:
LEMMA CondWaitAcquireKeeps == ASSUME IInv, CondWaitAcquire PROVE IInv'
BY AcquireKeeps, SynchAssumption DEF CondWaitAcquire, IsAt

\* The turn of cond_signal that cond_broadcast repeats:
LEMMA SignalKeeps ==
    ASSUME IInv, NEW r \in {"run", "broadcast"}, cond_signal(r),
           pc[cur].at \in {"run", "broadcast"},
           UNCHANGED <<schedVars, idle_thread, sema, holder, tidVars>>
    PROVE  IInv'
  <1> USE SynchAssumption DEF Sems
  <1> DEFINE f == IF cond_waiters = <<>> THEN At(r) ELSE Frame("up", Head(cond_waiters), r)
  <1>1. cur \in Threads /\ cur # idle /\ cond_waiters \in Seq(Threads)
    BY Running DEF IInv, Frames, GoodFrame, Data
  <1>2. cond_waiters # <<>> => Head(cond_waiters) \in Threads /\ Tail(cond_waiters) \in Seq(Threads)
    BY <1>1, TailFacts
  <1>3. cond_waiters' \in Seq(Threads) BY <1>1, <1>2 DEF cond_signal
  <1>4. Moves(f) BY GoMoves DEF cond_signal
  <1>5. /\ GoodFrame(cur, f) /\ ~Creating(f) /\ f.at \in {"run", "broadcast", "up"}
        /\ f.at = "up" => f.on \notin Locks
    BY <1>1, <1>2 DEF GoodFrame, Creating, At, Frame
  <1> HIDE DEF f
  <1> QED BY <1>3, <1>4, <1>5, QuietKeeps DEF schedVars

\* cond_signal:
LEMMA CondSignalKeeps == ASSUME IInv, CondSignal PROVE IInv'
BY SignalKeeps DEF CondSignal, IsAt

\* cond_broadcast:
LEMMA CondBroadcastKeeps == ASSUME IInv, CondBroadcast PROVE IInv'
BY SignalKeeps DEF CondBroadcast, IsAt

\* thread_create up to allocate_tid:
LEMMA ThreadCreateKeeps == ASSUME IInv, NEW u \in Threads, ThreadCreate(u) PROVE IInv'
  <1> USE SynchAssumption DEF Sems
  <1> DEFINE f == At("tid_acquire")
  <1>1. /\ cur \in Threads /\ cur # idle /\ pc[cur].at = "run" /\ status[u] = "none"
        /\ idle_thread = idle /\ pc[main].at # "boot" /\ status[cur] = "running"
    BY Running, Booted DEF ThreadCreate, IsAt, IInv, Frames, GoodFrame
  <1>2. u # idle /\ u # cur /\ pc[u].at = "run" /\ u # main
    BY <1>1 DEF IInv, Boot
  <1>3. Moves(f) /\ GoodFrame(cur, f) /\ f.at = "tid_acquire"
    BY <1>1, GoMoves DEF ThreadCreate, GoodFrame, At
  <1>4. /\ UNCHANGED <<ready_list, cur, idle_thread, sema, holder, cond_waiters,
                       next_tid, tid, tmp_tid>>
        /\ status' = [status EXCEPT ![u] = "blocked"] /\ new' = [new EXCEPT ![cur] = u]
    BY DEF ThreadCreate
  <1>5. Sched'
    BY <1>1, <1>2, <1>4 DEF IInv, Sched
  <1>6. Frames' BY <1>3, FramesKept
  <1>7. Data' BY <1>1, <1>4 DEF IInv, Data
  <1>s. \A t \in Threads : status'[t] = IF t = u THEN "blocked" ELSE status[t]
    BY <1>4 DEF IInv, Sched
  <1>8. Boot' BY <1>1, <1>2, <1>3, <1>4, <1>s DEF IInv, Boot, Moves
  <1>9. Waiters'
    <2>1. \A s \in Sems : ToSet(sema[s].waiters) \subseteq Threads
      BY EmptyFacts DEF IInv, Data, Semas
    <2>2. \A s \in Sems : \A t \in ToSet(sema[s].waiters) : t # u /\ t # cur /\ t \in Threads
      BY <1>1, <2>1 DEF IInv, Waiters
    <2> QED BY <1>3, <1>4, <1>s, <2>2 DEF IInv, Waiters, Moves
  <1>10. News'
    <2>1. \A t \in Threads : new[t] # u /\ new[t] # cur
      BY <1>1 DEF IInv, News
    <2>2. \A t \in Threads : new'[t] = IF t = cur THEN u ELSE new[t]
      BY <1>4 DEF IInv, Data
    <2>3. \A t \in Threads : new[t] # NULL => new[t] \in Threads BY DEF IInv, Data
    <2>4. ASSUME NEW t \in Threads, new'[t] # NULL
          PROVE  /\ status'[new'[t]] = "blocked" /\ pc'[new'[t]].at = "run"
                 /\ \A v \in Threads \ {t} : new'[v] # new'[t]
      <3>1. CASE t = cur
        BY <1>2, <1>3, <1>s, <2>1, <2>2, <3>1 DEF Moves
      <3>2. CASE t # cur
        BY <1>3, <1>s, <2>1, <2>2, <2>3, <2>4, <3>2 DEF IInv, News, Moves
      <3> QED BY <3>1, <3>2
    <2>5. \A t \in Threads : Creating(pc'[t]) => new'[t] # NULL
      BY <1>3, <2>2 DEF IInv, News, Moves
    <2> QED BY <2>4, <2>5 DEF News
  <1>11. Tokens' BY <1>3, <1>4, TokensKept
  <1>12. Tids' BY <1>3, <1>4, TidsKept
  <1>13. NoLostWakeup'
    <2>1. sema' \in Semas /\ Lowered BY <1>4, SemaSame
    <2> QED BY <1>1, <1>3, <2>1, WakeupsKept DEF Waiting
  <1> QED BY <1>5, <1>6, <1>7, <1>8, <1>9, <1>10, <1>11, <1>12, <1>13 DEF IInv

\* lock_acquire in allocate_tid:
LEMMA TidAcquireKeeps == ASSUME IInv, TidAcquire PROVE IInv'
  <1>1. new[cur] # NULL BY Running DEF IInv, News, Creating, TidAcquire, IsAt
  <1> QED BY <1>1, AcquireKeeps, SynchAssumption DEF TidAcquire, IsAt

\* The load of next_tid:
LEMMA TidLoadKeeps == ASSUME IInv, TidLoad PROVE IInv'
  <1> USE SynchAssumption DEF Sems
  <1> DEFINE f == At("tid_store")
  <1>1. /\ cur \in Threads /\ cur # idle /\ pc[cur].at = "tid_load"
        /\ new[cur] # NULL /\ holder[tid_lock] = cur
    BY Running DEF TidLoad, IsAt, IInv, Frames, GoodFrame, News, Creating, Tids
  <1>2. Moves(f) /\ GoodFrame(cur, f) /\ f.at = "tid_store"
    BY <1>1, GoMoves DEF TidLoad, GoodFrame, At
  <1>3. /\ UNCHANGED <<status, ready_list, cur, idle_thread, sema, holder, cond_waiters,
                       next_tid, tid, new>>
        /\ tmp_tid' = [tmp_tid EXCEPT ![cur] = next_tid]
    BY DEF TidLoad, schedVars
  <1>4. Sched' /\ Frames' /\ Boot' /\ Waiters' /\ News' /\ NoLostWakeup'
    <2>1. sema' \in Semas /\ Lowered BY <1>3, SemaSame
    <2> HIDE DEF f
    <2> QED BY <1>1, <1>2, <1>3, <2>1, LocalKeeps
  <1>5. Data' BY <1>1, <1>3 DEF IInv, Data
  <1>6. Tokens' BY <1>2, <1>3, TokensKept
  <1>7. Tids'
    BY <1>1, <1>2, <1>3 DEF IInv, Tids, UniqueTids, Moves, Data
  <1> QED BY <1>4, <1>5, <1>6, <1>7 DEF IInv

\* The store to next_tid, t->tid and the start of lock_release:
LEMMA TidStoreKeeps == ASSUME IInv, TidStore PROVE IInv'
  <1> USE SynchAssumption DEF Sems
  <1> DEFINE f == Frame("up", tid_lock, "created")
  <1>1. /\ cur \in Threads /\ cur # idle /\ pc[cur].at = "tid_store"
        /\ new[cur] # NULL /\ new[cur] \in Threads /\ holder[tid_lock] = cur
        /\ tmp_tid[cur] = next_tid
    <2>1. cur \in Threads /\ pc[cur].at = "tid_store" BY Running DEF TidStore, IsAt
    <2>2. cur # idle BY <2>1 DEF IInv, Frames, GoodFrame
    <2>3. new[cur] # NULL BY <2>1 DEF IInv, News, Creating
    <2>4. new[cur] \in Threads BY <2>1, <2>3 DEF IInv, Data
    <2>5. holder[tid_lock] = cur /\ tmp_tid[cur] = next_tid BY <2>1 DEF IInv, Tids
    <2> QED BY <2>1, <2>2, <2>3, <2>4, <2>5
  <1>2. Moves(f) /\ GoodFrame(cur, f) /\ f.at = "up"
    BY <1>1, GoMoves DEF TidStore, lock_release, GoodFrame, Frame
  <1>3. /\ UNCHANGED <<status, ready_list, cur, idle_thread, sema, cond_waiters,
                       tmp_tid, new>>
        /\ next_tid' = next_tid + 1 /\ tid' = [tid EXCEPT ![new[cur]] = next_tid]
        /\ holder' = [holder EXCEPT ![tid_lock] = NULL]
    BY <1>1 DEF TidStore, schedVars, lock_release
  <1>4. Sched' /\ Frames' /\ Boot' /\ Waiters' /\ News' /\ NoLostWakeup'
    <2>1. sema' \in Semas /\ Lowered BY <1>3, SemaSame
    <2> HIDE DEF f
    <2> QED BY <1>1, <1>2, <1>3, <2>1, LocalKeeps
  <1>5. Data' BY <1>1, <1>3 DEF IInv, Data
  <1>6. Tokens' BY <1>1, <1>3, ReleaseTokens DEF TidStore
  <1>7. Tids'
    <2>1. \A t \in Threads : tid[t] \in Nat /\ tid[t] < next_tid /\ next_tid \in Nat
      BY DEF IInv, Tids, Data
    <2>2. \A t \in Threads : tid'[t] = IF t = new[cur] THEN next_tid ELSE tid[t]
      BY <1>3 DEF IInv, Data
    <2>3. UniqueTids'
      BY <2>1, <2>2 DEF IInv, Tids, UniqueTids
    <2>4. \A t \in Threads : tid'[t] < next_tid' BY <1>3, <2>1, <2>2
    <2>5. \A t \in Threads : pc'[t].at \notin {"tid_load", "tid_store"}
      BY <1>1, <1>2 DEF IInv, Tids, Moves
    <2> QED BY <2>3, <2>4, <2>5 DEF Tids
  <1> QED BY <1>4, <1>5, <1>6, <1>7 DEF IInv

\* thread_unblock at the end of thread_create:
LEMMA ThreadCreatedKeeps == ASSUME IInv, ThreadCreated PROVE IInv'
  <1> USE SynchAssumption DEF Sems
  <1> DEFINE f == At("run")
  <1>1. /\ cur \in Threads /\ cur # idle /\ pc[cur].at = "created" /\ status[cur] = "running"
        /\ idle_thread = idle /\ pc[main].at # "boot" /\ new[cur] # NULL
        /\ new[cur] \in Threads
    <2>1. cur \in Threads /\ pc[cur].at = "created" /\ status[cur] = "running"
      BY Running DEF ThreadCreated, IsAt
    <2>2. cur # idle BY <2>1 DEF IInv, Frames, GoodFrame
    <2>3. new[cur] # NULL BY <2>1 DEF IInv, News, Creating
    <2>4. new[cur] \in Threads BY <2>1, <2>3 DEF IInv, Data
    <2>5. idle_thread = idle /\ pc[main].at # "boot" BY <2>1, Booted
    <2> QED BY <2>1, <2>2, <2>3, <2>4, <2>5
  <1>2. PICK u \in Threads : u = new[cur] BY <1>1
  <1>3. status[u] = "blocked" /\ pc[u].at = "run" /\ u # idle /\ u # cur
    BY <1>1, <1>2 DEF IInv, News, Frames, GoodFrame
  <1>4. Moves(f) /\ GoodFrame(cur, f) /\ f.at = "run" /\ ~Creating(f)
    BY <1>1, GoMoves DEF ThreadCreated, GoodFrame, At, Creating
  <1>5. /\ UNCHANGED <<idle_thread, sema, holder, cond_waiters, next_tid, tid, tmp_tid>>
        /\ thread_unblock(u) /\ new' = [new EXCEPT ![cur] = NULL]
    BY <1>2 DEF ThreadCreated
  <1>6. /\ Sched' /\ cur' = cur /\ status'[u] = "ready"
        /\ \A t \in Threads \ {u} : status'[t] = status[t]
    BY <1>1, <1>3, <1>5, UnblockKeeps DEF IInv
  <1>7. Frames' BY <1>4, FramesKept
  <1>8. Data' BY <1>1, <1>5 DEF IInv, Data
  <1>9. Boot'
    <2>1. \A t \in Threads : status'[t] = "none" => status[t] = "none" /\ t # cur
      BY <1>1, <1>6
    <2>2. status[main] # "none" /\ status[idle] # "none" BY <1>1 DEF IInv, Boot
    <2>3. status'[main] # "none" /\ status'[idle] # "none" BY <2>1, <2>2
    <2> QED BY <1>1, <1>4, <1>5, <2>1, <2>3 DEF IInv, Boot, Moves
  <1>10. Waiters'
    <2>1. \A s \in Sems : ToSet(sema[s].waiters) \subseteq Threads
      BY EmptyFacts DEF IInv, Data, Semas
    <2>2. \A s \in Sems : \A t \in ToSet(sema[s].waiters) : t # u /\ t # cur /\ t \in Threads
      BY <1>1, <1>3, <2>1 DEF IInv, Waiters
    <2> QED BY <1>4, <1>5, <1>6, <2>2 DEF IInv, Waiters, Moves
  <1>11. News'
    <2>1. \A t \in Threads : t # cur => new[t] # u
      BY <1>1, <1>2 DEF IInv, News
    <2>2. \A t \in Threads : new'[t] = IF t = cur THEN NULL ELSE new[t]
      BY <1>5 DEF IInv, Data
    <2>3. \A t \in Threads : new[t] # NULL => new[t] \in Threads BY DEF IInv, Data
    <2>4. ASSUME NEW t \in Threads, new'[t] # NULL
          PROVE  /\ status'[new'[t]] = "blocked" /\ pc'[new'[t]].at = "run"
                 /\ \A v \in Threads \ {t} : new'[v] # new'[t]
      <3>1. t # cur /\ new'[t] = new[t] BY <2>2, <2>4
      <3> QED BY <1>4, <1>6, <2>1, <2>2, <2>3, <2>4, <3>1 DEF IInv, News, Moves
    <2>5. \A t \in Threads : Creating(pc'[t]) => new'[t] # NULL
      BY <1>4, <2>2 DEF IInv, News, Moves
    <2> QED BY <2>4, <2>5 DEF News
  <1>12. Tokens' BY <1>4, <1>5, TokensKept
  <1>13. Tids' BY <1>4, <1>5, TidsKept
  <1>14. NoLostWakeup'
    <2>1. sema' \in Semas /\ Lowered BY <1>5, SemaSame
    <2> QED BY <1>1, <1>4, <2>1, WakeupsKept DEF Waiting
  <1> QED BY <1>6, <1>7, <1>8, <1>9, <1>10, <1>11, <1>12, <1>13, <1>14 DEF IInv

\* thread_exit:
LEMMA ThreadExitKeeps == ASSUME IInv, ThreadExit PROVE IInv'
  <1>1. /\ cur \in Threads /\ cur # idle /\ pc[cur].at = "run"
        /\ idle_thread = idle /\ pc[main].at # "boot"
    BY Running, Booted DEF ThreadExit, IsAt, IInv, Frames, GoodFrame
  <1>2. At("dead").at = "dead" /\ GoodFrame(cur, At("dead"))
    BY <1>1 DEF At, GoodFrame
  <1> QED BY <1>1, <1>2, StopKeeps DEF ThreadExit

\* thread_yield:
LEMMA ThreadYieldKeeps == ASSUME IInv, ThreadYield PROVE IInv'
BY YieldKeeps, Booted DEF ThreadYield, IsAt

\* timer_sleep:
LEMMA TimerSleepKeeps == ASSUME IInv, NEW n, TimerSleep(n) PROVE IInv'
  <1>1. cur \in Threads /\ pc[cur].at = "run" /\ cur # idle
    BY Running DEF IInv, Frames, GoodFrame, TimerSleep, IsAt
  <1>2. Moves(At("sleep")) /\ GoodFrame(cur, At("sleep")) /\ ~Creating(At("sleep"))
    BY <1>1, GoMoves DEF TimerSleep, GoodFrame, At, Creating
  <1>3. At("sleep").at = "sleep" BY DEF At
  <1> QED BY <1>1, <1>2, <1>3, QuietKeeps DEF TimerSleep, IInv, Data, schedVars

\* The loop of timer_sleep:
LEMMA TimerSleepTurnKeeps == ASSUME IInv, TimerSleepTurn PROVE IInv'
  <1>1. cur \in Threads /\ pc[cur].at = "sleep" /\ cur # idle
    BY Running, SynchAssumption DEF IInv, Frames, GoodFrame, TimerSleepTurn, IsAt
  <1>2. CASE thread_yield /\ UNCHANGED pc
    BY <1>1, <1>2, YieldKeeps, Booted DEF TimerSleepTurn
  <1>3. CASE Go(At("run")) /\ UNCHANGED schedVars
    <2>1. Moves(At("run")) /\ GoodFrame(cur, At("run")) /\ ~Creating(At("run"))
      BY <1>1, <1>3, GoMoves DEF GoodFrame, At, Creating
    <2>2. At("run").at = "run" BY DEF At
    <2> QED BY <1>1, <1>3, <2>1, <2>2, QuietKeeps DEF TimerSleepTurn, IInv, Data, schedVars
  <1> QED BY <1>2, <1>3 DEF TimerSleepTurn

\* timer_interrupt, in any place interrupts are on:
LEMMA TimerInterruptKeeps == ASSUME IInv, TimerInterrupt PROVE IInv'
  <1> USE SynchAssumption
  <1>1. cur \in Threads /\ pc[cur].at # "boot" /\ pc[main].at # "boot"
    BY Running DEF TimerInterrupt, IntrOn, IInv, Boot
  <1>2. \/ pc' = pc /\ pc[cur].at # "hlt"
        \/ pc[cur].at = "hlt" /\ Go(At("idle_loop"))
    BY DEF TimerInterrupt, Unhalt, IsAt, Go
  <1>3. pc[cur].at = "hlt" => cur = idle /\ idle_thread = idle
    BY <1>1, Booted DEF IInv, Frames, GoodFrame
  <1>4. UNCHANGED <<idle_thread, sema, holder, cond_waiters, tidVars>>
    BY DEF TimerInterrupt
  <1>5. CASE thread_yield BY <1>1, <1>2, <1>3, <1>4, <1>5, YieldKeeps
  <1>6. CASE UNCHANGED <<status, ready_list, cur>>
    <2>1. CASE pc' = pc BY <1>4, <1>6, <2>1, StutterKeeps
    <2>2. CASE pc[cur].at = "hlt" /\ Go(At("idle_loop"))
      <3>1. /\ Moves(At("idle_loop")) /\ GoodFrame(cur, At("idle_loop"))
            /\ ~Creating(At("idle_loop"))
        BY <1>1, <1>3, <2>2, GoMoves DEF GoodFrame, At, Creating
      <3>2. At("idle_loop").at = "idle_loop" BY DEF At
      <3> QED BY <1>1, <1>4, <1>6, <2>2, <3>1, <3>2, QuietKeeps DEF IInv, Data
    <2> QED BY <1>2, <2>1, <2>2
  <1> QED BY <1>5, <1>6 DEF TimerInterrupt

\* Every step keeps the invariant.
LEMMA NextKeeps == ASSUME IInv, [Next]_synchVars PROVE IInv'
  <1>1. CASE ThreadStep
    <2>1. CASE ThreadStart \/ WaitIdleStarted \/ IdleStart \/ IdleBlock
      BY <2>1, ThreadStartKeeps, WaitIdleStartedKeeps, IdleStartKeeps, IdleBlockKeeps
    <2>2. CASE Resume \/ Up \/ SetHolder
      BY <2>2, ResumeKeeps, UpKeeps, SetHolderKeeps
    <2>3. CASE LockAcquire(mon) \/ LockTryAcquire(mon) \/ LockRelease(mon)
      BY <2>3, SynchAssumption, LockAcquireKeeps, LockTryAcquireKeeps, LockReleaseKeeps
    <2>4. CASE CondWait \/ CondWaitRelease \/ CondWaitDown \/ CondWaitAcquire
      BY <2>4, CondWaitKeeps, CondWaitReleaseKeeps, CondWaitDownKeeps, CondWaitAcquireKeeps
    <2>5. CASE CondSignal \/ CondBroadcast
      BY <2>5, CondSignalKeeps, CondBroadcastKeeps
    <2>6. CASE \E t \in Threads : ThreadCreate(t)
      BY <2>6, ThreadCreateKeeps
    <2>7. CASE TidAcquire \/ TidLoad \/ TidStore \/ ThreadCreated
      BY <2>7, TidAcquireKeeps, TidLoadKeeps, TidStoreKeeps, ThreadCreatedKeeps
    <2>8. CASE ThreadExit \/ ThreadYield \/ TimerSleepTurn
      BY <2>8, ThreadExitKeeps, ThreadYieldKeeps, TimerSleepTurnKeeps
    <2>9. CASE \E n \in 1 .. MaxSleep : TimerSleep(n)
      BY <2>9, TimerSleepKeeps
    <2> QED BY <1>1, <2>1, <2>2, <2>3, <2>4, <2>5, <2>6, <2>7, <2>8, <2>9 DEF ThreadStep
  <1>2. CASE TimerInterrupt BY <1>2, TimerInterruptKeeps
  <1>3. CASE UNCHANGED synchVars
    BY <1>3, StutterKeeps DEF synchVars, schedVars
  <1> QED BY <1>1, <1>2, <1>3 DEF Next

-----------------------------------------------------------------------------
(* The theorems.                                                          *)

\* The inductive invariant holds throughout, for any number of threads, any
\* workload and any time slice.
THEOREM Invariance == Spec => []IInv
  <1>1. IInv /\ [Next]_synchVars => IInv' BY NextKeeps
  <1> QED BY InitIInv, <1>1, PTL DEF Spec

\* OneQueuePerThread follows from Sched and Waiters: the frame of a waiter names
\* the one semaphore whose queue it is in.
LEMMA QueuesApart == ASSUME IInv PROVE OneQueuePerThread
  <1> USE SynchAssumption
  <1>1. {t \in Threads : status[t] = "running"} = {cur} BY DEF IInv, Sched
  <1>2. IsInjective(ready_list) /\ \A s \in Sems : IsInjective(sema[s].waiters)
    BY DEF IInv, Sched, Waiters
  <1>3. ASSUME NEW t \in Threads
        PROVE  LET in == {s \in Sems : t \in ToSet(sema[s].waiters)}
               IN  Cardinality(in) <= 1 /\ (in # {} => status[t] = "blocked")
    <2> DEFINE in == {s \in Sems : t \in ToSet(sema[s].waiters)}
    <2>1. \A s \in in : pc[t].on = s /\ status[t] = "blocked" BY DEF IInv, Waiters
    <2>2. in = {} \/ in = {pc[t].on} BY <2>1
    <2> HIDE DEF in
    <2>3. Cardinality(in) <= 1
      <3>1. CASE in = {}
        <4>1. Cardinality(in) = 0 BY <3>1, FS_EmptySet
        <4> QED BY <4>1
      <3>2. CASE in = {pc[t].on}
        <4>1. Cardinality(in) = 1 BY <3>2, FS_Singleton
        <4> QED BY <4>1
      <3> QED BY <2>2, <3>1, <3>2
    <2> QED BY <2>1, <2>3 DEF in
  <1>4. \A t \in Threads : (t \in ToSet(ready_list)) <=> (status[t] = "ready" /\ t # idle_thread)
    BY DEF IInv, Sched
  <1> QED BY <1>1, <1>2, <1>3, <1>4 DEF OneQueuePerThread

\* t->elem is in at most one list at a time, whatever the interleaving of threads
\* and timer interrupts (thread.h: "these two fields are mutually exclusive").
THEOREM OneQueuePerThreadHolds == Spec => []OneQueuePerThread
BY Invariance, QueuesApart, PTL

\* A semaphore that is up while threads wait for it has as many woken threads on
\* their way: sema_up loses no wake-up.
THEOREM NoLostWakeupHolds == Spec => []NoLostWakeup
  <1>1. IInv => NoLostWakeup BY DEF IInv
  <1> QED BY <1>1, Invariance, PTL

\* allocate_tid hands out every identifier once.
THEOREM UniqueTidsHolds == Spec => []UniqueTids
  <1>1. IInv => UniqueTids BY DEF IInv, Tids
  <1> QED BY <1>1, Invariance, PTL

\* A step of the kernel is a step of the abstract lock or leaves it alone: the
\* holder is stored only over NULL, and cleared only by the holder.
LEMMA LockStep == ASSUME IInv, [Next]_synchVars PROVE [A!Next]_holder
  <1> USE SynchAssumption
  <1> SUFFICES ASSUME holder' # holder PROVE A!Next OBVIOUS
  <1>0. cur \in Threads /\ holder \in [Locks -> Threads \cup {NULL}]
    BY Running DEF IInv, Data
  <1>1. CASE SetHolder
    <2>1. PICK l \in Locks : l = pc[cur].on
      BY <1>0, <1>1 DEF IInv, Frames, GoodFrame, SetHolder, IsAt
    <2>2. holder[l] = NULL
      BY <1>0, <1>1, <2>1 DEF IInv, Tokens, Has, InTransit, SetHolder, IsAt
    <2>3. A!Acquire(cur, l) BY <1>1, <2>1, <2>2 DEF A!Acquire, SetHolder
    <2> QED BY <1>0, <2>3 DEF A!Next
  <1>2. CASE \E l \in Locks, r \in {"run", "cw_down", "created"} : lock_release(l, r)
    <2>1. PICK l \in Locks : holder[l] = cur /\ holder' = [holder EXCEPT ![l] = NULL]
      BY <1>2 DEF lock_release
    <2>2. A!Release(l) BY <1>0, <2>1, SynchAssumption DEF A!Release
    <2> QED BY <1>0, <2>2 DEF A!Next
  <1>3. CASE Next
    BY <1>1, <1>2, <1>3 DEF Next, ThreadStep, ThreadStart, WaitIdleStarted, IdleStart, IdleBlock,
         Resume, Up, LockAcquire, LockTryAcquire, LockRelease, CondWait, CondWaitRelease,
         CondWaitDown, CondWaitAcquire, CondSignal, CondBroadcast, ThreadCreate, TidAcquire,
         TidLoad, TidStore, ThreadCreated, ThreadExit, ThreadYield, TimerSleep,
         TimerSleepTurn, TimerInterrupt
  <1> QED BY <1>3 DEF synchVars

\* The locks implement AbstractLock: nobody comes in before the holder has left.
THEOREM LockImplemented == Spec => ImplementsLock
  <1>1. Init => A!Init BY DEF Init, A!Init
  <1>2. IInv /\ [Next]_synchVars => [A!Next]_holder BY LockStep
  <1> QED BY Invariance, <1>1, <1>2, PTL DEF Spec, ImplementsLock, A!Spec
=============================================================================
