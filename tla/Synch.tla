------------------------------- MODULE Synch --------------------------------
(***************************************************************************)
(* Kernel threads, the scheduler and the synchronisation primitives of     *)
(* Pintos (threads/thread.c, threads/synch.c, threads/interrupt.c and      *)
(* devices/timer.c, as in pintos-project2-userprog).                       *)
(*                                                                         *)
(* One processor: only the running thread acts, and it loses the processor *)
(* where it blocks, yields or is interrupted.  Code between intr_disable   *)
(* and intr_set_level is one step, cut where the thread blocks in it; the  *)
(* thread that is switched to goes on with interrupts off (IntrOn).        *)
(*                                                                         *)
(* pc[t] is a frame: where t is ("at"), the semaphore or lock the call is  *)
(* about ("on") and where the call returns to ("ret").                     *)
(***************************************************************************)
EXTENDS Integers, FiniteSets, SequencesExt

CONSTANTS
    Threads,      \* the struct threads there are pages for, main and idle too
    main, idle,   \* initial_thread, and the thread that thread_start makes
    Locks,        \* the locks, tid_lock and the monitor's lock among them
    tid_lock,
    mon,          \* the lock of the condition variable
    Workloads,    \* which threads do what: records of sets of threads
    TIME_SLICE,   \* ticks to give each thread
    MaxSleep,     \* BOUND: longest timer_sleep
    NULL

\* A semaphore per lock, one per cond_wait (struct semaphore_elem lives on the
\* waiter's stack) and idle_started, which is named after the idle thread.
Sems == Locks \cup Threads

ASSUME SynchAssumption ==
    /\ {main, idle} \subseteq Threads /\ main # idle
    /\ {tid_lock, mon} \subseteq Locks /\ Locks \cap Threads = {}
    /\ IsFiniteSet(Threads) /\ NULL \notin Threads
    /\ TIME_SLICE \in Nat \ {0} /\ MaxSleep \in Nat

VARIABLES
    status,       \* t->status, "none" before the page exists, "freed" after
    ready_list,
    cur,          \* running_thread
    idle_thread,
    thread_ticks, \* ticks since the last switch
    sleep,        \* ticks that timer_sleep has yet to see elapse
    sema,         \* value and waiters of each semaphore
    holder,       \* lock->holder
    cond_waiters, \* cond->waiters: threads, each standing for its semaphore
    next_tid, tid,
    tmp_tid,      \* the value allocate_tid has read
    new,          \* the thread that thread_create is making
    pc,
    work          \* the workload, which never changes: its lockers use the
                  \* monitor, its creators create its children, its sleepers
                  \* call timer_sleep (see Console for the rest)

schedVars == <<status, ready_list, cur, thread_ticks>>
tidVars   == <<next_tid, tid, tmp_tid, new>>
synchVars == <<schedVars, idle_thread, sleep, sema, holder, cond_waiters,
               tidVars, pc, work>>

At(at)          == [at |-> at, on |-> NULL, ret |-> at]
Frame(at, s, r) == [at |-> at, on |-> s, ret |-> r]
Go(f)           == pc' = [pc EXCEPT ![cur] = f]
IsAt(at)        == pc[cur].at = at

\* Interrupts are off while the kernel boots and where a thread resumes inside
\* a section that runs with interrupts off.
IntrOn == pc[cur].at \notin {"boot", "down", "iq_loop", "iq_lock", "iq_wait",
                             "panic"}

Init ==
    /\ status = [t \in Threads |-> IF t = main THEN "running" ELSE "none"]
    /\ ready_list = <<>> /\ cur = main /\ idle_thread = NULL
    /\ thread_ticks = 0 /\ sleep = [t \in Threads |-> 0]
    /\ sema = [s \in Sems |-> [value |-> IF s \in Locks THEN 1 ELSE 0,
                               waiters |-> <<>>]]
    /\ holder = [l \in Locks |-> NULL]
    /\ cond_waiters = <<>>
    /\ next_tid = 2 /\ tid = [t \in Threads |-> IF t = main THEN 1 ELSE 0]
    /\ tmp_tid = [t \in Threads |-> 0] /\ new = [t \in Threads |-> NULL]
    /\ work \in Workloads
    /\ pc = [t \in Threads |-> IF t = main THEN At("boot")
                               ELSE IF t = idle THEN At("idle") ELSE At("run")]

----------------------------------------------------------------------------
(* The scheduler. *)

next_thread_to_run(r) == IF r = <<>> THEN idle_thread ELSE Head(r)

\* The previous thread's page is freed if it is dying, except initial_thread's.
thread_schedule_tail(s, next) ==
    /\ status' = [t \in Threads |->
                    CASE t = next -> "running"
                      [] t = cur /\ t # next /\ s[t] = "dying" /\ t # main -> "freed"
                      [] OTHER -> s[t]]
    /\ thread_ticks' = 0

\* s: the statuses, with that of the running thread already changed.
schedule(s, r) ==
    LET next == next_thread_to_run(r)
    IN  /\ cur' = next
        /\ ready_list' = IF r = <<>> THEN r ELSE Tail(r)
        /\ thread_schedule_tail(s, next)

thread_block == schedule([status EXCEPT ![cur] = "blocked"], ready_list)

thread_unblock(t) ==
    /\ status' = [status EXCEPT ![t] = "ready"]
    /\ ready_list' = Append(ready_list, t)
    /\ UNCHANGED <<cur, thread_ticks>>

\* Mutant: the idle thread is put on the ready list like any other.
MutantThreadYield ==
    schedule([status EXCEPT ![cur] = "ready"], Append(ready_list, cur))

thread_yield ==
    schedule([status EXCEPT ![cur] = "ready"],
             IF cur = idle_thread THEN ready_list ELSE Append(ready_list, cur))

----------------------------------------------------------------------------
(* Semaphores. *)

\* One turn of the loop in sema_down, from intr_disable (or from the return of
\* thread_block) to thread_block or intr_set_level.
sema_down(s, sleeping, done) ==
    \/ /\ sema[s].value = 0
       /\ sema' = [sema EXCEPT ![s].waiters = Append(@, cur)]
       /\ Go(sleeping)
       /\ thread_block
    \/ /\ sema[s].value > 0
       /\ sema' = [sema EXCEPT ![s].value = @ - 1]
       /\ Go(done)
       /\ UNCHANGED schedVars

\* Mutant: the value is raised and nobody is woken.
MutantSemaUp(s) ==
    /\ sema' = [sema EXCEPT ![s].value = @ + 1]
    /\ UNCHANGED schedVars

sema_up(s) ==
    /\ sema' = [sema EXCEPT ![s].value = @ + 1,
                            ![s].waiters = IF @ = <<>> THEN @ ELSE Tail(@)]
    /\ IF sema[s].waiters = <<>> THEN UNCHANGED schedVars
                                 ELSE thread_unblock(Head(sema[s].waiters))

\* Mutant: a woken thread does not look at the value again ("if" for "while").
MutantResume ==
    /\ IsAt("down")
    /\ LET f == pc[cur]
       IN  /\ sema' = [sema EXCEPT ![f.on].value = IF @ > 0 THEN @ - 1 ELSE 0]
           /\ Go(IF f.on \in Locks THEN Frame("own", f.on, f.ret) ELSE At(f.ret))
    /\ UNCHANGED <<work, schedVars, idle_thread, sleep, holder, cond_waiters, tidVars>>

\* Both callers of sema_down come back here when they are woken.
Resume ==
    /\ IsAt("down")
    /\ LET f == pc[cur]
       IN  sema_down(f.on, f, IF f.on \in Locks THEN Frame("own", f.on, f.ret)
                                                ELSE At(f.ret))
    /\ UNCHANGED <<work, idle_thread, sleep, holder, cond_waiters, tidVars>>

\* The call of sema_up that ends lock_release and cond_signal.
Up ==
    /\ IsAt("up")
    /\ sema_up(pc[cur].on)
    /\ Go(At(pc[cur].ret))
    /\ UNCHANGED <<work, idle_thread, sleep, holder, cond_waiters, tidVars>>

----------------------------------------------------------------------------
(* Locks.  The holder is set after sema_down has turned interrupts on again, *)
(* and cleared before sema_up turns them off.                                *)

lock_acquire(l, ret) ==
    /\ holder[l] # cur
    /\ sema_down(l, Frame("down", l, ret), Frame("own", l, ret))

SetHolder ==
    /\ IsAt("own")
    /\ holder' = [holder EXCEPT ![pc[cur].on] = cur]
    /\ Go(At(pc[cur].ret))
    /\ UNCHANGED <<work, schedVars, idle_thread, sleep, sema, cond_waiters, tidVars>>

lock_release(l, ret) ==
    /\ holder[l] = cur
    /\ holder' = [holder EXCEPT ![l] = NULL]
    /\ Go(Frame("up", l, ret))

LockAcquire(l) ==
    /\ IsAt("run") /\ cur \in work.lockers
    /\ lock_acquire(l, "run")
    /\ UNCHANGED <<work, idle_thread, sleep, holder, cond_waiters, tidVars>>

\* lock_try_acquire and, in it, sema_try_down.
LockTryAcquire(l) ==
    /\ IsAt("run") /\ cur \in work.lockers
    /\ holder[l] # cur /\ sema[l].value > 0
    /\ sema' = [sema EXCEPT ![l].value = @ - 1]
    /\ Go(Frame("own", l, "run"))
    /\ UNCHANGED <<work, schedVars, idle_thread, sleep, holder, cond_waiters, tidVars>>

LockRelease(l) ==
    /\ IsAt("run") /\ cur \in work.lockers
    /\ lock_release(l, "run")
    /\ UNCHANGED <<work, schedVars, idle_thread, sleep, sema, cond_waiters, tidVars>>

----------------------------------------------------------------------------
(* The condition variable. *)

\* sema_init and list_push_back ...
CondWait ==
    /\ IsAt("run") /\ cur \in work.lockers /\ holder[mon] = cur
    /\ sema' = [sema EXCEPT ![cur] = [value |-> 0, waiters |-> <<>>]]
    /\ cond_waiters' = Append(cond_waiters, cur)
    /\ Go(At("cw_release"))
    /\ UNCHANGED <<work, schedVars, idle_thread, sleep, holder, tidVars>>

\* ... lock_release ...
CondWaitRelease ==
    /\ IsAt("cw_release")
    /\ lock_release(mon, "cw_down")
    /\ UNCHANGED <<work, schedVars, idle_thread, sleep, sema, cond_waiters, tidVars>>

\* Mutant: the semaphore is initialised only once the lock is released.
MutantCondWaitDown ==
    /\ IsAt("cw_down")
    /\ sema' = [sema EXCEPT ![cur] = [value |-> 0, waiters |-> <<cur>>]]
    /\ Go(Frame("down", cur, "cw_acquire"))
    /\ thread_block
    /\ UNCHANGED <<work, idle_thread, sleep, holder, cond_waiters, tidVars>>

\* ... sema_down ...
CondWaitDown ==
    /\ IsAt("cw_down")
    /\ sema_down(cur, Frame("down", cur, "cw_acquire"), At("cw_acquire"))
    /\ UNCHANGED <<work, idle_thread, sleep, holder, cond_waiters, tidVars>>

\* ... and lock_acquire.
CondWaitAcquire ==
    /\ IsAt("cw_acquire")
    /\ lock_acquire(mon, "run")
    /\ UNCHANGED <<work, idle_thread, sleep, holder, cond_waiters, tidVars>>

cond_signal(ret) ==
    /\ cond_waiters' = IF cond_waiters = <<>> THEN <<>> ELSE Tail(cond_waiters)
    /\ Go(IF cond_waiters = <<>> THEN At(ret)
                                 ELSE Frame("up", Head(cond_waiters), ret))

CondSignal ==
    /\ IsAt("run") /\ cur \in work.lockers /\ holder[mon] = cur
    /\ cond_signal("run")
    /\ UNCHANGED <<work, schedVars, idle_thread, sleep, sema, holder, tidVars>>

\* cond_broadcast signals until nobody waits.
CondBroadcast ==
    /\ cur \in work.lockers /\ holder[mon] = cur
    /\ (IsAt("run") /\ cond_waiters # <<>>) \/ IsAt("broadcast")
    /\ cond_signal(IF Len(cond_waiters) > 1 THEN "broadcast" ELSE "run")
    /\ UNCHANGED <<work, schedVars, idle_thread, sleep, sema, holder, tidVars>>

----------------------------------------------------------------------------
(* Threads start, sleep and end. *)

\* thread_start creates the idle thread, turns interrupts on and waits for it.
ThreadStart ==
    /\ IsAt("boot")
    /\ thread_unblock(idle)
    /\ tid' = [tid EXCEPT ![idle] = next_tid] /\ next_tid' = next_tid + 1
    /\ Go(At("started"))
    /\ UNCHANGED <<work, idle_thread, sleep, sema, holder, cond_waiters, tmp_tid,
                   new>>

WaitIdleStarted ==
    /\ IsAt("started")
    /\ sema_down(idle, Frame("down", idle, "run"), At("run"))
    /\ UNCHANGED <<work, idle_thread, sleep, holder, cond_waiters, tidVars>>

\* idle: first the hand-shake with thread_start, then the loop.
IdleStart ==
    /\ IsAt("idle")
    /\ idle_thread' = cur
    /\ sema_up(idle)
    /\ Go(At("idle_loop"))
    /\ UNCHANGED <<work, sleep, holder, cond_waiters, tidVars>>

IdleBlock ==
    /\ IsAt("idle_loop")
    /\ Go(At("hlt"))
    /\ thread_block
    /\ UNCHANGED <<work, idle_thread, sleep, sema, holder, cond_waiters, tidVars>>

\* thread_create: a page and init_thread ...
ThreadCreate(t) ==
    /\ IsAt("run") /\ cur \in work.creators /\ holder[tid_lock] # cur
    /\ t \in work.children /\ status[t] = "none"
    /\ status' = [status EXCEPT ![t] = "blocked"]
    /\ new' = [new EXCEPT ![cur] = t]
    /\ Go(At("tid_acquire"))
    /\ UNCHANGED <<work, ready_list, cur, thread_ticks, idle_thread, sleep, sema,
                   holder, cond_waiters, next_tid, tid, tmp_tid>>

\* Mutant: allocate_tid loads and stores next_tid without the lock.
MutantTidAcquire ==
    /\ \/ /\ IsAt("tid_acquire")
          /\ tmp_tid' = [tmp_tid EXCEPT ![cur] = next_tid]
          /\ Go(At("tid_unlocked"))
          /\ UNCHANGED <<next_tid, tid>>
       \/ /\ IsAt("tid_unlocked")
          /\ next_tid' = tmp_tid[cur] + 1
          /\ tid' = [tid EXCEPT ![new[cur]] = tmp_tid[cur]]
          /\ Go(At("created"))
          /\ UNCHANGED tmp_tid
    /\ UNCHANGED <<work, schedVars, idle_thread, sleep, sema, holder, cond_waiters, new>>

\* ... allocate_tid, in which next_tid++ is a load and a store ...
TidAcquire ==
    /\ IsAt("tid_acquire")
    /\ lock_acquire(tid_lock, "tid_load")
    /\ UNCHANGED <<work, idle_thread, sleep, holder, cond_waiters, tidVars>>

TidLoad ==
    /\ IsAt("tid_load")
    /\ tmp_tid' = [tmp_tid EXCEPT ![cur] = next_tid]
    /\ Go(At("tid_store"))
    /\ UNCHANGED <<work, schedVars, idle_thread, sleep, sema, holder, cond_waiters,
                   next_tid, tid, new>>

TidStore ==
    /\ IsAt("tid_store")
    /\ next_tid' = tmp_tid[cur] + 1
    /\ tid' = [tid EXCEPT ![new[cur]] = tmp_tid[cur]]
    /\ lock_release(tid_lock, "created")
    /\ UNCHANGED <<work, schedVars, idle_thread, sleep, sema, cond_waiters, tmp_tid,
                   new>>

\* ... and thread_unblock.
ThreadCreated ==
    /\ IsAt("created")
    /\ thread_unblock(new[cur])
    /\ new' = [new EXCEPT ![cur] = NULL]
    /\ Go(At("run"))
    /\ UNCHANGED <<work, idle_thread, sleep, sema, holder, cond_waiters, next_tid,
                   tid, tmp_tid>>

\* A thread lets go of its locks before it ends: the primitives leave that to
\* their callers.
ThreadExit ==
    /\ IsAt("run") /\ cur \in work.children
    /\ \A l \in Locks : holder[l] # cur
    /\ Go(At("dead"))
    /\ schedule([status EXCEPT ![cur] = "dying"], ready_list)
    /\ UNCHANGED <<work, idle_thread, sleep, sema, holder, cond_waiters, tidVars>>

ThreadYield ==
    /\ IsAt("run")
    /\ thread_yield
    /\ UNCHANGED <<work, idle_thread, sleep, sema, holder, cond_waiters, tidVars, pc>>

\* timer_sleep: sleep holds what is left of the ticks to wait for.
TimerSleep(n) ==
    /\ IsAt("run") /\ cur \in work.sleepers
    /\ sleep' = [sleep EXCEPT ![cur] = n]
    /\ Go(At("sleep"))
    /\ UNCHANGED <<work, schedVars, idle_thread, sema, holder, cond_waiters, tidVars>>

TimerSleepTurn ==
    /\ IsAt("sleep")
    /\ \/ sleep[cur] > 0 /\ thread_yield /\ UNCHANGED pc
       \/ sleep[cur] = 0 /\ Go(At("run")) /\ UNCHANGED schedVars
    /\ UNCHANGED <<work, idle_thread, sleep, sema, holder, cond_waiters, tidVars>>

----------------------------------------------------------------------------
(* External interrupts: intr_handler runs the handler with interrupts off    *)
(* and yields on return if the handler asked for it.  hlt ends.              *)

Unhalt == pc' = IF IsAt("hlt") THEN [pc EXCEPT ![cur] = At("idle_loop")] ELSE pc

\* timer_interrupt and thread_tick.
TimerInterrupt ==
    /\ IntrOn
    /\ sleep' = [t \in Threads |-> IF sleep[t] > 0 THEN sleep[t] - 1 ELSE 0]
    /\ IF thread_ticks + 1 >= TIME_SLICE
       THEN thread_yield
       ELSE thread_ticks' = thread_ticks + 1 /\ UNCHANGED <<status, ready_list, cur>>
    /\ Unhalt
    /\ UNCHANGED <<work, idle_thread, sema, holder, cond_waiters, tidVars>>

----------------------------------------------------------------------------
ThreadStep ==
    \/ ThreadStart \/ WaitIdleStarted \/ IdleStart \/ IdleBlock
    \/ Resume \/ Up \/ SetHolder
    \/ LockAcquire(mon) \/ LockTryAcquire(mon) \/ LockRelease(mon)
    \/ CondWait \/ CondWaitRelease \/ CondWaitDown \/ CondWaitAcquire
    \/ CondSignal \/ CondBroadcast
    \/ \E t \in Threads : ThreadCreate(t)
    \/ TidAcquire \/ TidLoad \/ TidStore \/ ThreadCreated
    \/ ThreadExit \/ ThreadYield
    \/ \E n \in 1 .. MaxSleep : TimerSleep(n)
    \/ TimerSleepTurn

Next == ThreadStep \/ TimerInterrupt

\* A thread executes at least one of its steps in some of the time slices it
\* gets, and the interrupt controller latches a timer interrupt until
\* interrupts are on.
Spec     == Init /\ [][Next]_synchVars
FairSpec == /\ Spec
            /\ \A t \in Threads : SF_synchVars(cur = t /\ ThreadStep)
            /\ SF_synchVars(TimerInterrupt)

----------------------------------------------------------------------------
(* Properties. *)

\* t->elem links a thread into ready_list or into one semaphore's waiters:
\* a thread is in at most one of them, once, in ready_list exactly when it is
\* ready, and exactly one thread runs.
OneQueuePerThread ==
    /\ {t \in Threads : status[t] = "running"} = {cur}
    /\ IsInjective(ready_list)
    /\ \A s \in Sems : IsInjective(sema[s].waiters)
    /\ \A t \in Threads :
         /\ (t \in ToSet(ready_list)) <=> (status[t] = "ready" /\ t # idle_thread)
         /\ LET in == {s \in Sems : t \in ToSet(sema[s].waiters)}
            IN  /\ Cardinality(in) <= 1
                /\ in # {} => status[t] = "blocked"

\* The threads that are on their way out of the waiters of semaphore s.
Woken(s) == {t \in Threads : /\ pc[t].at \in {"down", "iq_lock"} /\ pc[t].on = s
                             /\ t \notin ToSet(sema[s].waiters)}

\* A semaphore that is up while threads wait for it has a woken thread on the
\* way for each unit: no wake-up is lost.
NoLostWakeup ==
    \A s \in Sems :
      sema[s].waiters # <<>> => sema[s].value <= Cardinality(Woken(s))

\* Thread identifiers are unique, also when a thread is interrupted between its
\* load and its store of next_tid and another one creates a thread.
UniqueTids == \A t, u \in Threads : t # u /\ tid[t] > 0 => tid[t] # tid[u]

\* lock->holder implements the owner of the abstract lock: between
\* lock_acquire and lock_release nobody else is inside, whatever the
\* interrupts between sema_down and the store to lock->holder do.
A == INSTANCE AbstractLock WITH Thread <- Threads, Lock <- Locks,
                                owner <- holder
ImplementsLock == A!Spec

\* A thread that cond_signal took off the waiters leaves its sema_down.
Signalled(t) == /\ t \notin ToSet(cond_waiters)
                /\ \/ pc[t].at \in {"cw_release", "cw_down"}
                   \/ pc[t].at = "down" /\ pc[t].on = t
SignalWakes ==
    \A t \in UNION {w.lockers : w \in Workloads} : Signalled(t) ~> ~Signalled(t)
=============================================================================
