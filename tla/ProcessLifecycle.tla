-------------------------- MODULE ProcessLifecycle --------------------------
(***************************************************************************)
(* The life of user processes in the Pintos kernel of pintos-project3-vm:  *)
(* exec and its wait for the load, wait, exit, and the release of struct   *)
(* threads (userprog/process.c, exec_process and exit_thread of            *)
(* userprog/syscall.c, the end of threads/thread.c, and the condition      *)
(* variables of threads/synch.c as they use them).                         *)
(*                                                                         *)
(* Every call of cond_wait and cond_signal here passes a lock on the       *)
(* caller's own stack, so the locks exclude nobody and are left out; what  *)
(* is left of a condition variable is its list of waiters, each with a     *)
(* semaphore.  Interrupts are on except in thread_exit from intr_disable   *)
(* to the end of thread_schedule_tail in the next thread, which is one     *)
(* step; a thread can be preempted between any other two steps.            *)
(***************************************************************************)
EXTENDS Integers, FiniteSets

CONSTANTS
    MaxTid,      \* BOUND: processes started, and the last thread identifier
    NULL

Main == 1                  \* initial_thread; 2, the idle thread, has no part
Tid  == {Main} \cup 3 .. MaxTid

ASSUME ConstantsAssumption == MaxTid \in Nat /\ MaxTid >= 3 /\ NULL \notin Tid

VARIABLES
    page,               \* the page of the struct thread: "none" before
                        \* palloc_get_page, "live", or "freed"
    parent,             \* t->parent
    children,           \* t->children
    is_loaded,          \* "yet", "positive" or "negative"
    is_parent_waiting,
    is_thread_exited,
    exit_status,
    load_waiters,       \* threads waiting on wait_for_me_to_load
    exit_waiters,       \* threads waiting on wait_for_me_to_exit
    sema,               \* value of the semaphore the thread waits on
    next_tid,
    crashed,            \* the kernel has followed a pointer to a freed page
    pc,                 \* where each thread is
    arg,                \* thread identifier exec or wait is about
    ptr,                \* struct thread * local of exec, wait or process_exit
    ret                 \* what the last system call returned

family == <<page, parent, children, next_tid>>
flags  == <<is_loaded, is_parent_waiting, is_thread_exited, exit_status>>
conds  == <<load_waiters, exit_waiters, sema>>
vars   == <<family, flags, conds, crashed, pc, arg, ptr, ret>>

LoadPcs == {"load", "load_signal"}
ExecPcs == {"exec_find", "exec_test", "exec_enq", "exec_sleep", "exec_ret"}
WaitPcs == {"wait_find", "wait_test", "wait_enq", "wait_sleep", "wait_ret"}
ExitPcs == {"exit", "exit_check", "exit_find", "exit_signal", "die"}
Pcs     == LoadPcs \cup ExecPcs \cup WaitPcs \cup ExitPcs
              \cup {"none", "user", "dead"}

Init ==
    /\ page = [t \in Tid |-> IF t = Main THEN "live" ELSE "none"]
    /\ parent = [t \in Tid |-> NULL]
    /\ children = [t \in Tid |-> {}]
    /\ next_tid = 3
    /\ is_loaded = [t \in Tid |-> "yet"]
    /\ is_parent_waiting = [t \in Tid |-> FALSE]
    /\ is_thread_exited = [t \in Tid |-> FALSE]
    /\ exit_status = [t \in Tid |-> -1]
    /\ load_waiters = [t \in Tid |-> {}]
    /\ exit_waiters = [t \in Tid |-> {}]
    /\ sema = [t \in Tid |-> 0]
    /\ crashed = FALSE
    /\ pc = [t \in Tid |-> IF t = Main THEN "user" ELSE "none"]
    /\ arg = [t \in Tid |-> NULL]
    /\ ptr = [t \in Tid |-> NULL]
    /\ ret = [t \in Tid |-> 0]

\* Thread t is about to execute the step at label l.  A crash stops them all.
At(t, l) == pc[t] = l /\ ~crashed

Goto(t, l) == pc' = [pc EXCEPT ![t] = l]

\* The system call, or run_task's call of process_wait, returns v.
ReturnValue(t, v) ==
    /\ ret' = [ret EXCEPT ![t] = v]
    /\ arg' = [arg EXCEPT ![t] = NULL]
    /\ ptr' = [ptr EXCEPT ![t] = NULL]
    /\ Goto(t, "user")

\* Any access to a struct thread that has been freed.
Crash ==
    /\ crashed' = TRUE
    /\ UNCHANGED <<family, flags, conds, pc, arg, ptr, ret>>

-----------------------------------------------------------------------------
(***************************************************************************)
(* exec: process_execute, then the wait for the child to load.             *)
(***************************************************************************)

\* thread_create: the child enters all_list and its parent's list before it
\* can run.  The caller goes on at label l.
Create(t, l) ==
    /\ next_tid <= MaxTid
    /\ page' = [page EXCEPT ![next_tid] = "live"]
    /\ parent' = [parent EXCEPT ![next_tid] = t]
    /\ children' = [children EXCEPT ![t] = @ \cup {next_tid}]
    /\ next_tid' = next_tid + 1
    /\ pc' = [pc EXCEPT ![next_tid] = "load", ![t] = l]
    /\ arg' = [arg EXCEPT ![t] = next_tid]
    /\ UNCHANGED <<flags, conds, crashed, ptr, ret>>

Exec(t) == t # Main /\ At(t, "user") /\ Create(t, "exec_find")

\* No page for the command line or for the struct thread: TID_ERROR, which
\* get_alive_thread_by_tid does not find.
ExecFails(t) ==
    /\ t # Main /\ At(t, "user")
    /\ ReturnValue(t, -1)
    /\ UNCHANGED <<family, flags, conds, crashed>>

\* run_task of threads/init.c: process_wait (process_execute (task)).
RunTask == At(Main, "user") /\ Create(Main, "wait_find")

\* get_alive_thread_by_tid: a thread leaves all_list when it dies.
ExecFind(t) ==
    /\ At(t, "exec_find")
    /\ IF is_thread_exited[arg[t]]
       THEN Goto(t, "exec_ret") /\ UNCHANGED ptr
       ELSE Goto(t, "exec_test") /\ ptr' = [ptr EXCEPT ![t] = arg[t]]
    /\ UNCHANGED <<family, flags, conds, crashed, arg, ret>>

\* The condition of the loops: await the child, or leave the loop.
Test(t, cond, enq, leave) ==
    /\ Goto(t, IF cond THEN leave ELSE enq)
    /\ UNCHANGED <<family, flags, conds, crashed, arg, ptr, ret>>

ExecTest(t) ==
    /\ At(t, "exec_test")
    /\ IF page[ptr[t]] = "freed" THEN Crash
       ELSE Test(t, is_loaded[ptr[t]] # "yet", "exec_enq", "exec_ret")

\* cond_wait up to sema_down.
ExecEnqueue(t) ==
    /\ At(t, "exec_enq")
    /\ load_waiters' = [load_waiters EXCEPT ![ptr[t]] = @ \cup {t}]
    /\ sema' = [sema EXCEPT ![t] = 0]
    /\ Goto(t, "exec_sleep")
    /\ UNCHANGED <<family, flags, exit_waiters, crashed, arg, ptr, ret>>

\* sema_down, and back to the test.
Wake(t, sleep, test) ==
    /\ At(t, sleep) /\ sema[t] = 1
    /\ sema' = [sema EXCEPT ![t] = 0]
    /\ Goto(t, test)
    /\ UNCHANGED <<family, flags, load_waiters, exit_waiters, crashed, arg,
                   ptr, ret>>

ExecWake(t) == Wake(t, "exec_sleep", "exec_test")

ExecReturn(t) ==
    /\ At(t, "exec_ret")
    /\ IF ptr[t] # NULL /\ page[ptr[t]] = "freed" THEN Crash
       ELSE /\ ReturnValue(t, IF ptr[t] = NULL \/ is_loaded[ptr[t]] = "negative"
                              THEN -1 ELSE arg[t])
            /\ UNCHANGED <<family, flags, conds, crashed>>

\* Mutant: the waiter leaves the list and is not woken.
MutantSignal(waiters, t) ==
    /\ waiters' = [waiters EXCEPT ![t] = {}]
    /\ UNCHANGED sema

\* cond_signal: at most the parent waits.
Signal(waiters, t) ==
    IF waiters[t] = {}
    THEN UNCHANGED <<waiters, sema>>
    ELSE \E u \in waiters[t] :
            /\ waiters' = [waiters EXCEPT ![t] = @ \ {u}]
            /\ sema' = [sema EXCEPT ![u] = 1]

\* start_process: load, and the signal that it is done.
LoadProcess(t) ==
    /\ At(t, "load")
    /\ \E r \in {"positive", "negative"} :
          is_loaded' = [is_loaded EXCEPT ![t] = r]
    /\ Goto(t, "load_signal")
    /\ UNCHANGED <<family, is_parent_waiting, is_thread_exited, exit_status,
                   conds, crashed, arg, ptr, ret>>

LoadSignal(t) ==
    /\ At(t, "load_signal")
    /\ Signal(load_waiters, t)
    /\ Goto(t, IF is_loaded[t] = "positive" THEN "user" ELSE "exit")
    /\ UNCHANGED <<family, flags, exit_waiters, crashed, arg, ptr, ret>>

-----------------------------------------------------------------------------
(***************************************************************************)
(* wait: process_wait.                                                     *)
(***************************************************************************)

Wait(t, c) ==
    /\ t # Main /\ At(t, "user")
    /\ arg' = [arg EXCEPT ![t] = c]
    /\ Goto(t, "wait_find")
    /\ UNCHANGED <<family, flags, conds, crashed, ptr, ret>>

\* get_child_thread_by_tid and the checks that follow it.
WaitFind(t) ==
    /\ At(t, "wait_find")
    /\ IF arg[t] \notin children[t] \/ is_parent_waiting[arg[t]]
       THEN ReturnValue(t, -1) /\ UNCHANGED is_parent_waiting
       ELSE /\ is_parent_waiting' = [is_parent_waiting EXCEPT ![arg[t]] = TRUE]
            /\ ptr' = [ptr EXCEPT ![t] = arg[t]]
            /\ Goto(t, "wait_test")
            /\ UNCHANGED <<arg, ret>>
    /\ UNCHANGED <<family, is_loaded, is_thread_exited, exit_status, conds,
                   crashed>>

WaitTest(t) ==
    /\ At(t, "wait_test")
    /\ IF page[ptr[t]] = "freed" THEN Crash
       ELSE Test(t, is_thread_exited[ptr[t]], "wait_enq", "wait_ret")

WaitEnqueue(t) ==
    /\ At(t, "wait_enq")
    /\ exit_waiters' = [exit_waiters EXCEPT ![ptr[t]] = @ \cup {t}]
    /\ sema' = [sema EXCEPT ![t] = 0]
    /\ Goto(t, "wait_sleep")
    /\ UNCHANGED <<family, flags, load_waiters, crashed, arg, ptr, ret>>

\* Mutant: "if" for "while" in process_wait.
MutantWaitWake(t) == Wake(t, "wait_sleep", "wait_ret")

WaitWake(t) == Wake(t, "wait_sleep", "wait_test")

WaitReturn(t) ==
    /\ At(t, "wait_ret")
    /\ IF page[ptr[t]] = "freed" THEN Crash
       ELSE /\ ReturnValue(t, exit_status[ptr[t]])
            /\ UNCHANGED <<family, flags, conds, crashed>>

-----------------------------------------------------------------------------
(***************************************************************************)
(* exit: exit_thread, process_exit and thread_exit.                        *)
(***************************************************************************)

\* exit_thread sets the status; a process the kernel kills keeps its -1.
Exit(t) ==
    /\ At(t, "user")
    /\ \E s \in {-1, 0} : exit_status' = [exit_status EXCEPT ![t] = s]
    /\ Goto(t, "exit")
    /\ UNCHANGED <<family, is_loaded, is_parent_waiting, is_thread_exited,
                   conds, crashed, arg, ptr, ret>>

\* process_exit reads cur->parent, prints a line, and reads it again.
ExitRead(t) ==
    /\ At(t, "exit")
    /\ ptr' = [ptr EXCEPT ![t] = parent[t]]
    /\ Goto(t, "exit_check")
    /\ UNCHANGED <<family, flags, conds, crashed, arg, ret>>

ExitCheck(t) ==
    /\ At(t, "exit_check")
    /\ Goto(t, IF parent[t] = NULL THEN "die" ELSE "exit_find")
    /\ UNCHANGED <<family, flags, conds, crashed, arg, ptr, ret>>

\* It looks for itself in the list of the parent it read first.
ExitFind(t) ==
    /\ At(t, "exit_find")
    /\ IF page[ptr[t]] = "freed" THEN Crash
       ELSE /\ Goto(t, IF t \in children[ptr[t]] THEN "exit_signal" ELSE "die")
            /\ UNCHANGED <<family, flags, conds, crashed, arg, ptr, ret>>

\* It signals the condition it has found, which is on its own page.
ExitSignal(t) ==
    /\ At(t, "exit_signal")
    /\ Signal(exit_waiters, t)
    /\ Goto(t, "die")
    /\ UNCHANGED <<family, flags, load_waiters, crashed, arg, ptr, ret>>

\* Mutant: the children keep their parent.
MutantRelease(t) ==
    /\ children' = [u \in Tid |-> IF u = t THEN {}
                                  ELSE children[u] \ {t}]
    /\ page' = [page EXCEPT ![t] = "freed"]
    /\ UNCHANGED <<parent, crashed>>

\* release_thread_resources: the children become orphans, the dead ones are
\* freed, and so is t.  After freeing a child the loop goes on from the
\* child's list element, which was on the page it has just freed.
Release(t) ==
    IF \E c \in children[t] : is_thread_exited[c]
    THEN crashed' = TRUE /\ UNCHANGED <<page, parent, children>>
    ELSE /\ parent' = [c \in Tid |-> IF c \in children[t] THEN NULL
                                     ELSE parent[c]]
         /\ children' = [u \in Tid |-> IF u = t THEN {}
                                       ELSE IF u = parent[t]
                                            THEN children[u] \ {t}
                                            ELSE children[u]]
         /\ page' = [page EXCEPT ![t] = "freed"]
         /\ UNCHANGED crashed

\* Mutants of the condition under which thread_schedule_tail releases t: a
\* dead thread is always released; an orphan never is.
MutantReleasable(t) == t # Main
MutantReleasable2(t) == t # Main /\ parent[t] # NULL /\ is_thread_exited[parent[t]]

Releasable(t) ==
    t # Main /\ (parent[t] = NULL \/ is_thread_exited[parent[t]])

\* thread_exit with interrupts off, and thread_schedule_tail.
Die(t) ==
    /\ At(t, "die")
    /\ is_thread_exited' = [is_thread_exited EXCEPT ![t] = TRUE]
    /\ Goto(t, "dead")
    /\ IF t # Main /\ parent[t] # NULL /\ page[parent[t]] = "freed"
       THEN crashed' = TRUE /\ UNCHANGED <<page, parent, children>>
       ELSE IF Releasable(t)
            THEN Release(t)
            ELSE UNCHANGED <<page, parent, children, crashed>>
    /\ UNCHANGED <<next_tid, is_loaded, is_parent_waiting, exit_status, conds,
                   arg, ptr, ret>>

-----------------------------------------------------------------------------

UserStep(t) ==
    \/ Exec(t) \/ ExecFails(t) \/ Exit(t)
    \/ \E c \in Tid : Wait(t, c)

KernelStep(t) ==
    \/ LoadProcess(t) \/ LoadSignal(t)
    \/ ExecFind(t) \/ ExecTest(t) \/ ExecEnqueue(t) \/ ExecWake(t)
    \/ ExecReturn(t)
    \/ WaitFind(t) \/ WaitTest(t) \/ WaitEnqueue(t) \/ WaitWake(t)
    \/ WaitReturn(t)
    \/ ExitRead(t) \/ ExitCheck(t) \/ ExitFind(t)
    \/ ExitSignal(t) \/ Die(t)

Next == RunTask \/ \E t \in Tid : UserStep(t) \/ KernelStep(t)

Spec == Init /\ [][Next]_vars

\* The round-robin scheduler runs every thread that can go on in the kernel.
FairSpec == Spec /\ \A t \in Tid : WF_vars(KernelStep(t))

-----------------------------------------------------------------------------
(***************************************************************************)
(* Properties.                                                             *)
(***************************************************************************)

TypeOK ==
    /\ page \in [Tid -> {"none", "live", "freed"}]
    /\ parent \in [Tid -> Tid \cup {NULL}]
    /\ children \in [Tid -> SUBSET Tid]
    /\ next_tid \in 3 .. MaxTid + 1
    /\ is_loaded \in [Tid -> {"yet", "positive", "negative"}]
    /\ is_parent_waiting \in [Tid -> BOOLEAN]
    /\ is_thread_exited \in [Tid -> BOOLEAN]
    /\ exit_status \in [Tid -> {-1, 0}]
    /\ load_waiters \in [Tid -> SUBSET Tid]
    /\ exit_waiters \in [Tid -> SUBSET Tid]
    /\ sema \in [Tid -> {0, 1}]
    /\ crashed \in BOOLEAN
    /\ pc \in [Tid -> Pcs]
    /\ arg \in [Tid -> Tid \cup {NULL}]
    /\ ptr \in [Tid -> Tid \cup {NULL}]
    /\ ret \in [Tid -> Tid \cup {-1, 0}]

(***************************************************************************)
(* While a process waits for a child, or for the child to load, the struct *)
(* thread it looks at stays allocated, whatever the child and its own      *)
(* children do (thread_schedule_tail frees no child of a live parent).     *)
(***************************************************************************)
AwaitedNotFreed ==
    \A t \in Tid :
        pc[t] \in ExecPcs \cup WaitPcs /\ ptr[t] # NULL =>
            page[ptr[t]] = "live" /\ parent[ptr[t]] = t

\* wait returns only the final status of a child that runs no more, and exec
\* a child's identifier only if the child's load has succeeded.
ReturnsSound ==
    \A t \in Tid :
        /\ pc[t] = "wait_ret" => pc[ptr[t]] = "dead"
        /\ pc[t] = "user" /\ ret[t] > 0 => is_loaded[ret[t]] = "positive"

(***************************************************************************)
(* The lists of children lead to no freed page, and parents and children   *)
(* agree: a live struct thread is in its parent's list until one of them   *)
(* is freed (thread_create, release_thread_resources).                     *)
(***************************************************************************)
FamilyConsistent ==
    \A t \in Tid : page[t] = "live" =>
        /\ \A c \in children[t] : page[c] = "live" /\ parent[c] = t
        /\ parent[t] # NULL => page[parent[t]] = "live" /\ t \in children[parent[t]]

\* "Orphans free-up themselves": a dead thread that is still allocated has a
\* parent that can find it.
OrphansReleased ==
    \A t \in Tid \ {Main} :
        pc[t] = "dead" /\ page[t] = "live" /\ ~crashed => parent[t] # NULL

\* Nobody sleeps on a condition variable it is not in the list of, unless
\* the signal is already on its way.
NoStraySleeper ==
    \A t \in Tid :
        /\ pc[t] = "exec_sleep" => t \in load_waiters[ptr[t]] \/ sema[t] = 1
        /\ pc[t] = "wait_sleep" => t \in exit_waiters[ptr[t]] \/ sema[t] = 1

-----------------------------------------------------------------------------
(***************************************************************************)
(* Claims of the code's comments that the code does not keep.              *)
(***************************************************************************)

\* process_wait: "Waits for thread TID to die and returns its exit status."
\* Once the child has died the wait ends.
WaitEnds ==
    \A t, c \in Tid :
        pc[t] \in WaitPcs /\ arg[t] = c /\ is_thread_exited[c]
            ~> pc[t] \notin WaitPcs \/ crashed

\* release_thread_resources "remove[s] and release[s]" the dead children: no
\* list it walks leads through a page that has been freed.
NoUseAfterFree == ~crashed
=============================================================================
