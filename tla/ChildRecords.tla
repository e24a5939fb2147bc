---------------------------- MODULE ChildRecords ----------------------------
(***************************************************************************)
(* The life of user processes in pintos-project2-userprog.  It differs     *)
(* from project 3 (ProcessLifecycle): what a parent may ask about a child  *)
(* is kept in a struct _child of its own, which outlives the struct thread *)
(* of the child, is on its parent's list, and is freed by the child when   *)
(* it exits as an orphan.  struct threads are freed by the next thread.    *)
(*                                                                         *)
(* As there, every condition variable is used with a lock on the caller's  *)
(* stack, which excludes nobody; interrupts are off in thread_create while *)
(* it makes the record and from the end of thread_exit on.                 *)
(***************************************************************************)
EXTENDS Integers, Sequences

CONSTANTS MaxTid,   \* BOUND: the last thread identifier
          NULL

Main == 1           \* initial_thread, which has no record; 2 is the idle thread
Tid  == {Main} \cup 3 .. MaxTid

\* What the proofs assume of the constants, and MCProcesses checks.
RecordsAssumption == MaxTid \in Nat /\ NULL \notin Tid

VARIABLES
    th,        \* the struct threads, and (history) the status given to exit
    rec,       \* the struct _childs, by the child's identifier
    proc,      \* where each thread is, the thread it is about, its semaphore
    next_tid,
    crashed    \* a freed page or record, or the null record, has been used

crVars == <<th, rec, proc, next_tid, crashed>>

NewThread(page, parent) ==
    [page |-> page, parent |-> parent, children |-> <<>>, exit_status |-> -1, given |-> -1]
\* init_metadata_info.
NewRecord(mem) ==
    [mem |-> mem, is_loaded |-> "yet", is_parent_waiting |-> FALSE,
     is_thread_exited |-> FALSE, exit_status |-> -1,
     wait_for_me_to_load |-> NULL, wait_for_me_to_exit |-> NULL]

Init ==
    /\ th = [t \in Tid |-> NewThread(IF t = Main THEN "live" ELSE "none", NULL)]
    /\ rec = [t \in Tid |-> NewRecord("none")]
    /\ proc = [t \in Tid |-> [at |-> IF t = Main THEN "user" ELSE "none", arg |-> NULL, sema |-> 0]]
    /\ next_tid = 3 /\ crashed = FALSE

At(t, l)   == proc[t].at = l /\ ~crashed
Goto(t, l) == proc' = [proc EXCEPT ![t].at = l]
GotoAbout(t, l, c) == proc' = [proc EXCEPT ![t].at = l, ![t].arg = c]
Return(t) == GotoAbout(t, "user", NULL)
Crash == crashed' = TRUE /\ UNCHANGED <<th, rec, proc, next_tid>>

-----------------------------------------------------------------------------
(* exec: thread_create, exec_process, start_process *)

\* thread_create with interrupts off.  The caller goes on at l.
Create(t, l) ==
    LET c == next_tid IN
    /\ c <= MaxTid
    /\ th' = [th EXCEPT ![c] = NewThread("live", t), ![t].children = <<c>> \o @]
    /\ rec' = [rec EXCEPT ![c] = NewRecord("live")]
    /\ proc' = [proc EXCEPT ![c].at = "load", ![t].at = l, ![t].arg = c]
    /\ next_tid' = next_tid + 1
    /\ UNCHANGED crashed

Exec(t) == t # Main /\ At(t, "user") /\ Create(t, "exec_find")
RunTask == At(Main, "user") /\ Create(Main, "wait_find")

\* Mutant: only process_exit stores the status in the record.
MutantExitThread(t, s) ==
    /\ th' = [th EXCEPT ![t].exit_status = s, ![t].given = s]
    /\ GotoAbout(t, "exit", NULL)
    /\ UNCHANGED <<rec, next_tid, crashed>>

\* exit_thread: both statuses, and thread_exit.
ExitThread(t, s) ==
    /\ th' = [th EXCEPT ![t].exit_status = s, ![t].given = s]
    /\ rec' = [rec EXCEPT ![t].exit_status = s]
    /\ GotoAbout(t, "exit", NULL)
    /\ UNCHANGED <<next_tid, crashed>>

Exit(t) == t # Main /\ At(t, "user") /\ \E s \in {-1, 0} : ExitThread(t, s)

\* No page for the new thread: exec_process looks up TID_ERROR, follows the
\* null pointer it gets, and the page fault ends the caller.
ExecNoPage(t) == t # Main /\ At(t, "user") /\ ExitThread(t, -1)

\* No memory for the record: the caller exits, and the struct thread that
\* thread_create had begun stays blocked.
ExecNoRecord(t) ==
    /\ t # Main /\ At(t, "user") /\ next_tid <= MaxTid
    /\ th' = [th EXCEPT ![next_tid] = NewThread("live", t)]
    /\ proc' = [proc EXCEPT ![next_tid].at = "blocked", ![t].at = "exit"]
    /\ next_tid' = next_tid + 1
    /\ UNCHANGED <<rec, crashed>>

\* get_alive_thread_by_tid; a child that is gone already is a null pointer.
ExecFind(t) ==
    /\ At(t, "exec_find")
    /\ IF proc[proc[t].arg].at = "dead" THEN ExitThread(t, -1)
       ELSE Goto(t, "exec_state") /\ UNCHANGED <<th, rec, next_tid, crashed>>

\* t->_state, of a child that may have died since.
ExecState(t) ==
    /\ At(t, "exec_state")
    /\ IF th[proc[t].arg].page = "freed" THEN Crash
       ELSE Goto(t, "exec_test") /\ UNCHANGED <<th, rec, next_tid, crashed>>

ExecTest(t) ==
    /\ At(t, "exec_test")
    /\ IF rec[proc[t].arg].is_loaded = "yet" THEN Goto(t, "exec_enq") ELSE Return(t)
    /\ UNCHANGED <<th, rec, next_tid, crashed>>

\* cond_wait: into the list, then sema_down.
ExecEnqueue(t) ==
    /\ At(t, "exec_enq")
    /\ rec' = [rec EXCEPT ![proc[t].arg].wait_for_me_to_load = t]
    /\ proc' = [proc EXCEPT ![t].at = "exec_sleep", ![t].sema = 0]
    /\ UNCHANGED <<th, next_tid, crashed>>
ExecWake(t) ==
    /\ At(t, "exec_sleep") /\ proc[t].sema = 1
    /\ proc' = [proc EXCEPT ![t].at = "exec_test", ![t].sema = 0]
    /\ UNCHANGED <<th, rec, next_tid, crashed>>

LoadProcess(t) ==
    /\ At(t, "load")
    /\ \E r \in {"positive", "negative"} : rec' = [rec EXCEPT ![t].is_loaded = r]
    /\ Goto(t, "load_signal")
    /\ UNCHANGED <<th, next_tid, crashed>>

\* cond_signal wakes the thread in the list, if there is one, and t goes to l.
Signalled(t, waiter, l) ==
    proc' = [u \in Tid |-> IF u = t THEN [proc[u] EXCEPT !.at = l]
                           ELSE IF u = waiter THEN [proc[u] EXCEPT !.sema = 1] ELSE proc[u]]

LoadSignal(t) ==
    /\ At(t, "load_signal")
    /\ Signalled(t, rec[t].wait_for_me_to_load,
                 IF rec[t].is_loaded = "positive" THEN "user" ELSE "exit")
    /\ rec' = [rec EXCEPT ![t].wait_for_me_to_load = NULL]
    /\ UNCHANGED <<th, next_tid, crashed>>

-----------------------------------------------------------------------------
(* wait: process_wait *)

\* get_child_thread_by_tid walks the caller's own list, which with the flag
\* nobody else looks at; then the checks that follow it.
Find(t, c) ==
    /\ IF (\A k \in DOMAIN th[t].children : th[t].children[k] # c) \/ rec[c].is_parent_waiting
       THEN Return(t) /\ UNCHANGED rec
       ELSE /\ rec' = [rec EXCEPT ![c].is_parent_waiting = TRUE]
            /\ GotoAbout(t, "wait_test", c)
    /\ UNCHANGED <<th, next_tid, crashed>>

Wait(t, c)  == t # Main /\ At(t, "user") /\ Find(t, c)
RunTaskWait == At(Main, "wait_find") /\ Find(Main, proc[Main].arg)

WaitTest(t) ==
    /\ At(t, "wait_test")
    /\ Goto(t, IF rec[proc[t].arg].is_thread_exited THEN "wait_ret" ELSE "wait_enq")
    /\ UNCHANGED <<th, rec, next_tid, crashed>>

WaitEnqueue(t) ==
    /\ At(t, "wait_enq")
    /\ rec' = [rec EXCEPT ![proc[t].arg].wait_for_me_to_exit = t]
    /\ proc' = [proc EXCEPT ![t].at = "wait_sleep", ![t].sema = 0]
    /\ UNCHANGED <<th, next_tid, crashed>>
WaitWake(t) ==
    /\ At(t, "wait_sleep") /\ proc[t].sema = 1
    /\ proc' = [proc EXCEPT ![t].at = "wait_test", ![t].sema = 0]
    /\ UNCHANGED <<th, rec, next_tid, crashed>>

\* The status is read from the record and returned.
WaitReturn(t) ==
    /\ At(t, "wait_ret")
    /\ Return(t)
    /\ UNCHANGED <<th, rec, next_tid, crashed>>

-----------------------------------------------------------------------------
(* exit: process_exit, release_thread_resources, thread_exit *)

\* An orphan frees its record; initial_thread has none, and crashes.
ExitBegin(t) ==
    /\ At(t, "exit")
    /\ IF th[t].parent = NULL
       THEN rec' = [rec EXCEPT ![t].mem = "freed"] /\ Goto(t, "release")
       ELSE UNCHANGED rec /\ Goto(t, "exit_flag")
    /\ UNCHANGED <<th, next_tid, crashed>>
MainExits == At(Main, "user") /\ Crash

ExitFlag(t) ==
    /\ At(t, "exit_flag")
    /\ rec' = [rec EXCEPT ![t].is_thread_exited = TRUE]
    /\ Goto(t, "exit_status")
    /\ UNCHANGED <<th, next_tid, crashed>>
ExitStatus(t) ==
    /\ At(t, "exit_status")
    /\ rec' = [rec EXCEPT ![t].exit_status = th[t].exit_status]
    /\ Goto(t, "exit_signal")
    /\ UNCHANGED <<th, next_tid, crashed>>
ExitSignal(t) ==
    /\ At(t, "exit_signal")
    /\ Signalled(t, rec[t].wait_for_me_to_exit, "exit_leave")
    /\ rec' = [rec EXCEPT ![t].wait_for_me_to_exit = NULL]
    /\ UNCHANGED <<th, next_tid, crashed>>
ExitLeave(t) ==
    /\ At(t, "exit_leave")
    /\ th' = [th EXCEPT ![t].parent = NULL]
    /\ Goto(t, "release")
    /\ UNCHANGED <<rec, next_tid, crashed>>

\* One turn of the loop over the children: the record leaves the list; a child
\* that has not exited becomes an orphan, which writes to its struct thread;
\* the loop goes on from the record, which the orphan may have freed.
ReleaseChild(t) ==
    /\ At(t, "release")
    /\ IF th[t].children = <<>>
       THEN Goto(t, "die") /\ UNCHANGED th
       ELSE LET c == Head(th[t].children)
            IN  /\ th' = [th EXCEPT ![t].children = Tail(@)]
                /\ GotoAbout(t, IF rec[c].is_thread_exited THEN "next" ELSE "orphan", c)
    /\ UNCHANGED <<rec, next_tid, crashed>>
Orphan(t) ==
    /\ At(t, "orphan")
    /\ IF th[proc[t].arg].page = "freed" THEN Crash
       ELSE /\ th' = [th EXCEPT ![proc[t].arg].parent = NULL]
            /\ Goto(t, "next")
            /\ UNCHANGED <<rec, next_tid, crashed>>
ReleaseNext(t) ==
    /\ At(t, "next")
    /\ IF rec[proc[t].arg].mem = "freed" THEN Crash
       ELSE GotoAbout(t, "release", NULL) /\ UNCHANGED <<th, rec, next_tid, crashed>>

\* thread_exit with interrupts off, and thread_schedule_tail.
Die(t) ==
    /\ At(t, "die")
    /\ th' = [th EXCEPT ![t].page = "freed"]
    /\ Goto(t, "dead")
    /\ UNCHANGED <<rec, next_tid, crashed>>

UserStep(t) == \/ Exec(t) \/ ExecNoPage(t) \/ ExecNoRecord(t) \/ Exit(t)
               \/ \E c \in Tid : Wait(t, c)
KernelStep(t) ==
    \/ ExecFind(t) \/ ExecState(t) \/ ExecTest(t) \/ ExecEnqueue(t) \/ ExecWake(t)
    \/ LoadProcess(t) \/ LoadSignal(t)
    \/ WaitTest(t) \/ WaitEnqueue(t) \/ WaitWake(t) \/ WaitReturn(t)
    \/ ExitBegin(t) \/ ExitFlag(t) \/ ExitStatus(t) \/ ExitSignal(t) \/ ExitLeave(t)
    \/ ReleaseChild(t) \/ Orphan(t) \/ ReleaseNext(t) \/ Die(t)

Next == RunTask \/ RunTaskWait \/ MainExits \/ \E t \in Tid : UserStep(t) \/ KernelStep(t)

Spec == Init /\ [][Next]_crVars

-----------------------------------------------------------------------------
(* Properties. *)

\* wait returns what the child gave to exit, or -1 if it was killed, although
\* process_exit sets is_thread_exited before it stores the status.
StatusRight == \A t \in Tid : proc[t].at = "wait_ret" =>
    LET c == proc[t].arg
    IN  rec[c].is_thread_exited /\ rec[c].exit_status = th[c].given

\* The records a process can reach, by its list or in exec and wait, are not
\* freed before it lets go of them, also when the child is long dead.
RecordsKept == \A t \in Tid : th[t].page = "live" =>
    /\ \A k \in DOMAIN th[t].children : rec[th[t].children[k]].mem = "live"
    /\ proc[t].at \in {"exec_test", "exec_enq", "exec_sleep", "wait_test", "wait_enq",
                       "wait_sleep", "wait_ret"} => rec[proc[t].arg].mem = "live"

\* A process that has not begun to exit has a live parent or none, and is on
\* the parent's list unless the parent is just letting go of it.
ParentsLive == \A t \in Tid :
    th[t].page = "live" /\ th[t].parent # NULL
      /\ proc[t].at \notin {"blocked", "exit_flag", "exit_status", "exit_signal", "exit_leave"} =>
        LET p == th[t].parent
        IN  /\ th[p].page = "live"
            /\ \/ \E k \in DOMAIN th[p].children : th[p].children[k] = t
               \/ proc[p].at = "orphan" /\ proc[p].arg = t

RecordsSound == StatusRight /\ RecordsKept /\ ParentsLive
=============================================================================
