----------------------- MODULE ProcessLifecycleProofs -----------------------
(***************************************************************************)
(* Proofs about exec, wait and exit (module ProcessLifecycle) for any      *)
(* number of processes: type correctness, and the five safety invariants   *)
(* the run pl_family checks for at most four.  The inductive invariant     *)
(* IInv adds to them where a thread can be (Stages), that the lists of     *)
(* children and the parent pointers are inverse to each other (Lists,      *)
(* Parents), and what the local pointers of exec and wait are worth while  *)
(* the thread is preempted (Pointers, Results).                            *)
(***************************************************************************)
EXTENDS ProcessLifecycle, TLAPS

\* Where a thread is and what its flags say.  Identifiers from next_tid on
\* are unused; only a dead thread is freed or marked as exited; and a
\* process that has not loaded has not reported a result.
Stages ==
    \A t \in Tid :
        /\ t >= next_tid => page[t] = "none"
        /\ page[t] = "none" <=> pc[t] = "none"
        /\ page[t] = "freed" => pc[t] = "dead"
        /\ is_thread_exited[t] <=> pc[t] = "dead"
        /\ pc[t] \in {"none", "load"} => is_loaded[t] = "yet"

\* A list of children is on a live page, and so are its members, which know
\* whose children they are.
Lists ==
    \A t, c \in Tid : c \in children[t] =>
        page[t] = "live" /\ page[c] = "live" /\ parent[c] = t

\* The parent of a live thread is live and can find the thread.
Parents ==
    \A t \in Tid : page[t] = "live" /\ parent[t] # NULL =>
        page[parent[t]] = "live" /\ t \in children[parent[t]]

\* What exec and wait look at is a child, all the while they look at it.
Pointers ==
    \A t \in Tid :
        /\ pc[t] \in LoadPcs \cup {"none", "user", "exec_find", "wait_find"} =>
              ptr[t] = NULL
        /\ pc[t] \in ExecPcs =>
              arg[t] \in children[t] /\ ptr[t] \in {NULL, arg[t]}
        /\ pc[t] \in {"exec_test", "exec_enq", "exec_sleep"} => ptr[t] # NULL
        /\ pc[t] \in WaitPcs => arg[t] \in Tid
        /\ pc[t] \in WaitPcs \ {"wait_find"} => ptr[t] \in children[t]

\* What has been tested is still true when the result is returned, and a
\* result that has been returned stays right.
Results ==
    \A t \in Tid :
        /\ pc[t] = "exec_ret" /\ ptr[t] # NULL => is_loaded[ptr[t]] # "yet"
        /\ pc[t] = "wait_ret" => is_thread_exited[ptr[t]]
        /\ ret[t] > 0 => is_loaded[ret[t]] = "positive"

IInv ==
    /\ TypeOK /\ Stages /\ Lists /\ Parents /\ Pointers /\ Results
    /\ OrphansReleased /\ NoStraySleeper

-----------------------------------------------------------------------------

\* The initial thread alone exists in the first state (thread_init).
LEMMA InitIInv == Init => IInv
  <1> SUFFICES ASSUME Init PROVE IInv OBVIOUS
  <1> USE ConstantsAssumption
      DEF Init, Tid, Main, Pcs, LoadPcs, ExecPcs, WaitPcs, ExitPcs
  <1>1. TypeOK
    <2>1. /\ is_parent_waiting \in [Tid -> BOOLEAN]
          /\ is_thread_exited \in [Tid -> BOOLEAN]
          /\ crashed \in BOOLEAN
      OBVIOUS
    <2> QED BY <2>1 DEF TypeOK
  <1>2. Stages BY DEF Stages
  <1>3. Lists /\ Parents BY DEF Lists, Parents
  <1>4. Pointers BY DEF Pointers
  <1>5. Results BY DEF Results
  <1>6. OrphansReleased /\ NoStraySleeper BY DEF OrphansReleased, NoStraySleeper
  <1> QED BY <1>1, <1>2, <1>3, <1>4, <1>5, <1>6 DEF IInv

\* Steps that leave the family alone keep the lists and the parents right.
LEMMA FamilyKept ==
    ASSUME Lists, Parents, UNCHANGED family
    PROVE  (Lists /\ Parents)'
BY DEF Lists, Parents, family

\* A crash of the kernel changes nothing else.
LEMMA CrashKeeps == ASSUME IInv, Crash PROVE IInv'
BY DEF Crash, IInv, TypeOK, Stages, Lists, Parents, Pointers, Results,
       OrphansReleased, NoStraySleeper, family, flags, conds

\* thread_create, called by exec or by run_task: a fresh identifier enters
\* the list of its parent.
LEMMA CreateKeeps ==
    ASSUME IInv, NEW t \in Tid, NEW l \in {"exec_find", "wait_find"},
           At(t, "user"), Create(t, l)
    PROVE  IInv'
  <1> USE ConstantsAssumption DEF Create, Tid, Main, Pcs, LoadPcs, ExecPcs,
         WaitPcs, ExitPcs, At, Goto, family, flags, conds
  <1>a. /\ next_tid \in Tid /\ next_tid # t
        /\ page[next_tid] = "none" /\ pc[next_tid] = "none"
    BY DEF IInv, TypeOK, Stages
  <1>1. TypeOK'
    <2>1. pc' \in [Tid -> Pcs]
      BY <1>a DEF IInv, TypeOK
    <2>2. /\ page' \in [Tid -> {"none", "live", "freed"}]
          /\ parent' \in [Tid -> Tid \cup {NULL}]
          /\ children' \in [Tid -> SUBSET Tid]
      BY <1>a DEF IInv, TypeOK
    <2>3. /\ next_tid' \in 3 .. MaxTid + 1
          /\ arg' \in [Tid -> Tid \cup {NULL}]
      BY <1>a DEF IInv, TypeOK
    <2> QED BY <2>1, <2>2, <2>3 DEF IInv, TypeOK
  <1>2. Stages'
    BY <1>a DEF IInv, TypeOK, Stages
  <1>3. Lists'
    BY <1>a DEF IInv, TypeOK, Stages, Lists, Parents
  <1>4. Parents'
    BY <1>a DEF IInv, TypeOK, Stages, Lists, Parents
  <1>5. Pointers'
    BY <1>a DEF IInv, TypeOK, Lists, Pointers
  <1>6. Results'
    BY DEF IInv, TypeOK, Stages, Lists, Pointers, Results
  <1>7. OrphansReleased'
    BY DEF IInv, TypeOK, Stages, OrphansReleased
  <1>8. NoStraySleeper'
    BY DEF IInv, TypeOK, Stages, Lists, Pointers, NoStraySleeper
  <1> QED BY <1>1, <1>2, <1>3, <1>4, <1>5, <1>6, <1>7, <1>8 DEF IInv

\* Every other step of a process but its death leaves the family alone.
LEMMA StepKeeps ==
    ASSUME IInv, NEW t \in Tid, UserStep(t) \/ KernelStep(t),
           ~Exec(t), ~Die(t), ~Crash
    PROVE  IInv'
  <1> USE ConstantsAssumption DEF Tid, Main, Pcs, LoadPcs, ExecPcs, WaitPcs,
         ExitPcs, At, Goto, family, flags, conds
  <1>1. CASE ExecFails(t)
    <2> USE <1>1 DEF ExecFails, ReturnValue
    <2>1. TypeOK'
      BY DEF IInv, TypeOK, Lists, Pointers
    <2>2. Stages'
      BY DEF IInv, TypeOK, Stages
    <2>3. (Lists /\ Parents)'
      BY FamilyKept DEF IInv
    <2>4. Pointers'
      BY DEF IInv, TypeOK, Stages, Lists, Pointers
    <2>5. Results'
      BY DEF IInv, TypeOK, Results
    <2>6. OrphansReleased'
      BY DEF IInv, TypeOK, Stages, OrphansReleased
    <2>7. NoStraySleeper'
      BY DEF IInv, TypeOK, Stages, Lists, Pointers, NoStraySleeper
    <2> QED BY <2>1, <2>2, <2>3, <2>4, <2>5, <2>6, <2>7 DEF IInv
  <1>2. CASE Exit(t)
    <2> USE <1>2 DEF Exit
    <2>1. TypeOK'
      BY DEF IInv, TypeOK, Lists, Pointers
    <2>2. Stages'
      BY DEF IInv, TypeOK, Stages
    <2>3. (Lists /\ Parents)'
      BY FamilyKept DEF IInv
    <2>4. Pointers'
      BY DEF IInv, TypeOK, Stages, Lists, Pointers
    <2>5. Results'
      BY DEF IInv, TypeOK, Stages, Lists, Pointers, Results
    <2>6. OrphansReleased'
      BY DEF IInv, TypeOK, Stages, OrphansReleased
    <2>7. NoStraySleeper'
      BY DEF IInv, TypeOK, Stages, Lists, Pointers, NoStraySleeper
    <2> QED BY <2>1, <2>2, <2>3, <2>4, <2>5, <2>6, <2>7 DEF IInv
  <1>3. CASE \E c \in Tid : Wait(t, c)
    <2> USE <1>3 DEF Wait
    <2>1. TypeOK'
      BY DEF IInv, TypeOK, Lists, Pointers
    <2>2. Stages'
      BY DEF IInv, TypeOK, Stages
    <2>3. (Lists /\ Parents)'
      BY FamilyKept DEF IInv
    <2>4. Pointers'
      BY DEF IInv, TypeOK, Stages, Lists, Pointers
    <2>5. Results'
      BY DEF IInv, TypeOK, Stages, Lists, Pointers, Results
    <2>6. OrphansReleased'
      BY DEF IInv, TypeOK, Stages, OrphansReleased
    <2>7. NoStraySleeper'
      BY DEF IInv, TypeOK, Stages, Lists, Pointers, NoStraySleeper
    <2> QED BY <2>1, <2>2, <2>3, <2>4, <2>5, <2>6, <2>7 DEF IInv
  <1>4. CASE LoadProcess(t)
    <2> USE <1>4 DEF LoadProcess
    <2>1. TypeOK'
      BY DEF IInv, TypeOK, Lists, Pointers
    <2>2. Stages'
      BY DEF IInv, TypeOK, Stages
    <2>3. (Lists /\ Parents)'
      BY FamilyKept DEF IInv
    <2>4. Pointers'
      BY DEF IInv, TypeOK, Stages, Lists, Pointers
    <2>5. Results'
      BY DEF IInv, TypeOK, Stages, Lists, Pointers, Results
    <2>6. OrphansReleased'
      BY DEF IInv, TypeOK, Stages, OrphansReleased
    <2>7. NoStraySleeper'
      BY DEF IInv, TypeOK, Stages, Lists, Pointers, NoStraySleeper
    <2> QED BY <2>1, <2>2, <2>3, <2>4, <2>5, <2>6, <2>7 DEF IInv
  <1>5. CASE LoadSignal(t)
    <2> USE <1>5 DEF LoadSignal, Signal
    <2>1. TypeOK'
      BY DEF IInv, TypeOK, Lists, Pointers
    <2>2. Stages'
      BY DEF IInv, TypeOK, Stages
    <2>3. (Lists /\ Parents)'
      BY FamilyKept DEF IInv
    <2>4. Pointers'
      BY DEF IInv, TypeOK, Stages, Lists, Pointers
    <2>5. Results'
      BY DEF IInv, TypeOK, Stages, Lists, Pointers, Results
    <2>6. OrphansReleased'
      BY DEF IInv, TypeOK, Stages, OrphansReleased
    <2>7. NoStraySleeper'
      BY DEF IInv, TypeOK, Stages, Lists, Pointers, NoStraySleeper
    <2> QED BY <2>1, <2>2, <2>3, <2>4, <2>5, <2>6, <2>7 DEF IInv
  <1>6. CASE ExecFind(t)
    <2> USE <1>6 DEF ExecFind
    <2>1. TypeOK'
      BY DEF IInv, TypeOK, Lists, Pointers
    <2>2. Stages'
      BY DEF IInv, TypeOK, Stages
    <2>3. (Lists /\ Parents)'
      BY FamilyKept DEF IInv
    <2>4. Pointers'
      BY DEF IInv, TypeOK, Stages, Lists, Pointers
    <2>5. Results'
      BY DEF IInv, TypeOK, Stages, Lists, Pointers, Results
    <2>6. OrphansReleased'
      BY DEF IInv, TypeOK, Stages, OrphansReleased
    <2>7. NoStraySleeper'
      BY DEF IInv, TypeOK, Stages, Lists, Pointers, NoStraySleeper
    <2> QED BY <2>1, <2>2, <2>3, <2>4, <2>5, <2>6, <2>7 DEF IInv
  <1>7. CASE ExecTest(t)
    <2> USE <1>7 DEF ExecTest, Test, Crash
    <2>1. TypeOK'
      BY DEF IInv, TypeOK, Lists, Pointers
    <2>2. Stages'
      BY DEF IInv, TypeOK, Stages
    <2>3. (Lists /\ Parents)'
      BY FamilyKept DEF IInv
    <2>4. Pointers'
      BY DEF IInv, TypeOK, Stages, Lists, Pointers
    <2>5. Results'
      BY DEF IInv, TypeOK, Stages, Lists, Pointers, Results
    <2>6. OrphansReleased'
      BY DEF IInv, TypeOK, Stages, OrphansReleased
    <2>7. NoStraySleeper'
      BY DEF IInv, TypeOK, Stages, Lists, Pointers, NoStraySleeper
    <2> QED BY <2>1, <2>2, <2>3, <2>4, <2>5, <2>6, <2>7 DEF IInv
  <1>8. CASE ExecEnqueue(t)
    <2> USE <1>8 DEF ExecEnqueue
    <2>1. TypeOK'
      BY DEF IInv, TypeOK, Lists, Pointers
    <2>2. Stages'
      BY DEF IInv, TypeOK, Stages
    <2>3. (Lists /\ Parents)'
      BY FamilyKept DEF IInv
    <2>4. Pointers'
      BY DEF IInv, TypeOK, Stages, Lists, Pointers
    <2>5. Results'
      BY DEF IInv, TypeOK, Stages, Lists, Pointers, Results
    <2>6. OrphansReleased'
      BY DEF IInv, TypeOK, Stages, OrphansReleased
    <2>7. NoStraySleeper'
      BY DEF IInv, TypeOK, Stages, Lists, Pointers, NoStraySleeper
    <2> QED BY <2>1, <2>2, <2>3, <2>4, <2>5, <2>6, <2>7 DEF IInv
  <1>9. CASE ExecWake(t)
    <2> USE <1>9 DEF ExecWake, Wake
    <2>1. TypeOK'
      BY DEF IInv, TypeOK, Lists, Pointers
    <2>2. Stages'
      BY DEF IInv, TypeOK, Stages
    <2>3. (Lists /\ Parents)'
      BY FamilyKept DEF IInv
    <2>4. Pointers'
      BY DEF IInv, TypeOK, Stages, Lists, Pointers
    <2>5. Results'
      BY DEF IInv, TypeOK, Results
    <2>6. OrphansReleased'
      BY DEF IInv, TypeOK, Stages, OrphansReleased
    <2>7. NoStraySleeper'
      BY DEF IInv, TypeOK, Stages, Lists, Pointers, NoStraySleeper
    <2> QED BY <2>1, <2>2, <2>3, <2>4, <2>5, <2>6, <2>7 DEF IInv
  <1>10. CASE ExecReturn(t)
    <2> USE <1>10 DEF ExecReturn, ReturnValue, Crash
    <2>1. TypeOK'
      BY DEF IInv, TypeOK, Lists, Pointers
    <2>2. Stages'
      BY DEF IInv, TypeOK, Stages
    <2>3. (Lists /\ Parents)'
      BY FamilyKept DEF IInv
    <2>4. Pointers'
      BY DEF IInv, TypeOK, Stages, Lists, Pointers
    <2>5. Results'
      <3>1. /\ arg[t] \in Tid /\ ptr[t] \in {NULL, arg[t]}
            /\ ptr[t] # NULL => is_loaded[ptr[t]] # "yet"
        BY DEF IInv, TypeOK, Pointers, Results
      <3>2. /\ is_loaded \in [Tid -> {"yet", "positive", "negative"}]
            /\ ret \in [Tid -> Tid \cup {-1, 0}]
        BY DEF IInv, TypeOK
      <3> QED BY <3>1, <3>2 DEF IInv, TypeOK, Results
    <2>6. OrphansReleased'
      BY DEF IInv, TypeOK, Stages, OrphansReleased
    <2>7. NoStraySleeper'
      BY DEF IInv, TypeOK, Stages, Lists, Pointers, NoStraySleeper
    <2> QED BY <2>1, <2>2, <2>3, <2>4, <2>5, <2>6, <2>7 DEF IInv
  <1>11. CASE WaitFind(t)
    <2> USE <1>11 DEF WaitFind, ReturnValue
    <2>1. TypeOK'
      <3>1. CASE arg[t] \notin children[t] \/ is_parent_waiting[arg[t]]
        BY <3>1 DEF IInv, TypeOK
      <3>2. CASE ~(arg[t] \notin children[t] \/ is_parent_waiting[arg[t]])
        BY <3>2 DEF IInv, TypeOK, Pointers
      <3> QED BY <3>1, <3>2
    <2>2. Stages'
      BY DEF IInv, TypeOK, Stages
    <2>3. (Lists /\ Parents)'
      BY FamilyKept DEF IInv
    <2>4. Pointers'
      BY DEF IInv, TypeOK, Stages, Lists, Pointers
    <2>5. Results'
      BY DEF IInv, TypeOK, Stages, Lists, Pointers, Results
    <2>6. OrphansReleased'
      BY DEF IInv, TypeOK, Stages, OrphansReleased
    <2>7. NoStraySleeper'
      BY SMTT(60) DEF IInv, TypeOK, Stages, Lists, Pointers, NoStraySleeper
    <2> QED BY <2>1, <2>2, <2>3, <2>4, <2>5, <2>6, <2>7 DEF IInv
  <1>12. CASE WaitTest(t)
    <2> USE <1>12 DEF WaitTest, Test, Crash
    <2>1. TypeOK'
      BY DEF IInv, TypeOK, Lists, Pointers
    <2>2. Stages'
      BY DEF IInv, TypeOK, Stages
    <2>3. (Lists /\ Parents)'
      BY FamilyKept DEF IInv
    <2>4. Pointers'
      BY DEF IInv, TypeOK, Stages, Lists, Pointers
    <2>5. Results'
      BY DEF IInv, TypeOK, Stages, Lists, Pointers, Results
    <2>6. OrphansReleased'
      BY DEF IInv, TypeOK, Stages, OrphansReleased
    <2>7. NoStraySleeper'
      BY DEF IInv, TypeOK, Stages, Lists, Pointers, NoStraySleeper
    <2> QED BY <2>1, <2>2, <2>3, <2>4, <2>5, <2>6, <2>7 DEF IInv
  <1>13. CASE WaitEnqueue(t)
    <2> USE <1>13 DEF WaitEnqueue
    <2>1. TypeOK'
      BY DEF IInv, TypeOK, Lists, Pointers
    <2>2. Stages'
      BY DEF IInv, TypeOK, Stages
    <2>3. (Lists /\ Parents)'
      BY FamilyKept DEF IInv
    <2>4. Pointers'
      BY DEF IInv, TypeOK, Stages, Lists, Pointers
    <2>5. Results'
      BY DEF IInv, TypeOK, Stages, Lists, Pointers, Results
    <2>6. OrphansReleased'
      BY DEF IInv, TypeOK, Stages, OrphansReleased
    <2>7. NoStraySleeper'
      BY DEF IInv, TypeOK, Stages, Lists, Pointers, NoStraySleeper
    <2> QED BY <2>1, <2>2, <2>3, <2>4, <2>5, <2>6, <2>7 DEF IInv
  <1>14. CASE WaitWake(t)
    <2> USE <1>14 DEF WaitWake, Wake
    <2>1. TypeOK'
      BY DEF IInv, TypeOK, Lists, Pointers
    <2>2. Stages'
      BY DEF IInv, TypeOK, Stages
    <2>3. (Lists /\ Parents)'
      BY FamilyKept DEF IInv
    <2>4. Pointers'
      BY DEF IInv, TypeOK, Stages, Lists, Pointers
    <2>5. Results'
      BY DEF IInv, TypeOK, Stages, Lists, Pointers, Results
    <2>6. OrphansReleased'
      BY DEF IInv, TypeOK, Stages, OrphansReleased
    <2>7. NoStraySleeper'
      BY DEF IInv, TypeOK, Stages, Lists, Pointers, NoStraySleeper
    <2> QED BY <2>1, <2>2, <2>3, <2>4, <2>5, <2>6, <2>7 DEF IInv
  <1>15. CASE WaitReturn(t)
    <2> USE <1>15 DEF WaitReturn, ReturnValue, Crash
    <2>1. TypeOK'
      BY DEF IInv, TypeOK, Lists, Pointers
    <2>2. Stages'
      BY DEF IInv, TypeOK, Stages
    <2>3. (Lists /\ Parents)'
      BY FamilyKept DEF IInv
    <2>4. Pointers'
      BY DEF IInv, TypeOK, Stages, Lists, Pointers
    <2>5. Results'
      BY DEF IInv, TypeOK, Stages, Lists, Pointers, Results
    <2>6. OrphansReleased'
      BY DEF IInv, TypeOK, Stages, OrphansReleased
    <2>7. NoStraySleeper'
      BY DEF IInv, TypeOK, Stages, Lists, Pointers, NoStraySleeper
    <2> QED BY <2>1, <2>2, <2>3, <2>4, <2>5, <2>6, <2>7 DEF IInv
  <1>16. CASE ExitRead(t)
    <2> USE <1>16 DEF ExitRead
    <2>1. TypeOK'
      BY DEF IInv, TypeOK, Lists, Pointers
    <2>2. Stages'
      BY DEF IInv, TypeOK, Stages
    <2>3. (Lists /\ Parents)'
      BY FamilyKept DEF IInv
    <2>4. Pointers'
      BY DEF IInv, TypeOK, Stages, Lists, Pointers
    <2>5. Results'
      BY DEF IInv, TypeOK, Stages, Lists, Pointers, Results
    <2>6. OrphansReleased'
      BY DEF IInv, TypeOK, Stages, OrphansReleased
    <2>7. NoStraySleeper'
      BY DEF IInv, TypeOK, Stages, Lists, Pointers, NoStraySleeper
    <2> QED BY <2>1, <2>2, <2>3, <2>4, <2>5, <2>6, <2>7 DEF IInv
  <1>17. CASE ExitCheck(t)
    <2> USE <1>17 DEF ExitCheck
    <2>1. TypeOK'
      BY DEF IInv, TypeOK, Lists, Pointers
    <2>2. Stages'
      BY DEF IInv, TypeOK, Stages
    <2>3. (Lists /\ Parents)'
      BY FamilyKept DEF IInv
    <2>4. Pointers'
      BY DEF IInv, TypeOK, Stages, Lists, Pointers
    <2>5. Results'
      BY DEF IInv, TypeOK, Stages, Lists, Pointers, Results
    <2>6. OrphansReleased'
      BY DEF IInv, TypeOK, Stages, OrphansReleased
    <2>7. NoStraySleeper'
      BY DEF IInv, TypeOK, Stages, Lists, Pointers, NoStraySleeper
    <2> QED BY <2>1, <2>2, <2>3, <2>4, <2>5, <2>6, <2>7 DEF IInv
  <1>18. CASE ExitFind(t)
    <2> USE <1>18 DEF ExitFind, Crash
    <2>1. TypeOK'
      BY DEF IInv, TypeOK, Lists, Pointers
    <2>2. Stages'
      BY DEF IInv, TypeOK, Stages
    <2>3. (Lists /\ Parents)'
      BY FamilyKept DEF IInv
    <2>4. Pointers'
      BY DEF IInv, TypeOK, Stages, Lists, Pointers
    <2>5. Results'
      BY DEF IInv, TypeOK, Stages, Lists, Pointers, Results
    <2>6. OrphansReleased'
      BY DEF IInv, TypeOK, Stages, OrphansReleased
    <2>7. NoStraySleeper'
      BY DEF IInv, TypeOK, Stages, Lists, Pointers, NoStraySleeper
    <2> QED BY <2>1, <2>2, <2>3, <2>4, <2>5, <2>6, <2>7 DEF IInv
  <1>19. CASE ExitSignal(t)
    <2> USE <1>19 DEF ExitSignal, Signal
    <2>1. TypeOK'
      BY DEF IInv, TypeOK, Lists, Pointers
    <2>2. Stages'
      BY DEF IInv, TypeOK, Stages
    <2>3. (Lists /\ Parents)'
      BY FamilyKept DEF IInv
    <2>4. Pointers'
      BY DEF IInv, TypeOK, Stages, Lists, Pointers
    <2>5. Results'
      BY DEF IInv, TypeOK, Stages, Lists, Pointers, Results
    <2>6. OrphansReleased'
      BY DEF IInv, TypeOK, Stages, OrphansReleased
    <2>7. NoStraySleeper'
      BY DEF IInv, TypeOK, Stages, Lists, Pointers, NoStraySleeper
    <2> QED BY <2>1, <2>2, <2>3, <2>4, <2>5, <2>6, <2>7 DEF IInv
  <1> QED
    BY <1>1, <1>2, <1>3, <1>4, <1>5, <1>6, <1>7, <1>8, <1>9, <1>10, <1>11, <1>12,
       <1>13, <1>14, <1>15, <1>16, <1>17, <1>18, <1>19
    DEF UserStep, KernelStep

\* Death.  The family changes only if the thread is released, and then no
\* child of the thread is dead.
LEMMA DieKeeps == ASSUME IInv, NEW t \in Tid, Die(t) PROVE IInv'
  <1> USE ConstantsAssumption DEF Die, Tid, Main, Pcs, LoadPcs, ExecPcs,
         WaitPcs, ExitPcs, At, Goto, family, flags, conds
  <1>a. page[t] = "live" /\ pc[t] = "die"
    BY DEF IInv, TypeOK, Stages
  <1>b. CASE UNCHANGED <<page, parent, children>>
    <2> USE <1>b
    <2>a. UNCHANGED family /\ crashed' \in BOOLEAN
      BY DEF IInv, TypeOK, Release
    <2>1. TypeOK'
      BY <2>a DEF IInv, TypeOK
    <2>2. Stages'
      BY DEF IInv, TypeOK, Stages
    <2>3. (Lists /\ Parents)'
      BY FamilyKept DEF IInv
    <2>4. Pointers'
      BY DEF IInv, TypeOK, Stages, Lists, Pointers
    <2>5. Results'
      BY DEF IInv, TypeOK, Stages, Lists, Pointers, Results
    <2>6. OrphansReleased'
      BY <1>a DEF IInv, TypeOK, Stages, OrphansReleased, Releasable, Release
    <2>7. NoStraySleeper'
      BY DEF IInv, TypeOK, Stages, Lists, Pointers, NoStraySleeper
    <2> QED BY <2>1, <2>2, <2>3, <2>4, <2>5, <2>6, <2>7 DEF IInv
  <1>c. CASE /\ Releasable(t) /\ Release(t)
             /\ ~\E c \in children[t] : is_thread_exited[c]
    <2> USE <1>c DEF Releasable, Release
    <2>1. TypeOK'
      BY DEF IInv, TypeOK
    <2>2. Stages'
      BY DEF IInv, TypeOK, Stages
    <2>3. Lists'
      BY DEF IInv, TypeOK, Stages, Lists, Parents
    <2>4. Parents'
      BY DEF IInv, TypeOK, Stages, Lists, Parents
    <2>5. Pointers'
      BY DEF IInv, TypeOK, Stages, Lists, Pointers
    <2>6. Results'
      BY DEF IInv, TypeOK, Stages, Lists, Pointers, Results
    <2>7. OrphansReleased'
      BY DEF IInv, TypeOK, Stages, OrphansReleased
    <2>8. NoStraySleeper'
      BY DEF IInv, TypeOK, Stages, Lists, Pointers, NoStraySleeper
    <2> QED BY <2>1, <2>2, <2>3, <2>4, <2>5, <2>6, <2>7, <2>8 DEF IInv
  <1> QED BY <1>b, <1>c DEF Release

\* Every step of every process keeps the inductive invariant.
LEMMA NextKeeps == ASSUME IInv, [Next]_vars PROVE IInv'
  <1>1. CASE RunTask
    BY <1>1, CreateKeeps DEF RunTask, Tid
  <1>2. ASSUME NEW t \in Tid, UserStep(t) \/ KernelStep(t) PROVE IInv'
    <2>1. CASE Exec(t) BY <2>1, CreateKeeps DEF Exec
    <2>2. CASE Die(t) BY <2>2, DieKeeps
    <2>3. CASE Crash BY <2>3, CrashKeeps
    <2> QED BY <1>2, <2>1, <2>2, <2>3, StepKeeps
  <1>3. CASE UNCHANGED vars
    BY <1>3 DEF vars, IInv, TypeOK, Stages, Lists, Parents, Pointers, Results,
                OrphansReleased, NoStraySleeper, family, flags, conds
  <1> QED BY <1>1, <1>2, <1>3 DEF Next

\* The inductive invariant holds in every reachable state.
THEOREM Invariance == Spec => []IInv
  <1>1. Init => IInv BY InitIInv
  <1>2. IInv /\ [Next]_vars => IInv' BY NextKeeps
  <1> QED BY <1>1, <1>2, PTL DEF Spec

\* Every variable keeps its type, whatever the processes do.
THEOREM TypeCorrect == Spec => []TypeOK
  <1>1. IInv => TypeOK BY DEF IInv
  <1> QED BY <1>1, Invariance, PTL

\* What exec_process and process_wait look at while they can be preempted is a
\* struct thread that thread_schedule_tail does not free.
THEOREM AwaitedNotFreedHolds == Spec => []AwaitedNotFreed
  <1>1. IInv => AwaitedNotFreed
    BY ConstantsAssumption
       DEF IInv, TypeOK, Lists, Pointers, AwaitedNotFreed, ExecPcs, WaitPcs
  <1> QED BY <1>1, Invariance, PTL

\* process_wait returns the status of a child that runs no more, exec_process
\* the identifier of a child that has loaded.
THEOREM ReturnsSoundHolds == Spec => []ReturnsSound
  <1>1. IInv => ReturnsSound
    BY DEF IInv, TypeOK, Stages, Lists, Pointers, Results, ReturnsSound, WaitPcs
  <1> QED BY <1>1, Invariance, PTL

\* thread_create and release_thread_resources keep the lists of children and
\* the parent pointers consistent, and no live thread leads to a freed one.
THEOREM FamilyConsistentHolds == Spec => []FamilyConsistent
  <1>1. IInv => FamilyConsistent
    BY DEF IInv, TypeOK, Lists, Parents, FamilyConsistent
  <1> QED BY <1>1, Invariance, PTL

\* "Orphans free-up themselves": thread_schedule_tail leaves no dead thread
\* that nobody can release.
THEOREM OrphansReleasedHolds == Spec => []OrphansReleased
  <1>1. IInv => OrphansReleased BY DEF IInv
  <1> QED BY <1>1, Invariance, PTL

\* Who sleeps in cond_wait is in the list that cond_signal will look at, or has
\* been signalled: no order of the steps of parent and child loses the waiter.
THEOREM NoStraySleeperHolds == Spec => []NoStraySleeper
  <1>1. IInv => NoStraySleeper BY DEF IInv
  <1> QED BY <1>1, Invariance, PTL

=============================================================================
