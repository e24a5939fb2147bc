------------------------- MODULE ChildRecordsProofs -------------------------
(***************************************************************************)
(* Proofs about exec, wait and exit of project 2 (module ChildRecords) for *)
(* any number of processes.  The properties are not inductive: that no     *)
(* record on a list is freed depends on the child knowing its parent until *)
(* it has passed the test that frees the record, which depends on who may  *)
(* clear th[c].parent, which depends on no record being on two lists.      *)
(* IInv adds                                                               *)
(*   Stages    where a thread is, its struct thread and its record;        *)
(*   Apart     a record is on one list, once, or on none while its parent  *)
(*             turns it into an orphan;                                    *)
(*   Listed    a record on a list is allocated and its child, until it     *)
(*             has left, knows the list's owner;                           *)
(*   Pointers  what exec, wait and the loop over the children look at;     *)
(*   Statuses  the three places where an exit status is kept agree.        *)
(***************************************************************************)
EXTENDS ChildRecords, TLAPS

ExecAts == {"exec_find", "exec_state", "exec_test", "exec_enq", "exec_sleep"}
WaitAts == {"wait_find", "wait_test", "wait_enq", "wait_sleep", "wait_ret"}
LeaveAts == {"exit_flag", "exit_status", "exit_signal", "exit_leave"}
GoneAts  == {"release", "orphan", "next", "die", "dead"}
Ats == {"none", "blocked", "load", "load_signal", "user", "exit"}
         \cup ExecAts \cup WaitAts \cup LeaveAts \cup GoneAts

Thread == [page : {"none", "live", "freed"}, parent : Tid \cup {NULL}, children : Seq(Tid),
           exit_status : {-1, 0}, given : {-1, 0}]
Record == [mem : {"none", "live", "freed"}, is_loaded : {"yet", "positive", "negative"},
           is_parent_waiting : BOOLEAN, is_thread_exited : BOOLEAN, exit_status : {-1, 0},
           wait_for_me_to_load : Tid \cup {NULL}, wait_for_me_to_exit : Tid \cup {NULL}]
Place  == [at : Ats, arg : Tid \cup {NULL}, sema : {0, 1}]

TypeOK ==
    /\ th \in [Tid -> Thread]
    /\ rec \in [Tid -> Record]
    /\ proc \in [Tid -> Place]
    /\ next_tid \in 3 .. MaxTid + 3
    /\ crashed \in BOOLEAN

\* c is the k-th record of t's list.
On(t, k, c) == k \in DOMAIN th[t].children /\ th[t].children[k] = c

\* Identifiers from next_tid on are unused; a struct thread is freed when its thread
\* is dead; who has left has no parent, who dies has no children, and only who is
\* leaving is marked as exited.
Stages ==
    \A t \in Tid :
        /\ t >= next_tid => proc[t].at = "none"
        /\ th[t].page = "none" <=> proc[t].at = "none"
        /\ th[t].page = "freed" <=> proc[t].at = "dead"
        /\ proc[t].at \in GoneAts => th[t].parent = NULL
        /\ proc[t].at \in {"die", "dead", "none"} => th[t].children = <<>>
        /\ rec[t].is_thread_exited => proc[t].at \in LeaveAts \cup GoneAts

Apart ==
    /\ \A t, u, c \in Tid, k, l \in Nat : On(t, k, c) /\ On(u, l, c) => t = u /\ k = l
    /\ \A t, u, c \in Tid, k \in Nat : On(t, k, c) => ~(proc[u].at = "orphan" /\ proc[u].arg = c)

Listed ==
    \A t, c \in Tid, k \in Nat : On(t, k, c) =>
        /\ c < next_tid
        /\ proc[c].at # "blocked" /\ rec[c].mem = "live"
        /\ proc[c].at \notin GoneAts => th[c].parent = t

Pointers ==
    \A t \in Tid :
        /\ proc[t].at \in ExecAts \cup WaitAts => \E k \in Nat : On(t, k, proc[t].arg)
        /\ proc[t].at \in {"orphan", "next"} => proc[t].arg \in Tid /\ proc[t].arg < next_tid

Statuses ==
    \A t \in Tid : /\ th[t].exit_status = th[t].given /\ rec[t].exit_status = th[t].given
                   /\ proc[t].at = "wait_ret" => rec[proc[t].arg].is_thread_exited
                   /\ proc[t].at = "none" => th[t].given = -1

IInv == TypeOK /\ Stages /\ Apart /\ Listed /\ Pointers /\ Statuses /\ ParentsLive

-----------------------------------------------------------------------------
\* Main and the identifiers.
LEMMA TidFacts == ASSUME RecordsAssumption
                  PROVE  /\ Main \in Tid /\ NULL \notin Tid
                         /\ \A t \in Tid : t \in Nat /\ t < MaxTid + 3
BY DEF RecordsAssumption, Tid, Main

\* The fields of the three functions, one by one.
LEMMA Fields ==
    ASSUME TypeOK, NEW t \in Tid
    PROVE  /\ th[t] \in Thread /\ rec[t] \in Record /\ proc[t] \in Place
           /\ DOMAIN th = Tid /\ DOMAIN rec = Tid /\ DOMAIN proc = Tid
BY DEF TypeOK

\* What a step may leave as it was.
FamilySame == \A u \in Tid : /\ th'[u].page = th[u].page /\ th'[u].parent = th[u].parent
                             /\ th'[u].children = th[u].children
RecordsSame == \A u \in Tid : /\ rec'[u].mem = rec[u].mem
                              /\ rec'[u].is_thread_exited = rec[u].is_thread_exited
StatusesSame == \A u \in Tid : /\ th'[u].exit_status = th[u].exit_status
                               /\ th'[u].given = th[u].given
                               /\ rec'[u].exit_status = rec[u].exit_status
OthersStay(t) == \A u \in Tid \ {t} : proc'[u].at = proc[u].at /\ proc'[u].arg = proc[u].arg

\* A thread goes on elsewhere.
LEMMA MoveTo ==
    ASSUME proc \in [Tid -> Place], NEW t \in Tid, NEW l \in Ats,
           proc' = [proc EXCEPT ![t].at = l]
    PROVE  /\ proc' \in [Tid -> Place] /\ OthersStay(t) /\ proc'[t].at = l
           /\ proc'[t].arg = proc[t].arg
BY DEF Place, OthersStay

\* It goes on, with a child to look at or none.
LEMMA MoveAbout ==
    ASSUME proc \in [Tid -> Place], NEW t \in Tid, NEW l \in Ats, NEW c \in Tid \cup {NULL},
           proc' = [proc EXCEPT ![t].at = l, ![t].arg = c]
    PROVE  proc' \in [Tid -> Place] /\ OthersStay(t) /\ proc'[t].at = l /\ proc'[t].arg = c
BY DEF Place, OthersStay

\* It falls asleep on, or wakes up from, a semaphore of its own.
LEMMA MoveSleep ==
    ASSUME proc \in [Tid -> Place], NEW t \in Tid, NEW l \in Ats,
           proc' = [proc EXCEPT ![t].at = l, ![t].sema = 0]
    PROVE  /\ proc' \in [Tid -> Place] /\ OthersStay(t) /\ proc'[t].at = l
           /\ proc'[t].arg = proc[t].arg
BY DEF Place, OthersStay

\* cond_signal moves nobody but the caller.
LEMMA MoveSignal ==
    ASSUME proc \in [Tid -> Place], NEW t \in Tid, NEW l \in Ats, NEW w, Signalled(t, w, l)
    PROVE  /\ proc' \in [Tid -> Place] /\ OthersStay(t) /\ proc'[t].at = l
           /\ proc'[t].arg = proc[t].arg
BY DEF Place, OthersStay, Signalled

\* One field of a struct thread is set: parent,
LEMMA SetParent ==
    ASSUME th \in [Tid -> Thread], NEW t \in Tid, NEW p \in Tid \cup {NULL},
           th' = [th EXCEPT ![t].parent = p]
    PROVE  /\ th' \in [Tid -> Thread]
           /\ \A u \in Tid \ {t} : th'[u] = th[u]
           /\ th'[t].parent = p /\ th'[t].page = th[t].page
           /\ th'[t].children = th[t].children /\ th'[t].exit_status = th[t].exit_status
           /\ th'[t].given = th[t].given
BY DEF Thread

\* the page,
LEMMA SetPage ==
    ASSUME th \in [Tid -> Thread], NEW t \in Tid, NEW p \in {"none", "live", "freed"},
           th' = [th EXCEPT ![t].page = p]
    PROVE  /\ th' \in [Tid -> Thread]
           /\ \A u \in Tid \ {t} : th'[u] = th[u]
           /\ th'[t].page = p /\ th'[t].parent = th[t].parent
           /\ th'[t].children = th[t].children /\ th'[t].exit_status = th[t].exit_status
           /\ th'[t].given = th[t].given
BY DEF Thread

\* the status given to exit,
LEMMA SetStatus ==
    ASSUME th \in [Tid -> Thread], NEW t \in Tid, NEW s \in {-1, 0},
           th' = [th EXCEPT ![t].exit_status = s, ![t].given = s]
    PROVE  /\ th' \in [Tid -> Thread]
           /\ \A u \in Tid \ {t} : th'[u] = th[u]
           /\ th'[t].exit_status = s /\ th'[t].given = s /\ th'[t].page = th[t].page
           /\ th'[t].parent = th[t].parent /\ th'[t].children = th[t].children
BY DEF Thread

\* the list of records.
LEMMA SetChildren ==
    ASSUME th \in [Tid -> Thread], NEW t \in Tid, NEW cs \in Seq(Tid),
           th' = [th EXCEPT ![t].children = cs]
    PROVE  /\ th' \in [Tid -> Thread]
           /\ \A u \in Tid \ {t} : th'[u] = th[u]
           /\ th'[t].children = cs /\ th'[t].page = th[t].page /\ th'[t].parent = th[t].parent
           /\ th'[t].exit_status = th[t].exit_status /\ th'[t].given = th[t].given
BY DEF Thread

\* One field of a record is set; IInv looks at the memory, the mark and the status.
LEMMA Set_mem ==
    ASSUME rec \in [Tid -> Record], NEW c \in Tid, NEW x \in {"none", "live", "freed"},
           rec' = [rec EXCEPT ![c].mem = x]
    PROVE  /\ rec' \in [Tid -> Record]
           /\ \A u \in Tid \ {c} : rec'[u] = rec[u]
           /\ rec'[c].mem = x /\ rec'[c].is_thread_exited = rec[c].is_thread_exited
           /\ rec'[c].exit_status = rec[c].exit_status
BY DEF Record

\* The same for the field is_loaded.
LEMMA Set_is_loaded ==
    ASSUME rec \in [Tid -> Record], NEW c \in Tid,
           NEW x \in {"yet", "positive", "negative"}, rec' = [rec EXCEPT ![c].is_loaded = x]
    PROVE  /\ rec' \in [Tid -> Record]
           /\ \A u \in Tid \ {c} : rec'[u] = rec[u]
           /\ rec'[c].is_loaded = x /\ rec'[c].mem = rec[c].mem
           /\ rec'[c].is_thread_exited = rec[c].is_thread_exited
           /\ rec'[c].exit_status = rec[c].exit_status
BY DEF Record

\* The same for the field is_parent_waiting.
LEMMA Set_is_parent_waiting ==
    ASSUME rec \in [Tid -> Record], NEW c \in Tid, NEW x \in BOOLEAN,
           rec' = [rec EXCEPT ![c].is_parent_waiting = x]
    PROVE  /\ rec' \in [Tid -> Record]
           /\ \A u \in Tid \ {c} : rec'[u] = rec[u]
           /\ rec'[c].is_parent_waiting = x /\ rec'[c].mem = rec[c].mem
           /\ rec'[c].is_thread_exited = rec[c].is_thread_exited
           /\ rec'[c].exit_status = rec[c].exit_status
BY DEF Record

\* The same for the field is_thread_exited.
LEMMA Set_is_thread_exited ==
    ASSUME rec \in [Tid -> Record], NEW c \in Tid, NEW x \in BOOLEAN,
           rec' = [rec EXCEPT ![c].is_thread_exited = x]
    PROVE  /\ rec' \in [Tid -> Record]
           /\ \A u \in Tid \ {c} : rec'[u] = rec[u]
           /\ rec'[c].is_thread_exited = x /\ rec'[c].mem = rec[c].mem
           /\ rec'[c].exit_status = rec[c].exit_status
BY DEF Record

\* The same for the field exit_status.
LEMMA Set_exit_status ==
    ASSUME rec \in [Tid -> Record], NEW c \in Tid, NEW x \in {-1, 0},
           rec' = [rec EXCEPT ![c].exit_status = x]
    PROVE  /\ rec' \in [Tid -> Record]
           /\ \A u \in Tid \ {c} : rec'[u] = rec[u]
           /\ rec'[c].exit_status = x /\ rec'[c].mem = rec[c].mem
           /\ rec'[c].is_thread_exited = rec[c].is_thread_exited
BY DEF Record

\* The same for the field wait_for_me_to_load.
LEMMA Set_wait_for_me_to_load ==
    ASSUME rec \in [Tid -> Record], NEW c \in Tid, NEW x \in Tid \cup {NULL},
           rec' = [rec EXCEPT ![c].wait_for_me_to_load = x]
    PROVE  /\ rec' \in [Tid -> Record]
           /\ \A u \in Tid \ {c} : rec'[u] = rec[u]
           /\ rec'[c].wait_for_me_to_load = x /\ rec'[c].mem = rec[c].mem
           /\ rec'[c].is_thread_exited = rec[c].is_thread_exited
           /\ rec'[c].exit_status = rec[c].exit_status
BY DEF Record

\* The same for the field wait_for_me_to_exit.
LEMMA Set_wait_for_me_to_exit ==
    ASSUME rec \in [Tid -> Record], NEW c \in Tid, NEW x \in Tid \cup {NULL},
           rec' = [rec EXCEPT ![c].wait_for_me_to_exit = x]
    PROVE  /\ rec' \in [Tid -> Record]
           /\ \A u \in Tid \ {c} : rec'[u] = rec[u]
           /\ rec'[c].wait_for_me_to_exit = x /\ rec'[c].mem = rec[c].mem
           /\ rec'[c].is_thread_exited = rec[c].is_thread_exited
           /\ rec'[c].exit_status = rec[c].exit_status
BY DEF Record


-----------------------------------------------------------------------------
Calm == {"load", "load_signal", "user", "exit"} \cup ExecAts \cup WaitAts

\* c is on t's list.
Holds(t, c) == \E k \in Nat : On(t, k, c)

\* No record is freed, and only a thread that is leaving is marked as exited.
MarksOnly(t) == \A u \in Tid : /\ rec'[u].mem = rec[u].mem
                               /\ rec'[u].is_thread_exited =>
                                    rec[u].is_thread_exited \/ (u = t /\ proc'[t].at \in LeaveAts)

\* Who is on a list is a thread.
LEMMA OnTid == ASSUME TypeOK, NEW t \in Tid, NEW k, NEW c, On(t, k, c)
               PROVE  c \in Tid /\ k \in Nat
BY DEF TypeOK, Thread, On

\* The steps before the loop over the children that leave every list and every parent alone.
LEMMA StepKeeps ==
    ASSUME RecordsAssumption, TypeOK, Stages, Apart, Listed, Pointers, ParentsLive,
           FamilySame, NEW t \in Tid, OthersStay(t), next_tid' = next_tid,
           proc[t].at \in Calm \cup LeaveAts, proc'[t].at \in Calm \cup LeaveAts,
           proc[t].at \in LeaveAts => proc'[t].at \in LeaveAts,
           MarksOnly(t), proc'[t].at \in ExecAts \cup WaitAts => Holds(t, proc'[t].arg)
    PROVE  (Stages /\ Apart /\ Listed /\ Pointers /\ ParentsLive)'
  <1> USE DEF FamilySame, OthersStay, MarksOnly, Holds, Calm, ExecAts, WaitAts, LeaveAts, GoneAts
  <1>1. \A u \in Tid : \A k, c : On(u, k, c)' <=> On(u, k, c) BY DEF On
  <1>2. Stages' BY TidFacts DEF Stages
  <1>3. Apart' BY <1>1 DEF Apart
  <1>4. Listed' BY <1>1 DEF Listed
  <1>5. Pointers' BY <1>1 DEF Pointers
  <1>6. ParentsLive'
    <2>1. \A u \in Tid : th[u].parent \in Tid \cup {NULL} BY DEF TypeOK, Thread
    <2> QED BY <2>1 DEF ParentsLive
  <1> QED BY <1>2, <1>3, <1>4, <1>5, <1>6

\* The statuses, in a step that sets none.
LEMMA StatusesKept ==
    ASSUME TypeOK, Pointers, Statuses, StatusesSame, NEW t \in Tid, OthersStay(t),
           \A u \in Tid : rec[u].is_thread_exited => rec'[u].is_thread_exited,
           proc'[t].at # "none",
           proc'[t].at # "wait_ret" \/ rec'[proc'[t].arg].is_thread_exited
    PROVE  Statuses'
  <1>1. ASSUME NEW u \in Tid, proc[u].at = "wait_ret" PROVE proc[u].arg \in Tid
    BY <1>1, OnTid DEF Pointers, WaitAts
  <1> QED BY <1>1 DEF StatusesSame, OthersStay, Statuses

-----------------------------------------------------------------------------
(* The steps.                                                              *)

\* exit_thread writes the status to both places before anything else.
LEMMA ExitThreadKeeps ==
    ASSUME RecordsAssumption, IInv, NEW t \in Tid, NEW s \in {-1, 0}, proc[t].at \in Calm,
           ExitThread(t, s)
    PROVE  IInv'
  <1> USE DEF IInv
  <1>1. /\ th' \in [Tid -> Thread] /\ FamilySame
        /\ th'[t].exit_status = s /\ th'[t].given = s
        /\ \A u \in Tid \ {t} : th'[u] = th[u]
    BY SetStatus DEF ExitThread, TypeOK, FamilySame
  <1>2. /\ rec' \in [Tid -> Record] /\ RecordsSame /\ rec'[t].exit_status = s
        /\ \A u \in Tid \ {t} : rec'[u] = rec[u]
    BY Set_exit_status DEF ExitThread, TypeOK, RecordsSame
  <1>3. /\ proc' \in [Tid -> Place] /\ OthersStay(t) /\ proc'[t].at = "exit"
        /\ next_tid' = next_tid /\ crashed' = crashed
    <2>1. "exit" \in Ats /\ NULL \in Tid \cup {NULL} BY DEF Ats
    <2> QED BY <2>1, MoveAbout DEF ExitThread, GotoAbout, TypeOK
  <1>c. /\ proc'[t].at \in Calm /\ proc'[t].at \notin ExecAts \cup WaitAts
        /\ proc[t].at \notin LeaveAts
    BY <1>3 DEF Calm, ExecAts, WaitAts, LeaveAts
  <1>4. TypeOK' BY <1>1, <1>2, <1>3 DEF TypeOK
  <1>5. (Stages /\ Apart /\ Listed /\ Pointers /\ ParentsLive)'
    BY <1>1, <1>2, <1>3, <1>c, StepKeeps DEF RecordsSame, MarksOnly
  <1>6. Statuses'
    <2>1. \A u \in Tid : proc[u].at = "wait_ret" => proc[u].arg \in Tid
      BY OnTid DEF Pointers, Holds, ExecAts, WaitAts
    <2> QED BY <1>1, <1>2, <1>3, <2>1 DEF RecordsSame, OthersStay, Statuses
  <1> QED BY <1>4, <1>5, <1>6

\* exec, wait and the first half of exit, step by step.
LEMMA KernelKeeps ==
    ASSUME RecordsAssumption, IInv, NEW t \in Tid, ~Crash,
           \/ ExecFind(t) \/ ExecState(t) \/ ExecTest(t) \/ ExecEnqueue(t) \/ ExecWake(t)
           \/ LoadProcess(t) \/ LoadSignal(t)
           \/ WaitTest(t) \/ WaitEnqueue(t) \/ WaitWake(t) \/ WaitReturn(t)
           \/ ExitFlag(t) \/ ExitStatus(t) \/ ExitSignal(t)
    PROVE  IInv'
  <1> USE DEF IInv
  <1>a. proc[t].at \in ExecAts \cup WaitAts => /\ proc[t].arg \in Tid
                                               /\ Holds(t, proc[t].arg)
    BY OnTid DEF Pointers, Holds, ExecAts, WaitAts
  <1>1. CASE ExecFind(t)
    <2>a. CASE ExitThread(t, -1)
      <3>1. proc[t].at \in Calm /\ -1 \in {-1, 0} BY <1>1 DEF ExecFind, At, Calm, ExecAts
      <3> QED BY <2>a, <3>1, ExitThreadKeeps
    <2>b. CASE ~ExitThread(t, -1)
      <3>1. /\ UNCHANGED th /\ next_tid' = next_tid /\ crashed' = crashed /\ UNCHANGED rec
            /\ At(t, "exec_find") /\ Goto(t, "exec_state")
        BY <1>1, <2>b DEF ExecFind, Goto
      <3>2. rec' \in [Tid -> Record] /\ RecordsSame BY <3>1 DEF TypeOK, RecordsSame
      <3>3. /\ proc' \in [Tid -> Place] /\ OthersStay(t) /\ proc[t].at = "exec_find"
            /\ proc'[t].at = "exec_state" /\ proc'[t].arg = proc[t].arg
        BY <3>1, MoveTo DEF At, Goto, TypeOK, Ats, ExecAts
      <3>c. /\ {proc[t].at, proc'[t].at} \subseteq Calm /\ proc[t].at \in ExecAts \cup WaitAts
            /\ proc[t].at \notin LeaveAts
        BY <3>3 DEF Calm, ExecAts, WaitAts, LeaveAts
      <3>4. TypeOK' BY <3>1, <3>2, <3>3 DEF TypeOK
      <3>5. (Stages /\ Apart /\ Listed /\ Pointers /\ ParentsLive)'
        BY <1>a, <3>1, <3>2, <3>3, <3>c, StepKeeps DEF FamilySame, MarksOnly
      <3>6. Statuses' BY <3>1, <3>2, <3>3, StatusesKept DEF StatusesSame, RecordsSame
      <3> QED BY <3>4, <3>5, <3>6
    <2> QED BY <2>a, <2>b
  <1>2. CASE ExecState(t)
    <2>1. UNCHANGED th /\ next_tid' = next_tid /\ crashed' = crashed
      BY <1>2 DEF ExecState, Goto, GotoAbout, Return
    <2>2. rec' \in [Tid -> Record] /\ RecordsSame /\ UNCHANGED rec
      BY <1>2, <1>a DEF ExecState, TypeOK, RecordsSame
    <2>3. /\ proc' \in [Tid -> Place] /\ OthersStay(t) /\ proc[t].at = "exec_state"
          /\ proc'[t].at = "exec_test"
          /\ proc'[t].arg = proc[t].arg
      BY <1>2, <1>a, MoveTo DEF ExecState, At, Goto, TypeOK, Ats, ExecAts, WaitAts, LeaveAts
    <2>c. /\ {proc[t].at, proc'[t].at} \subseteq Calm /\ proc[t].at \in ExecAts \cup WaitAts
          /\ proc[t].at \notin LeaveAts
      BY <2>3 DEF Calm, ExecAts, WaitAts, LeaveAts
    <2>4. TypeOK' BY <2>1, <2>2, <2>3 DEF TypeOK
    <2>5. (Stages /\ Apart /\ Listed /\ Pointers /\ ParentsLive)'
      BY <1>a, <2>1, <2>2, <2>3, <2>c, StepKeeps DEF FamilySame, RecordsSame, MarksOnly
    <2>6. Statuses' BY <1>a, <2>1, <2>2, <2>3, StatusesKept DEF StatusesSame, RecordsSame
    <2> QED BY <2>4, <2>5, <2>6
  <1>3. CASE ExecTest(t)
    <2>1. UNCHANGED th /\ next_tid' = next_tid /\ crashed' = crashed
      BY <1>3 DEF ExecTest, Goto, GotoAbout, Return
    <2>2. rec' \in [Tid -> Record] /\ RecordsSame /\ UNCHANGED rec
      BY <1>3, <1>a DEF ExecTest, TypeOK, RecordsSame
    <2>3. /\ proc' \in [Tid -> Place] /\ OthersStay(t) /\ proc[t].at = "exec_test"
          /\ proc'[t].at \in {"user", "exec_enq"}
          /\ proc'[t].at # "user" => proc'[t].arg = proc[t].arg
      <3>1. {"user", "exec_enq"} \subseteq Ats BY DEF Ats, ExecAts
      <3> QED BY <1>3, <3>1, MoveTo, MoveAbout DEF ExecTest, At, Goto, GotoAbout, Return, TypeOK
    <2>c. /\ proc'[t].at \in ExecAts \cup WaitAts => Holds(t, proc'[t].arg)
          /\ {proc[t].at, proc'[t].at} \subseteq Calm /\ proc[t].at \in ExecAts \cup WaitAts
          /\ proc[t].at \notin LeaveAts
      BY <1>a, <2>3 DEF Calm, ExecAts, WaitAts, LeaveAts
    <2>4. TypeOK' BY <2>1, <2>2, <2>3 DEF TypeOK
    <2>5. (Stages /\ Apart /\ Listed /\ Pointers /\ ParentsLive)'
      BY <1>a, <2>1, <2>2, <2>3, <2>c, StepKeeps DEF FamilySame, RecordsSame, MarksOnly
    <2>6. Statuses' BY <1>a, <2>1, <2>2, <2>3, StatusesKept DEF StatusesSame, RecordsSame
    <2> QED BY <2>4, <2>5, <2>6
  <1>4. CASE ExecEnqueue(t)
    <2>1. UNCHANGED th /\ next_tid' = next_tid /\ crashed' = crashed
      BY <1>4 DEF ExecEnqueue, Goto, GotoAbout, Return
    <2>2. /\ rec' \in [Tid -> Record] /\ RecordsSame
          /\ \A u \in Tid : rec'[u].exit_status = rec[u].exit_status
      BY <1>4, <1>a, Set_wait_for_me_to_load DEF ExecEnqueue, TypeOK, RecordsSame
    <2>3. /\ proc' \in [Tid -> Place] /\ OthersStay(t) /\ proc[t].at = "exec_enq"
          /\ proc'[t].at = "exec_sleep"
          /\ proc'[t].arg = proc[t].arg
      BY <1>4, <1>a, MoveSleep DEF ExecEnqueue, At, Goto, TypeOK, Ats, ExecAts, WaitAts,
         LeaveAts
    <2>c. /\ {proc[t].at, proc'[t].at} \subseteq Calm /\ proc[t].at \in ExecAts \cup WaitAts
          /\ proc[t].at \notin LeaveAts
      BY <2>3 DEF Calm, ExecAts, WaitAts, LeaveAts
    <2>4. TypeOK' BY <2>1, <2>2, <2>3 DEF TypeOK
    <2>5. (Stages /\ Apart /\ Listed /\ Pointers /\ ParentsLive)'
      BY <1>a, <2>1, <2>2, <2>3, <2>c, StepKeeps DEF FamilySame, RecordsSame, MarksOnly
    <2>6. Statuses' BY <1>a, <2>1, <2>2, <2>3, StatusesKept DEF StatusesSame, RecordsSame
    <2> QED BY <2>4, <2>5, <2>6
  <1>5. CASE ExecWake(t)
    <2>1. UNCHANGED th /\ next_tid' = next_tid /\ crashed' = crashed
      BY <1>5 DEF ExecWake, Goto, GotoAbout, Return
    <2>2. rec' \in [Tid -> Record] /\ RecordsSame /\ UNCHANGED rec
      BY <1>5, <1>a DEF ExecWake, TypeOK, RecordsSame
    <2>3. /\ proc' \in [Tid -> Place] /\ OthersStay(t) /\ proc[t].at = "exec_sleep"
          /\ proc'[t].at = "exec_test"
          /\ proc'[t].arg = proc[t].arg
      BY <1>5, <1>a, MoveSleep DEF ExecWake, At, Goto, TypeOK, Ats, ExecAts, WaitAts, LeaveAts
    <2>c. /\ {proc[t].at, proc'[t].at} \subseteq Calm /\ proc[t].at \in ExecAts \cup WaitAts
          /\ proc[t].at \notin LeaveAts
      BY <2>3 DEF Calm, ExecAts, WaitAts, LeaveAts
    <2>4. TypeOK' BY <2>1, <2>2, <2>3 DEF TypeOK
    <2>5. (Stages /\ Apart /\ Listed /\ Pointers /\ ParentsLive)'
      BY <1>a, <2>1, <2>2, <2>3, <2>c, StepKeeps DEF FamilySame, RecordsSame, MarksOnly
    <2>6. Statuses' BY <1>a, <2>1, <2>2, <2>3, StatusesKept DEF StatusesSame, RecordsSame
    <2> QED BY <2>4, <2>5, <2>6
  <1>6. CASE LoadProcess(t)
    <2>1. UNCHANGED th /\ next_tid' = next_tid /\ crashed' = crashed
      BY <1>6 DEF LoadProcess, Goto, GotoAbout, Return
    <2>2. /\ rec' \in [Tid -> Record] /\ RecordsSame
          /\ \A u \in Tid : rec'[u].exit_status = rec[u].exit_status
      BY <1>6, <1>a, Set_is_loaded DEF LoadProcess, TypeOK, RecordsSame
    <2>3. /\ proc' \in [Tid -> Place] /\ OthersStay(t) /\ proc[t].at = "load"
          /\ proc'[t].at = "load_signal"
          /\ proc'[t].arg = proc[t].arg
      BY <1>6, <1>a, MoveTo DEF LoadProcess, At, Goto, TypeOK, Ats, ExecAts, WaitAts, LeaveAts
    <2>c. /\ {proc[t].at, proc'[t].at} \subseteq Calm
          /\ proc'[t].at \notin ExecAts \cup WaitAts /\ proc[t].at \notin LeaveAts
      BY <2>3 DEF Calm, ExecAts, WaitAts, LeaveAts
    <2>4. TypeOK' BY <2>1, <2>2, <2>3 DEF TypeOK
    <2>5. (Stages /\ Apart /\ Listed /\ Pointers /\ ParentsLive)'
      BY <1>a, <2>1, <2>2, <2>3, <2>c, StepKeeps DEF FamilySame, RecordsSame, MarksOnly
    <2>6. Statuses' BY <1>a, <2>1, <2>2, <2>3, StatusesKept DEF StatusesSame, RecordsSame
    <2> QED BY <2>4, <2>5, <2>6
  <1>7. CASE LoadSignal(t)
    <2>1. UNCHANGED th /\ next_tid' = next_tid /\ crashed' = crashed
      BY <1>7 DEF LoadSignal, Goto, GotoAbout, Return
    <2>2. /\ rec' \in [Tid -> Record] /\ RecordsSame
          /\ \A u \in Tid : rec'[u].exit_status = rec[u].exit_status
      BY <1>7, <1>a, Set_wait_for_me_to_load DEF LoadSignal, TypeOK, RecordsSame
    <2>3. /\ proc' \in [Tid -> Place] /\ OthersStay(t) /\ proc[t].at = "load_signal"
          /\ proc'[t].at \in {"user", "exit"}
          /\ proc'[t].arg = proc[t].arg
      BY <1>7, <1>a, MoveSignal DEF LoadSignal, At, Goto, TypeOK, Ats, ExecAts, WaitAts,
         LeaveAts
    <2>c. /\ {proc[t].at, proc'[t].at} \subseteq Calm
          /\ proc'[t].at \notin ExecAts \cup WaitAts /\ proc[t].at \notin LeaveAts
      BY <2>3 DEF Calm, ExecAts, WaitAts, LeaveAts
    <2>4. TypeOK' BY <2>1, <2>2, <2>3 DEF TypeOK
    <2>5. (Stages /\ Apart /\ Listed /\ Pointers /\ ParentsLive)'
      BY <1>a, <2>1, <2>2, <2>3, <2>c, StepKeeps DEF FamilySame, RecordsSame, MarksOnly
    <2>6. Statuses' BY <1>a, <2>1, <2>2, <2>3, StatusesKept DEF StatusesSame, RecordsSame
    <2> QED BY <2>4, <2>5, <2>6
  <1>8. CASE WaitTest(t)
    <2>1. UNCHANGED th /\ next_tid' = next_tid /\ crashed' = crashed
      BY <1>8 DEF WaitTest, Goto, GotoAbout, Return
    <2>2. rec' \in [Tid -> Record] /\ RecordsSame /\ UNCHANGED rec
      BY <1>8, <1>a DEF WaitTest, TypeOK, RecordsSame
    <2>3. /\ proc' \in [Tid -> Place] /\ OthersStay(t) /\ proc[t].at = "wait_test"
          /\ proc'[t].at \in {"wait_ret", "wait_enq"}
          /\ proc'[t].arg = proc[t].arg
          /\ proc'[t].at = "wait_ret" => rec[proc[t].arg].is_thread_exited
      <3> DEFINE l == IF rec[proc[t].arg].is_thread_exited THEN "wait_ret" ELSE "wait_enq"
      <3>1. proc[t].at = "wait_test" /\ proc' = [proc EXCEPT ![t].at = l]
        BY <1>8 DEF WaitTest, At, Goto
      <3>2. l \in {"wait_ret", "wait_enq"} /\ l \in Ats BY DEF Ats, WaitAts
      <3>3. l = "wait_ret" => rec[proc[t].arg].is_thread_exited OBVIOUS
      <3> HIDE DEF l
      <3> QED BY <3>1, <3>2, <3>3, MoveTo DEF TypeOK
    <2>c. /\ {proc[t].at, proc'[t].at} \subseteq Calm /\ proc[t].at \in ExecAts \cup WaitAts
          /\ proc[t].at \notin LeaveAts
          /\ proc'[t].at = "wait_ret" => rec[proc[t].arg].is_thread_exited
      BY <2>3 DEF Calm, ExecAts, WaitAts, LeaveAts
    <2>4. TypeOK' BY <2>1, <2>2, <2>3 DEF TypeOK
    <2>5. (Stages /\ Apart /\ Listed /\ Pointers /\ ParentsLive)'
      BY <1>a, <2>1, <2>2, <2>3, <2>c, StepKeeps DEF FamilySame, RecordsSame, MarksOnly
    <2>6. Statuses' BY <1>a, <2>1, <2>2, <2>3, StatusesKept DEF StatusesSame, RecordsSame
    <2> QED BY <2>4, <2>5, <2>6
  <1>9. CASE WaitEnqueue(t)
    <2>1. UNCHANGED th /\ next_tid' = next_tid /\ crashed' = crashed
      BY <1>9 DEF WaitEnqueue, Goto, GotoAbout, Return
    <2>2. /\ rec' \in [Tid -> Record] /\ RecordsSame
          /\ \A u \in Tid : rec'[u].exit_status = rec[u].exit_status
      BY <1>9, <1>a, Set_wait_for_me_to_exit DEF WaitEnqueue, TypeOK, RecordsSame
    <2>3. /\ proc' \in [Tid -> Place] /\ OthersStay(t) /\ proc[t].at = "wait_enq"
          /\ proc'[t].at = "wait_sleep"
          /\ proc'[t].arg = proc[t].arg
      BY <1>9, <1>a, MoveSleep DEF WaitEnqueue, At, Goto, TypeOK, Ats, ExecAts, WaitAts,
         LeaveAts
    <2>c. /\ {proc[t].at, proc'[t].at} \subseteq Calm /\ proc[t].at \in ExecAts \cup WaitAts
          /\ proc[t].at \notin LeaveAts
      BY <2>3 DEF Calm, ExecAts, WaitAts, LeaveAts
    <2>4. TypeOK' BY <2>1, <2>2, <2>3 DEF TypeOK
    <2>5. (Stages /\ Apart /\ Listed /\ Pointers /\ ParentsLive)'
      BY <1>a, <2>1, <2>2, <2>3, <2>c, StepKeeps DEF FamilySame, RecordsSame, MarksOnly
    <2>6. Statuses' BY <1>a, <2>1, <2>2, <2>3, StatusesKept DEF StatusesSame, RecordsSame
    <2> QED BY <2>4, <2>5, <2>6
  <1>10. CASE WaitWake(t)
    <2>1. UNCHANGED th /\ next_tid' = next_tid /\ crashed' = crashed
      BY <1>10 DEF WaitWake, Goto, GotoAbout, Return
    <2>2. rec' \in [Tid -> Record] /\ RecordsSame /\ UNCHANGED rec
      BY <1>10, <1>a DEF WaitWake, TypeOK, RecordsSame
    <2>3. /\ proc' \in [Tid -> Place] /\ OthersStay(t) /\ proc[t].at = "wait_sleep"
          /\ proc'[t].at = "wait_test"
          /\ proc'[t].arg = proc[t].arg
      BY <1>10, <1>a, MoveSleep DEF WaitWake, At, Goto, TypeOK, Ats, ExecAts, WaitAts, LeaveAts
    <2>c. /\ {proc[t].at, proc'[t].at} \subseteq Calm /\ proc[t].at \in ExecAts \cup WaitAts
          /\ proc[t].at \notin LeaveAts
      BY <2>3 DEF Calm, ExecAts, WaitAts, LeaveAts
    <2>4. TypeOK' BY <2>1, <2>2, <2>3 DEF TypeOK
    <2>5. (Stages /\ Apart /\ Listed /\ Pointers /\ ParentsLive)'
      BY <1>a, <2>1, <2>2, <2>3, <2>c, StepKeeps DEF FamilySame, RecordsSame, MarksOnly
    <2>6. Statuses' BY <1>a, <2>1, <2>2, <2>3, StatusesKept DEF StatusesSame, RecordsSame
    <2> QED BY <2>4, <2>5, <2>6
  <1>11. CASE WaitReturn(t)
    <2>1. UNCHANGED th /\ next_tid' = next_tid /\ crashed' = crashed
      BY <1>11 DEF WaitReturn, Goto, GotoAbout, Return
    <2>2. rec' \in [Tid -> Record] /\ RecordsSame /\ UNCHANGED rec
      BY <1>11, <1>a DEF WaitReturn, TypeOK, RecordsSame
    <2>3. /\ proc' \in [Tid -> Place] /\ OthersStay(t) /\ proc[t].at = "wait_ret"
          /\ proc'[t].at = "user"
      BY <1>11, <1>a, MoveAbout DEF WaitReturn, At, GotoAbout, Return, TypeOK, Ats, ExecAts,
         WaitAts, LeaveAts
    <2>c. /\ {proc[t].at, proc'[t].at} \subseteq Calm
          /\ proc'[t].at \notin ExecAts \cup WaitAts /\ proc[t].at \notin LeaveAts
      BY <2>3 DEF Calm, ExecAts, WaitAts, LeaveAts
    <2>4. TypeOK' BY <2>1, <2>2, <2>3 DEF TypeOK
    <2>5. (Stages /\ Apart /\ Listed /\ Pointers /\ ParentsLive)'
      BY <1>a, <2>1, <2>2, <2>3, <2>c, StepKeeps DEF FamilySame, RecordsSame, MarksOnly
    <2>6. Statuses' BY <1>a, <2>1, <2>2, <2>3, StatusesKept DEF StatusesSame, RecordsSame
    <2> QED BY <2>4, <2>5, <2>6
  <1>12. CASE ExitFlag(t)
    <2>1. UNCHANGED th /\ next_tid' = next_tid /\ crashed' = crashed
      BY <1>12 DEF ExitFlag, Goto, GotoAbout, Return
    <2>2. /\ rec' \in [Tid -> Record]
          /\ \A u \in Tid : /\ rec'[u].mem = rec[u].mem /\ rec'[u].exit_status = rec[u].exit_status
                            /\ rec[u].is_thread_exited => rec'[u].is_thread_exited
                            /\ u # t => rec'[u].is_thread_exited = rec[u].is_thread_exited
      <3>1. rec' = [rec EXCEPT ![t].is_thread_exited = TRUE] BY <1>12 DEF ExitFlag
      <3> QED BY <3>1, Set_is_thread_exited DEF TypeOK
    <2>3. /\ proc' \in [Tid -> Place] /\ OthersStay(t) /\ proc[t].at = "exit_flag"
          /\ proc'[t].at = "exit_status"
          /\ proc'[t].arg = proc[t].arg
      BY <1>12, <1>a, MoveTo DEF ExitFlag, At, Goto, TypeOK, Ats, ExecAts, WaitAts, LeaveAts
    <2>c. /\ {proc[t].at, proc'[t].at} \subseteq LeaveAts
          /\ proc'[t].at \notin ExecAts \cup WaitAts
      BY <2>3 DEF Calm, ExecAts, WaitAts, LeaveAts
    <2>m. MarksOnly(t) BY <2>2, <2>c DEF MarksOnly
    <2>n. \A u \in Tid : rec[u].is_thread_exited => rec'[u].is_thread_exited BY <2>2
    <2>4. TypeOK' BY <2>1, <2>2, <2>3 DEF TypeOK
    <2>5. (Stages /\ Apart /\ Listed /\ Pointers /\ ParentsLive)'
      BY <2>1, <2>3, <2>c, <2>m, StepKeeps DEF FamilySame
    <2>6. Statuses' BY <2>1, <2>2, <2>3, <2>n, StatusesKept DEF StatusesSame
    <2> QED BY <2>4, <2>5, <2>6
  <1>13. CASE ExitStatus(t)
    <2>1. UNCHANGED th /\ next_tid' = next_tid /\ crashed' = crashed
      BY <1>13 DEF ExitStatus, Goto, GotoAbout, Return
    <2>2. /\ rec' \in [Tid -> Record] /\ RecordsSame
          /\ \A u \in Tid : rec'[u].exit_status = rec[u].exit_status
      <3>1. rec' = [rec EXCEPT ![t].exit_status = th[t].exit_status] BY <1>13 DEF ExitStatus
      <3>2. th[t].exit_status \in {-1, 0} BY Fields DEF Thread
      <3>3. th[t].exit_status = rec[t].exit_status BY DEF Statuses
      <3> QED BY <3>1, <3>2, <3>3, Set_exit_status DEF TypeOK, RecordsSame
    <2>3. /\ proc' \in [Tid -> Place] /\ OthersStay(t) /\ proc[t].at = "exit_status"
          /\ proc'[t].at = "exit_signal"
          /\ proc'[t].arg = proc[t].arg
      BY <1>13, <1>a, MoveTo DEF ExitStatus, At, Goto, TypeOK, Ats, ExecAts, WaitAts, LeaveAts
    <2>c. /\ {proc[t].at, proc'[t].at} \subseteq LeaveAts
          /\ proc'[t].at \notin ExecAts \cup WaitAts
      BY <2>3 DEF Calm, ExecAts, WaitAts, LeaveAts
    <2>4. TypeOK' BY <2>1, <2>2, <2>3 DEF TypeOK
    <2>5. (Stages /\ Apart /\ Listed /\ Pointers /\ ParentsLive)'
      BY <1>a, <2>1, <2>2, <2>3, <2>c, StepKeeps DEF FamilySame, RecordsSame, MarksOnly
    <2>6. Statuses' BY <1>a, <2>1, <2>2, <2>3, StatusesKept DEF StatusesSame, RecordsSame
    <2> QED BY <2>4, <2>5, <2>6
  <1>14. CASE ExitSignal(t)
    <2>1. UNCHANGED th /\ next_tid' = next_tid /\ crashed' = crashed
      BY <1>14 DEF ExitSignal, Goto, GotoAbout, Return
    <2>2. /\ rec' \in [Tid -> Record] /\ RecordsSame
          /\ \A u \in Tid : rec'[u].exit_status = rec[u].exit_status
      BY <1>14, <1>a, Set_wait_for_me_to_exit DEF ExitSignal, TypeOK, RecordsSame
    <2>3. /\ proc' \in [Tid -> Place] /\ OthersStay(t) /\ proc[t].at = "exit_signal"
          /\ proc'[t].at = "exit_leave"
          /\ proc'[t].arg = proc[t].arg
      BY <1>14, <1>a, MoveSignal DEF ExitSignal, At, Goto, TypeOK, Ats, ExecAts, WaitAts,
         LeaveAts
    <2>c. /\ {proc[t].at, proc'[t].at} \subseteq LeaveAts
          /\ proc'[t].at \notin ExecAts \cup WaitAts
      BY <2>3 DEF Calm, ExecAts, WaitAts, LeaveAts
    <2>4. TypeOK' BY <2>1, <2>2, <2>3 DEF TypeOK
    <2>5. (Stages /\ Apart /\ Listed /\ Pointers /\ ParentsLive)'
      BY <1>a, <2>1, <2>2, <2>3, <2>c, StepKeeps DEF FamilySame, RecordsSame, MarksOnly
    <2>6. Statuses' BY <1>a, <2>1, <2>2, <2>3, StatusesKept DEF StatusesSame, RecordsSame
    <2> QED BY <2>4, <2>5, <2>6
  <1> QED BY <1>1, <1>2, <1>3, <1>4, <1>5, <1>6, <1>7, <1>8, <1>9, <1>10, <1>11, <1>12, <1>13, <1>14


\* process_wait: a record found on the caller's list is looked at from now on.
LEMMA FindKeeps ==
    ASSUME RecordsAssumption, IInv, NEW t \in Tid, NEW c, proc[t].at \in {"user", "wait_find"},
           Find(t, c)
    PROVE  IInv'
  <1> USE DEF IInv
  <1>1. UNCHANGED th /\ next_tid' = next_tid /\ crashed' = crashed /\ FamilySame
    BY DEF Find, FamilySame
  <1>a. /\ proc[t].at \in Calm /\ proc[t].at \notin LeaveAts
    BY DEF Calm, ExecAts, WaitAts, LeaveAts
  <1>2. CASE Return(t) /\ UNCHANGED rec
    <2>1. rec' \in [Tid -> Record] /\ RecordsSame /\ MarksOnly(t)
      BY <1>2 DEF TypeOK, RecordsSame, MarksOnly
    <2>2. /\ proc' \in [Tid -> Place] /\ OthersStay(t) /\ proc'[t].at = "user"
      <3>1. "user" \in Ats /\ NULL \in Tid \cup {NULL} BY DEF Ats
      <3> QED BY <1>2, <3>1, MoveAbout DEF Return, GotoAbout, TypeOK
    <2>3. proc'[t].at \in Calm /\ proc'[t].at \notin ExecAts \cup WaitAts
      BY <2>2 DEF Calm, ExecAts, WaitAts
    <2>4. TypeOK' BY <1>1, <2>1, <2>2 DEF TypeOK
    <2>5. (Stages /\ Apart /\ Listed /\ Pointers /\ ParentsLive)'
      BY <1>1, <1>a, <2>1, <2>2, <2>3, StepKeeps
    <2>6. Statuses' BY <1>1, <1>2, <2>2, StatusesKept DEF StatusesSame
    <2> QED BY <2>4, <2>5, <2>6
  <1>3. CASE ~(Return(t) /\ UNCHANGED rec)
    <2>1. /\ \E k \in DOMAIN th[t].children : th[t].children[k] = c
          /\ rec' = [rec EXCEPT ![c].is_parent_waiting = TRUE]
          /\ proc' = [proc EXCEPT ![t].at = "wait_test", ![t].arg = c]
      BY <1>3 DEF Find, GotoAbout
    <2>2. c \in Tid /\ Holds(t, c) BY <2>1, OnTid DEF On, Holds
    <2>3. /\ rec' \in [Tid -> Record] /\ RecordsSame /\ MarksOnly(t)
          /\ \A u \in Tid : rec'[u].exit_status = rec[u].exit_status
      BY <2>1, <2>2, Set_is_parent_waiting DEF TypeOK, RecordsSame, MarksOnly
    <2>4. /\ proc' \in [Tid -> Place] /\ OthersStay(t) /\ proc'[t].at = "wait_test"
          /\ proc'[t].arg = c
      <3>1. "wait_test" \in Ats BY DEF Ats, WaitAts
      <3> QED BY <2>1, <2>2, <3>1, MoveAbout DEF TypeOK
    <2>5. proc'[t].at \in Calm BY <2>4 DEF Calm, WaitAts
    <2>6. TypeOK' BY <1>1, <2>3, <2>4 DEF TypeOK
    <2>7. (Stages /\ Apart /\ Listed /\ Pointers /\ ParentsLive)'
      BY <1>1, <1>a, <2>2, <2>3, <2>4, <2>5, StepKeeps
    <2>8. Statuses' BY <1>1, <2>3, <2>4, StatusesKept DEF StatusesSame, RecordsSame
    <2> QED BY <2>6, <2>7, <2>8
  <1> QED BY <1>2, <1>3

\* process_exit: the record of an orphan is on no list when it is freed.
LEMMA ExitBeginKeeps ==
    ASSUME RecordsAssumption, IInv, NEW t \in Tid, ExitBegin(t)
    PROVE  IInv'
  <1> USE DEF IInv
  <1>1. /\ UNCHANGED th /\ next_tid' = next_tid /\ crashed' = crashed /\ FamilySame
        /\ proc[t].at = "exit" /\ proc[t].at \in Calm /\ proc[t].at \notin LeaveAts
    BY DEF ExitBegin, At, FamilySame, Calm, LeaveAts
  <1>2. CASE th[t].parent = NULL
    <2>1. /\ rec' \in [Tid -> Record]
          /\ \A u \in Tid : /\ u # t => rec'[u].mem = rec[u].mem
                            /\ rec'[u].is_thread_exited = rec[u].is_thread_exited
                            /\ rec'[u].exit_status = rec[u].exit_status
      BY <1>2, Set_mem DEF ExitBegin, TypeOK
    <2>2. /\ proc' \in [Tid -> Place] /\ OthersStay(t) /\ proc'[t].at = "release"
      <3>1. "release" \in Ats BY DEF Ats, GoneAts
      <3> QED BY <1>2, <3>1, MoveTo DEF ExitBegin, Goto, TypeOK
    <2>3. TypeOK' BY <1>1, <2>1, <2>2 DEF TypeOK
    <2>4. \A u \in Tid, k \in Nat : ~On(u, k, t)
      BY <1>1, <1>2, TidFacts DEF Listed, GoneAts
    <2>5. Stages'
      BY <1>1, <1>2, <2>1, <2>2 DEF Stages, OthersStay, LeaveAts, GoneAts
    <2>6. Apart'
      BY <1>1, <2>2 DEF Apart, On, OthersStay
    <2>7. Listed'
      BY <1>1, <2>1, <2>2, <2>4 DEF Listed, On, OthersStay, GoneAts
    <2>8. Pointers'
      BY <1>1, <2>2 DEF Pointers, On, OthersStay, ExecAts, WaitAts
    <2>9. ParentsLive'
      <3>1. \A u \in Tid : th[u].parent \in Tid \cup {NULL} BY DEF TypeOK, Thread
      <3> QED BY <1>1, <1>2, <2>2, <3>1 DEF ParentsLive, OthersStay
    <2>10. Statuses' BY <1>1, <2>1, <2>2, StatusesKept DEF StatusesSame
    <2> QED BY <2>3, <2>5, <2>6, <2>7, <2>8, <2>9, <2>10
  <1>3. CASE th[t].parent # NULL
    <2>1. /\ UNCHANGED rec /\ rec' \in [Tid -> Record] /\ MarksOnly(t)
      BY <1>3 DEF ExitBegin, TypeOK, MarksOnly
    <2>2. /\ proc' \in [Tid -> Place] /\ OthersStay(t) /\ proc'[t].at = "exit_flag"
      <3>1. "exit_flag" \in Ats BY DEF Ats, LeaveAts
      <3> QED BY <1>3, <3>1, MoveTo DEF ExitBegin, Goto, TypeOK
    <2>3. proc'[t].at \in LeaveAts /\ proc'[t].at \notin ExecAts \cup WaitAts
      BY <2>2 DEF LeaveAts, ExecAts, WaitAts
    <2>4. TypeOK' BY <1>1, <2>1, <2>2 DEF TypeOK
    <2>5. (Stages /\ Apart /\ Listed /\ Pointers /\ ParentsLive)'
      BY <1>1, <2>1, <2>2, <2>3, StepKeeps
    <2>6. Statuses' BY <1>1, <2>1, <2>2, StatusesKept DEF StatusesSame
    <2> QED BY <2>4, <2>5, <2>6
  <1> QED BY <1>2, <1>3

\* The pointer to the parent goes when the child has told it that it has left.
LEMMA ExitLeaveKeeps ==
    ASSUME RecordsAssumption, IInv, NEW t \in Tid, ExitLeave(t)
    PROVE  IInv'
  <1> USE DEF IInv
  <1>1. /\ UNCHANGED rec /\ next_tid' = next_tid /\ crashed' = crashed
        /\ proc[t].at = "exit_leave"
    BY DEF ExitLeave, At
  <1>2. /\ th' \in [Tid -> Thread] /\ th'[t].parent = NULL
        /\ \A u \in Tid : /\ th'[u].page = th[u].page /\ th'[u].children = th[u].children
                          /\ th'[u].given = th[u].given
                          /\ th'[u].exit_status = th[u].exit_status
                          /\ u # t => th'[u].parent = th[u].parent
    BY SetParent DEF ExitLeave, TypeOK
  <1>3. /\ proc' \in [Tid -> Place] /\ OthersStay(t) /\ proc'[t].at = "release"
    <2>1. "release" \in Ats BY DEF Ats, GoneAts
    <2> QED BY <2>1, MoveTo DEF ExitLeave, Goto, TypeOK
  <1>4. TypeOK' BY <1>1, <1>2, <1>3 DEF TypeOK
  <1>5. Stages' BY <1>1, <1>2, <1>3 DEF Stages, OthersStay, LeaveAts, GoneAts
  <1>6. Apart' BY <1>1, <1>2, <1>3 DEF Apart, On, OthersStay
  <1>7. Listed' BY <1>1, <1>2, <1>3 DEF Listed, On, OthersStay, GoneAts
  <1>8. Pointers' BY <1>1, <1>2, <1>3 DEF Pointers, On, OthersStay, ExecAts, WaitAts
  <1>9. ParentsLive'
    <2>1. \A u \in Tid : th[u].parent \in Tid \cup {NULL} BY DEF TypeOK, Thread
    <2> QED BY <1>1, <1>2, <1>3, <2>1 DEF ParentsLive, OthersStay
  <1>10. Statuses' BY <1>1, <1>2, <1>3, StatusesKept DEF StatusesSame
  <1> QED BY <1>4, <1>5, <1>6, <1>7, <1>8, <1>9, <1>10

\* thread_exit frees the page of a thread without children.
LEMMA DieKeeps ==
    ASSUME RecordsAssumption, IInv, NEW t \in Tid, Die(t)
    PROVE  IInv'
  <1> USE DEF IInv
  <1>1. /\ UNCHANGED rec /\ next_tid' = next_tid /\ crashed' = crashed
        /\ proc[t].at = "die" /\ th[t].children = <<>>
    BY DEF Die, At, Stages
  <1>2. /\ th' \in [Tid -> Thread] /\ th'[t].page = "freed"
        /\ \A u \in Tid : /\ th'[u].parent = th[u].parent /\ th'[u].children = th[u].children
                          /\ th'[u].given = th[u].given
                          /\ th'[u].exit_status = th[u].exit_status
                          /\ u # t => th'[u].page = th[u].page
    BY SetPage DEF Die, TypeOK
  <1>3. /\ proc' \in [Tid -> Place] /\ OthersStay(t) /\ proc'[t].at = "dead"
    <2>1. "dead" \in Ats BY DEF Ats, GoneAts
    <2> QED BY <2>1, MoveTo DEF Die, Goto, TypeOK
  <1>4. TypeOK' BY <1>1, <1>2, <1>3 DEF TypeOK
  <1>5. Stages' BY <1>1, <1>2, <1>3 DEF Stages, OthersStay, LeaveAts, GoneAts
  <1>6. Apart' BY <1>1, <1>2, <1>3 DEF Apart, On, OthersStay
  <1>7. Listed' BY <1>1, <1>2, <1>3 DEF Listed, On, OthersStay, GoneAts
  <1>8. Pointers' BY <1>1, <1>2, <1>3 DEF Pointers, On, OthersStay, ExecAts, WaitAts
  <1>9. ParentsLive'
    <2>1. \A u \in Tid : th[u].parent \in Tid \cup {NULL} BY DEF TypeOK, Thread
    <2> QED BY <1>1, <1>2, <1>3, <2>1 DEF ParentsLive, OthersStay
  <1>10. Statuses' BY <1>1, <1>2, <1>3, StatusesKept DEF StatusesSame
  <1> QED BY <1>4, <1>5, <1>6, <1>7, <1>8, <1>9, <1>10

\* The loop over the children goes on: only t's place changes.
LEMMA LoopKeeps ==
    ASSUME RecordsAssumption, IInv, NEW t \in Tid, NEW l \in {"die", "release"},
           proc[t].at \in {"release", "next"},
           l = "die" => th[t].children = <<>>,
           UNCHANGED <<th, rec, next_tid, crashed>>,
           proc' \in [Tid -> Place], OthersStay(t), proc'[t].at = l
    PROVE  IInv'
  <1> USE DEF IInv
  <1>1. TypeOK' BY DEF TypeOK
  <1>2. Stages' BY DEF Stages, OthersStay, LeaveAts, GoneAts
  <1>3. Apart' BY DEF Apart, On, OthersStay
  <1>4. Listed' BY DEF Listed, On, OthersStay, GoneAts
  <1>5. Pointers' BY DEF Pointers, On, OthersStay, ExecAts, WaitAts
  <1>6. ParentsLive'
    <2>1. \A u \in Tid : th[u].parent \in Tid \cup {NULL} BY DEF TypeOK, Thread
    <2> QED BY <2>1 DEF ParentsLive, OthersStay
  <1>7. Statuses' BY StatusesKept DEF StatusesSame
  <1> QED BY <1>1, <1>2, <1>3, <1>4, <1>5, <1>6, <1>7

\* The loop looks at the record of the orphan once more.
LEMMA ReleaseNextKeeps ==
    ASSUME RecordsAssumption, IInv, NEW t \in Tid, ReleaseNext(t), ~Crash
    PROVE  IInv'
  <1>1. "release" \in Ats /\ NULL \in Tid \cup {NULL} BY DEF Ats, GoneAts
  <1>2. proc' \in [Tid -> Place] /\ OthersStay(t) /\ proc'[t].at = "release"
    BY <1>1, MoveAbout DEF ReleaseNext, GotoAbout, IInv, TypeOK
  <1> QED BY <1>2, LoopKeeps DEF ReleaseNext, At

\* The child that became an orphan was on no list any more.
LEMMA OrphanKeeps ==
    ASSUME RecordsAssumption, IInv, NEW t \in Tid, Orphan(t), ~Crash
    PROVE  IInv'
  <1> USE DEF IInv
  <1> DEFINE c == proc[t].arg
  <1>1. /\ UNCHANGED rec /\ next_tid' = next_tid /\ crashed' = crashed
        /\ proc[t].at = "orphan" /\ c \in Tid
    BY DEF Orphan, At, Pointers
  <1>2. /\ th' \in [Tid -> Thread] /\ th'[c].parent = NULL
        /\ \A u \in Tid : /\ th'[u].page = th[u].page /\ th'[u].children = th[u].children
                          /\ th'[u].given = th[u].given
                          /\ th'[u].exit_status = th[u].exit_status
                          /\ u # c => th'[u].parent = th[u].parent
    <2>1. th' = [th EXCEPT ![c].parent = NULL] BY DEF Orphan
    <2> HIDE DEF c
    <2> QED BY <1>1, <2>1, SetParent DEF TypeOK
  <1>3. /\ proc' \in [Tid -> Place] /\ OthersStay(t) /\ proc'[t].at = "next"
        /\ proc'[t].arg = c
    <2>1. "next" \in Ats BY DEF Ats, GoneAts
    <2> QED BY <2>1, MoveTo DEF Orphan, Goto, TypeOK
  <1>4. \A u \in Tid, k \in Nat : ~On(u, k, c) BY <1>1 DEF Apart
  <1>5. c < next_tid BY <1>1 DEF Pointers
  <1> HIDE DEF c
  <1>6. TypeOK' BY <1>1, <1>2, <1>3 DEF TypeOK
  <1>7. Stages' BY <1>1, <1>2, <1>3 DEF Stages, OthersStay, LeaveAts, GoneAts
  <1>8. Apart' BY <1>1, <1>2, <1>3 DEF Apart, On, OthersStay
  <1>9. Listed'
    <2>1. \A u \in Tid : \A k, d : On(u, k, d)' <=> On(u, k, d) BY <1>2 DEF On
    <2> QED BY <1>1, <1>2, <1>3, <1>4, <2>1 DEF Listed, OthersStay, GoneAts
  <1>10. Pointers' BY <1>1, <1>2, <1>3, <1>5 DEF Pointers, On, OthersStay, ExecAts, WaitAts
  <1>11. ParentsLive'
    <2>1. \A u \in Tid : th[u].parent \in Tid \cup {NULL} BY DEF TypeOK, Thread
    <2>2. ASSUME NEW u \in Tid, u # c, proc[t].arg = u PROVE FALSE BY <2>2 DEF c
    <2> QED BY <1>1, <1>2, <1>3, <2>1, <2>2 DEF ParentsLive, OthersStay
  <1>12. Statuses' BY <1>1, <1>2, <1>3, StatusesKept DEF StatusesSame
  <1> QED BY <1>6, <1>7, <1>8, <1>9, <1>10, <1>11, <1>12

\* Taking the first element.
LEMMA TailOf ==
    ASSUME NEW s \in Seq(Tid), s # <<>>
    PROVE  /\ Head(s) \in Tid /\ Tail(s) \in Seq(Tid)
           /\ 1 \in DOMAIN s /\ s[1] = Head(s)
           /\ \A k \in DOMAIN Tail(s) : /\ k \in Nat /\ k >= 1 /\ k + 1 \in DOMAIN s
                                        /\ Tail(s)[k] = s[k + 1]
           /\ \A k \in DOMAIN s : /\ k \in Nat
                                  /\ k # 1 => k - 1 \in DOMAIN Tail(s) /\ Tail(s)[k - 1] = s[k]
OBVIOUS

\* Putting one in front.
LEMMA ConsOf ==
    ASSUME NEW s \in Seq(Tid), NEW c \in Tid
    PROVE  /\ <<c>> \o s \in Seq(Tid)
           /\ 1 \in DOMAIN (<<c>> \o s) /\ (<<c>> \o s)[1] = c
           /\ \A k \in DOMAIN (<<c>> \o s) :
                /\ k \in Nat
                /\ k # 1 => k - 1 \in DOMAIN s /\ s[k - 1] = (<<c>> \o s)[k]
           /\ \A k \in DOMAIN s : k + 1 \in DOMAIN (<<c>> \o s) /\ (<<c>> \o s)[k + 1] = s[k]
OBVIOUS

\* One turn of release_thread_resources.
LEMMA ReleaseChildKeeps ==
    ASSUME RecordsAssumption, IInv, NEW t \in Tid, ReleaseChild(t)
    PROVE  IInv'
  <1> USE DEF IInv
  <1>1. CASE th[t].children = <<>>
    <2>1. "die" \in Ats BY DEF Ats, GoneAts
    <2>2. proc' \in [Tid -> Place] /\ OthersStay(t) /\ proc'[t].at = "die"
      BY <1>1, <2>1, MoveTo DEF ReleaseChild, Goto, TypeOK
    <2> QED BY <1>1, <2>2, LoopKeeps DEF ReleaseChild, At
  <1>2. CASE th[t].children # <<>>
    <2> DEFINE cs == th[t].children
               c  == Head(cs)
               l  == IF rec[c].is_thread_exited THEN "next" ELSE "orphan"
    <2>1. /\ UNCHANGED rec /\ next_tid' = next_tid /\ crashed' = crashed
          /\ proc[t].at = "release"
          /\ th' = [th EXCEPT ![t].children = Tail(cs)]
          /\ proc' = [proc EXCEPT ![t].at = l, ![t].arg = c]
      BY <1>2, Fields DEF ReleaseChild, At, GotoAbout, Thread
    <2>2. cs \in Seq(Tid) BY Fields DEF Thread
    <2>3. l \in {"next", "orphan"} /\ l \in Ats /\ (l = "next" => rec[c].is_thread_exited)
      BY DEF Ats, GoneAts
    <2>4. c \in Tid /\ On(t, 1, c) BY <1>2, <2>2, TailOf DEF On
    <2>5. c < next_tid BY <2>4 DEF Listed
    <2> HIDE DEF l, c
    <2>6. /\ th' \in [Tid -> Thread] /\ th'[t].children = Tail(cs)
          /\ \A u \in Tid : /\ th'[u].page = th[u].page /\ th'[u].parent = th[u].parent
                            /\ th'[u].given = th[u].given
                            /\ th'[u].exit_status = th[u].exit_status
                            /\ u # t => th'[u].children = th[u].children
      <3>1. Tail(cs) \in Seq(Tid) BY <1>2, <2>2, TailOf
      <3> HIDE DEF cs
      <3> QED BY <2>1, <3>1, SetChildren DEF TypeOK
    <2>7. /\ proc' \in [Tid -> Place] /\ OthersStay(t) /\ proc'[t].at = l /\ proc'[t].arg = c
      BY <2>1, <2>3, <2>4, MoveAbout DEF TypeOK
    <2>8. \A k \in Nat, d \in Tid : On(t, k, d)' => k + 1 \in Nat /\ k + 1 # 1 /\ On(t, k + 1, d)
      BY <1>2, <2>2, <2>6, TailOf DEF On
    <2>9. \A u \in Tid \ {t} : \A k, d : On(u, k, d)' <=> On(u, k, d) BY <2>6 DEF On
    <2>10. \A k \in Nat, d \in Tid : On(t, k, d) /\ d # c => On(t, k - 1, d)' /\ k - 1 \in Nat
      BY <1>2, <2>2, <2>6, TailOf DEF On, c
    <2> HIDE DEF cs
    <2>11. TypeOK' BY <2>1, <2>6, <2>7 DEF TypeOK
    <2>12. Stages' BY <2>1, <2>3, <2>6, <2>7 DEF Stages, OthersStay, LeaveAts, GoneAts
    <2>13. Apart'
      <3>1. ASSUME NEW u \in Tid, NEW v \in Tid, NEW d \in Tid, NEW k \in Nat, NEW m \in Nat,
                   On(u, k, d)', On(v, m, d)'
            PROVE  u = v /\ k = m
        <4>1. CASE u = t /\ v = t
          <5>1. /\ k + 1 \in Nat /\ On(t, k + 1, d)
                /\ m + 1 \in Nat /\ On(t, m + 1, d)
            BY <2>8, <3>1, <4>1
          <5>2. k + 1 = m + 1 BY <5>1 DEF Apart
          <5> QED BY <4>1, <5>2
        <4>2. CASE u # t /\ v = t BY <3>1, <4>2, <2>8, <2>9 DEF Apart
        <4>3. CASE u = t /\ v # t BY <3>1, <4>3, <2>8, <2>9 DEF Apart
        <4>4. CASE u # t /\ v # t BY <3>1, <4>4, <2>9 DEF Apart
        <4> QED BY <4>1, <4>2, <4>3, <4>4
      <3>2. ASSUME NEW u \in Tid, NEW v \in Tid, NEW d \in Tid, NEW k \in Nat, On(u, k, d)'
            PROVE  ~(proc'[v].at = "orphan" /\ proc'[v].arg = d)
        <4>1. \E m \in Nat : On(u, m, d) /\ (u = t => m # 1) BY <3>2, <2>8, <2>9
        <4>2. d # c BY <4>1, <2>4 DEF Apart
        <4> QED BY <4>1, <4>2, <2>7 DEF Apart, OthersStay
      <3> QED BY <3>1, <3>2 DEF Apart
    <2>14. Listed'
      <3>1. \A u, d \in Tid, k \in Nat : On(u, k, d)' => \E m \in Nat : On(u, m, d)
        BY <2>8, <2>9
      <3>2. proc'[t].at \in GoneAts /\ proc'[t].at # "blocked" BY <2>3, <2>7 DEF GoneAts
      <3>3. proc[t].at \in GoneAts BY <2>1 DEF GoneAts
      <3> QED BY <2>1, <2>6, <2>7, <3>1, <3>2, <3>3 DEF Listed, OthersStay
    <2>15. Pointers'
      BY <2>1, <2>3, <2>4, <2>5, <2>7, <2>9 DEF Pointers, OthersStay, ExecAts, WaitAts
    <2>16. ParentsLive'
      <3> SUFFICES ASSUME NEW u \in Tid, th'[u].page = "live", th'[u].parent # NULL,
                          proc'[u].at \notin {"blocked", "exit_flag", "exit_status",
                                              "exit_signal", "exit_leave"}
                   PROVE  LET p == th'[u].parent
                          IN  /\ th'[p].page = "live"
                              /\ \/ \E k \in DOMAIN th'[p].children : th'[p].children[k] = u
                                 \/ proc'[p].at = "orphan" /\ proc'[p].arg = u
        BY DEF ParentsLive
      <3> DEFINE p == th[u].parent
      <3>1. p \in Tid /\ th'[u].parent = p BY <2>6 DEF TypeOK, Thread
      <3>2. /\ th[u].page = "live" /\ th[u].parent # NULL
            /\ proc[u].at \notin {"blocked", "exit_flag", "exit_status", "exit_signal",
                                   "exit_leave"}
        BY <2>1, <2>6, <2>7 DEF OthersStay
      <3>3. /\ th[p].page = "live"
            /\ \/ \E k \in DOMAIN th[p].children : th[p].children[k] = u
               \/ proc[p].at = "orphan" /\ proc[p].arg = u
        BY <3>2 DEF ParentsLive
      <3> HIDE DEF p
      <3>4. th'[p].page = "live" BY <2>6, <3>1, <3>3
      <3>5. CASE p # t BY <2>6, <2>7, <3>1, <3>3, <3>4, <3>5 DEF OthersStay
      <3>6. CASE p = t
        <4>1. \E k \in DOMAIN th[t].children : th[t].children[k] = u BY <2>1, <3>3, <3>6
        <4>2. PICK k \in Nat : On(t, k, u) BY <4>1, OnTid DEF On
        <4>3. CASE u # c
          <5>1. On(t, k - 1, u)' BY <2>10, <4>2, <4>3
          <5> QED BY <3>1, <3>4, <3>6, <5>1 DEF On
        <4>4. CASE u = c
          <5>1. l # "next"
            <6>1. SUFFICES ASSUME l = "next" PROVE FALSE OBVIOUS
            <6>2. proc[u].at \in GoneAts BY <2>3, <3>2, <4>4, <6>1 DEF Stages, LeaveAts
            <6> QED BY <3>2, <6>2 DEF Stages
          <5> QED BY <2>3, <2>7, <3>1, <3>4, <3>6, <4>4, <5>1
        <4> QED BY <4>3, <4>4
      <3> QED BY <3>5, <3>6
    <2>17. Statuses'
      BY <2>1, <2>3, <2>6, <2>7, StatusesKept DEF StatusesSame
    <2> QED BY <2>11, <2>12, <2>13, <2>14, <2>15, <2>16, <2>17
  <1> QED BY <1>1, <1>2

\* thread_create gives the new thread an unused identifier, and the caller its record.
LEMMA CreateKeeps ==
    ASSUME RecordsAssumption, IInv, NEW t \in Tid, NEW l \in {"exec_find", "wait_find"},
           proc[t].at = "user", Create(t, l)
    PROVE  IInv'
  <1> USE DEF IInv
  <1> DEFINE cs == th[t].children
  <1>0. PICK c : c = next_tid OBVIOUS
  <1>1. c \in Tid /\ c \in Nat /\ c <= MaxTid /\ c # Main
    BY <1>0 DEF Create, TypeOK, Tid, Main, RecordsAssumption
  <1>2. proc[c].at = "none" /\ c # t /\ l \in Ats /\ th[c].children = <<>>
    BY <1>0, <1>1, TidFacts DEF Stages, Ats, ExecAts, WaitAts
  <1>3. /\ th' = [th EXCEPT ![c] = NewThread("live", t), ![t].children = <<c>> \o cs]
        /\ rec' = [rec EXCEPT ![c] = NewRecord("live")]
        /\ proc' = [proc EXCEPT ![c].at = "load", ![t].at = l, ![t].arg = c]
        /\ next_tid' = next_tid + 1 /\ crashed' = crashed
    BY <1>0, <1>2, Fields DEF Create, Thread
  <1>4. cs \in Seq(Tid) BY Fields DEF Thread
  <1>5. \A k \in Nat, u \in Tid : ~On(u, k, c)
    <2>1. ~(c < next_tid) BY <1>0, <1>1
    <2> QED BY <1>1, <2>1 DEF Listed
  <1>6. \A u \in Tid : proc[u].at \in {"orphan", "next"} => proc[u].arg # c
    <2>1. ~(c < next_tid) BY <1>0, <1>1
    <2> QED BY <1>1, <2>1 DEF Pointers
  <1>7. next_tid' \in 3 .. MaxTid + 3 /\ c < next_tid'
        /\ \A u \in Tid : u < next_tid => u < next_tid'
    BY <1>0, <1>1, <1>3, TidFacts DEF TypeOK, RecordsAssumption
  <1>8. \A u \in Tid : u >= next_tid' => u >= next_tid /\ u # c
    BY <1>0, <1>1, <1>3, TidFacts
  <1>9. /\ th' \in [Tid -> Thread]
        /\ th'[c].page = "live" /\ th'[c].parent = t /\ th'[c].children = <<>>
        /\ th'[c].given = -1 /\ th'[c].exit_status = -1
        /\ \A u \in Tid \ {c} : /\ th'[u].page = th[u].page /\ th'[u].parent = th[u].parent
                                /\ th'[u].given = th[u].given
                                /\ th'[u].exit_status = th[u].exit_status
                                /\ u # t => th'[u].children = th[u].children
        /\ th'[t].children = <<c>> \o cs
    <2>1. NewThread("live", t) \in Thread BY DEF NewThread, Thread
    <2>2. <<c>> \o cs \in Seq(Tid) BY <1>1, <1>4, ConsOf
    <2> HIDE DEF cs
    <2> DEFINE th1 == [th EXCEPT ![c] = NewThread("live", t)]
    <2>3. th1 \in [Tid -> Thread] /\ th1[c] = NewThread("live", t)
          /\ \A u \in Tid \ {c} : th1[u] = th[u]
      BY <1>1, <2>1 DEF TypeOK
    <2>4. th' = [th1 EXCEPT ![t].children = <<c>> \o cs] BY <1>3
    <2> HIDE DEF th1
    <2>5. /\ DOMAIN th' = Tid /\ th'[t] = [th1[t] EXCEPT !.children = <<c>> \o cs]
          /\ \A u \in Tid \ {t} : th'[u] = th1[u]
      BY <2>3, <2>4
    <2>6. /\ th'[t] \in Thread /\ th'[t].children = <<c>> \o cs
          /\ th'[t].page = th[t].page /\ th'[t].parent = th[t].parent
          /\ th'[t].given = th[t].given /\ th'[t].exit_status = th[t].exit_status
      <3>1. th1[t] \in Thread /\ th1[t] = th[t] BY <1>1, <1>2, <2>3
      <3> QED BY <2>2, <2>5, <3>1 DEF Thread
    <2>7. th' \in [Tid -> Thread]
      <3>1. \A u \in Tid : th'[u] \in Thread BY <2>3, <2>5, <2>6
      <3>2. th' = [u \in Tid |-> th'[u]] BY <2>4, <2>3
      <3> QED BY <3>1, <3>2
    <2>8. th'[c] = NewThread("live", t) BY <1>1, <1>2, <2>3, <2>5
    <2>9. \A u \in Tid \ {c, t} : th'[u] = th[u] BY <2>3, <2>5
    <2> QED BY <1>1, <1>2, <2>6, <2>7, <2>8, <2>9 DEF NewThread
  <1>10. /\ rec' \in [Tid -> Record]
         /\ rec'[c].mem = "live" /\ rec'[c].exit_status = -1 /\ rec'[c].is_thread_exited = FALSE
         /\ \A u \in Tid \ {c} : rec'[u] = rec[u]
    <2>1. NewRecord("live") \in Record BY DEF NewRecord, Record
    <2> QED BY <1>1, <1>3, <2>1 DEF TypeOK, NewRecord
  <1>11. /\ proc' \in [Tid -> Place]
         /\ proc'[c].at = "load" /\ proc'[t].at = l /\ proc'[t].arg = c
         /\ \A u \in Tid \ {c, t} : proc'[u] = proc[u]
    <2>1. "load" \in Ats BY DEF Ats
    <2>2. /\ DOMAIN proc' = Tid /\ proc'[c] = [proc[c] EXCEPT !.at = "load"]
          /\ proc'[t] = [proc[t] EXCEPT !.at = l, !.arg = c]
          /\ \A u \in Tid \ {c, t} : proc'[u] = proc[u]
      BY <1>1, <1>2, <1>3, Fields
    <2>3. /\ proc'[c] \in Place /\ proc'[c].at = "load"
          /\ proc'[t] \in Place /\ proc'[t].at = l /\ proc'[t].arg = c
      BY <1>1, <1>2, <2>1, <2>2, Fields DEF Place
    <2>4. proc' \in [Tid -> Place]
      <3>1. \A u \in Tid : proc'[u] \in Place BY <2>2, <2>3, Fields
      <3>2. proc' = [u \in Tid |-> proc'[u]] BY <1>3, Fields
      <3> QED BY <3>1, <3>2
    <2> QED BY <2>2, <2>3, <2>4
  <1>12. TypeOK' BY <1>3, <1>7, <1>9, <1>10, <1>11 DEF TypeOK
  <1>13. \A u \in Tid \ {t} : \A k, d : On(u, k, d)' <=> On(u, k, d)
    BY <1>2, <1>9 DEF On
  <1>14. \A k \in Nat, d \in Tid : On(t, k, d)' =>
           \/ k = 1 /\ d = c
           \/ k # 1 /\ k - 1 \in Nat /\ On(t, k - 1, d)
    BY <1>1, <1>4, <1>9, ConsOf DEF On
  <1>15. On(t, 1, c)' BY <1>1, <1>4, <1>9, ConsOf DEF On
  <1>16. \A k \in Nat, d \in Tid : On(t, k, d) => On(t, k + 1, d)'
    BY <1>1, <1>4, <1>9, ConsOf DEF On
  <1> HIDE DEF cs
  <1>17. Stages'
    <2>1. ASSUME NEW u \in Tid
          PROVE  /\ u >= next_tid' => proc'[u].at = "none"
                 /\ th'[u].page = "none" <=> proc'[u].at = "none"
                 /\ th'[u].page = "freed" <=> proc'[u].at = "dead"
                 /\ proc'[u].at \in GoneAts => th'[u].parent = NULL
                 /\ proc'[u].at \in {"die", "dead", "none"} => th'[u].children = <<>>
                 /\ rec'[u].is_thread_exited => proc'[u].at \in LeaveAts \cup GoneAts
      <3>1. CASE u = c BY <1>7, <1>8, <1>9, <1>10, <1>11, <3>1 DEF LeaveAts, GoneAts
      <3>2. CASE u = t
        <4>1. t \in Int /\ next_tid \in Int BY TidFacts DEF TypeOK
        <4>2. th[t].page \in {"none", "live", "freed"} BY Fields DEF Thread
        <4>3. t < next_tid /\ th[t].page = "live" BY <4>1, <4>2 DEF Stages
        <4> QED BY <1>2, <1>8, <1>9, <1>10, <1>11, <3>2, <4>1, <4>3 DEF Stages, LeaveAts, GoneAts
      <3>3. CASE u \notin {c, t} BY <1>8, <1>9, <1>10, <1>11, <3>3 DEF Stages
      <3> QED BY <3>1, <3>2, <3>3
    <2> QED BY <2>1 DEF Stages
  <1>18. Apart'
    <2>1. ASSUME NEW u \in Tid, NEW v \in Tid, NEW d \in Tid, NEW k \in Nat, NEW m \in Nat,
                 On(u, k, d)', On(v, m, d)'
          PROVE  u = v /\ k = m
      <3>1. CASE d = c BY <1>5, <1>13, <1>14, <2>1, <3>1
      <3>2. CASE d # c
        <4>1. CASE u = t /\ v = t
          <5>1. /\ k - 1 \in Nat /\ On(t, k - 1, d)
                /\ m - 1 \in Nat /\ On(t, m - 1, d)
            BY <1>14, <2>1, <3>2, <4>1
          <5>2. k - 1 = m - 1 BY <5>1 DEF Apart
          <5> QED BY <4>1, <5>2
        <4>2. CASE u # t /\ v = t
          <5>1. On(u, k, d) /\ \E j \in Nat : On(t, j, d) BY <1>13, <1>14, <2>1, <3>2, <4>2
          <5> QED BY <4>2, <5>1 DEF Apart
        <4>3. CASE u = t /\ v # t
          <5>1. On(v, m, d) /\ \E j \in Nat : On(t, j, d) BY <1>13, <1>14, <2>1, <3>2, <4>3
          <5> QED BY <4>3, <5>1 DEF Apart
        <4>4. CASE u # t /\ v # t BY <1>13, <2>1, <4>4 DEF Apart
        <4> QED BY <4>1, <4>2, <4>3, <4>4
      <3> QED BY <3>1, <3>2
    <2>2. ASSUME NEW u \in Tid, NEW v \in Tid, NEW d \in Tid, NEW k \in Nat, On(u, k, d)',
                 proc'[v].at = "orphan", proc'[v].arg = d
          PROVE  FALSE
      <3>1. v \notin {c, t} BY <1>11, <2>2
      <3>2. proc[v].at = "orphan" /\ proc[v].arg = d BY <1>11, <2>2, <3>1
      <3>3. d # c BY <1>6, <3>2
      <3>4. \E m \in Nat : On(u, m, d) BY <1>13, <1>14, <2>2, <3>3
      <3> QED BY <3>2, <3>4 DEF Apart
    <2> QED BY <2>1, <2>2 DEF Apart
  <1>19. Listed'
    <2>1. ASSUME NEW u \in Tid, NEW d \in Tid, NEW k \in Nat, On(u, k, d)'
          PROVE  /\ d < next_tid'
                 /\ proc'[d].at # "blocked" /\ rec'[d].mem = "live"
                 /\ proc'[d].at \notin GoneAts => th'[d].parent = u
      <3>1. CASE d = c
        <4>1. u = t BY <1>5, <1>13, <2>1, <3>1
        <4> QED BY <1>7, <1>9, <1>10, <1>11, <3>1, <4>1
      <3>2. CASE d # c
        <4>1. \E m \in Nat : On(u, m, d) BY <1>13, <1>14, <2>1, <3>2
        <4>2. /\ d < next_tid /\ proc[d].at # "blocked" /\ rec[d].mem = "live"
              /\ proc[d].at \notin GoneAts => th[d].parent = u
          BY <4>1 DEF Listed
        <4>3. proc'[d].at = proc[d].at \/ (d = t /\ proc'[d].at \notin GoneAts \cup {"blocked"})
          BY <1>11, <3>2 DEF GoneAts
        <4>4. d = t => proc[d].at \notin GoneAts BY DEF GoneAts
        <4> QED BY <1>7, <1>9, <1>10, <3>2, <4>2, <4>3, <4>4
      <3> QED BY <3>1, <3>2
    <2> QED BY <2>1 DEF Listed
  <1>20. Pointers'
    <2>1. ASSUME NEW u \in Tid
          PROVE  /\ proc'[u].at \in ExecAts \cup WaitAts => \E k \in Nat : On(u, k, proc[u].arg)'
                 /\ proc'[u].at \in {"orphan", "next"} =>
                       proc'[u].arg \in Tid /\ proc'[u].arg < next_tid'
      <3>1. CASE u = c BY <1>11, <3>1 DEF ExecAts, WaitAts
      <3>2. CASE u = t BY <1>11, <1>15, <3>2 DEF On, ExecAts, WaitAts
      <3>3. CASE u \notin {c, t}
        <4>1. proc'[u] = proc[u] BY <1>11, <3>3
        <4>2. th'[u].children = th[u].children BY <1>9, <3>3
        <4> QED BY <1>7, <4>1, <4>2 DEF Pointers, On
      <3> QED BY <3>1, <3>2, <3>3
    <2> QED BY <2>1 DEF Pointers
  <1>21. ParentsLive'
    <2> SUFFICES ASSUME NEW u \in Tid, th'[u].page = "live", th'[u].parent # NULL,
                        proc'[u].at \notin {"blocked", "exit_flag", "exit_status",
                                            "exit_signal", "exit_leave"}
                 PROVE  LET p == th'[u].parent
                        IN  /\ th'[p].page = "live"
                            /\ \/ \E k \in DOMAIN th'[p].children : th'[p].children[k] = u
                               \/ proc'[p].at = "orphan" /\ proc'[p].arg = u
      BY DEF ParentsLive
    <2>1. th[t].page = "live" BY DEF Stages, TypeOK, Thread
    <2>2. CASE u = c BY <1>2, <1>9, <1>15, <2>1, <2>2 DEF On
    <2>3. CASE u # c
      <3> DEFINE p == th[u].parent
      <3>1. p \in Tid /\ th'[u].parent = p BY <1>9, <2>3 DEF TypeOK, Thread
      <3>2. proc[u].at \notin {"blocked", "exit_flag", "exit_status", "exit_signal",
                               "exit_leave"}
        BY <1>11, <2>3
      <3>3. /\ th[p].page = "live"
            /\ \/ \E k \in DOMAIN th[p].children : th[p].children[k] = u
               \/ proc[p].at = "orphan" /\ proc[p].arg = u
        BY <1>9, <2>3, <3>2 DEF ParentsLive
      <3> HIDE DEF p
      <3>4. p # c BY <1>2, <3>3 DEF Stages
      <3>5. th'[p].page = "live" BY <1>9, <3>1, <3>3, <3>4
      <3>6. CASE p # t BY <1>9, <1>11, <3>1, <3>3, <3>4, <3>5, <3>6
      <3>7. CASE p = t
        <4>1. \E k \in DOMAIN th[t].children : th[t].children[k] = u BY <3>3, <3>7
        <4>2. PICK k \in Nat : On(t, k, u) BY <4>1, OnTid DEF On
        <4>3. On(t, k + 1, u)' BY <1>16, <4>2
        <4> QED BY <3>1, <3>5, <3>7, <4>3 DEF On
      <3> QED BY <3>6, <3>7
    <2> QED BY <2>2, <2>3
  <1>22. Statuses'
    <2>1. ASSUME NEW u \in Tid, proc[u].at = "wait_ret" PROVE proc[u].arg \in Tid /\ proc[u].arg # c
      BY <1>5, <2>1, OnTid DEF Pointers, WaitAts
    <2> QED BY <1>2, <1>9, <1>10, <1>11, <2>1 DEF Statuses
  <1> QED BY <1>12, <1>17, <1>18, <1>19, <1>20, <1>21, <1>22

\* Without memory for the record, the new thread stays blocked, on no list.
LEMMA ExecNoRecordKeeps ==
    ASSUME RecordsAssumption, IInv, NEW t \in Tid, ExecNoRecord(t)
    PROVE  IInv'
  <1> USE DEF IInv
  <1>0. PICK c : c = next_tid OBVIOUS
  <1>1. c \in Tid /\ c \in Nat /\ c <= MaxTid /\ proc[t].at = "user"
    BY <1>0 DEF ExecNoRecord, At, TypeOK, Tid, RecordsAssumption
  <1>2. proc[c].at = "none" /\ c # t /\ th[c].page = "none" /\ th[c].children = <<>>
    BY <1>0, <1>1, TidFacts DEF Stages
  <1>3. /\ th' = [th EXCEPT ![c] = NewThread("live", t)]
        /\ proc' = [proc EXCEPT ![c].at = "blocked", ![t].at = "exit"]
        /\ next_tid' = c + 1 /\ UNCHANGED <<rec, crashed>>
    BY <1>0 DEF ExecNoRecord
  <1>4. /\ next_tid' \in 3 .. MaxTid + 3
        /\ \A u \in Tid : u < next_tid => u < next_tid'
        /\ \A u \in Tid : u >= next_tid' => u >= next_tid /\ u # c
    BY <1>0, <1>1, <1>3, TidFacts DEF TypeOK, RecordsAssumption
  <1>5. \A k \in Nat, u \in Tid : ~On(u, k, c)
    <2>1. ~(c < next_tid) BY <1>0, <1>1
    <2> QED BY <1>1, <2>1 DEF Listed
  <1>6. /\ th' \in [Tid -> Thread] /\ th'[c] = NewThread("live", t)
        /\ \A u \in Tid \ {c} : th'[u] = th[u]
    <2>1. NewThread("live", t) \in Thread BY DEF NewThread, Thread
    <2> QED BY <1>1, <1>3, <2>1 DEF TypeOK
  <1>7. /\ proc' \in [Tid -> Place]
        /\ proc'[c].at = "blocked" /\ proc'[t].at = "exit"
        /\ \A u \in Tid : /\ u \notin {c, t} => proc'[u].at = proc[u].at
                          /\ proc'[u].arg = proc[u].arg
    <2>1. {"blocked", "exit"} \subseteq Ats BY DEF Ats
    <2>2. /\ DOMAIN proc' = Tid /\ proc'[c] = [proc[c] EXCEPT !.at = "blocked"]
          /\ proc'[t] = [proc[t] EXCEPT !.at = "exit"]
          /\ \A u \in Tid \ {c, t} : proc'[u] = proc[u]
      BY <1>1, <1>2, <1>3, Fields
    <2>3. /\ proc'[c] \in Place /\ proc'[c].at = "blocked" /\ proc'[c].arg = proc[c].arg
          /\ proc'[t] \in Place /\ proc'[t].at = "exit" /\ proc'[t].arg = proc[t].arg
      BY <1>1, <1>2, <2>1, <2>2, Fields DEF Place
    <2>4. proc' \in [Tid -> Place]
      <3>1. \A u \in Tid : proc'[u] \in Place BY <2>2, <2>3, Fields
      <3>2. proc' = [u \in Tid |-> proc'[u]] BY <1>3, Fields
      <3> QED BY <3>1, <3>2
    <2> QED BY <2>2, <2>3, <2>4
  <1>8. TypeOK' BY <1>3, <1>4, <1>6, <1>7 DEF TypeOK
  <1>9. \A u \in Tid : \A k, d : On(u, k, d)' <=> On(u, k, d)
    BY <1>1, <1>2, <1>6 DEF On, NewThread
  <1>10. Stages'
    <2>1. ASSUME NEW u \in Tid
          PROVE  /\ u >= next_tid' => proc'[u].at = "none"
                 /\ th'[u].page = "none" <=> proc'[u].at = "none"
                 /\ th'[u].page = "freed" <=> proc'[u].at = "dead"
                 /\ proc'[u].at \in GoneAts => th'[u].parent = NULL
                 /\ proc'[u].at \in {"die", "dead", "none"} => th'[u].children = <<>>
                 /\ rec'[u].is_thread_exited => proc'[u].at \in LeaveAts \cup GoneAts
      <3>1. CASE u = c
        <4>1. ~rec[c].is_thread_exited BY <1>1, <1>2 DEF Stages, LeaveAts, GoneAts
        <4> QED BY <1>3, <1>4, <1>6, <1>7, <3>1, <4>1 DEF NewThread, GoneAts
      <3>2. CASE u = t
        <4>1. t \in Int /\ next_tid \in Int BY TidFacts DEF TypeOK
        <4>2. th[t].page \in {"none", "live", "freed"} BY Fields DEF Thread
        <4>3. t < next_tid /\ th[t].page = "live" BY <1>1, <4>1, <4>2 DEF Stages
        <4>4. ~rec[t].is_thread_exited BY <1>1 DEF Stages, LeaveAts, GoneAts
        <4> QED BY <1>2, <1>3, <1>4, <1>6, <1>7, <3>2, <4>1, <4>3, <4>4 DEF GoneAts
      <3>3. CASE u \notin {c, t} BY <1>3, <1>4, <1>6, <1>7, <3>3 DEF Stages
      <3> QED BY <3>1, <3>2, <3>3
    <2> QED BY <2>1 DEF Stages
  <1>11. Apart'
    <2>1. \A u \in Tid : proc'[u].at = "orphan" => proc[u].at = "orphan" BY <1>7
    <2> QED BY <1>7, <1>9, <2>1 DEF Apart
  <1>12. Listed'
    <2>1. ASSUME NEW u \in Tid, NEW d \in Tid, NEW k \in Nat, On(u, k, d)
          PROVE  /\ d < next_tid'
                 /\ proc'[d].at # "blocked" /\ rec'[d].mem = "live"
                 /\ proc'[d].at \notin GoneAts => th'[d].parent = u
      <3>1. d # c BY <1>5, <2>1
      <3>2. /\ d < next_tid /\ proc[d].at # "blocked" /\ rec[d].mem = "live"
            /\ proc[d].at \notin GoneAts => th[d].parent = u
        BY <2>1 DEF Listed
      <3>3. d = t => proc[d].at \notin GoneAts BY <1>1 DEF GoneAts
      <3> QED BY <1>3, <1>4, <1>6, <1>7, <3>1, <3>2, <3>3
    <2> QED BY <1>9, <2>1 DEF Listed
  <1>13. Pointers'
    <2>1. ASSUME NEW u \in Tid
          PROVE  /\ proc'[u].at \in ExecAts \cup WaitAts => \E k \in Nat : On(u, k, proc[u].arg)
                 /\ proc'[u].at \in {"orphan", "next"} =>
                       proc[u].arg \in Tid /\ proc[u].arg < next_tid'
      <3>1. CASE u \in {c, t} BY <1>7, <3>1 DEF ExecAts, WaitAts
      <3>2. CASE u \notin {c, t} BY <1>4, <1>7, <3>2 DEF Pointers
      <3> QED BY <3>1, <3>2
    <2>2. ASSUME NEW u \in Tid
          PROVE  /\ proc'[u].at \in ExecAts \cup WaitAts => \E k \in Nat : On(u, k, proc[u].arg)'
                 /\ proc'[u].at \in {"orphan", "next"} =>
                       proc'[u].arg \in Tid /\ proc'[u].arg < next_tid'
      <3>1. \A k : On(u, k, proc[u].arg) <=> On(u, k, proc[u].arg)'
        BY <1>1, <1>2, <1>6, <1>7 DEF On, NewThread
      <3> QED BY <1>7, <2>1, <3>1
    <2> QED BY <2>2 DEF Pointers
  <1>14. ParentsLive'
    <2>1. th[t].page = "live" BY <1>1 DEF Stages, TypeOK, Thread
    <2>2. \A u \in Tid : th[u].parent \in Tid \cup {NULL} BY DEF TypeOK, Thread
    <2> SUFFICES ASSUME NEW u \in Tid, th'[u].page = "live", th'[u].parent # NULL,
                        proc'[u].at \notin {"blocked", "exit_flag", "exit_status",
                                            "exit_signal", "exit_leave"}
                 PROVE  LET p == th'[u].parent
                        IN  /\ th'[p].page = "live"
                            /\ \/ \E k \in DOMAIN th'[p].children : th'[p].children[k] = u
                               \/ proc'[p].at = "orphan" /\ proc'[p].arg = u
      BY DEF ParentsLive
    <2> DEFINE p == th[u].parent
    <2>3. u # c /\ th'[u] = th[u] BY <1>6, <1>7
    <2>4. proc[u].at \notin {"blocked", "exit_flag", "exit_status", "exit_signal", "exit_leave"}
      BY <1>1, <1>7, <2>3
    <2>5. /\ p \in Tid /\ th[p].page = "live"
          /\ \/ \E k \in DOMAIN th[p].children : th[p].children[k] = u
             \/ proc[p].at = "orphan" /\ proc[p].arg = u
      BY <2>2, <2>3, <2>4 DEF ParentsLive
    <2> HIDE DEF p
    <2>6. th'[p] = th[p] /\ p # c BY <1>2, <1>6, <2>5
    <2>7. p = t => proc[p].at # "orphan" BY <1>1
    <2>8. /\ th'[p].page = "live"
          /\ \/ \E k \in DOMAIN th'[p].children : th'[p].children[k] = u
             \/ proc'[p].at = "orphan" /\ proc'[p].arg = u
      BY <1>7, <2>5, <2>6, <2>7
    <2> QED BY <2>3, <2>8 DEF p
  <1>15. Statuses'
    <2>1. ASSUME NEW u \in Tid, proc[u].at = "wait_ret" PROVE proc[u].arg \in Tid
      BY <2>1, OnTid DEF Pointers, WaitAts
    <2>2. th[c].given = -1 /\ rec[c].exit_status = -1 BY <1>1, <1>2 DEF Statuses
    <2> QED BY <1>1, <1>2, <1>3, <1>6, <1>7, <2>1, <2>2 DEF Statuses, NewThread
  <1> QED BY <1>8, <1>10, <1>11, <1>12, <1>13, <1>14, <1>15

\* A crash of the kernel changes nothing else.
LEMMA CrashKeeps == ASSUME IInv, Crash PROVE IInv'
BY DEF Crash, IInv, TypeOK, Stages, Apart, On, Listed, Pointers, Statuses, ParentsLive

\* initial_thread is alone in the first state.
LEMMA InitIInv == ASSUME RecordsAssumption, Init PROVE IInv
  <1> USE TidFacts DEF Init, NewThread, NewRecord
  <1>1. TypeOK
    <2>1. th \in [Tid -> Thread] BY DEF Thread
    <2>2. rec \in [Tid -> Record] BY DEF Record
    <2>3. proc \in [Tid -> Place] BY DEF Place, Ats
    <2>4. next_tid \in 3 .. MaxTid + 3 BY DEF RecordsAssumption
    <2> QED BY <2>1, <2>2, <2>3, <2>4 DEF TypeOK
  <1>2. Stages
    <2>1. ~(Main >= 3) BY DEF Main
    <2> QED BY <2>1 DEF Stages, LeaveAts, GoneAts
  <1>3. \A t \in Tid : \A k, c : ~On(t, k, c) BY DEF On
  <1>4. Apart /\ Listed BY <1>3 DEF Apart, Listed
  <1>5. Pointers BY DEF Pointers, ExecAts, WaitAts
  <1>6. Statuses BY DEF Statuses
  <1>7. ParentsLive BY DEF ParentsLive
  <1> QED BY <1>1, <1>2, <1>4, <1>5, <1>6, <1>7 DEF IInv

\* Every step keeps the invariant.
LEMMA NextKeeps == ASSUME RecordsAssumption, IInv, [Next]_crVars PROVE IInv'
  <1>1. CASE Crash BY <1>1, CrashKeeps
  <1>2. CASE RunTask
    BY <1>2, TidFacts, CreateKeeps DEF RunTask, At
  <1>3. CASE RunTaskWait
    BY <1>3, TidFacts, FindKeeps DEF RunTaskWait, At
  <1>4. CASE MainExits BY <1>4, CrashKeeps DEF MainExits
  <1>5. ASSUME NEW t \in Tid, UserStep(t) PROVE IInv'
    <2>1. CASE Exec(t) BY <2>1, CreateKeeps DEF Exec, At
    <2>2. CASE ExecNoPage(t)
      <3>1. proc[t].at \in Calm /\ -1 \in {-1, 0} BY <2>2 DEF ExecNoPage, At, Calm
      <3> QED BY <2>2, <3>1, ExitThreadKeeps DEF ExecNoPage
    <2>3. CASE ExecNoRecord(t) BY <2>3, ExecNoRecordKeeps
    <2>4. CASE Exit(t)
      <3>1. proc[t].at \in Calm BY <2>4 DEF Exit, At, Calm
      <3> QED BY <2>4, <3>1, ExitThreadKeeps DEF Exit
    <2>5. ASSUME NEW c \in Tid, Wait(t, c) PROVE IInv' BY <2>5, FindKeeps DEF Wait, At
    <2> QED BY <1>5, <2>1, <2>2, <2>3, <2>4, <2>5 DEF UserStep
  <1>6. ASSUME NEW t \in Tid, KernelStep(t), ~Crash PROVE IInv'
    <2>1. CASE ExitBegin(t) BY <2>1, ExitBeginKeeps
    <2>2. CASE ExitLeave(t) BY <2>2, ExitLeaveKeeps
    <2>3. CASE ReleaseChild(t) BY <2>3, ReleaseChildKeeps
    <2>4. CASE Orphan(t) BY <1>6, <2>4, OrphanKeeps
    <2>5. CASE ReleaseNext(t) BY <1>6, <2>5, ReleaseNextKeeps
    <2>6. CASE Die(t) BY <2>6, DieKeeps
    <2> QED BY <1>6, <2>1, <2>2, <2>3, <2>4, <2>5, <2>6, KernelKeeps DEF KernelStep
  <1>7. CASE UNCHANGED crVars
    BY <1>7 DEF crVars, IInv, TypeOK, Stages, Apart, On, Listed, Pointers, Statuses, ParentsLive
  <1> QED BY <1>1, <1>2, <1>3, <1>4, <1>5, <1>6, <1>7 DEF Next

-----------------------------------------------------------------------------
(* The theorems.                                                          *)

\* The inductive invariant holds in every reachable state, for any number of processes.
THEOREM Invariance == ASSUME RecordsAssumption PROVE Spec => []IInv
  <1>1. Init => IInv BY InitIInv
  <1>2. IInv /\ [Next]_crVars => IInv' BY NextKeeps
  <1> QED BY <1>1, <1>2, PTL DEF Spec

\* process_wait returns what the child gave to exit_thread, no struct _child is freed
\* while a process can reach it, and a process's parent is live and can find it, in
\* every order of the steps of parents and children.
THEOREM RecordsSoundHolds == ASSUME RecordsAssumption PROVE Spec => []RecordsSound
  <1>1. IInv => RecordsSound
    <2> SUFFICES ASSUME IInv PROVE RecordsSound OBVIOUS
    <2> USE DEF IInv
    <2>1. \A t \in Tid : proc[t].at \in ExecAts \cup WaitAts => proc[t].arg \in Tid
      BY OnTid DEF Pointers
    <2>2. StatusRight BY <2>1 DEF Statuses, StatusRight, WaitAts
    <2>3. RecordsKept
      <3>1. ASSUME NEW t \in Tid, NEW k \in DOMAIN th[t].children
            PROVE  rec[th[t].children[k]].mem = "live"
        <4>1. On(t, k, th[t].children[k]) BY DEF On
        <4>2. th[t].children[k] \in Tid /\ k \in Nat BY <4>1, OnTid
        <4> QED BY <4>1, <4>2 DEF Listed
      <3>2. \A t \in Tid : proc[t].at \in ExecAts \cup WaitAts => rec[proc[t].arg].mem = "live"
        BY <2>1 DEF Pointers, Listed
      <3> QED BY <3>1, <3>2 DEF RecordsKept, ExecAts, WaitAts
    <2> QED BY <2>2, <2>3 DEF RecordsSound
  <1> QED BY <1>1, Invariance, PTL
=============================================================================
