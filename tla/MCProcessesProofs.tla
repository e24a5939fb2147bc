------------------------- MODULE MCProcessesProofs --------------------------
(***************************************************************************)
(* The theorem of ChildRecordsProofs about the system that TLC runs, in    *)
(* which project 2 is beside project 3 and its variables have other names. *)
(***************************************************************************)
EXTENDS MCProcesses, TLAPS

Proved == INSTANCE ChildRecordsProofs
          WITH MaxTid <- RecordsMaxTid, next_tid <- cr_next_tid, crashed <- cr_crashed

\* Records and Proved are the same instance of ChildRecords under two names:
\* expanded, their definitions are the same formulas.
LEMMA SameInstance ==
  /\ Records!RecordsAssumption => Proved!RecordsAssumption
  /\ Records!Init => Proved!Init
  /\ Records!Next => Proved!Next
  /\ Records!crVars = Proved!crVars
  /\ Proved!RecordsSound => Records!RecordsSound
BY DEF
       Records!Main, Records!Tid, Records!RecordsAssumption, Records!crVars,
       Records!NewThread, Records!NewRecord, Records!Init, Records!At,
       Records!Goto, Records!GotoAbout, Records!Return, Records!Crash,
       Records!Create, Records!Exec, Records!RunTask, Records!ExitThread,
       Records!Exit, Records!ExecNoPage, Records!ExecNoRecord,
       Records!ExecFind, Records!ExecState, Records!ExecTest,
       Records!ExecEnqueue, Records!ExecWake, Records!LoadProcess,
       Records!Signalled, Records!LoadSignal, Records!Find, Records!Wait,
       Records!RunTaskWait, Records!WaitTest, Records!WaitEnqueue,
       Records!WaitWake, Records!WaitReturn, Records!ExitBegin,
       Records!MainExits, Records!ExitFlag, Records!ExitStatus,
       Records!ExitSignal, Records!ExitLeave, Records!ReleaseChild,
       Records!Orphan, Records!ReleaseNext, Records!Die, Records!UserStep,
       Records!KernelStep, Records!Next, Records!StatusRight,
       Records!RecordsKept, Records!ParentsLive, Records!RecordsSound,
       Proved!Main, Proved!Tid, Proved!RecordsAssumption, Proved!crVars,
       Proved!NewThread, Proved!NewRecord, Proved!Init, Proved!At,
       Proved!Goto, Proved!GotoAbout, Proved!Return, Proved!Crash,
       Proved!Create, Proved!Exec, Proved!RunTask, Proved!ExitThread,
       Proved!Exit, Proved!ExecNoPage, Proved!ExecNoRecord, Proved!ExecFind,
       Proved!ExecState, Proved!ExecTest, Proved!ExecEnqueue,
       Proved!ExecWake, Proved!LoadProcess, Proved!Signalled,
       Proved!LoadSignal, Proved!Find, Proved!Wait, Proved!RunTaskWait,
       Proved!WaitTest, Proved!WaitEnqueue, Proved!WaitWake,
       Proved!WaitReturn, Proved!ExitBegin, Proved!MainExits,
       Proved!ExitFlag, Proved!ExitStatus, Proved!ExitSignal,
       Proved!ExitLeave, Proved!ReleaseChild, Proved!Orphan,
       Proved!ReleaseNext, Proved!Die, Proved!UserStep, Proved!KernelStep,
       Proved!Next, Proved!StatusRight, Proved!RecordsKept,
       Proved!ParentsLive, Proved!RecordsSound

\* In project 2, beside project 3 and for any number of processes, wait returns
\* the child's status, no record is freed that a process can still reach, and
\* parents outlive their children's use of them.
THEOREM RecordsSoundHere == MCSpec => []RecordsSound
<1>1. MCInit => Proved!Init
  BY SameInstance DEF MCInit
<1>2. [MCNext]_MCVars => [Proved!Next]_(Proved!crVars)
  <2>1. UNCHANGED recordVars => UNCHANGED Proved!crVars
    BY DEF recordVars, Proved!crVars
  <2> QED
    BY <2>1, SameInstance DEF MCNext, MCVars
<1>3. Proved!Spec => []Proved!RecordsSound
  BY MCAssumption, SameInstance, Proved!RecordsSoundHolds
<1>4. Proved!RecordsSound => RecordsSound
  BY SameInstance DEF RecordsSound
<1>. QED
  BY <1>1, <1>2, <1>3, <1>4, PTL DEF MCSpec, Proved!Spec
=============================================================================
