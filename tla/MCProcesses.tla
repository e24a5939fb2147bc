---------------------------- MODULE MCProcesses -----------------------------
(***************************************************************************)
(* The two kernels' processes side by side: a behaviour is one of project  *)
(* 3 (ProcessLifecycle) or one of project 2 (ChildRecords).                *)
(***************************************************************************)
EXTENDS ProcessLifecycle

CONSTANT RecordsMaxTid   \* MaxTid of ChildRecords

VARIABLES project, th, rec, proc, cr_next_tid, cr_crashed

Records == INSTANCE ChildRecords WITH MaxTid <- RecordsMaxTid, next_tid <- cr_next_tid, crashed <- cr_crashed

ASSUME MCAssumption == Records!RecordsAssumption

recordVars == <<th, rec, proc, cr_next_tid, cr_crashed>>
MCVars == <<vars, project, recordVars>>

MCInit == project \in {2, 3} /\ Init /\ Records!Init

MCNext == /\ UNCHANGED project
          /\ \/ project = 3 /\ Next /\ UNCHANGED recordVars
             \/ project = 2 /\ Records!Next /\ UNCHANGED vars

MCSpec == MCInit /\ [][MCNext]_MCVars

\* As in ChildRecords: in project 2, wait returns the child's status
\* whatever the order of the child's last steps, no record is freed while a
\* process can still reach it, and parents outlive their children's use of them.
RecordsSound == Records!RecordsSound
=============================================================================
