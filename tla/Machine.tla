------------------------------ MODULE Machine -------------------------------
(***************************************************************************)
(* The parts of the kernel around the machine, side by side: a behaviour   *)
(* is about one of them and leaves the others as they began.               *)
(***************************************************************************)
EXTENDS StartUp, PageDirectory, Disk, UserCalls, Keyboard, Timer

VARIABLE part

machineVars == <<part, suVars, pdVars, drVars, ucVars, kbVars, tmVars>>
Parts == {"startup", "pagedir", "disk", "calls", "keyboard", "timer"}

\* The machines that differ when they start, only if the behaviour is about them.
MachineInit ==
    /\ IF part = "startup" THEN StartUpInit ELSE StartsWith([table |-> <<>>, options |-> <<>>, archive |-> <<>>], <<>>)
    /\ DiskInit /\ (part # "disk" => \A d \in Dev : ~drive[d].kind.present)
    /\ UserCallsInit /\ (part # "calls" => Range(umap) = {0} /\ ramCells[2] = 2 /\ ramCells[3] = 0)
    /\ PdInit /\ KeyboardInit /\ TimerInit

MachineNext ==
    /\ UNCHANGED part
    /\ \/ /\ part = "startup" /\ StartUpNext
          /\ UNCHANGED <<pdVars, drVars, ucVars, kbVars, tmVars>>
       \/ /\ part = "pagedir" /\ PdNext
          /\ UNCHANGED <<suVars, drVars, ucVars, kbVars, tmVars>>
       \/ /\ part = "disk" /\ DiskNext
          /\ UNCHANGED <<suVars, pdVars, ucVars, kbVars, tmVars>>
       \/ /\ part = "calls" /\ UserCallsNext
          /\ UNCHANGED <<suVars, pdVars, drVars, kbVars, tmVars>>
       \/ /\ part = "keyboard" /\ KeyboardNext
          /\ UNCHANGED <<suVars, pdVars, drVars, ucVars, tmVars>>
       \/ /\ part = "timer" /\ TimerNext
          /\ UNCHANGED <<suVars, pdVars, drVars, ucVars, kbVars>>
=============================================================================
