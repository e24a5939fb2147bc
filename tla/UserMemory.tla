----------------------------- MODULE UserMemory -----------------------------
(***************************************************************************)
(* What virtual memory promises to the processes of Pintos: a page that is *)
(* part of an address space holds the value last stored in it, until the   *)
(* process gives the page up.  There are no frames, no swap and no disk;   *)
(* of the kernel there is only its control state, because user code runs,  *)
(* and stores, exactly when that does not move.                            *)
(***************************************************************************)
CONSTANTS Page, Value, Unmapped

VARIABLES
    mem,      \* mem[p]: contents of page p, or Unmapped
    kernel    \* control state of the kernel's threads

Init == mem = [p \in Page |-> Unmapped]

Contents == Value \cup {Unmapped}

\* The kernel may do anything that leaves every page as it is.
Work == UNCHANGED mem

\* Loading a program, growing the stack or mapping a file adds pages.
Map ==
    /\ mem' \in [Page -> Contents]
    /\ \A p \in Page : mem'[p] # mem[p] => mem[p] = Unmapped

\* Unmapping a file or exiting takes pages away.
Unmap ==
    /\ mem' \in [Page -> Contents]
    /\ \A p \in Page : mem'[p] # mem[p] => mem'[p] = Unmapped

\* A store by user code.
Store ==
    /\ \E p \in Page, v \in Value :
          mem[p] # Unmapped /\ mem' = [mem EXCEPT ![p] = v]
    /\ UNCHANGED kernel

Next == Work \/ Map \/ Unmap \/ Store

Spec == Init /\ [][Next]_<<mem, kernel>>
=============================================================================
