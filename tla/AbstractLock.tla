---------------------------- MODULE AbstractLock ----------------------------
(***************************************************************************)
(* What the locks of threads/synch.h promise: each has at most one owner,  *)
(* and it is acquired only when it is free, so that an owner gives it up   *)
(* before anybody comes in after it.                                       *)
(***************************************************************************)
CONSTANTS Thread, Lock, NULL
VARIABLE owner

Init == owner = [l \in Lock |-> NULL]

Acquire(t, l) == owner[l] = NULL /\ owner' = [owner EXCEPT ![l] = t]
Release(l)    == owner[l] # NULL /\ owner' = [owner EXCEPT ![l] = NULL]

Next == \E l \in Lock : Release(l) \/ \E t \in Thread : Acquire(t, l)
Spec == Init /\ [][Next]_owner
=============================================================================
