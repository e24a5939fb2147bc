-------------------------- MODULE MCVirtualMemory --------------------------
(***************************************************************************)
(* Small instances of VirtualMemory for TLC: two processes, of which the   *)
(* first has the pages under study and the second competes with it for     *)
(* frames, swap slots and locks.                                           *)
(***************************************************************************)
EXTENDS VirtualMemory, TLC

CONSTANTS t1, t2, stack1, stack2, data1, mmap1, grow2

MCThread == {t1, t2}
MCOwner  == stack1 :> t1 @@ data1 :> t1 @@ mmap1 :> t1
            @@ stack2 :> t2 @@ grow2 :> t2
MCKind   == stack1 :> "stack" @@ data1 :> "data" @@ mmap1 :> "mmap"
            @@ stack2 :> "stack" @@ grow2 :> "grow"
OwnerOn(S) == [p \in S |-> MCOwner[p]]
KindOn(S)  == [p \in S |-> MCKind[p]]

\* A page of the executable that the process writes to.
DataPages == {stack1, data1, stack2}
DataOwner == OwnerOn(DataPages)
DataKind  == KindOn(DataPages)

\* A memory-mapped file.
MmapPages == {stack1, mmap1, stack2}
MmapOwner == OwnerOn(MmapPages)
MmapKind  == KindOn(MmapPages)

\* Stack growth.
GrowPages == {stack1, stack2, grow2}
GrowOwner == OwnerOn(GrowPages)
GrowKind  == KindOn(GrowPages)
=============================================================================
