------------------------ MODULE VirtualMemoryProofs ------------------------
(***************************************************************************)
(* Proofs about VirtualMemory, for any number of processes, pages, frames  *)
(* and swap slots: type correctness, isolation of the address spaces,      *)
(* ownership of frames and of swap slots, and that no ASSERT fails; that   *)
(* munmap writes back; and, while page_out works, that the processes see   *)
(* UserMemory and that no thread waits for a frame lock it holds.          *)
(***************************************************************************)
EXTENDS VirtualMemory, TLAPS

\* Labels at which a thread executes an operation on cur_pg.
WorkPcs  == Pcs \ {"none", "user", "exit"}
\* Labels at which its page has no frame.
AllocPcs == {"alloc", "scan", "clock", "retry", "take"}

\* The loop counter of try_frame_alloc_and_lock is zero outside its loops.
CountInv == \A t \in Thread :
    /\ pc[t] \notin {"scan", "clock"} => len[t] = 0
    /\ pc[t] = "scan" => len[t] <= NFrames

\* A thread at a label of HeldPcs has its frame locked.
LockInv == \A t \in Thread :
    pc[t] \in HeldPcs => cur_fr[t] \in Frame /\ frm_lock[cur_fr[t]] = t

\* What an operation is about: a page of the process, which stays in its hash
\* table until the operation frees it.
WorkInv == \A t \in Thread :
    /\ pc[t] \in WorkPcs =>
          /\ cur_pg[t] \in PagesOf(t) /\ pg_live[cur_pg[t]]
          /\ op[t] # "none"
    /\ pc[t] \notin WorkPcs => op[t] = "none"
    /\ op[t] = "destroy" => pc[t] \in {"lcf", "lcf_acq", "free", "free_none"}
    /\ op[t] = "munmap" =>
          /\ Kind[cur_pg[t]] = "mmap"
          /\ pc[t] \in OutPcs \cup {"lcf", "lcf_acq", "free", "free_none"}
    /\ op[t] = "setup_stack" => pc[t] \in OutPcs \cup AllocPcs
    /\ pc[t] \in {"free", "free_none"} => op[t] \in {"munmap", "destroy"}

\* The pages of a thread without a process are free.
NoneInv == \A p \in Page : pc[Owner[p]] = "none" => ~pg_live[p]

\* Pages point at frames that point back; a frame whose page does not is in
\* the hands of a thread that is about to change or clear its page.
FrameInv ==
    /\ \A p \in Page : pg_frame[p] # NULL =>
          pg_live[p] /\ frm_page[pg_frame[p]] = p
    /\ \A f \in Frame : frm_page[f] # NULL /\ pg_frame[frm_page[f]] # f =>
          \E t \in Thread : pc[t] \in {"take", "free"} /\ cur_fr[t] = f

\* The frame a thread works on, label by label.
PhaseInv == \A t \in Thread :
    /\ pc[t] \in OutPcs => /\ out_pg[t] \in Page
                           /\ pg_frame[out_pg[t]] = cur_fr[t]
                           /\ op[t] = "munmap" => out_pg[t] = cur_pg[t]
                           /\ op[t] # "munmap" => pg_frame[cur_pg[t]] = NULL
    /\ pc[t] \in AllocPcs \cup {"free_none"} => pg_frame[cur_pg[t]] = NULL
    /\ pc[t] = "take" => \A p \in Page : pg_frame[p] # cur_fr[t]
    /\ pc[t] \in FillPcs => pg_frame[cur_pg[t]] = cur_fr[t]
    /\ pc[t] = "free" => /\ frm_page[cur_fr[t]] = cur_pg[t]
                         /\ pg_frame[cur_pg[t]] \in {cur_fr[t], NULL}
    /\ pc[t] = "lcf_acq" => /\ cur_fr[t] \in Frame
                            /\ pg_frame[cur_pg[t]] \in {cur_fr[t], NULL}

\* A mapping that may be removed is backed by its file.
BackInv == \A p \in Page :
    pg_live[p] /\ Kind[p] = "mmap" => pg_back[p] = "shared"

\* Page table entries lead to the page's frame, and are absent while an
\* operation is about to take the frame away or to map it.
PteInv ==
    /\ \A p \in Page :
          pte[p] # NULL /\ ~Dying(Owner[p]) => pg_frame[p] = pte[p]
    /\ \A t \in Thread :
          /\ pc[t] \in {"out_dirty", "out_done"} => pte[out_pg[t]] = NULL
          /\ pc[t] = "free" /\ op[t] = "munmap" => pte[cur_pg[t]] = NULL
          /\ pc[t] \in FillPcs \ {"pinned"} => pte[cur_pg[t]] = NULL
          /\ op[t] = "page_in" => pte[cur_pg[t]] = NULL

\* A thread that keeps a frame locked while it works on no frame is exiting,
\* and will meet that lock again.
LeakInv == \A f \in Frame, t \in Thread :
    frm_lock[f] = t =>
        \/ pc[t] \in HeldPcs /\ cur_fr[t] = f
        \/ Dying(t) /\ \E p \in PagesOf(t) : pg_frame[p] = f

SlotInv ==
    /\ SlotOwnership
    /\ \A t \in Thread : pc[t] \in {"swap_reset", "swap_clear"} =>
          pg_swap[cur_pg[t]] # NULL

IInv ==
    /\ TypeOK /\ CountInv /\ LockInv /\ WorkInv /\ NoneInv /\ FrameInv
    /\ PhaseInv /\ BackInv /\ PteInv /\ LeakInv /\ SlotInv

-----------------------------------------------------------------------------
(***************************************************************************)
(* Facts about the helpers of VirtualMemory.                               *)
(***************************************************************************)

\* NULL, the code's null pointer, is none of the things pointers lead to.
LEMMA NullFacts ==
    /\ NULL \notin Thread /\ NULL \notin Page
    /\ NULL \notin Frame /\ NULL \notin Slot
BY ConstantsAssumption

\* Every page is in the address space of some thread's process.
LEMMA OwnerType == \A p \in Page : Owner[p] \in Thread
BY ConstantsAssumption

\* Leaving an operation of the kernel resets well-typed locals.
LEMMA ReturnType ==
    ASSUME LocalTypeOK, NEW t \in Thread, NEW l \in Pcs, Return(t, l)
    PROVE  LocalTypeOK'
<1>1. 0 \in 0 .. Tries
    BY ConstantsAssumption
<1>2. "none" \in Ops
    BY DEF Ops
<1>3. QED
    BY <1>1, <1>2 DEF LocalTypeOK, Return, Goto

\* The counters of try_frame_alloc_and_lock and frame_allocate and the hand
\* of the clock stay in range when they advance.
LEMMA CounterTypes ==
    ASSUME TypeOK, CountInv, NEW t \in Thread
    PROVE  /\ 0 \in Frame /\ 0 \in 0 .. 2 * NFrames
           /\ len[t] \in Nat /\ f_hand \in Nat /\ try[t] \in Nat
           /\ pc[t] = "scan" /\ len[t] # NFrames =>
                 /\ len[t] \in Frame /\ len[t] + 1 \in 0 .. 2 * NFrames
                 /\ len[t] + 1 <= NFrames
           /\ len[t] < 2 * NFrames => len[t] + 1 \in 0 .. 2 * NFrames
           /\ ~(f_hand + 1 >= NFrames) => f_hand + 1 \in Frame
           /\ try[t] + 1 < Tries => try[t] + 1 \in 0 .. Tries
<1>1. /\ len[t] \in 0 .. 2 * NFrames
      /\ f_hand \in Frame
      /\ try[t] \in 0 .. Tries
    BY DEF TypeOK, SharedTypeOK, LocalTypeOK
<1>2. NFrames \in Nat /\ NFrames > 0 /\ Tries \in Nat
    BY ConstantsAssumption
<1>3. pc[t] = "scan" => len[t] <= NFrames
    BY DEF CountInv
<1>4. QED
    BY <1>1, <1>2, <1>3 DEF Frame

\* A thread at work has a page of its own, and its frame if it has one.
LEMMA AtWork ==
    ASSUME LockInv, WorkInv, NEW t \in Thread
    PROVE  /\ pc[t] \in WorkPcs => /\ cur_pg[t] \in Page
                                   /\ Owner[cur_pg[t]] = t
                                   /\ pg_live[cur_pg[t]]
           /\ pc[t] \in HeldPcs => /\ cur_fr[t] \in Frame
                                   /\ frm_lock[cur_fr[t]] = t
BY DEF LockInv, WorkInv, PagesOf

\* Where lock_curr_pg_frame's callers go on.
LEMMA AfterLockLabels ==
    ASSUME TypeOK, WorkInv, BackInv, NEW t \in Thread,
           pc[t] \in {"lcf", "lcf_acq"}, NEW f
    PROVE  /\ op[t] \in {"page_in", "lock_page", "munmap", "destroy"}
           /\ f = NULL => AfterLock(op[t], cur_pg[t], f) =
                 IF op[t] \in {"page_in", "lock_page"} THEN "alloc"
                 ELSE "free_none"
           /\ f # NULL => AfterLock(op[t], cur_pg[t], f) =
                 IF op[t] = "page_in" THEN "map"
                 ELSE IF op[t] = "lock_page" THEN "pinned"
                 ELSE IF op[t] = "munmap" THEN "out_clear" ELSE "free"
<1>1. op[t] \in {"page_in", "lock_page", "munmap", "destroy"}
    BY DEF WorkInv, WorkPcs, Pcs, HeldPcs, OutPcs, FillPcs, AllocPcs, TypeOK,
           LocalTypeOK, Ops
<1>2. op[t] = "munmap" => pg_back[cur_pg[t]] = "shared"
    BY DEF WorkInv, BackInv, WorkPcs, Pcs, HeldPcs, OutPcs, FillPcs, PagesOf
<1>3. QED
    BY <1>1, <1>2 DEF AfterLock

\* The fields of the struct pages after allocation_of_page.
LEMMA NewPagesFacts ==
    ASSUME NEW S, NewPages(S)
    PROVE  \A q \in Page :
              /\ pg_live'[q] <=> q \in S \/ pg_live[q]
              /\ pg_frame'[q] = IF q \in S THEN NULL ELSE pg_frame[q]
              /\ pg_swap'[q] = IF q \in S THEN NULL ELSE pg_swap[q]
              /\ pg_back'[q] = IF q \in S THEN BackingOf(q) ELSE pg_back[q]
BY DEF NewPages

\* page_for_addr allocates at most the page of the address, as stack growth.
LEMMA PageForAddrFacts ==
    ASSUME NEW t \in Thread, NEW p \in Page, PageForAddr(t, p)
    PROVE  /\ Owner[p] = t
           /\ pg_live'[p] /\ (pg_live[p] \/ Kind[p] = "grow")
           /\ \A q \in Page :
                 LET new == q = p /\ ~pg_live[p]
                 IN  /\ pg_live'[q] <=> q = p \/ pg_live[q]
                     /\ pg_frame'[q] = IF new THEN NULL ELSE pg_frame[q]
                     /\ pg_swap'[q] = IF new THEN NULL ELSE pg_swap[q]
                     /\ pg_back'[q] = IF new THEN BackingOf(q) ELSE pg_back[q]
BY NewPagesFacts DEF PageForAddr, PagesOf

\* The search for a free frame keeps the locals well typed.
LEMMA ScanLocal ==
    ASSUME TypeOK, CountInv, NEW t \in Thread, Scan(t)
    PROVE  LocalTypeOK'
<1> DEFINE free == frm_lock[len[t]] = NULL /\ frm_page[len[t]] = NULL
<1> USE DEF Scan, At, TypeOK, LocalTypeOK, Pcs, Goto
<1>1. CASE len[t] = NFrames
    BY <1>1, CounterTypes
<1>2. CASE len[t] # NFrames /\ free
    BY <1>2, CounterTypes DEF LockFrame, HeldPcs
<1>3. CASE len[t] # NFrames /\ ~free
    BY <1>3, CounterTypes
<1>4. QED
    BY <1>1, <1>2, <1>3

\* So does the clock.
LEMMA ClockLocal ==
    ASSUME TypeOK, CountInv, NEW t \in Thread, Clock(t)
    PROVE  LocalTypeOK'
<1> USE DEF At, TypeOK, LocalTypeOK, SharedTypeOK
<1>1. ASSUME LockFrame(t, f_hand, "take"), UNCHANGED out_pg
      PROVE  LocalTypeOK'
    BY <1>1, CounterTypes DEF Clock, Pcs, Goto, LockFrame, HeldPcs
<1>2. ASSUME LockFrame(t, f_hand, "out_clear"), frm_page[f_hand] # NULL,
             out_pg' = [out_pg EXCEPT ![t] = frm_page[f_hand]]
      PROVE  LocalTypeOK'
    BY <1>2, CounterTypes DEF Clock, Pcs, Goto, LockFrame, HeldPcs, OutPcs
<1>3. ASSUME len' = [len EXCEPT ![t] = @ + 1],
             UNCHANGED <<frm_lock, cur_fr, out_pg, s_lock, pc>>
      PROVE  LocalTypeOK'
    BY <1>3, CounterTypes DEF Clock
<1>4. QED
    BY <1>1, <1>2, <1>3 DEF Clock

\* The clock keeps the shared state well typed too.
LEMMA ClockShared ==
    ASSUME TypeOK, CountInv, NEW t \in Thread, Clock(t)
    PROVE  SharedTypeOK'
<1> USE DEF At, TypeOK, SharedTypeOK
<1>1. f_hand' \in Frame
    BY CounterTypes DEF Clock, NextHand
<1>2. pte_a' \in [Page -> BOOLEAN]
    BY DEF Clock
<1>3. /\ frm_lock' \in [Frame -> Thread \cup {NULL}]
      /\ s_lock' \in Thread \cup {NULL}
    BY DEF Clock, LockFrame
<1>4. QED
    BY <1>1, <1>2, <1>3 DEF Clock, pgVars, diskVars

-----------------------------------------------------------------------------
\* Every operation keeps the shared state well typed: the clock hand stays
\* within the frames, a slot taken is a slot of the bitmap.
LEMMA SharedTypeStep ==
    ASSUME TypeOK, CountInv, LockInv, WorkInv,
           NEW t \in Thread, UserStep(t) \/ KernelStep(t)
    PROVE  SharedTypeOK'
<1> USE DEF At, vars, sharedVars, localVars, pgVars, pteVars, diskVars,
            SharedTypeOK, TypeOK, Pcs, HeldPcs, OutPcs, FillPcs, WorkPcs
<1>1. ASSUME NEW p \in Page, Start(t, p) PROVE SharedTypeOK'
    BY <1>1 DEF Start, NewPages, PagesOf, BackingOf, Begin, Goto
<1>2. ASSUME NEW p \in Page, Load(t, p) PROVE SharedTypeOK'
    BY <1>2 DEF Load, PagesOf
<1>3. ASSUME NEW p \in Page, NEW v \in Value, Store(t, p, v) PROVE SharedTypeOK'
    BY <1>3, ConstantsAssumption DEF Store, PagesOf
<1>4. ASSUME NEW p \in Page, PageFault(t, p) PROVE SharedTypeOK'
    BY <1>4
    DEF PageFault, PageForAddr, NewPages, PagesOf, BackingOf, Begin, Goto
<1>5. CASE Exit(t)
    BY <1>5 DEF Exit, Goto
<1>6. CASE KernelFault(t)
    BY <1>6 DEF KernelFault, Goto
<1>7. ASSUME NEW p \in Page, Mmap(t, p) PROVE SharedTypeOK'
    BY <1>7 DEF Mmap, NewPages, PagesOf, BackingOf
<1>8. ASSUME NEW p \in Page, Munmap(t, p) PROVE SharedTypeOK'
    BY <1>8 DEF Munmap, PagesOf, Begin, Goto
<1>9. ASSUME NEW p \in Page, LockThisPage(t, p) PROVE SharedTypeOK'
    BY <1>9
    DEF LockThisPage, PageForAddr, NewPages, PagesOf, BackingOf, Begin, Goto
<1>10. ASSUME NEW p \in Page, DestroyNext(t, p) PROVE SharedTypeOK'
    BY <1>10 DEF DestroyNext, PagesOf, Begin, Goto
<1>11. CASE Exited(t)
    BY <1>11 DEF Exited, PagesOf, Goto
<1>12. CASE ReadFrame(t)
    BY <1>12 DEF ReadFrame, Locked, AfterLock, Goto
<1>13. CASE AcquireFrame(t)
  <2>1. CASE pg_frame[cur_pg[t]] = cur_fr[t]
      BY <1>13, <2>1 DEF AcquireFrame, Locked, AfterLock, Goto
  <2>2. CASE pg_frame[cur_pg[t]] # cur_fr[t]
      BY <1>13, <2>2 DEF AcquireFrame, Locked, AfterLock, Goto
  <2>3. QED
      BY <2>1, <2>2
<1>14. CASE AcquireSLock(t)
    BY <1>14 DEF AcquireSLock, Goto
<1>15. CASE Scan(t)
  <2>1. CASE len[t] = NFrames
      BY <1>15, <2>1, CounterTypes DEF Scan, LockFrame, Goto
  <2>2. CASE len[t] # NFrames
              /\ frm_lock[len[t]] = NULL /\ frm_page[len[t]] = NULL
      BY <1>15, <2>2, CounterTypes DEF Scan, LockFrame, Goto
  <2>3. CASE len[t] # NFrames
              /\ ~(frm_lock[len[t]] = NULL /\ frm_page[len[t]] = NULL)
      BY <1>15, <2>3, CounterTypes DEF Scan, LockFrame, Goto
  <2>4. QED
      BY <2>1, <2>2, <2>3
<1>16. CASE Clock(t)
    BY <1>16, ClockShared
<1>17. CASE ClockFails(t)
    BY <1>17 DEF ClockFails, Goto
<1>18. CASE Retry(t)
    BY <1>18 DEF Retry, Goto
<1>19. CASE TakeFrame(t)
  <2>1. CASE op[t] = "setup_stack"
      BY <1>19, <2>1, AtWork DEF TakeFrame, Unlock, Goto
  <2>2. CASE op[t] # "setup_stack"
      BY <1>19, <2>2, AtWork DEF TakeFrame, Unlock, Goto
  <2>3. QED
      BY <2>1, <2>2
<1>20. CASE OutClear(t)
    BY <1>20 DEF OutClear, Goto
<1>21. CASE OutClean(t)
    BY <1>21 DEF OutClean, OutSucceeds, Goto
<1>22. CASE OutWrite(t)
  <2>1. CASE out_pg[t] \in DenyWrite
      BY <1>22, <2>1, AtWork DEF OutWrite, OutFails, OutSucceeds, Unlock, Goto
  <2>2. CASE out_pg[t] \notin DenyWrite
      BY <1>22, <2>2, AtWork DEF OutWrite, OutFails, OutSucceeds, Unlock, Goto
  <2>3. QED
      BY <2>1, <2>2
<1>23. CASE OutSwap(t)
  <2>1. CASE Slot \subseteq sw_bitmap
      BY <1>23, <2>1, AtWork
      DEF OutSwap, FlipSlot, OutFails, OutSucceeds, Unlock, Goto
  <2>2. CASE ~(Slot \subseteq sw_bitmap)
      BY <1>23, <2>2, AtWork
      DEF OutSwap, FlipSlot, OutFails, OutSucceeds, Unlock, Goto
  <2>3. QED
      BY <2>1, <2>2
<1>24. CASE OutDone(t)
    BY <1>24 DEF OutDone, Goto
<1>25. CASE LoadPage(t)
    BY <1>25, ConstantsAssumption, AtWork DEF LoadPage, FilledWith, Goto
<1>26. CASE SwapReset(t)
    BY <1>26 DEF SwapReset, Goto
<1>27. CASE SwapClear(t)
    BY <1>27 DEF SwapClear, Goto
<1>28. CASE MapPage(t)
  <2>1. CASE op[t] = "lock_page"
      BY <1>28, <2>1, AtWork DEF MapPage, Unlock, Goto
  <2>2. CASE op[t] # "lock_page"
      BY <1>28, <2>2, AtWork DEF MapPage, Unlock, Goto
  <2>3. QED
      BY <2>1, <2>2
<1>29. CASE MapFails(t)
    BY <1>29 DEF MapFails, Unlock, Goto
<1>30. CASE CopyString(t)
  <2>1. CASE pte[cur_pg[t]] # NULL
      BY <1>30, <2>1, AtWork DEF CopyString, Unlock, Goto
  <2>2. CASE pte[cur_pg[t]] = NULL
      BY <1>30, <2>2, AtWork DEF CopyString, Unlock, Goto
  <2>3. QED
      BY <2>1, <2>2
<1>31. CASE FreePage(t)
  <2>1. CASE pc[t] = "free"
      BY <1>31, <2>1, AtWork DEF FreePage, ReleaseFrame, Unlock, Goto
  <2>2. CASE pc[t] # "free"
      BY <1>31, <2>2, AtWork DEF FreePage, ReleaseFrame, Unlock, Goto
  <2>3. QED
      BY <2>1, <2>2
<1>32. QED
    BY <1>1, <1>2, <1>3, <1>4, <1>5, <1>6, <1>7, <1>8, <1>9, <1>10, <1>11,
        <1>12, <1>13, <1>14, <1>15, <1>16, <1>17, <1>18, <1>19, <1>20, <1>21,
        <1>22, <1>23, <1>24, <1>25, <1>26, <1>27, <1>28, <1>29, <1>30, <1>31
    DEF UserStep, KernelStep

\* Every operation keeps the threads' locals well typed.
LEMMA LocalTypeStep ==
    ASSUME TypeOK, CountInv, LockInv, WorkInv,
           NEW t \in Thread, UserStep(t) \/ KernelStep(t)
    PROVE  LocalTypeOK'
<1> USE DEF At, vars, sharedVars, localVars, pgVars, pteVars, diskVars,
            TypeOK, LocalTypeOK, Pcs, HeldPcs, OutPcs, FillPcs, WorkPcs, Ops
<1>1. ASSUME NEW p \in Page, Start(t, p) PROVE LocalTypeOK'
    BY <1>1, ReturnType, AtWork, ConstantsAssumption
    DEF Start, NewPages, PagesOf, BackingOf, Begin, Goto
<1>2. ASSUME NEW p \in Page, Load(t, p) PROVE LocalTypeOK'
    BY <1>2, ReturnType, AtWork DEF Load, PagesOf
<1>3. ASSUME NEW p \in Page, NEW v \in Value, Store(t, p, v) PROVE LocalTypeOK'
    BY <1>3, ReturnType, AtWork DEF Store, PagesOf
<1>4. ASSUME NEW p \in Page, PageFault(t, p) PROVE LocalTypeOK'
    BY <1>4, ReturnType, AtWork
    DEF PageFault, PageForAddr, NewPages, PagesOf, BackingOf, Begin, Goto
<1>5. CASE Exit(t)
    BY <1>5, ReturnType, AtWork DEF Exit, Goto
<1>6. CASE KernelFault(t)
    BY <1>6, ReturnType, AtWork DEF KernelFault, Goto
<1>7. ASSUME NEW p \in Page, Mmap(t, p) PROVE LocalTypeOK'
    BY <1>7, ReturnType, AtWork DEF Mmap, NewPages, PagesOf, BackingOf
<1>8. ASSUME NEW p \in Page, Munmap(t, p) PROVE LocalTypeOK'
    BY <1>8, ReturnType, AtWork DEF Munmap, PagesOf, Begin, Goto
<1>9. ASSUME NEW p \in Page, LockThisPage(t, p) PROVE LocalTypeOK'
    BY <1>9, ReturnType, AtWork
    DEF LockThisPage, PageForAddr, NewPages, PagesOf, BackingOf, Begin, Goto
<1>10. ASSUME NEW p \in Page, DestroyNext(t, p) PROVE LocalTypeOK'
    BY <1>10, ReturnType, AtWork DEF DestroyNext, PagesOf, Begin, Goto
<1>11. CASE Exited(t)
    BY <1>11, ReturnType, AtWork DEF Exited, PagesOf, Goto
<1>12. CASE ReadFrame(t)
    BY <1>12, ReturnType, AtWork, SMTT(40)
    DEF ReadFrame, Locked, AfterLock, Goto, SharedTypeOK
<1>13. CASE AcquireFrame(t)
    BY <1>13, ReturnType, AtWork DEF AcquireFrame, Locked, AfterLock, Goto
<1>14. CASE AcquireSLock(t)
    BY <1>14, ReturnType, AtWork DEF AcquireSLock, Goto
<1>15. CASE Scan(t)
    BY <1>15, ReturnType, AtWork, ScanLocal
<1>16. CASE Clock(t)
    BY <1>16, ReturnType, AtWork, ClockLocal
<1>17. CASE ClockFails(t)
    BY <1>17, ReturnType, AtWork, CounterTypes DEF ClockFails, Goto
<1>18. CASE Retry(t)
  <2>1. CASE try[t] + 1 < Tries
      BY <1>18, <2>1, ReturnType, AtWork, CounterTypes DEF Retry, Goto
  <2>2. CASE ~(try[t] + 1 < Tries)
      BY <1>18, <2>2, ReturnType, AtWork, CounterTypes DEF Retry, Goto
  <2>3. QED
      BY <2>1, <2>2
<1>19. CASE TakeFrame(t)
    BY <1>19, ReturnType, AtWork DEF TakeFrame, Unlock, Goto
<1>20. CASE OutClear(t)
    BY <1>20, ReturnType, AtWork DEF OutClear, Goto
<1>21. CASE OutClean(t)
    BY <1>21, ReturnType, AtWork DEF OutClean, OutSucceeds, Goto
<1>22. CASE OutWrite(t)
    BY <1>22, ReturnType, AtWork
    DEF OutWrite, OutFails, OutSucceeds, Unlock, Goto
<1>23. CASE OutSwap(t)
    BY <1>23, ReturnType, AtWork
    DEF OutSwap, FlipSlot, OutFails, OutSucceeds, Unlock, Goto
<1>24. CASE OutDone(t)
    BY <1>24, ReturnType, AtWork DEF OutDone, Goto
<1>25. CASE LoadPage(t)
    BY <1>25, ReturnType, AtWork DEF LoadPage, FilledWith, Goto
<1>26. CASE SwapReset(t)
    BY <1>26, ReturnType, AtWork DEF SwapReset, Goto
<1>27. CASE SwapClear(t)
    BY <1>27, ReturnType, AtWork DEF SwapClear, Goto
<1>28. CASE MapPage(t)
  <2>1. CASE op[t] = "lock_page"
      BY <1>28, <2>1, ReturnType, AtWork DEF MapPage, Unlock, Goto
  <2>2. CASE op[t] # "lock_page"
      BY <1>28, <2>2, ReturnType, AtWork DEF MapPage, Unlock, Goto
  <2>3. QED
      BY <2>1, <2>2
<1>29. CASE MapFails(t)
    BY <1>29, ReturnType, AtWork DEF MapFails, Unlock, Goto
<1>30. CASE CopyString(t)
  <2>1. CASE pte[cur_pg[t]] # NULL
      BY <1>30, <2>1, ReturnType, AtWork DEF CopyString, Unlock, Goto
  <2>2. CASE pte[cur_pg[t]] = NULL
      BY <1>30, <2>2, ReturnType, AtWork DEF CopyString, Unlock, Goto
  <2>3. QED
      BY <2>1, <2>2
<1>31. CASE FreePage(t)
    BY <1>31, ReturnType, AtWork DEF FreePage, ReleaseFrame, Unlock, Goto
<1>32. QED
    BY <1>1, <1>2, <1>3, <1>4, <1>5, <1>6, <1>7, <1>8, <1>9, <1>10, <1>11,
        <1>12, <1>13, <1>14, <1>15, <1>16, <1>17, <1>18, <1>19, <1>20, <1>21,
        <1>22, <1>23, <1>24, <1>25, <1>26, <1>27, <1>28, <1>29, <1>30, <1>31
    DEF UserStep, KernelStep

\* The loops of try_frame_alloc_and_lock keep their counter in range.
LEMMA CountStep ==
    ASSUME TypeOK, CountInv,
           NEW t \in Thread, UserStep(t) \/ KernelStep(t)
    PROVE  CountInv'
<1> USE DEF At, vars, sharedVars, localVars, pgVars, pteVars, diskVars,
            CountInv, TypeOK, LocalTypeOK
<1>1. ASSUME NEW p \in Page, Start(t, p) PROVE CountInv'
    BY <1>1, ConstantsAssumption, CounterTypes
    DEF Start, NewPages, PagesOf, BackingOf, Begin, Goto
<1>2. ASSUME NEW p \in Page, Load(t, p) PROVE CountInv'
    BY <1>2, ConstantsAssumption, CounterTypes DEF Load, PagesOf
<1>3. ASSUME NEW p \in Page, NEW v \in Value, Store(t, p, v) PROVE CountInv'
    BY <1>3, ConstantsAssumption, CounterTypes DEF Store, PagesOf
<1>4. ASSUME NEW p \in Page, PageFault(t, p) PROVE CountInv'
    BY <1>4, ConstantsAssumption, CounterTypes
    DEF PageFault, PageForAddr, NewPages, PagesOf, BackingOf, Begin, Goto
<1>5. CASE Exit(t)
    BY <1>5, ConstantsAssumption, CounterTypes DEF Exit, Goto
<1>6. CASE KernelFault(t)
    BY <1>6, ConstantsAssumption, CounterTypes DEF KernelFault, Goto
<1>7. ASSUME NEW p \in Page, Mmap(t, p) PROVE CountInv'
    BY <1>7, ConstantsAssumption, CounterTypes
    DEF Mmap, NewPages, PagesOf, BackingOf
<1>8. ASSUME NEW p \in Page, Munmap(t, p) PROVE CountInv'
    BY <1>8, ConstantsAssumption, CounterTypes
    DEF Munmap, PagesOf, Begin, Goto
<1>9. ASSUME NEW p \in Page, LockThisPage(t, p) PROVE CountInv'
    BY <1>9, ConstantsAssumption, CounterTypes
    DEF LockThisPage, PageForAddr, NewPages, PagesOf, BackingOf, Begin, Goto
<1>10. ASSUME NEW p \in Page, DestroyNext(t, p) PROVE CountInv'
    BY <1>10, ConstantsAssumption, CounterTypes
    DEF DestroyNext, PagesOf, Begin, Goto
<1>11. CASE Exited(t)
    BY <1>11, ConstantsAssumption, CounterTypes DEF Exited, PagesOf, Goto
<1>12. CASE ReadFrame(t)
    BY <1>12, ConstantsAssumption, CounterTypes
    DEF ReadFrame, Locked, AfterLock, Goto
<1>13. CASE AcquireFrame(t)
    BY <1>13, ConstantsAssumption, CounterTypes
    DEF AcquireFrame, Locked, AfterLock, Goto
<1>14. CASE AcquireSLock(t)
    BY <1>14, ConstantsAssumption, CounterTypes DEF AcquireSLock, Goto
<1>15. CASE Scan(t)
  <2>1. CASE len[t] = NFrames
      BY <1>15, <2>1, ConstantsAssumption, CounterTypes
      DEF Scan, LockFrame, Goto
  <2>2. CASE len[t] # NFrames
              /\ frm_lock[len[t]] = NULL /\ frm_page[len[t]] = NULL
      BY <1>15, <2>2, ConstantsAssumption, CounterTypes
      DEF Scan, LockFrame, Goto
  <2>3. CASE len[t] # NFrames
              /\ ~(frm_lock[len[t]] = NULL /\ frm_page[len[t]] = NULL)
      BY <1>15, <2>3, ConstantsAssumption, CounterTypes
      DEF Scan, LockFrame, Goto
  <2>4. QED
      BY <2>1, <2>2, <2>3
<1>16. CASE Clock(t)
  <2>1. CASE frm_lock[f_hand] = NULL /\ frm_page[f_hand] = NULL
      BY <1>16, <2>1, ConstantsAssumption, CounterTypes
      DEF Clock, NextHand, LockFrame, Goto
  <2>2. CASE frm_lock[f_hand] = NULL
              /\ frm_page[f_hand] # NULL /\ ~pte_a[frm_page[f_hand]]
      BY <1>16, <2>2, ConstantsAssumption, CounterTypes
      DEF Clock, NextHand, LockFrame, Goto
  <2>3. CASE frm_lock[f_hand] # NULL \/ (frm_page[f_hand] # NULL
              /\ pte_a[frm_page[f_hand]])
      BY <1>16, <2>3, ConstantsAssumption, CounterTypes
      DEF Clock, NextHand, LockFrame, Goto
  <2>4. QED
      BY <1>16, <2>1, <2>2, <2>3 DEF Clock
<1>17. CASE ClockFails(t)
    BY <1>17, ConstantsAssumption, CounterTypes DEF ClockFails, Goto
<1>18. CASE Retry(t)
    BY <1>18, ConstantsAssumption, CounterTypes DEF Retry, Return, Goto
<1>19. CASE TakeFrame(t)
    BY <1>19, ConstantsAssumption, CounterTypes
    DEF TakeFrame, Unlock, Return, Goto
<1>20. CASE OutClear(t)
    BY <1>20, ConstantsAssumption, CounterTypes DEF OutClear, Goto
<1>21. CASE OutClean(t)
    BY <1>21, ConstantsAssumption, CounterTypes
    DEF OutClean, OutSucceeds, Goto
<1>22. CASE OutWrite(t)
    BY <1>22, ConstantsAssumption, CounterTypes
    DEF OutWrite, OutFails, OutSucceeds, Unlock, Goto
<1>23. CASE OutSwap(t)
    BY <1>23, ConstantsAssumption, CounterTypes
    DEF OutSwap, FlipSlot, OutFails, OutSucceeds, Unlock, Goto
<1>24. CASE OutDone(t)
    BY <1>24, ConstantsAssumption, CounterTypes DEF OutDone, Goto
<1>25. CASE LoadPage(t)
    BY <1>25, ConstantsAssumption, CounterTypes DEF LoadPage, FilledWith, Goto
<1>26. CASE SwapReset(t)
    BY <1>26, ConstantsAssumption, CounterTypes DEF SwapReset, Goto
<1>27. CASE SwapClear(t)
    BY <1>27, ConstantsAssumption, CounterTypes DEF SwapClear, Goto
<1>28. CASE MapPage(t)
    BY <1>28, ConstantsAssumption, CounterTypes
    DEF MapPage, Return, Unlock, Goto
<1>29. CASE MapFails(t)
    BY <1>29, ConstantsAssumption, CounterTypes
    DEF MapFails, Return, Unlock, Goto
<1>30. CASE CopyString(t)
    BY <1>30, ConstantsAssumption, CounterTypes
    DEF CopyString, Return, Unlock, Goto
<1>31. CASE FreePage(t)
    BY <1>31, ConstantsAssumption, CounterTypes
    DEF FreePage, ReleaseFrame, Return, Unlock, Goto
<1>32. QED
    BY <1>1, <1>2, <1>3, <1>4, <1>5, <1>6, <1>7, <1>8, <1>9, <1>10, <1>11,
        <1>12, <1>13, <1>14, <1>15, <1>16, <1>17, <1>18, <1>19, <1>20, <1>21,
        <1>22, <1>23, <1>24, <1>25, <1>26, <1>27, <1>28, <1>29, <1>30, <1>31
    DEF UserStep, KernelStep

\* Nobody but its holder unlocks a frame: every acquisition finds the lock
\* free, every release is of the thread's own frame.
LEMMA LockStep ==
    ASSUME TypeOK, CountInv, LockInv, WorkInv, BackInv, PhaseInv,
           NEW t \in Thread, UserStep(t) \/ KernelStep(t)
    PROVE  LockInv'
<1> USE DEF At, vars, sharedVars, localVars, pgVars, pteVars, diskVars,
            LockInv, TypeOK, LocalTypeOK, SharedTypeOK, Pcs, HeldPcs, OutPcs,
            FillPcs
<1>1. ASSUME NEW p \in Page, Start(t, p) PROVE LockInv'
    BY <1>1, NullFacts DEF Start, NewPages, PagesOf, BackingOf, Begin, Goto
<1>2. ASSUME NEW p \in Page, Load(t, p) PROVE LockInv'
    BY <1>2, NullFacts DEF Load, PagesOf
<1>3. ASSUME NEW p \in Page, NEW v \in Value, Store(t, p, v) PROVE LockInv'
    BY <1>3, NullFacts DEF Store, PagesOf
<1>4. ASSUME NEW p \in Page, PageFault(t, p) PROVE LockInv'
    BY <1>4, NullFacts
    DEF PageFault, PageForAddr, NewPages, PagesOf, BackingOf, Begin, Goto
<1>5. CASE Exit(t)
    BY <1>5, NullFacts DEF Exit, Goto
<1>6. CASE KernelFault(t)
    BY <1>6, NullFacts DEF KernelFault, Goto
<1>7. ASSUME NEW p \in Page, Mmap(t, p) PROVE LockInv'
    BY <1>7, NullFacts DEF Mmap, NewPages, PagesOf, BackingOf
<1>8. ASSUME NEW p \in Page, Munmap(t, p) PROVE LockInv'
    BY <1>8, NullFacts DEF Munmap, PagesOf, Begin, Goto
<1>9. ASSUME NEW p \in Page, LockThisPage(t, p) PROVE LockInv'
    BY <1>9, NullFacts
    DEF LockThisPage, PageForAddr, NewPages, PagesOf, BackingOf, Begin, Goto
<1>10. ASSUME NEW p \in Page, DestroyNext(t, p) PROVE LockInv'
    BY <1>10, NullFacts DEF DestroyNext, PagesOf, Begin, Goto
<1>11. CASE Exited(t)
    BY <1>11, NullFacts DEF Exited, PagesOf, Goto
<1>12. CASE ReadFrame(t)
    BY <1>12, NullFacts, AfterLockLabels DEF ReadFrame, Locked, Goto
<1>13. CASE AcquireFrame(t)
  <2>1. CASE pg_frame[cur_pg[t]] = cur_fr[t]
      BY <1>13, <2>1, NullFacts, AfterLockLabels
      DEF AcquireFrame, Locked, Goto, PhaseInv
  <2>2. CASE pg_frame[cur_pg[t]] # cur_fr[t]
      BY <1>13, <2>2, NullFacts, AfterLockLabels
      DEF AcquireFrame, Locked, Goto, PhaseInv
  <2>3. QED
      BY <2>1, <2>2
<1>14. CASE AcquireSLock(t)
    BY <1>14, NullFacts DEF AcquireSLock, Goto
<1>15. CASE Scan(t)
  <2>1. CASE len[t] = NFrames
      BY <1>15, <2>1, NullFacts, CounterTypes DEF Scan, LockFrame, Goto
  <2>2. CASE len[t] # NFrames
              /\ frm_lock[len[t]] = NULL /\ frm_page[len[t]] = NULL
      BY <1>15, <2>2, NullFacts, CounterTypes DEF Scan, LockFrame, Goto
  <2>3. CASE len[t] # NFrames
              /\ ~(frm_lock[len[t]] = NULL /\ frm_page[len[t]] = NULL)
      BY <1>15, <2>3, NullFacts, CounterTypes DEF Scan, LockFrame, Goto
  <2>4. QED
      BY <2>1, <2>2, <2>3
<1>16. CASE Clock(t)
  <2>1. CASE frm_lock[f_hand] = NULL /\ frm_page[f_hand] = NULL
      BY <1>16, <2>1, NullFacts DEF Clock, NextHand, LockFrame, Goto
  <2>2. CASE frm_lock[f_hand] = NULL
              /\ frm_page[f_hand] # NULL /\ ~pte_a[frm_page[f_hand]]
      BY <1>16, <2>2, NullFacts DEF Clock, NextHand, LockFrame, Goto
  <2>3. CASE frm_lock[f_hand] # NULL \/ (frm_page[f_hand] # NULL
              /\ pte_a[frm_page[f_hand]])
      BY <1>16, <2>3, NullFacts DEF Clock, NextHand, LockFrame, Goto
  <2>4. QED
      BY <1>16, <2>1, <2>2, <2>3 DEF Clock
<1>17. CASE ClockFails(t)
    BY <1>17, NullFacts DEF ClockFails, Goto
<1>18. CASE Retry(t)
    BY <1>18, NullFacts DEF Retry, Return, Goto
<1>19. CASE TakeFrame(t)
    BY <1>19, NullFacts DEF TakeFrame, Unlock, Return, Goto
<1>20. CASE OutClear(t)
    BY <1>20, NullFacts DEF OutClear, Goto
<1>21. CASE OutClean(t)
    BY <1>21, NullFacts DEF OutClean, OutSucceeds, Goto
<1>22. CASE OutWrite(t)
    BY <1>22, NullFacts DEF OutWrite, OutFails, OutSucceeds, Unlock, Goto
<1>23. CASE OutSwap(t)
    BY <1>23, NullFacts
    DEF OutSwap, FlipSlot, OutFails, OutSucceeds, Unlock, Goto
<1>24. CASE OutDone(t)
    BY <1>24, NullFacts DEF OutDone, Goto
<1>25. CASE LoadPage(t)
    BY <1>25, NullFacts DEF LoadPage, FilledWith, Goto
<1>26. CASE SwapReset(t)
    BY <1>26, NullFacts DEF SwapReset, Goto
<1>27. CASE SwapClear(t)
    BY <1>27, NullFacts DEF SwapClear, Goto
<1>28. CASE MapPage(t)
    BY <1>28, NullFacts DEF MapPage, Return, Unlock, Goto
<1>29. CASE MapFails(t)
    BY <1>29, NullFacts DEF MapFails, Return, Unlock, Goto
<1>30. CASE CopyString(t)
  <2>1. CASE pte[cur_pg[t]] # NULL
      BY <1>30, <2>1, NullFacts DEF CopyString, Return, Unlock, Goto, PhaseInv
  <2>2. CASE pte[cur_pg[t]] = NULL
      BY <1>30, <2>2, NullFacts DEF CopyString, Return, Unlock, Goto, PhaseInv
  <2>3. QED
      BY <2>1, <2>2
<1>31. CASE FreePage(t)
    BY <1>31, NullFacts DEF FreePage, ReleaseFrame, Return, Unlock, Goto
<1>32. QED
    BY <1>1, <1>2, <1>3, <1>4, <1>5, <1>6, <1>7, <1>8, <1>9, <1>10, <1>11,
        <1>12, <1>13, <1>14, <1>15, <1>16, <1>17, <1>18, <1>19, <1>20, <1>21,
        <1>22, <1>23, <1>24, <1>25, <1>26, <1>27, <1>28, <1>29, <1>30, <1>31
    DEF UserStep, KernelStep

\* Nobody frees the page another thread's operation is about.
LEMMA WorkStep ==
    ASSUME TypeOK, WorkInv, BackInv, PhaseInv,
           NEW t \in Thread, UserStep(t) \/ KernelStep(t)
    PROVE  WorkInv'
<1> USE DEF At, vars, sharedVars, localVars, pgVars, pteVars, diskVars,
            WorkInv, WorkPcs, AllocPcs, PagesOf, TypeOK, LocalTypeOK,
            SharedTypeOK, Pcs, HeldPcs, OutPcs, FillPcs
<1>1. ASSUME NEW p \in Page, Start(t, p) PROVE WorkInv'
    BY <1>1, NewPagesFacts DEF Start, Begin, Goto
<1>2. ASSUME NEW p \in Page, Load(t, p) PROVE WorkInv'
    BY <1>2 DEF Load
<1>3. ASSUME NEW p \in Page, NEW v \in Value, Store(t, p, v) PROVE WorkInv'
    BY <1>3 DEF Store
<1>4. ASSUME NEW p \in Page, PageFault(t, p) PROVE WorkInv'
    BY <1>4, PageForAddrFacts, SMTT(30) DEF PageFault, Begin, Goto
<1>5. CASE Exit(t)
    BY <1>5 DEF Exit, Goto
<1>6. CASE KernelFault(t)
    BY <1>6 DEF KernelFault, Goto
<1>7. ASSUME NEW p \in Page, Mmap(t, p) PROVE WorkInv'
    BY <1>7, NewPagesFacts DEF Mmap
<1>8. ASSUME NEW p \in Page, Munmap(t, p) PROVE WorkInv'
    BY <1>8 DEF Munmap, Begin, Goto
<1>9. ASSUME NEW p \in Page, LockThisPage(t, p) PROVE WorkInv'
    BY <1>9, PageForAddrFacts, SMTT(30) DEF LockThisPage, Begin, Goto
<1>10. ASSUME NEW p \in Page, DestroyNext(t, p) PROVE WorkInv'
    BY <1>10 DEF DestroyNext, Begin, Goto
<1>11. CASE Exited(t)
    BY <1>11 DEF Exited, Goto
<1>12. CASE ReadFrame(t)
    BY <1>12, AfterLockLabels, NullFacts DEF ReadFrame, Locked, Goto
<1>13. CASE AcquireFrame(t)
  <2>1. CASE pg_frame[cur_pg[t]] = cur_fr[t]
      BY <1>13, <2>1, AfterLockLabels, NullFacts
      DEF AcquireFrame, Locked, Goto, PhaseInv
  <2>2. CASE pg_frame[cur_pg[t]] # cur_fr[t]
      BY <1>13, <2>2, AfterLockLabels, NullFacts
      DEF AcquireFrame, Locked, Goto, PhaseInv
  <2>3. QED
      BY <2>1, <2>2
<1>14. CASE AcquireSLock(t)
    BY <1>14 DEF AcquireSLock, Goto
<1>15. CASE Scan(t)
  <2>1. CASE len[t] = NFrames
      BY <1>15, <2>1 DEF Scan, LockFrame, Goto
  <2>2. CASE len[t] # NFrames
              /\ frm_lock[len[t]] = NULL /\ frm_page[len[t]] = NULL
      BY <1>15, <2>2 DEF Scan, LockFrame, Goto
  <2>3. CASE len[t] # NFrames
              /\ ~(frm_lock[len[t]] = NULL /\ frm_page[len[t]] = NULL)
      BY <1>15, <2>3 DEF Scan, LockFrame, Goto
  <2>4. QED
      BY <2>1, <2>2, <2>3
<1>16. CASE Clock(t)
  <2>1. CASE frm_lock[f_hand] = NULL /\ frm_page[f_hand] = NULL
      BY <1>16, <2>1 DEF Clock, NextHand, LockFrame, Goto
  <2>2. CASE frm_lock[f_hand] = NULL
              /\ frm_page[f_hand] # NULL /\ ~pte_a[frm_page[f_hand]]
      BY <1>16, <2>2 DEF Clock, NextHand, LockFrame, Goto
  <2>3. CASE frm_lock[f_hand] # NULL \/ (frm_page[f_hand] # NULL
              /\ pte_a[frm_page[f_hand]])
      BY <1>16, <2>3 DEF Clock, NextHand, LockFrame, Goto
  <2>4. QED
      BY <1>16, <2>1, <2>2, <2>3 DEF Clock
<1>17. CASE ClockFails(t)
    BY <1>17 DEF ClockFails, Goto
<1>18. CASE Retry(t)
    BY <1>18 DEF Retry, Return, Goto
<1>19. CASE TakeFrame(t)
    BY <1>19, SMTT(30) DEF TakeFrame, Unlock, Return, Goto
<1>20. CASE OutClear(t)
    BY <1>20 DEF OutClear, Goto
<1>21. CASE OutClean(t)
    BY <1>21 DEF OutClean, OutSucceeds, Goto
<1>22. CASE OutWrite(t)
    BY <1>22, SMTT(30) DEF OutWrite, OutFails, OutSucceeds, Unlock, Goto
<1>23. CASE OutSwap(t)
    BY <1>23, SMTT(30)
    DEF OutSwap, FlipSlot, OutFails, OutSucceeds, Unlock, Goto
<1>24. CASE OutDone(t)
    BY <1>24, SMTT(30) DEF OutDone, Goto
<1>25. CASE LoadPage(t)
    BY <1>25 DEF LoadPage, FilledWith, Goto
<1>26. CASE SwapReset(t)
    BY <1>26, SMTT(30) DEF SwapReset, Goto
<1>27. CASE SwapClear(t)
    BY <1>27 DEF SwapClear, Goto
<1>28. CASE MapPage(t)
    BY <1>28, SMTT(30) DEF MapPage, Return, Unlock, Goto
<1>29. CASE MapFails(t)
    BY <1>29, SMTT(30) DEF MapFails, Return, Unlock, Goto
<1>30. CASE CopyString(t)
  <2>1. CASE pte[cur_pg[t]] # NULL
      BY <1>30, <2>1, SMTT(30) DEF CopyString, Return, Unlock, Goto
  <2>2. CASE pte[cur_pg[t]] = NULL
      BY <1>30, <2>2, SMTT(30) DEF CopyString, Return, Unlock, Goto
  <2>3. QED
      BY <2>1, <2>2
<1>31. CASE FreePage(t)
    BY <1>31, SMTT(30) DEF FreePage, ReleaseFrame, Return, Unlock, Goto
<1>32. QED
    BY <1>1, <1>2, <1>3, <1>4, <1>5, <1>6, <1>7, <1>8, <1>9, <1>10, <1>11,
        <1>12, <1>13, <1>14, <1>15, <1>16, <1>17, <1>18, <1>19, <1>20, <1>21,
        <1>22, <1>23, <1>24, <1>25, <1>26, <1>27, <1>28, <1>29, <1>30, <1>31
    DEF UserStep, KernelStep

\* A process leaves no struct page behind.
LEMMA NoneStep ==
    ASSUME TypeOK, WorkInv, BackInv, PhaseInv, NoneInv,
           NEW t \in Thread, UserStep(t) \/ KernelStep(t)
    PROVE  NoneInv'
<1> USE DEF At, vars, sharedVars, localVars, pgVars, pteVars, diskVars,
            NoneInv, TypeOK, LocalTypeOK, SharedTypeOK, Pcs, HeldPcs, OutPcs,
            FillPcs
<1>1. ASSUME NEW p \in Page, Start(t, p) PROVE NoneInv'
    BY <1>1, OwnerType, NewPagesFacts DEF Start, PagesOf, Begin, Goto
<1>2. ASSUME NEW p \in Page, Load(t, p) PROVE NoneInv'
    BY <1>2, OwnerType DEF Load, PagesOf
<1>3. ASSUME NEW p \in Page, NEW v \in Value, Store(t, p, v) PROVE NoneInv'
    BY <1>3, OwnerType DEF Store, PagesOf
<1>4. ASSUME NEW p \in Page, PageFault(t, p) PROVE NoneInv'
    BY <1>4, OwnerType, PageForAddrFacts DEF PageFault, PagesOf, Begin, Goto
<1>5. CASE Exit(t)
    BY <1>5, OwnerType DEF Exit, Goto
<1>6. CASE KernelFault(t)
    BY <1>6, OwnerType DEF KernelFault, Goto
<1>7. ASSUME NEW p \in Page, Mmap(t, p) PROVE NoneInv'
    BY <1>7, OwnerType, NewPagesFacts DEF Mmap, PagesOf
<1>8. ASSUME NEW p \in Page, Munmap(t, p) PROVE NoneInv'
    BY <1>8, OwnerType DEF Munmap, PagesOf, Begin, Goto
<1>9. ASSUME NEW p \in Page, LockThisPage(t, p) PROVE NoneInv'
    BY <1>9, OwnerType, PageForAddrFacts
    DEF LockThisPage, PagesOf, Begin, Goto
<1>10. ASSUME NEW p \in Page, DestroyNext(t, p) PROVE NoneInv'
    BY <1>10, OwnerType DEF DestroyNext, PagesOf, Begin, Goto
<1>11. CASE Exited(t)
    BY <1>11, OwnerType DEF Exited, PagesOf, Goto
<1>12. CASE ReadFrame(t)
    BY <1>12, OwnerType, AfterLockLabels, NullFacts
    DEF ReadFrame, Locked, Goto
<1>13. CASE AcquireFrame(t)
    BY <1>13, OwnerType, AfterLockLabels, NullFacts
    DEF AcquireFrame, Locked, Goto, PhaseInv
<1>14. CASE AcquireSLock(t)
    BY <1>14, OwnerType DEF AcquireSLock, Goto
<1>15. CASE Scan(t)
  <2>1. CASE len[t] = NFrames
      BY <1>15, <2>1, OwnerType DEF Scan, LockFrame, Goto
  <2>2. CASE len[t] # NFrames
              /\ frm_lock[len[t]] = NULL /\ frm_page[len[t]] = NULL
      BY <1>15, <2>2, OwnerType DEF Scan, LockFrame, Goto
  <2>3. CASE len[t] # NFrames
              /\ ~(frm_lock[len[t]] = NULL /\ frm_page[len[t]] = NULL)
      BY <1>15, <2>3, OwnerType DEF Scan, LockFrame, Goto
  <2>4. QED
      BY <2>1, <2>2, <2>3
<1>16. CASE Clock(t)
  <2>1. CASE frm_lock[f_hand] = NULL /\ frm_page[f_hand] = NULL
      BY <1>16, <2>1, OwnerType DEF Clock, NextHand, LockFrame, Goto
  <2>2. CASE frm_lock[f_hand] = NULL
              /\ frm_page[f_hand] # NULL /\ ~pte_a[frm_page[f_hand]]
      BY <1>16, <2>2, OwnerType DEF Clock, NextHand, LockFrame, Goto
  <2>3. CASE frm_lock[f_hand] # NULL \/ (frm_page[f_hand] # NULL
              /\ pte_a[frm_page[f_hand]])
      BY <1>16, <2>3, OwnerType DEF Clock, NextHand, LockFrame, Goto
  <2>4. QED
      BY <1>16, <2>1, <2>2, <2>3 DEF Clock
<1>17. CASE ClockFails(t)
    BY <1>17, OwnerType DEF ClockFails, Goto
<1>18. CASE Retry(t)
    BY <1>18, OwnerType DEF Retry, Return, Goto
<1>19. CASE TakeFrame(t)
  <2>1. CASE op[t] = "setup_stack"
      BY <1>19, <2>1, OwnerType DEF TakeFrame, Unlock, Return, Goto
  <2>2. CASE op[t] # "setup_stack"
      BY <1>19, <2>2, OwnerType DEF TakeFrame, Unlock, Return, Goto
  <2>3. QED
      BY <2>1, <2>2
<1>20. CASE OutClear(t)
    BY <1>20, OwnerType DEF OutClear, Goto
<1>21. CASE OutClean(t)
    BY <1>21, OwnerType DEF OutClean, OutSucceeds, Goto
<1>22. CASE OutWrite(t)
    BY <1>22, OwnerType DEF OutWrite, OutFails, OutSucceeds, Unlock, Goto
<1>23. CASE OutSwap(t)
    BY <1>23, OwnerType
    DEF OutSwap, FlipSlot, OutFails, OutSucceeds, Unlock, Goto
<1>24. CASE OutDone(t)
    BY <1>24, OwnerType DEF OutDone, Goto
<1>25. CASE LoadPage(t)
    BY <1>25, OwnerType DEF LoadPage, FilledWith, Goto
<1>26. CASE SwapReset(t)
    BY <1>26, OwnerType DEF SwapReset, Goto
<1>27. CASE SwapClear(t)
    BY <1>27, OwnerType DEF SwapClear, Goto
<1>28. CASE MapPage(t)
  <2>1. CASE op[t] = "lock_page"
      BY <1>28, <2>1, OwnerType DEF MapPage, Return, Unlock, Goto
  <2>2. CASE op[t] # "lock_page"
      BY <1>28, <2>2, OwnerType DEF MapPage, Return, Unlock, Goto
  <2>3. QED
      BY <2>1, <2>2
<1>29. CASE MapFails(t)
    BY <1>29, OwnerType DEF MapFails, Return, Unlock, Goto
<1>30. CASE CopyString(t)
    BY <1>30, OwnerType DEF CopyString, Return, Unlock, Goto
<1>31. CASE FreePage(t)
    BY <1>31, OwnerType DEF FreePage, ReleaseFrame, Return, Unlock, Goto
<1>32. QED
    BY <1>1, <1>2, <1>3, <1>4, <1>5, <1>6, <1>7, <1>8, <1>9, <1>10, <1>11,
        <1>12, <1>13, <1>14, <1>15, <1>16, <1>17, <1>18, <1>19, <1>20, <1>21,
        <1>22, <1>23, <1>24, <1>25, <1>26, <1>27, <1>28, <1>29, <1>30, <1>31
    DEF UserStep, KernelStep

\* Frames and pages keep pointing at each other; only TakeFrame, OutDone and
\* FreePage change either pointer.
LEMMA FrameStep ==
    ASSUME TypeOK, CountInv, LockInv, WorkInv, BackInv, NoneInv, FrameInv,
               PhaseInv,
           NEW t \in Thread, UserStep(t) \/ KernelStep(t)
    PROVE  FrameInv'
<1> USE DEF At, vars, sharedVars, localVars, pgVars, pteVars, diskVars,
            FrameInv, WorkPcs, TypeOK, LocalTypeOK, SharedTypeOK, Pcs,
            HeldPcs, OutPcs, FillPcs
<1>1. ASSUME NEW p \in Page, Start(t, p) PROVE FrameInv'
    BY <1>1, NullFacts, AtWork, NewPagesFacts
    DEF Start, PagesOf, Begin, Goto, NoneInv
<1>2. ASSUME NEW p \in Page, Load(t, p) PROVE FrameInv'
    BY <1>2, NullFacts, AtWork DEF Load, PagesOf
<1>3. ASSUME NEW p \in Page, NEW v \in Value, Store(t, p, v) PROVE FrameInv'
    BY <1>3, NullFacts, AtWork DEF Store, PagesOf
<1>4. ASSUME NEW p \in Page, PageFault(t, p) PROVE FrameInv'
    BY <1>4, NullFacts, AtWork, PageForAddrFacts, SMTT(30)
    DEF PageFault, PagesOf, Begin, Goto
<1>5. CASE Exit(t)
    BY <1>5, NullFacts, AtWork DEF Exit, Goto
<1>6. CASE KernelFault(t)
    BY <1>6, NullFacts, AtWork DEF KernelFault, Goto
<1>7. ASSUME NEW p \in Page, Mmap(t, p) PROVE FrameInv'
    BY <1>7, NullFacts, AtWork, NewPagesFacts DEF Mmap, PagesOf
<1>8. ASSUME NEW p \in Page, Munmap(t, p) PROVE FrameInv'
    BY <1>8, NullFacts, AtWork DEF Munmap, PagesOf, Begin, Goto
<1>9. ASSUME NEW p \in Page, LockThisPage(t, p) PROVE FrameInv'
    BY <1>9, NullFacts, AtWork, PageForAddrFacts, SMTT(30)
    DEF LockThisPage, PagesOf, Begin, Goto
<1>10. ASSUME NEW p \in Page, DestroyNext(t, p) PROVE FrameInv'
    BY <1>10, NullFacts, AtWork DEF DestroyNext, PagesOf, Begin, Goto
<1>11. CASE Exited(t)
    BY <1>11, NullFacts, AtWork DEF Exited, PagesOf, Goto
<1>12. CASE ReadFrame(t)
  <2>1. CASE pg_frame[cur_pg[t]] = NULL
      BY <1>12, <2>1, NullFacts, AtWork, AfterLockLabels
      DEF ReadFrame, Locked, Goto
  <2>2. CASE pg_frame[cur_pg[t]] # NULL
      BY <1>12, <2>2, NullFacts, AtWork, AfterLockLabels
      DEF ReadFrame, Locked, Goto
  <2>3. QED
      BY <2>1, <2>2
<1>13. CASE AcquireFrame(t)
  <2>1. CASE pg_frame[cur_pg[t]] = cur_fr[t]
      BY <1>13, <2>1, NullFacts, AtWork, AfterLockLabels
      DEF AcquireFrame, Locked, Goto, PhaseInv
  <2>2. CASE pg_frame[cur_pg[t]] # cur_fr[t]
      BY <1>13, <2>2, NullFacts, AtWork, AfterLockLabels
      DEF AcquireFrame, Locked, Goto, PhaseInv
  <2>3. QED
      BY <2>1, <2>2
<1>14. CASE AcquireSLock(t)
    BY <1>14, NullFacts, AtWork DEF AcquireSLock, Goto
<1>15. CASE Scan(t)
  <2>1. CASE len[t] = NFrames
      BY <1>15, <2>1, NullFacts, AtWork DEF Scan, LockFrame, Goto
  <2>2. CASE len[t] # NFrames
              /\ frm_lock[len[t]] = NULL /\ frm_page[len[t]] = NULL
      BY <1>15, <2>2, NullFacts, AtWork DEF Scan, LockFrame, Goto
  <2>3. CASE len[t] # NFrames
              /\ ~(frm_lock[len[t]] = NULL /\ frm_page[len[t]] = NULL)
      BY <1>15, <2>3, NullFacts, AtWork DEF Scan, LockFrame, Goto
  <2>4. QED
      BY <2>1, <2>2, <2>3
<1>16. CASE Clock(t)
  <2>1. CASE frm_lock[f_hand] = NULL /\ frm_page[f_hand] = NULL
      BY <1>16, <2>1, NullFacts, AtWork DEF Clock, NextHand, LockFrame, Goto
  <2>2. CASE frm_lock[f_hand] = NULL
              /\ frm_page[f_hand] # NULL /\ ~pte_a[frm_page[f_hand]]
      BY <1>16, <2>2, NullFacts, AtWork DEF Clock, NextHand, LockFrame, Goto
  <2>3. CASE frm_lock[f_hand] # NULL \/ (frm_page[f_hand] # NULL
              /\ pte_a[frm_page[f_hand]])
      BY <1>16, <2>3, NullFacts, AtWork DEF Clock, NextHand, LockFrame, Goto
  <2>4. QED
      BY <1>16, <2>1, <2>2, <2>3 DEF Clock
<1>17. CASE ClockFails(t)
    BY <1>17, NullFacts, AtWork DEF ClockFails, Goto
<1>18. CASE Retry(t)
  <2>1. CASE try[t] + 1 < Tries
      BY <1>18, <2>1, NullFacts, AtWork DEF Retry, Return, Goto
  <2>2. CASE ~(try[t] + 1 < Tries)
      BY <1>18, <2>2, NullFacts, AtWork DEF Retry, Return, Goto
  <2>3. QED
      BY <2>1, <2>2
<1>19. CASE TakeFrame(t)
  <2>1. CASE op[t] = "setup_stack"
      BY <1>19, <2>1, NullFacts, AtWork, SMTT(30)
      DEF TakeFrame, Unlock, Return, Goto, PhaseInv, AllocPcs
  <2>2. CASE op[t] # "setup_stack"
      BY <1>19, <2>2, NullFacts, AtWork, SMTT(30)
      DEF TakeFrame, Unlock, Return, Goto, PhaseInv, AllocPcs
  <2>3. QED
      BY <2>1, <2>2
<1>20. CASE OutClear(t)
    BY <1>20, NullFacts, AtWork DEF OutClear, Goto
<1>21. CASE OutClean(t)
    BY <1>21, NullFacts, AtWork DEF OutClean, OutSucceeds, Goto
<1>22. CASE OutWrite(t)
  <2>1. CASE out_pg[t] \in DenyWrite
      BY <1>22, <2>1, NullFacts, AtWork, SMTT(30)
      DEF OutWrite, OutFails, OutSucceeds, Unlock, Goto
  <2>2. CASE out_pg[t] \notin DenyWrite
      BY <1>22, <2>2, NullFacts, AtWork, SMTT(30)
      DEF OutWrite, OutFails, OutSucceeds, Unlock, Goto
  <2>3. QED
      BY <2>1, <2>2
<1>23. CASE OutSwap(t)
  <2>1. CASE Slot \subseteq sw_bitmap
      BY <1>23, <2>1, NullFacts, AtWork, SMTT(30)
      DEF OutSwap, FlipSlot, OutFails, OutSucceeds, Unlock, Goto
  <2>2. CASE ~(Slot \subseteq sw_bitmap)
      BY <1>23, <2>2, NullFacts, AtWork, SMTT(30)
      DEF OutSwap, FlipSlot, OutFails, OutSucceeds, Unlock, Goto
  <2>3. QED
      BY <2>1, <2>2
<1>24. CASE OutDone(t)
    BY <1>24, NullFacts, AtWork, SMTT(30)
    DEF OutDone, Goto, PhaseInv, AllocPcs
<1>25. CASE LoadPage(t)
    BY <1>25, NullFacts, AtWork DEF LoadPage, FilledWith, Goto
<1>26. CASE SwapReset(t)
    BY <1>26, NullFacts, AtWork, SMTT(30) DEF SwapReset, Goto
<1>27. CASE SwapClear(t)
    BY <1>27, NullFacts, AtWork DEF SwapClear, Goto
<1>28. CASE MapPage(t)
  <2>1. CASE op[t] = "lock_page"
      BY <1>28, <2>1, NullFacts, AtWork, SMTT(30)
      DEF MapPage, Return, Unlock, Goto
  <2>2. CASE op[t] # "lock_page"
      BY <1>28, <2>2, NullFacts, AtWork, SMTT(30)
      DEF MapPage, Return, Unlock, Goto
  <2>3. QED
      BY <2>1, <2>2
<1>29. CASE MapFails(t)
  <2>1. CASE op[t] = "lock_page"
      BY <1>29, <2>1, NullFacts, AtWork, SMTT(30)
      DEF MapFails, Return, Unlock, Goto
  <2>2. CASE op[t] # "lock_page"
      BY <1>29, <2>2, NullFacts, AtWork, SMTT(30)
      DEF MapFails, Return, Unlock, Goto
  <2>3. QED
      BY <2>1, <2>2
<1>30. CASE CopyString(t)
  <2>1. CASE pte[cur_pg[t]] # NULL
      BY <1>30, <2>1, NullFacts, AtWork, SMTT(30)
      DEF CopyString, Return, Unlock, Goto
  <2>2. CASE pte[cur_pg[t]] = NULL
      BY <1>30, <2>2, NullFacts, AtWork, SMTT(30)
      DEF CopyString, Return, Unlock, Goto
  <2>3. QED
      BY <2>1, <2>2
<1>31. CASE FreePage(t)
  <2>1. CASE pc[t] = "free"
      BY <1>31, <2>1, NullFacts, AtWork, SMTT(30)
      DEF FreePage, ReleaseFrame, Return, Unlock, Goto, PhaseInv, AllocPcs
  <2>2. CASE pc[t] # "free"
      BY <1>31, <2>2, NullFacts, AtWork, SMTT(30)
      DEF FreePage, ReleaseFrame, Return, Unlock, Goto, PhaseInv, AllocPcs
  <2>3. QED
      BY <2>1, <2>2
<1>32. QED
    BY <1>1, <1>2, <1>3, <1>4, <1>5, <1>6, <1>7, <1>8, <1>9, <1>10, <1>11,
        <1>12, <1>13, <1>14, <1>15, <1>16, <1>17, <1>18, <1>19, <1>20, <1>21,
        <1>22, <1>23, <1>24, <1>25, <1>26, <1>27, <1>28, <1>29, <1>30, <1>31
    DEF UserStep, KernelStep

\* What a thread knows of its frame survives the steps of the others: they
\* would need the lock of that frame to change it.
LEMMA PhaseStep ==
    ASSUME TypeOK, CountInv, LockInv, WorkInv, BackInv, NoneInv, FrameInv,
               PhaseInv,
           NEW t \in Thread, UserStep(t) \/ KernelStep(t)
    PROVE  PhaseInv'
<1> USE DEF At, vars, sharedVars, localVars, pgVars, pteVars, diskVars,
            PhaseInv, LockInv, WorkInv, FrameInv, WorkPcs, AllocPcs, TypeOK,
            LocalTypeOK, SharedTypeOK, Pcs, HeldPcs, OutPcs, FillPcs
<1>1. ASSUME NEW p \in Page, Start(t, p) PROVE PhaseInv'
    BY <1>1, NullFacts, AtWork, NewPagesFacts
    DEF Start, PagesOf, Begin, Goto, NoneInv
<1>2. ASSUME NEW p \in Page, Load(t, p) PROVE PhaseInv'
    BY <1>2, NullFacts, AtWork DEF Load, PagesOf
<1>3. ASSUME NEW p \in Page, NEW v \in Value, Store(t, p, v) PROVE PhaseInv'
    BY <1>3, NullFacts, AtWork DEF Store, PagesOf
<1>4. ASSUME NEW p \in Page, PageFault(t, p) PROVE PhaseInv'
    BY <1>4, NullFacts, AtWork, PageForAddrFacts, SMTT(30)
    DEF PageFault, PagesOf, Begin, Goto
<1>5. CASE Exit(t)
    BY <1>5, NullFacts, AtWork DEF Exit, Goto
<1>6. CASE KernelFault(t)
    BY <1>6, NullFacts, AtWork DEF KernelFault, Goto
<1>7. ASSUME NEW p \in Page, Mmap(t, p) PROVE PhaseInv'
    BY <1>7, NullFacts, AtWork, NewPagesFacts DEF Mmap, PagesOf
<1>8. ASSUME NEW p \in Page, Munmap(t, p) PROVE PhaseInv'
    BY <1>8, NullFacts, AtWork DEF Munmap, PagesOf, Begin, Goto
<1>9. ASSUME NEW p \in Page, LockThisPage(t, p) PROVE PhaseInv'
    BY <1>9, NullFacts, AtWork, PageForAddrFacts, SMTT(30)
    DEF LockThisPage, PagesOf, Begin, Goto
<1>10. ASSUME NEW p \in Page, DestroyNext(t, p) PROVE PhaseInv'
    BY <1>10, NullFacts, AtWork DEF DestroyNext, PagesOf, Begin, Goto
<1>11. CASE Exited(t)
    BY <1>11, NullFacts, AtWork DEF Exited, PagesOf, Goto
<1>12. CASE ReadFrame(t)
  <2>1. CASE pg_frame[cur_pg[t]] = NULL
      BY <1>12, <2>1, NullFacts, AtWork, AfterLockLabels
      DEF ReadFrame, Locked, Goto
  <2>2. CASE pg_frame[cur_pg[t]] # NULL
      BY <1>12, <2>2, NullFacts, AtWork, AfterLockLabels
      DEF ReadFrame, Locked, Goto
  <2>3. QED
      BY <2>1, <2>2
<1>13. CASE AcquireFrame(t)
  <2>1. CASE pg_frame[cur_pg[t]] = cur_fr[t]
      BY <1>13, <2>1, NullFacts, AtWork, AfterLockLabels
      DEF AcquireFrame, Locked, Goto
  <2>2. CASE pg_frame[cur_pg[t]] # cur_fr[t]
      BY <1>13, <2>2, NullFacts, AtWork, AfterLockLabels
      DEF AcquireFrame, Locked, Goto
  <2>3. QED
      BY <2>1, <2>2
<1>14. CASE AcquireSLock(t)
    BY <1>14, NullFacts, AtWork DEF AcquireSLock, Goto
<1>15. CASE Scan(t)
  <2>1. CASE len[t] = NFrames
      BY <1>15, <2>1, NullFacts, AtWork, CounterTypes
      DEF Scan, LockFrame, Goto
  <2>2. CASE len[t] # NFrames
              /\ frm_lock[len[t]] = NULL /\ frm_page[len[t]] = NULL
      BY <1>15, <2>2, NullFacts, AtWork, CounterTypes
      DEF Scan, LockFrame, Goto
  <2>3. CASE len[t] # NFrames
              /\ ~(frm_lock[len[t]] = NULL /\ frm_page[len[t]] = NULL)
      BY <1>15, <2>3, NullFacts, AtWork, CounterTypes
      DEF Scan, LockFrame, Goto
  <2>4. QED
      BY <2>1, <2>2, <2>3
<1>16. CASE Clock(t)
  <2>1. CASE frm_lock[f_hand] = NULL /\ frm_page[f_hand] = NULL
      BY <1>16, <2>1, NullFacts, AtWork DEF Clock, NextHand, LockFrame, Goto
  <2>2. CASE frm_lock[f_hand] = NULL
              /\ frm_page[f_hand] # NULL /\ ~pte_a[frm_page[f_hand]]
      BY <1>16, <2>2, NullFacts, AtWork DEF Clock, NextHand, LockFrame, Goto
  <2>3. CASE frm_lock[f_hand] # NULL \/ (frm_page[f_hand] # NULL
              /\ pte_a[frm_page[f_hand]])
      BY <1>16, <2>3, NullFacts, AtWork DEF Clock, NextHand, LockFrame, Goto
  <2>4. QED
      BY <1>16, <2>1, <2>2, <2>3 DEF Clock
<1>17. CASE ClockFails(t)
    BY <1>17, NullFacts, AtWork DEF ClockFails, Goto
<1>18. CASE Retry(t)
  <2>1. CASE try[t] + 1 < Tries
      BY <1>18, <2>1, NullFacts, AtWork DEF Retry, Return, Goto
  <2>2. CASE ~(try[t] + 1 < Tries)
      BY <1>18, <2>2, NullFacts, AtWork DEF Retry, Return, Goto
  <2>3. QED
      BY <2>1, <2>2
<1>19. CASE TakeFrame(t)
  <2>1. CASE op[t] = "setup_stack"
      BY <1>19, <2>1, NullFacts, AtWork, SMTT(30)
      DEF TakeFrame, Unlock, Return, Goto
  <2>2. CASE op[t] # "setup_stack"
      BY <1>19, <2>2, NullFacts, AtWork, SMTT(30)
      DEF TakeFrame, Unlock, Return, Goto
  <2>3. QED
      BY <2>1, <2>2
<1>20. CASE OutClear(t)
    BY <1>20, NullFacts, AtWork DEF OutClear, Goto
<1>21. CASE OutClean(t)
    BY <1>21, NullFacts, AtWork DEF OutClean, OutSucceeds, Goto
<1>22. CASE OutWrite(t)
  <2>1. CASE out_pg[t] \in DenyWrite
      BY <1>22, <2>1, NullFacts, AtWork, SMTT(30)
      DEF OutWrite, OutFails, OutSucceeds, Unlock, Goto
  <2>2. CASE out_pg[t] \notin DenyWrite
      BY <1>22, <2>2, NullFacts, AtWork, SMTT(30)
      DEF OutWrite, OutFails, OutSucceeds, Unlock, Goto
  <2>3. QED
      BY <2>1, <2>2
<1>23. CASE OutSwap(t)
  <2>1. CASE Slot \subseteq sw_bitmap
      BY <1>23, <2>1, NullFacts, AtWork, SMTT(30)
      DEF OutSwap, FlipSlot, OutFails, OutSucceeds, Unlock, Goto
  <2>2. CASE ~(Slot \subseteq sw_bitmap)
      BY <1>23, <2>2, NullFacts, AtWork, SMTT(30)
      DEF OutSwap, FlipSlot, OutFails, OutSucceeds, Unlock, Goto
  <2>3. QED
      BY <2>1, <2>2
<1>24. CASE OutDone(t)
    BY <1>24, NullFacts, AtWork, SMTT(30) DEF OutDone, Goto
<1>25. CASE LoadPage(t)
    BY <1>25, NullFacts, AtWork DEF LoadPage, FilledWith, Goto
<1>26. CASE SwapReset(t)
    BY <1>26, NullFacts, AtWork, SMTT(30) DEF SwapReset, Goto
<1>27. CASE SwapClear(t)
    BY <1>27, NullFacts, AtWork DEF SwapClear, Goto
<1>28. CASE MapPage(t)
  <2>1. CASE op[t] = "lock_page"
      BY <1>28, <2>1, NullFacts, AtWork, SMTT(30)
      DEF MapPage, Return, Unlock, Goto
  <2>2. CASE op[t] # "lock_page"
      BY <1>28, <2>2, NullFacts, AtWork, SMTT(30)
      DEF MapPage, Return, Unlock, Goto
  <2>3. QED
      BY <2>1, <2>2
<1>29. CASE MapFails(t)
  <2>1. CASE op[t] = "lock_page"
      BY <1>29, <2>1, NullFacts, AtWork, SMTT(30)
      DEF MapFails, Return, Unlock, Goto
  <2>2. CASE op[t] # "lock_page"
      BY <1>29, <2>2, NullFacts, AtWork, SMTT(30)
      DEF MapFails, Return, Unlock, Goto
  <2>3. QED
      BY <2>1, <2>2
<1>30. CASE CopyString(t)
  <2>1. CASE pte[cur_pg[t]] # NULL
      BY <1>30, <2>1, NullFacts, AtWork, SMTT(30)
      DEF CopyString, Return, Unlock, Goto
  <2>2. CASE pte[cur_pg[t]] = NULL
      BY <1>30, <2>2, NullFacts, AtWork, SMTT(30)
      DEF CopyString, Return, Unlock, Goto
  <2>3. QED
      BY <2>1, <2>2
<1>31. CASE FreePage(t)
  <2>1. CASE pc[t] = "free"
      BY <1>31, <2>1, NullFacts, AtWork, SMTT(30)
      DEF FreePage, ReleaseFrame, Return, Unlock, Goto
  <2>2. CASE pc[t] # "free"
      BY <1>31, <2>2, NullFacts, AtWork, SMTT(30)
      DEF FreePage, ReleaseFrame, Return, Unlock, Goto
  <2>3. QED
      BY <2>1, <2>2
<1>32. QED
    BY <1>1, <1>2, <1>3, <1>4, <1>5, <1>6, <1>7, <1>8, <1>9, <1>10, <1>11,
        <1>12, <1>13, <1>14, <1>15, <1>16, <1>17, <1>18, <1>19, <1>20, <1>21,
        <1>22, <1>23, <1>24, <1>25, <1>26, <1>27, <1>28, <1>29, <1>30, <1>31
    DEF UserStep, KernelStep

\* page_out moves no mapping of a file to swap.
LEMMA BackStep ==
    ASSUME TypeOK, WorkInv, BackInv,
           NEW t \in Thread, UserStep(t) \/ KernelStep(t)
    PROVE  BackInv'
<1> USE DEF At, vars, sharedVars, localVars, pgVars, pteVars, diskVars,
            BackInv, WorkInv, TypeOK, LocalTypeOK, SharedTypeOK, Pcs, HeldPcs,
            OutPcs, FillPcs
<1>1. ASSUME NEW p \in Page, Start(t, p) PROVE BackInv'
    BY <1>1, NewPagesFacts DEF Start, PagesOf, BackingOf, Begin, Goto
<1>2. ASSUME NEW p \in Page, Load(t, p) PROVE BackInv'
    BY <1>2 DEF Load, PagesOf
<1>3. ASSUME NEW p \in Page, NEW v \in Value, Store(t, p, v) PROVE BackInv'
    BY <1>3 DEF Store, PagesOf
<1>4. ASSUME NEW p \in Page, PageFault(t, p) PROVE BackInv'
    BY <1>4, PageForAddrFacts DEF PageFault, PagesOf, BackingOf, Begin, Goto
<1>5. CASE Exit(t)
    BY <1>5 DEF Exit, Goto
<1>6. CASE KernelFault(t)
    BY <1>6 DEF KernelFault, Goto
<1>7. ASSUME NEW p \in Page, Mmap(t, p) PROVE BackInv'
    BY <1>7, NewPagesFacts DEF Mmap, PagesOf, BackingOf
<1>8. ASSUME NEW p \in Page, Munmap(t, p) PROVE BackInv'
    BY <1>8 DEF Munmap, PagesOf, Begin, Goto
<1>9. ASSUME NEW p \in Page, LockThisPage(t, p) PROVE BackInv'
    BY <1>9, PageForAddrFacts
    DEF LockThisPage, PagesOf, BackingOf, Begin, Goto
<1>10. ASSUME NEW p \in Page, DestroyNext(t, p) PROVE BackInv'
    BY <1>10 DEF DestroyNext, PagesOf, Begin, Goto
<1>11. CASE Exited(t)
    BY <1>11 DEF Exited, PagesOf, Goto
<1>12. CASE ReadFrame(t)
    BY <1>12 DEF ReadFrame, Locked, Goto
<1>13. CASE AcquireFrame(t)
    BY <1>13 DEF AcquireFrame, Locked, Goto
<1>14. CASE AcquireSLock(t)
    BY <1>14 DEF AcquireSLock, Goto
<1>15. CASE Scan(t)
    BY <1>15 DEF Scan, LockFrame, Goto
<1>16. CASE Clock(t)
    BY <1>16 DEF Clock, NextHand, LockFrame, Goto
<1>17. CASE ClockFails(t)
    BY <1>17 DEF ClockFails, Goto
<1>18. CASE Retry(t)
    BY <1>18 DEF Retry, Return, Goto
<1>19. CASE TakeFrame(t)
    BY <1>19 DEF TakeFrame, Unlock, Return, Goto
<1>20. CASE OutClear(t)
    BY <1>20 DEF OutClear, Goto
<1>21. CASE OutClean(t)
    BY <1>21 DEF OutClean, OutSucceeds, Goto
<1>22. CASE OutWrite(t)
    BY <1>22 DEF OutWrite, OutFails, OutSucceeds, Unlock, Goto
<1>23. CASE OutSwap(t)
    BY <1>23
    DEF OutSwap, FlipSlot, OutFails, OutSucceeds, Unlock, Goto, MustSwap
<1>24. CASE OutDone(t)
    BY <1>24 DEF OutDone, Goto
<1>25. CASE LoadPage(t)
    BY <1>25 DEF LoadPage, FilledWith, Goto
<1>26. CASE SwapReset(t)
    BY <1>26 DEF SwapReset, Goto
<1>27. CASE SwapClear(t)
    BY <1>27 DEF SwapClear, Goto
<1>28. CASE MapPage(t)
    BY <1>28 DEF MapPage, Return, Unlock, Goto
<1>29. CASE MapFails(t)
    BY <1>29 DEF MapFails, Return, Unlock, Goto
<1>30. CASE CopyString(t)
    BY <1>30 DEF CopyString, Return, Unlock, Goto
<1>31. CASE FreePage(t)
    BY <1>31 DEF FreePage, ReleaseFrame, Return, Unlock, Goto
<1>32. QED
    BY <1>1, <1>2, <1>3, <1>4, <1>5, <1>6, <1>7, <1>8, <1>9, <1>10, <1>11,
        <1>12, <1>13, <1>14, <1>15, <1>16, <1>17, <1>18, <1>19, <1>20, <1>21,
        <1>22, <1>23, <1>24, <1>25, <1>26, <1>27, <1>28, <1>29, <1>30, <1>31
    DEF UserStep, KernelStep

\* A page table entry is cleared before its frame is given away, and is
\* installed only by the owner, with the frame locked.
LEMMA PteStep ==
    ASSUME TypeOK, LockInv, WorkInv, BackInv, NoneInv, FrameInv, PhaseInv,
               PteInv,
           NEW t \in Thread, UserStep(t) \/ KernelStep(t)
    PROVE  PteInv'
<1> USE DEF At, vars, sharedVars, localVars, pgVars, pteVars, diskVars,
            PteInv, PhaseInv, LockInv, WorkInv, Dying, WorkPcs, AllocPcs,
            TypeOK, LocalTypeOK, SharedTypeOK, Pcs, HeldPcs, OutPcs, FillPcs
<1>1. ASSUME NEW p \in Page, Start(t, p) PROVE PteInv'
    BY <1>1, NullFacts, AtWork, OwnerType, NewPagesFacts
    DEF Start, PagesOf, Begin, Goto, NoneInv, FrameInv
<1>2. ASSUME NEW p \in Page, Load(t, p) PROVE PteInv'
    BY <1>2, NullFacts, AtWork, OwnerType DEF Load, PagesOf
<1>3. ASSUME NEW p \in Page, NEW v \in Value, Store(t, p, v) PROVE PteInv'
    BY <1>3, NullFacts, AtWork, OwnerType DEF Store, PagesOf
<1>4. ASSUME NEW p \in Page, PageFault(t, p) PROVE PteInv'
    BY <1>4, NullFacts, AtWork, OwnerType, PageForAddrFacts, SMTT(30)
    DEF PageFault, PagesOf, Begin, Goto, FrameInv
<1>5. CASE Exit(t)
    BY <1>5, NullFacts, AtWork, OwnerType DEF Exit, Goto
<1>6. CASE KernelFault(t)
    BY <1>6, NullFacts, AtWork, OwnerType DEF KernelFault, Goto
<1>7. ASSUME NEW p \in Page, Mmap(t, p) PROVE PteInv'
    BY <1>7, NullFacts, AtWork, OwnerType, NewPagesFacts
    DEF Mmap, PagesOf, FrameInv
<1>8. ASSUME NEW p \in Page, Munmap(t, p) PROVE PteInv'
    BY <1>8, NullFacts, AtWork, OwnerType DEF Munmap, PagesOf, Begin, Goto
<1>9. ASSUME NEW p \in Page, LockThisPage(t, p) PROVE PteInv'
    BY <1>9, NullFacts, AtWork, OwnerType, PageForAddrFacts, SMTT(30)
    DEF LockThisPage, PagesOf, Begin, Goto, FrameInv
<1>10. ASSUME NEW p \in Page, DestroyNext(t, p) PROVE PteInv'
    BY <1>10, NullFacts, AtWork, OwnerType
    DEF DestroyNext, PagesOf, Begin, Goto
<1>11. CASE Exited(t)
    BY <1>11, NullFacts, AtWork, OwnerType DEF Exited, PagesOf, Goto
<1>12. CASE ReadFrame(t)
  <2>1. CASE pg_frame[cur_pg[t]] = NULL
      BY <1>12, <2>1, NullFacts, AtWork, OwnerType, AfterLockLabels
      DEF ReadFrame, Locked, Goto
  <2>2. CASE pg_frame[cur_pg[t]] # NULL
      BY <1>12, <2>2, NullFacts, AtWork, OwnerType, AfterLockLabels
      DEF ReadFrame, Locked, Goto
  <2>3. QED
      BY <2>1, <2>2
<1>13. CASE AcquireFrame(t)
  <2>1. CASE pg_frame[cur_pg[t]] = cur_fr[t]
      BY <1>13, <2>1, NullFacts, AtWork, OwnerType, AfterLockLabels
      DEF AcquireFrame, Locked, Goto
  <2>2. CASE pg_frame[cur_pg[t]] # cur_fr[t]
      BY <1>13, <2>2, NullFacts, AtWork, OwnerType, AfterLockLabels
      DEF AcquireFrame, Locked, Goto
  <2>3. QED
      BY <2>1, <2>2
<1>14. CASE AcquireSLock(t)
    BY <1>14, NullFacts, AtWork, OwnerType DEF AcquireSLock, Goto
<1>15. CASE Scan(t)
  <2>1. CASE len[t] = NFrames
      BY <1>15, <2>1, NullFacts, AtWork, OwnerType DEF Scan, LockFrame, Goto
  <2>2. CASE len[t] # NFrames
              /\ frm_lock[len[t]] = NULL /\ frm_page[len[t]] = NULL
      BY <1>15, <2>2, NullFacts, AtWork, OwnerType DEF Scan, LockFrame, Goto
  <2>3. CASE len[t] # NFrames
              /\ ~(frm_lock[len[t]] = NULL /\ frm_page[len[t]] = NULL)
      BY <1>15, <2>3, NullFacts, AtWork, OwnerType DEF Scan, LockFrame, Goto
  <2>4. QED
      BY <2>1, <2>2, <2>3
<1>16. CASE Clock(t)
  <2>1. CASE frm_lock[f_hand] = NULL /\ frm_page[f_hand] = NULL
      BY <1>16, <2>1, NullFacts, AtWork, OwnerType
      DEF Clock, NextHand, LockFrame, Goto
  <2>2. CASE frm_lock[f_hand] = NULL
              /\ frm_page[f_hand] # NULL /\ ~pte_a[frm_page[f_hand]]
      BY <1>16, <2>2, NullFacts, AtWork, OwnerType
      DEF Clock, NextHand, LockFrame, Goto
  <2>3. CASE frm_lock[f_hand] # NULL \/ (frm_page[f_hand] # NULL
              /\ pte_a[frm_page[f_hand]])
      BY <1>16, <2>3, NullFacts, AtWork, OwnerType
      DEF Clock, NextHand, LockFrame, Goto
  <2>4. QED
      BY <1>16, <2>1, <2>2, <2>3 DEF Clock
<1>17. CASE ClockFails(t)
    BY <1>17, NullFacts, AtWork, OwnerType DEF ClockFails, Goto
<1>18. CASE Retry(t)
  <2>1. CASE try[t] + 1 < Tries
      BY <1>18, <2>1, NullFacts, AtWork, OwnerType DEF Retry, Return, Goto
  <2>2. CASE ~(try[t] + 1 < Tries)
      BY <1>18, <2>2, NullFacts, AtWork, OwnerType, SMTT(40) DEF Retry, Return, Goto
  <2>3. QED
      BY <2>1, <2>2
<1>19. CASE TakeFrame(t)
  <2>1. CASE op[t] = "setup_stack"
      BY <1>19, <2>1, NullFacts, AtWork, OwnerType, SMTT(30)
      DEF TakeFrame, Unlock, Return, Goto
  <2>2. CASE op[t] # "setup_stack"
      BY <1>19, <2>2, NullFacts, AtWork, OwnerType, SMTT(30)
      DEF TakeFrame, Unlock, Return, Goto
  <2>3. QED
      BY <2>1, <2>2
<1>20. CASE OutClear(t)
    BY <1>20, NullFacts, AtWork, OwnerType DEF OutClear, Goto
<1>21. CASE OutClean(t)
    BY <1>21, NullFacts, AtWork, OwnerType DEF OutClean, OutSucceeds, Goto
<1>22. CASE OutWrite(t)
  <2>1. CASE out_pg[t] \in DenyWrite
      BY <1>22, <2>1, NullFacts, AtWork, OwnerType, SMTT(30)
      DEF OutWrite, OutFails, OutSucceeds, Unlock, Goto
  <2>2. CASE out_pg[t] \notin DenyWrite
      BY <1>22, <2>2, NullFacts, AtWork, OwnerType, SMTT(30)
      DEF OutWrite, OutFails, OutSucceeds, Unlock, Goto
  <2>3. QED
      BY <2>1, <2>2
<1>23. CASE OutSwap(t)
  <2>1. CASE Slot \subseteq sw_bitmap
      BY <1>23, <2>1, NullFacts, AtWork, OwnerType, SMTT(30)
      DEF OutSwap, FlipSlot, OutFails, OutSucceeds, Unlock, Goto
  <2>2. CASE ~(Slot \subseteq sw_bitmap)
      BY <1>23, <2>2, NullFacts, AtWork, OwnerType, SMTT(30)
      DEF OutSwap, FlipSlot, OutFails, OutSucceeds, Unlock, Goto
  <2>3. QED
      BY <2>1, <2>2
<1>24. CASE OutDone(t)
    BY <1>24, NullFacts, AtWork, OwnerType, SMTT(30)
    DEF OutDone, Goto, FrameInv
<1>25. CASE LoadPage(t)
    BY <1>25, NullFacts, AtWork, OwnerType DEF LoadPage, FilledWith, Goto
<1>26. CASE SwapReset(t)
    BY <1>26, NullFacts, AtWork, OwnerType, SMTT(30) DEF SwapReset, Goto
<1>27. CASE SwapClear(t)
    BY <1>27, NullFacts, AtWork, OwnerType DEF SwapClear, Goto
<1>28. CASE MapPage(t)
  <2>1. CASE op[t] = "lock_page"
      BY <1>28, <2>1, NullFacts, AtWork, OwnerType, SMTT(30)
      DEF MapPage, Return, Unlock, Goto
  <2>2. CASE op[t] # "lock_page"
      BY <1>28, <2>2, NullFacts, AtWork, OwnerType, SMTT(30)
      DEF MapPage, Return, Unlock, Goto
  <2>3. QED
      BY <2>1, <2>2
<1>29. CASE MapFails(t)
  <2>1. CASE op[t] = "lock_page"
      BY <1>29, <2>1, NullFacts, AtWork, OwnerType, SMTT(30)
      DEF MapFails, Return, Unlock, Goto
  <2>2. CASE op[t] # "lock_page"
      BY <1>29, <2>2, NullFacts, AtWork, OwnerType, SMTT(30)
      DEF MapFails, Return, Unlock, Goto
  <2>3. QED
      BY <2>1, <2>2
<1>30. CASE CopyString(t)
  <2>1. CASE pte[cur_pg[t]] # NULL
      BY <1>30, <2>1, NullFacts, AtWork, OwnerType, SMTT(30)
      DEF CopyString, Return, Unlock, Goto
  <2>2. CASE pte[cur_pg[t]] = NULL
      BY <1>30, <2>2, NullFacts, AtWork, OwnerType, SMTT(30)
      DEF CopyString, Return, Unlock, Goto
  <2>3. QED
      BY <2>1, <2>2
<1>31. CASE FreePage(t)
  <2>1. CASE pc[t] = "free"
      BY <1>31, <2>1, NullFacts, AtWork, OwnerType, SMTT(30)
      DEF FreePage, ReleaseFrame, Return, Unlock, Goto
  <2>2. CASE pc[t] # "free"
      BY <1>31, <2>2, NullFacts, AtWork, OwnerType, SMTT(30)
      DEF FreePage, ReleaseFrame, Return, Unlock, Goto
  <2>3. QED
      BY <2>1, <2>2
<1>32. QED
    BY <1>1, <1>2, <1>3, <1>4, <1>5, <1>6, <1>7, <1>8, <1>9, <1>10, <1>11,
        <1>12, <1>13, <1>14, <1>15, <1>16, <1>17, <1>18, <1>19, <1>20, <1>21,
        <1>22, <1>23, <1>24, <1>25, <1>26, <1>27, <1>28, <1>29, <1>30, <1>31
    DEF UserStep, KernelStep

\* lock_this_page and a fault while copying leave a frame locked only in a
\* process that exits and still has the page.
LEMMA LeakStep ==
    ASSUME TypeOK, CountInv, LockInv, WorkInv, BackInv, NoneInv, FrameInv,
               PhaseInv, LeakInv,
           NEW t \in Thread, UserStep(t) \/ KernelStep(t)
    PROVE  LeakInv'
<1> USE DEF At, vars, sharedVars, localVars, pgVars, pteVars, diskVars,
            LeakInv, PhaseInv, LockInv, WorkInv, Dying, PagesOf, WorkPcs,
            TypeOK, LocalTypeOK, SharedTypeOK, Pcs, HeldPcs, OutPcs, FillPcs
<1>1. ASSUME NEW p \in Page, Start(t, p) PROVE LeakInv'
    BY <1>1, NullFacts, AtWork, NewPagesFacts
    DEF Start, Begin, Goto, NoneInv, FrameInv
<1>2. ASSUME NEW p \in Page, Load(t, p) PROVE LeakInv'
    BY <1>2, NullFacts, AtWork DEF Load
<1>3. ASSUME NEW p \in Page, NEW v \in Value, Store(t, p, v) PROVE LeakInv'
    BY <1>3, NullFacts, AtWork DEF Store
<1>4. ASSUME NEW p \in Page, PageFault(t, p) PROVE LeakInv'
    BY <1>4, NullFacts, AtWork, PageForAddrFacts, SMTT(30)
    DEF PageFault, Begin, Goto, FrameInv
<1>5. CASE Exit(t)
    BY <1>5, NullFacts, AtWork DEF Exit, Goto
<1>6. CASE KernelFault(t)
    BY <1>6, NullFacts, AtWork DEF KernelFault, Goto
<1>7. ASSUME NEW p \in Page, Mmap(t, p) PROVE LeakInv'
    BY <1>7, NullFacts, AtWork, NewPagesFacts DEF Mmap, FrameInv
<1>8. ASSUME NEW p \in Page, Munmap(t, p) PROVE LeakInv'
    BY <1>8, NullFacts, AtWork DEF Munmap, Begin, Goto
<1>9. ASSUME NEW p \in Page, LockThisPage(t, p) PROVE LeakInv'
    BY <1>9, NullFacts, AtWork, PageForAddrFacts, SMTT(30)
    DEF LockThisPage, Begin, Goto, FrameInv
<1>10. ASSUME NEW p \in Page, DestroyNext(t, p) PROVE LeakInv'
    BY <1>10, NullFacts, AtWork DEF DestroyNext, Begin, Goto
<1>11. CASE Exited(t)
    BY <1>11, NullFacts, AtWork DEF Exited, Goto, FrameInv
<1>12. CASE ReadFrame(t)
  <2>1. CASE pg_frame[cur_pg[t]] = NULL
      BY <1>12, <2>1, NullFacts, AtWork, AfterLockLabels
      DEF ReadFrame, Locked, Goto
  <2>2. CASE pg_frame[cur_pg[t]] # NULL
      BY <1>12, <2>2, NullFacts, AtWork, AfterLockLabels
      DEF ReadFrame, Locked, Goto
  <2>3. QED
      BY <2>1, <2>2
<1>13. CASE AcquireFrame(t)
  <2>1. CASE pg_frame[cur_pg[t]] = cur_fr[t]
      BY <1>13, <2>1, NullFacts, AtWork, AfterLockLabels
      DEF AcquireFrame, Locked, Goto
  <2>2. CASE pg_frame[cur_pg[t]] # cur_fr[t]
      BY <1>13, <2>2, NullFacts, AtWork, AfterLockLabels
      DEF AcquireFrame, Locked, Goto
  <2>3. QED
      BY <2>1, <2>2
<1>14. CASE AcquireSLock(t)
    BY <1>14, NullFacts, AtWork DEF AcquireSLock, Goto
<1>15. CASE Scan(t)
  <2>1. CASE len[t] = NFrames
      BY <1>15, <2>1, NullFacts, AtWork, CounterTypes
      DEF Scan, LockFrame, Goto
  <2>2. CASE len[t] # NFrames
              /\ frm_lock[len[t]] = NULL /\ frm_page[len[t]] = NULL
      BY <1>15, <2>2, NullFacts, AtWork, CounterTypes
      DEF Scan, LockFrame, Goto
  <2>3. CASE len[t] # NFrames
              /\ ~(frm_lock[len[t]] = NULL /\ frm_page[len[t]] = NULL)
      BY <1>15, <2>3, NullFacts, AtWork, CounterTypes
      DEF Scan, LockFrame, Goto
  <2>4. QED
      BY <2>1, <2>2, <2>3
<1>16. CASE Clock(t)
  <2>1. CASE frm_lock[f_hand] = NULL /\ frm_page[f_hand] = NULL
      BY <1>16, <2>1, NullFacts, AtWork DEF Clock, NextHand, LockFrame, Goto
  <2>2. CASE frm_lock[f_hand] = NULL
              /\ frm_page[f_hand] # NULL /\ ~pte_a[frm_page[f_hand]]
      BY <1>16, <2>2, NullFacts, AtWork DEF Clock, NextHand, LockFrame, Goto
  <2>3. CASE frm_lock[f_hand] # NULL \/ (frm_page[f_hand] # NULL
              /\ pte_a[frm_page[f_hand]])
      BY <1>16, <2>3, NullFacts, AtWork DEF Clock, NextHand, LockFrame, Goto
  <2>4. QED
      BY <1>16, <2>1, <2>2, <2>3 DEF Clock
<1>17. CASE ClockFails(t)
    BY <1>17, NullFacts, AtWork DEF ClockFails, Goto
<1>18. CASE Retry(t)
  <2>1. CASE try[t] + 1 < Tries
      BY <1>18, <2>1, NullFacts, AtWork DEF Retry, Return, Goto
  <2>2. CASE ~(try[t] + 1 < Tries)
      BY <1>18, <2>2, NullFacts, AtWork DEF Retry, Return, Goto
  <2>3. QED
      BY <2>1, <2>2
<1>19. CASE TakeFrame(t)
  <2>1. CASE op[t] = "setup_stack"
      BY <1>19, <2>1, NullFacts, AtWork, SMTT(30)
      DEF TakeFrame, Unlock, Return, Goto
  <2>2. CASE op[t] # "setup_stack"
      BY <1>19, <2>2, NullFacts, AtWork, SMTT(30)
      DEF TakeFrame, Unlock, Return, Goto
  <2>3. QED
      BY <2>1, <2>2
<1>20. CASE OutClear(t)
    BY <1>20, NullFacts, AtWork DEF OutClear, Goto
<1>21. CASE OutClean(t)
    BY <1>21, NullFacts, AtWork DEF OutClean, OutSucceeds, Goto
<1>22. CASE OutWrite(t)
  <2>1. CASE out_pg[t] \in DenyWrite
      BY <1>22, <2>1, NullFacts, AtWork, SMTT(30)
      DEF OutWrite, OutFails, OutSucceeds, Unlock, Goto
  <2>2. CASE out_pg[t] \notin DenyWrite
      BY <1>22, <2>2, NullFacts, AtWork, SMTT(30)
      DEF OutWrite, OutFails, OutSucceeds, Unlock, Goto
  <2>3. QED
      BY <2>1, <2>2
<1>23. CASE OutSwap(t)
  <2>1. CASE Slot \subseteq sw_bitmap
      BY <1>23, <2>1, NullFacts, AtWork, SMTT(30)
      DEF OutSwap, FlipSlot, OutFails, OutSucceeds, Unlock, Goto
  <2>2. CASE ~(Slot \subseteq sw_bitmap)
      BY <1>23, <2>2, NullFacts, AtWork, SMTT(30)
      DEF OutSwap, FlipSlot, OutFails, OutSucceeds, Unlock, Goto
  <2>3. QED
      BY <2>1, <2>2
<1>24. CASE OutDone(t)
    BY <1>24, NullFacts, AtWork, SMTT(30) DEF OutDone, Goto
<1>25. CASE LoadPage(t)
    BY <1>25, NullFacts, AtWork DEF LoadPage, FilledWith, Goto
<1>26. CASE SwapReset(t)
    BY <1>26, NullFacts, AtWork, SMTT(30) DEF SwapReset, Goto
<1>27. CASE SwapClear(t)
    BY <1>27, NullFacts, AtWork DEF SwapClear, Goto
<1>28. CASE MapPage(t)
  <2>1. CASE op[t] = "lock_page"
      BY <1>28, <2>1, NullFacts, AtWork, SMTT(30)
      DEF MapPage, Return, Unlock, Goto
  <2>2. CASE op[t] # "lock_page"
      BY <1>28, <2>2, NullFacts, AtWork, SMTT(30)
      DEF MapPage, Return, Unlock, Goto
  <2>3. QED
      BY <2>1, <2>2
<1>29. CASE MapFails(t)
  <2>1. CASE op[t] = "lock_page"
      BY <1>29, <2>1, NullFacts, AtWork, SMTT(30)
      DEF MapFails, Return, Unlock, Goto
  <2>2. CASE op[t] # "lock_page"
      BY <1>29, <2>2, NullFacts, AtWork, SMTT(30)
      DEF MapFails, Return, Unlock, Goto
  <2>3. QED
      BY <2>1, <2>2
<1>30. CASE CopyString(t)
  <2>1. CASE pte[cur_pg[t]] # NULL
      BY <1>30, <2>1, NullFacts, AtWork, SMTT(30)
      DEF CopyString, Return, Unlock, Goto
  <2>2. CASE pte[cur_pg[t]] = NULL
      BY <1>30, <2>2, NullFacts, AtWork, SMTT(30)
      DEF CopyString, Return, Unlock, Goto
  <2>3. QED
      BY <2>1, <2>2
<1>31. CASE FreePage(t)
  <2>1. CASE pc[t] = "free"
      BY <1>31, <2>1, NullFacts, AtWork, SMTT(30)
      DEF FreePage, ReleaseFrame, Return, Unlock, Goto
  <2>2. CASE pc[t] # "free"
      BY <1>31, <2>2, NullFacts, AtWork, SMTT(30)
      DEF FreePage, ReleaseFrame, Return, Unlock, Goto
  <2>3. QED
      BY <2>1, <2>2
<1>32. QED
    BY <1>1, <1>2, <1>3, <1>4, <1>5, <1>6, <1>7, <1>8, <1>9, <1>10, <1>11,
        <1>12, <1>13, <1>14, <1>15, <1>16, <1>17, <1>18, <1>19, <1>20, <1>21,
        <1>22, <1>23, <1>24, <1>25, <1>26, <1>27, <1>28, <1>29, <1>30, <1>31
    DEF UserStep, KernelStep

\* page_swap_out takes a slot no page has, page_swap_in gives one back that
\* no other page has.
LEMMA SlotStep ==
    ASSUME TypeOK, LockInv, WorkInv, BackInv, NoneInv, FrameInv, PhaseInv,
               SlotInv,
           NEW t \in Thread, UserStep(t) \/ KernelStep(t)
    PROVE  SlotInv'
<1> USE DEF At, vars, sharedVars, localVars, pgVars, pteVars, diskVars,
            SlotInv, SlotOwnership, ReleasingSlot, WorkPcs, TypeOK,
            LocalTypeOK, SharedTypeOK, Pcs, HeldPcs, OutPcs, FillPcs
<1>1. ASSUME NEW p \in Page, Start(t, p) PROVE SlotInv'
    BY <1>1, NullFacts, AtWork, OwnerType, NewPagesFacts
    DEF Start, PagesOf, Begin, Goto
<1>2. ASSUME NEW p \in Page, Load(t, p) PROVE SlotInv'
    BY <1>2, NullFacts, AtWork, OwnerType DEF Load, PagesOf
<1>3. ASSUME NEW p \in Page, NEW v \in Value, Store(t, p, v) PROVE SlotInv'
    BY <1>3, NullFacts, AtWork, OwnerType DEF Store, PagesOf
<1>4. ASSUME NEW p \in Page, PageFault(t, p) PROVE SlotInv'
    BY <1>4, NullFacts, AtWork, OwnerType, PageForAddrFacts, SMTT(30)
    DEF PageFault, PagesOf, Begin, Goto
<1>5. CASE Exit(t)
    BY <1>5, NullFacts, AtWork, OwnerType DEF Exit, Goto
<1>6. CASE KernelFault(t)
    BY <1>6, NullFacts, AtWork, OwnerType DEF KernelFault, Goto
<1>7. ASSUME NEW p \in Page, Mmap(t, p) PROVE SlotInv'
    BY <1>7, NullFacts, AtWork, OwnerType, NewPagesFacts DEF Mmap, PagesOf
<1>8. ASSUME NEW p \in Page, Munmap(t, p) PROVE SlotInv'
    BY <1>8, NullFacts, AtWork, OwnerType DEF Munmap, PagesOf, Begin, Goto
<1>9. ASSUME NEW p \in Page, LockThisPage(t, p) PROVE SlotInv'
    BY <1>9, NullFacts, AtWork, OwnerType, PageForAddrFacts, SMTT(30)
    DEF LockThisPage, PagesOf, Begin, Goto
<1>10. ASSUME NEW p \in Page, DestroyNext(t, p) PROVE SlotInv'
    BY <1>10, NullFacts, AtWork, OwnerType
    DEF DestroyNext, PagesOf, Begin, Goto
<1>11. CASE Exited(t)
    BY <1>11, NullFacts, AtWork, OwnerType DEF Exited, PagesOf, Goto
<1>12. CASE ReadFrame(t)
  <2>1. CASE pg_frame[cur_pg[t]] = NULL
      BY <1>12, <2>1, NullFacts, AtWork, OwnerType, AfterLockLabels
      DEF ReadFrame, Locked, Goto
  <2>2. CASE pg_frame[cur_pg[t]] # NULL
      BY <1>12, <2>2, NullFacts, AtWork, OwnerType, AfterLockLabels
      DEF ReadFrame, Locked, Goto
  <2>3. QED
      BY <2>1, <2>2
<1>13. CASE AcquireFrame(t)
  <2>1. CASE pg_frame[cur_pg[t]] = cur_fr[t]
      BY <1>13, <2>1, NullFacts, AtWork, OwnerType, AfterLockLabels
      DEF AcquireFrame, Locked, Goto, PhaseInv
  <2>2. CASE pg_frame[cur_pg[t]] # cur_fr[t]
      BY <1>13, <2>2, NullFacts, AtWork, OwnerType, AfterLockLabels
      DEF AcquireFrame, Locked, Goto, PhaseInv
  <2>3. QED
      BY <2>1, <2>2
<1>14. CASE AcquireSLock(t)
    BY <1>14, NullFacts, AtWork, OwnerType DEF AcquireSLock, Goto
<1>15. CASE Scan(t)
  <2>1. CASE len[t] = NFrames
      BY <1>15, <2>1, NullFacts, AtWork, OwnerType DEF Scan, LockFrame, Goto
  <2>2. CASE len[t] # NFrames
              /\ frm_lock[len[t]] = NULL /\ frm_page[len[t]] = NULL
      BY <1>15, <2>2, NullFacts, AtWork, OwnerType DEF Scan, LockFrame, Goto
  <2>3. CASE len[t] # NFrames
              /\ ~(frm_lock[len[t]] = NULL /\ frm_page[len[t]] = NULL)
      BY <1>15, <2>3, NullFacts, AtWork, OwnerType DEF Scan, LockFrame, Goto
  <2>4. QED
      BY <2>1, <2>2, <2>3
<1>16. CASE Clock(t)
  <2>1. CASE frm_lock[f_hand] = NULL /\ frm_page[f_hand] = NULL
      BY <1>16, <2>1, NullFacts, AtWork, OwnerType
      DEF Clock, NextHand, LockFrame, Goto
  <2>2. CASE frm_lock[f_hand] = NULL
              /\ frm_page[f_hand] # NULL /\ ~pte_a[frm_page[f_hand]]
      BY <1>16, <2>2, NullFacts, AtWork, OwnerType
      DEF Clock, NextHand, LockFrame, Goto
  <2>3. CASE frm_lock[f_hand] # NULL \/ (frm_page[f_hand] # NULL
              /\ pte_a[frm_page[f_hand]])
      BY <1>16, <2>3, NullFacts, AtWork, OwnerType
      DEF Clock, NextHand, LockFrame, Goto
  <2>4. QED
      BY <1>16, <2>1, <2>2, <2>3 DEF Clock
<1>17. CASE ClockFails(t)
    BY <1>17, NullFacts, AtWork, OwnerType DEF ClockFails, Goto
<1>18. CASE Retry(t)
  <2>1. CASE try[t] + 1 < Tries
      BY <1>18, <2>1, NullFacts, AtWork, OwnerType DEF Retry, Return, Goto
  <2>2. CASE ~(try[t] + 1 < Tries)
      BY <1>18, <2>2, NullFacts, AtWork, OwnerType DEF Retry, Return, Goto
  <2>3. QED
      BY <2>1, <2>2
<1>19. CASE TakeFrame(t)
  <2>1. CASE op[t] = "setup_stack"
      BY <1>19, <2>1, NullFacts, AtWork, OwnerType, SMTT(30)
      DEF TakeFrame, Unlock, Return, Goto
  <2>2. CASE op[t] # "setup_stack"
      BY <1>19, <2>2, NullFacts, AtWork, OwnerType, SMTT(30)
      DEF TakeFrame, Unlock, Return, Goto
  <2>3. QED
      BY <2>1, <2>2
<1>20. CASE OutClear(t)
    BY <1>20, NullFacts, AtWork, OwnerType DEF OutClear, Goto
<1>21. CASE OutClean(t)
    BY <1>21, NullFacts, AtWork, OwnerType DEF OutClean, OutSucceeds, Goto
<1>22. CASE OutWrite(t)
  <2>1. CASE out_pg[t] \in DenyWrite
      BY <1>22, <2>1, NullFacts, AtWork, OwnerType, SMTT(30)
      DEF OutWrite, OutFails, OutSucceeds, Unlock, Goto
  <2>2. CASE out_pg[t] \notin DenyWrite
      BY <1>22, <2>2, NullFacts, AtWork, OwnerType, SMTT(30)
      DEF OutWrite, OutFails, OutSucceeds, Unlock, Goto
  <2>3. QED
      BY <2>1, <2>2
<1>23. CASE OutSwap(t)
  <2>1. CASE Slot \subseteq sw_bitmap
      BY <1>23, <2>1, NullFacts, AtWork, OwnerType, SMTT(30)
      DEF OutSwap, FlipSlot, OutFails, OutSucceeds, Unlock, Goto, PhaseInv,
          LockInv
  <2>2. CASE ~(Slot \subseteq sw_bitmap)
      BY <1>23, <2>2, NullFacts, AtWork, OwnerType, SMTT(30)
      DEF OutSwap, FlipSlot, OutFails, OutSucceeds, Unlock, Goto, PhaseInv,
          LockInv
  <2>3. QED
      BY <2>1, <2>2
<1>24. CASE OutDone(t)
    BY <1>24, NullFacts, AtWork, OwnerType, SMTT(30) DEF OutDone, Goto
<1>25. CASE LoadPage(t)
    BY <1>25, NullFacts, AtWork, OwnerType DEF LoadPage, FilledWith, Goto
<1>26. CASE SwapReset(t)
    BY <1>26, NullFacts, AtWork, OwnerType, SMTT(30) DEF SwapReset, Goto
<1>27. CASE SwapClear(t)
    BY <1>27, NullFacts, AtWork, OwnerType DEF SwapClear, Goto
<1>28. CASE MapPage(t)
  <2>1. CASE op[t] = "lock_page"
      BY <1>28, <2>1, NullFacts, AtWork, OwnerType, SMTT(30)
      DEF MapPage, Return, Unlock, Goto
  <2>2. CASE op[t] # "lock_page"
      BY <1>28, <2>2, NullFacts, AtWork, OwnerType, SMTT(30)
      DEF MapPage, Return, Unlock, Goto
  <2>3. QED
      BY <2>1, <2>2
<1>29. CASE MapFails(t)
  <2>1. CASE op[t] = "lock_page"
      BY <1>29, <2>1, NullFacts, AtWork, OwnerType, SMTT(30)
      DEF MapFails, Return, Unlock, Goto
  <2>2. CASE op[t] # "lock_page"
      BY <1>29, <2>2, NullFacts, AtWork, OwnerType, SMTT(30)
      DEF MapFails, Return, Unlock, Goto
  <2>3. QED
      BY <2>1, <2>2
<1>30. CASE CopyString(t)
  <2>1. CASE pte[cur_pg[t]] # NULL
      BY <1>30, <2>1, NullFacts, AtWork, OwnerType, SMTT(30)
      DEF CopyString, Return, Unlock, Goto
  <2>2. CASE pte[cur_pg[t]] = NULL
      BY <1>30, <2>2, NullFacts, AtWork, OwnerType, SMTT(30)
      DEF CopyString, Return, Unlock, Goto
  <2>3. QED
      BY <2>1, <2>2
<1>31. CASE FreePage(t)
  <2>1. CASE pc[t] = "free"
      BY <1>31, <2>1, NullFacts, AtWork, OwnerType, SMTT(30)
      DEF FreePage, ReleaseFrame, Return, Unlock, Goto
  <2>2. CASE pc[t] # "free"
      BY <1>31, <2>2, NullFacts, AtWork, OwnerType, SMTT(30)
      DEF FreePage, ReleaseFrame, Return, Unlock, Goto
  <2>3. QED
      BY <2>1, <2>2
<1>32. QED
    BY <1>1, <1>2, <1>3, <1>4, <1>5, <1>6, <1>7, <1>8, <1>9, <1>10, <1>11,
        <1>12, <1>13, <1>14, <1>15, <1>16, <1>17, <1>18, <1>19, <1>20, <1>21,
        <1>22, <1>23, <1>24, <1>25, <1>26, <1>27, <1>28, <1>29, <1>30, <1>31
    DEF UserStep, KernelStep

-----------------------------------------------------------------------------
(***************************************************************************)
(* The invariant and what follows from it.                                 *)
(***************************************************************************)

\* The kernel starts in the invariant: frame_init and swap_init leave every
\* frame and slot free, and there is no process.
LEMMA InitIInv == Init => IInv
<1> SUFFICES ASSUME Init PROVE IInv
    OBVIOUS
<1> USE ConstantsAssumption DEF Init
<1>1. SharedTypeOK
    BY DEF SharedTypeOK, Frame
<1>2. LocalTypeOK
    BY DEF LocalTypeOK, Pcs, Ops
<1>3. CountInv /\ LockInv /\ WorkInv
    BY DEF CountInv, LockInv, WorkInv, WorkPcs, HeldPcs, OutPcs, FillPcs,
           PagesOf
<1>4. NoneInv /\ FrameInv /\ PhaseInv
    BY DEF NoneInv, FrameInv, PhaseInv, OutPcs, FillPcs, AllocPcs
<1>5. BackInv /\ PteInv
    BY DEF BackInv, PteInv, FillPcs
<1>6. LeakInv
    BY DEF LeakInv
<1>7. SlotInv
    BY DEF SlotInv, SlotOwnership
<1>8. QED
    BY <1>1, <1>2, <1>3, <1>4, <1>5, <1>6, <1>7 DEF IInv, TypeOK

\* Every step of every thread, in user code or in the kernel, keeps the
\* invariant.
LEMMA NextIInv == IInv /\ [Next]_vars => IInv'
<1> SUFFICES ASSUME IInv, [Next]_vars PROVE IInv'
    OBVIOUS
<1>1. ASSUME NEW t \in Thread, UserStep(t) \/ KernelStep(t)
      PROVE  IInv'
  <2> USE DEF IInv
  <2>1. TypeOK'
      BY <1>1, SharedTypeStep, LocalTypeStep DEF TypeOK
  <2>2. CountInv' /\ LockInv' /\ WorkInv' /\ NoneInv'
      BY <1>1, CountStep, LockStep, WorkStep, NoneStep
  <2>3. FrameInv' /\ PhaseInv' /\ BackInv' /\ PteInv'
      BY <1>1, FrameStep, PhaseStep, BackStep, PteStep
  <2>4. LeakInv' /\ SlotInv'
      BY <1>1, LeakStep, SlotStep
  <2>5. QED
      BY <2>1, <2>2, <2>3, <2>4
<1>2. CASE UNCHANGED vars
  <2> USE <1>2 DEF IInv, vars, sharedVars, localVars, pgVars, pteVars, diskVars
  <2>1. TypeOK'
      BY DEF TypeOK, SharedTypeOK, LocalTypeOK
  <2>2. CountInv' /\ LockInv' /\ WorkInv' /\ NoneInv'
      BY DEF CountInv, LockInv, WorkInv, NoneInv
  <2>3. FrameInv' /\ PhaseInv' /\ BackInv'
      BY DEF FrameInv, PhaseInv, BackInv
  <2>4. PteInv' /\ LeakInv'
      BY DEF PteInv, LeakInv, Dying
  <2>5. SlotInv'
      BY DEF SlotInv, SlotOwnership, ReleasingSlot
  <2>6. QED
      BY <2>1, <2>2, <2>3, <2>4, <2>5
<1>3. QED
    BY <1>1, <1>2 DEF Next, Halted

\* IInv is an invariant of the paging code.
THEOREM Invariance == Spec => []IInv
<1>1. QED
    BY InitIInv, NextIInv, PTL DEF Spec

\* The state of frame.c, page.c and swap.c is always well typed.
THEOREM TypeCorrect == Spec => []TypeOK
<1>1. IInv => TypeOK
    BY DEF IInv
<1>2. QED
    BY <1>1, Invariance, PTL

\* For any number of processes, pages and frames, no process that runs user
\* code reaches a frame that does not hold its own page.
THEOREM IsolationHolds == Spec => []Isolation
<1>1. IInv => Isolation
    BY NullFacts DEF IInv, Isolation, PteInv, FrameInv, TypeOK, SharedTypeOK
<1>2. QED
    BY <1>1, Invariance, PTL

\* A frame nobody has locked is not held by a thread about to change it.
LEMMA UnlockedFrame ==
    ASSUME IInv, NEW f \in Frame, frm_lock[f] = NULL, frm_page[f] # NULL
    PROVE  pg_frame[frm_page[f]] = f
<1>1. ~\E t \in Thread : pc[t] \in {"take", "free"} /\ cur_fr[t] = f
    BY NullFacts DEF IInv, LockInv, HeldPcs
<1>2. QED
    BY <1>1 DEF IInv, FrameInv

\* Frames and pages point at each other, no page is in two frames and no
\* frame nobody has locked points at a freed struct page.
THEOREM FrameOwnershipHolds == Spec => []FrameOwnership
<1>1. ASSUME IInv PROVE FrameOwnership
  <2>1. \A p \in Page : pg_frame[p] # NULL => frm_page[pg_frame[p]] = p
      BY <1>1 DEF IInv, FrameInv
  <2>2. ASSUME NEW f \in Frame, frm_page[f] # NULL, frm_lock[f] = NULL
        PROVE  pg_live[frm_page[f]] /\ pg_frame[frm_page[f]] = f
    <3>1. frm_page[f] \in Page
        BY <1>1, <2>2 DEF IInv, TypeOK, SharedTypeOK
    <3>2. pg_frame[frm_page[f]] = f
        BY <1>1, <2>2, UnlockedFrame
    <3>3. QED
        BY <1>1, <3>1, <3>2, NullFacts DEF IInv, FrameInv
  <2>3. QED
      BY <2>1, <2>2 DEF FrameOwnership
<1>2. QED
    BY <1>1, Invariance, PTL

\* No two pages share a swap slot, and the slot of a page is marked.
THEOREM SlotOwnershipHolds == Spec => []SlotOwnership
<1>1. IInv => SlotOwnership
    BY DEF IInv, SlotInv
<1>2. QED
    BY <1>1, Invariance, PTL

\* A thread that searches for a frame has none locked.
LEMMA SearchHoldsNone ==
    ASSUME IInv, NEW t \in Thread, pc[t] \in {"scan", "clock"},
           NEW f \in Frame
    PROVE  frm_lock[f] # t
<1>1. pc[t] \notin HeldPcs
    BY DEF HeldPcs, OutPcs, FillPcs
<1>2. ~Dying(t)
    BY DEF IInv, WorkInv, Dying
<1>3. QED
    BY <1>1, <1>2 DEF IInv, LeakInv

\* No ASSERT of the paging code other than lock_acquire's ever fails.
THEOREM NoAssertFailsHolds == Spec => []NoAssertFails
<1>1. ASSUME IInv PROVE NoAssertFails
  <2> SUFFICES ASSUME NEW t \in Thread PROVE AssertsOf(t)
      BY DEF NoAssertFails
  <2> USE <1>1
  <2>1. pc[t] = "lcf_acq" => pg_frame[cur_pg[t]] \in {cur_fr[t], NULL}
      BY DEF IInv, PhaseInv
  <2>2. pc[t] = "scan" /\ len[t] < NFrames => frm_lock[len[t]] # t
    <3>1. len[t] < NFrames => len[t] # NFrames
        BY ConstantsAssumption DEF IInv, TypeOK, LocalTypeOK
    <3>2. QED
        BY <3>1, CounterTypes, SearchHoldsNone DEF IInv
  <2>3. pc[t] = "clock" =>
            /\ frm_lock[f_hand] # t
            /\ frm_lock[f_hand] = NULL /\ frm_page[f_hand] # NULL
                  => pg_frame[frm_page[f_hand]] = f_hand
    <3>1. f_hand \in Frame
        BY DEF IInv, TypeOK, SharedTypeOK
    <3>2. QED
        BY <3>1, SearchHoldsNone, UnlockedFrame
  <2>4. pc[t] \in OutPcs => HeldBy(t, pg_frame[out_pg[t]])
      BY NullFacts DEF IInv, PhaseInv, LockInv, HeldPcs, HeldBy
  <2>5. pc[t] \in FillPcs => HeldBy(t, pg_frame[cur_pg[t]])
      BY NullFacts DEF IInv, PhaseInv, LockInv, HeldPcs, HeldBy
  <2>6. pc[t] = "swap_reset" => pg_swap[cur_pg[t]] # NULL
      BY DEF IInv, SlotInv
  <2>7. pc[t] = "map" => pte[cur_pg[t]] = NULL
      BY DEF IInv, PteInv, FillPcs
  <2>8. pc[t] = "free" => HeldBy(t, cur_fr[t])
      BY NullFacts DEF IInv, LockInv, HeldPcs, HeldBy
  <2>9. QED
      BY <2>1, <2>2, <2>3, <2>4, <2>5, <2>6, <2>7, <2>8
      DEF AssertsOf, OutPcs, FillPcs
<1>2. QED
    BY <1>1, Invariance, PTL

-----------------------------------------------------------------------------
(***************************************************************************)
(* What a step writes.                                                     *)
(***************************************************************************)

\* allocation_of_page for pages of Q, which the process does not have yet.
Adds(t, Q) == NewPages(Q) /\ \A q \in Q : q \in Page /\ Owner[q] = t /\ ~pg_live[q]

\* The only steps of thread t that change each part of the state.
Writes(t) ==
    /\ \A u \in Thread \ {t} :
          /\ pc'[u] = pc[u] /\ op'[u] = op[u] /\ cur_pg'[u] = cur_pg[u]
          /\ cur_fr'[u] = cur_fr[u] /\ out_pg'[u] = out_pg[u]
    /\ frm_data' = frm_data \/ LoadPage(t)
          \/ \E p \in Page, v \in Value : Store(t, p, v)
    /\ file_data' = file_data \/ OutWrite(t)
    /\ sw_data' = sw_data \/ OutSwap(t)
    /\ UNCHANGED pgVars \/ TakeFrame(t) \/ OutSwap(t) \/ OutDone(t)
          \/ SwapClear(t) \/ FreePage(t) \/ \E Q \in SUBSET Page : Adds(t, Q)
    /\ pte' = pte \/ Exited(t) \/ OutClear(t) \/ MapPage(t)
    /\ pte_d' = pte_d \/ Exited(t) \/ MapPage(t)
          \/ \E p \in Page, v \in Value : Store(t, p, v)

\* Where a step takes the thread to and from a page_out or a page_in.
Moves(t) ==
    /\ pc[t] = "load" => LoadPage(t)
    /\ pc[t] = "swap_clear" => SwapClear(t)
    /\ pc[t] = "out_dirty" => OutClean(t) \/ OutWrite(t) \/ OutSwap(t)
    /\ pc[t] = "out_done" => OutDone(t)
    /\ pc'[t] = "load" => TakeFrame(t)
    /\ pc'[t] = "swap_clear" => SwapReset(t)
    /\ pc'[t] = "out_dirty" => OutClear(t)
    /\ pc'[t] = "out_done" => OutClean(t) \/ OutWrite(t) \/ OutSwap(t)
    /\ pc'[t] = "free" /\ op'[t] = "munmap" =>
          OutDone(t) \/ OutWrite(t) \/ OutSwap(t)
    /\ op'[t] = "setup_stack" =>
          \/ \E p \in Page : Start(t, p)
          \/ op[t] = "setup_stack" /\ cur_pg'[t] = cur_pg[t]

\* Each step writes only its part of the state, and its own locals.
LEMMA StepWrites ==
    ASSUME TypeOK, NoneInv,
           NEW t \in Thread, UserStep(t) \/ KernelStep(t)
    PROVE  Writes(t)
<1> USE DEF Writes, At, vars, sharedVars, localVars, pgVars, pteVars, diskVars,
            TypeOK, LocalTypeOK, SharedTypeOK
<1>1. ASSUME NEW p \in Page, Start(t, p) PROVE Writes(t)
  <2> DEFINE Q == {q \in PagesOf(t) : Kind[q] \in {"code", "data", "stack"}}
  <2>1. Adds(t, Q)
      BY <1>1 DEF Start, Adds, PagesOf, NoneInv
  <2>2. Q \in SUBSET Page
      BY <1>1 DEF Start, PagesOf, NoneInv
  <2> HIDE DEF Q
  <2>3. \E Q1 \in SUBSET Page : Adds(t, Q1)
      BY <2>1, <2>2
  <2>4. QED
      BY <1>1, <2>3 DEF Start, Begin, Goto
<1>2. ASSUME NEW p \in Page, Load(t, p) PROVE Writes(t)
    BY <1>2 DEF Load, PagesOf
<1>3. ASSUME NEW p \in Page, NEW v \in Value, Store(t, p, v) PROVE Writes(t)
    BY <1>3 DEF Store, PagesOf
<1>4. ASSUME NEW p \in Page, PageFault(t, p) PROVE Writes(t)
  <2> DEFINE Q == IF pg_live[p] THEN {} ELSE {p}
  <2>1. Adds(t, Q)
      BY <1>4 DEF PageFault, Adds, PageForAddr, PagesOf
  <2>2. Q \in SUBSET Page
      BY <1>4 DEF PageFault, PageForAddr, PagesOf
  <2> HIDE DEF Q
  <2>3. \E Q1 \in SUBSET Page : Adds(t, Q1)
      BY <2>1, <2>2
  <2>4. QED
      BY <1>4, <2>3 DEF PageFault, Begin, Goto
<1>5. CASE Exit(t)
    BY <1>5 DEF Exit, Goto
<1>6. CASE KernelFault(t)
    BY <1>6 DEF KernelFault, Goto
<1>7. ASSUME NEW p \in Page, Mmap(t, p) PROVE Writes(t)
  <2> DEFINE Q == {p}
  <2>1. Adds(t, Q)
      BY <1>7 DEF Mmap, Adds, PagesOf
  <2>2. Q \in SUBSET Page
      BY <1>7 DEF Mmap, PagesOf
  <2> HIDE DEF Q
  <2>3. \E Q1 \in SUBSET Page : Adds(t, Q1)
      BY <2>1, <2>2
  <2>4. QED
      BY <1>7, <2>3 DEF Mmap, Begin, Goto
<1>8. ASSUME NEW p \in Page, Munmap(t, p) PROVE Writes(t)
    BY <1>8 DEF Munmap, PagesOf, Begin, Goto
<1>9. ASSUME NEW p \in Page, LockThisPage(t, p) PROVE Writes(t)
  <2> DEFINE Q == IF pg_live[p] THEN {} ELSE {p}
  <2>1. Adds(t, Q)
      BY <1>9 DEF LockThisPage, Adds, PageForAddr, PagesOf
  <2>2. Q \in SUBSET Page
      BY <1>9 DEF LockThisPage, PageForAddr, PagesOf
  <2> HIDE DEF Q
  <2>3. \E Q1 \in SUBSET Page : Adds(t, Q1)
      BY <2>1, <2>2
  <2>4. QED
      BY <1>9, <2>3 DEF LockThisPage, Begin, Goto
<1>10. ASSUME NEW p \in Page, DestroyNext(t, p) PROVE Writes(t)
    BY <1>10
    DEF DestroyNext, PagesOf, Begin, Goto
<1>11. CASE Exited(t)
    BY <1>11 DEF Exited, PagesOf, Goto
<1>12. CASE ReadFrame(t)
  <2>1. CASE pg_frame[cur_pg[t]] = NULL
      BY <1>12, <2>1, AfterLockLabels
      DEF ReadFrame, Locked, Goto
  <2>2. CASE pg_frame[cur_pg[t]] # NULL
      BY <1>12, <2>2, AfterLockLabels
      DEF ReadFrame, Locked, Goto
  <2>3. QED
      BY <2>1, <2>2
<1>13. CASE AcquireFrame(t)
  <2>1. CASE pg_frame[cur_pg[t]] = cur_fr[t]
      BY <1>13, <2>1, AfterLockLabels
      DEF AcquireFrame, Locked, Goto
  <2>2. CASE pg_frame[cur_pg[t]] # cur_fr[t]
      BY <1>13, <2>2, AfterLockLabels
      DEF AcquireFrame, Locked, Goto
  <2>3. QED
      BY <2>1, <2>2
<1>14. CASE AcquireSLock(t)
    BY <1>14 DEF AcquireSLock, Goto
<1>15. CASE Scan(t)
  <2>1. CASE len[t] = NFrames
      BY <1>15, <2>1 DEF Scan, LockFrame, Goto
  <2>2. CASE len[t] # NFrames
              /\ frm_lock[len[t]] = NULL /\ frm_page[len[t]] = NULL
      BY <1>15, <2>2 DEF Scan, LockFrame, Goto
  <2>3. CASE len[t] # NFrames
              /\ ~(frm_lock[len[t]] = NULL /\ frm_page[len[t]] = NULL)
      BY <1>15, <2>3 DEF Scan, LockFrame, Goto
  <2>4. QED
      BY <2>1, <2>2, <2>3
<1>16. CASE Clock(t)
  <2>1. CASE frm_lock[f_hand] = NULL /\ frm_page[f_hand] = NULL
      BY <1>16, <2>1
      DEF Clock, NextHand, LockFrame, Goto
  <2>2. CASE frm_lock[f_hand] = NULL
              /\ frm_page[f_hand] # NULL /\ ~pte_a[frm_page[f_hand]]
      BY <1>16, <2>2
      DEF Clock, NextHand, LockFrame, Goto
  <2>3. CASE frm_lock[f_hand] # NULL \/ (frm_page[f_hand] # NULL
              /\ pte_a[frm_page[f_hand]])
      BY <1>16, <2>3
      DEF Clock, NextHand, LockFrame, Goto
  <2>4. QED
      BY <1>16, <2>1, <2>2, <2>3 DEF Clock
<1>17. CASE ClockFails(t)
    BY <1>17 DEF ClockFails, Goto
<1>18. CASE Retry(t)
  <2>1. CASE try[t] + 1 < Tries
      BY <1>18, <2>1 DEF Retry, Return, Goto
  <2>2. CASE ~(try[t] + 1 < Tries)
      BY <1>18, <2>2 DEF Retry, Return, Goto
  <2>3. QED
      BY <2>1, <2>2
<1>19. CASE TakeFrame(t)
  <2>1. CASE op[t] = "setup_stack"
      BY <1>19, <2>1
      DEF TakeFrame, Unlock, Return, Goto
  <2>2. CASE op[t] # "setup_stack"
      BY <1>19, <2>2
      DEF TakeFrame, Unlock, Return, Goto
  <2>3. QED
      BY <2>1, <2>2
<1>20. CASE OutClear(t)
    BY <1>20 DEF OutClear, Goto
<1>21. CASE OutClean(t)
    BY <1>21 DEF OutClean, OutSucceeds, Goto
<1>22. CASE OutWrite(t)
  <2>1. CASE out_pg[t] \in DenyWrite
      BY <1>22, <2>1
      DEF OutWrite, OutFails, OutSucceeds, Unlock, Goto
  <2>2. CASE out_pg[t] \notin DenyWrite
      BY <1>22, <2>2
      DEF OutWrite, OutFails, OutSucceeds, Unlock, Goto
  <2>3. QED
      BY <2>1, <2>2
<1>23. CASE OutSwap(t)
  <2>1. CASE Slot \subseteq sw_bitmap
      BY <1>23, <2>1
      DEF OutSwap, FlipSlot, OutFails, OutSucceeds, Unlock, Goto
  <2>2. CASE ~(Slot \subseteq sw_bitmap)
      BY <1>23, <2>2
      DEF OutSwap, FlipSlot, OutFails, OutSucceeds, Unlock, Goto
  <2>3. QED
      BY <2>1, <2>2
<1>24. CASE OutDone(t)
    BY <1>24
    DEF OutDone, Goto, FrameInv
<1>25. CASE LoadPage(t)
    BY <1>25 DEF LoadPage, FilledWith, Goto
<1>26. CASE SwapReset(t)
    BY <1>26 DEF SwapReset, Goto
<1>27. CASE SwapClear(t)
    BY <1>27 DEF SwapClear, Goto
<1>28. CASE MapPage(t)
  <2>1. CASE op[t] = "lock_page"
      BY <1>28, <2>1
      DEF MapPage, Return, Unlock, Goto
  <2>2. CASE op[t] # "lock_page"
      BY <1>28, <2>2
      DEF MapPage, Return, Unlock, Goto
  <2>3. QED
      BY <2>1, <2>2
<1>29. CASE MapFails(t)
  <2>1. CASE op[t] = "lock_page"
      BY <1>29, <2>1
      DEF MapFails, Return, Unlock, Goto
  <2>2. CASE op[t] # "lock_page"
      BY <1>29, <2>2
      DEF MapFails, Return, Unlock, Goto
  <2>3. QED
      BY <2>1, <2>2
<1>30. CASE CopyString(t)
  <2>1. CASE pte[cur_pg[t]] # NULL
      BY <1>30, <2>1
      DEF CopyString, Return, Unlock, Goto
  <2>2. CASE pte[cur_pg[t]] = NULL
      BY <1>30, <2>2
      DEF CopyString, Return, Unlock, Goto
  <2>3. QED
      BY <2>1, <2>2
<1>31. CASE FreePage(t)
  <2>1. CASE pc[t] = "free"
      BY <1>31, <2>1
      DEF FreePage, ReleaseFrame, Return, Unlock, Goto
  <2>2. CASE pc[t] # "free"
      BY <1>31, <2>2
      DEF FreePage, ReleaseFrame, Return, Unlock, Goto
  <2>3. QED
      BY <2>1, <2>2
<1>32. QED
    BY <1>1, <1>2, <1>3, <1>4, <1>5, <1>6, <1>7, <1>8, <1>9, <1>10, <1>11,
        <1>12, <1>13, <1>14, <1>15, <1>16, <1>17, <1>18, <1>19, <1>20, <1>21,
        <1>22, <1>23, <1>24, <1>25, <1>26, <1>27, <1>28, <1>29, <1>30, <1>31
    DEF UserStep, KernelStep

\* Nothing else leads into or out of the labels of page_out and page_in.
LEMMA StepMoves ==
    ASSUME TypeOK, WorkInv, BackInv,
           NEW t \in Thread, UserStep(t) \/ KernelStep(t)
    PROVE  Moves(t)
<1> USE DEF Moves, At, vars, sharedVars, localVars, TypeOK, LocalTypeOK,
            WorkInv, WorkPcs, Pcs, HeldPcs, OutPcs, FillPcs, AllocPcs
<1>1. ASSUME NEW p \in Page, Start(t, p) PROVE Moves(t)
  <2>1. pc[t] = "none" /\ pc'[t] = "alloc"
      BY <1>1 DEF Start, Begin, Goto
  <2>2. \E q \in Page : Start(t, q)
      BY <1>1
  <2>3. QED
      BY <2>1, <2>2
<1>2. ASSUME NEW p \in Page, Load(t, p) PROVE Moves(t)
    BY <1>2 DEF Load, PagesOf
<1>3. ASSUME NEW p \in Page, NEW v \in Value, Store(t, p, v) PROVE Moves(t)
    BY <1>3 DEF Store, PagesOf
<1>4. ASSUME NEW p \in Page, PageFault(t, p) PROVE Moves(t)
    BY <1>4, PageForAddrFacts
    DEF PageFault, PagesOf, Begin, Goto, FrameInv
<1>5. CASE Exit(t)
    BY <1>5 DEF Exit, Goto
<1>6. CASE KernelFault(t)
    BY <1>6 DEF KernelFault, Goto
<1>7. ASSUME NEW p \in Page, Mmap(t, p) PROVE Moves(t)
    BY <1>7, NewPagesFacts
    DEF Mmap, PagesOf, FrameInv
<1>8. ASSUME NEW p \in Page, Munmap(t, p) PROVE Moves(t)
    BY <1>8 DEF Munmap, PagesOf, Begin, Goto
<1>9. ASSUME NEW p \in Page, LockThisPage(t, p) PROVE Moves(t)
    BY <1>9, PageForAddrFacts
    DEF LockThisPage, PagesOf, Begin, Goto, FrameInv
<1>10. ASSUME NEW p \in Page, DestroyNext(t, p) PROVE Moves(t)
    BY <1>10
    DEF DestroyNext, PagesOf, Begin, Goto
<1>11. CASE Exited(t)
    BY <1>11 DEF Exited, PagesOf, Goto
<1>12. CASE ReadFrame(t)
  <2>1. CASE pg_frame[cur_pg[t]] = NULL
      BY <1>12, <2>1, AfterLockLabels
      DEF ReadFrame, Locked, Goto
  <2>2. CASE pg_frame[cur_pg[t]] # NULL
      BY <1>12, <2>2, AfterLockLabels
      DEF ReadFrame, Locked, Goto
  <2>3. QED
      BY <2>1, <2>2
<1>13. CASE AcquireFrame(t)
  <2>1. CASE pg_frame[cur_pg[t]] = cur_fr[t]
      BY <1>13, <2>1, AfterLockLabels
      DEF AcquireFrame, Locked, Goto
  <2>2. CASE pg_frame[cur_pg[t]] # cur_fr[t]
      BY <1>13, <2>2, AfterLockLabels
      DEF AcquireFrame, Locked, Goto
  <2>3. QED
      BY <2>1, <2>2
<1>14. CASE AcquireSLock(t)
    BY <1>14 DEF AcquireSLock, Goto
<1>15. CASE Scan(t)
  <2>1. CASE len[t] = NFrames
      BY <1>15, <2>1 DEF Scan, LockFrame, Goto
  <2>2. CASE len[t] # NFrames
              /\ frm_lock[len[t]] = NULL /\ frm_page[len[t]] = NULL
      BY <1>15, <2>2 DEF Scan, LockFrame, Goto
  <2>3. CASE len[t] # NFrames
              /\ ~(frm_lock[len[t]] = NULL /\ frm_page[len[t]] = NULL)
      BY <1>15, <2>3 DEF Scan, LockFrame, Goto
  <2>4. QED
      BY <2>1, <2>2, <2>3
<1>16. CASE Clock(t)
  <2>1. CASE frm_lock[f_hand] = NULL /\ frm_page[f_hand] = NULL
      BY <1>16, <2>1
      DEF Clock, NextHand, LockFrame, Goto
  <2>2. CASE frm_lock[f_hand] = NULL
              /\ frm_page[f_hand] # NULL /\ ~pte_a[frm_page[f_hand]]
      BY <1>16, <2>2
      DEF Clock, NextHand, LockFrame, Goto
  <2>3. CASE frm_lock[f_hand] # NULL \/ (frm_page[f_hand] # NULL
              /\ pte_a[frm_page[f_hand]])
      BY <1>16, <2>3
      DEF Clock, NextHand, LockFrame, Goto
  <2>4. QED
      BY <1>16, <2>1, <2>2, <2>3 DEF Clock
<1>17. CASE ClockFails(t)
    BY <1>17 DEF ClockFails, Goto
<1>18. CASE Retry(t)
  <2>1. CASE try[t] + 1 < Tries
      BY <1>18, <2>1 DEF Retry, Return, Goto
  <2>2. CASE ~(try[t] + 1 < Tries)
      BY <1>18, <2>2 DEF Retry, Return, Goto
  <2>3. QED
      BY <2>1, <2>2
<1>19. CASE TakeFrame(t)
  <2>1. CASE op[t] = "setup_stack"
      BY <1>19, <2>1
      DEF TakeFrame, Unlock, Return, Goto
  <2>2. CASE op[t] # "setup_stack"
      BY <1>19, <2>2
      DEF TakeFrame, Unlock, Return, Goto
  <2>3. QED
      BY <2>1, <2>2
<1>20. CASE OutClear(t)
    BY <1>20 DEF OutClear, Goto
<1>21. CASE OutClean(t)
    BY <1>21 DEF OutClean, OutSucceeds, Goto
<1>22. CASE OutWrite(t)
  <2>1. CASE out_pg[t] \in DenyWrite
      BY <1>22, <2>1
      DEF OutWrite, OutFails, OutSucceeds, Unlock, Goto
  <2>2. CASE out_pg[t] \notin DenyWrite
      BY <1>22, <2>2
      DEF OutWrite, OutFails, OutSucceeds, Unlock, Goto
  <2>3. QED
      BY <2>1, <2>2
<1>23. CASE OutSwap(t)
  <2>1. CASE Slot \subseteq sw_bitmap
      BY <1>23, <2>1
      DEF OutSwap, FlipSlot, OutFails, OutSucceeds, Unlock, Goto
  <2>2. CASE ~(Slot \subseteq sw_bitmap)
      BY <1>23, <2>2
      DEF OutSwap, FlipSlot, OutFails, OutSucceeds, Unlock, Goto
  <2>3. QED
      BY <2>1, <2>2
<1>24. CASE OutDone(t)
    BY <1>24
    DEF OutDone, Goto, FrameInv
<1>25. CASE LoadPage(t)
    BY <1>25 DEF LoadPage, FilledWith, Goto
<1>26. CASE SwapReset(t)
    BY <1>26 DEF SwapReset, Goto
<1>27. CASE SwapClear(t)
    BY <1>27 DEF SwapClear, Goto
<1>28. CASE MapPage(t)
  <2>1. CASE op[t] = "lock_page"
      BY <1>28, <2>1
      DEF MapPage, Return, Unlock, Goto
  <2>2. CASE op[t] # "lock_page"
      BY <1>28, <2>2
      DEF MapPage, Return, Unlock, Goto
  <2>3. QED
      BY <2>1, <2>2
<1>29. CASE MapFails(t)
  <2>1. CASE op[t] = "lock_page"
      BY <1>29, <2>1
      DEF MapFails, Return, Unlock, Goto
  <2>2. CASE op[t] # "lock_page"
      BY <1>29, <2>2
      DEF MapFails, Return, Unlock, Goto
  <2>3. QED
      BY <2>1, <2>2
<1>30. CASE CopyString(t)
  <2>1. CASE pte[cur_pg[t]] # NULL
      BY <1>30, <2>1
      DEF CopyString, Return, Unlock, Goto
  <2>2. CASE pte[cur_pg[t]] = NULL
      BY <1>30, <2>2
      DEF CopyString, Return, Unlock, Goto
  <2>3. QED
      BY <2>1, <2>2
<1>31. CASE FreePage(t)
  <2>1. CASE pc[t] = "free"
      BY <1>31, <2>1
      DEF FreePage, ReleaseFrame, Return, Unlock, Goto
  <2>2. CASE pc[t] # "free"
      BY <1>31, <2>2
      DEF FreePage, ReleaseFrame, Return, Unlock, Goto
  <2>3. QED
      BY <2>1, <2>2
<1>32. QED
    BY <1>1, <1>2, <1>3, <1>4, <1>5, <1>6, <1>7, <1>8, <1>9, <1>10, <1>11,
        <1>12, <1>13, <1>14, <1>15, <1>16, <1>17, <1>18, <1>19, <1>20, <1>21,
        <1>22, <1>23, <1>24, <1>25, <1>26, <1>27, <1>28, <1>29, <1>30, <1>31
    DEF UserStep, KernelStep

-----------------------------------------------------------------------------
(***************************************************************************)
(* What a step leaves alone.                                               *)
(***************************************************************************)

\* No other thread holds the frame a thread works on.
LEMMA OneHolder ==
    ASSUME LockInv, NEW t \in Thread, NEW u \in Thread,
           pc[t] \in HeldPcs, pc[u] \in HeldPcs, cur_fr[t] = cur_fr[u]
    PROVE  t = u
BY DEF LockInv

\* The struct page of a page whose frame the thread has not locked, and the
\* file behind it.
LEMMA KeepsFields ==
    ASSUME TypeOK, LockInv, WorkInv, FrameInv, PhaseInv,
           NEW t \in Thread, Writes(t),
           NEW p \in Page, pg_frame[p] # NULL, frm_lock[pg_frame[p]] # t
    PROVE  /\ pg_live'[p] = pg_live[p] /\ pg_frame'[p] = pg_frame[p]
           /\ pg_back'[p] = pg_back[p] /\ pg_swap'[p] = pg_swap[p]
           /\ file_data'[p] = file_data[p]
<1> USE DEF At, TypeOK, LocalTypeOK, SharedTypeOK, WorkPcs, Pcs, HeldPcs,
            OutPcs, FillPcs, AllocPcs
<1>1. /\ pc[t] \in OutPcs => out_pg[t] # p
      /\ pc[t] \in AllocPcs \cup FillPcs \cup {"free", "free_none"} => cur_pg[t] # p
    BY NullFacts DEF LockInv, PhaseInv
<1>2. file_data'[p] = file_data[p]
    BY <1>1 DEF Writes, OutWrite
<1>3. CASE UNCHANGED pgVars
    BY <1>2, <1>3 DEF pgVars
<1>4. CASE TakeFrame(t)
    BY <1>1, <1>2, <1>4 DEF TakeFrame
<1>5. CASE OutSwap(t)
    BY <1>1, <1>2, <1>5 DEF OutSwap
<1>6. CASE OutDone(t)
    BY <1>1, <1>2, <1>6 DEF OutDone
<1>7. CASE SwapClear(t)
    BY <1>1, <1>2, <1>7 DEF SwapClear
<1>8. CASE FreePage(t)
    BY <1>1, <1>2, <1>8 DEF FreePage
<1>9. ASSUME NEW Q \in SUBSET Page, Adds(t, Q)
      PROVE  /\ pg_live'[p] = pg_live[p] /\ pg_frame'[p] = pg_frame[p]
             /\ pg_back'[p] = pg_back[p] /\ pg_swap'[p] = pg_swap[p]
  <2>1. p \notin Q
      BY <1>9 DEF Adds, FrameInv
  <2>2. QED
      BY <1>9, <2>1 DEF Adds, NewPages
<1>10. QED
    BY <1>2, <1>3, <1>4, <1>5, <1>6, <1>7, <1>8, <1>9 DEF Writes

\* The swap slot of a page is written for no other page.
LEMMA KeepsSlot ==
    ASSUME TypeOK, SlotOwnership, NEW t \in Thread, Writes(t),
           NEW p \in Page, pg_swap[p] # NULL, ~ReleasingSlot(p)
    PROVE  sw_data'[pg_swap[p]] = sw_data[pg_swap[p]]
<1>1. pg_swap[p] \in sw_bitmap
    BY DEF SlotOwnership
<1>2. CASE OutSwap(t)
    BY <1>1, <1>2 DEF OutSwap, TypeOK, SharedTypeOK
<1>3. QED
    BY <1>2 DEF Writes

\* The contents of a frame that the thread has not locked: user code can
\* reach it only as the page that is in it.
LEMMA KeepsData ==
    ASSUME TypeOK, LockInv, WorkInv, FrameInv, PteInv,
           NEW t \in Thread, Writes(t), NEW f \in Frame, frm_lock[f] # t
    PROVE  \/ frm_data'[f] = frm_data[f]
           \/ \E p \in Page, v \in Value :
                 /\ Store(t, p, v) /\ Owner[p] = t /\ pg_frame[p] = f
                 /\ pte[p] = f /\ frm_page[f] = p
<1> USE DEF At, TypeOK, LocalTypeOK, SharedTypeOK
<1>1. CASE frm_data' = frm_data
    BY <1>1
<1>2. CASE LoadPage(t)
  <2>1. cur_fr[t] # f
      BY <1>2 DEF LoadPage, LockInv, HeldPcs, FillPcs
  <2>2. QED
      BY <1>2, <2>1 DEF LoadPage
<1>3. ASSUME NEW p \in Page, NEW v \in Value, Store(t, p, v)
      PROVE  frm_data'[f] = frm_data[f]
                \/ /\ Owner[p] = t /\ pg_frame[p] = f /\ pte[p] = f /\ frm_page[f] = p
  <2>1. Owner[p] = t /\ pte[p] # NULL /\ pc[t] = "user"
      BY <1>3 DEF Store, PagesOf
  <2>2. op[t] = "none"
      BY <2>1 DEF WorkInv, WorkPcs
  <2>3. pg_frame[p] = pte[p] /\ frm_page[pte[p]] = p
      BY <2>1, <2>2 DEF PteInv, FrameInv, Dying
  <2>4. QED
      BY <1>3, <2>1, <2>3 DEF Store
<1>4. QED
    BY <1>1, <1>2, <1>3 DEF Writes

\* What page_in would read for page p depends on these alone.
LEMMA SameFilled ==
    ASSUME NEW p, pg_back'[p] = pg_back[p], pg_swap'[p] = pg_swap[p],
           file_data'[p] = file_data[p],
           pg_swap[p] # NULL => sw_data'[pg_swap[p]] = sw_data[pg_swap[p]]
    PROVE  FilledWith(p)' = FilledWith(p)
BY DEF FilledWith

-----------------------------------------------------------------------------
(***************************************************************************)
(* What paging keeps: the contents of pages.                               *)
(***************************************************************************)

\* No page_out of a modified page of S that has a file is about to fail:
\* file_write_at may write, and swap has a free slot.
DirtyOutWorks(S) == \A t \in Thread :
    pc[t] = "out_dirty" /\ out_pg[t] \in S /\ pg_back[out_pg[t]] # "none" =>
        /\ MustSwap(out_pg[t]) => ~(Slot \subseteq sw_bitmap)
        /\ MustWrite(out_pg[t]) => out_pg[t] \notin DenyWrite

\* The page setup_stack makes is a stack page, which has no file.
StackInv == \A t \in Thread : op[t] = "setup_stack" =>
    Kind[cur_pg[t]] = "stack" /\ pg_back[cur_pg[t]] = "none"

\* A page of a file that differs from its file is dirty, and stays reachable
\* until an eviction looks at its dirty bit.
DirtyInv(S) == \A p \in S :
    pg_frame[p] # NULL /\ ~Filling(p) /\ pg_back[p] # "none" =>
        \/ frm_data[pg_frame[p]] = file_data[p]
        \/ pte_d[p] /\ (pte[p] # NULL \/ \E t \in Thread : pc[t] = "out_dirty" /\ out_pg[t] = p)

\* What is in the frame can be read again once page_out has succeeded.
SavedInv(S) == \A t \in Thread :
    pc[t] = "out_done" /\ out_pg[t] \in S => frm_data[cur_fr[t]] = FilledWith(out_pg[t])

\* munmap releases a frame whose contents are in the file.
WrittenInv(S) == \A t \in Thread :
    pc[t] = "free" /\ op[t] = "munmap" /\ cur_pg[t] \in S =>
        frm_data[cur_fr[t]] = file_data[cur_pg[t]]

\* A page that is being brought in is in a frame its process has locked.
LEMMA FillingHeld ==
    ASSUME LockInv, PhaseInv, NEW p \in Page, Owner[p] \in Thread, Filling(p)
    PROVE  frm_lock[pg_frame[p]] = Owner[p]
BY DEF Filling, LockInv, PhaseInv, HeldPcs, FillPcs

\* So is a page whose slot is being released.
LEMMA ReleasingHeld ==
    ASSUME LockInv, PhaseInv, NEW p \in Page, Owner[p] \in Thread, ReleasingSlot(p)
    PROVE  frm_lock[pg_frame[p]] = Owner[p]
BY DEF ReleasingSlot, LockInv, PhaseInv, HeldPcs, FillPcs

\* And the page a thread writes out, in the frame it works on.
LEMMA OutHeld ==
    ASSUME LockInv, PhaseInv, NEW t \in Thread, pc[t] \in OutPcs
    PROVE  /\ out_pg[t] \in Page /\ pg_frame[out_pg[t]] = cur_fr[t]
           /\ cur_fr[t] \in Frame /\ frm_lock[cur_fr[t]] = t
BY DEF LockInv, PhaseInv, HeldPcs

\* A page in the hash table gets no file.
LEMMA KeepsNoFile ==
    ASSUME TypeOK, WorkInv, NEW t \in Thread, Writes(t),
           NEW p \in Page, pg_live[p], pg_back[p] = "none"
    PROVE  pg_back'[p] = "none"
<1> USE DEF At, TypeOK, LocalTypeOK, SharedTypeOK
<1>1. CASE OutSwap(t)
    BY <1>1 DEF OutSwap
<1>2. CASE FreePage(t)
    BY <1>2 DEF FreePage
<1>3. ASSUME NEW Q \in SUBSET Page, Adds(t, Q) PROVE pg_back'[p] = "none"
    BY <1>3 DEF Adds, NewPages
<1>4. QED
    BY <1>1, <1>2, <1>3 DEF Writes, pgVars, TakeFrame, OutDone, SwapClear

\* The stack page stays without a file until setup_stack is done.
LEMMA StackStep ==
    ASSUME TypeOK, WorkInv, NoneInv, StackInv,
           NEW t \in Thread, Writes(t), Moves(t)
    PROVE  StackInv'
<1> SUFFICES ASSUME NEW u \in Thread, op'[u] = "setup_stack"
             PROVE  Kind[cur_pg'[u]] = "stack" /\ pg_back'[cur_pg'[u]] = "none"
    BY DEF StackInv
<1>1. CASE \E p \in Page : Start(t, p) /\ u = t
    BY <1>1 DEF Start, Begin, NewPages, PagesOf, BackingOf, TypeOK, LocalTypeOK
<1>2. CASE ~\E p \in Page : Start(t, p) /\ u = t
  <2>1. op[u] = "setup_stack" /\ cur_pg'[u] = cur_pg[u]
      BY <1>2 DEF Writes, Moves
  <2>2. pc[u] \in WorkPcs
      BY <2>1 DEF WorkInv
  <2>3. PICK p \in Page : p = cur_pg[u] /\ pg_live[p]
      BY <2>2 DEF WorkInv, PagesOf
  <2>4. Kind[p] = "stack" /\ pg_back[p] = "none"
      BY <2>1, <2>3 DEF StackInv
  <2>5. QED
      BY <2>1, <2>3, <2>4, KeepsNoFile
<1>3. QED
    BY <1>1, <1>2

\* Once page_out has succeeded the contents of the page can be read again,
\* whatever the other threads do.
LEMMA SavedStep ==
    ASSUME TypeOK, LockInv, WorkInv, FrameInv, PhaseInv, PteInv, SlotOwnership,
           NEW S \in SUBSET Page, DirtyInv(S), SavedInv(S), DirtyOutWorks(S),
           NEW t \in Thread, Writes(t), Moves(t)
    PROVE  SavedInv(S)'
<1> SUFFICES ASSUME NEW u \in Thread, pc'[u] = "out_done", out_pg'[u] \in S
             PROVE  frm_data'[cur_fr'[u]] = FilledWith(out_pg[u])'
    BY DEF SavedInv
<1>1. CASE u # t
  <2>0. pc[u] = "out_done" /\ out_pg'[u] = out_pg[u] /\ cur_fr'[u] = cur_fr[u]
      BY <1>1 DEF Writes
  <2>1. PICK p \in Page, f \in Frame : p = out_pg[u] /\ f = cur_fr[u]
      BY <2>0, OutHeld DEF OutPcs
  <2>2. pg_frame[p] = f /\ frm_lock[f] = u /\ f # NULL
        /\ pte[p] = NULL /\ frm_data[f] = FilledWith(p)
      BY <2>0, <2>1, OutHeld, NullFacts DEF OutPcs, PteInv, SavedInv
  <2>3. ~ReleasingSlot(p)
      BY <2>0, <2>2, ReleasingHeld, OwnerType DEF ReleasingSlot
  <2>4. /\ pg_back'[p] = pg_back[p] /\ pg_swap'[p] = pg_swap[p]
        /\ file_data'[p] = file_data[p]
      BY <2>2, <1>1, KeepsFields
  <2>5. FilledWith(p)' = FilledWith(p)
      BY <2>2, <2>3, <2>4, KeepsSlot, SameFilled
  <2>6. frm_data'[f] = frm_data[f]
      BY <2>2, <1>1, KeepsData DEF FrameInv
  <2>7. QED
      BY <2>0, <2>1, <2>2, <2>5, <2>6 DEF FilledWith
<1>2. CASE u = t
  <2> USE DEF At, TypeOK, LocalTypeOK, SharedTypeOK
  <2>0. pc[t] = "out_dirty" /\ out_pg'[t] = out_pg[t] /\ cur_fr'[t] = cur_fr[t]
        /\ frm_data' = frm_data
      BY <1>2 DEF Moves, OutClean, OutWrite, OutSwap, OutSucceeds, OutFails, Goto
  <2>1. PICK p \in Page, f \in Frame : p = out_pg[t] /\ f = cur_fr[t]
      BY <2>0, OutHeld DEF OutPcs
  <2>2. pg_frame[p] = f /\ frm_lock[f] = t /\ f # NULL /\ pte[p] = NULL /\ p \in S
      BY <2>0, <2>1, <1>2, OutHeld, NullFacts DEF OutPcs, PteInv
  <2>3. ~Filling(p)
      BY <2>0, <2>2, FillingHeld, OwnerType DEF Filling
  <2>4. CASE OutClean(t)
    <3>1. pg_back[p] # "none" /\ ~pte_d[p] /\ UNCHANGED <<pgVars, file_data>>
        BY <2>4, <2>1, <2>2 DEF OutClean, MustSwap, MustWrite, diskVars
    <3>2. frm_data[f] = file_data[p]
        BY <2>2, <2>3, <3>1 DEF DirtyInv
    <3>3. QED
        BY <1>2, <2>0, <2>1, <3>1, <3>2 DEF FilledWith, pgVars
  <2>5. CASE OutWrite(t)
    <3>1. pg_back[p] = "shared" /\ p \notin DenyWrite
        BY <2>0, <2>1, <2>2, <2>5 DEF OutWrite, MustWrite, DirtyOutWorks
    <3>2. file_data'[p] = frm_data[f] /\ pg_back' = pg_back
        BY <2>1, <2>2, <2>5, <3>1 DEF OutWrite, pgVars
    <3>3. QED
        BY <1>2, <2>0, <2>1, <3>1, <3>2 DEF FilledWith
  <2>6. CASE OutSwap(t)
    <3>1. PICK s \in Slot : sw_data'[s] = frm_data[f] /\ pg_swap'[p] = s /\ pg_back'[p] = "none"
        BY <1>2, <2>0, <2>1, <2>2, <2>6 DEF OutSwap, OutFails, Goto
    <3>2. QED
        BY <1>2, <2>0, <2>1, <3>1, NullFacts DEF FilledWith
  <2>7. QED
      BY <1>2, <2>4, <2>5, <2>6 DEF Moves
<1>3. QED
    BY <1>1, <1>2

\* A page whose frame is locked by one thread is not written out by another.
LEMMA OutBy ==
    ASSUME LockInv, PhaseInv, NEW p \in Page, NEW t \in Thread, frm_lock[pg_frame[p]] = t,
           NEW u \in Thread, pc[u] \in OutPcs, out_pg[u] = p
    PROVE  u = t
BY OutHeld

\* A page differs from its file only while its dirty bit tells.
LEMMA DirtyStep ==
    ASSUME TypeOK, LockInv, WorkInv, NoneInv, FrameInv, PhaseInv, PteInv, StackInv,
           NEW S \in SUBSET Page, DirtyInv(S), DirtyOutWorks(S),
           NEW t \in Thread, Writes(t), Moves(t)
    PROVE  DirtyInv(S)'
<1> DEFINE Out(p) == \E u \in Thread : pc[u] = "out_dirty" /\ out_pg[u] = p
           Clean(p) == frm_data[pg_frame[p]] = file_data[p]
           Dirty(p) == pte_d[p] /\ (pte[p] # NULL \/ Out(p))
<1> SUFFICES ASSUME NEW p \in S, pg_frame'[p] # NULL, ~Filling(p)', pg_back'[p] # "none"
             PROVE  Clean(p)' \/ Dirty(p)'
    BY DEF DirtyInv
<1> USE DEF At, TypeOK, LocalTypeOK, SharedTypeOK
<1>0. p \in Page /\ Owner[p] \in Thread
    BY OwnerType
<1>1. CASE pg_frame[p] = NULL
  <2>1. TakeFrame(t) /\ cur_pg[t] = p
      BY <1>0, <1>1 DEF Writes, pgVars, TakeFrame, OutSwap, OutDone, SwapClear, FreePage, Adds, NewPages
  <2>2. Owner[p] = t
      BY <2>1 DEF TakeFrame, WorkInv, WorkPcs, PagesOf, Pcs, HeldPcs
  <2>3. CASE op[t] = "setup_stack"
      BY <2>1, <2>3 DEF TakeFrame, StackInv
  <2>4. CASE op[t] # "setup_stack"
      BY <2>1, <2>2, <2>4 DEF TakeFrame, Filling, Goto, localVars
  <2>5. QED
      BY <2>3, <2>4
<1>2. CASE pg_frame[p] # NULL
  <2>1. PICK f \in Frame : f = pg_frame[p]
      BY <1>0, <1>2
  <2>2. pg_live[p] /\ frm_page[f] = p
      BY <1>0, <1>2, <2>1 DEF FrameInv
  <2>3. pg_back[p] # "none"
      BY <1>0, <2>2, KeepsNoFile
  <2>4. ~Filling(p) => Clean(p) \/ Dirty(p)
      BY <1>2, <2>3 DEF DirtyInv
  <2>5. ASSUME NEW q \in Page, NEW v \in Value, Store(t, q, v) PROVE frm_data'[f] = frm_data[f] \/ q = p
    <3>1. pc[t] = "user" /\ op[t] = "none" /\ Owner[q] = t /\ pte[q] # NULL
        BY <2>5 DEF Store, PagesOf, WorkInv, WorkPcs
    <3>2. pg_frame[q] = pte[q] /\ frm_page[pte[q]] = q
        BY <3>1 DEF PteInv, FrameInv, Dying
    <3>3. QED
        BY <2>2, <2>5, <3>1, <3>2 DEF Store
  <2>6. ASSUME NEW v \in Value, Store(t, p, v) PROVE Dirty(p)'
      BY <1>0, <2>6 DEF Store
  <2>7. Exited(t) => pte'[p] = pte[p] /\ (pte_d'[p] <=> pte_d[p])
    <3>1. Exited(t) => p \notin PagesOf(t)
        BY <2>2 DEF Exited
    <3>2. QED
        BY <1>0, <3>1 DEF Exited
  <2>8. CASE frm_lock[f] # t
    <3>1. pg_frame'[p] = f /\ file_data'[p] = file_data[p]
        BY <1>0, <1>2, <2>1, <2>8, KeepsFields
    <3>2. ~Filling(p)
        BY <1>0, <2>1, <2>8, FillingHeld DEF Filling, Writes
    <3>3. CASE Clean(p)
      <4>1. CASE frm_data'[f] = frm_data[f]
          BY <3>1, <3>3, <2>1, <4>1
      <4>2. CASE frm_data'[f] # frm_data[f]
          BY <4>2, <2>1, <2>5, <2>6, <2>8, KeepsData
      <4>3. QED
          BY <4>1, <4>2
    <3>4. CASE Dirty(p)
      <4>1. pc[t] \in OutPcs => out_pg[t] # p
          BY <2>1, <2>8, OutHeld
      <4>2. ~(MapPage(t) /\ cur_pg[t] = p)
          BY <2>1, <2>8 DEF MapPage, LockInv, PhaseInv, HeldPcs, FillPcs
      <4>3. pte_d'[p]
          BY <1>0, <2>7, <3>4, <4>2 DEF Writes, MapPage, Store
      <4>4. pte'[p] = pte[p]
          BY <1>0, <2>7, <4>1, <4>2 DEF Writes, MapPage, OutClear, OutPcs
      <4>5. Out(p) => Out(p)'
          BY <4>1 DEF Writes, OutPcs
      <4>6. QED
          BY <3>4, <4>3, <4>4, <4>5
    <3>5. QED
        BY <2>4, <3>2, <3>3, <3>4
  <2>9. CASE frm_lock[f] = t
    <3>1. pg_frame'[p] = f
        BY <1>0, <1>2, <2>1, <2>2 DEF Writes, pgVars, TakeFrame, OutSwap, OutDone, SwapClear, FreePage,
              Adds, NewPages, PhaseInv, AllocPcs
    <3>2. CASE Filling(p)
      <4>1. Owner[p] = t /\ cur_pg[t] = p /\ pc[t] = "load" /\ LoadPage(t)
          BY <1>0, <2>1, <2>9, <3>2, FillingHeld DEF Filling, Moves
      <4>2. cur_fr[t] = f
          BY <2>1, <4>1 DEF PhaseInv, FillPcs
      <4>3. frm_data'[f] = FilledWith(p) /\ file_data'[p] = file_data[p]
          BY <4>1, <4>2 DEF LoadPage, diskVars
      <4>4. QED
          BY <2>3, <3>1, <4>3 DEF FilledWith
    <3>3. CASE ~Filling(p)
      <4>1. Clean(p) \/ Dirty(p)
          BY <2>4, <3>3
      <4>2. Out(p) => pc[t] = "out_dirty" /\ out_pg[t] = p
          BY <1>0, <2>1, <2>9, OutBy DEF OutPcs
      <4>3. CASE pc[t] = "out_dirty" /\ out_pg[t] = p
        <5>1. cur_fr[t] = f
            BY <2>1, <4>3, OutHeld DEF OutPcs
        <5>2. CASE OutClean(t)
            BY <2>1, <2>3, <3>1, <4>1, <4>3, <5>2 DEF OutClean, MustSwap, MustWrite, diskVars
        <5>3. CASE OutWrite(t)
            BY <1>0, <2>3, <3>1, <4>3, <5>1, <5>3 DEF OutWrite, DirtyOutWorks
        <5>4. CASE OutSwap(t)
            BY <1>0, <2>3, <4>3, <5>4 DEF OutSwap, DirtyOutWorks
        <5>5. QED
            BY <4>3, <5>2, <5>3, <5>4 DEF Moves
      <4>4. CASE ~(pc[t] = "out_dirty" /\ out_pg[t] = p)
        <5>1. file_data'[p] = file_data[p]
            BY <1>0, <4>4 DEF Writes, OutWrite
        <5>2. ~Out(p)
            BY <4>2, <4>4
        <5>3. CASE LoadPage(t)
          <6>1. cur_pg[t] # p
              BY <3>3, <5>3, AtWork DEF LoadPage, Filling, WorkPcs, Pcs, HeldPcs, FillPcs
          <6>2. cur_fr[t] = pg_frame[cur_pg[t]] /\ cur_fr[t] \in Frame /\ cur_pg[t] \in Page
              BY <5>3, AtWork DEF LoadPage, PhaseInv, WorkPcs, Pcs, HeldPcs, FillPcs
          <6>3. cur_fr[t] # f
              BY <6>1, <6>2, <2>2, NullFacts DEF FrameInv
          <6>4. frm_data'[f] = frm_data[f] /\ pte' = pte /\ pte_d' = pte_d
              BY <5>3, <6>2, <6>3 DEF LoadPage, pteVars
          <6>5. QED
              BY <2>1, <3>1, <4>1, <5>1, <5>2, <6>4
        <5>4. CASE \E q \in Page, v \in Value : Store(t, q, v)
          <6>1. PICK q \in Page, v \in Value : Store(t, q, v)
              BY <5>4
          <6>2. CASE q = p
              BY <2>6, <6>1, <6>2
          <6>3. CASE q # p
            <7>1. frm_data'[f] = frm_data[f] /\ pte' = pte /\ pte_d'[p] = pte_d[p]
                BY <1>0, <2>5, <6>1, <6>3 DEF Store
            <7>2. QED
                BY <2>1, <3>1, <4>1, <5>1, <5>2, <7>1
          <6>4. QED
              BY <6>2, <6>3
        <5>5. CASE OutClear(t) /\ out_pg[t] = p
            BY <1>0, <2>1, <3>1, <4>1, <5>1, <5>5 DEF OutClear, Goto, localVars, pteVars, diskVars
        <5>6. CASE MapPage(t) /\ cur_pg[t] = p
          <6>1. pte[p] = NULL
              BY <5>6 DEF MapPage, PteInv, FillPcs
          <6>2. frm_data' = frm_data
              BY <5>6 DEF MapPage
          <6>3. QED
              BY <2>1, <3>1, <4>1, <5>1, <5>2, <6>1, <6>2
        <5>7. CASE /\ ~LoadPage(t) /\ ~(OutClear(t) /\ out_pg[t] = p)
                   /\ ~(MapPage(t) /\ cur_pg[t] = p)
                   /\ ~\E q \in Page, v \in Value : Store(t, q, v)
          <6>1. frm_data' = frm_data
              BY <5>7 DEF Writes
          <6>2. pte'[p] = pte[p]
              BY <1>0, <2>7, <5>7 DEF Writes, OutClear, MapPage
          <6>3. pte_d'[p] <=> pte_d[p]
              BY <1>0, <2>7, <5>7 DEF Writes, MapPage
          <6>4. QED
              BY <2>1, <3>1, <4>1, <5>1, <5>2, <6>1, <6>2, <6>3
        <5>8. QED
            BY <5>3, <5>4, <5>5, <5>6, <5>7
      <4>5. QED
          BY <4>3, <4>4
    <3>4. QED
        BY <3>2, <3>3
  <2>10. QED
      BY <2>8, <2>9
<1>3. QED
    BY <1>1, <1>2

\* munmap leaves the contents of the page in the file when page_out works.
LEMMA WrittenStep ==
    ASSUME TypeOK, LockInv, WorkInv, FrameInv, PhaseInv, PteInv, BackInv,
           NEW S \in SUBSET Page, SavedInv(S), WrittenInv(S), DirtyOutWorks(S),
           NEW t \in Thread, Writes(t), Moves(t)
    PROVE  WrittenInv(S)'
<1> SUFFICES ASSUME NEW u \in Thread, pc'[u] = "free", op'[u] = "munmap", cur_pg'[u] \in S
             PROVE  frm_data'[cur_fr'[u]] = file_data'[cur_pg'[u]]
    BY DEF WrittenInv
<1>1. CASE u # t
  <2>0. /\ pc[u] = "free" /\ op[u] = "munmap" /\ cur_pg[u] \in S
        /\ cur_pg'[u] = cur_pg[u] /\ cur_fr'[u] = cur_fr[u]
      BY <1>1 DEF Writes
  <2>1. PICK p \in Page, f \in Frame : p = cur_pg[u] /\ f = cur_fr[u]
      BY <2>0 DEF LockInv, HeldPcs
  <2>2. /\ frm_lock[f] = u /\ frm_page[f] = p /\ pg_frame[p] \in {f, NULL}
        /\ frm_data[f] = file_data[p] /\ Owner[p] = u
      BY <2>0, <2>1, AtWork DEF LockInv, HeldPcs, PhaseInv, WrittenInv, WorkPcs, Pcs
  <2>3. frm_data'[f] = frm_data[f]
      BY <2>2, <1>1, KeepsData
  <2>4. file_data'[p] = file_data[p]
    <3>1. ASSUME OutWrite(t) PROVE out_pg[t] # p
        BY <1>1, <2>2, <3>1, OutHeld, NullFacts DEF OutWrite, At, OutPcs
    <3>2. QED
        BY <3>1 DEF Writes, OutWrite, TypeOK, SharedTypeOK
  <2>5. QED
      BY <2>0, <2>1, <2>2, <2>3, <2>4
<1>2. CASE u = t
  <2> USE DEF At, TypeOK, LocalTypeOK, SharedTypeOK
  <2>1. CASE OutDone(t)
    <3>1. /\ pc[t] = "out_done" /\ op[t] = "munmap" /\ cur_pg'[t] = cur_pg[t]
          /\ cur_fr'[t] = cur_fr[t] /\ frm_data' = frm_data /\ file_data' = file_data
        BY <1>2, <2>1 DEF OutDone, diskVars
    <3>2. out_pg[t] = cur_pg[t] /\ cur_pg[t] \in S
        BY <1>2, <3>1 DEF PhaseInv, OutPcs
    <3>3. pg_back[cur_pg[t]] = "shared"
        BY <3>1 DEF WorkInv, BackInv, WorkPcs, Pcs, HeldPcs, OutPcs, PagesOf
    <3>4. frm_data[cur_fr[t]] = FilledWith(cur_pg[t])
        BY <3>1, <3>2 DEF SavedInv
    <3>5. QED
        BY <1>2, <3>1, <3>3, <3>4 DEF FilledWith
  <2>2. CASE OutWrite(t)
    <3>1. out_pg[t] = cur_pg[t] /\ cur_pg[t] \in S /\ out_pg[t] \in DenyWrite
        BY <1>2, <2>2 DEF OutWrite, OutSucceeds, Goto, PhaseInv, OutPcs
    <3>2. QED
        BY <2>2, <3>1 DEF OutWrite, MustWrite, DirtyOutWorks
  <2>3. CASE OutSwap(t)
    <3>1. out_pg[t] = cur_pg[t] /\ op[t] = "munmap" /\ pc[t] = "out_dirty" /\ MustSwap(out_pg[t])
        BY <1>2, <2>3 DEF OutSwap, PhaseInv, OutPcs
    <3>2. pg_back[cur_pg[t]] = "shared"
        BY <3>1 DEF WorkInv, BackInv, WorkPcs, Pcs, HeldPcs, OutPcs, PagesOf
    <3>3. QED
        BY <3>1, <3>2 DEF MustSwap
  <2>4. QED
      BY <1>2, <2>1, <2>2, <2>3 DEF Moves
<1>3. QED
    BY <1>1, <1>2

\* The pages of mapped files that page_out may write.
Writable == {p \in Page : Kind[p] = "mmap" /\ p \notin DenyWrite}

\* page_out works for a page of a mapped file that is not a running program:
\* it never goes to swap.
LEMMA WritableWorks ==
    ASSUME FrameInv, BackInv, LockInv, PhaseInv PROVE DirtyOutWorks(Writable)
<1> SUFFICES ASSUME NEW t \in Thread, pc[t] = "out_dirty", out_pg[t] \in Writable
             PROVE  ~MustSwap(out_pg[t])
    BY DEF DirtyOutWorks, Writable
<1>1. pg_frame[out_pg[t]] # NULL /\ out_pg[t] \in Page
    BY OutHeld, NullFacts DEF OutPcs
<1>2. pg_back[out_pg[t]] = "shared"
    BY <1>1 DEF FrameInv, BackInv, Writable
<1>3. QED
    BY <1>2 DEF MustSwap

\* The contents of the pages of S survive every step.
ContentsInv(S) == StackInv /\ DirtyInv(S) /\ SavedInv(S) /\ WrittenInv(S)

\* At boot no page has a frame.
LEMMA ContentsInit == ASSUME NEW S \in SUBSET Page, Init PROVE ContentsInv(S)
BY NullFacts DEF Init, ContentsInv, StackInv, DirtyInv, SavedInv, WrittenInv

\* The invariant of the contents, on top of IInv.
LEMMA ContentsStep ==
    ASSUME IInv, NEW S \in SUBSET Page, ContentsInv(S), DirtyOutWorks(S), [Next]_vars
    PROVE  ContentsInv(S)'
<1> USE DEF ContentsInv
<1>1. ASSUME NEW t \in Thread, UserStep(t) \/ KernelStep(t) PROVE ContentsInv(S)'
  <2>1. Writes(t) /\ Moves(t)
      BY <1>1, StepWrites, StepMoves DEF IInv
  <2>2. QED
      BY <1>1, <2>1, StackStep, DirtyStep, SavedStep, WrittenStep DEF IInv, SlotInv
<1>2. CASE UNCHANGED vars
    BY <1>2 DEF vars, sharedVars, localVars, pgVars, pteVars, diskVars, StackInv, DirtyInv, SavedInv,
                WrittenInv, Filling, FilledWith
<1>3. QED
    BY <1>1, <1>2 DEF Next, Halted

(***************************************************************************)
(* munmap writes a modified page back before it releases the frame, unless *)
(* the file is a running executable: deallocation_of_page finds the dirty  *)
(* bit set, although the clock, other processes' page faults and their     *)
(* evictions run at the same time (page_out, deallocation_of_page).        *)
(***************************************************************************)
THEOREM MunmapWritesBackHolds ==
    ASSUME DenyWrite = {} PROVE Spec => []MunmapWritesBack
<1>1. Init => ContentsInv(Writable)
    BY ContentsInit DEF Writable
<1>2. IInv /\ ContentsInv(Writable) /\ [Next]_vars => ContentsInv(Writable)'
    BY ContentsStep, WritableWorks DEF IInv, Writable
<1>3. IInv /\ ContentsInv(Writable) => MunmapWritesBack
  <2> SUFFICES ASSUME IInv, WrittenInv(Writable), NEW t \in Thread, pc[t] = "free", op[t] = "munmap"
               PROVE  frm_data[cur_fr[t]] = file_data[cur_pg[t]]
      BY DEF ContentsInv, MunmapWritesBack
  <2>1. cur_pg[t] \in Writable
      BY DEF IInv, WorkInv, WorkPcs, Pcs, HeldPcs, PagesOf, Writable
  <2>2. QED
      BY <2>1 DEF WrittenInv
<1>4. QED
    BY <1>1, <1>2, <1>3, Invariance, PTL DEF Spec

-----------------------------------------------------------------------------
(***************************************************************************)
(* The address spaces.                                                     *)
(***************************************************************************)

\* A step adds pages to the address spaces or takes pages away, not both.
MapsMore == \A p \in Page : Mapped(p) => Mapped(p)'
MapsLess == \A p \in Page : Mapped(p)' => Mapped(p)

\* Starting, faulting on a new page and mapping add; exits and munmap take away.
LEMMA MapsStep ==
    ASSUME TypeOK, WorkInv, BackInv, NoneInv, StackInv,
           NEW t \in Thread, UserStep(t) \/ KernelStep(t)
    PROVE  MapsMore \/ MapsLess
<1> USE OwnerType DEF MapsMore, MapsLess, Mapped, Dying, At, vars, sharedVars, localVars, pgVars,
            WorkInv, WorkPcs, TypeOK, LocalTypeOK, SharedTypeOK, Pcs, HeldPcs, OutPcs, FillPcs, AllocPcs
<1>1. ASSUME NEW p \in Page, Start(t, p) PROVE MapsMore
    BY <1>1, NewPagesFacts
    DEF Start, PagesOf, Begin, Goto, NoneInv, FrameInv
<1>2. ASSUME NEW p \in Page, Load(t, p) PROVE MapsLess
    BY <1>2 DEF Load, PagesOf
<1>3. ASSUME NEW p \in Page, NEW v \in Value, Store(t, p, v) PROVE MapsLess
    BY <1>3 DEF Store, PagesOf
<1>4. ASSUME NEW p \in Page, PageFault(t, p) PROVE MapsMore
    BY <1>4, PageForAddrFacts
    DEF PageFault, PagesOf, Begin, Goto, FrameInv
<1>5. ASSUME Exit(t) PROVE MapsLess
    BY <1>5 DEF Exit, Goto
<1>6. ASSUME KernelFault(t) PROVE MapsLess
    BY <1>6 DEF KernelFault, Goto
<1>7. ASSUME NEW p \in Page, Mmap(t, p) PROVE MapsMore
    BY <1>7, NewPagesFacts
    DEF Mmap, PagesOf, FrameInv
<1>8. ASSUME NEW p \in Page, Munmap(t, p) PROVE MapsLess
    BY <1>8 DEF Munmap, PagesOf, Begin, Goto
<1>9. ASSUME NEW p \in Page, LockThisPage(t, p) PROVE MapsMore
    BY <1>9, PageForAddrFacts
    DEF LockThisPage, PagesOf, Begin, Goto, FrameInv
<1>10. ASSUME NEW p \in Page, DestroyNext(t, p) PROVE MapsLess
    BY <1>10
    DEF DestroyNext, PagesOf, Begin, Goto
<1>11. ASSUME Exited(t) PROVE MapsLess
    BY <1>11 DEF Exited, PagesOf, Goto
<1>12. ASSUME ReadFrame(t) PROVE MapsLess
  <2>1. CASE pg_frame[cur_pg[t]] = NULL
      BY <1>12, <2>1, AfterLockLabels
      DEF ReadFrame, Locked, Goto
  <2>2. CASE pg_frame[cur_pg[t]] # NULL
      BY <1>12, <2>2, AfterLockLabels
      DEF ReadFrame, Locked, Goto
  <2>3. QED
      BY <2>1, <2>2
<1>13. ASSUME AcquireFrame(t) PROVE MapsLess
  <2>1. CASE pg_frame[cur_pg[t]] = cur_fr[t]
      BY <1>13, <2>1, AfterLockLabels
      DEF AcquireFrame, Locked, Goto
  <2>2. CASE pg_frame[cur_pg[t]] # cur_fr[t]
      BY <1>13, <2>2, AfterLockLabels
      DEF AcquireFrame, Locked, Goto
  <2>3. QED
      BY <2>1, <2>2
<1>14. ASSUME AcquireSLock(t) PROVE MapsLess
    BY <1>14 DEF AcquireSLock, Goto
<1>15. ASSUME Scan(t) PROVE MapsLess
  <2>1. CASE len[t] = NFrames
      BY <1>15, <2>1 DEF Scan, LockFrame, Goto
  <2>2. CASE len[t] # NFrames
              /\ frm_lock[len[t]] = NULL /\ frm_page[len[t]] = NULL
      BY <1>15, <2>2 DEF Scan, LockFrame, Goto
  <2>3. CASE len[t] # NFrames
              /\ ~(frm_lock[len[t]] = NULL /\ frm_page[len[t]] = NULL)
      BY <1>15, <2>3 DEF Scan, LockFrame, Goto
  <2>4. QED
      BY <2>1, <2>2, <2>3
<1>16. ASSUME Clock(t) PROVE MapsLess
  <2>1. CASE frm_lock[f_hand] = NULL /\ frm_page[f_hand] = NULL
      BY <1>16, <2>1
      DEF Clock, NextHand, LockFrame, Goto
  <2>2. CASE frm_lock[f_hand] = NULL
              /\ frm_page[f_hand] # NULL /\ ~pte_a[frm_page[f_hand]]
      BY <1>16, <2>2
      DEF Clock, NextHand, LockFrame, Goto
  <2>3. CASE frm_lock[f_hand] # NULL \/ (frm_page[f_hand] # NULL
              /\ pte_a[frm_page[f_hand]])
      BY <1>16, <2>3
      DEF Clock, NextHand, LockFrame, Goto
  <2>4. QED
      BY <1>16, <2>1, <2>2, <2>3 DEF Clock
<1>17. ASSUME ClockFails(t) PROVE MapsLess
    BY <1>17 DEF ClockFails, Goto
<1>18. ASSUME Retry(t) PROVE MapsLess
  <2>1. CASE try[t] + 1 < Tries
      BY <1>18, <2>1 DEF Retry, Return, Goto
  <2>2. CASE ~(try[t] + 1 < Tries)
      BY <1>18, <2>2 DEF Retry, Return, Goto
  <2>3. QED
      BY <2>1, <2>2
<1>19. ASSUME TakeFrame(t) PROVE MapsMore
  <2>1. CASE op[t] = "setup_stack"
      BY <1>19, <2>1
      DEF TakeFrame, Unlock, Return, Goto
  <2>2. CASE op[t] # "setup_stack"
      BY <1>19, <2>2
      DEF TakeFrame, Unlock, Return, Goto
  <2>3. QED
      BY <2>1, <2>2
<1>20. ASSUME OutClear(t) PROVE MapsLess
    BY <1>20 DEF OutClear, Goto
<1>21. ASSUME OutClean(t) PROVE MapsLess
    BY <1>21 DEF OutClean, OutSucceeds, Goto
<1>22. ASSUME OutWrite(t) PROVE MapsLess
  <2>1. CASE out_pg[t] \in DenyWrite
      BY <1>22, <2>1
      DEF OutWrite, OutFails, OutSucceeds, Unlock, Goto
  <2>2. CASE out_pg[t] \notin DenyWrite
      BY <1>22, <2>2
      DEF OutWrite, OutFails, OutSucceeds, Unlock, Goto
  <2>3. QED
      BY <2>1, <2>2
<1>23. ASSUME OutSwap(t) PROVE MapsLess
  <2>1. CASE Slot \subseteq sw_bitmap
      BY <1>23, <2>1
      DEF OutSwap, FlipSlot, OutFails, OutSucceeds, Unlock, Goto
  <2>2. CASE ~(Slot \subseteq sw_bitmap)
      BY <1>23, <2>2
      DEF OutSwap, FlipSlot, OutFails, OutSucceeds, Unlock, Goto
  <2>3. QED
      BY <2>1, <2>2
<1>24. ASSUME OutDone(t) PROVE MapsLess
    BY <1>24
    DEF OutDone, Goto, FrameInv
<1>25. ASSUME LoadPage(t) PROVE MapsLess
    BY <1>25 DEF LoadPage, FilledWith, Goto
<1>26. ASSUME SwapReset(t) PROVE MapsLess
    BY <1>26 DEF SwapReset, Goto
<1>27. ASSUME SwapClear(t) PROVE MapsLess
    BY <1>27 DEF SwapClear, Goto
<1>28. ASSUME MapPage(t) PROVE MapsLess
  <2>1. CASE op[t] = "lock_page"
      BY <1>28, <2>1
      DEF MapPage, Return, Unlock, Goto
  <2>2. CASE op[t] # "lock_page"
      BY <1>28, <2>2
      DEF MapPage, Return, Unlock, Goto
  <2>3. QED
      BY <2>1, <2>2
<1>29. ASSUME MapFails(t) PROVE MapsLess
  <2>1. CASE op[t] = "lock_page"
      BY <1>29, <2>1
      DEF MapFails, Return, Unlock, Goto
  <2>2. CASE op[t] # "lock_page"
      BY <1>29, <2>2
      DEF MapFails, Return, Unlock, Goto
  <2>3. QED
      BY <2>1, <2>2
<1>30. ASSUME CopyString(t) PROVE MapsLess
  <2>1. CASE pte[cur_pg[t]] # NULL
      BY <1>30, <2>1, SMTT(40)
      DEF CopyString, Return, Unlock, Goto
  <2>2. CASE pte[cur_pg[t]] = NULL
      BY <1>30, <2>2
      DEF CopyString, Return, Unlock, Goto
  <2>3. QED
      BY <2>1, <2>2
<1>31. ASSUME FreePage(t) PROVE MapsLess
  <2>1. CASE pc[t] = "free"
      BY <1>31, <2>1
      DEF FreePage, ReleaseFrame, Return, Unlock, Goto
  <2>2. CASE pc[t] # "free"
      BY <1>31, <2>2
      DEF FreePage, ReleaseFrame, Return, Unlock, Goto
  <2>3. QED
      BY <2>1, <2>2
<1>32. QED
    BY <1>1, <1>2, <1>3, <1>4, <1>5, <1>6, <1>7, <1>8, <1>9, <1>10, <1>11,
        <1>12, <1>13, <1>14, <1>15, <1>16, <1>17, <1>18, <1>19, <1>20, <1>21,
        <1>22, <1>23, <1>24, <1>25, <1>26, <1>27, <1>28, <1>29, <1>30, <1>31
    DEF UserStep, KernelStep

\* Paging moves the contents of a page and keeps them: only a store changes
\* them.
LEMMA KeepsContents ==
    ASSUME TypeOK, LockInv, WorkInv, NoneInv, FrameInv, PhaseInv, PteInv, SlotOwnership,
           ContentsInv(Page), DirtyOutWorks(Page),
           NEW t \in Thread, Writes(t), Moves(t),
           NEW p \in Page, Mapped(p), Mapped(p)', \A v \in Value : ~Store(t, p, v)
    PROVE  Contents(p)' = Contents(p)
<1> USE DEF At, TypeOK, LocalTypeOK, SharedTypeOK
<1>0. Owner[p] \in Thread /\ pg_live[p] /\ pg_live'[p]
    BY OwnerType DEF Mapped
<1>1. CASE pg_frame[p] = NULL
  <2>1. Contents(p) = FilledWith(p)
      BY <1>1 DEF Contents
  <2>2. /\ pc[t] \in FillPcs => cur_pg[t] # p
        /\ pc[t] \in OutPcs => out_pg[t] # p
      BY <1>1, OutHeld, NullFacts DEF PhaseInv, LockInv, HeldPcs
  <2>3. ~ReleasingSlot(p)
      BY <1>0, <1>1, NullFacts DEF ReleasingSlot, PhaseInv, LockInv, HeldPcs, FillPcs
  <2>4. pg_back'[p] = pg_back[p] /\ pg_swap'[p] = pg_swap[p]
    <3>1. CASE FreePage(t)
        BY <1>0, <3>1 DEF FreePage
    <3>2. ASSUME NEW Q \in SUBSET Page, Adds(t, Q)
          PROVE  pg_back'[p] = pg_back[p] /\ pg_swap'[p] = pg_swap[p]
        BY <1>0, <3>2 DEF Adds, NewPages
    <3>3. QED
        BY <2>2, <3>1, <3>2 DEF Writes, pgVars, TakeFrame, OutSwap, OutDone, SwapClear, OutPcs, FillPcs
  <2>5. file_data'[p] = file_data[p]
      BY <2>2 DEF Writes, OutWrite, OutPcs
  <2>6. FilledWith(p)' = FilledWith(p)
      BY <2>3, <2>4, <2>5, KeepsSlot, SameFilled
  <2>7. CASE pg_frame'[p] = NULL
      BY <2>1, <2>6, <2>7 DEF Contents
  <2>8. CASE pg_frame'[p] # NULL
    <3>1. TakeFrame(t) /\ cur_pg[t] = p
        BY <1>1, <2>8 DEF Writes, pgVars, TakeFrame, OutSwap, OutDone, SwapClear, FreePage, Adds, NewPages
    <3>2. Owner[p] = t /\ pc[t] = "take"
        BY <3>1 DEF TakeFrame, WorkInv, WorkPcs, PagesOf, Pcs, HeldPcs
    <3>3. op[t] # "setup_stack"
        BY <3>1, <3>2 DEF Mapped, ContentsInv, StackInv
    <3>4. Filling(p)'
        BY <3>1, <3>2, <3>3 DEF TakeFrame, Filling, Goto, localVars
    <3>5. QED
        BY <2>1, <2>6, <3>4 DEF Contents
  <2>9. QED
      BY <2>7, <2>8
<1>2. CASE pg_frame[p] # NULL
  <2>1. PICK f \in Frame : f = pg_frame[p]
      BY <1>2
  <2>2. frm_page[f] = p
      BY <1>2, <2>1 DEF FrameInv
  <2>3. frm_lock[f] # t => frm_data'[f] = frm_data[f]
      BY <2>2, KeepsData
  <2>4. CASE frm_lock[f] # t
    <3>1. /\ pg_frame'[p] = f /\ pg_back'[p] = pg_back[p] /\ pg_swap'[p] = pg_swap[p]
          /\ file_data'[p] = file_data[p]
        BY <1>2, <2>1, <2>4, KeepsFields
    <3>2. Filling(p)' <=> Filling(p)
      <4>1. CASE Owner[p] = t
        <5>1. ~Filling(p)
            BY <1>0, <2>1, <2>4, <4>1, FillingHeld
        <5>2. pc'[t] = "load" => cur_pg'[t] # p
            BY <1>2, <4>1 DEF Moves, TakeFrame, PhaseInv, AllocPcs, Return, localVars, Goto
        <5>3. QED
            BY <4>1, <5>1, <5>2 DEF Filling
      <4>2. CASE Owner[p] # t
          BY <1>0, <4>2 DEF Filling, Writes
      <4>3. QED
          BY <4>1, <4>2
    <3>3. CASE Filling(p)
      <4>1. ~ReleasingSlot(p)
          BY <3>3 DEF Filling, ReleasingSlot
      <4>2. FilledWith(p)' = FilledWith(p)
          BY <3>1, <4>1, KeepsSlot, SameFilled
      <4>3. QED
          BY <3>2, <3>3, <4>2 DEF Contents
    <3>4. CASE ~Filling(p)
        BY <1>2, <2>1, <2>3, <2>4, <3>1, <3>2, <3>4, NullFacts DEF Contents
    <3>5. QED
        BY <3>3, <3>4
  <2>5. CASE frm_lock[f] = t
    <3>1. CASE Filling(p)
      <4>1. Owner[p] = t /\ cur_pg[t] = p /\ pc[t] = "load" /\ LoadPage(t)
          BY <1>0, <2>1, <2>5, <3>1, FillingHeld DEF Filling, Moves
      <4>2. cur_fr[t] = f
          BY <2>1, <4>1 DEF PhaseInv, FillPcs
      <4>3. frm_data'[f] = FilledWith(p) /\ pg_frame'[p] = f /\ pc'[t] # "load"
          BY <2>1, <4>1, <4>2 DEF LoadPage, pgVars, Goto
      <4>4. ~Filling(p)'
          BY <4>1, <4>3 DEF Filling
      <4>5. QED
          BY <3>1, <4>3, <4>4, NullFacts DEF Contents
    <3>2. CASE OutDone(t) /\ out_pg[t] = p
      <4>1. /\ pg_frame'[p] = NULL /\ pc[t] = "out_done"
            /\ UNCHANGED <<pg_back, pg_swap, diskVars>>
          BY <3>2 DEF OutDone
      <4>2. FilledWith(p)' = FilledWith(p) /\ Contents(p)' = FilledWith(p)'
          BY <4>1 DEF FilledWith, Contents, diskVars
      <4>3. frm_data[f] = FilledWith(p)
          BY <2>1, <3>2, <4>1, OutHeld DEF ContentsInv, SavedInv, OutPcs
      <4>4. ~Filling(p)
          BY <1>0, <2>1, <2>5, <4>1, FillingHeld DEF Filling
      <4>5. QED
          BY <1>2, <2>1, <4>2, <4>3, <4>4 DEF Contents
    <3>3. CASE ~Filling(p) /\ ~(OutDone(t) /\ out_pg[t] = p)
      <4>1. pg_frame'[p] = f
        <5>1. CASE FreePage(t)
            BY <1>0, <2>1, <5>1 DEF FreePage
        <5>2. CASE TakeFrame(t)
            BY <1>2, <2>1, <5>2 DEF TakeFrame, PhaseInv, AllocPcs
        <5>3. ASSUME NEW Q \in SUBSET Page, Adds(t, Q) PROVE pg_frame'[p] = f
            BY <1>0, <2>1, <5>3 DEF Adds, NewPages
        <5>4. CASE OutDone(t)
            BY <2>1, <3>3, <5>4 DEF OutDone
        <5>5. QED
            BY <2>1, <5>1, <5>2, <5>3, <5>4 DEF Writes, pgVars, OutSwap, SwapClear
      <4>2. frm_data'[f] = frm_data[f]
        <5>1. CASE LoadPage(t)
          <6>1. cur_pg[t] # p
              BY <3>3, <5>1, AtWork DEF LoadPage, Filling, WorkPcs, Pcs, HeldPcs, FillPcs
          <6>2. cur_fr[t] = pg_frame[cur_pg[t]] /\ cur_fr[t] \in Frame /\ cur_pg[t] \in Page
              BY <5>1, AtWork DEF LoadPage, PhaseInv, WorkPcs, Pcs, HeldPcs, FillPcs
          <6>3. cur_fr[t] # f
              BY <6>1, <6>2, <2>2, NullFacts DEF FrameInv
          <6>4. QED
              BY <5>1, <6>2, <6>3 DEF LoadPage
        <5>2. ASSUME NEW q \in Page, NEW v \in Value, Store(t, q, v) PROVE frm_data'[f] = frm_data[f]
          <6>0. q # p
              BY <5>2
          <6>1. pc[t] = "user" /\ op[t] = "none" /\ Owner[q] = t /\ pte[q] # NULL
              BY <5>2 DEF Store, PagesOf, WorkInv, WorkPcs
          <6>2. pg_frame[q] = pte[q] /\ frm_page[pte[q]] = q
              BY <6>1 DEF PteInv, FrameInv, Dying
          <6>3. QED
              BY <2>2, <5>2, <6>0, <6>1, <6>2 DEF Store
        <5>3. QED
            BY <5>1, <5>2 DEF Writes
      <4>3. ~Filling(p)'
          BY <1>0, <1>2, <3>3 DEF Filling, Writes, Moves, TakeFrame, PhaseInv, AllocPcs, Return, localVars, Goto
      <4>4. QED
          BY <1>2, <2>1, <3>3, <4>1, <4>2, <4>3, NullFacts DEF Contents
    <3>4. QED
        BY <3>1, <3>2, <3>3
  <2>6. QED
      BY <2>4, <2>5
<1>3. QED
    BY <1>1, <1>2

\* What is in a page is a value.
LEMMA ContentsType == ASSUME TypeOK, NEW p \in Page PROVE Contents(p) \in Value
<1>1. FilledWith(p) \in Value
    BY ConstantsAssumption DEF FilledWith, TypeOK, SharedTypeOK
<1>2. QED
    BY <1>1 DEF Contents, TypeOK, SharedTypeOK

\* The memory the processes see.
userMemory == [p \in Page |-> IF Mapped(p) THEN Contents(p) ELSE NULL]

\* Its type, as a state predicate.
MemoryTypeOK == userMemory \in [Page -> Value \cup {NULL}]

\* Well-typed memory has well-typed contents.
LEMMA MemoryType == TypeOK => MemoryTypeOK
BY ContentsType DEF userMemory, MemoryTypeOK

\* A store changes the page it is about and no other.
LEMMA StoreStep ==
    ASSUME TypeOK, WorkInv, FrameInv, PhaseInv, PteInv,
           NEW t \in Thread, NEW q \in Page, NEW v \in Value, Store(t, q, v)
    PROVE  /\ userMemory[q] # NULL /\ userMemory' = [userMemory EXCEPT ![q] = v]
           /\ UNCHANGED pc
<1> USE DEF At, TypeOK, LocalTypeOK, SharedTypeOK
<1>1. /\ pc[t] = "user" /\ op[t] = "none" /\ Owner[q] = t /\ pte[q] # NULL
      /\ frm_data' = [frm_data EXCEPT ![pte[q]] = v]
      /\ UNCHANGED <<pgVars, diskVars, pc, op, cur_pg>>
    BY DEF Store, PagesOf, WorkInv, WorkPcs, localVars
<1>2. pg_frame[q] = pte[q] /\ frm_page[pte[q]] = q /\ pg_live[q] /\ pte[q] \in Frame
    BY <1>1 DEF PteInv, FrameInv, Dying
<1>3. \A p \in Page : /\ Mapped(p)' <=> Mapped(p)
                      /\ Filling(p)' <=> Filling(p)
                      /\ FilledWith(p)' = FilledWith(p)
                      /\ pg_frame'[p] = pg_frame[p]
    BY <1>1 DEF Mapped, Dying, Filling, FilledWith, pgVars, diskVars
<1>4. Mapped(q) /\ ~Filling(q)
    BY <1>1, <1>2 DEF Mapped, Dying, Filling
<1>5. Contents(q)' = v
    BY <1>1, <1>2, <1>3, <1>4, NullFacts DEF Contents
<1>6. ASSUME NEW p \in Page, p # q PROVE Contents(p)' = Contents(p)
  <2>1. pg_frame[p] # pte[q] \/ pg_frame[p] = NULL
      BY <1>2, <1>6 DEF FrameInv
  <2>2. pg_frame[p] # NULL => frm_data'[pg_frame[p]] = frm_data[pg_frame[p]]
      BY <1>1, <2>1
  <2>3. QED
      BY <1>3, <2>2 DEF Contents
<1>7. userMemory[q] # NULL
    BY <1>4, ContentsType, ConstantsAssumption DEF userMemory
<1>8. \A p \in Page : userMemory'[p] = IF p = q THEN v ELSE userMemory[p]
    BY <1>3, <1>4, <1>5, <1>6 DEF userMemory
<1>9. userMemory' = [userMemory EXCEPT ![q] = v]
    BY <1>8 DEF userMemory
<1>10. QED
    BY <1>1, <1>7, <1>9

\* Every step is a step of the memory the processes are promised.
LEMMA MemoryStep ==
    ASSUME IInv, MemoryTypeOK', ContentsInv(Page), DirtyOutWorks(Page), [Next]_vars
    PROVE  [Memory!Next]_<<userMemory, pc>>
<1>1. ASSUME NEW t \in Thread, UserStep(t) \/ KernelStep(t) PROVE Memory!Next
  <2>1. CASE \E p \in Page, v \in Value : Store(t, p, v)
    <3>1. PICK p \in Page, v \in Value : Store(t, p, v)
        BY <2>1
    <3>2. userMemory[p] # NULL /\ userMemory' = [userMemory EXCEPT ![p] = v] /\ UNCHANGED pc
        BY <3>1, StoreStep DEF IInv
    <3>3. QED
        BY <3>2 DEF Memory!Next, Memory!Store, userMemory
  <2>2. CASE ~\E p \in Page, v \in Value : Store(t, p, v)
    <3>1. \A p \in Page : Mapped(p) /\ Mapped(p)' => Contents(p)' = Contents(p)
        BY <1>1, <2>2, StepWrites, StepMoves, KeepsContents DEF IInv, SlotInv
    <3>2. userMemory' \in [Page -> Value \cup {NULL}]
        BY DEF MemoryTypeOK
    <3>3. CASE MapsMore
      <4>1. \A p \in Page : userMemory'[p] # userMemory[p] => userMemory[p] = NULL
          BY <3>1, <3>3 DEF MapsMore, userMemory
      <4>2. QED
          BY <3>2, <4>1 DEF Memory!Next, Memory!Map, Memory!Contents, userMemory
    <3>4. CASE MapsLess
      <4>1. \A p \in Page : userMemory'[p] # userMemory[p] => userMemory'[p] = NULL
          BY <3>1, <3>4 DEF MapsLess, userMemory
      <4>2. QED
          BY <3>2, <4>1 DEF Memory!Next, Memory!Unmap, Memory!Contents, userMemory
    <3>5. QED
        BY <1>1, <3>3, <3>4, MapsStep DEF IInv, ContentsInv
  <2>3. QED
      BY <2>1, <2>2
<1>2. CASE UNCHANGED vars
    BY <1>2 DEF vars, sharedVars, localVars, pgVars, pteVars, diskVars, userMemory, Mapped, Dying,
                Contents, Filling, FilledWith
<1>3. QED
    BY <1>1, <1>2 DEF Next, Halted

(***************************************************************************)
(* As long as page_out of a modified page of a file finds room in swap or  *)
(* may write the file, paging is invisible: the processes see UserMemory   *)
(* (page_out, do_page_in, page_swap_in, page_swap_out,                     *)
(* try_frame_alloc_and_lock).                                              *)
(***************************************************************************)
THEOREM UserMemoryImplemented == Spec /\ []DirtyOutWorks(Page) => ImplementsUserMemory
<1>1. Init => ContentsInv(Page)
    BY ContentsInit
<1>2. IInv /\ ContentsInv(Page) /\ DirtyOutWorks(Page) /\ [Next]_vars => ContentsInv(Page)'
    BY ContentsStep
<1>3. Init => Memory!Init
    BY DEF Init, Memory!Init, Mapped
<1>4. IInv /\ MemoryTypeOK' /\ ContentsInv(Page) /\ DirtyOutWorks(Page) /\ [Next]_vars
        => [Memory!Next]_<<userMemory, pc>>
    BY MemoryStep
<1>5. IInv => MemoryTypeOK
    BY MemoryType DEF IInv
<1>6. QED
    BY <1>1, <1>2, <1>3, <1>4, <1>5, Invariance, PTL
    DEF Spec, ImplementsUserMemory, Memory!Spec, userMemory

-----------------------------------------------------------------------------
(***************************************************************************)
(* Locks that are always given back.                                       *)
(***************************************************************************)

\* No page_out is about to fail.
OutWorks(S) == \A t \in Thread : pc[t] = "out_dirty" /\ out_pg[t] \in S =>
    /\ MustSwap(out_pg[t]) => ~(Slot \subseteq sw_bitmap)
    /\ MustWrite(out_pg[t]) => out_pg[t] \notin DenyWrite

\* A process has one stack page, which setup_stack gives a frame and no page
\* table entry: until the process runs and faults on it, it cannot be pinned.
OneStack == \A p, q \in Page : Kind[p] = "stack" /\ Kind[q] = "stack" /\ Owner[p] = Owner[q] => p = q
Fresh(p) == Kind[p] = "stack" /\ ~(op[Owner[p]] = "lock_page" /\ cur_pg[Owner[p]] = p)

\* A page in a frame that nobody has locked is mapped, unless it is fresh.
PresentInv == \A p \in Page :
    pg_frame[p] # NULL /\ frm_lock[pg_frame[p]] = NULL => pte[p] # NULL \/ Fresh(p)

\* A page is pinned only while it is mapped.
PinnedInv == \A t \in Thread : pc[t] = "pinned" => pte[cur_pg[t]] # NULL

\* A thread holds the lock of the frame it works on and no other.
NoLeakInv == \A f \in Frame, t \in Thread :
    frm_lock[f] = t => pc[t] \in HeldPcs /\ cur_fr[t] = f

\* A page loses its page table entry only in an eviction that takes its frame,
\* and gets a frame only to be mapped.
LEMMA PresentStep ==
    ASSUME TypeOK, LockInv, WorkInv, BackInv, NoneInv, FrameInv, PhaseInv, PteInv,
           StackInv, OneStack, PresentInv, PinnedInv, OutWorks(Page), ~MapMayFail,
           NEW t \in Thread, UserStep(t) \/ KernelStep(t)
    PROVE  PresentInv'
<1> USE DEF At, vars, sharedVars, localVars, pgVars, pteVars, diskVars,
            PresentInv, Fresh, OneStack, OutWorks, PhaseInv, LockInv, WorkInv, WorkPcs, AllocPcs,
            TypeOK, LocalTypeOK, SharedTypeOK, Pcs, HeldPcs, OutPcs, FillPcs
<1>1. ASSUME NEW p \in Page, Start(t, p) PROVE PresentInv'
    BY <1>1, NullFacts, AtWork, OwnerType, NewPagesFacts
    DEF Start, PagesOf, Begin, Goto, NoneInv, FrameInv
<1>2. ASSUME NEW p \in Page, Load(t, p) PROVE PresentInv'
    BY <1>2, NullFacts, AtWork, OwnerType DEF Load, PagesOf
<1>3. ASSUME NEW p \in Page, NEW v \in Value, Store(t, p, v) PROVE PresentInv'
    BY <1>3, NullFacts, AtWork, OwnerType DEF Store, PagesOf
<1>4. ASSUME NEW p \in Page, PageFault(t, p) PROVE PresentInv'
    BY <1>4, NullFacts, AtWork, OwnerType, PageForAddrFacts, SMTT(30)
    DEF PageFault, PagesOf, Begin, Goto, FrameInv
<1>5. CASE Exit(t)
    BY <1>5, NullFacts, AtWork, OwnerType DEF Exit, Goto
<1>6. CASE KernelFault(t)
    BY <1>6, NullFacts, AtWork, OwnerType DEF KernelFault, Goto
<1>7. ASSUME NEW p \in Page, Mmap(t, p) PROVE PresentInv'
    BY <1>7, NullFacts, AtWork, OwnerType, NewPagesFacts
    DEF Mmap, PagesOf, FrameInv
<1>8. ASSUME NEW p \in Page, Munmap(t, p) PROVE PresentInv'
    BY <1>8, NullFacts, AtWork, OwnerType DEF Munmap, PagesOf, Begin, Goto
<1>9. ASSUME NEW p \in Page, LockThisPage(t, p) PROVE PresentInv'
  <2>1. /\ Owner[p] = t /\ pc[t] = "user" /\ op[t] = "none"
        /\ \A q \in Page : op'[Owner[q]] = "lock_page" /\ cur_pg'[Owner[q]] = q
              => q = p \/ (op[Owner[q]] = "lock_page" /\ cur_pg[Owner[q]] = q)
      BY <1>9, OwnerType DEF LockThisPage, PageForAddr, PagesOf, Begin
  <2>2. Kind[p] = "stack" => pte[p] # NULL
      BY <1>9, <2>1 DEF LockThisPage, StackMapped, PagesOf
  <2>3. \A q \in Page : pg_frame'[q] # NULL => pg_frame'[q] = pg_frame[q]
      BY <1>9, PageForAddrFacts DEF LockThisPage
  <2>4. frm_lock' = frm_lock /\ pte' = pte
      BY <1>9 DEF LockThisPage
  <2>5. ASSUME NEW q \in Page, pg_frame'[q] # NULL, frm_lock'[pg_frame'[q]] = NULL
        PROVE  pte'[q] # NULL \/ Fresh(q)'
    <3>1. pte[q] # NULL \/ (Fresh(q) /\ pte[q] = NULL)
        BY <2>3, <2>4, <2>5
    <3>2. QED
        BY <2>1, <2>2, <2>4, <3>1
  <2>6. QED
      BY <2>5
<1>10. ASSUME NEW p \in Page, DestroyNext(t, p) PROVE PresentInv'
    BY <1>10, NullFacts, AtWork, OwnerType
    DEF DestroyNext, PagesOf, Begin, Goto
<1>11. CASE Exited(t)
    BY <1>11, NullFacts, AtWork, OwnerType DEF Exited, PagesOf, Goto, FrameInv
<1>12. CASE ReadFrame(t)
  <2>1. CASE pg_frame[cur_pg[t]] = NULL
      BY <1>12, <2>1, NullFacts, AtWork, OwnerType, AfterLockLabels
      DEF ReadFrame, Locked, Goto
  <2>2. CASE pg_frame[cur_pg[t]] # NULL
      BY <1>12, <2>2, NullFacts, AtWork, OwnerType, AfterLockLabels
      DEF ReadFrame, Locked, Goto
  <2>3. QED
      BY <2>1, <2>2
<1>13. CASE AcquireFrame(t)
  <2>1. CASE pg_frame[cur_pg[t]] = cur_fr[t]
      BY <1>13, <2>1, NullFacts, AtWork, OwnerType, AfterLockLabels
      DEF AcquireFrame, Locked, Goto
  <2>2. CASE pg_frame[cur_pg[t]] # cur_fr[t]
      BY <1>13, <2>2, NullFacts, AtWork, OwnerType, AfterLockLabels
      DEF AcquireFrame, Locked, Goto
  <2>3. QED
      BY <2>1, <2>2
<1>14. CASE AcquireSLock(t)
    BY <1>14, NullFacts, AtWork, OwnerType DEF AcquireSLock, Goto
<1>15. CASE Scan(t)
  <2>1. CASE len[t] = NFrames
      BY <1>15, <2>1, NullFacts, AtWork, OwnerType DEF Scan, LockFrame, Goto
  <2>2. CASE len[t] # NFrames
              /\ frm_lock[len[t]] = NULL /\ frm_page[len[t]] = NULL
      BY <1>15, <2>2, NullFacts, AtWork, OwnerType DEF Scan, LockFrame, Goto
  <2>3. CASE len[t] # NFrames
              /\ ~(frm_lock[len[t]] = NULL /\ frm_page[len[t]] = NULL)
      BY <1>15, <2>3, NullFacts, AtWork, OwnerType DEF Scan, LockFrame, Goto
  <2>4. QED
      BY <2>1, <2>2, <2>3
<1>16. CASE Clock(t)
  <2>1. CASE frm_lock[f_hand] = NULL /\ frm_page[f_hand] = NULL
      BY <1>16, <2>1, NullFacts, AtWork, OwnerType
      DEF Clock, NextHand, LockFrame, Goto
  <2>2. CASE frm_lock[f_hand] = NULL
              /\ frm_page[f_hand] # NULL /\ ~pte_a[frm_page[f_hand]]
      BY <1>16, <2>2, NullFacts, AtWork, OwnerType
      DEF Clock, NextHand, LockFrame, Goto
  <2>3. CASE frm_lock[f_hand] # NULL \/ (frm_page[f_hand] # NULL
              /\ pte_a[frm_page[f_hand]])
      BY <1>16, <2>3, NullFacts, AtWork, OwnerType
      DEF Clock, NextHand, LockFrame, Goto
  <2>4. QED
      BY <1>16, <2>1, <2>2, <2>3 DEF Clock
<1>17. CASE ClockFails(t)
    BY <1>17, NullFacts, AtWork, OwnerType DEF ClockFails, Goto
<1>18. CASE Retry(t)
  <2>1. CASE try[t] + 1 < Tries
      BY <1>18, <2>1, NullFacts, AtWork, OwnerType DEF Retry, Return, Goto
  <2>2. CASE ~(try[t] + 1 < Tries)
      BY <1>18, <2>2, NullFacts, AtWork, OwnerType DEF Retry, Return, Goto
  <2>3. QED
      BY <2>1, <2>2
<1>19. CASE TakeFrame(t)
  <2>1. CASE op[t] = "setup_stack"
      BY <1>19, <2>1, NullFacts, AtWork, OwnerType, SMTT(60)
      DEF TakeFrame, Unlock, Return, Goto, FrameInv, StackInv
  <2>2. CASE op[t] # "setup_stack"
      BY <1>19, <2>2, NullFacts, AtWork, OwnerType, SMTT(30)
      DEF TakeFrame, Unlock, Return, Goto
  <2>3. QED
      BY <2>1, <2>2
<1>20. CASE OutClear(t)
    BY <1>20, NullFacts, AtWork, OwnerType DEF OutClear, Goto
<1>21. CASE OutClean(t)
    BY <1>21, NullFacts, AtWork, OwnerType DEF OutClean, OutSucceeds, Goto
<1>22. CASE OutWrite(t)
  <2>1. CASE out_pg[t] \in DenyWrite
      BY <1>22, <2>1, NullFacts, AtWork, OwnerType, SMTT(30)
      DEF OutWrite, OutFails, OutSucceeds, Unlock, Goto
  <2>2. CASE out_pg[t] \notin DenyWrite
      BY <1>22, <2>2, NullFacts, AtWork, OwnerType, SMTT(30)
      DEF OutWrite, OutFails, OutSucceeds, Unlock, Goto
  <2>3. QED
      BY <2>1, <2>2
<1>23. CASE OutSwap(t)
  <2>1. CASE Slot \subseteq sw_bitmap
      BY <1>23, <2>1, NullFacts, AtWork, OwnerType, SMTT(30)
      DEF OutSwap, FlipSlot, OutFails, OutSucceeds, Unlock, Goto
  <2>2. CASE ~(Slot \subseteq sw_bitmap)
      BY <1>23, <2>2, NullFacts, AtWork, OwnerType, SMTT(30)
      DEF OutSwap, FlipSlot, OutFails, OutSucceeds, Unlock, Goto
  <2>3. QED
      BY <2>1, <2>2
<1>24. CASE OutDone(t)
    BY <1>24, NullFacts, AtWork, OwnerType, SMTT(30)
    DEF OutDone, Goto, FrameInv
<1>25. CASE LoadPage(t)
    BY <1>25, NullFacts, AtWork, OwnerType DEF LoadPage, FilledWith, Goto
<1>26. CASE SwapReset(t)
    BY <1>26, NullFacts, AtWork, OwnerType, SMTT(30) DEF SwapReset, Goto
<1>27. CASE SwapClear(t)
    BY <1>27, NullFacts, AtWork, OwnerType DEF SwapClear, Goto
<1>28. CASE MapPage(t)
  <2>1. CASE op[t] = "lock_page"
      BY <1>28, <2>1, NullFacts, AtWork, OwnerType, SMTT(30)
      DEF MapPage, Return, Unlock, Goto
  <2>2. CASE op[t] # "lock_page"
      BY <1>28, <2>2, NullFacts, AtWork, OwnerType, SMTT(60)
      DEF MapPage, Return, Unlock, Goto, FrameInv
  <2>3. QED
      BY <2>1, <2>2
<1>29. CASE MapFails(t)
  <2>1. CASE op[t] = "lock_page"
      BY <1>29, <2>1, NullFacts, AtWork, OwnerType, SMTT(30)
      DEF MapFails, Return, Unlock, Goto
  <2>2. CASE op[t] # "lock_page"
      BY <1>29, <2>2, NullFacts, AtWork, OwnerType, SMTT(30)
      DEF MapFails, Return, Unlock, Goto
  <2>3. QED
      BY <2>1, <2>2
<1>30. CASE CopyString(t)
  <2>1. CASE pte[cur_pg[t]] # NULL
      BY <1>30, <2>1, NullFacts, AtWork, OwnerType, SMTT(60)
      DEF CopyString, Return, Unlock, Goto, FrameInv
  <2>2. CASE pte[cur_pg[t]] = NULL
      BY <1>30, <2>2, NullFacts, AtWork, OwnerType, SMTT(30)
      DEF CopyString, Return, Unlock, Goto
  <2>3. QED
      BY <2>1, <2>2
<1>31. CASE FreePage(t)
  <2>1. CASE pc[t] = "free"
      BY <1>31, <2>1, NullFacts, AtWork, OwnerType, SMTT(60)
      DEF FreePage, ReleaseFrame, Return, Unlock, Goto, FrameInv
  <2>2. CASE pc[t] # "free"
      BY <1>31, <2>2, NullFacts, AtWork, OwnerType, SMTT(30)
      DEF FreePage, ReleaseFrame, Return, Unlock, Goto
  <2>3. QED
      BY <2>1, <2>2
<1>32. QED
    BY <1>1, <1>2, <1>3, <1>4, <1>5, <1>6, <1>7, <1>8, <1>9, <1>10, <1>11,
        <1>12, <1>13, <1>14, <1>15, <1>16, <1>17, <1>18, <1>19, <1>20, <1>21,
        <1>22, <1>23, <1>24, <1>25, <1>26, <1>27, <1>28, <1>29, <1>30, <1>31
    DEF UserStep, KernelStep

\* lock_this_page finds the page of a frame it locks mapped, or maps it.
LEMMA PinnedStep ==
    ASSUME TypeOK, LockInv, WorkInv, BackInv, NoneInv, FrameInv, PhaseInv, PteInv,
           OneStack, PresentInv, PinnedInv, OutWorks(Page), ~MapMayFail,
           NEW t \in Thread, UserStep(t) \/ KernelStep(t)
    PROVE  PinnedInv'
<1> USE DEF At, vars, sharedVars, localVars, pgVars, pteVars, diskVars,
            PresentInv, Fresh, PinnedInv, PhaseInv, LockInv, WorkInv, WorkPcs, AllocPcs,
            TypeOK, LocalTypeOK, SharedTypeOK, Pcs, HeldPcs, OutPcs, FillPcs
<1>1. ASSUME NEW p \in Page, Start(t, p) PROVE PinnedInv'
    BY <1>1, NullFacts, AtWork, OwnerType, NewPagesFacts
    DEF Start, PagesOf, Begin, Goto, NoneInv, FrameInv
<1>2. ASSUME NEW p \in Page, Load(t, p) PROVE PinnedInv'
    BY <1>2, NullFacts, AtWork, OwnerType DEF Load, PagesOf
<1>3. ASSUME NEW p \in Page, NEW v \in Value, Store(t, p, v) PROVE PinnedInv'
    BY <1>3, NullFacts, AtWork, OwnerType DEF Store, PagesOf
<1>4. ASSUME NEW p \in Page, PageFault(t, p) PROVE PinnedInv'
    BY <1>4, NullFacts, AtWork, OwnerType, PageForAddrFacts, SMTT(30)
    DEF PageFault, PagesOf, Begin, Goto, FrameInv
<1>5. CASE Exit(t)
    BY <1>5, NullFacts, AtWork, OwnerType DEF Exit, Goto
<1>6. CASE KernelFault(t)
    BY <1>6, NullFacts, AtWork, OwnerType DEF KernelFault, Goto
<1>7. ASSUME NEW p \in Page, Mmap(t, p) PROVE PinnedInv'
    BY <1>7, NullFacts, AtWork, OwnerType, NewPagesFacts
    DEF Mmap, PagesOf, FrameInv
<1>8. ASSUME NEW p \in Page, Munmap(t, p) PROVE PinnedInv'
    BY <1>8, NullFacts, AtWork, OwnerType DEF Munmap, PagesOf, Begin, Goto
<1>9. ASSUME NEW p \in Page, LockThisPage(t, p) PROVE PinnedInv'
    BY <1>9, NullFacts, AtWork, OwnerType, PageForAddrFacts, SMTT(30)
    DEF LockThisPage, PagesOf, Begin, Goto, FrameInv
<1>10. ASSUME NEW p \in Page, DestroyNext(t, p) PROVE PinnedInv'
    BY <1>10, NullFacts, AtWork, OwnerType
    DEF DestroyNext, PagesOf, Begin, Goto
<1>11. CASE Exited(t)
    BY <1>11, NullFacts, AtWork, OwnerType DEF Exited, PagesOf, Goto
<1>12. CASE ReadFrame(t)
  <2>1. CASE pg_frame[cur_pg[t]] = NULL
      BY <1>12, <2>1, NullFacts, AtWork, OwnerType, AfterLockLabels
      DEF ReadFrame, Locked, Goto
  <2>2. CASE pg_frame[cur_pg[t]] # NULL
      BY <1>12, <2>2, NullFacts, AtWork, OwnerType, AfterLockLabels
      DEF ReadFrame, Locked, Goto
  <2>3. QED
      BY <2>1, <2>2
<1>13. CASE AcquireFrame(t)
  <2>1. CASE pg_frame[cur_pg[t]] = cur_fr[t]
      BY <1>13, <2>1, NullFacts, AtWork, OwnerType, AfterLockLabels
      DEF AcquireFrame, Locked, Goto
  <2>2. CASE pg_frame[cur_pg[t]] # cur_fr[t]
      BY <1>13, <2>2, NullFacts, AtWork, OwnerType, AfterLockLabels
      DEF AcquireFrame, Locked, Goto
  <2>3. QED
      BY <2>1, <2>2
<1>14. CASE AcquireSLock(t)
    BY <1>14, NullFacts, AtWork, OwnerType DEF AcquireSLock, Goto
<1>15. CASE Scan(t)
  <2>1. CASE len[t] = NFrames
      BY <1>15, <2>1, NullFacts, AtWork, OwnerType DEF Scan, LockFrame, Goto
  <2>2. CASE len[t] # NFrames
              /\ frm_lock[len[t]] = NULL /\ frm_page[len[t]] = NULL
      BY <1>15, <2>2, NullFacts, AtWork, OwnerType DEF Scan, LockFrame, Goto
  <2>3. CASE len[t] # NFrames
              /\ ~(frm_lock[len[t]] = NULL /\ frm_page[len[t]] = NULL)
      BY <1>15, <2>3, NullFacts, AtWork, OwnerType DEF Scan, LockFrame, Goto
  <2>4. QED
      BY <2>1, <2>2, <2>3
<1>16. CASE Clock(t)
  <2>1. CASE frm_lock[f_hand] = NULL /\ frm_page[f_hand] = NULL
      BY <1>16, <2>1, NullFacts, AtWork, OwnerType
      DEF Clock, NextHand, LockFrame, Goto
  <2>2. CASE frm_lock[f_hand] = NULL
              /\ frm_page[f_hand] # NULL /\ ~pte_a[frm_page[f_hand]]
      BY <1>16, <2>2, NullFacts, AtWork, OwnerType
      DEF Clock, NextHand, LockFrame, Goto
  <2>3. CASE frm_lock[f_hand] # NULL \/ (frm_page[f_hand] # NULL
              /\ pte_a[frm_page[f_hand]])
      BY <1>16, <2>3, NullFacts, AtWork, OwnerType
      DEF Clock, NextHand, LockFrame, Goto
  <2>4. QED
      BY <1>16, <2>1, <2>2, <2>3 DEF Clock
<1>17. CASE ClockFails(t)
    BY <1>17, NullFacts, AtWork, OwnerType DEF ClockFails, Goto
<1>18. CASE Retry(t)
  <2>1. CASE try[t] + 1 < Tries
      BY <1>18, <2>1, NullFacts, AtWork, OwnerType DEF Retry, Return, Goto
  <2>2. CASE ~(try[t] + 1 < Tries)
      BY <1>18, <2>2, NullFacts, AtWork, OwnerType DEF Retry, Return, Goto
  <2>3. QED
      BY <2>1, <2>2
<1>19. CASE TakeFrame(t)
  <2>1. CASE op[t] = "setup_stack"
      BY <1>19, <2>1, NullFacts, AtWork, OwnerType, SMTT(30)
      DEF TakeFrame, Unlock, Return, Goto
  <2>2. CASE op[t] # "setup_stack"
      BY <1>19, <2>2, NullFacts, AtWork, OwnerType, SMTT(30)
      DEF TakeFrame, Unlock, Return, Goto
  <2>3. QED
      BY <2>1, <2>2
<1>20. CASE OutClear(t)
    BY <1>20, NullFacts, AtWork, OwnerType DEF OutClear, Goto
<1>21. CASE OutClean(t)
    BY <1>21, NullFacts, AtWork, OwnerType DEF OutClean, OutSucceeds, Goto
<1>22. CASE OutWrite(t)
  <2>1. CASE out_pg[t] \in DenyWrite
      BY <1>22, <2>1, NullFacts, AtWork, OwnerType, SMTT(30)
      DEF OutWrite, OutFails, OutSucceeds, Unlock, Goto
  <2>2. CASE out_pg[t] \notin DenyWrite
      BY <1>22, <2>2, NullFacts, AtWork, OwnerType, SMTT(30)
      DEF OutWrite, OutFails, OutSucceeds, Unlock, Goto
  <2>3. QED
      BY <2>1, <2>2
<1>23. CASE OutSwap(t)
  <2>1. CASE Slot \subseteq sw_bitmap
      BY <1>23, <2>1, NullFacts, AtWork, OwnerType, SMTT(30)
      DEF OutSwap, FlipSlot, OutFails, OutSucceeds, Unlock, Goto
  <2>2. CASE ~(Slot \subseteq sw_bitmap)
      BY <1>23, <2>2, NullFacts, AtWork, OwnerType, SMTT(30)
      DEF OutSwap, FlipSlot, OutFails, OutSucceeds, Unlock, Goto
  <2>3. QED
      BY <2>1, <2>2
<1>24. CASE OutDone(t)
    BY <1>24, NullFacts, AtWork, OwnerType, SMTT(30)
    DEF OutDone, Goto, FrameInv
<1>25. CASE LoadPage(t)
    BY <1>25, NullFacts, AtWork, OwnerType DEF LoadPage, FilledWith, Goto
<1>26. CASE SwapReset(t)
    BY <1>26, NullFacts, AtWork, OwnerType, SMTT(30) DEF SwapReset, Goto
<1>27. CASE SwapClear(t)
    BY <1>27, NullFacts, AtWork, OwnerType DEF SwapClear, Goto
<1>28. CASE MapPage(t)
  <2>1. CASE op[t] = "lock_page"
      BY <1>28, <2>1, NullFacts, AtWork, OwnerType, SMTT(30)
      DEF MapPage, Return, Unlock, Goto
  <2>2. CASE op[t] # "lock_page"
      BY <1>28, <2>2, NullFacts, AtWork, OwnerType, SMTT(30)
      DEF MapPage, Return, Unlock, Goto
  <2>3. QED
      BY <2>1, <2>2
<1>29. CASE MapFails(t)
  <2>1. CASE op[t] = "lock_page"
      BY <1>29, <2>1, NullFacts, AtWork, OwnerType, SMTT(30)
      DEF MapFails, Return, Unlock, Goto
  <2>2. CASE op[t] # "lock_page"
      BY <1>29, <2>2, NullFacts, AtWork, OwnerType, SMTT(30)
      DEF MapFails, Return, Unlock, Goto
  <2>3. QED
      BY <2>1, <2>2
<1>30. CASE CopyString(t)
  <2>1. CASE pte[cur_pg[t]] # NULL
      BY <1>30, <2>1, NullFacts, AtWork, OwnerType, SMTT(30)
      DEF CopyString, Return, Unlock, Goto
  <2>2. CASE pte[cur_pg[t]] = NULL
      BY <1>30, <2>2, NullFacts, AtWork, OwnerType, SMTT(30)
      DEF CopyString, Return, Unlock, Goto
  <2>3. QED
      BY <2>1, <2>2
<1>31. CASE FreePage(t)
  <2>1. CASE pc[t] = "free"
      BY <1>31, <2>1, NullFacts, AtWork, OwnerType, SMTT(30)
      DEF FreePage, ReleaseFrame, Return, Unlock, Goto
  <2>2. CASE pc[t] # "free"
      BY <1>31, <2>2, NullFacts, AtWork, OwnerType, SMTT(30)
      DEF FreePage, ReleaseFrame, Return, Unlock, Goto
  <2>3. QED
      BY <2>1, <2>2
<1>32. QED
    BY <1>1, <1>2, <1>3, <1>4, <1>5, <1>6, <1>7, <1>8, <1>9, <1>10, <1>11,
        <1>12, <1>13, <1>14, <1>15, <1>16, <1>17, <1>18, <1>19, <1>20, <1>21,
        <1>22, <1>23, <1>24, <1>25, <1>26, <1>27, <1>28, <1>29, <1>30, <1>31
    DEF UserStep, KernelStep

\* Every frame lock is released on the way out of the operation that took it.
LEMMA NoLeakStep ==
    ASSUME TypeOK, LockInv, WorkInv, BackInv, NoneInv, FrameInv, PhaseInv, PteInv,
           PinnedInv, NoLeakInv, OutWorks(Page), ~MapMayFail,
           NEW t \in Thread, UserStep(t) \/ KernelStep(t)
    PROVE  NoLeakInv'
<1> USE DEF At, vars, sharedVars, localVars, pgVars, pteVars, diskVars,
            PinnedInv, NoLeakInv, OutWorks, PhaseInv, LockInv, WorkInv, WorkPcs, AllocPcs,
            TypeOK, LocalTypeOK, SharedTypeOK, Pcs, HeldPcs, OutPcs, FillPcs
<1>1. ASSUME NEW p \in Page, Start(t, p) PROVE NoLeakInv'
    BY <1>1, NullFacts, AtWork, OwnerType, NewPagesFacts
    DEF Start, PagesOf, Begin, Goto, NoneInv, FrameInv
<1>2. ASSUME NEW p \in Page, Load(t, p) PROVE NoLeakInv'
    BY <1>2, NullFacts, AtWork, OwnerType DEF Load, PagesOf
<1>3. ASSUME NEW p \in Page, NEW v \in Value, Store(t, p, v) PROVE NoLeakInv'
    BY <1>3, NullFacts, AtWork, OwnerType DEF Store, PagesOf
<1>4. ASSUME NEW p \in Page, PageFault(t, p) PROVE NoLeakInv'
    BY <1>4, NullFacts, AtWork, OwnerType, PageForAddrFacts, SMTT(30)
    DEF PageFault, PagesOf, Begin, Goto, FrameInv
<1>5. CASE Exit(t)
    BY <1>5, NullFacts, AtWork, OwnerType DEF Exit, Goto
<1>6. CASE KernelFault(t)
    BY <1>6, NullFacts, AtWork, OwnerType DEF KernelFault, Goto
<1>7. ASSUME NEW p \in Page, Mmap(t, p) PROVE NoLeakInv'
    BY <1>7, NullFacts, AtWork, OwnerType, NewPagesFacts
    DEF Mmap, PagesOf, FrameInv
<1>8. ASSUME NEW p \in Page, Munmap(t, p) PROVE NoLeakInv'
    BY <1>8, NullFacts, AtWork, OwnerType DEF Munmap, PagesOf, Begin, Goto
<1>9. ASSUME NEW p \in Page, LockThisPage(t, p) PROVE NoLeakInv'
    BY <1>9, NullFacts, AtWork, OwnerType, PageForAddrFacts, SMTT(30)
    DEF LockThisPage, PagesOf, Begin, Goto, FrameInv
<1>10. ASSUME NEW p \in Page, DestroyNext(t, p) PROVE NoLeakInv'
    BY <1>10, NullFacts, AtWork, OwnerType
    DEF DestroyNext, PagesOf, Begin, Goto
<1>11. CASE Exited(t)
    BY <1>11, NullFacts, AtWork, OwnerType DEF Exited, PagesOf, Goto
<1>12. CASE ReadFrame(t)
  <2>1. CASE pg_frame[cur_pg[t]] = NULL
      BY <1>12, <2>1, NullFacts, AtWork, OwnerType, AfterLockLabels
      DEF ReadFrame, Locked, Goto
  <2>2. CASE pg_frame[cur_pg[t]] # NULL
      BY <1>12, <2>2, NullFacts, AtWork, OwnerType, AfterLockLabels
      DEF ReadFrame, Locked, Goto
  <2>3. QED
      BY <2>1, <2>2
<1>13. CASE AcquireFrame(t)
  <2>1. CASE pg_frame[cur_pg[t]] = cur_fr[t]
      BY <1>13, <2>1, NullFacts, AtWork, OwnerType, AfterLockLabels
      DEF AcquireFrame, Locked, Goto
  <2>2. CASE pg_frame[cur_pg[t]] # cur_fr[t]
      BY <1>13, <2>2, NullFacts, AtWork, OwnerType, AfterLockLabels
      DEF AcquireFrame, Locked, Goto
  <2>3. QED
      BY <2>1, <2>2
<1>14. CASE AcquireSLock(t)
    BY <1>14, NullFacts, AtWork, OwnerType DEF AcquireSLock, Goto
<1>15. CASE Scan(t)
  <2>1. CASE len[t] = NFrames
      BY <1>15, <2>1, NullFacts, AtWork, OwnerType DEF Scan, LockFrame, Goto
  <2>2. CASE len[t] # NFrames
              /\ frm_lock[len[t]] = NULL /\ frm_page[len[t]] = NULL
      BY <1>15, <2>2, NullFacts, AtWork, OwnerType DEF Scan, LockFrame, Goto
  <2>3. CASE len[t] # NFrames
              /\ ~(frm_lock[len[t]] = NULL /\ frm_page[len[t]] = NULL)
      BY <1>15, <2>3, NullFacts, AtWork, OwnerType DEF Scan, LockFrame, Goto
  <2>4. QED
      BY <2>1, <2>2, <2>3
<1>16. CASE Clock(t)
  <2>1. CASE frm_lock[f_hand] = NULL /\ frm_page[f_hand] = NULL
      BY <1>16, <2>1, NullFacts, AtWork, OwnerType
      DEF Clock, NextHand, LockFrame, Goto
  <2>2. CASE frm_lock[f_hand] = NULL
              /\ frm_page[f_hand] # NULL /\ ~pte_a[frm_page[f_hand]]
      BY <1>16, <2>2, NullFacts, AtWork, OwnerType
      DEF Clock, NextHand, LockFrame, Goto
  <2>3. CASE frm_lock[f_hand] # NULL \/ (frm_page[f_hand] # NULL
              /\ pte_a[frm_page[f_hand]])
      BY <1>16, <2>3, NullFacts, AtWork, OwnerType
      DEF Clock, NextHand, LockFrame, Goto
  <2>4. QED
      BY <1>16, <2>1, <2>2, <2>3 DEF Clock
<1>17. CASE ClockFails(t)
    BY <1>17, NullFacts, AtWork, OwnerType DEF ClockFails, Goto
<1>18. CASE Retry(t)
  <2>1. CASE try[t] + 1 < Tries
      BY <1>18, <2>1, NullFacts, AtWork, OwnerType DEF Retry, Return, Goto
  <2>2. CASE ~(try[t] + 1 < Tries)
      BY <1>18, <2>2, NullFacts, AtWork, OwnerType DEF Retry, Return, Goto
  <2>3. QED
      BY <2>1, <2>2
<1>19. CASE TakeFrame(t)
  <2>1. CASE op[t] = "setup_stack"
      BY <1>19, <2>1, NullFacts, AtWork, OwnerType, SMTT(30)
      DEF TakeFrame, Unlock, Return, Goto
  <2>2. CASE op[t] # "setup_stack"
      BY <1>19, <2>2, NullFacts, AtWork, OwnerType, SMTT(30)
      DEF TakeFrame, Unlock, Return, Goto
  <2>3. QED
      BY <2>1, <2>2
<1>20. CASE OutClear(t)
    BY <1>20, NullFacts, AtWork, OwnerType DEF OutClear, Goto
<1>21. CASE OutClean(t)
    BY <1>21, NullFacts, AtWork, OwnerType DEF OutClean, OutSucceeds, Goto
<1>22. CASE OutWrite(t)
  <2>1. CASE out_pg[t] \in DenyWrite
      BY <1>22, <2>1, NullFacts, AtWork, OwnerType, SMTT(30)
      DEF OutWrite, OutFails, OutSucceeds, Unlock, Goto
  <2>2. CASE out_pg[t] \notin DenyWrite
      BY <1>22, <2>2, NullFacts, AtWork, OwnerType, SMTT(30)
      DEF OutWrite, OutFails, OutSucceeds, Unlock, Goto
  <2>3. QED
      BY <2>1, <2>2
<1>23. CASE OutSwap(t)
  <2>1. CASE Slot \subseteq sw_bitmap
      BY <1>23, <2>1, NullFacts, AtWork, OwnerType, SMTT(30)
      DEF OutSwap, FlipSlot, OutFails, OutSucceeds, Unlock, Goto
  <2>2. CASE ~(Slot \subseteq sw_bitmap)
      BY <1>23, <2>2, NullFacts, AtWork, OwnerType, SMTT(30)
      DEF OutSwap, FlipSlot, OutFails, OutSucceeds, Unlock, Goto
  <2>3. QED
      BY <2>1, <2>2
<1>24. CASE OutDone(t)
    BY <1>24, NullFacts, AtWork, OwnerType, SMTT(30)
    DEF OutDone, Goto, FrameInv
<1>25. CASE LoadPage(t)
    BY <1>25, NullFacts, AtWork, OwnerType DEF LoadPage, FilledWith, Goto
<1>26. CASE SwapReset(t)
    BY <1>26, NullFacts, AtWork, OwnerType, SMTT(30) DEF SwapReset, Goto
<1>27. CASE SwapClear(t)
    BY <1>27, NullFacts, AtWork, OwnerType DEF SwapClear, Goto
<1>28. CASE MapPage(t)
  <2>1. CASE op[t] = "lock_page"
      BY <1>28, <2>1, NullFacts, AtWork, OwnerType, SMTT(30)
      DEF MapPage, Return, Unlock, Goto
  <2>2. CASE op[t] # "lock_page"
      BY <1>28, <2>2, NullFacts, AtWork, OwnerType, SMTT(30)
      DEF MapPage, Return, Unlock, Goto
  <2>3. QED
      BY <2>1, <2>2
<1>29. CASE MapFails(t)
  <2>1. CASE op[t] = "lock_page"
      BY <1>29, <2>1, NullFacts, AtWork, OwnerType, SMTT(30)
      DEF MapFails, Return, Unlock, Goto
  <2>2. CASE op[t] # "lock_page"
      BY <1>29, <2>2, NullFacts, AtWork, OwnerType, SMTT(30)
      DEF MapFails, Return, Unlock, Goto
  <2>3. QED
      BY <2>1, <2>2
<1>30. CASE CopyString(t)
  <2>1. CASE pte[cur_pg[t]] # NULL
      BY <1>30, <2>1, NullFacts, AtWork, OwnerType, SMTT(30)
      DEF CopyString, Return, Unlock, Goto
  <2>2. CASE pte[cur_pg[t]] = NULL
      BY <1>30, <2>2, NullFacts, AtWork, OwnerType, SMTT(30)
      DEF CopyString, Return, Unlock, Goto
  <2>3. QED
      BY <2>1, <2>2
<1>31. CASE FreePage(t)
  <2>1. CASE pc[t] = "free"
      BY <1>31, <2>1, NullFacts, AtWork, OwnerType, SMTT(30)
      DEF FreePage, ReleaseFrame, Return, Unlock, Goto
  <2>2. CASE pc[t] # "free"
      BY <1>31, <2>2, NullFacts, AtWork, OwnerType, SMTT(30)
      DEF FreePage, ReleaseFrame, Return, Unlock, Goto
  <2>3. QED
      BY <2>1, <2>2
<1>32. QED
    BY <1>1, <1>2, <1>3, <1>4, <1>5, <1>6, <1>7, <1>8, <1>9, <1>10, <1>11,
        <1>12, <1>13, <1>14, <1>15, <1>16, <1>17, <1>18, <1>19, <1>20, <1>21,
        <1>22, <1>23, <1>24, <1>25, <1>26, <1>27, <1>28, <1>29, <1>30, <1>31
    DEF UserStep, KernelStep

(***************************************************************************)
(* When page_out works and page tables can be allocated, and a process has *)
(* one stack page, no thread ever waits for a frame lock it holds itself:  *)
(* page_in, lock_this_page, deallocation_of_page and destroy_page release  *)
(* every lock they take (lock_curr_pg_frame's lock_acquire).               *)
(***************************************************************************)
THEOREM NoSelfDeadlockHolds ==
    ASSUME ~MapMayFail, OneStack
    PROVE  Spec /\ []OutWorks(Page) => []NoSelfDeadlock
<1> DEFINE LocksInv == StackInv /\ PresentInv /\ PinnedInv /\ NoLeakInv
<1>1. Init => LocksInv
    BY NullFacts DEF Init, StackInv, PresentInv, PinnedInv, NoLeakInv
<1>2. IInv /\ LocksInv /\ OutWorks(Page) /\ [Next]_vars => LocksInv'
  <2> SUFFICES ASSUME IInv, LocksInv, OutWorks(Page), [Next]_vars PROVE LocksInv'
      OBVIOUS
  <2>1. ASSUME NEW t \in Thread, UserStep(t) \/ KernelStep(t) PROVE LocksInv'
    <3>1. Writes(t) /\ Moves(t)
        BY <2>1, StepWrites, StepMoves DEF IInv
    <3>2. QED
        BY <2>1, <3>1, StackStep, PresentStep, PinnedStep, NoLeakStep DEF IInv
  <2>2. CASE UNCHANGED vars
      BY <2>2 DEF vars, sharedVars, localVars, pgVars, pteVars, diskVars, StackInv, PresentInv, Fresh,
                  PinnedInv, NoLeakInv
  <2>3. QED
      BY <2>1, <2>2 DEF Next, Halted
<1>3. IInv /\ LocksInv => NoSelfDeadlock
    BY DEF IInv, PhaseInv, NoLeakInv, NoSelfDeadlock, AcquireAssert, HeldPcs, OutPcs, FillPcs
<1> HIDE DEF LocksInv
<1>4. QED
    BY <1>1, <1>2, <1>3, Invariance, PTL DEF Spec
=============================================================================
