--------------------------- MODULE VirtualMemory ---------------------------
(***************************************************************************)
(* Demand paging in the Pintos kernel of pintos-project3-vm: vm/frame.c,   *)
(* vm/page.c and vm/swap.c, with the parts of userprog/pagedir.c,          *)
(* userprog/exception.c, userprog/process.c and userprog/syscall.c that    *)
(* call them.  Each kernel thread runs one user process.  Interrupts are   *)
(* enabled in all of this code, so the timer may switch threads between    *)
(* any two accesses to shared state: each label of pc starts a step that   *)
(* touches state other threads can see once, or under a lock that hides    *)
(* the rest of the step from them.                                         *)
(*                                                                         *)
(* sw_lock guards nothing but one call of bitmap_scan_and_flip, which is   *)
(* one step here.  The contents of a page are one value: no property tells *)
(* its bytes apart.                                                        *)
(***************************************************************************)
EXTENDS Naturals, FiniteSets

CONSTANTS
    Thread,      \* kernel threads, each able to run a user process
    Page,        \* user pages: one struct page at a time for each of them
    Owner,       \* Owner[p]: the thread whose address space holds p
    Kind,        \* Kind[p]: how the process comes to have p (see Kinds)
    NFrames,     \* no_of_frames
    NSlots,      \* bits of sw_bitmap
    Tries,       \* tries of frame_allocate: 3 in the code
    Value,       \* contents of a page; 0 is the zero-filled page
    Stored,      \* BOUND: the pages user code stores to; it may read them all
    Strings,     \* BOUND: the pages user code passes strings in
    DenyWrite,   \* mapped pages of a running executable: file_write_at fails
    MapMayFail,  \* whether lookup_page may find no memory for a page table
    MaxSpawns,   \* BOUND: processes started per thread
    NULL

Frame == 0 .. NFrames - 1
Slot  == 0 .. NSlots - 1

(***************************************************************************)
(* "code" is read-only and "data" writable, both from the executable;      *)
(* "stack" is the page setup_stack creates, "grow" a page of stack growth, *)
(* "mmap" a page of a memory-mapped file.                                  *)
(***************************************************************************)
Kinds == {"code", "data", "stack", "grow", "mmap"}

ASSUME ConstantsAssumption ==
    /\ NFrames \in Nat \ {0}
    /\ NSlots \in Nat
    /\ Tries \in Nat \ {0}
    /\ MaxSpawns \in Nat
    /\ 0 \in Value
    /\ Owner \in [Page -> Thread]
    /\ Kind \in [Page -> Kinds]
    /\ \A p \in Stored : p \in Page /\ Kind[p] # "code"
    /\ DenyWrite \subseteq Page
    /\ MapMayFail \in BOOLEAN
    /\ NULL \notin Thread \cup Page \cup Frame \cup Slot \cup Value

VARIABLES
    frm_page,    \* s_frame[f].page
    frm_lock,    \* holder of s_frame[f].lock, or NULL
    frm_data,    \* what is in the memory at s_frame[f].fkbase
    f_hand,      \* hand of the clock
    s_lock,      \* holder of s_lock, or NULL
    pg_live,     \* the page is in its process's hash table
    pg_frame,    \* pg->frame
    pg_back,     \* pg->file and pg->private: "none", "private" or "shared"
    pg_swap,     \* pg->swap_sec as a slot, or NULL for -1
    pte,         \* frame the page table entry maps, or NULL if PTE_P is clear
    pte_a,       \* PTE_A
    pte_d,       \* PTE_D
    sw_bitmap,   \* slots marked in use
    sw_data,     \* contents of the swap device
    file_data,   \* contents of the part of the file behind the page
    pc,          \* where each thread is
    op,          \* the operation of page.c or process.c it is executing
    cur_pg,      \* the page that operation is about
    cur_fr,      \* the frame it works on
    out_pg,      \* argument of page_out
    len,         \* loop counter of try_frame_alloc_and_lock
    try,         \* loop counter of frame_allocate
    spawns       \* processes started so far

pgVars    == <<pg_live, pg_frame, pg_back, pg_swap>>
pteVars   == <<pte, pte_a, pte_d>>
diskVars  == <<sw_bitmap, sw_data, file_data>>
localVars == <<op, cur_pg, cur_fr, out_pg, len, try, spawns>>
sharedVars == <<frm_page, frm_lock, frm_data, f_hand, s_lock, pgVars, pteVars,
                diskVars>>
vars == <<sharedVars, pc, localVars>>

OutPcs  == {"out_clear", "out_dirty", "out_done"}
FillPcs == {"load", "swap_reset", "swap_clear", "map", "pinned"}
\* Labels at which a thread works on a frame that it has locked.
HeldPcs == OutPcs \cup FillPcs \cup {"take", "free"}
Pcs     == HeldPcs \cup {"none", "user", "exit", "lcf", "lcf_acq", "free_none",
                         "alloc", "scan", "clock", "retry"}
Ops     == {"page_in", "lock_page", "munmap", "destroy", "setup_stack", "none"}

PagesOf(t) == {p \in Page : Owner[p] = t}

(***************************************************************************)
(* The backing a struct page is created with: load_segment sets file and   *)
(* leaves private = writable, memory_map sets file and clears private.     *)
(***************************************************************************)
BackingOf(p) == CASE Kind[p] = "data" -> "private"
                  [] Kind[p] \in {"code", "mmap"} -> "shared"
                  [] OTHER -> "none"

Init ==
    /\ frm_page = [f \in Frame |-> NULL]
    /\ frm_lock = [f \in Frame |-> NULL]
    /\ frm_data = [f \in Frame |-> 0]
    /\ f_hand = 0 /\ s_lock = NULL
    /\ pg_live = [p \in Page |-> FALSE]
    /\ pg_frame = [p \in Page |-> NULL]
    /\ pg_back = [p \in Page |-> "none"]
    /\ pg_swap = [p \in Page |-> NULL]
    /\ pte = [p \in Page |-> NULL]
    /\ pte_a = [p \in Page |-> FALSE]
    /\ pte_d = [p \in Page |-> FALSE]
    /\ sw_bitmap = {}
    /\ sw_data = [s \in Slot |-> 0]
    /\ file_data = [p \in Page |-> 0]
    /\ pc = [t \in Thread |-> "none"]
    /\ op = [t \in Thread |-> "none"]
    /\ cur_pg = [t \in Thread |-> NULL]
    /\ cur_fr = [t \in Thread |-> NULL]
    /\ out_pg = [t \in Thread |-> NULL]
    /\ len = [t \in Thread |-> 0]
    /\ try = [t \in Thread |-> 0]
    /\ spawns = [t \in Thread |-> 0]

(***************************************************************************)
(* The ASSERTs the thread is about to execute.  A false one panics.        *)
(***************************************************************************)
HeldBy(t, f) == f # NULL /\ frm_lock[f] = t

\* lock_acquire: "ASSERT (!lock_held_by_current_thread (lock))".
AcquireAssert(t) == pc[t] = "lcf_acq" => frm_lock[cur_fr[t]] # t

AssertsOf(t) ==
    /\ pc[t] = "lcf_acq" /\ frm_lock[cur_fr[t]] = NULL =>
          pg_frame[cur_pg[t]] \in {cur_fr[t], NULL}
    /\ pc[t] = "scan" /\ len[t] < NFrames => frm_lock[len[t]] # t
    /\ pc[t] = "clock" =>
          /\ frm_lock[f_hand] # t
          /\ frm_lock[f_hand] = NULL /\ frm_page[f_hand] # NULL
                => pg_frame[frm_page[f_hand]] = f_hand
    /\ pc[t] \in {"out_clear", "out_dirty"} => HeldBy(t, pg_frame[out_pg[t]])
    /\ pc[t] = "swap_reset" => /\ HeldBy(t, pg_frame[cur_pg[t]])
                               /\ pg_swap[cur_pg[t]] # NULL
    /\ pc[t] = "map" => HeldBy(t, pg_frame[cur_pg[t]]) /\ pte[cur_pg[t]] = NULL
    /\ pc[t] = "pinned" => HeldBy(t, pg_frame[cur_pg[t]])
    /\ pc[t] = "free" => HeldBy(t, cur_fr[t])

\* A thread whose ASSERT fails panics the kernel when it runs; until then the
\* others may go on.
Panics(t) == ~AcquireAssert(t) \/ ~AssertsOf(t)

\* Thread t is about to execute the step at label l.
At(t, l) == pc[t] = l /\ ~Panics(t)

Goto(t, l) == pc' = [pc EXCEPT ![t] = l]

\* Enters an operation on page p, whose first step is at label l.
Begin(t, o, p, l) ==
    /\ op' = [op EXCEPT ![t] = o]
    /\ cur_pg' = [cur_pg EXCEPT ![t] = p]
    /\ Goto(t, l)
    /\ UNCHANGED <<cur_fr, out_pg, len, try>>

\* Leaves the operation for label l, its locals forgotten.
Return(t, l) ==
    /\ op' = [op EXCEPT ![t] = "none"]
    /\ cur_pg' = [cur_pg EXCEPT ![t] = NULL]
    /\ cur_fr' = [cur_fr EXCEPT ![t] = NULL]
    /\ out_pg' = [out_pg EXCEPT ![t] = NULL]
    /\ try' = [try EXCEPT ![t] = 0]
    /\ Goto(t, l)
    /\ UNCHANGED <<len, spawns>>

\* Mutant: the lock is not released.
MutantUnlock(f) == UNCHANGED frm_lock

Unlock(f) == frm_lock' = [frm_lock EXCEPT ![f] = NULL]

\* allocation_of_page: fresh struct pages for the pages of S.
NewPages(S) ==
    /\ pg_live' = [p \in Page |-> p \in S \/ pg_live[p]]
    /\ pg_frame' = [p \in Page |-> IF p \in S THEN NULL ELSE pg_frame[p]]
    /\ pg_swap' = [p \in Page |-> IF p \in S THEN NULL ELSE pg_swap[p]]
    /\ pg_back' = [p \in Page |-> IF p \in S THEN BackingOf(p) ELSE pg_back[p]]

-----------------------------------------------------------------------------
(***************************************************************************)
(* The life of a process.                                                  *)
(***************************************************************************)

\* load: the segments' pages and the stack page p enter the hash table, then
\* setup_stack asks for a frame for p.
Start(t, p) ==
    /\ At(t, "none") /\ spawns[t] < MaxSpawns
    /\ p \in PagesOf(t) /\ Kind[p] = "stack"
    /\ NewPages({q \in PagesOf(t) : Kind[q] \in {"code", "data", "stack"}})
    /\ spawns' = [spawns EXCEPT ![t] = @ + 1]
    /\ Begin(t, "setup_stack", p, "alloc")
    /\ UNCHANGED <<frm_page, frm_lock, frm_data, f_hand, s_lock, pteVars,
                   diskVars>>

\* The processor follows a present entry and records the access in it.
Load(t, p) ==
    /\ At(t, "user")
    /\ p \in PagesOf(t) /\ pte[p] # NULL
    /\ pte_a' = [pte_a EXCEPT ![p] = TRUE]
    /\ UNCHANGED <<frm_page, frm_lock, frm_data, f_hand, s_lock, pgVars, pte,
                   pte_d, diskVars, pc, localVars>>

Store(t, p, v) ==
    /\ At(t, "user")
    /\ p \in PagesOf(t) \cap Stored /\ pte[p] # NULL
    /\ frm_data' = [frm_data EXCEPT ![pte[p]] = v]
    /\ pte_a' = [pte_a EXCEPT ![p] = TRUE]
    /\ pte_d' = [pte_d EXCEPT ![p] = TRUE]
    /\ UNCHANGED <<frm_page, frm_lock, f_hand, s_lock, pgVars, pte, diskVars,
                   pc, localVars>>

\* page_for_addr: the struct page of p, allocated now if it is stack growth.
PageForAddr(t, p) ==
    /\ p \in PagesOf(t)
    /\ pg_live[p] \/ Kind[p] = "grow"
    /\ NewPages(IF pg_live[p] THEN {} ELSE {p})

\* page_fault from user mode: page_in.
PageFault(t, p) ==
    /\ At(t, "user") /\ pte[p] = NULL
    /\ PageForAddr(t, p)
    /\ Begin(t, "page_in", p, "lcf")
    /\ UNCHANGED <<frm_page, frm_lock, frm_data, f_hand, s_lock, pteVars,
                   diskVars, spawns>>

\* exit_thread, or kill after an access no page explains.
Exit(t) ==
    /\ At(t, "user")
    /\ Goto(t, "exit")
    /\ UNCHANGED <<sharedVars, localVars>>

\* syscall_handler dereferences the user stack pointer.
StackMapped(t) ==
    \E p \in PagesOf(t) : Kind[p] = "stack" /\ pte[p] # NULL

\* A system call whose arguments are on an evicted page: the handler faults
\* in kernel mode, which page_fault answers with thread_exit.
KernelFault(t) ==
    /\ At(t, "user") /\ ~StackMapped(t)
    /\ Goto(t, "exit")
    /\ UNCHANGED <<sharedVars, localVars>>

\* memory_map and memory_unmap, of a file of one page.
Mmap(t, p) ==
    /\ At(t, "user") /\ StackMapped(t)
    /\ p \in PagesOf(t) /\ Kind[p] = "mmap" /\ ~pg_live[p]
    /\ NewPages({p})
    /\ UNCHANGED <<frm_page, frm_lock, frm_data, f_hand, s_lock, pteVars,
                   diskVars, pc, localVars>>

Munmap(t, p) ==
    /\ At(t, "user") /\ StackMapped(t)
    /\ p \in PagesOf(t) /\ Kind[p] = "mmap" /\ pg_live[p]
    /\ Begin(t, "munmap", p, "lcf")
    /\ UNCHANGED <<sharedVars, spawns>>

\* exec or remove: the kernel copies a string from user page p, which it
\* pins with lock_this_page.
LockThisPage(t, p) ==
    /\ At(t, "user") /\ StackMapped(t) /\ p \in Strings
    /\ PageForAddr(t, p)
    /\ Begin(t, "lock_page", p, "lcf")
    /\ UNCHANGED <<frm_page, frm_lock, frm_data, f_hand, s_lock, pteVars,
                   diskVars, spawns>>

\* delete_cur_page_pte: hash_destroy hands each page to destroy_page, in an
\* order that depends on the hash.
DestroyNext(t, p) ==
    /\ At(t, "exit")
    /\ p \in PagesOf(t) /\ pg_live[p]
    /\ Begin(t, "destroy", p, "lcf")
    /\ UNCHANGED <<sharedVars, spawns>>

\* All pages gone: pagedir_destroy.
Exited(t) ==
    /\ At(t, "exit")
    /\ \A p \in PagesOf(t) : ~pg_live[p]
    /\ pte' = [p \in Page |-> IF p \in PagesOf(t) THEN NULL ELSE pte[p]]
    /\ pte_a' = [p \in Page |-> p \notin PagesOf(t) /\ pte_a[p]]
    /\ pte_d' = [p \in Page |-> p \notin PagesOf(t) /\ pte_d[p]]
    /\ Goto(t, "none")
    /\ UNCHANGED <<frm_page, frm_lock, frm_data, f_hand, s_lock, pgVars,
                   diskVars, localVars>>

-----------------------------------------------------------------------------
(***************************************************************************)
(* lock_curr_pg_frame: read pg->frame, lock it, look again, and unlock it  *)
(* if the page has lost it.  The second look is part of the step that      *)
(* takes the lock: nobody changes the frame of a page without it.          *)
(***************************************************************************)

\* What the caller does with page p, now that its frame f is locked or NULL.
AfterLock(o, p, f) ==
    CASE o \in {"page_in", "lock_page"} /\ f = NULL -> "alloc"
      [] o = "page_in" /\ f # NULL -> "map"
      [] o = "lock_page" /\ f # NULL -> "pinned"
      [] o = "munmap" /\ f # NULL /\ pg_back[p] = "shared" -> "out_clear"
      [] o \in {"munmap", "destroy"} /\ f = NULL -> "free_none"
      [] OTHER -> "free"

Locked(t, f) ==
    LET l == AfterLock(op[t], cur_pg[t], f)
    IN  /\ cur_fr' = [cur_fr EXCEPT ![t] = f]
        /\ out_pg' = [out_pg EXCEPT ![t] =
                         IF l = "out_clear" THEN cur_pg[t] ELSE NULL]
        /\ Goto(t, l)
        /\ UNCHANGED <<op, cur_pg, len, try, spawns>>

ReadFrame(t) ==
    /\ At(t, "lcf")
    /\ IF pg_frame[cur_pg[t]] = NULL
       THEN Locked(t, NULL)
       ELSE /\ cur_fr' = [cur_fr EXCEPT ![t] = pg_frame[cur_pg[t]]]
            /\ Goto(t, "lcf_acq")
            /\ UNCHANGED <<op, cur_pg, out_pg, len, try, spawns>>
    /\ UNCHANGED sharedVars

\* Mutant: no second look at pg->frame once the lock is taken.
MutantAcquireFrame(t) ==
    /\ At(t, "lcf_acq")
    /\ frm_lock[cur_fr[t]] = NULL
    /\ Locked(t, cur_fr[t])
    /\ frm_lock' = [frm_lock EXCEPT ![cur_fr[t]] = t]
    /\ UNCHANGED <<frm_page, frm_data, f_hand, s_lock, pgVars, pteVars,
                   diskVars>>

AcquireFrame(t) ==
    /\ At(t, "lcf_acq")
    /\ frm_lock[cur_fr[t]] = NULL
    /\ IF pg_frame[cur_pg[t]] = cur_fr[t]
       THEN /\ Locked(t, cur_fr[t])
            /\ frm_lock' = [frm_lock EXCEPT ![cur_fr[t]] = t]
       ELSE Locked(t, NULL) /\ UNCHANGED frm_lock
    /\ UNCHANGED <<frm_page, frm_data, f_hand, s_lock, pgVars, pteVars,
                   diskVars>>

-----------------------------------------------------------------------------
(***************************************************************************)
(* frame_allocate and try_frame_alloc_and_lock.                            *)
(***************************************************************************)

AcquireSLock(t) ==
    /\ At(t, "alloc")
    /\ s_lock = NULL
    /\ s_lock' = t
    /\ Goto(t, "scan")
    /\ UNCHANGED <<frm_page, frm_lock, frm_data, f_hand, pgVars, pteVars,
                   diskVars, localVars>>

\* Lock frame f, leave s_lock and go on at label l.
LockFrame(t, f, l) ==
    /\ frm_lock' = [frm_lock EXCEPT ![f] = t]
    /\ cur_fr' = [cur_fr EXCEPT ![t] = f]
    /\ s_lock' = NULL
    /\ len' = [len EXCEPT ![t] = 0]
    /\ Goto(t, l)

\* One iteration of the search for a free frame.  A frame that is locked and
\* unlocked again within the iteration is simply passed over.
Scan(t) ==
    /\ At(t, "scan")
    /\ IF len[t] = NFrames
       THEN /\ len' = [len EXCEPT ![t] = 0]
            /\ Goto(t, "clock")
            /\ UNCHANGED <<frm_lock, cur_fr, s_lock>>
       ELSE IF frm_lock[len[t]] = NULL /\ frm_page[len[t]] = NULL
       THEN LockFrame(t, len[t], "take")
       ELSE /\ len' = [len EXCEPT ![t] = @ + 1]
            /\ UNCHANGED <<frm_lock, cur_fr, s_lock, pc>>
    /\ UNCHANGED <<frm_page, frm_data, f_hand, pgVars, pteVars, diskVars,
                   op, cur_pg, out_pg, try, spawns>>

\* Mutant: the hand goes one past the last frame.
MutantNextHand == IF f_hand + 1 > NFrames THEN 0 ELSE f_hand + 1

NextHand == IF f_hand + 1 >= NFrames THEN 0 ELSE f_hand + 1

\* One iteration of the clock: pass over a locked frame, take a free one,
\* give a recently accessed one a second chance, else evict.
Clock(t) ==
    /\ At(t, "clock") /\ len[t] < 2 * NFrames
    /\ f_hand' = NextHand
    /\ LET q == frm_page[f_hand]
           idle == frm_lock[f_hand] = NULL
       IN  \/ /\ idle /\ q = NULL
              /\ LockFrame(t, f_hand, "take")
              /\ UNCHANGED <<out_pg, pte_a>>
           \/ /\ idle /\ q # NULL /\ ~pte_a[q]
              /\ LockFrame(t, f_hand, "out_clear")
              /\ out_pg' = [out_pg EXCEPT ![t] = q]
              /\ UNCHANGED pte_a
           \/ /\ ~idle \/ (q # NULL /\ pte_a[q])
              /\ pte_a' = IF idle THEN [pte_a EXCEPT ![q] = FALSE] ELSE pte_a
              /\ len' = [len EXCEPT ![t] = @ + 1]
              /\ UNCHANGED <<frm_lock, cur_fr, out_pg, s_lock, pc>>
    /\ UNCHANGED <<frm_page, frm_data, pgVars, pte, pte_d, diskVars, op,
                   cur_pg, try, spawns>>

\* Every frame locked or recently accessed, twice round.
ClockFails(t) ==
    /\ At(t, "clock") /\ len[t] = 2 * NFrames
    /\ s_lock' = NULL
    /\ len' = [len EXCEPT ![t] = 0]
    /\ Goto(t, "retry")
    /\ UNCHANGED <<frm_page, frm_lock, frm_data, f_hand, pgVars, pteVars,
                   diskVars, op, cur_pg, cur_fr, out_pg, try, spawns>>

\* timer_msleep, then another try; after the last the process is killed.
Retry(t) ==
    /\ At(t, "retry")
    /\ IF try[t] + 1 < Tries
       THEN /\ try' = [try EXCEPT ![t] = @ + 1]
            /\ Goto(t, "alloc")
            /\ UNCHANGED <<op, cur_pg, cur_fr, out_pg, len, spawns>>
       ELSE Return(t, "exit")
    /\ UNCHANGED sharedVars

\* frm->page = page, then pg->frame = frame_allocate (pg), which only this
\* thread reads.  setup_stack goes on to write the arguments to the frame,
\* leaves the rest of it as it was, and unlocks it.
TakeFrame(t) ==
    /\ At(t, "take")
    /\ frm_page' = [frm_page EXCEPT ![cur_fr[t]] = cur_pg[t]]
    /\ pg_frame' = [pg_frame EXCEPT ![cur_pg[t]] = cur_fr[t]]
    /\ IF op[t] = "setup_stack"
       THEN Unlock(cur_fr[t]) /\ Return(t, "user")
       ELSE Goto(t, "load") /\ UNCHANGED <<frm_lock, localVars>>
    /\ UNCHANGED <<frm_data, f_hand, s_lock, pg_live, pg_back, pg_swap,
                   pteVars, diskVars>>

-----------------------------------------------------------------------------
(***************************************************************************)
(* page_out and page_swap_out, on the page out_pg[t] in frame cur_fr[t].   *)
(***************************************************************************)

\* Mutant: the page table entry survives.
MutantOutClear(t) ==
    /\ At(t, "out_clear")
    /\ Goto(t, "out_dirty")
    /\ UNCHANGED <<sharedVars, localVars>>

OutClear(t) ==
    /\ At(t, "out_clear")
    /\ pte' = [pte EXCEPT ![out_pg[t]] = NULL]
    /\ Goto(t, "out_dirty")
    /\ UNCHANGED <<frm_page, frm_lock, frm_data, f_hand, s_lock, pgVars,
                   pte_a, pte_d, diskVars, localVars>>

\* Mutant: the frame stays locked.
MutantOutFails(t) ==
    /\ out_pg' = [out_pg EXCEPT ![t] = NULL]
    /\ IF op[t] = "munmap"
       THEN Goto(t, "free") /\ UNCHANGED <<frm_lock, cur_fr>>
       ELSE /\ UNCHANGED frm_lock
            /\ cur_fr' = [cur_fr EXCEPT ![t] = NULL]
            /\ Goto(t, "retry")

\* page_out returns false: deallocation_of_page goes on regardless,
\* try_frame_alloc_and_lock unlocks the frame and gives up.
OutFails(t) ==
    /\ out_pg' = [out_pg EXCEPT ![t] = NULL]
    /\ IF op[t] = "munmap"
       THEN Goto(t, "free") /\ UNCHANGED <<frm_lock, cur_fr>>
       ELSE /\ Unlock(cur_fr[t])
            /\ cur_fr' = [cur_fr EXCEPT ![t] = NULL]
            /\ Goto(t, "retry")

OutSucceeds(t) ==
    Goto(t, "out_done") /\ UNCHANGED <<frm_lock, cur_fr, out_pg>>

\* Mutant: a modified page of the executable is dropped.
MutantMustSwap(p) == pg_back[p] = "none"

\* Mutant: the accessed bit instead of the dirty bit.
MutantMustWrite(p) == pg_back[p] = "shared" /\ pte_a[p]

MustSwap(p) == pg_back[p] = "none" \/ (pg_back[p] = "private" /\ pte_d[p])
MustWrite(p) == pg_back[p] = "shared" /\ pte_d[p]

\* A clean page of a file needs no writing.
OutClean(t) ==
    /\ At(t, "out_dirty")
    /\ ~MustSwap(out_pg[t]) /\ ~MustWrite(out_pg[t])
    /\ OutSucceeds(t)
    /\ UNCHANGED <<frm_page, frm_data, f_hand, s_lock, pgVars, pteVars,
                   diskVars, op, cur_pg, len, try, spawns>>

OutWrite(t) ==
    /\ At(t, "out_dirty") /\ MustWrite(out_pg[t])
    /\ IF out_pg[t] \in DenyWrite
       THEN OutFails(t) /\ UNCHANGED file_data
       ELSE /\ file_data' = [file_data EXCEPT
                                ![out_pg[t]] = frm_data[cur_fr[t]]]
            /\ OutSucceeds(t)
    /\ UNCHANGED <<frm_page, frm_data, f_hand, s_lock, pgVars, pteVars,
                   sw_bitmap, sw_data, op, cur_pg, len, try, spawns>>

\* Mutant: bitmap_scan without the flip.
MutantFlipSlot(s) == UNCHANGED sw_bitmap

FlipSlot(s) == sw_bitmap' = sw_bitmap \cup {s}

\* page_swap_out: bitmap_scan_and_flip takes the lowest free slot, which
\* nobody else reads or writes while it is marked.
OutSwap(t) ==
    /\ At(t, "out_dirty") /\ MustSwap(out_pg[t])
    /\ \/ /\ Slot \subseteq sw_bitmap
          /\ OutFails(t)
          /\ UNCHANGED <<sw_bitmap, sw_data, pg_swap, pg_back>>
       \/ \E s \in Slot \ sw_bitmap :
             /\ \A r \in Slot \ sw_bitmap : s <= r
             /\ FlipSlot(s)
             /\ sw_data' = [sw_data EXCEPT ![s] = frm_data[cur_fr[t]]]
             /\ pg_swap' = [pg_swap EXCEPT ![out_pg[t]] = s]
             /\ pg_back' = [pg_back EXCEPT ![out_pg[t]] = "none"]
             /\ OutSucceeds(t)
    /\ UNCHANGED <<frm_page, frm_data, f_hand, s_lock, pg_live, pg_frame,
                   pteVars, file_data, op, cur_pg, len, try, spawns>>

OutDone(t) ==
    /\ At(t, "out_done")
    /\ pg_frame' = [pg_frame EXCEPT ![out_pg[t]] = NULL]
    /\ out_pg' = [out_pg EXCEPT ![t] = NULL]
    /\ Goto(t, IF op[t] = "munmap" THEN "free" ELSE "take")
    /\ UNCHANGED <<frm_page, frm_lock, frm_data, f_hand, s_lock, pg_live,
                   pg_back, pg_swap, pteVars, diskVars, op, cur_pg, cur_fr,
                   len, try, spawns>>

-----------------------------------------------------------------------------
(***************************************************************************)
(* do_page_in, page_swap_in, and the ends of page_in, lock_this_page,      *)
(* deallocation_of_page and destroy_page.                                  *)
(***************************************************************************)

\* Mutant: only private pages are read from their file.
MutantFilledWith(p) ==
    IF pg_back[p] = "private" THEN file_data[p]
    ELSE IF pg_swap[p] # NULL THEN sw_data[pg_swap[p]]
    ELSE 0

FilledWith(p) ==
    IF pg_back[p] # "none" THEN file_data[p]
    ELSE IF pg_swap[p] # NULL THEN sw_data[pg_swap[p]]
    ELSE 0

LoadPage(t) ==
    /\ At(t, "load")
    /\ frm_data' = [frm_data EXCEPT ![cur_fr[t]] = FilledWith(cur_pg[t])]
    /\ Goto(t, IF pg_back[cur_pg[t]] = "none" /\ pg_swap[cur_pg[t]] # NULL
               THEN "swap_reset" ELSE "map")
    /\ UNCHANGED <<frm_page, frm_lock, f_hand, s_lock, pgVars, pteVars,
                   diskVars, localVars>>

SwapReset(t) ==
    /\ At(t, "swap_reset")
    /\ sw_bitmap' = sw_bitmap \ {pg_swap[cur_pg[t]]}
    /\ Goto(t, "swap_clear")
    /\ UNCHANGED <<frm_page, frm_lock, frm_data, f_hand, s_lock, pgVars,
                   pteVars, sw_data, file_data, localVars>>

SwapClear(t) ==
    /\ At(t, "swap_clear")
    /\ pg_swap' = [pg_swap EXCEPT ![cur_pg[t]] = NULL]
    /\ Goto(t, "map")
    /\ UNCHANGED <<frm_page, frm_lock, frm_data, f_hand, s_lock, pg_live,
                   pg_frame, pg_back, pteVars, diskVars, localVars>>

\* pagedir_set_page: a fresh entry, its accessed and dirty bits clear.
MapPage(t) ==
    /\ At(t, "map")
    /\ pte' = [pte EXCEPT ![cur_pg[t]] = pg_frame[cur_pg[t]]]
    /\ pte_a' = [pte_a EXCEPT ![cur_pg[t]] = FALSE]
    /\ pte_d' = [pte_d EXCEPT ![cur_pg[t]] = FALSE]
    /\ IF op[t] = "lock_page"
       THEN Goto(t, "pinned") /\ UNCHANGED <<frm_lock, localVars>>
       ELSE Return(t, "user") /\ Unlock(cur_fr[t])
    /\ UNCHANGED <<frm_page, frm_data, f_hand, s_lock, pgVars, diskVars>>

\* No memory for a page table: page_in unlocks the frame, lock_this_page
\* does not; both make the caller exit.
MapFails(t) ==
    /\ MapMayFail /\ At(t, "map")
    /\ IF op[t] = "lock_page" THEN UNCHANGED frm_lock ELSE Unlock(cur_fr[t])
    /\ Return(t, "exit")
    /\ UNCHANGED <<frm_page, frm_data, f_hand, s_lock, pgVars, pteVars,
                   diskVars>>

\* The copy from the pinned page, then unlock_this_page; a string longer
\* than a page ends the process after the unlock.  If the entry is not
\* present (page_out failed on this page before) the copy faults in kernel
\* mode, and thread_exit runs with the frame locked.
CopyString(t) ==
    /\ At(t, "pinned")
    /\ IF pte[cur_pg[t]] # NULL
       THEN /\ pte_a' = [pte_a EXCEPT ![cur_pg[t]] = TRUE]
            /\ Unlock(pg_frame[cur_pg[t]])
            /\ \E l \in {"user", "exit"} : Return(t, l)
       ELSE Return(t, "exit") /\ UNCHANGED <<pte_a, frm_lock>>
    /\ UNCHANGED <<frm_page, frm_data, f_hand, s_lock, pgVars, pte, pte_d,
                   diskVars>>

\* Mutant: the frame still points at the page that was in it.
MutantReleaseFrame(f) == UNCHANGED frm_page /\ Unlock(f)

ReleaseFrame(f) == frm_page' = [frm_page EXCEPT ![f] = NULL] /\ Unlock(f)

\* release_frame, if the page had a frame, and free (pg).  The page's swap
\* slot stays marked.
FreePage(t) ==
    /\ At(t, "free") \/ At(t, "free_none")
    /\ IF pc[t] = "free"
       THEN ReleaseFrame(cur_fr[t])
       ELSE UNCHANGED <<frm_page, frm_lock>>
    /\ pg_live' = [pg_live EXCEPT ![cur_pg[t]] = FALSE]
    /\ pg_frame' = [pg_frame EXCEPT ![cur_pg[t]] = NULL]
    /\ pg_swap' = [pg_swap EXCEPT ![cur_pg[t]] = NULL]
    /\ pg_back' = [pg_back EXCEPT ![cur_pg[t]] = "none"]
    /\ Return(t, IF op[t] = "destroy" THEN "exit" ELSE "user")
    /\ UNCHANGED <<frm_data, f_hand, s_lock, pteVars, diskVars>>

-----------------------------------------------------------------------------
UserStep(t) ==
    \/ Exit(t) \/ KernelFault(t)
    \/ \E p \in Page :
          \/ Start(t, p) \/ Load(t, p) \/ PageFault(t, p)
          \/ Mmap(t, p) \/ Munmap(t, p) \/ LockThisPage(t, p)
          \/ \E v \in Value : Store(t, p, v)

KernelStep(t) ==
    \/ \E p \in Page : DestroyNext(t, p)
    \/ Exited(t)
    \/ ReadFrame(t) \/ AcquireFrame(t)
    \/ AcquireSLock(t) \/ Scan(t) \/ Clock(t) \/ ClockFails(t) \/ Retry(t)
    \/ TakeFrame(t)
    \/ OutClear(t) \/ OutClean(t) \/ OutWrite(t) \/ OutSwap(t) \/ OutDone(t)
    \/ LoadPage(t) \/ SwapReset(t) \/ SwapClear(t)
    \/ MapPage(t) \/ MapFails(t) \/ CopyString(t) \/ FreePage(t)

\* A panic stops the machine; so does the end of every process.
Halted ==
    /\ \/ \E t \in Thread : Panics(t)
       \/ \A t \in Thread : pc[t] = "none" /\ spawns[t] = MaxSpawns
    /\ UNCHANGED vars

Next ==
    \/ \E t \in Thread : UserStep(t) \/ KernelStep(t)
    \/ Halted

Spec == Init /\ [][Next]_vars

\* The scheduler is round-robin and preemptive: a thread in the kernel that
\* can go on is eventually run.
FairSpec == Spec /\ \A t \in Thread : WF_vars(KernelStep(t))

-----------------------------------------------------------------------------
(***************************************************************************)
(* Properties.                                                             *)
(***************************************************************************)

SharedTypeOK ==
    /\ frm_page \in [Frame -> Page \cup {NULL}]
    /\ frm_lock \in [Frame -> Thread \cup {NULL}]
    /\ frm_data \in [Frame -> Value]
    /\ f_hand \in Frame
    /\ s_lock \in Thread \cup {NULL}
    /\ pg_live \in [Page -> BOOLEAN]
    /\ pg_frame \in [Page -> Frame \cup {NULL}]
    /\ pg_back \in [Page -> {"none", "private", "shared"}]
    /\ pg_swap \in [Page -> Slot \cup {NULL}]
    /\ pte \in [Page -> Frame \cup {NULL}]
    /\ pte_a \in [Page -> BOOLEAN]
    /\ pte_d \in [Page -> BOOLEAN]
    /\ sw_bitmap \subseteq Slot
    /\ sw_data \in [Slot -> Value]
    /\ file_data \in [Page -> Value]

LocalTypeOK ==
    /\ pc \in [Thread -> Pcs]
    /\ op \in [Thread -> Ops]
    /\ cur_pg \in [Thread -> Page \cup {NULL}]
    /\ cur_fr \in [Thread -> Frame \cup {NULL}]
    /\ out_pg \in [Thread -> Page \cup {NULL}]
    /\ len \in [Thread -> 0 .. 2 * NFrames]
    /\ try \in [Thread -> 0 .. Tries]
    /\ spawns \in [Thread -> 0 .. MaxSpawns]

TypeOK == SharedTypeOK /\ LocalTypeOK

\* destroy_page does not clear page table entries: until pagedir_destroy
\* they are stale, but the process runs no more user code.
Dying(t) == pc[t] = "exit" \/ op[t] = "destroy"

(***************************************************************************)
(* No process can reach a frame through its page table unless that frame   *)
(* holds the very page it addresses: eviction, unmapping and reuse of the  *)
(* frame by another process never leave a stale entry behind               *)
(* (page_out, deallocation_of_page, try_frame_alloc_and_lock).             *)
(***************************************************************************)
Isolation ==
    \A p \in Page :
        pte[p] # NULL /\ ~Dying(Owner[p]) =>
            pg_live[p] /\ pg_frame[p] = pte[p] /\ frm_page[pte[p]] = p

(***************************************************************************)
(* A page's frame holds that page, so no two pages share a frame.  A frame *)
(* that is not locked points at no freed struct page, and its page points  *)
(* back at it: whatever order evictions, exits and unmaps take, the clock  *)
(* finds only frames it may evict (frame.c, destroy_page, do_page_in).     *)
(***************************************************************************)
FrameOwnership ==
    /\ \A p \in Page : pg_frame[p] # NULL => frm_page[pg_frame[p]] = p
    /\ \A f \in Frame : frm_page[f] # NULL /\ frm_lock[f] = NULL =>
          pg_live[frm_page[f]] /\ pg_frame[frm_page[f]] = f

(***************************************************************************)
(* Swap slots: the slot of a page is marked in sw_bitmap and belongs to no *)
(* other page, although page_swap_in clears the bit without sw_lock and    *)
(* before it clears swap_sec.                                              *)
(***************************************************************************)
ReleasingSlot(p) == pc[Owner[p]] = "swap_clear" /\ cur_pg[Owner[p]] = p

SlotOwnership ==
    \A p \in Page : pg_swap[p] # NULL /\ ~ReleasingSlot(p) =>
        /\ pg_swap[p] \in sw_bitmap
        /\ \A q \in Page \ {p} :
               pg_swap[q] = pg_swap[p] => ReleasingSlot(q)

\* No ASSERT of frame.c, page.c, swap.c and pagedir_set_page ever fails, and
\* lock_try_acquire is never called on a frame the thread has locked.
NoAssertFails == \A t \in Thread : AssertsOf(t)

\* A thread never waits for a frame lock it holds itself: lock_acquire's
\* ASSERT, reached through lock_curr_pg_frame.
NoSelfDeadlock == \A t \in Thread : AcquireAssert(t)

(***************************************************************************)
(* Where the current contents of page p are: in its frame once that is     *)
(* filled, else in its file or its swap slot; a page without any is zeros. *)
(***************************************************************************)
Filling(p) == cur_pg[Owner[p]] = p /\ pc[Owner[p]] = "load"

Contents(p) ==
    IF pg_frame[p] # NULL /\ ~Filling(p) THEN frm_data[pg_frame[p]]
    ELSE FilledWith(p)

\* The pages user code of the process can address.
Mapped(p) ==
    /\ pg_live[p] /\ ~Dying(Owner[p])
    /\ op[Owner[p]] = "setup_stack" /\ pc[Owner[p]] # "user"
          => Kind[p] # "stack"

(***************************************************************************)
(* The paging code implements UserMemory: eviction, swapping and page-in   *)
(* are invisible to the processes, a page keeps what was last stored in it *)
(* wherever paging moves it (page_out, do_page_in, page_swap_in,           *)
(* page_swap_out, try_frame_alloc_and_lock).                               *)
(***************************************************************************)
Memory == INSTANCE UserMemory
    WITH mem <- [p \in Page |-> IF Mapped(p) THEN Contents(p) ELSE NULL],
         kernel <- pc, Unmapped <- NULL

ImplementsUserMemory == Memory!Spec

\* munmap leaves in the file what the process last stored in the page: when
\* deallocation_of_page, after page_out, is about to release the frame, the
\* file has its contents.
MunmapWritesBack ==
    \A t \in Thread :
        pc[t] = "free" /\ op[t] = "munmap" =>
            frm_data[cur_fr[t]] = file_data[cur_pg[t]]

\* A fault, pin, unmap or exit ends, unless other threads enter the kernel
\* for ever or an ASSERT fails: no thread is left waiting for a lock nobody
\* will release.
Busy(t) == pc[t] \notin {"none", "user"}

KernelWorkEnds ==
    \A t \in Thread :
        <>[](\A u \in Thread \ {t} : ~Busy(u)) =>
            []<>(~Busy(t) \/ Panics(t))
=============================================================================
