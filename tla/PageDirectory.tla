---------------------------- MODULE PageDirectory ----------------------------
(***************************************************************************)
(* Page directories (userprog/pagedir.c) and the CPU that walks them.      *)
(*                                                                         *)
(* Page directories, page tables and user pages are pages of ram.  The CPU *)
(* translates with the directory in cr3 and remembers what it found in its *)
(* translation buffer, tlb: until a directory is loaded again it neither   *)
(* sees that an entry of a table changed nor sets a bit a second time.     *)
(* Processes are switched at any time (thread_schedule_tail calls          *)
(* process_activate); directories change on behalf of their process and,   *)
(* when memory is short, of any other (vm/page.c of project 3).            *)
(***************************************************************************)
EXTENDS Naturals, FiniteSets

CONSTANTS
    Process,
    PD_CNT,       \* entries of a directory that are below PHYS_BASE
    PT_CNT,       \* entries of a table
    RAM_PAGES     \* BOUND: pages of the pool

ASSUME PageDirectoryAssumption == PD_CNT \in Nat /\ PT_CNT \in Nat /\ RAM_PAGES \in Nat

Page  == 1 .. RAM_PAGES
Nowhere  == 0                \* no page; in cr3, init_page_dir
PdNo  == 0 .. PD_CNT - 1
PtNo  == 0 .. PT_CNT - 1
VPage == PdNo \X PtNo     \* pd_no and pt_no of an address

VARIABLES
    ram,       \* what each page holds
    pagedir,   \* of each process
    leaving,   \* in process_exit: the directory to destroy, and whether it is left already
    running,   \* thread_current
    cr3,       \* the directory that the CPU uses
    tlb,       \* what it remembers: for some pages, an entry
    touched    \* history: pages stored to or used, since the bits were cleared

pdVars == <<ram, pagedir, leaving, running, cr3, tlb, touched>>

Unused == [kind |-> "free"]
Data == [kind |-> "data"]
\* palloc_get_page takes the first page that is free.
palloc_get_page(m) == LET free == {k \in Page : m[k] = Unused}
                      IN  IF free = {} THEN Nowhere ELSE CHOOSE k \in free : \A j \in free : k <= j

NoEntry == [present |-> FALSE, page |-> Nowhere, writable |-> FALSE, dirty |-> FALSE, accessed |-> FALSE]
pte_create_user(kpage, writable) == [present |-> TRUE, page |-> kpage, writable |-> writable, dirty |-> FALSE, accessed |-> FALSE]

----------------------------------------------------------------------------
(* Tables *)

\* The place of the entry for an address: a table and a number, or Nowhere.
lookup_page(m, pd, v) == m[pd].entry[v[1]]
EntryOf(m, pd, v) == IF lookup_page(m, pd, v) = Nowhere THEN NoEntry ELSE m[lookup_page(m, pd, v)].entry[v[2]]
SetEntry(m, pd, v, pte) == [m EXCEPT ![lookup_page(m, pd, v)].entry[v[2]] = pte]
\* With create: a table is made when there is none; the memory is the same as
\* before when there is no page for it.
lookup_create(m, pd, v) ==
    LET pt == palloc_get_page(m) IN
    IF lookup_page(m, pd, v) # Nowhere \/ pt = Nowhere THEN m
    ELSE [m EXCEPT ![pt] = [kind |-> "pt", entry |-> [n \in PtNo |-> NoEntry]], ![pd].entry[v[1]] = pt]

pagedir_get_page(pd, v) == IF EntryOf(ram, pd, v).present THEN EntryOf(ram, pd, v).page ELSE Nowhere
pagedir_is_dirty(pd, v) == EntryOf(ram, pd, v).dirty
pagedir_is_accessed(pd, v) == EntryOf(ram, pd, v).accessed

\* Loading a directory empties the buffer.
pagedir_activate(pd) == cr3' = pd /\ tlb' = [v \in {} |-> NoEntry]

\* Mutant: only a switch of processes empties the buffer.
MutantInvalidate(pd) == UNCHANGED <<cr3, tlb>>

invalidate_pagedir(pd) == IF cr3 = pd THEN pagedir_activate(pd) ELSE UNCHANGED <<cr3, tlb>>

----------------------------------------------------------------------------
(* The kernel *)

Alive(p) == pagedir[p] # Nowhere
Staying == [pd |-> Nowhere, left |-> FALSE]

\* load: pagedir_create copies init_page_dir, which maps no user page.
pagedir_create ==
    /\ pagedir[running] = Nowhere /\ leaving[running] = Staying
    /\ LET pd == palloc_get_page(ram) IN
       /\ pd # Nowhere
       /\ ram' = [ram EXCEPT ![pd] = [kind |-> "pd", entry |-> [n \in PdNo |-> Nowhere]]]
       /\ pagedir' = [pagedir EXCEPT ![running] = pd]
       /\ pagedir_activate(pd)
    /\ UNCHANGED <<leaving, running, touched>>

\* install_page of process.c: a page is taken from the pool, and goes back
\* when the address is mapped already or there is no memory for a table.
install_page(v, writable) ==
    /\ Alive(running) /\ palloc_get_page(ram) # Nowhere
    /\ LET pd    == pagedir[running]
           kpage == palloc_get_page(ram)
           m     == lookup_create([ram EXCEPT ![kpage] = Data], pd, v)
       IN  IF pagedir_get_page(pd, v) # Nowhere THEN UNCHANGED <<ram, touched>>
           ELSE IF lookup_page(m, pd, v) = Nowhere THEN ram' = [m EXCEPT ![kpage] = Unused] /\ UNCHANGED touched
           ELSE /\ ram' = SetEntry(m, pd, v, pte_create_user(kpage, writable))
                /\ touched' = [touched EXCEPT ![running].write = @ \ {v}, ![running].use = @ \ {v}]
    /\ UNCHANGED <<pagedir, leaving, running, cr3, tlb>>

\* The page that was mapped is the caller's again: it frees it.
pagedir_clear_page(p, v) ==
    /\ Alive(p) /\ EntryOf(ram, pagedir[p], v).present
    /\ LET pte == EntryOf(ram, pagedir[p], v) IN
       ram' = [SetEntry(ram, pagedir[p], v, [pte EXCEPT !.present = FALSE]) EXCEPT ![pte.page] = Unused]
    /\ invalidate_pagedir(pagedir[p])
    /\ UNCHANGED <<pagedir, leaving, running, touched>>

pagedir_set_dirty(p, v, dirty) ==
    /\ Alive(p) /\ lookup_page(ram, pagedir[p], v) # Nowhere
    /\ ram' = SetEntry(ram, pagedir[p], v, [EntryOf(ram, pagedir[p], v) EXCEPT !.dirty = dirty])
    /\ IF dirty THEN UNCHANGED <<cr3, tlb, touched>>
       ELSE invalidate_pagedir(pagedir[p]) /\ touched' = [touched EXCEPT ![p].write = @ \ {v}]
    /\ UNCHANGED <<pagedir, leaving, running>>

pagedir_set_accessed(p, v, accessed) ==
    /\ Alive(p) /\ lookup_page(ram, pagedir[p], v) # Nowhere
    /\ ram' = SetEntry(ram, pagedir[p], v, [EntryOf(ram, pagedir[p], v) EXCEPT !.accessed = accessed])
    /\ IF accessed THEN UNCHANGED <<cr3, tlb, touched>>
       ELSE invalidate_pagedir(pagedir[p]) /\ touched' = [touched EXCEPT ![p].use = @ \ {v}]
    /\ UNCHANGED <<pagedir, leaving, running>>

\* process_activate, for the thread that runs from now on.
Switch(p) ==
    /\ running' = p /\ pagedir_activate(pagedir[p])
    /\ UNCHANGED <<ram, pagedir, leaving, touched>>

\* process_exit: the directory is forgotten, then left, then destroyed, and
\* another thread may run in between.
ExitForget ==
    /\ Alive(running)
    /\ leaving' = [leaving EXCEPT ![running] = [pd |-> pagedir[running], left |-> FALSE]]
    /\ pagedir' = [pagedir EXCEPT ![running] = Nowhere]
    /\ touched' = [touched EXCEPT ![running] = [write |-> {}, use |-> {}]]
    /\ UNCHANGED <<ram, running, cr3, tlb>>
ExitActivate ==
    /\ leaving[running] # Staying /\ ~leaving[running].left
    /\ leaving' = [leaving EXCEPT ![running].left = TRUE]
    /\ pagedir_activate(Nowhere)
    /\ UNCHANGED <<ram, pagedir, running, touched>>
TablesOf(m, pd) == {m[pd].entry[n] : n \in PdNo} \ {Nowhere}
PagesOf(m, pd) == {m[pt].entry[n].page : <<pt, n>> \in {x \in TablesOf(m, pd) \X PtNo : m[x[1]].entry[x[2]].present}}
pagedir_destroy ==
    /\ leaving[running].left
    /\ LET pd == leaving[running].pd IN
       ram' = [k \in Page |-> IF k \in {pd} \cup TablesOf(ram, pd) \cup PagesOf(ram, pd) THEN Unused ELSE ram[k]]
    /\ leaving' = [leaving EXCEPT ![running] = Staying]
    /\ UNCHANGED <<pagedir, running, cr3, tlb, touched>>

----------------------------------------------------------------------------
(* The CPU, an external part: a load or a store of the running process, and *)
(* entries that it forgets by itself.                                       *)

\* A page it remembers is not looked up; the first use and the first store
\* since then set the bits in the table.
Access(v, write) ==
    /\ Alive(running) /\ cr3 # Nowhere
    /\ LET pte == IF v \in DOMAIN tlb THEN tlb[v] ELSE EntryOf(ram, cr3, v)
           new == [pte EXCEPT !.accessed = TRUE, !.dirty = @ \/ write]
       IN  /\ pte.present /\ (write => pte.writable)
           /\ ram' = IF new = pte THEN ram
                     ELSE SetEntry(ram, cr3, v, [EntryOf(ram, cr3, v) EXCEPT !.accessed = @ \/ ~pte.accessed,
                                                                             !.dirty = @ \/ (write /\ ~pte.dirty)])
           /\ tlb' = [u \in DOMAIN tlb \cup {v} |-> IF u = v THEN new ELSE tlb[u]]
           /\ touched' = [touched EXCEPT ![running].use = @ \cup {v}, ![running].write = IF write THEN @ \cup {v} ELSE @]
    /\ UNCHANGED <<pagedir, leaving, running, cr3>>
TlbForget(v) ==
    /\ v \in DOMAIN tlb
    /\ tlb' = [u \in DOMAIN tlb \ {v} |-> tlb[u]]
    /\ UNCHANGED <<ram, pagedir, leaving, running, cr3, touched>>

PdInit ==
    /\ ram = [k \in Page |-> Unused]
    /\ pagedir = [p \in Process |-> Nowhere] /\ leaving = [p \in Process |-> Staying]
    /\ running \in Process /\ cr3 = Nowhere /\ tlb = [v \in {} |-> NoEntry]
    /\ touched = [p \in Process |-> [write |-> {}, use |-> {}]]

PdNext ==
    \/ pagedir_create \/ ExitForget \/ ExitActivate \/ pagedir_destroy
    \/ \E p \in Process : Switch(p)
    \/ \E v \in VPage, b \in BOOLEAN : install_page(v, b) \/ Access(v, b)
    \/ \E p \in Process, v \in VPage : pagedir_clear_page(p, v)
    \/ \E p \in Process, v \in VPage, b \in BOOLEAN : pagedir_set_dirty(p, v, b) \/ pagedir_set_accessed(p, v, b)
    \/ \E v \in VPage : TlbForget(v)

PdSpec == PdInit /\ [][PdNext]_pdVars

----------------------------------------------------------------------------
(* Correctness *)

Directories == ({pagedir[p] : p \in Process} \cup {leaving[p].pd : p \in Process}) \ {Nowhere}

\* What is used belongs to one directory, in one place, and nothing is lost:
\* no page is free and mapped, or mapped twice.
Owned ==
    /\ \A p, q \in Process : pagedir[p] # Nowhere => pagedir[p] # leaving[q].pd /\ (p # q => pagedir[p] # pagedir[q])
    /\ \A pd \in Directories : ram[pd].kind = "pd"
    /\ \A pd \in Directories : \A pt \in TablesOf(ram, pd) : ram[pt].kind = "pt"
    /\ \A k \in Page :
         LET tables == {<<pd, n>> \in Directories \X PdNo : ram[pd].entry[n] = k}
             pages  == {<<pd, v>> \in Directories \X VPage : EntryOf(ram, pd, v).present /\ EntryOf(ram, pd, v).page = k}
         IN  CASE ram[k].kind = "free" -> k \notin Directories /\ tables = {} /\ pages = {}
               [] ram[k].kind = "pd"   -> k \in Directories /\ tables = {} /\ pages = {}
               [] ram[k].kind = "pt"   -> k \notin Directories /\ Cardinality(tables) = 1 /\ pages = {}
               [] ram[k].kind = "data" -> k \notin Directories /\ tables = {} /\ Cardinality(pages) = 1

\* The CPU uses the directory of the running process, or none, and what it
\* remembers is what the tables say.
Coherent ==
    /\ cr3 # Nowhere => cr3 \in {pagedir[running], leaving[running].pd}
    /\ \A v \in DOMAIN tlb : LET pte == EntryOf(ram, cr3, v) IN
         /\ cr3 # Nowhere /\ pte.present /\ tlb[v].present
         /\ tlb[v].page = pte.page /\ tlb[v].writable = pte.writable
         /\ tlb[v].accessed => pte.accessed
         /\ tlb[v].dirty => pte.dirty

\* No store and no use since the bits were cleared is missing from them.
BitsRight ==
    \A p \in Process : Alive(p) =>
      /\ \A v \in touched[p].write : pagedir_is_dirty(pagedir[p], v)
      /\ \A v \in touched[p].use : pagedir_is_accessed(pagedir[p], v)

(***************************************************************************)
(* Whenever processes are switched, and whatever is mapped and unmapped on *)
(* behalf of whom: no page is used for two things or free while a table    *)
(* names it, the CPU never translates with a directory or an entry that is *)
(* gone, and no store escapes the dirty bit that eviction relies on        *)
(* (pagedir.c:27, 168, 253; process.c:209).                                *)
(***************************************************************************)
DirectoriesSound == Owned /\ Coherent /\ BitsRight
=============================================================================
