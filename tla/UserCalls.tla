------------------------------ MODULE UserCalls ------------------------------
(***************************************************************************)
(* How a system call of project 2 gets at its arguments and at the memory  *)
(* of the process (syscall_handler and its helpers, userprog/syscall.c),   *)
(* and what a fault does (userprog/exception.c).  What the calls do with   *)
(* files and processes is in Files and in ChildRecords.                    *)
(*                                                                         *)
(* User memory is pages of cells; a number, an address or a character is   *)
(* one cell.  The kernel reads and writes most of it through its own view: *)
(* all frames, one after the other.  The parts a call has no use for are   *)
(* left out of its record.                                                 *)
(***************************************************************************)
EXTENDS Integers, Sequences, SequencesExt, FiniteSetsExt

CONSTANTS
    PAGE_CELLS,    \* cells of a page
    CODE_PAGE,     \* first page of a program, 0x08048000
    KERNEL_PAGE,   \* first page of the kernel, PHYS_BASE
    FRAME_CNT,     \* BOUND: frames
    FileData,      \* BOUND: what is left to read of the file
    MaxSize        \* BOUND: size of buffers

ASSUME UserCallsAssumption ==
    /\ {PAGE_CELLS, CODE_PAGE, FRAME_CNT} \subseteq Nat \ {0}
    /\ KERNEL_PAGE \in Nat /\ CODE_PAGE < KERNEL_PAGE /\ MaxSize \in Nat

VARIABLES
    umap,       \* the frame of each user page, or 0
    ramCells,   \* the frames, one after the other
    ucall,      \* the call that was made, with the memory before it
    outcome     \* what came of it

ucVars == <<umap, ramCells, ucall, outcome>>

UPages == CODE_PAGE .. KERNEL_PAGE - 1
UserAddr == CODE_PAGE * PAGE_CELLS .. KERNEL_PAGE * PAGE_CELLS - 1
Frames == 1 .. FRAME_CNT
KernelAddr == 1 .. FRAME_CNT * PAGE_CELLS

\* The kernel address of a user address; 0 if no page is there.
FrameAt(a) == IF a \div PAGE_CELLS \in UPages THEN umap[a \div PAGE_CELLS] ELSE 0
Translate(a) == IF FrameAt(a) = 0 THEN 0 ELSE (FrameAt(a) - 1) * PAGE_CELLS + (a % PAGE_CELLS) + 1

----------------------------------------------------------------------------
(* Ends of a call: it returns a value, or the process exits with a status, *)
(* or the kernel stops.  page_fault, whoever caused it, ends the process.  *)

Returned(value) == [end |-> "returned", value |-> value]
exit_thread(status) == [end |-> "exited", value |-> status]
page_fault == exit_thread(-1)
Panicked == [end |-> "panicked", value |-> 0]
Pending == [end |-> "pending", value |-> 0]

\* Another exception: of the program or of the kernel.
kill(cs) == IF cs = "kernel" THEN Panicked ELSE [end |-> "killed", value |-> 0]

is_ptr_in_user_vm_space(a) == a \in UserAddr

validate_buffer_pointers(a, size) ==
    is_ptr_in_user_vm_space(a) /\ \A i \in 0 .. size - 1 : is_ptr_in_user_vm_space(a + i)

\* The number and the arguments are above the stack pointer; a page that is
\* missing there ends the process just as an address out of range does.
extract_args(esp, limit) == \A i \in 0 .. limit : is_ptr_in_user_vm_space(esp + i) /\ Translate(esp + i) # 0

Arity == [halt |-> 0, exit |-> 1, exec |-> 1, wait |-> 1, create |-> 2, remove |-> 1, open |-> 1, filesize |-> 1,
          read |-> 3, write |-> 3, seek |-> 2, tell |-> 1, close |-> 1, unknown |-> 0]

\* A name as the kernel finds it at one of its own addresses, and at an address
\* of the program, where a missing page is a fault.
RECURSIVE NameIn(_, _)
NameIn(cell, a) == IF cell[a] = 0 THEN <<>> ELSE <<cell[a]>> \o NameIn(cell, a + 1)
KernelName(k) ==
    LET from == k .. FRAME_CNT * PAGE_CELLS
    IN  IF \E i \in from : ramCells[i] = 0 THEN <<TRUE, NameIn(ramCells, k)>> ELSE <<FALSE, <<>>>>
UserName(a) ==
    LET cell == [u \in UserAddr |-> IF Translate(u) = 0 THEN -1 ELSE ramCells[Translate(u)]]
        stop == {u \in UserAddr : u >= a /\ cell[u] \in {0, -1}}
    IN  IF a \in UserAddr /\ stop # {} /\ cell[Min(stop)] = 0 THEN <<TRUE, NameIn(cell, a)>> ELSE <<FALSE, <<>>>>

\* The cells behind kernel address k.
Stored(k, data) == [i \in KernelAddr |-> IF i - k + 1 \in DOMAIN data THEN data[i - k + 1] ELSE ramCells[i]]
Loaded(k, size) == SubSeq(ramCells, k, k + size - 1)
Fits(k, size) == k + size - 1 \in KernelAddr \cup {k - 1}

----------------------------------------------------------------------------
(* syscall_handler.  Ended and Passed say how a call ends; what was passed  *)
(* on to the file system or to the console is its value.                    *)

Ended(o) == outcome' = o /\ UNCHANGED ramCells

\* create and open look the name up in the page directory first, which must not
\* be asked for an address of the kernel.
NamedFile(a) ==
    IF a >= KERNEL_PAGE * PAGE_CELLS THEN Ended(Panicked)
    ELSE IF Translate(a) = 0 THEN Ended(exit_thread(-1))
    ELSE LET name == KernelName(Translate(a)) IN Ended(IF name[1] THEN Returned(name[2]) ELSE page_fault)
\* remove and exec pass the address as it is.
NamedByUser(a) == LET name == UserName(a) IN Ended(IF name[1] THEN Returned(name[2]) ELSE page_fault)

ReadBuffer(a, size) ==
    IF ~validate_buffer_pointers(a, size) \/ Translate(a) = 0 THEN Ended(exit_thread(-1))
    ELSE LET data == SubSeq(FileData, 1, Min({size, Len(FileData)})) IN
         IF Fits(Translate(a), Len(data))
         THEN outcome' = Returned(Len(data)) /\ ramCells' = Stored(Translate(a), data)
         ELSE Ended(page_fault)
WriteBuffer(a, size) ==
    IF ~validate_buffer_pointers(a, size) \/ Translate(a) = 0 \/ ~Fits(Translate(a), size) THEN Ended(exit_thread(-1))
    ELSE Ended(Returned(Loaded(Translate(a), size)))

\* A descriptor below 2 is no file: its size is not asked for, and to close it
\* does nothing.
syscall_handler(c) ==
    /\ outcome.end = "pending"
    /\ ucall' = [c |-> c, before |-> ramCells] /\ UNCHANGED umap
    /\ IF ~extract_args(c.esp, 0) \/ ~extract_args(c.esp, Arity[c.nr]) THEN Ended(exit_thread(-1))
       ELSE CASE c.nr = "halt"                  -> Ended([end |-> "off", value |-> 0])
              [] c.nr = "exit"                  -> Ended(exit_thread(c.fd))
              [] c.nr \in {"create", "open"}    -> NamedFile(c.addr)
              [] c.nr \in {"remove", "exec"}    -> NamedByUser(c.addr)
              [] c.nr = "filesize" /\ c.fd < 2  -> Ended(exit_thread(-1))
              [] c.nr = "close" /\ c.fd \in {0, 1} -> Ended(Returned(0))
              [] c.nr = "read"                  -> ReadBuffer(c.addr, c.size)
              [] c.nr = "write"                 -> WriteBuffer(c.addr, c.size)
              [] c.nr = "unknown"               -> Ended(Returned(c.nr))
              [] OTHER                          -> Ended(Returned(c.fd))

\* An instruction of the program, or of the kernel, that is no system call.
OtherException(cs) ==
    /\ outcome.end = "pending" /\ outcome' = kill(cs)
    /\ ucall' = [c |-> [nr |-> "exception", cs |-> cs], before |-> ramCells] /\ UNCHANGED <<umap, ramCells>>
PageFault ==
    /\ outcome.end = "pending" /\ outcome' = page_fault
    /\ ucall' = [c |-> [nr |-> "fault"], before |-> ramCells] /\ UNCHANGED <<umap, ramCells>>

Stack == (KERNEL_PAGE - 1) * PAGE_CELLS
UserCallsInit ==
    /\ umap \in {m \in [UPages -> 0 .. FRAME_CNT] : \A p, q \in UPages : p # q /\ m[p] # 0 => m[p] # m[q]}
    /\ ramCells \in {[i \in KernelAddr |-> IF i % PAGE_CELLS = 0 THEN 0 ELSE i], [i \in KernelAddr |-> IF i % 3 = 0 THEN 0 ELSE i]}
    /\ ucall = [c |-> [nr |-> "none"], before |-> ramCells] /\ outcome = Pending

Anywhere == CODE_PAGE * PAGE_CELLS - 1 .. KERNEL_PAGE * PAGE_CELLS + 1
UserCallsNext ==
    \/ \E nr \in {"create", "open", "remove", "exec"}, a \in Anywhere : syscall_handler([nr |-> nr, esp |-> Stack, addr |-> a])
    \/ \E nr \in {"read", "write"}, a \in Anywhere, size \in 0 .. MaxSize :
         syscall_handler([nr |-> nr, esp |-> Stack, addr |-> a, size |-> size])
    \/ \E nr \in {"exit", "wait", "filesize", "seek", "tell", "close"}, fd \in 0 .. 2 :
         syscall_handler([nr |-> nr, esp |-> Stack, fd |-> fd])
    \/ \E nr \in {"halt", "unknown"}, esp \in Anywhere : syscall_handler([nr |-> nr, esp |-> esp])
    \/ \E cs \in {"user", "kernel"} : OtherException(cs)
    \/ PageFault

----------------------------------------------------------------------------
(* Correctness *)

FailedCall == outcome.end = "exited" /\ outcome.value = -1

\* The program's view of a memory.
View(cells) == [u \in {a \in UserAddr : Translate(a) # 0} |-> cells[Translate(u)]]
\* The addresses are there, and one after the other in the kernel's view too.
Together(a, size) == \A i \in 0 .. size - 1 : a + i \in UserAddr /\ Translate(a + i) # 0 /\ Translate(a + i) = Translate(a) + i

ReadRight(c) ==
    LET n == Min({c.size, Len(FileData)})
        view == View(ucall.before)
    IN  (outcome.end = "returned" /\ Together(c.addr, n)) =>
          /\ outcome.value = n
          /\ View(ramCells) = [u \in DOMAIN view |-> IF u - c.addr \in 0 .. n - 1 THEN FileData[u - c.addr + 1] ELSE view[u]]
          /\ \A i \in KernelAddr : i \notin {Translate(u) : u \in DOMAIN view} => ramCells[i] = ucall.before[i]
WriteRight(c) ==
    (outcome.end = "returned" /\ Together(c.addr, c.size)) =>
      outcome.value = [i \in 1 .. c.size |-> View(ramCells)[c.addr + i - 1]]
\* The name of the program's string, if it ends in its page.
NameRight(c) ==
    LET want == UserName(c.addr) IN
    (want[1] /\ Together(c.addr, Len(want[2]) + 1) /\ c.addr \in UserAddr) =>
      outcome.end = "exited" \/ outcome.value = want[2]

(***************************************************************************)
(* A call with addresses of its process works on the memory these          *)
(* addresses have, whichever frames it is in, as long as a buffer or a     *)
(* name stays on its page or on frames that follow each other; a call with *)
(* a buffer that leaves user memory, or with its arguments on a page that  *)
(* is missing, ends its process and changes nothing; and the kernel stops  *)
(* only for itself or for a name at an address of its own (syscall.c:41,   *)
(* 55, 69, 342, exception.c:79).                                           *)
(***************************************************************************)
CallsRight ==
    outcome.end # "pending" =>
      LET c == ucall.c IN
      /\ c.nr # "read" => ramCells = ucall.before
      /\ c.nr \in {"read", "write"} =>
           /\ (\E i \in 0 .. Max({c.size - 1, 0}) : c.addr + i \notin UserAddr) \/ Translate(c.addr) = 0
                => FailedCall /\ ramCells = ucall.before
           /\ \A i \in 0 .. 3 : FrameAt(c.esp + i) = 0 => FailedCall
      /\ c.nr = "read" => ReadRight(c)
      /\ c.nr = "write" => WriteRight(c)
      /\ c.nr \in {"create", "open", "remove", "exec"} => NameRight(c)
      /\ outcome.end = "panicked" =>
           \/ c.nr \in {"create", "open"} /\ c.addr >= KERNEL_PAGE * PAGE_CELLS
           \/ c.nr = "exception" /\ c.cs = "kernel"
=============================================================================
