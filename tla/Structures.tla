----------------------------- MODULE Structures -----------------------------
(***************************************************************************)
(* The data structures and the parts of the machine, side by side: a       *)
(* behaviour exercises one of them, its subject, and leaves the others as  *)
(* they began.                                                             *)
(***************************************************************************)
EXTENDS Lists, HashTable, Allocators, Formats, Loader, SearchTree, Algorithms, Predictor, Machine

CONSTANTS p1, p2, main, t2     \* processes and threads

VARIABLE subject

listVars == <<mem, contents>>
hashVars == <<h, table, ret>>
allocVars == <<pools, free_list, arena, live, held, clashed>>
libVars == <<text, number, bitmap, on>>
algVars == <<array, num>>
dataVars == <<listVars, hashVars, allocVars, libVars, ctVars, algVars, prVars>>
vars == <<subject, dataVars, machineVars>>

\* part is the subject, if it is a part of the machine.
Init ==
    /\ subject \in {"list", "hash", "allocators", "library", "containers", "algorithms", "predictor"} \cup Parts
    /\ part = subject
    /\ ListsInit /\ HashInit /\ AllocInit /\ LibInit /\ ContainersInit /\ AlgorithmsInit /\ LearnInit
    /\ subject # "containers" => kind = "BST"
    /\ MachineInit

DataNext ==
    \/ /\ subject = "list" /\ ListsNext
       /\ UNCHANGED <<hashVars, allocVars, libVars, ctVars, algVars, prVars>>
    \/ /\ subject = "hash" /\ HashNext
       /\ UNCHANGED <<listVars, allocVars, libVars, ctVars, algVars, prVars>>
    \/ /\ subject = "allocators" /\ AllocNext
       /\ UNCHANGED <<listVars, hashVars, libVars, ctVars, algVars, prVars>>
    \/ /\ subject = "library" /\ LibNext
       /\ UNCHANGED <<listVars, hashVars, allocVars, ctVars, algVars, prVars>>
    \/ /\ subject = "containers" /\ ContainersNext
       /\ UNCHANGED <<listVars, hashVars, allocVars, libVars, algVars, prVars>>
    \/ /\ subject = "algorithms" /\ AlgorithmsNext
       /\ UNCHANGED <<listVars, hashVars, allocVars, libVars, ctVars, prVars>>
    \/ /\ subject = "predictor" /\ PredictorNext
       /\ UNCHANGED <<listVars, hashVars, allocVars, libVars, ctVars, algVars>>

Next == /\ UNCHANGED subject
        /\ (DataNext /\ UNCHANGED machineVars) \/ (MachineNext /\ UNCHANGED dataVars)

Spec == Init /\ [][Next]_vars

----------------------------------------------------------------------------
(* The property of the subject that the behaviour is about.                *)

\* ListsSound and HashSound: after any calls of lib/kernel/list.c, the pointers
\* of both lists are what the sequence operations of the same names would leave,
\* and no ASSERT has failed; lib/kernel/hash.c answers as a set with one element
\* per key, keeps elements in their bucket through every rehash, and iterates
\* over each once.
KernelStructuresSound == /\ subject = "list" => ListsSound
                         /\ subject = "hash" => HashSound
\* BlocksSound: blocks and pages in use by threads/malloc.c and palloc.c never
\* overlap, what is free or used is accounted for, and a block is too small
\* exactly if calloc was asked for more than a size_t holds.  DirectoriesSound: no page
\* is mapped twice or free while mapped, and the CPU never translates with what
\* is gone (userprog/pagedir.c).  CallsRight: a system call works on the memory
\* that the addresses of its process have, or ends it (userprog/syscall.c).
MemorySound == /\ subject = "allocators" => BlocksSound
               /\ subject = "pagedir" => DirectoriesSound
               /\ subject = "calls" => CallsRight
\* LibraryRight: lib/string.c, stdlib.c, arithmetic.c and kernel/bitmap.c give
\* what the C standard or their own comments promise, and where they give less
\* (memmove's result, wide remainders, a scan for no bits), for exactly which
\* arguments; FormatsRight: lib/stdio.c formats as promised, and a program's
\* console writes what was printed.
CLibraryRight == subject = "library" => LibraryRight /\ FormatsRight
\* ContainersRight: the stacks, queues, deques, lists, heaps and the search
\* tree of fun/logicpro/ds answer as the abstract ones would, six classes always
\* and the others up to exactly the calls marked; AlgorithmsRight: its sorts,
\* searches, series and packings compute what they are for, or for exactly which
\* inputs they do not; PredictorRight: the model of cs6240_a3 does not depend on
\* where the combiner ran, and no stop of the predicter loses the file it
\* rewrites.
ExercisesRight == /\ subject = "containers" => ContainersRight
                  /\ subject = "algorithms" => AlgorithmsRight
                  /\ subject = "predictor" => PredictorRight
\* StartUpRight: partitions stay on the disk, and files come from an archive and
\* go to it unchanged (partition.c, init.c, fsutil.c); ArchivesRight: so do their
\* headers (ustar.c); LoaderRight: a program that starts finds its segments and
\* its arguments where they belong (userprog/process.c).
StartsRight == /\ subject = "startup" => StartUpRight
               /\ subject = "library" => LoaderRight /\ (number = 1 => ArchivesRight)
\* DiskRight: however threads, drives and interrupts interleave, reads return what
\* was last written, no wait is lost, and waits end early by no more than the
\* interrupts that nobody raised (devices/ide.c); KeysRight: the keyboard driver
\* knows the keys that are held (kbd.c); TimerRight: no sleep ends before its
\* ticks, and the calibration is right for exactly which machines (timer.c).
DevicesRight == /\ subject = "disk" => DiskRight
                /\ subject = "keyboard" => KeysRight
                /\ subject = "timer" => TimerRight

MCSymmetry == Permutations(Process)
MCListKey == <<1, 2, 2, 0>>
MCHashKey == <<0, 1, 2, 3, 5, 1>>
MCHEADERS == <<"Origin", "Carrier", "ArrDel15">>
MCKEYS    == <<{"Origin"}, {"Origin", "Carrier"}>>
MCLine    == {<<"b", "x", "0">>, <<"b", "x", "1">>, <<"b", "y", "1">>, <<"c", "x", "">>, <<"c", "x">>, Unreadable}
MCPLine   == {<<"b", "x", "0">>, <<"b", "y", "1">>, <<"c", "x", "">>, <<"c">>, Unreadable}
MCData    == <<101, 102, 103>>
Entry(t, o, n) == [type |-> t, offset |-> o, size |-> n]
MCEntries == {Entry(0, 0, 0), Entry(33, 1, 3), Entry(33, 4, 8), Entry(34, 4, 8), Entry(34, 6, 5), Entry(34, 9, 2),
              Entry(34, 1, 3), Entry(34, 6, 15), Entry(131, 15, 1), Entry(131, 4, 12), Entry(5, 6, 3), Entry(5, 1, 2)}
Opt(n, v) == [name |-> n, value |-> v]
MCOptions == {<<>>, <<Opt("format", TRUE)>>, <<Opt("filesys", 1)>>, <<Opt("scratch", 9), Opt("scratch", 2)>>,
              <<Opt("scratch", 9)>>, <<Opt("bogus", 1)>>}
TarFile(n, t, d) == [name |-> n, type |-> t, data |-> d]
MCArchive == {<<TarFile(<<97>>, 48, <<1, 2, 3>>), TarFile(<<46>>, 53, <<>>)>>,
              <<TarFile(<<46, 47, 99>>, 48, <<>>), TarFile(<<97>>, 48, <<0, 0>>)>>}
MCMachines == [table : {<<e, f>> : e, f \in MCEntries} \cup {<<>>}, options : {<<>>}, archive : {<<>>}]
    \cup [table : {<<Entry(33, 1, 3), Entry(34, 4, 8)>>, <<Entry(34, 6, 5), Entry(33, 1, 3)>>},
          options : MCOptions, archive : MCArchive]
Ph(t, o, v, f, m) == [p_type |-> t, p_offset |-> o, p_vaddr |-> v, p_filesz |-> f, p_memsz |-> m, writable |-> v % 3 = 0]
File(header, off, phdrs) == [valid_header |-> header, e_phoff |-> off, phdrs |-> phdrs, bytes |-> [i \in 1 .. 36 |-> i]]
MCPrograms ==
    {File(TRUE, 2, <<Ph("LOAD", o, v, f, m)>>) :
       o \in {0, 3, 12, 19, 40}, v \in {0, 3, 12, 28, 35, 44, 60, 76, 100}, f \in {0, 4, 14, 40}, m \in {0, 4, 14, 20, 30, 120, 125}}
    \cup {File(header, off, <<p, Ph("NOTE", 0, 0, 0, 0), q>>) :
            header \in BOOLEAN, off \in {2, 16, 33}, p \in {Ph("LOAD", 3, 19, 20, 22), Ph("DYNAMIC", 0, 0, 0, 0)},
            q \in {Ph("LOAD", 0, 48, 4, 4), Ph("LOAD", 0, 32, 4, 4), Ph("LOAD", 0, 64, 0, 8)}}
DriveKind(p, e, r, a, l) == [present |-> p, error |-> e, ready |-> r, ata |-> a, large |-> l]
MCDriveKinds == {DriveKind(TRUE, 1, TRUE, TRUE, FALSE), DriveKind(TRUE, 1, TRUE, TRUE, TRUE), DriveKind(TRUE, 129, TRUE, TRUE, FALSE),
                 DriveKind(TRUE, 129, FALSE, TRUE, FALSE), DriveKind(TRUE, 1, TRUE, FALSE, FALSE), DriveKind(FALSE, 255, FALSE, FALSE, FALSE)}
=============================================================================
