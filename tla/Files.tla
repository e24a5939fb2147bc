------------------------------- MODULE Files --------------------------------
(***************************************************************************)
(* The Pintos file system and the descriptors of user processes:           *)
(* filesys/inode.c, file.c, directory.c, free-map.c and filesys.c, and the *)
(* file system calls of pintos-project2-userprog (userprog/syscall.c,      *)
(* userprog/process.c).                                                    *)
(*                                                                         *)
(* An operation is a function from a file system to the next one.  Every   *)
(* block_write in it appends the new image of the disk to fs.hist; the     *)
(* images reach the platter one at a time (BlockWrite), and the machine    *)
(* may crash and boot again between any two of them.  Operations do not    *)
(* overlap: file_op_lock serialises them, except create, remove and the     *)
(* opening and closing of executables, whose callers do not take it.       *)
(***************************************************************************)
EXTENDS Integers, FiniteSets, SequencesExt

CONSTANTS
    Process,
    Name,            \* file names
    NSectors,        \* BOUND: size of the file system device
    NSlots,          \* BOUND: entries in the root directory
    SECTOR_SIZE,     \* BLOCK_SECTOR_SIZE, in bytes
    Sizes,           \* BOUND: initial sizes of files
    Offsets,         \* BOUND: where processes seek to
    Buffers,         \* BOUND: what processes write
    MaxFd,           \* BOUND: highest descriptor
    MaxCreates,      \* BOUND: calls of create
    MaxCrashes,      \* BOUND: crashes
    None

\* The device has room for what do_format writes.  None is a null pointer, or
\* what is in a slot or sector that holds no entry or inode.
Entry == [name : Name, sector : Nat]
Inode == [start : Nat, length : Nat]
File  == [fd : Nat, sector : Nat, pos : Nat, deny_write : BOOLEAN]
ASSUME FilesAssumption ==
    /\ NSectors \in Nat /\ NSectors >= 4
    /\ NSlots \in Nat \ {0} /\ SECTOR_SIZE \in Nat \ {0}
    /\ Sizes \cup Offsets \subseteq Nat /\ Buffers \subseteq Seq(Nat)
    /\ {MaxFd, MaxCreates, MaxCrashes} \subseteq Nat
    /\ IsFiniteSet(Process)
    /\ None \notin Nat \cup Entry \cup Inode \cup File

VARIABLES
    fs,        \* the file system as the kernel sees it
    platter,   \* what is on the disk, and would survive a crash
    files,     \* opened_files of each process: descriptors in order
    thread_fd, \* the next descriptor
    exe,       \* exe_file: the program a process runs, denied for writing
    ref,       \* history: what each inode's file should contain
    leaked,    \* history: sectors marked in the free map for no file
    count      \* creates and crashes so far

vars == <<fs, platter, files, thread_fd, exe, ref, leaked, count>>

Sector == 0 .. NSectors - 1
\* Inodes and data of the free map and of the root directory; what the data
\* sectors hold are the components "marked" and "dir" of a disk.
FREE_MAP_SECTOR == 0
ROOT_DIR_SECTOR == 1
System == {FREE_MAP_SECTOR, ROOT_DIR_SECTOR, 2, 3}
Zeros(n) == [i \in 1 .. n |-> 0]
Lesser(a, b) == IF a < b THEN a ELSE b
bytes_to_sectors(size) == (size + SECTOR_SIZE - 1) \div SECTOR_SIZE
Extent(start, cnt) == start .. start + cnt - 1

\* do_format.
Formatted ==
    [marked |-> System, dir |-> [i \in 1 .. NSlots |-> None],
     inode |-> [s \in Sector |-> None],
     data |-> [s \in Sector |-> Zeros(SECTOR_SIZE)]]

\* filesys_init on a disk that is formatted: free_map_open reads the free map.
filesys_init(d) == [disk |-> d, hist |-> <<>>, free_map |-> d.marked,
                    inodes |-> [s \in {} |-> None]]

block_write(f, d) == [f EXCEPT !.disk = d, !.hist = Append(@, d)]

----------------------------------------------------------------------------
(* The free map. *)

\* bitmap_scan_and_flip: the first run of cnt free sectors, None if there is
\* none.
bitmap_scan(map, cnt) ==
    LET at == {s \in 0 .. NSectors - cnt : Extent(s, cnt) \cap map = {}}
    IN  IF at = {} THEN None ELSE CHOOSE s \in at : \A t \in at : s <= t

SetMap(f, map) == block_write([f EXCEPT !.free_map = map],
                              [f.disk EXCEPT !.marked = map])

free_map_allocate(f, start, cnt) == SetMap(f, f.free_map \cup Extent(start, cnt))

free_map_release(f, start, cnt) == SetMap(f, f.free_map \ Extent(start, cnt))

----------------------------------------------------------------------------
(* Inodes. *)

IsOpen(f, s) == s \in DOMAIN f.inodes

\* inode_open, and inode_reopen of an inode that is in open_inodes.
inode_open(f, s) ==
    IF IsOpen(f, s) THEN [f EXCEPT !.inodes[s].open_cnt = @ + 1]
    ELSE [f EXCEPT !.inodes =
            [t \in DOMAIN @ \cup {s} |->
               IF t # s THEN @[t]
               ELSE [open_cnt |-> 1, removed |-> FALSE, deny_write_cnt |-> 0,
                     data |-> f.disk.inode[s]]]]

\* Mutant: only the inode's sector is given back.
MutantInodeClose(f, s) ==
    LET g == [f EXCEPT !.inodes = [t \in DOMAIN @ \ {s} |-> @[t]]]
    IN  IF f.inodes[s].open_cnt > 1 THEN [f EXCEPT !.inodes[s].open_cnt = @ - 1]
        ELSE IF f.inodes[s].removed THEN free_map_release(g, s, 1) ELSE g

\* The last close takes the inode off the list and gives its sectors back if
\* it is removed, the inode's first.
inode_close(f, s) ==
    LET i == f.inodes[s]
        g == [f EXCEPT !.inodes = [t \in DOMAIN @ \ {s} |-> @[t]]]
    IN  IF i.open_cnt > 1 THEN [f EXCEPT !.inodes[s].open_cnt = @ - 1]
        ELSE IF i.removed
             THEN free_map_release(free_map_release(g, s, 1), i.data.start,
                                   bytes_to_sectors(i.data.length))
             ELSE g

inode_remove(f, s)      == [f EXCEPT !.inodes[s].removed = TRUE]
inode_deny_write(f, s)  == [f EXCEPT !.inodes[s].deny_write_cnt = @ + 1]
inode_allow_write(f, s) == [f EXCEPT !.inodes[s].deny_write_cnt = @ - 1]
byte_to_sector(i, pos)  == i.start + pos \div SECTOR_SIZE

\* The loop of inode_read_at and inode_write_at: the pieces that size bytes at
\* offset fall into.  It ends early at the end of the file.
Chunks(i, size, offset) ==
    LET From[left \in 0 .. size] ==
          LET pos  == offset + size - left
              ofs  == pos % SECTOR_SIZE
              min_left == Lesser(i.length - pos, SECTOR_SIZE - ofs)
              len  == Lesser(left, min_left)
          IN  IF left = 0 \/ len <= 0 THEN <<>>
              ELSE <<[sector |-> byte_to_sector(i, pos), ofs |-> ofs, len |-> len,
                      done |-> size - left]>> \o From[left - len]
    IN  From[size]

inode_read_at(d, i, size, offset) ==
    LET cs == Chunks(i, size, offset)
    IN  FlattenSeq([k \in DOMAIN cs |->
          SubSeq(d.data[cs[k].sector], cs[k].ofs + 1, cs[k].ofs + cs[k].len)])

\* Mutant: the sector is not read first.
MutantWriteChunk(f, c, buffer) ==
    block_write(f,
      [f.disk EXCEPT !.data[c.sector] = [k \in 1 .. SECTOR_SIZE |->
          IF k \in c.ofs + 1 .. c.ofs + c.len THEN buffer[c.done + k - c.ofs] ELSE 0]])

\* The bytes of the sector outside the chunk are read into the bounce buffer
\* first.
WriteChunk(f, c, buffer) ==
    block_write(f,
      [f.disk EXCEPT !.inode[c.sector] = None,
                     !.data[c.sector] = [k \in 1 .. SECTOR_SIZE |->
          IF k \in c.ofs + 1 .. c.ofs + c.len THEN buffer[c.done + k - c.ofs] ELSE @[k]]])

\* Mutant: writes are not denied.
MutantWriteChunks(f, s, size, offset) == Chunks(f.inodes[s].data, size, offset)

WriteChunks(f, s, size, offset) ==
    IF f.inodes[s].deny_write_cnt > 0 THEN <<>>
    ELSE Chunks(f.inodes[s].data, size, offset)

\* Chunks are written one after the other.
WriteAll(f, cs, buffer) ==
    LET Written[k \in 0 .. Len(cs)] ==
          IF k = 0 THEN f ELSE WriteChunk(Written[k - 1], cs[k], buffer)
    IN  Written[Len(cs)]

inode_write_at(f, s, buffer, offset) ==
    WriteAll(f, WriteChunks(f, s, Len(buffer), offset), buffer)

\* The sectors written, in order: the inode, then its data as zeros.
inode_create(f, sector, start, length) ==
    LET g    == free_map_allocate(f, start, bytes_to_sectors(length))
        made == block_write(g, [g.disk EXCEPT
                  !.inode[sector] = [start |-> start, length |-> length],
                  !.data[sector] = Zeros(SECTOR_SIZE)])
    IN  WriteAll(made,
                 [i \in 1 .. bytes_to_sectors(length) |->
                    [sector |-> start + i - 1, ofs |-> 0, len |-> SECTOR_SIZE, done |-> 0]],
                 Zeros(SECTOR_SIZE))

----------------------------------------------------------------------------
(* The root directory: a slot is free or holds a name and an inode's sector. *)

lookup(d, name) == {i \in 1 .. NSlots : d.dir[i] # None /\ d.dir[i].name = name}
FreeSlots(d)    == {i \in 1 .. NSlots : d.dir[i] = None}
First(S)        == CHOOSE i \in S : \A j \in S : i <= j
WriteSlot(f, i, e) == block_write(f, [f.disk EXCEPT !.dir[i] = e])

\* Fails if the name is in use or if there is no free slot: the directory does
\* not grow.
dir_add_fails(d, name) == lookup(d, name) # {} \/ FreeSlots(d) = {}
dir_add(f, name, s)    == WriteSlot(f, First(FreeSlots(f.disk)),
                                    [name |-> name, sector |-> s])

\* Mutant: the inode is closed before the entry is erased.
MutantDirRemove(f, name) ==
    LET i == First(lookup(f.disk, name))
        s == f.disk.dir[i].sector
    IN  WriteSlot(inode_close(inode_remove(inode_open(f, s), s), s), i, None)

\* The entry is erased before the inode is closed.
dir_remove(f, name) ==
    LET i == First(lookup(f.disk, name))
        s == f.disk.dir[i].sector
    IN  inode_close(inode_remove(WriteSlot(inode_open(f, s), i, None), s), s)

----------------------------------------------------------------------------
(* Files. *)

file_open(s, fd) == [fd |-> fd, sector |-> s, pos |-> 0, deny_write |-> FALSE]
file_deny_write(f, s) == inode_deny_write(f, s)

\* Mutant: writes stay denied.
MutantFileClose(f, file) == inode_close(f, file.sector)

\* file_allow_write if the file denies writes, then inode_close.
file_close(f, file) ==
    inode_close(IF file.deny_write THEN inode_allow_write(f, file.sector) ELSE f,
                file.sector)

----------------------------------------------------------------------------
Init ==
    /\ fs = filesys_init(Formatted) /\ platter = Formatted
    /\ files = [p \in Process |-> <<>>] /\ thread_fd = [p \in Process |-> 2]
    /\ exe = [p \in Process |-> None]
    /\ ref = [s \in Sector |-> <<>>] /\ leaked = {}
    /\ count = [creates |-> 0, crashes |-> 0]

\* The disk finishes one operation's writes before the next operation begins.
Quiet == fs.hist = <<>>

\* filesys_create.  calloc in inode_create may fail (ok); when the allocation
\* or dir_add fails, only the inode's sector is given back.
CreateFile(name, size, ok) ==
    LET sector == bitmap_scan(fs.free_map, 1)
        f1     == free_map_allocate(fs, sector, 1)
        start  == bitmap_scan(f1.free_map, bytes_to_sectors(size))
        f2     == inode_create(f1, sector, start, size)
    IN  /\ Quiet /\ sector # None /\ count.creates < MaxCreates
        /\ count' = [count EXCEPT !.creates = @ + 1]
        /\ \/ /\ ~ok \/ start = None
              /\ fs' = free_map_release(f1, sector, 1)
              /\ UNCHANGED <<ref, leaked>>
           \/ /\ ok /\ start # None /\ dir_add_fails(fs.disk, name)
              /\ fs' = free_map_release(f2, sector, 1)
              /\ leaked' = leaked \cup Extent(start, bytes_to_sectors(size))
              /\ UNCHANGED ref
           \/ /\ ok /\ start # None /\ ~dir_add_fails(fs.disk, name)
              /\ fs' = dir_add(f2, name, sector)
              /\ ref' = [ref EXCEPT ![sector] = Zeros(size)]
              /\ UNCHANGED leaked
        /\ UNCHANGED <<platter, files, thread_fd, exe>>

\* filesys_remove.
RemoveFile(name) ==
    /\ Quiet /\ lookup(fs.disk, name) # {}
    /\ fs' = dir_remove(fs, name)
    /\ UNCHANGED <<platter, files, thread_fd, exe, ref, leaked, count>>

\* dir_lookup: the sector of the inode a name leads to.
dir_lookup(name) == fs.disk.dir[First(lookup(fs.disk, name))].sector

\* open_file, with filesys_open.
Open(p, name) ==
    /\ Quiet /\ exe[p] # None /\ thread_fd[p] <= MaxFd
    /\ lookup(fs.disk, name) # {}
    /\ fs' = inode_open(fs, dir_lookup(name))
    /\ files' = [files EXCEPT ![p] = Append(@, file_open(dir_lookup(name), thread_fd[p]))]
    /\ thread_fd' = [thread_fd EXCEPT ![p] = @ + 1]
    /\ UNCHANGED <<platter, exe, ref, leaked, count>>

\* get_file_structure: the place of a descriptor in opened_files.
get_file_structure(p, fd) == {k \in DOMAIN files[p] : files[p][k].fd = fd}

\* close_files.
Close(p, fd) ==
    /\ Quiet /\ exe[p] # None
    /\ \E k \in get_file_structure(p, fd) :
         /\ fs' = file_close(fs, files[p][k])
         /\ files' = [files EXCEPT ![p] = RemoveAt(@, k)]
    /\ UNCHANGED <<platter, thread_fd, exe, ref, leaked, count>>

\* read_file: what is read is compared with ref by ReadsRight.
Read(p, fd, size) ==
    /\ Quiet /\ exe[p] # None
    /\ \E k \in get_file_structure(p, fd) :
         LET file == files[p][k]
             n    == Len(inode_read_at(fs.disk, fs.inodes[file.sector].data, size, file.pos))
         IN  n > 0 /\ files' = [files EXCEPT ![p][k].pos = @ + n]
    /\ UNCHANGED <<fs, platter, thread_fd, exe, ref, leaked, count>>

\* write_file: a file does not grow, and is not written while it is denied.
Write(p, fd, buffer) ==
    /\ Quiet /\ exe[p] # None
    /\ \E k \in get_file_structure(p, fd) :
         LET file == files[p][k]
             s    == file.sector
             done == WriteChunks(fs, s, Len(buffer), file.pos)
             n    == Lesser(Len(buffer), Len(ref[s]) - file.pos)
         IN  /\ done # <<>>
             /\ fs' = inode_write_at(fs, s, buffer, file.pos)
             /\ files' = [files EXCEPT ![p][k].pos = @ + Last(done).done + Last(done).len]
             /\ ref' = [ref EXCEPT ![s] = [i \in DOMAIN @ |->
                          IF i \in file.pos + 1 .. file.pos + n THEN buffer[i - file.pos]
                                                               ELSE @[i]]]
    /\ UNCHANGED <<platter, thread_fd, exe, leaked, count>>

\* fileseek: past the end is allowed.
Seek(p, fd, pos) ==
    /\ Quiet /\ exe[p] # None
    /\ \E k \in get_file_structure(p, fd) :
         files' = [files EXCEPT ![p][k].pos = pos]
    /\ UNCHANGED <<fs, platter, thread_fd, exe, ref, leaked, count>>

\* load in a new thread: the executable stays open and denied; if a check of its
\* header fails, it is closed again.
Exec(p, name) ==
    /\ Quiet /\ exe[p] = None /\ files[p] = <<>> /\ lookup(fs.disk, name) # {}
    /\ LET s == dir_lookup(name)
       IN  /\ fs.disk.inode[s].length > 0
           /\ fs' = file_deny_write(inode_open(fs, s), s)
           /\ exe' = [exe EXCEPT ![p] = [file_open(s, 0) EXCEPT !.deny_write = TRUE]]
    /\ thread_fd' = [thread_fd EXCEPT ![p] = 2]
    /\ UNCHANGED <<platter, files, ref, leaked, count>>

\* process_exit closes the executable first.
Exit(p) ==
    /\ Quiet /\ exe[p] # None
    /\ fs' = file_close(fs, exe[p])
    /\ exe' = [exe EXCEPT ![p] = None]
    /\ UNCHANGED <<platter, files, thread_fd, ref, leaked, count>>

\* A process that exits closes its files one by one, and lets go of
\* file_op_lock between them.
close_all_opened_files(p) ==
    /\ Quiet /\ exe[p] = None /\ files[p] # <<>>
    /\ fs' = file_close(fs, files[p][1])
    /\ files' = [files EXCEPT ![p] = Tail(@)]
    /\ UNCHANGED <<platter, thread_fd, exe, ref, leaked, count>>

----------------------------------------------------------------------------
(* The disk. *)

BlockWrite ==
    /\ fs.hist # <<>>
    /\ platter' = Head(fs.hist)
    /\ fs' = [fs EXCEPT !.hist = Tail(@)]
    /\ UNCHANGED <<files, thread_fd, exe, ref, leaked, count>>

\* The sectors that a directory of d leads to.
FileSectors(i, s) == {s} \cup Extent(i.start, bytes_to_sectors(i.length))
Entries(d)   == {i \in 1 .. NSlots : d.dir[i] # None}
Named(d)     == UNION {FileSectors(d.inode[d.dir[i].sector], d.dir[i].sector) : i \in Entries(d)}

Crash ==
    /\ count.crashes < MaxCrashes
    /\ count' = [count EXCEPT !.crashes = @ + 1]
    /\ fs' = filesys_init(platter)
    /\ files' = [p \in Process |-> <<>>] /\ thread_fd' = [p \in Process |-> 2]
    /\ exe' = [p \in Process |-> None]
    /\ ref' = [s \in Sector |->
                 IF \E i \in Entries(platter) : platter.dir[i].sector = s
                 THEN inode_read_at(platter, platter.inode[s], platter.inode[s].length, 0)
                 ELSE <<>>]
    /\ leaked' = platter.marked \ (System \cup Named(platter))
    /\ UNCHANGED platter

Fds == 2 .. MaxFd
Next ==
    \/ \E name \in Name :
         \/ \E size \in Sizes, ok \in BOOLEAN : CreateFile(name, size, ok)
         \/ RemoveFile(name)
         \/ \E p \in Process : Open(p, name) \/ Exec(p, name)
    \/ \E p \in Process :
         \/ \E fd \in Fds :
              \/ Close(p, fd)
              \/ \E size \in Sizes : Read(p, fd, size)
              \/ \E pos \in Offsets : Seek(p, fd, pos)
              \/ \E buffer \in Buffers : Write(p, fd, buffer)
         \/ Exit(p) \/ close_all_opened_files(p)
    \/ BlockWrite \/ Crash

Spec == Init /\ [][Next]_vars

----------------------------------------------------------------------------
(* Properties. *)

Disjoint(d) == \A i, j \in Entries(d) : i # j =>
    LET s == d.dir[i].sector
        t == d.dir[j].sector
    IN  /\ d.dir[i].name # d.dir[j].name
        /\ FileSectors(d.inode[s], s) \cap FileSectors(d.inode[t], t) = {}

\* Whenever the machine stops, between any two block writes of an operation,
\* every name on the disk leads to an inode that is written, whose sectors are
\* marked in the free map and belong to no other name: the next boot gives
\* none of them away.
CrashSafe ==
    /\ \A i \in Entries(platter) : platter.inode[platter.dir[i].sector] # None
    /\ System \cup Named(platter) \subseteq platter.marked
    /\ Disjoint(platter) /\ Named(platter) \cap System = {}

\* The sectors in use are those of the files that have a name or are open; the
\* free map has exactly these and the ones leaked by a crash or by a create
\* that failed in dir_add (filesys_create), and no sector is both.
OpenSectors == UNION {FileSectors(fs.inodes[s].data, s) : s \in DOMAIN fs.inodes}
SectorsAccounted ==
    /\ fs.free_map = System \cup Named(fs.disk) \cup OpenSectors \cup leaked
    /\ (Named(fs.disk) \cup OpenSectors) \cap leaked = {}
    /\ fs.hist = <<>> => fs.disk = platter /\ platter.marked = fs.free_map

\* open_cnt and deny_write_cnt count the open files: the ASSERTs of
\* inode_deny_write and inode_allow_write hold, and an inode is forgotten
\* exactly when nobody has it open.
FilesOf(s) == {x \in Process \X (1 .. MaxFd) :
                 x[2] \in DOMAIN files[x[1]] /\ files[x[1]][x[2]].sector = s}
RunsOf(s)  == {p \in Process : exe[p] # None /\ exe[p].sector = s}
OpenCounts ==
    /\ \A s \in DOMAIN fs.inodes :
         /\ fs.inodes[s].open_cnt = Cardinality(FilesOf(s)) + Cardinality(RunsOf(s))
         /\ fs.inodes[s].deny_write_cnt = Cardinality(RunsOf(s))
         /\ fs.inodes[s].open_cnt > 0
         /\ fs.inodes[s].removed <=> \A i \in Entries(fs.disk) : fs.disk.dir[i].sector # s
    /\ \A s \in Sector : FilesOf(s) \cup RunsOf(s) # {} => IsOpen(fs, s)

\* Reading any part of an open file, removed or not, gives what was written
\* there last, and zeros where nothing was.
ReadsRight ==
    \A s \in DOMAIN fs.inodes : \A ofs, size \in 0 .. Len(ref[s]) + 1 :
      inode_read_at(fs.disk, fs.inodes[s].data, size, ofs)
        = SubSeq(ref[s], ofs + 1, Lesser(ofs + size, Len(ref[s])))

\* A program's file does not change while a process runs it.
ExecutableUnchanged ==
    [][\A p \in Process : exe[p] # None /\ exe'[p] = exe[p] =>
         LET s == exe[p].sector
             i == fs.inodes[s].data
         IN  inode_read_at(fs'.disk, i, i.length, 0)
               = inode_read_at(fs.disk, i, i.length, 0)]_vars
=============================================================================
