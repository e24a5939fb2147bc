------------------------------ MODULE StartUp -------------------------------
(***************************************************************************)
(* What the kernel does between the disk driver and the programs: it scans *)
(* the disk for partitions (devices/partition.c), registers them as block  *)
(* devices (devices/block.c), casts them in their roles and runs the       *)
(* actions of the command line (threads/init.c), among them those that     *)
(* copy files from and to an archive on the scratch device                 *)
(* (filesys/fsutil.c, lib/ustar.c).                                        *)
(*                                                                         *)
(* A sector is a partition table, a header, or data; Zeros is the sector   *)
(* of zeros.  The file system is the map of its files (Files models it).   *)
(* Loops over sectors take one step per sector, for a panic ends them      *)
(* half-way.  The action "run" is in ProcessLifecycle.                     *)
(***************************************************************************)
EXTENDS Archives, FiniteSetsExt, TLC

CONSTANTS
    SECTOR_BITS,        \* bits of block_sector_t, 32
    DiskSize,           \* sectors of the disk
    BLOCK_SECTOR_SIZE,  \* bytes of a sector, 512
    Machines,           \* BOUND: the entries of the partition table, the options on the
                        \* command line and the files of the archive that are tried
    MaxRead,            \* BOUND: nested partition tables before the stack is full
    MaxActions          \* BOUND: actions on the command line

ASSUME StartUpAssumption ==
    /\ DiskSize \in 1 .. 2 ^ SECTOR_BITS - 1
    /\ BLOCK_SECTOR_SIZE \in Nat \ {0} /\ {MaxRead, MaxActions} \subseteq Nat

VARIABLES
    stage,       \* "scan", "locate", "ready", "extract", "append", "panic" or "overflow"
    disk,        \* its sectors
    blocks,      \* all_blocks: the disk, then its partitions
    role,        \* block_by_role: places in blocks, or 0
    fs,          \* files and what they hold
    extractAt,   \* the position of fsutil_extract
    appendAt,    \* the position of fsutil_append
    copying,     \* the file that is copied: name, bytes left, bytes so far
    given,       \* history: options, archive, disk and files at the start
    log          \* history: actions so far, files appended, whether an extract
                 \* ended just now, whether one came after an append

suVars == <<stage, disk, blocks, role, fs, extractAt, appendAt, copying, given, log>>

Limit32 == 2 ^ SECTOR_BITS
EXTENDED == {5, 15, 133, 197}
Roles == {"filesys", "scratch"}
NoCopy == [name |-> <<>>, left |-> 0, data |-> <<>>]

----------------------------------------------------------------------------
(* partition.c and block.c *)

BlockType(part_type) ==
    CASE part_type = 32 -> "kernel" [] part_type = 33 -> "filesys" [] part_type = 34 -> "scratch"
      [] part_type = 35 -> "swap" [] OTHER -> "foreign"

\* name 0 is the disk, another is the number of the partition.
block_register(list, name, type, start, size) ==
    Append(list, [name |-> name, type |-> type, start |-> start, size |-> size, read_cnt |-> 0, write_cnt |-> 0])

\* Mutant: the end is compared without a look at the overflow.
MutantFound(list, part_type, start, size, part_nr) ==
    IF start >= DiskSize \/ (start + size) % Limit32 > DiskSize THEN list
    ELSE block_register(list, part_nr, BlockType(part_type), start, size)

found_partition(list, part_type, start, size, part_nr) ==
    LET end == (start + size) % Limit32 IN
    IF start >= DiskSize \/ end < start \/ end > DiskSize THEN list
    ELSE block_register(list, part_nr, BlockType(part_type), start, size)

\* s holds the list, the number of partitions and the tables that were read.
\* Every call reads sector 0, also for a table that is elsewhere.
RECURSIVE read_partition_table(_, _, _)
read_partition_table(s, sector, primary_extended_sector) ==
    LET Entry(t, e) ==
          IF e.size = 0 \/ e.type = 0 \/ t.reads > MaxRead THEN t
          ELSE IF e.type \in EXTENDED
               THEN IF sector = 0 THEN read_partition_table(t, e.offset, e.offset)
                    ELSE read_partition_table(t, (e.offset + primary_extended_sector) % Limit32, primary_extended_sector)
          ELSE [t EXCEPT !.nr = @ + 1,
                         !.list = found_partition(@, e.type, (e.offset + sector) % Limit32, e.size, t.nr + 1)]
    IN  IF sector >= DiskSize THEN s
        ELSE IF ~disk[0].signature THEN [s EXCEPT !.reads = @ + 1]
        ELSE FoldLeft(Entry, [s EXCEPT !.reads = @ + 1], disk[0].entries)

partition_scan ==
    /\ stage = "scan"
    /\ LET s == read_partition_table([list |-> blocks, nr |-> 0, reads |-> 0], 0, 0) IN
       /\ stage' = IF s.reads > MaxRead THEN "overflow" ELSE "locate"
       /\ blocks' = [s.list EXCEPT ![1].read_cnt = s.reads]
    /\ UNCHANGED <<disk, role, fs, extractAt, appendAt, copying, given, log>>

check_sector(b, sector) == sector < blocks[b].size

\* A partition counts an access, and so does the disk under it.
Counted(b, reads, writes) ==
    [i \in DOMAIN blocks |-> IF i \notin {1, b} THEN blocks[i]
                             ELSE [blocks[i] EXCEPT !.read_cnt = @ + reads, !.write_cnt = @ + writes]]
block_read(b, sector)  == disk[(blocks[b].start + sector) % Limit32]
block_write(b, sector, contents) == [disk EXCEPT ![(blocks[b].start + sector) % Limit32] = contents]

----------------------------------------------------------------------------
(* init.c *)

\* The last option of a kind counts; an unknown one stops the kernel.
parse_options(words) ==
    FoldLeft(LAMBDA o, w : IF w.name \in DOMAIN o THEN [o EXCEPT ![w.name] = w.value] ELSE [o EXCEPT !.ok = FALSE],
             [ok |-> TRUE, filesys |-> 0, scratch |-> 0, format |-> FALSE], words)

\* The device of that name, otherwise the first of that type; 0 for none.
block_get_by_name(name) == Min({i \in DOMAIN blocks : blocks[i].name = name} \cup {Len(blocks) + 1}) % (Len(blocks) + 1)
locate_block_device(r, name) ==
    IF name # 0 THEN block_get_by_name(name)
    ELSE Min({i \in DOMAIN blocks : blocks[i].type = r} \cup {Len(blocks) + 1}) % (Len(blocks) + 1)

\* A name that no device has, or no file system, stops the kernel.
locate_block_devices ==
    /\ stage = "locate"
    /\ LET o == parse_options(given.options) IN
       /\ role' = [r \in Roles |-> locate_block_device(r, o[r])]
       /\ stage' = IF o.ok /\ role'["filesys"] # 0 /\ (o.scratch # 0 => role'["scratch"] # 0) THEN "ready" ELSE "panic"
       /\ fs' = IF o.format THEN <<>> ELSE fs
    /\ UNCHANGED <<disk, blocks, extractAt, appendAt, copying, given, log>>

\* The next action of the command line begins, if there is one.
run_actions == /\ stage = "ready" /\ log.acts < MaxActions
               /\ log' = [log EXCEPT !.acts = @ + 1, !.extracted = FALSE]
Panic == stage' = "panic" /\ UNCHANGED <<disk, blocks, role, fs, extractAt, appendAt, copying, given>>

UnknownAction == run_actions /\ Panic

----------------------------------------------------------------------------
(* fsutil.c *)

scratch == role["scratch"]

fsutil_cat(name) ==
    /\ run_actions
    /\ IF name \notin DOMAIN fs THEN Panic
       ELSE UNCHANGED <<stage, disk, blocks, role, fs, extractAt, appendAt, copying, given>>

fsutil_rm(name) ==
    /\ run_actions
    /\ IF name \notin DOMAIN fs THEN Panic
       ELSE /\ fs' = [n \in DOMAIN fs \ {name} |-> fs[n]]
            /\ UNCHANGED <<stage, disk, blocks, role, extractAt, appendAt, copying, given>>

fsutil_extract ==
    /\ run_actions
    /\ IF scratch = 0 THEN Panic
       ELSE /\ stage' = "extract"
            /\ UNCHANGED <<disk, blocks, role, fs, extractAt, appendAt, copying, given>>

\* Data, or a partition table, is not a header.
ParseSector(s) == IF "chksum" \in DOMAIN s THEN ustar_parse_header(s)
                  ELSE [error |-> TRUE, file_name |-> <<>>, type |-> USTAR_EOF, size |-> 0]
BytesOf(s) == IF s = Zeros THEN [i \in 1 .. BLOCK_SECTOR_SIZE |-> 0] ELSE s.data

\* Sectors 0 and 1 are erased, and the position stays behind the end.
ExtractHeader ==
    /\ stage = "extract" /\ copying = NoCopy
    /\ UNCHANGED <<role, appendAt, given>>
    /\ IF ~check_sector(scratch, extractAt) THEN stage' = "panic" /\ UNCHANGED <<disk, blocks, fs, extractAt, copying, log>>
       ELSE LET h     == ParseSector(block_read(scratch, extractAt))
                first == blocks[scratch].start
                fits  == check_sector(scratch, 1)
            IN
         /\ extractAt' = extractAt + 1
         /\ \/ /\ h.error /\ stage' = "panic"
               /\ blocks' = Counted(scratch, 1, 0) /\ UNCHANGED <<disk, fs, copying, log>>
            \/ /\ ~h.error /\ h.type = USTAR_EOF
               /\ stage' = IF fits THEN "ready" ELSE "panic"
               /\ disk' = [s \in DOMAIN disk |-> IF s = first \/ (s = first + 1 /\ fits) THEN Zeros ELSE disk[s]]
               /\ blocks' = Counted(scratch, 1, IF fits THEN 2 ELSE 1)
               /\ log' = [log EXCEPT !.extracted = fits, !.erased = @ \/ appendAt > 0]
               /\ UNCHANGED <<fs, copying>>
            \/ /\ ~h.error /\ h.type = USTAR_DIRECTORY
               /\ blocks' = Counted(scratch, 1, 0) /\ UNCHANGED <<stage, disk, fs, copying, log>>
            \/ /\ ~h.error /\ h.type = USTAR_REGULAR
               /\ blocks' = Counted(scratch, 1, 0) /\ UNCHANGED <<disk, log>>
               /\ IF h.file_name \in DOMAIN fs THEN stage' = "panic" /\ UNCHANGED <<fs, copying>>
                  ELSE /\ fs' = (h.file_name :> [i \in 1 .. h.size |-> 0]) @@ fs
                       /\ copying' = IF h.size = 0 THEN NoCopy ELSE [name |-> h.file_name, left |-> h.size, data |-> <<>>]
                       /\ UNCHANGED stage

ExtractSector ==
    /\ stage = "extract" /\ copying # NoCopy
    /\ UNCHANGED <<disk, role, appendAt, given, log>>
    /\ IF ~check_sector(scratch, extractAt) THEN stage' = "panic" /\ UNCHANGED <<blocks, fs, extractAt, copying>>
       ELSE LET chunk_size == Min({BLOCK_SECTOR_SIZE, copying.left})
                data == copying.data \o SubSeq(BytesOf(block_read(scratch, extractAt)), 1, chunk_size)
            IN  /\ extractAt' = extractAt + 1 /\ blocks' = Counted(scratch, 1, 0) /\ UNCHANGED stage
                /\ fs' = [fs EXCEPT ![copying.name] = [i \in DOMAIN @ |-> IF i <= Len(data) THEN data[i] ELSE @[i]]]
                /\ copying' = IF copying.left = chunk_size THEN NoCopy
                              ELSE [copying EXCEPT !.left = @ - chunk_size, !.data = data]

\* The header; then sector after sector.
fsutil_append(name) ==
    /\ run_actions
    /\ LET h == ustar_make_header(name, USTAR_REGULAR, Len(fs[name])) IN
       IF name \notin DOMAIN fs \/ scratch = 0 \/ h = NoHeader \/ ~check_sector(scratch, appendAt) THEN Panic
       ELSE /\ disk' = block_write(scratch, appendAt, h) /\ blocks' = Counted(scratch, 0, 1)
            /\ appendAt' = appendAt + 1
            /\ stage' = "append" /\ copying' = [name |-> name, left |-> Len(fs[name]), data |-> <<>>]
            /\ UNCHANGED <<role, fs, extractAt, given>>

AppendSector ==
    /\ stage = "append" /\ copying.left > 0
    /\ UNCHANGED <<role, fs, extractAt, given, log>>
    /\ IF appendAt >= blocks[scratch].size THEN stage' = "panic" /\ UNCHANGED <<disk, blocks, appendAt, copying>>
       ELSE LET chunk_size == Min({BLOCK_SECTOR_SIZE, copying.left})
                done  == Len(fs[copying.name]) - copying.left
                bytes == FieldOf(SubSeq(fs[copying.name], done + 1, done + chunk_size), BLOCK_SECTOR_SIZE)
            IN  /\ disk' = block_write(scratch, appendAt, IF SumOf(bytes) = 0 THEN Zeros ELSE [data |-> bytes])
                /\ blocks' = Counted(scratch, 0, 1)
                /\ appendAt' = appendAt + 1 /\ copying' = [copying EXCEPT !.left = @ - chunk_size]
                /\ UNCHANGED stage

\* The end of the archive is written twice to the same sector, the second time
\* from one byte further on: its last byte is whatever follows the buffer.
AppendEnd ==
    /\ stage = "append" /\ copying.left = 0
    /\ IF ~check_sector(scratch, appendAt) THEN stage' = "panic" /\ UNCHANGED <<disk, blocks, copying, log>>
       ELSE /\ \E last \in {Zeros, [data |-> [i \in 1 .. BLOCK_SECTOR_SIZE |-> IF i = BLOCK_SECTOR_SIZE THEN 1 ELSE 0]]} :
                 disk' = block_write(scratch, appendAt, last)
            /\ blocks' = Counted(scratch, 0, 2)
            /\ stage' = "ready" /\ copying' = NoCopy
            /\ log' = [log EXCEPT !.appended = Append(@, [name |-> strip_antisocial_prefixes(copying.name), data |-> fs[copying.name]])]
    /\ UNCHANGED <<role, fs, extractAt, appendAt, given>>

----------------------------------------------------------------------------
Chunks(data) ==
    [k \in 1 .. (Len(data) + BLOCK_SECTOR_SIZE - 1) \div BLOCK_SECTOR_SIZE |->
       LET from == (k - 1) * BLOCK_SECTOR_SIZE
           part == FieldOf(SubSeq(data, from + 1, Min({Len(data), from + BLOCK_SECTOR_SIZE})), BLOCK_SECTOR_SIZE)
       IN  IF SumOf(part) = 0 THEN Zeros ELSE [data |-> part]]
\* An archive of files, as tar writes it.
SectorsOf(files) ==
    FlattenSeq([i \in DOMAIN files |-> <<ustar_make_header(files[i].name, files[i].type, Len(files[i].data))>> \o Chunks(files[i].data)])
    \o <<Zeros, Zeros>>

\* The disk holds a table, and an archive from the beginning of the first scratch
\* partition, which may be too small for it.
StartsWith(m, files) ==
    LET own  == {i \in DOMAIN m.table : m.table[i].type = 34}
        base == IF own = {} THEN DiskSize ELSE m.table[Min(own)].offset
        tar  == SectorsOf(m.archive)
    IN  /\ disk = [s \in 0 .. DiskSize - 1 |->
                    IF s = 0 THEN [signature |-> m.table # <<>>, entries |-> m.table]
                    ELSE IF s - base + 1 \in DOMAIN tar THEN tar[s - base + 1] ELSE [data |-> <<1>>]]
        /\ stage = "scan" /\ blocks = block_register(<<>>, 0, "raw", 0, DiskSize) /\ fs = files
        /\ role = [r \in Roles |-> 0] /\ extractAt = 0 /\ appendAt = 0 /\ copying = NoCopy
        /\ given = [options |-> m.options, archive |-> m.archive, base |-> base, disk |-> disk, fs |-> files]
        /\ log = [acts |-> 0, appended |-> <<>>, extracted |-> FALSE, erased |-> FALSE]
StartUpInit == \E m \in Machines, files \in {<<>>, <<98>> :> <<1>>} : StartsWith(m, files)

StartUpNext ==
    \/ partition_scan \/ locate_block_devices
    \/ UnknownAction \/ fsutil_extract \/ ExtractHeader \/ ExtractSector
    \/ \E name \in {<<97>>, <<98>>} : fsutil_cat(name) \/ fsutil_rm(name) \/ fsutil_append(name)
    \/ AppendSector \/ AppendEnd

----------------------------------------------------------------------------
(* What the disk and the files are to hold. *)

\* Every device lies on the disk, and without extended partitions the devices
\* are the entries of the table that fit, in its order.
PartitionsRight ==
    LET table == given.disk[0].entries
        real  == SelectSeq(table, LAMBDA e : e.size # 0 /\ e.type # 0)
        fits  == {i \in DOMAIN real : real[i].offset + real[i].size <= DiskSize}
    IN  /\ \A b \in Range(blocks) : b.start + b.size <= DiskSize
        /\ (stage # "scan" /\ \A e \in Range(real) : e.type \notin EXTENDED) =>
             /\ {b.name : b \in Range(Tail(blocks))} = fits
             /\ \A k \in 2 .. Len(blocks) : LET e == real[blocks[k].name] IN
                  /\ blocks[k].start = e.offset /\ blocks[k].size = e.size /\ blocks[k].type = BlockType(e.type)
                  /\ k > 2 => blocks[k].name > blocks[k - 1].name

\* The files of the archive that starts at a sector of the scratch device.
RECURSIVE ReadFrom(_, _)
ReadFrom(sector, end) ==
    LET h == ParseSector(block_read(scratch, sector))
        n == (h.size + BLOCK_SECTOR_SIZE - 1) \div BLOCK_SECTOR_SIZE
    IN  IF sector >= end THEN <<>>
        ELSE IF h.error \/ h.type = USTAR_EOF THEN <<"unreadable">>
        ELSE <<[name |-> h.file_name,
                data |-> SubSeq(FlattenSeq([k \in 1 .. n |-> BytesOf(block_read(scratch, sector + k))]), 1, h.size)]>>
             \o ReadFrom(sector + 1 + n, end)
AppendedRight ==
    (stage = "ready" /\ appendAt > 0 /\ ~log.erased) => ReadFrom(0, appendAt) = log.appended

\* The first action of all: the files of the archive join those on the disk.
ExtractedRight ==
    (log.extracted /\ log.acts = 1 /\ blocks[scratch].start = given.base) =>
      LET files == SelectSeq(given.archive, LAMBDA f : f.type = USTAR_REGULAR)
          before == IF parse_options(given.options).format THEN <<>> ELSE given.fs
          Named(n) == {i \in DOMAIN files : strip_antisocial_prefixes(files[i].name) = n}
      IN  /\ DOMAIN fs = DOMAIN before \cup {strip_antisocial_prefixes(f.name) : f \in Range(files)}
          /\ \A n \in DOMAIN fs : fs[n] = IF n \in DOMAIN before THEN before[n] ELSE files[Min(Named(n))].data
          /\ \A s \in {0, 1} : block_read(scratch, s) = Zeros

\* No other partition is written to, and every access is counted twice.
OthersUntouched ==
    /\ \A s \in DOMAIN disk : (disk[s] # given.disk[s]) =>
         scratch # 0 /\ s \in blocks[scratch].start .. blocks[scratch].start + blocks[scratch].size - 1
    /\ scratch \notin {0, 1} => blocks[1].write_cnt = blocks[scratch].write_cnt

(***************************************************************************)
(* No partition reaches past the disk, whatever its table says; each role  *)
(* is played on its own sectors; what extract finds in an archive is in    *)
(* the file system afterwards, and what append writes, file after file,    *)
(* is read back from the scratch device (partition.c:161, block.c:105,     *)
(* fsutil.c:60, 142).                                                      *)
(***************************************************************************)
StartUpRight == PartitionsRight /\ AppendedRight /\ ExtractedRight /\ OthersUntouched
=============================================================================
