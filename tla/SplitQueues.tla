---------------------------- MODULE SplitQueues -----------------------------
(***************************************************************************)
(* The input of an MRLite job (com.neu.io): a file is cut into one split   *)
(* per mapper at line ends (FileSplitBuffer), a reader thread per split    *)
(* keeps a queue of lines filled between two thresholds and ends it with a *)
(* poison pill (SplitQueueReader), and the server takes blocks of lines    *)
(* from it for a mapper (SplitQueue, IOServer).                            *)
(*                                                                         *)
(* A file is the sequence of its lines' lengths in bytes; a line is its    *)
(* number.                                                                 *)
(***************************************************************************)
EXTENDS Integers, FiniteSets, SequencesExt

CONSTANTS
    File,                    \* lengths of the lines of the input
    lines_per_block,
    lazy_buffer_min_length,
    lazy_buffer_max_length

ASSUME SplitAssumption ==
    /\ File \in Seq(Nat \ {0}) /\ lines_per_block \in Nat \ {0}
    /\ lazy_buffer_min_length \in Nat \ {0}
    /\ lazy_buffer_max_length >= lazy_buffer_min_length

VARIABLE splits   \* of FileSplitServer: a queue per split, <<>> before it starts

POISON_PILL == 0

\* Byte offset of the end of the first n lines.
EndOf[n \in 0 .. Len(File)] == IF n = 0 THEN 0 ELSE EndOf[n - 1] + File[n]
FileLength == EndOf[Len(File)]

\* Where readLine leaves the file pointer.
AfterLine(pos) ==
    IF pos >= FileLength THEN pos
    ELSE EndOf[CHOOSE n \in 1 .. Len(File) : EndOf[n] > pos /\ EndOf[n - 1] <= pos]

\* Split 1 starts at 0, split i at the first line end after its even share.
initializeOffsets(n) ==
    [i \in 1 .. n |-> IF i = 1 THEN 0 ELSE AfterLine((i - 1) * (FileLength \div n))]

\* A split: the file pointer and the end of its reader, which is in its loop,
\* in fillQueue, or done; the queue; the lines of the block under way; whether
\* the pill was taken; and (history) the lines that reached the mapper.
SplitQueue(start, end) ==
    [pos |-> start, end |-> end, start |-> start, at |-> "loop", queue |-> <<>>,
     block |-> <<>>, empty |-> FALSE, read |-> <<>>]

initializeBuffer(n) ==
    LET offsets == initializeOffsets(n)
    IN  [i \in 1 .. n |-> SplitQueue(offsets[i],
                            IF i = n THEN FileLength ELSE offsets[i + 1])]

LineAt(pos) == CHOOSE n \in 1 .. Len(File) : EndOf[n - 1] = pos

----------------------------------------------------------------------------
(* SplitQueueReader.run, one turn of a loop per step. *)

\* Mutant: the pill is put as soon as the queue is full enough.
MutantReaderLoop(i) ==
    LET s == splits[i] IN
    /\ s.at = "loop"
    /\ \/ /\ s.pos >= s.end \/ Len(s.queue) >= lazy_buffer_max_length
          /\ splits' = [splits EXCEPT ![i].queue = Append(@, POISON_PILL), ![i].at = "done"]
       \/ /\ s.pos < s.end /\ Len(s.queue) < lazy_buffer_min_length
          /\ splits' = [splits EXCEPT ![i].at = "fill"]

ReaderLoop(i) ==
    LET s == splits[i] IN
    /\ s.at = "loop"
    /\ \/ /\ s.pos >= s.end
          /\ splits' = [splits EXCEPT ![i].queue = Append(@, POISON_PILL), ![i].at = "done"]
       \/ /\ s.pos < s.end /\ Len(s.queue) < lazy_buffer_min_length
          /\ splits' = [splits EXCEPT ![i].at = "fill"]

fillQueue(i) ==
    LET s == splits[i] IN
    /\ s.at = "fill"
    /\ \/ /\ Len(s.queue) < lazy_buffer_max_length /\ s.pos < s.end
          /\ splits' = [splits EXCEPT ![i].queue = Append(@, LineAt(s.pos)),
                                      ![i].pos = AfterLine(@)]
       \/ /\ ~(Len(s.queue) < lazy_buffer_max_length /\ s.pos < s.end)
          /\ splits' = [splits EXCEPT ![i].at = "loop"]

\* An IOException ends the thread without a pill.
ReaderFails(i) ==
    /\ splits[i].at \in {"loop", "fill"} /\ splits[i].pos < splits[i].end
    /\ splits' = [splits EXCEPT ![i].at = "failed"]

----------------------------------------------------------------------------
(* SplitQueue.readBlock for the mapper of split i: a line or the pill is     *)
(* taken; a block goes to the mapper when it is full or ended by the pill,   *)
(* and its missing lines are the nulls that end the mapper's loop.           *)

TakeLine(i) ==
    LET s    == splits[i]
        full == Append(s.block, Head(s.queue))
    IN  /\ s.queue # <<>> /\ ~s.empty
        /\ \/ /\ Head(s.queue) = POISON_PILL
              /\ splits' = [splits EXCEPT ![i].queue = Tail(@), ![i].empty = TRUE,
                                          ![i].read = @ \o s.block, ![i].block = <<>>]
           \/ /\ Head(s.queue) # POISON_PILL /\ Len(full) = lines_per_block
              /\ splits' = [splits EXCEPT ![i].queue = Tail(@),
                                          ![i].read = @ \o full, ![i].block = <<>>]
           \/ /\ Head(s.queue) # POISON_PILL /\ Len(full) < lines_per_block
              /\ splits' = [splits EXCEPT ![i].queue = Tail(@), ![i].block = full]

----------------------------------------------------------------------------
\* The lines that begin before an offset, and those that begin between two.
LinesBefore(x)     == Cardinality({n \in DOMAIN File : EndOf[n - 1] < x})
LinesBetween(a, b) == [k \in 1 .. LinesBefore(b) - LinesBefore(a) |-> LinesBefore(a) + k]

\* Every line of the file is in exactly one split, the splits are in the order
\* of the file, and a line reaches its split's mapper once and in order: what
\* the reader has passed has been read, or is in the block under way or in the
\* queue, and the pill comes after the last line and only there, not at all if
\* the reader failed.
LinesOnce ==
    LET Lines(i) == Range(LinesBetween(splits[i].start, splits[i].end)) IN
    /\ splits # <<>> => UNION {Lines(i) : i \in DOMAIN splits} = DOMAIN File
    /\ \A i, j \in DOMAIN splits : i < j => \A m \in Lines(i), n \in Lines(j) : m < n
    /\ \A i \in DOMAIN splits :
         LET s == splits[i]
             pill == IF s.at = "done" /\ ~s.empty THEN <<POISON_PILL>> ELSE <<>>
         IN  /\ s.read \o s.block \o s.queue = LinesBetween(s.start, s.pos) \o pill
             /\ s.empty => s.read = LinesBetween(s.start, s.end)
=============================================================================
