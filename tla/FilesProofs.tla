---------------------------- MODULE FilesProofs -----------------------------
(***************************************************************************)
(* Proofs about the Pintos file system and the descriptors of processes:   *)
(* CrashSafe, SectorsAccounted, OpenCounts, ReadsRight and                 *)
(* ExecutableUnchanged hold for every device, block size and number of     *)
(* processes, names and crashes.                                           *)
(*                                                                         *)
(* The inductive invariant FInv says that the disk as the kernel sees it,  *)
(* the platter and every image still on its way to it are sound (a machine *)
(* can boot from them), that the kernel's inodes agree with the disk and   *)
(* the free map accounts for every sector, and that the counters of each   *)
(* inode count the descriptors and running programs that use it.           *)
(* FilesRight adds what each file contains.                                *)
(***************************************************************************)
EXTENDS Files, FiniteSetTheorems, SequenceTheorems, FunctionTheorems, WellFoundedInduction, TLAPS

----------------------------------------------------------------------------
(* Numbers. *)

\* A set of naturals has a least element: induction by least counterexample.
LEMMA LeastElement == ASSUME NEW T, T \subseteq Nat, T # {} PROVE \E m \in T : \A n \in T : m <= n
<1>1. PICK m \in T : \A n \in T : ~(<<n, m>> \in OpToRel(<, Nat))
  BY NatLessThanWellFounded, WFMin
<1>2. \A n \in T : ~(n < m)
  BY <1>1 DEF OpToRel
<1> QED BY <1>2

\* The device and its sectors.
LEMMA Sizing == /\ NSectors \in Nat /\ NSectors >= 4 /\ NSlots \in Nat /\ NSlots > 0
                /\ SECTOR_SIZE \in Nat /\ SECTOR_SIZE > 0
                /\ Sector \subseteq Nat /\ System \subseteq Sector /\ System = 0 .. 3
BY FilesAssumption DEF Sector, System, FREE_MAP_SECTOR, ROOT_DIR_SECTOR

\* A length takes as many sectors as its bytes need.
LEMMA Rounding ==
  ASSUME NEW length \in Nat
  PROVE  /\ bytes_to_sectors(length) \in Nat
         /\ \A pos \in Nat : pos < length => /\ pos \div SECTOR_SIZE \in Nat
                                              /\ pos \div SECTOR_SIZE < bytes_to_sectors(length)
<1> DEFINE n == length + SECTOR_SIZE - 1
<1>1. n \in Nat /\ n \div SECTOR_SIZE \in Int /\ n % SECTOR_SIZE \in 0 .. SECTOR_SIZE - 1
      /\ n = SECTOR_SIZE * (n \div SECTOR_SIZE) + (n % SECTOR_SIZE)
  BY Sizing
<1>2. n \div SECTOR_SIZE \in Nat
  BY <1>1, Sizing
<1>3. ASSUME NEW pos \in Nat, pos < length
      PROVE  pos \div SECTOR_SIZE \in Nat /\ pos \div SECTOR_SIZE < n \div SECTOR_SIZE
  <2> DEFINE q == pos \div SECTOR_SIZE
  <2>1. q \in Int /\ pos % SECTOR_SIZE \in 0 .. SECTOR_SIZE - 1
        /\ pos = SECTOR_SIZE * q + (pos % SECTOR_SIZE)
    BY Sizing
  <2>2. q \in Nat
    BY <2>1, Sizing
  <2>3. SECTOR_SIZE * q + SECTOR_SIZE <= n
    BY <2>1, <1>3, Sizing
  <2>4. q + 1 <= n \div SECTOR_SIZE
    <3> DEFINE m == n \div SECTOR_SIZE
    <3>1. SECTOR_SIZE * (q + 1) < SECTOR_SIZE * (m + 1)
      BY <2>2, <2>3, <1>1, Sizing
    <3> HIDE DEF m, q, n
    <3>2. q \in Int /\ m \in Int /\ SECTOR_SIZE \in Int /\ SECTOR_SIZE > 0
      BY <2>2, <1>1, Sizing DEF m
    <3> QED BY <3>1, <3>2 DEF m
  <2> QED BY <2>2, <2>4, <1>1
<1> QED BY <1>2, <1>3 DEF bytes_to_sectors

----------------------------------------------------------------------------
(* Types. *)

Image  == [marked : SUBSET Sector, dir : [1 .. NSlots -> Entry \cup {None}],
           inode : [Sector -> Inode \cup {None}], data : [Sector -> [1 .. SECTOR_SIZE -> Nat]]]
OpenInode == [open_cnt : Nat, removed : BOOLEAN, deny_write_cnt : Int, data : Inode]
OpenInodes == UNION {[S -> OpenInode] : S \in SUBSET Sector}
FileSystem == [disk : Image, hist : Seq(Image), free_map : SUBSET Sector, inodes : OpenInodes]
Chunk == [sector : Sector, ofs : Nat, len : Nat, done : Nat]

\* The fields of a file system.
LEMMA SystemType ==
  ASSUME NEW f \in FileSystem
  PROVE  /\ f.disk \in Image /\ f.hist \in Seq(Image) /\ f.free_map \in SUBSET Sector
         /\ f = [disk |-> f.disk, hist |-> f.hist, free_map |-> f.free_map, inodes |-> f.inodes]
         /\ DOMAIN f.inodes \subseteq Sector /\ f.inodes \in [DOMAIN f.inodes -> OpenInode]
BY DEF FileSystem, OpenInodes

----------------------------------------------------------------------------
(* Writing. *)

\* Chunks that lie in what is written.
ChunksIn(cs, buffer) ==
    /\ cs \in Seq(Chunk) /\ buffer \in Seq(Nat)
    /\ \A k \in DOMAIN cs : cs[k].done + cs[k].len <= Len(buffer)

\* Image d is e but for the sectors S, which hold data.
SameBut(d, e, S) ==
    /\ d \in Image /\ d.marked = e.marked /\ d.dir = e.dir
    /\ \A t \in Sector \ S : d.inode[t] = e.inode[t] /\ d.data[t] = e.data[t]

\* g is f after writes to the sectors S, oldest image first.
Wrote(f, g, S) ==
    /\ g \in FileSystem /\ g.free_map = f.free_map /\ g.inodes = f.inodes
    /\ SameBut(g.disk, f.disk, S)
    /\ Len(f.hist) <= Len(g.hist)
    /\ \A k \in 1 .. Len(f.hist) : g.hist[k] = f.hist[k]
    /\ \A k \in Len(f.hist) + 1 .. Len(g.hist) : SameBut(g.hist[k], f.disk, S)
    /\ Len(f.hist) < Len(g.hist) => g.hist[Len(g.hist)] = g.disk
    /\ Len(f.hist) = Len(g.hist) => g.disk = f.disk

\* What block_write does.
LEMMA BlockWritten ==
  ASSUME NEW f \in FileSystem, NEW d \in Image
  PROVE  /\ block_write(f, d) \in FileSystem
         /\ block_write(f, d).disk = d /\ block_write(f, d).hist = Append(f.hist, d)
         /\ block_write(f, d).free_map = f.free_map /\ block_write(f, d).inodes = f.inodes
         /\ Len(block_write(f, d).hist) = Len(f.hist) + 1
         /\ \A k \in 1 .. Len(f.hist) : block_write(f, d).hist[k] = f.hist[k]
         /\ block_write(f, d).hist[Len(f.hist) + 1] = d
<1> DEFINE g == [f EXCEPT !.disk = d, !.hist = Append(@, d)]
<1>1. f.hist \in Seq(Image) /\ Append(f.hist, d) \in Seq(Image)
  BY DEF FileSystem
<1>2. g.disk = d /\ g.hist = Append(f.hist, d) /\ g.free_map = f.free_map /\ g.inodes = f.inodes
  BY DEF FileSystem
<1>3. g \in FileSystem
  BY <1>1 DEF FileSystem
<1>4. /\ Len(Append(f.hist, d)) = Len(f.hist) + 1
      /\ \A k \in 1 .. Len(f.hist) : Append(f.hist, d)[k] = f.hist[k]
      /\ Append(f.hist, d)[Len(f.hist) + 1] = d
  BY <1>1
<1>5. block_write(f, d) = g
  BY DEF block_write
<1> HIDE DEF g
<1> QED BY <1>2, <1>3, <1>4, <1>5

\* One chunk.
LEMMA ChunkWritten ==
  ASSUME NEW f, NEW g, NEW S, Wrote(f, g, S), NEW buffer \in Seq(Nat),
         NEW c \in Chunk, c.sector \in S, c.done + c.len <= Len(buffer), f.hist \in Seq(Image)
  PROVE  Wrote(f, WriteChunk(g, c, buffer), S)
<1> DEFINE bytes == [k \in 1 .. SECTOR_SIZE |->
                       IF k \in c.ofs + 1 .. c.ofs + c.len THEN buffer[c.done + k - c.ofs]
                                                           ELSE g.disk.data[c.sector][k]]
           d == [g.disk EXCEPT !.inode[c.sector] = None,
                               !.data[c.sector] = [k \in 1 .. SECTOR_SIZE |->
                    IF k \in c.ofs + 1 .. c.ofs + c.len THEN buffer[c.done + k - c.ofs] ELSE @[k]]]
<1>1. g \in FileSystem /\ g.disk \in Image /\ c.sector \in Sector /\ g.hist \in Seq(Image)
  BY DEF Wrote, FileSystem, Chunk
<1>2. bytes \in [1 .. SECTOR_SIZE -> Nat]
  <2> SUFFICES ASSUME NEW k \in 1 .. SECTOR_SIZE PROVE bytes[k] \in Nat
    OBVIOUS
  <2>1. CASE k \in c.ofs + 1 .. c.ofs + c.len
    <3>1. c.done \in Nat /\ c.len \in Nat /\ c.ofs \in Nat /\ Len(buffer) \in Nat /\ k \in Nat
      BY Sizing DEF Chunk
    <3>2. c.done + k - c.ofs \in 1 .. Len(buffer)
      BY <2>1, <3>1, SMTT(40)
    <3> QED BY <2>1, <3>2
  <2>2. CASE k \notin c.ofs + 1 .. c.ofs + c.len
    <3>1. g.disk.data \in [Sector -> [1 .. SECTOR_SIZE -> Nat]]
      BY <1>1 DEF Image
    <3>2. bytes[k] = g.disk.data[c.sector][k]
      BY <2>2
    <3> QED BY <3>1, <3>2, <1>1
  <2> QED BY <2>1, <2>2
<1>3. WriteChunk(g, c, buffer) = block_write(g, d)
  BY DEF WriteChunk
<1>4. d \in Image /\ SameBut(d, f.disk, S)
  <2> DEFINE e == [g.disk EXCEPT !.inode[c.sector] = None, !.data[c.sector] = bytes]
  <2>1. d = e
    OBVIOUS
  <2> HIDE DEF bytes, d
  <2>2. e \in Image
    BY <1>1, <1>2 DEF Image
  <2>3. /\ e.marked = g.disk.marked /\ e.dir = g.disk.dir
        /\ \A t \in Sector \ S : e.inode[t] = g.disk.inode[t] /\ e.data[t] = g.disk.data[t]
    BY <1>1 DEF Image
  <2> HIDE DEF e
  <2> QED BY <2>1, <2>2, <2>3 DEF Wrote, SameBut
<1> HIDE DEF d
<1>5. /\ block_write(g, d) \in FileSystem /\ block_write(g, d).disk = d
      /\ block_write(g, d).free_map = g.free_map /\ block_write(g, d).inodes = g.inodes
      /\ Len(block_write(g, d).hist) = Len(g.hist) + 1
      /\ \A k \in 1 .. Len(g.hist) : block_write(g, d).hist[k] = g.hist[k]
      /\ block_write(g, d).hist[Len(g.hist) + 1] = d
  BY <1>1, <1>4, BlockWritten
<1>6. Len(f.hist) \in Nat /\ Len(g.hist) \in Nat
  BY <1>1
<1> DEFINE h == block_write(g, d)
<1>7. h = WriteChunk(g, c, buffer)
  BY <1>3
<1> HIDE DEF d, h
<1>8. /\ Len(f.hist) < Len(h.hist) /\ h.hist[Len(h.hist)] = h.disk
      /\ \A k \in 1 .. Len(f.hist) : h.hist[k] = f.hist[k]
  BY <1>5, <1>6 DEF Wrote, h
<1>9. ASSUME NEW k \in Len(f.hist) + 1 .. Len(h.hist) PROVE SameBut(h.hist[k], f.disk, S)
  <2>1. CASE k = Len(g.hist) + 1
    BY <2>1, <1>4, <1>5 DEF h
  <2>2. CASE k # Len(g.hist) + 1
    <3>1. k \in Len(f.hist) + 1 .. Len(g.hist) /\ h.hist[k] = g.hist[k]
      BY <2>2, <1>5, <1>6 DEF Wrote, h
    <3> QED BY <3>1 DEF Wrote
  <2> QED BY <2>1, <2>2
<1>10. h \in FileSystem /\ h.free_map = f.free_map /\ h.inodes = f.inodes /\ SameBut(h.disk, f.disk, S)
  BY <1>4, <1>5 DEF Wrote, h
<1> QED BY <1>7, <1>8, <1>9, <1>10 DEF Wrote

\* The loop over the chunks goes through the file systems W, by least
\* counterexample.
LEMMA WriteSteps ==
  ASSUME NEW f, NEW cs, NEW buffer, Len(cs) \in Nat
  PROVE  \E W : /\ W[0] = f /\ WriteAll(f, cs, buffer) = W[Len(cs)]
               /\ \A k \in 1 .. Len(cs) : W[k] = WriteChunk(W[k - 1], cs[k], buffer)
<1> DEFINE Loop(m, g) == g = [k \in 0 .. m |-> IF k = 0 THEN f ELSE WriteChunk(g[k - 1], cs[k], buffer)]
           HasLoop(m) == \E g : Loop(m, g)
           NoLoop == {m \in 0 .. Len(cs) : ~HasLoop(m)}
<1>0. Len(cs) \in Nat
  OBVIOUS
<1>1. NoLoop = {}
  <2> SUFFICES ASSUME NoLoop # {} PROVE FALSE
    OBVIOUS
  <2>1. PICK m \in NoLoop : \A n \in NoLoop : m <= n
    <3>1. NoLoop \subseteq Nat
      BY <1>0
    <3> QED BY <3>1, LeastElement
  <2>2. m \in 0 .. Len(cs)
    BY <2>1
  <2>3. CASE m = 0
    <3>1. Loop(0, [k \in 0 .. 0 |-> f])
      OBVIOUS
    <3> QED BY <2>1, <2>3, <3>1
  <2>4. CASE m # 0
    <3>1. m - 1 \in 0 .. Len(cs) /\ HasLoop(m - 1)
      <4> HIDE DEF HasLoop
      <4> QED BY <2>1, <2>2, <2>4, <1>0
    <3>2. PICK g : Loop(m - 1, g)
      BY <3>1
    <3> DEFINE h == [k \in 0 .. m |-> IF k = m THEN WriteChunk(g[m - 1], cs[m], buffer) ELSE g[k]]
    <3>3. \A k \in 0 .. m : h[k] = IF k = 0 THEN f ELSE WriteChunk(h[k - 1], cs[k], buffer)
      <4> SUFFICES ASSUME NEW k \in 0 .. m
                   PROVE  h[k] = IF k = 0 THEN f ELSE WriteChunk(h[k - 1], cs[k], buffer)
        OBVIOUS
      <4>1. CASE k = m
        <5>1. h[k] = WriteChunk(g[m - 1], cs[m], buffer) /\ k - 1 \in 0 .. m /\ k - 1 # m
          BY <4>1, <2>2, <2>4, <1>0
        <5>2. h[k - 1] = g[m - 1]
          BY <5>1, <4>1
        <5> QED BY <5>1, <5>2, <4>1, <2>4
      <4>2. CASE k # m
        <5>1. k \in 0 .. m - 1
          BY <4>2, <2>2, <1>0
        <5>2. g[k] = IF k = 0 THEN f ELSE WriteChunk(g[k - 1], cs[k], buffer)
          BY <5>1, <3>2
        <5>3. h[k] = g[k] /\ (k # 0 => h[k - 1] = g[k - 1])
          BY <5>1, <2>2, <1>0
        <5> QED BY <5>2, <5>3
      <4> QED BY <4>1, <4>2
    <3>4. Loop(m, h)
      BY <3>3
    <3> HIDE DEF h
    <3> QED BY <3>4, <2>1
  <2> QED BY <2>3, <2>4
<1>2. \E g : Loop(Len(cs), g)
  BY <1>1, <1>0
<1> DEFINE W == CHOOSE g : Loop(Len(cs), g)
<1>3. Loop(Len(cs), W)
  BY <1>2
<1>4. WriteAll(f, cs, buffer) = W[Len(cs)]
  BY DEF WriteAll
<1> HIDE DEF W
<1>5. \A k \in 0 .. Len(cs) : W[k] = IF k = 0 THEN f ELSE WriteChunk(W[k - 1], cs[k], buffer)
  BY <1>3
<1>6. W[0] = f /\ \A k \in 1 .. Len(cs) : W[k] = WriteChunk(W[k - 1], cs[k], buffer)
  BY <1>5, <1>0
<1> QED BY <1>4, <1>6

\* The file systems W that WriteAll goes through, each one a write to S.
Trail(W, f, cs, buffer, S) ==
    /\ W[0] = f /\ WriteAll(f, cs, buffer) = W[Len(cs)]
    /\ \A k \in 1 .. Len(cs) : W[k] = WriteChunk(W[k - 1], cs[k], buffer)
    /\ \A k \in 0 .. Len(cs) : Wrote(f, W[k], S)

\* There are such.
LEMMA StepsWritten ==
  ASSUME NEW f \in FileSystem, NEW cs, NEW buffer, ChunksIn(cs, buffer),
         NEW S, \A k \in DOMAIN cs : cs[k].sector \in S
  PROVE  \E W : Trail(W, f, cs, buffer, S)
<1>0. Len(cs) \in Nat /\ DOMAIN cs = 1 .. Len(cs)
  BY DEF ChunksIn
<1>4. PICK W : /\ W[0] = f /\ WriteAll(f, cs, buffer) = W[Len(cs)]
               /\ \A k \in 1 .. Len(cs) : W[k] = WriteChunk(W[k - 1], cs[k], buffer)
  BY <1>0, WriteSteps
<1>5. W[0] = f /\ \A k \in 1 .. Len(cs) : W[k] = WriteChunk(W[k - 1], cs[k], buffer)
  BY <1>4
<1> DEFINE Bad == {k \in 0 .. Len(cs) : ~Wrote(f, W[k], S)}
<1>6. Bad = {}
  <2> SUFFICES ASSUME Bad # {} PROVE FALSE
    OBVIOUS
  <2>1. PICK k \in Bad : \A n \in Bad : k <= n
    <3>1. Bad \subseteq Nat
      BY <1>0
    <3> QED BY <3>1, LeastElement
  <2>2. k \in 0 .. Len(cs) /\ ~Wrote(f, W[k], S) /\ f.hist \in Seq(Image)
    BY <2>1, SystemType
  <2>3. CASE k = 0
    <3>1. W[0] = f
      BY <1>5
    <3>2. Wrote(f, f, S)
      <4>1. f.disk \in Image /\ f.hist \in Seq(Image)
        BY SystemType
      <4>2. Len(f.hist) \in Nat
        BY <4>1
      <4> QED BY <4>1, <4>2, SMTT(40) DEF Wrote, SameBut
    <3> QED BY <2>2, <2>3, <3>1, <3>2
  <2>4. CASE k # 0
    <3>1. k - 1 \in 0 .. Len(cs) /\ k \in DOMAIN cs /\ k - 1 \notin Bad
      BY <2>1, <2>2, <2>4, <1>0
    <3>2. Wrote(f, W[k - 1], S)
      BY <3>1
    <3>3. /\ cs[k] \in Chunk /\ cs[k].sector \in S /\ cs[k].done + cs[k].len <= Len(buffer)
          /\ buffer \in Seq(Nat)
      BY <3>1 DEF ChunksIn
    <3>4. W[k] = WriteChunk(W[k - 1], cs[k], buffer)
      BY <1>5, <3>1, <1>0
    <3> QED BY <2>2, <3>2, <3>3, <3>4, ChunkWritten
  <2> QED BY <2>3, <2>4
<1>7. \A k \in 0 .. Len(cs) : Wrote(f, W[k], S)
  BY <1>6
<1> HIDE DEF Bad
<1> QED BY <1>4, <1>7 DEF Trail

\* All chunks.
LEMMA AllWritten ==
  ASSUME NEW f \in FileSystem, NEW cs, NEW buffer, ChunksIn(cs, buffer),
         NEW S, \A k \in DOMAIN cs : cs[k].sector \in S
  PROVE  Wrote(f, WriteAll(f, cs, buffer), S)
<1>1. Len(cs) \in Nat
  BY DEF ChunksIn
<1>2. PICK W : Trail(W, f, cs, buffer, S)
  BY StepsWritten
<1> QED BY <1>1, <1>2 DEF Trail

\* The bytes of one chunk.
ChunkByte(c, buffer, old, k) ==
    IF k \in c.ofs + 1 .. c.ofs + c.len THEN buffer[c.done + k - c.ofs] ELSE old[k]
ChunkBytes(c, buffer, old) == [k \in 1 .. SECTOR_SIZE |-> ChunkByte(c, buffer, old, k)]

\* They are what changes in the data.
LEMMA ChunkData ==
  ASSUME NEW g \in FileSystem, NEW c \in Chunk, NEW buffer
  PROVE  /\ WriteChunk(g, c, buffer).disk.data[c.sector] = ChunkBytes(c, buffer, g.disk.data[c.sector])
         /\ \A t \in Sector \ {c.sector} : WriteChunk(g, c, buffer).disk.data[t] = g.disk.data[t]
<1> DEFINE bytes == ChunkBytes(c, buffer, g.disk.data[c.sector])
           d == [g.disk EXCEPT !.inode[c.sector] = None, !.data[c.sector] = bytes]
<1>1. g.disk \in Image /\ c.sector \in Sector
  BY SystemType DEF Chunk
<1>2. WriteChunk(g, c, buffer) = block_write(g, d)
  BY DEF WriteChunk, ChunkBytes, ChunkByte
<1> HIDE DEF bytes, d
<1>3. WriteChunk(g, c, buffer).disk = d
  BY <1>2 DEF block_write
<1>4. d.data[c.sector] = bytes /\ \A t \in Sector \ {c.sector} : d.data[t] = g.disk.data[t]
  BY <1>1 DEF Image, d
<1> QED BY <1>3, <1>4 DEF bytes
----------------------------------------------------------------------------
(* The pieces of a read or a write. *)

\* A piece lies in one sector of the inode, within the file and the request.
Piece(c, i, size, offset) ==
    /\ c \in [sector : Nat, ofs : Nat, len : Nat, done : Nat]
    /\ c.sector = i.start + (offset + c.done) \div SECTOR_SIZE
    /\ c.ofs = (offset + c.done) % SECTOR_SIZE
    /\ c.len > 0 /\ c.ofs + c.len <= SECTOR_SIZE
    /\ c.done + c.len <= size /\ offset + c.done + c.len <= i.length

\* Pieces that begin where from is done, one where the other ends, up to the end
\* of the file or of the request.
PiecesFrom(q, from, i, size, offset) ==
    /\ q \in Seq([sector : Nat, ofs : Nat, len : Nat, done : Nat])
    /\ \A k \in 1 .. Len(q) : Piece(q[k], i, size, offset)
    /\ q # <<>> => q[1].done = from
    /\ \A k \in 1 .. Len(q) - 1 : q[k + 1].done = q[k].done + q[k].len
    /\ LET end == IF q = <<>> THEN from ELSE q[Len(q)].done + q[Len(q)].len
       IN  end = size \/ offset + end >= i.length

\* One piece before the rest.
LEMMA PiecePrepended ==
  ASSUME NEW c, NEW q, NEW i, NEW size, NEW offset, Piece(c, i, size, offset),
         PiecesFrom(q, c.done + c.len, i, size, offset)
  PROVE  PiecesFrom(<<c>> \o q, c.done, i, size, offset)
<1> DEFINE C == [sector : Nat, ofs : Nat, len : Nat, done : Nat]
           r == <<c>> \o q
<1>1. c \in C /\ q \in Seq(C)
  BY DEF Piece, PiecesFrom
<1> HIDE DEF C
<1>2. /\ r \in Seq(C) /\ Len(r) = Len(q) + 1 /\ r[1] = c /\ r # <<>> /\ Len(q) \in Nat
      /\ \A k \in 1 .. Len(q) : r[k + 1] = q[k]
  BY <1>1
<1> HIDE DEF r
<1>3. \A k \in 1 .. Len(r) : Piece(r[k], i, size, offset)
  <2> SUFFICES ASSUME NEW k \in 1 .. Len(r) PROVE Piece(r[k], i, size, offset)
    OBVIOUS
  <2>1. CASE k = 1
    BY <2>1, <1>2
  <2>2. CASE k # 1
    <3>1. k - 1 \in 1 .. Len(q) /\ r[(k - 1) + 1] = q[k - 1] /\ (k - 1) + 1 = k
      BY <2>2, <1>2
    <3> QED BY <3>1 DEF PiecesFrom
  <2> QED BY <2>1, <2>2
<1>4. \A k \in 1 .. Len(r) - 1 : r[k + 1].done = r[k].done + r[k].len
  <2> SUFFICES ASSUME NEW k \in 1 .. Len(r) - 1 PROVE r[k + 1].done = r[k].done + r[k].len
    OBVIOUS
  <2>0. k \in 1 .. Len(q) /\ r[k + 1] = q[k]
    BY <1>2
  <2>1. CASE k = 1
    <3>1. q # <<>>
      BY <2>0
    <3> QED BY <2>0, <2>1, <3>1, <1>2 DEF PiecesFrom
  <2>2. CASE k # 1
    <3>1. k - 1 \in 1 .. Len(q) - 1 /\ r[(k - 1) + 1] = q[k - 1] /\ (k - 1) + 1 = k
      BY <2>0, <2>2, <1>2
    <3>2. q[(k - 1) + 1].done = q[k - 1].done + q[k - 1].len
      BY <3>1 DEF PiecesFrom
    <3> QED BY <2>0, <3>1, <3>2
  <2> QED BY <2>1, <2>2
<1>5. LET end == r[Len(r)].done + r[Len(r)].len IN end = size \/ offset + end >= i.length
  <2>1. CASE q = <<>>
    BY <2>1, <1>2 DEF PiecesFrom
  <2>2. CASE q # <<>>
    <3>1. Len(q) \in 1 .. Len(q) /\ r[Len(r)] = q[Len(q)]
      BY <2>2, <1>1, <1>2
    <3> QED BY <2>2, <3>1 DEF PiecesFrom
  <2> QED BY <2>1, <2>2
<1>6. r \in Seq([sector : Nat, ofs : Nat, len : Nat, done : Nat])
  BY <1>2 DEF C
<1> QED BY <1>2, <1>3, <1>4, <1>5, <1>6 DEF PiecesFrom, r

\* The loop of inode_read_at and inode_write_at: Chunks are the pieces from the
\* beginning of the request.
LEMMA ChunksArePieces ==
  ASSUME NEW i \in Inode, NEW size \in Nat, NEW offset \in Nat
  PROVE  PiecesFrom(Chunks(i, size, offset), 0, i, size, offset)
<1> DEFINE pos(left) == offset + size - left
           len(left) == Lesser(left, Lesser(i.length - pos(left), SECTOR_SIZE - (pos(left) % SECTOR_SIZE)))
           piece(left) == [sector |-> byte_to_sector(i, pos(left)), ofs |-> pos(left) % SECTOR_SIZE,
                           len |-> len(left), done |-> size - left]
           Body(g, left) == IF left = 0 \/ len(left) <= 0 THEN <<>>
                            ELSE <<piece(left)>> \o g[left - len(left)]
           Loop(m, g) == g = [left \in 0 .. m |-> Body(g, left)]
           HasLoop(m) == \E g : Loop(m, g)
           NoLoop == {m \in 0 .. size : ~HasLoop(m)}
<1>1. \A left \in 0 .. size : /\ len(left) \in Int /\ pos(left) \in Nat
                              /\ len(left) <= left /\ len(left) <= i.length - pos(left)
                              /\ len(left) <= SECTOR_SIZE - (pos(left) % SECTOR_SIZE)
                              /\ \/ len(left) = left \/ len(left) = i.length - pos(left)
                                 \/ len(left) = SECTOR_SIZE - (pos(left) % SECTOR_SIZE)
                              /\ pos(left) % SECTOR_SIZE \in 0 .. SECTOR_SIZE - 1
  <2> SUFFICES ASSUME NEW left \in 0 .. size
               PROVE  /\ len(left) \in Int /\ pos(left) \in Nat
                      /\ len(left) <= left /\ len(left) <= i.length - pos(left)
                      /\ len(left) <= SECTOR_SIZE - (pos(left) % SECTOR_SIZE)
                      /\ \/ len(left) = left \/ len(left) = i.length - pos(left)
                         \/ len(left) = SECTOR_SIZE - (pos(left) % SECTOR_SIZE)
                      /\ pos(left) % SECTOR_SIZE \in 0 .. SECTOR_SIZE - 1
    OBVIOUS
  <2>1. pos(left) \in Nat /\ i.length \in Nat
    BY DEF Inode
  <2> DEFINE o == pos(left) % SECTOR_SIZE
  <2>2. o \in 0 .. SECTOR_SIZE - 1
    BY <2>1, Sizing
  <2> HIDE DEF pos, o
  <2> QED BY <2>1, <2>2, Sizing DEF Lesser, o
<1> HIDE DEF pos, len, piece
<1>2. NoLoop = {}
  <2> SUFFICES ASSUME NoLoop # {} PROVE FALSE
    OBVIOUS
  <2>1. PICK m \in NoLoop : \A n \in NoLoop : m <= n
    <3>1. NoLoop \subseteq Nat
      OBVIOUS
    <3> QED BY <3>1, LeastElement
  <2>2. m \in 0 .. size
    BY <2>1
  <2>3. CASE m = 0
    <3>1. Loop(0, [left \in 0 .. 0 |-> <<>>])
      OBVIOUS
    <3> QED BY <2>1, <2>3, <3>1
  <2>4. CASE m # 0
    <3>1. m - 1 \in 0 .. size /\ HasLoop(m - 1)
      <4> HIDE DEF HasLoop
      <4> QED BY <2>1, <2>2, <2>4
    <3>2. PICK g : Loop(m - 1, g)
      BY <3>1
    <3> DEFINE h == [left \in 0 .. m |-> IF left = m THEN Body(g, m) ELSE g[left]]
    <3>3. \A left \in 0 .. m : h[left] = Body(h, left)
      <4> SUFFICES ASSUME NEW left \in 0 .. m PROVE h[left] = Body(h, left)
        OBVIOUS
      <4>1. left # 0 /\ ~(len(left) <= 0) => left - len(left) \in 0 .. m - 1
        <5>1. left \in 0 .. size /\ m \in Nat
          BY <2>2
        <5>2. len(left) \in Int /\ len(left) <= left
          BY <5>1, <1>1
        <5> QED BY <5>1, <5>2
      <4>2. left # 0 /\ ~(len(left) <= 0) => h[left - len(left)] = g[left - len(left)]
        BY <4>1, <2>2
      <4>3. Body(h, left) = Body(g, left)
        BY <4>2
      <4>4. CASE left = m
        BY <4>3, <4>4
      <4>5. CASE left # m
        <5>1. left \in 0 .. m - 1
          BY <4>5, <2>2
        <5>2. g[left] = Body(g, left)
          <6> HIDE DEF Body
          <6> QED BY <5>1, <3>2
        <5>3. h[left] = g[left]
          BY <4>5
        <5> QED BY <5>2, <5>3, <4>3
      <4> QED BY <4>4, <4>5
    <3>4. Loop(m, h)
      <4> HIDE DEF Body
      <4> QED BY <3>3
    <3> HIDE DEF h
    <3> QED BY <3>4, <2>1
  <2> QED BY <2>3, <2>4
<1>3. \E g : Loop(size, g)
  <2>1. HasLoop(size)
    <3> HIDE DEF HasLoop
    <3> QED BY <1>2
  <2> QED BY <2>1
<1> DEFINE From == CHOOSE g : Loop(size, g)
<1>4. Loop(size, From)
  BY <1>3
<1>5. Chunks(i, size, offset) = From[size]
  BY DEF Chunks, pos, len, piece
<1> HIDE DEF From
<1>6. \A left \in 0 .. size : From[left] = Body(From, left)
  <2> HIDE DEF Body
  <2> QED BY <1>4
<1> DEFINE Good(left) == PiecesFrom(From[left], size - left, i, size, offset)
           Bad == {left \in 0 .. size : ~Good(left)}
<1>7. Bad = {}
  <2> SUFFICES ASSUME Bad # {} PROVE FALSE
    OBVIOUS
  <2>1. PICK left \in Bad : \A n \in Bad : left <= n
    <3>1. Bad \subseteq Nat
      OBVIOUS
    <3> QED BY <3>1, LeastElement
  <2>2. left \in 0 .. size /\ ~Good(left)
    BY <2>1
  <2> HIDE DEF Good
  <2>3. CASE left = 0 \/ len(left) <= 0
    <3>1. From[left] = <<>>
      BY <2>2, <2>3, <1>6
    <3>2. size - left = size \/ offset + (size - left) >= i.length
      <4>1. CASE left = 0
        BY <4>1
      <4>2. CASE left # 0
        <5>1. len(left) <= 0 /\ i.length \in Nat
          BY <2>3, <4>2 DEF Inode
        <5>2. len(left) = i.length - pos(left)
          <6> DEFINE o == pos(left) % SECTOR_SIZE
          <6>1. /\ len(left) \in Int /\ o \in 0 .. SECTOR_SIZE - 1
                /\ \/ len(left) = left \/ len(left) = i.length - pos(left)
                   \/ len(left) = SECTOR_SIZE - o
            BY <1>1, <2>2
          <6> HIDE DEF o
          <6>2. SECTOR_SIZE - o > 0 /\ left > 0
            BY <6>1, <2>2, <4>2, Sizing
          <6> QED BY <5>1, <6>1, <6>2
        <5> QED BY <5>1, <5>2, <2>2 DEF pos
      <4> QED BY <4>1, <4>2
    <3>3. PiecesFrom(<<>>, size - left, i, size, offset)
      BY <3>2 DEF PiecesFrom
    <3> QED BY <2>2, <3>1, <3>3 DEF Good
  <2>4. CASE ~(left = 0 \/ len(left) <= 0)
    <3>1. len(left) \in Int /\ len(left) > 0 /\ left - len(left) \in 0 .. size /\ left - len(left) < left
      BY <2>2, <2>4, <1>1
    <3>2. Good(left - len(left))
      BY <3>1, <2>1, <2>2
    <3>3. piece(left).len = len(left) /\ piece(left).done = size - left
      BY DEF piece
    <3>4. Piece(piece(left), i, size, offset)
      <4>1. offset + (size - left) = pos(left) /\ pos(left) \in Nat /\ i.start \in Nat /\ i.length \in Nat
        BY <2>2 DEF pos, Inode
      <4>2. pos(left) \div SECTOR_SIZE \in Nat /\ pos(left) % SECTOR_SIZE \in Nat
        BY <4>1, Sizing
      <4>3. piece(left) \in [sector : Nat, ofs : Nat, len : Nat, done : Nat]
        BY <4>1, <4>2, <3>1, <2>2 DEF piece, byte_to_sector
      <4>4. len(left) <= i.length - pos(left) /\ len(left) <= SECTOR_SIZE - (pos(left) % SECTOR_SIZE)
            /\ len(left) <= left
        BY <1>1, <2>2
      <4>5. piece(left).sector = i.start + pos(left) \div SECTOR_SIZE /\ piece(left).ofs = pos(left) % SECTOR_SIZE
        BY DEF piece, byte_to_sector
      <4>6. /\ (pos(left) % SECTOR_SIZE) + len(left) <= SECTOR_SIZE
            /\ (size - left) + len(left) <= size /\ pos(left) + len(left) <= i.length
        BY <4>1, <4>2, <4>4, <3>1, <2>2, Sizing
      <4> QED BY <4>1, <4>3, <4>5, <4>6, <3>1, <3>3 DEF Piece
    <3>5. From[left] = <<piece(left)>> \o From[left - len(left)]
      BY <2>2, <2>4, <1>6
    <3>6. size - (left - len(left)) = piece(left).done + piece(left).len
      BY <3>1, <3>3, <2>2
    <3> QED BY <2>2, <3>2, <3>3, <3>4, <3>5, <3>6, PiecePrepended DEF Good
  <2> QED BY <2>3, <2>4
<1>8. Good(size)
  BY <1>7
<1> QED BY <1>5, <1>8

\* They lie in the sectors of the inode.
LEMMA ChunksInside ==
  ASSUME NEW i \in Inode, NEW size \in Nat, NEW offset \in Nat,
         Extent(i.start, bytes_to_sectors(i.length)) \subseteq Sector
  PROVE  /\ Chunks(i, size, offset) \in Seq(Chunk)
         /\ \A k \in DOMAIN Chunks(i, size, offset) :
              LET c == Chunks(i, size, offset)[k]
              IN  /\ c.sector \in Extent(i.start, bytes_to_sectors(i.length))
                  /\ c.done + c.len <= size
<1> DEFINE q == Chunks(i, size, offset)
           X == Extent(i.start, bytes_to_sectors(i.length))
<1>1. PiecesFrom(q, 0, i, size, offset)
  BY ChunksArePieces
<1> HIDE DEF q
<1>2. q \in Seq([sector : Nat, ofs : Nat, len : Nat, done : Nat]) /\ DOMAIN q = 1 .. Len(q) /\ Len(q) \in Nat
  BY <1>1 DEF PiecesFrom
<1>3. ASSUME NEW k \in 1 .. Len(q)
      PROVE  q[k].sector \in X /\ q[k].done + q[k].len <= size /\ q[k] \in Chunk
  <2>1. Piece(q[k], i, size, offset)
    BY <1>1 DEF PiecesFrom
  <2>2. i.start \in Nat /\ i.length \in Nat
    BY DEF Inode
  <2> DEFINE p == offset + q[k].done
  <2>3. p \in Nat /\ p < i.length
    BY <2>1, <2>2, SMTT(40) DEF Piece
  <2>4. p \div SECTOR_SIZE \in Nat /\ p \div SECTOR_SIZE < bytes_to_sectors(i.length) /\ bytes_to_sectors(i.length) \in Nat
    BY <2>2, <2>3, Rounding
  <2>5. q[k].sector = i.start + p \div SECTOR_SIZE
    BY <2>1 DEF Piece
  <2>6. q[k].sector \in X
    <3> DEFINE d == p \div SECTOR_SIZE
    <3> HIDE DEF d
    <3> QED BY <2>2, <2>4, <2>5 DEF Extent, d
  <2> QED BY <2>1, <2>6 DEF Piece, Chunk
<1>4. q \in Seq(Chunk)
  BY <1>2, <1>3
<1> QED BY <1>2, <1>3, <1>4 DEF q

----------------------------------------------------------------------------
(* The inductive invariant. *)

EntrySectors(d)  == {d.dir[i].sector : i \in Entries(d)}
SectorsOf(d, L)  == UNION {FileSectors(d.inode[s], s) : s \in L}
\* Inodes that have a name or are open.
Live(f) == DOMAIN f.inodes \cup EntrySectors(f.disk)

\* The inodes of L are written on image d, and no sector is used twice.
Apart(d, L) ==
    /\ L \subseteq Sector
    /\ \A s \in L : /\ d.inode[s] \in Inode
                    /\ FileSectors(d.inode[s], s) \subseteq Sector \ System
                    /\ s \notin Extent(d.inode[s].start, bytes_to_sectors(d.inode[s].length))
    /\ \A s, t \in L : s # t => FileSectors(d.inode[s], s) \cap FileSectors(d.inode[t], t) = {}

\* A machine can boot from image d.
Sound(d) ==
    /\ d \in Image
    /\ \A i, j \in Entries(d) :
         i # j => d.dir[i].name # d.dir[j].name /\ d.dir[i].sector # d.dir[j].sector
    /\ Apart(d, EntrySectors(d))
    /\ System \cup Named(d) \subseteq d.marked

\* Every image on its way to the disk is sound, and the last one is the newest;
\* when none is, the disk has it.
Log(f) == /\ \A k \in 1 .. Len(f.hist) : Sound(f.hist[k])
          /\ f.hist # <<>> => f.hist[Len(f.hist)] = f.disk
          /\ f.hist = <<>> => f.disk = platter

\* Open inodes are copies of those on the disk, and know whether they have a name.
Kept(f) == /\ Apart(f.disk, Live(f))
           /\ \A s \in DOMAIN f.inodes : /\ f.inodes[s].data = f.disk.inode[s]
                                         /\ f.inodes[s].removed <=> s \notin EntrySectors(f.disk)

\* The free map has the live sectors and those of lost.
Accounted(f, lost) ==
    /\ f.disk.marked = f.free_map
    /\ f.free_map = System \cup SectorsOf(f.disk, Live(f)) \cup lost
    /\ SectorsOf(f.disk, Live(f)) \cap lost = {}

Stable(f, lost) == /\ f \in FileSystem /\ Sound(f.disk) /\ Kept(f)
                   /\ Log(f) /\ Accounted(f, lost)

\* How often inode s is open, and denied for writing.
Opened(f, s) == IF IsOpen(f, s) THEN f.inodes[s].open_cnt ELSE 0
Denied(f, s) == IF IsOpen(f, s) THEN f.inodes[s].deny_write_cnt ELSE 0
Positive(f)  == \A s \in DOMAIN f.inodes : f.inodes[s].open_cnt > 0

\* Processes have inodes of the device open, at most MaxFd each.
Handles ==
    /\ files \in [Process -> Seq(File)] /\ exe \in [Process -> File \cup {None}]
    /\ thread_fd \in [Process -> Nat]
    /\ \A p \in Process :
         /\ Len(files[p]) + 2 <= thread_fd[p] /\ Len(files[p]) <= MaxFd
         /\ \A k \in 1 .. Len(files[p]) : files[p][k].sector \in Sector /\ ~files[p][k].deny_write
         /\ exe[p] # None => exe[p].sector \in Sector /\ exe[p].deny_write

\* The counters of an inode count the processes' files.
Counted ==
    /\ Positive(fs)
    /\ \A s \in Sector : /\ Opened(fs, s) = Cardinality(FilesOf(s)) + Cardinality(RunsOf(s))
                         /\ Denied(fs, s) = Cardinality(RunsOf(s))

FInv == Stable(fs, leaked) /\ Sound(platter) /\ Handles /\ Counted

----------------------------------------------------------------------------
(* Images. *)

\* An entry of the directory.
LEMMA EntryType ==
  ASSUME NEW d \in Image, NEW i \in Entries(d)
  PROVE  i \in 1 .. NSlots /\ d.dir[i] \in Entry /\ d.dir[i].sector \in EntrySectors(d) /\ d.dir[i] # None
BY DEF Image, Entries, EntrySectors

\* The sectors of the names.
LEMMA NamedSectors == ASSUME NEW d PROVE Named(d) = SectorsOf(d, EntrySectors(d))
BY DEF Named, SectorsOf, EntrySectors

\* Images that agree on the inodes L agree on their sectors.
LEMMA SectorsAgree ==
  ASSUME NEW d, NEW e, NEW L, \A s \in L : d.inode[s] = e.inode[s]
  PROVE  SectorsOf(d, L) = SectorsOf(e, L) /\ (Apart(e, L) => Apart(d, L))
<1>1. SectorsOf(d, L) = SectorsOf(e, L)
  BY DEF SectorsOf
<1>2. Apart(e, L) => Apart(d, L)
  BY DEF Apart
<1> QED BY <1>1, <1>2

\* Fewer inodes are apart as well.
LEMMA ApartFewer == ASSUME NEW d, NEW L, NEW M, Apart(d, L), M \subseteq L PROVE Apart(d, M)
BY DEF Apart

\* The sectors of some inodes that are apart from one.
LEMMA ApartFrom ==
  ASSUME NEW d, NEW L, NEW s \in L, Apart(d, L)
  PROVE  /\ SectorsOf(d, L \ {s}) \cap FileSectors(d.inode[s], s) = {}
         /\ SectorsOf(d, L) = SectorsOf(d, L \ {s}) \cup FileSectors(d.inode[s], s)
         /\ s \in FileSectors(d.inode[s], s) /\ s \notin SectorsOf(d, L \ {s})
         /\ SectorsOf(d, L) \subseteq Sector \ System
BY DEF Apart, SectorsOf, FileSectors

\* An image with the entries and inodes of a sound one is sound when its free map
\* still has their sectors.
LEMMA SoundUnder ==
  ASSUME NEW e, NEW d \in Image, Sound(e), d.dir = e.dir,
         \A s \in EntrySectors(e) : d.inode[s] = e.inode[s],
         System \cup Named(e) \subseteq d.marked
  PROVE  Sound(d) /\ EntrySectors(d) = EntrySectors(e) /\ Named(d) = Named(e)
<1>1. Entries(d) = Entries(e) /\ EntrySectors(d) = EntrySectors(e)
  BY DEF Entries, EntrySectors
<1>2. Apart(d, EntrySectors(d)) /\ Named(d) = Named(e)
  BY <1>1, SectorsAgree, NamedSectors DEF Sound
<1> QED BY <1>1, <1>2 DEF Sound

\* Sound writes keep the log sound.
LEMMA LogAppend ==
  ASSUME NEW f \in FileSystem, NEW d \in Image, Log(f), Sound(d)
  PROVE  Log(block_write(f, d))
<1> DEFINE g == block_write(f, d)
<1>1. /\ g.disk = d /\ Len(g.hist) = Len(f.hist) + 1 /\ g.hist[Len(f.hist) + 1] = d
      /\ \A k \in 1 .. Len(f.hist) : g.hist[k] = f.hist[k]
  BY BlockWritten
<1>2. Len(f.hist) \in Nat
  BY SystemType
<1> HIDE DEF g
<1>3. ASSUME NEW k \in 1 .. Len(g.hist) PROVE Sound(g.hist[k])
  <2>1. CASE k \in 1 .. Len(f.hist)
    BY <2>1, <1>1 DEF Log
  <2>2. CASE k \notin 1 .. Len(f.hist)
    BY <2>2, <1>1, <1>2
  <2> QED BY <2>1, <2>2
<1>4. g.hist # <<>>
  BY <1>1, <1>2
<1> QED BY <1>1, <1>3, <1>4 DEF Log, g

\* Writes to sectors of no name keep the log sound.
LEMMA LogWrote ==
  ASSUME NEW f, NEW g, NEW S, f \in FileSystem, Wrote(f, g, S), Log(f), Sound(f.disk),
         S \cap EntrySectors(f.disk) = {}
  PROVE  Log(g) /\ Sound(g.disk) /\ EntrySectors(g.disk) = EntrySectors(f.disk)
<1>1. \A d : SameBut(d, f.disk, S) => Sound(d) /\ EntrySectors(d) = EntrySectors(f.disk)
  <2> SUFFICES ASSUME NEW d, SameBut(d, f.disk, S)
               PROVE  Sound(d) /\ EntrySectors(d) = EntrySectors(f.disk)
    OBVIOUS
  <2>1. d \in Image /\ d.dir = f.disk.dir /\ d.marked = f.disk.marked
    BY DEF SameBut
  <2>2. \A s \in EntrySectors(f.disk) : d.inode[s] = f.disk.inode[s]
    BY DEF SameBut, Sound, Apart
  <2>3. System \cup Named(f.disk) \subseteq d.marked
    BY <2>1 DEF Sound
  <2> QED BY <2>1, <2>2, <2>3, SoundUnder
<1>2. Len(f.hist) \in Nat /\ Len(g.hist) \in Nat
  BY SystemType DEF Wrote
<1>3. ASSUME NEW k \in 1 .. Len(g.hist) PROVE Sound(g.hist[k])
  <2>1. CASE k \in 1 .. Len(f.hist)
    BY <2>1 DEF Wrote, Log
  <2>2. CASE k \notin 1 .. Len(f.hist)
    <3>1. k \in Len(f.hist) + 1 .. Len(g.hist)
      BY <2>2, <1>2
    <3> QED BY <3>1, <1>1 DEF Wrote
  <2> QED BY <2>1, <2>2
<1>4. g.hist # <<>> => g.hist[Len(g.hist)] = g.disk
  <2>1. CASE Len(f.hist) < Len(g.hist)
    BY <2>1 DEF Wrote
  <2>2. CASE Len(f.hist) = Len(g.hist)
    <3>1. g.hist # <<>> => Len(g.hist) \in 1 .. Len(f.hist)
      BY <2>2, <1>2, SystemType DEF Wrote
    <3> QED BY <3>1, <2>2 DEF Wrote, Log
  <2> QED BY <2>1, <2>2, <1>2 DEF Wrote
<1>5. g.hist = <<>> => g.disk = platter
  <2>1. g.hist = <<>> => f.hist = <<>> /\ Len(f.hist) = Len(g.hist)
    BY <1>2, SystemType DEF Wrote
  <2> QED BY <2>1 DEF Wrote, Log
<1> QED BY <1>1, <1>3, <1>4, <1>5 DEF Log, Wrote

----------------------------------------------------------------------------
(* The free map. *)

\* A new free map.
LEMMA MapSet ==
  ASSUME NEW f \in FileSystem, NEW map \in SUBSET Sector
  PROVE  LET g == SetMap(f, map)
         IN  /\ g \in FileSystem /\ g.free_map = map /\ g.disk.marked = map
             /\ g.disk.dir = f.disk.dir /\ g.disk.inode = f.disk.inode /\ g.disk.data = f.disk.data
             /\ g.inodes = f.inodes /\ g.hist # <<>>
             /\ Log(f) /\ Sound(g.disk) => Log(g)
<1> DEFINE h == [f EXCEPT !.free_map = map]
           d == [f.disk EXCEPT !.marked = map]
           g == block_write(h, d)
<1>1. h \in FileSystem /\ h.disk = f.disk /\ h.hist = f.hist /\ h.inodes = f.inodes /\ h.free_map = map
  BY DEF FileSystem
<1>2. /\ d \in Image /\ d.marked = map
      /\ d.dir = f.disk.dir /\ d.inode = f.disk.inode /\ d.data = f.disk.data
  BY SystemType DEF Image
<1>3. SetMap(f, map) = g
  BY DEF SetMap
<1> HIDE DEF h, d
<1>4. g \in FileSystem /\ g.free_map = map /\ g.inodes = f.inodes /\ g.disk = d /\ Len(g.hist) = Len(f.hist) + 1
  BY <1>1, <1>2, BlockWritten, SMTT(40)
<1>5. Log(f) /\ Sound(g.disk) => Log(g)
  BY <1>1, <1>2, <1>4, LogAppend DEF Log
<1>6. g.hist # <<>>
  BY <1>4, SystemType
<1> HIDE DEF g
<1> QED BY <1>2, <1>3, <1>4, <1>5, <1>6

\* A new free map that still has the sectors in use.
LEMMA MapKept ==
  ASSUME NEW f \in FileSystem, NEW map \in SUBSET Sector, Log(f), Sound(f.disk),
         System \cup Named(f.disk) \subseteq map
  PROVE  /\ Sound(SetMap(f, map).disk) /\ Log(SetMap(f, map))
         /\ EntrySectors(SetMap(f, map).disk) = EntrySectors(f.disk)
<1> DEFINE g == SetMap(f, map)
<1>1. g \in FileSystem /\ g.disk.marked = map /\ g.disk.dir = f.disk.dir /\ g.disk.inode = f.disk.inode
  BY MapSet
<1>2. g.disk \in Image
  BY <1>1, SystemType
<1> HIDE DEF g
<1>3. Sound(g.disk) /\ EntrySectors(g.disk) = EntrySectors(f.disk)
  BY <1>1, <1>2, SoundUnder
<1>4. Log(g)
  BY <1>3, MapSet DEF g
<1> QED BY <1>3, <1>4 DEF g

\* The first run of free sectors.
LEMMA FirstFit ==
  ASSUME NEW map \in SUBSET Sector, NEW cnt \in Nat, bitmap_scan(map, cnt) # None
  PROVE  /\ bitmap_scan(map, cnt) \in Nat /\ Extent(bitmap_scan(map, cnt), cnt) \subseteq Sector
         /\ Extent(bitmap_scan(map, cnt), cnt) \cap map = {}
<1> DEFINE at == {s \in 0 .. NSectors - cnt : Extent(s, cnt) \cap map = {}}
<1>1. at # {} /\ at \subseteq Nat
  BY Sizing DEF bitmap_scan
<1>2. bitmap_scan(map, cnt) = CHOOSE s \in at : \A t \in at : s <= t
  BY <1>1 DEF bitmap_scan
<1>3. \E s \in at : \A t \in at : s <= t
  BY <1>1, LeastElement
<1>4. bitmap_scan(map, cnt) \in at
  BY <1>2, <1>3
<1> DEFINE s == bitmap_scan(map, cnt)
<1>5. s \in 0 .. NSectors - cnt /\ Extent(s, cnt) \cap map = {}
  BY <1>4
<1> HIDE DEF s
<1>6. s \in Nat /\ Extent(s, cnt) \subseteq Sector
  BY <1>5, Sizing DEF Extent, Sector
<1> QED BY <1>5, <1>6 DEF s

----------------------------------------------------------------------------
(* Open inodes. *)

\* A new table of open inodes.
LEMMA TableSet ==
  ASSUME NEW f \in FileSystem, NEW tab \in OpenInodes
  PROVE  LET g == [f EXCEPT !.inodes = tab]
         IN  /\ g \in FileSystem /\ g.inodes = tab
             /\ g.disk = f.disk /\ g.hist = f.hist /\ g.free_map = f.free_map
BY DEF FileSystem

\* A table is a function from sectors to inodes.
LEMMA TableType ==
  ASSUME NEW tab, DOMAIN tab \subseteq Sector, tab = [s \in DOMAIN tab |-> tab[s]],
         \A s \in DOMAIN tab : tab[s] \in OpenInode
  PROVE  tab \in OpenInodes
<1>1. tab \in [DOMAIN tab -> OpenInode]
  OBVIOUS
<1> QED BY <1>1 DEF OpenInodes

\* One that has the same live inodes.
LEMMA TableStable ==
  ASSUME NEW f, NEW lost, Stable(f, lost), NEW g \in FileSystem,
         g.disk = f.disk, g.hist = f.hist, g.free_map = f.free_map, Live(g) = Live(f),
         \A s \in DOMAIN g.inodes : /\ g.inodes[s].data = f.disk.inode[s]
                                    /\ g.inodes[s].removed <=> s \notin EntrySectors(f.disk)
  PROVE  Stable(g, lost)
<1>1. Kept(g)
  BY DEF Kept, Stable
<1>2. Log(g)
  BY DEF Log, Stable
<1>3. Accounted(g, lost)
  BY DEF Accounted, Stable
<1> QED BY <1>1, <1>2, <1>3 DEF Stable

\* An inode with a name is opened.
LEMMA InodeOpened ==
  ASSUME NEW f, NEW lost, Stable(f, lost), Positive(f), NEW s \in EntrySectors(f.disk)
  PROVE  LET g == inode_open(f, s)
         IN  /\ Stable(g, lost) /\ Positive(g) /\ g.disk = f.disk /\ g.hist = f.hist
             /\ DOMAIN g.inodes = DOMAIN f.inodes \cup {s}
             /\ \A t : /\ Opened(g, t) = IF t = s THEN Opened(f, t) + 1 ELSE Opened(f, t)
                       /\ Denied(g, t) = Denied(f, t)
<1> DEFINE tab == IF IsOpen(f, s) THEN [f.inodes EXCEPT ![s].open_cnt = @ + 1]
                  ELSE [t \in DOMAIN f.inodes \cup {s} |->
                          IF t # s THEN f.inodes[t]
                          ELSE [open_cnt |-> 1, removed |-> FALSE, deny_write_cnt |-> 0,
                                data |-> f.disk.inode[s]]]
           g == [f EXCEPT !.inodes = tab]
<1>0. /\ f \in FileSystem /\ s \in Live(f) /\ s \in Sector /\ f.disk.inode[s] \in Inode
      /\ DOMAIN f.inodes \subseteq Sector /\ f.inodes \in [DOMAIN f.inodes -> OpenInode]
  BY SystemType DEF Stable, Kept, Apart, Live
<1>1. inode_open(f, s) = g
  BY DEF inode_open
<1>2. /\ DOMAIN tab = DOMAIN f.inodes \cup {s}
      /\ tab = [t \in DOMAIN tab |-> tab[t]]
      /\ \A t \in DOMAIN f.inodes \ {s} : tab[t] = f.inodes[t]
      /\ tab[s] \in OpenInode /\ tab[s].open_cnt = Opened(f, s) + 1
      /\ tab[s].deny_write_cnt = Denied(f, s) /\ tab[s].data = f.disk.inode[s] /\ tab[s].removed = FALSE
  <2>1. CASE IsOpen(f, s)
    <3>1. tab = [f.inodes EXCEPT ![s].open_cnt = @ + 1] /\ s \in DOMAIN f.inodes
      BY <2>1 DEF IsOpen
    <3>2. f.inodes[s].data = f.disk.inode[s] /\ f.inodes[s].removed = FALSE
      BY <3>1, <1>0 DEF Stable, Kept, OpenInode
    <3> HIDE DEF tab
    <3> QED BY <3>1, <3>2, <2>1, <1>0 DEF Opened, Denied, OpenInode
  <2>2. CASE ~IsOpen(f, s)
    <3>1. /\ s \notin DOMAIN f.inodes
          /\ tab = [t \in DOMAIN f.inodes \cup {s} |->
                          IF t # s THEN f.inodes[t]
                          ELSE [open_cnt |-> 1, removed |-> FALSE, deny_write_cnt |-> 0,
                                data |-> f.disk.inode[s]]]
      BY <2>2 DEF IsOpen
    <3> HIDE DEF tab
    <3> QED BY <3>1, <2>2, <1>0 DEF Opened, Denied, OpenInode
  <2> QED BY <2>1, <2>2
<1> HIDE DEF tab
<1>3. tab \in OpenInodes
  <2>1. \A t \in DOMAIN tab : tab[t] \in OpenInode
    BY <1>0, <1>2
  <2> QED BY <2>1, <1>0, <1>2, TableType
<1>4. g \in FileSystem /\ g.inodes = tab /\ g.disk = f.disk /\ g.hist = f.hist /\ g.free_map = f.free_map
  BY <1>0, <1>3, TableSet
<1> HIDE DEF g
<1>5. Live(g) = Live(f)
  BY <1>2, <1>4 DEF Live
<1>6. Stable(g, lost)
  <2>1. \A t \in DOMAIN g.inodes : /\ g.inodes[t].data = f.disk.inode[t]
                                   /\ g.inodes[t].removed <=> t \notin EntrySectors(f.disk)
    BY <1>2, <1>4 DEF Stable, Kept
  <2> QED BY <2>1, <1>4, <1>5, TableStable
<1>7. Positive(g)
  <2>1. Opened(f, s) \in Nat
    BY <1>0 DEF Opened, IsOpen, OpenInode
  <2> QED BY <2>1, <1>2, <1>4 DEF Positive
<1>8. \A t : /\ Opened(g, t) = IF t = s THEN Opened(f, t) + 1 ELSE Opened(f, t)
             /\ Denied(g, t) = Denied(f, t)
  BY <1>2, <1>4 DEF Opened, Denied, IsOpen
<1> QED BY <1>1, <1>2, <1>4, <1>6, <1>7, <1>8

\* A counter of writes denied is changed.
LEMMA DenialSet ==
  ASSUME NEW f, NEW lost, Stable(f, lost), Positive(f), NEW s \in DOMAIN f.inodes, NEW n \in Int
  PROVE  LET g == [f EXCEPT !.inodes[s].deny_write_cnt = n]
         IN  /\ Stable(g, lost) /\ Positive(g) /\ g.disk = f.disk /\ g.hist = f.hist
             /\ DOMAIN g.inodes = DOMAIN f.inodes
             /\ \A t : /\ Opened(g, t) = Opened(f, t)
                       /\ Denied(g, t) = IF t = s THEN n ELSE Denied(f, t)
<1> DEFINE tab == [f.inodes EXCEPT ![s].deny_write_cnt = n]
           g == [f EXCEPT !.inodes = tab]
<1>0. /\ f \in FileSystem
      /\ DOMAIN f.inodes \subseteq Sector /\ f.inodes \in [DOMAIN f.inodes -> OpenInode]
  BY SystemType DEF Stable
<1>1. [f EXCEPT !.inodes[s].deny_write_cnt = n] = g
  OBVIOUS
<1>2. /\ DOMAIN tab = DOMAIN f.inodes /\ tab = [t \in DOMAIN tab |-> tab[t]]
      /\ \A t \in DOMAIN f.inodes :
           /\ tab[t] \in OpenInode /\ tab[t].open_cnt = f.inodes[t].open_cnt
           /\ tab[t].data = f.inodes[t].data /\ tab[t].removed = f.inodes[t].removed
           /\ tab[t].deny_write_cnt = IF t = s THEN n ELSE f.inodes[t].deny_write_cnt
  BY <1>0 DEF OpenInode
<1> HIDE DEF tab
<1>3. tab \in OpenInodes
  BY <1>0, <1>2, TableType
<1>4. g \in FileSystem /\ g.inodes = tab /\ g.disk = f.disk /\ g.hist = f.hist /\ g.free_map = f.free_map
  BY <1>0, <1>3, TableSet
<1> HIDE DEF g
<1>5. Live(g) = Live(f)
  BY <1>2, <1>4 DEF Live
<1>6. Stable(g, lost)
  <2>1. \A t \in DOMAIN g.inodes : /\ g.inodes[t].data = f.disk.inode[t]
                                   /\ g.inodes[t].removed <=> t \notin EntrySectors(f.disk)
    BY <1>2, <1>4 DEF Stable, Kept
  <2> QED BY <2>1, <1>4, <1>5, TableStable
<1>7. Positive(g)
  BY <1>2, <1>4 DEF Positive
<1>8. \A t : /\ Opened(g, t) = Opened(f, t)
             /\ Denied(g, t) = IF t = s THEN n ELSE Denied(f, t)
  BY <1>2, <1>4 DEF Opened, Denied, IsOpen
<1> QED BY <1>1, <1>2, <1>4, <1>6, <1>7, <1>8

\* No new live inode, and the same bytes in the old ones.
Framed(f, g) == /\ Live(g) \subseteq Live(f)
                /\ g.disk.inode = f.disk.inode /\ g.disk.data = f.disk.data

\* What inode_close leaves.
InodeClosed(f, g, s) ==
    /\ Framed(f, g) /\ g.disk.dir = f.disk.dir
    /\ EntrySectors(g.disk) = EntrySectors(f.disk)
    /\ DOMAIN g.inodes = IF Opened(f, s) > 1 THEN DOMAIN f.inodes ELSE DOMAIN f.inodes \ {s}
    /\ \A t : /\ Opened(g, t) = IF t = s THEN Opened(f, t) - 1 ELSE Opened(f, t)
              /\ Denied(g, t) = IF t = s /\ Opened(f, t) <= 1 THEN 0 ELSE Denied(f, t)

\* The last user of a removed inode gives its sectors back.
LEMMA InodeFreed ==
  ASSUME NEW f, NEW lost, Stable(f, lost), Positive(f), NEW s \in DOMAIN f.inodes,
         ~(f.inodes[s].open_cnt > 1), f.inodes[s].removed,
         NEW g \in FileSystem, g.disk = f.disk, g.hist = f.hist, g.free_map = f.free_map,
         g.inodes = [t \in DOMAIN f.inodes \ {s} |-> f.inodes[t]]
  PROVE  LET i == f.inodes[s]
             h == free_map_release(free_map_release(g, s, 1), i.data.start,
                                   bytes_to_sectors(i.data.length))
         IN  /\ Stable(h, lost) /\ h.disk.dir = f.disk.dir
             /\ h.disk.inode = f.disk.inode /\ h.disk.data = f.disk.data
             /\ EntrySectors(h.disk) = EntrySectors(f.disk) /\ h.inodes = g.inodes
<1> DEFINE i == f.inodes[s].data
           E == Extent(i.start, bytes_to_sectors(i.length))
           m1 == g.free_map \ {s}
           g1 == SetMap(g, m1)
           m2 == g1.free_map \ E
           h == SetMap(g1, m2)
           L == Live(f) \ {s}
<1>1. /\ f \in FileSystem /\ s \in Live(f) /\ s \in Nat /\ s \notin EntrySectors(f.disk)
      /\ i = f.disk.inode[s] /\ f.free_map \in SUBSET Sector
  BY SystemType, Sizing DEF Stable, Kept, Live
<1>2. /\ SectorsOf(f.disk, L) \cap ({s} \cup E) = {}
      /\ SectorsOf(f.disk, Live(f)) = SectorsOf(f.disk, L) \cup {s} \cup E
      /\ SectorsOf(f.disk, Live(f)) \subseteq Sector \ System
  <2>1. Apart(f.disk, Live(f))
    BY DEF Stable, Kept
  <2>2. FileSectors(f.disk.inode[s], s) = {s} \cup E
    BY <1>1 DEF FileSectors
  <2> HIDE DEF E
  <2> DEFINE X == FileSectors(f.disk.inode[s], s)
  <2>3. /\ SectorsOf(f.disk, L) \cap X = {} /\ SectorsOf(f.disk, Live(f)) = SectorsOf(f.disk, L) \cup X
        /\ SectorsOf(f.disk, Live(f)) \subseteq Sector \ System
    <3>1. s \in Live(f) /\ Apart(f.disk, Live(f))
      BY <1>1, <2>1
    <3>2. ASSUME NEW d, NEW V, s \in V, Apart(d, V)
          PROVE  /\ SectorsOf(d, V \ {s}) \cap FileSectors(d.inode[s], s) = {}
                 /\ SectorsOf(d, V) = SectorsOf(d, V \ {s}) \cup FileSectors(d.inode[s], s)
                 /\ SectorsOf(d, V) \subseteq Sector \ System
      BY ONLY <3>2, ApartFrom
    <3> QED BY <3>1, <3>2
  <2> HIDE DEF X, L
  <2> QED BY <2>2, <2>3 DEF X
<1>3. free_map_release(g, s, 1) = g1 /\ free_map_release(g1, i.start, bytes_to_sectors(i.length)) = h
  <2>1. Extent(s, 1) = {s}
    BY <1>1 DEF Extent
  <2> QED BY <2>1 DEF free_map_release
<1>4. Log(g) /\ Sound(g.disk)
  BY DEF Log, Stable
<1>5. System \cup Named(f.disk) \subseteq f.free_map \ ({s} \cup E)
  <2>1. Named(f.disk) \subseteq SectorsOf(f.disk, L)
    BY <1>1, NamedSectors DEF SectorsOf, Live
  <2>2. System \cup SectorsOf(f.disk, L) \subseteq f.free_map
    BY <1>2 DEF Stable, Accounted
  <2> QED BY <2>1, <2>2, <1>2
<1> HIDE DEF E, L
<1>6. /\ g1 \in FileSystem /\ g1.free_map = f.free_map \ {s} /\ g1.inodes = g.inodes
      /\ g1.disk.dir = f.disk.dir /\ g1.disk.inode = f.disk.inode /\ g1.disk.data = f.disk.data
      /\ Log(g1) /\ Sound(g1.disk) /\ EntrySectors(g1.disk) = EntrySectors(f.disk)
  <2>1. m1 \in SUBSET Sector /\ System \cup Named(f.disk) \subseteq m1
    BY <1>1, <1>5
  <2> QED BY <2>1, <1>4, MapSet, MapKept
<1> HIDE DEF g1
<1>7. /\ h \in FileSystem /\ h.free_map = f.free_map \ ({s} \cup E) /\ h.inodes = g.inodes
      /\ h.disk.dir = f.disk.dir /\ h.disk.inode = f.disk.inode /\ h.disk.data = f.disk.data
      /\ h.disk.marked = h.free_map
      /\ Log(h) /\ Sound(h.disk) /\ EntrySectors(h.disk) = EntrySectors(f.disk)
  <2>1. m2 \in SUBSET Sector /\ m2 = f.free_map \ ({s} \cup E)
    BY <1>1, <1>6
  <2>2. Named(g1.disk) = Named(f.disk)
    BY <1>6, NamedSectors, SectorsAgree
  <2>3. System \cup Named(g1.disk) \subseteq m2
    BY <2>1, <2>2, <1>5
  <2> HIDE DEF m2
  <2> QED BY <2>1, <2>3, <1>6, MapSet, MapKept
<1> HIDE DEF h
<1>8. Live(h) = L
  BY <1>1, <1>7 DEF Live, L
<1>9. Kept(h)
  <2>1. Apart(h.disk, L)
    <3>1. Apart(f.disk, L)
      BY ApartFewer DEF Stable, Kept, L
    <3> QED BY <3>1, <1>7, SectorsAgree
  <2>2. \A t \in DOMAIN h.inodes : h.inodes[t] = f.inodes[t] /\ t \in DOMAIN f.inodes
    BY <1>7
  <2> QED BY <2>1, <2>2, <1>7, <1>8 DEF Kept, Stable
<1>10. Accounted(h, lost)
  <2>1. SectorsOf(h.disk, L) = SectorsOf(f.disk, L)
    BY <1>7, SectorsAgree
  <2>2. /\ f.free_map = System \cup SectorsOf(f.disk, Live(f)) \cup lost
        /\ SectorsOf(f.disk, Live(f)) \cap lost = {}
    BY DEF Stable, Accounted
  <2>3. h.free_map = System \cup SectorsOf(f.disk, L) \cup lost
    BY <2>2, <1>2, <1>7
  <2>4. SectorsOf(f.disk, L) \cap lost = {}
    BY <2>2, <1>2
  <2> QED BY <2>1, <2>3, <2>4, <1>7, <1>8 DEF Accounted
<1> QED BY <1>3, <1>7, <1>9, <1>10 DEF Stable

\* An inode is closed.
LEMMA InodeClosing ==
  ASSUME NEW f, NEW lost, Stable(f, lost), Positive(f), NEW s \in DOMAIN f.inodes
  PROVE  LET g == inode_close(f, s)
         IN  Stable(g, lost) /\ Positive(g) /\ InodeClosed(f, g, s)
<1> DEFINE i == f.inodes[s]
           less == [f.inodes EXCEPT ![s].open_cnt = @ - 1]
           none == [t \in DOMAIN f.inodes \ {s} |-> f.inodes[t]]
           g1 == [f EXCEPT !.inodes = less]
           g2 == [f EXCEPT !.inodes = none]
           h == free_map_release(free_map_release(g2, s, 1), i.data.start,
                                 bytes_to_sectors(i.data.length))
<1>0. /\ f \in FileSystem /\ s \in Sector /\ i \in OpenInode /\ i.open_cnt \in Nat /\ i.open_cnt > 0
      /\ DOMAIN f.inodes \subseteq Sector /\ f.inodes \in [DOMAIN f.inodes -> OpenInode]
  BY SystemType DEF Stable, Positive, OpenInode
<1>1. Opened(f, s) = i.open_cnt
  BY DEF Opened, IsOpen
<1>2. inode_close(f, s) = IF i.open_cnt > 1 THEN g1 ELSE IF i.removed THEN h ELSE g2
  BY DEF inode_close
<1>3. CASE i.open_cnt > 1
  <2>1. /\ DOMAIN less = DOMAIN f.inodes /\ less = [t \in DOMAIN less |-> less[t]]
        /\ \A t \in DOMAIN f.inodes :
             /\ less[t] \in OpenInode
             /\ less[t].open_cnt = IF t = s THEN f.inodes[t].open_cnt - 1 ELSE f.inodes[t].open_cnt
             /\ less[t].data = f.inodes[t].data /\ less[t].removed = f.inodes[t].removed
             /\ less[t].deny_write_cnt = f.inodes[t].deny_write_cnt
    BY <1>0, <1>3 DEF OpenInode
  <2> HIDE DEF less, i
  <2>2. less \in OpenInodes
    BY <1>0, <2>1, TableType
  <2>3. /\ g1 \in FileSystem /\ g1.inodes = less
        /\ g1.disk = f.disk /\ g1.hist = f.hist /\ g1.free_map = f.free_map
    BY <1>0, <2>2, TableSet
  <2> HIDE DEF g1
  <2>4. Live(g1) = Live(f)
    BY <2>1, <2>3 DEF Live
  <2>5. Stable(g1, lost)
    <3>1. \A t \in DOMAIN g1.inodes : /\ g1.inodes[t].data = f.disk.inode[t]
                                      /\ g1.inodes[t].removed <=> t \notin EntrySectors(f.disk)
      BY <2>1, <2>3 DEF Stable, Kept
    <3> QED BY <3>1, <2>3, <2>4, TableStable
  <2>6. Positive(g1)
    BY <2>1, <2>3, <1>0, <1>1, <1>3 DEF Positive, i
  <2>7. InodeClosed(f, g1, s)
    <3>1. Opened(f, s) > 1 /\ ~(Opened(f, s) <= 1)
      BY <1>0, <1>1, <1>3
    <3>2. \A t : /\ Opened(g1, t) = IF t = s THEN Opened(f, t) - 1 ELSE Opened(f, t)
                 /\ Denied(g1, t) = Denied(f, t)
      BY <2>1, <2>3 DEF Opened, Denied, IsOpen
    <3>3. Framed(f, g1)
      BY <2>3, <2>4 DEF Framed
    <3> QED BY <3>1, <3>2, <3>3, <2>1, <2>3 DEF InodeClosed
  <2> QED BY <1>2, <1>3, <2>5, <2>6, <2>7
<1>4. CASE ~(i.open_cnt > 1)
  <2>1. /\ DOMAIN none = DOMAIN f.inodes \ {s} /\ none = [t \in DOMAIN none |-> none[t]]
        /\ \A t \in DOMAIN none : none[t] = f.inodes[t] /\ none[t] \in OpenInode
    BY <1>0
  <2> DEFINE tab == none
  <2> HIDE DEF tab
  <2>2. none \in OpenInodes
    BY <1>0, <2>1, TableType
  <2>3. /\ g2 \in FileSystem /\ g2.inodes = none
        /\ g2.disk = f.disk /\ g2.hist = f.hist /\ g2.free_map = f.free_map
    BY <1>0, <2>2, TableSet
  <2> HIDE DEF g2
  <2>4. ASSUME NEW g, g.inodes = none, g.disk.dir = f.disk.dir,
               g.disk.inode = f.disk.inode, g.disk.data = f.disk.data,
               EntrySectors(g.disk) = EntrySectors(f.disk)
        PROVE  InodeClosed(f, g, s) /\ Positive(g)
    <3> HIDE DEF none, i
    <3>1. Positive(g)
      BY <2>1, <2>4 DEF Positive
    <3>2. ~(Opened(f, s) > 1) /\ Opened(f, s) <= 1 /\ Opened(f, s) = 1
      BY <1>0, <1>1, <1>4
    <3>3. DOMAIN g.inodes = DOMAIN f.inodes \ {s}
      BY <2>1, <2>4
    <3>4. \A t : /\ Opened(g, t) = IF t = s THEN Opened(f, t) - 1 ELSE Opened(f, t)
                 /\ Denied(g, t) = IF t = s /\ Opened(f, t) <= 1 THEN 0 ELSE Denied(f, t)
      <4> SUFFICES ASSUME NEW t
                   PROVE  /\ Opened(g, t) = IF t = s THEN Opened(f, t) - 1 ELSE Opened(f, t)
                          /\ Denied(g, t) = IF t = s /\ Opened(f, t) <= 1 THEN 0 ELSE Denied(f, t)
        OBVIOUS
      <4>1. CASE t = s
        <5>1. Opened(g, t) = 0 /\ Denied(g, t) = 0
          BY <3>3, <4>1 DEF Opened, Denied, IsOpen
        <5> QED BY <5>1, <4>1, <3>2
      <4>2. CASE t # s
        BY <4>2, <3>3, <2>1, <2>4 DEF Opened, Denied, IsOpen
      <4> QED BY <4>1, <4>2
    <3>5. Framed(f, g)
      BY <3>3, <2>4 DEF Framed, Live
    <3> QED BY <3>1, <3>2, <3>3, <3>4, <3>5, <2>4 DEF InodeClosed
  <2>5. CASE i.removed
    <3>1. /\ Stable(h, lost) /\ h.disk.dir = f.disk.dir
          /\ h.disk.inode = f.disk.inode /\ h.disk.data = f.disk.data
          /\ EntrySectors(h.disk) = EntrySectors(f.disk) /\ h.inodes = none
      BY <1>4, <2>3, <2>5, InodeFreed, SMTT(40)
    <3> HIDE DEF h, none
    <3>2. inode_close(f, s) = h
      BY <1>2, <1>4, <2>5
    <3> QED BY <3>1, <3>2, <2>4
  <2>6. CASE ~i.removed
    <3>1. s \in EntrySectors(f.disk)
      BY <2>6 DEF Stable, Kept
    <3>2. Live(g2) = Live(f)
      BY <3>1, <2>1, <2>3 DEF Live
    <3>3. \A t \in DOMAIN g2.inodes : /\ g2.inodes[t].data = f.disk.inode[t]
                                      /\ g2.inodes[t].removed <=> t \notin EntrySectors(f.disk)
      BY <2>1, <2>3 DEF Stable, Kept
    <3>4. Stable(g2, lost)
      BY <3>2, <3>3, <2>3, TableStable
    <3>5. inode_close(f, s) = g2
      BY <1>2, <1>4, <2>6
    <3> QED BY <3>4, <3>5, <2>3, <2>4
  <2> QED BY <2>5, <2>6
<1> QED BY <1>3, <1>4

----------------------------------------------------------------------------
(* Files and entries. *)

\* Closing a file opened by a process or, denying writes, as its executable.
LEMMA FileClosed ==
  ASSUME NEW f, NEW lost, Stable(f, lost), Positive(f), NEW file \in File,
         file.sector \in DOMAIN f.inodes
  PROVE  LET g == file_close(f, file)
         IN  /\ Stable(g, lost) /\ Positive(g) /\ Framed(f, g)
             /\ \A t : Opened(g, t) = IF t = file.sector THEN Opened(f, t) - 1 ELSE Opened(f, t)
             /\ \A t : t # file.sector => Denied(g, t) = Denied(f, t)
             /\ Denied(g, file.sector) =
                  IF Opened(f, file.sector) <= 1 THEN 0
                  ELSE IF file.deny_write THEN Denied(f, file.sector) - 1 ELSE Denied(f, file.sector)
<1> DEFINE s == file.sector
           n == f.inodes[s].deny_write_cnt - 1
           a == [f EXCEPT !.inodes[s].deny_write_cnt = n]
<1>1. CASE file.deny_write
  <2>1. n \in Int /\ Denied(f, s) - 1 = n
    BY SystemType DEF Stable, OpenInode, Denied, IsOpen
  <2>2. inode_allow_write(f, s) = a
    BY DEF inode_allow_write
  <2> HIDE DEF n
  <2>3. /\ Stable(a, lost) /\ Positive(a) /\ a.disk = f.disk /\ DOMAIN a.inodes = DOMAIN f.inodes
        /\ \A t : Opened(a, t) = Opened(f, t) /\ Denied(a, t) = IF t = s THEN n ELSE Denied(f, t)
    BY <2>1, DenialSet
  <2> HIDE DEF a
  <2>4. file_close(f, file) = inode_close(a, s)
    BY <1>1, <2>2 DEF file_close
  <2>5. Stable(inode_close(a, s), lost) /\ Positive(inode_close(a, s)) /\ InodeClosed(a, inode_close(a, s), s)
    BY <2>3, InodeClosing
  <2>6. Framed(f, inode_close(a, s))
    BY <2>3, <2>5 DEF InodeClosed, Framed, Live
  <2> QED BY <1>1, <2>1, <2>3, <2>4, <2>5, <2>6 DEF InodeClosed
<1>2. CASE ~file.deny_write
  <2>1. file_close(f, file) = inode_close(f, s)
    BY <1>2 DEF file_close
  <2>2. Stable(inode_close(f, s), lost) /\ Positive(inode_close(f, s)) /\ InodeClosed(f, inode_close(f, s), s)
    BY InodeClosing
  <2> QED BY <1>2, <2>1, <2>2 DEF InodeClosed
<1> QED BY <1>1, <1>2

\* A slot of the directory is written.
LEMMA SlotWritten ==
  ASSUME NEW f \in FileSystem, NEW i \in 1 .. NSlots, NEW e \in Entry \cup {None}
  PROVE  LET g == WriteSlot(f, i, e)
         IN  /\ g \in FileSystem /\ g.free_map = f.free_map /\ g.inodes = f.inodes
             /\ g.disk.marked = f.disk.marked /\ g.disk.inode = f.disk.inode /\ g.disk.data = f.disk.data
             /\ g.disk.dir[i] = e /\ \A j \in (1 .. NSlots) \ {i} : g.disk.dir[j] = f.disk.dir[j]
             /\ Log(f) /\ Sound(g.disk) => Log(g)
<1> DEFINE d == [f.disk EXCEPT !.dir[i] = e]
<1>1. f.disk \in Image
  BY SystemType
<1>2. /\ d \in Image /\ d.marked = f.disk.marked /\ d.inode = f.disk.inode /\ d.data = f.disk.data
      /\ d.dir[i] = e /\ \A j \in (1 .. NSlots) \ {i} : d.dir[j] = f.disk.dir[j]
  BY <1>1 DEF Image
<1>3. WriteSlot(f, i, e) = block_write(f, d)
  BY DEF WriteSlot
<1> HIDE DEF d
<1>4. /\ block_write(f, d) \in FileSystem /\ block_write(f, d).disk = d
      /\ block_write(f, d).free_map = f.free_map /\ block_write(f, d).inodes = f.inodes
  BY <1>2, BlockWritten
<1>5. Log(f) /\ Sound(d) => Log(block_write(f, d))
  BY <1>2, LogAppend
<1> QED BY <1>2, <1>3, <1>4, <1>5

\* inode_remove.
LEMMA RemovedSet ==
  ASSUME NEW f \in FileSystem, NEW s \in DOMAIN f.inodes
  PROVE  LET g == inode_remove(f, s)
         IN  /\ g \in FileSystem /\ g.disk = f.disk /\ g.hist = f.hist /\ g.free_map = f.free_map
             /\ DOMAIN g.inodes = DOMAIN f.inodes
             /\ \A t \in DOMAIN f.inodes :
                  /\ g.inodes[t].open_cnt = f.inodes[t].open_cnt
                  /\ g.inodes[t].deny_write_cnt = f.inodes[t].deny_write_cnt
                  /\ g.inodes[t].data = f.inodes[t].data
                  /\ g.inodes[t].removed = IF t = s THEN TRUE ELSE f.inodes[t].removed
<1> DEFINE tab == [f.inodes EXCEPT ![s].removed = TRUE]
           g == [f EXCEPT !.inodes = tab]
<1>1. DOMAIN f.inodes \subseteq Sector /\ f.inodes \in [DOMAIN f.inodes -> OpenInode]
  BY SystemType
<1>2. inode_remove(f, s) = g
  BY DEF inode_remove
<1>3. /\ DOMAIN tab = DOMAIN f.inodes /\ tab = [t \in DOMAIN tab |-> tab[t]]
      /\ \A t \in DOMAIN f.inodes :
           /\ tab[t] \in OpenInode
           /\ tab[t].open_cnt = f.inodes[t].open_cnt
           /\ tab[t].deny_write_cnt = f.inodes[t].deny_write_cnt
           /\ tab[t].data = f.inodes[t].data
           /\ tab[t].removed = IF t = s THEN TRUE ELSE f.inodes[t].removed
  BY <1>1 DEF OpenInode
<1> HIDE DEF tab
<1>4. tab \in OpenInodes
  BY <1>1, <1>3, TableType
<1>5. /\ g \in FileSystem /\ g.inodes = tab
      /\ g.disk = f.disk /\ g.hist = f.hist /\ g.free_map = f.free_map
  BY <1>4, TableSet
<1> HIDE DEF g
<1> QED BY <1>2, <1>3, <1>5

\* An open inode loses its name.
LEMMA NameErased ==
  ASSUME NEW f, NEW lost, Stable(f, lost), Positive(f), NEW i \in Entries(f.disk),
         f.disk.dir[i].sector \in DOMAIN f.inodes
  PROVE  LET g == inode_remove(WriteSlot(f, i, None), f.disk.dir[i].sector)
         IN  /\ Stable(g, lost) /\ Positive(g) /\ Framed(f, g)
             /\ DOMAIN g.inodes = DOMAIN f.inodes
             /\ \A t : Opened(g, t) = Opened(f, t) /\ Denied(g, t) = Denied(f, t)
<1> DEFINE s == f.disk.dir[i].sector
           h == WriteSlot(f, i, None)
           g == inode_remove(h, s)
<1>1. /\ f \in FileSystem /\ f.disk \in Image /\ i \in 1 .. NSlots /\ Sound(f.disk)
      /\ s \in EntrySectors(f.disk) /\ Log(f)
  BY SystemType, EntryType DEF Stable
<1>2. /\ h \in FileSystem /\ h.free_map = f.free_map /\ h.inodes = f.inodes
      /\ h.disk.marked = f.disk.marked /\ h.disk.inode = f.disk.inode /\ h.disk.data = f.disk.data
      /\ h.disk.dir[i] = None /\ \A j \in (1 .. NSlots) \ {i} : h.disk.dir[j] = f.disk.dir[j]
      /\ Sound(h.disk) => Log(h)
  BY <1>1, SlotWritten
<1> HIDE DEF h
<1>3. Entries(h.disk) = Entries(f.disk) \ {i}
  BY <1>1, <1>2 DEF Entries
<1>4. \A j \in Entries(h.disk) : h.disk.dir[j] = f.disk.dir[j] /\ j \in Entries(f.disk) /\ j # i
  BY <1>2, <1>3 DEF Entries
<1>5. EntrySectors(h.disk) = EntrySectors(f.disk) \ {s}
  <2>1. EntrySectors(h.disk) \subseteq EntrySectors(f.disk) \ {s}
    BY <1>1, <1>4 DEF EntrySectors, Sound
  <2>2. ASSUME NEW t \in EntrySectors(f.disk) \ {s} PROVE t \in EntrySectors(h.disk)
    <3>1. PICK j \in Entries(f.disk) : t = f.disk.dir[j].sector
      BY DEF EntrySectors
    <3>2. j \in Entries(h.disk)
      BY <3>1, <1>3
    <3> QED BY <3>1, <3>2, <1>4 DEF EntrySectors
  <2> QED BY <2>1, <2>2
<1>6. Sound(h.disk)
  <2>1. Apart(h.disk, EntrySectors(h.disk))
    <3>1. Apart(f.disk, EntrySectors(h.disk))
      BY <1>1, <1>5, ApartFewer DEF Sound
    <3> QED BY <3>1, <1>2, SectorsAgree
  <2>2. Named(h.disk) \subseteq Named(f.disk)
    <3>1. SectorsOf(h.disk, EntrySectors(h.disk)) \subseteq SectorsOf(f.disk, EntrySectors(f.disk))
      BY <1>2, <1>5 DEF SectorsOf
    <3> QED BY <3>1, NamedSectors
  <2>3. h.disk \in Image
    BY <1>2, SystemType
  <2> QED BY <1>1, <1>2, <1>4, <2>1, <2>2, <2>3 DEF Sound
<1>7. /\ g \in FileSystem /\ g.disk = h.disk /\ g.hist = h.hist /\ g.free_map = h.free_map
      /\ DOMAIN g.inodes = DOMAIN f.inodes
      /\ \A t \in DOMAIN f.inodes :
           /\ g.inodes[t].open_cnt = f.inodes[t].open_cnt
           /\ g.inodes[t].deny_write_cnt = f.inodes[t].deny_write_cnt
           /\ g.inodes[t].data = f.inodes[t].data
           /\ g.inodes[t].removed = IF t = s THEN TRUE ELSE f.inodes[t].removed
  <2>1. s \in DOMAIN h.inodes
    BY <1>2
  <2>2. /\ g \in FileSystem /\ g.disk = h.disk /\ g.hist = h.hist /\ g.free_map = h.free_map
        /\ DOMAIN g.inodes = DOMAIN h.inodes
        /\ \A t \in DOMAIN h.inodes :
             /\ g.inodes[t].open_cnt = h.inodes[t].open_cnt
             /\ g.inodes[t].deny_write_cnt = h.inodes[t].deny_write_cnt
             /\ g.inodes[t].data = h.inodes[t].data
             /\ g.inodes[t].removed = IF t = s THEN TRUE ELSE h.inodes[t].removed
    BY <1>2, <2>1, RemovedSet
  <2>3. h.inodes = f.inodes
    BY <1>2
  <2> HIDE DEF g, s
  <2> QED BY <2>2, <2>3
<1> HIDE DEF g
<1>8. Live(g) = Live(f)
  BY <1>5, <1>7 DEF Live
<1>9. Kept(g)
  <2>1. Apart(g.disk, Live(f))
    <3>1. Apart(f.disk, Live(f))
      BY DEF Stable, Kept
    <3> QED BY <3>1, <1>2, <1>7, SectorsAgree
  <2>2. EntrySectors(g.disk) = EntrySectors(f.disk) \ {s} /\ g.disk.inode = f.disk.inode
    BY <1>2, <1>5, <1>7
  <2>3. \A t \in DOMAIN f.inodes : /\ f.inodes[t].data = f.disk.inode[t]
                                   /\ f.inodes[t].removed <=> t \notin EntrySectors(f.disk)
    BY DEF Kept, Stable
  <2>4. \A t \in DOMAIN g.inodes : g.inodes[t].data = g.disk.inode[t]
    BY <2>2, <2>3, <1>7, ZenonT(40)
  <2>5. ASSUME NEW t \in DOMAIN g.inodes PROVE g.inodes[t].removed <=> t \notin EntrySectors(g.disk)
    BY <2>2, <2>3, <1>7
  <2> QED BY <2>1, <2>4, <2>5, <1>8 DEF Kept
<1>10. Accounted(g, lost)
  <2>1. SectorsOf(g.disk, Live(f)) = SectorsOf(f.disk, Live(f))
    BY <1>2, <1>7, SectorsAgree
  <2> QED BY <2>1, <1>2, <1>7, <1>8 DEF Accounted, Stable
<1>11. Log(g)
  BY <1>2, <1>6, <1>7 DEF Log
<1>12. Positive(g) /\ \A t : Opened(g, t) = Opened(f, t) /\ Denied(g, t) = Denied(f, t)
  BY <1>7 DEF Positive, Opened, Denied, IsOpen
<1>13. Framed(f, g)
  BY <1>2, <1>7, <1>8 DEF Framed
<1> QED BY <1>2, <1>6, <1>7, <1>9, <1>10, <1>11, <1>12, <1>13 DEF Stable, g, h

\* A name is found at the first slot that has it.
LEMMA NameFound ==
  ASSUME NEW d \in Image, NEW name, lookup(d, name) # {}
  PROVE  First(lookup(d, name)) \in Entries(d)
<1>1. lookup(d, name) \subseteq Nat /\ lookup(d, name) \subseteq Entries(d)
  BY DEF lookup, Entries
<1>2. \E i \in lookup(d, name) : \A j \in lookup(d, name) : i <= j
  BY <1>1, LeastElement
<1> QED BY <1>1, <1>2 DEF First

\* dir_remove: the name goes, and the inode if nobody has it open.
LEMMA NameRemoved ==
  ASSUME NEW f, NEW lost, Stable(f, lost), Positive(f), NEW name, lookup(f.disk, name) # {}
  PROVE  LET g == dir_remove(f, name)
         IN  /\ Stable(g, lost) /\ Positive(g) /\ Framed(f, g)
             /\ \A t : Opened(g, t) = Opened(f, t)
             /\ \A t : Opened(f, t) > 0 => Denied(g, t) = Denied(f, t)
             /\ \A t : Opened(f, t) = 0 => Denied(g, t) = 0
<1> DEFINE i == First(lookup(f.disk, name))
           s == f.disk.dir[i].sector
           f1 == inode_open(f, s)
           f2 == inode_remove(WriteSlot(f1, i, None), s)
           g == inode_close(f2, s)
<1>1. f.disk \in Image /\ i \in Entries(f.disk) /\ s \in EntrySectors(f.disk)
  BY NameFound, EntryType, SystemType DEF Stable
<1>2. dir_remove(f, name) = g
  BY DEF dir_remove
<1> HIDE DEF i
<1>3. /\ Stable(f1, lost) /\ Positive(f1) /\ f1.disk = f.disk /\ s \in DOMAIN f1.inodes
      /\ DOMAIN f1.inodes = DOMAIN f.inodes \cup {s}
      /\ \A t : /\ Opened(f1, t) = IF t = s THEN Opened(f, t) + 1 ELSE Opened(f, t)
                /\ Denied(f1, t) = Denied(f, t)
  BY <1>1, InodeOpened
<1> HIDE DEF f1
<1>4. /\ Stable(f2, lost) /\ Positive(f2) /\ Framed(f1, f2) /\ s \in DOMAIN f2.inodes
      /\ \A t : Opened(f2, t) = Opened(f1, t) /\ Denied(f2, t) = Denied(f1, t)
  BY <1>1, <1>3, NameErased
<1> HIDE DEF f2
<1>5. Stable(g, lost) /\ Positive(g) /\ InodeClosed(f2, g, s)
  BY <1>4, InodeClosing
<1> HIDE DEF g
<1>6. \A t : Opened(f, t) \in Int /\ (~IsOpen(f, t) => Opened(f, t) = 0 /\ Denied(f, t) = 0)
  BY SystemType DEF Stable, Opened, Denied, IsOpen, OpenInode
<1>7. \A t : Opened(f, t) = 0 => ~IsOpen(f, t)
  BY DEF Opened, IsOpen, Positive
<1>8. \A t : Opened(g, t) = Opened(f, t)
  BY <1>3, <1>4, <1>5, <1>6 DEF InodeClosed
<1>9. \A t : Opened(f, t) > 0 => Denied(g, t) = Denied(f, t)
  <2> SUFFICES ASSUME NEW t, Opened(f, t) > 0 PROVE Denied(g, t) = Denied(f, t)
    OBVIOUS
  <2>1. t = s => ~(Opened(f2, t) <= 1)
    BY <1>3, <1>4, <1>6
  <2> QED BY <2>1, <1>3, <1>4, <1>5 DEF InodeClosed
<1>10. \A t : Opened(f, t) = 0 => Denied(g, t) = 0
  BY <1>3, <1>4, <1>5, <1>6, <1>7 DEF InodeClosed
<1>11. Framed(f, g)
  <2>1. Framed(f, f1)
    BY <1>1, <1>3 DEF Framed, Live
  <2> QED BY <2>1, <1>4, <1>5 DEF InodeClosed, Framed
<1> QED BY <1>2, <1>4, <1>5, <1>8, <1>9, <1>10, <1>11 DEF InodeClosed

----------------------------------------------------------------------------
(* New files. *)

\* A run of sectors is marked.
LEMMA Reserved ==
  ASSUME NEW f \in FileSystem, Log(f), Sound(f.disk), f.disk.marked = f.free_map,
         NEW start, NEW cnt, Extent(start, cnt) \subseteq Sector
  PROVE  LET g == free_map_allocate(f, start, cnt)
         IN  /\ g \in FileSystem /\ Log(g) /\ Sound(g.disk)
             /\ g.free_map = f.free_map \cup Extent(start, cnt) /\ g.disk.marked = g.free_map
             /\ g.disk.dir = f.disk.dir /\ g.disk.inode = f.disk.inode /\ g.disk.data = f.disk.data
             /\ g.inodes = f.inodes /\ EntrySectors(g.disk) = EntrySectors(f.disk)
<1> DEFINE map == f.free_map \cup Extent(start, cnt)
<1>1. map \in SUBSET Sector /\ System \cup Named(f.disk) \subseteq map
  BY SystemType DEF Sound
<1> HIDE DEF map
<1>2. Log(SetMap(f, map)) /\ Sound(SetMap(f, map).disk)
      /\ EntrySectors(SetMap(f, map).disk) = EntrySectors(f.disk)
  BY <1>1, MapKept
<1>3. LET g == SetMap(f, map)
      IN  /\ g \in FileSystem /\ g.free_map = map /\ g.disk.marked = map
          /\ g.disk.dir = f.disk.dir /\ g.disk.inode = f.disk.inode /\ g.disk.data = f.disk.data
          /\ g.inodes = f.inodes
  BY <1>1, MapSet
<1> QED BY <1>2, <1>3 DEF free_map_allocate, map

\* A sector is given back that no name has.
LEMMA Returned ==
  ASSUME NEW f \in FileSystem, Log(f), Sound(f.disk), NEW s \in Sector,
         System \cup Named(f.disk) \subseteq f.free_map \ {s}
  PROVE  LET g == free_map_release(f, s, 1)
         IN  /\ g \in FileSystem /\ Log(g) /\ Sound(g.disk)
             /\ g.free_map = f.free_map \ {s} /\ g.disk.marked = g.free_map
             /\ g.disk.dir = f.disk.dir /\ g.disk.inode = f.disk.inode /\ g.disk.data = f.disk.data
             /\ g.inodes = f.inodes /\ EntrySectors(g.disk) = EntrySectors(f.disk)
<1> DEFINE map == f.free_map \ {s}
<1>1. map \in SUBSET Sector /\ System \cup Named(f.disk) \subseteq map /\ Extent(s, 1) = {s}
  BY SystemType, Sizing DEF Extent
<1>2. free_map_release(f, s, 1) = SetMap(f, map)
  BY <1>1 DEF free_map_release
<1> HIDE DEF map
<1>3. Log(SetMap(f, map)) /\ Sound(SetMap(f, map).disk)
      /\ EntrySectors(SetMap(f, map).disk) = EntrySectors(f.disk)
  BY <1>1, MapKept
<1>4. LET g == SetMap(f, map)
      IN  /\ g \in FileSystem /\ g.free_map = map /\ g.disk.marked = map
          /\ g.disk.dir = f.disk.dir /\ g.disk.inode = f.disk.inode /\ g.disk.data = f.disk.data
          /\ g.inodes = f.inodes
  BY <1>1, MapSet
<1> QED BY <1>2, <1>3, <1>4 DEF map

\* Sectors of zeros.
LEMMA ZerosType == ASSUME NEW n \in Nat PROVE Zeros(n) \in Seq(Nat) /\ Len(Zeros(n)) = n /\ Zeros(n) \in [1 .. n -> Nat]
BY DEF Zeros

\* Chunks that are whole sectors leave zeros.
LEMMA ZerosWritten ==
  ASSUME NEW f \in FileSystem, NEW cs, ChunksIn(cs, Zeros(SECTOR_SIZE)),
         \A k \in 1 .. Len(cs) : cs[k].ofs = 0 /\ cs[k].len = SECTOR_SIZE /\ cs[k].done = 0
  PROVE  \A k \in 1 .. Len(cs) :
           WriteAll(f, cs, Zeros(SECTOR_SIZE)).disk.data[cs[k].sector] = Zeros(SECTOR_SIZE)
<1> DEFINE z == Zeros(SECTOR_SIZE)
           Done(W, m) == \A j \in 1 .. m : W[m].disk.data[cs[j].sector] = z
<1>1. Len(cs) \in Nat /\ DOMAIN cs = 1 .. Len(cs) /\ \A k \in 1 .. Len(cs) : cs[k] \in Chunk
  BY DEF ChunksIn
<1>2. \A k \in DOMAIN cs : cs[k].sector \in Sector
  BY <1>1 DEF Chunk
<1>3. \A k \in 1 .. SECTOR_SIZE : z[k] = 0
  BY DEF Zeros
<1>30. ChunksIn(cs, z)
  OBVIOUS
<1> HIDE DEF z
<1>31. PICK W : Trail(W, f, cs, z, Sector)
  BY <1>2, <1>30, StepsWritten
<1>4. /\ W[0] = f /\ WriteAll(f, cs, z) = W[Len(cs)]
      /\ \A k \in 1 .. Len(cs) : W[k] = WriteChunk(W[k - 1], cs[k], z)
  BY <1>31 DEF Trail
<1>5. \A k \in 0 .. Len(cs) : W[k] \in FileSystem
  BY <1>31 DEF Trail, Wrote
<1>6. ASSUME NEW c \in Chunk, c.ofs = 0, c.len = SECTOR_SIZE, c.done = 0, NEW old
      PROVE  ChunkBytes(c, z, old) = z
  <2>1. \A k \in 1 .. SECTOR_SIZE : k \in c.ofs + 1 .. c.ofs + c.len /\ c.done + (k - c.ofs) = k
    BY <1>6, Sizing
  <2>4. ASSUME NEW k \in 1 .. SECTOR_SIZE PROVE ChunkByte(c, z, old, k) = z[k]
    <3>1. k \in c.ofs + 1 .. c.ofs + c.len /\ c.done + k - c.ofs = k
      BY <2>1
    <3>2. ChunkByte(c, z, old, k) = z[c.done + k - c.ofs]
      BY <3>1 DEF ChunkByte
    <3> QED BY <3>1, <3>2
  <2>2. ChunkBytes(c, z, old) = [k \in 1 .. SECTOR_SIZE |-> z[k]]
    BY <2>4 DEF ChunkBytes
  <2>3. z \in [1 .. SECTOR_SIZE -> Nat]
    BY ZerosType, Sizing DEF z
  <2> QED BY <2>2, <2>3
<1> DEFINE Bad == {m \in 0 .. Len(cs) : ~Done(W, m)}
<1>7. Bad = {}
  <2> SUFFICES ASSUME Bad # {} PROVE FALSE
    OBVIOUS
  <2>1. PICK m \in Bad : \A n \in Bad : m <= n
    <3>1. Bad \subseteq Nat
      BY <1>1
    <3> QED BY <3>1, LeastElement
  <2>2. m \in 0 .. Len(cs) /\ ~Done(W, m)
    BY <2>1
  <2>3. m # 0
    BY <2>2
  <2>4. m - 1 \in 0 .. Len(cs) /\ m \in 1 .. Len(cs) /\ m - 1 \notin Bad
    <3> HIDE DEF Bad
    <3> QED BY <2>1, <2>2, <2>3, <1>1
  <2>5. Done(W, m - 1)
    BY <2>4
  <2>6. /\ W[m] = WriteChunk(W[m - 1], cs[m], z) /\ W[m - 1] \in FileSystem /\ cs[m] \in Chunk
        /\ ChunkBytes(cs[m], z, W[m - 1].disk.data[cs[m].sector]) = z
    BY <2>4, <1>1, <1>4, <1>5, <1>6
  <2>7. /\ W[m].disk.data[cs[m].sector] = z
        /\ \A t \in Sector \ {cs[m].sector} : W[m].disk.data[t] = W[m - 1].disk.data[t]
    BY <2>6, ChunkData
  <2>8. Done(W, m)
    <3> SUFFICES ASSUME NEW j \in 1 .. m PROVE W[m].disk.data[cs[j].sector] = z
      OBVIOUS
    <3>1. j \in 1 .. Len(cs) /\ (j = m \/ j \in 1 .. m - 1)
      BY <2>4, <1>1
    <3>2. cs[j].sector \in Sector
      BY <3>1, <1>1 DEF Chunk
    <3> QED BY <3>1, <3>2, <2>5, <2>7
  <2> QED BY <2>2, <2>8
<1>8. Done(W, Len(cs))
  BY <1>1, <1>7
<1> QED BY <1>4, <1>8 DEF z

\* inode_create: the inode is on the disk, and its data are zeros.
LEMMA InodeCreated ==
  ASSUME NEW f \in FileSystem, Log(f), Sound(f.disk), f.disk.marked = f.free_map,
         NEW sector \in Sector, NEW start \in Nat, NEW length \in Nat,
         Extent(start, bytes_to_sectors(length)) \subseteq Sector,
         sector \notin EntrySectors(f.disk), sector \notin Extent(start, bytes_to_sectors(length)),
         Extent(start, bytes_to_sectors(length)) \cap EntrySectors(f.disk) = {}
  PROVE  LET g == inode_create(f, sector, start, length)
             E == Extent(start, bytes_to_sectors(length))
         IN  /\ g \in FileSystem /\ Log(g) /\ Sound(g.disk) /\ g.inodes = f.inodes
             /\ g.free_map = f.free_map \cup E /\ g.disk.marked = g.free_map /\ g.disk.dir = f.disk.dir
             /\ g.disk.inode[sector] = [start |-> start, length |-> length]
             /\ \A t \in E : g.disk.data[t] = Zeros(SECTOR_SIZE)
             /\ \A t \in Sector \ (E \cup {sector}) :
                  g.disk.inode[t] = f.disk.inode[t] /\ g.disk.data[t] = f.disk.data[t]
<1> DEFINE n == bytes_to_sectors(length)
           E == Extent(start, n)
           g == free_map_allocate(f, start, n)
           d == [g.disk EXCEPT !.inode[sector] = [start |-> start, length |-> length],
                               !.data[sector] = Zeros(SECTOR_SIZE)]
           made == block_write(g, d)
           cs == [i \in 1 .. n |-> [sector |-> start + i - 1, ofs |-> 0, len |-> SECTOR_SIZE, done |-> 0]]
           h == WriteAll(made, cs, Zeros(SECTOR_SIZE))
<1>1. inode_create(f, sector, start, length) = h
  BY DEF inode_create
<1>2. n \in Nat
  BY Rounding
<1> HIDE DEF n
<1>3. /\ g \in FileSystem /\ Log(g) /\ Sound(g.disk)
      /\ g.free_map = f.free_map \cup E /\ g.disk.marked = g.free_map
      /\ g.disk.dir = f.disk.dir /\ g.disk.inode = f.disk.inode /\ g.disk.data = f.disk.data
      /\ g.inodes = f.inodes /\ EntrySectors(g.disk) = EntrySectors(f.disk)
  BY Reserved DEF n
<1> HIDE DEF g
<1>4. /\ d \in Image /\ d.marked = g.free_map /\ d.dir = f.disk.dir
      /\ d.inode[sector] = [start |-> start, length |-> length]
      /\ \A t \in Sector \ {sector} : d.inode[t] = f.disk.inode[t] /\ d.data[t] = f.disk.data[t]
  <2>1. g.disk \in Image /\ Zeros(SECTOR_SIZE) \in [1 .. SECTOR_SIZE -> Nat]
        /\ [start |-> start, length |-> length] \in Inode
    BY <1>3, SystemType, ZerosType, Sizing DEF Inode
  <2> DEFINE z == Zeros(SECTOR_SIZE)
             r == [start |-> start, length |-> length]
  <2>2. d = [g.disk EXCEPT !.inode[sector] = r, !.data[sector] = z]
    OBVIOUS
  <2> HIDE DEF z, r, d
  <2>3. d \in Image /\ d.marked = g.disk.marked /\ d.dir = g.disk.dir
        /\ d.inode[sector] = r
        /\ \A t \in Sector \ {sector} : d.inode[t] = g.disk.inode[t] /\ d.data[t] = g.disk.data[t]
    BY <2>1, <2>2 DEF Image, z, r
  <2> QED BY <2>3, <1>3 DEF r
<1> HIDE DEF d
<1>5. Sound(d) /\ EntrySectors(d) = EntrySectors(f.disk)
  <2>1. \A t \in EntrySectors(g.disk) : d.inode[t] = g.disk.inode[t]
    <3>1. EntrySectors(f.disk) \subseteq Sector \ {sector}
      BY DEF Sound, Apart
    <3> QED BY <3>1, <1>3, <1>4
  <2>2. System \cup Named(g.disk) \subseteq d.marked
    BY <1>3, <1>4 DEF Sound
  <2> QED BY <2>1, <2>2, <1>3, <1>4, SoundUnder
<1>6. /\ made \in FileSystem /\ made.disk = d /\ made.free_map = g.free_map /\ made.inodes = f.inodes
      /\ Log(made)
  BY <1>3, <1>4, <1>5, BlockWritten, LogAppend, SMTT(40)
<1> HIDE DEF made
<1>7. ChunksIn(cs, Zeros(SECTOR_SIZE)) /\ \A k \in DOMAIN cs : cs[k].sector \in E
  <2>1. E = start .. start + n - 1 /\ E \subseteq Sector
    BY DEF Extent, n
  <2>2. \A k \in 1 .. n : start + k - 1 \in E
    BY <1>2, <2>1
  <2>3. \A k \in 1 .. n : [sector |-> start + k - 1, ofs |-> 0, len |-> SECTOR_SIZE, done |-> 0] \in Chunk
    BY <2>1, <2>2, Sizing DEF Chunk
  <2>4. cs \in Seq(Chunk) /\ DOMAIN cs = 1 .. n
    <3>1. cs \in [1 .. n -> Chunk]
      BY <2>3
    <3> HIDE DEF cs
    <3>2. cs \in Seq(Chunk)
      BY <3>1, <1>2
    <3> QED BY <3>1, <3>2
  <2>5. \A k \in 1 .. n : cs[k].done + cs[k].len <= Len(Zeros(SECTOR_SIZE)) /\ cs[k].sector \in E
    BY <2>2, ZerosType, Sizing, SMTT(40)
  <2>6. Zeros(SECTOR_SIZE) \in Seq(Nat)
    BY ZerosType, Sizing
  <2> HIDE DEF cs, E
  <2> QED BY <2>4, <2>5, <2>6 DEF ChunksIn
<1>30. \A t \in E : h.disk.data[t] = Zeros(SECTOR_SIZE)
  <2>1. Len(cs) = n /\ \A k \in 1 .. n : /\ cs[k].ofs = 0 /\ cs[k].len = SECTOR_SIZE /\ cs[k].done = 0
                                         /\ cs[k].sector = start + k - 1
    BY <1>2
  <2>2. \A t \in E : (t - start) + 1 \in 1 .. n /\ start + ((t - start) + 1) - 1 = t
    BY <1>2 DEF Extent
  <2> HIDE DEF cs, E
  <2>3. \A k \in 1 .. Len(cs) : h.disk.data[cs[k].sector] = Zeros(SECTOR_SIZE)
    BY <2>1, <1>6, <1>7, ZerosWritten
  <2> HIDE DEF h
  <2>4. \A t \in E : \E k \in 1 .. n : cs[k].sector = t
    BY <2>1, <2>2
  <2> QED BY <2>1, <2>3, <2>4
<1> HIDE DEF cs
<1>8. Wrote(made, h, E)
  BY <1>6, <1>7, AllWritten
<1> HIDE DEF h
<1>9. Log(h) /\ Sound(h.disk)
  <2>1. E \cap EntrySectors(made.disk) = {}
    BY <1>5, <1>6 DEF n
  <2> HIDE DEF E
  <2> QED BY <2>1, <1>5, <1>6, <1>8, LogWrote
<1>10. /\ h \in FileSystem /\ h.free_map = made.free_map /\ h.inodes = made.inodes
       /\ h.disk.marked = d.marked /\ h.disk.dir = d.dir
       /\ \A t \in Sector \ E : h.disk.inode[t] = d.inode[t] /\ h.disk.data[t] = d.data[t]
  BY <1>6, <1>8 DEF Wrote, SameBut
<1>11. sector \notin E
  BY DEF n
<1> HIDE DEF E
<1>12. /\ h \in FileSystem /\ Log(h) /\ Sound(h.disk) /\ h.inodes = f.inodes
       /\ h.free_map = f.free_map \cup E /\ h.disk.marked = h.free_map /\ h.disk.dir = f.disk.dir
       /\ h.disk.inode[sector] = [start |-> start, length |-> length]
       /\ \A t \in E : h.disk.data[t] = Zeros(SECTOR_SIZE)
       /\ \A t \in Sector \ (E \cup {sector}) :
            h.disk.inode[t] = f.disk.inode[t] /\ h.disk.data[t] = f.disk.data[t]
  BY <1>3, <1>4, <1>6, <1>9, <1>10, <1>11, <1>30
<1> QED BY <1>1, <1>12 DEF E, n

----------------------------------------------------------------------------
(* Reads and writes. *)

\* The sectors of an inode's data.
DataSectors(i) == Extent(i.start, bytes_to_sectors(i.length))

\* What is read depends on the sectors of the data only.
LEMMA SameRead ==
  ASSUME NEW d, NEW e, NEW i \in Inode, DataSectors(i) \subseteq Sector,
         NEW size \in Nat, NEW offset \in Nat, \A s \in DataSectors(i) : d.data[s] = e.data[s]
  PROVE  inode_read_at(d, i, size, offset) = inode_read_at(e, i, size, offset)
<1> DEFINE cs == Chunks(i, size, offset)
           read(x) == [k \in DOMAIN cs |-> SubSeq(x.data[cs[k].sector], cs[k].ofs + 1, cs[k].ofs + cs[k].len)]
<1>1. \A k \in DOMAIN cs : cs[k].sector \in DataSectors(i)
  BY ChunksInside DEF DataSectors
<1> HIDE DEF cs
<1>2. read(d) = read(e)
  BY <1>1
<1>3. inode_read_at(d, i, size, offset) = FlattenSeq(read(d)) /\ inode_read_at(e, i, size, offset) = FlattenSeq(read(e))
  BY DEF inode_read_at, cs
<1> QED BY <1>2, <1>3

\* inode_write_at changes the data of its inode.
LEMMA InodeWritten ==
  ASSUME NEW f, NEW lost, Stable(f, lost), Positive(f), NEW s \in DOMAIN f.inodes,
         NEW buffer \in Seq(Nat), NEW offset \in Nat
  PROVE  LET g == inode_write_at(f, s, buffer, offset)
         IN  /\ Stable(g, lost) /\ g.inodes = f.inodes /\ Live(g) = Live(f)
             /\ \A t \in Live(f) : g.disk.inode[t] = f.disk.inode[t]
             /\ \A t \in Sector \ DataSectors(f.inodes[s].data) : g.disk.data[t] = f.disk.data[t]
             /\ f.inodes[s].deny_write_cnt > 0 => g.disk.data = f.disk.data
<1> DEFINE i == f.inodes[s].data
           E == DataSectors(i)
           cs == WriteChunks(f, s, Len(buffer), offset)
           g == WriteAll(f, cs, buffer)
<1>1. /\ f \in FileSystem /\ s \in Live(f) /\ i = f.disk.inode[s] /\ i \in Inode
      /\ E \subseteq Sector /\ s \notin E /\ FileSectors(i, s) = {s} \cup E
      /\ Apart(f.disk, Live(f)) /\ Log(f) /\ Sound(f.disk)
  BY DEF Stable, Kept, Live, Apart, FileSectors, DataSectors
<1>2. inode_write_at(f, s, buffer, offset) = g
  BY DEF inode_write_at
<1>3. ChunksIn(cs, buffer) /\ \A k \in DOMAIN cs : cs[k].sector \in E
  <2>1. CASE f.inodes[s].deny_write_cnt > 0
    <3>1. cs = <<>>
      BY <2>1 DEF WriteChunks
    <3> QED BY <3>1 DEF ChunksIn
  <2>2. CASE ~(f.inodes[s].deny_write_cnt > 0)
    <3>1. cs = Chunks(i, Len(buffer), offset)
      BY <2>2 DEF WriteChunks
    <3>2. Len(buffer) \in Nat /\ Extent(i.start, bytes_to_sectors(i.length)) \subseteq Sector
      BY <1>1 DEF DataSectors
    <3> HIDE DEF cs
    <3> QED BY <3>1, <3>2, <1>1, ChunksInside DEF ChunksIn, DataSectors
  <2> QED BY <2>1, <2>2
<1> HIDE DEF cs, E
<1>4. Wrote(f, g, E)
  BY <1>1, <1>3, AllWritten
<1>5. f.inodes[s].deny_write_cnt > 0 => g.disk.data = f.disk.data
  <2> SUFFICES ASSUME f.inodes[s].deny_write_cnt > 0 PROVE g.disk.data = f.disk.data
    OBVIOUS
  <2>1. cs = <<>>
    BY DEF WriteChunks, cs
  <2>2. ChunksIn(cs, buffer) /\ \A k \in DOMAIN cs : cs[k].sector \in {}
    BY <2>1 DEF ChunksIn
  <2>3. Wrote(f, g, {})
    BY <2>2, <1>1, AllWritten
  <2>4. g.disk \in Image /\ f.disk \in Image
    BY <2>3, <1>1, SystemType DEF Wrote
  <2>5. \A t \in Sector : g.disk.data[t] = f.disk.data[t]
    BY <2>3 DEF Wrote, SameBut
  <2> HIDE DEF g
  <2> QED BY <2>4, <2>5 DEF Image
<1> HIDE DEF g
<1>6. \A t \in Live(f) : t \notin E
  <2> SUFFICES ASSUME NEW t \in Live(f), t \in E PROVE FALSE
    OBVIOUS
  <2>1. t # s /\ t \in FileSectors(f.disk.inode[t], t) /\ t \in FileSectors(f.disk.inode[s], s)
    BY <1>1 DEF FileSectors
  <2> QED BY <2>1, <1>1 DEF Apart
<1>7. Log(g) /\ Sound(g.disk) /\ EntrySectors(g.disk) = EntrySectors(f.disk)
  <2>1. E \cap EntrySectors(f.disk) = {}
    BY <1>6 DEF Live
  <2> QED BY <2>1, <1>1, <1>4, LogWrote
<1>8. /\ g \in FileSystem /\ g.inodes = f.inodes /\ g.free_map = f.free_map /\ g.disk.marked = f.disk.marked
      /\ \A t \in Sector \ E : g.disk.data[t] = f.disk.data[t] /\ g.disk.inode[t] = f.disk.inode[t]
  BY <1>4 DEF Wrote, SameBut
<1>9. Live(g) = Live(f)
  BY <1>7, <1>8 DEF Live
<1>10. \A t \in Live(f) : g.disk.inode[t] = f.disk.inode[t]
  BY <1>6, <1>8, <1>1 DEF Apart
<1>11. Apart(g.disk, Live(f)) /\ SectorsOf(g.disk, Live(f)) = SectorsOf(f.disk, Live(f))
  BY <1>1, <1>10, SectorsAgree
<1>12. Kept(g)
  <2>1. \A t \in DOMAIN g.inodes : g.disk.inode[t] = f.disk.inode[t]
    BY <1>8, <1>10 DEF Live
  <2> QED BY <2>1, <1>7, <1>8, <1>9, <1>11 DEF Kept, Stable
<1>13. Accounted(g, lost)
  BY <1>8, <1>9, <1>11 DEF Accounted, Stable
<1> QED BY <1>2, <1>5, <1>7, <1>8, <1>9, <1>10, <1>12, <1>13 DEF Stable, E

----------------------------------------------------------------------------
(* filesys_create. *)

\* What is live is marked in the free map.
LEMMA LiveMarked ==
  ASSUME NEW f, NEW lost, Stable(f, lost)
  PROVE  /\ Live(f) \subseteq f.free_map /\ SectorsOf(f.disk, Live(f)) \subseteq f.free_map
         /\ f.free_map \subseteq Sector /\ System \subseteq f.free_map
         /\ EntrySectors(f.disk) \subseteq Live(f) /\ DOMAIN f.inodes \subseteq Live(f)
<1>1. SectorsOf(f.disk, Live(f)) \subseteq f.free_map /\ System \subseteq f.free_map
  BY DEF Stable, Accounted
<1>2. Live(f) \subseteq SectorsOf(f.disk, Live(f))
  BY DEF SectorsOf, FileSectors
<1>3. EntrySectors(f.disk) \subseteq Live(f) /\ DOMAIN f.inodes \subseteq Live(f)
  BY DEF Live
<1>4. f.free_map \subseteq Sector
  BY SystemType DEF Stable
<1> QED BY <1>1, <1>2, <1>3, <1>4

\* A file system whose only news is that the sectors of more are marked.
LEMMA MoreLost ==
  ASSUME NEW f, NEW lost, Stable(f, lost), NEW h \in FileSystem, NEW more,
         Log(h), Sound(h.disk), h.disk.dir = f.disk.dir, h.inodes = f.inodes,
         h.free_map = f.free_map \cup more, more \cap f.free_map = {}, h.disk.marked = h.free_map,
         \A t \in f.free_map : h.disk.inode[t] = f.disk.inode[t]
  PROVE  Stable(h, lost \cup more) /\ Live(h) = Live(f)
<1>1. EntrySectors(h.disk) = EntrySectors(f.disk) /\ Live(h) = Live(f)
  BY DEF EntrySectors, Entries, Live
<1>2. Live(f) \subseteq f.free_map /\ DOMAIN f.inodes \subseteq f.free_map
      /\ SectorsOf(f.disk, Live(f)) \subseteq f.free_map
  BY LiveMarked
<1>3. SectorsOf(h.disk, Live(f)) = SectorsOf(f.disk, Live(f)) /\ Apart(h.disk, Live(f))
  <2>1. \A t \in Live(f) : h.disk.inode[t] = f.disk.inode[t]
    BY <1>2
  <2>2. Apart(f.disk, Live(f))
    BY DEF Stable, Kept
  <2> QED BY <2>1, <2>2, SectorsAgree
<1>4. Kept(h)
  <2>1. \A t \in DOMAIN f.inodes : h.disk.inode[t] = f.disk.inode[t]
    BY <1>2
  <2> QED BY <2>1, <1>1, <1>3 DEF Kept, Stable
<1>5. Accounted(h, lost \cup more)
  BY <1>1, <1>2, <1>3 DEF Accounted, Stable
<1> QED BY <1>1, <1>4, <1>5 DEF Stable

\* The inode's sector is taken.
LEMMA SectorTaken ==
  ASSUME NEW f, NEW lost, Stable(f, lost), bitmap_scan(f.free_map, 1) # None
  PROVE  LET sector == bitmap_scan(f.free_map, 1)
             g == free_map_allocate(f, sector, 1)
         IN  /\ sector \in Sector /\ sector \notin f.free_map
             /\ g \in FileSystem /\ Log(g) /\ Sound(g.disk)
             /\ g.free_map = f.free_map \cup {sector} /\ g.disk.marked = g.free_map
             /\ g.disk.dir = f.disk.dir /\ g.disk.inode = f.disk.inode /\ g.disk.data = f.disk.data
             /\ g.inodes = f.inodes /\ EntrySectors(g.disk) = EntrySectors(f.disk)
<1> DEFINE sector == bitmap_scan(f.free_map, 1)
<1>1. f \in FileSystem /\ f.free_map \in SUBSET Sector /\ Log(f) /\ Sound(f.disk) /\ f.disk.marked = f.free_map
  BY SystemType DEF Stable, Accounted
<1>2. sector \in Nat /\ Extent(sector, 1) \subseteq Sector /\ Extent(sector, 1) \cap f.free_map = {}
  BY <1>1, FirstFit
<1> HIDE DEF sector
<1>3. Extent(sector, 1) = {sector}
  BY <1>2 DEF Extent
<1>4. LET g == free_map_allocate(f, sector, 1)
      IN  /\ g \in FileSystem /\ Log(g) /\ Sound(g.disk)
          /\ g.free_map = f.free_map \cup Extent(sector, 1) /\ g.disk.marked = g.free_map
          /\ g.disk.dir = f.disk.dir /\ g.disk.inode = f.disk.inode /\ g.disk.data = f.disk.data
          /\ g.inodes = f.inodes /\ EntrySectors(g.disk) = EntrySectors(f.disk)
  BY <1>1, <1>2, Reserved
<1> QED BY <1>2, <1>3, <1>4 DEF sector

\* A create that fails before the inode is made changes nothing in the end.
LEMMA CreateUndone ==
  ASSUME NEW f, NEW lost, Stable(f, lost), bitmap_scan(f.free_map, 1) # None
  PROVE  LET sector == bitmap_scan(f.free_map, 1)
             g == free_map_release(free_map_allocate(f, sector, 1), sector, 1)
         IN  /\ Stable(g, lost) /\ g.inodes = f.inodes /\ Live(g) = Live(f)
             /\ g.disk.inode = f.disk.inode /\ g.disk.data = f.disk.data
<1> DEFINE sector == bitmap_scan(f.free_map, 1)
           f1 == free_map_allocate(f, sector, 1)
           g == free_map_release(f1, sector, 1)
<1>1. /\ sector \in Sector /\ sector \notin f.free_map
      /\ f1 \in FileSystem /\ Log(f1) /\ Sound(f1.disk)
      /\ f1.free_map = f.free_map \cup {sector} /\ f1.disk.marked = f1.free_map
      /\ f1.disk.dir = f.disk.dir /\ f1.disk.inode = f.disk.inode /\ f1.disk.data = f.disk.data
      /\ f1.inodes = f.inodes /\ EntrySectors(f1.disk) = EntrySectors(f.disk)
  BY SectorTaken
<1> HIDE DEF f1, sector
<1>2. System \cup Named(f1.disk) \subseteq f1.free_map \ {sector}
  <2>1. Named(f1.disk) = Named(f.disk)
    BY <1>1, NamedSectors, SectorsAgree
  <2>2. System \cup Named(f.disk) \subseteq f.free_map
    BY DEF Stable, Sound, Accounted
  <2> QED BY <2>1, <2>2, <1>1
<1>3. /\ g \in FileSystem /\ Log(g) /\ Sound(g.disk)
      /\ g.free_map = f1.free_map \ {sector} /\ g.disk.marked = g.free_map
      /\ g.disk.dir = f1.disk.dir /\ g.disk.inode = f1.disk.inode /\ g.disk.data = f1.disk.data
      /\ g.inodes = f1.inodes
  BY <1>1, <1>2, Returned
<1> HIDE DEF g
<1>4. g.free_map = f.free_map \cup {}
  BY <1>1, <1>3
<1>5. Stable(g, lost \cup {}) /\ Live(g) = Live(f)
  <2>1. /\ g.disk.dir = f.disk.dir /\ g.inodes = f.inodes /\ {} \cap f.free_map = {}
        /\ \A t \in f.free_map : g.disk.inode[t] = f.disk.inode[t]
    BY <1>1, <1>3
  <2> DEFINE more == {}
  <2>2. g.free_map = f.free_map \cup more /\ more \cap f.free_map = {}
    BY <1>4
  <2> HIDE DEF more
  <2>3. Stable(g, lost \cup more) /\ Live(g) = Live(f)
    BY <2>1, <2>2, <1>3, MoreLost
  <2> QED BY <2>3 DEF more
<1>6. lost \cup {} = lost
  OBVIOUS
<1> QED BY <1>1, <1>3, <1>5, <1>6 DEF g, f1, sector

\* The inode and its data are made in sectors that were free.
LEMMA FileMade ==
  ASSUME NEW f, NEW lost, Stable(f, lost), NEW size \in Nat, bitmap_scan(f.free_map, 1) # None,
         bitmap_scan(free_map_allocate(f, bitmap_scan(f.free_map, 1), 1).free_map,
                     bytes_to_sectors(size)) # None
  PROVE  LET sector == bitmap_scan(f.free_map, 1)
             f1 == free_map_allocate(f, sector, 1)
             start == bitmap_scan(f1.free_map, bytes_to_sectors(size))
             g == inode_create(f1, sector, start, size)
             E == Extent(start, bytes_to_sectors(size))
         IN  /\ sector \in Sector /\ sector \notin f.free_map /\ start \in Nat
             /\ E \subseteq Sector /\ E \cap (f.free_map \cup {sector}) = {}
             /\ g \in FileSystem /\ Log(g) /\ Sound(g.disk) /\ g.inodes = f.inodes
             /\ g.free_map = f.free_map \cup {sector} \cup E /\ g.disk.marked = g.free_map
             /\ g.disk.dir = f.disk.dir /\ g.disk.inode[sector] = [start |-> start, length |-> size]
             /\ \A t \in E : g.disk.data[t] = Zeros(SECTOR_SIZE)
             /\ \A t \in f.free_map : /\ g.disk.inode[t] = f.disk.inode[t]
                                      /\ g.disk.data[t] = f.disk.data[t]
<1> DEFINE sector == bitmap_scan(f.free_map, 1)
           f1 == free_map_allocate(f, sector, 1)
           n == bytes_to_sectors(size)
           start == bitmap_scan(f1.free_map, n)
           E == Extent(start, n)
           g == inode_create(f1, sector, start, size)
<1>1. /\ sector \in Sector /\ sector \notin f.free_map
      /\ f1 \in FileSystem /\ Log(f1) /\ Sound(f1.disk)
      /\ f1.free_map = f.free_map \cup {sector} /\ f1.disk.marked = f1.free_map
      /\ f1.disk.dir = f.disk.dir /\ f1.disk.inode = f.disk.inode /\ f1.disk.data = f.disk.data
      /\ f1.inodes = f.inodes /\ EntrySectors(f1.disk) = EntrySectors(f.disk)
  BY SectorTaken
<1>2. start # None
  OBVIOUS
<1> HIDE DEF f1, sector
<1>3. n \in Nat /\ f1.free_map \in SUBSET Sector
  BY <1>1, Rounding, SystemType
<1> HIDE DEF n
<1>4. start \in Nat /\ E \subseteq Sector /\ E \cap f1.free_map = {}
  BY <1>2, <1>3, FirstFit
<1> HIDE DEF start
<1>5. EntrySectors(f1.disk) \subseteq f.free_map /\ f.free_map \subseteq Sector
  BY <1>1, LiveMarked
<1>6. sector \notin EntrySectors(f1.disk) /\ sector \notin E /\ E \cap EntrySectors(f1.disk) = {}
  <2> HIDE DEF E
  <2> QED BY <1>1, <1>4, <1>5
<1>7. /\ g \in FileSystem /\ Log(g) /\ Sound(g.disk) /\ g.inodes = f1.inodes
      /\ g.free_map = f1.free_map \cup E /\ g.disk.marked = g.free_map /\ g.disk.dir = f1.disk.dir
      /\ g.disk.inode[sector] = [start |-> start, length |-> size]
      /\ \A t \in E : g.disk.data[t] = Zeros(SECTOR_SIZE)
      /\ \A t \in Sector \ (E \cup {sector}) :
           g.disk.inode[t] = f1.disk.inode[t] /\ g.disk.data[t] = f1.disk.data[t]
  <2>1. Extent(start, bytes_to_sectors(size)) = E
    BY DEF n
  <2> HIDE DEF E
  <2>2. f1.disk.marked = f1.free_map /\ sector \in Sector
        /\ Extent(start, bytes_to_sectors(size)) \subseteq Sector
        /\ sector \notin EntrySectors(f1.disk) /\ sector \notin Extent(start, bytes_to_sectors(size))
        /\ Extent(start, bytes_to_sectors(size)) \cap EntrySectors(f1.disk) = {}
    BY <2>1, <1>1, <1>4, <1>6
  <2>3. LET h == inode_create(f1, sector, start, size)
            X == Extent(start, bytes_to_sectors(size))
        IN  /\ h \in FileSystem /\ Log(h) /\ Sound(h.disk) /\ h.inodes = f1.inodes
            /\ h.free_map = f1.free_map \cup X /\ h.disk.marked = h.free_map /\ h.disk.dir = f1.disk.dir
            /\ h.disk.inode[sector] = [start |-> start, length |-> size]
            /\ \A t \in X : h.disk.data[t] = Zeros(SECTOR_SIZE)
            /\ \A t \in Sector \ (X \cup {sector}) :
                 h.disk.inode[t] = f1.disk.inode[t] /\ h.disk.data[t] = f1.disk.data[t]
    <3>1. f1 \in FileSystem /\ Log(f1) /\ Sound(f1.disk) /\ start \in Nat
      BY <1>1, <1>4
    <3> DEFINE Cond(h, a, b) ==
                 /\ h \in FileSystem /\ Log(h) /\ Sound(h.disk) /\ h.disk.marked = h.free_map
                 /\ a \in Sector /\ b \in Nat
                 /\ Extent(b, bytes_to_sectors(size)) \subseteq Sector
                 /\ a \notin EntrySectors(h.disk) /\ a \notin Extent(b, bytes_to_sectors(size))
                 /\ Extent(b, bytes_to_sectors(size)) \cap EntrySectors(h.disk) = {}
               Made(h, g0, a, b) ==
                 LET X == Extent(b, bytes_to_sectors(size))
                 IN  /\ g0 \in FileSystem /\ Log(g0) /\ Sound(g0.disk) /\ g0.inodes = h.inodes
                     /\ g0.free_map = h.free_map \cup X /\ g0.disk.marked = g0.free_map
                     /\ g0.disk.dir = h.disk.dir
                     /\ g0.disk.inode[a] = [start |-> b, length |-> size]
                     /\ \A t \in X : g0.disk.data[t] = Zeros(SECTOR_SIZE)
                     /\ \A t \in Sector \ (X \cup {a}) :
                          g0.disk.inode[t] = h.disk.inode[t] /\ g0.disk.data[t] = h.disk.data[t]
    <3>2. ASSUME NEW h, NEW a, NEW b, Cond(h, a, b)
          PROVE  Made(h, inode_create(h, a, b, size), a, b)
      BY <3>2, InodeCreated
    <3>3. Cond(f1, sector, start)
      BY <2>2, <3>1
    <3> HIDE DEF Cond, Made
    <3>4. Made(f1, inode_create(f1, sector, start, size), sector, start)
      BY <3>2, <3>3
    <3> QED BY <3>4 DEF Made
  <2> QED BY <2>1, <2>3
<1> HIDE DEF g, E
<1>8. \A t \in f.free_map : t \in Sector \ (E \cup {sector})
  BY <1>1, <1>4, <1>5
<1>9. \A t \in f.free_map : g.disk.inode[t] = f.disk.inode[t] /\ g.disk.data[t] = f.disk.data[t]
  BY <1>1, <1>7, <1>8
<1>10. /\ sector \in Sector /\ sector \notin f.free_map /\ start \in Nat
       /\ E \subseteq Sector /\ E \cap (f.free_map \cup {sector}) = {}
       /\ g \in FileSystem /\ Log(g) /\ Sound(g.disk) /\ g.inodes = f.inodes
       /\ g.free_map = f.free_map \cup {sector} \cup E /\ g.disk.marked = g.free_map
       /\ g.disk.dir = f.disk.dir /\ g.disk.inode[sector] = [start |-> start, length |-> size]
       /\ \A t \in E : g.disk.data[t] = Zeros(SECTOR_SIZE)
  BY <1>1, <1>4, <1>7
<1> QED BY <1>9, <1>10 DEF g, E, start, n, f1, sector

\* What a new inode leaves: a sector s for the inode and sectors E for its size
\* bytes, which are zeros.
NewInode(f, h, s, E, size) ==
    /\ s \in Sector /\ s \notin f.free_map /\ E \subseteq Sector /\ E \cap (f.free_map \cup {s}) = {}
    /\ h \in FileSystem /\ Log(h) /\ Sound(h.disk) /\ h.inodes = f.inodes
    /\ h.free_map = f.free_map \cup {s} \cup E /\ h.disk.marked = h.free_map
    /\ h.disk.dir = f.disk.dir /\ h.disk.inode[s] \in Inode /\ DataSectors(h.disk.inode[s]) = E
    /\ h.disk.inode[s].length = size /\ \A t \in E : h.disk.data[t] = Zeros(SECTOR_SIZE)
    /\ \A t \in f.free_map : h.disk.inode[t] = f.disk.inode[t] /\ h.disk.data[t] = f.disk.data[t]

\* Images that agree on what the free map of one has agree on the names' files.
LEMMA NamesAgree ==
  ASSUME NEW f, NEW lost, Stable(f, lost), NEW d, d.dir = f.disk.dir,
         \A t \in f.free_map : d.inode[t] = f.disk.inode[t]
  PROVE  /\ Entries(d) = Entries(f.disk) /\ EntrySectors(d) = EntrySectors(f.disk)
         /\ Named(d) = Named(f.disk)
         /\ SectorsOf(d, Live(f)) = SectorsOf(f.disk, Live(f)) /\ Apart(d, Live(f))
         /\ Named(f.disk) \subseteq SectorsOf(f.disk, Live(f))
<1>1. Entries(d) = Entries(f.disk) /\ EntrySectors(d) = EntrySectors(f.disk)
  BY DEF EntrySectors, Entries
<1>2. Live(f) \subseteq f.free_map /\ EntrySectors(f.disk) \subseteq Live(f) /\ Apart(f.disk, Live(f))
  BY LiveMarked DEF Stable, Kept
<1>3. SectorsOf(d, Live(f)) = SectorsOf(f.disk, Live(f)) /\ Apart(d, Live(f))
  BY <1>2, SectorsAgree
<1>4. SectorsOf(d, EntrySectors(d)) = SectorsOf(f.disk, EntrySectors(f.disk))
  BY <1>1, <1>2, SectorsAgree
<1>5. Named(d) = Named(f.disk)
  BY <1>4, NamedSectors
<1>6. Named(f.disk) \subseteq SectorsOf(f.disk, Live(f))
  BY <1>2, NamedSectors DEF SectorsOf
<1> QED BY <1>1, <1>3, <1>5, <1>6

\* A create that fails in dir_add gives back the inode's sector only.
LEMMA CreateLeaks ==
  ASSUME NEW f, NEW lost, Stable(f, lost), NEW h, NEW s, NEW E, NEW size, NewInode(f, h, s, E, size)
  PROVE  LET g == free_map_release(h, s, 1)
         IN  /\ Stable(g, lost \cup E) /\ g.inodes = f.inodes /\ Live(g) = Live(f)
             /\ \A t \in f.free_map : g.disk.inode[t] = f.disk.inode[t] /\ g.disk.data[t] = f.disk.data[t]
<1> DEFINE g == free_map_release(h, s, 1)
<1>1. System \cup Named(h.disk) \subseteq h.free_map \ {s}
  <2>1. Named(h.disk) = Named(f.disk)
    BY NamesAgree DEF NewInode
  <2>2. System \cup Named(f.disk) \subseteq f.free_map
    BY DEF Stable, Sound, Accounted
  <2> QED BY <2>1, <2>2 DEF NewInode
<1>2. /\ g \in FileSystem /\ Log(g) /\ Sound(g.disk)
      /\ g.free_map = h.free_map \ {s} /\ g.disk.marked = g.free_map
      /\ g.disk.dir = h.disk.dir /\ g.disk.inode = h.disk.inode /\ g.disk.data = h.disk.data
      /\ g.inodes = h.inodes
  BY <1>1, Returned DEF NewInode
<1> HIDE DEF g
<1>3. /\ g.free_map = f.free_map \cup E /\ E \cap f.free_map = {}
      /\ g.disk.dir = f.disk.dir /\ g.inodes = f.inodes
      /\ \A t \in f.free_map : g.disk.inode[t] = f.disk.inode[t] /\ g.disk.data[t] = f.disk.data[t]
  BY <1>2 DEF NewInode
<1>4. Stable(g, lost \cup E) /\ Live(g) = Live(f)
  BY <1>2, <1>3, MoreLost, ZenonT(40)
<1> QED BY <1>3, <1>4 DEF g

\* dir_add: the new inode gets its name.
LEMMA EntryAdded ==
  ASSUME NEW f, NEW lost, Stable(f, lost), NEW h, NEW s, NEW E, NEW size, NewInode(f, h, s, E, size),
         NEW name \in Name, ~dir_add_fails(f.disk, name)
  PROVE  LET g == dir_add(h, name, s)
         IN  /\ Stable(g, lost) /\ g.inodes = f.inodes /\ Live(g) = Live(f) \cup {s}
             /\ g.disk.inode = h.disk.inode /\ g.disk.data = h.disk.data
<1> DEFINE e == [name |-> name, sector |-> s]
           i == First(FreeSlots(h.disk))
           g == WriteSlot(h, i, e)
<1>1. /\ h \in FileSystem /\ Log(h) /\ Sound(h.disk) /\ h.inodes = f.inodes /\ h.disk.dir = f.disk.dir
      /\ s \in Sector /\ s \notin f.free_map /\ h.disk.inode[s] \in Inode
  BY DEF NewInode
<1>2. i \in 1 .. NSlots /\ h.disk.dir[i] = None
  <2>1. FreeSlots(h.disk) # {} /\ FreeSlots(h.disk) \subseteq Nat
    BY <1>1 DEF dir_add_fails, FreeSlots
  <2>2. \E j \in FreeSlots(h.disk) : \A k \in FreeSlots(h.disk) : j <= k
    BY <2>1, LeastElement
  <2>3. i \in FreeSlots(h.disk)
    BY <2>2 DEF First
  <2> QED BY <2>3 DEF FreeSlots
<1>3. e \in Entry /\ e # None /\ e.name = name /\ e.sector = s
  BY <1>1, FilesAssumption, Sizing DEF Entry
<1>4. dir_add(h, name, s) = g
  BY DEF dir_add
<1> HIDE DEF e, i
<1>5. /\ g \in FileSystem /\ g.free_map = h.free_map /\ g.inodes = f.inodes
      /\ g.disk.marked = h.disk.marked /\ g.disk.inode = h.disk.inode /\ g.disk.data = h.disk.data
      /\ g.disk.dir[i] = e /\ \A j \in (1 .. NSlots) \ {i} : g.disk.dir[j] = f.disk.dir[j]
      /\ Sound(g.disk) => Log(g)
  BY <1>1, <1>2, <1>3, SlotWritten
<1> HIDE DEF g
<1>6. Entries(g.disk) = Entries(f.disk) \cup {i} /\ i \notin Entries(f.disk)
  BY <1>1, <1>2, <1>3, <1>5 DEF Entries
<1>7. \A j \in Entries(f.disk) : g.disk.dir[j] = f.disk.dir[j] /\ j # i
  BY <1>5, <1>6 DEF Entries
<1>8. EntrySectors(g.disk) = EntrySectors(f.disk) \cup {s}
  BY <1>3, <1>5, <1>6, <1>7 DEF EntrySectors
<1>9. /\ SectorsOf(h.disk, Live(f)) = SectorsOf(f.disk, Live(f)) /\ Apart(h.disk, Live(f))
      /\ Named(f.disk) \subseteq SectorsOf(f.disk, Live(f)) /\ Named(h.disk) = Named(f.disk)
  BY NamesAgree DEF NewInode
<1>10. /\ Live(f) \subseteq f.free_map /\ SectorsOf(f.disk, Live(f)) \subseteq f.free_map
       /\ f.free_map \subseteq Sector /\ System \subseteq f.free_map
       /\ EntrySectors(f.disk) \subseteq Live(f) /\ DOMAIN f.inodes \subseteq Live(f)
  BY LiveMarked
<1> DEFINE L == Live(f) \cup {s}
           X == FileSectors(h.disk.inode[s], s)
<1>11. X = {s} \cup E /\ X \cap f.free_map = {} /\ X \subseteq Sector \ System
  <2>1. X = {s} \cup E
    BY DEF NewInode, FileSectors, DataSectors
  <2> HIDE DEF X
  <2> QED BY <2>1, <1>10 DEF NewInode
<1>12. \A t \in Live(f) : FileSectors(h.disk.inode[t], t) \subseteq f.free_map
  BY <1>9, <1>10 DEF SectorsOf
<1>13. SectorsOf(h.disk, L) = SectorsOf(f.disk, Live(f)) \cup X
  BY <1>9 DEF SectorsOf
<1>14. Apart(h.disk, L)
  <2>1. L \subseteq Sector
    BY <1>1, <1>10
  <2>2. \A t \in Live(f) : /\ h.disk.inode[t] \in Inode
                           /\ FileSectors(h.disk.inode[t], t) \subseteq Sector \ System
                           /\ t \notin Extent(h.disk.inode[t].start, bytes_to_sectors(h.disk.inode[t].length))
    BY <1>9 DEF Apart
  <2>3. s \notin Extent(h.disk.inode[s].start, bytes_to_sectors(h.disk.inode[s].length))
    BY DEF NewInode, DataSectors
  <2>4. \A t \in L : /\ h.disk.inode[t] \in Inode
                     /\ FileSectors(h.disk.inode[t], t) \subseteq Sector \ System
                     /\ t \notin Extent(h.disk.inode[t].start, bytes_to_sectors(h.disk.inode[t].length))
    BY <2>2, <2>3, <1>1, <1>11
  <2>5. ASSUME NEW t \in L, NEW u \in L, t # u
        PROVE  FileSectors(h.disk.inode[t], t) \cap FileSectors(h.disk.inode[u], u) = {}
    <3> HIDE DEF X
    <3>1. CASE t \in Live(f) /\ u \in Live(f)
      BY <3>1, <2>5, <1>9 DEF Apart
    <3>2. CASE t = s /\ u \in Live(f)
      BY <3>2, <1>11, <1>12 DEF X
    <3>3. CASE t \in Live(f) /\ u = s
      BY <3>3, <1>11, <1>12 DEF X
    <3> QED BY <3>1, <3>2, <3>3, <2>5
  <2> QED BY <2>1, <2>4, <2>5 DEF Apart
<1> HIDE DEF X
<1>15. Live(g) = L
  BY <1>5, <1>8 DEF Live
<1> HIDE DEF L
<1>16. SectorsOf(g.disk, L) = SectorsOf(f.disk, Live(f)) \cup X /\ Apart(g.disk, L)
  BY <1>5, <1>13, <1>14, SectorsAgree
<1>17. Sound(g.disk)
  <2>1. g.disk \in Image
    BY <1>5, SystemType
  <2>2. ASSUME NEW j \in Entries(g.disk), NEW k \in Entries(g.disk), j # k
        PROVE  g.disk.dir[j].name # g.disk.dir[k].name /\ g.disk.dir[j].sector # g.disk.dir[k].sector
    <3>1. \A m \in Entries(f.disk) : f.disk.dir[m].name # name /\ f.disk.dir[m].sector # s
      <4>1. \A m \in Entries(f.disk) : f.disk.dir[m].name # name
        BY DEF dir_add_fails, lookup, Entries
      <4>2. \A m \in Entries(f.disk) : f.disk.dir[m].sector \in EntrySectors(f.disk)
        BY DEF EntrySectors
      <4> QED BY <4>1, <4>2, <1>1, <1>10
    <3>2. CASE j = i
      BY <3>1, <3>2, <2>2, <1>3, <1>5, <1>6, <1>7
    <3>3. CASE k = i
      BY <3>1, <3>3, <2>2, <1>3, <1>5, <1>6, <1>7
    <3>4. CASE j # i /\ k # i
      BY <3>4, <2>2, <1>6, <1>7 DEF Stable, Sound
    <3> QED BY <3>2, <3>3, <3>4
  <2>3. Apart(g.disk, EntrySectors(g.disk))
    <3>1. EntrySectors(g.disk) \subseteq L
      BY <1>8, <1>10 DEF L
    <3> QED BY <3>1, <1>16, ApartFewer
  <2>4. System \cup Named(g.disk) \subseteq g.disk.marked
    <3>1. Named(g.disk) \subseteq SectorsOf(g.disk, L)
      BY <1>8, <1>10, NamedSectors DEF SectorsOf, L
    <3>2. g.disk.marked = f.free_map \cup {s} \cup E
      BY <1>5 DEF NewInode
    <3> QED BY <3>1, <3>2, <1>10, <1>11, <1>16
  <2> QED BY <2>1, <2>2, <2>3, <2>4 DEF Sound
<1>18. Kept(g)
  <2>1. \A t \in DOMAIN f.inodes : h.disk.inode[t] = f.disk.inode[t] /\ t # s
    BY <1>1, <1>10 DEF NewInode
  <2> QED BY <2>1, <1>5, <1>8, <1>15, <1>16 DEF Kept, Stable
<1>19. Accounted(g, lost)
  <2>1. /\ f.free_map = System \cup SectorsOf(f.disk, Live(f)) \cup lost
        /\ SectorsOf(f.disk, Live(f)) \cap lost = {}
    BY DEF Stable, Accounted
  <2>2. g.free_map = f.free_map \cup X /\ g.disk.marked = g.free_map
    BY <1>5, <1>11 DEF NewInode
  <2>3. X \cap lost = {}
    BY <2>1, <1>11
  <2> QED BY <2>1, <2>2, <2>3, <1>15, <1>16 DEF Accounted
<1> QED BY <1>4, <1>5, <1>15, <1>17, <1>18, <1>19 DEF Stable, L

\* The inode that filesys_create makes.
LEMMA FileMadeNew ==
  ASSUME NEW f, NEW lost, Stable(f, lost), NEW size \in Nat, bitmap_scan(f.free_map, 1) # None,
         bitmap_scan(free_map_allocate(f, bitmap_scan(f.free_map, 1), 1).free_map,
                     bytes_to_sectors(size)) # None
  PROVE  LET sector == bitmap_scan(f.free_map, 1)
             f1 == free_map_allocate(f, sector, 1)
             start == bitmap_scan(f1.free_map, bytes_to_sectors(size))
         IN  NewInode(f, inode_create(f1, sector, start, size), sector,
                      Extent(start, bytes_to_sectors(size)), size)
<1> DEFINE sector == bitmap_scan(f.free_map, 1)
           f1 == free_map_allocate(f, sector, 1)
           start == bitmap_scan(f1.free_map, bytes_to_sectors(size))
           g == inode_create(f1, sector, start, size)
           E == Extent(start, bytes_to_sectors(size))
<1>1. /\ sector \in Sector /\ sector \notin f.free_map /\ start \in Nat
      /\ E \subseteq Sector /\ E \cap (f.free_map \cup {sector}) = {}
      /\ g \in FileSystem /\ Log(g) /\ Sound(g.disk) /\ g.inodes = f.inodes
      /\ g.free_map = f.free_map \cup {sector} \cup E /\ g.disk.marked = g.free_map
      /\ g.disk.dir = f.disk.dir /\ g.disk.inode[sector] = [start |-> start, length |-> size]
      /\ \A t \in E : g.disk.data[t] = Zeros(SECTOR_SIZE)
      /\ \A t \in f.free_map : /\ g.disk.inode[t] = f.disk.inode[t]
                               /\ g.disk.data[t] = f.disk.data[t]
  BY FileMade, SMTT(40)
<1> HIDE DEF g
<1>2. /\ g.disk.inode[sector] \in Inode /\ DataSectors(g.disk.inode[sector]) = E
      /\ g.disk.inode[sector].length = size
  BY <1>1 DEF Inode, DataSectors
<1> HIDE DEF E, start, f1, sector
<1>3. NewInode(f, g, sector, E, size)
  BY <1>1, <1>2 DEF NewInode
<1> QED BY <1>3 DEF g, E, start, f1, sector

----------------------------------------------------------------------------
(* Counting open files. *)

\* The descriptors of fl for inode s.
Uses(fl, s) == {x \in Process \X (1 .. MaxFd) :
                  x[2] \in DOMAIN fl[x[1]] /\ fl[x[1]][x[2]].sector = s}

\* They are finitely many.
LEMMA UsesFinite ==
  ASSUME NEW fl, NEW s
  PROVE  IsFiniteSet(Uses(fl, s)) /\ Cardinality(Uses(fl, s)) \in Nat
<1>1. IsFiniteSet(Process) /\ IsFiniteSet(1 .. MaxFd)
  BY FilesAssumption, FS_Interval
<1>2. IsFiniteSet(Process \X (1 .. MaxFd))
  BY <1>1, FS_Product
<1>3. Uses(fl, s) \in SUBSET (Process \X (1 .. MaxFd))
  BY DEF Uses
<1>4. IsFiniteSet(Uses(fl, s))
  BY <1>2, <1>3, FS_Subset
<1> QED BY <1>4, FS_CardinalityType

\* So are the processes that run it.
LEMMA RunsFinite == ASSUME NEW s PROVE IsFiniteSet(RunsOf(s)) /\ Cardinality(RunsOf(s)) \in Nat
<1>1. RunsOf(s) \in SUBSET Process
  BY DEF RunsOf
<1>2. IsFiniteSet(RunsOf(s))
  BY <1>1, FilesAssumption, FS_Subset
<1> QED BY <1>2, FS_CardinalityType

\* A descriptor is added at the end.
LEMMA UsesAppended ==
  ASSUME NEW fl \in [Process -> Seq(File)], NEW p \in Process, Len(fl[p]) < MaxFd, NEW e \in File, NEW s
  PROVE  Cardinality(Uses([fl EXCEPT ![p] = Append(@, e)], s)) =
           IF s = e.sector THEN Cardinality(Uses(fl, s)) + 1 ELSE Cardinality(Uses(fl, s))
<1> DEFINE gl == [fl EXCEPT ![p] = Append(@, e)]
           x == <<p, Len(fl[p]) + 1>>
<1>1. /\ fl[p] \in Seq(File) /\ Len(fl[p]) \in Nat /\ Append(fl[p], e) \in Seq(File)
      /\ DOMAIN fl[p] = 1 .. Len(fl[p]) /\ DOMAIN Append(fl[p], e) = 1 .. Len(fl[p]) + 1
      /\ Append(fl[p], e)[Len(fl[p]) + 1] = e
      /\ \A k \in 1 .. Len(fl[p]) : Append(fl[p], e)[k] = fl[p][k]
  OBVIOUS
<1>2. gl[p] = Append(fl[p], e) /\ \A q \in Process \ {p} : gl[q] = fl[q]
  OBVIOUS
<1> HIDE DEF gl
<1>3. x \in Process \X (1 .. MaxFd) /\ x[1] = p /\ x[2] = Len(fl[p]) + 1
  BY <1>1, FilesAssumption
<1>4. x \notin Uses(fl, s)
  BY <1>1, <1>3 DEF Uses
<1>5. \A y \in Process \X (1 .. MaxFd) :
         y # x => (y[2] \in DOMAIN gl[y[1]] /\ gl[y[1]][y[2]].sector = s
                     <=> y[2] \in DOMAIN fl[y[1]] /\ fl[y[1]][y[2]].sector = s)
  <2> SUFFICES ASSUME NEW q \in Process, NEW k \in 1 .. MaxFd, ~(q = p /\ k = Len(fl[p]) + 1)
               PROVE  k \in DOMAIN gl[q] /\ gl[q][k].sector = s
                        <=> k \in DOMAIN fl[q] /\ fl[q][k].sector = s
    OBVIOUS
  <2>1. CASE q # p
    BY <2>1, <1>2
  <2>2. CASE q = p
    <3>1. k \in 1 .. Len(fl[p]) + 1 <=> k \in 1 .. Len(fl[p])
      BY <2>2, <1>1
    <3> QED BY <3>1, <2>2, <1>1, <1>2
  <2> QED BY <2>1, <2>2
<1>6. x[2] \in DOMAIN gl[x[1]] /\ gl[x[1]][x[2]] = e
  BY <1>1, <1>2, <1>3
<1> HIDE DEF x
<1>7. Uses(gl, s) = IF s = e.sector THEN Uses(fl, s) \cup {x} ELSE Uses(fl, s)
  <2>1. x \in Uses(gl, s) <=> s = e.sector
    BY <1>3, <1>6 DEF Uses
  <2>2. \A y : y # x => (y \in Uses(gl, s) <=> y \in Uses(fl, s))
    BY <1>5 DEF Uses
  <2>3. \A y : y \in Uses(gl, s) <=> y \in (IF s = e.sector THEN Uses(fl, s) \cup {x} ELSE Uses(fl, s))
    BY <2>1, <2>2, <1>4
  <2> QED BY <2>3
<1>8. IsFiniteSet(Uses(fl, s))
  BY UsesFinite
<1>9. Cardinality(Uses(fl, s) \cup {x}) = Cardinality(Uses(fl, s)) + 1
  BY <1>4, <1>8, FS_AddElement
<1> QED BY <1>7, <1>9 DEF gl

\* A descriptor is taken out.
LEMMA UsesRemoved ==
  ASSUME NEW fl \in [Process -> Seq(File)], NEW gl, NEW p \in Process, NEW k \in 1 .. Len(fl[p]),
         Len(fl[p]) <= MaxFd, \A q \in Process \ {p} : gl[q] = fl[q],
         DOMAIN gl[p] = 1 .. Len(fl[p]) - 1,
         \A j \in 1 .. Len(fl[p]) - 1 : gl[p][j] = fl[p][IF j < k THEN j ELSE j + 1], NEW s
  PROVE  Cardinality(Uses(gl, s)) =
           IF s = fl[p][k].sector THEN Cardinality(Uses(fl, s)) - 1 ELSE Cardinality(Uses(fl, s))
<1> DEFINE x == <<p, k>>
           T == Uses(fl, s) \ {x}
           back(y) == IF y[1] = p /\ y[2] >= k THEN <<p, y[2] + 1>> ELSE y
           F == [y \in Uses(gl, s) |-> back(y)]
<1>1. Len(fl[p]) \in Nat /\ DOMAIN fl[p] = 1 .. Len(fl[p]) /\ MaxFd \in Nat /\ k \in Nat
  BY FilesAssumption
<1>2. ASSUME NEW y \in Uses(gl, s) PROVE back(y) \in T
  <2>1. PICK q \in Process, j \in 1 .. MaxFd : y = <<q, j>> /\ j \in DOMAIN gl[q] /\ gl[q][j].sector = s
    BY DEF Uses
  <2>2. CASE q # p
    <3>1. back(y) = y /\ y # x
      BY <2>1, <2>2
    <3> QED BY <3>1, <2>1, <2>2 DEF Uses
  <2>3. CASE q = p /\ j >= k
    <3>1. back(y) = <<p, j + 1>> /\ j + 1 \in 1 .. Len(fl[p]) /\ fl[p][j + 1].sector = s /\ j + 1 # k
      <4>1. j \in 1 .. Len(fl[p]) - 1 /\ j \in Nat /\ ~(j < k)
        BY <2>1, <2>3, <1>1
      <4>2. gl[p][j] = fl[p][j + 1]
        BY <4>1
      <4>3. j + 1 \in 1 .. Len(fl[p]) /\ j + 1 # k
        BY <4>1, <1>1
      <4>4. back(y) = <<p, j + 1>>
        BY <2>1, <2>3
      <4> QED BY <4>2, <4>3, <4>4, <2>1, <2>3
    <3>2. j + 1 \in 1 .. MaxFd
      BY <3>1, <1>1
    <3>3. <<p, j + 1>> \in Uses(fl, s) /\ <<p, j + 1>> # x
      BY <3>1, <3>2, <1>1 DEF Uses
    <3> QED BY <3>1, <3>3
  <2>4. CASE q = p /\ j < k
    <3>1. back(y) = <<p, j>> /\ j \in 1 .. Len(fl[p]) /\ fl[p][j].sector = s /\ j # k
      <4>1. j \in 1 .. Len(fl[p]) - 1 /\ j < k
        BY <2>1, <2>4, <1>1
      <4>2. gl[p][j] = fl[p][j] /\ ~(j >= k) /\ j # k /\ j \in 1 .. Len(fl[p])
        BY <4>1, <1>1
      <4> QED BY <4>2, <2>1, <2>4
    <3>2. <<p, j>> \in Uses(fl, s) /\ <<p, j>> # x
      BY <3>1, <1>1 DEF Uses
    <3> QED BY <3>1, <3>2
  <2> QED BY <2>2, <2>3, <2>4, <2>1, <1>1
<1>3. ASSUME NEW y \in Uses(gl, s), NEW z \in Uses(gl, s), back(y) = back(z) PROVE y = z
  <2>1. PICK q \in Process, j \in 1 .. MaxFd : y = <<q, j>>
    BY DEF Uses
  <2>2. PICK r \in Process, l \in 1 .. MaxFd : z = <<r, l>>
    BY DEF Uses
  <2> QED BY <2>1, <2>2, <1>1, <1>3
<1>4. ASSUME NEW t \in T PROVE \E y \in Uses(gl, s) : back(y) = t
  <2>1. PICK q \in Process, j \in 1 .. MaxFd :
          t = <<q, j>> /\ j \in DOMAIN fl[q] /\ fl[q][j].sector = s /\ ~(q = p /\ j = k)
    BY DEF Uses
  <2>2. CASE q # p
    <3>1. t \in Uses(gl, s) /\ back(t) = t
      BY <2>1, <2>2 DEF Uses
    <3> QED BY <3>1
  <2>3. CASE q = p /\ j < k
    <3>1. j \in 1 .. Len(fl[p]) - 1 /\ gl[p][j] = fl[p][j]
      BY <2>1, <2>3, <1>1
    <3>2. t \in Uses(gl, s) /\ back(t) = t
      BY <2>1, <2>3, <3>1, <1>1 DEF Uses
    <3> QED BY <3>2
  <2>4. CASE q = p /\ j > k
    <3>1. j - 1 \in 1 .. Len(fl[p]) - 1 /\ gl[p][j - 1] = fl[p][j] /\ j - 1 >= k /\ j - 1 \in 1 .. MaxFd
      BY <2>1, <2>4, <1>1
    <3>2. <<p, j - 1>> \in Uses(gl, s)
      BY <2>1, <2>4, <3>1 DEF Uses
    <3>3. back(<<p, j - 1>>) = t
      BY <2>1, <2>4, <3>1
    <3> QED BY <3>2, <3>3
  <2>5. j < k \/ j > k \/ j = k
    BY <1>1
  <2> QED BY <2>1, <2>2, <2>3, <2>4, <2>5
<1> HIDE DEF T, back
<1>5. F \in Bijection(Uses(gl, s), T)
  <2>1. F \in [Uses(gl, s) -> T] /\ \A y \in Uses(gl, s) : F[y] = back(y)
    BY <1>2
  <2> HIDE DEF F
  <2> QED BY <2>1, <1>3, <1>4, Fun_IsBij
<1>6. Cardinality(T) = Cardinality(Uses(gl, s))
  BY <1>5, UsesFinite, FS_Bijection DEF ExistsBijection
<1>7. x \in Uses(fl, s) <=> s = fl[p][k].sector
  BY <1>1 DEF Uses
<1>8. Cardinality(T) = IF x \in Uses(fl, s) THEN Cardinality(Uses(fl, s)) - 1 ELSE Cardinality(Uses(fl, s))
  BY UsesFinite, FS_RemoveElement DEF T
<1> QED BY <1>6, <1>7, <1>8

----------------------------------------------------------------------------
(* Sequences joined. *)

\* FlattenSeq joins the sequences one by one.
LEMMA FlattenSteps ==
  ASSUME NEW seqs, Len(seqs) \in Nat, Len(seqs) # 0
  PROVE  \E W : /\ W[1] = seqs[1] /\ FlattenSeq(seqs) = W[Len(seqs)]
                /\ \A k \in 2 .. Len(seqs) : W[k] = W[k - 1] \o seqs[k]
<1> DEFINE Join(a, k) == a \o seqs[k]
           Loop(m, g) == g = [i \in 1 .. m |-> IF i = 1 THEN seqs[i] ELSE Join(g[i - 1], i)]
           HasLoop(m) == \E g : Loop(m, g)
           NoLoop == {m \in 1 .. Len(seqs) : ~HasLoop(m)}
<1>0. Len(seqs) \in Nat /\ Len(seqs) # 0
  OBVIOUS
<1> HIDE DEF Join
<1>1. NoLoop = {}
  <2> SUFFICES ASSUME NoLoop # {} PROVE FALSE
    OBVIOUS
  <2>1. PICK m \in NoLoop : \A n \in NoLoop : m <= n
    <3>1. NoLoop \subseteq Nat
      <4> HIDE DEF HasLoop
      <4> QED BY <1>0
    <3> QED BY <3>1, LeastElement
  <2>2. m \in 1 .. Len(seqs)
    BY <2>1
  <2>3. CASE m = 1
    <3>1. Loop(1, [i \in 1 .. 1 |-> seqs[i]])
      OBVIOUS
    <3> QED BY <2>1, <2>3, <3>1
  <2>4. CASE m # 1
    <3>1. m - 1 \in 1 .. Len(seqs) /\ HasLoop(m - 1)
      <4> HIDE DEF HasLoop
      <4> QED BY <2>1, <2>2, <2>4, <1>0
    <3>2. PICK g : Loop(m - 1, g)
      BY <3>1
    <3> DEFINE h == [i \in 1 .. m |-> IF i = m THEN Join(g[m - 1], m) ELSE g[i]]
    <3>3. \A k \in 1 .. m : h[k] = IF k = 1 THEN seqs[k] ELSE Join(h[k - 1], k)
      <4> SUFFICES ASSUME NEW k \in 1 .. m
                   PROVE  h[k] = IF k = 1 THEN seqs[k] ELSE Join(h[k - 1], k)
        OBVIOUS
      <4>1. CASE k = m
        <5>1. h[k] = Join(g[m - 1], m) /\ k - 1 \in 1 .. m /\ k - 1 # m
          BY <4>1, <2>2, <2>4, <1>0
        <5>2. h[k - 1] = g[m - 1]
          BY <5>1, <4>1
        <5> QED BY <5>1, <5>2, <4>1, <2>4
      <4>2. CASE k # m
        <5>1. k \in 1 .. m - 1
          BY <4>2, <2>2, <1>0
        <5>2. g[k] = IF k = 1 THEN seqs[k] ELSE Join(g[k - 1], k)
          BY <5>1, <3>2
        <5>3. h[k] = g[k] /\ (k # 1 => h[k - 1] = g[k - 1])
          BY <5>1, <2>2, <1>0
        <5> QED BY <5>2, <5>3
      <4> QED BY <4>1, <4>2
    <3>4. Loop(m, h)
      BY <3>3
    <3> HIDE DEF h
    <3> QED BY <3>4, <2>1
  <2> QED BY <2>3, <2>4
<1>2. \E g : Loop(Len(seqs), g)
  BY <1>1, <1>0
<1> DEFINE W == CHOOSE g : Loop(Len(seqs), g)
<1>3. Loop(Len(seqs), W)
  BY <1>2
<1>4. FlattenSeq(seqs) = W[Len(seqs)]
  BY <1>0 DEF FlattenSeq, Join
<1> HIDE DEF W
<1>5. \A k \in 1 .. Len(seqs) : W[k] = IF k = 1 THEN seqs[k] ELSE Join(W[k - 1], k)
  BY <1>3
<1>6. W[1] = seqs[1] /\ \A k \in 2 .. Len(seqs) : W[k] = W[k - 1] \o seqs[k]
  <2>1. W[1] = seqs[1]
    BY <1>5, <1>0
  <2>2. \A k \in 2 .. Len(seqs) : k \in 1 .. Len(seqs) /\ k # 1
    BY <1>0
  <2>3. \A k \in 2 .. Len(seqs) : W[k] = Join(W[k - 1], k)
    BY <1>5, <2>2
  <2> QED BY <2>1, <2>3 DEF Join
<1> QED BY <1>4, <1>6

\* Sequences joined are a sequence.
LEMMA FlattenType ==
  ASSUME NEW S, NEW seqs \in Seq(Seq(S))
  PROVE  FlattenSeq(seqs) \in Seq(S)
<1>0. Len(seqs) \in Nat /\ \A k \in 1 .. Len(seqs) : seqs[k] \in Seq(S)
  OBVIOUS
<1>1. CASE Len(seqs) = 0
  <2>1. FlattenSeq(seqs) = seqs /\ seqs = <<>>
    BY <1>1 DEF FlattenSeq
  <2> QED BY <2>1
<1>2. CASE Len(seqs) # 0
  <2>1. PICK W : /\ W[1] = seqs[1] /\ FlattenSeq(seqs) = W[Len(seqs)]
                 /\ \A k \in 2 .. Len(seqs) : W[k] = W[k - 1] \o seqs[k]
    BY <1>0, <1>2, FlattenSteps
  <2> DEFINE Bad == {k \in 1 .. Len(seqs) : W[k] \notin Seq(S)}
  <2>2. Bad = {}
    <3> SUFFICES ASSUME Bad # {} PROVE FALSE
      OBVIOUS
    <3>1. PICK k \in Bad : \A n \in Bad : k <= n
      <4>1. Bad \subseteq Nat
        BY <1>0
      <4> QED BY <4>1, LeastElement
    <3>2. CASE k = 1
      <4>1. 1 \in 1 .. Len(seqs)
        BY <1>0, <1>2
      <4>2. W[1] \in Seq(S)
        BY <4>1, <2>1, <1>0
      <4>3. W[k] \notin Seq(S)
        BY <3>1
      <4> QED BY <4>2, <4>3, <3>2
    <3>3. CASE k # 1
      <4>1. k - 1 \in 1 .. Len(seqs) /\ k \in 2 .. Len(seqs) /\ k - 1 \notin Bad
        BY <3>1, <3>3, <1>0
      <4>2. W[k - 1] \in Seq(S) /\ seqs[k] \in Seq(S) /\ W[k] = W[k - 1] \o seqs[k]
        BY <4>1, <2>1, <1>0
      <4>3. W[k - 1] \o seqs[k] \in Seq(S)
        BY <4>2, ConcatProperties
      <4> QED BY <4>2, <4>3, <3>1
    <3> QED BY <3>2, <3>3
  <2> QED BY <2>1, <2>2, <1>0, <1>2, SMTT(40)
<1> QED BY <1>1, <1>2

\* Reading gives bytes.
LEMMA ReadType ==
  ASSUME NEW d \in Image, NEW i \in Inode, DataSectors(i) \subseteq Sector, NEW size \in Nat, NEW offset \in Nat
  PROVE  inode_read_at(d, i, size, offset) \in Seq(Nat)
<1> DEFINE cs == Chunks(i, size, offset)
           piece(k) == SubSeq(d.data[cs[k].sector], cs[k].ofs + 1, cs[k].ofs + cs[k].len)
           pieces == [k \in DOMAIN cs |-> piece(k)]
<1>1. PiecesFrom(cs, 0, i, size, offset) /\ \A k \in DOMAIN cs : cs[k].sector \in Sector
  BY ChunksArePieces, ChunksInside DEF DataSectors
<1> HIDE DEF cs
<1>2. Len(cs) \in Nat /\ DOMAIN cs = 1 .. Len(cs)
  BY <1>1 DEF PiecesFrom
<1>3. ASSUME NEW k \in 1 .. Len(cs) PROVE piece(k) \in Seq(Nat)
  <2>1. /\ cs[k].ofs \in Nat /\ cs[k].len \in Nat /\ cs[k].ofs + cs[k].len <= SECTOR_SIZE
        /\ cs[k].sector \in Sector
    BY <1>1, <1>2 DEF PiecesFrom, Piece
  <2>2. d.data[cs[k].sector] \in [1 .. SECTOR_SIZE -> Nat]
    BY <2>1 DEF Image
  <2>3. /\ cs[k].ofs + 1 \in Int /\ cs[k].ofs + cs[k].len \in Int
        /\ \A j \in cs[k].ofs + 1 .. cs[k].ofs + cs[k].len : d.data[cs[k].sector][j] \in Nat
    <3>1. \A j \in cs[k].ofs + 1 .. cs[k].ofs + cs[k].len : j \in 1 .. SECTOR_SIZE
      BY <2>1, Sizing
    <3> DEFINE b == d.data[cs[k].sector]
    <3>2. \A j \in 1 .. SECTOR_SIZE : b[j] \in Nat
      BY <2>2
    <3> HIDE DEF b
    <3>3. cs[k].ofs + 1 \in Int /\ cs[k].ofs + cs[k].len \in Int
      BY <2>1
    <3> QED BY <3>1, <3>2, <3>3 DEF b
  <2> QED BY <2>3, SubSeqProperties
<1> HIDE DEF piece
<1>4. pieces \in Seq(Seq(Nat))
  BY <1>2, <1>3
<1>5. FlattenSeq(pieces) \in Seq(Nat)
  BY <1>4, FlattenType
<1> QED BY <1>5 DEF inode_read_at, piece, cs

----------------------------------------------------------------------------
(* What a file contains. *)

\* The bytes of inode i on image d are those of c.
Content(d, i, c) ==
    /\ c \in Seq(Nat) /\ Len(c) = i.length
    /\ \A pos \in 0 .. i.length - 1 :
         c[pos + 1] = d.data[i.start + (pos \div SECTOR_SIZE)][(pos % SECTOR_SIZE) + 1]

\* Positions in one sector.
LEMMA SameSector ==
  ASSUME NEW a \in Nat, NEW b \in Nat, (a % SECTOR_SIZE) + b < SECTOR_SIZE
  PROVE  (a + b) \div SECTOR_SIZE = a \div SECTOR_SIZE /\ (a + b) % SECTOR_SIZE = (a % SECTOR_SIZE) + b
<1> DEFINE n == SECTOR_SIZE
           q == a \div n
           r == a % n
           x == (a + b) \div n
           y == (a + b) % n
<1>1. n \in Nat /\ n > 0
  BY Sizing
<1>2. /\ q \in Int /\ r \in 0 .. n - 1 /\ a = n * q + r
      /\ x \in Int /\ y \in 0 .. n - 1 /\ a + b = n * x + y
  BY <1>1
<1>3. r + b < n
  OBVIOUS
<1> HIDE DEF n, q, r, x, y
<1>4. n * x + y = n * q + (r + b)
  BY <1>1, <1>2
<1>5. q <= x
  <2> SUFFICES ASSUME x + 1 <= q PROVE FALSE
    BY <1>2
  <2>1. n * (x + 1) <= n * q
    BY <1>1, <1>2
  <2>2. n * (x + 1) = n * x + n
    BY <1>1, <1>2
  <2> QED BY <2>1, <2>2, <1>1, <1>2, <1>4
<1>6. x <= q
  <2> SUFFICES ASSUME q + 1 <= x PROVE FALSE
    BY <1>2
  <2>1. n * (q + 1) <= n * x
    BY <1>1, <1>2
  <2>2. n * (q + 1) = n * q + n
    BY <1>1, <1>2
  <2> QED BY <2>1, <2>2, <1>1, <1>2, <1>3, <1>4
<1>7. x = q /\ y = r + b
  BY <1>1, <1>2, <1>4, <1>5, <1>6
<1> QED BY <1>7 DEF n, q, r, x, y

\* Positions in one sector are as far apart as their offsets.
LEMMA SectorOffsets ==
  ASSUME NEW a \in Nat, NEW b \in Nat, a \div SECTOR_SIZE = b \div SECTOR_SIZE
  PROVE  a - b = (a % SECTOR_SIZE) - (b % SECTOR_SIZE)
<1> DEFINE n == SECTOR_SIZE
           q == a \div n
           r == a % n
           x == b \div n
           y == b % n
<1>1. n \in Nat /\ n > 0
  BY Sizing
<1>2. /\ q \in Int /\ r \in 0 .. n - 1 /\ a = n * q + r
      /\ x \in Int /\ y \in 0 .. n - 1 /\ b = n * x + y
  BY <1>1
<1>3. x = q
  OBVIOUS
<1> HIDE DEF n, q, r, x, y
<1>4. a - b = r - y
  BY <1>1, <1>2, <1>3
<1> QED BY <1>4 DEF n, r, y

\* A byte of a file is in its data.
LEMMA BytePlace ==
  ASSUME NEW i \in Inode, NEW pos \in 0 .. i.length - 1
  PROVE  /\ i.start + (pos \div SECTOR_SIZE) \in DataSectors(i)
         /\ (pos % SECTOR_SIZE) + 1 \in 1 .. SECTOR_SIZE
         /\ pos \in Nat /\ pos \div SECTOR_SIZE \in Nat /\ pos % SECTOR_SIZE \in Nat
<1>1. i.start \in Nat /\ i.length \in Nat /\ pos \in Nat /\ pos < i.length
  BY DEF Inode
<1>2. /\ bytes_to_sectors(i.length) \in Nat /\ pos \div SECTOR_SIZE \in Nat
      /\ pos \div SECTOR_SIZE < bytes_to_sectors(i.length)
  BY <1>1, Rounding
<1>3. pos % SECTOR_SIZE \in 0 .. SECTOR_SIZE - 1
  BY <1>1, Sizing
<1> DEFINE q == pos \div SECTOR_SIZE
           r == pos % SECTOR_SIZE
           n == bytes_to_sectors(i.length)
<1> HIDE DEF q, r, n
<1>4. i.start + q \in i.start .. i.start + n - 1
  BY <1>1, <1>2 DEF q, n
<1>5. r + 1 \in 1 .. SECTOR_SIZE /\ r \in Nat
  BY <1>3, Sizing DEF r
<1> QED BY <1>1, <1>2, <1>4, <1>5 DEF DataSectors, Extent, q, r, n

\* The content is in the sectors of the data.
LEMMA ContentSame ==
  ASSUME NEW d, NEW e, NEW i \in Inode, NEW c, \A t \in DataSectors(i) : d.data[t] = e.data[t],
         Content(e, i, c)
  PROVE  Content(d, i, c)
<1>1. ASSUME NEW pos \in 0 .. i.length - 1
      PROVE  c[pos + 1] = d.data[i.start + (pos \div SECTOR_SIZE)][(pos % SECTOR_SIZE) + 1]
  <2> DEFINE t == i.start + (pos \div SECTOR_SIZE)
             r == (pos % SECTOR_SIZE) + 1
  <2>1. t \in DataSectors(i)
    BY BytePlace
  <2>2. c[pos + 1] = e.data[t][r]
    BY DEF Content
  <2> HIDE DEF t, r
  <2>3. d.data[t] = e.data[t]
    BY <2>1
  <2>4. c[pos + 1] = d.data[t][r]
    BY <2>2, <2>3
  <2> QED BY <2>4 DEF t, r
<1> QED BY <1>1 DEF Content

\* The bytes of a piece.
LEMMA PieceBytes ==
  ASSUME NEW d \in Image, NEW i \in Inode, DataSectors(i) \subseteq Sector, NEW c, Content(d, i, c),
         NEW size \in Nat, NEW offset \in Nat, NEW x, Piece(x, i, size, offset)
  PROVE  LET b == SubSeq(d.data[x.sector], x.ofs + 1, x.ofs + x.len)
         IN  /\ b \in Seq(Nat) /\ Len(b) = x.len
             /\ \A j \in 1 .. x.len : b[j] = c[offset + x.done + j]
<1> DEFINE a == offset + x.done
           s == d.data[x.sector]
           b == SubSeq(s, x.ofs + 1, x.ofs + x.len)
<1>1. /\ x.sector = i.start + (a \div SECTOR_SIZE) /\ x.ofs = a % SECTOR_SIZE
      /\ x.ofs \in Nat /\ x.len \in Nat /\ x.done \in Nat /\ a \in Nat
      /\ x.len > 0 /\ x.ofs + x.len <= SECTOR_SIZE /\ a + x.len <= i.length
      /\ i.length \in Nat
  BY DEF Piece, Inode
<1>2. SECTOR_SIZE \in Nat /\ SECTOR_SIZE > 0
  BY Sizing
<1> HIDE DEF a
<1>3. a \in 0 .. i.length - 1
  BY <1>1
<1>4. s \in [1 .. SECTOR_SIZE -> Nat]
  <2>1. x.sector \in Sector
    BY <1>1, <1>3, BytePlace
  <2> QED BY <2>1 DEF Image
<1>5. \A j \in 1 .. x.len : s[x.ofs + j] = c[a + j]
  <2> SUFFICES ASSUME NEW j \in 1 .. x.len PROVE s[x.ofs + j] = c[a + j]
    OBVIOUS
  <2> DEFINE m == j - 1
  <2>1. m \in Nat /\ (a % SECTOR_SIZE) + m < SECTOR_SIZE /\ a + m \in 0 .. i.length - 1
        /\ a + m + 1 = a + j /\ x.ofs + m + 1 = x.ofs + j
    BY <1>1, <1>2
  <2> HIDE DEF m
  <2>2. (a + m) \div SECTOR_SIZE = a \div SECTOR_SIZE /\ (a + m) % SECTOR_SIZE = x.ofs + m
    BY <2>1, <1>1, SameSector
  <2>3. c[a + m + 1] = d.data[i.start + ((a + m) \div SECTOR_SIZE)][((a + m) % SECTOR_SIZE) + 1]
    BY <2>1 DEF Content
  <2> QED BY <2>1, <2>2, <2>3, <1>1
<1>6. /\ b \in Seq(Nat) /\ Len(b) = x.len /\ \A j \in 1 .. x.len : b[j] = s[x.ofs + j]
  <2> DEFINE lo == x.ofs + 1
             hi == x.ofs + x.len
  <2>1. /\ lo \in 1 .. SECTOR_SIZE /\ hi \in 1 .. SECTOR_SIZE /\ lo <= hi
        /\ (hi - lo) + 1 = x.len /\ \A j \in 1 .. x.len : (lo + j) - 1 = x.ofs + j
    BY <1>1, <1>2
  <2> HIDE DEF lo, hi, s
  <2>2. s \in Seq(Nat) /\ Len(s) = SECTOR_SIZE
    BY <1>2, <1>4
  <2>3. /\ SubSeq(s, lo, hi) \in Seq(Nat)
        /\ Len(SubSeq(s, lo, hi)) = (hi - lo) + 1
        /\ \A j \in 1 .. (hi - lo) + 1 : SubSeq(s, lo, hi)[j] = s[(lo + j) - 1]
    BY <2>1, <2>2
  <2>4. b = SubSeq(s, lo, hi)
    BY DEF s, lo, hi
  <2> HIDE DEF b
  <2> QED BY <2>1, <2>3, <2>4
<1> QED BY <1>5, <1>6, <1>1 DEF a

\* Sequence k has the bytes of c from where the one before it ends up to e[k].
PartsOf(seqs, c, e) ==
    /\ e[0] = 0
    /\ \A k \in 1 .. Len(seqs) : /\ e[k] = e[k - 1] + Len(seqs[k])
                                  /\ \A j \in 1 .. Len(seqs[k]) : seqs[k][j] = c[e[k - 1] + j]

\* Joined, they are c.
LEMMA Joined ==
  ASSUME NEW seqs \in Seq(Seq(Nat)), Len(seqs) # 0, NEW c, NEW e, PartsOf(seqs, c, e)
  PROVE  /\ FlattenSeq(seqs) \in Seq(Nat) /\ Len(FlattenSeq(seqs)) = e[Len(seqs)]
         /\ \A j \in 1 .. e[Len(seqs)] : FlattenSeq(seqs)[j] = c[j]
<1>0. /\ Len(seqs) \in Nat /\ Len(seqs) # 0
      /\ \A k \in 1 .. Len(seqs) : seqs[k] \in Seq(Nat) /\ Len(seqs[k]) \in Nat
  OBVIOUS
<1>4. e[0] = 0 /\ \A k \in 1 .. Len(seqs) : /\ e[k] = e[k - 1] + Len(seqs[k])
                                              /\ \A j \in 1 .. Len(seqs[k]) : seqs[k][j] = c[e[k - 1] + j]
  BY DEF PartsOf
<1>1. PICK W : /\ W[1] = seqs[1] /\ FlattenSeq(seqs) = W[Len(seqs)]
               /\ \A k \in 2 .. Len(seqs) : W[k] = W[k - 1] \o seqs[k]
  BY <1>0, FlattenSteps
<1> DEFINE Good(k) == /\ W[k] \in Seq(Nat) /\ Len(W[k]) = e[k] /\ e[k] \in Nat
                      /\ \A j \in 1 .. e[k] : W[k][j] = c[j]
           Bad == {k \in 1 .. Len(seqs) : ~Good(k)}
<1>2. Bad = {}
  <2> SUFFICES ASSUME Bad # {} PROVE FALSE
    OBVIOUS
  <2>1. PICK k \in Bad : \A n \in Bad : k <= n
    <3>1. Bad \subseteq Nat
      BY <1>0
    <3> QED BY <3>1, LeastElement
  <2>2. k \in 1 .. Len(seqs) /\ ~Good(k)
    BY <2>1
  <2>3. CASE k = 1
    <3>1. W[1] = seqs[1] /\ e[1] = Len(seqs[1]) /\ \A j \in 1 .. Len(seqs[1]) : seqs[1][j] = c[0 + j]
      BY <2>2, <2>3, <1>0, <1>1, <1>4
    <3>2. \A j \in 1 .. Len(seqs[1]) : 0 + j = j
      BY <1>0
    <3>3. Good(1)
      BY <3>1, <3>2, <1>0, <2>2, <2>3
    <3> QED BY <3>3, <2>2, <2>3
  <2>4. CASE k # 1
    <3>1. k - 1 \in 1 .. Len(seqs) /\ k \in 2 .. Len(seqs) /\ k - 1 \notin Bad
      <4> HIDE DEF Bad
      <4> QED BY <2>1, <2>2, <2>4, <1>0
    <3>2. Good(k - 1)
      BY <3>1
    <3> DEFINE a == W[k - 1]
               b == seqs[k]
    <3>3. /\ a \in Seq(Nat) /\ Len(a) = e[k - 1] /\ e[k - 1] \in Nat /\ b \in Seq(Nat) /\ W[k] = a \o b
          /\ e[k] = e[k - 1] + Len(b) /\ Len(b) \in Nat
      BY <3>1, <3>2, <2>2, <1>0, <1>1, <1>4
    <3>4. \A j \in 1 .. Len(a) : a[j] = c[j]
      BY <3>2, <3>3
    <3>5. \A j \in 1 .. Len(b) : b[j] = c[Len(a) + j]
      BY <3>3, <2>2, <1>4
    <3>9. a \in Seq(Nat) /\ b \in Seq(Nat)
      BY <3>3
    <3> HIDE DEF a, b
    <3>6. /\ a \o b \in Seq(Nat) /\ Len(a \o b) = Len(a) + Len(b)
          /\ \A j \in 1 .. Len(a) + Len(b) : (a \o b)[j] = IF j <= Len(a) THEN a[j] ELSE b[j - Len(a)]
      BY <3>9, ConcatProperties
    <3>7. ASSUME NEW j \in 1 .. Len(a) + Len(b) PROVE (a \o b)[j] = c[j]
      <4>1. CASE j <= Len(a)
        BY <4>1, <3>3, <3>4, <3>6, SMTT(40)
      <4>2. CASE ~(j <= Len(a))
        <5>1. j - Len(a) \in 1 .. Len(b) /\ Len(a) + (j - Len(a)) = j
          <6>1. Len(a) \in Nat /\ Len(b) \in Nat
            BY <3>3
          <6> QED BY <6>1, <4>2
        <5> QED BY <5>1, <4>2, <3>5, <3>6
      <4> QED BY <4>1, <4>2
    <3>8. Good(k)
      <4>1. e[k] = Len(a) + Len(b) /\ Len(a) \in Nat /\ Len(b) \in Nat
        BY <3>3
      <4>2. W[k] \in Seq(Nat) /\ Len(W[k]) = e[k] /\ e[k] \in Nat
        BY <4>1, <3>3, <3>6, SMTT(40)
      <4>3. \A j \in 1 .. e[k] : W[k][j] = c[j]
        BY <4>1, <3>3, <3>7
      <4> QED BY <4>2, <4>3
    <3> QED BY <3>8, <2>2
  <2> QED BY <2>3, <2>4
<1>3. Good(Len(seqs))
  <2>1. Len(seqs) \in 1 .. Len(seqs) /\ Len(seqs) \notin Bad
    BY <1>0, <1>2
  <2> HIDE DEF Good
  <2> QED BY <2>1
<1> QED BY <1>1, <1>3

\* Reading gives the content.
LEMMA ReadContent ==
  ASSUME NEW d \in Image, NEW i \in Inode, DataSectors(i) \subseteq Sector, NEW c, Content(d, i, c),
         NEW size \in Nat, NEW offset \in Nat
  PROVE  inode_read_at(d, i, size, offset) = SubSeq(c, offset + 1, Lesser(offset + size, Len(c)))
<1> DEFINE cs == Chunks(i, size, offset)
           piece(k) == SubSeq(d.data[cs[k].sector], cs[k].ofs + 1, cs[k].ofs + cs[k].len)
           pieces == [k \in DOMAIN cs |-> piece(k)]
           end == Lesser(offset + size, Len(c))
<1>1. PiecesFrom(cs, 0, i, size, offset)
  BY ChunksArePieces
<1>2. inode_read_at(d, i, size, offset) = FlattenSeq(pieces)
  BY DEF inode_read_at
<1> HIDE DEF cs
<1>3. Len(cs) \in Nat /\ DOMAIN cs = 1 .. Len(cs) /\ \A k \in 1 .. Len(cs) : Piece(cs[k], i, size, offset)
  BY <1>1 DEF PiecesFrom
<1>4. c \in Seq(Nat) /\ Len(c) = i.length /\ i.length \in Nat /\ Len(c) \in Nat
  BY DEF Content, Inode
<1>5. ASSUME NEW k \in 1 .. Len(cs)
      PROVE  /\ piece(k) \in Seq(Nat) /\ Len(piece(k)) = cs[k].len
             /\ \A j \in 1 .. cs[k].len : piece(k)[j] = c[offset + cs[k].done + j]
             /\ cs[k].len \in Nat /\ cs[k].done \in Nat
             /\ cs[k].done + cs[k].len <= size /\ offset + cs[k].done + cs[k].len <= i.length
  <2>1. Piece(cs[k], i, size, offset)
    BY <1>3
  <2> DEFINE x == cs[k]
  <2> HIDE DEF x
  <2>2. Piece(x, i, size, offset)
    BY <2>1 DEF x
  <2>3. /\ x.len \in Nat /\ x.done \in Nat /\ x.done + x.len <= size /\ offset + x.done + x.len <= i.length
    BY <2>2 DEF Piece
  <2>4. LET b == SubSeq(d.data[x.sector], x.ofs + 1, x.ofs + x.len)
        IN  /\ b \in Seq(Nat) /\ Len(b) = x.len
            /\ \A j \in 1 .. x.len : b[j] = c[offset + x.done + j]
    BY <2>2, PieceBytes
  <2> QED BY <2>3, <2>4 DEF x
<1>6. end \in Int /\ end <= offset + size /\ end <= Len(c)
      /\ (end = offset + size \/ end = Len(c))
  BY <1>4 DEF Lesser
<1> HIDE DEF piece, end
<1>7. CASE Len(cs) = 0
  <2>1. pieces = <<>> /\ cs = <<>>
    BY <1>7, <1>1, <1>3 DEF PiecesFrom
  <2> HIDE DEF pieces
  <2>2. FlattenSeq(pieces) = <<>>
    BY <2>1 DEF FlattenSeq
  <2>3. 0 = size \/ offset + 0 >= i.length
    BY <1>1, <2>1 DEF PiecesFrom
  <2>4. end < offset + 1 /\ offset + 1 \in Int
    BY <2>3, <1>4, <1>6
  <2>5. SubSeq(c, offset + 1, end) = <<>>
    BY <2>4, <1>6, SubSeqEmpty
  <2> QED BY <2>2, <2>5, <1>2 DEF end
<1>8. CASE Len(cs) # 0
  <2> DEFINE e == [k \in 0 .. Len(cs) |-> IF k = 0 THEN 0 ELSE cs[k].done + cs[k].len]
             cc == [j \in Nat |-> c[offset + j]]
             last == cs[Len(cs)].done + cs[Len(cs)].len
  <2>1. pieces \in Seq(Seq(Nat)) /\ Len(pieces) = Len(cs) /\ \A k \in 1 .. Len(cs) : pieces[k] = piece(k)
    BY <1>3, <1>5
  <2>2. e[0] = 0 /\ \A k \in 1 .. Len(cs) : e[k] = cs[k].done + cs[k].len
    BY <1>3
  <2>3. ASSUME NEW k \in 1 .. Len(cs) PROVE e[k - 1] = cs[k].done
    <3>1. CASE k = 1
      BY <3>1, <2>2, <1>1, <1>8 DEF PiecesFrom
    <3>2. CASE k # 1
      <4>1. k - 1 \in 1 .. Len(cs) - 1 /\ k - 1 \in 1 .. Len(cs) /\ (k - 1) + 1 = k
        BY <3>2, <1>3
      <4>2. cs[(k - 1) + 1].done = cs[k - 1].done + cs[k - 1].len
        BY <4>1, <1>1 DEF PiecesFrom
      <4> QED BY <4>1, <4>2, <2>2
    <3> QED BY <3>1, <3>2
  <2> HIDE DEF e
  <2>4. ASSUME NEW k \in 1 .. Len(pieces)
        PROVE  /\ e[k] = e[k - 1] + Len(pieces[k])
               /\ \A j \in 1 .. Len(pieces[k]) : pieces[k][j] = cc[e[k - 1] + j]
    <3>1. k \in 1 .. Len(cs) /\ e[k] = cs[k].done + cs[k].len /\ e[k - 1] = cs[k].done /\ pieces[k] = piece(k)
      BY <2>1, <2>2, <2>3
    <3>2. Len(pieces[k]) = cs[k].len /\ cs[k].len \in Nat /\ cs[k].done \in Nat
      BY <3>1, <1>5
    <3>3. ASSUME NEW j \in 1 .. cs[k].len PROVE pieces[k][j] = cc[cs[k].done + j]
      <4> HIDE DEF pieces, cc, last
      <4>1. piece(k)[j] = c[offset + cs[k].done + j]
        BY <3>1, <1>5
      <4>2. cs[k].done + j \in Nat /\ offset + cs[k].done + j = offset + (cs[k].done + j)
        BY <3>2
      <4>3. cc[cs[k].done + j] = c[offset + (cs[k].done + j)]
        BY <4>2 DEF cc
      <4> QED BY <4>1, <4>2, <4>3, <3>1
    <3> QED BY <3>1, <3>2, <3>3
  <2>11. Len(pieces) # 0
    BY <2>1, <1>8
  <2> HIDE DEF pieces, cc
  <2>12. PartsOf(pieces, cc, e)
    BY <2>2, <2>4 DEF PartsOf
  <2>5. /\ FlattenSeq(pieces) \in Seq(Nat) /\ Len(FlattenSeq(pieces)) = e[Len(pieces)]
        /\ \A j \in 1 .. e[Len(pieces)] : FlattenSeq(pieces)[j] = cc[j]
    BY <2>1, <2>11, <2>12, Joined
  <2>6. /\ Len(cs) \in 1 .. Len(cs) /\ e[Len(pieces)] = last /\ last \in Nat
        /\ last <= size /\ offset + last <= i.length
    BY <1>3, <1>5, <1>8, <2>1, <2>2
  <2>7. last = size \/ offset + last >= i.length
    <3>1. cs # <<>>
      BY <1>8
    <3> QED BY <3>1, <1>1 DEF PiecesFrom
  <2> HIDE DEF last
  <2>8. end = offset + last
    BY <2>6, <2>7, <1>4, <1>6
  <2> DEFINE r == SubSeq(c, offset + 1, end)
  <2>9. r \in Seq(Nat) /\ Len(r) = last /\ \A j \in 1 .. last : r[j] = c[offset + j]
    <3> DEFINE lo == offset + 1
    <3>1. /\ lo \in Int /\ end \in Int /\ \A j \in lo .. end : j \in 1 .. Len(c)
          /\ (end - lo) + 1 = last /\ (lo <= end \/ last = 0)
          /\ \A j \in 1 .. last : (lo + j) - 1 = offset + j
      BY <2>6, <2>8, <1>4, <1>6
    <3> HIDE DEF lo
    <3>2. \A j \in lo .. end : c[j] \in Nat
      BY <3>1, <1>4
    <3>3. /\ SubSeq(c, lo, end) \in Seq(Nat)
          /\ Len(SubSeq(c, lo, end)) = IF lo <= end THEN (end - lo) + 1 ELSE 0
          /\ \A j \in 1 .. (end - lo) + 1 : SubSeq(c, lo, end)[j] = c[(lo + j) - 1]
      BY <3>1, <3>2, SubSeqProperties
    <3>4. r = SubSeq(c, lo, end)
      BY DEF lo
    <3> HIDE DEF r
    <3> QED BY <3>1, <3>3, <3>4, <2>6
  <2>10. FlattenSeq(pieces) = r
    <3> HIDE DEF r
    <3>2. \A j \in 1 .. last : cc[j] = c[offset + j]
      BY <2>6 DEF cc
    <3>1. \A j \in 1 .. last : FlattenSeq(pieces)[j] = r[j]
      BY <3>2, <2>5, <2>6, <2>9
    <3> QED BY <3>1, <2>5, <2>6, <2>9, SeqEqual
  <2> QED BY <2>10, <1>2 DEF end
<1> QED BY <1>3, <1>7, <1>8

\* Content c with the first n bytes of b at offset.
Patched(c, b, offset, n) ==
    [j \in 1 .. Len(c) |-> IF j \in offset + 1 .. offset + n THEN b[j - offset] ELSE c[j]]

\* p is that content.
IsPatched(p, c, b, offset, n) ==
    /\ p \in Seq(Nat) /\ Len(p) = Len(c)
    /\ \A j \in 1 .. Len(c) : p[j] = IF j \in offset + 1 .. offset + n THEN b[j - offset] ELSE c[j]

\* A patch fits if it is not longer than b.
LEMMA PatchedType ==
  ASSUME NEW c \in Seq(Nat), NEW b \in Seq(Nat), NEW offset \in Nat, NEW n \in Nat, n <= Len(b)
  PROVE  IsPatched(Patched(c, b, offset, n), c, b, offset, n)
<1> DEFINE v(j) == IF j \in offset + 1 .. offset + n THEN b[j - offset] ELSE c[j]
<1>1. Len(c) \in Nat /\ Len(b) \in Nat
  OBVIOUS
<1>2. ASSUME NEW j \in 1 .. Len(c) PROVE v(j) \in Nat
  <2>1. CASE j \in offset + 1 .. offset + n
    <3>1. j - offset \in 1 .. Len(b)
      BY <2>1, <1>1
    <3> QED BY <2>1, <3>1
  <2>2. CASE ~(j \in offset + 1 .. offset + n)
    BY <2>2
  <2> QED BY <2>1, <2>2
<1>3. Patched(c, b, offset, n) = [j \in 1 .. Len(c) |-> v(j)]
  BY DEF Patched
<1> HIDE DEF v
<1>4. /\ Patched(c, b, offset, n) \in Seq(Nat) /\ Len(Patched(c, b, offset, n)) = Len(c)
      /\ \A j \in 1 .. Len(c) : Patched(c, b, offset, n)[j] = v(j)
  BY <1>1, <1>2, <1>3
<1> QED BY <1>4 DEF v, IsPatched

\* One chunk is written.
LEMMA ChunkContent ==
  ASSUME NEW g \in FileSystem, NEW i \in Inode, DataSectors(i) \subseteq Sector, NEW c \in Seq(Nat),
         NEW buffer \in Seq(Nat), NEW size \in Nat, NEW offset \in Nat, NEW x \in Chunk,
         Piece(x, i, size, offset), x.done + x.len <= Len(buffer),
         Content(g.disk, i, Patched(c, buffer, offset, x.done))
  PROVE  Content(WriteChunk(g, x, buffer).disk, i, Patched(c, buffer, offset, x.done + x.len))
<1> DEFINE d == g.disk
           e == WriteChunk(g, x, buffer).disk
           old == Patched(c, buffer, offset, x.done)
           new == Patched(c, buffer, offset, x.done + x.len)
           a == offset + x.done
<1>1. /\ x.sector = i.start + (a \div SECTOR_SIZE) /\ x.ofs = a % SECTOR_SIZE
      /\ x.ofs \in Nat /\ x.len \in Nat /\ x.done \in Nat /\ a \in Nat /\ x.sector \in Sector
      /\ x.len > 0 /\ x.ofs + x.len <= SECTOR_SIZE /\ a + x.len <= i.length
      /\ i.length \in Nat /\ i.start \in Nat /\ Len(buffer) \in Nat /\ x.done <= Len(buffer)
  BY SMTT(40) DEF Piece, Inode, Chunk
<1>2. /\ e.data[x.sector] = ChunkBytes(x, buffer, d.data[x.sector])
      /\ \A t \in Sector \ {x.sector} : e.data[t] = d.data[t]
  BY ChunkData
<1>3. /\ old \in Seq(Nat) /\ Len(old) = Len(c) /\ new \in Seq(Nat) /\ Len(new) = Len(c)
      /\ \A j \in 1 .. Len(c) : /\ old[j] = IF j \in offset + 1 .. offset + x.done THEN buffer[j - offset] ELSE c[j]
                                /\ new[j] = IF j \in offset + 1 .. offset + (x.done + x.len)
                                            THEN buffer[j - offset] ELSE c[j]
  <2> DEFINE n == x.done + x.len
  <2>0. x.done \in Nat /\ x.len \in Nat /\ Len(buffer) \in Nat /\ x.done <= Len(buffer)
    BY <1>1
  <2>1. n \in Nat /\ n <= Len(buffer) /\ x.done \in Nat /\ x.done <= Len(buffer)
    BY <2>0
  <2>2. IsPatched(old, c, buffer, offset, x.done)
    BY <2>1, PatchedType
  <2> HIDE DEF n
  <2>3. IsPatched(Patched(c, buffer, offset, n), c, buffer, offset, n)
    BY <2>1, PatchedType
  <2>4. IsPatched(new, c, buffer, offset, x.done + x.len)
    BY <2>3 DEF n
  <2> HIDE DEF new, old
  <2> QED BY <2>2, <2>4 DEF IsPatched
<1>4. /\ Len(old) = i.length
      /\ \A pos \in 0 .. i.length - 1 :
           old[pos + 1] = d.data[i.start + (pos \div SECTOR_SIZE)][(pos % SECTOR_SIZE) + 1]
  BY DEF Content
<1>6. a = offset + x.done
  OBVIOUS
<1>7. a \div SECTOR_SIZE \in Nat
  <2>0. a \in Nat
    BY <1>1
  <2> HIDE DEF a
  <2>1. a + 1 \in Nat /\ a < a + 1
    BY <2>0
  <2> QED BY <2>0, <2>1, Rounding
<1> HIDE DEF a, d, e, old, new
<1>5. ASSUME NEW pos \in 0 .. i.length - 1
      PROVE  new[pos + 1] = e.data[i.start + (pos \div SECTOR_SIZE)][(pos % SECTOR_SIZE) + 1]
  <2> DEFINE q == pos \div SECTOR_SIZE
             r == pos % SECTOR_SIZE
             t == i.start + q
  <2>1. /\ t \in Sector /\ r + 1 \in 1 .. SECTOR_SIZE /\ pos \in Nat /\ q \in Nat /\ r \in Nat
        /\ pos + 1 \in 1 .. Len(c) /\ t = i.start + q
    <3>1. t \in DataSectors(i) /\ r + 1 \in 1 .. SECTOR_SIZE /\ pos \in Nat /\ q \in Nat /\ r \in Nat
      BY BytePlace
    <3> HIDE DEF q, r
    <3>2. pos + 1 \in 1 .. Len(c)
      BY <1>1, <1>3, <1>4
    <3> QED BY <3>1, <3>2
  <2>2. old[pos + 1] = d.data[t][r + 1]
    BY <1>4
  <2>3. CASE pos \in a .. (a + x.len) - 1
    <3> DEFINE m == pos - a
    <3>1. m \in Nat /\ a + m = pos /\ x.ofs + m < SECTOR_SIZE /\ m < x.len
      <4> DEFINE ln == x.len
                 o == x.ofs
                 n == SECTOR_SIZE
      <4>1. /\ ln \in Nat /\ o \in Nat /\ a \in Nat /\ pos \in Nat /\ n \in Nat
            /\ o + ln <= n /\ pos \in a .. (a + ln) - 1
        BY <2>1, <2>3, <1>1, Sizing
      <4> HIDE DEF ln, o, n
      <4>2. m \in Nat /\ a + m = pos /\ o + m < n /\ m < ln
        BY <4>1
      <4> QED BY <4>2 DEF ln, o, n
    <3> HIDE DEF m
    <3>2. (a + m) \div SECTOR_SIZE = a \div SECTOR_SIZE /\ (a + m) % SECTOR_SIZE = (a % SECTOR_SIZE) + m
      BY <3>1, <1>1, SameSector
    <3>3. t = x.sector /\ r = x.ofs + m
      BY <3>1, <3>2, <1>1
    <3> HIDE DEF q, r, t
    <3>4. /\ r + 1 \in x.ofs + 1 .. x.ofs + x.len
          /\ x.done + ((r + 1) - x.ofs) = (pos + 1) - offset
          /\ pos + 1 \in offset + 1 .. offset + (x.done + x.len)
      <4> DEFINE dn == x.done
                 ln == x.len
                 o == x.ofs
      <4>1. /\ dn \in Nat /\ ln \in Nat /\ o \in Nat /\ m \in Nat /\ r = o + m /\ m < ln
            /\ (offset + dn) + m = pos
        BY <3>1, <3>3, <1>1, <1>6
      <4> HIDE DEF dn, ln, o
      <4>2. /\ r + 1 \in o + 1 .. o + ln /\ dn + ((r + 1) - o) = (pos + 1) - offset
            /\ pos + 1 \in offset + 1 .. offset + (dn + ln)
        BY <4>1
      <4> QED BY <4>2 DEF dn, ln, o
    <3>5. e.data[t][r + 1] = ChunkByte(x, buffer, d.data[x.sector], r + 1)
      BY <3>3, <2>1, <1>2 DEF ChunkBytes
    <3>6. ChunkByte(x, buffer, d.data[x.sector], r + 1) = buffer[(pos + 1) - offset]
      BY <3>4 DEF ChunkByte
    <3>7. new[pos + 1] = buffer[(pos + 1) - offset]
      BY <3>4, <2>1, <1>3
    <3> QED BY <3>5, <3>6, <3>7 DEF q, r, t
  <2>4. CASE pos \notin a .. (a + x.len) - 1
    <3>1. new[pos + 1] = old[pos + 1]
      <4> HIDE DEF q, r, t
      <4>1. pos + 1 \in offset + 1 .. offset + (x.done + x.len) <=> pos + 1 \in offset + 1 .. offset + x.done
        <5> DEFINE dn == x.done
                   ln == x.len
        <5>1. dn \in Nat /\ ln \in Nat /\ a = offset + dn /\ pos \in Nat /\ pos \notin a .. (a + ln) - 1
          BY <2>1, <2>4, <1>1, <1>6
        <5> HIDE DEF dn, ln
        <5>2. pos + 1 \in offset + 1 .. offset + (dn + ln) <=> pos + 1 \in offset + 1 .. offset + dn
          BY <5>1
        <5> QED BY <5>2 DEF dn, ln
      <4> QED BY <4>1, <2>1, <1>3
    <3>2. e.data[t][r + 1] = d.data[t][r + 1]
      <4>1. CASE t # x.sector
        BY <4>1, <2>1, <1>2
      <4>2. CASE t = x.sector
        <5>1. q = a \div SECTOR_SIZE
          <6> DEFINE p == a \div SECTOR_SIZE
          <6>1. i.start + q = i.start + p /\ p \in Nat /\ q \in Nat /\ i.start \in Nat
            BY <4>2, <1>1, <1>7, <2>1
          <6> HIDE DEF p, q
          <6>2. q = p
            BY <6>1
          <6> QED BY <6>2 DEF p, q
        <5>2. pos - a = (pos % SECTOR_SIZE) - (a % SECTOR_SIZE)
          BY <5>1, <2>1, <1>1, SectorOffsets
        <5>3. pos - a = r - x.ofs
          BY <5>2, <1>1
        <5> HIDE DEF q, r, t, a
        <5>4. r + 1 \notin x.ofs + 1 .. x.ofs + x.len
          <6> DEFINE ln == x.len
                     o == x.ofs
          <6>1. /\ ln \in Nat /\ o \in Nat /\ r \in Nat /\ a \in Nat /\ pos \in Nat
                /\ pos - a = r - o /\ pos \notin a .. (a + ln) - 1
            BY <5>3, <2>1, <2>4, <1>1
          <6> HIDE DEF ln, o
          <6>2. r + 1 \notin o + 1 .. o + ln
            BY <6>1
          <6> QED BY <6>2 DEF ln, o
        <5>5. e.data[t][r + 1] = ChunkByte(x, buffer, d.data[x.sector], r + 1)
          BY <4>2, <2>1, <1>2 DEF ChunkBytes
        <5> QED BY <5>4, <5>5, <4>2 DEF ChunkByte
      <4> QED BY <4>1, <4>2
    <3> QED BY <3>1, <3>2, <2>2
  <2> QED BY <2>3, <2>4
<1> QED BY <1>3, <1>4, <1>5 DEF Content, e, new

\* A write that begins inside the file leaves the first bytes of the buffer there,
\* up to the end of the file.
LEMMA WriteContent ==
  ASSUME NEW f \in FileSystem, NEW i \in Inode, DataSectors(i) \subseteq Sector, NEW c \in Seq(Nat),
         Content(f.disk, i, c), NEW buffer \in Seq(Nat), NEW offset \in Nat,
         Chunks(i, Len(buffer), offset) # <<>>
  PROVE  Content(WriteAll(f, Chunks(i, Len(buffer), offset), buffer).disk, i,
                 Patched(c, buffer, offset, Lesser(Len(buffer), Len(c) - offset)))
<1> DEFINE cs == Chunks(i, Len(buffer), offset)
           end(k) == IF k = 0 THEN 0 ELSE cs[k].done + cs[k].len
           Right(W, k) == Content(W[k].disk, i, Patched(c, buffer, offset, end(k)))
<1>1. /\ PiecesFrom(cs, 0, i, Len(buffer), offset) /\ cs \in Seq(Chunk) /\ cs # <<>>
      /\ \A k \in DOMAIN cs : cs[k].sector \in Sector /\ cs[k].done + cs[k].len <= Len(buffer)
      /\ Len(buffer) \in Nat /\ Len(c) \in Nat
  <2>1. Len(buffer) \in Nat /\ Len(c) \in Nat /\ Extent(i.start, bytes_to_sectors(i.length)) \subseteq Sector
    BY DEF DataSectors
  <2>2. PiecesFrom(cs, 0, i, Len(buffer), offset) /\ cs # <<>>
    BY <2>1, ChunksArePieces
  <2>3. cs \in Seq(Chunk) /\ \A k \in DOMAIN cs : /\ cs[k].sector \in Extent(i.start, bytes_to_sectors(i.length))
                                                /\ cs[k].done + cs[k].len <= Len(buffer)
    BY <2>1, ChunksInside
  <2> HIDE DEF cs
  <2> QED BY <2>1, <2>2, <2>3
<1>2. Len(c) = i.length /\ i.length \in Nat
  BY DEF Content, Inode
<1> HIDE DEF cs
<1>3. /\ Len(cs) \in Nat /\ Len(cs) # 0 /\ DOMAIN cs = 1 .. Len(cs)
      /\ ChunksIn(cs, buffer)
      /\ \A k \in 1 .. Len(cs) : cs[k] \in Chunk /\ Piece(cs[k], i, Len(buffer), offset)
  <2>1. Len(cs) \in Nat /\ Len(cs) # 0 /\ DOMAIN cs = 1 .. Len(cs) /\ \A k \in 1 .. Len(cs) : cs[k] \in Chunk
    BY <1>1
  <2>2. ChunksIn(cs, buffer)
    BY <1>1 DEF ChunksIn
  <2>3. \A k \in 1 .. Len(cs) : Piece(cs[k], i, Len(buffer), offset)
    BY <1>1 DEF PiecesFrom
  <2> QED BY <2>1, <2>2, <2>3
<1>4. PICK W : Trail(W, f, cs, buffer, Sector)
  BY <1>1, <1>3, StepsWritten
<1>5. /\ W[0] = f /\ WriteAll(f, cs, buffer) = W[Len(cs)]
      /\ \A k \in 1 .. Len(cs) : W[k] = WriteChunk(W[k - 1], cs[k], buffer)
      /\ \A k \in 0 .. Len(cs) : W[k] \in FileSystem
  BY <1>4 DEF Trail, Wrote
<1>6. Patched(c, buffer, offset, 0) = c
  <2>1. IsPatched(Patched(c, buffer, offset, 0), c, buffer, offset, 0)
    BY <1>1, PatchedType
  <2> DEFINE p == Patched(c, buffer, offset, 0)
  <2> HIDE DEF p
  <2>2. p \in Seq(Nat) /\ Len(p) = Len(c) /\ \A j \in 1 .. Len(c) : p[j] = c[j]
    <3>1. \A j \in 1 .. Len(c) : j \notin offset + 1 .. offset + 0
      BY <1>1
    <3> QED BY <2>1, <3>1 DEF p, IsPatched
  <2>3. p = c
    BY <2>2, SeqEqual
  <2> QED BY <2>3 DEF p
<1>7. ASSUME NEW k \in 1 .. Len(cs) PROVE end(k - 1) = cs[k].done
  <2>1. CASE k = 1
    BY <2>1, <1>1 DEF PiecesFrom
  <2>2. CASE k # 1
    <3>1. k - 1 \in 1 .. Len(cs) - 1 /\ (k - 1) + 1 = k /\ k - 1 # 0
      BY <2>2, <1>3
    <3>2. cs[(k - 1) + 1].done = cs[k - 1].done + cs[k - 1].len
      BY <3>1, <1>1 DEF PiecesFrom
    <3> QED BY <3>1, <3>2
  <2> QED BY <2>1, <2>2
<1>8. ASSUME NEW k \in 1 .. Len(cs) PROVE end(k) = cs[k].done + cs[k].len
  BY <1>3
<1> HIDE DEF end
<1> DEFINE Bad == {k \in 0 .. Len(cs) : ~Right(W, k)}
<1>9. Bad = {}
  <2> SUFFICES ASSUME Bad # {} PROVE FALSE
    OBVIOUS
  <2>1. PICK k \in Bad : \A n \in Bad : k <= n
    <3>1. Bad \subseteq Nat
      BY <1>3
    <3> QED BY <3>1, LeastElement
  <2>2. k \in 0 .. Len(cs) /\ ~Right(W, k)
    BY <2>1
  <2>3. CASE k = 0
    <3>1. end(0) = 0
      BY DEF end
    <3> QED BY <3>1, <2>2, <2>3, <1>5, <1>6
  <2>4. CASE k # 0
    <3>1. k - 1 \in 0 .. Len(cs) /\ k \in 1 .. Len(cs) /\ k - 1 \notin Bad
      <4> HIDE DEF Bad
      <4> QED BY <2>1, <2>2, <2>4, <1>3
    <3>2. Right(W, k - 1)
      BY <3>1
    <3> DEFINE g == W[k - 1]
               x == cs[k]
    <3>3. /\ g \in FileSystem /\ x \in Chunk /\ Piece(x, i, Len(buffer), offset)
          /\ x.done + x.len <= Len(buffer) /\ end(k - 1) = x.done /\ end(k) = x.done + x.len
          /\ W[k] = WriteChunk(g, x, buffer) /\ Content(g.disk, i, Patched(c, buffer, offset, x.done))
      BY <3>1, <3>2, <1>1, <1>3, <1>5, <1>7, <1>8
    <3> HIDE DEF g, x
    <3>4. Content(WriteChunk(g, x, buffer).disk, i, Patched(c, buffer, offset, x.done + x.len))
      BY <3>3, <1>1, ChunkContent
    <3> QED BY <2>2, <3>3, <3>4
  <2> QED BY <2>3, <2>4
<1>10. Right(W, Len(cs))
  <2>1. Len(cs) \in 0 .. Len(cs) /\ Len(cs) \notin Bad
    BY <1>3, <1>9
  <2> HIDE DEF Right
  <2> QED BY <2>1
<1>11. end(Len(cs)) = Lesser(Len(buffer), Len(c) - offset)
  <2> DEFINE x == cs[Len(cs)]
             e == x.done + x.len
  <2>1. Len(cs) \in 1 .. Len(cs) /\ end(Len(cs)) = e
    BY <1>3, <1>8
  <2>2. Piece(x, i, Len(buffer), offset)
    BY <2>1, <1>3
  <2>3. e \in Nat /\ e <= Len(buffer) /\ offset + e <= i.length
    BY <2>2, <1>1, <1>2 DEF Piece
  <2>4. e = Len(buffer) \/ offset + e >= i.length
    BY <1>1 DEF PiecesFrom
  <2> HIDE DEF e
  <2> DEFINE l == Len(buffer)
             m == Len(c)
  <2>5. e \in Nat /\ l \in Nat /\ m \in Nat /\ e <= l /\ offset + e <= m /\ (e = l \/ offset + e >= m)
    BY <2>3, <2>4, <1>1, <1>2
  <2> HIDE DEF l, m
  <2>6. e = Lesser(l, m - offset)
    BY <2>5 DEF Lesser
  <2> QED BY <2>1, <2>6 DEF l, m
<1> QED BY <1>5, <1>10, <1>11 DEF cs

\* A new file has zeros.
LEMMA NewContent ==
  ASSUME NEW f, NEW h, NEW s, NEW E, NEW size \in Nat, NewInode(f, h, s, E, size)
  PROVE  Content(h.disk, h.disk.inode[s], Zeros(size))
<1> DEFINE i == h.disk.inode[s]
<1>1. i \in Inode /\ DataSectors(i) = E /\ i.length = size /\ \A t \in E : h.disk.data[t] = Zeros(SECTOR_SIZE)
  BY DEF NewInode
<1> HIDE DEF i
<1>2. Zeros(size) \in Seq(Nat) /\ Len(Zeros(size)) = size
  BY ZerosType
<1>3. ASSUME NEW pos \in 0 .. i.length - 1
      PROVE  Zeros(size)[pos + 1] = h.disk.data[i.start + (pos \div SECTOR_SIZE)][(pos % SECTOR_SIZE) + 1]
  <2> DEFINE t == i.start + (pos \div SECTOR_SIZE)
             r == (pos % SECTOR_SIZE) + 1
  <2>1. t \in E /\ r \in 1 .. SECTOR_SIZE /\ pos \in Nat
    BY <1>1, BytePlace
  <2> HIDE DEF t, r
  <2>2. h.disk.data[t][r] = 0
    BY <2>1, <1>1 DEF Zeros
  <2>3. pos + 1 \in 1 .. size
    BY <2>1, <1>1
  <2>4. Zeros(size)[pos + 1] = 0
    BY <2>3 DEF Zeros
  <2> QED BY <2>2, <2>4 DEF t, r
<1> QED BY <1>1, <1>2, <1>3 DEF Content, i
----------------------------------------------------------------------------
(* The invariant, step by step. *)

\* The processes of ex that run inode s.
Runs(ex, s) == {p \in Process : ex[p] # None /\ ex[p].sector = s}

\* How the counters are read off the processes.
LEMMA CountsOf ==
  /\ \A s : FilesOf(s) = Uses(files, s) /\ RunsOf(s) = Runs(exe, s)
  /\ Counted <=> /\ Positive(fs)
                 /\ \A s \in Sector :
                      /\ Opened(fs, s) = Cardinality(Uses(files, s)) + Cardinality(Runs(exe, s))
                      /\ Denied(fs, s) = Cardinality(Runs(exe, s))
<1>1. \A s : FilesOf(s) = Uses(files, s) /\ RunsOf(s) = Runs(exe, s)
  BY DEF FilesOf, Uses, RunsOf, Runs
<1> QED BY <1>1 DEF Counted

\* And after a step.
LEMMA CountsNext ==
  ASSUME Positive(fs'),
         \A s \in Sector : /\ Opened(fs', s) = Cardinality(Uses(files', s)) + Cardinality(Runs(exe', s))
                           /\ Denied(fs', s) = Cardinality(Runs(exe', s))
  PROVE  Counted'
<1>1. \A s : FilesOf(s)' = Uses(files', s) /\ RunsOf(s)' = Runs(exe', s)
  BY DEF FilesOf, Uses, RunsOf, Runs
<1>2. Positive(fs)'
  BY DEF Positive
<1>3. \A s \in Sector : /\ Opened(fs, s)' = Cardinality(FilesOf(s)') + Cardinality(RunsOf(s)')
                        /\ Denied(fs, s)' = Cardinality(RunsOf(s)')
  BY <1>1 DEF Opened, Denied, IsOpen
<1> QED BY <1>2, <1>3 DEF Counted

\* Few enough to count.
LEMMA RunsAre ==
  ASSUME NEW ex, NEW s
  PROVE  IsFiniteSet(Runs(ex, s)) /\ Cardinality(Runs(ex, s)) \in Nat
<1>1. Runs(ex, s) \in SUBSET Process
  BY DEF Runs
<1>2. IsFiniteSet(Runs(ex, s))
  BY <1>1, FilesAssumption, FS_Subset
<1> QED BY <1>2, FS_CardinalityType

\* A process starts to run a file.
LEMMA RunsStarted ==
  ASSUME NEW ex \in [Process -> File \cup {None}], NEW p \in Process, ex[p] = None, NEW e \in File, NEW s
  PROVE  Cardinality(Runs([ex EXCEPT ![p] = e], s)) =
           IF s = e.sector THEN Cardinality(Runs(ex, s)) + 1 ELSE Cardinality(Runs(ex, s))
<1> DEFINE xx == [ex EXCEPT ![p] = e]
<1>1. e # None /\ xx[p] = e /\ \A q \in Process \ {p} : xx[q] = ex[q]
  BY FilesAssumption
<1> HIDE DEF xx
<1>2. p \notin Runs(ex, s) /\ (p \in Runs(xx, s) <=> s = e.sector)
  BY <1>1 DEF Runs
<1>3. \A q : q # p => (q \in Runs(xx, s) <=> q \in Runs(ex, s))
  BY <1>1 DEF Runs
<1>4. \A q : q \in Runs(xx, s) <=> q \in (IF s = e.sector THEN Runs(ex, s) \cup {p} ELSE Runs(ex, s))
  BY <1>2, <1>3
<1>5. Runs(xx, s) = IF s = e.sector THEN Runs(ex, s) \cup {p} ELSE Runs(ex, s)
  BY <1>4
<1>6. Cardinality(Runs(ex, s) \cup {p}) = Cardinality(Runs(ex, s)) + 1
  BY <1>2, RunsAre, FS_AddElement
<1> QED BY <1>5, <1>6 DEF xx

\* And ends.
LEMMA RunsEnded ==
  ASSUME NEW ex \in [Process -> File \cup {None}], NEW p \in Process, ex[p] # None, NEW s
  PROVE  Cardinality(Runs([ex EXCEPT ![p] = None], s)) =
           IF s = ex[p].sector THEN Cardinality(Runs(ex, s)) - 1 ELSE Cardinality(Runs(ex, s))
<1> DEFINE xx == [ex EXCEPT ![p] = None]
<1>1. xx[p] = None /\ \A q \in Process \ {p} : xx[q] = ex[q]
  OBVIOUS
<1> HIDE DEF xx
<1>2. p \in Runs(ex, s) <=> s = ex[p].sector
  BY DEF Runs
<1>3. \A q : q \in Runs(xx, s) <=> q \in Runs(ex, s) \ {p}
  BY <1>1 DEF Runs
<1>4. Runs(xx, s) = Runs(ex, s) \ {p}
  BY <1>3
<1>5. Cardinality(Runs(ex, s) \ {p}) =
        IF p \in Runs(ex, s) THEN Cardinality(Runs(ex, s)) - 1 ELSE Cardinality(Runs(ex, s))
  BY RunsAre, FS_RemoveElement
<1> QED BY <1>2, <1>4, <1>5 DEF xx

\* A file that a process has open is open.
LEMMA UserOpen ==
  ASSUME FInv, NEW p \in Process
  PROVE  /\ \A k \in 1 .. Len(files[p]) :
              /\ files[p][k] \in File /\ files[p][k].sector \in DOMAIN fs.inodes
              /\ Cardinality(Uses(files, files[p][k].sector)) > 0
         /\ exe[p] # None => /\ exe[p] \in File /\ exe[p].sector \in DOMAIN fs.inodes
                             /\ Cardinality(Runs(exe, exe[p].sector)) > 0
<1>1. \A s \in Sector : Opened(fs, s) = Cardinality(Uses(files, s)) + Cardinality(Runs(exe, s))
  BY CountsOf DEF FInv
<1>2. ASSUME NEW k \in 1 .. Len(files[p])
      PROVE  /\ files[p][k] \in File /\ files[p][k].sector \in DOMAIN fs.inodes
             /\ Cardinality(Uses(files, files[p][k].sector)) > 0
  <2> DEFINE s == files[p][k].sector
  <2>1. /\ files[p] \in Seq(File) /\ Len(files[p]) \in Nat /\ Len(files[p]) <= MaxFd
        /\ files[p][k] \in File /\ s \in Sector
    BY DEF FInv, Handles
  <2>2. <<p, k>> \in Uses(files, s)
    <3>1. k \in 1 .. MaxFd /\ k \in DOMAIN files[p]
      BY <2>1, FilesAssumption
    <3> QED BY <3>1 DEF Uses
  <2> HIDE DEF s
  <2>3. Cardinality(Uses(files, s)) # 0
    BY <2>2, UsesFinite, FS_EmptySet
  <2>4. Opened(fs, s) # 0
    BY <2>1, <2>3, <1>1, UsesFinite, RunsAre
  <2>5. Cardinality(Uses(files, s)) > 0
    BY <2>3, UsesFinite
  <2> QED BY <2>1, <2>4, <2>5 DEF Opened, IsOpen, s
<1>3. ASSUME exe[p] # None
      PROVE  /\ exe[p] \in File /\ exe[p].sector \in DOMAIN fs.inodes
             /\ Cardinality(Runs(exe, exe[p].sector)) > 0
  <2> DEFINE s == exe[p].sector
  <2>1. exe[p] \in File /\ s \in Sector
    BY <1>3 DEF FInv, Handles
  <2>2. p \in Runs(exe, s)
    BY <1>3 DEF Runs
  <2> HIDE DEF s
  <2>3. Cardinality(Runs(exe, s)) # 0
    BY <2>2, RunsAre, FS_EmptySet
  <2>4. Opened(fs, s) # 0
    BY <2>1, <2>3, <1>1, UsesFinite, RunsAre
  <2>5. Cardinality(Runs(exe, s)) > 0
    BY <2>3, RunsAre
  <2> QED BY <2>1, <2>4, <2>5 DEF Opened, IsOpen, s
<1> QED BY <1>2, <1>3

\* A step of the kernel, which does not reach the platter.
LEMMA StableNext ==
  ASSUME platter' = platter, Stable(fs', leaked'), Sound(platter)
  PROVE  Stable(fs, leaked)' /\ Sound(platter)'
<1>1. Log(fs)'
  BY DEF Stable, Log, Sound, Apart, Entries, EntrySectors, Named
<1>2. Kept(fs)' /\ Accounted(fs, leaked)' /\ Sound(fs.disk)' /\ (fs \in FileSystem)' /\ Sound(platter)'
  BY DEF Stable
<1> QED BY <1>1, <1>2 DEF Stable

\* Processes that change nothing.
LEMMA HandlesSame == ASSUME Handles, UNCHANGED <<files, thread_fd, exe>> PROVE Handles'
BY DEF Handles

\* What filesys_create leaves: the files as they were, and one of zeros if it
\* succeeds.
Created(size) ==
    /\ \A t \in fs.free_map : fs'.disk.inode[t] = fs.disk.inode[t] /\ fs'.disk.data[t] = fs.disk.data[t]
    /\ \/ Live(fs') = Live(fs) /\ ref' = ref
       \/ \E s \in Sector \ fs.free_map :
            /\ Live(fs') = Live(fs) \cup {s} /\ ref' = [ref EXCEPT ![s] = Zeros(size)]
            /\ Content(fs'.disk, fs'.disk.inode[s], Zeros(size)) /\ fs'.disk.inode[s] \in Inode

\* filesys_create.
LEMMA CreateStep ==
  ASSUME FInv, NEW name \in Name, NEW size \in Sizes, NEW ok \in BOOLEAN, CreateFile(name, size, ok)
  PROVE  FInv' /\ fs'.inodes = fs.inodes /\ Created(size)
<1> DEFINE sector == bitmap_scan(fs.free_map, 1)
           f1 == free_map_allocate(fs, sector, 1)
           start == bitmap_scan(f1.free_map, bytes_to_sectors(size))
           f2 == inode_create(f1, sector, start, size)
           E == Extent(start, bytes_to_sectors(size))
<1>0. /\ sector # None /\ UNCHANGED <<platter, files, thread_fd, exe>> /\ size \in Nat
      /\ Stable(fs, leaked) /\ Positive(fs) /\ Sound(platter) /\ Handles
      /\ \/ /\ ~ok \/ start = None
            /\ fs' = free_map_release(f1, sector, 1) /\ leaked' = leaked /\ ref' = ref
         \/ /\ start # None /\ dir_add_fails(fs.disk, name)
            /\ fs' = free_map_release(f2, sector, 1) /\ leaked' = leaked \cup E /\ ref' = ref
         \/ /\ start # None /\ ~dir_add_fails(fs.disk, name)
            /\ fs' = dir_add(f2, name, sector) /\ leaked' = leaked
            /\ ref' = [ref EXCEPT ![sector] = Zeros(size)]
  BY FilesAssumption DEF CreateFile, FInv, Counted
<1>1. ASSUME start # None PROVE NewInode(fs, f2, sector, E, size)
  BY <1>0, <1>1, FileMadeNew
<1>2. LET g == free_map_release(f1, sector, 1)
      IN  /\ Stable(g, leaked) /\ g.inodes = fs.inodes /\ Live(g) = Live(fs)
          /\ g.disk.inode = fs.disk.inode /\ g.disk.data = fs.disk.data
  BY <1>0, CreateUndone
<1> HIDE DEF E, f2, start, f1, sector
<1>3. Stable(fs', leaked') /\ fs'.inodes = fs.inodes /\ Created(size)
  <2>1. CASE (~ok \/ start = None) /\ fs' = free_map_release(f1, sector, 1) /\ leaked' = leaked /\ ref' = ref
    BY <2>1, <1>2 DEF Created
  <2>2. CASE start # None /\ fs' = free_map_release(f2, sector, 1) /\ leaked' = leaked \cup E /\ ref' = ref
    <3>1. LET g == free_map_release(f2, sector, 1)
          IN  /\ Stable(g, leaked \cup E) /\ g.inodes = fs.inodes /\ Live(g) = Live(fs)
              /\ \A t \in fs.free_map : g.disk.inode[t] = fs.disk.inode[t] /\ g.disk.data[t] = fs.disk.data[t]
      BY <2>2, <1>0, <1>1, CreateLeaks, SMTT(40)
    <3> QED BY <2>2, <3>1 DEF Created
  <2>3. CASE /\ start # None /\ ~dir_add_fails(fs.disk, name) /\ fs' = dir_add(f2, name, sector)
             /\ leaked' = leaked /\ ref' = [ref EXCEPT ![sector] = Zeros(size)]
    <3>1. LET g == dir_add(f2, name, sector)
          IN  /\ Stable(g, leaked) /\ g.inodes = fs.inodes /\ Live(g) = Live(fs) \cup {sector}
              /\ g.disk.inode = f2.disk.inode /\ g.disk.data = f2.disk.data
      BY <2>3, <1>0, <1>1, EntryAdded
    <3>2. NewInode(fs, f2, sector, E, size) /\ Content(f2.disk, f2.disk.inode[sector], Zeros(size))
      BY <2>3, <1>0, <1>1, NewContent
    <3>3. /\ sector \in Sector \ fs.free_map /\ f2.disk.inode[sector] \in Inode
          /\ \A t \in fs.free_map : f2.disk.inode[t] = fs.disk.inode[t] /\ f2.disk.data[t] = fs.disk.data[t]
      BY <3>2 DEF NewInode
    <3>4. /\ Stable(fs', leaked') /\ fs'.inodes = fs.inodes /\ Live(fs') = Live(fs) \cup {sector}
          /\ fs'.disk.inode = f2.disk.inode /\ fs'.disk.data = f2.disk.data
      BY <2>3, <3>1
    <3>5. Content(fs'.disk, fs'.disk.inode[sector], Zeros(size))
      BY <3>2, <3>4 DEF Content
    <3> QED BY <2>3, <3>3, <3>4, <3>5 DEF Created
  <2> QED BY <1>0, <2>1, <2>2, <2>3
<1>4. Stable(fs, leaked)' /\ Sound(platter)'
  BY <1>0, <1>3, StableNext
<1>5. Handles'
  BY <1>0, HandlesSame
<1>6. Counted'
  <2>1. Positive(fs') /\ \A s : Opened(fs', s) = Opened(fs, s) /\ Denied(fs', s) = Denied(fs, s)
    BY <1>0, <1>3 DEF Positive, Opened, Denied, IsOpen
  <2> QED BY <2>1, <1>0, CountsOf, CountsNext DEF FInv
<1> QED BY <1>3, <1>4, <1>5, <1>6 DEF FInv

\* Counters that do not depend on what the directory has.
LEMMA CountTypes ==
  ASSUME FInv, NEW s
  PROVE  /\ Opened(fs, s) \in Nat /\ Denied(fs, s) \in Int
         /\ (Opened(fs, s) = 0 => Denied(fs, s) = 0)
  BY SystemType DEF FInv, Stable, Counted, Positive, Opened, Denied, IsOpen, OpenInode

\* filesys_remove.
LEMMA RemoveStep ==
  ASSUME FInv, NEW name \in Name, RemoveFile(name)
  PROVE  FInv' /\ Framed(fs, fs')
<1>0. /\ lookup(fs.disk, name) # {} /\ fs' = dir_remove(fs, name)
      /\ UNCHANGED <<platter, files, thread_fd, exe, leaked>>
      /\ Stable(fs, leaked) /\ Positive(fs) /\ Sound(platter) /\ Handles
  BY DEF RemoveFile, FInv, Counted
<1>1. /\ Stable(fs', leaked) /\ Positive(fs') /\ Framed(fs, fs')
      /\ \A t : Opened(fs', t) = Opened(fs, t)
      /\ \A t : Opened(fs, t) > 0 => Denied(fs', t) = Denied(fs, t)
      /\ \A t : Opened(fs, t) = 0 => Denied(fs', t) = 0
  BY <1>0, NameRemoved
<1>2. Stable(fs, leaked)' /\ Sound(platter)'
  BY <1>0, <1>1, StableNext
<1>3. \A t : Denied(fs', t) = Denied(fs, t)
  <2> SUFFICES ASSUME NEW t PROVE Denied(fs', t) = Denied(fs, t)
    OBVIOUS
  <2>1. Opened(fs, t) = 0 \/ Opened(fs, t) > 0
    BY CountTypes
  <2> QED BY <2>1, <1>1, CountTypes
<1>4. Counted'
  BY <1>0, <1>1, <1>3, CountsOf, CountsNext DEF FInv
<1> QED BY <1>0, <1>1, <1>2, <1>4, HandlesSame DEF FInv

\* A name leads to an inode's sector.
LEMMA LookedUp ==
  ASSUME FInv, NEW name, lookup(fs.disk, name) # {}
  PROVE  dir_lookup(name) \in EntrySectors(fs.disk) /\ dir_lookup(name) \in Sector
<1>1. fs.disk \in Image
  BY SystemType DEF FInv, Stable
<1>2. First(lookup(fs.disk, name)) \in Entries(fs.disk)
  BY <1>1, NameFound
<1>3. dir_lookup(name) \in EntrySectors(fs.disk)
  BY <1>2 DEF EntrySectors, dir_lookup
<1>4. EntrySectors(fs.disk) \subseteq Sector
  BY DEF FInv, Stable, Sound, Apart
<1> QED BY <1>3, <1>4

\* open_file.
LEMMA OpenStep ==
  ASSUME FInv, NEW name \in Name, NEW p \in Process, Open(p, name)
  PROVE  FInv' /\ Framed(fs, fs')
<1> DEFINE s == dir_lookup(name)
           e == file_open(s, thread_fd[p])
<1>0. /\ thread_fd[p] <= MaxFd /\ lookup(fs.disk, name) # {} /\ fs' = inode_open(fs, s)
      /\ files' = [files EXCEPT ![p] = Append(@, e)]
      /\ thread_fd' = [thread_fd EXCEPT ![p] = @ + 1]
      /\ UNCHANGED <<platter, exe, leaked>>
      /\ Stable(fs, leaked) /\ Positive(fs) /\ Sound(platter) /\ Handles
  BY DEF Open, FInv, Counted
<1>1. s \in EntrySectors(fs.disk) /\ s \in Sector /\ s \in Nat
  BY <1>0, LookedUp, Sizing
<1>2. e \in File /\ e.sector = s /\ e.deny_write = FALSE
  BY <1>0, <1>1 DEF Handles, file_open, File
<1>3. Len(files[p]) \in Nat /\ Len(files[p]) + 2 <= thread_fd[p] /\ thread_fd[p] \in Nat /\ MaxFd \in Nat
  BY <1>0, FilesAssumption DEF Handles
<1> HIDE DEF s, e
<1>4. /\ Stable(fs', leaked) /\ Positive(fs') /\ fs'.disk = fs.disk
      /\ DOMAIN fs'.inodes = DOMAIN fs.inodes \cup {s}
      /\ \A t : /\ Opened(fs', t) = IF t = s THEN Opened(fs, t) + 1 ELSE Opened(fs, t)
                /\ Denied(fs', t) = Denied(fs, t)
  BY <1>0, <1>1, InodeOpened
<1>5. Stable(fs, leaked)' /\ Sound(platter)'
  BY <1>0, <1>4, StableNext
<1>6. Handles'
  <2>1. files \in [Process -> Seq(File)] /\ exe \in [Process -> File \cup {None}] /\ thread_fd \in [Process -> Nat]
    BY <1>0 DEF Handles
  <2>2. files' \in [Process -> Seq(File)] /\ thread_fd' \in [Process -> Nat]
    BY <2>1, <1>0, <1>2
  <2>3. ASSUME NEW q \in Process
        PROVE  /\ Len(files'[q]) + 2 <= thread_fd'[q] /\ Len(files'[q]) <= MaxFd
               /\ \A k \in 1 .. Len(files'[q]) : files'[q][k].sector \in Sector /\ ~files'[q][k].deny_write
    <3>1. CASE q # p
      BY <3>1, <2>1, <1>0 DEF Handles
    <3>2. CASE q = p
      <4>1. files'[p] = Append(files[p], e) /\ thread_fd'[p] = thread_fd[p] + 1 /\ files[p] \in Seq(File)
        BY <2>1, <1>0
      <4>2. /\ Len(files'[p]) = Len(files[p]) + 1 /\ files'[p][Len(files[p]) + 1] = e
            /\ \A k \in 1 .. Len(files[p]) : files'[p][k] = files[p][k]
        BY <4>1, <1>2
      <4>3. \A k \in 1 .. Len(files'[p]) : k \in 1 .. Len(files[p]) \/ k = Len(files[p]) + 1
        BY <4>2, <1>3
      <4>4. \A k \in 1 .. Len(files'[p]) : files'[p][k].sector \in Sector /\ ~files'[p][k].deny_write
        BY <4>2, <4>3, <1>0, <1>1, <1>2 DEF Handles
      <4> QED BY <4>1, <4>2, <4>4, <3>2, <1>0, <1>3
    <3> QED BY <3>1, <3>2
  <2>4. \A q \in Process : exe'[q] # None => exe'[q].sector \in Sector /\ exe'[q].deny_write
    BY <1>0 DEF Handles
  <2> QED BY <2>1, <2>2, <2>3, <2>4, <1>0 DEF Handles
<1>7. Counted'
  <2>1. \A t : Cardinality(Uses(files', t)) =
               IF t = s THEN Cardinality(Uses(files, t)) + 1 ELSE Cardinality(Uses(files, t))
    <3>1. files \in [Process -> Seq(File)] /\ Len(files[p]) < MaxFd
      BY <1>0, <1>3 DEF Handles
    <3>2. \A t : Cardinality(Uses([files EXCEPT ![p] = Append(@, e)], t)) =
                 IF t = e.sector THEN Cardinality(Uses(files, t)) + 1 ELSE Cardinality(Uses(files, t))
      BY <3>1, <1>2, UsesAppended
    <3> QED BY <3>2, <1>0, <1>2
  <2>2. \A t : Cardinality(Uses(files, t)) \in Nat /\ Cardinality(Runs(exe, t)) \in Nat
    BY UsesFinite, RunsAre
  <2>3. \A t \in Sector : /\ Opened(fs, t) = Cardinality(Uses(files, t)) + Cardinality(Runs(exe, t))
                          /\ Denied(fs, t) = Cardinality(Runs(exe, t))
    BY CountsOf DEF FInv
  <2>4. \A t \in Sector : /\ Opened(fs', t) = Cardinality(Uses(files', t)) + Cardinality(Runs(exe', t))
                          /\ Denied(fs', t) = Cardinality(Runs(exe', t))
    <3> SUFFICES ASSUME NEW t \in Sector
                 PROVE  /\ Opened(fs', t) = Cardinality(Uses(files', t)) + Cardinality(Runs(exe, t))
                        /\ Denied(fs', t) = Cardinality(Runs(exe, t))
      BY <1>0
    <3>1. CASE t = s
      <4>1. /\ Opened(fs', t) = Opened(fs, t) + 1 /\ Denied(fs', t) = Denied(fs, t)
            /\ Cardinality(Uses(files', t)) = Cardinality(Uses(files, t)) + 1
        BY <3>1, <2>1, <1>4
      <4> QED BY <4>1, <2>2, <2>3
    <3>2. CASE t # s
      <4>1. /\ Opened(fs', t) = Opened(fs, t) /\ Denied(fs', t) = Denied(fs, t)
            /\ Cardinality(Uses(files', t)) = Cardinality(Uses(files, t))
        BY <3>2, <2>1, <1>4
      <4> QED BY <4>1, <2>3
    <3> QED BY <3>1, <3>2
  <2> QED BY <2>4, <1>4, CountsNext
<1>8. Framed(fs, fs')
  BY <1>1, <1>4 DEF Framed, Live
<1> QED BY <1>5, <1>6, <1>7, <1>8 DEF FInv

\* A descriptor is closed.
LEMMA DescriptorClosed ==
  ASSUME FInv, NEW p \in Process, NEW k \in 1 .. Len(files[p]), fs' = file_close(fs, files[p][k]),
         NEW r \in Seq(File), files' = [files EXCEPT ![p] = r], Len(r) = Len(files[p]) - 1,
         \A j \in 1 .. Len(files[p]) - 1 : r[j] = files[p][IF j < k THEN j ELSE j + 1],
         UNCHANGED <<platter, thread_fd, exe, leaked>>
  PROVE  FInv' /\ Framed(fs, fs')
<1> DEFINE file == files[p][k]
           s == file.sector
<1>0. /\ Stable(fs, leaked) /\ Positive(fs) /\ Sound(platter) /\ Handles
      /\ files \in [Process -> Seq(File)] /\ thread_fd \in [Process -> Nat] /\ Len(files[p]) \in Nat
      /\ Len(files[p]) + 2 <= thread_fd[p] /\ Len(files[p]) <= MaxFd /\ MaxFd \in Nat
      /\ ~file.deny_write /\ s \in Sector
  BY FilesAssumption DEF FInv, Counted, Handles
<1>1. file \in File /\ s \in DOMAIN fs.inodes /\ Cardinality(Uses(files, s)) > 0
  BY UserOpen
<1>2. \A t : /\ Cardinality(Uses(files, t)) \in Nat /\ Cardinality(Runs(exe, t)) \in Nat
             /\ Opened(fs, t) \in Nat /\ Denied(fs, t) \in Int
  BY UsesFinite, RunsAre, CountTypes
<1>3. \A t \in Sector : /\ Opened(fs, t) = Cardinality(Uses(files, t)) + Cardinality(Runs(exe, t))
                        /\ Denied(fs, t) = Cardinality(Runs(exe, t))
  BY CountsOf DEF FInv
<1>4. \A t : Cardinality(Uses(files', t)) =
             IF t = s THEN Cardinality(Uses(files, t)) - 1 ELSE Cardinality(Uses(files, t))
  <2>1. files'[p] = r /\ \A q \in Process \ {p} : files'[q] = files[q]
    BY <1>0
  <2>2. DOMAIN files'[p] = 1 .. Len(files[p]) - 1
    BY <2>1, <1>0
  <2>3. \A j \in 1 .. Len(files[p]) - 1 : files'[p][j] = files[p][IF j < k THEN j ELSE j + 1]
    BY <2>1
  <2> DEFINE gl == files'
  <2>4. /\ \A q \in Process \ {p} : gl[q] = files[q]
        /\ DOMAIN gl[p] = 1 .. Len(files[p]) - 1
        /\ \A j \in 1 .. Len(files[p]) - 1 : gl[p][j] = files[p][IF j < k THEN j ELSE j + 1]
    BY <2>1, <2>2, <2>3
  <2>5. files \in [Process -> Seq(File)] /\ k \in 1 .. Len(files[p]) /\ Len(files[p]) <= MaxFd
    BY <1>0
  <2> HIDE DEF gl
  <2>6. \A t : Cardinality(Uses(gl, t)) =
              IF t = files[p][k].sector THEN Cardinality(Uses(files, t)) - 1 ELSE Cardinality(Uses(files, t))
    BY <2>4, <2>5, UsesRemoved, ZenonT(40)
  <2> QED BY <2>6 DEF gl
<1>5. /\ Stable(fs', leaked) /\ Positive(fs') /\ Framed(fs, fs')
      /\ \A t : Opened(fs', t) = IF t = s THEN Opened(fs, t) - 1 ELSE Opened(fs, t)
      /\ \A t : t # s => Denied(fs', t) = Denied(fs, t)
      /\ Denied(fs', s) = IF Opened(fs, s) <= 1 THEN 0 ELSE Denied(fs, s)
  <2> HIDE DEF file
  <2>1. file \in File /\ file.sector \in DOMAIN fs.inodes /\ fs' = file_close(fs, file) /\ ~file.deny_write
    BY <1>0, <1>1 DEF file
  <2> QED BY <2>1, <1>0, FileClosed
<1> HIDE DEF s, file
<1>6. Stable(fs, leaked)' /\ Sound(platter)'
  BY <1>0, <1>5, StableNext
<1>7. Handles'
  <2>1. files' \in [Process -> Seq(File)]
    BY <1>0
  <2>2. ASSUME NEW q \in Process
        PROVE  /\ Len(files'[q]) + 2 <= thread_fd[q] /\ Len(files'[q]) <= MaxFd
               /\ \A j \in 1 .. Len(files'[q]) : files'[q][j].sector \in Sector /\ ~files'[q][j].deny_write
    <3>1. CASE q # p
      BY <3>1, <1>0 DEF Handles
    <3>2. CASE q = p
      <4>1. files'[q] = r /\ Len(r) \in Nat /\ thread_fd[p] \in Nat
        BY <3>2, <1>0
      <4>2. ASSUME NEW j \in 1 .. Len(r) PROVE \E l \in 1 .. Len(files[p]) : r[j] = files[p][l]
        <5>1. j \in 1 .. Len(files[p]) - 1 /\ j \in Nat /\ j + 1 \in 1 .. Len(files[p]) /\ j \in 1 .. Len(files[p])
          BY <1>0
        <5>2. r[j] = files[p][j] \/ r[j] = files[p][j + 1]
          BY <5>1
        <5> QED BY <5>1, <5>2
      <4>3. \A l \in 1 .. Len(files[p]) : files[p][l].sector \in Sector /\ ~files[p][l].deny_write
        BY <1>0 DEF Handles
      <4>4. \A j \in 1 .. Len(r) : r[j].sector \in Sector /\ ~r[j].deny_write
        BY <4>2, <4>3
      <4> QED BY <4>1, <4>4, <3>2, <1>0
    <3> QED BY <3>1, <3>2
  <2> QED BY <2>1, <2>2, <1>0 DEF Handles
<1>8. Counted'
  <2>1. ASSUME NEW t \in Sector
        PROVE  /\ Opened(fs', t) = Cardinality(Uses(files', t)) + Cardinality(Runs(exe, t))
               /\ Denied(fs', t) = Cardinality(Runs(exe, t))
    <3>1. CASE t = s
      <4>1. /\ Opened(fs', t) = Opened(fs, t) - 1
            /\ Cardinality(Uses(files', t)) = Cardinality(Uses(files, t)) - 1
            /\ Denied(fs', t) = IF Opened(fs, t) <= 1 THEN 0 ELSE Denied(fs, t)
        BY <3>1, <1>4, <1>5
      <4>2. Opened(fs, t) <= 1 => Cardinality(Runs(exe, t)) = 0
        BY <3>1, <1>1, <1>2, <1>3
      <4> QED BY <4>1, <4>2, <1>2, <1>3
    <3>2. CASE t # s
      BY <3>2, <1>3, <1>4, <1>5
    <3> QED BY <3>1, <3>2
  <2> QED BY <2>1, <1>5, CountsNext
<1> QED BY <1>5, <1>6, <1>7, <1>8 DEF FInv

\* close_files.
LEMMA CloseStep ==
  ASSUME FInv, NEW p \in Process, NEW fd, Close(p, fd)
  PROVE  FInv' /\ Framed(fs, fs')
<1>1. PICK k \in get_file_structure(p, fd) :
        fs' = file_close(fs, files[p][k]) /\ files' = [files EXCEPT ![p] = RemoveAt(@, k)]
  BY DEF Close
<1>2. files[p] \in Seq(File) /\ Len(files[p]) \in Nat
  BY DEF FInv, Handles
<1>3. k \in 1 .. Len(files[p])
  BY <1>2 DEF get_file_structure
<1> DEFINE a == SubSeq(files[p], 1, k - 1)
           b == SubSeq(files[p], k + 1, Len(files[p]))
           r == RemoveAt(files[p], k)
<1>4. a \in Seq(File) /\ Len(a) = k - 1 /\ \A j \in 1 .. k - 1 : a[j] = files[p][j]
  BY <1>2, <1>3
<1>5. /\ b \in Seq(File) /\ Len(b) = Len(files[p]) - k
      /\ \A j \in 1 .. Len(files[p]) - k : b[j] = files[p][k + j]
  <2>1. k + 1 \in Int /\ Len(files[p]) \in Int /\ \A j \in k + 1 .. Len(files[p]) : files[p][j] \in File
    BY <1>2, <1>3
  <2>2. /\ b \in Seq(File)
        /\ Len(b) = IF k + 1 <= Len(files[p]) THEN Len(files[p]) - (k + 1) + 1 ELSE 0
        /\ \A j \in 1 .. Len(files[p]) - (k + 1) + 1 : b[j] = files[p][k + 1 + j - 1]
    BY <2>1, SubSeqProperties
  <2> HIDE DEF b
  <2> QED BY <2>2, <1>2, <1>3
<1>6. r = a \o b
  BY DEF RemoveAt
<1> HIDE DEF a, b, r
<1>7. /\ r \in Seq(File) /\ Len(r) = Len(a) + Len(b)
      /\ \A j \in 1 .. Len(a) + Len(b) : r[j] = IF j <= Len(a) THEN a[j] ELSE b[j - Len(a)]
  BY <1>4, <1>5, <1>6, ConcatProperties
<1>8. \A j \in 1 .. Len(files[p]) - 1 : r[j] = files[p][IF j < k THEN j ELSE j + 1]
  <2> SUFFICES ASSUME NEW j \in 1 .. Len(files[p]) - 1
               PROVE  r[j] = files[p][IF j < k THEN j ELSE j + 1]
    OBVIOUS
  <2>1. CASE j < k
    <3>1. j \in 1 .. Len(a) + Len(b) /\ j <= Len(a) /\ j \in 1 .. k - 1
      BY <2>1, <1>2, <1>3, <1>4, <1>5
    <3> QED BY <3>1, <2>1, <1>4, <1>7
  <2>2. CASE ~(j < k)
    <3>1. j \in 1 .. Len(a) + Len(b) /\ ~(j <= Len(a)) /\ j - Len(a) \in 1 .. Len(files[p]) - k
          /\ k + (j - Len(a)) = j + 1
      BY <2>2, <1>2, <1>3, <1>4, <1>5
    <3> QED BY <3>1, <2>2, <1>5, <1>7
  <2> QED BY <2>1, <2>2
<1>9. Len(r) = Len(files[p]) - 1
  BY <1>2, <1>3, <1>4, <1>5, <1>7
<1>10. files' = [files EXCEPT ![p] = r] /\ UNCHANGED <<platter, thread_fd, exe, leaked>>
  BY <1>1 DEF Close, r
<1> QED BY <1>1, <1>3, <1>7, <1>8, <1>9, <1>10, DescriptorClosed

\* close_all_opened_files.
LEMMA CloseAllStep ==
  ASSUME FInv, NEW p \in Process, close_all_opened_files(p)
  PROVE  FInv' /\ Framed(fs, fs')
<1> DEFINE r == Tail(files[p])
<1>0. /\ files[p] # <<>> /\ fs' = file_close(fs, files[p][1]) /\ files' = [files EXCEPT ![p] = r]
      /\ UNCHANGED <<platter, thread_fd, exe, leaked>>
  BY DEF close_all_opened_files
<1>1. files[p] \in Seq(File) /\ Len(files[p]) \in Nat
  BY DEF FInv, Handles
<1>2. 1 \in 1 .. Len(files[p])
  BY <1>0, <1>1
<1>3. r \in Seq(File) /\ Len(r) = Len(files[p]) - 1 /\ \A j \in 1 .. Len(r) : r[j] = files[p][j + 1]
  BY <1>0, <1>1, HeadTailProperties
<1> HIDE DEF r
<1>4. \A j \in 1 .. Len(files[p]) - 1 : r[j] = files[p][IF j < 1 THEN j ELSE j + 1]
  BY <1>1, <1>3
<1> QED BY <1>0, <1>2, <1>3, <1>4, DescriptorClosed

\* process_exit closes the executable.
LEMMA ExitStep ==
  ASSUME FInv, NEW p \in Process, Exit(p)
  PROVE  FInv' /\ Framed(fs, fs')
<1> DEFINE file == exe[p]
           s == file.sector
<1>0. /\ Stable(fs, leaked) /\ Positive(fs) /\ Sound(platter) /\ Handles
      /\ exe[p] # None /\ fs' = file_close(fs, file) /\ exe' = [exe EXCEPT ![p] = None]
      /\ UNCHANGED <<platter, files, thread_fd, leaked>>
      /\ exe \in [Process -> File \cup {None}] /\ file.deny_write /\ s \in Sector
  BY DEF Exit, FInv, Counted, Handles
<1>1. file \in File /\ s \in DOMAIN fs.inodes /\ Cardinality(Runs(exe, s)) > 0
  BY <1>0, UserOpen
<1>2. \A t : /\ Cardinality(Uses(files, t)) \in Nat /\ Cardinality(Runs(exe, t)) \in Nat
             /\ Opened(fs, t) \in Nat /\ Denied(fs, t) \in Int
  BY UsesFinite, RunsAre, CountTypes
<1>3. \A t \in Sector : /\ Opened(fs, t) = Cardinality(Uses(files, t)) + Cardinality(Runs(exe, t))
                        /\ Denied(fs, t) = Cardinality(Runs(exe, t))
  BY CountsOf DEF FInv
<1>4. \A t : Cardinality(Runs(exe', t)) =
             IF t = s THEN Cardinality(Runs(exe, t)) - 1 ELSE Cardinality(Runs(exe, t))
  <2>1. \A t : Cardinality(Runs([exe EXCEPT ![p] = None], t)) =
               IF t = exe[p].sector THEN Cardinality(Runs(exe, t)) - 1 ELSE Cardinality(Runs(exe, t))
    BY <1>0, RunsEnded
  <2> QED BY <2>1, <1>0
<1>5. /\ Stable(fs', leaked) /\ Positive(fs') /\ Framed(fs, fs')
      /\ \A t : Opened(fs', t) = IF t = s THEN Opened(fs, t) - 1 ELSE Opened(fs, t)
      /\ \A t : t # s => Denied(fs', t) = Denied(fs, t)
      /\ Denied(fs', s) = IF Opened(fs, s) <= 1 THEN 0 ELSE Denied(fs, s) - 1
  <2> HIDE DEF file
  <2>1. file \in File /\ file.sector \in DOMAIN fs.inodes /\ fs' = file_close(fs, file) /\ file.deny_write
    BY <1>0, <1>1 DEF file
  <2> QED BY <2>1, <1>0, FileClosed
<1> HIDE DEF s, file
<1>6. Stable(fs, leaked)' /\ Sound(platter)'
  BY <1>0, <1>5, StableNext
<1>7. Handles'
  <2>1. exe' \in [Process -> File \cup {None}]
    BY <1>0
  <2>2. \A q \in Process : exe'[q] # None => exe'[q].sector \in Sector /\ exe'[q].deny_write
    BY <1>0 DEF Handles
  <2> QED BY <2>1, <2>2, <1>0 DEF Handles
<1>8. Counted'
  <2>1. ASSUME NEW t \in Sector
        PROVE  /\ Opened(fs', t) = Cardinality(Uses(files, t)) + Cardinality(Runs(exe', t))
               /\ Denied(fs', t) = Cardinality(Runs(exe', t))
    <3>1. CASE t = s
      <4>1. /\ Opened(fs', t) = Opened(fs, t) - 1
            /\ Cardinality(Runs(exe', t)) = Cardinality(Runs(exe, t)) - 1
            /\ Denied(fs', t) = IF Opened(fs, t) <= 1 THEN 0 ELSE Denied(fs, t) - 1
        BY <3>1, <1>4, <1>5
      <4>2. Opened(fs, t) <= 1 => Cardinality(Runs(exe, t)) = 1
        BY <3>1, <1>1, <1>2, <1>3
      <4> QED BY <4>1, <4>2, <1>2, <1>3
    <3>2. CASE t # s
      BY <3>2, <1>3, <1>4, <1>5
    <3> QED BY <3>1, <3>2
  <2> QED BY <2>1, <1>0, <1>5, CountsNext
<1> QED BY <1>5, <1>6, <1>7, <1>8 DEF FInv

\* load opens the executable and denies writes to it.
LEMMA ExecStep ==
  ASSUME FInv, NEW name \in Name, NEW p \in Process, Exec(p, name)
  PROVE  FInv' /\ Framed(fs, fs')
<1> DEFINE s == dir_lookup(name)
           e == [file_open(s, 0) EXCEPT !.deny_write = TRUE]
           g == inode_open(fs, s)
<1>0. /\ Stable(fs, leaked) /\ Positive(fs) /\ Sound(platter) /\ Handles
      /\ exe[p] = None /\ files[p] = <<>> /\ lookup(fs.disk, name) # {}
      /\ fs' = inode_deny_write(g, s) /\ exe' = [exe EXCEPT ![p] = e]
      /\ thread_fd' = [thread_fd EXCEPT ![p] = 2]
      /\ UNCHANGED <<platter, files, leaked>>
  BY DEF Exec, FInv, Counted, file_deny_write
<1>1. s \in EntrySectors(fs.disk) /\ s \in Sector /\ s \in Nat
  BY <1>0, LookedUp, Sizing
<1>2. e \in File /\ e.sector = s /\ e.deny_write = TRUE
  BY <1>1 DEF file_open, File
<1> HIDE DEF e, s
<1>3. /\ Stable(g, leaked) /\ Positive(g) /\ g.disk = fs.disk /\ DOMAIN g.inodes = DOMAIN fs.inodes \cup {s}
      /\ \A t : /\ Opened(g, t) = IF t = s THEN Opened(fs, t) + 1 ELSE Opened(fs, t)
                /\ Denied(g, t) = Denied(fs, t)
  BY <1>0, <1>1, InodeOpened
<1> HIDE DEF g
<1>4. Denied(g, s) \in Int
  BY <1>3, CountTypes
<1>5. inode_deny_write(g, s) = [g EXCEPT !.inodes[s].deny_write_cnt = Denied(g, s) + 1]
  <2>1. Denied(g, s) = g.inodes[s].deny_write_cnt
    BY <1>3 DEF Denied, IsOpen
  <2> QED BY <2>1 DEF inode_deny_write
<1>6. /\ Stable(fs', leaked) /\ Positive(fs') /\ fs'.disk = fs.disk
      /\ DOMAIN fs'.inodes = DOMAIN fs.inodes \cup {s}
      /\ \A t : /\ Opened(fs', t) = IF t = s THEN Opened(fs, t) + 1 ELSE Opened(fs, t)
                /\ Denied(fs', t) = IF t = s THEN Denied(fs, t) + 1 ELSE Denied(fs, t)
  <2> DEFINE n == Denied(g, s) + 1
             h == [g EXCEPT !.inodes[s].deny_write_cnt = n]
  <2>1. n \in Int /\ s \in DOMAIN g.inodes /\ fs' = h
    BY <1>0, <1>3, <1>4, <1>5
  <2> HIDE DEF n
  <2>2. /\ Stable(h, leaked) /\ Positive(h) /\ h.disk = g.disk /\ DOMAIN h.inodes = DOMAIN g.inodes
        /\ \A t : /\ Opened(h, t) = Opened(g, t)
                  /\ Denied(h, t) = IF t = s THEN n ELSE Denied(g, t)
    <3> DEFINE Set(f, t, m) == [f EXCEPT !.inodes[t].deny_write_cnt = m]
               Good(f, x, t, m) == /\ Stable(x, leaked) /\ Positive(x) /\ x.disk = f.disk /\ DOMAIN x.inodes = DOMAIN f.inodes
                                   /\ \A u : /\ Opened(x, u) = Opened(f, u)
                                             /\ Denied(x, u) = IF u = t THEN m ELSE Denied(f, u)
    <3>1. ASSUME NEW f, Stable(f, leaked), Positive(f), NEW t \in DOMAIN f.inodes, NEW m \in Int
          PROVE  Good(f, Set(f, t, m), t, m)
      BY <3>1, DenialSet, SMTT(40)
    <3>2. h = Set(g, s, n)
      OBVIOUS
    <3> HIDE DEF Set, Good, h
    <3>3. Good(g, Set(g, s, n), s, n)
      BY <3>1, <2>1, <1>3
    <3> QED BY <3>2, <3>3 DEF Good
  <2> HIDE DEF h
  <2> QED BY <2>1, <2>2, <1>3 DEF n
<1>7. Stable(fs, leaked)' /\ Sound(platter)'
  BY <1>0, <1>6, StableNext
<1>8. Handles'
  <2>1. exe \in [Process -> File \cup {None}] /\ thread_fd \in [Process -> Nat] /\ MaxFd \in Nat
    BY <1>0, FilesAssumption DEF Handles
  <2>2. exe' \in [Process -> File \cup {None}] /\ thread_fd' \in [Process -> Nat]
    BY <2>1, <1>0, <1>2
  <2>3. \A q \in Process : exe'[q] # None => exe'[q].sector \in Sector /\ exe'[q].deny_write
    BY <2>1, <1>0, <1>1, <1>2 DEF Handles
  <2>4. \A q \in Process : Len(files[q]) + 2 <= thread_fd'[q]
    BY <2>1, <1>0 DEF Handles
  <2> QED BY <2>2, <2>3, <2>4, <1>0 DEF Handles
<1>9. Counted'
  <2>1. \A t : Cardinality(Runs(exe', t)) =
               IF t = s THEN Cardinality(Runs(exe, t)) + 1 ELSE Cardinality(Runs(exe, t))
    <3>1. exe \in [Process -> File \cup {None}]
      BY <1>0 DEF Handles
    <3>2. \A t : Cardinality(Runs([exe EXCEPT ![p] = e], t)) =
                 IF t = e.sector THEN Cardinality(Runs(exe, t)) + 1 ELSE Cardinality(Runs(exe, t))
      BY <3>1, <1>0, <1>2, RunsStarted
    <3> QED BY <3>2, <1>0, <1>2
  <2>2. \A t : Cardinality(Uses(files, t)) \in Nat /\ Cardinality(Runs(exe, t)) \in Nat
    BY UsesFinite, RunsAre
  <2>3. \A t \in Sector : /\ Opened(fs, t) = Cardinality(Uses(files, t)) + Cardinality(Runs(exe, t))
                          /\ Denied(fs, t) = Cardinality(Runs(exe, t))
    BY CountsOf DEF FInv
  <2>4. ASSUME NEW t \in Sector
        PROVE  /\ Opened(fs', t) = Cardinality(Uses(files, t)) + Cardinality(Runs(exe', t))
               /\ Denied(fs', t) = Cardinality(Runs(exe', t))
    <3>1. CASE t = s
      <4>1. /\ Opened(fs', t) = Opened(fs, t) + 1 /\ Denied(fs', t) = Denied(fs, t) + 1
            /\ Cardinality(Runs(exe', t)) = Cardinality(Runs(exe, t)) + 1
        BY <3>1, <2>1, <1>6
      <4> QED BY <4>1, <2>2, <2>3
    <3>2. CASE t # s
      BY <3>2, <2>1, <2>3, <1>6
    <3> QED BY <3>1, <3>2
  <2> QED BY <2>4, <1>0, <1>6, CountsNext
<1>10. Framed(fs, fs')
  BY <1>1, <1>6 DEF Framed, Live
<1> QED BY <1>6, <1>7, <1>8, <1>9, <1>10 DEF FInv

\* The position of a descriptor moves, which no counter depends on.
LEMMA Moved ==
  ASSUME FInv, NEW p \in Process, NEW k \in 1 .. Len(files[p]), NEW pos \in Nat,
         files' = [files EXCEPT ![p][k].pos = pos], UNCHANGED <<thread_fd, exe>>
  PROVE  Handles' /\ \A t : Uses(files', t) = Uses(files, t)
<1>0. /\ files \in [Process -> Seq(File)] /\ Handles
      /\ files[p] \in Seq(File) /\ Len(files[p]) \in Nat /\ files[p][k] \in File
  BY DEF FInv, Handles
<1> DEFINE e == [files[p][k] EXCEPT !.pos = pos]
           r == [files[p] EXCEPT ![k] = e]
<1>1. e \in File /\ e.sector = files[p][k].sector /\ e.deny_write = files[p][k].deny_write
  BY <1>0 DEF File
<1>2. files' = [files EXCEPT ![p] = r]
  OBVIOUS
<1> HIDE DEF e
<1>3. /\ r \in Seq(File) /\ Len(r) = Len(files[p]) /\ DOMAIN r = 1 .. Len(files[p])
      /\ \A j \in 1 .. Len(files[p]) : r[j] = IF j = k THEN e ELSE files[p][j]
  BY <1>0, <1>1, ExceptSeq
<1> HIDE DEF r
<1>4. \A j \in 1 .. Len(files[p]) : /\ r[j].sector = files[p][j].sector
                                    /\ r[j].deny_write = files[p][j].deny_write
  BY <1>1, <1>3
<1>5. files' \in [Process -> Seq(File)] /\ files'[p] = r /\ \A q \in Process \ {p} : files'[q] = files[q]
  BY <1>0, <1>2, <1>3
<1>6. Handles'
  <2>1. ASSUME NEW q \in Process
        PROVE  /\ Len(files'[q]) + 2 <= thread_fd[q] /\ Len(files'[q]) <= MaxFd
               /\ \A j \in 1 .. Len(files'[q]) : files'[q][j].sector \in Sector /\ ~files'[q][j].deny_write
    <3>1. CASE q # p
      BY <3>1, <1>0, <1>5 DEF Handles
    <3>2. CASE q = p
      BY <3>2, <1>0, <1>3, <1>4, <1>5 DEF Handles
    <3> QED BY <3>1, <3>2
  <2> QED BY <2>1, <1>0, <1>5 DEF Handles
<1>7. \A t : Uses(files', t) = Uses(files, t)
  <2>1. \A q \in Process : /\ DOMAIN files'[q] = DOMAIN files[q]
                           /\ \A j \in DOMAIN files[q] : files'[q][j].sector = files[q][j].sector
    BY <1>0, <1>3, <1>4, <1>5
  <2> QED BY <2>1 DEF Uses
<1> QED BY <1>6, <1>7

\* Where a file's data are.
LEMMA DataInside ==
  ASSUME NEW f, NEW lost, Stable(f, lost), NEW s \in Live(f)
  PROVE  /\ f.disk.inode[s] \in Inode /\ DataSectors(f.disk.inode[s]) \subseteq f.free_map
         /\ DataSectors(f.disk.inode[s]) \subseteq Sector /\ s \notin DataSectors(f.disk.inode[s])
         /\ \A t \in Live(f) \ {s} :
              DataSectors(f.disk.inode[s]) \cap DataSectors(f.disk.inode[t]) = {}
         /\ s \in DOMAIN f.inodes => f.inodes[s].data = f.disk.inode[s]
<1>1. /\ Apart(f.disk, Live(f)) /\ FileSectors(f.disk.inode[s], s) \subseteq SectorsOf(f.disk, Live(f))
      /\ SectorsOf(f.disk, Live(f)) \subseteq f.free_map /\ f.free_map \subseteq Sector
  BY LiveMarked DEF Stable, Kept, SectorsOf
<1>2. DataSectors(f.disk.inode[s]) \subseteq FileSectors(f.disk.inode[s], s)
  BY DEF DataSectors, FileSectors
<1>3. \A t \in Live(f) \ {s} : DataSectors(f.disk.inode[s]) \cap DataSectors(f.disk.inode[t]) = {}
  BY <1>1 DEF Apart, DataSectors, FileSectors
<1>4. f.disk.inode[s] \in Inode /\ s \notin DataSectors(f.disk.inode[s])
  BY <1>1 DEF Apart, DataSectors
<1>5. s \in DOMAIN f.inodes => f.inodes[s].data = f.disk.inode[s]
  BY DEF Stable, Kept
<1> QED BY <1>1, <1>2, <1>3, <1>4, <1>5

\* Steps of one process that move a descriptor only.
LEMMA MoveStep ==
  ASSUME FInv, NEW p \in Process, NEW k \in 1 .. Len(files[p]), NEW pos \in Nat,
         files' = [files EXCEPT ![p][k].pos = pos], UNCHANGED <<fs, platter, thread_fd, exe, leaked>>
  PROVE  FInv'
<1>1. Handles' /\ \A t : Uses(files', t) = Uses(files, t)
  BY Moved
<1>2. Stable(fs', leaked') /\ Sound(platter) /\ Positive(fs') /\ fs' = fs /\ exe' = exe
  BY DEF FInv, Counted
<1>3. Stable(fs, leaked)' /\ Sound(platter)'
  BY <1>2, StableNext
<1>4. Counted'
  <2>1. \A t \in Sector : /\ Opened(fs, t) = Cardinality(Uses(files, t)) + Cardinality(Runs(exe, t))
                          /\ Denied(fs, t) = Cardinality(Runs(exe, t))
    BY CountsOf DEF FInv
  <2> QED BY <2>1, <1>1, <1>2, CountsNext
<1> QED BY <1>1, <1>3, <1>4 DEF FInv

\* read_file.
LEMMA ReadStep ==
  ASSUME FInv, NEW p \in Process, NEW fd, NEW size \in Sizes, Read(p, fd, size)
  PROVE  FInv'
<1>1. PICK k \in get_file_structure(p, fd) :
        files' = [files EXCEPT ![p][k].pos = @ + Len(inode_read_at(fs.disk,
                    fs.inodes[files[p][k].sector].data, size, files[p][k].pos))]
  BY DEF Read
<1> DEFINE file == files[p][k]
           i == fs.inodes[file.sector].data
           n == Len(inode_read_at(fs.disk, i, size, file.pos))
<1>2. files[p] \in Seq(File) /\ Len(files[p]) \in Nat /\ size \in Nat
  BY FilesAssumption DEF FInv, Handles
<1>3. k \in 1 .. Len(files[p])
  BY <1>2 DEF get_file_structure
<1>4. file \in File /\ file.sector \in DOMAIN fs.inodes /\ file.pos \in Nat
  BY <1>3, UserOpen DEF File
<1> HIDE DEF file
<1>5. i \in Inode /\ DataSectors(i) \subseteq Sector /\ fs.disk \in Image
  <2>1. Stable(fs, leaked) /\ file.sector \in Live(fs)
    BY <1>4 DEF FInv, Live
  <2>2. fs.disk \in Image
    BY <2>1, SystemType DEF Stable
  <2> QED BY <2>1, <2>2, <1>4, DataInside
<1>6. inode_read_at(fs.disk, i, size, file.pos) \in Seq(Nat)
  BY <1>2, <1>4, <1>5, ReadType
<1>7. n \in Nat
  BY <1>6
<1>8. files' = [files EXCEPT ![p][k].pos = file.pos + n] /\ file.pos + n \in Nat
  BY <1>1, <1>4, <1>7 DEF file
<1>9. UNCHANGED <<fs, platter, thread_fd, exe, leaked>>
  BY DEF Read
<1> HIDE DEF n
<1> QED BY <1>3, <1>8, <1>9, MoveStep

\* fileseek.
LEMMA SeekStep ==
  ASSUME FInv, NEW p \in Process, NEW fd, NEW pos \in Offsets, Seek(p, fd, pos)
  PROVE  FInv'
<1>1. PICK k \in get_file_structure(p, fd) : files' = [files EXCEPT ![p][k].pos = pos]
  BY DEF Seek
<1>2. files[p] \in Seq(File) /\ pos \in Nat
  BY FilesAssumption DEF FInv, Handles
<1>3. k \in 1 .. Len(files[p])
  BY <1>2 DEF get_file_structure
<1>4. UNCHANGED <<fs, platter, thread_fd, exe, leaked>>
  BY DEF Seek
<1> QED BY <1>1, <1>2, <1>3, <1>4, MoveStep

\* The chunks of a write are chunks of the buffer.
LEMMA ChunksToWrite ==
  ASSUME NEW f, NEW lost, Stable(f, lost), NEW s \in DOMAIN f.inodes,
         NEW size \in Nat, NEW offset \in Nat, WriteChunks(f, s, size, offset) # <<>>
  PROVE  LET cs == WriteChunks(f, s, size, offset)
         IN  /\ ~(f.inodes[s].deny_write_cnt > 0) /\ cs = Chunks(f.inodes[s].data, size, offset)
             /\ cs \in Seq(Chunk) /\ Len(cs) \in Nat /\ Len(cs) > 0 /\ Last(cs) \in Chunk
<1> DEFINE i == f.inodes[s].data
           cs == WriteChunks(f, s, size, offset)
<1>1. ~(f.inodes[s].deny_write_cnt > 0) /\ cs = Chunks(i, size, offset)
  BY DEF WriteChunks
<1>2. i \in Inode /\ Extent(i.start, bytes_to_sectors(i.length)) \subseteq Sector
  <2>1. s \in Live(f)
    BY DEF Live
  <2> QED BY <2>1, DataInside DEF DataSectors
<1>3. Chunks(i, size, offset) \in Seq(Chunk)
  BY <1>2, ChunksInside
<1>4. cs # <<>>
  OBVIOUS
<1> HIDE DEF cs
<1>5. Len(cs) \in Nat /\ Len(cs) > 0 /\ cs[Len(cs)] \in Chunk
  BY <1>1, <1>3, <1>4
<1> QED BY <1>1, <1>3, <1>5 DEF Last, cs

\* The buffer is written to file s at offset.
BufferWritten(s, offset, buffer) ==
    LET cs == Chunks(fs.inodes[s].data, Len(buffer), offset)
        n  == Lesser(Len(buffer), Len(ref[s]) - offset)
    IN  /\ cs # <<>> /\ fs' = WriteAll(fs, cs, buffer)
        /\ ref' = [ref EXCEPT ![s] = [i \in DOMAIN @ |->
                     IF i \in offset + 1 .. offset + n THEN buffer[i - offset] ELSE @[i]]]
        /\ Live(fs') = Live(fs) /\ \A t \in Live(fs) : fs'.disk.inode[t] = fs.disk.inode[t]

\* write_file.
LEMMA WriteStep ==
  ASSUME FInv, NEW p \in Process, NEW fd, NEW buffer \in Buffers, Write(p, fd, buffer)
  PROVE  /\ FInv' /\ fs'.inodes = fs.inodes
         /\ \E s \in DOMAIN fs.inodes, offset \in Nat :
              /\ ~(fs.inodes[s].deny_write_cnt > 0)
              /\ \A t \in Sector \ DataSectors(fs.inodes[s].data) : fs'.disk.data[t] = fs.disk.data[t]
              /\ BufferWritten(s, offset, buffer)
<1>1. PICK k \in get_file_structure(p, fd) :
        LET s    == files[p][k].sector
            done == WriteChunks(fs, s, Len(buffer), files[p][k].pos)
            n    == Lesser(Len(buffer), Len(ref[s]) - files[p][k].pos)
        IN  /\ done # <<>>
            /\ fs' = inode_write_at(fs, s, buffer, files[p][k].pos)
            /\ ref' = [ref EXCEPT ![s] = [i \in DOMAIN @ |->
                         IF i \in files[p][k].pos + 1 .. files[p][k].pos + n
                         THEN buffer[i - files[p][k].pos] ELSE @[i]]]
            /\ files' = [files EXCEPT ![p][k].pos = @ + Last(done).done + Last(done).len]
  BY DEF Write
<1> DEFINE file == files[p][k]
           s == file.sector
           done == WriteChunks(fs, s, Len(buffer), file.pos)
           pos == file.pos + Last(done).done + Last(done).len
<1>2. files[p] \in Seq(File) /\ Len(files[p]) \in Nat /\ buffer \in Seq(Nat) /\ Len(buffer) \in Nat
  BY FilesAssumption DEF FInv, Handles
<1>3. k \in 1 .. Len(files[p])
  BY <1>2 DEF get_file_structure
<1>4. file \in File /\ s \in DOMAIN fs.inodes /\ file.pos \in Nat
  BY <1>3, UserOpen DEF File
<1>5. /\ Stable(fs, leaked) /\ Positive(fs) /\ Sound(platter)
      /\ UNCHANGED <<platter, thread_fd, exe, leaked>>
  BY DEF FInv, Counted, Write
<1>6. done # <<>> /\ fs' = inode_write_at(fs, s, buffer, file.pos)
      /\ files' = [files EXCEPT ![p][k].pos = pos]
  BY <1>1
<1>13. LET n == Lesser(Len(buffer), Len(ref[s]) - file.pos)
       IN  ref' = [ref EXCEPT ![s] = [i \in DOMAIN @ |->
                     IF i \in file.pos + 1 .. file.pos + n THEN buffer[i - file.pos] ELSE @[i]]]
  BY <1>1
<1> HIDE DEF s, file
<1>7. ~(fs.inodes[s].deny_write_cnt > 0) /\ Last(done) \in Chunk
  BY <1>2, <1>4, <1>5, <1>6, ChunksToWrite
<1>14. LET cs == Chunks(fs.inodes[s].data, Len(buffer), file.pos)
       IN  cs # <<>> /\ fs' = WriteAll(fs, cs, buffer)
  <2>1. done = Chunks(fs.inodes[s].data, Len(buffer), file.pos)
    BY <1>7 DEF WriteChunks
  <2> QED BY <2>1, <1>6 DEF inode_write_at
<1> HIDE DEF done
<1>8. pos \in Nat
  BY <1>4, <1>7 DEF Chunk
<1>9. /\ Stable(fs', leaked) /\ fs'.inodes = fs.inodes
      /\ Live(fs') = Live(fs) /\ \A t \in Live(fs) : fs'.disk.inode[t] = fs.disk.inode[t]
      /\ \A t \in Sector \ DataSectors(fs.inodes[s].data) : fs'.disk.data[t] = fs.disk.data[t]
  BY <1>2, <1>4, <1>5, <1>6, InodeWritten
<1> HIDE DEF pos
<1>10. Handles' /\ \A t : Uses(files', t) = Uses(files, t)
  BY <1>3, <1>5, <1>6, <1>8, Moved
<1>11. Stable(fs, leaked)' /\ Sound(platter)'
  BY <1>5, <1>9, StableNext
<1>12. Counted'
  <2>1. \A t \in Sector : /\ Opened(fs, t) = Cardinality(Uses(files, t)) + Cardinality(Runs(exe, t))
                          /\ Denied(fs, t) = Cardinality(Runs(exe, t))
    BY CountsOf DEF FInv
  <2>2. Positive(fs') /\ \A t : Opened(fs', t) = Opened(fs, t) /\ Denied(fs', t) = Denied(fs, t)
    BY <1>5, <1>9 DEF Positive, Opened, Denied, IsOpen
  <2> QED BY <2>1, <2>2, <1>5, <1>10, CountsNext
<1>15. BufferWritten(s, file.pos, buffer)
  BY <1>9, <1>13, <1>14 DEF BufferWritten
<1> QED BY <1>4, <1>7, <1>9, <1>10, <1>11, <1>12, <1>15 DEF FInv

\* The disk writes the oldest image.
LEMMA BlockStep == ASSUME FInv, BlockWrite PROVE FInv' /\ Framed(fs, fs')
<1>0. /\ fs.hist # <<>> /\ platter' = Head(fs.hist) /\ fs' = [fs EXCEPT !.hist = Tail(@)]
      /\ UNCHANGED <<files, thread_fd, exe, leaked>>
      /\ Stable(fs, leaked) /\ Positive(fs) /\ Handles
  BY DEF BlockWrite, FInv, Counted
<1>1. fs \in FileSystem /\ fs.hist \in Seq(Image) /\ Len(fs.hist) \in Nat /\ Len(fs.hist) # 0
      /\ platter' = fs.hist[1] /\ Log(fs)
  BY <1>0, SystemType DEF Stable
<1>2. /\ Tail(fs.hist) \in Seq(Image) /\ Len(Tail(fs.hist)) = Len(fs.hist) - 1
      /\ \A k \in 1 .. Len(fs.hist) - 1 : Tail(fs.hist)[k] = fs.hist[k + 1]
  BY <1>0, <1>1, HeadTailProperties
<1>3. /\ fs' \in FileSystem /\ fs'.disk = fs.disk /\ fs'.free_map = fs.free_map /\ fs'.inodes = fs.inodes
      /\ fs'.hist = Tail(fs.hist)
  BY <1>0, <1>1, <1>2 DEF FileSystem
<1>4. Sound(platter')
  BY <1>1 DEF Log
<1>5. Log(fs)'
  <2>1. ASSUME NEW k \in 1 .. Len(fs'.hist) PROVE Sound(fs'.hist[k])
    <3>1. k + 1 \in 1 .. Len(fs.hist) /\ fs'.hist[k] = fs.hist[k + 1]
      BY <1>1, <1>2, <1>3
    <3> QED BY <3>1, <1>1 DEF Log
  <2>2. fs'.hist # <<>> => fs'.hist[Len(fs'.hist)] = fs'.disk
    <3> SUFFICES ASSUME fs'.hist # <<>> PROVE fs'.hist[Len(fs'.hist)] = fs'.disk
      OBVIOUS
    <3>1. Len(fs'.hist) \in 1 .. Len(fs.hist) - 1 /\ Len(fs'.hist) + 1 = Len(fs.hist)
      BY <1>1, <1>2, <1>3
    <3>2. fs'.hist[Len(fs'.hist)] = fs.hist[Len(fs.hist)]
      BY <3>1, <1>2, <1>3
    <3> QED BY <3>2, <1>0, <1>1, <1>3 DEF Log
  <2>3. fs'.hist = <<>> => fs'.disk = platter'
    <3> SUFFICES ASSUME fs'.hist = <<>> PROVE fs'.disk = platter'
      OBVIOUS
    <3>1. Len(fs.hist) = 1
      <4>1. Len(fs'.hist) = Len(fs.hist) - 1 /\ Len(fs.hist) \in Nat
        BY <1>1, <1>2, <1>3
      <4>2. Len(fs'.hist) = 0
        OBVIOUS
      <4> QED BY <4>1, <4>2
    <3> QED BY <3>1, <1>0, <1>1, <1>3 DEF Log
  <2>4. \A k \in 1 .. Len(fs'.hist) : Sound(fs'.hist[k])
    BY <2>1
  <2> QED BY <2>2, <2>3, <2>4 DEF Log
<1>6. Live(fs') = Live(fs)
  BY <1>3 DEF Live
<1>7. Kept(fs') /\ Accounted(fs', leaked') /\ Sound(fs'.disk) /\ Positive(fs')
  BY <1>0, <1>3, <1>6 DEF Kept, Accounted, Stable, Positive
<1>8. Stable(fs, leaked)' /\ Sound(platter)'
  <2>1. Kept(fs)' /\ Accounted(fs, leaked)' /\ Sound(fs.disk)' /\ (fs \in FileSystem)' /\ Sound(platter)'
    BY <1>3, <1>4, <1>7
  <2> QED BY <2>1, <1>5 DEF Stable
<1>9. Handles'
  BY <1>0, HandlesSame
<1>10. Counted'
  <2>1. \A t : Opened(fs', t) = Opened(fs, t) /\ Denied(fs', t) = Denied(fs, t)
    BY <1>3 DEF Opened, Denied, IsOpen
  <2> QED BY <2>1, <1>0, <1>7, CountsOf, CountsNext DEF FInv
<1>11. Framed(fs, fs')
  BY <1>3, <1>6 DEF Framed
<1> QED BY <1>8, <1>9, <1>10, <1>11 DEF FInv

\* The machine boots from a sound image.
LEMMA Booted ==
  ASSUME NEW d, Sound(d)
  PROVE  LET f == filesys_init(d)
         IN  /\ f \in FileSystem /\ f.disk = d /\ f.hist = <<>> /\ f.inodes = [s \in {} |-> None]
             /\ DOMAIN f.inodes = {} /\ Positive(f) /\ Kept(f)
             /\ Accounted(f, d.marked \ (System \cup Named(d)))
<1> DEFINE f == filesys_init(d)
           tab == [s \in {} |-> None]
<1>1. d \in Image /\ d.marked \in SUBSET Sector
  BY DEF Sound, Image
<1>2. tab \in OpenInodes /\ DOMAIN tab = {}
  <2>1. DOMAIN tab = {} /\ tab = [s \in DOMAIN tab |-> tab[s]]
    OBVIOUS
  <2> HIDE DEF tab
  <2> QED BY <2>1, TableType
<1>3. f.disk = d /\ f.hist = <<>> /\ f.free_map = d.marked /\ f.inodes = tab
  BY DEF filesys_init
<1>4. f \in FileSystem
  <2>1. f = [disk |-> d, hist |-> <<>>, free_map |-> d.marked, inodes |-> tab]
    BY DEF filesys_init
  <2> HIDE DEF tab, f
  <2> QED BY <2>1, <1>1, <1>2 DEF FileSystem
<1> HIDE DEF tab, f
<1>5. Live(f) = EntrySectors(d)
  BY <1>2, <1>3 DEF Live
<1>6. Kept(f)
  BY <1>2, <1>3, <1>5 DEF Kept, Sound
<1>7. Accounted(f, d.marked \ (System \cup Named(d)))
  <2>1. Named(d) = SectorsOf(d, EntrySectors(d)) /\ System \cup Named(d) \subseteq d.marked
    BY NamedSectors DEF Sound
  <2> QED BY <2>1, <1>3, <1>5 DEF Accounted
<1>8. Positive(f)
  BY <1>2, <1>3 DEF Positive
<1> QED BY <1>2, <1>3, <1>4, <1>6, <1>7, <1>8 DEF f, tab

\* Processes that have nothing open.
LEMMA NothingOpen ==
  ASSUME NEW s
  PROVE  /\ Cardinality(Uses([p \in Process |-> <<>>], s)) = 0
         /\ Cardinality(Runs([p \in Process |-> None], s)) = 0
<1>1. Uses([p \in Process |-> <<>>], s) = {}
  BY DEF Uses
<1>2. Runs([p \in Process |-> None], s) = {}
  BY DEF Runs
<1> QED BY <1>1, <1>2, FS_EmptySet

\* A crash.
LEMMA CrashStep == ASSUME FInv, Crash PROVE FInv'
<1>0. /\ fs' = filesys_init(platter) /\ platter' = platter
      /\ files' = [p \in Process |-> <<>>] /\ thread_fd' = [p \in Process |-> 2]
      /\ exe' = [p \in Process |-> None]
      /\ leaked' = platter.marked \ (System \cup Named(platter))
      /\ Sound(platter)
  BY DEF Crash, FInv
<1>1. /\ fs' \in FileSystem /\ fs'.disk = platter /\ fs'.hist = <<>> /\ DOMAIN fs'.inodes = {}
      /\ Positive(fs') /\ Kept(fs') /\ Accounted(fs', leaked')
  BY <1>0, Booted
<1>2. Log(fs')
  BY <1>1 DEF Log
<1>3. Stable(fs, leaked)' /\ Sound(platter)'
  <2>1. Stable(fs', leaked')
    BY <1>0, <1>1, <1>2 DEF Stable
  <2> QED BY <2>1, <1>0, StableNext
<1>4. Handles'
  BY <1>0, FilesAssumption DEF Handles
<1>5. Counted'
  <2>1. \A t : Opened(fs', t) = 0 /\ Denied(fs', t) = 0
    BY <1>1 DEF Opened, Denied, IsOpen
  <2> QED BY <2>1, <1>0, <1>1, NothingOpen, CountsNext
<1> QED BY <1>3, <1>4, <1>5 DEF FInv

\* The formatted disk.
LEMMA FormattedSound == Sound(Formatted) /\ Entries(Formatted) = {} /\ Formatted.marked = System
<1>1. Formatted \in Image
  <2>1. Zeros(SECTOR_SIZE) \in [1 .. SECTOR_SIZE -> Nat]
    BY ZerosType, Sizing
  <2> DEFINE z == Zeros(SECTOR_SIZE)
  <2>2. Formatted = [marked |-> System, dir |-> [i \in 1 .. NSlots |-> None],
                     inode |-> [s \in Sector |-> None], data |-> [s \in Sector |-> z]]
    BY DEF Formatted
  <2> HIDE DEF z
  <2> QED BY <2>1, <2>2, Sizing DEF Image, z
<1>2. Entries(Formatted) = {}
  BY DEF Entries, Formatted
<1>3. EntrySectors(Formatted) = {}
  BY <1>2 DEF EntrySectors
<1>4. Named(Formatted) = {}
  BY <1>2 DEF Named
<1>5. Formatted.marked = System
  BY DEF Formatted
<1>6. Apart(Formatted, {})
  BY DEF Apart
<1> QED BY <1>1, <1>2, <1>3, <1>4, <1>5, <1>6 DEF Sound

\* At the start.
LEMMA FilesInit == ASSUME Init PROVE FInv
<1>0. /\ fs = filesys_init(Formatted) /\ platter = Formatted
      /\ files = [p \in Process |-> <<>>] /\ thread_fd = [p \in Process |-> 2]
      /\ exe = [p \in Process |-> None] /\ leaked = {}
  BY DEF Init
<1>1. /\ fs \in FileSystem /\ fs.disk = platter /\ fs.hist = <<>> /\ DOMAIN fs.inodes = {}
      /\ Positive(fs) /\ Kept(fs) /\ Accounted(fs, Formatted.marked \ (System \cup Named(Formatted)))
  BY <1>0, Booted, FormattedSound
<1>2. Formatted.marked \ (System \cup Named(Formatted)) = leaked
  BY <1>0, FormattedSound
<1>3. Stable(fs, leaked) /\ Sound(platter)
  <2>1. Sound(platter) /\ Sound(fs.disk)
    BY <1>0, <1>1, FormattedSound
  <2>2. Log(fs)
    BY <1>1 DEF Log
  <2>3. Accounted(fs, leaked)
    BY <1>1, <1>2
  <2> QED BY <2>1, <2>2, <2>3, <1>1 DEF Stable
<1>4. Handles
  BY <1>0, FilesAssumption DEF Handles
<1>5. Counted
  <2>1. \A t : Opened(fs, t) = 0 /\ Denied(fs, t) = 0
    BY <1>1 DEF Opened, Denied, IsOpen
  <2> QED BY <2>1, <1>0, <1>1, NothingOpen, CountsOf
<1> QED BY <1>3, <1>4, <1>5 DEF FInv

\* Steps that leave everything.
LEMMA FilesStutter == ASSUME FInv, UNCHANGED vars PROVE FInv'
<1>0. UNCHANGED <<fs, platter, files, thread_fd, exe, leaked>>
  BY DEF vars
<1>1. Stable(fs', leaked') /\ Sound(platter) /\ Handles
  BY <1>0 DEF FInv
<1>2. Stable(fs, leaked)' /\ Sound(platter)'
  BY <1>0, <1>1, StableNext
<1>3. Handles'
  BY <1>0, <1>1, HandlesSame
<1>4. Counted'
  BY <1>0, CountsOf, CountsNext DEF FInv
<1> QED BY <1>2, <1>3, <1>4 DEF FInv

\* Files that are denied for writing keep their data.
Unharmed == \A s \in DOMAIN fs.inodes : fs.inodes[s].deny_write_cnt > 0 =>
              \A t \in DataSectors(fs.inodes[s].data) : fs'.disk.data[t] = fs.disk.data[t]

\* They do when the marked sectors keep their data.
LEMMA MarkedKept ==
  ASSUME FInv, \A t \in fs.free_map : fs'.disk.data[t] = fs.disk.data[t]
  PROVE  Unharmed
<1>1. \A s \in DOMAIN fs.inodes : DataSectors(fs.inodes[s].data) \subseteq fs.free_map
  BY DataInside DEF FInv, Live
<1> QED BY <1>1 DEF Unharmed

\* And when another file is written.
LEMMA OtherWritten ==
  ASSUME FInv, NEW w \in DOMAIN fs.inodes, ~(fs.inodes[w].deny_write_cnt > 0),
         \A t \in Sector \ DataSectors(fs.inodes[w].data) : fs'.disk.data[t] = fs.disk.data[t]
  PROVE  Unharmed
<1> SUFFICES ASSUME NEW s \in DOMAIN fs.inodes, fs.inodes[s].deny_write_cnt > 0
             PROVE  \A t \in DataSectors(fs.inodes[s].data) : fs'.disk.data[t] = fs.disk.data[t]
  BY DEF Unharmed
<1>1. s # w /\ s \in Live(fs) /\ w \in Live(fs) /\ Stable(fs, leaked)
  BY DEF Live, FInv
<1>2. /\ DataSectors(fs.disk.inode[s]) \subseteq Sector
      /\ \A t \in Live(fs) \ {s} : DataSectors(fs.disk.inode[s]) \cap DataSectors(fs.disk.inode[t]) = {}
      /\ fs.inodes[s].data = fs.disk.inode[s] /\ fs.inodes[w].data = fs.disk.inode[w]
  BY <1>1, DataInside
<1>3. DataSectors(fs.inodes[s].data) \subseteq Sector \ DataSectors(fs.inodes[w].data)
  BY <1>1, <1>2
<1> QED BY <1>3

\* The invariant is inductive, and no step but a crash touches a file that is
\* denied for writing.
LEMMA FilesStep ==
  ASSUME FInv, [Next]_vars
  PROVE  FInv' /\ (Unharmed \/ Crash)
<1>0. fs.disk.data = fs'.disk.data => Unharmed
  BY DEF Unharmed
<1>1. ASSUME NEW name \in Name, NEW size \in Sizes, NEW ok \in BOOLEAN, CreateFile(name, size, ok)
      PROVE  FInv' /\ Unharmed
  BY <1>1, CreateStep, MarkedKept DEF Created
<1>2. ASSUME NEW name \in Name, RemoveFile(name) PROVE FInv' /\ Unharmed
  BY <1>0, <1>2, RemoveStep DEF Framed
<1>3. ASSUME NEW name \in Name, NEW p \in Process, Open(p, name) PROVE FInv' /\ Unharmed
  BY <1>0, <1>3, OpenStep DEF Framed
<1>4. ASSUME NEW name \in Name, NEW p \in Process, Exec(p, name) PROVE FInv' /\ Unharmed
  BY <1>0, <1>4, ExecStep DEF Framed
<1>5. ASSUME NEW p \in Process, NEW fd \in Fds, Close(p, fd) PROVE FInv' /\ Unharmed
  BY <1>0, <1>5, CloseStep DEF Framed
<1>6. ASSUME NEW p \in Process, NEW fd \in Fds, NEW size \in Sizes, Read(p, fd, size) PROVE FInv' /\ Unharmed
  <2>1. fs' = fs
    BY <1>6 DEF Read
  <2> QED BY <2>1, <1>0, <1>6, ReadStep
<1>7. ASSUME NEW p \in Process, NEW fd \in Fds, NEW pos \in Offsets, Seek(p, fd, pos) PROVE FInv' /\ Unharmed
  <2>1. fs' = fs
    BY <1>7 DEF Seek
  <2> QED BY <2>1, <1>0, <1>7, SeekStep
<1>8. ASSUME NEW p \in Process, NEW fd \in Fds, NEW buffer \in Buffers, Write(p, fd, buffer) PROVE FInv' /\ Unharmed
  BY <1>8, WriteStep, OtherWritten
<1>9. ASSUME NEW p \in Process, Exit(p) PROVE FInv' /\ Unharmed
  BY <1>0, <1>9, ExitStep DEF Framed
<1>10. ASSUME NEW p \in Process, close_all_opened_files(p) PROVE FInv' /\ Unharmed
  BY <1>0, <1>10, CloseAllStep DEF Framed
<1>11. ASSUME BlockWrite PROVE FInv' /\ Unharmed
  BY <1>0, <1>11, BlockStep DEF Framed
<1>12. ASSUME Crash PROVE FInv'
  BY <1>12, CrashStep
<1>13. ASSUME UNCHANGED vars PROVE FInv' /\ Unharmed
  BY <1>0, <1>13, FilesStutter DEF vars
<1> QED BY <1>1, <1>2, <1>3, <1>4, <1>5, <1>6, <1>7, <1>8, <1>9, <1>10, <1>11, <1>12, <1>13 DEF Next

----------------------------------------------------------------------------
(* The theorems. *)

\* The kernel's inodes, descriptors and free map agree with each other and with
\* every image on its way to the disk, whatever a process does and wherever the
\* machine stops (filesys/inode.c, directory.c, free-map.c, userprog/syscall.c).
THEOREM FilesInvariance == Spec => []FInv
<1>1. Init => FInv
  BY FilesInit
<1>2. FInv /\ [Next]_vars => FInv'
  BY FilesStep
<1> QED BY <1>1, <1>2, PTL DEF Spec

\* An image that is sound is one that the machine can boot from.
LEMMA SoundIsSafe ==
  ASSUME Sound(platter)
  PROVE  CrashSafe
<1> DEFINE d == platter
<1>1. \A i \in Entries(d) : d.dir[i].sector \in EntrySectors(d)
  BY DEF EntrySectors
<1>2. Apart(d, EntrySectors(d))
  BY DEF Sound
<1>3. \A i \in Entries(d) : d.inode[d.dir[i].sector] # None
  BY <1>1, <1>2, FilesAssumption DEF Apart
<1>4. Named(d) \cap System = {}
  BY <1>2, NamedSectors DEF Apart, SectorsOf
<1>5. Disjoint(d)
  BY <1>1, <1>2 DEF Disjoint, Sound, Apart
<1> QED BY <1>3, <1>4, <1>5 DEF CrashSafe, Sound

\* Between any two block writes, the disk can be booted from: every name has its
\* inode and its sectors, marked and not shared (filesys_create, filesys_remove and
\* inode_close write in the right order).
THEOREM CrashSafeHolds == Spec => []CrashSafe
<1>1. FInv => CrashSafe
  BY SoundIsSafe DEF FInv
<1> QED BY <1>1, FilesInvariance, PTL

\* What the live inodes use.
LEMMA LiveSectors ==
  ASSUME FInv
  PROVE  Named(fs.disk) \cup OpenSectors = SectorsOf(fs.disk, Live(fs))
<1>1. OpenSectors = SectorsOf(fs.disk, DOMAIN fs.inodes)
  <2>1. \A s \in DOMAIN fs.inodes : fs.inodes[s].data = fs.disk.inode[s]
    BY DEF FInv, Stable, Kept
  <2> QED BY <2>1 DEF OpenSectors, SectorsOf
<1>2. Named(fs.disk) = SectorsOf(fs.disk, EntrySectors(fs.disk))
  BY NamedSectors
<1>3. SectorsOf(fs.disk, Live(fs)) =
        SectorsOf(fs.disk, DOMAIN fs.inodes) \cup SectorsOf(fs.disk, EntrySectors(fs.disk))
  BY DEF SectorsOf, Live
<1> QED BY <1>1, <1>2, <1>3

\* The free map has the sectors of the system and of the files that have a name or
\* are open, and the ones lost by a crash or in filesys_create; none of them is both
\* (free_map_allocate, free_map_release).
THEOREM SectorsAccountedHolds == Spec => []SectorsAccounted
<1>1. FInv => SectorsAccounted
  <2> SUFFICES ASSUME FInv PROVE SectorsAccounted
    OBVIOUS
  <2>1. Stable(fs, leaked)
    BY DEF FInv
  <2>2. /\ fs.disk.marked = fs.free_map
        /\ fs.free_map = System \cup SectorsOf(fs.disk, Live(fs)) \cup leaked
        /\ SectorsOf(fs.disk, Live(fs)) \cap leaked = {}
    BY <2>1 DEF Stable, Accounted
  <2>3. fs.hist = <<>> => fs.disk = platter
    BY <2>1 DEF Stable, Log
  <2> QED BY <2>2, <2>3, LiveSectors DEF SectorsAccounted
<1> QED BY <1>1, FilesInvariance, PTL

\* open_cnt and deny_write_cnt count the descriptors and executables of an inode, and
\* only inodes in use are kept (inode_open, inode_close, inode_deny_write,
\* inode_allow_write).
THEOREM OpenCountsHolds == Spec => []OpenCounts
<1>1. FInv => OpenCounts
  <2> SUFFICES ASSUME FInv PROVE OpenCounts
    OBVIOUS
  <2>1. DOMAIN fs.inodes \subseteq Sector /\ Positive(fs)
    BY SystemType DEF FInv, Stable, Counted
  <2>2. \A s \in Sector : /\ Opened(fs, s) = Cardinality(FilesOf(s)) + Cardinality(RunsOf(s))
                          /\ Denied(fs, s) = Cardinality(RunsOf(s))
    BY DEF FInv, Counted
  <2>3. \A s \in DOMAIN fs.inodes : /\ Opened(fs, s) = fs.inodes[s].open_cnt
                                    /\ Denied(fs, s) = fs.inodes[s].deny_write_cnt
    BY DEF Opened, Denied, IsOpen
  <2>4. \A s \in DOMAIN fs.inodes :
          fs.inodes[s].removed <=> \A i \in Entries(fs.disk) : fs.disk.dir[i].sector # s
    BY DEF FInv, Stable, Kept, EntrySectors
  <2>5. \A s \in DOMAIN fs.inodes :
          /\ fs.inodes[s].open_cnt = Cardinality(FilesOf(s)) + Cardinality(RunsOf(s))
          /\ fs.inodes[s].deny_write_cnt = Cardinality(RunsOf(s))
          /\ fs.inodes[s].open_cnt > 0
    BY <2>1, <2>2, <2>3 DEF Positive
  <2>6. ASSUME NEW s \in Sector, FilesOf(s) \cup RunsOf(s) # {} PROVE IsOpen(fs, s)
    <3>1. /\ IsFiniteSet(FilesOf(s)) /\ Cardinality(FilesOf(s)) \in Nat
          /\ IsFiniteSet(RunsOf(s)) /\ Cardinality(RunsOf(s)) \in Nat
      BY UsesFinite, RunsAre, CountsOf
    <3>2. FilesOf(s) # {} \/ RunsOf(s) # {}
      BY <2>6
    <3>3. Cardinality(FilesOf(s)) # 0 \/ Cardinality(RunsOf(s)) # 0
      BY <3>1, <3>2, FS_EmptySet
    <3>4. Opened(fs, s) # 0
      BY <3>1, <3>3, <2>2
    <3> QED BY <3>4 DEF Opened
  <2> QED BY <2>4, <2>5, <2>6 DEF OpenCounts
<1> QED BY <1>1, FilesInvariance, PTL

\* What a process runs is not changed by anyone while it runs (inode_deny_write,
\* inode_write_at, and the free map that gives its sectors to no other file).
THEOREM ExecutableUnchangedHolds == Spec => ExecutableUnchanged
<1> DEFINE Unchanged == \A p \in Process : exe[p] # None /\ exe'[p] = exe[p] =>
                          LET s == exe[p].sector
                              i == fs.inodes[s].data
                          IN  inode_read_at(fs'.disk, i, i.length, 0)
                                = inode_read_at(fs.disk, i, i.length, 0)
<1>1. FInv /\ [Next]_vars => [Unchanged]_vars
  <2> SUFFICES ASSUME FInv, [Next]_vars, NEW p \in Process, exe[p] # None, exe'[p] = exe[p]
               PROVE  LET s == exe[p].sector
                          i == fs.inodes[s].data
                      IN  inode_read_at(fs'.disk, i, i.length, 0)
                            = inode_read_at(fs.disk, i, i.length, 0)
    OBVIOUS
  <2> DEFINE s == exe[p].sector
             i == fs.inodes[s].data
  <2>1. ~Crash
    BY DEF Crash
  <2>2. Unharmed
    BY <2>1, FilesStep
  <2>3. s \in DOMAIN fs.inodes /\ Cardinality(Runs(exe, s)) > 0
    BY UserOpen
  <2>4. fs.inodes[s].deny_write_cnt > 0
    <3>1. s \in Sector /\ Denied(fs, s) = Cardinality(Runs(exe, s))
      BY <2>3, SystemType, CountsOf DEF FInv, Stable
    <3> QED BY <3>1, <2>3 DEF Denied, IsOpen
  <2>5. i \in Inode /\ DataSectors(i) \subseteq Sector
    BY <2>3, DataInside DEF FInv, Live
  <2>6. \A t \in DataSectors(i) : fs'.disk.data[t] = fs.disk.data[t]
    BY <2>2, <2>3, <2>4 DEF Unharmed
  <2>7. i.length \in Nat
    BY <2>5 DEF Inode
  <2> HIDE DEF i
  <2>8. inode_read_at(fs'.disk, i, i.length, 0) = inode_read_at(fs.disk, i, i.length, 0)
    BY <2>5, <2>6, <2>7, SameRead, SMTT(40)
  <2> QED BY <2>8 DEF i
<1> QED BY <1>1, FilesInvariance, PTL DEF Spec, ExecutableUnchanged

----------------------------------------------------------------------------
(* What files contain. *)

\* The content of every file that has a name or is open is the one remembered.
Remembered(f, r) == /\ r \in [Sector -> Seq(Nat)]
                    /\ \A s \in Live(f) : Content(f.disk, f.disk.inode[s], r[s])
FilesRight == Remembered(fs, ref)

\* A step that leaves the data of the files.
LEMMA ContentKept ==
  ASSUME FInv, FilesRight, NEW s \in Live(fs), fs'.disk.inode[s] = fs.disk.inode[s],
         \A t \in DataSectors(fs.disk.inode[s]) : fs'.disk.data[t] = fs.disk.data[t]
  PROVE  Content(fs'.disk, fs'.disk.inode[s], ref[s])
<1>1. fs.disk.inode[s] \in Inode /\ Content(fs.disk, fs.disk.inode[s], ref[s])
  BY DataInside DEF FInv, FilesRight, Remembered
<1> DEFINE i == fs.disk.inode[s]
           d == fs.disk
           e == fs'.disk
<1>2. i \in Inode /\ Content(d, i, ref[s]) /\ \A t \in DataSectors(i) : e.data[t] = d.data[t]
  BY <1>1
<1> HIDE DEF i, d, e
<1>3. Content(e, i, ref[s])
  BY <1>2, ContentSame
<1> QED BY <1>3 DEF e, i

\* And makes no new ones.
LEMMA RightFramed ==
  ASSUME FInv, FilesRight, Framed(fs, fs'), ref' = ref
  PROVE  Remembered(fs', ref')
<1>1. \A s \in Live(fs') : Content(fs'.disk, fs'.disk.inode[s], ref[s])
  BY ContentKept DEF Framed
<1> QED BY <1>1 DEF FilesRight, Remembered

\* filesys_create.
LEMMA RightCreated ==
  ASSUME FInv, FilesRight, NEW size \in Nat, Created(size)
  PROVE  Remembered(fs', ref')
<1>1. \A s \in Live(fs) : Content(fs'.disk, fs'.disk.inode[s], ref[s]) /\ s \in fs.free_map
  <2> SUFFICES ASSUME NEW s \in Live(fs)
               PROVE  Content(fs'.disk, fs'.disk.inode[s], ref[s]) /\ s \in fs.free_map
    OBVIOUS
  <2>1. s \in fs.free_map /\ DataSectors(fs.disk.inode[s]) \subseteq fs.free_map
    BY LiveMarked, DataInside DEF FInv
  <2> QED BY <2>1, ContentKept DEF Created
<1>2. ref \in [Sector -> Seq(Nat)] /\ Zeros(size) \in Seq(Nat)
  BY ZerosType DEF FilesRight, Remembered
<1>3. CASE Live(fs') = Live(fs) /\ ref' = ref
  BY <1>1, <1>2, <1>3 DEF Remembered
<1>4. CASE \E s \in Sector \ fs.free_map :
             /\ Live(fs') = Live(fs) \cup {s} /\ ref' = [ref EXCEPT ![s] = Zeros(size)]
             /\ Content(fs'.disk, fs'.disk.inode[s], Zeros(size)) /\ fs'.disk.inode[s] \in Inode
  <2>1. PICK s \in Sector \ fs.free_map :
             /\ Live(fs') = Live(fs) \cup {s} /\ ref' = [ref EXCEPT ![s] = Zeros(size)]
             /\ Content(fs'.disk, fs'.disk.inode[s], Zeros(size))
    BY <1>4
  <2>2. ref' \in [Sector -> Seq(Nat)] /\ ref'[s] = Zeros(size) /\ \A t \in Sector \ {s} : ref'[t] = ref[t]
    BY <2>1, <1>2
  <2>3. Live(fs) \subseteq Sector \ {s}
    BY <1>1, LiveMarked DEF FInv
  <2> QED BY <2>1, <2>2, <2>3, <1>1 DEF Remembered
<1> QED BY <1>3, <1>4 DEF Created

\* write_file.
LEMMA RightWritten ==
  ASSUME FInv, FilesRight, NEW s \in DOMAIN fs.inodes, NEW offset \in Nat, NEW buffer \in Seq(Nat),
         \A t \in Sector \ DataSectors(fs.inodes[s].data) : fs'.disk.data[t] = fs.disk.data[t],
         BufferWritten(s, offset, buffer)
  PROVE  Remembered(fs', ref')
<1> DEFINE i == fs.inodes[s].data
           n == Lesser(Len(buffer), Len(ref[s]) - offset)
           c == ref[s]
           cs == Chunks(i, Len(buffer), offset)
<1>1. Stable(fs, leaked) /\ s \in Live(fs) /\ fs \in FileSystem
  BY DEF FInv, Live, Stable
<1>2. /\ i = fs.disk.inode[s] /\ i \in Inode /\ DataSectors(i) \subseteq Sector /\ s \in Sector
  BY <1>1, DataInside, LiveMarked
<1>3. c \in Seq(Nat) /\ Content(fs.disk, i, c) /\ ref \in [Sector -> Seq(Nat)]
  BY <1>1, <1>2 DEF FilesRight, Remembered
<1>4. /\ cs # <<>> /\ fs' = WriteAll(fs, cs, buffer)
      /\ Live(fs') = Live(fs) /\ \A t \in Live(fs) : fs'.disk.inode[t] = fs.disk.inode[t]
      /\ ref' = [ref EXCEPT ![s] = [j \in DOMAIN c |-> IF j \in offset + 1 .. offset + n THEN buffer[j - offset]
                                                                                      ELSE c[j]]]
  BY DEF BufferWritten
<1>5. Content(fs'.disk, i, Patched(c, buffer, offset, n))
  <2> HIDE DEF i, c
  <2>1. Content(WriteAll(fs, Chunks(i, Len(buffer), offset), buffer).disk, i,
                Patched(c, buffer, offset, Lesser(Len(buffer), Len(c) - offset)))
    BY <1>1, <1>2, <1>3, <1>4, WriteContent
  <2> QED BY <2>1, <1>4 DEF c
<1>6. ref' = [ref EXCEPT ![s] = Patched(c, buffer, offset, n)]
  <2>1. DOMAIN c = 1 .. Len(c)
    BY <1>3
  <2> HIDE DEF n, c
  <2> QED BY <2>1, <1>4 DEF Patched
<1>7. Patched(c, buffer, offset, n) \in Seq(Nat)
  BY <1>5 DEF Content
<1> HIDE DEF n, c, cs, i
<1>8. ref' \in [Sector -> Seq(Nat)] /\ ref'[s] = Patched(c, buffer, offset, n)
      /\ \A t \in Sector \ {s} : ref'[t] = ref[t]
  BY <1>2, <1>3, <1>6, <1>7
<1>9. ASSUME NEW t \in Live(fs) PROVE Content(fs'.disk, fs'.disk.inode[t], ref'[t])
  <2>1. CASE t = s
    BY <2>1, <1>1, <1>2, <1>4, <1>5, <1>8
  <2>2. CASE t # s
    <3>1. /\ DataSectors(fs.disk.inode[t]) \subseteq Sector /\ t \in Sector
          /\ DataSectors(fs.disk.inode[t]) \cap DataSectors(fs.disk.inode[s]) = {}
      BY <2>2, <1>1, DataInside, LiveMarked
    <3>2. \A u \in DataSectors(fs.disk.inode[t]) : fs'.disk.data[u] = fs.disk.data[u]
      BY <3>1, <1>2 DEF i
    <3>3. Content(fs'.disk, fs'.disk.inode[t], ref[t])
      BY <3>2, <1>4, ContentKept
    <3> QED BY <3>1, <3>3, <2>2, <1>8
  <2> QED BY <2>1, <2>2
<1> QED BY <1>4, <1>8, <1>9 DEF Remembered

\* What is on the disk can be read.
LEMMA ReadsAll ==
  ASSUME NEW d \in Image, NEW i \in Inode, DataSectors(i) \subseteq Sector
  PROVE  Content(d, i, inode_read_at(d, i, i.length, 0))
<1> DEFINE byte(j) == d.data[i.start + ((j - 1) \div SECTOR_SIZE)][((j - 1) % SECTOR_SIZE) + 1]
           c == [j \in 1 .. i.length |-> byte(j)]
<1>1. i.length \in Nat
  BY DEF Inode
<1>2. ASSUME NEW j \in 1 .. i.length PROVE byte(j) \in Nat
  <2> DEFINE pos == j - 1
             t == i.start + (pos \div SECTOR_SIZE)
             r == (pos % SECTOR_SIZE) + 1
  <2>0. pos \in 0 .. i.length - 1
    BY <1>1
  <2>1. t \in DataSectors(i) /\ r \in 1 .. SECTOR_SIZE
    <3> HIDE DEF pos
    <3> QED BY <2>0, BytePlace
  <2>2. byte(j) = d.data[t][r]
    OBVIOUS
  <2> HIDE DEF t, r, byte
  <2>3. d.data[t] \in [1 .. SECTOR_SIZE -> Nat]
    BY <2>1 DEF Image
  <2> QED BY <2>1, <2>2, <2>3
<1>3. c \in Seq(Nat) /\ Len(c) = i.length
  <2> HIDE DEF byte
  <2> QED BY <1>1, <1>2
<1>4. ASSUME NEW pos \in 0 .. i.length - 1
      PROVE  c[pos + 1] = d.data[i.start + (pos \div SECTOR_SIZE)][(pos % SECTOR_SIZE) + 1]
  <2>1. pos + 1 \in 1 .. i.length /\ (pos + 1) - 1 = pos
    BY <1>1
  <2>2. c[pos + 1] = byte(pos + 1)
    <3> HIDE DEF byte
    <3> QED BY <2>1
  <2> QED BY <2>1, <2>2
<1> HIDE DEF c
<1>5. Content(d, i, c)
  BY <1>3, <1>4 DEF Content
<1>6. inode_read_at(d, i, i.length, 0) = SubSeq(c, 0 + 1, Lesser(0 + i.length, Len(c)))
  BY <1>1, <1>5, ReadContent, ZenonT(40)
<1>7. Lesser(0 + i.length, Len(c)) = Len(c) /\ 0 + 1 = 1
  BY <1>1, <1>3 DEF Lesser
<1>8. SubSeq(c, 1, Len(c)) = c
  BY <1>3
<1> QED BY <1>5, <1>6, <1>7, <1>8

\* After a crash, the files are those on the disk.
LEMMA RightBooted ==
  ASSUME FInv, Crash
  PROVE  Remembered(fs', ref')
<1>0. /\ fs' = filesys_init(platter) /\ Sound(platter)
      /\ ref' = [s \in Sector |->
                   IF \E i \in Entries(platter) : platter.dir[i].sector = s
                   THEN inode_read_at(platter, platter.inode[s], platter.inode[s].length, 0)
                   ELSE <<>>]
  BY DEF Crash, FInv
<1>1. fs'.disk = platter /\ Live(fs') = EntrySectors(platter)
  BY <1>0, Booted DEF Live
<1>2. ASSUME NEW s \in EntrySectors(platter)
      PROVE  /\ s \in Sector /\ \E i \in Entries(platter) : platter.dir[i].sector = s
             /\ Content(platter, platter.inode[s],
                        inode_read_at(platter, platter.inode[s], platter.inode[s].length, 0))
  <2> DEFINE i == platter.inode[s]
  <2>1. /\ platter \in Image /\ i \in Inode /\ s \in Sector /\ DataSectors(i) \subseteq Sector
    BY <1>0 DEF Sound, Apart, FileSectors, DataSectors
  <2>2. \E k \in Entries(platter) : platter.dir[k].sector = s
    BY DEF EntrySectors
  <2> HIDE DEF i
  <2>3. Content(platter, i, inode_read_at(platter, i, i.length, 0))
    BY <2>1, ReadsAll
  <2> QED BY <2>1, <2>2, <2>3 DEF i
<1>3. ASSUME NEW s \in Sector PROVE ref'[s] \in Seq(Nat) /\ (s \in EntrySectors(platter) =>
                                      Content(platter, platter.inode[s], ref'[s]))
  <2>1. CASE s \in EntrySectors(platter)
    BY <2>1, <1>0, <1>2 DEF Content
  <2>2. CASE s \notin EntrySectors(platter)
    <3>1. ~\E i \in Entries(platter) : platter.dir[i].sector = s
      BY <2>2 DEF EntrySectors
    <3>2. ref'[s] = <<>>
      BY <3>1, <1>0
    <3> QED BY <3>2, <2>2
  <2> QED BY <2>1, <2>2
<1>4. ref' \in [Sector -> Seq(Nat)]
  <2>1. DOMAIN ref' = Sector /\ ref' = [s \in DOMAIN ref' |-> ref'[s]]
    BY <1>0
  <2> QED BY <2>1, <1>3
<1> QED BY <1>1, <1>2, <1>3, <1>4 DEF Remembered

\* What is remembered of a file after a step.
LEMMA RightNext == ASSUME Remembered(fs', ref') PROVE FilesRight'
<1>1. \A s \in Live(fs') : Content(fs'.disk, fs'.disk.inode[s], ref'[s])
  BY DEF Remembered
<1>2. Live(fs)' = Live(fs') /\ ref' \in [Sector -> Seq(Nat)]
  BY DEF Remembered, Live, EntrySectors, Entries
<1>3. ASSUME NEW s \in Live(fs)' PROVE Content(fs.disk, fs.disk.inode[s], ref[s])'
  BY <1>1, <1>2 DEF Content
<1> QED BY <1>2, <1>3 DEF FilesRight, Remembered

\* No step changes what a file contains, other than by writing it.
LEMMA RightStep == ASSUME FInv, FilesRight, [Next]_vars PROVE FilesRight'
<1>1. ASSUME NEW name \in Name, NEW size \in Sizes, NEW ok \in BOOLEAN, CreateFile(name, size, ok)
      PROVE  Remembered(fs', ref')
  <2>1. size \in Nat /\ Created(size)
    BY <1>1, CreateStep, FilesAssumption
  <2> QED BY <2>1, RightCreated
<1>2. ASSUME NEW name \in Name, RemoveFile(name) PROVE Remembered(fs', ref')
  BY <1>2, RemoveStep, RightFramed DEF RemoveFile
<1>3. ASSUME NEW name \in Name, NEW p \in Process, Open(p, name) PROVE Remembered(fs', ref')
  BY <1>3, OpenStep, RightFramed DEF Open
<1>4. ASSUME NEW name \in Name, NEW p \in Process, Exec(p, name) PROVE Remembered(fs', ref')
  <2>1. ref' = ref
    BY <1>4 DEF Exec
  <2> QED BY <2>1, <1>4, ExecStep, RightFramed
<1>5. ASSUME NEW p \in Process, NEW fd \in Fds, Close(p, fd) PROVE Remembered(fs', ref')
  BY <1>5, CloseStep, RightFramed DEF Close
<1>6. ASSUME NEW p \in Process, NEW fd \in Fds, NEW size \in Sizes, Read(p, fd, size)
      PROVE  Remembered(fs', ref')
  BY <1>6 DEF Read, FilesRight
<1>7. ASSUME NEW p \in Process, NEW fd \in Fds, NEW pos \in Offsets, Seek(p, fd, pos)
      PROVE  Remembered(fs', ref')
  BY <1>7 DEF Seek, FilesRight
<1>8. ASSUME NEW p \in Process, NEW fd \in Fds, NEW buffer \in Buffers, Write(p, fd, buffer)
      PROVE  Remembered(fs', ref')
  <2>1. PICK s \in DOMAIN fs.inodes, offset \in Nat :
              /\ \A t \in Sector \ DataSectors(fs.inodes[s].data) : fs'.disk.data[t] = fs.disk.data[t]
              /\ BufferWritten(s, offset, buffer)
    BY <1>8, WriteStep
  <2>2. buffer \in Seq(Nat)
    BY FilesAssumption
  <2> QED BY <2>1, <2>2, RightWritten
<1>9. ASSUME NEW p \in Process, Exit(p) PROVE Remembered(fs', ref')
  BY <1>9, ExitStep, RightFramed DEF Exit
<1>10. ASSUME NEW p \in Process, close_all_opened_files(p) PROVE Remembered(fs', ref')
  BY <1>10, CloseAllStep, RightFramed DEF close_all_opened_files
<1>11. ASSUME BlockWrite PROVE Remembered(fs', ref')
  BY <1>11, BlockStep, RightFramed DEF BlockWrite
<1>12. ASSUME Crash PROVE Remembered(fs', ref')
  BY <1>12, RightBooted
<1>13. ASSUME UNCHANGED vars PROVE Remembered(fs', ref')
  BY <1>13 DEF vars, FilesRight
<1>14. Remembered(fs', ref')
  BY <1>1, <1>2, <1>3, <1>4, <1>5, <1>6, <1>7, <1>8, <1>9, <1>10, <1>11, <1>12, <1>13 DEF Next
<1> QED BY <1>14, RightNext

\* At the start there are no files.
LEMMA RightInit == ASSUME Init PROVE FilesRight
<1>1. fs = filesys_init(Formatted) /\ ref = [s \in Sector |-> <<>>]
  BY DEF Init
<1>2. fs.disk = Formatted /\ DOMAIN fs.inodes = {}
  BY <1>1, Booted, FormattedSound
<1>3. Live(fs) = {}
  BY <1>2, FormattedSound DEF Live, EntrySectors
<1>4. ref \in [Sector -> Seq(Nat)]
  <2>1. <<>> \in Seq(Nat)
    OBVIOUS
  <2> QED BY <2>1, <1>1
<1> QED BY <1>3, <1>4 DEF FilesRight, Remembered

\* The data sectors of every file with a name, and of every open one, hold what
\* was last written to it, and zeros where nothing was: no create, removal,
\* close, write to another file or crash touches them (inode_create,
\* inode_write_at and inode_close in filesys/inode.c, and filesys/free-map.c).
THEOREM FilesRightHolds == Spec => []FilesRight
<1>1. Init => FilesRight
  BY RightInit
<1>2. FInv /\ FilesRight /\ [Next]_vars => FilesRight'
  BY RightStep
<1> QED BY <1>1, <1>2, FilesInvariance, PTL DEF Spec

\* What inode_read_at returns of an open file, at any offset and for any size, is
\* the content that is remembered of it, cut at the end of the file: the loop
\* over sectors of inode_read_at and the partial sectors of inode_write_at
\* (filesys/inode.c), behind read_file and write_file (userprog/syscall.c).
THEOREM ReadsRightHolds == Spec => []ReadsRight
<1>1. FInv /\ FilesRight => ReadsRight
  <2> SUFFICES ASSUME FInv, FilesRight, NEW s \in DOMAIN fs.inodes,
                      NEW ofs \in 0 .. Len(ref[s]) + 1, NEW size \in 0 .. Len(ref[s]) + 1
               PROVE  inode_read_at(fs.disk, fs.inodes[s].data, size, ofs)
                        = SubSeq(ref[s], ofs + 1, Lesser(ofs + size, Len(ref[s])))
    BY DEF ReadsRight
  <2>1. Stable(fs, leaked) /\ s \in Live(fs) /\ fs.disk \in Image
    BY DEF FInv, Live, Stable, Sound
  <2> DEFINE i == fs.disk.inode[s]
             c == ref[s]
  <2>2. fs.inodes[s].data = i /\ i \in Inode /\ DataSectors(i) \subseteq Sector
    BY <2>1, DataInside
  <2>3. Content(fs.disk, i, c)
    BY <2>1 DEF FilesRight, Remembered
  <2>4. ofs \in Nat /\ size \in Nat
    <3>1. ref[s] \in Seq(Nat)
      BY <2>3 DEF Content
    <3>2. Len(ref[s]) \in Nat
      BY <3>1
    <3> QED BY <3>2
  <2> HIDE DEF i, c
  <2>5. inode_read_at(fs.disk, i, size, ofs) = SubSeq(c, ofs + 1, Lesser(ofs + size, Len(c)))
    BY <2>1, <2>2, <2>3, <2>4, ReadContent
  <2> QED BY <2>2, <2>5 DEF c
<1> QED BY <1>1, FilesInvariance, FilesRightHolds, PTL
=============================================================================
