----------------------------- MODULE Allocators -----------------------------
(***************************************************************************)
(* The page allocator (threads/palloc.c), with its two pools, and the      *)
(* block allocator on top of it (threads/malloc.c), with its descriptors,  *)
(* arenas and big blocks.  A page is its number; an address is a page and  *)
(* an offset.  Each call holds its lock while it changes anything, and is  *)
(* one step here.                                                          *)
(***************************************************************************)
EXTENDS Bitmaps

CONSTANTS
    PGSIZE,
    ArenaSize,      \* sizeof (struct arena)
    MinBlock,       \* size of the smallest blocks: 16
    free_pages,     \* pages of free memory, the bitmaps' included
    user_page_limit,
    Requests,       \* sizes asked for
    SIZE_BITS,      \* bits of a size_t
    MaxLive         \* BOUND: blocks and groups of pages in use

ASSUME AllocAssumption ==
    /\ {PGSIZE, ArenaSize, MinBlock, SIZE_BITS} \subseteq Nat \ {0}
    /\ {free_pages, user_page_limit, MaxLive} \subseteq Nat /\ Requests \subseteq Nat

VARIABLES
    pools,          \* used_map and base of the two pools
    free_list,      \* free blocks of each descriptor, by block size
    arena,          \* the header of each page that is or starts an arena
    live,           \* history: blocks in use: address, bytes asked for
    held,           \* history: pages in use: first page, number
    clashed         \* history: an ASSERT failed

----------------------------------------------------------------------------
(* palloc.c *)

DIV_ROUND_UP(x, y) == (x + y - 1) \div y

\* The bitmap takes the first pages of the pool.
init_pool(base, page_cnt) ==
    LET bm_pages == DIV_ROUND_UP(DIV_ROUND_UP(page_cnt, ELEM_BITS), PGSIZE) IN
    [used_map |-> bitmap_create(page_cnt - bm_pages, AllOnes), base |-> base + bm_pages]

palloc_init ==
    LET user_pages   == Min({free_pages \div 2, user_page_limit})
        kernel_pages == free_pages - user_pages
    IN  [kernel |-> init_pool(1, kernel_pages), user |-> init_pool(1 + kernel_pages, user_pages)]

page_from_pool(pool, page) == page >= pool.base /\ page < pool.base + pool.used_map.bit_cnt

\* The pools after, and the first page, 0 if there are none.
palloc_get_multiple(ps, p, page_cnt) ==
    LET r == bitmap_scan_and_flip(ps[p].used_map, 0, page_cnt, FALSE) IN
    IF page_cnt = 0 \/ r[2] = BITMAP_ERROR THEN <<ps, 0>>
    ELSE <<[ps EXCEPT ![p].used_map = r[1]], ps[p].base + r[2]>>

PoolOf(ps, page) == IF page_from_pool(ps.kernel, page) THEN "kernel" ELSE "user"
Allocated(ps, page, page_cnt) ==
    LET p == PoolOf(ps, page) IN
    page_from_pool(ps[p], page) /\ bitmap_all(ps[p].used_map, page - ps[p].base, page_cnt)
palloc_free_multiple(ps, page, page_cnt) ==
    LET p == PoolOf(ps, page) IN
    [ps EXCEPT ![p].used_map = bitmap_set_multiple(@, page - ps[p].base, page_cnt, FALSE)]

----------------------------------------------------------------------------
(* malloc.c *)

RECURSIVE DescsFrom(_)
DescsFrom(size) == IF size < PGSIZE \div 2 THEN {size} \cup DescsFrom(2 * size) ELSE {}
descs == DescsFrom(MinBlock)
blocks_per_arena(d) == (PGSIZE - ArenaSize) \div d
NoDesc == 0

malloc_init == [d \in descs |-> <<>>]

\* Addresses.
arena_to_block(page, d, i) == <<page, ArenaSize + i * d>>
BlocksOf(page, d) == [i \in 1 .. blocks_per_arena(d) |-> arena_to_block(page, d, i - 1)]
\* ASSERTs of block_to_arena.
block_to_arena_ok(b) ==
    /\ b[1] \in DOMAIN arena
    /\ LET d == arena[b[1]].desc IN
       IF d = NoDesc THEN b[2] = ArenaSize ELSE (b[2] - ArenaSize) % d = 0

\* The allocator's state as a record, for calls made one after the other.
Now0 == [pools |-> pools, list |-> free_list, arena |-> arena, ok |-> TRUE, block |-> <<>>]

BigBlock(s, size) ==
    LET page_cnt == DIV_ROUND_UP(size + ArenaSize, PGSIZE)
        got      == palloc_get_multiple(s.pools, "kernel", page_cnt)
    IN  IF got[2] = 0 THEN [s EXCEPT !.block = <<>>]
        ELSE [s EXCEPT !.pools = got[1], !.block = <<got[2], ArenaSize>>,
                       !.arena = (got[2] :> [desc |-> NoDesc, free_cnt |-> page_cnt]) @@ @]

\* A new arena, if the free list is empty and there is a page.
NewArena(s, d) ==
    LET got == palloc_get_multiple(s.pools, "kernel", 1) IN
    IF s.list[d] # <<>> \/ got[2] = 0 THEN s
    ELSE [s EXCEPT !.pools = got[1], !.list[d] = BlocksOf(got[2], d),
                   !.arena = (got[2] :> [desc |-> d, free_cnt |-> blocks_per_arena(d)]) @@ @]

TakeBlock(s, d) ==
    IF s.list[d] = <<>> THEN [s EXCEPT !.block = <<>>]
    ELSE [s EXCEPT !.block = Head(s.list[d]), !.list[d] = Tail(@),
                   !.arena[Head(s.list[d])[1]].free_cnt = @ - 1]

malloc(s, size) ==
    LET fits == {d \in descs : d >= size} IN
    IF size = 0 THEN [s EXCEPT !.block = <<>>]
    ELSE IF fits = {} THEN BigBlock(s, size)
    ELSE TakeBlock(NewArena(s, Min(fits)), Min(fits))

FreeBig(s, page) ==
    [s EXCEPT !.ok = @ /\ Allocated(s.pools, page, s.arena[page].free_cnt),
              !.pools = palloc_free_multiple(@, page, s.arena[page].free_cnt),
              !.arena = [q \in DOMAIN @ \ {page} |-> @[q]]]

\* The arena that has no block in use goes back to the page allocator.
FreeBlock(s, b, d) ==
    LET page == b[1]
        freed == [s EXCEPT !.list[d] = <<b>> \o @, !.arena[page].free_cnt = @ + 1]
    IN  IF freed.arena[page].free_cnt < blocks_per_arena(d) THEN freed
        ELSE [freed EXCEPT
                !.ok = @ /\ freed.arena[page].free_cnt = blocks_per_arena(d)
                         /\ Range(BlocksOf(page, d)) \subseteq Range(freed.list[d])
                         /\ Allocated(s.pools, page, 1),
                !.list[d] = SelectSeq(@, LAMBDA c : c \notin Range(BlocksOf(page, d))),
                !.pools = palloc_free_multiple(@, page, 1),
                !.arena = [q \in DOMAIN @ \ {page} |-> @[q]]]

free(s, b) ==
    IF b = <<>> THEN s
    ELSE LET d == s.arena[b[1]].desc IN IF d = NoDesc THEN FreeBig(s, b[1]) ELSE FreeBlock(s, b, d)

block_size(s, b) ==
    LET a == s.arena[b[1]] IN IF a.desc # NoDesc THEN a.desc ELSE PGSIZE * a.free_cnt - b[2]

\* A failure leaves the old block as it is.
realloc(s, old, size) ==
    IF size = 0 THEN [free(s, old) EXCEPT !.block = <<>>]
    ELSE LET new == malloc(s, size) IN
         IF old # <<>> /\ new.block # <<>> THEN free(new, old) ELSE new

SizeT(n) == n % 2 ^ SIZE_BITS

\* The product is taken in a size_t.  The test is meant to refuse one that does
\* not fit, and misses those whose low bits are no smaller than both factors.
calloc(s, a, b) ==
    LET size == SizeT(a * b) IN
    IF size < a \/ size < b THEN [s EXCEPT !.block = <<>>] ELSE malloc(s, size)

----------------------------------------------------------------------------
AllocInit ==
    /\ pools = palloc_init /\ free_list = malloc_init /\ arena = [p \in {} |-> 0]
    /\ live = {} /\ held = {} /\ clashed = FALSE

Becomes(s, blocks) ==
    /\ pools' = s.pools /\ free_list' = s.list /\ arena' = s.arena
    /\ clashed' = (clashed \/ ~s.ok)
    /\ live' = blocks /\ UNCHANGED held
Got(s, size) == IF s.block = <<>> THEN {} ELSE {[at |-> s.block, size |-> size]}
MoreWanted == Cardinality(live) + Cardinality(held) < MaxLive

Malloc(size) == MoreWanted /\ LET s == malloc(Now0, size) IN Becomes(s, live \cup Got(s, size))
\* A times B bytes are asked for, whatever fits in a size_t.
Calloc(a, b) == MoreWanted /\ LET s == calloc(Now0, a, b) IN Becomes(s, live \cup Got(s, a * b))
Free(x) == block_to_arena_ok(x.at) /\ Becomes(free(Now0, x.at), live \ {x})
Realloc(x, size) ==
    LET s == realloc(Now0, x.at, size) IN
    /\ block_to_arena_ok(x.at)
    /\ Becomes(s, IF s.block = <<>> /\ size # 0 THEN live ELSE (live \ {x}) \cup Got(s, size))

GetPages(p, n) ==
    LET r == palloc_get_multiple(pools, p, n) IN
    /\ MoreWanted /\ r[2] # 0
    /\ pools' = r[1] /\ held' = held \cup {[page |-> r[2], cnt |-> n]}
    /\ UNCHANGED <<free_list, arena, live, clashed>>
FreePages(g) ==
    /\ clashed' = (clashed \/ ~Allocated(pools, g.page, g.cnt))
    /\ pools' = palloc_free_multiple(pools, g.page, g.cnt)
    /\ held' = held \ {g}
    /\ UNCHANGED <<free_list, arena, live>>

AllocNext ==
    \/ \E size \in Requests : Malloc(size) \/ \E n \in Requests : Calloc(size, n)
    \/ \E x \in live : Free(x) \/ \E size \in Requests : Realloc(x, size)
    \/ \E p \in {"kernel", "user"}, n \in 1 .. 2 : GetPages(p, n)
    \/ \E g \in held : FreePages(g)

----------------------------------------------------------------------------
Pages(first, cnt) == first .. first + cnt - 1
\* The bytes of a block, as offsets from its page.
Bytes(x) == {x.at[1] * PGSIZE + x.at[2] + i : i \in 0 .. block_size(Now0, x.at) - 1}
ArenaPages(p) == Pages(p, IF arena[p].desc = NoDesc THEN arena[p].free_cnt ELSE 1)

\* The blocks that calloc gave for a product that does not fit in a size_t.
Overflowed == {x \in live : x.size >= 2 ^ SIZE_BITS}

\* No two blocks in use overlap, nor a block and an arena's header, a free
\* block or pages handed out otherwise; the pages marked as used are exactly
\* those of arenas and of groups in use, so that none is lost, and an arena is
\* kept only while one of its blocks is in use; and no ASSERT failed.  Each
\* block is as large as was asked for, except the blocks of Overflowed, which
\* malloc.c:156 and 163 say calloc does not give: they are as large as the
\* wrapped product, and always too small.
BlocksSound ==
    /\ ~clashed
    /\ \A x \in live : block_to_arena_ok(x.at) /\ block_size(Now0, x.at) >= SizeT(x.size)
    /\ \A x \in live : block_size(Now0, x.at) < x.size <=> x \in Overflowed
    /\ \A x, y \in live : x # y => Bytes(x) \cap Bytes(y) = {}
    /\ \A x \in live : \A p \in DOMAIN arena :
         Bytes(x) \cap Pages(p * PGSIZE, ArenaSize) = {}
    /\ \A d \in descs : \A b \in Range(free_list[d]) : \A x \in live :
         Bytes(x) \cap Pages(b[1] * PGSIZE + b[2], d) = {}
    /\ \A p \in DOMAIN arena : arena[p].desc # NoDesc =>
         LET inUse == Cardinality({x \in live : x.at[1] = p}) IN
         inUse > 0 /\ arena[p].free_cnt + inUse = blocks_per_arena(arena[p].desc)
    /\ LET groups == {Pages(g.page, g.cnt) : g \in held} \cup {ArenaPages(p) : p \in DOMAIN arena}
           used   == UNION {{pools[p].base + i : i \in Bits(pools[p].used_map)} : p \in DOMAIN pools}
       IN  /\ used = UNION groups
           /\ Cardinality(used) =
                MapThenSumSet(LAMBDA g : g.cnt, held) + MapThenSumSet(LAMBDA p : Cardinality(ArenaPages(p)), DOMAIN arena)
=============================================================================
