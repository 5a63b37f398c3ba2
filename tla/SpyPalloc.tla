------------------------------ MODULE SpyPalloc ------------------------------
(* Memory pools: blocks of PoolSize that are handed out from front to back,  *)
(* and a list of large allocations. A block is known by its place in the     *)
(* chain, an address in it by its offset; "regions" is what callers hold.    *)
(* Arrays and lists are callers that give memory back or come for more.      *)
EXTENDS Integers, Sequences, FiniteSets, FiniteSetsExt, SequencesExt

CONSTANTS
    PoolSize,       \* size of a block, end - start
    PoolHeader,     \* sizeof(spy_pool_t), at the front of the first block
    DataHeader,     \* sizeof(spy_pool_data_t), at the front of the others
    MaxSmall,       \* SPY_MAX_ALLOC_FROM_POOL
    Alignment,      \* SPY_ALIGNMENT
    LargeHeader,    \* sizeof(spy_pool_large_t)
    BufHeader,      \* sizeof(spy_buf_t)
    ArrayHeader,    \* sizeof(spy_array_t)
    ListHeader,     \* sizeof(spy_list_t)
    PartHeader,     \* sizeof(spy_list_part_t)
    MaxFailed,      \* failures a block may have had when it fails again, 4
    Scanned,        \* how many large entries are looked at for reuse, 5
    Large,          \* addresses malloc may give out for large allocations
    Null,
    Sizes,          \* sizes that callers ask for
    MaxBlocks,      \* bound on the blocks of a pool
    MaxElements     \* bound on the length of the array, and of the list

\* Pools are created with aligned sizes (10240, 1024, 128); otherwise the
\* aligned start of an allocation could lie beyond the block's end, and the
\* room left, which the code takes for unsigned, would be less than nothing.
ASSUME PallocAssumption ==
    /\ {PoolSize, PoolHeader, DataHeader, MaxFailed, Scanned} \subseteq Nat
    /\ {Alignment, LargeHeader, BufHeader, ArrayHeader, ListHeader, PartHeader, MaxBlocks}
            \subseteq Nat \ {0}
    /\ MaxSmall \in Nat
    /\ \A h \in {LargeHeader, ArrayHeader} : h <= MaxSmall /\ h <= PoolSize - PoolHeader
    /\ DataHeader <= PoolHeader /\ PoolHeader < PoolSize
    /\ PoolSize % Alignment = 0 /\ PoolHeader % Alignment = 0
    /\ Sizes \subseteq Nat \ {0}

VARIABLES
    pool,           \* the pool, or Null when there is none
    regions,        \* what callers hold of the blocks
    live,           \* large allocations that are not freed
    array,          \* an array in the pool, or Null
    list            \* a list in the pool, or Null

vars == <<pool, regions, live, array, list>>

Offsets == 0 .. PoolSize
Region  == [block : 1 .. MaxBlocks, from : Offsets, to : Offsets]

PoolType ==
    [ blocks  : Seq([last : Offsets, failed : Nat]),
      current : 1 .. MaxBlocks,
      large   : Seq(Large \cup {Null}) ]

ArrayType ==
    [ self : Region \cup {Null}, elts : Region \cup Large, size : Nat, nelts : Nat, nalloc : Nat ]

ListType ==
    [ parts : Seq([elts : Region \cup Large, nelts : Nat]), size : Nat, nalloc : Nat ]

\* What malloc yields for a large allocation is in no block, and NULL is nothing.
ASSUME AddressAssumption ==
    /\ Large \cap Region = {}
    /\ Null \notin Large \cup Region \cup PoolType \cup ArrayType \cup ListType

PallocTypeOK ==
    /\ pool \in PoolType \cup {Null}
    /\ regions \subseteq Region
    /\ live \subseteq Large
    /\ array \in ArrayType \cup {Null}
    /\ list \in ListType \cup {Null}

Align(x) == ((x + Alignment - 1) \div Alignment) * Alignment

\* pool->max
MaxSize == Min({PoolSize - PoolHeader, MaxSmall})

\* spy_create_pool
NewPool ==
    [blocks |-> <<[last |-> PoolHeader, failed |-> 0]>>, current |-> 1, large |-> <<>>]

\* What an allocation leaves behind: the pool, the parts of blocks and the large
\* allocation it took, and what it yields.
Got(p, i, from, size) ==
    LET r == [block |-> i, from |-> from, to |-> from + size]
    IN  [pool |-> p, held |-> {r}, got |-> r]

NoMemory(p) == [pool |-> p, held |-> {}, got |-> Null]

\* Mutant: the search starts at the tired block, not at the one behind it.
PallocBlockBehind(p, size) ==
    LET n    == Len(p.blocks)
        from == Align(DataHeader)
        had  == p.current .. n - 1
        tired == {i \in had : p.blocks[i].failed > MaxFailed}
        blocks == [i \in 1 .. n |-> IF i \in had THEN [p.blocks[i] EXCEPT !.failed = @ + 1]
                                    ELSE p.blocks[i]]
    IN  IF n = MaxBlocks
        THEN {}
        ELSE {Got([p EXCEPT !.blocks = Append(blocks, [last |-> from + size, failed |-> 0]),
                            !.current = IF tired = {} THEN p.current ELSE Max(tired)],
                  n + 1, from, size)}

(* spy_palloc_block: a new block at the end of the chain, whose header is    *)
(* the short one; the blocks that had no room have failed once more, and     *)
(* those that failed too often are passed over from now on.                  *)
PallocBlock(p, size) ==
    LET n    == Len(p.blocks)
        from == Align(DataHeader)
        had  == p.current .. n - 1
        tired == {i \in had : p.blocks[i].failed > MaxFailed}
        blocks == [i \in 1 .. n |-> IF i \in had THEN [p.blocks[i] EXCEPT !.failed = @ + 1]
                                    ELSE p.blocks[i]]
    IN  IF n = MaxBlocks
        THEN {}
        ELSE {Got([p EXCEPT !.blocks = Append(blocks, [last |-> from + size, failed |-> 0]),
                            !.current = IF tired = {} THEN p.current ELSE Max(tired) + 1],
                  n + 1, from, size)}

\* Mutant: the room is looked for before the start is aligned.
PallocUnaligned(p, size, aligned) ==
    LET From(i) == IF aligned THEN Align(p.blocks[i].last) ELSE p.blocks[i].last
        room == {i \in p.current .. Len(p.blocks) : PoolSize - p.blocks[i].last >= size}
        i    == Min(room)
    IN  IF room = {}
        THEN {NoMemory(p)} \cup PallocBlock(p, size)
        ELSE {Got([p EXCEPT !.blocks[i].last = From(i) + size], i, From(i), size)}

(* An allocation of at most MaxSize: from the first block with room, from    *)
(* the current one on, else from a new one if there is memory for it.        *)
PallocSmall(p, size, aligned) ==
    LET From(i) == IF aligned THEN Align(p.blocks[i].last) ELSE p.blocks[i].last
        room == {i \in p.current .. Len(p.blocks) : PoolSize - From(i) >= size}
        i    == Min(room)
    IN  IF room = {}
        THEN {NoMemory(p)} \cup PallocBlock(p, size)
        ELSE {Got([p EXCEPT !.blocks[i].last = From(i) + size], i, From(i), size)}

-----------------------------------------------------------------------------
\* A new entry at the head of the list, itself from the pool; without memory
\* for it the allocation is freed again.
AddLarge(p, a) ==
    {IF r.got = Null THEN r
     ELSE [pool |-> [r.pool EXCEPT !.large = <<a>> \o r.pool.large],
           held |-> r.held \cup {a}, got |-> a] :
        r \in PallocSmall(p, LargeHeader, TRUE)}

\* What malloc may yield.
Unused(p) == Large \ (live \cup ToSet(p.large))

\* spy_palloc_large puts the allocation in a freed entry among the first, or
\* in a new one.
PallocLarge(p, a) ==
    LET empty == {i \in DOMAIN p.large : i <= Scanned /\ p.large[i] = Null}
    IN  IF empty = {}
        THEN AddLarge(p, a)
        ELSE {[pool |-> [p EXCEPT !.large[Min(empty)] = a], held |-> {a}, got |-> a]}

(* spy_palloc (aligned) and spy_pnalloc: malloc may have no memory for a     *)
(* large allocation, else it yields an address that is not in use.           *)
Palloc(p, size, aligned) ==
    IF size <= MaxSize
    THEN PallocSmall(p, size, aligned)
    ELSE {NoMemory(p)} \cup UNION {PallocLarge(p, a) : a \in Unused(p)}

\* spy_pmemalign: always a new entry.
PmemAlign(p) == {NoMemory(p)} \cup UNION {AddLarge(p, a) : a \in Unused(p)}

\* Mutant: the entry keeps the address that was freed.
PfreeKeeps(p, a) == p

\* spy_pfree of an address that is in the list.
Pfree(p, a) ==
    [p EXCEPT !.large = [i \in DOMAIN p.large |-> IF p.large[i] = a THEN Null ELSE p.large[i]]]

-----------------------------------------------------------------------------
PallocInit == pool = Null /\ regions = {} /\ live = {} /\ array = Null /\ list = Null

Create ==
    /\ pool = Null
    /\ pool' = NewPool
    /\ UNCHANGED <<regions, live, array, list>>

\* The caller gets what r yields.
Take(r) ==
    /\ pool' = r.pool
    /\ regions' = regions \cup (r.held \ Large)
    /\ live' = live \cup (r.held \cap Large)

Allocate ==
    /\ pool # Null
    /\ \E r \in PmemAlign(pool)
                \cup UNION {Palloc(pool, size, aligned) : size \in Sizes, aligned \in BOOLEAN} :
          Take(r)
    /\ UNCHANGED <<array, list>>

\* What an array or a list keeps its elements in.
Elements ==
    (IF array = Null THEN {} ELSE {array.elts})
    \cup (IF list = Null THEN {} ELSE {part.elts : part \in ToSet(list.parts)})

\* A caller frees a large allocation of its own.
Free ==
    /\ pool # Null
    /\ \E a \in live \ Elements :
          /\ pool' = Pfree(pool, a)
          /\ live' = live \ {a}
    /\ UNCHANGED <<regions, array, list>>

\* spy_destroy_pool frees the large allocations of the list, and the blocks.
Destroy ==
    /\ pool # Null
    /\ pool' = Null
    /\ live' = live \ ToSet(pool.large)
    /\ regions' = {} /\ array' = Null /\ list' = Null

-----------------------------------------------------------------------------
\* A header and, if there is room for one, the elements. Without room for them
\* the header stays behind.
WithElements(header, size) ==
    UNION {IF h.got = Null THEN {h}
           ELSE {[e EXCEPT !.held = e.held \cup h.held] : e \in Palloc(h.pool, size, TRUE)} :
           h \in Palloc(pool, header, TRUE)}

\* spy_create_temp_buf
CreateTempBuf(size) ==
    /\ pool # Null
    /\ \E r \in WithElements(BufHeader, size) : Take(r)
    /\ UNCHANGED <<array, list>>

\* Bound: one array or list at a time.
NoUser == pool # Null /\ array = Null /\ list = Null

NewArray(self, elts, n, size) ==
    IF elts = Null THEN Null
    ELSE [self |-> self, elts |-> elts, size |-> size, nelts |-> 0, nalloc |-> n]

\* spy_array_create
ArrayCreate(n, size) ==
    /\ NoUser
    /\ \E h \in Palloc(pool, ArrayHeader, TRUE) :
          IF h.got = Null
          THEN Take(h) /\ UNCHANGED array
          ELSE \E e \in Palloc(h.pool, n * size, TRUE) :
                  /\ Take([e EXCEPT !.held = e.held \cup h.held])
                  /\ array' = NewArray(h.got, e.got, n, size)
    /\ UNCHANGED list

\* spy_array_init: the header is a part of the global, or static.
ArrayInit(n, size) ==
    /\ NoUser
    /\ \E e \in Palloc(pool, n * size, TRUE) :
          Take(e) /\ array' = NewArray(Null, e.got, n, size)
    /\ UNCHANGED list

\* r is the last of the pool's first block.
IsLast(p, r) == r \in Region /\ r.block = 1 /\ r.to = p.blocks[1].last

\* Mutant: grown in place wherever the array is.
GrowsAnywhere(p, a, n) == a.elts \in Region /\ a.elts.to + n * a.size <= PoolSize

\* A full array at the end of the first block grows where it is, by n elements.
GrowsInPlace(p, a, n) == IsLast(p, a.elts) /\ a.elts.to + n * a.size <= PoolSize

\* Mutant: full one element too late.
IsFullLate(a, n) == a.nelts + n > a.nalloc + 1

IsFull(a, n) == a.nelts + n > a.nalloc

\* spy_array_push_n: else it moves, to twice the room or more, and leaves the
\* old behind.
ArrayPushN(n) ==
    /\ pool # Null /\ array # Null /\ array.nelts + n <= MaxElements
    /\ IF ~ IsFull(array, n)
       THEN array' = [array EXCEPT !.nelts = @ + n] /\ UNCHANGED <<pool, regions, live>>
       ELSE IF GrowsInPlace(pool, array, n)
       THEN LET grown == [array.elts EXCEPT !.to = @ + n * array.size] IN
            /\ pool' = [pool EXCEPT !.blocks[1].last = @ + n * array.size]
            /\ regions' = (regions \ {array.elts}) \cup {grown}
            /\ array' = [array EXCEPT !.elts = grown, !.nelts = @ + n, !.nalloc = @ + n]
            /\ UNCHANGED live
       ELSE LET nalloc == 2 * Max({n, array.nalloc}) IN
            \E r \in Palloc(pool, nalloc * array.size, TRUE) :
               /\ Take(r)
               /\ array' = IF r.got = Null THEN array
                           ELSE [array EXCEPT !.elts = r.got, !.nelts = @ + n, !.nalloc = nalloc]
    /\ UNCHANGED list

\* spy_array_push does what spy_array_push_n does for one.
ArrayPush == ArrayPushN(1)

\* What is left of the first block when r is given back, if r is its last.
GiveBack(p, r) == IF IsLast(p, r) THEN [p EXCEPT !.blocks[1].last = r.from] ELSE p

\* spy_array_destroy gives back the elements, then the header.
ArrayDestroy ==
    /\ pool # Null /\ array # Null
    /\ pool' = GiveBack(GiveBack(pool, array.elts), array.self)
    /\ regions' = regions \ {array.elts, array.self}
    /\ array' = Null
    /\ UNCHANGED <<live, list>>

-----------------------------------------------------------------------------
\* A list with room for n elements in its first part, and in every other.
NewList(elts, n, size) ==
    IF elts = Null THEN Null
    ELSE [parts |-> <<[elts |-> elts, nelts |-> 0]>>, size |-> size, nalloc |-> n]

\* spy_list_create
ListCreate(n, size) ==
    /\ NoUser
    /\ \E r \in WithElements(ListHeader, n * size) :
          Take(r) /\ list' = NewList(r.got, n, size)
    /\ UNCHANGED array

\* spy_list_init: the header is a part of the global.
ListInit(n, size) ==
    /\ NoUser
    /\ \E e \in Palloc(pool, n * size, TRUE) :
          Take(e) /\ list' = NewList(e.got, n, size)
    /\ UNCHANGED array

ListLength(l) == FoldSeq(LAMBDA part, sum : part.nelts + sum, 0, l.parts)

\* spy_list_push, to the last part or to a new one.
ListPush ==
    /\ pool # Null /\ list # Null /\ ListLength(list) < MaxElements
    /\ LET n == Len(list.parts) IN
       IF list.parts[n].nelts < list.nalloc
       THEN list' = [list EXCEPT !.parts[n].nelts = @ + 1] /\ UNCHANGED <<pool, regions, live>>
       ELSE \E r \in WithElements(PartHeader, list.nalloc * list.size) :
               /\ Take(r)
               /\ list' = IF r.got = Null THEN list
                          ELSE [list EXCEPT !.parts = Append(@, [elts |-> r.got, nelts |-> 1])]
    /\ UNCHANGED array

PallocNext ==
    \/ Create \/ Allocate \/ Free \/ Destroy \/ (\E size \in Sizes : CreateTempBuf(size))
    \/ \E n, size \in 1 .. 2 :
          ArrayCreate(n, size) \/ ArrayInit(n, size) \/ ListCreate(n, size) \/ ListInit(n, size)
    \/ ArrayPush \/ (\E n \in 2 .. MaxElements : ArrayPushN(n)) \/ ArrayDestroy \/ ListPush

PallocSpec == PallocInit /\ [][PallocNext]_vars

-----------------------------------------------------------------------------
(* No two callers hold the same memory, and none holds a header or what the  *)
(* pool still has to give: whatever the order of aligned and unaligned       *)
(* allocations, of arrays that grow, move and are given back.                *)
RegionsOK ==
    pool # Null =>
        /\ \A r \in regions :
              /\ r.block \in DOMAIN pool.blocks
              /\ (IF r.block = 1 THEN PoolHeader ELSE DataHeader) <= r.from
              /\ r.from <= r.to /\ r.to <= pool.blocks[r.block].last
        /\ \A r, t \in regions : r # t /\ r.block = t.block => r.to <= t.from \/ t.to <= r.from

(* The list of large allocations holds those that are not freed, each once:  *)
(* destroying the pool frees every one of them, and none twice.              *)
LargeListOK ==
    /\ live = IF pool = Null THEN {} ELSE ToSet(pool.large) \ {Null}
    /\ pool # Null => \A i, j \in DOMAIN pool.large :
                         pool.large[i] # Null /\ pool.large[i] = pool.large[j] => i = j

(* The search for room starts behind the blocks that failed more often than  *)
(* they may, and passes over no other: a large request does not cost the     *)
(* room left in a block, and a full block is not looked at for ever.         *)
CurrentOK ==
    pool # Null =>
        /\ pool.current \in DOMAIN pool.blocks
        /\ \A i \in DOMAIN pool.blocks :
              i < pool.current <=> pool.blocks[i].failed > MaxFailed + 1

\* There is memory for n elements of a size at a.
HasRoom(a, n, size) ==
    IF a \in Large THEN a \in live ELSE a \in regions /\ a.to - a.from = n * size

(* What is in an array or a list lies in memory that it holds, through any   *)
(* number of pushes, also of those that fail half way.                       *)
ElementsOK ==
    /\ array # Null => /\ array.nelts <= array.nalloc
                       /\ HasRoom(array.elts, array.nalloc, array.size)
    /\ list # Null => \A i \in DOMAIN list.parts :
                         /\ list.parts[i].nelts <= list.nalloc
                         /\ HasRoom(list.parts[i].elts, list.nalloc, list.size)
=============================================================================
