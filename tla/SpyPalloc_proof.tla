--------------------------- MODULE SpyPalloc_proof ---------------------------
(* Proofs about memory pools. A pool p is in order, PoolOK, for what callers *)
(* hold of it: R of its blocks and L of the large allocations. An allocation *)
(* leaves a pool that is in order for what they hold then, and yields memory *)
(* that nobody held. Arrays and lists add that they keep their elements in   *)
(* such memory.                                                              *)
EXTENDS SpyPalloc, FiniteInduction, SequenceTheorems

\* Where what a block has to give begins.
FrontOf(i) == IF i = 1 THEN PoolHeader ELSE DataHeader

BlocksOK(p) ==
    /\ Len(p.blocks) \in 1 .. MaxBlocks
    /\ \A i \in DOMAIN p.blocks : FrontOf(i) <= p.blocks[i].last

\* Regions are not empty; only for such does it follow that what lies behind
\* the last one is free once it is given back.
Within(p, r) ==
    /\ r.block \in DOMAIN p.blocks
    /\ FrontOf(r.block) <= r.from /\ r.from < r.to /\ r.to <= p.blocks[r.block].last

Apart(r, t) == r # t /\ r.block = t.block => r.to <= t.from \/ t.to <= r.from

HeldOK(p, R) ==
    /\ R \subseteq Region
    /\ \A r \in R : Within(p, r)
    /\ \A r, t \in R : Apart(r, t)

ListedOK(p, L) ==
    /\ L = ToSet(p.large) \ {Null}
    /\ \A i, j \in DOMAIN p.large : p.large[i] # Null /\ p.large[i] = p.large[j] => i = j

\* A block that is looked at has failed as often as any behind it, so that
\* those before a tired block are tired.
PassedOK(p) ==
    /\ p.current \in DOMAIN p.blocks
    /\ \A i \in 1 .. p.current - 1 : p.blocks[i].failed > MaxFailed + 1
    /\ \A i \in p.current .. Len(p.blocks) : p.blocks[i].failed <= MaxFailed + 1
    /\ \A i, j \in p.current .. Len(p.blocks) :
          i <= j => p.blocks[j].failed <= p.blocks[i].failed

PoolOK(p, R, L) ==
    /\ p \in PoolType
    /\ BlocksOK(p)
    /\ HeldOK(p, R)
    /\ ListedOK(p, L)
    /\ PassedOK(p)

ArrayOK ==
    array # Null =>
        /\ array \in ArrayType
        /\ array.size > 0 /\ array.nalloc > 0 /\ array.nelts <= array.nalloc
        /\ HasRoom(array.elts, array.nalloc, array.size)
        /\ array.self # Null => array.self \in regions /\ array.self # array.elts
        /\ list = Null

ListOK ==
    list # Null =>
        /\ list \in ListType
        /\ list.size > 0 /\ list.nalloc > 0 /\ list.parts # <<>>
        /\ \A i \in DOMAIN list.parts :
              /\ list.parts[i].nelts <= list.nalloc
              /\ HasRoom(list.parts[i].elts, list.nalloc, list.size)

PallocIInv ==
    /\ pool = Null => regions = {} /\ live = {}
    /\ pool # Null => PoolOK(pool, regions, live)
    /\ ArrayOK
    /\ ListOK

(* What an allocation of "size" may do to a pool in order for R and L: the   *)
(* pool is in order for what is held then, and what is yielded was not held. *)
Gives(R, L, r, size) ==
    /\ r = [pool |-> r.pool, held |-> r.held, got |-> r.got]
    /\ r.held \subseteq Region \cup Large
    /\ PoolOK(r.pool, R \cup (r.held \ Large), L \cup (r.held \cap Large))
    /\ r.got # Null => /\ r.got \in r.held \ R
                       /\ r.got \in Region => r.got.to - r.got.from = size

-----------------------------------------------------------------------------
\* Numbers.
LEMMA Division ==
    ASSUME NEW x \in Int, NEW n \in Nat \ {0}
    PROVE  x \div n \in Int /\ (x \div n) * n <= x /\ x < (x \div n) * n + n
OBVIOUS

LEMMA Product ==
    ASSUME NEW m \in Nat \ {0}, NEW n \in Nat \ {0}
    PROVE  m * n \in Nat \ {0}
OBVIOUS

LEMMA Distributes ==
    ASSUME NEW m \in Nat, NEW n \in Nat, NEW k \in Nat
    PROVE  (m + n) * k = m * k + n * k
OBVIOUS

\* Aligning goes forward, and not beyond an aligned offset.
LEMMA AlignUp ==
    ASSUME NEW x \in Nat
    PROVE  Align(x) \in Nat /\ x <= Align(x)
<1>1. Alignment \in Nat \ {0}
  BY PallocAssumption
<1> DEFINE q == (x + Alignment - 1) \div Alignment
<1>2. q \in Int /\ x + Alignment - 1 < q * Alignment + Alignment
  BY <1>1, Division
<1>3. q * Alignment \in Int
  BY <1>1, <1>2
<1>4. Align(x) = q * Alignment
  BY DEF Align
<1> HIDE DEF q
<1> QED BY <1>1, <1>2, <1>3, <1>4

LEMMA AlignWithin ==
    ASSUME NEW x \in Nat, NEW y \in Nat, x <= y, y % Alignment = 0
    PROVE  Align(x) <= y
<1>1. Alignment \in Nat \ {0}
  BY PallocAssumption
<1> DEFINE q == (x + Alignment - 1) \div Alignment
           k == y \div Alignment
<1>2. q \in Int /\ q * Alignment <= x + Alignment - 1
  BY <1>1, Division
<1>3. k \in Int /\ y = k * Alignment
  BY <1>1
<1>4. Align(x) = q * Alignment
  BY DEF Align
<1> HIDE DEF q, k
<1>5. q <= k
  <2> SUFFICES ASSUME q >= k + 1 PROVE FALSE
    BY <1>2, <1>3
  <2>1. (q - (k + 1)) * Alignment >= 0
    BY <1>1, <1>2, <1>3
  <2>2. (q - (k + 1)) * Alignment = q * Alignment - (k * Alignment + Alignment)
    BY <1>1, <1>2, <1>3
  <2> QED BY <1>1, <1>2, <1>3, <2>1, <2>2
<1>6. (k - q) * Alignment >= 0
  BY <1>1, <1>2, <1>3, <1>5
<1>7. (k - q) * Alignment = k * Alignment - q * Alignment
  BY <1>1, <1>2, <1>3
<1>8. q * Alignment \in Int /\ k * Alignment \in Int
  BY <1>1, <1>2, <1>3
<1> QED BY <1>3, <1>4, <1>6, <1>7, <1>8

LEMMA MaxSizeFits ==
    MaxSize \in Nat /\ MaxSize <= PoolSize - PoolHeader /\ MaxSize <= MaxSmall
    /\ (MaxSize = PoolSize - PoolHeader \/ MaxSize = MaxSmall)
<1>1. {PoolSize - PoolHeader, MaxSmall} \in SUBSET Nat
  BY PallocAssumption
<1> QED BY <1>1, NatMin DEF MaxSize

-----------------------------------------------------------------------------
\* A part of a block that is laid behind what is held of it.
LEMMA GotIsRegion ==
    ASSUME NEW i \in 1 .. MaxBlocks, NEW from \in Nat, NEW size \in Nat, from + size <= PoolSize
    PROVE  [block |-> i, from |-> from, to |-> from + size] \in Region
<1>1. PoolSize \in Nat
  BY PallocAssumption
<1> QED BY <1>1 DEF Region, Offsets

\* What the type of a pool says of its parts.
LEMMA PoolParts ==
    ASSUME NEW p \in PoolType
    PROVE  /\ p = [blocks |-> p.blocks, current |-> p.current, large |-> p.large]
           /\ p.blocks \in Seq([last : Offsets, failed : Nat])
           /\ p.current \in 1 .. MaxBlocks
           /\ p.large \in Seq(Large \cup {Null})
           /\ Len(p.blocks) \in Nat /\ DOMAIN p.blocks = 1 .. Len(p.blocks)
           /\ \A i \in DOMAIN p.blocks :
                 /\ p.blocks[i] \in [last : Offsets, failed : Nat]
                 /\ p.blocks[i] = [last |-> p.blocks[i].last, failed |-> p.blocks[i].failed]
                 /\ p.blocks[i].last \in Nat /\ p.blocks[i].last <= PoolSize
                 /\ p.blocks[i].failed \in Nat
<1>1. /\ p = [blocks |-> p.blocks, current |-> p.current, large |-> p.large]
      /\ p.blocks \in Seq([last : Offsets, failed : Nat])
      /\ p.current \in 1 .. MaxBlocks
      /\ p.large \in Seq(Large \cup {Null})
  BY DEF PoolType
<1>2. Len(p.blocks) \in Nat /\ DOMAIN p.blocks = 1 .. Len(p.blocks)
  BY <1>1, LenProperties
<1>3. \A i \in DOMAIN p.blocks : p.blocks[i] \in [last : Offsets, failed : Nat]
  BY <1>1, <1>2, ElementOfSeq
<1>4. PoolSize \in Nat
  BY PallocAssumption
<1>5. \A b \in [last : Offsets, failed : Nat] :
         /\ b = [last |-> b.last, failed |-> b.failed]
         /\ b.last \in Nat /\ b.last <= PoolSize /\ b.failed \in Nat
  BY <1>4 DEF Offsets
<1> QED BY <1>1, <1>2, <1>3, <1>5

LEMMA Constants ==
    /\ PoolSize \in Nat /\ PoolHeader \in Nat /\ DataHeader \in Nat /\ MaxFailed \in Nat
    /\ MaxBlocks \in Nat \ {0} /\ Scanned \in Nat /\ MaxSmall \in Nat
    /\ DataHeader <= PoolHeader /\ PoolHeader < PoolSize
    /\ \A i : FrontOf(i) \in Nat /\ FrontOf(i) <= PoolHeader
<1>1. /\ PoolSize \in Nat /\ PoolHeader \in Nat /\ DataHeader \in Nat /\ MaxFailed \in Nat
      /\ MaxBlocks \in Nat \ {0} /\ Scanned \in Nat /\ MaxSmall \in Nat
      /\ DataHeader <= PoolHeader /\ PoolHeader < PoolSize
  BY PallocAssumption
<1> QED BY <1>1 DEF FrontOf

\* What is held of regions and large allocations.
LEMMA RegionsAreNotLarge ==
    /\ \A r \in Region : {r} \ Large = {r} /\ {r} \cap Large = {}
    /\ \A a \in Large : {a} \ Large = {} /\ {a} \cap Large = {a} /\ a \notin Region
    /\ Null \notin Region /\ Null \notin Large
BY AddressAssumption

(* A pool whose blocks keep the parts held and make room for one more.       *)
LEMMA HoldsOneMore ==
    ASSUME NEW p, NEW q, NEW R, HeldOK(p, R), BlocksOK(p), p \in PoolType, q \in PoolType,
           DOMAIN p.blocks \subseteq DOMAIN q.blocks,
           \A j \in DOMAIN p.blocks : p.blocks[j].last <= q.blocks[j].last,
           NEW r \in Region, Within(q, r),
           r.block \in DOMAIN p.blocks => p.blocks[r.block].last <= r.from
    PROVE  HeldOK(q, R \cup {r})
<1>1. \A j \in DOMAIN p.blocks : p.blocks[j].last \in Nat
  BY PoolParts
<1>2. \A j \in DOMAIN q.blocks : q.blocks[j].last \in Nat
  BY PoolParts
<1>3. \A t \in Region : t.from \in Nat /\ t.to \in Nat
  BY PallocAssumption DEF Region, Offsets
<1>4. \A t \in R : t \in Region /\ Within(p, t)
  BY DEF HeldOK
<1>5. \A t \in R : Within(q, t)
  BY <1>1, <1>2, <1>3, <1>4 DEF Within
<1>6. \A t \in R : Apart(r, t) /\ Apart(t, r)
  BY <1>1, <1>3, <1>4 DEF Within, Apart
<1>7. Apart(r, r)
  BY DEF Apart
<1> QED BY <1>4, <1>5, <1>6, <1>7 DEF HeldOK

\* A block whose end is moved.
LEMMA SetLast ==
    ASSUME NEW p \in PoolType, NEW i \in DOMAIN p.blocks, NEW x \in Offsets,
           NEW q, q = [p EXCEPT !.blocks[i].last = x]
    PROVE  /\ q \in PoolType
           /\ q.current = p.current /\ q.large = p.large
           /\ Len(q.blocks) = Len(p.blocks) /\ DOMAIN q.blocks = DOMAIN p.blocks
           /\ q.blocks[i].last = x
           /\ \A j \in DOMAIN p.blocks : j # i => q.blocks[j] = p.blocks[j]
           /\ \A j \in DOMAIN p.blocks : q.blocks[j].failed = p.blocks[j].failed
<1>1. p.blocks \in Seq([last : Offsets, failed : Nat]) /\ DOMAIN p.blocks = 1 .. Len(p.blocks)
  BY PoolParts
<1>2. [p.blocks[i] EXCEPT !.last = x] \in [last : Offsets, failed : Nat]
  <2>1. p.blocks[i] \in [last : Offsets, failed : Nat]
    BY PoolParts
  <2> QED BY <2>1
<1> DEFINE bs == [p.blocks EXCEPT ![i] = [p.blocks[i] EXCEPT !.last = x]]
<1>3. bs \in Seq([last : Offsets, failed : Nat]) /\ Len(bs) = Len(p.blocks)
      /\ DOMAIN bs = DOMAIN p.blocks
  BY <1>1, <1>2, ExceptSeq, LenProperties
<1>4. q = [blocks |-> bs, current |-> p.current, large |-> p.large]
  <2>1. p = [blocks |-> p.blocks, current |-> p.current, large |-> p.large]
    BY PoolParts
  <2>2. q = [p EXCEPT !.blocks = bs]
    OBVIOUS
  <2> HIDE DEF bs
  <2> QED BY <2>1, <2>2
<1>5. /\ bs[i].last = x
      /\ \A j \in DOMAIN p.blocks : j # i => bs[j] = p.blocks[j]
      /\ \A j \in DOMAIN p.blocks : bs[j].failed = p.blocks[j].failed
  <2>1. \A j \in DOMAIN p.blocks : p.blocks[j] \in [last : Offsets, failed : Nat]
    BY PoolParts
  <2> QED BY <1>1, <2>1
<1> HIDE DEF bs
<1>6. q \in PoolType
  BY <1>3, <1>4, PoolParts DEF PoolType
<1> QED BY <1>3, <1>4, <1>5, <1>6

\* What is got of a block that had room behind what is held of it.
LEMMA PlaceOK ==
    ASSUME NEW p, NEW R, NEW L, PoolOK(p, R, L),
           NEW i \in DOMAIN p.blocks, NEW from \in Nat, NEW size \in Nat \ {0},
           p.blocks[i].last <= from, from + size <= PoolSize,
           NEW g, g = Got([p EXCEPT !.blocks[i].last = from + size], i, from, size)
    PROVE  Gives(R, L, g, size) /\ g.held \subseteq Region
<1> DEFINE q == [p EXCEPT !.blocks[i].last = from + size]
           r == [block |-> i, from |-> from, to |-> from + size]
<1>1. p \in PoolType /\ BlocksOK(p) /\ HeldOK(p, R) /\ ListedOK(p, L) /\ PassedOK(p)
  BY DEF PoolOK
<1>2. i \in 1 .. MaxBlocks /\ DOMAIN p.blocks = 1 .. Len(p.blocks) /\ Len(p.blocks) \in Nat
      /\ MaxBlocks \in Nat
  BY <1>1, PoolParts, Constants, SMTT(30) DEF BlocksOK
<1>3. r \in Region
  BY <1>2, GotIsRegion
<1>4. from + size \in Offsets
  BY PallocAssumption DEF Offsets
<1>5. /\ q \in PoolType
      /\ q.current = p.current /\ q.large = p.large
      /\ Len(q.blocks) = Len(p.blocks) /\ DOMAIN q.blocks = DOMAIN p.blocks
      /\ q.blocks[i].last = from + size
      /\ \A j \in DOMAIN p.blocks : j # i => q.blocks[j] = p.blocks[j]
      /\ \A j \in DOMAIN p.blocks : q.blocks[j].failed = p.blocks[j].failed
  BY <1>1, <1>4, SetLast
<1> HIDE DEF q
<1>6. p.blocks[i].last \in Nat
  BY <1>1, PoolParts
<1>7. \A j \in DOMAIN p.blocks : p.blocks[j].last \in Nat /\ p.blocks[j].last <= q.blocks[j].last
  <2>1. \A j \in DOMAIN p.blocks : p.blocks[j].last \in Nat
    BY <1>1, PoolParts
  <2> QED BY <1>5, <1>6, <2>1
<1>8. FrontOf(i) \in Nat /\ FrontOf(i) <= p.blocks[i].last
  BY <1>1, Constants DEF BlocksOK
<1>9. Within(q, r)
  BY <1>2, <1>5, <1>6, <1>8 DEF Within
<1>10. HeldOK(q, R \cup {r})
  BY <1>1, <1>3, <1>5, <1>7, <1>9, HoldsOneMore
<1>11. BlocksOK(q)
  <2>1. \A j \in DOMAIN q.blocks : FrontOf(j) \in Nat /\ q.blocks[j].last \in Nat
    BY <1>5, PoolParts, Constants
  <2> QED BY <1>1, <1>5, <1>7, <2>1, SMTT(30) DEF BlocksOK
<1>12. ListedOK(q, L) /\ PassedOK(q)
  <2>1. ListedOK(q, L)
    BY <1>1, <1>5 DEF ListedOK
  <2>2. p.current \in 1 .. Len(p.blocks)
    BY <1>1, <1>2 DEF PassedOK
  <2>3. \A j \in 1 .. p.current - 1 : j \in DOMAIN p.blocks
    BY <1>2, <2>2
  <2>4. \A j \in p.current .. Len(p.blocks) : j \in DOMAIN p.blocks
    BY <1>2, <2>2
  <2> QED BY <1>1, <1>5, <2>1, <2>3, <2>4 DEF PassedOK
<1>13. r \notin R
  <2> SUFFICES ASSUME r \in R PROVE FALSE
    OBVIOUS
  <2> QED BY <1>1, <1>6 DEF HeldOK, Within
<1>14. PoolOK(q, R \cup {r}, L)
  BY <1>5, <1>10, <1>11, <1>12 DEF PoolOK
<1>15. R \cup ({r} \ Large) = R \cup {r} /\ L \cup ({r} \cap Large) = L
  BY <1>3, RegionsAreNotLarge
<1>16. g = [pool |-> q, held |-> {r}, got |-> r]
  BY DEF Got, q
<1>17. r.to - r.from = size
  OBVIOUS
<1>18. r \in {r} \ R /\ {r} \subseteq Region
  BY <1>3, <1>13
<1> HIDE DEF r
<1>19. /\ g.pool = q /\ g.held = {r} /\ g.got = r
       /\ g = [pool |-> g.pool, held |-> g.held, got |-> g.got]
  BY <1>16
<1> QED BY <1>14, <1>15, <1>17, <1>18, <1>19 DEF Gives

-----------------------------------------------------------------------------
\* Without memory everything stays as it is.
LEMMA NoMemoryOK ==
    ASSUME NEW p, NEW R, NEW L, PoolOK(p, R, L), NEW size
    PROVE  Gives(R, L, NoMemory(p), size) /\ NoMemory(p).held \subseteq Region
<1>1. R \cup ({} \ Large) = R /\ L \cup ({} \cap Large) = L
  OBVIOUS
<1> QED BY <1>1 DEF Gives, NoMemory

(* A new block. Those that had no room have failed once more; the blocks     *)
(* before the new current one are tired, because every block that is looked  *)
(* at has failed as often as any behind it.                                  *)
LEMMA BlockOK ==
    ASSUME NEW p, NEW R, NEW L, PoolOK(p, R, L),
           NEW size \in Nat \ {0}, size <= MaxSize, NEW g \in PallocBlock(p, size)
    PROVE  Gives(R, L, g, size) /\ g.held \subseteq Region
<1> DEFINE n    == Len(p.blocks)
           from == Align(DataHeader)
           had  == p.current .. n - 1
           tired  == {i \in had : p.blocks[i].failed > MaxFailed}
           blocks == [i \in 1 .. n |-> IF i \in had THEN [p.blocks[i] EXCEPT !.failed = @ + 1]
                                       ELSE p.blocks[i]]
           new  == [last |-> from + size, failed |-> 0]
           cur  == IF tired = {} THEN p.current ELSE Max(tired) + 1
           q == [p EXCEPT !.blocks = Append(blocks, new), !.current = cur]
           r == [block |-> n + 1, from |-> from, to |-> from + size]
<1>1. p \in PoolType /\ BlocksOK(p) /\ HeldOK(p, R) /\ ListedOK(p, L) /\ PassedOK(p)
  BY DEF PoolOK
<1>2. n # MaxBlocks /\ g = Got(q, n + 1, from, size)
  BY DEF PallocBlock
<1>3. n \in Nat /\ n > 0 /\ n + 1 \in 1 .. MaxBlocks /\ DOMAIN p.blocks = 1 .. n
  BY <1>1, <1>2, PoolParts, Constants DEF BlocksOK
<1>4. from \in Nat /\ DataHeader <= from /\ from <= PoolHeader
  <2>1. PoolHeader % Alignment = 0
    BY PallocAssumption
  <2> QED BY <2>1, Constants, AlignUp, AlignWithin
<1>5. from + size <= PoolSize /\ from + size \in Offsets
  BY <1>4, Constants, MaxSizeFits DEF Offsets
<1>6. r \in Region
  BY <1>3, <1>4, <1>5, GotIsRegion
<1>7. p.current \in 1 .. n
  BY <1>1, <1>3 DEF PassedOK
<1> HIDE DEF from, cur, tired, had
<1>8. /\ blocks \in Seq([last : Offsets, failed : Nat]) /\ Len(blocks) = n
      /\ \A i \in 1 .. n :
            /\ blocks[i].last = p.blocks[i].last
            /\ blocks[i].failed = IF i \in had THEN p.blocks[i].failed + 1 ELSE p.blocks[i].failed
  <2>1. \A i \in 1 .. n : /\ p.blocks[i] \in [last : Offsets, failed : Nat]
                          /\ p.blocks[i].failed \in Nat
    BY <1>1, <1>3, PoolParts
  <2>2. \A b \in [last : Offsets, failed : Nat] :
           /\ [b EXCEPT !.failed = @ + 1] \in [last : Offsets, failed : Nat]
           /\ [b EXCEPT !.failed = @ + 1].last = b.last
           /\ [b EXCEPT !.failed = @ + 1].failed = b.failed + 1
    OBVIOUS
  <2> HIDE DEF n
  <2>3. blocks \in [1 .. n -> [last : Offsets, failed : Nat]]
    BY <2>1, <2>2
  <2>4. blocks \in Seq([last : Offsets, failed : Nat]) /\ Len(blocks) = n
    <3> HIDE DEF blocks
    <3>1. blocks \in Seq([last : Offsets, failed : Nat])
      BY <1>3, <2>3, SeqDef, ZenonT(40)
    <3>2. DOMAIN blocks = 1 .. n /\ DOMAIN blocks = 1 .. Len(blocks) /\ Len(blocks) \in Nat
      BY <2>3, <3>1, LenProperties
    <3> QED BY <1>3, <3>1, <3>2
  <2>5. ASSUME NEW i \in 1 .. n
        PROVE  /\ blocks[i].last = p.blocks[i].last
               /\ blocks[i].failed = IF i \in had THEN p.blocks[i].failed + 1
                                     ELSE p.blocks[i].failed
    <3>1. CASE i \in had
      BY <2>1, <2>2, <3>1
    <3>2. CASE i \notin had
      BY <2>1, <3>2
    <3> QED BY <3>1, <3>2
  <2> QED BY <2>4, <2>5
<1> HIDE DEF blocks
<1>9. new \in [last : Offsets, failed : Nat]
  BY <1>5
<1>10. /\ q.blocks \in Seq([last : Offsets, failed : Nat])
       /\ q.current = cur /\ q.large = p.large
       /\ Len(q.blocks) = n + 1 /\ DOMAIN q.blocks = 1 .. n + 1
       /\ q.blocks[n + 1].last = from + size /\ q.blocks[n + 1].failed = 0
       /\ \A i \in 1 .. n : q.blocks[i] = blocks[i]
       /\ q = [blocks |-> q.blocks, current |-> cur, large |-> p.large]
  <2>1. p = [blocks |-> p.blocks, current |-> p.current, large |-> p.large]
    BY <1>1, PoolParts
  <2> DEFINE bs == Append(blocks, new)
  <2>2. q = [blocks |-> bs, current |-> cur, large |-> p.large]
    <3>1. q = [p EXCEPT !.blocks = bs, !.current = cur]
      OBVIOUS
    <3> HIDE DEF bs, q
    <3> QED BY <2>1, <3>1
  <2>3. new.last = from + size /\ new.failed = 0
    OBVIOUS
  <2> HIDE DEF new, q
  <2>4. q.blocks = Append(blocks, new)
    BY <2>2
  <2> QED BY <1>3, <1>8, <1>9, <2>2, <2>3, <2>4, AppendProperties
<1> HIDE DEF q, new
<1>11. /\ cur \in p.current .. n
       /\ \A i \in p.current .. cur - 1 : p.blocks[i].failed > MaxFailed /\ i \in had
       /\ \A i \in cur .. n - 1 : p.blocks[i].failed <= MaxFailed
       /\ had = p.current .. n - 1
  <2>1. \A i \in 1 .. n : p.blocks[i].failed \in Nat
    BY <1>1, <1>3, PoolParts
  <2>2. CASE tired = {}
    <3>1. cur = p.current
      BY <2>2 DEF cur
    <3>2. \A i \in cur .. n - 1 : i \in had /\ i \in 1 .. n
      BY <1>3, <1>7, <3>1 DEF had
    <3>3. \A i \in cur .. n - 1 : p.blocks[i].failed <= MaxFailed
      BY <2>1, <2>2, <3>2, Constants DEF tired
    <3> QED BY <1>3, <1>7, <3>1, <3>3 DEF had
  <2>3. CASE tired # {}
    <3>1. tired \in SUBSET Int /\ IsFiniteSet(tired)
      <4>1. n - 1 \in Int /\ p.current \in Int
        BY <1>3, <1>7
      <4>2. IsFiniteSet(had) /\ had \subseteq Int
        <5> HIDE DEF n
        <5> QED BY <4>1, FS_Interval DEF had
      <4>3. tired \subseteq had
        BY DEF tired
      <4> QED BY <4>2, <4>3, FS_Subset
    <3>2. Max(tired) \in tired /\ \A i \in tired : i <= Max(tired)
      BY <2>3, <3>1, FiniteMax
    <3>3. PICK m \in tired : cur = m + 1 /\ \A i \in tired : i <= m
      BY <2>3, <3>2 DEF cur
    <3>4. m \in p.current .. n - 1 /\ p.blocks[m].failed > MaxFailed /\ m \in Int
      BY <1>3, <1>7, <3>3 DEF tired, had
    <3>5. \A i \in p.current .. m : p.blocks[m].failed <= p.blocks[i].failed
      <4>1. \A i \in p.current .. m : i \in p.current .. n /\ m \in p.current .. n /\ i <= m
        BY <1>3, <1>7, <3>4
      <4> QED BY <1>1, <4>1 DEF PassedOK
    <3>6. cur \in p.current .. n /\ had = p.current .. n - 1
      BY <1>3, <1>7, <3>3, <3>4 DEF had
    <3>7. ASSUME NEW i \in p.current .. cur - 1
          PROVE  p.blocks[i].failed > MaxFailed /\ i \in had
      <4>1. i \in p.current .. m /\ i \in p.current .. n - 1 /\ i \in 1 .. n /\ m \in 1 .. n
        BY <1>3, <1>7, <3>3, <3>4, <3>6
      <4>2. p.blocks[m].failed <= p.blocks[i].failed
        BY <3>5, <4>1
      <4>3. p.blocks[i].failed \in Nat /\ p.blocks[m].failed \in Nat
        BY <2>1, <4>1
      <4>4. p.blocks[i].failed > MaxFailed
        BY <3>4, <4>2, <4>3, Constants, SMTT(30)
      <4> QED BY <3>6, <4>1, <4>4
    <3>8. ASSUME NEW i \in cur .. n - 1 PROVE p.blocks[i].failed <= MaxFailed
      <4>1. i \in had /\ i \in 1 .. n /\ ~ i <= m
        BY <1>3, <1>7, <3>3, <3>4, <3>6
      <4>2. i \notin tired
        BY <3>3, <4>1
      <4> QED BY <2>1, <4>1, <4>2, Constants DEF tired
    <3> QED BY <3>6, <3>7, <3>8
  <2> QED BY <2>2, <2>3
<1>12. q \in PoolType
  <2>1. p.large \in Seq(Large \cup {Null})
    BY <1>1, PoolParts
  <2>2. cur \in 1 .. MaxBlocks
    <3>1. cur \in Int /\ 1 <= cur /\ cur <= n
      BY <1>3, <1>7, <1>11
    <3> QED BY <1>3, <3>1, Constants
  <2> QED BY <1>10, <2>1, <2>2 DEF PoolType
<1>13. BlocksOK(q)
  <2>1. \A i \in 1 .. n : FrontOf(i) <= q.blocks[i].last
    BY <1>1, <1>3, <1>8, <1>10 DEF BlocksOK
  <2>2. FrontOf(n + 1) <= q.blocks[n + 1].last
    <3>1. FrontOf(n + 1) = DataHeader
      BY <1>3 DEF FrontOf
    <3>2. DataHeader \in Nat /\ size \in Nat
      BY Constants
    <3> QED BY <1>4, <1>10, <3>1, <3>2
  <2> QED BY <1>3, <1>10, <2>1, <2>2 DEF BlocksOK
<1>14. HeldOK(q, R \cup {r})
  <2>1. Within(q, r)
    <3>1. FrontOf(n + 1) = DataHeader
      BY <1>3 DEF FrontOf
    <3>2. DataHeader \in Nat /\ size \in Nat \ {0} /\ n + 1 \in DOMAIN q.blocks
      BY <1>3, <1>10, Constants
    <3>3. from < from + size
      BY <1>4
    <3> QED BY <1>4, <1>10, <3>1, <3>2, <3>3 DEF Within
  <2>2. r.block \notin DOMAIN p.blocks
    BY <1>3
  <2>3. \A i \in DOMAIN p.blocks : i \in DOMAIN q.blocks /\ p.blocks[i].last <= q.blocks[i].last
    <3>1. \A i \in 1 .. n : p.blocks[i].last \in Nat
      BY <1>1, <1>3, PoolParts
    <3>2. \A i \in 1 .. n : i \in DOMAIN q.blocks /\ p.blocks[i].last = q.blocks[i].last
      BY <1>3, <1>8, <1>10
    <3> QED BY <1>3, <3>1, <3>2
  <2> HIDE DEF r
  <2> QED BY <1>1, <1>6, <1>12, <2>1, <2>2, <2>3, HoldsOneMore
<1>15. ListedOK(q, L)
  BY <1>1, <1>10 DEF ListedOK
<1>16. PassedOK(q)
  <2>1. \A i \in 1 .. n : p.blocks[i].failed \in Nat
    BY <1>1, <1>3, PoolParts
  <2>2. q.current \in DOMAIN q.blocks
    <3>1. cur \in Int /\ 1 <= cur /\ cur <= n
      BY <1>3, <1>7, <1>11
    <3>2. cur \in 1 .. n + 1
      BY <1>3, <3>1
    <3> QED BY <1>10, <3>2
  <2>3. ASSUME NEW i \in 1 .. cur - 1 PROVE q.blocks[i].failed > MaxFailed + 1
    <3>1. i \in 1 .. n
      BY <1>3, <1>7, <1>11
    <3>2. CASE i < p.current
      <4>1. i \in 1 .. p.current - 1 /\ i \notin had
        BY <1>3, <1>7, <1>11, <3>1, <3>2
      <4> QED BY <1>1, <1>8, <1>10, <3>1, <4>1 DEF PassedOK
    <3>3. CASE i >= p.current
      <4>1. i \in p.current .. cur - 1
        BY <1>7, <1>11, <3>1, <3>3
      <4>2. q.blocks[i].failed = p.blocks[i].failed + 1
        BY <1>8, <1>10, <1>11, <3>1, <4>1
      <4> QED BY <1>11, <2>1, <3>1, <4>1, <4>2, Constants
    <3> QED BY <1>7, <3>1, <3>2, <3>3
  <2>5. ASSUME NEW i \in cur .. n + 1 PROVE q.blocks[i].failed <= MaxFailed + 1
    <3>1. i \in p.current .. n + 1 /\ i \in Int
      <4>1. cur \in p.current .. n /\ cur \in Int /\ p.current \in Int
        BY <1>3, <1>7, <1>11
      <4> QED BY <1>3, <4>1
    <3>2. CASE i = n + 1
      BY <1>10, <3>2, Constants
    <3>3. CASE i = n
      <4>1. i \in 1 .. n /\ i \notin had /\ i \in p.current .. n
        BY <1>3, <1>7, <1>11, <3>3
      <4>2. q.blocks[i].failed = p.blocks[i].failed
        BY <1>8, <1>10, <4>1
      <4> QED BY <1>1, <4>1, <4>2 DEF PassedOK
    <3>4. CASE i \notin {n, n + 1}
      <4>1. i \in 1 .. n /\ i \in cur .. n - 1
        BY <1>3, <1>7, <1>11, <2>5, <3>1, <3>4
      <4>2. \/ q.blocks[i].failed = p.blocks[i].failed
            \/ q.blocks[i].failed = p.blocks[i].failed + 1
        BY <1>8, <1>10, <4>1
      <4>3. p.blocks[i].failed <= MaxFailed /\ p.blocks[i].failed \in Nat
        BY <1>11, <2>1, <4>1
      <4>4. MaxFailed \in Nat
        BY Constants
      <4> QED BY <4>2, <4>3, <4>4
    <3> QED BY <3>2, <3>3, <3>4
  <2>4. ASSUME NEW i \in cur .. n + 1, NEW j \in cur .. n + 1, i <= j
        PROVE  q.blocks[j].failed <= q.blocks[i].failed
    <3>1. i \in p.current .. n + 1 /\ j \in p.current .. n + 1 /\ i \in Int /\ j \in Int
      <4>1. cur \in p.current .. n /\ cur \in Int /\ p.current \in Int
        BY <1>3, <1>7, <1>11
      <4> QED BY <1>3, <4>1
    <3>2. CASE j = n + 1
      <4>1. CASE i = n + 1
        BY <1>10, <3>2, <4>1
      <4>2. CASE i # n + 1
        <5>1. i \in 1 .. n
          BY <1>3, <1>7, <3>1, <4>2
        <5>2. q.blocks[i].failed \in Nat
          <6>1. q.blocks[i].failed \in {p.blocks[i].failed, p.blocks[i].failed + 1}
            BY <1>8, <1>10, <5>1
          <6> QED BY <2>1, <5>1, <6>1
        <5> QED BY <1>10, <3>2, <5>2
      <4> QED BY <4>1, <4>2
    <3>3. CASE j # n + 1
      <4>1. i \in 1 .. n /\ j \in 1 .. n /\ i \in p.current .. n /\ j \in p.current .. n
        BY <1>3, <1>7, <2>4, <3>1, <3>3
      <4>2. p.blocks[j].failed <= p.blocks[i].failed
        BY <1>1, <2>4, <4>1 DEF PassedOK
      <4>3. j \in had => i \in had
        BY <1>3, <1>7, <1>11, <2>4, <4>1
      <4>4. q.blocks[i].failed = blocks[i].failed /\ q.blocks[j].failed = blocks[j].failed
        BY <1>10, <4>1
      <4>5. /\ q.blocks[i].failed = IF i \in had THEN p.blocks[i].failed + 1 ELSE p.blocks[i].failed
            /\ q.blocks[j].failed = IF j \in had THEN p.blocks[j].failed + 1 ELSE p.blocks[j].failed
        BY <1>8, <4>1, <4>4
      <4>6. p.blocks[i].failed \in Nat /\ p.blocks[j].failed \in Nat
        BY <2>1, <4>1
      <4>7. CASE j \in had
        <5>1. /\ q.blocks[j].failed = p.blocks[j].failed + 1
              /\ q.blocks[i].failed = p.blocks[i].failed + 1
          BY <4>3, <4>5, <4>7
        <5> QED BY <4>2, <4>6, <5>1, SMTT(30)
      <4>8. CASE j \notin had
        <5>1. q.blocks[j].failed = p.blocks[j].failed
          BY <4>5, <4>8
        <5>2. q.blocks[i].failed = p.blocks[i].failed + 1 \/ q.blocks[i].failed = p.blocks[i].failed
          BY <4>5
        <5> QED BY <4>2, <4>6, <5>1, <5>2
      <4> QED BY <4>7, <4>8
    <3> QED BY <3>2, <3>3
  <2> QED BY <1>10, <2>2, <2>3, <2>4, <2>5 DEF PassedOK
<1>17. PoolOK(q, R \cup {r}, L)
  BY <1>12, <1>13, <1>14, <1>15, <1>16 DEF PoolOK
<1>18. r \notin R /\ r.to - r.from = size
  <2>1. r.block \notin DOMAIN p.blocks /\ r.to - r.from = size
    BY <1>3, <1>4
  <2> HIDE DEF r
  <2> QED BY <1>1, <2>1 DEF HeldOK, Within
<1>19. R \cup ({r} \ Large) = R \cup {r} /\ L \cup ({r} \cap Large) = L
  BY <1>6, RegionsAreNotLarge
<1>20. g = [pool |-> q, held |-> {r}, got |-> r]
  BY <1>2 DEF Got
<1>21. r \in {r} \ R /\ {r} \subseteq Region
  BY <1>6, <1>18
<1> HIDE DEF r
<1> QED BY <1>17, <1>18, <1>19, <1>20, <1>21 DEF Gives

\* The first block with room, looked for from the current one on.
LEMMA SmallOK ==
    ASSUME NEW p, NEW R, NEW L, PoolOK(p, R, L),
           NEW size \in Nat \ {0}, size <= MaxSize, NEW aligned \in BOOLEAN,
           NEW g \in PallocSmall(p, size, aligned)
    PROVE  Gives(R, L, g, size) /\ g.held \subseteq Region
<1> DEFINE From(i) == IF aligned THEN Align(p.blocks[i].last) ELSE p.blocks[i].last
           room == {i \in p.current .. Len(p.blocks) : PoolSize - From(i) >= size}
           i    == Min(room)
<1>1. p \in PoolType /\ PassedOK(p)
  BY DEF PoolOK
<1>2. Len(p.blocks) \in Nat /\ DOMAIN p.blocks = 1 .. Len(p.blocks)
      /\ p.current \in 1 .. Len(p.blocks)
  BY <1>1, PoolParts DEF PassedOK
<1>3. CASE room = {}
  <2>1. g \in {NoMemory(p)} \cup PallocBlock(p, size)
    BY <1>3 DEF PallocSmall
  <2>2. CASE g = NoMemory(p)
    BY <2>2, NoMemoryOK
  <2>3. CASE g \in PallocBlock(p, size)
    BY <2>3, BlockOK
  <2> QED BY <2>1, <2>2, <2>3
<1>4. CASE room # {}
  <2>1. room \subseteq 1 .. Len(p.blocks)
    BY <1>2
  <2>2. i \in room
    <3> HIDE DEF room
    <3> QED BY <1>2, <1>4, <2>1, NatMin
  <2>3. i \in DOMAIN p.blocks /\ PoolSize - From(i) >= size
    BY <1>2, <2>1, <2>2
  <2>4. g = Got([p EXCEPT !.blocks[i].last = From(i) + size], i, From(i), size)
    BY <1>4 DEF PallocSmall
  <2> HIDE DEF i
  <2>5. p.blocks[i].last \in Nat
    BY <1>1, <2>3, PoolParts
  <2>6. From(i) \in Nat /\ p.blocks[i].last <= From(i)
    BY <2>5, AlignUp
  <2> HIDE DEF From
  <2>7. From(i) + size <= PoolSize
    BY <2>3, <2>6, Constants
  <2> QED BY <2>3, <2>4, <2>6, <2>7, PlaceOK
<1> QED BY <1>3, <1>4

LEMMA LargeHeaderFits ==
    /\ LargeHeader \in Nat \ {0} /\ LargeHeader <= MaxSize
    /\ ArrayHeader \in Nat \ {0} /\ ArrayHeader <= MaxSize
BY PallocAssumption, MaxSizeFits

\* A list of large allocations with one more that was not in it.
LEMMA AddLargeOK ==
    ASSUME NEW p, NEW R, NEW L, PoolOK(p, R, L),
           NEW a \in Large \ ToSet(p.large), NEW size, NEW g \in AddLarge(p, a)
    PROVE  Gives(R, L, g, size)
<1>1. PICK r \in PallocSmall(p, LargeHeader, TRUE) :
         g = IF r.got = Null THEN r
             ELSE [pool |-> [r.pool EXCEPT !.large = <<a>> \o r.pool.large],
                   held |-> r.held \cup {a}, got |-> a]
  BY DEF AddLarge
<1>2. Gives(R, L, r, LargeHeader) /\ r.held \subseteq Region
  BY LargeHeaderFits, SmallOK
<1>3. CASE r.got = Null
  BY <1>1, <1>2, <1>3 DEF Gives
<1>4. CASE r.got # Null
  <2> DEFINE q == [r.pool EXCEPT !.large = <<a>> \o r.pool.large]
             Q == R \cup r.held
  <2>1. PoolOK(r.pool, Q, L)
    <3>1. r.held \ Large = r.held /\ r.held \cap Large = {}
      BY <1>2, RegionsAreNotLarge
    <3> QED BY <1>2, <3>1 DEF Gives
  <2>2. /\ r.pool \in PoolType /\ BlocksOK(r.pool) /\ HeldOK(r.pool, Q)
        /\ ListedOK(r.pool, L) /\ PassedOK(r.pool)
    BY <2>1 DEF PoolOK
  <2>3. r.pool.large \in Seq(Large \cup {Null})
    BY <2>2, PoolParts
  <2>4. a \notin ToSet(r.pool.large) /\ a # Null
    <3>1. ToSet(r.pool.large) \ {Null} = ToSet(p.large) \ {Null}
      BY <2>2 DEF ListedOK, PoolOK
    <3> QED BY <3>1, RegionsAreNotLarge
  <2> DEFINE large == <<a>> \o r.pool.large
  <2>5. /\ large \in Seq(Large \cup {Null})
        /\ DOMAIN large = 1 .. Len(r.pool.large) + 1 /\ Len(r.pool.large) \in Nat
        /\ large[1] = a
        /\ \A i \in DOMAIN large : i # 1 => i - 1 \in DOMAIN r.pool.large
                                            /\ large[i] = r.pool.large[i - 1]
        /\ \A i \in DOMAIN r.pool.large : i + 1 \in DOMAIN large
                                          /\ large[i + 1] = r.pool.large[i]
    BY <2>3, SMTT(30)
  <2> HIDE DEF large
  <2>6. ToSet(large) = {a} \cup ToSet(r.pool.large)
    <3>1. \A i \in DOMAIN r.pool.large : i + 1 \in DOMAIN large
      BY <2>5
    <3>2. 1 \in DOMAIN large
      BY <2>5
    <3> QED BY <2>5, <3>1, <3>2 DEF ToSet
  <2>7. q = [blocks |-> r.pool.blocks, current |-> r.pool.current, large |-> large]
    <3>1. r.pool = [blocks |-> r.pool.blocks, current |-> r.pool.current,
                    large |-> r.pool.large]
      BY <2>2, PoolParts
    <3>2. q = [r.pool EXCEPT !.large = large]
      BY DEF large
    <3> HIDE DEF q
    <3> QED BY <3>1, <3>2
  <2>8. ListedOK(q, L \cup {a})
    <3>1. L \cup {a} = ToSet(large) \ {Null}
      BY <2>2, <2>4, <2>6 DEF ListedOK
    <3>2. ASSUME NEW i \in DOMAIN large, NEW j \in DOMAIN large, large[i] # Null,
                 large[i] = large[j]
          PROVE  i = j
      <4>1. \A k \in DOMAIN large : k # 1 => large[k] \in ToSet(r.pool.large) /\ large[k] # a
        BY <2>4, <2>5 DEF ToSet
      <4>2. CASE i = 1 \/ j = 1
        BY <2>5, <3>2, <4>1, <4>2
      <4>3. CASE i # 1 /\ j # 1
        <5>1. i - 1 \in DOMAIN r.pool.large /\ j - 1 \in DOMAIN r.pool.large
              /\ r.pool.large[i - 1] # Null /\ r.pool.large[i - 1] = r.pool.large[j - 1]
          BY <2>5, <3>2, <4>3
        <5>2. i - 1 = j - 1
          BY <2>2, <5>1 DEF ListedOK
        <5> QED BY <2>5, <5>2
      <4> QED BY <4>2, <4>3
    <3> HIDE DEF q
    <3> QED BY <2>7, <3>1, <3>2 DEF ListedOK
  <2> HIDE DEF q
  <2>9. q \in PoolType
    BY <2>2, <2>5, <2>7, PoolParts DEF PoolType
  <2>10. BlocksOK(q) /\ HeldOK(q, Q) /\ PassedOK(q)
    BY <2>2, <2>7 DEF BlocksOK, HeldOK, Within, PassedOK
  <2>11. PoolOK(q, Q, L \cup {a})
    BY <2>8, <2>9, <2>10 DEF PoolOK
  <2>12. g = [pool |-> q, held |-> r.held \cup {a}, got |-> a]
    BY <1>1, <1>4 DEF q, large
  <2>13. R \cup ((r.held \cup {a}) \ Large) = Q
    BY <1>2, RegionsAreNotLarge
  <2>14. L \cup ((r.held \cup {a}) \cap Large) = L \cup {a}
    BY <1>2, RegionsAreNotLarge
  <2>15. a \notin R /\ a \notin Region
    <3>1. R \subseteq Region
      BY DEF PoolOK, HeldOK
    <3> QED BY <3>1, RegionsAreNotLarge
  <2> HIDE DEF Q
  <2>16. PoolOK(g.pool, R \cup (g.held \ Large), L \cup (g.held \cap Large))
    BY <2>11, <2>12, <2>13, <2>14
  <2>17. g.held \subseteq Region \cup Large
    BY <1>2, <2>12
  <2>18. g = [pool |-> g.pool, held |-> g.held, got |-> g.got]
    BY <2>12
  <2> QED BY <2>12, <2>15, <2>16, <2>17, <2>18 DEF Gives
<1> QED BY <1>3, <1>4

\* A large allocation goes to an entry that was freed, or to a new one.
LEMMA PallocLargeOK ==
    ASSUME NEW p, NEW R, NEW L, PoolOK(p, R, L),
           NEW a \in Large \ ToSet(p.large), NEW size, NEW g \in PallocLarge(p, a)
    PROVE  Gives(R, L, g, size)
<1> DEFINE empty == {i \in DOMAIN p.large : i <= Scanned /\ p.large[i] = Null}
           e == Min(empty)
<1>1. CASE empty = {}
  BY <1>1, AddLargeOK DEF PallocLarge
<1>2. CASE empty # {}
  <2>1. p \in PoolType /\ BlocksOK(p) /\ HeldOK(p, R) /\ ListedOK(p, L) /\ PassedOK(p)
    BY DEF PoolOK
  <2>2. p.large \in Seq(Large \cup {Null}) /\ DOMAIN p.large = 1 .. Len(p.large)
        /\ Len(p.large) \in Nat
    BY <2>1, PoolParts, LenProperties
  <2>3. e \in empty
    <3>1. empty \in SUBSET Nat
      BY <2>2
    <3> HIDE DEF empty
    <3> QED BY <1>2, <3>1, NatMin
  <2>4. e \in DOMAIN p.large /\ p.large[e] = Null
    BY <2>3
  <2> DEFINE large == [p.large EXCEPT ![e] = a]
             q == [p EXCEPT !.large[e] = a]
  <2>5. g = [pool |-> q, held |-> {a}, got |-> a]
    BY <1>2 DEF PallocLarge
  <2> HIDE DEF e
  <2>6. q = [blocks |-> p.blocks, current |-> p.current, large |-> large]
    <3>1. p = [blocks |-> p.blocks, current |-> p.current, large |-> p.large]
      BY <2>1, PoolParts
    <3>2. q = [p EXCEPT !.large = large]
      OBVIOUS
    <3> HIDE DEF q, large
    <3> QED BY <3>1, <3>2
  <2>7. /\ large \in Seq(Large \cup {Null}) /\ DOMAIN large = DOMAIN p.large
        /\ large[e] = a /\ \A i \in DOMAIN large : i # e => large[i] = p.large[i]
    BY <2>2, <2>4, ExceptSeq
  <2> HIDE DEF q, large
  <2>8. \A i \in DOMAIN large : i # e => large[i] # a
    BY <2>7 DEF ToSet
  <2>9. a # Null
    BY RegionsAreNotLarge
  <2>10. ListedOK(q, L \cup {a})
    <3>1. ToSet(large) \ {Null} = (ToSet(p.large) \ {Null}) \cup {a}
      <4>1. ASSUME NEW x \in ToSet(large) \ {Null} PROVE x = a \/ x \in ToSet(p.large)
        BY <2>7 DEF ToSet
      <4>2. ASSUME NEW x \in ToSet(p.large) \ {Null} PROVE x \in ToSet(large)
        BY <2>4, <2>7 DEF ToSet
      <4>3. a \in ToSet(large)
        BY <2>4, <2>7 DEF ToSet
      <4> QED BY <2>9, <4>1, <4>2, <4>3
    <3>2. L \cup {a} = ToSet(large) \ {Null}
      BY <2>1, <3>1 DEF ListedOK
    <3>3. ASSUME NEW i \in DOMAIN large, NEW j \in DOMAIN large, large[i] # Null,
                 large[i] = large[j]
          PROVE  i = j
      <4>1. CASE i = e \/ j = e
        BY <2>7, <2>8, <3>3, <4>1
      <4>2. CASE i # e /\ j # e
        BY <2>1, <2>7, <3>3, <4>2 DEF ListedOK
      <4> QED BY <4>1, <4>2
    <3> QED BY <2>6, <3>2, <3>3 DEF ListedOK
  <2>11. q \in PoolType
    BY <2>1, <2>6, <2>7, PoolParts DEF PoolType
  <2>12. BlocksOK(q) /\ HeldOK(q, R) /\ PassedOK(q)
    BY <2>1, <2>6 DEF BlocksOK, HeldOK, Within, PassedOK
  <2>13. PoolOK(q, R, L \cup {a})
    BY <2>10, <2>11, <2>12 DEF PoolOK
  <2>14. R \cup ({a} \ Large) = R /\ L \cup ({a} \cap Large) = L \cup {a}
    BY RegionsAreNotLarge
  <2>15. a \notin R /\ a \notin Region
    BY <2>1, RegionsAreNotLarge DEF HeldOK
  <2>16. /\ g.pool = q /\ g.held = {a} /\ g.got = a
         /\ g = [pool |-> g.pool, held |-> g.held, got |-> g.got]
    BY <2>5
  <2> QED BY <2>13, <2>14, <2>15, <2>16 DEF Gives
<1> QED BY <1>1, <1>2

LEMMA PallocOK ==
    ASSUME NEW p, NEW R, NEW L, PoolOK(p, R, L),
           NEW size \in Nat \ {0}, NEW aligned \in BOOLEAN, NEW g \in Palloc(p, size, aligned)
    PROVE  Gives(R, L, g, size)
<1>1. CASE size <= MaxSize
  BY <1>1, SmallOK DEF Palloc
<1>2. CASE ~ size <= MaxSize
  <2>1. g = NoMemory(p) \/ \E a \in Unused(p) : g \in PallocLarge(p, a)
    BY <1>2 DEF Palloc
  <2>2. Unused(p) \subseteq Large \ ToSet(p.large)
    BY DEF Unused
  <2> QED BY <2>1, <2>2, NoMemoryOK, PallocLargeOK
<1> QED BY <1>1, <1>2

LEMMA PmemAlignOK ==
    ASSUME NEW p, NEW R, NEW L, PoolOK(p, R, L), NEW size, NEW g \in PmemAlign(p)
    PROVE  Gives(R, L, g, size)
<1>1. Unused(p) \subseteq Large \ ToSet(p.large)
  BY DEF Unused
<1> QED BY <1>1, NoMemoryOK, AddLargeOK DEF PmemAlign

(* Two allocations, one after the other: what the first holds stays held.    *)
LEMMA BothOK ==
    ASSUME NEW R, NEW L, NEW h, NEW e, NEW k, NEW size, R \subseteq Region, Gives(R, L, h, k),
           Gives(R \cup (h.held \ Large), L \cup (h.held \cap Large), e, size),
           NEW g, g = [e EXCEPT !.held = e.held \cup h.held]
    PROVE  /\ Gives(R, L, g, size) /\ g.got = e.got
           /\ e.got # Null => e.got \notin h.held \ Large
<1> DEFINE Q == R \cup (h.held \ Large)
           K == L \cup (h.held \cap Large)
<1>1. /\ e.held \subseteq Region \cup Large
      /\ PoolOK(e.pool, Q \cup (e.held \ Large), K \cup (e.held \cap Large))
      /\ e.got # Null => /\ e.got \in e.held \ Q
                         /\ e.got \in Region => e.got.to - e.got.from = size
  BY DEF Gives
<1>2. /\ g.pool = e.pool /\ g.held = e.held \cup h.held /\ g.got = e.got
      /\ g = [pool |-> g.pool, held |-> g.held, got |-> g.got]
  <2>1. e = [pool |-> e.pool, held |-> e.held, got |-> e.got]
    BY DEF Gives
  <2> QED BY <2>1
<1>3. Q \cup (e.held \ Large) = R \cup (g.held \ Large)
      /\ K \cup (e.held \cap Large) = L \cup (g.held \cap Large)
  BY <1>2
<1>4. g.held \subseteq Region \cup Large
  BY <1>1, <1>2 DEF Gives
<1>5. g.got # Null => g.got \in g.held \ R
  BY <1>1, <1>2
<1>6. PoolOK(g.pool, R \cup (g.held \ Large), L \cup (g.held \cap Large))
  BY <1>1, <1>3, <1>2
<1> QED BY <1>1, <1>4, <1>5, <1>6, <1>2 DEF Gives

-----------------------------------------------------------------------------
\* What is held shrinks.
LEMMA HeldLess ==
    ASSUME NEW p, NEW R, NEW Q \in SUBSET R, NEW L, PoolOK(p, R, L)
    PROVE  PoolOK(p, Q, L)
BY DEF PoolOK, HeldOK

(* What is given back is nobody's, and nothing else is: the regions of the   *)
(* block that stay held lie before it, since none of them is empty.          *)
LEMMA GiveBackOK ==
    ASSUME NEW p, NEW R, NEW L, PoolOK(p, R, L), NEW r \in R \cup Large \cup {Null}
    PROVE  PoolOK(GiveBack(p, r), R \ {r}, L)
<1>1. p \in PoolType /\ BlocksOK(p) /\ HeldOK(p, R) /\ ListedOK(p, L) /\ PassedOK(p)
  BY DEF PoolOK
<1>2. CASE ~ IsLast(p, r)
  BY <1>2, HeldLess DEF GiveBack
<1>3. CASE IsLast(p, r)
  <2>1. r \in R /\ r \in Region /\ r.block = 1 /\ r.to = p.blocks[1].last
    BY <1>3, RegionsAreNotLarge DEF IsLast
  <2>2. r.from \in Offsets /\ r.from \in Nat /\ r.to \in Nat /\ FrontOf(1) <= r.from /\ r.from < r.to
        /\ 1 \in DOMAIN p.blocks
    <3>1. Within(p, r)
      BY <1>1, <2>1 DEF HeldOK
    <3> QED BY <2>1, <3>1, Constants DEF Within, Region, Offsets
  <2> DEFINE q == [p EXCEPT !.blocks[1].last = r.from]
  <2>3. /\ q \in PoolType
        /\ q.current = p.current /\ q.large = p.large
        /\ Len(q.blocks) = Len(p.blocks) /\ DOMAIN q.blocks = DOMAIN p.blocks
        /\ q.blocks[1].last = r.from
        /\ \A j \in DOMAIN p.blocks : j # 1 => q.blocks[j] = p.blocks[j]
        /\ \A j \in DOMAIN p.blocks : q.blocks[j].failed = p.blocks[j].failed
    BY <1>1, <2>2, SetLast
  <2>4. GiveBack(p, r) = q
    BY <1>3 DEF GiveBack
  <2> HIDE DEF q
  <2>5. BlocksOK(q)
    BY <1>1, <2>2, <2>3 DEF BlocksOK
  <2>6. ASSUME NEW t \in R \ {r} PROVE Within(q, t)
    <3>1. Within(p, t) /\ Apart(r, t) /\ t \in Region
      BY <1>1, <2>1 DEF HeldOK
    <3>2. t.from \in Nat /\ t.to \in Nat
      BY <3>1, Constants DEF Region, Offsets
    <3>3. CASE t.block = 1
      <4>1. t.to <= r.from
        BY <2>1, <2>2, <3>1, <3>2, <3>3 DEF Within, Apart
      <4> QED BY <2>3, <3>1, <3>3, <4>1 DEF Within
    <3>4. CASE t.block # 1
      BY <2>3, <3>1, <3>4 DEF Within
    <3> QED BY <3>3, <3>4
  <2>7. HeldOK(q, R \ {r})
    BY <1>1, <2>6 DEF HeldOK
  <2>8. ListedOK(q, L)
    BY <1>1, <2>3 DEF ListedOK
  <2>9. PassedOK(q)
    <3>1. p.current \in 1 .. Len(p.blocks) /\ Len(p.blocks) \in Nat
          /\ DOMAIN p.blocks = 1 .. Len(p.blocks)
      BY <1>1, PoolParts DEF PassedOK
    <3>2. \A j \in 1 .. p.current - 1 : j \in DOMAIN p.blocks
      BY <3>1
    <3>3. \A j \in p.current .. Len(p.blocks) : j \in DOMAIN p.blocks
      BY <3>1
    <3> QED BY <1>1, <2>3, <3>2, <3>3 DEF PassedOK
  <2> QED BY <2>3, <2>4, <2>5, <2>7, <2>8, <2>9 DEF PoolOK
<1> QED BY <1>2, <1>3

\* The last region of the first block grows.
Grows(p, r, k, fuller, bigger) ==
    /\ IsLast(p, r) /\ r.to + k <= PoolSize
    /\ fuller = [p EXCEPT !.blocks[1].last = @ + k]
    /\ bigger = [r EXCEPT !.to = @ + k]

GrownOK(R, L, r, k, fuller, bigger) ==
    /\ PoolOK(fuller, (R \ {r}) \cup {bigger}, L)
    /\ bigger \in Region /\ bigger.to - bigger.from = (r.to - r.from) + k
    /\ bigger \notin R \ {r}

\* It is as if it were given back and taken again with its new size.
LEMMA GrowOK ==
    ASSUME NEW p, NEW R, NEW L, PoolOK(p, R, L), NEW r \in R, NEW k \in Nat,
           NEW fuller, NEW bigger, Grows(p, r, k, fuller, bigger)
    PROVE  GrownOK(R, L, r, k, fuller, bigger)
<1> DEFINE grown == [r EXCEPT !.to = @ + k]
           size == r.to - r.from + k
           q == GiveBack(p, r)
           g == Got([q EXCEPT !.blocks[1].last = r.from + size], 1, r.from, size)
<1>1. p \in PoolType /\ HeldOK(p, R)
  BY DEF PoolOK
<1>2. r \in Region /\ r.block = 1 /\ r.to = p.blocks[1].last
      /\ IsLast(p, r) /\ r.to + k <= PoolSize
  BY DEF Grows, IsLast
<1>3. r.from \in Nat /\ r.to \in Nat /\ r.from < r.to /\ 1 \in DOMAIN p.blocks
      /\ r.from \in Offsets
  <2>1. Within(p, r)
    BY <1>1 DEF HeldOK
  <2> QED BY <1>2, <2>1, Constants DEF Within, Region, Offsets
<1>4. r = [block |-> 1, from |-> r.from, to |-> r.to]
  BY <1>2 DEF Region
<1>5. size \in Nat \ {0} /\ r.from + size = r.to + k
  BY <1>3
<1>6. grown = [block |-> 1, from |-> r.from, to |-> r.from + size]
  BY <1>4, <1>5
<1>7. PoolOK(q, R \ {r}, L)
  BY GiveBackOK
<1>8. q = [p EXCEPT !.blocks[1].last = r.from]
  BY <1>2 DEF GiveBack
<1> HIDE DEF q
<1>9. DOMAIN q.blocks = DOMAIN p.blocks /\ q.blocks[1].last = r.from
  BY <1>1, <1>3, <1>8, SetLast
<1>10. Gives(R \ {r}, L, g, size) /\ g.held \subseteq Region
  <2> HIDE DEF size
  <2> QED BY <1>2, <1>3, <1>5, <1>7, <1>9, PlaceOK
<1>11. g = [pool |-> [q EXCEPT !.blocks[1].last = r.from + size], held |-> {grown}, got |-> grown]
  BY <1>6 DEF Got
<1>12. [q EXCEPT !.blocks[1].last = r.from + size] = [p EXCEPT !.blocks[1].last = @ + k]
  <2>1. p = [blocks |-> p.blocks, current |-> p.current, large |-> p.large]
        /\ p.blocks[1] = [last |-> p.blocks[1].last, failed |-> p.blocks[1].failed]
        /\ p.blocks[1].last \in Nat
    BY <1>1, <1>3, PoolParts
  <2> DEFINE first == [last |-> r.from + size, failed |-> p.blocks[1].failed]
  <2>2. [p.blocks[1] EXCEPT !.last = r.from].last = r.from
        /\ [p.blocks[1] EXCEPT !.last = r.from] = [last |-> r.from, failed |-> p.blocks[1].failed]
    BY <2>1
  <2>3. q.blocks = [p.blocks EXCEPT ![1] = [last |-> r.from, failed |-> p.blocks[1].failed]]
        /\ q = [blocks |-> q.blocks, current |-> p.current, large |-> p.large]
    BY <1>8, <2>1, <2>2
  <2>4. q.blocks[1] = [last |-> r.from, failed |-> p.blocks[1].failed]
    BY <1>3, <2>3
  <2>5. [q.blocks EXCEPT ![1] = first] = [p.blocks EXCEPT ![1] = first]
    BY <2>3
  <2>6. [q EXCEPT !.blocks[1].last = r.from + size]
            = [blocks |-> [q.blocks EXCEPT ![1] = first], current |-> p.current, large |-> p.large]
    <3>1. [q.blocks[1] EXCEPT !.last = r.from + size] = first
      BY <2>4
    <3> HIDE DEF first
    <3>2. [q EXCEPT !.blocks[1].last = r.from + size] = [q EXCEPT !.blocks = [q.blocks EXCEPT ![1] = first]]
      BY <3>1
    <3> DEFINE bs == [q.blocks EXCEPT ![1] = first]
    <3>3. [q EXCEPT !.blocks = bs] = [blocks |-> bs, current |-> p.current, large |-> p.large]
      <4> HIDE DEF bs
      <4> QED BY <2>3
    <3> QED BY <3>2, <3>3
  <2>7. [p EXCEPT !.blocks[1].last = @ + k]
            = [blocks |-> [p.blocks EXCEPT ![1] = first], current |-> p.current, large |-> p.large]
    <3>1. [p.blocks[1] EXCEPT !.last = @ + k] = first
      BY <1>2, <1>5, <2>1
    <3> HIDE DEF first
    <3>2. [p EXCEPT !.blocks[1].last = @ + k] = [p EXCEPT !.blocks = [p.blocks EXCEPT ![1] = first]]
      BY <3>1
    <3> DEFINE bs == [p.blocks EXCEPT ![1] = first]
    <3>3. [p EXCEPT !.blocks = bs] = [blocks |-> bs, current |-> p.current, large |-> p.large]
      <4> HIDE DEF bs
      <4> QED BY <2>1
    <3> QED BY <3>2, <3>3
  <2> QED BY <2>5, <2>6, <2>7
<1>13. g.pool = [p EXCEPT !.blocks[1].last = @ + k] /\ g.held = {grown} /\ g.got = grown
  BY <1>11, <1>12
<1>14. grown \in Region
  <2> HIDE DEF g, grown
  <2> QED BY <1>10, <1>13
<1>15. ({grown} \ Large) = {grown} /\ ({grown} \cap Large) = {} /\ grown # Null
  <2> HIDE DEF grown
  <2> QED BY <1>14, RegionsAreNotLarge
<1>16. grown.to - grown.from = (r.to - r.from) + k
  BY <1>3, <1>5, <1>6
<1> HIDE DEF g, grown
<1>17. PoolOK([p EXCEPT !.blocks[1].last = @ + k], (R \ {r}) \cup {grown}, L)
  BY <1>10, <1>13, <1>15, ZenonT(40) DEF Gives
<1>18. grown \notin R \ {r}
  BY <1>10, <1>13, <1>15 DEF Gives
<1>19. bigger = grown /\ fuller = [p EXCEPT !.blocks[1].last = @ + k]
  BY DEF Grows, grown
<1> QED BY <1>14, <1>16, <1>17, <1>18, <1>19 DEF GrownOK

\* A freed entry of the list is empty.
LEMMA PfreeOK ==
    ASSUME NEW p, NEW R, NEW L, PoolOK(p, R, L), NEW a \in L
    PROVE  PoolOK(Pfree(p, a), R, L \ {a})
<1> DEFINE large == [i \in DOMAIN p.large |-> IF p.large[i] = a THEN Null ELSE p.large[i]]
           q == Pfree(p, a)
<1>1. p \in PoolType /\ BlocksOK(p) /\ HeldOK(p, R) /\ ListedOK(p, L) /\ PassedOK(p)
  BY DEF PoolOK
<1>2. p.large \in Seq(Large \cup {Null}) /\ DOMAIN p.large = 1 .. Len(p.large)
      /\ Len(p.large) \in Nat
  BY <1>1, PoolParts, LenProperties
<1>3. q = [blocks |-> p.blocks, current |-> p.current, large |-> large]
  <2>1. p = [blocks |-> p.blocks, current |-> p.current, large |-> p.large]
    BY <1>1, PoolParts
  <2>2. q = [p EXCEPT !.large = large]
    BY DEF Pfree
  <2> HIDE DEF q, large
  <2> QED BY <2>1, <2>2
<1>4. large \in Seq(Large \cup {Null}) /\ DOMAIN large = DOMAIN p.large
  <2>1. \A i \in 1 .. Len(p.large) : p.large[i] \in Large \cup {Null}
    BY <1>2, ElementOfSeq
  <2>2. large \in [1 .. Len(p.large) -> Large \cup {Null}]
    BY <1>2, <2>1
  <2> HIDE DEF large
  <2> QED BY <1>2, <2>2, SeqDef
<1>5. ListedOK(q, L \ {a})
  <2>1. \A i \in DOMAIN large : large[i] # Null => large[i] = p.large[i] /\ p.large[i] # a
    OBVIOUS
  <2>2. \A i \in DOMAIN large : p.large[i] # a => large[i] = p.large[i]
    OBVIOUS
  <2> HIDE DEF large, q
  <2>3. ToSet(large) \ {Null} = (ToSet(p.large) \ {Null}) \ {a}
    BY <1>4, <2>1, <2>2 DEF ToSet
  <2>4. \A i, j \in DOMAIN large : large[i] # Null /\ large[i] = large[j] => i = j
    BY <1>1, <1>4, <2>1 DEF ListedOK
  <2> QED BY <1>1, <1>3, <2>3, <2>4 DEF ListedOK
<1> HIDE DEF q, large
<1>6. q \in PoolType
  BY <1>1, <1>3, <1>4, PoolParts DEF PoolType
<1>7. BlocksOK(q) /\ HeldOK(q, R) /\ PassedOK(q)
  BY <1>1, <1>3 DEF BlocksOK, HeldOK, Within, PassedOK
<1>8. PoolOK(q, R, L \ {a})
  BY <1>5, <1>6, <1>7 DEF PoolOK
<1> QED BY <1>8 DEF q

LEMMA NewPoolOK == PoolOK(NewPool, {}, {}) /\ NewPool # Null
<1> DEFINE b == [last |-> PoolHeader, failed |-> 0]
<1>1. b \in [last : Offsets, failed : Nat] /\ b.last = PoolHeader /\ b.failed = 0
  BY Constants DEF Offsets
<1>2. NewPool = [blocks |-> <<b>>, current |-> 1, large |-> <<>>]
  BY DEF NewPool
<1> HIDE DEF b
<1>3. /\ NewPool.blocks = <<b>> /\ NewPool.current = 1 /\ NewPool.large = <<>>
      /\ Len(<<b>>) = 1 /\ DOMAIN <<b>> = 1 .. 1 /\ <<b>>[1] = b
  BY <1>2
<1>4. NewPool \in PoolType
  <2>1. <<b>> \in Seq([last : Offsets, failed : Nat]) /\ <<>> \in Seq(Large \cup {Null})
    BY <1>1
  <2>2. 1 \in 1 .. MaxBlocks
    BY Constants
  <2> QED BY <1>2, <2>1, <2>2 DEF PoolType
<1>5. BlocksOK(NewPool)
  BY <1>1, <1>3, Constants DEF BlocksOK, FrontOf
<1>6. HeldOK(NewPool, {})
  BY DEF HeldOK
<1>7. ListedOK(NewPool, {})
  <2>1. DOMAIN NewPool.large = {}
    BY <1>3
  <2> QED BY <2>1 DEF ListedOK, ToSet
<1>8. PassedOK(NewPool)
  <2>1. 0 <= MaxFailed + 1
    BY Constants
  <2> QED BY <1>1, <1>3, <2>1 DEF PassedOK
<1> QED BY <1>4, <1>5, <1>6, <1>7, <1>8, AddressAssumption DEF PoolOK

-----------------------------------------------------------------------------
(* Steps. What is yielded is memory for "size" in what callers hold then.    *)
Yields(r, size) ==
    IF r.got \in Large THEN r.got \in live'
    ELSE r.got \in regions' /\ r.got \in Region /\ r.got.to - r.got.from = size

LEMMA TakeOK ==
    ASSUME PoolOK(pool, regions, live), NEW r, NEW size, Gives(regions, live, r, size), Take(r)
    PROVE  /\ PoolOK(pool', regions', live') /\ pool' # Null
           /\ regions \subseteq regions' /\ live \subseteq live'
           /\ r.held \ Large \subseteq regions'
           /\ r.got # Null => Yields(r, size) /\ r.got \in Region \cup Large
<1>1. PoolOK(pool', regions', live')
  BY DEF Take, Gives
<1>2. pool' # Null
  BY <1>1, AddressAssumption DEF PoolOK
<1>3. /\ regions \subseteq regions' /\ live \subseteq live'
      /\ r.held \ Large \subseteq regions'
  BY DEF Take
<1>4. r.got # Null => Yields(r, size) /\ r.got \in Region \cup Large
  <2>1. SUFFICES ASSUME r.got # Null PROVE Yields(r, size) /\ r.got \in Region \cup Large
    OBVIOUS
  <2>2. r.got \in r.held /\ r.got \in Region \cup Large
        /\ (r.got \in Region => r.got.to - r.got.from = size)
    BY <2>1 DEF Gives
  <2>3. CASE r.got \in Large
    BY <2>2, <2>3 DEF Yields, Take
  <2>4. CASE r.got \notin Large
    BY <2>2, <2>4 DEF Yields, Take
  <2> QED BY <2>2, <2>3, <2>4
<1> QED BY <1>1, <1>2, <1>3, <1>4

\* An array or a list stays in order when more is held.
LEMMA UsersKept ==
    ASSUME regions \subseteq regions', live \subseteq live'
    PROVE  /\ ArrayOK /\ array' = array /\ (array # Null => list' = list) => ArrayOK'
           /\ ListOK /\ list' = list => ListOK'
<1>1. \A a, n, size : HasRoom(a, n, size) => HasRoom(a, n, size)'
  BY DEF HasRoom
<1>2. ASSUME ArrayOK, array' = array, array # Null => list' = list PROVE ArrayOK'
  BY <1>1, <1>2 DEF ArrayOK
<1>3. ASSUME ListOK, list' = list PROVE ListOK'
  BY <1>1, <1>3 DEF ListOK
<1> QED BY <1>2, <1>3

LEMMA InitOK == PallocInit => PallocIInv
BY DEF PallocInit, PallocIInv, ArrayOK, ListOK

LEMMA CreateOK == PallocIInv /\ Create => PallocIInv'
<1> SUFFICES ASSUME PallocIInv, Create PROVE PallocIInv'
  OBVIOUS
<1>1. pool' = NewPool /\ regions' = regions /\ live' = live /\ regions = {} /\ live = {}
  BY DEF Create, PallocIInv
<1>2. PoolOK(pool', regions', live') /\ pool' # Null
  BY <1>1, NewPoolOK
<1>3. ArrayOK' /\ ListOK'
  BY <1>1, UsersKept DEF Create, PallocIInv
<1> QED BY <1>2, <1>3 DEF PallocIInv

LEMMA AllocateOK == PallocIInv /\ Allocate => PallocIInv'
<1> SUFFICES ASSUME PallocIInv, Allocate PROVE PallocIInv'
  OBVIOUS
<1>1. PoolOK(pool, regions, live)
  BY DEF Allocate, PallocIInv
<1> DEFINE S == UNION {Palloc(pool, size, aligned) : size \in Sizes, aligned \in BOOLEAN}
<1>2. PICK r \in PmemAlign(pool) \cup S : Take(r)
  BY DEF Allocate
<1>3. \E size : Gives(regions, live, r, size)
  <2>1. CASE r \in PmemAlign(pool)
    <3>1. Gives(regions, live, r, 0)
      BY <1>1, <2>1, PmemAlignOK
    <3> QED BY <3>1
  <2>2. CASE r \in S
    <3>1. PICK size \in Sizes, aligned \in BOOLEAN : r \in Palloc(pool, size, aligned)
      BY <2>2
    <3>2. size \in Nat \ {0}
      BY PallocAssumption
    <3> QED BY <1>1, <3>1, <3>2, PallocOK
  <2>3. r \in S \/ r \in PmemAlign(pool)
    BY <1>2
  <2> HIDE DEF S
  <2> QED BY <2>1, <2>2, <2>3
<1>4. PoolOK(pool', regions', live') /\ pool' # Null
      /\ regions \subseteq regions' /\ live \subseteq live'
  BY <1>1, <1>2, <1>3, TakeOK
<1>5. ArrayOK' /\ ListOK'
  BY <1>4, UsersKept DEF Allocate, PallocIInv
<1> QED BY <1>4, <1>5 DEF PallocIInv

LEMMA FreeOK == PallocIInv /\ Free => PallocIInv'
<1> SUFFICES ASSUME PallocIInv, Free PROVE PallocIInv'
  OBVIOUS
<1>1. PICK a \in live \ Elements : pool' = Pfree(pool, a) /\ live' = live \ {a}
  BY DEF Free
<1>2. regions' = regions /\ array' = array /\ list' = list
  BY DEF Free
<1>3. PoolOK(pool', regions', live')
  <2>1. PoolOK(pool, regions, live)
    BY DEF Free, PallocIInv
  <2> QED BY <1>1, <1>2, <2>1, PfreeOK
<1>4. pool' # Null
  BY <1>3, AddressAssumption DEF PoolOK
<1>5. \A b, n, size : b # a /\ HasRoom(b, n, size) => HasRoom(b, n, size)'
  BY <1>1, <1>2 DEF HasRoom
<1>6. ArrayOK'
  <2>1. array # Null => array.elts # a
    BY DEF Elements
  <2> QED BY <1>2, <1>5, <2>1 DEF PallocIInv, ArrayOK
<1>7. ListOK'
  <2>1. list # Null => \A i \in DOMAIN list.parts : list.parts[i].elts # a
    BY DEF Elements, ToSet
  <2> QED BY <1>2, <1>5, <2>1 DEF PallocIInv, ListOK
<1> QED BY <1>3, <1>4, <1>6, <1>7 DEF PallocIInv

LEMMA DestroyOK == PallocIInv /\ Destroy => PallocIInv'
<1> SUFFICES ASSUME PallocIInv, Destroy PROVE PallocIInv'
  OBVIOUS
<1>1. live \subseteq ToSet(pool.large)
  BY DEF Destroy, PallocIInv, PoolOK, ListedOK
<1>2. pool' = Null /\ regions' = {} /\ live' = {} /\ array' = Null /\ list' = Null
  BY <1>1 DEF Destroy
<1> QED BY <1>2 DEF PallocIInv, ArrayOK, ListOK

-----------------------------------------------------------------------------
\* A header and elements. The header is not the elements.
LEMMA WithElementsOK ==
    ASSUME PoolOK(pool, regions, live), NEW header \in Nat \ {0}, NEW size \in Nat \ {0},
           NEW r \in WithElements(header, size)
    PROVE  \E k : Gives(regions, live, r, k) /\ (r.got # Null => k = size)
<1>1. PICK h \in Palloc(pool, header, TRUE) :
         r \in (IF h.got = Null THEN {h}
                ELSE {[e EXCEPT !.held = e.held \cup h.held] : e \in Palloc(h.pool, size, TRUE)})
  BY DEF WithElements
<1>2. Gives(regions, live, h, header)
  BY PallocOK
<1>3. CASE h.got = Null
  BY <1>1, <1>2, <1>3
<1>4. CASE h.got # Null
  <2>1. PICK e \in Palloc(h.pool, size, TRUE) : r = [e EXCEPT !.held = e.held \cup h.held]
    BY <1>1, <1>4
  <2> DEFINE Q == regions \cup (h.held \ Large)
             K == live \cup (h.held \cap Large)
  <2>2. PoolOK(h.pool, Q, K)
    BY <1>2 DEF Gives
  <2>3. Gives(Q, K, e, size)
    <3> HIDE DEF Q, K
    <3> QED BY <2>2, PallocOK
  <2>4. regions \subseteq Region
    BY DEF PoolOK, HeldOK
  <2>5. Gives(regions, live, r, size)
    BY <1>2, <2>1, <2>3, <2>4, BothOK
  <2> QED BY <2>5
<1> QED BY <1>3, <1>4

LEMMA HeadersPositive ==
    /\ BufHeader \in Nat \ {0} /\ ListHeader \in Nat \ {0} /\ PartHeader \in Nat \ {0}
BY PallocAssumption

LEMMA CreateTempBufOK ==
    ASSUME PallocIInv, NEW size \in Sizes, CreateTempBuf(size) PROVE PallocIInv'
<1>1. PoolOK(pool, regions, live)
  BY DEF CreateTempBuf, PallocIInv
<1>2. PICK r \in WithElements(BufHeader, size) : Take(r)
  BY DEF CreateTempBuf
<1>3. size \in Nat \ {0}
  BY PallocAssumption
<1>4. PICK k : Gives(regions, live, r, k)
  BY <1>1, <1>3, HeadersPositive, WithElementsOK
<1>5. PoolOK(pool', regions', live') /\ pool' # Null
      /\ regions \subseteq regions' /\ live \subseteq live'
  BY <1>1, <1>2, <1>4, TakeOK
<1>6. ArrayOK' /\ ListOK'
  BY <1>5, UsersKept DEF CreateTempBuf, PallocIInv
<1> QED BY <1>5, <1>6 DEF PallocIInv

\* Room for n elements, when the memory yielded is for as many.
LEMMA RoomYielded ==
    ASSUME NEW r, NEW n, NEW size, r.got # Null, Yields(r, n * size)
    PROVE  HasRoom(r.got, n, size)'
BY DEF HasRoom, Yields

\* A new array keeps its elements in memory of its own.
LEMMA NewArrayOK ==
    ASSUME NEW n \in Nat \ {0}, NEW size \in Nat \ {0}, NEW r, NEW self,
           r.got # Null => Yields(r, n * size) /\ r.got \in Region \cup Large,
           r.got # Null /\ self # Null => self \in Region /\ self \in regions' /\ self # r.got,
           array' = NewArray(self, r.got, n, size), list' = Null
    PROVE  ArrayOK'
<1>1. CASE r.got = Null
  BY <1>1 DEF NewArray, ArrayOK
<1>2. CASE r.got # Null
  <2>1. array' = [self |-> self, elts |-> r.got, size |-> size, nelts |-> 0, nalloc |-> n]
    BY <1>2 DEF NewArray
  <2>2. array' \in ArrayType
    BY <1>2, <2>1 DEF ArrayType
  <2>3. HasRoom(r.got, n, size)'
    BY <1>2, RoomYielded
  <2>4. HasRoom(array.elts, array.nalloc, array.size)'
    BY <2>1, <2>3
  <2> QED BY <1>2, <2>1, <2>2, <2>4 DEF ArrayOK
<1> QED BY <1>1, <1>2

LEMMA ArrayInitOK ==
    ASSUME PallocIInv, NEW n \in 1 .. 2, NEW size \in 1 .. 2, ArrayInit(n, size) PROVE PallocIInv'
<1>1. PoolOK(pool, regions, live)
  BY DEF ArrayInit, NoUser, PallocIInv
<1>2. PICK e \in Palloc(pool, n * size, TRUE) : Take(e) /\ array' = NewArray(Null, e.got, n, size)
  BY DEF ArrayInit
<1>3. n \in Nat \ {0} /\ size \in Nat \ {0} /\ n * size \in Nat \ {0}
  BY Product
<1>4. Gives(regions, live, e, n * size)
  BY <1>1, <1>3, PallocOK
<1>5. /\ PoolOK(pool', regions', live') /\ pool' # Null
      /\ regions \subseteq regions' /\ live \subseteq live'
      /\ e.got # Null => Yields(e, n * size) /\ e.got \in Region \cup Large
  BY <1>1, <1>2, <1>4, TakeOK
<1>6. ArrayOK'
  BY <1>2, <1>3, <1>5, NewArrayOK DEF ArrayInit, NoUser
<1>7. ListOK'
  BY <1>5, UsersKept DEF ArrayInit, PallocIInv
<1> QED BY <1>5, <1>6, <1>7 DEF PallocIInv

LEMMA ArrayCreateOK ==
    ASSUME PallocIInv, NEW n \in 1 .. 2, NEW size \in 1 .. 2, ArrayCreate(n, size)
    PROVE  PallocIInv'
<1>1. PoolOK(pool, regions, live) /\ array = Null /\ list = Null /\ list' = list
      /\ ArrayOK /\ ListOK
  BY DEF ArrayCreate, NoUser, PallocIInv
<1>2. PICK h \in Palloc(pool, ArrayHeader, TRUE) :
         IF h.got = Null THEN Take(h) /\ array' = array
         ELSE \E e \in Palloc(h.pool, n * size, TRUE) :
                 /\ Take([e EXCEPT !.held = e.held \cup h.held])
                 /\ array' = NewArray(h.got, e.got, n, size)
  BY DEF ArrayCreate
<1>3. n \in Nat \ {0} /\ size \in Nat \ {0} /\ n * size \in Nat \ {0}
  BY Product
<1>4. Gives(regions, live, h, ArrayHeader) /\ h.held \subseteq Region
  <2>1. h \in PallocSmall(pool, ArrayHeader, TRUE)
    BY LargeHeaderFits DEF Palloc
  <2> QED BY <1>1, <2>1, LargeHeaderFits, SmallOK
<1>5. CASE h.got = Null
  <2>1. /\ PoolOK(pool', regions', live') /\ pool' # Null
        /\ regions \subseteq regions' /\ live \subseteq live'
    BY <1>1, <1>2, <1>4, <1>5, TakeOK
  <2>2. array' = array
    BY <1>2, <1>5
  <2> QED BY <1>1, <2>1, <2>2, UsersKept DEF PallocIInv
<1>6. CASE h.got # Null
  <2>1. PICK e \in Palloc(h.pool, n * size, TRUE) :
           /\ Take([e EXCEPT !.held = e.held \cup h.held])
           /\ array' = NewArray(h.got, e.got, n, size)
    BY <1>2, <1>6
  <2> DEFINE Q == regions \cup (h.held \ Large)
             K == live \cup (h.held \cap Large)
             r == [e EXCEPT !.held = e.held \cup h.held]
  <2>2. Gives(Q, K, e, n * size)
    <3>1. PoolOK(h.pool, Q, K)
      BY <1>4 DEF Gives
    <3> HIDE DEF Q, K
    <3> QED BY <1>3, <3>1, PallocOK
  <2>3. /\ Gives(regions, live, r, n * size) /\ r.got = e.got
        /\ e.got # Null => e.got \notin h.held \ Large
    <3>1. regions \subseteq Region
      BY <1>1 DEF PoolOK, HeldOK
    <3> HIDE DEF r
    <3>2. r = [e EXCEPT !.held = e.held \cup h.held]
      BY DEF r
    <3> QED BY <1>4, <2>2, <3>1, <3>2, BothOK
  <2>4. h.held \subseteq r.held
    <3>1. e = [pool |-> e.pool, held |-> e.held, got |-> e.got]
      BY <2>2 DEF Gives
    <3> QED BY <3>1
  <2>5. Take(r)
    BY <2>1
  <2> HIDE DEF r
  <2>6. /\ PoolOK(pool', regions', live') /\ pool' # Null
        /\ regions \subseteq regions' /\ live \subseteq live'
        /\ r.held \ Large \subseteq regions'
        /\ r.got # Null => Yields(r, n * size) /\ r.got \in Region \cup Large
    BY <1>1, <2>3, <2>5, TakeOK
  <2>7. h.got \in Region /\ h.got \in h.held \ Large
    BY <1>4, <1>6, RegionsAreNotLarge DEF Gives
  <2>8. h.got \in regions' /\ (r.got # Null => h.got # r.got)
    BY <2>3, <2>4, <2>6, <2>7
  <2>9. ArrayOK'
    <3>1. array' = NewArray(h.got, r.got, n, size)
      BY <2>1, <2>3
    <3> QED BY <1>1, <1>3, <2>6, <2>7, <2>8, <3>1, NewArrayOK
  <2>10. ListOK'
    BY <1>1, <2>6, UsersKept
  <2> QED BY <2>6, <2>9, <2>10 DEF PallocIInv
<1> QED BY <1>5, <1>6

\* A full array at the end of the first block grows where it is.
LEMMA ArrayGrowsOK ==
    ASSUME PallocIInv, pool # Null, array # Null, NEW n \in Nat \ {0},
           GrowsInPlace(pool, array, n),
           pool' = [pool EXCEPT !.blocks[1].last = @ + n * array.size],
           NEW grown, grown = [array.elts EXCEPT !.to = @ + n * array.size],
           regions' = (regions \ {array.elts}) \cup {grown},
           array' = [array EXCEPT !.elts = grown, !.nelts = @ + n, !.nalloc = @ + n],
           live' = live, list' = list
    PROVE  PallocIInv'
<1>1. PoolOK(pool, regions, live) /\ ArrayOK /\ ListOK
  BY DEF PallocIInv
<1> DEFINE more == n * array.size
<1>2. /\ array \in ArrayType /\ array.size > 0 /\ array.nalloc > 0 /\ array.nelts <= array.nalloc
      /\ HasRoom(array.elts, array.nalloc, array.size)
      /\ array.self # Null => array.self \in regions /\ array.self # array.elts
      /\ list = Null
  BY <1>1 DEF ArrayOK
<1>3. /\ array.size \in Nat \ {0} /\ array.nalloc \in Nat /\ array.nelts \in Nat
      /\ array.self \in Region \cup {Null}
      /\ array = [self |-> array.self, elts |-> array.elts, size |-> array.size,
                  nelts |-> array.nelts, nalloc |-> array.nalloc]
  BY <1>2 DEF ArrayType
<1>4. more \in Nat
  BY <1>3, Product
<1>5. IsLast(pool, array.elts) /\ array.elts.to + more <= PoolSize /\ array.elts \in Region
  BY DEF GrowsInPlace, IsLast
<1>6. array.elts \in regions /\ array.elts.to - array.elts.from = array.nalloc * array.size
  BY <1>2, <1>5, RegionsAreNotLarge DEF HasRoom
<1> HIDE DEF more
<1>7. /\ PoolOK(pool', regions', live')
      /\ grown \in Region /\ grown.to - grown.from = (array.elts.to - array.elts.from) + more
      /\ grown \notin regions \ {array.elts}
  <2>1. grown = [array.elts EXCEPT !.to = @ + more] /\ pool' = [pool EXCEPT !.blocks[1].last = @ + more]
    BY DEF more
  <2>2. /\ PoolOK(pool', (regions \ {array.elts}) \cup {grown}, live)
        /\ grown \in Region /\ grown.to - grown.from = (array.elts.to - array.elts.from) + more
        /\ grown \notin regions \ {array.elts}
    <3> DEFINE old == array.elts
    <3>1. PoolOK(pool, regions, live) /\ old \in regions /\ Grows(pool, old, more, pool', grown)
      BY <1>1, <1>5, <1>6, <2>1 DEF Grows
    <3> HIDE DEF old
    <3>2. /\ PoolOK(pool', (regions \ {old}) \cup {grown}, live)
          /\ grown \in Region /\ grown.to - grown.from = (old.to - old.from) + more
          /\ grown \notin regions \ {old}
      <4>1. GrownOK(regions, live, old, more, pool', grown)
        BY <1>4, <3>1, GrowOK
      <4> QED BY <4>1 DEF GrownOK
    <3> QED BY <3>2 DEF old
  <2> QED BY <2>1, <2>2
<1>8. pool' # Null
  BY <1>7, AddressAssumption DEF PoolOK
<1>9. /\ array'.self = array.self /\ array'.elts = grown /\ array'.size = array.size
      /\ array'.nelts = array.nelts + n /\ array'.nalloc = array.nalloc + n
      /\ array' \in ArrayType
  <2>1. array' = [self |-> array.self, elts |-> grown, size |-> array.size,
                  nelts |-> array.nelts + n, nalloc |-> array.nalloc + n]
    BY <1>3
  <2> QED BY <1>3, <1>7, <2>1 DEF ArrayType
<1>10. grown.to - grown.from = (array.nalloc + n) * array.size
  BY <1>3, <1>6, <1>7, Distributes DEF more
<1>11. grown \notin Large /\ grown \in regions'
  BY <1>7, RegionsAreNotLarge
<1>12. HasRoom(array.elts, array.nalloc, array.size)'
  BY <1>9, <1>10, <1>11 DEF HasRoom
<1>13. ArrayOK'
  <2>1. array'.self # Null => array'.self \in regions'
    BY <1>2, <1>9
  <2>2. array'.self # Null => array'.self # array'.elts
    <3>1. grown \notin regions \ {array.elts}
      BY <1>7
    <3> QED BY <1>2, <1>9, <3>1
  <2> QED BY <1>2, <1>3, <1>9, <1>12, <2>1, <2>2 DEF ArrayOK
<1>14. ListOK'
  BY <1>2 DEF ListOK
<1> QED BY <1>7, <1>8, <1>13, <1>14 DEF PallocIInv

(* An array with more elements than it had, in place, grown or moved to at   *)
(* least twice the room; as it was when there is no memory.                  *)
LEMMA ArrayPushOK ==
    ASSUME PallocIInv, NEW n \in Nat \ {0}, ArrayPushN(n) PROVE PallocIInv'
<1>1. PoolOK(pool, regions, live) /\ ArrayOK /\ ListOK /\ pool # Null /\ array # Null
      /\ list' = list
  BY DEF ArrayPushN, PallocIInv
<1>2. /\ array \in ArrayType /\ array.size > 0 /\ array.nalloc > 0 /\ array.nelts <= array.nalloc
      /\ HasRoom(array.elts, array.nalloc, array.size)
      /\ array.self # Null => array.self \in regions /\ array.self # array.elts
      /\ list = Null
  BY <1>1 DEF ArrayOK
<1>3. /\ array.size \in Nat \ {0} /\ array.nalloc \in Nat /\ array.nelts \in Nat
      /\ array.self \in Region \cup {Null} /\ array.elts \in Region \cup Large
      /\ array = [self |-> array.self, elts |-> array.elts, size |-> array.size,
                  nelts |-> array.nelts, nalloc |-> array.nalloc]
  BY <1>2 DEF ArrayType
<1>4. CASE ~ IsFull(array, n)
  <2>1. pool' = pool /\ regions' = regions /\ live' = live
        /\ array' = [array EXCEPT !.nelts = @ + n]
    BY <1>4 DEF ArrayPushN
  <2>2. array.nelts + n <= array.nalloc
    BY <1>3, <1>4 DEF IsFull
  <2>3. array' = [self |-> array.self, elts |-> array.elts, size |-> array.size,
                  nelts |-> array.nelts + n, nalloc |-> array.nalloc]
    BY <1>3, <2>1
  <2>4. array' \in ArrayType
    BY <1>3, <2>3 DEF ArrayType
  <2>5. HasRoom(array.elts, array.nalloc, array.size)'
    BY <1>2, <2>1, <2>3 DEF HasRoom
  <2>6. ArrayOK'
    BY <1>1, <1>2, <2>1, <2>2, <2>3, <2>4, <2>5 DEF ArrayOK
  <2>7. ListOK'
    BY <1>1, <1>2 DEF ListOK
  <2> QED BY <1>1, <2>1, <2>6, <2>7 DEF PallocIInv
<1>5. CASE IsFull(array, n) /\ GrowsInPlace(pool, array, n)
  <2> DEFINE grown == [array.elts EXCEPT !.to = @ + n * array.size]
  <2>1. /\ pool' = [pool EXCEPT !.blocks[1].last = @ + n * array.size]
        /\ regions' = (regions \ {array.elts}) \cup {grown}
        /\ array' = [array EXCEPT !.elts = grown, !.nelts = @ + n, !.nalloc = @ + n]
        /\ live' = live
    BY <1>5 DEF ArrayPushN
  <2>2. PICK g : g = grown
    OBVIOUS
  <2> HIDE DEF grown
  <2>3. g = [array.elts EXCEPT !.to = @ + n * array.size]
    BY <2>2 DEF grown
  <2> QED BY <1>1, <1>5, <2>1, <2>2, <2>3, ArrayGrowsOK
<1>6. CASE IsFull(array, n) /\ ~ GrowsInPlace(pool, array, n)
  <2> DEFINE nalloc == 2 * Max({n, array.nalloc})
  <2>1. PICK r \in Palloc(pool, nalloc * array.size, TRUE) :
           /\ Take(r)
           /\ array' = IF r.got = Null THEN array
                       ELSE [array EXCEPT !.elts = r.got, !.nelts = @ + n, !.nalloc = nalloc]
    BY <1>6 DEF ArrayPushN
  <2>2. nalloc \in Nat \ {0} /\ array.nelts + n <= nalloc
    <3>1. {n, array.nalloc} \in SUBSET Int /\ IsFiniteSet({n, array.nalloc})
      <4>1. IsFiniteSet({n} \cup {array.nalloc})
        BY FS_Singleton, FS_Union
      <4>2. {n} \cup {array.nalloc} = {n, array.nalloc}
        OBVIOUS
      <4> QED BY <1>3, <4>1, <4>2
    <3>2. Max({n, array.nalloc}) \in {n, array.nalloc}
          /\ \A y \in {n, array.nalloc} : Max({n, array.nalloc}) >= y
      BY <3>1, FiniteMax
    <3>3. \A m : (m \in {n, array.nalloc} /\ \A y \in {n, array.nalloc} : m >= y)
                 => 2 * m \in Nat \ {0} /\ array.nelts + n <= 2 * m
      BY <1>2, <1>3
    <3> QED BY <3>2, <3>3
  <2> HIDE DEF nalloc
  <2>3. nalloc * array.size \in Nat \ {0}
    BY <1>3, <2>2, Product
  <2>4. Gives(regions, live, r, nalloc * array.size)
    BY <1>1, <2>3, PallocOK
  <2>5. /\ PoolOK(pool', regions', live') /\ pool' # Null
        /\ regions \subseteq regions' /\ live \subseteq live'
        /\ r.got # Null => Yields(r, nalloc * array.size) /\ r.got \in Region \cup Large
    BY <1>1, <2>1, <2>4, TakeOK
  <2>6. ListOK'
    BY <1>1, <1>2 DEF ListOK
  <2>7. ArrayOK'
    <3>1. CASE r.got = Null
      BY <1>1, <2>1, <2>5, <3>1, UsersKept
    <3>2. CASE r.got # Null
      <4>1. array' = [self |-> array.self, elts |-> r.got, size |-> array.size,
                      nelts |-> array.nelts + n, nalloc |-> nalloc]
        BY <1>3, <2>1, <3>2
      <4>2. array' \in ArrayType
        BY <1>3, <2>2, <2>5, <3>2, <4>1 DEF ArrayType
      <4>3. HasRoom(array.elts, array.nalloc, array.size)'
        BY <2>5, <3>2, <4>1 DEF HasRoom, Yields
      <4>4. array.self # Null => array.self \in regions' /\ array.self # r.got
        <5> SUFFICES ASSUME array.self # Null PROVE array.self # r.got
          BY <1>2, <2>5
        <5>1. array.self \in regions
          BY <1>2
        <5>2. r.got \notin regions
          BY <2>4, <3>2 DEF Gives
        <5> QED BY <5>1, <5>2
      <4> QED BY <1>1, <1>2, <2>2, <4>1, <4>2, <4>3, <4>4 DEF ArrayOK
    <3> QED BY <3>1, <3>2
  <2> QED BY <2>5, <2>6, <2>7 DEF PallocIInv
<1> QED BY <1>4, <1>5, <1>6

LEMMA ArrayDestroyOK == PallocIInv /\ ArrayDestroy => PallocIInv'
<1> SUFFICES ASSUME PallocIInv, ArrayDestroy PROVE PallocIInv'
  OBVIOUS
<1>1. PoolOK(pool, regions, live) /\ ArrayOK /\ ListOK /\ array # Null
  BY DEF ArrayDestroy, PallocIInv
<1>2. /\ array.elts \in regions \cup Large /\ array.self \in regions \cup {Null}
      /\ array.self # Null => array.self # array.elts
      /\ list = Null
  <2>1. array.elts \in Region \cup Large /\ array.self \in Region \cup {Null}
    BY <1>1 DEF ArrayOK, ArrayType
  <2> QED BY <1>1, <2>1 DEF ArrayOK, HasRoom
<1> DEFINE p == GiveBack(pool, array.elts)
           R == regions \ {array.elts}
<1>3. PoolOK(p, R, live)
  BY <1>1, <1>2, GiveBackOK
<1> HIDE DEF p
<1>4. array.self \in R \cup Large \cup {Null}
  BY <1>2
<1> HIDE DEF R
<1>5. PoolOK(GiveBack(p, array.self), R \ {array.self}, live)
  BY <1>3, <1>4, GiveBackOK
<1>6. pool' = GiveBack(p, array.self) /\ regions' = R \ {array.self} /\ live' = live
      /\ array' = Null /\ list' = list
  BY DEF ArrayDestroy, p, R
<1>7. pool' # Null
  BY <1>5, <1>6, AddressAssumption DEF PoolOK
<1>8. ArrayOK' /\ ListOK'
  BY <1>2, <1>6 DEF ArrayOK, ListOK
<1> QED BY <1>5, <1>6, <1>7, <1>8 DEF PallocIInv

-----------------------------------------------------------------------------
LEMMA NewListOK ==
    ASSUME NEW n \in Nat \ {0}, NEW size \in Nat \ {0}, NEW r,
           r.got # Null => Yields(r, n * size) /\ r.got \in Region \cup Large,
           list' = NewList(r.got, n, size)
    PROVE  ListOK'
<1>1. CASE r.got = Null
  BY <1>1 DEF NewList, ListOK
<1>2. CASE r.got # Null
  <2> DEFINE part == [elts |-> r.got, nelts |-> 0]
  <2>1. list' = [parts |-> <<part>>, size |-> size, nalloc |-> n]
    BY <1>2 DEF NewList
  <2>2. part \in [elts : Region \cup Large, nelts : Nat] /\ part.elts = r.got /\ part.nelts = 0
    BY <1>2
  <2> HIDE DEF part
  <2>3. <<part>> \in Seq([elts : Region \cup Large, nelts : Nat]) /\ <<part>> # <<>>
        /\ DOMAIN <<part>> = {1} /\ <<part>>[1] = part
    BY <2>2
  <2>4. list' \in ListType
    BY <2>1, <2>3 DEF ListType
  <2>5. HasRoom(r.got, n, size)'
    BY <1>2, RoomYielded
  <2>6. \A i \in DOMAIN list'.parts :
           /\ list'.parts[i].nelts <= list'.nalloc
           /\ HasRoom(list.parts[i].elts, list.nalloc, list.size)'
    BY <2>1, <2>2, <2>3, <2>5
  <2>7. list'.size > 0 /\ list'.nalloc > 0 /\ list'.parts # <<>>
    BY <2>1, <2>3
  <2> QED BY <2>4, <2>6, <2>7 DEF ListOK
<1> QED BY <1>1, <1>2

LEMMA ListInitOK ==
    ASSUME PallocIInv, NEW n \in 1 .. 2, NEW size \in 1 .. 2, ListInit(n, size) PROVE PallocIInv'
<1>1. PoolOK(pool, regions, live) /\ ArrayOK /\ array = Null /\ array' = array
  BY DEF ListInit, NoUser, PallocIInv
<1>2. PICK e \in Palloc(pool, n * size, TRUE) : Take(e) /\ list' = NewList(e.got, n, size)
  BY DEF ListInit
<1>3. n \in Nat \ {0} /\ size \in Nat \ {0} /\ n * size \in Nat \ {0}
  BY Product
<1>4. Gives(regions, live, e, n * size)
  BY <1>1, <1>3, PallocOK
<1>5. /\ PoolOK(pool', regions', live') /\ pool' # Null
      /\ e.got # Null => Yields(e, n * size) /\ e.got \in Region \cup Large
  BY <1>1, <1>2, <1>4, TakeOK
<1>6. ListOK'
  BY <1>2, <1>3, <1>5, NewListOK
<1>7. ArrayOK'
  BY <1>1 DEF ArrayOK
<1> QED BY <1>5, <1>6, <1>7 DEF PallocIInv

LEMMA ListCreateOK ==
    ASSUME PallocIInv, NEW n \in 1 .. 2, NEW size \in 1 .. 2, ListCreate(n, size) PROVE PallocIInv'
<1>1. PoolOK(pool, regions, live) /\ ArrayOK /\ array = Null /\ array' = array
  BY DEF ListCreate, NoUser, PallocIInv
<1>2. PICK r \in WithElements(ListHeader, n * size) : Take(r) /\ list' = NewList(r.got, n, size)
  BY DEF ListCreate
<1>3. n \in Nat \ {0} /\ size \in Nat \ {0} /\ n * size \in Nat \ {0}
  BY Product
<1>4. PICK k : Gives(regions, live, r, k) /\ (r.got # Null => k = n * size)
  BY <1>1, <1>3, HeadersPositive, WithElementsOK
<1>5. /\ PoolOK(pool', regions', live') /\ pool' # Null
      /\ r.got # Null => Yields(r, k) /\ r.got \in Region \cup Large
  BY <1>1, <1>2, <1>4, TakeOK
<1>6. ListOK'
  <2>1. r.got # Null => Yields(r, n * size) /\ r.got \in Region \cup Large
    BY <1>4, <1>5
  <2> QED BY <1>2, <1>3, <2>1, NewListOK
<1>7. ArrayOK'
  BY <1>1 DEF ArrayOK
<1> QED BY <1>5, <1>6, <1>7 DEF PallocIInv

\* HasRoom, of memory held in R and L.
RoomIn(R, L, a, n, size) ==
    IF a \in Large THEN a \in L ELSE a \in R /\ a.to - a.from = n * size

LEMMA ListPushOK == PallocIInv /\ ListPush => PallocIInv'
<1> SUFFICES ASSUME PallocIInv, ListPush PROVE PallocIInv'
  OBVIOUS
<1> DEFINE n == Len(list.parts)
           P == [elts : Region \cup Large, nelts : Nat]
<1>1. PoolOK(pool, regions, live) /\ ArrayOK /\ ListOK /\ pool # Null /\ list # Null
      /\ array' = array
  BY DEF ListPush, PallocIInv
<1>2. array = Null
  BY <1>1 DEF ArrayOK
<1>3. ArrayOK'
  BY <1>1, <1>2 DEF ArrayOK
<1>4. /\ list \in ListType /\ list.size > 0 /\ list.nalloc > 0 /\ list.parts # <<>>
      /\ \A i \in DOMAIN list.parts :
            /\ list.parts[i].nelts <= list.nalloc
            /\ HasRoom(list.parts[i].elts, list.nalloc, list.size)
  BY <1>1 DEF ListOK
<1>5. /\ list.parts \in Seq(P) /\ list.size \in Nat \ {0} /\ list.nalloc \in Nat \ {0}
      /\ list = [parts |-> list.parts, size |-> list.size, nalloc |-> list.nalloc]
  BY <1>4 DEF ListType
<1>6. n \in Nat /\ n > 0 /\ DOMAIN list.parts = 1 .. n
      /\ \A i \in DOMAIN list.parts : list.parts[i] \in P
  <2>1. n \in Nat /\ DOMAIN list.parts = 1 .. n
    BY <1>5, LenProperties
  <2>2. n # 0
    BY <1>4, <1>5, EmptySeq
  <2> HIDE DEF P
  <2> QED BY <1>5, <2>1, <2>2, ElementOfSeq
<1>7. CASE list.parts[n].nelts < list.nalloc
  <2>1. /\ pool' = pool /\ regions' = regions /\ live' = live
        /\ list' = [list EXCEPT !.parts[n].nelts = @ + 1]
    BY <1>7 DEF ListPush
  <2> DEFINE part  == [list.parts[n] EXCEPT !.nelts = @ + 1]
             parts == [list.parts EXCEPT ![n] = part]
  <2>2. part \in P /\ part.elts = list.parts[n].elts /\ part.nelts = list.parts[n].nelts + 1
    BY <1>6
  <2>3. list' = [parts |-> parts, size |-> list.size, nalloc |-> list.nalloc]
    <3>1. list' = [list EXCEPT !.parts = parts]
      BY <2>1
    <3> HIDE DEF parts
    <3> QED BY <1>5, <3>1
  <2> HIDE DEF part, P
  <2>4. parts \in Seq(P) /\ DOMAIN parts = DOMAIN list.parts /\ parts[n] = part
        /\ \A i \in DOMAIN parts : i # n => parts[i] = list.parts[i]
    BY <1>5, <1>6, <2>2, ExceptSeq
  <2> HIDE DEF parts
  <2>5. list' \in ListType
    BY <1>5, <2>3, <2>4 DEF ListType, P
  <2>6. ASSUME NEW i \in DOMAIN list'.parts
        PROVE  /\ list'.parts[i].nelts <= list'.nalloc
               /\ RoomIn(regions', live', list'.parts[i].elts, list'.nalloc, list'.size)
    <3>1. i \in DOMAIN list.parts /\ list.parts[i].nelts \in Nat /\ list.parts[i].elts = parts[i].elts
      BY <1>6, <2>2, <2>3, <2>4 DEF P
    <3>2. parts[i].nelts <= list.nalloc
      BY <1>4, <1>5, <1>7, <2>2, <2>3, <2>4, <3>1
    <3>3. RoomIn(regions, live, parts[i].elts, list.nalloc, list.size)
      BY <1>4, <3>1 DEF HasRoom, RoomIn
    <3>4. regions' = regions /\ live' = live
      BY <2>1
    <3>5. list'.parts = parts /\ list'.nalloc = list.nalloc /\ list'.size = list.size
      BY <2>3
    <3> QED BY <3>2, <3>3, <3>4, <3>5
  <2>7. list'.size > 0 /\ list'.nalloc > 0 /\ list'.parts # <<>>
    BY <1>4, <1>6, <2>3, <2>4
  <2>8. ListOK'
    BY <2>5, <2>6, <2>7 DEF ListOK, HasRoom, RoomIn
  <2> QED BY <1>1, <1>3, <2>1, <2>8 DEF PallocIInv
<1>8. CASE ~ list.parts[n].nelts < list.nalloc
  <2> DEFINE size == list.nalloc * list.size
  <2>1. PICK r \in WithElements(PartHeader, size) :
           /\ Take(r)
           /\ list' = IF r.got = Null THEN list
                      ELSE [list EXCEPT !.parts = Append(@, [elts |-> r.got, nelts |-> 1])]
    BY <1>8 DEF ListPush
  <2>2. size \in Nat \ {0}
    BY <1>5, Product
  <2>3. PICK k : Gives(regions, live, r, k) /\ (r.got # Null => k = size)
    <3> HIDE DEF size
    <3> QED BY <1>1, <2>2, HeadersPositive, WithElementsOK
  <2>4. /\ PoolOK(pool', regions', live') /\ pool' # Null
        /\ regions \subseteq regions' /\ live \subseteq live'
        /\ r.got # Null => Yields(r, k) /\ r.got \in Region \cup Large
    BY <1>1, <2>1, <2>3, TakeOK
  <2>5. CASE r.got = Null
    <3>1. ListOK'
      BY <1>1, <2>1, <2>4, <2>5, UsersKept
    <3> QED BY <1>3, <2>4, <3>1 DEF PallocIInv
  <2>6. CASE r.got # Null
    <3> DEFINE part  == [elts |-> r.got, nelts |-> 1]
               parts == Append(list.parts, part)
    <3>1. part \in P /\ part.elts = r.got /\ part.nelts = 1
      BY <2>4, <2>6
    <3>2. list' = [parts |-> parts, size |-> list.size, nalloc |-> list.nalloc]
      <4>1. list' = [list EXCEPT !.parts = parts]
        BY <2>1, <2>6
      <4> HIDE DEF parts
      <4> QED BY <1>5, <4>1
    <3> HIDE DEF part, P
    <3>3. parts \in Seq(P) /\ parts # <<>> /\ parts[n + 1] = part
          /\ DOMAIN parts = 1 .. n + 1 /\ \A i \in 1 .. n : parts[i] = list.parts[i]
      BY <1>5, <1>6, <3>1, AppendProperties, LenProperties
    <3> HIDE DEF parts
    <3>4. list' \in ListType
      BY <1>5, <3>2, <3>3 DEF ListType, P
    <3>5. ASSUME NEW i \in DOMAIN list'.parts
          PROVE  /\ list'.parts[i].nelts <= list'.nalloc
                 /\ RoomIn(regions', live', list'.parts[i].elts, list'.nalloc, list'.size)
      <4>1. i \in 1 .. n + 1
        BY <3>2, <3>3
      <4>2. CASE i = n + 1
        <5>1. parts[i].nelts <= list.nalloc /\ parts[i].elts = r.got
          BY <1>5, <3>1, <3>3, <4>2
        <5>2. RoomIn(regions', live', r.got, list.nalloc, list.size)
          BY <2>3, <2>4, <2>6 DEF RoomIn, Yields
        <5> QED BY <3>2, <5>1, <5>2
      <4>3. CASE i # n + 1
        <5>1. i \in DOMAIN list.parts /\ parts[i] = list.parts[i]
          BY <1>6, <3>3, <4>1, <4>3
        <5>2. RoomIn(regions, live, parts[i].elts, list.nalloc, list.size)
          BY <1>4, <5>1 DEF HasRoom, RoomIn
        <5>3. RoomIn(regions', live', parts[i].elts, list.nalloc, list.size)
          BY <2>4, <5>2 DEF RoomIn
        <5> QED BY <1>4, <3>2, <5>1, <5>3
      <4> QED BY <4>2, <4>3
    <3>6. list'.size > 0 /\ list'.nalloc > 0 /\ list'.parts # <<>>
      BY <1>4, <3>2, <3>3
    <3>7. ListOK'
      BY <3>4, <3>5, <3>6 DEF ListOK, HasRoom, RoomIn
    <3> QED BY <1>3, <2>4, <3>7 DEF PallocIInv
  <2> QED BY <2>5, <2>6
<1> QED BY <1>7, <1>8

-----------------------------------------------------------------------------
LEMMA PallocStepOK == PallocIInv /\ [PallocNext]_vars => PallocIInv'
<1> SUFFICES ASSUME PallocIInv, [PallocNext]_vars PROVE PallocIInv'
  OBVIOUS
<1>1. CASE Create \/ Allocate \/ Free \/ Destroy
  BY <1>1, CreateOK, AllocateOK, FreeOK, DestroyOK
<1>2. CASE \E size \in Sizes : CreateTempBuf(size)
  BY <1>2, CreateTempBufOK
<1>3. ASSUME NEW n \in 1 .. 2, NEW size \in 1 .. 2,
             ArrayCreate(n, size) \/ ArrayInit(n, size) \/ ListCreate(n, size) \/ ListInit(n, size)
      PROVE  PallocIInv'
  BY <1>3, ArrayCreateOK, ArrayInitOK, ListCreateOK, ListInitOK
<1>4. CASE ArrayPush
  BY <1>4, ArrayPushOK DEF ArrayPush
<1>5. CASE \E n \in 2 .. MaxElements : ArrayPushN(n)
  <2>1. PICK n \in 2 .. MaxElements : ArrayPushN(n)
    BY <1>5
  <2>2. n \in Nat \ {0}
    OBVIOUS
  <2> QED BY <2>1, <2>2, ArrayPushOK
<1>6. CASE ArrayDestroy \/ ListPush
  BY <1>6, ArrayDestroyOK, ListPushOK
<1>7. CASE UNCHANGED vars
  BY <1>7 DEF vars, PallocIInv, ArrayOK, ListOK, HasRoom
<1> QED BY <1>1, <1>2, <1>3, <1>4, <1>5, <1>6, <1>7 DEF PallocNext

(* The pool, what callers hold of it, and the array or list in it are in     *)
(* order in every reachable state: spy_palloc.c, spy_array.c, spy_list.c.    *)
THEOREM PallocInvariant == PallocSpec => []PallocIInv
<1>1. PallocInit => PallocIInv
  BY InitOK
<1>2. PallocIInv /\ [PallocNext]_vars => PallocIInv'
  BY PallocStepOK
<1> QED BY <1>1, <1>2, PTL DEF PallocSpec

(* The pool, the regions and the users keep their types.                     *)
THEOREM PallocTypes == PallocSpec => []PallocTypeOK
<1>1. PallocIInv => PallocTypeOK
  <2> SUFFICES ASSUME PallocIInv PROVE PallocTypeOK
    OBVIOUS
  <2>1. live \subseteq Large
    <3>1. CASE pool = Null
      BY <3>1 DEF PallocIInv
    <3>2. CASE pool # Null
      <4>1. pool \in PoolType /\ live = ToSet(pool.large) \ {Null}
        BY <3>2 DEF PallocIInv, PoolOK, ListedOK
      <4>2. \A i \in DOMAIN pool.large : pool.large[i] \in Large \cup {Null}
        BY <4>1, PoolParts, LenProperties, ElementOfSeq
      <4> QED BY <4>1, <4>2 DEF ToSet
    <3> QED BY <3>1, <3>2
  <2> QED BY <2>1 DEF PallocIInv, PoolOK, HeldOK, ArrayOK, ListOK, PallocTypeOK
<1> QED BY <1>1, PallocInvariant, PTL

(* No two callers hold the same memory, whatever the order of allocations,   *)
(* growing, moving and giving back.                                          *)
THEOREM NoMemoryIsSharedInAPool == PallocSpec => []RegionsOK
<1>1. PallocIInv => RegionsOK
  <2> SUFFICES ASSUME PallocIInv, pool # Null PROVE RegionsOK
    BY DEF RegionsOK
  <2>1. HeldOK(pool, regions)
    BY DEF PallocIInv, PoolOK
  <2>2. \A r \in regions : r.from \in Nat /\ r.to \in Nat
    BY <2>1, Constants DEF HeldOK, Region, Offsets
  <2>3. \A r \in regions : Within(pool, r) /\ \A t \in regions : Apart(r, t)
    BY <2>1 DEF HeldOK
  <2>4. ASSUME NEW r \in regions
        PROVE  /\ r.block \in DOMAIN pool.blocks
               /\ (IF r.block = 1 THEN PoolHeader ELSE DataHeader) <= r.from
               /\ r.from <= r.to /\ r.to <= pool.blocks[r.block].last
    BY <2>2, <2>3 DEF Within, FrontOf
  <2> QED BY <2>3, <2>4 DEF RegionsOK, Apart
<1> QED BY <1>1, PallocInvariant, PTL

(* Destroying a pool frees every large allocation that is not freed, and     *)
(* none twice: its list holds each of them once.                             *)
THEOREM LargeAllocationsAreListedOnce == PallocSpec => []LargeListOK
<1>1. PallocIInv => LargeListOK
  BY DEF PallocIInv, PoolOK, ListedOK, LargeListOK
<1> QED BY <1>1, PallocInvariant, PTL

(* The search for room passes over the blocks that failed more often than    *)
(* they may, and over no other.                                              *)
THEOREM OnlyTiredBlocksArePassedOver == PallocSpec => []CurrentOK
<1>1. ASSUME PallocIInv, pool # Null PROVE CurrentOK
  <2>1. PassedOK(pool) /\ pool \in PoolType
    BY <1>1 DEF PallocIInv, PoolOK
  <2>2. /\ DOMAIN pool.blocks = 1 .. Len(pool.blocks) /\ Len(pool.blocks) \in Nat
        /\ pool.current \in DOMAIN pool.blocks
        /\ \A i \in DOMAIN pool.blocks : pool.blocks[i].failed \in Nat
    BY <2>1, PoolParts DEF PassedOK
  <2>3. \A i \in 1 .. Len(pool.blocks) :
           IF i < pool.current THEN i \in 1 .. pool.current - 1
           ELSE i \in pool.current .. Len(pool.blocks)
    BY <2>2
  <2>4. \A i \in 1 .. Len(pool.blocks) :
           i < pool.current <=> pool.blocks[i].failed > MaxFailed + 1
    BY <2>1, <2>2, <2>3, Constants DEF PassedOK
  <2> QED BY <2>2, <2>4 DEF CurrentOK
<1>2. PallocIInv => CurrentOK
  BY <1>1 DEF CurrentOK
<1> QED BY <1>2, PallocInvariant, PTL

(* The elements of an array or a list lie in memory that it holds, through   *)
(* any number of pushes.                                                     *)
THEOREM ElementsHaveRoom == PallocSpec => []ElementsOK
<1>1. PallocIInv => ElementsOK
  BY DEF PallocIInv, ArrayOK, ListOK, ElementsOK
<1> QED BY <1>1, PallocInvariant, PTL
=============================================================================
