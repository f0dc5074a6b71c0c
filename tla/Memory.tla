------------------------------- MODULE Memory -------------------------------
(***************************************************************************)
(* The heap: getmem takes from the first block that is large enough,       *)
(* getstk from the last one, and freemem puts a block back in the order    *)
(* of addresses and joins it with its neighbours.  Addresses count bytes;  *)
(* blocks begin at multiples of MB.  Every call runs with interrupts       *)
(* disabled from beginning to end.                                         *)
(***************************************************************************)
EXTENDS Integers, SequencesExt, FiniteSetsExt

CONSTANTS
    MB,             \* 8 in the source: sizes are rounded to multiples of it
    minheap, maxheap,   \* first and last address of the heap
    HOLESTART, HOLEEND, \* addresses from ... to that are no memory
    NULLSTK,        \* bytes at the end for the stack of the null process
    Requests        \* sizes getmem and getstk are called with

Bytes == minheap .. maxheap
SYSERR == -1

ASSUME MemoryAssumption ==
    /\ MB \in Nat \ {0}
    /\ {minheap, maxheap, HOLESTART, HOLEEND, NULLSTK} \subseteq Nat
    /\ 0 < minheap /\ minheap + 2 * MB <= HOLESTART /\ HOLESTART < HOLEEND
    /\ MB <= NULLSTK
    /\ \/ minheap + NULLSTK + MB < maxheap /\ maxheap + 1 <= HOLESTART
       \/ HOLEEND + NULLSTK + MB < maxheap
    /\ HOLESTART % MB = 0 /\ HOLEEND % MB = 0
    /\ Requests \subseteq Nat

VARIABLES
    memlist,    \* the free blocks [addr, len], in list order
    mlength,    \* memlist.mlength
    owned,      \* what the callers have been given, as a set of addresses
    memret      \* what the last call returned, and for which size

memVars == <<memlist, mlength, owned, memret>>

\* No rounding, for comparison.
roundmbNot(n) == n

roundmb(n) == ((n + MB - 1) \div MB) * MB
truncmb(n) == (n \div MB) * MB

Blk(a, n) == [addr |-> a, len |-> n]
Span(b) == b.addr .. b.addr + b.len - 1
FreeBytes == UNION {Span(b) : b \in Range(memlist)}
Called(call, size, addr) == [call |-> call, size |-> size, addr |-> addr]

\* The blocks meminit makes: two around the hole, or one below it.  The 4
\* bytes it leaves before the hole are half a block here.
MemPool ==
    IF maxheap + 1 > HOLESTART
    THEN <<Blk(roundmb(minheap), truncmb(HOLESTART - minheap - MB \div 2)),
           Blk(HOLEEND, truncmb(maxheap - HOLEEND - NULLSTK))>>
    ELSE <<Blk(roundmb(minheap), truncmb(maxheap - minheap - NULLSTK))>>

MemInit ==
    /\ memlist = MemPool
    /\ mlength = 0
    /\ owned = {}
    /\ memret = Called("meminit", 0, 0)

-----------------------------------------------------------------------------

\* A wrong test, for comparison: an exact match is passed over.
FitsLarger(n) == {i \in DOMAIN memlist : memlist[i].len > n}

Fits(n) == {i \in DOMAIN memlist : memlist[i].len >= n}

Fail(call, n) ==
    /\ n = 0 \/ Fits(n) = {}
    /\ memret' = Called(call, n, SYSERR)
    /\ UNCHANGED <<memlist, mlength, owned>>

\* A wrong end of the search, for comparison: the length is not kept.
TakeUncounted(call, n, i, a, rest) ==
    /\ memlist' = IF rest.len = 0 THEN RemoveAt(memlist, i)
                                  ELSE ReplaceAt(memlist, i, rest)
    /\ owned' = owned \cup Span(Blk(a, n))
    /\ memret' = Called(call, n, a)
    /\ UNCHANGED mlength

\* n bytes at address a are taken, and block i becomes rest, or goes if it
\* is empty.
Take(call, n, i, a, rest) ==
    /\ memlist' = IF rest.len = 0 THEN RemoveAt(memlist, i)
                                  ELSE ReplaceAt(memlist, i, rest)
    /\ mlength' = mlength - n
    /\ owned' = owned \cup Span(Blk(a, n))
    /\ memret' = Called(call, n, a)

getmem(nbytes) ==
    LET n == roundmb(nbytes)
        i == Min(Fits(n))
        b == memlist[i]
    IN  \/ Fail("getmem", n)
        \/ /\ n # 0 /\ Fits(n) # {}
           /\ Take("getmem", n, i, b.addr, Blk(b.addr + n, b.len - n))

getstk(nbytes) ==
    LET n == roundmb(nbytes)
        i == Max(Fits(n))
        b == memlist[i]
    IN  \/ Fail("getstk", n)
        \/ /\ n # 0 /\ Fits(n) # {}
           /\ Take("getstk", n, i, b.addr + b.len - n, Blk(b.addr, b.len - n))

\* Wrong tests of freemem, for comparison: only the block behind is looked
\* at; and a block is not joined with the one behind it.
OverlapsBehind(next, block, n) == next # {} /\ block + n > memlist[Min(next)].addr

JoinsNever(b, c) == FALSE

\* The block that is freed reaches into a free one; next holds the indices of
\* the free blocks from its address on.
Overlaps(next, block, n) ==
    LET prev == DOMAIN memlist \ next IN
    \/ prev # {} /\ block < memlist[Max(prev)].addr + memlist[Max(prev)].len
    \/ next # {} /\ block + n > memlist[Min(next)].addr

\* Block c begins where block b ends.
Joins(b, c) == b.addr + b.len = c.addr

freemem(blkaddr, nbytes) ==
    LET n == roundmb(nbytes)
        next == {i \in DOMAIN memlist : memlist[i].addr >= blkaddr}
        k == Cardinality(DOMAIN memlist \ next)    \* index of prev, or 0
        before == SubSeq(memlist, 1, k)
        after == SubSeq(memlist, k + 1, Len(memlist))
        linked == IF k # 0 /\ Joins(Last(before), Blk(blkaddr, n))
                  THEN ReplaceAt(before, k, Blk(Last(before).addr, Last(before).len + n))
                  ELSE Append(before, Blk(blkaddr, n))
        block == Last(linked)
    IN  \/ /\ \/ nbytes = 0 \/ blkaddr \notin Bytes
              \/ Overlaps(next, blkaddr, n)
           /\ memret' = Called("freemem", n, SYSERR)
           /\ UNCHANGED <<memlist, mlength, owned>>
        \/ /\ nbytes # 0 /\ blkaddr \in Bytes
           /\ ~Overlaps(next, blkaddr, n)
           /\ mlength' = mlength + n
           /\ memlist' = IF after # <<>> /\ Joins(block, Head(after))
                         THEN Front(linked)
                              \o <<Blk(block.addr, block.len + Head(after).len)>>
                              \o Tail(after)
                         ELSE linked \o after
           /\ owned' = owned \ Span(Blk(blkaddr, n))
           /\ memret' = Called("freemem", n, blkaddr)

-----------------------------------------------------------------------------

\* The callers free what they have, in the pieces they like, or by mistake
\* something of which a part is free already; they never free what another
\* one has.
MayFree(a, n) ==
    LET span == Span(Blk(a, roundmb(n))) IN
    span \subseteq owned \/ span \cap FreeBytes # {}

MemNext ==
    \/ \E n \in Requests : getmem(n) \/ getstk(n)
    \/ \E a \in {b \in Bytes : b % MB = 0}, n \in Requests :
          MayFree(a, n) /\ freemem(a, n)

MemSpec == MemInit /\ [][MemNext]_memVars

-----------------------------------------------------------------------------

HeapBytes == Bytes \ (HOLESTART .. HOLEEND - 1)

\* The free list holds non-empty blocks of the heap that begin and end at
\* multiples of MB.
MemTypeOK ==
    /\ \A i \in DOMAIN memlist :
          /\ memlist[i].addr % MB = 0 /\ memlist[i].len % MB = 0
          /\ memlist[i].len > 0
    /\ mlength \in Int
    /\ owned \subseteq Bytes

\* Every byte of the heap is free or given to a caller, never both, and the
\* list is in the order of addresses without overlap: whatever is freed in
\* which order, freed in part or freed twice (freemem.c:43).
HeapPartition ==
    /\ FreeBytes \cap owned = {}
    /\ FreeBytes \cup owned = UNION {Span(b) : b \in Range(MemPool)}
    /\ FreeBytes \cup owned \subseteq HeapBytes
    /\ \A i \in 1 .. Len(memlist) - 1 :
          memlist[i].addr + memlist[i].len <= memlist[i + 1].addr

\* memlist.mlength follows the free bytes, from an origin that is not their
\* number: meminit leaves it 0.
LengthFollows ==
    mlength = Cardinality(FreeBytes) - Cardinality(FreeBytes \cup owned)

\* No request is refused while the heap has that many free bytes in a row:
\* neighbours are always joined (freemem.c:53-67).
RefusedOnlyWhenFull ==
    memret.call \in {"getmem", "getstk"} /\ memret.addr = SYSERR =>
        \/ memret.size = 0
        \/ \A a \in Bytes : ~ Span(Blk(a, memret.size)) \subseteq FreeBytes

\* The memory between the blocks that are held is free, once, in maximal blocks
\* and counted; a request is refused only when no block is large enough.
MemInv == MemTypeOK /\ HeapPartition /\ LengthFollows /\ RefusedOnlyWhenFull

\* What a call hands out was free, and is the caller's alone until it is
\* freed: getmem takes from the low end and getstk from the high end of the
\* free memory that fits.
HandedOutWasFree ==
    [][memret'.call \in {"getmem", "getstk"} /\ memret'.addr # SYSERR =>
          /\ Span(Blk(memret'.addr, memret'.size)) \subseteq FreeBytes
          /\ \A a \in Bytes :
                Span(Blk(a, memret'.size)) \subseteq FreeBytes =>
                    IF memret'.call = "getmem" THEN memret'.addr <= a
                                               ELSE a <= memret'.addr]_memVars

=============================================================================
