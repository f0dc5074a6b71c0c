-------------------------------- MODULE Heaps --------------------------------
(***************************************************************************)
(* What a process may expect of vmalloc and vfree: that the whole pages of *)
(* its heaps are allocated, to one heap each, until it gives them back.    *)
(*                                                                         *)
(* The code does not keep this for good.  heapspoilt tells that            *)
(*   "continued"  a heap went wrong where it goes on in another table      *)
(*                (vmalloc.c:213 and 230);                                 *)
(*   "apart"      a heap was given back whose tables do not follow each    *)
(*                other in memory (vfree.c:72);                            *)
(*   "kept"       a heap of less than a page was given back: vfree frees   *)
(*                no page for it (vfree.c:31), vmalloc took one.           *)
(* Nothing is explored behind that.                                        *)
(***************************************************************************)
EXTENDS VM

VARIABLE heapspoilt     \* "no", or what went wrong

\* The directory entry at which the search for the caller's n pages ends.
StopsAt(n) == Min({i \in UserPde : Ends(i, n)})

\* The heap begins at the end of one table, and what is missing has no table,
\* or is not free at the start of the next one (the code has counted free
\* entries among more of them).
ContinuesBadly ==
    LET n == Pages(call[currpid].bytes)
        i == StopsAt(n)
        t == Pde(currpid, i).base
        missing == n - (PTSIZE - Min(Spills(t, n)))
    IN  /\ n < PTSIZE
        /\ \E k \in UserPde : Ends(k, n)
        /\ Pde(currpid, i).pres
        /\ Fits(t, n) = {}
        /\ \/ ~Pde(currpid, i + 1).pres
           \/ ~(0 .. missing - 1 \subseteq FreeIn(Pde(currpid, i + 1).base))

\* The tables of a heap do not follow each other in memory, as vfree takes
\* them to.
LiesApart(h) ==
    \E v \in h.page .. h.page + (h.bytes \div PAGE) - 1 :
        SlotOf(currpid, v) # SlotOf(currpid, h.page) + (v - h.page)

Gets == \E h \in held'[currpid] : h \notin held[currpid]
Returns(h) == prstate' = prstate /\ held'[currpid] = held[currpid] \ {h}

HeapInit == Init /\ heapspoilt = "no"

HeapNext ==
    \/ /\ heapspoilt = "no"
       /\ Next
       /\ heapspoilt' = IF Gets /\ ContinuesBadly THEN "continued"
                        ELSE IF \E h \in held[currpid] : Returns(h) /\ LiesApart(h)
                        THEN "apart"
                        ELSE IF \E h \in held[currpid] : Returns(h) /\ h.bytes < PAGE
                        THEN "kept"
                        ELSE "no"
    \/ heapspoilt # "no" /\ UNCHANGED <<vars, heapspoilt>>

HeapSpec == HeapInit /\ [][HeapNext]_<<vars, heapspoilt>>

-----------------------------------------------------------------------------
(* Properties.                                                             *)

\* The pages that a process may use of what vmalloc has returned to it.  The
\* bytes behind the last whole page have none: the code rounds down, but to at
\* least one.
HeapPages(h) == h.page .. h.page + Pages(h.bytes) - 1

\* What a process got of vmalloc and has not given back is allocated to it:
\* to use it is never a segmentation fault.
HeapBacked ==
    \A p \in Users : \A h \in held[p] : \A v \in HeapPages(h) : Allocated(p, v)

\* No page of the heap is handed out twice.
HeapsDisjoint ==
    \A p \in Users : \A h, g \in held[p] :
        h # g => HeapPages(h) \cap HeapPages(g) = {}

\* allocated_virtual_pages, without the XINU area.
AllocatedPages(p) == {v \in UserPage : Allocated(p, v)}

\* allocated_virtual_pages(currpid) == PREALLOCATED_PAGES+numPages after a
\* vmalloc, PREALLOCATED_PAGES after the vfree (large_testcases.c).
HeapCounted ==
    \A p \in Users :
        Cardinality(AllocatedPages(p))
            = MapThenSumSet(LAMBDA h : Pages(h.bytes), held[p])

\* Until one of the three things has happened, what vmalloc has returned is
\* allocated, disjoint and counted, until vfree.
HeapConsistent ==
    heapspoilt = "no" => HeapBacked /\ HeapsDisjoint /\ HeapCounted

=============================================================================
