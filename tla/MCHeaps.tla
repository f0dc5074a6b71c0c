-------------------------------- MODULE MCHeaps --------------------------------
(***************************************************************************)
(* An instance of Heaps for TLC.                                           *)
(***************************************************************************)
EXTENDS Heaps

AllCalls ==
    {"vcreate", "badvcreate", "vmalloc", "vfree", "touch", "exit", "kill"}

\* Bound: a process asks for less than a page only while it has no heap.
SmallFirst == \A p \in Users : call'[p].bytes \in 1 .. PAGE - 1 => held[p] = {}

MCNext == HeapNext /\ SmallFirst

MCSpec == HeapInit /\ [][MCNext]_<<vars, heapspoilt>>

=============================================================================
