------------------------------ MODULE PageTables ------------------------------
(***************************************************************************)
(* The page directories and page tables of the user processes: the frames  *)
(* of the PT area that they are made of, the frames of the FFS area that   *)
(* they map, and the searches for free ones.                               *)
(*                                                                         *)
(* A frame of the PT area is PTSIZE entries of memory.  Directory entries  *)
(* and table entries have the same layout (paging.h), and the code tells a *)
(* free frame from one in use by the avail bits of its first entry alone.  *)
(* The frames of the system's own directory and tables are not modelled:   *)
(* they are written once, at the start, and are always in use.             *)
(***************************************************************************)
EXTENDS Integers, FiniteSets, FiniteSetsExt

CONSTANTS
    NUSER,      \* processes besides the null process
    PTSIZE,     \* entries of a page table, and of a directory
    XPDE,       \* directory entries that map the XINU area
    NFFS,       \* frames of the FFS area
    NPT,        \* frames of the PT area, besides those of the system
    SYSFRAMES,  \* the frames of the PT area that the system's tables take
    Junk,       \* frames whose memory is not zero at the start
    Requests,   \* arguments of vmalloc, in bytes
    Calls       \* what the processes of the instance do

PAGE == 2       \* bytes in a page

Pid == 0 .. NUSER
NULLPROC == 0
Index == 0 .. PTSIZE - 1
UserPde == XPDE .. PTSIZE - 1
UserPage == XPDE * PTSIZE .. PTSIZE * PTSIZE - 1    \* virtual pages
Frame == 0 .. NPT - 1
Ffs == 0 .. NFFS - 1
Slot == 0 .. NPT * PTSIZE - 1

ASSUME PagingAssumption ==
    /\ NUSER \in Nat \ {0}
    /\ PTSIZE \in Nat /\ XPDE \in 1 .. PTSIZE - 1
    /\ NFFS \in Nat /\ NPT \in Nat \ {0} /\ SYSFRAMES \in Nat
    /\ Junk \subseteq Frame
    /\ Requests \subseteq Nat \ {0}

SYSTEM == -1    \* the system's directory, and the tables of the XINU area

VARIABLES
    ent,        \* the entries of the frames of the PT area, in memory order
    ffs,        \* the avail bits of the table entries of the FFS area
    dir,        \* page_addr: the directory of each process
    cr3         \* the directory the processor translates with

\* The fields of pd_t and pt_t that ever differ: the present bit; the avail
\* bits, 0 for a frame that is free, 2 for an entry that leads nowhere and 3
\* for a valid one; and the base.
Entry == [pres : BOOLEAN, avail : {0, 2, 3}, base : {SYSTEM} \cup Frame \cup Ffs]

At(f, i) == f * PTSIZE + i

Zero == [pres |-> FALSE, avail |-> 0, base |-> 0]
Empty == [pres |-> FALSE, avail |-> 2, base |-> 0]
Valid == [pres |-> FALSE, avail |-> 3, base |-> 0]
Lead(b) == [pres |-> TRUE, avail |-> 3, base |-> b]

\* What the memory of the PT area may hold at the start.
Raw(s) == IF s \div PTSIZE \in Junk THEN Empty ELSE Zero

-----------------------------------------------------------------------------
(* Reading the tables.                                                     *)

Pde(p, i) == ent[At(dir[p], i)]

Tables(p) == {Pde(p, i).base : i \in {j \in UserPde : Pde(p, j).pres}}

\* Where the table entry of page v of process p is.
SlotOf(p, v) == At(Pde(p, v \div PTSIZE).base, v % PTSIZE)

\* The processor finds a frame for page v of p; the code finds the page
\* allocated.
Present(p, v) == Pde(p, v \div PTSIZE).pres /\ ent[SlotOf(p, v)].pres
Allocated(p, v) ==
    Pde(p, v \div PTSIZE).avail = 3 /\ ent[SlotOf(p, v)].avail = 3

FrameOf(p, v) == ent[SlotOf(p, v)].base

-----------------------------------------------------------------------------
(* Free frames.                                                            *)

\* A wrong test, for comparison: the frame may hold a table.
DirFreeUnlessValid(f) == ent[At(f, 0)].avail # 3

\* !(pd[0].pd_avail & (1<<1)), the test of vcreate.
DirFree(f) == ent[At(f, 0)].avail = 0

\* pt[0].pt_avail == 0, the test of vmalloc.
TableFree(f) == ent[At(f, 0)].avail = 0

\* Wrong searches, for comparison: one frame short, and a run that may go on
\* behind the PT area.
RunsOneShort(n) ==
    {f \in Frame : f + n - 1 \in Frame /\ \A g \in f .. f + n - 2 : TableFree(g)}
RunsPast(n) == {f \in Frame : \A g \in f .. f + n - 1 : g \in Frame => TableFree(g)}

\* The runs of n free frames; vmalloc takes the first.
Runs(n) ==
    {f \in Frame : f + n - 1 \in Frame /\ \A g \in f .. f + n - 1 : TableFree(g)}

\* The frames of the FFS area that the page fault handler may take, and a
\* wrong test for comparison.
AnyFfs == Ffs
FreeFfs == {k \in Ffs : ffs[k] # 3}

-----------------------------------------------------------------------------
(* Writing whole frames.                                                   *)

\* A new directory: the XINU area, and nothing else.
NewDirectory(f) ==
    [s \in Slot |-> IF s \div PTSIZE # f THEN ent[s]
                    ELSE IF s % PTSIZE < XPDE THEN Lead(SYSTEM) ELSE Empty]

\* n new tables in the frames from f on, led to by directory d from entry i
\* on; the last one has `last` valid entries, the others PTSIZE.
NewTables(d, i, f, n, last) ==
    [s \in Slot |->
        LET g == s \div PTSIZE IN
        IF g \in f .. f + n - 1
        THEN IF g < f + n - 1 \/ s % PTSIZE < last THEN Valid ELSE Empty
        ELSE IF g = d /\ s % PTSIZE \in i .. i + n - 1 THEN Lead(f + (s % PTSIZE) - i)
        ELSE ent[s]]

\* The entries in S become what `new` says.
Rewrite(S, new) == [s \in Slot |-> IF s \in S THEN new ELSE ent[s]]

\* Every FFS frame that an entry of S has mapped is free again.
Unmapped(S) ==
    LET used == {ent[s].base : s \in {t \in S : ent[t].pres}}
    IN  [k \in Ffs |-> IF k \in used THEN 2 ELSE ffs[k]]

=============================================================================
