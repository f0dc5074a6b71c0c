---------------------------------- MODULE VM ----------------------------------
(***************************************************************************)
(* Virtual memory: vcreate, vmalloc, vfree, the page fault handler, and    *)
(* the end of a process, with the context switches between processes.      *)
(*                                                                         *)
(* A process is dispatched at any time that the code allows: whom resched  *)
(* chooses is the business of module Kernel.  The system calls run with    *)
(* interrupts disabled and are one action each, except vmalloc: it loads   *)
(* the system's directory and starts its search with interrupts enabled.   *)
(***************************************************************************)
EXTENDS PageTables

VARIABLES
    prstate,    \* "PR_FREE", "eligible" for the processor, or "stranded":
                \* made by a vcreate that never returned
    currpid,
    intr,       \* whether a process runs with interrupts enabled
    call,       \* the vmalloc a process is in: its bytes and saved CR3
    held        \* the heap a process has got and not given back: addresses
                \* (as pages) and lengths (in bytes)

procVars == <<prstate, currpid, intr, call, held>>
vars == <<ent, ffs, dir, cr3, procVars>>

InUserCode == [bytes |-> 0, saved |-> SYSTEM]

Init ==
    /\ ent = [s \in Slot |-> Raw(s)]
    /\ ffs = [k \in Ffs |-> 2]
    /\ dir = [p \in Pid |-> SYSTEM]
    /\ cr3 = SYSTEM
    /\ prstate = [p \in Pid |-> IF p = NULLPROC THEN "eligible" ELSE "PR_FREE"]
    /\ currpid = NULLPROC
    /\ intr = [p \in Pid |-> TRUE]
    /\ call = [p \in Pid |-> InUserCode]
    /\ held = [p \in Pid |-> {}]

Does(op) == op \in Calls /\ call[currpid] = InUserCode

\* A process made by vcreate: it has a directory of its own.
User(p) == prstate[p] = "eligible" /\ dir[p] # SYSTEM

-----------------------------------------------------------------------------
(* The processor.                                                          *)

\* resched loads CR3 with the directory of the process it dispatches.
Dispatch(p) ==
    /\ prstate[p] = "eligible"
    /\ currpid' = p
    /\ cr3' = dir[p]

\* The clock preempts the process, if interrupts are enabled, or it makes a
\* system call that gives the processor away.
Switch(p) ==
    /\ p # currpid
    /\ intr[currpid] \/ call[currpid] = InUserCode
    /\ Dispatch(p)
    /\ UNCHANGED <<ent, ffs, dir, prstate, intr, call, held>>

-----------------------------------------------------------------------------
(* The end of a process.                                                   *)

SlotsOf(F) == {s \in Slot : s \div PTSIZE \in F}

\* A kill_vm that forgets the tables, for comparison.
ClearedDirectory(p) == SlotsOf({dir[p]})

\* What kill_vm clears.
Cleared(p) == SlotsOf(Tables(p) \cup {dir[p]})

EndOf(p) ==
    /\ call' = [call EXCEPT ![p] = InUserCode]
    /\ held' = [held EXCEPT ![p] = {}]

\* kill(currpid): the memory is given back and the process never returns
\* from resched.  The null process is not killed.
Dies ==
    /\ IF dir[currpid] = SYSTEM
       THEN UNCHANGED <<ent, ffs>>
       ELSE /\ ent' = Rewrite(Cleared(currpid), Zero)
            /\ ffs' = Unmapped(SlotsOf(Tables(currpid)))
    /\ EndOf(currpid)
    /\ \E p \in Pid \ {currpid} : Dispatch(p)

Exit ==
    /\ Does("exit")
    /\ currpid # NULLPROC
    /\ prstate' = [prstate EXCEPT ![currpid] = "PR_FREE"]
    /\ Dies
    /\ UNCHANGED <<dir, intr>>

\* kill(p) of another process does not call kill_vm.
KillOther(p) ==
    /\ Does("kill")
    /\ p \notin {NULLPROC, currpid}
    /\ prstate[p] # "PR_FREE"
    /\ prstate' = [prstate EXCEPT ![p] = "PR_FREE"]
    /\ EndOf(p)
    /\ UNCHANGED <<ent, ffs, dir, cr3, currpid, intr>>

-----------------------------------------------------------------------------
(* vcreate                                                                 *)

\* The directory is the first free frame; the creator goes on with its own
\* CR3 and the new process is resumed at some time.
Vcreate(p) ==
    /\ Does("vcreate")
    /\ prstate[p] = "PR_FREE"
    /\ \E f \in Frame : DirFree(f)
    /\ LET f == Min({g \in Frame : DirFree(g)}) IN
       /\ dir' = [dir EXCEPT ![p] = f]
       /\ ent' = NewDirectory(f)
    /\ prstate' = [prstate EXCEPT ![p] = "eligible"]
    /\ intr' = [intr EXCEPT ![p] = TRUE]
    /\ cr3' = dir[currpid]
    /\ UNCHANGED <<ffs, currpid, call, held>>

\* Without a free frame the search leaves the PT area, which is a page fault
\* of the creator: it is killed, and the new table entry stays taken.  (The
\* null process stands for the system's processes: another one is left.)
VcreateRunsOff(p) ==
    /\ Does("vcreate")
    /\ prstate[p] = "PR_FREE"
    /\ ~\E f \in Frame : DirFree(f)
    /\ \/ /\ currpid = NULLPROC
          /\ prstate' = [prstate EXCEPT ![p] = "stranded"]
          /\ UNCHANGED <<ent, ffs, cr3, currpid, call, held>>
       \/ /\ currpid # NULLPROC
          /\ prstate' = [prstate EXCEPT ![p] = "stranded", ![currpid] = "PR_FREE"]
          /\ Dies
    /\ UNCHANGED <<dir, intr>>

\* No process table entry, no stack or a bad priority: SYSERR is returned with
\* CR3 still that of the system.
VcreateFails ==
    /\ Does("badvcreate")
    /\ cr3' = SYSTEM
    /\ UNCHANGED <<ent, ffs, dir, procVars>>

-----------------------------------------------------------------------------
(* vmalloc                                                                 *)

\* write_cr3 of the system's directory, interrupts enabled.
VmallocEnter(bytes) ==
    /\ Does("vmalloc")
    /\ call' = [call EXCEPT ![currpid] = [bytes |-> bytes, saved |-> cr3]]
    /\ cr3' = SYSTEM
    /\ UNCHANGED <<ent, ffs, dir, prstate, currpid, intr, held>>

\* It was preempted, and runs with its own directory: its next access to the
\* PT area is a page fault that the handler answers by killing it.  (Bound:
\* the heap does not reach the addresses of the PT area.)
VmallocFaults ==
    /\ call[currpid].bytes > 0
    /\ cr3 # SYSTEM
    /\ prstate' = [prstate EXCEPT ![currpid] = "PR_FREE"]
    /\ Dies
    /\ UNCHANGED <<dir, intr>>

\* nbytes/PAGE_SIZE, at least one; whole tables, and the rest.
Pages(bytes) == IF bytes \div PAGE < 1 THEN 1 ELSE bytes \div PAGE
Whole(bytes) == Pages(bytes) \div PTSIZE
Rest(bytes) == Pages(bytes) % PTSIZE
TablesFor(bytes) == Whole(bytes) + IF Rest(bytes) > 0 THEN 1 ELSE 0

\* A return without the last write_cr3, for comparison.
ReturnInSystem(result) ==
    /\ call' = [call EXCEPT ![currpid] = InUserCode]
    /\ cr3' = SYSTEM
    /\ held' = [held EXCEPT ![currpid] = @ \cup result]
    /\ UNCHANGED <<ffs, dir, prstate, currpid>>

Return(result) ==
    /\ call' = [call EXCEPT ![currpid] = InUserCode]
    /\ cr3' = call[currpid].saved
    /\ held' = [held EXCEPT ![currpid] = @ \cup result]
    /\ UNCHANGED <<ffs, dir, prstate, currpid>>

Granted(page) == Return({[page |-> page, bytes |-> call[currpid].bytes]})

\* The first directory entry at which the search ends, for a request that
\* is smaller than a table: one without a table, one whose table has room, or
\* one whose last pages are free so that the heap may go on in the next.
FreeIn(t) == {j \in Index : ent[At(t, j)].avail # 3}

\* A search that stops one page early, for comparison.
FitsAlmost(t, n) ==
    {j \in Index : j + n <= PTSIZE /\ j .. j + n - 2 \subseteq FreeIn(t)}

Fits(t, n) == {j \in Index : j + n <= PTSIZE /\ j .. j + n - 1 \subseteq FreeIn(t)}

\* The start of the free pages at the end of a table, too few for the request.
Spills(t, n) == {j \in Index : j + n > PTSIZE /\ j .. PTSIZE - 1 \subseteq FreeIn(t)}

\* The entries the code compares with what is missing: it counts the free ones
\* among the first n of the next table, and wants as many as are missing.
SpillsInto(t, u, n) ==
    /\ Spills(t, n) # {}
    /\ PTSIZE - Min(Spills(t, n)) + Cardinality(FreeIn(u) \cap 0 .. n - 1) = n

Ends(i, n) ==
    LET here == Pde(currpid, i)
        next == Pde(currpid, i + 1)
    IN  \/ ~here.pres
        \/ Fits(here.base, n) # {}
        \/ /\ Spills(here.base, n) # {}
           /\ i # PTSIZE - 1
           /\ ~next.pres \/ SpillsInto(here.base, next.base, n)

\* New tables at directory entry i.  Without enough free frames in a row the
\* interrupts that were disabled for the search stay disabled.
AtNewTable(i) ==
    LET bytes == call[currpid].bytes
        n == TablesFor(bytes)
        last == IF Rest(bytes) > 0 THEN Rest(bytes) ELSE PTSIZE
    IN  \/ /\ Runs(n) # {}
           /\ ent' = NewTables(dir[currpid], i, Min(Runs(n)), n, last)
           /\ Granted(i * PTSIZE)
           /\ UNCHANGED intr
        \/ /\ Runs(n) = {}
           /\ intr' = [intr EXCEPT ![currpid] = FALSE]
           /\ Return({})
           /\ UNCHANGED ent

AtOldTable(i, n) ==
    LET t == Pde(currpid, i).base
        u == Pde(currpid, i + 1).base
        j == IF Fits(t, n) # {} THEN Min(Fits(t, n)) ELSE Min(Spills(t, n))
        tail == {At(t, k) : k \in j .. PTSIZE - 1}
    IN  /\ \/ /\ Fits(t, n) # {}
              /\ ent' = [s \in Slot |-> IF s \in At(t, j) .. At(t, j) + n - 1
                                       THEN [ent[s] EXCEPT !.avail = 3] ELSE ent[s]]
           \* The rest goes into a new table, the code means; but its search
           \* looks at the first frame only, which is the system's, and it
           \* marks the first entries of the table it has.
           \/ /\ Fits(t, n) = {} /\ ~Pde(currpid, i + 1).pres
              /\ ent' = [s \in Slot |->
                            IF s \in tail \/ s \in At(t, 0) .. At(t, n - (PTSIZE - j) - 1)
                            THEN [ent[s] EXCEPT !.avail = 3] ELSE ent[s]]
           \/ /\ Fits(t, n) = {} /\ Pde(currpid, i + 1).pres
              /\ ent' = [s \in Slot |->
                            IF s \in tail \/ s \in At(u, 0) .. At(u, n - (PTSIZE - j) - 1)
                            THEN [ent[s] EXCEPT !.avail = 3] ELSE ent[s]]
        /\ Granted(i * PTSIZE + j)
        /\ UNCHANGED intr

\* The rest of vmalloc, with the system's directory.
VmallocRest ==
    LET bytes == call[currpid].bytes
        n == Pages(bytes)
        stops == {i \in UserPde : Ends(i, n)}
    IN
    /\ bytes > 0
    /\ cr3 = SYSTEM
    /\ \/ /\ n < PTSIZE
          /\ stops # {}
          /\ \/ ~Pde(currpid, Min(stops)).pres /\ AtNewTable(Min(stops))
             \/ Pde(currpid, Min(stops)).pres /\ AtOldTable(Min(stops), n)
       \/ /\ n < PTSIZE /\ stops = {}       \* every entry has been looked at
          /\ Return({})
          /\ UNCHANGED <<ent, intr>>
       \/ /\ n >= PTSIZE                    \* bound: see LargeRequest
          /\ \/ /\ XPDE + TablesFor(bytes) < PTSIZE
                /\ AtNewTable(XPDE)
             \/ /\ XPDE + TablesFor(bytes) >= PTSIZE
                /\ Return({})
                /\ UNCHANGED <<ent, intr>>

\* Bound: a request of a table or more is made by processes without a heap.
LargeRequest(bytes) == Pages(bytes) >= PTSIZE

Vmalloc ==
    \E bytes \in Requests :
        /\ User(currpid)
        /\ LargeRequest(bytes) => ~Pde(currpid, XPDE).pres
        /\ VmallocEnter(bytes)

-----------------------------------------------------------------------------
(* vfree                                                                   *)

\* The upper bound that vfree computes: from the last table of the process,
\* but with the index of the entry after it; when no page of that table is
\* allocated, the address of the table itself.
Limit(p) ==
    LET absent == {i \in UserPde : ~Pde(p, i).pres}
        j == IF absent = {} THEN PTSIZE - 1 ELSE Min(absent)
        t == IF absent = {} THEN Pde(p, j).base ELSE Pde(p, j - 1).base
        valid == {k \in Index : ent[At(t, k)].avail = 3}
    IN  IF valid = {}
        THEN XPDE * PTSIZE + NFFS + SYSFRAMES + t
        ELSE j * PTSIZE + Max(valid)

\* Wrong ends of the loop, for comparison: one entry too many, one too few.
ToFreeAndNext(p, h) == SlotOf(p, h.page) .. SlotOf(p, h.page) + (h.bytes \div PAGE)
ToFreeButLast(p, h) == SlotOf(p, h.page) .. SlotOf(p, h.page) + (h.bytes \div PAGE) - 2

\* The entries to free are those that follow in memory.
ToFree(p, h) == SlotOf(p, h.page) .. SlotOf(p, h.page) + (h.bytes \div PAGE) - 1

Vfree(h) ==
    LET S == ToFree(currpid, h) IN
    /\ Does("vfree")
    /\ User(currpid)
    /\ h.page < Limit(currpid)
    /\ \A s \in S : s \in Slot /\ ent[s].avail = 3
    /\ ffs' = Unmapped(S)
    /\ ent' = Rewrite(S, Empty)
    /\ held' = [held EXCEPT ![currpid] = @ \ {h}]
    /\ UNCHANGED <<dir, cr3, prstate, currpid, intr, call>>

-----------------------------------------------------------------------------
(* Page faults                                                             *)

\* The process touches a page that its tables do not map.
Faults(v) == Does("touch") /\ cr3 = dir[currpid] /\ User(currpid)
                 /\ ~Present(currpid, v)

\* pagefault_handler, for a page that vmalloc has allocated: the first free
\* frame.  Without a free frame it returns, and the access faults again.
MapPage(v) ==
    /\ Faults(v)
    /\ Allocated(currpid, v)
    /\ FreeFfs # {}
    /\ LET k == Min(FreeFfs) IN
       /\ ent' = [ent EXCEPT ![SlotOf(currpid, v)] =
                                [pres |-> TRUE, avail |-> @.avail, base |-> k]]
       /\ ffs' = [ffs EXCEPT ![k] = 3]
    /\ UNCHANGED <<dir, cr3, procVars>>

\* SEGMENTATION_FAULT
SegFault(v) ==
    /\ Faults(v)
    /\ ~Allocated(currpid, v)
    /\ prstate' = [prstate EXCEPT ![currpid] = "PR_FREE"]
    /\ Dies
    /\ UNCHANGED <<dir, intr>>

-----------------------------------------------------------------------------

\* What a process does with its own memory, while the PT area has a free frame.
UserNext ==
    \/ \E p \in Pid : Switch(p) \/ Vcreate(p)
    \/ Exit
    \/ Vmalloc \/ VmallocFaults \/ VmallocRest
    \/ \E h \in held[currpid] : Vfree(h)
    \/ \E v \in UserPage : MapPage(v) \/ SegFault(v)

Next ==
    \/ UserNext
    \/ \E p \in Pid : KillOther(p) \/ VcreateRunsOff(p)
    \/ VcreateFails

Spec == Init /\ [][Next]_vars

\* The behaviours without the end of another process and without a vcreate that
\* fails: those of an instance with UserCalls and a PT area that is large enough.
UserSpec == Init /\ [][UserNext]_vars

-----------------------------------------------------------------------------
(* Properties.                                                             *)

TypeOK ==
    /\ ent \in [Slot -> Entry]
    /\ ffs \in [Ffs -> {2, 3}]
    /\ dir \in [Pid -> Frame \cup {SYSTEM}]
    /\ cr3 \in Frame \cup {SYSTEM}
    /\ prstate \in [Pid -> {"PR_FREE", "eligible", "stranded"}]
    /\ currpid \in Pid
    /\ intr \in [Pid -> BOOLEAN]
    /\ call \in [Pid -> [bytes : Nat, saved : Frame \cup {SYSTEM}]]
    /\ held \in [Pid -> SUBSET [page : UserPage, bytes : Requests]]

Users == {p \in Pid : User(p)}

\* The pages that have a frame, with the process they belong to.
Mapped == {m \in Users \X UserPage : Present(m[1], m[2])}

\* A frame of the FFS area is the memory of one page of one process, and the
\* page fault handler does not take it for free.
FramesExclusive ==
    /\ \A m, o \in Mapped :
           m # o => FrameOf(m[1], m[2]) # FrameOf(o[1], o[2])
    /\ \A m \in Mapped :
           ffs[FrameOf(m[1], m[2])] = 3 /\ Allocated(m[1], m[2])

\* No frame of the PT area is the directory or a table of two processes, or
\* twice of one, and none of them looks free.
TablesExclusive ==
    \A p \in Users :
        /\ \A f \in Tables(p) \cup {dir[p]} : ent[At(f, 0)].avail # 0
        /\ dir[p] \notin Tables(p)
        /\ Cardinality(Tables(p)) = Cardinality({i \in UserPde : Pde(p, i).pres})
        /\ \A q \in Users \ {p} :
              (Tables(p) \cup {dir[p]}) \cap (Tables(q) \cup {dir[q]}) = {}

\* "When a process is terminated, the page table of the process is released.
\* This also includes any used free frame spaces" (project4_design.docx): a
\* frame that is not free belongs to a process.
NothingLost ==
    /\ \A k \in Ffs :
          ffs[k] = 3 => \E m \in Mapped : FrameOf(m[1], m[2]) = k
    /\ \A f \in Frame \ Junk :
          ~TableFree(f) => \E p \in Users : f \in Tables(p) \cup {dir[p]}

\* A process runs its own code with its own directory, whatever system calls
\* it has made.
OwnDirectory == call[currpid] = InUserCode => cr3 = dir[currpid]

\* Nobody but a process itself ends its vmalloc, with an address or SYSERR.
VmallocReturns ==
    [][call[currpid].bytes > 0 /\ currpid' # currpid
           => prstate'[currpid] = "eligible"]_vars

\* No frame serves two purposes, and none that serves one looks free.
PagesExclusive ==
    /\ TypeOK
    /\ TablesExclusive
    /\ FramesExclusive

=============================================================================
