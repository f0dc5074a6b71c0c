------------------------------- MODULE BufPool -------------------------------
(***************************************************************************)
(* Buffer pools.  The first word of a buffer holds the link to the next    *)
(* free buffer while the buffer is free, and the number of its pool while  *)
(* somebody has it.  A semaphore counts the free buffers; getbuf takes the *)
(* first one after its wait without looking at the result of wait or at    *)
(* the list.  Pools are made, never deleted.                               *)
(***************************************************************************)
EXTENDS SemOps, FiniteSetsExt, SequencesExt

CONSTANTS
    BpProc,     \* processes
    NBPOOLS,    \* entries of the pool table
    BpMem,      \* buffers the heap has room for
    BpSems,     \* entries left in the semaphore table
    BpSizes     \* numbers of buffers mkbufpool is called with

BpId == 0 .. NBPOOLS - 1
Buf == 1 .. BpMem
NoBuf == 0

ASSUME BufPoolAssumption ==
    /\ NBPOOLS \in Nat \ {0}
    /\ BpMem \in Nat /\ BpSems \in Nat
    /\ BpSizes \subseteq Nat

VARIABLES
    nbpools,
    bpnext, bpsem,  \* buftab
    bpword,         \* first word of each buffer: [link |-> b] or [pool |-> i]
    bpfresh,        \* the buffers whose memory the heap still has
    bpheld,         \* the buffers each process has
    bpget           \* pool of the getbuf a process is in, or -1

bpVars == <<nbpools, bpnext, bpsem, bpword, bpfresh, bpheld, bpget>>

Link(b) == [is |-> "link", of |-> b]
InPool(i) == [is |-> "pool", of |-> i]

BpInit ==
    /\ nbpools = 0
    /\ bpnext = [i \in BpId |-> NoBuf]
    /\ bpsem = [i \in BpId |-> NoSem]
    /\ bpword = [b \in Buf |-> Link(NoBuf)]
    /\ bpfresh = Buf
    /\ bpheld = [p \in BpProc |-> {}]
    /\ bpget = [p \in BpProc |-> -1]

-----------------------------------------------------------------------------

BpCalls(p) == bpget[p] = -1

\* n buffers that follow each other in memory.
Runs(n) == {r \in SUBSET bpfresh : Cardinality(r) = n
                                   /\ Max(r) - Min(r) = n - 1}

\* The buffers are linked in the order of addresses.  Without a semaphore the
\* memory and the number of the pool are given back, but not the head of the
\* list and not the size.
mkbufpool(p, n) ==
    LET i == nbpools IN
    /\ BpCalls(p)
    /\ n >= 1 /\ nbpools < NBPOOLS
    /\ Runs(n) # {}
    /\ LET r == CHOOSE r \in Runs(n) : \A q \in Runs(n) : Min(r) <= Min(q) IN
       /\ bpnext' = [bpnext EXCEPT ![i] = Min(r)]
       /\ \/ /\ Cardinality({j \in BpId : bpsem[j].used}) = BpSems
             /\ UNCHANGED <<nbpools, bpsem, bpword, bpfresh>>
          \/ /\ Cardinality({j \in BpId : bpsem[j].used}) < BpSems
             /\ bpsem' = [bpsem EXCEPT ![i] = SemCreated(n)]
             /\ nbpools' = nbpools + 1
             /\ bpfresh' = bpfresh \ r
             /\ bpword' = [b \in Buf |->
                              IF b \notin r THEN bpword[b]
                              ELSE Link(IF b = Max(r) THEN NoBuf ELSE b + 1)]
    /\ UNCHANGED <<bpheld, bpget>>

\* The word of a buffer that is given out; left as it is, for comparison.
StampNot(b, i) == bpword[b]

Stamp(b, i) == InPool(i)

\* The part of getbuf behind the wait.
Unlink(p, i, sem) ==
    LET b == bpnext[i] IN
    /\ bpsem' = [bpsem EXCEPT ![i] = sem]
    /\ bpnext' = [bpnext EXCEPT ![i] = bpword[b].of]
    /\ bpword' = [bpword EXCEPT ![b] = Stamp(b, i)]
    /\ bpheld' = [bpheld EXCEPT ![p] = @ \cup {b}]
    /\ bpget' = [bpget EXCEPT ![p] = -1]
    /\ UNCHANGED <<nbpools, bpfresh>>

getbuf(p, i) ==
    /\ BpCalls(p)
    /\ i < nbpools
    /\ \/ /\ Blocks(bpsem[i])
          /\ bpsem' = [bpsem EXCEPT ![i] = Waited(@, p)]
          /\ bpget' = [bpget EXCEPT ![p] = i]
          /\ UNCHANGED <<nbpools, bpnext, bpword, bpfresh, bpheld>>
       \/ /\ ~Blocks(bpsem[i])
          /\ Unlink(p, i, Waited(bpsem[i], p))

getbufGoesOn(p) ==
    /\ bpget[p] # -1
    /\ ~Waits(bpsem[bpget[p]], p)
    /\ Unlink(p, bpget[p], bpsem[bpget[p]])

\* Wrong versions of freebuf's end, for comparison: the buffer is not linked
\* to the others, and no process is told.
LinkAlone(b, i) ==
    /\ bpword' = [bpword EXCEPT ![b] = Link(NoBuf)]
    /\ bpnext' = [bpnext EXCEPT ![i] = b]

LinkIn(b, i) ==
    /\ bpword' = [bpword EXCEPT ![b] = Link(bpnext[i])]
    /\ bpnext' = [bpnext EXCEPT ![i] = b]

TellNobody(i) == [bpsem[i] EXCEPT !.count = @ + 1]
TellNext(i) == Signalled(bpsem[i])

\* The pool is read from the word before the buffer.  A process frees only
\* what it has.
freebuf(p, b) ==
    LET i == bpword[b].of IN
    /\ BpCalls(p)
    /\ b \in bpheld[p]
    /\ i < nbpools
    /\ LinkIn(b, i)
    /\ bpsem' = [bpsem EXCEPT ![i] = TellNext(i)]
    /\ bpheld' = [bpheld EXCEPT ![p] = @ \ {b}]
    /\ UNCHANGED <<nbpools, bpfresh, bpget>>

\* A buffer may be handed to another process, as the packets of the network
\* input are: the one that frees it is not the one that got it.
handover(p, q, b) ==
    /\ p # q /\ b \in bpheld[p]
    /\ BpCalls(p)
    /\ bpheld' = [bpheld EXCEPT ![p] = @ \ {b}, ![q] = @ \cup {b}]
    /\ UNCHANGED <<nbpools, bpnext, bpsem, bpword, bpfresh, bpget>>

BpNext ==
    \E p \in BpProc :
        \/ \E n \in BpSizes : mkbufpool(p, n)
        \/ \E i \in BpId : getbuf(p, i)
        \/ getbufGoesOn(p)
        \/ \E b \in Buf : freebuf(p, b)
        \/ \E q \in BpProc, b \in Buf : handover(p, q, b)

freebufTo(i) ==
    \E p \in BpProc, b \in Buf : bpword[b] = InPool(i) /\ freebuf(p, b)

\* Processes go on after their wait, and buffers of each pool are freed again
\* and again, as long as those who have them do not all wait themselves.
BpFairness ==
    /\ \A p \in BpProc : WF_bpVars(getbufGoesOn(p))
    /\ \A i \in BpId : SF_bpVars(freebufTo(i))

BpSpec == BpInit /\ [][BpNext]_bpVars /\ BpFairness

-----------------------------------------------------------------------------

\* The buffers on the links of the words w from buffer b, at most k of them.
Linked(w) ==
    LET from[k \in 0 .. BpMem] ==
            [b \in 0 .. BpMem |->
                IF k = 0 \/ b = NoBuf THEN <<>>
                ELSE <<b>> \o from[k - 1][IF w[b].is = "link" THEN w[b].of ELSE NoBuf]]
    IN  from

\* The free buffers of pool i, in list order; a list that does not end is cut.
BpChain(i) == Linked(bpword)[BpMem][bpnext[i]]

Made == 0 .. nbpools - 1

BpHanded(i) == {p \in BpProc : bpget[p] = i /\ ~Waits(bpsem[i], p)}

\* The variables have their types and the semaphores are sound.
BpTypeOK ==
    /\ nbpools \in 0 .. NBPOOLS
    /\ bpnext \in [BpId -> Buf \cup {NoBuf}]
    /\ \A i \in BpId : SemOK(bpsem[i])
    /\ bpheld \in [BpProc -> SUBSET Buf]
    /\ bpfresh \subseteq Buf

\* Every buffer is with the heap, on the list of one pool, or with one
\* process, and in exactly one of these places.
BuffersConserved ==
    \A b \in Buf :
        Cardinality({p \in BpProc : b \in bpheld[p]})
        + Cardinality({x \in Made \X Buf :
                          /\ x[2] \in DOMAIN BpChain(x[1])
                          /\ BpChain(x[1])[x[2]] = b})
        + (IF b \in bpfresh THEN 1 ELSE 0) = 1

\* The semaphore counts the free buffers that are not promised to a process
\* that was released: getbuf, which tests nothing after its wait, finds one.
BuffersCounted ==
    \A i \in Made :
        bpsem[i].count + Len(bpsem[i].queue) + Cardinality(BpHanded(i))
            = Len(BpChain(i))

\* A buffer in use names a pool that exists, so that freebuf takes it back:
\* the pool is not known otherwise (freebuf.c:23).
BuffersKnowTheirPool ==
    \A p \in BpProc : \A b \in bpheld[p] :
        bpword[b].is = "pool" /\ bpword[b].of \in Made

\* Every buffer is free or held by one process and goes back where it came
\* from, and the semaphore of a pool promises no more than the pool has.
BpInv ==
    /\ BpTypeOK
    /\ BuffersConserved
    /\ BuffersCounted
    /\ BuffersKnowTheirPool

\* A process that waits for a buffer gets one if those who have buffers
\* free them, and nobody overtakes it for ever; or all buffers of the pool
\* are with processes that wait for a buffer themselves.
GetbufReturns ==
    \A p \in BpProc :
        bpget[p] # -1 ~>
            \/ bpget[p] = -1
            \/ /\ bpnext[bpget[p]] = NoBuf
               /\ \A q \in BpProc :
                     (\E b \in bpheld[q] : bpword[b] = InPool(bpget[p]))
                         => bpget[q] # -1

=============================================================================
