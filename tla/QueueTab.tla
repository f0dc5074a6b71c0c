------------------------------- MODULE QueueTab -------------------------------
(***************************************************************************)
(* queuetab: doubly linked lists in one table of nodes, one node for each  *)
(* process and a head and a tail node for each queue.  The functions of    *)
(* queue.c, newqueue.c, getitem.c, insert.c and insertd.c, link by link,   *)
(* and unsleep.c.  They check next to nothing: that a process is on no     *)
(* queue when it is put on one, and on one when it is taken off, is up to  *)
(* the callers (QueuesMatchStates of module Kernel).                       *)
(***************************************************************************)
EXTENDS QueueOps

CONSTANTS
    NPROC, NSEM,
    Keys,       \* priorities given to insert
    Delays      \* delays given to insertd

ASSUME QueueTabAssumption ==
    NPROC \in Nat \ {0} /\ NSEM \in Nat /\ Keys \subseteq Nat /\ Delays \subseteq Nat

NQENT == NPROC + 4 + NSEM + NSEM
EMPTY == -1
Inf == 1000                     \* stands for the limits of int32
MAXKEY == Inf
MINKEY == -Inf
MinDelta == 0                   \* bound: the clock stops there, wakeup follows

Proc == 0 .. NPROC - 1
Node == 0 .. NQENT - 1
Heads == {NPROC + 2 * i : i \in 0 .. NSEM + 1}

\* The order in which sysinit and clkinit call newqueue.
FifoQs == {NPROC + 2 * i : i \in 0 .. NSEM - 1}
ReadyQ == NPROC + 2 * NSEM
SleepQ == ReadyQ + 2

VARIABLES qnext, qprev, key, nextqid

tabVars == <<qnext, qprev, key, nextqid>>

queuehead(q) == q
queuetail(q) == q + 1
firstid(q) == qnext[queuehead(q)]
lastid(q) == qprev[queuetail(q)]
isempty(q) == firstid(q) >= NPROC

\* The first processes on the links nx from node n, at most i of them.
Follow(nx) ==
    LET from[i \in 0 .. NPROC] ==
            [n \in Node \cup {EMPTY} |->
                IF i = 0 \/ n \notin Proc THEN <<>> ELSE <<n>> \o from[i - 1][nx[n]]]
    IN  from

\* The entries of queue q along the links nx: a list has at most NPROC of them.
Entries(nx, q) == Follow(nx)[NPROC][nx[queuehead(q)]]

\* The entries of queue q, following qnext from its head.
Chain(q) == Entries(qnext, q)

OnQueue(p) == \E q \in Heads : p \in Range(Chain(q))

Init ==
    /\ qnext = [n \in Node |-> 0]
    /\ qprev = [n \in Node |-> 0]
    /\ key = [n \in Node |-> 0]
    /\ nextqid = NPROC

\* sysinit has created its queues.
Booted == nextqid >= NQENT

\* A wrong newqueue, for comparison: the table has no end.
newqueueUnchecked ==
    LET q == nextqid IN
    /\ nextqid' = q + 2
    /\ qnext' = [qnext EXCEPT ![queuehead(q)] = queuetail(q), ![queuetail(q)] = EMPTY]
    /\ qprev' = [qprev EXCEPT ![queuehead(q)] = EMPTY, ![queuetail(q)] = queuehead(q)]
    /\ UNCHANGED key

newqueue ==
    LET q == nextqid IN
    /\ q < NQENT
    /\ nextqid' = q + 2
    /\ qnext' = [qnext EXCEPT ![queuehead(q)] = queuetail(q), ![queuetail(q)] = EMPTY]
    /\ qprev' = [qprev EXCEPT ![queuehead(q)] = EMPTY, ![queuetail(q)] = queuehead(q)]
    /\ key' = [key EXCEPT ![queuehead(q)] = MAXKEY, ![queuetail(q)] = MINKEY]

-----------------------------------------------------------------------------

\* Three of them, for comparison.
LinkForwards(p, prev, curr) ==
    /\ qnext' = [qnext EXCEPT ![p] = curr, ![prev] = p]
    /\ qprev' = [qprev EXCEPT ![p] = prev]

\* The four assignments that put p between prev and curr.
Link(p, prev, curr) ==
    /\ qnext' = [qnext EXCEPT ![p] = curr, ![prev] = p]
    /\ qprev' = [qprev EXCEPT ![p] = prev, ![curr] = p]

\* while (qkey[curr] >= k) curr = qnext[curr]: the tail's key ends the walk, so
\* that it has passed at most NPROC entries.
insertWalk(q, k) ==
    LET at[i \in 0 .. NPROC] ==
            IF i = 0 THEN firstid(q)
            ELSE LET curr == at[i - 1] IN IF key[curr] >= k THEN qnext[curr] ELSE curr
    IN  at

insert(p, q, k) ==
    LET curr == insertWalk(q, k)[NPROC] IN
    /\ Booted /\ ~OnQueue(p)
    /\ Link(p, qprev[curr], curr)
    /\ key' = [key EXCEPT ![p] = k]
    /\ UNCHANGED nextqid

\* The walk of insertd: the entries it is between, and the delay that is left.
insertdWalk(q, delay) ==
    LET at[i \in 0 .. NPROC] ==
            IF i = 0
            THEN [prev |-> queuehead(q), next |-> firstid(q), left |-> delay]
            ELSE LET w == at[i - 1] IN
                 IF w.next # queuetail(q) /\ key[w.next] <= w.left
                 THEN [prev |-> w.next, next |-> qnext[w.next],
                       left |-> w.left - key[w.next]]
                 ELSE w
    IN  at

insertd(p, q, delay) ==
    LET w == insertdWalk(q, delay)[NPROC] IN
    /\ Booted /\ ~OnQueue(p)
    /\ Link(p, w.prev, w.next)
    /\ key' = [n \in Node |-> IF n = p THEN w.left
                              ELSE IF n = w.next /\ n # queuetail(q)
                                   THEN key[n] - w.left ELSE key[n]]
    /\ UNCHANGED nextqid

enqueue(p, q) ==
    /\ Booted /\ ~OnQueue(p)
    /\ Link(p, lastid(q), queuetail(q))
    /\ UNCHANGED <<key, nextqid>>

-----------------------------------------------------------------------------

\* getitem relinks the neighbours; the node keeps its links.
getitem(p) ==
    /\ qnext' = [qnext EXCEPT ![qprev[p]] = qnext[p]]
    /\ qprev' = [qprev EXCEPT ![qnext[p]] = qprev[p]]

RemoveItem(p, q) ==
    /\ Booted /\ q # SleepQ /\ p \in Range(Chain(q))
    /\ getitem(p)
    /\ UNCHANGED <<key, nextqid>>

getfirst(q) ==
    /\ Booted /\ ~isempty(q)
    /\ getitem(firstid(q))
    /\ UNCHANGED <<key, nextqid>>

getlast(q) ==
    /\ Booted /\ ~isempty(q)
    /\ getitem(lastid(q))
    /\ UNCHANGED <<key, nextqid>>

\* dequeue is getfirst, and clears the links of the node.
dequeue(q) ==
    LET p == firstid(q) IN
    /\ Booted /\ ~isempty(q)
    /\ qnext' = [qnext EXCEPT ![qprev[p]] = qnext[p], ![p] = EMPTY]
    /\ qprev' = [qprev EXCEPT ![qnext[p]] = qprev[p], ![p] = EMPTY]
    /\ UNCHANGED <<key, nextqid>>

\* A wrong unsleep, for comparison: the next entry keeps its key.
unsleepOnly(p) ==
    /\ Booted /\ p \in Range(Chain(SleepQ))
    /\ getitem(p)
    /\ UNCHANGED <<key, nextqid>>

unsleep(p) ==
    /\ Booted /\ p \in Range(Chain(SleepQ))
    /\ key' = IF qnext[p] < NPROC THEN [key EXCEPT ![qnext[p]] = @ + key[p]] ELSE key
    /\ getitem(p)
    /\ UNCHANGED nextqid

\* clkhandler: --queuetab[firstid(sleepq)].qkey
TickFirst ==
    /\ Booted /\ ~isempty(SleepQ)
    /\ key[firstid(SleepQ)] > MinDelta
    /\ key' = [key EXCEPT ![firstid(SleepQ)] = @ - 1]
    /\ UNCHANGED <<qnext, qprev, nextqid>>

-----------------------------------------------------------------------------

Next ==
    \/ newqueue
    \/ \E p \in Proc :
          \/ \E k \in Keys : insert(p, ReadyQ, k)
          \/ \E d \in Delays : insertd(p, SleepQ, d)
          \/ \E q \in FifoQs : enqueue(p, q)
          \/ \E q \in Heads : RemoveItem(p, q)
          \/ unsleep(p)
    \/ \E q \in Heads : dequeue(q)
    \/ \E q \in FifoQs : getfirst(q) \/ getlast(q)
    \/ TickFirst

Spec == Init /\ [][Next]_tabVars

TypeOK ==
    /\ qnext \in [Node -> Node \cup {EMPTY}]
    /\ qprev \in [Node -> Node \cup {EMPTY}]
    /\ key \in [Node -> Int]
    /\ nextqid \in NPROC .. NQENT

\* The lists can be walked both ways: on a queue, the links of neighbours
\* point at each other, from the head to the tail.
LinkedBothWays ==
    Booted =>
        \A q \in Heads :
            LET path == <<queuehead(q)>> \o Chain(q) \o <<queuetail(q)>>
            IN  \A i \in 1 .. Len(path) - 1 :
                    qnext[path[i]] = path[i + 1] /\ qprev[path[i + 1]] = path[i]

\* No process is on two queues.
OnOneQueue ==
    Booted => \A q, r \in Heads :
                  q # r => Range(Chain(q)) \cap Range(Chain(r)) = {}

\* The table implements the queues of module Queues.
lists == [q \in Heads |-> IF q < nextqid THEN Chain(q) ELSE <<>>]

AsQueues == INSTANCE Queues WITH
    list <- lists,
    key  <- [p \in Proc |-> key[p]]

ImplementsQueues == AsQueues!Spec

\* Whatever is called, in the table as it is after the start: every chain of
\* links is a list in both directions, of processes that are on no other.
TableOK ==
    /\ TypeOK
    /\ LinkedBothWays

=============================================================================
