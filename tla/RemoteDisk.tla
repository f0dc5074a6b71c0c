----------------------------- MODULE RemoteDisk -----------------------------
(***************************************************************************)
(* The remote disk.  A process that reads or writes a block looks into the *)
(* cache and the queue of requests, puts a request into the queue, signals *)
(* the communication process and suspends itself.  The communication       *)
(* process takes one request after the other, exchanges messages with the  *)
(* server and resumes the process.  It has a higher priority than the      *)
(* others (RD_PRIO): what it does from one exchange to the next is one     *)
(* step, and the others run while it waits.                                *)
(*                                                                         *)
(* The network loses, delays, repeats and reorders messages: a request     *)
(* that was sent may reach the server at any later time, any number of     *)
(* times or never, also when its exchange has long ended, and so may the   *)
(* answers.  The server is external: it does every request it gets.        *)
(*                                                                         *)
(* The device does not survive all uses.  rdspoilt tells that              *)
(*   "sync"   a sync request was put behind others, without a link to it   *)
(*            (rdscontrol.c:69): it is not served, and it hides what       *)
(*            comes later;                                                 *)
(*   "freed"  the search for a write got to a node that had left the queue *)
(*            (rd_prev of the new head is kept, rdsqfcns.c:29);            *)
(*   "late"   an answer to an earlier request was taken (rdscomm.c:96);    *)
(*   "loop"   the communication process loops for good                     *)
(*            (rdsprocess.c:138).                                          *)
(* Nothing is explored behind that.                                        *)
(***************************************************************************)
EXTENDS Integers, FiniteSetsExt, SequencesExt

CONSTANTS
    RdProc,         \* processes
    RD_QNODES, RD_CNODES, RD_RETRIES,
    RdBlk, RdData,  \* blocks of the disk and what they may hold
    RdOps,          \* what is called: "read", "write" and "sync"
    MaxRdCalls      \* bound on the number of calls

ASSUME RdAssumption ==
    /\ {RD_QNODES, RD_CNODES, RD_RETRIES} \subseteq Nat \ {0}
    /\ RD_QNODES >= Cardinality(RdProc)
    /\ RdOps \subseteq {"read", "write", "sync"}
    /\ MaxRdCalls \in Nat
    /\ 0 \in RdData

VARIABLES
    rdstate, rdseq, rdcalls,
    rdcache,                    \* the cache, from head to tail
    rdqhead, rdqtail, rdqfree, rdnode,      \* request queue and its nodes
    rdcomsem,                   \* the count of rd_comsem
    rdcomm,                     \* what the communication process does
    rdcall, rdbuf,              \* processes and their buffers
    rdserver,                   \* the disk
    rdrequests, rdreplies,      \* what was sent and may come to the server, and
                                \* answers that may come back
    rdspoilt,
    rdlast, rdlate, rdmay       \* observed: the last write to each block, what
                                \* late copies of earlier writes put there since
                                \* then, and what the call of a process may read

rdqVars == <<rdqhead, rdqtail, rdqfree, rdnode>>
rdVars == <<rdstate, rdseq, rdcalls, rdcache, rdqVars, rdcomsem, rdcomm, rdcall, rdbuf,
            rdserver, rdrequests, rdreplies, rdspoilt, rdlast, rdlate, rdmay>>

NULL == 0
RdNode == 1 .. RD_QNODES

RdIdle == [op |-> "idle"]
RdWaits == [op |-> "wait"]

RdInit ==
    /\ rdstate = "closed"
    /\ rdseq = 1 /\ rdcalls = 0
    /\ rdcache = <<>>
    /\ rdqhead = NULL /\ rdqtail = NULL
    /\ rdqfree = 1
    /\ rdnode = [n \in RdNode |->
                   [next |-> IF n = RD_QNODES THEN NULL ELSE n + 1, prev |-> NULL,
                    op |-> "none", blk |-> NULL, pid |-> NULL]]
    /\ rdcomsem = 0
    /\ rdcomm = RdIdle
    /\ rdcall = [p \in RdProc |-> RdIdle]
    /\ rdbuf = [p \in RdProc |-> 0]
    /\ rdserver = [b \in RdBlk |-> Max(RdData)]
    /\ rdrequests = {} /\ rdreplies = {}
    /\ rdspoilt = "no"
    /\ rdlast = [b \in RdBlk |-> Max(RdData)]
    /\ rdlate = [b \in RdBlk |-> {}]
    /\ rdmay = [p \in RdProc |-> {}]

-----------------------------------------------------------------------------
(* The queue, as a record q of its pointers and nodes.                     *)

RdQ == [head |-> rdqhead, tail |-> rdqtail, free |-> rdqfree, node |-> rdnode]

RdQBecomes(q) ==
    rdqhead' = q.head /\ rdqtail' = q.tail /\ rdqfree' = q.free /\ rdnode' = q.node

RdFreed(q, n) == [q EXCEPT !.node[n].next = q.free, !.free = n]

\* The wrong one for comparison loses the rest of the queue.
RdUnlinkAll(q, n) == RdFreed([q EXCEPT !.head = NULL, !.tail = NULL], n)

\* rdqunlink; the new head keeps the link to its predecessor.
rdqunlink(q, n) ==
    LET next == q.node[n].next  prev == q.node[n].prev IN
    RdFreed(IF n = q.head /\ n = q.tail THEN [q EXCEPT !.head = NULL, !.tail = NULL]
            ELSE IF n = q.head THEN [q EXCEPT !.head = next]
            ELSE IF n = q.tail THEN [q EXCEPT !.tail = prev, !.node[prev].next = NULL]
            ELSE [q EXCEPT !.node[prev].next = next, !.node[next].prev = prev], n)

\* A node is taken from the free list and put behind the tail: rdqinsert, and
\* the same in rdsread.
rdqinsert(q, op, b, p) ==
    LET n == q.free
        filled == [q EXCEPT !.free = q.node[n].next,
                            !.node[n] = [next |-> NULL, prev |-> q.tail,
                                         op |-> op, blk |-> b, pid |-> p],
                            !.tail = n]
    IN  IF q.tail = NULL THEN [filled EXCEPT !.head = n]
                         ELSE [filled EXCEPT !.node[q.tail].next = n]

RdReadInsert(q, b, p) ==
    LET inserted == rdqinsert(q, "read", b, p) IN
    IF q.head = NULL THEN [inserted EXCEPT !.head = q.free, !.node[q.free].prev = NULL]
                     ELSE inserted

\* The same in rdscontrol, which does not link the tail to the node.
RdSyncInsert(q, p) ==
    LET n == q.free IN
    [q EXCEPT !.free = q.node[n].next,
              !.node[n] = [next |-> NULL, prev |-> q.tail, op |-> "sync",
                           blk |-> NULL, pid |-> p],
              !.tail = n]

\* The nodes of the queue, from head to tail.
RdQueue(q) ==
    LET l[n \in Nat] ==
            IF n = 0 THEN IF q.head = NULL THEN <<>> ELSE <<q.head>>
            ELSE IF Len(l[n - 1]) = n /\ q.node[Last(l[n - 1])].next # NULL
              THEN Append(l[n - 1], q.node[Last(l[n - 1])].next) ELSE l[n - 1]
    IN  l[RD_QNODES]

RdFreeNodes(q) == RdQueue([q EXCEPT !.head = q.free])

\* The search backward in rdsread: the last node for b, or NULL; after too
\* many steps it is in a cycle.
RdSearch(q, b) ==
    LET at[k \in Nat] ==
            IF k = 0 THEN q.tail
            ELSE IF at[k - 1] = NULL \/ q.node[at[k - 1]].blk = b THEN at[k - 1]
            ELSE q.node[at[k - 1]].prev
    IN  at[RD_QNODES + 1]

-----------------------------------------------------------------------------
(* The exchange with the server: rdscomm, from udp_send to udp_recv.        *)

RdCanRun == rdspoilt = "no" /\ rdcomm.op # "panic"

\* All transmissions of exchange c are alike; what was sent stays on its way.
RdTransmit(c) == rdrequests' = rdrequests \cup {[c EXCEPT !.try = 1]}

\* A new exchange: the next sequence number, and the first transmission.
RdExchange(op, b, data) ==
    LET c == [op |-> op, blk |-> b, data |-> data, seq |-> rdseq, try |-> 1] IN
    /\ rdseq' = rdseq + 1
    /\ rdcomm' = c
    /\ RdTransmit(c)

\* A reply with an earlier number is only not followed by another
\* transmission: it is accepted if it has the right type.
RdAccepts(r) == r.op = rdcomm.op /\ r.seq <= rdcomm.seq

\* Nothing came in RD_TIMEOUT, or an earlier reply r of another type, which is
\* dropped.  The request is sent again only after a timeout.
RdOneMore(replies, sends) ==
    /\ rdcomm.try < RD_RETRIES
    /\ rdcomm' = [rdcomm EXCEPT !.try = @ + 1]
    /\ IF sends THEN RdTransmit(rdcomm) ELSE UNCHANGED rdrequests
    /\ rdreplies' = replies
    /\ UNCHANGED rdstate

\* RD_RETRIES times.  An open fails; the communication process panics.
RdGivesUp(replies) ==
    /\ rdcomm.try = RD_RETRIES
    /\ rdstate' = IF rdcomm.op = "open" THEN "closed" ELSE rdstate
    /\ rdcomm' = IF rdcomm.op = "open" THEN RdIdle ELSE [op |-> "panic"]
    /\ rdreplies' = replies
    /\ UNCHANGED rdrequests

udp_recv ==
    /\ RdCanRun
    /\ rdcomm.op \in {"open", "read", "write"}
    /\ \/ RdOneMore(rdreplies, TRUE) \/ RdGivesUp(rdreplies)
       \/ \E r \in rdreplies :
             /\ ~RdAccepts(r)
             /\ RdOneMore(rdreplies \ {r}, FALSE) \/ RdGivesUp(rdreplies \ {r})
    /\ UNCHANGED <<rdcalls, rdseq, rdcache, rdqVars, rdcomsem, rdcall, rdbuf, rdserver,
                   rdspoilt, rdlast, rdlate, rdmay>>

RdReply(op, r) ==
    /\ RdCanRun
    /\ rdcomm.op = op
    /\ r \in rdreplies
    /\ RdAccepts(r)
    /\ rdreplies' = rdreplies \ {r}

RdSpoiltBy(r) == rdspoilt' = IF r.seq < rdcomm.seq THEN "late" ELSE "no"

\* The calls that read b may also read data.
RdMayRead(b, data) ==
    [q \in RdProc |-> IF rdcall[q].op = "read" /\ rdcall[q].blk = b THEN rdmay[q] \cup {data}
                                                                   ELSE rdmay[q]]

\* A request comes to the server.  It is late if it puts back what a newer
\* write has replaced.
RdServe(c) ==
    LET late == c.op = "write" /\ c.data # rdlast[c.blk] IN
    /\ RdCanRun
    /\ rdserver' = IF c.op = "write" THEN [rdserver EXCEPT ![c.blk] = c.data] ELSE rdserver
    /\ rdreplies' = rdreplies \cup
         {[op |-> c.op, seq |-> c.seq, data |-> IF c.op = "read" THEN rdserver[c.blk] ELSE 0]}
    /\ rdlate' = IF late THEN [rdlate EXCEPT ![c.blk] = @ \cup {c.data}] ELSE rdlate
    /\ rdmay' = IF late THEN RdMayRead(c.blk, c.data) ELSE rdmay
    /\ UNCHANGED <<rdstate, rdseq, rdcalls, rdcache, rdqVars, rdcomsem, rdcomm, rdcall, rdbuf,
                   rdrequests, rdspoilt, rdlast>>

-----------------------------------------------------------------------------
(* rdsopen: one at a time, since the state is RD_PEND until it ends.        *)

\* Bound: MaxRdCalls calls.
RdCounted == rdcalls < MaxRdCalls /\ rdcalls' = rdcalls + 1

rdsopen ==
    /\ RdCanRun
    /\ rdstate = "closed"
    /\ rdstate' = "pending"
    /\ RdCounted
    /\ RdExchange("open", NULL, 0)
    /\ UNCHANGED <<rdcache, rdqVars, rdcomsem, rdcall, rdbuf, rdserver, rdreplies, rdspoilt,
                   rdlast, rdlate, rdmay>>

rdsopenDone(r) ==
    /\ RdReply("open", r)
    /\ rdstate' = "open"
    /\ rdcomm' = RdWaits
    /\ RdSpoiltBy(r)
    /\ UNCHANGED <<rdcalls, rdseq, rdcache, rdqVars, rdcomsem, rdcall, rdbuf, rdserver,
                   rdrequests, rdlast, rdlate, rdmay>>

-----------------------------------------------------------------------------
(* rdsread, rdswrite and rdscontrol.  The calls of the device switch run   *)
(* with interrupts disabled (read.c:19, write.c:19, control.c:20), and the *)
(* caller takes the highest priority before it signals: nobody runs from   *)
(* the look into the cache to the suspend.                                 *)

RdCallersRun == RdCanRun /\ ~(rdcomm = RdWaits /\ rdcomsem > 0)

RdCalls(p, op, b) ==
    /\ RdCallersRun
    /\ rdstate = "open"
    /\ op \in RdOps
    /\ rdcall[p] = RdIdle
    /\ RdCounted

RdCached(b) == {i \in DOMAIN rdcache : rdcache[i].blk = b}

\* Writes that were called and not yet taken from the queue.
RdWritten(b) ==
    {rdbuf[p] : p \in {p \in RdProc : rdcall[p].op = "write" /\ rdcall[p].blk = b
                                        /\ rdcall[p].at = "suspended"}}

RdCall(p, op, b, at) == rdcall' = [rdcall EXCEPT ![p] = [op |-> op, blk |-> b, at |-> at]]

\* The count after signal; the wrong one, for comparison, loses the signal.
RdSignalLost(n) == n

RdSignalled(n) == n + 1

\* The request is in the queue: signal and suspend.
RdSuspends(p, op, b) == rdcomsem' = RdSignalled(rdcomsem) /\ RdCall(p, op, b, "suspended")

\* A write of b was found; the wrong one, for comparison, takes a read for it.
RdHitAny(n, b) == n # NULL /\ rdnode[n].blk = b

RdHit(n, b) == n # NULL /\ rdnode[n].blk = b /\ rdnode[n].op = "write"

rdsread(p, b) ==
    LET n == RdSearch(RdQ, b)
        hit == RdHit(n, b)
        live == n \in Range(RdQueue(RdQ))
    IN  /\ RdCalls(p, "read", b)
        /\ rdmay' = [rdmay EXCEPT ![p] = {rdlast[b]} \cup rdlate[b] \cup RdWritten(b)]
        /\ \/ /\ RdCached(b) # {}
              /\ rdbuf' = [rdbuf EXCEPT ![p] = rdcache[Min(RdCached(b))].data]
              /\ RdCall(p, "read", b, "done")
              /\ UNCHANGED <<rdqVars, rdcomsem, rdspoilt>>
           \/ /\ RdCached(b) = {} /\ hit
              /\ rdbuf' = [rdbuf EXCEPT ![p] = rdbuf[rdnode[n].pid]]
              /\ RdCall(p, "read", b, "done")
              /\ rdspoilt' = IF live THEN "no" ELSE "freed"
              /\ UNCHANGED <<rdqVars, rdcomsem>>
           \/ /\ RdCached(b) = {} /\ ~hit
              /\ RdQBecomes(RdReadInsert(RdQ, b, p))
              /\ RdSuspends(p, "read", b)
              /\ rdspoilt' = IF n = NULL \/ rdnode[n].blk = b THEN "no" ELSE "loop"
              /\ UNCHANGED rdbuf
        /\ UNCHANGED <<rdstate, rdseq, rdcache, rdcomm, rdserver, rdrequests, rdreplies, rdlast,
                       rdlate>>

\* What a write leaves in the cache; the wrong one, for comparison, leaves all.
RdCacheKept(b) == rdcache

RdCacheWithout(b) == SelectSeq(rdcache, LAMBDA c : c.blk # b)

rdswrite(p, b, data) ==
    /\ RdCalls(p, "write", b)
    /\ rdcache' = RdCacheWithout(b)
    /\ rdbuf' = [rdbuf EXCEPT ![p] = data]
    /\ RdQBecomes(rdqinsert(RdQ, "write", b, p))
    /\ RdSuspends(p, "write", b)
    /\ rdmay' = RdMayRead(b, data)
    /\ UNCHANGED <<rdstate, rdseq, rdcomm, rdserver, rdrequests, rdreplies, rdspoilt, rdlast,
                   rdlate>>

\* RDS_CTL_SYNC; with an empty queue it returns at once.
rdscontrol(p) ==
    /\ RdCalls(p, "sync", NULL)
    /\ rdqhead # NULL
    /\ RdQBecomes(RdSyncInsert(RdQ, p))
    /\ RdSuspends(p, "sync", NULL)
    /\ rdspoilt' = "sync"
    /\ UNCHANGED <<rdstate, rdseq, rdcache, rdcomm, rdbuf, rdserver, rdrequests, rdreplies,
                   rdlast, rdlate, rdmay>>

\* (The buffer is not looked at after that.)
RdReturns(p) ==
    /\ RdCallersRun
    /\ rdcall[p].op # "idle" /\ rdcall[p].at = "done"
    /\ rdcall' = [rdcall EXCEPT ![p] = RdIdle]
    /\ rdmay' = [rdmay EXCEPT ![p] = {}]
    /\ rdbuf' = [rdbuf EXCEPT ![p] = 0]
    /\ UNCHANGED <<rdcalls, rdstate, rdseq, rdcache, rdqVars, rdcomsem, rdcomm, rdserver,
                   rdrequests, rdreplies, rdspoilt, rdlast, rdlate>>

-----------------------------------------------------------------------------
(* rdsprocess.  It waits; a request may have been satisfied early.  (It     *)
(* never finds a sync request: none is ever linked to the head.)            *)

RdTakes == RdCanRun /\ rdcomm = RdWaits /\ rdcomsem > 0 /\ rdcomsem' = rdcomsem - 1

\* resume for the processes ps
RdResumed(ps) ==
    [p \in RdProc |-> IF p \in ps /\ rdcall[p].at = "suspended"
                        THEN [rdcall[p] EXCEPT !.at = "done"] ELSE rdcall[p]]

rdsprocessNone ==
    /\ RdTakes
    /\ rdqhead = NULL
    /\ UNCHANGED <<rdcalls, rdstate, rdseq, rdcache, rdqVars, rdcomm, rdcall, rdbuf, rdserver,
                   rdrequests, rdreplies, rdspoilt, rdlast, rdlate, rdmay>>

rdsprocessRead ==
    /\ RdTakes
    /\ rdqhead # NULL /\ rdnode[rdqhead].op = "read"
    /\ RdExchange("read", rdnode[rdqhead].blk, 0)
    /\ UNCHANGED <<rdcalls, rdstate, rdcache, rdqVars, rdcall, rdbuf, rdserver, rdreplies,
                   rdspoilt, rdlast, rdlate, rdmay>>

\* The loop that looks for another write of the block looks only at the next
\* node.
RdLoops(n) ==
    LET next == rdnode[n].next IN
    next # NULL /\ ~(rdnode[next].op = "write" /\ rdnode[next].blk = rdnode[n].blk)

\* The wrong one for comparison drops nothing.
rdcinsertGrows(b, data) == <<[blk |-> b, data |-> data]>> \o rdcache

\* rdcinsert: at the head, and at the cost of the tail.
rdcinsert(b, data) ==
    <<[blk |-> b, data |-> data]>>
        \o (IF Len(rdcache) = RD_CNODES THEN Front(rdcache) ELSE rdcache)

\* The data go into the message and the cache, and the process goes on before
\* they are sent.
rdsprocessWrite ==
    LET n == rdqhead  b == rdnode[n].blk  p == rdnode[n].pid IN
    /\ RdTakes
    /\ n # NULL /\ rdnode[n].op = "write"
    /\ IF RdLoops(n)
         THEN /\ rdspoilt' = "loop"
              /\ UNCHANGED <<rdseq, rdcache, rdqVars, rdcomm, rdcall, rdrequests, rdlast, rdlate>>
         ELSE /\ rdcache' = IF rdnode[n].next = NULL THEN rdcinsert(b, rdbuf[p]) ELSE rdcache
              /\ RdQBecomes(rdqunlink(RdQ, n))
              /\ rdcall' = RdResumed({p})
              /\ rdspoilt' = "no"
              /\ rdlast' = [rdlast EXCEPT ![b] = rdbuf[p]]
              /\ rdlate' = [rdlate EXCEPT ![b] = {}]
              /\ RdExchange("write", b, rdbuf[p])
    /\ UNCHANGED <<rdcalls, rdstate, rdbuf, rdserver, rdreplies, rdmay>>

rdsprocessWritten(r) ==
    /\ RdReply("write", r)
    /\ rdcomm' = RdWaits
    /\ RdSpoiltBy(r)
    /\ UNCHANGED <<rdcalls, rdstate, rdseq, rdcache, rdqVars, rdcomsem, rdcall, rdbuf, rdserver,
                   rdrequests, rdlast, rdlate, rdmay>>

\* The reads of block b in the queue q up to the first write of it.
RdReads(q, b) ==
    LET l == RdQueue(q) IN
    {l[i] : i \in {i \in DOMAIN l : /\ q.node[l[i]].blk = b /\ q.node[l[i]].op = "read"
                                    /\ \A j \in 1 .. i : ~(/\ q.node[l[j]].blk = b
                                                           /\ q.node[l[j]].op = "write")}}

\* rdqunlink for the nodes ns, in the order of the queue.
RdUnlinkEach(q, ns) ==
    LET l == SelectSeq(RdQueue(q), LAMBDA n : n \in ns)
        done[k \in Nat] == IF k = 0 THEN q ELSE rdqunlink(done[k - 1], l[k])
    IN  done[Len(l)]

\* The read is done, and with it the other reads of the block.
rdsprocessReadDone(r) ==
    LET q == rdqunlink(RdQ, rdqhead)
        b == rdcomm.blk
        also == RdReads(q, b)
        ps == {rdnode[n].pid : n \in also \cup {rdqhead}}
    IN  /\ RdReply("read", r)
        /\ rdbuf' = [p \in RdProc |-> IF p \in ps THEN r.data ELSE rdbuf[p]]
        /\ rdcall' = RdResumed(ps)
        /\ RdQBecomes(RdUnlinkEach(q, also))
        /\ rdcomm' = RdWaits
        /\ RdSpoiltBy(r)
        /\ UNCHANGED <<rdcalls, rdstate, rdseq, rdcache, rdcomsem, rdserver, rdrequests, rdlast,
                       rdlate, rdmay>>

-----------------------------------------------------------------------------

RdNext ==
    \/ rdsopen \/ udp_recv
    \/ \E c \in rdrequests : RdServe(c)
    \/ \E r \in rdreplies : rdsopenDone(r) \/ rdsprocessReadDone(r) \/ rdsprocessWritten(r)
    \/ rdsprocessNone \/ rdsprocessRead \/ rdsprocessWrite
    \/ \E p \in RdProc :
         \/ \E b \in RdBlk : rdsread(p, b)
         \/ \E b \in RdBlk, data \in RdData : rdswrite(p, b, data)
         \/ rdscontrol(p) \/ RdReturns(p)

RdSpec == RdInit /\ [][RdNext]_rdVars

-----------------------------------------------------------------------------

RdTypeOK ==
    /\ rdstate \in {"closed", "pending", "open"}
    /\ {rdqhead, rdqtail, rdqfree} \subseteq RdNode \cup {NULL}
    /\ \A n \in RdNode : {rdnode[n].next, rdnode[n].prev} \subseteq RdNode \cup {NULL}
    /\ rdcomsem \in Nat
    /\ Len(rdcache) <= RD_CNODES

RdGood == RdCanRun

\* Each node is either on the free list or in the queue, once, and the queue
\* ends at its tail.  A call finds a free node.
NodesOnce ==
    RdGood =>
        LET queue == RdQueue(RdQ)  free == RdFreeNodes(RdQ) IN
        /\ Len(queue) + Len(free) = RD_QNODES
        /\ Range(queue) \cup Range(free) = RdNode
        /\ rdqtail = IF queue = <<>> THEN NULL ELSE Last(queue)

\* A process that waits is resumed some time: it has exactly one request in
\* the queue, and for each request that is not being served the semaphore has a
\* count (rdsread.c:104, rdsprocess.c:40).
SuspendedAreServed ==
    RdGood =>
        LET queue == Range(RdQueue(RdQ))
            serving == IF rdcomm.op = "read" THEN {rdqhead} ELSE {}
        IN  /\ \A p \in RdProc : rdcall[p].op # "idle" =>
                 Cardinality({n \in queue : rdnode[n].pid = p})
                   = (IF rdcall[p].at = "done" THEN 0 ELSE 1)
            /\ rdcomsem >= Cardinality(queue \ serving)

\* "Block B only remains in the cache if it is the latest copy of B" (NOTES):
\* no block is in the cache twice, and what is there is the last write.
CacheIsLatest ==
    RdGood =>
        \A i, j \in DOMAIN rdcache :
            /\ rdcache[i].blk = rdcache[j].blk => i = j
            /\ rdcache[i].data = rdlast[rdcache[i].blk]
            /\ RdWritten(rdcache[i].blk) = {}

\* A read returns the last write of its block or one called while it went on,
\* wherever it found it: in the cache, in the queue or at the server; or what a
\* copy of an earlier write, which came late to the server (rdscomm.c:67), has
\* put there since the last write was taken from the queue.
ReadsAreFresh ==
    RdGood => \A p \in RdProc :
        rdcall[p].op = "read" /\ rdcall[p].at = "done" => rdbuf[p] \in rdmay[p]

\* "Verify that sequence in reply matches request" (rdscomm.c:93).
RepliesMatch == rdspoilt # "late"

=============================================================================
