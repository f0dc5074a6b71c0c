-------------------------------- MODULE Ports --------------------------------
(***************************************************************************)
(* Ports: bounded queues of one-word messages, with a semaphore for the    *)
(* space and one for the messages, that may be reset or deleted while      *)
(* processes wait on them.                                                 *)
(*                                                                         *)
(* A process inside a call is described by ptcall: the call, the port and  *)
(* the sequence number it read before it waited.  busy is the process      *)
(* whose call goes on with interrupts disabled, because the part of it     *)
(* that has run released nobody.  Messages carry the sequence number their *)
(* sender read, so that the lives of a port can be told apart.             *)
(***************************************************************************)
EXTENDS SemOps, FiniteSetsExt, SequencesExt

CONSTANTS
    PtProc,     \* processes that use ports
    NPORTS,     \* entries of the port table
    PtNodes,    \* message nodes that ptinit allocates
    PtSems,     \* semaphores that nobody else has
    PtCounts,   \* sizes ptcreate is called with
    MaxPtSeq    \* bound on the sequence number of a port

Port == 0 .. NPORTS - 1
PtNode == 1 .. PtNodes
NULL == 0

ASSUME PortsAssumption ==
    /\ NPORTS \in Nat \ {0}
    /\ PtNodes \in Nat \ {0}
    /\ PtSems \in Nat
    /\ PtCounts \subseteq Nat
    /\ MaxPtSeq \in Nat
    /\ 0 \notin PtProc

Nobody == 0

VARIABLES
    ptstate, ptseq, ptmaxcnt, ptssem, ptrsem, pthead, pttail,  \* porttab
    ptnext, ptmsg,      \* the message nodes
    ptfree, ptnextid,
    ptsemsleft,         \* entries left in the semaphore table
    ptcall, busy,
    ptpanic             \* "Port system ran out of message nodes"

ptNodeVars == <<ptnext, ptmsg, ptfree, pthead, pttail>>
ptVars == <<ptstate, ptseq, ptmaxcnt, ptssem, ptrsem, ptNodeVars, ptnextid,
            ptsemsleft, ptcall, busy, ptpanic>>

PtIdle == [op |-> "idle", port |-> 0, seq |-> 0]

PtInit ==
    /\ ptstate = [t \in Port |-> "PT_FREE"]
    /\ ptseq = [t \in Port |-> 0]
    /\ ptmaxcnt = [t \in Port |-> 0]
    /\ ptssem = [t \in Port |-> NoSem]
    /\ ptrsem = [t \in Port |-> NoSem]
    /\ pthead = [t \in Port |-> NULL]
    /\ pttail = [t \in Port |-> NULL]
    /\ ptnext = [n \in PtNode |-> IF n < PtNodes THEN n + 1 ELSE NULL]
    /\ ptmsg = [n \in PtNode |-> 0]
    /\ ptfree = 1
    /\ ptnextid = 0
    /\ ptsemsleft = PtSems
    /\ ptcall = [p \in PtProc |-> PtIdle]
    /\ busy = Nobody
    /\ ptpanic = FALSE

-----------------------------------------------------------------------------

PtMay(p) == ~ptpanic /\ busy \in {Nobody, p}

PtCalls(p) == PtMay(p) /\ ptcall[p] = PtIdle

\* p is inside call op, and does not wait (any more).
PtGoesOn(p, op) ==
    /\ PtMay(p)
    /\ ptcall[p].op = op
    /\ ~Waits(ptssem[ptcall[p].port], p)
    /\ ~Waits(ptrsem[ptcall[p].port], p)

PtEnter(p, op, t, seq) ==
    ptcall' = [ptcall EXCEPT ![p] = [op |-> op, port |-> t, seq |-> seq]]

PtReturn(p) == ptcall' = [ptcall EXCEPT ![p] = PtIdle] /\ busy' = Nobody

\* The first free entry the scan from ptnextid finds.
PtFound ==
    LET free == {t \in Port : ptstate[t] = "PT_FREE"}
        later == {t \in free : t >= ptnextid}
    IN  IF later # {} THEN Min(later) ELSE Min(free)

\* The scan position after entry t; and a wrong one, for comparison.
PtAfterNoWrap(t) == t + 1

PtAfter(t) == (t + 1) % NPORTS

\* Both semaphores are asked for; a port gets one, or none, when the table
\* is full.
PtCreate(p, count) ==
    LET t == PtFound IN
    /\ PtCalls(p)
    /\ \E u \in Port : ptstate[u] = "PT_FREE"
    /\ ptseq[t] < MaxPtSeq
    /\ ptstate' = [ptstate EXCEPT ![t] = "PT_ALLOC"]
    /\ ptssem' = [ptssem EXCEPT ![t] =
                     IF ptsemsleft >= 1 THEN SemCreated(count) ELSE NoSem]
    /\ ptrsem' = [ptrsem EXCEPT ![t] =
                     IF ptsemsleft >= 2 THEN SemCreated(0) ELSE NoSem]
    /\ ptsemsleft' = IF ptsemsleft >= 2 THEN ptsemsleft - 2 ELSE 0
    /\ pthead' = [pthead EXCEPT ![t] = NULL]
    /\ pttail' = [pttail EXCEPT ![t] = NULL]
    /\ ptseq' = [ptseq EXCEPT ![t] = @ + 1]
    /\ ptmaxcnt' = [ptmaxcnt EXCEPT ![t] = count]
    /\ ptnextid' = PtAfter(t)
    /\ UNCHANGED <<ptnext, ptmsg, ptfree, ptcall, busy, ptpanic>>

-----------------------------------------------------------------------------
(* ptsend and ptrecv: until the wait, and from the wait on.                *)

\* Take a node, fill it, link it at the tail and signal; ssem is the space
\* semaphore as the wait has left it.
PtPut(p, t, ssem, msg) ==
    LET n == ptfree IN
    /\ ptssem' = [ptssem EXCEPT ![t] = ssem]
    /\ \/ /\ ptfree = NULL
          /\ ptpanic' = TRUE
          /\ UNCHANGED <<ptNodeVars, ptrsem>>
       \/ /\ ptfree # NULL
          /\ ptfree' = ptnext[n]
          /\ ptnext' = [m \in PtNode |->
                          IF m = n THEN NULL
                          ELSE IF m = pttail[t] THEN n ELSE ptnext[m]]
          /\ ptmsg' = [ptmsg EXCEPT ![n] = msg]
          /\ pthead' = [pthead EXCEPT ![t] = IF pttail[t] = NULL THEN n ELSE @]
          /\ pttail' = [pttail EXCEPT ![t] = n]
          /\ ptrsem' = [ptrsem EXCEPT ![t] = Signalled(@)]
          /\ UNCHANGED ptpanic
    /\ PtReturn(p)
    /\ UNCHANGED <<ptstate, ptseq, ptmaxcnt, ptnextid, ptsemsleft>>

PtWaitsThere(p, op, t) ==
    /\ PtEnter(p, op, t, ptseq[t])
    /\ UNCHANGED <<ptstate, ptseq, ptmaxcnt, ptNodeVars, ptnextid, ptsemsleft,
                   busy, ptpanic>>

PtSend(p, t) ==
    /\ PtCalls(p)
    /\ ptstate[t] = "PT_ALLOC"
    /\ ptssem[t].used
    /\ \/ /\ Blocks(ptssem[t])
          /\ ptssem' = [ptssem EXCEPT ![t] = Waited(@, p)]
          /\ PtWaitsThere(p, "send", t)
          /\ UNCHANGED ptrsem
       \/ /\ ~Blocks(ptssem[t])
          /\ PtPut(p, t, Waited(ptssem[t], p), ptseq[t])

\* Wrong ends of ptsend and ptrecv, for comparison: the sequence number is
\* not looked at again.
PtSendForgets(p) ==
    LET c == ptcall[p] IN
    /\ PtGoesOn(p, "send")
    /\ ptstate[c.port] = "PT_ALLOC"
    /\ PtPut(p, c.port, ptssem[c.port], c.seq)

PtLives(c) == ptstate[c.port] = "PT_ALLOC" /\ ptseq[c.port] = c.seq

PtSendGoesOn(p) ==
    LET c == ptcall[p] IN
    /\ PtGoesOn(p, "send")
    /\ \/ PtLives(c) /\ PtPut(p, c.port, ptssem[c.port], c.seq)
       \/ /\ ~PtLives(c)
          /\ PtReturn(p)
          /\ UNCHANGED <<ptstate, ptseq, ptmaxcnt, ptssem, ptrsem, ptNodeVars,
                         ptnextid, ptsemsleft, ptpanic>>

\* A wrong ptrecv, for comparison: it forgets the free place.
PtGivePlaceNot(t) == ptssem[t]

\* The signal at the end of ptrecv.
PtGivePlace(t) == Signalled(ptssem[t])

\* Unlink the first node, put it on the free list and signal.
PtTake(p, t, rsem) ==
    LET n == pthead[t] IN
    /\ ptrsem' = [ptrsem EXCEPT ![t] = rsem]
    /\ pthead' = [pthead EXCEPT ![t] =
                     IF n = pttail[t] THEN NULL ELSE ptnext[n]]
    /\ pttail' = [pttail EXCEPT ![t] = IF n = @ THEN NULL ELSE @]
    /\ ptnext' = [ptnext EXCEPT ![n] = ptfree]
    /\ ptfree' = n
    /\ ptssem' = [ptssem EXCEPT ![t] = PtGivePlace(t)]
    /\ PtReturn(p)
    /\ UNCHANGED <<ptstate, ptseq, ptmaxcnt, ptmsg, ptnextid, ptsemsleft,
                   ptpanic>>

PtRecv(p, t) ==
    /\ PtCalls(p)
    /\ ptstate[t] = "PT_ALLOC"
    /\ ptrsem[t].used
    /\ \/ /\ Blocks(ptrsem[t])
          /\ ptrsem' = [ptrsem EXCEPT ![t] = Waited(@, p)]
          /\ PtWaitsThere(p, "recv", t)
          /\ UNCHANGED ptssem
       \/ /\ ~Blocks(ptrsem[t])
          /\ PtTake(p, t, Waited(ptrsem[t], p))

PtRecvGoesOn(p) ==
    LET c == ptcall[p] IN
    /\ PtGoesOn(p, "recv")
    /\ \/ PtLives(c) /\ PtTake(p, c.port, ptrsem[c.port])
       \/ /\ ~PtLives(c)
          /\ PtReturn(p)
          /\ UNCHANGED <<ptstate, ptseq, ptmaxcnt, ptssem, ptrsem, ptNodeVars,
                         ptnextid, ptsemsleft, ptpanic>>

-----------------------------------------------------------------------------
(* ptreset and ptdelete: _ptclear frees the messages and then releases the *)
(* senders and the receivers.  Each release may give the processor away,   *)
(* with the port in PT_LIMBO.                                              *)

\* Wrong versions, for comparison: the head is kept by a reset as well, and
\* only the first node goes to the free list.
PtFreeMsgsKeeps(t, op) ==
    /\ ptnext' = IF pthead[t] = NULL THEN ptnext
                 ELSE [ptnext EXCEPT ![pttail[t]] = ptfree]
    /\ ptfree' = IF pthead[t] = NULL THEN ptfree ELSE pthead[t]
    /\ UNCHANGED <<ptmsg, pthead, pttail>>

PtFreeMsgsFirst(t, op) ==
    /\ ptnext' = IF pthead[t] = NULL THEN ptnext
                 ELSE [ptnext EXCEPT ![pthead[t]] = ptfree]
    /\ ptfree' = IF pthead[t] = NULL THEN ptfree ELSE pthead[t]
    /\ pthead' = [pthead EXCEPT ![t] = NULL]
    /\ pttail' = [pttail EXCEPT ![t] = NULL]
    /\ UNCHANGED ptmsg

\* The messages go to the free list in one piece.  Only a reset sets the
\* pointers of the port to NULL; a deleted port keeps them.
PtFreeMsgs(t, op) ==
    /\ ptnext' = IF pthead[t] = NULL THEN ptnext
                 ELSE [ptnext EXCEPT ![pttail[t]] = ptfree]
    /\ ptfree' = IF pthead[t] = NULL THEN ptfree ELSE pthead[t]
    /\ pthead' = [pthead EXCEPT ![t] = IF op = "reset" THEN NULL ELSE @]
    /\ pttail' = [pttail EXCEPT ![t] = IF op = "reset" THEN NULL ELSE @]
    /\ UNCHANGED ptmsg

\* semreset or semdelete of one of the semaphores; p goes on at once unless
\* somebody was released.
PtRelease(p, sem, t, op, count) ==
    /\ sem' = [sem EXCEPT ![t] = IF op = "reset" THEN WasReset(@, count)
                                                ELSE NoSem]
    /\ ptsemsleft' = IF op = "delete" /\ sem[t].used THEN ptsemsleft + 1
                                                     ELSE ptsemsleft
    /\ busy' = IF sem[t].queue = <<>> THEN p ELSE Nobody

PtClear(p, t, op) ==
    /\ PtCalls(p)
    /\ ptstate[t] = "PT_ALLOC"
    /\ ptseq[t] < MaxPtSeq
    /\ ptstate' = [ptstate EXCEPT ![t] = "PT_LIMBO"]
    /\ ptseq' = [ptseq EXCEPT ![t] = @ + 1]
    /\ PtFreeMsgs(t, op)
    /\ PtRelease(p, ptssem, t, op, ptmaxcnt[t])
    /\ ptcall' = [ptcall EXCEPT ![p] = [op |-> op, port |-> t, seq |-> 0]]
    /\ UNCHANGED <<ptmaxcnt, ptrsem, ptnextid, ptpanic>>

\* A wrong _ptclear, for comparison: the receivers are left waiting.
PtClearSenders(p, op) ==
    /\ PtGoesOn(p, op)
    /\ ptcall[p].seq = 0
    /\ ptcall' = [ptcall EXCEPT ![p].seq = 1]
    /\ UNCHANGED <<ptstate, ptseq, ptmaxcnt, ptssem, ptrsem, ptNodeVars,
                   ptnextid, ptsemsleft, busy, ptpanic>>

\* Second semaphore.
PtClearGoesOn(p, op) ==
    LET t == ptcall[p].port IN
    /\ PtGoesOn(p, op)
    /\ ptcall[p].seq = 0
    /\ PtRelease(p, ptrsem, t, op, 0)
    /\ ptcall' = [ptcall EXCEPT ![p].seq = 1]
    /\ UNCHANGED <<ptstate, ptseq, ptmaxcnt, ptssem, ptNodeVars, ptnextid,
                   ptpanic>>

PtClearEnds(p, op) ==
    LET t == ptcall[p].port IN
    /\ PtGoesOn(p, op)
    /\ ptcall[p].seq = 1
    /\ ptstate' = [ptstate EXCEPT ![t] =
                      IF op = "reset" THEN "PT_ALLOC" ELSE "PT_FREE"]
    /\ ptnextid' = IF op = "delete" THEN t ELSE ptnextid
    /\ PtReturn(p)
    /\ UNCHANGED <<ptseq, ptmaxcnt, ptssem, ptrsem, ptNodeVars, ptsemsleft,
                   ptpanic>>

-----------------------------------------------------------------------------

PtClears == {"reset", "delete"}

PtGoOn(p) ==
    \/ PtSendGoesOn(p) \/ PtRecvGoesOn(p)
    \/ \E op \in PtClears : PtClearGoesOn(p, op) \/ PtClearEnds(p, op)

PtNext ==
    \E p \in PtProc :
        \/ PtGoOn(p)
        \/ \E count \in PtCounts : PtCreate(p, count)
        \/ \E t \in Port :
              \/ PtSend(p, t) \/ PtRecv(p, t)
              \/ \E op \in PtClears : PtClear(p, t, op)

\* A process that is in a call and does not wait gets the processor.
PtFairness == \A p \in PtProc : WF_ptVars(PtGoOn(p))

PtSpec == PtInit /\ [][PtNext]_ptVars /\ PtFairness

-----------------------------------------------------------------------------

\* The nodes on the links next from node n, at most k of them.
PtLinked(next) ==
    LET from[k \in 0 .. PtNodes] ==
            [n \in 0 .. PtNodes |->
                IF k = 0 \/ n = NULL THEN <<>> ELSE <<n>> \o from[k - 1][next[n]]]
    IN  from

\* The nodes from n on, as a sequence; a list that does not end is cut off.
PtChain(n) == PtLinked(ptnext)[PtNodes][n]

PtOpen == {t \in Port : ptstate[t] = "PT_ALLOC"}

\* The lists of the open ports, and the free list as that of -1.
PtLists == [t \in PtOpen \cup {-1} |-> PtChain(IF t = -1 THEN ptfree ELSE pthead[t])]

\* ptcount, for a port that is allocated; first a wrong one, for comparison.
PtCountReady(t) == ptrsem[t].count

PtCount(t) ==
    IF ptrsem[t].count >= 0 /\ ptssem[t].count < 0
    THEN ptrsem[t].count - ptssem[t].count ELSE ptrsem[t].count

PtHanded(op, t) ==
    {p \in PtProc : /\ ptcall[p] = [op |-> op, port |-> t, seq |-> ptseq[t]]
                    /\ ~Waits(ptssem[t], p)
                    /\ ~Waits(ptrsem[t], p)}

\* The variables have their types, and every call that waits has a sequence
\* number that its port had.
PtTypeOK ==
    /\ ptstate \in [Port -> {"PT_FREE", "PT_LIMBO", "PT_ALLOC"}]
    /\ ptseq \in [Port -> 0 .. MaxPtSeq]
    /\ ptnextid \in Port
    /\ ptfree \in 0 .. PtNodes
    /\ ptnext \in [PtNode -> 0 .. PtNodes]
    /\ ptsemsleft \in 0 .. PtSems
    /\ busy \in PtProc \cup {Nobody}
    /\ \A t \in Port : SemOK(ptssem[t]) /\ SemOK(ptrsem[t])
    /\ \A p \in PtProc : ptcall[p].seq <= ptseq[ptcall[p].port]

\* Every message node is on the free list or in the queue of exactly one
\* port, whatever resets and deletions happened (ptclear.c moves whole lists).
NodesConserved ==
    /\ \A n \in PtNode :
          Cardinality({x \in (PtOpen \cup {-1}) \X PtNode :
                          /\ x[2] \in DOMAIN PtLists[x[1]]
                          /\ PtLists[x[1]][x[2]] = n}) = 1
    /\ \A t \in PtOpen : PtLists[t] # <<>> => pttail[t] = Last(PtLists[t])

\* The semaphores count what is there: free places and messages, less those
\* already handed to a process that has not run yet.  A receiver that takes
\* a message always finds one (ptrecv does not test pthead).
PortCounts ==
    ~ptpanic => \A t \in PtOpen :
        /\ ptssem[t].used =>
              ptssem[t].count + Len(ptssem[t].queue) + Len(PtChain(pthead[t]))
                + Cardinality(PtHanded("send", t)) = ptmaxcnt[t]
        /\ ptrsem[t].used =>
              ptrsem[t].count + Len(ptrsem[t].queue)
                + Cardinality(PtHanded("recv", t)) = Len(PtChain(pthead[t]))

\* No message and no waiting process outlives a reset or a deletion of its
\* port: what the queue holds was sent, and who waits has called, in this life.
OnlyThisLife ==
    \A t \in PtOpen :
        /\ \A n \in Range(PtChain(pthead[t])) : ptmsg[n] = ptseq[t]
        /\ \A p \in PtProc :
              Waits(ptssem[t], p) \/ Waits(ptrsem[t], p) =>
                  ptcall[p].seq = ptseq[t]

\* The places that the open ports promise.
PtPlaces == UNION {{t} \X (1 .. ptmaxcnt[t]) : t \in PtOpen}

\* The panic of ptsend is reached only when the ports that exist have been
\* promised more messages than there are nodes.
PanicOnlyWhenOversold == ptpanic => Cardinality(PtPlaces) > PtNodes

\* What the comment of ptcount says, when nobody has been handed a place or a
\* message and not run yet: K >= 0 messages with those of the blocked senders,
\* or nothing and -K receivers that wait.
CountTellsMessages ==
    \A t \in PtOpen :
        (/\ ptssem[t].used /\ ptrsem[t].used
         /\ PtHanded("send", t) = {} /\ PtHanded("recv", t) = {}) =>
            IF PtCount(t) >= 0
            THEN PtCount(t) = Len(PtChain(pthead[t])) + Len(ptssem[t].queue)
            ELSE pthead[t] = NULL /\ Len(ptrsem[t].queue) = -PtCount(t)

\* Whatever resets and deletions come between the steps of a call: nodes are
\* neither lost nor shared, the semaphores of a port agree with its queue, no call
\* serves another life of its port, nothing panics unless more was promised than
\* there are nodes, and ptcount tells the truth.
PtInv ==
    /\ PtTypeOK
    /\ NodesConserved
    /\ PortCounts
    /\ OnlyThisLife
    /\ PanicOnlyWhenOversold
    /\ CountTellsMessages

\* Whoever was in a call on a port that is reset or deleted returns, the
\* receivers too, which are released last and by a process that may have lost
\* the processor to the senders it released (ptclear.c): there is always a later
\* time without such a call, for MaxPtSeq bounds the number of resets.
ClearedCallsReturn ==
    []<>(ptpanic \/ \A p \in PtProc :
            ptcall[p].op \in {"send", "recv"} =>
                ptcall[p].seq = ptseq[ptcall[p].port])

=============================================================================
