-------------------------------- MODULE Icmp --------------------------------
(***************************************************************************)
(* Ping: the ICMP endpoints, the way of an ICMP packet through the IP      *)
(* layer, and the queue of the IP output process.  An echo request is      *)
(* answered by the process that brings it in (netin, or one that pings its *)
(* own machine), which may have to wait for a buffer; the answer goes      *)
(* through the output queue to ipout, which waits for the address of the   *)
(* next hop while it holds a packet.                                       *)
(*                                                                         *)
(* netin and ipout have the highest priority: ipout runs as soon as there  *)
(* is a packet, and icspoilt tells that                                    *)
(*   "past"     the head of a slot's queue ran behind its end: it goes     *)
(*              round after ICMP_SLOTS places, the tail after ICMP_QSIZ    *)
(*              (icmp.c:211 and 349);                                      *)
(*   "overrun"  a packet came for a full queue, which nobody checks        *)
(*              (icmp.c:96);                                               *)
(*   "taken", "lost"  as for UDP: a woken process does not look again, and *)
(*              another one took the packet, or released the slot.         *)
(* Nothing is explored behind that.                                        *)
(***************************************************************************)
EXTENDS Integers, FiniteSetsExt, SequencesExt

CONSTANTS
    IcProc,             \* processes
    ICMP_SLOTS, ICMP_QSIZ, IP_OQSIZ,
    IcBufs,             \* buffers of the network pool
    IcHosts,            \* addresses: 0 is this machine's
    IcIdents            \* the identifiers in packets that arrive

\* As there are more slots than places in the queue of one (icmp.h:3), the head
\* of a queue comes to its end before it goes round.
ASSUME IcAssumption ==
    /\ {ICMP_SLOTS, ICMP_QSIZ, IP_OQSIZ, IcBufs} \subseteq Nat \ {0}
    /\ ICMP_QSIZ <= ICMP_SLOTS
    /\ -1 \notin IcProc

VARIABLES
    icmptab,            \* the endpoints
    icmsg, iccall,      \* the message of each process, and what it waits for
    icfree,             \* free buffers
    icpkt,              \* what is in a buffer on its way out
    ipoqueue,           \* the output queue, with the count of its semaphore
    ipout,              \* the output process
    ipvalid,            \* NetData.ipvalid: the machine has an address
    icspoilt,
    ichas, icgot, icsent \* observed: the packets of each slot and of the
                        \* output queue in order, and if a process got the
                        \* first one

icVars == <<icmptab, icmsg, iccall, icfree, icpkt, ipoqueue, ipout, ipvalid, icspoilt,
            ichas, icgot, icsent>>
icTabVars == <<icmptab, icmsg, ichas>>
icOutVars == <<icpkt, ipoqueue, ipout, icsent>>

IcSlot == 0 .. ICMP_SLOTS - 1
IcBuf == 1 .. IcBufs
IcActor == IcProc \cup {"netin"}
IcIdle == [op |-> "idle"]
IcNoPkt == [dst |-> -1, ident |-> -1]

IcEntry(state, ip) ==
    [state |-> state, remip |-> ip, head |-> 0, tail |-> 0, count |-> 0, pid |-> -1,
     queue |-> [i \in 0 .. ICMP_QSIZ - 1 |-> 0]]

IcInit ==
    /\ icmptab = [s \in IcSlot |-> IcEntry("free", -1)]
    /\ icmsg = [p \in IcProc |-> "none"]
    /\ iccall = [a \in IcActor |-> IcIdle]
    /\ icfree = IcBuf
    /\ icpkt = [b \in IcBuf |-> IcNoPkt]
    /\ ipoqueue = [head |-> 0, tail |-> 0, count |-> -1,
                   buf |-> [i \in 0 .. IP_OQSIZ - 1 |-> 0]]
    /\ ipout = [op |-> "waits"]
    /\ ipvalid = FALSE
    /\ icspoilt = "no"
    /\ ichas = [s \in IcSlot |-> <<>>]
    /\ icgot = "first"
    /\ icsent = <<>>

\* Nothing else runs while ipout is ready.
IcRuns(a) == icspoilt = "no" /\ ipout.op # "ready" /\ iccall[a] = IcIdle

-----------------------------------------------------------------------------

\* The next places of a slot's head, of its tail and of the output queue's; the
\* wrong one, for comparison, lets the tail run as far as the head.
IcTailFar(i) == IF i + 1 >= ICMP_SLOTS THEN 0 ELSE i + 1

IcHeadAfter(i) == IF i + 1 >= ICMP_SLOTS THEN 0 ELSE i + 1

IcTailAfter(i) == IF i + 1 >= ICMP_QSIZ THEN 0 ELSE i + 1

IpAfter(i) == IF i + 1 >= IP_OQSIZ THEN 0 ELSE i + 1

\* The queue has no room; the wrong one, for comparison, is one late.
IpFullLate == ipoqueue.count > IP_OQSIZ

IpFull == ipoqueue.count >= IP_OQSIZ

\* ip_enqueue: the packet k in buffer b for ipout, which is ready if it waited.
ip_enqueue(b, k, free) ==
    IF IpFull
      THEN icfree' = free \cup {b} /\ UNCHANGED icOutVars
      ELSE /\ icfree' = free
           /\ icpkt' = [icpkt EXCEPT ![b] = k]
           /\ ipoqueue' = [ipoqueue EXCEPT !.buf[ipoqueue.tail] = b, !.tail = IpAfter(@),
                                           !.count = @ + 1]
           /\ ipout' = IF ipout.op = "waits" THEN [op |-> "ready"] ELSE ipout
           /\ icsent' = Append(icsent, b)

\* The answer to the request from host h with identifier i, which is in buffer
\* b: icmp_mkpkt takes another buffer, then b is free.
IcEcho(b, h, i, free) ==
    /\ free # {}
    /\ ip_enqueue(Min(free), [dst |-> h, ident |-> i], (free \ {Min(free)}) \cup {b})
    /\ UNCHANGED icTabVars

\* The process that waits in slot s gets a message, unless it has one; the wrong
\* one, for comparison, tells no one.
IcToldNot(s) == icmsg

IcTold(s) ==
    LET p == icmptab[s].pid IN
    IF icmptab[s].state = "recv" /\ icmsg[p] = "none"
      THEN [icmsg EXCEPT ![p] = "ok"] ELSE icmsg

\* A reply from host h with identifier i has an endpoint.
IcFor(h, i) ==
    i \in IcSlot /\ icmptab[i].state # "free" /\ h \in {icmptab[i].remip, 0}

\* The reply in buffer b is put into its queue.
IcReply(b, h, i, free) ==
    IF ~IcFor(h, i)
      THEN icfree' = free \cup {b} /\ UNCHANGED <<icTabVars, icspoilt>>
    ELSE IF icmptab[i].count = ICMP_QSIZ
      THEN icspoilt' = "overrun" /\ icfree' = free /\ UNCHANGED icTabVars
    ELSE /\ icmptab' = [icmptab EXCEPT
              ![i].queue[icmptab[i].tail] = b, ![i].tail = IcTailAfter(@),
              ![i].count = @ + 1, ![i].state = "used"]
         /\ icmsg' = IcTold(i)
         /\ ichas' = [ichas EXCEPT ![i] = Append(@, b)]
         /\ icfree' = free
         /\ UNCHANGED icspoilt

\* What ip_in takes: everything for all, what is for this machine when it has
\* an address, and any UDP packet when it has none.
IpAccepts(dst, proto) ==
    \/ dst = "all"
    \/ IF ipvalid THEN dst = "me" ELSE proto = "udp"

\* netin calls ip_in.  A packet that is damaged, for somebody else, for UDP
\* (see Udp) or of another type leaves its buffer; icmp_in takes the others.
ip_in(h, i, type) ==
    LET b == Min(icfree)  rest == icfree \ {b} IN
    /\ IcRuns("netin")
    /\ icfree # {}
    /\ \E dst \in {"me", "all"} : IpAccepts(dst, "icmp")
    /\ \/ /\ type = "request" /\ rest # {}
          /\ IcEcho(b, h, i, rest)
          /\ UNCHANGED <<iccall, icspoilt>>
       \/ /\ type = "request" /\ rest = {}
          /\ iccall' = [iccall EXCEPT !["netin"] =
               [op |-> "echo", buf |-> b, dst |-> h, ident |-> i]]
          /\ icfree' = rest
          /\ UNCHANGED <<icTabVars, icOutVars, icspoilt>>
       \/ /\ type = "reply"
          /\ IcReply(b, h, i, rest)
          /\ UNCHANGED <<iccall, icOutVars>>
    /\ UNCHANGED <<ipvalid, icgot>>

\* It goes on when there is a buffer.
IcEchoGoesOn(a) ==
    LET c == iccall[a] IN
    /\ icspoilt = "no" /\ ipout.op # "ready"
    /\ c.op = "echo"
    /\ IcEcho(c.buf, c.dst, c.ident, icfree)
    /\ iccall' = [iccall EXCEPT ![a] = IcIdle]
    /\ UNCHANGED <<ipvalid, icspoilt, icgot>>

\* getlocalip got an address.
IpConfigured ==
    /\ IcRuns("netin") /\ ~ipvalid
    /\ ipvalid' = TRUE
    /\ UNCHANGED <<icTabVars, icOutVars, iccall, icfree, icspoilt, icgot>>

-----------------------------------------------------------------------------

\* With output queue q, ipout waits for its next packet, or has one.
IpoutLoops(q) ==
    /\ ipoqueue' = [q EXCEPT !.count = @ - 1]
    /\ ipout' = IF q.count = 0 THEN [op |-> "waits"] ELSE [op |-> "ready"]

\* ipout takes a packet.  One for this machine goes back up; for another, the
\* address is looked up first.
ipout_takes ==
    LET b == ipoqueue.buf[ipoqueue.head]
        k == icpkt[b]
        q == [ipoqueue EXCEPT !.buf[ipoqueue.head] = 0, !.head = IpAfter(@)] IN
    /\ icspoilt = "no"
    /\ ipout.op = "ready"
    /\ icsent' = Tail(icsent)
    /\ icpkt' = [icpkt EXCEPT ![b] = IcNoPkt]
    /\ icgot' = IF b = Head(icsent) THEN icgot ELSE "other"
    /\ \/ /\ k.dst = 0
          /\ IcReply(b, 0, k.ident, icfree)
          /\ IpoutLoops(q)
       \/ /\ k.dst # 0
          /\ ipoqueue' = q
          /\ ipout' = [op |-> "arp", buf |-> b]
          /\ UNCHANGED <<icTabVars, icfree, icspoilt>>
    /\ UNCHANGED <<iccall, ipvalid>>

\* arp_resolve returned: the packet is sent or not, and its buffer is free.
ip_out ==
    /\ icspoilt = "no"
    /\ ipout.op = "arp"
    /\ icfree' = icfree \cup {ipout.buf}
    /\ IpoutLoops(ipoqueue)
    /\ UNCHANGED <<icTabVars, iccall, icpkt, ipvalid, icspoilt, icgot, icsent>>

-----------------------------------------------------------------------------

icmp_register(p, ip) == \E s \in IcSlot :
    /\ IcRuns(p)
    /\ \A t \in IcSlot : icmptab[t].state # "free" => icmptab[t].remip # ip
    /\ icmptab[s].state = "free"
    /\ \A t \in IcSlot : t < s => icmptab[t].state # "free"
    /\ icmptab' = [icmptab EXCEPT ![s] = IcEntry("used", ip)]
    /\ UNCHANGED <<icOutVars, icmsg, iccall, icfree, ipvalid, icspoilt, ichas, icgot>>

\* icmp_send of an echo request, over ip_send: to this machine at once, else
\* the process waits for the address, and its message is lost.
icmp_send(p, ip, s) ==
    LET b == Min(icfree)  rest == icfree \ {b} IN
    /\ IcRuns(p)
    /\ icfree # {}
    /\ \/ /\ ip = 0 /\ rest # {}
          /\ IcEcho(b, 0, s, rest)
          /\ UNCHANGED iccall
       \/ /\ ip = 0 /\ rest = {}
          /\ iccall' = [iccall EXCEPT ![p] = [op |-> "echo", buf |-> b, dst |-> 0, ident |-> s]]
          /\ icfree' = rest
          /\ UNCHANGED <<icTabVars, icOutVars>>
       \/ /\ ip # 0
          /\ iccall' = [iccall EXCEPT ![p] = [op |-> "arp", buf |-> b]]
          /\ icmsg' = [icmsg EXCEPT ![p] = "none"]
          /\ icfree' = rest
          /\ UNCHANGED <<icmptab, ichas, icOutVars>>
    /\ UNCHANGED <<ipvalid, icspoilt, icgot>>

\* The request was sent, or there was no answer.
IcSent(p) ==
    /\ icspoilt = "no" /\ ipout.op # "ready"
    /\ iccall[p].op = "arp"
    /\ icfree' = icfree \cup {iccall[p].buf}
    /\ iccall' = [iccall EXCEPT ![p] = IcIdle]
    /\ icmsg' = [icmsg EXCEPT ![p] = "none"]
    /\ UNCHANGED <<icmptab, ichas, icOutVars, ipvalid, icspoilt, icgot>>

\* The next packet is taken from slot s, if the head is inside the queue.
IcDequeue(s) ==
    LET b == icmptab[s].queue[icmptab[s].head] IN
    IF icmptab[s].head >= ICMP_QSIZ
      THEN icspoilt' = "past" /\ UNCHANGED <<icmptab, icfree, ichas, icgot>>
      ELSE /\ icmptab' = [icmptab EXCEPT ![s].queue[icmptab[s].head] = 0,
                ![s].head = IcHeadAfter(@), ![s].count = @ - 1, ![s].state = "used"]
           /\ icfree' = icfree \cup {b}
           /\ icgot' = IF b = Head(ichas[s]) THEN icgot ELSE "other"
           /\ ichas' = [ichas EXCEPT ![s] = Tail(@)]
           /\ UNCHANGED icspoilt

icmp_recv(p, s) ==
    /\ IcRuns(p)
    /\ icmptab[s].state = "used"
    /\ \/ /\ icmptab[s].count # 0
          /\ IcDequeue(s)
          /\ UNCHANGED <<icmsg, iccall>>
       \/ /\ icmptab[s].count = 0
          /\ icmptab' = [icmptab EXCEPT ![s].state = "recv", ![s].pid = p]
          /\ icmsg' = [icmsg EXCEPT ![p] = "none"]
          /\ iccall' = [iccall EXCEPT ![p] = [op |-> "recv", slot |-> s]]
          /\ UNCHANGED <<icfree, icspoilt, ichas, icgot>>
    /\ UNCHANGED <<icOutVars, ipvalid>>

\* The state of slot s after the wait; the wrong one, for comparison, is not
\* changed after a timeout.
IcAsItWas(s) == icmptab[s].state

IcWaited(s) == "used"

\* Its end, after the message "ok", another one, or a timeout.
IcWoken(p) == LET s == iccall[p].slot IN
    /\ icspoilt = "no" /\ ipout.op # "ready"
    /\ iccall[p].op = "recv"
    /\ iccall' = [iccall EXCEPT ![p] = IcIdle]
    /\ icmsg' = [icmsg EXCEPT ![p] = "none"]
    /\ \/ /\ icmsg[p] = "ok" /\ icmptab[s].state # "free" /\ ichas[s] # <<>>
          /\ IcDequeue(s)
       \/ /\ icmsg[p] # "ok" \/ icmptab[s].state = "free" \/ ichas[s] = <<>>
          /\ icmptab' = [icmptab EXCEPT ![s].state = IcWaited(s)]
          /\ icspoilt' = IF icmptab[s].state = "free" \/ icmptab[s].pid # p THEN "lost"
                         ELSE IF icmsg[p] = "ok" THEN "taken" ELSE "no"
          /\ UNCHANGED <<icfree, ichas, icgot>>
    /\ UNCHANGED <<icOutVars, ipvalid>>

\* Messages from others.
IcStray(p) ==
    /\ icspoilt = "no" /\ ipout.op # "ready"
    /\ icmsg[p] = "none"
    /\ icmsg' = [icmsg EXCEPT ![p] = "other"]
    /\ UNCHANGED <<icmptab, ichas, icOutVars, iccall, icfree, ipvalid, icspoilt, icgot>>

\* The buffers a release frees; the wrong ones, for comparison, miss the last.
IcQueuedButLast(s) == IF ichas[s] = <<>> THEN {} ELSE Range(Front(ichas[s]))

IcQueued(s) == {icmptab[s].queue[icmptab[s].head + i] : i \in 0 .. icmptab[s].count - 1}

\* icmp_release of a slot nobody waits in.  It walks from the head like
\* icmp_recv.
icmp_release(p, s) ==
    LET e == icmptab[s] IN
    /\ IcRuns(p)
    /\ e.state = "used"
    /\ IF e.head + e.count > ICMP_QSIZ
         THEN icspoilt' = "past" /\ UNCHANGED <<icmptab, icfree, ichas>>
         ELSE /\ icmptab' = [icmptab EXCEPT ![s] = IcEntry("free", -1)]
              /\ icfree' = icfree \cup IcQueued(s)
              /\ ichas' = [ichas EXCEPT ![s] = <<>>]
              /\ UNCHANGED icspoilt
    /\ UNCHANGED <<icOutVars, icmsg, iccall, ipvalid, icgot>>

IcNext ==
    \/ \E h \in IcHosts \ {0}, i \in IcIdents, type \in {"request", "reply"} : ip_in(h, i, type)
    \/ \E a \in IcActor : IcEchoGoesOn(a)
    \/ IpConfigured \/ ipout_takes \/ ip_out
    \/ \E p \in IcProc :
         \/ \E ip \in IcHosts : icmp_register(p, ip)
         \/ \E s \in IcSlot :
              \/ icmp_recv(p, s) \/ icmp_release(p, s)
              \/ icmptab[s].state # "free" /\ icmp_send(p, icmptab[s].remip, s)
         \/ IcSent(p) \/ IcWoken(p) \/ IcStray(p)

IcSpec == IcInit /\ [][IcNext]_icVars

-----------------------------------------------------------------------------

IcTypeOK ==
    /\ icfree \subseteq IcBuf
    /\ \A s \in IcSlot : /\ icmptab[s].state \in {"free", "used", "recv"}
                         /\ icmptab[s].count \in 0 .. ICMP_QSIZ
                         /\ icmptab[s].head \in IcSlot
                         /\ icmptab[s].tail \in 0 .. ICMP_QSIZ - 1
    /\ ipout.op \in {"waits", "ready", "arp"}
    /\ ipoqueue.count \in -1 .. IP_OQSIZ

\* The places where buffer b is.
IcPlaces(b) ==
    {x \in {<<"free">>} : b \in icfree}
    \cup {<<"held", a>> : a \in {x \in IcActor : iccall[x].op \in {"echo", "arp"} /\ iccall[x].buf = b}}
    \cup {x \in {<<"out">>} : ipout.op = "arp" /\ ipout.buf = b}
    \cup {<<"sent", i>> : i \in {j \in DOMAIN icsent : icsent[j] = b}}
    \cup UNION {{<<"queued", s, i>> : i \in {j \in DOMAIN ichas[s] : ichas[s][j] = b}} : s \in IcSlot}

\* While nothing is spoilt, every buffer is in one place: free, in a slot's
\* queue, in the output queue, or with a process; and nothing else is there.
\* No path loses or frees one twice (icmp.c:41, 59 and 353, ip.c:390 and 424).
IcBufsOnce ==
    icspoilt = "no" =>
        /\ \A b \in IcBuf : Cardinality(IcPlaces(b)) = 1
        /\ \A a \in IcActor : iccall[a].op \in {"echo", "arp"} => iccall[a].buf \in IcBuf
        /\ ipout.op = "arp" => ipout.buf \in IcBuf
        /\ Range(icsent) \cup UNION {Range(ichas[s]) : s \in IcSlot} \subseteq IcBuf

\* The queue of a slot and the output queue hold what came in, in that order;
\* the semaphore of the output queue counts it, less the one ipout waits for.
QueuesHoldThePackets ==
    /\ icgot = "first"
    /\ \A s \in IcSlot :
         LET e == icmptab[s] IN
         /\ e.count = Len(ichas[s])
         /\ \A j \in 1 .. e.count : e.head + j <= ICMP_QSIZ =>
              e.queue[e.head + j - 1] = ichas[s][j]
    /\ Len(icsent) = (IF ipout.op = "arp" THEN ipoqueue.count ELSE ipoqueue.count + 1)
    /\ \A j \in DOMAIN icsent :
         ipoqueue.buf[(ipoqueue.head + j - 1) % IP_OQSIZ] = icsent[j]

\* A slot says that a process waits exactly while one does, without a packet
\* and without a message of it; a process that waits in a slot that has a
\* packet was told (icmp.c:101 and 194).
PingWaiterIsKnown ==
    icspoilt = "no" =>
        /\ \A s \in IcSlot : icmptab[s].state = "recv" =>
             /\ icmptab[s].count = 0
             /\ iccall[icmptab[s].pid] = [op |-> "recv", slot |-> s]
        /\ \A p \in IcProc : iccall[p].op = "recv" =>
             LET s == iccall[p].slot IN
             (ichas[s] # <<>> /\ icmptab[s].pid = p) => icmsg[p] # "none"

\* The queues of replies and of packets to send hold what their semaphores and
\* counts say, every buffer is in one place, and a slot knows who waits on it.
IcInv ==
    /\ IcTypeOK
    /\ IcBufsOnce
    /\ QueuesHoldThePackets
    /\ PingWaiterIsKnown

\* "circular packet queue" (icmp.h:28): what is read is in the queue.
ReadsInTheQueue == icspoilt # "past"

=============================================================================
