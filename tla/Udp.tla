-------------------------------- MODULE Udp --------------------------------
(***************************************************************************)
(* The UDP endpoints.  A slot of the table has a circular queue of packets *)
(* and may have one process that waits for the next.  The process waits in *)
(* recvtime, and udp_in wakes it with a message.  The functions run with   *)
(* interrupts disabled and are one step each, but for that wait and for    *)
(* the wait for an address while a packet is sent.                         *)
(*                                                                         *)
(* A packet is in a buffer of the network pool all the time; a buffer is   *)
(* the number of the packet it holds.                                      *)
(*                                                                         *)
(* A woken process does not look again.  udspoilt tells that, before it    *)
(* ran,                                                                    *)
(*   "taken"  another process took the packet: the process takes one from  *)
(*            an empty queue (udp.c:202);                                  *)
(*   "lost"   the slot was released, or another process waits for it now:  *)
(*            the process makes it a used one (udp.c:190).                 *)
(* Nothing is explored behind that.                                        *)
(***************************************************************************)
EXTENDS Integers, FiniteSetsExt, SequencesExt

CONSTANTS
    UdProc,         \* processes
    UDP_SLOTS, UDP_QSIZ,
    UdBufs,         \* buffers of the pool
    UdEnds,         \* endpoints that are registered: <<remip, remport, locport>>
    UdPkts          \* packets that arrive: <<source, sport, dport>>

ASSUME UdAssumption ==
    /\ {UDP_SLOTS, UDP_QSIZ, UdBufs} \subseteq Nat \ {0}
    /\ UdBufs > UDP_SLOTS * UDP_QSIZ
    /\ -1 \notin UdProc

VARIABLES
    udptab,                     \* the table
    udmsg,                      \* the message of each process
    udcall,                     \* what a process waits for
    udfree,                     \* free buffers
    udspoilt,
    udhas, udgot                \* observed: the packets of each slot in the
                                \* order of their arrival, and if a process
                                \* got the first one

udVars == <<udptab, udmsg, udcall, udfree, udspoilt, udhas, udgot>>

UdSlot == 0 .. UDP_SLOTS - 1
UdBuf == 1 .. UdBufs
UdIdle == [op |-> "idle"]

\* A slot that is free, or has just been registered.  (What a free slot and the
\* places of the queue that are not in use hold is not looked at again.)
UdEntry(state, end) ==
    [state |-> state, end |-> end, head |-> 0, tail |-> 0, count |-> 0, pid |-> -1,
     queue |-> [i \in 0 .. UDP_QSIZ - 1 |-> 0]]

UdInit ==
    /\ udptab = [s \in UdSlot |-> UdEntry("free", <<>>)]
    /\ udmsg = [p \in UdProc |-> "none"]
    /\ udcall = [p \in UdProc |-> UdIdle]
    /\ udfree = UdBuf
    /\ udspoilt = "no"
    /\ udhas = [s \in UdSlot |-> <<>>]
    /\ udgot = "first"

-----------------------------------------------------------------------------

\* The index after i; the wrong one, for comparison, never comes to the last.
UdAfterShort(i) == IF i + 1 >= UDP_QSIZ - 1 THEN 0 ELSE i + 1

UdAfter(i) == IF i + 1 >= UDP_QSIZ THEN 0 ELSE i + 1

UdUsed(s) == udptab[s].state # "free"

UdRuns(p) == udspoilt = "no" /\ udcall[p] = UdIdle

\* A packet <<source, sport, dport>> is for the endpoint e = <<remip, remport,
\* locport>>, in which 0 stands for any.
UdMatches(e, k) ==
    /\ k[3] = e[3]
    /\ e[2] \in {0, k[2]}
    /\ e[1] \in {0, k[1]}

\* A slot has room; the wrong one, for comparison, is one too generous.
UdRoomOver(s) == udptab[s].count <= UDP_QSIZ

UdRoom(s) == udptab[s].count < UDP_QSIZ

UdFits(s, k) == UdUsed(s) /\ UdMatches(udptab[s].end, k) /\ UdRoom(s)

\* The process that waits for slot s gets a message, unless it has one; the wrong
\* one, for comparison, tells it only of a packet that is not the first.
UdToldLate(s) == IF udptab[s].count = 0 THEN udmsg ELSE [udmsg EXCEPT ![udptab[s].pid] = "ok"]

UdTold(s) ==
    LET p == udptab[s].pid IN
    IF udptab[s].state = "recv" /\ p \in UdProc /\ udmsg[p] = "none"
      THEN [udmsg EXCEPT ![p] = "ok"] ELSE udmsg

\* udp_in for the packet k in buffer b: the first slot that fits and has room,
\* or none.  free are the other free buffers.
udp_in(k, b, free) ==
    \/ \E s \in UdSlot :
         /\ UdFits(s, k)
         /\ \A t \in UdSlot : t < s => ~UdFits(t, k)
         /\ udptab' = [udptab EXCEPT
              ![s].count = @ + 1, ![s].queue[udptab[s].tail] = b, ![s].tail = UdAfter(@),
              ![s].state = "used"]
         /\ udmsg' = UdTold(s)
         /\ udhas' = [udhas EXCEPT ![s] = Append(@, b)]
         /\ udfree' = free
    \/ /\ \A s \in UdSlot : ~UdFits(s, k)
       /\ udfree' = free \cup {b}
       /\ UNCHANGED <<udptab, udmsg, udhas>>

\* netin reads the next packet into the buffer it got.
netin(k) ==
    /\ udspoilt = "no"
    /\ udfree # {}
    /\ udp_in(k, Min(udfree), udfree \ {Min(udfree)})
    /\ UNCHANGED <<udcall, udspoilt, udgot>>

-----------------------------------------------------------------------------

udp_register(p, e) == \E s \in UdSlot :
    /\ UdRuns(p)
    /\ \A t \in UdSlot : UdUsed(t) => udptab[t].end # e
    /\ ~UdUsed(s)
    /\ \A t \in UdSlot : t < s => UdUsed(t)
    /\ udptab' = [udptab EXCEPT ![s] = UdEntry("used", e)]
    /\ UNCHANGED <<udmsg, udcall, udfree, udspoilt, udhas, udgot>>

\* The first packet is taken from slot s, which is in use from then on.
UdDequeue(s) ==
    /\ udptab' = [udptab EXCEPT ![s].queue[udptab[s].head] = 0, ![s].head = UdAfter(@),
                                ![s].count = @ - 1, ![s].state = "used"]
    /\ udfree' = udfree \cup {udptab[s].queue[udptab[s].head]}
    /\ udhas' = [udhas EXCEPT ![s] = Tail(@)]
    /\ udgot' = IF udptab[s].queue[udptab[s].head] = Head(udhas[s]) THEN "first" ELSE "other"

\* udp_recv and udp_recvaddr.  It takes a packet that is there, or waits.
udp_recv(p, s) ==
    /\ UdRuns(p)
    /\ udptab[s].state = "used"
    /\ \/ /\ udptab[s].count # 0
          /\ UdDequeue(s)
          /\ UNCHANGED <<udmsg, udcall>>
       \/ /\ udptab[s].count = 0
          /\ udptab' = [udptab EXCEPT ![s].state = "recv", ![s].pid = p]
          /\ udmsg' = [udmsg EXCEPT ![p] = "none"]
          /\ udcall' = [udcall EXCEPT ![p] = [op |-> "recv", slot |-> s]]
          /\ UNCHANGED <<udfree, udhas, udgot>>
    /\ UNCHANGED udspoilt

\* The state of slot s after the wait; the wrong one, for comparison, is not
\* changed after a timeout.
UdAsItWas(s) == udptab[s].state

UdWaited(s) == "used"

\* Its end, after the message "ok", another one, or a timeout.
UdWoken(p) == LET s == udcall[p].slot IN
    /\ udspoilt = "no"
    /\ udcall[p].op = "recv"
    /\ udcall' = [udcall EXCEPT ![p] = UdIdle]
    /\ udmsg' = [udmsg EXCEPT ![p] = "none"]
    /\ \/ /\ udmsg[p] = "ok"
          /\ IF udhas[s] # <<>> /\ UdUsed(s)
               THEN UdDequeue(s) /\ UNCHANGED udspoilt
               ELSE /\ udspoilt' = IF UdUsed(s) THEN "taken" ELSE "lost"
                    /\ UNCHANGED <<udptab, udfree, udhas, udgot>>
       \/ /\ udmsg[p] # "ok"
          /\ udptab' = [udptab EXCEPT ![s].state = UdWaited(s)]
          /\ udspoilt' = IF udptab[s].state = "used" \/ udptab[s].pid = p THEN "no" ELSE "lost"
          /\ UNCHANGED <<udfree, udhas, udgot>>

\* Messages from others: a child that ends, or anybody's send.  (Bound: none of
\* them is "ok".  arp_in sends OK, and if a stray message made the process give
\* up an address that is still pending in the cache, it may do so when the
\* process is already in udp_recv; that process then takes what is not there,
\* like one that was woken for a packet that is gone.)
send(p) ==
    /\ udspoilt = "no"
    /\ udmsg[p] = "none"
    /\ udmsg' = [udmsg EXCEPT ![p] = "other"]
    /\ UNCHANGED <<udptab, udcall, udfree, udspoilt, udhas, udgot>>

\* The buffers of the packets in the queue of slot s; the wrong ones, for
\* comparison, miss the first.
UdQueuedButFirst(s) ==
    {udptab[s].queue[(udptab[s].head + i) % UDP_QSIZ] : i \in 1 .. udptab[s].count - 1}

UdQueued(s) ==
    {udptab[s].queue[(udptab[s].head + i) % UDP_QSIZ] : i \in 0 .. udptab[s].count - 1}

\* udp_release, also for a slot a process waits for.
udp_release(p, s) ==
    /\ UdRuns(p)
    /\ UdUsed(s)
    /\ udptab' = [udptab EXCEPT ![s] = UdEntry("free", <<>>)]
    /\ udfree' = udfree \cup UdQueued(s)
    /\ udhas' = [udhas EXCEPT ![s] = <<>>]
    /\ UNCHANGED <<udmsg, udcall, udspoilt, udgot>>

\* udp_send, which needs a remote address, and udp_sendto: the packet takes a
\* buffer.  It may come back to this machine at once (ip_local), or the process
\* waits for the address of the next hop, and loses its message.
udp_send(p, s, k) ==
    /\ UdRuns(p)
    /\ UdUsed(s)
    /\ udfree # {}
    /\ \/ /\ udp_in(k, Min(udfree), udfree \ {Min(udfree)})
          /\ UNCHANGED udcall
       \/ /\ udfree' = udfree \ {Min(udfree)}
          /\ udcall' = [udcall EXCEPT ![p] = [op |-> "send", buf |-> Min(udfree)]]
          /\ udmsg' = [udmsg EXCEPT ![p] = "none"]
          /\ UNCHANGED <<udptab, udhas>>
    /\ UNCHANGED <<udspoilt, udgot>>

\* The packet was sent, or there was no answer.
UdSent(p) ==
    /\ udspoilt = "no"
    /\ udcall[p].op = "send"
    /\ udfree' = udfree \cup {udcall[p].buf}
    /\ udcall' = [udcall EXCEPT ![p] = UdIdle]
    /\ udmsg' = [udmsg EXCEPT ![p] = "none"]
    /\ UNCHANGED <<udptab, udspoilt, udhas, udgot>>

UdNext ==
    \/ \E k \in UdPkts : netin(k)
    \/ \E p \in UdProc :
         \/ \E e \in UdEnds : udp_register(p, e)
         \/ \E s \in UdSlot :
              \/ udp_recv(p, s) \/ udp_release(p, s)
              \/ \E k \in UdPkts : udp_send(p, s, k)
         \/ UdWoken(p) \/ send(p) \/ UdSent(p)

UdSpec == UdInit /\ [][UdNext]_udVars

-----------------------------------------------------------------------------

UdTypeOK ==
    /\ udfree \subseteq UdBuf
    /\ \A s \in UdSlot : /\ udptab[s].state \in {"free", "used", "recv"}
                         /\ udptab[s].count \in 0 .. UDP_QSIZ
                         /\ {udptab[s].head, udptab[s].tail} \subseteq 0 .. UDP_QSIZ - 1

\* Packets come out of a slot in the order in which they came in, each once
\* (the circular queue, udp.c:58 and 202).
PacketsInOrder ==
    /\ udgot = "first"
    /\ \A s \in UdSlot : /\ udptab[s].count = Len(udhas[s])
                         /\ \A i \in DOMAIN udhas[s] :
                              udptab[s].queue[(udptab[s].head + i - 1) % UDP_QSIZ] = udhas[s][i]

\* The places where buffer b is.
UdPlaces(b) ==
    {x \in {<<"free">>} : b \in udfree}
    \cup {<<"sent", p>> : p \in {x \in UdProc : udcall[x].op = "send" /\ udcall[x].buf = b}}
    \cup UNION {{<<"queued", s, i>> : i \in {j \in DOMAIN udhas[s] : udhas[s][j] = b}} : s \in UdSlot}

\* Each buffer is in one place: free, in one place of one queue, or with a
\* process that sends; and nothing else is there.  No packet loses its buffer,
\* on no path, and a slot that is free has none (udp.c:74, 218 and 536).
NetBufsOncePlaced ==
    /\ \A b \in UdBuf : Cardinality(UdPlaces(b)) = 1
    /\ \A p \in UdProc : udcall[p].op = "send" => udcall[p].buf \in UdBuf
    /\ \A s \in UdSlot : /\ Range(udhas[s]) \subseteq UdBuf
                         /\ ~UdUsed(s) => udhas[s] = <<>>

\* A slot says that a process waits exactly while one does, in recvtime and
\* without a packet; and a process that waits for a slot that does not say so
\* has its message (udp.c:63 and 186), if nobody released the slot.
WaiterIsKnown ==
    udspoilt = "no" =>
        \A s \in UdSlot : udptab[s].state = "recv" =>
            /\ udptab[s].count = 0
            /\ udptab[s].pid \in UdProc
            /\ udcall[udptab[s].pid] = [op |-> "recv", slot |-> s]

\* A process that waits for a slot is woken by a packet that is in its queue: it
\* is known there, or was told, or lost the slot to a release.
WaiterIsWoken ==
    udspoilt = "no" =>
        \A p \in UdProc : udcall[p].op = "recv" =>
            LET s == udcall[p].slot IN
            (udhas[s] # <<>> /\ udptab[s].pid = p) => udmsg[p] # "none"

\* "Packet has arrived -- dequeue it" (udp.c:200): when a process was told so,
\* there is one.
WokenFindsAPacket == udspoilt # "taken"

\* An endpoint receives its packets in order, every buffer is in one place, and
\* whoever waits is known to the slot and woken when a packet comes.
UdInv ==
    /\ UdTypeOK
    /\ PacketsInOrder
    /\ NetBufsOncePlaced
    /\ WaiterIsKnown
    /\ WaiterIsWoken

=============================================================================
