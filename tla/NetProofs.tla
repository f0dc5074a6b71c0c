------------------------------ MODULE NetProofs ------------------------------
(***************************************************************************)
(* Proofs about the network: the ARP cache, for any number of processes,   *)
(* entries, hosts and tries; the programs that talk to a server over UDP,  *)
(* for any file and block size and any number of processes, slots,         *)
(* sessions, servers, names and tries; the endpoints of UDP and the slots  *)
(* and the output queue of ICMP and IP, for any number of processes,       *)
(* slots, places of a queue, buffers and packets.                          *)
(***************************************************************************)
EXTENDS Udp, Arp, NetClients, Icmp, QueueOpsProofs, FiniteSetTheorems, SequenceTheorems, TLAPS

-----------------------------------------------------------------------------
(* ARP: the inductive invariant.                                           *)

\* The choice of a slot finds one.
LEMMA ArFirstIsOne ==
  ASSUME NEW S \in SUBSET ArSlot, S # {}
  PROVE  ArFirst(S) \in S
<1>1. S \in SUBSET Nat
  BY ArAssumption DEF ArSlot
<1>2. PICK x \in S : \A y \in S : ~(<<y, x>> \in OpToRel(<, Nat))
  BY <1>1, NatLessThanWellFounded, WFMin
<1>3. \A y \in S : x <= y
  <2>1. \A y \in S : ~(y < x)
    BY <1>1, <1>2 DEF OpToRel
  <2>2. QED
    BY <1>1, <2>1
<1>4. QED
  BY <1>3 DEF ArFirst

-----------------------------------------------------------------------------
(* The inductive invariant.                                                *)

\* MAC addresses; what an entry may hold; what a process is in.
ArMac == {ArNone} \cup (ArHosts \X ArVersions)

ArEntry == [state : {"free", "pending", "resolved"}, addr : ArHosts \cup {0},
            pid : ArProc \cup {0}, mac : ArMac]

ArCalls == {ArIdle} \cup [op : {"resolve"}, addr : ArHosts, slot : ArSlot,
                          try : 1 .. ARP_RETRY]

ArTypes ==
    /\ arpcache \in [ArSlot -> ArEntry]
    /\ armsg \in [ArProc -> {"none", "other", "ok"}]
    /\ arcall \in [ArProc -> ArCalls]
    /\ arspoilt \in {"no", "stray", "evicted"}
    /\ arlatest \in [ArHosts -> ArMac]
    /\ arresult \in {"own", "other"}

\* An entry that is used is of a host, and no host has two.
ArUnique ==
    /\ \A s \in ArSlot : arpcache[s].state # "free" => arpcache[s].addr \in ArHosts
    /\ \A s, t \in ArSlot :
         /\ arpcache[s].state # "free" /\ arpcache[t].state # "free"
         /\ arpcache[s].addr = arpcache[t].addr
         => s = t

\* A pending entry has a process that waits for it.
ArPendingHas ==
    arspoilt = "no" => \A s \in ArSlot : arpcache[s].state = "pending" =>
        /\ arpcache[s].pid \in ArProc
        /\ arcall[arpcache[s].pid].op = "resolve"
        /\ arcall[arpcache[s].pid].slot = s
        /\ arcall[arpcache[s].pid].addr = arpcache[s].addr

\* A process that waits has its entry, or a message.
ArWaiterHas ==
    arspoilt = "no" => \A p \in ArProc : arcall[p].op = "resolve" =>
        \/ armsg[p] # "none"
        \/ /\ arpcache[arcall[p].slot].state = "pending"
           /\ arpcache[arcall[p].slot].pid = p

\* The address of a resolved entry is what its host told last, and its own.
ArResolvedIs ==
    \A s \in ArSlot : arpcache[s].state = "resolved" =>
        /\ arpcache[s].mac = arlatest[arpcache[s].addr]
        /\ arpcache[s].mac[1] = arpcache[s].addr

ArIInv ==
    /\ ArTypes
    /\ ArUnique
    /\ ArPendingHas
    /\ ArWaiterHas
    /\ ArResolvedIs
    /\ ResolvesTheHost

-----------------------------------------------------------------------------

\* At the start.
LEMMA ArInitOK == ArInit => ArIInv
<1> SUFFICES ASSUME ArInit PROVE ArIInv
  OBVIOUS
<1> USE DEF ArInit, ArFree, ArNone, ArIdle
<1>1. ArTypes
  BY DEF ArTypes, ArEntry, ArMac, ArCalls
<1>2. ArUnique /\ ArPendingHas /\ ArWaiterHas /\ ArResolvedIs /\ ResolvesTheHost
  BY DEF ArUnique, ArPendingHas, ArWaiterHas, ArResolvedIs, ResolvesTheHost
<1>3. QED
  BY <1>1, <1>2 DEF ArIInv

\* What a process that waits is in.
LEMMA ArCallShape ==
  ASSUME ArTypes, NEW p \in ArProc, arcall[p].op = "resolve"
  PROVE  /\ arcall[p] \in [op : {"resolve"}, addr : ArHosts, slot : ArSlot,
                           try : 1 .. ARP_RETRY]
         /\ arcall[p].addr \in ArHosts /\ arcall[p].slot \in ArSlot
         /\ arcall[p].try \in 1 .. ARP_RETRY
<1>1. arcall[p] \in ArCalls /\ arcall[p] # ArIdle
  BY DEF ArTypes, ArIdle
<1>2. QED
  BY <1>1 DEF ArCalls

\* A slot that may be used is not pending.
LEMMA ArUsableSlot ==
  ASSUME ArTypes, ArUsable # {}
  PROVE  /\ ArFirst(ArUsable) \in ArSlot
         /\ arpcache[ArFirst(ArUsable)].state # "pending"
<1>1. ArUsable \in SUBSET ArSlot
  BY DEF ArUsable, ArWith
<1>2. ArFirst(ArUsable) \in ArUsable
  BY <1>1, ArFirstIsOne
<1>3. QED
  BY <1>1, <1>2 DEF ArUsable, ArWith

\* arp_resolve with an address in the cache, and with a new entry.
LEMMA ArResolveOK ==
  ASSUME ArIInv, NEW p \in ArProc, NEW h \in ArHosts, arp_resolve(p, h)
  PROVE  ArIInv'
<1> USE DEF ArIInv
<1>1. arspoilt = "no" /\ arspoilt' = "no" /\ arlatest' = arlatest /\ arcall[p] = ArIdle
  BY DEF arp_resolve
<1>2. CASE \E s \in ArKnown(h) : /\ arresult' = ArOwn(h, arpcache[s].mac)
                                 /\ UNCHANGED <<arpcache, armsg, arcall>>
  <2>1. PICK s \in ArKnown(h) : arresult' = ArOwn(h, arpcache[s].mac)
    BY <1>2
  <2>2. s \in ArSlot /\ arpcache[s].state = "resolved" /\ arpcache[s].addr = h
    BY DEF ArKnown, ArEntries, ArWith
  <2>3. arresult' = "own"
    BY <2>1, <2>2 DEF ArOwn, ArResolvedIs
  <2>4. ArTypes'
    BY <1>1, <1>2, <2>3 DEF ArTypes
  <2>5. ArUnique' /\ ArPendingHas' /\ ArWaiterHas' /\ ArResolvedIs'
    BY <1>1, <1>2 DEF ArUnique, ArPendingHas, ArWaiterHas, ArResolvedIs
  <2>6. QED
    BY <2>3, <2>4, <2>5 DEF ResolvesTheHost
<1>3. CASE ~ \E s \in ArKnown(h) : /\ arresult' = ArOwn(h, arpcache[s].mac)
                                   /\ UNCHANGED <<arpcache, armsg, arcall>>
  <2> DEFINE s == ArFirst(ArUsable)
             e == [state |-> "pending", addr |-> h, pid |-> p, mac |-> ArNone]
             c == [op |-> "resolve", addr |-> h, slot |-> s, try |-> 1]
  <2>1. /\ ArEntries(h) = {} /\ ArUsable # {}
        /\ arpcache' = [arpcache EXCEPT ![s] = e]
        /\ arcall' = [arcall EXCEPT ![p] = c]
        /\ armsg' = [armsg EXCEPT ![p] = "none"]
        /\ arresult' = arresult
    BY <1>3 DEF arp_resolve
  <2>2. s \in ArSlot /\ arpcache[s].state # "pending"
    BY <2>1, ArUsableSlot
  <2>3. e \in ArEntry /\ c \in ArCalls /\ c.op = "resolve"
    BY <2>2, ArAssumption DEF ArEntry, ArMac, ArCalls
  <2> HIDE DEF s
  <2>4. ArTypes'
    BY <1>1, <2>1, <2>2, <2>3 DEF ArTypes
  <2>5. \A t \in ArSlot : arpcache'[t] = IF t = s THEN e ELSE arpcache[t]
    BY <2>1, <2>2 DEF ArTypes
  <2>6. \A q \in ArProc : /\ arcall'[q] = (IF q = p THEN c ELSE arcall[q])
                          /\ armsg'[q] = (IF q = p THEN "none" ELSE armsg[q])
    BY <2>1 DEF ArTypes
  <2>7. \A t \in ArSlot : arpcache[t].state # "free" => arpcache[t].addr # h
    BY <2>1 DEF ArEntries
  <2>8. ArUnique'
    BY <2>2, <2>5, <2>7 DEF ArUnique
  <2>9. ArPendingHas'
    BY <1>1, <2>2, <2>5, <2>6 DEF ArPendingHas, ArIdle
  <2>10. ArWaiterHas'
    <3> SUFFICES ASSUME NEW q \in ArProc, arcall'[q].op = "resolve", armsg'[q] = "none"
                 PROVE  /\ arpcache'[arcall'[q].slot].state = "pending"
                        /\ arpcache'[arcall'[q].slot].pid = q
      BY DEF ArWaiterHas
    <3>1. CASE q = p
      BY <3>1, <2>2, <2>5, <2>6
    <3>2. CASE q # p
      BY <3>2, <1>1, <2>2, <2>5, <2>6, ArCallShape DEF ArWaiterHas
    <3>3. QED
      BY <3>1, <3>2
  <2>11. ArResolvedIs'
    BY <1>1, <2>2, <2>5 DEF ArResolvedIs
  <2>12. QED
    BY <1>1, <2>1, <2>4, <2>8, <2>9, <2>10, <2>11 DEF ResolvesTheHost
<1>4. QED
  BY <1>2, <1>3

\* A wait ends without a message.
LEMMA ArTimeoutOK ==
  ASSUME ArIInv, NEW p \in ArProc, ArTimeout(p)
  PROVE  ArIInv'
<1> USE DEF ArIInv
<1> DEFINE c == arcall[p]
<1>1. /\ arspoilt = "no" /\ arspoilt' = "no" /\ armsg' = armsg /\ arlatest' = arlatest
      /\ arresult' = arresult
      /\ c.op = "resolve" /\ armsg[p] = "none"
  BY DEF ArTimeout
<1>2. /\ c \in [op : {"resolve"}, addr : ArHosts, slot : ArSlot, try : 1 .. ARP_RETRY]
      /\ c.slot \in ArSlot
  BY <1>1, ArCallShape
<1>3. CASE ArMore(c)
  <2>1. arcall' = [arcall EXCEPT ![p] = [c EXCEPT !.try = @ + 1]] /\ arpcache' = arpcache
    BY <1>3 DEF ArTimeout
  <2>2. [c EXCEPT !.try = @ + 1] \in ArCalls
    BY <1>2, <1>3, ArAssumption DEF ArMore, ArCalls
  <2>3. ArTypes'
    BY <1>1, <2>1, <2>2 DEF ArTypes
  <2>4. \A q \in ArProc : /\ arcall'[q].op = arcall[q].op
                          /\ arcall[q].op = "resolve" =>
                               /\ arcall'[q].slot = arcall[q].slot
                               /\ arcall'[q].addr = arcall[q].addr
    BY <1>2, <2>1 DEF ArTypes
  <2>5. ArPendingHas' /\ ArWaiterHas'
    BY <1>1, <2>1, <2>4 DEF ArPendingHas, ArWaiterHas
  <2>6. QED
    BY <1>1, <2>1, <2>3, <2>5 DEF ArUnique, ArResolvedIs, ResolvesTheHost
<1>4. CASE ~ArMore(c)
  <2>1. /\ arcall' = [arcall EXCEPT ![p] = ArIdle]
        /\ arpcache' = [arpcache EXCEPT ![c.slot] = [arpcache[c.slot] EXCEPT !.state = "free"]]
    BY <1>4 DEF ArTimeout
  <2>2. [arpcache[c.slot] EXCEPT !.state = "free"] \in ArEntry
    BY <1>2 DEF ArTypes, ArEntry
  <2>3. ArTypes'
    BY <1>1, <1>2, <2>1, <2>2 DEF ArTypes, ArCalls
  <2>4. \A t \in ArSlot : /\ t # c.slot => arpcache'[t] = arpcache[t]
                          /\ t = c.slot => arpcache'[t].state = "free"
    BY <1>2, <2>1 DEF ArTypes, ArEntry
  <2>5. \A q \in ArProc : arcall'[q] = IF q = p THEN ArIdle ELSE arcall[q]
    BY <2>1 DEF ArTypes
  <2>6. ArUnique'
    BY <2>4 DEF ArUnique
  <2>7. ArPendingHas'
    <3> SUFFICES ASSUME NEW t \in ArSlot, arpcache'[t].state = "pending"
                 PROVE  /\ arpcache'[t].pid \in ArProc
                        /\ arcall'[arpcache'[t].pid].op = "resolve"
                        /\ arcall'[arpcache'[t].pid].slot = t
                        /\ arcall'[arpcache'[t].pid].addr = arpcache'[t].addr
      BY DEF ArPendingHas
    <3>1. t # c.slot /\ arpcache'[t] = arpcache[t]
      BY <2>4
    <3>2. arpcache[t].pid # p
      BY <1>1, <3>1 DEF ArPendingHas
    <3>3. QED
      BY <1>1, <2>5, <3>1, <3>2 DEF ArPendingHas
  <2>8. ArWaiterHas'
    <3> SUFFICES ASSUME NEW q \in ArProc, arcall'[q].op = "resolve", armsg'[q] = "none"
                 PROVE  /\ arpcache'[arcall'[q].slot].state = "pending"
                        /\ arpcache'[arcall'[q].slot].pid = q
      BY DEF ArWaiterHas
    <3>1. q # p /\ arcall'[q] = arcall[q]
      BY <2>5 DEF ArIdle
    <3>2. /\ arpcache[arcall[q].slot].state = "pending" /\ arpcache[arcall[q].slot].pid = q
          /\ arpcache[c.slot].pid = p
      BY <1>1, <3>1 DEF ArWaiterHas
    <3>3. QED
      BY <2>4, <3>1, <3>2, ArCallShape
  <2>9. ArResolvedIs'
    BY <1>1, <2>4 DEF ArResolvedIs
  <2>10. QED
    BY <1>1, <2>3, <2>6, <2>7, <2>8, <2>9 DEF ResolvesTheHost
<1>5. QED
  BY <1>3, <1>4

\* A wait ends with a message.
LEMMA ArWokenOK ==
  ASSUME ArIInv, NEW p \in ArProc, ArWoken(p)
  PROVE  ArIInv'
<1> USE DEF ArIInv
<1> DEFINE c == arcall[p]
           e == arpcache[c.slot]
<1>1. /\ arpcache' = arpcache /\ arlatest' = arlatest /\ arspoilt = "no"
      /\ armsg' = [armsg EXCEPT ![p] = "none"]
      /\ arcall' = [arcall EXCEPT ![p] = ArIdle]
      /\ arresult' = ArOwn(c.addr, e.mac)
      /\ arspoilt' \in {"no", "stray", "evicted"}
      /\ c.op = "resolve"
  BY DEF ArWoken
<1>2. arspoilt' = "no" => e.state = "resolved" /\ e.addr = c.addr
  BY DEF ArWoken
<1>3. c.slot \in ArSlot
  BY <1>1, ArCallShape
<1>4. \A q \in ArProc : /\ arcall'[q] = (IF q = p THEN ArIdle ELSE arcall[q])
                        /\ armsg'[q] = (IF q = p THEN "none" ELSE armsg[q])
  BY <1>1 DEF ArTypes
<1>5. ArTypes'
  BY <1>1 DEF ArTypes, ArCalls, ArOwn
<1>6. ArUnique' /\ ArResolvedIs'
  BY <1>1 DEF ArUnique, ArResolvedIs
<1>7. ArPendingHas'
  <2> SUFFICES ASSUME arspoilt' = "no", NEW t \in ArSlot, arpcache[t].state = "pending"
               PROVE  /\ arpcache[t].pid \in ArProc
                      /\ arcall'[arpcache[t].pid].op = "resolve"
                      /\ arcall'[arpcache[t].pid].slot = t
                      /\ arcall'[arpcache[t].pid].addr = arpcache[t].addr
    BY <1>1 DEF ArPendingHas
  <2>1. arpcache[t].pid # p
    BY <1>1, <1>2, <1>3 DEF ArPendingHas
  <2>2. QED
    BY <1>1, <1>4, <2>1 DEF ArPendingHas
<1>8. ArWaiterHas'
  BY <1>1, <1>4 DEF ArWaiterHas, ArIdle
<1>9. ResolvesTheHost'
  BY <1>1, <1>2, <1>3 DEF ResolvesTheHost, ArOwn, ArResolvedIs
<1>10. QED
  BY <1>5, <1>6, <1>7, <1>8, <1>9

\* A message from elsewhere.
LEMMA ArStrayOK ==
  ASSUME ArIInv, NEW p \in ArProc, ArStray(p)
  PROVE  ArIInv'
<1> USE DEF ArIInv, ArStray
<1>1. ArTypes'
  BY DEF ArTypes
<1>2. \A q \in ArProc : armsg'[q] = IF q = p THEN "other" ELSE armsg[q]
  BY DEF ArTypes
<1>3. ArWaiterHas'
  BY <1>2 DEF ArWaiterHas
<1>4. QED
  BY <1>1, <1>3 DEF ArUnique, ArPendingHas, ArResolvedIs, ResolvesTheHost

\* A host tells its address: a new entry, or those that are there.
LEMMA ArInOK ==
  ASSUME ArIInv, NEW h \in ArHosts, NEW v \in ArVersions, NEW forus \in BOOLEAN,
         arp_in(h, <<h, v>>, forus)
  PROVE  ArIInv'
<1> USE DEF ArIInv
<1> DEFINE m == <<h, v>>
           woken(p) == /\ \E s \in ArEntries(h) : /\ arpcache[s].state = "pending"
                                                   /\ arpcache[s].pid = p
                       /\ armsg[p] = "none"
<1>1. /\ arspoilt = "no" /\ arspoilt' = "no" /\ arcall' = arcall /\ arresult' = arresult
      /\ arlatest' = [arlatest EXCEPT ![h] = m]
      /\ armsg' = [p \in ArProc |-> IF woken(p) THEN "ok" ELSE armsg[p]]
  BY DEF arp_in
<1>2. m \in ArMac /\ m[1] = h
  BY DEF ArMac
<1>3. \A s \in ArSlot : s \in ArEntries(h) <=> arpcache[s].state # "free" /\ arpcache[s].addr = h
  BY DEF ArEntries
<1>4. /\ armsg' \in [ArProc -> {"none", "other", "ok"}]
      /\ \A p \in ArProc : armsg'[p] = IF woken(p) THEN "ok" ELSE armsg[p]
  BY <1>1 DEF ArTypes
<1>5. /\ arlatest' \in [ArHosts -> ArMac]
      /\ \A g \in ArHosts : arlatest'[g] = IF g = h THEN m ELSE arlatest[g]
  BY <1>1, <1>2 DEF ArTypes
<1> HIDE DEF m
<1>6. CASE forus /\ ArAdds(h)
  <2> DEFINE s == ArFirst(ArUsable)
             e == [state |-> "resolved", addr |-> h, pid |-> 0, mac |-> m]
  <2>1. ArEntries(h) = {} /\ ArUsable # {} /\ arpcache' = [arpcache EXCEPT ![s] = e]
    BY <1>6 DEF arp_in, ArAdds, m
  <2>2. s \in ArSlot /\ arpcache[s].state # "pending"
    BY <2>1, ArUsableSlot
  <2>3. e \in ArEntry
    BY <1>2 DEF ArEntry
  <2> HIDE DEF s
  <2>4. \A t \in ArSlot : arpcache'[t] = IF t = s THEN e ELSE arpcache[t]
    BY <2>1, <2>2 DEF ArTypes
  <2>5. ArTypes'
    BY <1>1, <1>4, <1>5, <2>1, <2>2, <2>3 DEF ArTypes
  <2>6. ArUnique'
    BY <1>3, <2>1, <2>2, <2>4 DEF ArUnique
  <2>7. ArPendingHas'
    BY <1>1, <2>2, <2>4 DEF ArPendingHas
  <2>8. ArWaiterHas'
    BY <1>1, <1>4, <2>2, <2>4, ArCallShape DEF ArWaiterHas
  <2>9. ArResolvedIs'
    BY <1>2, <1>3, <1>5, <2>1, <2>2, <2>4 DEF ArResolvedIs, ArUnique
  <2>10. QED
    BY <1>1, <2>5, <2>6, <2>7, <2>8, <2>9 DEF ResolvesTheHost
<1>7. CASE ~(forus /\ ArAdds(h))
  <2>1. arpcache' = [s \in ArSlot |-> IF s \in ArEntries(h) THEN ArUpdated(arpcache[s], m)
                                                           ELSE arpcache[s]]
    BY <1>7 DEF arp_in, m
  <2>2. \A s \in ArSlot :
          IF s \in ArEntries(h)
            THEN /\ arpcache'[s].state = "resolved" /\ arpcache'[s].addr = h
                 /\ arpcache'[s].mac = m
                 /\ arpcache'[s] \in ArEntry
            ELSE arpcache'[s] = arpcache[s]
    BY <1>2, <1>3, <2>1 DEF ArTypes, ArEntry, ArUpdated
  <2>3. ArTypes'
    BY <1>1, <1>4, <1>5, <2>1, <2>2 DEF ArTypes
  <2>4. \A s \in ArSlot : /\ arpcache'[s].addr = arpcache[s].addr
                          /\ arpcache'[s].state # "free" <=> arpcache[s].state # "free"
    BY <1>3, <2>2
  <2>5. ArUnique'
    BY <2>4 DEF ArUnique
  <2>6. ArPendingHas'
    BY <1>1, <2>2 DEF ArPendingHas
  <2>7. ArWaiterHas'
    <3> SUFFICES ASSUME NEW q \in ArProc, arcall[q].op = "resolve", armsg'[q] = "none"
                 PROVE  /\ arpcache'[arcall[q].slot].state = "pending"
                        /\ arpcache'[arcall[q].slot].pid = q
      BY <1>1 DEF ArWaiterHas
    <3> DEFINE s == arcall[q].slot
    <3>1. s \in ArSlot /\ ~woken(q) /\ armsg[q] = "none"
      BY <1>4, ArCallShape
    <3>2. arpcache[s].state = "pending" /\ arpcache[s].pid = q
      BY <1>1, <3>1 DEF ArWaiterHas
    <3>3. s \notin ArEntries(h)
      BY <3>1, <3>2
    <3>4. QED
      BY <2>2, <3>1, <3>2, <3>3
  <2>8. ArResolvedIs'
    BY <1>2, <1>3, <1>5, <2>2 DEF ArResolvedIs, ArUnique
  <2>9. QED
    BY <1>1, <2>3, <2>5, <2>6, <2>7, <2>8 DEF ResolvesTheHost
<1>8. QED
  BY <1>6, <1>7

LEMMA ArNextOK ==
  ASSUME ArIInv, [ArNext]_arVars
  PROVE  ArIInv'
<1>1. CASE UNCHANGED arVars
  BY <1>1 DEF arVars, ArIInv, ArTypes, ArUnique, ArPendingHas, ArWaiterHas, ArResolvedIs,
              ResolvesTheHost
<1>2. CASE ArNext
  BY <1>2, ArResolveOK, ArTimeoutOK, ArWokenOK, ArStrayOK, ArInOK DEF ArNext
<1>3. QED
  BY <1>1, <1>2

\* What ArInv says follows from it.
LEMMA ArIInvImplies == ArIInv => ArInv
<1> SUFFICES ASSUME ArIInv PROVE ArInv
  OBVIOUS
<1> USE DEF ArIInv
<1>1. ArTypeOK
  BY DEF ArTypeOK, ArTypes, ArEntry, ArCalls
<1>2. OneEntryPerHost
  <2> SUFFICES ASSUME NEW h \in ArHosts
               PROVE  Cardinality(ArEntries(h)) <= 1
    BY DEF OneEntryPerHost
  <2>1. CASE ArEntries(h) = {}
    BY <2>1, FS_EmptySet
  <2>2. CASE ArEntries(h) # {}
    <3>1. PICK s : s \in ArEntries(h)
      BY <2>2
    <3>2. ArEntries(h) = {s}
      BY <3>1 DEF ArEntries, ArUnique
    <3>3. Cardinality({s}) = 1
      BY FS_Singleton
    <3>4. QED
      BY <3>2, <3>3
  <2>3. QED
    BY <2>1, <2>2
<1>3. PendingIsAwaited
  BY DEF PendingIsAwaited, ArWith, ArPendingHas, ArWaiterHas
<1>4. EntriesFollowHosts
  BY DEF EntriesFollowHosts, ArWith, ArResolvedIs
<1>5. QED
  BY <1>1, <1>2, <1>3, <1>4 DEF ArInv

\* The cache of ARP, whatever the processes, the other hosts and the timeouts
\* do: one entry for a host, a pending entry has a process that retries or frees
\* it, an address is the one its host told last, and arp_resolve returns the
\* address of the host it was asked for.
THEOREM ArpCache == ArSpec => []ArInv
<1>1. ArInit => ArIInv
  BY ArInitOK
<1>2. ArIInv /\ [ArNext]_arVars => ArIInv'
  BY ArNextOK
<1>3. ArIInv => ArInv
  BY ArIInvImplies
<1>4. QED
  BY <1>1, <1>2, <1>3, PTL DEF ArSpec

-----------------------------------------------------------------------------
(* DHCP, DNS and TFTP: blocks of the file.                                 *)

\* Where block k begins, less one, and where it ends.
TfFrom(k) == (k - 1) * TFTP_MAXDATA
TfTo(k) == IF k * TFTP_MAXDATA < Len(TfFile) THEN k * TFTP_MAXDATA ELSE Len(TfFile)

\* Division: the last block begins within the file and ends behind it.
LEMMA TfLastBlock ==
  /\ TfLast \in Nat \ {0} /\ Len(TfFile) \in Nat
  /\ (TfLast - 1) * TFTP_MAXDATA <= Len(TfFile)
  /\ Len(TfFile) < TfLast * TFTP_MAXDATA
<1> DEFINE M == TFTP_MAXDATA
           L == Len(TfFile)
           q == L \div M
<1>1. L \in Nat /\ M \in Nat \ {0}
  BY NcAssumption, LenProperties
<1> HIDE DEF M, L
<1>2. q \in Nat /\ L = M * q + (L % M) /\ L % M \in 0 .. M - 1
  BY <1>1
<1>3. TfLast = q + 1
  BY DEF TfLast, M, L
<1> HIDE DEF q
<1>4. (TfLast - 1) * M = M * q /\ TfLast * M = M * q + M
  BY <1>1, <1>2, <1>3
<1>5. QED
  BY <1>1, <1>2, <1>3, <1>4 DEF M, L

\* The first n bytes of the file are a prefix of it.
LEMMA TfPrefix ==
  ASSUME NEW n \in 0 .. Len(TfFile)
  PROVE  /\ SubSeq(TfFile, 1, n) \in Seq(Nat)
         /\ Len(SubSeq(TfFile, 1, n)) = n
         /\ IsPrefix(SubSeq(TfFile, 1, n), TfFile)
<1> DEFINE s == SubSeq(TfFile, 1, n)
<1>1. TfFile \in Seq(Nat) /\ Len(TfFile) \in Nat /\ n \in Nat /\ n <= Len(TfFile)
  BY NcAssumption, LenProperties
<1>2. \A i \in 1 .. n : TfFile[i] \in Nat
  BY <1>1, ElementOfSeq
<1>3. s \in Seq(Nat) /\ Len(s) = IF 1 <= n THEN n - 1 + 1 ELSE 0
  BY <1>1, <1>2, SubSeqProperties
<1>4. Len(s) = n
  BY <1>1, <1>3
<1>5. SubSeq(s, 1, Len(s)) = s
  BY <1>3, SubSeqFull
<1>6. QED
  BY <1>1, <1>3, <1>4, <1>5 DEF IsPrefix

\* Its beginning is a prefix of a longer one.
LEMMA TfShorter ==
  ASSUME NEW n \in 0 .. Len(TfFile), NEW m \in 1 .. n
  PROVE  SubSeq(SubSeq(TfFile, 1, n), 1, m) = SubSeq(TfFile, 1, m)
<1>1. TfFile \in Seq(Nat) /\ Len(TfFile) \in Nat /\ n \in 1 .. Len(TfFile) /\ 1 \in 1 .. Len(TfFile)
  BY NcAssumption, LenProperties
<1>2. 1 \in 1 .. n - 1 + 1 /\ m \in 1 .. n - 1 + 1
  OBVIOUS
<1>3. SubSeq(SubSeq(TfFile, 1, n), 1, m) = SubSeq(TfFile, 1 + 1 - 1, 1 + m - 1)
  BY <1>1, <1>2, SubSeqOfSubSeq
<1>4. QED
  BY <1>3

\* Block k is behind what the blocks before it hold; a full one has a successor,
\* and one that is not full ends the file.
LEMMA TfBlocks ==
  ASSUME NEW k \in 1 .. TfLast
  PROVE  /\ TfFrom(k) \in Nat /\ TfTo(k) \in 0 .. Len(TfFile) /\ TfFrom(k) <= TfTo(k)
         /\ SubSeq(TfFile, 1, TfFrom(k)) \o TfBlock(k) = SubSeq(TfFile, 1, TfTo(k))
         /\ ~TfEndsAt(TfBlock(k)) => k + 1 \in 1 .. TfLast /\ TfFrom(k + 1) = TfTo(k)
         /\ TfEndsAt(TfBlock(k)) => TfTo(k) = Len(TfFile)
<1> DEFINE M == TFTP_MAXDATA
           L == Len(TfFile)
<1>1. /\ M \in Nat \ {0} /\ L \in Nat /\ TfLast \in Nat \ {0} /\ k \in Nat \ {0}
      /\ TfFile \in Seq(Nat)
      /\ (TfLast - 1) * M <= L /\ L < TfLast * M
  BY NcAssumption, TfLastBlock
<1> HIDE DEF M, L
<1>2. (k - 1) * M <= (TfLast - 1) * M
  <2>1. k - 1 \in Nat /\ TfLast - 1 \in Nat /\ k - 1 <= TfLast - 1
    BY <1>1
  <2>2. \A a, b \in Nat : a <= b => a * M <= b * M
    BY <1>1
  <2>3. QED
    BY <2>1, <2>2
<1>3. (k - 1) * M \in Nat /\ k * M \in Nat /\ k * M = (k - 1) * M + M
  BY <1>1
<1>4. (k - 1) * M <= L
  <2>1. (TfLast - 1) * M \in Int
    BY <1>1
  <2>2. QED
    BY <1>1, <1>2, <1>3, <2>1
<1>5. /\ TfFrom(k) = (k - 1) * M
      /\ TfTo(k) = (IF k * M < L THEN k * M ELSE L)
      /\ TfFrom(k + 1) = k * M
  BY <1>1 DEF TfFrom, TfTo, M, L
<1>6. TfFrom(k) \in Nat /\ TfTo(k) \in 0 .. L /\ TfFrom(k) <= TfTo(k)
  BY <1>1, <1>3, <1>4, <1>5
<1>7. TfBlock(k) = SubSeq(TfFile, TfFrom(k) + 1, TfTo(k))
  BY DEF TfBlock, TfFrom, TfTo
<1>8. Len(TfBlock(k)) = TfTo(k) - TfFrom(k)
  <2>1. \A i \in TfFrom(k) + 1 .. TfTo(k) : TfFile[i] \in Nat
    BY <1>1, <1>6, ElementOfSeq DEF L
  <2>2. Len(TfBlock(k)) = IF TfFrom(k) + 1 <= TfTo(k) THEN TfTo(k) - (TfFrom(k) + 1) + 1 ELSE 0
    BY <1>6, <1>7, <2>1, SubSeqProperties
  <2>3. QED
    BY <1>6, <2>2
<1>9. SubSeq(TfFile, 1, TfFrom(k)) \o TfBlock(k) = SubSeq(TfFile, 1, TfTo(k))
  <2>1. /\ 1 \in 1 .. L + 1 /\ TfFrom(k) \in 1 - 1 .. L
        /\ TfTo(k) \in TfFrom(k) .. L
    BY <1>1, <1>6
  <2>2. QED
    BY <1>1, <1>7, <2>1, ConcatAdjacentSubSeq DEF L
<1>10. ~TfEndsAt(TfBlock(k)) => k + 1 \in 1 .. TfLast /\ TfFrom(k + 1) = TfTo(k)
  <2> SUFFICES ASSUME ~(TfTo(k) - TfFrom(k) < M)
               PROVE  k + 1 \in 1 .. TfLast /\ TfFrom(k + 1) = TfTo(k)
    BY <1>8 DEF TfEndsAt, M
  <2>1. k * M <= L /\ TfTo(k) = k * M
    BY <1>1, <1>3, <1>5, <1>6
  <2>2. k # TfLast
    BY <1>1, <1>3, <2>1
  <2>3. QED
    BY <1>1, <1>5, <2>1, <2>2
<1>11. TfEndsAt(TfBlock(k)) => TfTo(k) = L
  <2> SUFFICES ASSUME TfTo(k) - TfFrom(k) < M
               PROVE  TfTo(k) = L
    BY <1>8 DEF TfEndsAt, M
  <2>1. QED
    BY <1>1, <1>3, <1>5, <1>6
<1>12. QED
  BY <1>6, <1>9, <1>10, <1>11 DEF L

-----------------------------------------------------------------------------
(* The inductive invariant.                                                *)

\* What a process is in.
TfCalls == [op : {"tftp"}, expected : 1 .. TfLast, port : Nat, try : Nat,
            got : Seq(Nat), size : TfSizes]
DhCalls == [op : {"dhcp"}, i : Nat, j : Nat, msg : {DhDiscover} \cup (DhServers \X BOOLEAN),
            name : DnNames \cup {<<>>}]
DnNamed == [op : {"named"}, name : DnNames]
DnCalls == [op : {"dns"}, name : DnNames, try : Nat]

NcCalls == {NcIdle} \cup TfCalls \cup DhCalls \cup DnNamed \cup DnCalls

\* What servers may have sent.
TfMsgs == [port : Nat, kind : {"data", "error"}, block : 1 .. TfLast]
DhMsgs == [server : DhServers, type : {"offer", "ack"}, own : BOOLEAN, xid : BOOLEAN,
           id : BOOLEAN, dns : BOOLEAN]

NcTypes ==
    /\ nccall \in [NcProc -> NcCalls]
    /\ DOMAIN ncresult = NcProc
    /\ tfnet \in [NcProc -> SUBSET TfMsgs]
    /\ dhnet \subseteq DhMsgs

\* A transfer has the blocks before the one it expects.
TfProgress ==
    \A p \in NcProc : nccall[p].op = "tftp" =>
        nccall[p].got = SubSeq(TfFile, 1, TfFrom(nccall[p].expected))

\* What a call that returned has, after sent was asked for.
NcResultOK(r, sent) ==
    /\ r.op = "done" =>
         /\ IsPrefix(r.got, TfFile)
         /\ Len(r.got) = (IF Len(TfFile) <= r.size THEN Len(TfFile) ELSE r.size)
    /\ r.op = "resolved" => IsPrefix(r.name, r.answer) /\ r.answer \in sent

NcResultsOK == \A p \in NcProc : NcResultOK(ncresult[p], dnsent)

\* The endpoint of call c of p.
NcEndOf(p, c) == IF c.op = "tftp" THEN TfEnd(p) ELSE IF c.op = "dhcp" THEN DhEnd ELSE DnEnd

NcEnd(p) == NcEndOf(p, nccall[p])

NcBusy(p) == nccall[p].op \in {"tftp", "dhcp", "dns"}

\* Each call has an endpoint of its own, which no other call left behind.
NcSlotsOK ==
    /\ IsFiniteSet(ncslots) /\ Cardinality(ncslots) <= NcSlots
    /\ ncleft \subseteq ncslots /\ ncleft \subseteq {DhEnd, DnEnd}
    /\ \A e \in ncslots : e \in ncleft \/ \E p \in NcProc : NcBusy(p) /\ e = NcEnd(p)
    /\ \A p \in NcProc : NcBusy(p) => NcEnd(p) \in ncslots /\ NcEnd(p) \notin ncleft
    /\ \A p, q \in NcProc : NcBusy(p) /\ NcBusy(q) /\ NcEnd(p) = NcEnd(q) => p = q

\* What servers answer, they were asked.
NcAsked ==
    /\ \A m \in dhnet : m.own /\ m.type = "ack" => DhAddress(m) \in dhsent
    /\ dnnet \subseteq dnsent
    /\ AddressIsAcknowledged

NcIInv ==
    /\ NcTypes
    /\ TfProgress
    /\ NcResultsOK
    /\ NcSlotsOK
    /\ NcAsked

-----------------------------------------------------------------------------
(* Facts the steps share.                                                  *)

\* What a process is in, by what it does.
LEMMA NcShape ==
  ASSUME NcTypes, NEW p \in NcProc
  PROVE  /\ nccall[p].op = "tftp" <=> nccall[p] \in TfCalls
         /\ nccall[p].op = "dhcp" <=> nccall[p] \in DhCalls
         /\ nccall[p].op = "dns" <=> nccall[p] \in DnCalls
         /\ nccall[p].op = "named" <=> nccall[p] \in DnNamed
         /\ nccall[p] = NcIdle => ~NcBusy(p)
<1>1. nccall[p] \in NcCalls
  BY DEF NcTypes
<1>2. QED
  BY <1>1 DEF NcCalls, NcIdle, NcBusy, TfCalls, DhCalls, DnNamed, DnCalls

\* The endpoints without that of p: the others are there as before.
LEMMA NcSlotsWithout ==
  ASSUME NcSlotsOK, NEW p \in NcProc
  PROVE  LET base == IF NcBusy(p) THEN ncslots \ {NcEnd(p)} ELSE ncslots IN
         /\ IsFiniteSet(base) /\ Cardinality(base) \in Nat
         /\ Cardinality(base) <= NcSlots
         /\ NcBusy(p) => Cardinality(base) < NcSlots
         /\ ncleft \subseteq base
         /\ \A e \in base : e \in ncleft \/ \E q \in NcProc \ {p} : NcBusy(q) /\ e = NcEnd(q)
         /\ \A q \in NcProc \ {p} : NcBusy(q) => NcEnd(q) \in base
<1>1. IsFiniteSet(ncslots) /\ Cardinality(ncslots) \in Nat /\ NcSlots \in Nat
  BY NcAssumption, FS_CardinalityType DEF NcSlotsOK
<1>2. CASE NcBusy(p)
  <2>1. NcEnd(p) \in ncslots /\ NcEnd(p) \notin ncleft
    BY <1>2 DEF NcSlotsOK
  <2>2. /\ IsFiniteSet(ncslots \ {NcEnd(p)})
        /\ Cardinality(ncslots \ {NcEnd(p)}) = Cardinality(ncslots) - 1
    BY <1>1, <2>1, FS_RemoveElement
  <2>3. Cardinality(ncslots \ {NcEnd(p)}) \in Nat
    BY <2>2, FS_CardinalityType
  <2>4. QED
    BY <1>1, <1>2, <2>1, <2>2, <2>3 DEF NcSlotsOK
<1>3. CASE ~NcBusy(p)
  BY <1>1, <1>3 DEF NcSlotsOK
<1>4. QED
  BY <1>2, <1>3

LEMMA NcOneMore ==
  ASSUME NEW S, IsFiniteSet(S), NEW x, x \notin S
  PROVE  IsFiniteSet(S \cup {x}) /\ Cardinality(S \cup {x}) = Cardinality(S) + 1
BY FS_AddElement

\* Endpoint e is added to those without p's: as its own, or left behind.
LEMMA NcSlotAdded ==
  ASSUME NcSlotsOK, NEW p \in NcProc, NEW base, NEW e, e \notin base,
         base = IF NcBusy(p) THEN ncslots \ {NcEnd(p)} ELSE ncslots,
         Cardinality(base) < NcSlots,
         ncslots' = base \cup {e},
         \A q \in NcProc \ {p} : nccall'[q] = nccall[q],
         \/ NcBusy(p)' /\ e = NcEnd(p)' /\ ncleft' = ncleft
         \/ ~NcBusy(p)' /\ e \in {DhEnd, DnEnd} /\ ncleft' = ncleft \cup {e}
  PROVE  NcSlotsOK'
<1>1. /\ IsFiniteSet(base) /\ Cardinality(base) \in Nat
      /\ ncleft \subseteq base
      /\ \A d \in base : d \in ncleft \/ \E q \in NcProc \ {p} : NcBusy(q) /\ d = NcEnd(q)
      /\ \A q \in NcProc \ {p} : NcBusy(q) => NcEnd(q) \in base
  BY NcSlotsWithout
<1>2. IsFiniteSet(ncslots') /\ Cardinality(ncslots') <= NcSlots
  <2>1. IsFiniteSet(ncslots') /\ Cardinality(ncslots') = Cardinality(base) + 1
    BY <1>1, NcOneMore
  <2>2. QED
    BY <1>1, <2>1, NcAssumption
<1>3. \A q \in NcProc \ {p} : /\ NcBusy(q)' <=> NcBusy(q)
                             /\ NcEnd(q)' = NcEnd(q)
  BY DEF NcBusy, NcEnd, NcEndOf, TfEnd
<1>4. ncleft' \subseteq ncslots' /\ ncleft' \subseteq {DhEnd, DnEnd}
  BY <1>1 DEF NcSlotsOK
<1>5. \A d \in ncslots' : d \in ncleft' \/ \E q \in NcProc : NcBusy(q)' /\ d = NcEnd(q)'
  BY <1>1, <1>3
<1>6. \A q \in NcProc : NcBusy(q)' => NcEnd(q)' \in ncslots' /\ NcEnd(q)' \notin ncleft'
  BY <1>1, <1>3 DEF NcSlotsOK
<1>7. \A q, r \in NcProc : NcBusy(q)' /\ NcBusy(r)' /\ NcEnd(q)' = NcEnd(r)' => q = r
  BY <1>1, <1>3 DEF NcSlotsOK
<1>8. QED
  BY <1>2, <1>4, <1>5, <1>6, <1>7 DEF NcSlotsOK

\* Nothing is added.
LEMMA NcSlotReleased ==
  ASSUME NcSlotsOK, NEW p \in NcProc,
         ncslots' = IF NcBusy(p) THEN ncslots \ {NcEnd(p)} ELSE ncslots,
         ncleft' = ncleft,
         \A q \in NcProc \ {p} : nccall'[q] = nccall[q],
         ~NcBusy(p)'
  PROVE  NcSlotsOK'
<1>1. /\ IsFiniteSet(ncslots') /\ Cardinality(ncslots') <= NcSlots
      /\ ncleft \subseteq ncslots'
      /\ \A d \in ncslots' : d \in ncleft \/ \E q \in NcProc \ {p} : NcBusy(q) /\ d = NcEnd(q)
      /\ \A q \in NcProc \ {p} : NcBusy(q) => NcEnd(q) \in ncslots'
  BY NcSlotsWithout
<1>2. \A q \in NcProc \ {p} : /\ NcBusy(q)' <=> NcBusy(q)
                             /\ NcEnd(q)' = NcEnd(q)
  BY DEF NcBusy, NcEnd, NcEndOf, TfEnd
<1>3. \A d \in ncslots' : d \in ncleft' \/ \E q \in NcProc : NcBusy(q)' /\ d = NcEnd(q)'
  BY <1>1, <1>2
<1>4. \A q \in NcProc : NcBusy(q)' => NcEnd(q)' \in ncslots' /\ NcEnd(q)' \notin ncleft'
  BY <1>1, <1>2 DEF NcSlotsOK
<1>5. \A q, r \in NcProc : NcBusy(q)' /\ NcBusy(r)' /\ NcEnd(q)' = NcEnd(r)' => q = r
  BY <1>1, <1>2 DEF NcSlotsOK
<1>6. QED
  BY <1>1, <1>3, <1>4, <1>5 DEF NcSlotsOK

\* More was sent and nothing came: what servers answer, they were asked.
LEMMA NcAskedStays ==
  ASSUME NcAsked, dhsent \subseteq dhsent', dnsent \subseteq dnsent',
         UNCHANGED <<dhnet, dnnet, NetData>>
  PROVE  NcAsked'
BY DEF NcAsked, AddressIsAcknowledged

\* The results of the others.
LEMMA NcResultStep ==
  ASSUME NcTypes, NcResultsOK, dnsent \subseteq dnsent', NEW p \in NcProc, NEW r,
         NcResultOK(r, dnsent'), ncresult' = [ncresult EXCEPT ![p] = r]
  PROVE  NcResultsOK' /\ DOMAIN ncresult' = NcProc
<1>1. /\ DOMAIN ncresult' = NcProc
      /\ \A q \in NcProc : ncresult'[q] = IF q = p THEN r ELSE ncresult[q]
  BY DEF NcTypes
<1>2. \A q \in NcProc : NcResultOK(ncresult[q], dnsent')
  BY DEF NcResultsOK, NcResultOK
<1>3. QED
  BY <1>1, <1>2 DEF NcResultsOK

LEMMA NcResultsStay ==
  ASSUME NcResultsOK, dnsent \subseteq dnsent', ncresult' = ncresult
  PROVE  NcResultsOK'
BY DEF NcResultsOK, NcResultOK

\* A step of p to c.
LEMMA NcCallStep ==
  ASSUME NcTypes, TfProgress, NEW p \in NcProc, NEW c \in NcCalls,
         nccall' = [nccall EXCEPT ![p] = c],
         c.op = "tftp" => c.got = SubSeq(TfFile, 1, TfFrom(c.expected))
  PROVE  /\ nccall' \in [NcProc -> NcCalls]
         /\ nccall'[p] = c
         /\ \A q \in NcProc \ {p} : nccall'[q] = nccall[q]
         /\ TfProgress'
<1>1. /\ nccall' \in [NcProc -> NcCalls]
      /\ nccall'[p] = c
      /\ \A q \in NcProc \ {p} : nccall'[q] = nccall[q]
  BY DEF NcTypes
<1>2. QED
  BY <1>1 DEF TfProgress

\* A call goes on.
LEMMA NcGoesOn ==
  ASSUME NcIInv, NEW p \in NcProc, NEW c \in NcCalls,
         c.op = nccall[p].op, NcBusy(p),
         c.op = "tftp" => c.got = SubSeq(TfFile, 1, TfFrom(c.expected)),
         nccall' = [nccall EXCEPT ![p] = c],
         UNCHANGED <<ncslots, ncleft, ncresult, tfnet, dhnet, NetData, dnnet>>,
         dhsent \subseteq dhsent', dnsent \subseteq dnsent'
  PROVE  NcIInv'
<1> USE DEF NcIInv
<1>1. /\ nccall' \in [NcProc -> NcCalls]
      /\ nccall'[p] = c
      /\ \A q \in NcProc \ {p} : nccall'[q] = nccall[q]
      /\ TfProgress'
  BY NcCallStep
<1>2. NcTypes'
  BY <1>1 DEF NcTypes
<1>3. NcResultsOK'
  BY NcResultsStay
<1>4. NcSlotsOK'
  <2>1. \A q \in NcProc : (NcBusy(q)' <=> NcBusy(q)) /\ NcEnd(q)' = NcEnd(q)
    BY <1>1 DEF NcBusy, NcEnd, NcEndOf, TfEnd
  <2>2. QED
    BY <2>1 DEF NcSlotsOK
<1>5. NcAsked'
  BY NcAskedStays
<1>6. QED
  BY <1>1, <1>2, <1>3, <1>4, <1>5

\* A call returns or goes on to its next part, and its endpoint is released or left.
LEMMA NcCallLeaves ==
  ASSUME NcIInv, NEW p \in NcProc, NcBusy(p), NEW c \in {NcIdle} \cup DnNamed,
         nccall' = [nccall EXCEPT ![p] = c],
         NcResultsOK', DOMAIN ncresult' = NcProc,
         \/ NcReleases(NcEnd(p))
         \/ NcLeaves(NcEnd(p)) /\ nccall[p].op # "tftp",
         tfnet' \in [NcProc -> SUBSET TfMsgs], dhnet' = dhnet, NcAsked'
  PROVE  NcIInv'
<1> USE DEF NcIInv
<1>1. c \in NcCalls /\ c.op \notin {"tftp", "dhcp", "dns"}
  BY DEF NcCalls, NcIdle, DnNamed
<1>2. /\ nccall' \in [NcProc -> NcCalls]
      /\ nccall'[p] = c
      /\ \A q \in NcProc \ {p} : nccall'[q] = nccall[q]
      /\ TfProgress'
  BY <1>1, NcCallStep
<1>3. NcTypes'
  BY <1>2 DEF NcTypes
<1>4. ~NcBusy(p)'
  BY <1>1, <1>2 DEF NcBusy
<1>5. NcSlotsOK'
  <2>1. CASE NcReleases(NcEnd(p))
    BY <1>2, <1>4, <2>1, NcSlotReleased DEF NcReleases
  <2>2. CASE NcLeaves(NcEnd(p)) /\ nccall[p].op # "tftp"
    <3> DEFINE base == ncslots \ {NcEnd(p)}
    <3>1. NcEnd(p) \in ncslots /\ Cardinality(base) < NcSlots
      BY NcSlotsWithout DEF NcSlotsOK
    <3>2. ncslots' = base \cup {NcEnd(p)} /\ ncleft' = ncleft \cup {NcEnd(p)}
      BY <2>2, <3>1 DEF NcLeaves
    <3>3. NcEnd(p) \in {DhEnd, DnEnd}
      BY <2>2 DEF NcEnd, NcEndOf
    <3>4. NcEnd(p) \notin base /\ base = IF NcBusy(p) THEN ncslots \ {NcEnd(p)} ELSE ncslots
      OBVIOUS
    <3> HIDE DEF base
    <3>5. QED
      BY <1>2, <1>4, <3>1, <3>2, <3>3, <3>4, NcSlotAdded
  <2>3. QED
    BY <2>1, <2>2
<1>6. QED
  BY <1>2, <1>3, <1>5

\* A call returns, and its endpoint is released or left.
LEMMA NcCallReturns ==
  ASSUME NcIInv, NEW p \in NcProc, NcBusy(p), NEW r, NcResultOK(r, dnsent'),
         NcReturns(p, r),
         \/ NcReleases(NcEnd(p))
         \/ NcLeaves(NcEnd(p)) /\ nccall[p].op # "tftp",
         tfnet' \in [NcProc -> SUBSET TfMsgs], dhnet' = dhnet,
         dnsent \subseteq dnsent', NcAsked'
  PROVE  NcIInv'
<1>1. NcResultsOK' /\ DOMAIN ncresult' = NcProc
  BY NcResultStep DEF NcReturns, NcIInv
<1>2. NcIdle \in {NcIdle} \cup DnNamed /\ nccall' = [nccall EXCEPT ![p] = NcIdle]
  BY DEF NcReturns
<1>3. QED
  BY <1>1, <1>2, NcCallLeaves

\* A call begins with an endpoint of its own.
LEMMA NcCallBegins ==
  ASSUME NcIInv, NEW p \in NcProc, nccall[p] = NcIdle,
         NEW c \in TfCalls \cup DhCalls,
         c.op = "tftp" => c.got = SubSeq(TfFile, 1, TfFrom(c.expected)),
         NcFree(NcEndOf(p, c)), ncslots' = ncslots \cup {NcEndOf(p, c)}, ncleft' = ncleft,
         nccall' = [nccall EXCEPT ![p] = c], ncresult' = [ncresult EXCEPT ![p] = NcNone],
         tfnet' \in [NcProc -> SUBSET TfMsgs], UNCHANGED <<dhnet, NetData, dnnet>>,
         dhsent \subseteq dhsent', dnsent \subseteq dnsent'
  PROVE  NcIInv'
<1> USE DEF NcIInv
<1>8. c \in NcCalls
  BY DEF NcCalls
<1>1. /\ nccall' \in [NcProc -> NcCalls]
      /\ nccall'[p] = c
      /\ \A q \in NcProc \ {p} : nccall'[q] = nccall[q]
      /\ TfProgress'
  BY <1>8, NcCallStep
<1>2. NcResultsOK' /\ DOMAIN ncresult' = NcProc
  <2>1. NcResultOK(NcNone, dnsent')
    BY DEF NcResultOK, NcNone
  <2>2. QED
    BY <2>1, NcResultStep
<1>3. NcTypes'
  BY <1>1, <1>2 DEF NcTypes
<1>4. NcBusy(p)' /\ NcEnd(p)' = NcEndOf(p, c) /\ ~NcBusy(p)
  BY <1>1 DEF NcBusy, NcEnd, NcEndOf, TfEnd, NcCalls, NcIdle, TfCalls, DhCalls, DnCalls
<1>5. NcSlotsOK'
  BY <1>1, <1>4, NcSlotAdded DEF NcFree
<1>6. NcAsked'
  BY NcAskedStays
<1>7. QED
  BY <1>1, <1>2, <1>3, <1>5, <1>6

-----------------------------------------------------------------------------
(* The steps: transfers.                                                   *)

LEMMA NcInitOK == NcInit => NcIInv
<1> SUFFICES ASSUME NcInit PROVE NcIInv
  OBVIOUS
<1> USE DEF NcInit
<1>1. \A p \in NcProc : nccall[p] = NcIdle /\ ncresult[p] = NcNone
  OBVIOUS
<1>2. NcTypes
  BY DEF NcTypes, NcCalls
<1>3. TfProgress /\ NcResultsOK
  BY <1>1 DEF TfProgress, NcResultsOK, NcResultOK, NcIdle, NcNone
<1>4. NcSlotsOK
  BY <1>1, FS_EmptySet, NcAssumption DEF NcSlotsOK, NcBusy, NcIdle
<1>5. NcAsked
  BY DEF NcAsked, AddressIsAcknowledged
<1>6. QED
  BY <1>2, <1>3, <1>4, <1>5 DEF NcIInv

LEMMA tftpgetOK ==
  ASSUME NcIInv, NEW p \in NcProc, NEW size \in TfSizes, tftpget(p, size)
  PROVE  NcIInv'
<1> DEFINE c == [op |-> "tftp", expected |-> 1, port |-> TFTP_PORT, try |-> 1, got |-> <<>>,
                 size |-> size]
<1>1. c \in TfCalls /\ c.op = "tftp"
  BY TfLastBlock DEF TfCalls, TFTP_PORT
<1>2. c.got = SubSeq(TfFile, 1, TfFrom(c.expected))
  <2>1. TfFrom(1) = 0
    BY NcAssumption DEF TfFrom
  <2>2. QED
    BY <2>1, SubSeqEmpty
<1>3. NcEndOf(p, c) = TfEnd(p)
  BY DEF NcEndOf
<1>4. tfnet' \in [NcProc -> SUBSET TfMsgs]
  BY DEF tftpget, NcIInv, NcTypes
<1>5. nccall[p] = NcIdle /\ nccall' = [nccall EXCEPT ![p] = c]
  BY DEF tftpget
<1> HIDE DEF c
<1>6. /\ NcFree(NcEndOf(p, c)) /\ ncslots' = ncslots \cup {NcEndOf(p, c)} /\ ncleft' = ncleft
      /\ ncresult' = [ncresult EXCEPT ![p] = NcNone]
      /\ UNCHANGED <<dhnet, NetData, dnnet, dhsent, dnsent>>
  BY <1>3 DEF tftpget, dhVars, dnVars
<1>7. QED
  BY <1>1, <1>2, <1>4, <1>5, <1>6, NcCallBegins

\* A transfer ends.
LEMMA TfEndsOK ==
  ASSUME NcIInv, NEW p \in NcProc, nccall[p].op = "tftp",
         NEW how \in {"failed", "done"}, NEW got, TfEnds(p, how, got),
         UNCHANGED <<dhVars, dnVars>>,
         how = "done" =>
           /\ IsPrefix(got, TfFile)
           /\ Len(got) = (IF Len(TfFile) <= nccall[p].size THEN Len(TfFile) ELSE nccall[p].size)
  PROVE  NcIInv'
<1> DEFINE r == [op |-> how, got |-> got, size |-> nccall[p].size]
<1>1. NcResultOK(r, dnsent')
  BY DEF NcResultOK
<1>2. NcReturns(p, r) /\ NcReleases(NcEnd(p)) /\ NcBusy(p)
  BY DEF TfEnds, NcEnd, NcEndOf, NcBusy
<1>3. tfnet' \in [NcProc -> SUBSET TfMsgs] /\ NcAsked'
  BY NcAskedStays DEF TfEnds, dhVars, dnVars, NcIInv, NcTypes
<1> HIDE DEF r
<1>4. QED
  BY <1>1, <1>2, <1>3, NcCallReturns DEF dhVars, dnVars

LEMMA TfTimeoutOK ==
  ASSUME NcIInv, NEW p \in NcProc, TfTimeout(p)
  PROVE  NcIInv'
<1>1. nccall[p].op = "tftp" /\ UNCHANGED <<dhVars, dnVars>>
  BY DEF TfTimeout
<1>2. nccall[p] \in TfCalls /\ NcBusy(p)
  BY <1>1, NcShape DEF NcIInv, NcBusy
<1>3. CASE nccall[p].try < TFTP_MAXRETRIES
  <2> DEFINE c == [nccall[p] EXCEPT !.try = @ + 1]
  <2>1. /\ nccall' = [nccall EXCEPT ![p] = c]
        /\ UNCHANGED <<ncslots, ncleft, ncresult, tfnet>>
    BY <1>3 DEF TfTimeout
  <2>2. c \in TfCalls /\ c.op = "tftp" /\ c.got = nccall[p].got /\ c.expected = nccall[p].expected
    <3>1. c \in TfCalls
      <4>1. \A d \in TfCalls : d.try \in Nat /\ \A t \in Nat : [d EXCEPT !.try = t] \in TfCalls
        BY DEF TfCalls
      <4>2. QED
        BY <1>2, <4>1
    <3>2. c.got = nccall[p].got /\ c.expected = nccall[p].expected /\ c.op = "tftp"
      BY <1>2 DEF TfCalls
    <3>3. QED
      BY <3>1, <3>2
  <2>3. c.got = SubSeq(TfFile, 1, TfFrom(c.expected)) /\ c \in NcCalls
    BY <1>1, <2>2 DEF NcIInv, TfProgress, NcCalls
  <2> HIDE DEF c
  <2>4. QED
    BY <1>1, <1>2, <2>1, <2>2, <2>3, NcGoesOn DEF dhVars, dnVars
<1>4. CASE ~(nccall[p].try < TFTP_MAXRETRIES)
  <2>1. TfEnds(p, "failed", <<>>)
    BY <1>4 DEF TfTimeout
  <2>2. QED
    BY <1>1, <2>1, TfEndsOK
<1>5. QED
  BY <1>3, <1>4

LEMMA TfStrayOK ==
  ASSUME NcIInv, NEW p \in NcProc, TfStray(p)
  PROVE  NcIInv'
BY TfEndsOK DEF TfStray

\* What comes from the server: the expected block is the one behind what the
\* transfer has, whichever session it comes from.
LEMMA TfReceiveOK ==
  ASSUME NcIInv, NEW p \in NcProc, NEW m \in tfnet[p], TfReceive(p, m)
  PROVE  NcIInv'
<1> DEFINE c == nccall[p]
           k == m.block
           full == c.got \o TfBlock(k)
<1>1. /\ c.op = "tftp" /\ UNCHANGED <<dhVars, dnVars>>
  BY DEF TfReceive
<1>2. c \in TfCalls /\ NcBusy(p) /\ c.size \in TfSizes
  BY <1>1, NcShape DEF NcIInv, NcBusy, TfCalls
<1>3. m \in TfMsgs /\ k \in 1 .. TfLast /\ m.port \in Nat
  BY DEF NcIInv, NcTypes, TfMsgs
<1>4. /\ TfTo(k) \in 0 .. Len(TfFile)
      /\ SubSeq(TfFile, 1, TfFrom(k)) \o TfBlock(k) = SubSeq(TfFile, 1, TfTo(k))
      /\ ~TfEndsAt(TfBlock(k)) => k + 1 \in 1 .. TfLast /\ TfFrom(k + 1) = TfTo(k)
      /\ TfEndsAt(TfBlock(k)) => TfTo(k) = Len(TfFile)
  BY <1>3, TfBlocks
<1>5. TfTakes(c, m) => full = SubSeq(TfFile, 1, TfTo(k))
  BY <1>1, <1>4 DEF TfTakes, NcIInv, TfProgress
<1>6. TfTakes(c, m) => full \in Seq(Nat) /\ Len(full) = TfTo(k) /\ IsPrefix(full, TfFile)
  BY <1>4, <1>5, TfPrefix
<1>7. Len(TfFile) \in Nat /\ c.size \in Nat \ {0}
  BY <1>2, NcAssumption, TfLastBlock
<1>8. CASE TfEnds(p, "failed", <<>>)
  BY <1>1, <1>8, TfEndsOK
<1>9. CASE /\ m.kind = "data" /\ ~TfTakes(c, m)
           /\ nccall' = [nccall EXCEPT ![p].port = m.port]
           /\ UNCHANGED <<tfVars, ncslots, ncleft, ncresult>>
  <2> DEFINE d == [c EXCEPT !.port = m.port]
  <2>1. /\ nccall' = [nccall EXCEPT ![p] = d]
        /\ UNCHANGED <<ncslots, ncleft, ncresult, tfnet>>
    BY <1>9 DEF tfVars
  <2>2. d \in TfCalls /\ d.op = "tftp" /\ d.got = c.got /\ d.expected = c.expected
    BY <1>2, <1>3 DEF TfCalls
  <2>3. d.got = SubSeq(TfFile, 1, TfFrom(d.expected)) /\ d \in NcCalls
    BY <1>1, <2>2 DEF NcIInv, TfProgress, NcCalls
  <2> HIDE DEF d
  <2>4. QED
    BY <1>1, <1>2, <2>1, <2>2, <2>3, NcGoesOn DEF dhVars, dnVars
<1>10. CASE TfTakes(c, m) /\ Len(full) > c.size /\ TfEnds(p, "done", SubSeq(full, 1, c.size))
  <2>1. c.size \in 1 .. TfTo(k) /\ c.size <= Len(TfFile) /\ c.size \in 0 .. Len(TfFile)
    <3>1. c.size < TfTo(k)
      BY <1>6, <1>10
    <3>2. QED
      BY <1>4, <1>7, <3>1
  <2>2. SubSeq(full, 1, c.size) = SubSeq(TfFile, 1, c.size)
    BY <1>4, <1>5, <1>10, <2>1, TfShorter
  <2>3. /\ IsPrefix(SubSeq(full, 1, c.size), TfFile)
        /\ Len(SubSeq(full, 1, c.size)) = c.size
    BY <2>1, <2>2, TfPrefix
  <2>4. Len(SubSeq(full, 1, c.size)) = (IF Len(TfFile) <= c.size THEN Len(TfFile) ELSE c.size)
    BY <1>7, <2>1, <2>3
  <2>5. QED
    BY <1>1, <1>10, <2>3, <2>4, TfEndsOK
<1>11. CASE TfTakes(c, m) /\ Len(full) <= c.size /\ TfEndsAt(TfBlock(k)) /\ TfEnds(p, "done", full)
  <2>1. Len(full) = Len(TfFile) /\ IsPrefix(full, TfFile)
    BY <1>4, <1>6, <1>11
  <2>2. Len(full) = (IF Len(TfFile) <= c.size THEN Len(TfFile) ELSE c.size)
    BY <1>11, <2>1
  <2>3. QED
    BY <1>1, <1>11, <2>1, <2>2, TfEndsOK
<1>12. CASE /\ TfTakes(c, m) /\ ~TfEndsAt(TfBlock(k))
            /\ nccall' = [nccall EXCEPT ![p] = [op |-> "tftp", expected |-> c.expected + 1,
                            port |-> m.port, try |-> 1, got |-> full, size |-> c.size]]
            /\ UNCHANGED <<tfnet, ncslots, ncleft, ncresult>>
  <2> DEFINE d == [op |-> "tftp", expected |-> c.expected + 1, port |-> m.port, try |-> 1,
                   got |-> full, size |-> c.size]
  <2>1. nccall' = [nccall EXCEPT ![p] = d]
    BY <1>12
  <2>2. c.expected = k /\ k + 1 \in 1 .. TfLast /\ full \in Seq(Nat)
    BY <1>4, <1>6, <1>12 DEF TfTakes
  <2>3. d \in TfCalls /\ d.op = "tftp" /\ d.got = full /\ d.expected = k + 1
    BY <1>2, <1>3, <2>2 DEF TfCalls
  <2>4. d.got = SubSeq(TfFile, 1, TfFrom(d.expected)) /\ d \in NcCalls
    BY <1>4, <1>5, <1>12, <2>3 DEF NcCalls
  <2> HIDE DEF d
  <2>5. QED
    BY <1>1, <1>2, <1>12, <2>1, <2>3, <2>4, NcGoesOn DEF dhVars, dnVars
<1>13. QED
  BY <1>8, <1>9, <1>10, <1>11, <1>12 DEF TfReceive

\* The server: it sends no block the file does not have.
LEMMA TfServerOK ==
  ASSUME NcIInv, NEW p \in NcProc, TfServer(p)
  PROVE  NcIInv'
<1> USE DEF NcIInv
<1>1. UNCHANGED <<nccall, ncslots, ncleft, dhVars, dnVars, ncresult>>
  BY DEF TfServer
<1>2. tfnet' \in [NcProc -> SUBSET TfMsgs]
  <2>1. TfSessions \in Nat /\ 1 \in 1 .. TfLast
    BY NcAssumption, TfLastBlock
  <2>2. ASSUME NEW port \in TfPort, NEW k \in 1 .. TfLast,
               tfnet' = [tfnet EXCEPT
                  ![p] = @ \cup {[port |-> port, kind |-> "data", block |-> k]}]
        PROVE  tfnet' \in [NcProc -> SUBSET TfMsgs]
    <3>1. [port |-> port, kind |-> "data", block |-> k] \in TfMsgs
      BY <2>1 DEF TfMsgs, TfPort
    <3>2. QED
      BY <2>2, <3>1 DEF NcTypes
  <2>3. ASSUME tfnet' = [tfnet EXCEPT ![p] = {[port |-> 1, kind |-> "error", block |-> 1]}]
        PROVE  tfnet' \in [NcProc -> SUBSET TfMsgs]
    <3>1. [port |-> 1, kind |-> "error", block |-> 1] \in TfMsgs
      BY <2>1 DEF TfMsgs
    <3>2. QED
      BY <2>3, <3>1 DEF NcTypes
  <2>4. QED
    BY <2>2, <2>3 DEF TfServer
<1>3. NcTypes' /\ TfProgress'
  BY <1>1, <1>2 DEF NcTypes, TfProgress, dhVars
<1>4. NcResultsOK' /\ NcSlotsOK' /\ NcAsked'
  BY <1>1 DEF NcResultsOK, NcSlotsOK, NcBusy, NcEnd, NcEndOf, TfEnd, NcAsked, AddressIsAcknowledged,
              dhVars, dnVars
<1>5. QED
  BY <1>3, <1>4

-----------------------------------------------------------------------------
(* The steps: DHCP and DNS.                                                *)

LEMMA DhcpStartOK ==
  ASSUME NcIInv, NEW p \in NcProc, NEW name \in DnNames \cup {<<>>}, nccall[p] = NcIdle,
         DhcpStart(p, name), UNCHANGED <<ncleft, tfVars, dhnet, NetData, dnVars>>
  PROVE  NcIInv'
<1>1. CASE NcFree(DhEnd)
  <2> DEFINE c == [op |-> "dhcp", i |-> 1, j |-> 1, msg |-> DhDiscover, name |-> name]
  <2>1. c \in DhCalls /\ c.op = "dhcp"
    BY DEF DhCalls
  <2>2. NcEndOf(p, c) = DhEnd
    BY DEF NcEndOf
  <2>3. tfnet' \in [NcProc -> SUBSET TfMsgs]
    BY DEF tfVars, NcIInv, NcTypes
  <2>4. /\ ncslots' = ncslots \cup {DhEnd} /\ nccall' = [nccall EXCEPT ![p] = c]
        /\ ncresult' = [ncresult EXCEPT ![p] = NcNone]
        /\ dhsent \subseteq dhsent' /\ dnsent' = dnsent
        /\ UNCHANGED <<ncleft, dhnet, NetData, dnnet>>
    BY <1>1 DEF DhcpStart, dnVars
  <2> HIDE DEF c
  <2>5. QED
    BY <1>1, <2>1, <2>2, <2>3, <2>4, NcCallBegins
<1>2. CASE ~NcFree(DhEnd)
  <2>1. /\ ncresult' = [ncresult EXCEPT ![p] = [op |-> "failed"]]
        /\ UNCHANGED <<nccall, ncslots, dhsent>>
    BY <1>2 DEF DhcpStart
  <2>2. NcResultOK([op |-> "failed"], dnsent')
    BY DEF NcResultOK
  <2>3. NcResultsOK' /\ DOMAIN ncresult' = NcProc
    BY <2>1, <2>2, NcResultStep DEF NcIInv, dnVars
  <2>4. NcTypes' /\ TfProgress' /\ NcSlotsOK' /\ NcAsked'
    BY <2>1, <2>3 DEF NcIInv, NcTypes, TfProgress, NcSlotsOK, NcBusy, NcEnd, NcEndOf, TfEnd,
                      NcAsked, AddressIsAcknowledged, tfVars, dnVars
  <2>5. QED
    BY <2>3, <2>4 DEF NcIInv
<1>3. QED
  BY <1>1, <1>2

\* The next read, with the last message that was sent or another.
LEMMA DhcpNextReadOK ==
  ASSUME NcIInv, NEW p \in NcProc, nccall[p].op = "dhcp",
         NEW c \in DhCalls, DhcpNextRead(p, c),
         UNCHANGED <<NetData, dnsent, tfVars, dhnet, dnnet>>
  PROVE  NcIInv'
<1>1. NcBusy(p) /\ NcEnd(p) = DhEnd /\ c.op = "dhcp"
  BY DEF NcBusy, NcEnd, NcEndOf, DhCalls
<1>2. dhsent \subseteq dhsent'
  BY DEF DhcpNextRead
<1>3. ASSUME NEW d \in DhCalls, nccall' = [nccall EXCEPT ![p] = d],
             UNCHANGED <<ncslots, ncleft, ncresult>>
      PROVE  NcIInv'
  <2>1. d.op = "dhcp" /\ d \in NcCalls
    BY DEF DhCalls, NcCalls
  <2>2. QED
    BY <1>1, <1>2, <1>3, <2>1, NcGoesOn DEF tfVars
<1>4. CASE c.j < DhReads
  <2>1. [c EXCEPT !.j = @ + 1] \in DhCalls
    BY DEF DhCalls
  <2>2. QED
    BY <1>3, <1>4, <2>1 DEF DhcpNextRead
<1>5. CASE ~(c.j < DhReads) /\ c.i < DHCP_RETRY
  <2>1. [op |-> "dhcp", i |-> c.i + 1, j |-> 1, msg |-> c.msg, name |-> c.name] \in DhCalls
    BY DEF DhCalls
  <2>2. QED
    BY <1>3, <1>5, <2>1 DEF DhcpNextRead
<1>6. CASE ~(c.j < DhReads) /\ ~(c.i < DHCP_RETRY)
  <2>1. NcReturns(p, [op |-> "failed"]) /\ NcReleases(DhEnd)
    BY <1>6 DEF DhcpNextRead
  <2>2. NcResultOK([op |-> "failed"], dnsent')
    BY DEF NcResultOK
  <2>3. NcAsked' /\ tfnet' \in [NcProc -> SUBSET TfMsgs]
    BY <1>2, NcAskedStays DEF NcIInv, NcTypes, tfVars
  <2>4. QED
    BY <1>1, <2>1, <2>2, <2>3, NcCallReturns
<1>7. QED
  BY <1>4, <1>5, <1>6

\* A receive of getlocalip ends.
LEMMA DhcpReceiveOK ==
  ASSUME NcIInv, NEW p \in NcProc, DhcpReceive(p)
  PROVE  NcIInv'
<1> DEFINE c == nccall[p]
           fail == [op |-> "failed"]
<1>1. c.op = "dhcp" /\ UNCHANGED <<tfVars, dhnet, dnnet>>
  BY DEF DhcpReceive
<1>2. /\ c \in DhCalls /\ NcBusy(p) /\ NcEnd(p) = DhEnd
      /\ tfnet' \in [NcProc -> SUBSET TfMsgs]
  BY <1>1, NcShape DEF NcIInv, NcTypes, NcBusy, NcEnd, NcEndOf, tfVars
<1>3. NcResultOK(fail, dnsent') /\ NcResultOK([op |-> "address"], dnsent')
  BY DEF NcResultOK
<1>4. CASE DhcpNextRead(p, c) /\ UNCHANGED <<NetData, dnsent>>
  BY <1>1, <1>2, <1>4, DhcpNextReadOK
<1>5. CASE NcReturns(p, fail) /\ NcLeaves(DhEnd) /\ UNCHANGED <<dhsent, NetData, dnsent>>
  <2>1. NcAsked'
    BY <1>1, <1>5, NcAskedStays DEF NcIInv
  <2>2. QED
    BY <1>1, <1>2, <1>3, <1>5, <2>1, NcCallReturns
<1>6. ASSUME NEW m \in dhnet, m.type = "offer",
             DhcpNextRead(p, [c EXCEPT !.msg = DhAddress(m)]), UNCHANGED <<NetData, dnsent>>
      PROVE  NcIInv'
  <2>1. DhAddress(m) \in DhServers \X BOOLEAN
    BY DEF NcIInv, NcTypes, DhMsgs, DhAddress
  <2>2. [c EXCEPT !.msg = DhAddress(m)] \in DhCalls
    <3>1. \A d \in DhCalls, t \in DhServers \X BOOLEAN : [d EXCEPT !.msg = t] \in DhCalls
      BY DEF DhCalls
    <3>2. QED
      BY <1>2, <2>1, <3>1
  <2>3. QED
    BY <1>1, <1>6, <2>2, DhcpNextReadOK
<1>7. ASSUME NEW m \in dhnet, DhForUs(m), m.type = "ack", NetData' = DhTaken(m),
             dhsent' = dhsent, dnsent' = dnsent
      PROVE  NcAsked'
  <2>1. m.xid /\ (m.own => DhAddress(m) \in dhsent)
    BY <1>7 DEF NcIInv, NcAsked, DhForUs
  <2>2. NetData'.ipucast = DhAddress(m)
    BY <1>7 DEF DhTaken
  <2>3. AddressIsAcknowledged'
    BY <1>1, <1>7, <2>1, <2>2 DEF AddressIsAcknowledged
  <2>4. QED
    BY <1>1, <1>7, <2>3 DEF NcIInv, NcAsked
<1>8. ASSUME NcAsked', NcReleases(DhEnd), dnsent' = dnsent,
             \/ NcReturns(p, [op |-> "address"])
             \/ /\ c.name # <<>>
                /\ nccall' = [nccall EXCEPT ![p] = [op |-> "named", name |-> c.name]]
                /\ UNCHANGED ncresult
      PROVE  NcIInv'
  <2>1. CASE NcReturns(p, [op |-> "address"])
    BY <1>1, <1>2, <1>3, <1>8, <2>1, NcCallReturns
  <2>2. CASE /\ c.name # <<>>
             /\ nccall' = [nccall EXCEPT ![p] = [op |-> "named", name |-> c.name]]
             /\ UNCHANGED ncresult
    <3> DEFINE d == [op |-> "named", name |-> c.name]
    <3>1. d \in DnNamed
      BY <1>2, <2>2 DEF DhCalls, DnNamed
    <3>2. NcResultsOK' /\ DOMAIN ncresult' = NcProc
      BY <1>8, <2>2, NcResultsStay DEF NcIInv, NcTypes
    <3>3. nccall' = [nccall EXCEPT ![p] = d]
      BY <2>2
    <3> HIDE DEF d
    <3>4. QED
      BY <1>1, <1>2, <1>8, <3>1, <3>2, <3>3, NcCallLeaves
  <2>3. QED
    BY <1>8, <2>1, <2>2
<1>9. QED
  BY <1>4, <1>5, <1>6, <1>7, <1>8 DEF DhcpReceive

\* A lookup with an address goes on or fails.
LEMMA DnsStartOK ==
  ASSUME NcIInv, NEW p \in NcProc, DnsStart(p)
  PROVE  NcIInv'
<1> USE DEF NcIInv
<1> DEFINE fail == [op |-> "failed"]
           name == nccall[p].name
<1>1. nccall[p].op = "named" /\ UNCHANGED <<tfVars, dhVars, dnnet>>
  BY DEF DnsStart
<1>2. ~NcBusy(p) /\ name \in DnNames
  BY <1>1, NcShape DEF NcBusy, DnNamed
<1>3. NcResultOK(fail, dnsent')
  BY DEF NcResultOK
<1>4. dnsent \subseteq dnsent'
  BY DEF DnsStart
<1>5. NcAsked' /\ tfnet' \in [NcProc -> SUBSET TfMsgs] /\ dhnet' = dhnet
  BY <1>1, <1>4, NcAskedStays DEF NcTypes, tfVars, dhVars
\* What a failure leaves of all but the endpoints.
<1>6. ASSUME NcReturns(p, fail)
      PROVE  /\ \A q \in NcProc \ {p} : nccall'[q] = nccall[q]
             /\ ~NcBusy(p)' /\ NcTypes' /\ TfProgress' /\ NcResultsOK'
  <2>1. NcIdle \in NcCalls /\ NcIdle.op = "idle" /\ nccall' = [nccall EXCEPT ![p] = NcIdle]
    BY <1>6 DEF NcReturns, NcCalls, NcIdle
  <2>2. /\ nccall' \in [NcProc -> NcCalls]
        /\ nccall'[p] = NcIdle
        /\ \A q \in NcProc \ {p} : nccall'[q] = nccall[q]
        /\ TfProgress'
    BY <2>1, NcCallStep
  <2>3. NcResultsOK' /\ DOMAIN ncresult' = NcProc
    BY <1>3, <1>4, <1>6, NcResultStep DEF NcReturns
  <2>4. NcTypes'
    BY <1>5, <2>2, <2>3 DEF NcTypes
  <2>5. ~NcBusy(p)'
    BY <2>1, <2>2 DEF NcBusy
  <2>6. QED
    BY <2>2, <2>3, <2>4, <2>5
<1>7. CASE NcReturns(p, fail) /\ UNCHANGED <<ncslots, ncleft>>
  <2>1. NcSlotsOK'
    BY <1>2, <1>6, <1>7, NcSlotReleased
  <2>2. QED
    BY <1>5, <1>6, <1>7, <2>1
<1>8. CASE /\ NcReturns(p, fail) /\ NcFree(DnEnd)
           /\ ncslots' = ncslots \cup {DnEnd} /\ ncleft' = ncleft \cup {DnEnd}
  <2>1. NcSlotsOK'
    BY <1>2, <1>6, <1>8, NcSlotAdded DEF NcFree
  <2>2. QED
    BY <1>5, <1>6, <1>8, <2>1
<1>9. CASE /\ nccall' = [nccall EXCEPT ![p] = [op |-> "dns", name |-> name, try |-> 1]]
           /\ NcFree(DnEnd)
           /\ ncslots' = ncslots \cup {DnEnd} /\ UNCHANGED <<ncleft, ncresult>>
  <2> DEFINE c == [op |-> "dns", name |-> name, try |-> 1]
  <2>1. c \in NcCalls /\ c.op = "dns"
    BY <1>2 DEF NcCalls, DnCalls
  <2>2. nccall' = [nccall EXCEPT ![p] = c]
    BY <1>9
  <2> HIDE DEF c
  <2>3. /\ nccall' \in [NcProc -> NcCalls]
        /\ nccall'[p] = c
        /\ \A q \in NcProc \ {p} : nccall'[q] = nccall[q]
        /\ TfProgress'
    BY <2>1, <2>2, NcCallStep
  <2>4. NcResultsOK'
    BY <1>4, <1>9, NcResultsStay
  <2>5. NcBusy(p)' /\ NcEnd(p)' = DnEnd
    BY <2>1, <2>3 DEF NcBusy, NcEnd, NcEndOf
  <2>6. NcSlotsOK'
    BY <1>2, <1>9, <2>3, <2>5, NcSlotAdded DEF NcFree
  <2>7. NcTypes'
    BY <1>5, <1>9, <2>3 DEF NcTypes
  <2>8. QED
    BY <1>5, <2>3, <2>4, <2>6, <2>7
<1>10. QED
  BY <1>7, <1>8, <1>9 DEF DnsStart

\* The servers answer what they were sent.
LEMMA DhServerOK == ASSUME NcIInv, DhServer PROVE NcIInv'
<1> USE DEF NcIInv
<1>1. UNCHANGED <<nccall, ncslots, ncleft, tfVars, dhsent, NetData, dnVars, ncresult>>
  BY DEF DhServer
<1>2. PICK s \in DhServers, type \in {"offer", "ack"}, own \in BOOLEAN, xid \in BOOLEAN,
           id \in BOOLEAN :
        /\ own => (IF type = "offer" THEN DhDiscover ELSE <<s, own>>) \in dhsent
        /\ dhnet' = dhnet \cup {[server |-> s, type |-> type, own |-> own, xid |-> xid,
                                 id |-> id, dns |-> id]}
  BY DEF DhServer
<1> DEFINE m == [server |-> s, type |-> type, own |-> own, xid |-> xid, id |-> id, dns |-> id]
<1>3. m \in DhMsgs /\ DhAddress(m) = <<s, own>> /\ m.type = type /\ m.own = own
  BY DEF DhMsgs, DhAddress
<1>4. m.own /\ m.type = "ack" => DhAddress(m) \in dhsent
  BY <1>2, <1>3
<1> HIDE DEF m
<1>5. dhnet' = dhnet \cup {m}
  BY <1>2 DEF m
<1>6. NcTypes' /\ TfProgress' /\ NcSlotsOK' /\ NcResultsOK'
  BY <1>1, <1>3, <1>5 DEF NcTypes, TfProgress, NcSlotsOK, NcBusy, NcEnd, NcEndOf, TfEnd,
                          NcResultsOK, tfVars, dnVars
<1>7. NcAsked'
  BY <1>1, <1>4, <1>5 DEF NcAsked, AddressIsAcknowledged, dnVars
<1>8. QED
  BY <1>6, <1>7

LEMMA DnServerOK == ASSUME NcIInv, DnServer PROVE NcIInv'
<1> USE DEF NcIInv
<1>1. /\ UNCHANGED <<nccall, ncslots, ncleft, tfVars, dhVars, dnsent, ncresult>>
      /\ \E n \in dnsent : dnnet' = dnnet \cup {n}
  BY DEF DnServer
<1>2. NcTypes' /\ TfProgress' /\ NcSlotsOK' /\ NcResultsOK'
  BY <1>1 DEF NcTypes, TfProgress, NcSlotsOK, NcBusy, NcEnd, NcEndOf, TfEnd, NcResultsOK,
              tfVars, dhVars
<1>3. NcAsked'
  BY <1>1 DEF NcAsked, AddressIsAcknowledged, dhVars
<1>4. QED
  BY <1>2, <1>3

\* A receive of dnslookup ends: with another try, or with an answer.
LEMMA DnsReceiveOK ==
  ASSUME NcIInv, NEW p \in NcProc, DnsReceive(p)
  PROVE  NcIInv'
<1> DEFINE c == nccall[p]
<1>1. c.op = "dns" /\ UNCHANGED <<tfVars, dhVars, dnnet>>
  BY DEF DnsReceive
<1>2. /\ c \in DnCalls /\ NcBusy(p) /\ NcEnd(p) = DnEnd
      /\ tfnet' \in [NcProc -> SUBSET TfMsgs]
  BY <1>1, NcShape DEF NcIInv, NcTypes, NcBusy, NcEnd, NcEndOf, tfVars
<1>3. CASE DnsNextTry(p) /\ c.try < DNSRETRY
  <2> DEFINE d == [c EXCEPT !.try = @ + 1]
  <2>1. /\ nccall' = [nccall EXCEPT ![p] = d] /\ dnsent \subseteq dnsent'
        /\ UNCHANGED <<ncslots, ncleft, ncresult>>
    BY <1>3 DEF DnsNextTry
  <2>2. d \in NcCalls /\ d.op = "dns"
    <3>1. \A e \in DnCalls : e.try \in Nat /\ \A t \in Nat : [e EXCEPT !.try = t] \in DnCalls
      BY DEF DnCalls
    <3>2. d \in DnCalls
      BY <1>2, <3>1
    <3>3. QED
      BY <3>2 DEF NcCalls, DnCalls
  <2> HIDE DEF d
  <2>3. QED
    BY <1>1, <1>2, <2>1, <2>2, NcGoesOn DEF tfVars, dhVars
<1>4. CASE DnsNextTry(p) /\ ~(c.try < DNSRETRY)
  <2>1. NcReturns(p, [op |-> "failed"]) /\ NcReleases(DnEnd) /\ dnsent' = dnsent
    BY <1>4 DEF DnsNextTry
  <2>2. NcResultOK([op |-> "failed"], dnsent')
    BY DEF NcResultOK
  <2>3. NcAsked'
    BY <1>1, <2>1, NcAskedStays DEF NcIInv, dhVars
  <2>4. QED
    BY <1>1, <1>2, <2>1, <2>2, <2>3, NcCallReturns DEF dhVars
<1>5. ASSUME NEW a \in dnnet, DnAnswers(a, c.name),
             NcReturns(p, [op |-> "resolved", name |-> c.name, answer |-> a]),
             NcReleases(DnEnd), dnsent' = dnsent
      PROVE  NcIInv'
  <2>1. NcResultOK([op |-> "resolved", name |-> c.name, answer |-> a], dnsent')
    BY <1>5 DEF NcResultOK, DnAnswers, NcIInv, NcAsked
  <2>2. NcAsked'
    BY <1>1, <1>5, NcAskedStays DEF NcIInv, dhVars
  <2>3. QED
    BY <1>1, <1>2, <1>5, <2>1, <2>2, NcCallReturns DEF dhVars
<1>6. QED
  BY <1>3, <1>4, <1>5 DEF DnsReceive

LEMMA NcNextOK ==
  ASSUME NcIInv, [NcNext]_ncVars
  PROVE  NcIInv'
<1>1. CASE UNCHANGED ncVars
  BY <1>1 DEF ncVars, NcIInv, NcTypes, TfProgress, NcSlotsOK, NcBusy, NcEnd, NcEndOf, TfEnd,
              NcResultsOK, NcAsked, AddressIsAcknowledged
<1>2. ASSUME NEW p \in NcProc, getlocalip(p)
      PROVE  NcIInv'
  BY <1>2, DhcpStartOK DEF getlocalip
<1>3. ASSUME NEW p \in NcProc, NEW n \in DnNames, dnslookup(p, n)
      PROVE  NcIInv'
  BY <1>3, DhcpStartOK DEF dnslookup
<1>4. CASE NcNext
  BY <1>2, <1>3, <1>4, tftpgetOK, TfTimeoutOK, TfStrayOK, TfServerOK, TfReceiveOK, DhcpReceiveOK,
     DnsStartOK, DnsReceiveOK, DhServerOK, DnServerOK DEF NcNext
<1>5. QED
  BY <1>1, <1>4

-----------------------------------------------------------------------------

\* What NcInv says of the endpoints follows: endpoints of different kinds are
\* different, and two calls do not share one.
LEMMA NcSlotsImply ==
  ASSUME NcIInv
  PROVE  SlotsFollowCalls
<1> USE DEF NcIInv
<1>1. \A p \in NcProc : TfEnd(p) # DhEnd /\ TfEnd(p) # DnEnd
  BY DEF TfEnd, DhEnd, DnEnd
<1>2. \A p \in NcProc : nccall[p].op = "tftp" => NcBusy(p) /\ NcEnd(p) = TfEnd(p)
  BY DEF NcEnd, NcEndOf, NcBusy
<1>3. \A p \in NcProc : nccall[p].op \in {"dhcp", "dns"} => NcBusy(p) /\ NcEnd(p) = <<nccall[p].op>>
  BY DEF NcEnd, NcEndOf, NcBusy, DhEnd, DnEnd
<1> DEFINE A == {TfEnd(p) : p \in {q \in NcProc : nccall[q].op = "tftp"}}
           B == {<<nccall[p].op>> : p \in {q \in NcProc : nccall[q].op \in {"dhcp", "dns"}}}
<1>4. ncslots = ncleft \cup A \cup B
  <2>1. ASSUME NEW e \in ncslots, e \notin ncleft
        PROVE  e \in A \cup B
    <3>1. PICK p \in NcProc : NcBusy(p) /\ e = NcEnd(p)
      BY <2>1 DEF NcSlotsOK
    <3>2. CASE nccall[p].op = "tftp"
      <4>1. e = TfEnd(p)
        BY <1>2, <3>1, <3>2, Zenon
      <4>2. QED
        BY <3>2, <4>1, Zenon
    <3>3. CASE nccall[p].op \in {"dhcp", "dns"}
      <4>1. e = <<nccall[p].op>>
        BY <1>3, <3>1, <3>3, Zenon
      <4>2. QED
        BY <3>3, <4>1, Zenon
    <3>4. QED
      BY <3>1, <3>2, <3>3 DEF NcBusy
  <2>2. A \subseteq ncslots
    <3> SUFFICES ASSUME NEW p \in NcProc, nccall[p].op = "tftp"
                 PROVE  TfEnd(p) \in ncslots
      BY Zenon
    <3>1. NcBusy(p) /\ NcEnd(p) = TfEnd(p)
      BY <1>2, Zenon
    <3>2. QED
      BY <3>1 DEF NcSlotsOK
  <2>3. B \subseteq ncslots
    <3> SUFFICES ASSUME NEW p \in NcProc, nccall[p].op \in {"dhcp", "dns"}
                 PROVE  <<nccall[p].op>> \in ncslots
      BY Zenon
    <3>1. NcBusy(p) /\ NcEnd(p) = <<nccall[p].op>>
      BY <1>3, Zenon
    <3>2. NcEnd(p) \in ncslots
      BY <3>1 DEF NcSlotsOK
    <3>3. QED
      BY <3>1, <3>2
  <2>4. ncleft \subseteq ncslots
    BY DEF NcSlotsOK
  <2> HIDE DEF A, B
  <2>5. QED
    BY <2>1, <2>2, <2>3, <2>4
<1>5. \A p \in NcProc : TfEnd(p) \notin ncleft
  BY <1>1 DEF NcSlotsOK
<1>6. ASSUME NEW e \in {"dhcp", "dns"}
      PROVE  Cardinality({p \in NcProc : nccall[p].op = e}) <= (IF <<e>> \in ncleft THEN 0 ELSE 1)
  <2> DEFINE S == {p \in NcProc : nccall[p].op = e}
  <2>1. \A p \in S : NcBusy(p) /\ NcEnd(p) = <<e>>
    <3> SUFFICES ASSUME NEW p \in NcProc, nccall[p].op = e
                 PROVE  NcBusy(p) /\ NcEnd(p) = <<e>>
      OBVIOUS
    <3>1. nccall[p].op \in {"dhcp", "dns"}
      OBVIOUS
    <3>2. NcEnd(p) = <<nccall[p].op>>
      BY <1>3, <3>1
    <3>3. QED
      BY <3>1, <3>2 DEF NcBusy
  <2>2. <<e>> \in ncleft => S = {}
    BY <2>1 DEF NcSlotsOK
  <2>3. \A p, q \in S : p = q
    BY <2>1 DEF NcSlotsOK
  <2> HIDE DEF S
  <2>4. CASE S = {}
    <3>1. Cardinality(S) = 0
      BY <2>4, FS_EmptySet, Zenon
    <3>2. Cardinality(S) <= (IF <<e>> \in ncleft THEN 0 ELSE 1)
      BY <3>1
    <3>3. QED
      BY <3>2, Zenon DEF S
  <2>5. CASE S # {}
    <3>1. PICK p \in S : TRUE
      BY <2>5
    <3>2. S = {p}
      BY <2>3, <3>1
    <3>3. Cardinality({p}) = 1
      BY FS_Singleton
    <3>4. QED
      BY <2>2, <2>5, <3>2, <3>3 DEF S
  <2>6. QED
    BY <2>4, <2>5
<1>7. QED
  BY <1>4, <1>5, <1>6 DEF SlotsFollowCalls

LEMMA NcIInvImplies == NcIInv => NcInv
<1> SUFFICES ASSUME NcIInv PROVE NcInv
  OBVIOUS
<1> USE DEF NcIInv
<1>1. NcTypeOK
  BY NcShape DEF NcTypeOK, NcSlotsOK, TfCalls, DhCalls
<1>2. FileIsPrefix
  <2>1. ASSUME NEW p \in NcProc, nccall[p].op = "tftp"
        PROVE  IsPrefix(nccall[p].got, TfFile)
    <3> DEFINE k == nccall[p].expected
    <3>1. k \in 1 .. TfLast
      BY <2>1, NcShape DEF TfCalls
    <3> HIDE DEF k
    <3>2. TfFrom(k) \in 0 .. Len(TfFile)
      BY <3>1, TfBlocks, TfLastBlock
    <3>3. nccall[p].got = SubSeq(TfFile, 1, TfFrom(k))
      BY <2>1 DEF TfProgress, k
    <3>4. QED
      BY <3>2, <3>3, TfPrefix
  <2>2. QED
    BY <2>1 DEF FileIsPrefix, NcResultsOK, NcResultOK
<1>3. DoneIsWhole /\ AnswerBeginsAlike
  BY DEF DoneIsWhole, AnswerBeginsAlike, NcResultsOK, NcResultOK
<1>4. SlotsFollowCalls
  BY NcSlotsImply
<1>5. QED
  BY <1>1, <1>2, <1>3, <1>4 DEF NcInv, NcAsked

\* Whatever the network loses, delays, repeats or reorders, and whoever else
\* answers: what tftpget has is the beginning of the file, and the whole file (or
\* what the buffers hold) when it returns a size; the machine's address is one that
\* was acknowledged with the number of its requests, by a server it had asked if it
\* was acknowledged to this machine at all, and not to one with the same number;
\* dnslookup's answer begins like its question; and every endpoint is one call's,
\* or was left behind by DHCP or DNS.
THEOREM ClientsOverUdp == NcSpec => []NcInv
<1>1. NcInit => NcIInv
  BY NcInitOK
<1>2. NcIInv /\ [NcNext]_ncVars => NcIInv'
  BY NcNextOK
<1>3. NcIInv => NcInv
  BY NcIInvImplies
<1>4. QED
  BY <1>1, <1>2, <1>3, PTL DEF NcSpec


-----------------------------------------------------------------------------
(* UDP: the inductive invariant.                                           *)

UdEntryOf ==
    [state : {"free", "used", "recv"}, end : UdEnds \cup {<<>>},
     head : 0 .. UDP_QSIZ - 1, tail : 0 .. UDP_QSIZ - 1, count : 0 .. UDP_QSIZ,
     pid : UdProc \cup {-1}, queue : [0 .. UDP_QSIZ - 1 -> UdBuf \cup {0}]]
UdCallOf == {UdIdle} \cup [op : {"recv"}, slot : UdSlot] \cup [op : {"send"}, buf : UdBuf]

UdTypes ==
    /\ udmsg \in [UdProc -> {"none", "ok", "other"}]
    /\ udcall \in [UdProc -> UdCallOf]
    /\ udfree \subseteq UdBuf
    /\ udspoilt \in {"no", "taken", "lost"}
    /\ udgot = "first"

\* An entry of the table and the packets in its queue.
UdHolds(e, q) ==
    /\ e \in UdEntryOf /\ QueueOf(UdBuf, q)
    /\ RingHolds(UDP_QSIZ, e.queue, e.head, q)
    /\ e.count = Len(q) /\ e.tail = RingTurn(UDP_QSIZ, e.head, Len(q))
    /\ e.state = "free" => (q = <<>> /\ e.pid = -1)

UdTable ==
    /\ udptab \in [UdSlot -> UdEntryOf] /\ udhas \in [UdSlot -> Seq(UdBuf)]
    /\ \A s \in UdSlot : UdHolds(udptab[s], udhas[s])

\* Who has buffer b.
UdSenders(b) == {p \in UdProc : udcall[p].op = "send" /\ udcall[p].buf = b}
UdHolders(b) == {s \in UdSlot : b \in Range(udhas[s])}

UdOnce ==
    \A b \in UdBuf :
        \/ b \in udfree /\ UdSenders(b) = {} /\ UdHolders(b) = {}
        \/ b \notin udfree /\ (\E p : UdSenders(b) = {p}) /\ UdHolders(b) = {}
        \/ b \notin udfree /\ UdSenders(b) = {} /\ (\E s : UdHolders(b) = {s})

\* Who waits, and was told.
UdWaitsOn(p, s) == udcall[p] = [op |-> "recv", slot |-> s]

UdKnown ==
    \A s \in UdSlot : udptab[s].state = "recv" =>
        udhas[s] = <<>> /\ udptab[s].pid \in UdProc /\ UdWaitsOn(udptab[s].pid, s)
UdWoke ==
    \A p \in UdProc, s \in UdSlot :
        UdWaitsOn(p, s) /\ udptab[s].pid = p /\ udptab[s].state = "used" => udmsg[p] # "none"

UdIInv ==
    /\ UdTypes
    /\ UdTable
    /\ UdOnce
    /\ udspoilt = "no" => UdKnown /\ UdWoke

-----------------------------------------------------------------------------
(* UDP: one entry.                                                         *)

LEMMA UdSizes ==
  /\ UDP_QSIZ \in Nat \ {0} /\ UDP_SLOTS \in Nat \ {0} /\ UdBufs \in Nat \ {0}
  /\ -1 \notin UdProc /\ UdBuf \in SUBSET Nat /\ 0 \notin UdBuf
BY UdAssumption DEF UdBuf

LEMMA UdAfterIs ==
  ASSUME NEW i \in 0 .. UDP_QSIZ - 1
  PROVE  UdAfter(i) = RingTurn(UDP_QSIZ, i, 1)
<1>1. PICK N : N = UDP_QSIZ
  OBVIOUS
<1>2. N \in Nat \ {0} /\ 1 \in 0 .. N /\ i \in 0 .. N - 1
  BY <1>1, UdSizes
<1>3. (i + 1) % N = IF i + 1 < N THEN i + 1 ELSE i + 1 - N
  BY <1>2, RingAfter
<1>4. QED
  BY <1>1, <1>2, <1>3 DEF UdAfter, RingTurn

LEMMA UdNewOK ==
  ASSUME NEW state \in {"free", "used"}, NEW end \in UdEnds \cup {<<>>}
  PROVE  UdHolds(UdEntry(state, end), <<>>)
<1>1. PICK e : e = UdEntry(state, end)
  OBVIOUS
<1>2. e \in UdEntryOf
  BY <1>1, UdSizes DEF UdEntry, UdEntryOf
<1>3. /\ e.head = 0 /\ e.tail = 0 /\ e.count = 0 /\ e.pid = -1
      /\ e.queue = [i \in 0 .. UDP_QSIZ - 1 |-> 0]
  BY <1>1 DEF UdEntry
<1>4. <<>> \in Seq(UdBuf) /\ Len(<<>>) = 0 /\ QueueOf(UdBuf, <<>>)
  BY DEF QueueOf, IsInjective
<1>5. RingHolds(UDP_QSIZ, e.queue, e.head, <<>>)
  BY <1>3, <1>4, UdSizes DEF RingHolds
<1>6. RingTurn(UDP_QSIZ, 0, 0) = 0
  <2>1. 0 \in 0 .. UDP_QSIZ - 1
    BY UdSizes
  <2>2. QED
    BY <2>1, UdSizes, RingTurns
<1>7. UdHolds(e, <<>>)
  BY <1>2, <1>3, <1>4, <1>5, <1>6 DEF UdHolds
<1>8. QED
  BY <1>1, <1>7

\* What an entry becomes when a packet is put in, and when one is taken.
UdWithOneMore(e, b) ==
    [state |-> "used", end |-> e.end, head |-> e.head, tail |-> UdAfter(e.tail),
     count |-> e.count + 1, pid |-> e.pid, queue |-> [e.queue EXCEPT ![e.tail] = b]]
UdWithOneLess(e) ==
    [state |-> "used", end |-> e.end, head |-> UdAfter(e.head), tail |-> e.tail,
     count |-> e.count - 1, pid |-> e.pid, queue |-> [e.queue EXCEPT ![e.head] = 0]]

LEMMA UdEntryFields ==
  ASSUME NEW e \in UdEntryOf
  PROVE  /\ e.state \in {"free", "used", "recv"} /\ e.end \in UdEnds \cup {<<>>}
         /\ e.head \in 0 .. UDP_QSIZ - 1 /\ e.tail \in 0 .. UDP_QSIZ - 1 /\ e.count \in 0 .. UDP_QSIZ
         /\ e.pid \in UdProc \cup {-1} /\ e.queue \in [0 .. UDP_QSIZ - 1 -> UdBuf \cup {0}]
BY DEF UdEntryOf

LEMMA UdPutOK ==
  ASSUME NEW e, NEW q, UdHolds(e, q), NEW b \in UdBuf, b \notin Range(q), e.count < UDP_QSIZ
  PROVE  UdHolds(UdWithOneMore(e, b), Append(q, b))
<1>1. PICK N : N = UDP_QSIZ
  OBVIOUS
<1>2. N \in Nat \ {0}
  BY <1>1, UdSizes
<1>3. /\ e.end \in UdEnds \cup {<<>>} /\ e.head \in 0 .. N - 1 /\ e.tail \in 0 .. N - 1
      /\ e.count \in 0 .. N /\ e.pid \in UdProc \cup {-1}
      /\ e.queue \in [0 .. N - 1 -> UdBuf \cup {0}]
  BY <1>1, UdEntryFields DEF UdHolds
<1>4. /\ QueueOf(UdBuf, q) /\ q \in Seq(UdBuf) /\ RingHolds(N, e.queue, e.head, q)
      /\ e.count = Len(q) /\ e.tail = RingTurn(N, e.head, Len(q))
  BY <1>1 DEF UdHolds, QueueOf
<1>5. QueueOf(UdBuf, Append(q, b)) /\ Len(Append(q, b)) = Len(q) + 1
  BY <1>4, AppendMembers
<1>6. Len(q) < N
  BY <1>1, <1>4
<1>7. PICK r, h, n : r = e.queue /\ h = e.head /\ n = Len(q)
  OBVIOUS
<1>8. /\ RingHolds(N, [r EXCEPT ![RingTurn(N, h, n)] = b], h, Append(q, b))
      /\ RingTurn(N, RingTurn(N, h, n), 1) = RingTurn(N, h, Len(Append(q, b)))
  <2>1. h \in 0 .. N - 1 /\ q \in Seq(UdBuf) /\ RingHolds(N, r, h, q)
    BY <1>3, <1>4, <1>7
  <2>2. RingHolds(N, [r EXCEPT ![RingTurn(N, h, Len(q))] = b], h, Append(q, b))
    BY <1>2, <1>6, <2>1, RingPut
  <2>3. n \in Nat /\ n < N
    BY <1>3, <1>4, <1>6, <1>7
  <2>4. RingTurn(N, RingTurn(N, h, n), 1) = RingTurn(N, h, n + 1)
    BY <1>2, <2>1, <2>3, RingNext
  <2>5. QED
    BY <1>5, <1>7, <2>2, <2>4
<1>9. UdAfter(e.tail) = RingTurn(N, h, Len(Append(q, b))) /\ UdAfter(e.tail) \in 0 .. N - 1
  <2>1. UdAfter(e.tail) = RingTurn(N, e.tail, 1)
    BY <1>1, <1>3, UdAfterIs
  <2>2. UdAfter(e.tail) \in 0 .. N - 1
    BY <1>1, <1>2, <1>3 DEF UdAfter
  <2>3. QED
    BY <1>4, <1>7, <1>8, <2>1, <2>2
<1>10. [r EXCEPT ![e.tail] = b] \in [0 .. N - 1 -> UdBuf \cup {0}]
  BY <1>3, <1>7
<1>11. e.count + 1 \in 0 .. N
  BY <1>2, <1>3, <1>4, <1>6
<1>12. PICK w : w = UdWithOneMore(e, b)
  OBVIOUS
<1>13. /\ w.state = "used" /\ w.head = h /\ w.tail = UdAfter(e.tail) /\ w.count = e.count + 1
       /\ w.queue = [r EXCEPT ![RingTurn(N, h, n)] = b]
  BY <1>4, <1>7, <1>12 DEF UdWithOneMore
<1>14. w \in UdEntryOf
  BY <1>1, <1>3, <1>7, <1>9, <1>10, <1>11, <1>12 DEF UdWithOneMore, UdEntryOf
<1>15. UdHolds(w, Append(q, b))
  BY <1>1, <1>4, <1>5, <1>8, <1>9, <1>13, <1>14 DEF UdHolds
<1>16. QED
  BY <1>12, <1>15

LEMMA UdTakeOK ==
  ASSUME NEW e, NEW q, UdHolds(e, q), q # <<>>
  PROVE  e.queue[e.head] = Head(q) /\ UdHolds(UdWithOneLess(e), Tail(q))
<1>1. PICK N : N = UDP_QSIZ
  OBVIOUS
<1>2. N \in Nat \ {0}
  BY <1>1, UdSizes
<1>3. /\ e.end \in UdEnds \cup {<<>>} /\ e.head \in 0 .. N - 1 /\ e.tail \in 0 .. N - 1
      /\ e.count \in 0 .. N /\ e.pid \in UdProc \cup {-1}
      /\ e.queue \in [0 .. N - 1 -> UdBuf \cup {0}]
  BY <1>1, UdEntryFields DEF UdHolds
<1>4. /\ QueueOf(UdBuf, q) /\ q \in Seq(UdBuf) /\ RingHolds(N, e.queue, e.head, q)
      /\ e.count = Len(q) /\ e.tail = RingTurn(N, e.head, Len(q))
  BY <1>1 DEF UdHolds, QueueOf
<1>5. QueueOf(UdBuf, Tail(q)) /\ Len(Tail(q)) = Len(q) - 1 /\ Len(q) # 0
  BY <1>4, TailMembers, EmptySeq
<1>6. PICK r, h : r = e.queue /\ h = e.head
  OBVIOUS
<1>7. RingHolds(N, r, h, q) /\ h \in 0 .. N - 1
  BY <1>3, <1>4, <1>6
<1>8. /\ r[h] = Head(q)
      /\ RingTurn(N, h, 1) \in 0 .. N - 1
      /\ RingHolds(N, [r EXCEPT ![h] = 0], RingTurn(N, h, 1), Tail(q))
      /\ RingTurn(N, RingTurn(N, h, 1), Len(Tail(q))) = RingTurn(N, h, Len(q))
  <2>1. q \in Seq(UdBuf)
    BY <1>4
  <2>2. r[h] = Head(q)
    BY <1>2, <1>7, <2>1, RingHead
  <2>3. PICK g : g = [r EXCEPT ![h] = 0]
    OBVIOUS
  <2>4. DOMAIN g = DOMAIN r /\ \A i \in 0 .. N - 1 : i # h => g[i] = r[i]
    BY <1>7, <2>3 DEF RingHolds
  <2>5. RingHolds(N, g, RingTurn(N, h, 1), Tail(q))
    BY <1>2, <1>7, <2>1, <2>4, RingTake
  <2>6. PICK n : n = Len(q)
    OBVIOUS
  <2>7. n \in Nat \ {0} /\ n <= N
    BY <1>3, <1>4, <1>5, <2>6
  <2>8. RingTurn(N, RingTurn(N, h, 1), n - 1) = RingTurn(N, h, n)
    BY <1>2, <1>7, <2>7, RingFirst
  <2>9. RingTurn(N, h, 1) \in 0 .. N - 1
    BY <1>2, <1>7 DEF RingTurn
  <2>10. QED
    BY <1>5, <2>2, <2>3, <2>5, <2>6, <2>8, <2>9
<1>9. UdAfter(h) = RingTurn(N, h, 1)
  BY <1>1, <1>7, UdAfterIs
<1>10. [r EXCEPT ![h] = 0] \in [0 .. N - 1 -> UdBuf \cup {0}]
  BY <1>3, <1>6
<1>11. e.count - 1 \in 0 .. N
  BY <1>2, <1>3, <1>4, <1>5
<1>12. PICK w : w = UdWithOneLess(e)
  OBVIOUS
<1>13. /\ w.state = "used" /\ w.head = RingTurn(N, h, 1) /\ w.tail = e.tail /\ w.count = e.count - 1
       /\ w.queue = [r EXCEPT ![h] = 0]
  BY <1>6, <1>9, <1>12 DEF UdWithOneLess
<1>14. w \in UdEntryOf
  BY <1>1, <1>3, <1>6, <1>8, <1>9, <1>10, <1>11, <1>12 DEF UdWithOneLess, UdEntryOf
<1>15. UdHolds(w, Tail(q))
  BY <1>1, <1>4, <1>5, <1>6, <1>8, <1>13, <1>14 DEF UdHolds
<1>16. QED
  BY <1>6, <1>8, <1>12, <1>15

\* A change of state or of the process that waits.
LEMMA UdMarkOK ==
  ASSUME NEW e, NEW q, UdHolds(e, q), NEW state \in {"used", "recv"}, NEW p \in UdProc \cup {-1}
  PROVE  UdHolds([e EXCEPT !.state = state, !.pid = p], q)
<1>1. e \in UdEntryOf
  BY DEF UdHolds
<1>2. PICK w : w = [e EXCEPT !.state = state, !.pid = p]
  OBVIOUS
<1>3. w \in UdEntryOf
  BY <1>1, <1>2 DEF UdEntryOf
<1>4. /\ w.state = state /\ w.head = e.head /\ w.tail = e.tail /\ w.count = e.count
      /\ w.queue = e.queue
  BY <1>1, <1>2 DEF UdEntryOf
<1>5. UdHolds(w, q)
  BY <1>3, <1>4 DEF UdHolds
<1>6. QED
  BY <1>2, <1>5

\* The buffers a release frees.
LEMMA UdQueuedIs ==
  ASSUME NEW s \in UdSlot, UdHolds(udptab[s], udhas[s])
  PROVE  UdQueued(s) = Range(udhas[s])
<1>1. PICK q, e, N : q = udhas[s] /\ e = udptab[s] /\ N = UDP_QSIZ
  OBVIOUS
<1>2. q \in Seq(UdBuf) /\ RingHolds(N, e.queue, e.head, q) /\ e.count = Len(q)
  BY <1>1 DEF UdHolds, QueueOf
<1>3. PICK r, h : r = e.queue /\ h = e.head
  OBVIOUS
<1>4. Len(q) \in Nat /\ \A i \in 0 .. Len(q) - 1 : r[RingTurn(N, h, i)] = q[i + 1]
  <2>1. RingHolds(N, r, h, q) /\ Len(q) \in Nat
    BY <1>2, <1>3, LenProperties
  <2>2. QED
    BY <2>1, RingAt
<1>5. UdQueued(s) = {r[RingTurn(N, h, i)] : i \in 0 .. Len(q) - 1}
  BY <1>1, <1>2, <1>3 DEF UdQueued, RingTurn
<1>6. Range(q) = {q[i] : i \in 1 .. Len(q)}
  BY <1>2, MembersAt
<1>7. UdQueued(s) \subseteq Range(q)
  <2>1. \A i \in 0 .. Len(q) - 1 : i + 1 \in 1 .. Len(q)
    BY <1>4
  <2>2. QED
    BY <1>4, <1>5, <1>6, <2>1
<1>8. Range(q) \subseteq UdQueued(s)
  <2>1. ASSUME NEW j \in 1 .. Len(q)
        PROVE  q[j] \in UdQueued(s)
    <3>1. PICK i \in 0 .. Len(q) - 1 : j = i + 1
      <4>1. j - 1 \in 0 .. Len(q) - 1 /\ j = (j - 1) + 1
        BY <1>4
      <4>2. QED
        BY <4>1
    <3>2. r[RingTurn(N, h, i)] = q[j]
      BY <1>4, <3>1
    <3>3. QED
      BY <1>5, <3>2
  <2>2. QED
    BY <1>6, <2>1
<1>9. QED
  BY <1>1, <1>7, <1>8

\* One entry of the table changes.
LEMMA UdTableNext ==
  ASSUME UdTable, NEW s \in UdSlot, NEW e, NEW q, UdHolds(e, q),
         udptab' = [udptab EXCEPT ![s] = e], udhas' = [udhas EXCEPT ![s] = q]
  PROVE  /\ UdTable'
         /\ udptab'[s] = e /\ udhas'[s] = q
         /\ \A t \in UdSlot \ {s} : udptab'[t] = udptab[t] /\ udhas'[t] = udhas[t]
<1>1. udptab \in [UdSlot -> UdEntryOf] /\ udhas \in [UdSlot -> Seq(UdBuf)]
  BY DEF UdTable
<1>2. e \in UdEntryOf /\ q \in Seq(UdBuf)
  BY DEF UdHolds, QueueOf
<1>3. udptab' \in [UdSlot -> UdEntryOf] /\ udhas' \in [UdSlot -> Seq(UdBuf)]
  BY <1>1, <1>2
<1>4. udptab'[s] = e /\ udhas'[s] = q
  BY <1>1
<1>5. \A t \in UdSlot \ {s} : udptab'[t] = udptab[t] /\ udhas'[t] = udhas[t]
  BY <1>1
<1>6. \A t \in UdSlot : UdHolds(udptab'[t], udhas'[t])
  BY <1>4, <1>5 DEF UdTable
<1>7. UdTable'
  BY <1>3, <1>6 DEF UdTable
<1>8. QED
  BY <1>4, <1>5, <1>7

-----------------------------------------------------------------------------
(* UDP: steps.                                                             *)

\* Buffers that stay where they are, and buffers that move.
LEMMA UdOnceNext ==
  ASSUME UdOnce,
         \A b \in UdBuf :
             \/ (b \in udfree' <=> b \in udfree) /\ UdSenders(b)' = UdSenders(b) /\ UdHolders(b)' = UdHolders(b)
             \/ b \in udfree' /\ UdSenders(b)' = {} /\ UdHolders(b)' = {}
             \/ b \notin udfree' /\ (\E p : UdSenders(b)' = {p}) /\ UdHolders(b)' = {}
             \/ b \notin udfree' /\ UdSenders(b)' = {} /\ (\E s : UdHolders(b)' = {s})
  PROVE  UdOnce'
<1>1. ASSUME NEW b \in UdBuf
      PROVE  \/ b \in udfree' /\ UdSenders(b)' = {} /\ UdHolders(b)' = {}
             \/ b \notin udfree' /\ (\E p : UdSenders(b)' = {p}) /\ UdHolders(b)' = {}
             \/ b \notin udfree' /\ UdSenders(b)' = {} /\ (\E s : UdHolders(b)' = {s})
  <2>1. \/ b \in udfree /\ UdSenders(b) = {} /\ UdHolders(b) = {}
        \/ b \notin udfree /\ (\E p : UdSenders(b) = {p}) /\ UdHolders(b) = {}
        \/ b \notin udfree /\ UdSenders(b) = {} /\ (\E s : UdHolders(b) = {s})
    BY DEF UdOnce
  <2>2. PICK S, H, S2, H2 : S = UdSenders(b) /\ H = UdHolders(b) /\ S2 = UdSenders(b)' /\ H2 = UdHolders(b)'
    OBVIOUS
  <2>3. QED
    BY <2>1, <2>2
<1>2. QED
  BY <1>1 DEF UdOnce

\* Where a buffer is, it is alone.
LEMMA UdFreeAlone ==
  ASSUME UdOnce, NEW b \in UdBuf, b \in udfree
  PROVE  UdSenders(b) = {} /\ UdHolders(b) = {}
BY DEF UdOnce

LEMMA UdSentAlone ==
  ASSUME UdOnce, NEW b \in UdBuf, NEW p \in UdSenders(b)
  PROVE  UdSenders(b) = {p} /\ UdHolders(b) = {}
BY DEF UdOnce

LEMMA UdQueuedAlone ==
  ASSUME UdOnce, NEW b \in UdBuf, NEW s \in UdHolders(b)
  PROVE  b \notin udfree /\ UdSenders(b) = {} /\ UdHolders(b) = {s}
BY DEF UdOnce

\* The table and the calls of processes decide who holds a buffer.
LEMMA UdSendersKept ==
  ASSUME UdTypes, \A p \in UdProc : udcall'[p] = udcall[p] \/ (udcall[p].op # "send" /\ udcall'[p].op # "send")
  PROVE  \A b : UdSenders(b)' = UdSenders(b)
BY DEF UdSenders

LEMMA UdHoldersOf ==
  ASSUME UdTable, NEW s \in UdSlot, NEW q,
         udhas'[s] = q, \A t \in UdSlot \ {s} : udhas'[t] = udhas[t],
         NEW b
  PROVE  /\ b \in Range(q) => UdHolders(b)' = UdHolders(b) \cup {s}
         /\ b \notin Range(q) => UdHolders(b)' = UdHolders(b) \ {s}
<1>1. UdHolders(b)' = {t \in UdSlot : b \in Range(udhas'[t])} /\ UdHolders(b) = {t \in UdSlot : b \in Range(udhas[t])}
  BY DEF UdHolders
<1>2. \A t \in UdSlot : t # s => (t \in UdHolders(b)' <=> t \in UdHolders(b))
  BY <1>1
<1>3. s \in UdHolders(b)' <=> b \in Range(q)
  BY <1>1
<1>4. UdHolders(b)' \subseteq UdSlot /\ UdHolders(b) \subseteq UdSlot
  BY <1>1
<1>5. QED
  BY <1>2, <1>3, <1>4

\* The first free buffer.
LEMMA UdFirstFree ==
  ASSUME UdTypes, udfree # {}
  PROVE  Min(udfree) \in udfree /\ Min(udfree) \in UdBuf
<1>1. udfree \in SUBSET Nat
  BY UdSizes DEF UdTypes
<1>2. Min(udfree) \in udfree
  BY <1>1, MinProperties
<1>3. QED
  BY <1>2 DEF UdTypes

\* Who waits stays known and told where entries, calls and messages do not
\* change, or change for the better.
LEMMA UdWaitersNext ==
  ASSUME UdKnown, UdWoke, UdTypes, UdTable,
         \A p \in UdProc, s \in UdSlot :
             /\ UdWaitsOn(p, s) => UdWaitsOn(p, s)'
             /\ UdWaitsOn(p, s)' => UdWaitsOn(p, s),
         \A p \in UdProc : udmsg[p] # "none" => udmsg'[p] # "none",
         \A s \in UdSlot :
             \/ udptab'[s].state = udptab[s].state /\ udptab'[s].pid = udptab[s].pid /\ udhas'[s] = udhas[s]
             \/ udptab'[s].state = "used" /\ udptab[s].state = "used" /\ udptab'[s].pid = udptab[s].pid
             \/ udptab'[s].state # "recv" /\ udptab'[s].pid = -1
             \/ /\ udptab'[s].state = "used" /\ udptab[s].state = "recv" /\ udptab'[s].pid = udptab[s].pid
                /\ udmsg'[udptab[s].pid] # "none"
  PROVE  UdKnown' /\ UdWoke'
<1>1. \A p \in UdProc, s \in UdSlot : UdWaitsOn(p, s)' <=> UdWaitsOn(p, s)
  OBVIOUS
<1>2. ASSUME NEW s \in UdSlot, udptab'[s].state = "recv"
      PROVE  udhas'[s] = <<>> /\ udptab'[s].pid \in UdProc /\ UdWaitsOn(udptab[s].pid, s)'
  <2>1. udptab[s].state = "recv" /\ udptab'[s].pid = udptab[s].pid /\ udhas'[s] = udhas[s]
    BY <1>2
  <2>2. udhas[s] = <<>> /\ udptab[s].pid \in UdProc /\ UdWaitsOn(udptab[s].pid, s)
    BY <2>1 DEF UdKnown
  <2>3. PICK p \in UdProc : p = udptab[s].pid
    BY <2>2
  <2>4. UdWaitsOn(p, s)'
    BY <1>1, <2>2, <2>3
  <2>5. QED
    BY <2>1, <2>2, <2>3, <2>4 DEF UdWaitsOn
<1>3. ASSUME NEW p \in UdProc, NEW s \in UdSlot,
             UdWaitsOn(p, s)', udptab'[s].pid = p, udptab'[s].state = "used"
      PROVE  udmsg'[p] # "none"
  <2>1. UdWaitsOn(p, s) /\ p # -1
    BY <1>1, <1>3, UdSizes
  <2>2. CASE udptab[s].state = "used" /\ udptab[s].pid = p
    <3>1. udmsg[p] # "none"
      BY <2>1, <2>2 DEF UdWoke
    <3>2. QED
      BY <3>1
  <2>3. CASE udmsg'[udptab[s].pid] # "none" /\ udptab[s].pid = p
    BY <2>3
  <2>4. QED
    BY <1>3, <2>1, <2>2, <2>3
<1>4. UdKnown'
  BY <1>2 DEF UdKnown
<1>5. UdWoke'
  BY <1>3 DEF UdWoke
<1>6. QED
  BY <1>4, <1>5

-----------------------------------------------------------------------------
(* UDP: packets come in and go out.                                        *)

LEMMA UdpInOK ==
  ASSUME UdIInv, udspoilt = "no", udfree # {}, NEW k,
         udp_in(k, Min(udfree), udfree \ {Min(udfree)}),
         UNCHANGED <<udcall, udspoilt, udgot>>
  PROVE  UdIInv'
<1>1. UdTypes /\ UdTable /\ UdOnce /\ UdKnown /\ UdWoke
  BY DEF UdIInv
<1>2. PICK b : b = Min(udfree)
  OBVIOUS
<1>3. b \in udfree /\ b \in UdBuf
  BY <1>1, <1>2, UdFirstFree
<1>4. UdSenders(b) = {} /\ UdHolders(b) = {}
  BY <1>1, <1>3, UdFreeAlone
<1>5. \A c : UdSenders(c)' = UdSenders(c)
  BY DEF UdSenders
<1>6. \A p \in UdProc, s \in UdSlot : UdWaitsOn(p, s)' <=> UdWaitsOn(p, s)
  BY DEF UdWaitsOn
<1>7. CASE /\ udfree' = (udfree \ {b}) \cup {b}
           /\ UNCHANGED <<udptab, udmsg, udhas>>
  <2>1. udfree' = udfree
    BY <1>3, <1>7
  <2>2. UdTypes' /\ UdTable'
    BY <1>1, <1>7, <2>1 DEF UdTypes, UdTable
  <2>3. \A c : UdHolders(c)' = UdHolders(c)
    BY <1>7 DEF UdHolders
  <2>4. UdOnce'
    BY <1>1, <1>5, <2>1, <2>3, UdOnceNext
  <2>5. UdKnown' /\ UdWoke'
    BY <1>1, <1>7 DEF UdKnown, UdWoke, UdWaitsOn
  <2>6. QED
    BY <2>2, <2>4, <2>5 DEF UdIInv
<1>8. ASSUME NEW s \in UdSlot, UdFits(s, k),
             udptab' = [udptab EXCEPT
               ![s].count = @ + 1, ![s].queue[udptab[s].tail] = b, ![s].tail = UdAfter(@),
               ![s].state = "used"],
             udmsg' = UdTold(s), udhas' = [udhas EXCEPT ![s] = Append(@, b)], udfree' = udfree \ {b}
      PROVE  UdIInv'
  <2>1. PICK e, q : e = udptab[s] /\ q = udhas[s]
    OBVIOUS
  <2>2. UdHolds(e, q) /\ e \in UdEntryOf /\ QueueOf(UdBuf, q)
    BY <1>1, <2>1 DEF UdTable, UdHolds
  <2>3. e.count < UDP_QSIZ /\ e.state # "free" /\ b \notin Range(q)
    BY <1>4, <1>8, <2>1 DEF UdFits, UdRoom, UdUsed, UdHolders
  <2>4. UdHolds(UdWithOneMore(e, b), Append(q, b))
    BY <1>3, <2>2, <2>3, UdPutOK
  <2>5. udptab' = [udptab EXCEPT ![s] = UdWithOneMore(e, b)]
    <3>1. udptab \in [UdSlot -> UdEntryOf] /\ e \in UdEntryOf
      BY <1>1, <2>2 DEF UdTable
    <3>2. udptab'[s] = UdWithOneMore(e, b)
      BY <1>8, <2>1, <3>1 DEF UdEntryOf, UdWithOneMore
    <3>3. \A t \in UdSlot : t # s => udptab'[t] = udptab[t]
      BY <1>8, <3>1
    <3>4. DOMAIN udptab' = UdSlot /\ udptab' = [t \in UdSlot |-> udptab'[t]]
      BY <1>8, <3>1
    <3>5. QED
      BY <3>1, <3>2, <3>3, <3>4
  <2>6. udhas' = [udhas EXCEPT ![s] = Append(q, b)]
    BY <1>8, <2>1
  <2>7. PICK e2, q2 : e2 = UdWithOneMore(e, b) /\ q2 = Append(q, b)
    OBVIOUS
  <2>8. UdHolds(e2, q2) /\ udptab' = [udptab EXCEPT ![s] = e2] /\ udhas' = [udhas EXCEPT ![s] = q2]
    BY <2>4, <2>5, <2>6, <2>7
  <2>9. /\ UdTable'
        /\ udptab'[s] = e2 /\ udhas'[s] = q2
        /\ \A t \in UdSlot \ {s} : udptab'[t] = udptab[t] /\ udhas'[t] = udhas[t]
    BY <1>1, <2>8, UdTableNext
  <2>10. Range(q2) = Range(q) \cup {b}
    BY <1>3, <2>2, <2>3, <2>7, AppendMembers
  <2>11. ASSUME NEW c \in UdBuf
         PROVE  IF c = b THEN UdHolders(c)' = {s} ELSE UdHolders(c)' = UdHolders(c)
    <3>1. c \in Range(q2) => UdHolders(c)' = UdHolders(c) \cup {s}
      BY <1>1, <2>9, UdHoldersOf
    <3>2. c \notin Range(q2) => UdHolders(c)' = UdHolders(c) \ {s}
      BY <1>1, <2>9, UdHoldersOf
    <3>3. s \in UdHolders(c) <=> c \in Range(q)
      BY <2>1 DEF UdHolders
    <3>4. QED
      BY <1>4, <2>10, <3>1, <3>2, <3>3
  <2>12. UdOnce'
    <3>1. \A c \in UdBuf :
             \/ (c \in udfree' <=> c \in udfree) /\ UdSenders(c)' = UdSenders(c) /\ UdHolders(c)' = UdHolders(c)
             \/ c \notin udfree' /\ UdSenders(c)' = {} /\ (\E t : UdHolders(c)' = {t})
      BY <1>4, <1>5, <1>8, <2>11
    <3>2. QED
      BY <1>1, <3>1, UdOnceNext
  <2>13. /\ udmsg' \in [UdProc -> {"none", "ok", "other"}]
         /\ \A p \in UdProc : udmsg[p] # "none" => udmsg'[p] # "none"
         /\ udptab[s].state = "recv" /\ udptab[s].pid \in UdProc => udmsg'[udptab[s].pid] # "none"
    BY <1>1, <1>8 DEF UdTold, UdTypes
  <2>14. UdTypes'
    BY <1>1, <1>8, <2>13 DEF UdTypes
  <2>15. udptab'[s].state = "used" /\ udptab'[s].pid = udptab[s].pid
    BY <2>1, <2>7, <2>9 DEF UdWithOneMore
  <2>16. udptab[s].state = "used" \/ (udptab[s].state = "recv" /\ udptab[s].pid \in UdProc)
    <3>1. e.state \in {"free", "used", "recv"}
      BY <2>2, UdEntryFields
    <3>2. udptab[s].state = "recv" => udptab[s].pid \in UdProc
      BY <1>1 DEF UdKnown
    <3>3. e.state = "used" \/ e.state = "recv"
      BY <2>3, <3>1
    <3>4. QED
      BY <2>1, <3>2, <3>3
  <2>17. \A t \in UdSlot :
             \/ udptab'[t].state = udptab[t].state /\ udptab'[t].pid = udptab[t].pid /\ udhas'[t] = udhas[t]
             \/ udptab'[t].state = "used" /\ udptab[t].state = "used" /\ udptab'[t].pid = udptab[t].pid
             \/ /\ udptab'[t].state = "used" /\ udptab[t].state = "recv" /\ udptab'[t].pid = udptab[t].pid
                /\ udmsg'[udptab[t].pid] # "none"
    BY <2>9, <2>13, <2>15, <2>16
  <2>18. UdKnown' /\ UdWoke'
    BY <1>1, <1>6, <2>13, <2>17, UdWaitersNext
  <2>19. QED
    BY <2>9, <2>12, <2>14, <2>18 DEF UdIInv
<1>9. QED
  BY <1>2, <1>7, <1>8 DEF udp_in

\* The buffer of the first packet becomes free.
LEMMA UdDequeueOK ==
  ASSUME UdTypes, UdTable, UdOnce, NEW s \in UdSlot, udhas[s] # <<>>, UdDequeue(s),
         \A c : UdSenders(c)' = UdSenders(c)
  PROVE  /\ UdTable' /\ UdOnce' /\ udfree' \subseteq UdBuf /\ udgot' = "first"
         /\ udptab'[s].state = "used" /\ udptab'[s].pid = udptab[s].pid
         /\ \A t \in UdSlot \ {s} : udptab'[t] = udptab[t] /\ udhas'[t] = udhas[t]
<1>1. PICK e, q : e = udptab[s] /\ q = udhas[s]
  OBVIOUS
<1>2. UdHolds(e, q) /\ e \in UdEntryOf /\ QueueOf(UdBuf, q) /\ q # <<>>
  BY <1>1 DEF UdTable, UdHolds
<1>3. e.queue[e.head] = Head(q) /\ UdHolds(UdWithOneLess(e), Tail(q))
  BY <1>2, UdTakeOK
<1>4. Range(Tail(q)) = Range(q) \ {Head(q)} /\ Head(q) \in Range(q)
  BY <1>2, TailMembers
<1>5. PICK b : b = Head(q)
  OBVIOUS
<1>6. b \in UdBuf /\ s \in UdHolders(b)
  <2>1. q \in Seq(UdBuf)
    BY <1>2 DEF QueueOf
  <2>2. Range(q) \subseteq UdBuf
    BY <2>1, MembersAt
  <2>3. QED
    BY <1>1, <1>4, <1>5, <2>2 DEF UdHolders
<1>7. b \notin udfree /\ UdSenders(b) = {} /\ UdHolders(b) = {s}
  BY <1>6, UdQueuedAlone
<1>8. udptab' = [udptab EXCEPT ![s] = UdWithOneLess(e)]
  <2>1. udptab \in [UdSlot -> UdEntryOf] /\ e \in UdEntryOf
    BY <1>2 DEF UdTable
  <2>2. udptab' = [udptab EXCEPT ![s].queue[udptab[s].head] = 0, ![s].head = UdAfter(@),
                                ![s].count = @ - 1, ![s].state = "used"]
    BY DEF UdDequeue
  <2>3. udptab'[s] = UdWithOneLess(e)
    BY <1>1, <2>1, <2>2 DEF UdEntryOf, UdWithOneLess
  <2>4. \A t \in UdSlot : t # s => udptab'[t] = udptab[t]
    BY <2>1, <2>2
  <2>5. DOMAIN udptab' = UdSlot /\ udptab' = [t \in UdSlot |-> udptab'[t]]
    BY <2>1, <2>2
  <2>6. QED
    BY <2>1, <2>3, <2>4, <2>5
<1>9. udhas' = [udhas EXCEPT ![s] = Tail(q)] /\ udfree' = udfree \cup {b} /\ udgot' = "first"
  BY <1>1, <1>3, <1>5 DEF UdDequeue
<1>10. PICK e2, q2 : e2 = UdWithOneLess(e) /\ q2 = Tail(q)
  OBVIOUS
<1>11. UdHolds(e2, q2) /\ udptab' = [udptab EXCEPT ![s] = e2] /\ udhas' = [udhas EXCEPT ![s] = q2]
  BY <1>3, <1>8, <1>9, <1>10
<1>12. /\ UdTable'
       /\ udptab'[s] = e2 /\ udhas'[s] = q2
       /\ \A t \in UdSlot \ {s} : udptab'[t] = udptab[t] /\ udhas'[t] = udhas[t]
  BY <1>11, UdTableNext
<1>13. ASSUME NEW c \in UdBuf
       PROVE  IF c = b THEN UdHolders(c)' = {} ELSE UdHolders(c)' = UdHolders(c)
  <2>1. c \in Range(q2) => UdHolders(c)' = UdHolders(c) \cup {s}
    BY <1>12, UdHoldersOf
  <2>2. c \notin Range(q2) => UdHolders(c)' = UdHolders(c) \ {s}
    BY <1>12, UdHoldersOf
  <2>3. s \in UdHolders(c) <=> c \in Range(q)
    BY <1>1 DEF UdHolders
  <2>4. QED
    BY <1>4, <1>5, <1>7, <1>10, <2>1, <2>2, <2>3
<1>14. UdOnce'
  <2>1. \A c \in UdBuf :
           \/ (c \in udfree' <=> c \in udfree) /\ UdSenders(c)' = UdSenders(c) /\ UdHolders(c)' = UdHolders(c)
           \/ c \in udfree' /\ UdSenders(c)' = {} /\ UdHolders(c)' = {}
    BY <1>7, <1>9, <1>13
  <2>2. QED
    BY <2>1, UdOnceNext
<1>15. udptab'[s].state = "used" /\ udptab'[s].pid = udptab[s].pid
  BY <1>1, <1>10, <1>12 DEF UdWithOneLess
<1>16. udfree' \subseteq UdBuf
  BY <1>6, <1>9 DEF UdTypes
<1>17. QED
  BY <1>9, <1>12, <1>14, <1>15, <1>16

LEMMA UdRegisterOK ==
  ASSUME UdIInv, NEW p \in UdProc, NEW e \in UdEnds, udp_register(p, e)
  PROVE  UdIInv'
<1>1. UdTypes /\ UdTable /\ UdOnce /\ UdKnown /\ UdWoke
  BY DEF UdIInv, udp_register, UdRuns
<1>2. PICK s \in UdSlot : ~UdUsed(s) /\ udptab' = [udptab EXCEPT ![s] = UdEntry("used", e)]
  BY DEF udp_register
<1>3. UNCHANGED <<udmsg, udcall, udfree, udspoilt, udhas, udgot>>
  BY DEF udp_register
<1>4. udhas[s] = <<>>
  BY <1>1, <1>2 DEF UdTable, UdHolds, UdUsed
<1>5. PICK w : w = UdEntry("used", e)
  OBVIOUS
<1>6. UdHolds(w, <<>>) /\ w.state = "used" /\ w.pid = -1
  BY <1>5, UdNewOK DEF UdEntry
<1>7. udhas' = [udhas EXCEPT ![s] = <<>>]
  <2>1. udhas \in [UdSlot -> Seq(UdBuf)]
    BY <1>1 DEF UdTable
  <2>2. QED
    BY <1>3, <1>4, <2>1
<1>8. /\ UdTable' /\ udptab'[s] = w
      /\ \A t \in UdSlot \ {s} : udptab'[t] = udptab[t] /\ udhas'[t] = udhas[t]
  BY <1>1, <1>2, <1>5, <1>6, <1>7, UdTableNext
<1>9. UdTypes'
  BY <1>1, <1>3 DEF UdTypes
<1>10. UdOnce'
  <2>1. \A c \in UdBuf : (c \in udfree' <=> c \in udfree)
                        /\ UdSenders(c)' = UdSenders(c) /\ UdHolders(c)' = UdHolders(c)
    BY <1>3 DEF UdSenders, UdHolders
  <2>2. QED
    BY <1>1, <2>1, UdOnceNext
<1>11. UdKnown' /\ UdWoke'
  <2>1. \A x \in UdProc, t \in UdSlot : UdWaitsOn(x, t)' <=> UdWaitsOn(x, t)
    BY <1>3 DEF UdWaitsOn
  <2>2. \A x \in UdProc : udmsg[x] # "none" => udmsg'[x] # "none"
    BY <1>3
  <2>3. \A t \in UdSlot :
           \/ udptab'[t].state = udptab[t].state /\ udptab'[t].pid = udptab[t].pid /\ udhas'[t] = udhas[t]
           \/ udptab'[t].state # "recv" /\ udptab'[t].pid = -1
    BY <1>6, <1>8
  <2>4. QED
    BY <1>1, <2>1, <2>2, <2>3, UdWaitersNext
<1>12. QED
  BY <1>8, <1>9, <1>10, <1>11 DEF UdIInv

LEMMA UdReleaseOK ==
  ASSUME UdIInv, NEW p \in UdProc, NEW s \in UdSlot, udp_release(p, s)
  PROVE  UdIInv'
<1>1. UdTypes /\ UdTable /\ UdOnce /\ UdKnown /\ UdWoke
  BY DEF UdIInv, udp_release, UdRuns
<1>2. /\ udptab' = [udptab EXCEPT ![s] = UdEntry("free", <<>>)]
      /\ udhas' = [udhas EXCEPT ![s] = <<>>]
      /\ udfree' = udfree \cup UdQueued(s)
      /\ UNCHANGED <<udmsg, udcall, udspoilt, udgot>>
  BY DEF udp_release
<1>3. UdQueued(s) = Range(udhas[s])
  BY <1>1, UdQueuedIs DEF UdTable
<1>4. Range(udhas[s]) \subseteq UdBuf
  <2>1. udhas[s] \in Seq(UdBuf)
    BY <1>1 DEF UdTable
  <2>2. QED
    BY <2>1, MembersAt
<1>5. PICK w, q : w = UdEntry("free", <<>>) /\ q = <<>>
  OBVIOUS
<1>6. UdHolds(w, q) /\ w.state = "free" /\ w.pid = -1
  BY <1>5, UdNewOK DEF UdEntry
<1>7. /\ UdTable' /\ udptab'[s] = w /\ udhas'[s] = q
      /\ \A t \in UdSlot \ {s} : udptab'[t] = udptab[t] /\ udhas'[t] = udhas[t]
  BY <1>1, <1>2, <1>5, <1>6, UdTableNext
<1>8. UdTypes'
  BY <1>1, <1>2, <1>3, <1>4 DEF UdTypes
<1>9. \A c : UdSenders(c)' = UdSenders(c)
  BY <1>2 DEF UdSenders
<1>10. ASSUME NEW c \in UdBuf
       PROVE  \/ (c \in udfree' <=> c \in udfree) /\ UdSenders(c)' = UdSenders(c) /\ UdHolders(c)' = UdHolders(c)
              \/ c \in udfree' /\ UdSenders(c)' = {} /\ UdHolders(c)' = {}
  <2>1. UdHolders(c)' = UdHolders(c) \ {s}
    <3>1. c \notin Range(q)
      BY <1>5 DEF Range
    <3>2. QED
      BY <1>1, <1>7, <3>1, UdHoldersOf
  <2>2. CASE c \in Range(udhas[s])
    <3>1. s \in UdHolders(c)
      BY <2>2 DEF UdHolders
    <3>2. UdSenders(c) = {} /\ UdHolders(c) = {s}
      BY <1>1, <3>1, UdQueuedAlone
    <3>3. QED
      BY <1>2, <1>3, <1>9, <2>1, <2>2, <3>2
  <2>3. CASE c \notin Range(udhas[s])
    <3>1. s \notin UdHolders(c)
      BY <2>3 DEF UdHolders
    <3>2. QED
      BY <1>2, <1>3, <1>9, <2>1, <2>3, <3>1
  <2>4. QED
    BY <2>2, <2>3
<1>11. UdOnce'
  BY <1>1, <1>10, UdOnceNext
<1>12. UdKnown' /\ UdWoke'
  <2>1. \A x \in UdProc, t \in UdSlot : UdWaitsOn(x, t)' <=> UdWaitsOn(x, t)
    BY <1>2 DEF UdWaitsOn
  <2>2. \A x \in UdProc : udmsg[x] # "none" => udmsg'[x] # "none"
    BY <1>2
  <2>3. \A t \in UdSlot :
           \/ udptab'[t].state = udptab[t].state /\ udptab'[t].pid = udptab[t].pid /\ udhas'[t] = udhas[t]
           \/ udptab'[t].state # "recv" /\ udptab'[t].pid = -1
    BY <1>6, <1>7
  <2>4. QED
    BY <1>1, <2>1, <2>2, <2>3, UdWaitersNext
<1>13. QED
  BY <1>7, <1>8, <1>11, <1>12 DEF UdIInv

\* Only the state of an entry and the process that waits change.
LEMMA UdMarked ==
  ASSUME UdTable, UdOnce, NEW s \in UdSlot, NEW state \in {"used", "recv"}, NEW p \in UdProc \cup {-1},
         udptab' = [udptab EXCEPT ![s].state = state, ![s].pid = p],
         UNCHANGED <<udhas, udfree>>, \A c : UdSenders(c)' = UdSenders(c)
  PROVE  /\ UdTable' /\ UdOnce'
         /\ udptab'[s].state = state /\ udptab'[s].pid = p
         /\ \A t \in UdSlot \ {s} : udptab'[t] = udptab[t]
<1>1. PICK e, q : e = udptab[s] /\ q = udhas[s]
  OBVIOUS
<1>2. UdHolds(e, q) /\ e \in UdEntryOf
  BY <1>1 DEF UdTable, UdHolds
<1>3. PICK w : w = [e EXCEPT !.state = state, !.pid = p]
  OBVIOUS
<1>4. UdHolds(w, q) /\ w.state = state /\ w.pid = p
  BY <1>2, <1>3, UdMarkOK DEF UdEntryOf
<1>5. udptab \in [UdSlot -> UdEntryOf] /\ udhas \in [UdSlot -> Seq(UdBuf)]
  BY DEF UdTable
<1>6. udptab' = [udptab EXCEPT ![s] = w]
  <2>1. udptab'[s] = w
    BY <1>1, <1>2, <1>3, <1>5 DEF UdEntryOf
  <2>2. \A t \in UdSlot : t # s => udptab'[t] = udptab[t]
    BY <1>5
  <2>3. DOMAIN udptab' = UdSlot /\ udptab' = [t \in UdSlot |-> udptab'[t]]
    BY <1>5
  <2>4. QED
    BY <1>5, <2>1, <2>2, <2>3
<1>7. udhas' = [udhas EXCEPT ![s] = q]
  BY <1>1, <1>5
<1>8. UdTable' /\ udptab'[s] = w /\ \A t \in UdSlot \ {s} : udptab'[t] = udptab[t]
  BY <1>4, <1>6, <1>7, UdTableNext
<1>9. UdOnce'
  <2>1. \A c \in UdBuf : (c \in udfree' <=> c \in udfree)
                        /\ UdSenders(c)' = UdSenders(c) /\ UdHolders(c)' = UdHolders(c)
    BY DEF UdHolders
  <2>2. QED
    BY <2>1, UdOnceNext
<1>10. QED
  BY <1>4, <1>8, <1>9

LEMMA UdRecvOK ==
  ASSUME UdIInv, NEW p \in UdProc, NEW s \in UdSlot, udp_recv(p, s)
  PROVE  UdIInv'
<1>1. /\ UdTypes /\ UdTable /\ UdOnce /\ UdKnown /\ UdWoke
      /\ udcall[p] = UdIdle /\ udptab[s].state = "used" /\ udspoilt' = udspoilt
  BY DEF UdIInv, udp_recv, UdRuns
<1>2. UdHolds(udptab[s], udhas[s]) /\ udptab[s].count = Len(udhas[s]) /\ udhas[s] \in Seq(UdBuf)
  BY <1>1 DEF UdTable, UdHolds
<1>3. CASE udptab[s].count # 0 /\ UdDequeue(s) /\ UNCHANGED <<udmsg, udcall>>
  <2>1. udhas[s] # <<>>
    BY <1>2, <1>3, EmptySeq
  <2>2. \A c : UdSenders(c)' = UdSenders(c)
    BY <1>3 DEF UdSenders
  <2>3. /\ UdTable' /\ UdOnce' /\ udfree' \subseteq UdBuf /\ udgot' = "first"
        /\ udptab'[s].state = "used" /\ udptab'[s].pid = udptab[s].pid
        /\ \A t \in UdSlot \ {s} : udptab'[t] = udptab[t] /\ udhas'[t] = udhas[t]
    BY <1>1, <1>3, <2>1, <2>2, UdDequeueOK
  <2>4. UdTypes'
    BY <1>1, <1>3, <2>3 DEF UdTypes
  <2>5. UdKnown' /\ UdWoke'
    <3>1. \A x \in UdProc, t \in UdSlot : UdWaitsOn(x, t)' <=> UdWaitsOn(x, t)
      BY <1>3 DEF UdWaitsOn
    <3>2. \A x \in UdProc : udmsg[x] # "none" => udmsg'[x] # "none"
      BY <1>3
    <3>3. \A t \in UdSlot :
             \/ udptab'[t].state = udptab[t].state /\ udptab'[t].pid = udptab[t].pid /\ udhas'[t] = udhas[t]
             \/ udptab'[t].state = "used" /\ udptab[t].state = "used" /\ udptab'[t].pid = udptab[t].pid
      BY <1>1, <2>3
    <3>4. QED
      BY <1>1, <3>1, <3>2, <3>3, UdWaitersNext
  <2>6. QED
    BY <2>3, <2>4, <2>5 DEF UdIInv
<1>4. CASE /\ udptab[s].count = 0
           /\ udptab' = [udptab EXCEPT ![s].state = "recv", ![s].pid = p]
           /\ udmsg' = [udmsg EXCEPT ![p] = "none"]
           /\ udcall' = [udcall EXCEPT ![p] = [op |-> "recv", slot |-> s]]
           /\ UNCHANGED <<udfree, udhas, udgot>>
  <2>1. udhas[s] = <<>>
    BY <1>2, <1>4, EmptySeq
  <2>2. UdTypes'
    BY <1>1, <1>4 DEF UdTypes, UdCallOf
  <2>3. udcall \in [UdProc -> UdCallOf] /\ udmsg \in [UdProc -> {"none", "ok", "other"}]
    BY <1>1 DEF UdTypes
  <2>4. udcall'[p] = [op |-> "recv", slot |-> s] /\ \A x \in UdProc : x # p => udcall'[x] = udcall[x]
    BY <1>4, <2>3
  <2>5. \A c : UdSenders(c)' = UdSenders(c)
    <3>1. udcall[p].op # "send" /\ udcall'[p].op # "send"
      BY <1>1, <2>4 DEF UdIdle
    <3>2. QED
      BY <1>1, <2>4, <3>1, UdSendersKept
  <2>6. /\ UdTable' /\ UdOnce'
        /\ udptab'[s].state = "recv" /\ udptab'[s].pid = p
        /\ \A t \in UdSlot \ {s} : udptab'[t] = udptab[t]
    BY <1>1, <1>4, <2>5, UdMarked
  <2>7. \A x \in UdProc, t \in UdSlot : x # p => (UdWaitsOn(x, t)' <=> UdWaitsOn(x, t))
    BY <2>4 DEF UdWaitsOn
  <2>8. UdWaitsOn(p, s)' /\ \A t \in UdSlot : UdWaitsOn(p, t)' => t = s
    BY <2>4 DEF UdWaitsOn
  <2>9. \A t \in UdSlot : ~UdWaitsOn(p, t)
    BY <1>1 DEF UdWaitsOn, UdIdle
  <2>10. ASSUME NEW t \in UdSlot, udptab'[t].state = "recv"
         PROVE  udhas'[t] = <<>> /\ udptab'[t].pid \in UdProc /\ UdWaitsOn(udptab[t].pid, t)'
    <3>1. CASE t = s
      <4>1. UdWaitsOn(p, s)' = (udcall'[p] = [op |-> "recv", slot |-> s])
        BY DEF UdWaitsOn
      <4>2. QED
        BY <1>4, <2>1, <2>4, <2>6, <3>1 DEF UdWaitsOn
    <3>2. CASE t # s
      <4>1. udhas[t] = <<>> /\ udptab[t].pid \in UdProc /\ UdWaitsOn(udptab[t].pid, t)
        BY <1>1, <2>6, <2>10, <3>2 DEF UdKnown
      <4>2. PICK x \in UdProc : x = udptab[t].pid
        BY <4>1
      <4>3. x # p
        BY <2>9, <4>1, <4>2
      <4>4. udcall'[x] = udcall[x] /\ udptab'[t].pid = x
        BY <2>4, <2>6, <3>2, <4>2, <4>3
      <4>5. QED
        BY <1>4, <4>1, <4>2, <4>4 DEF UdWaitsOn
    <3>3. QED
      BY <3>1, <3>2
  <2>11. ASSUME NEW x \in UdProc, NEW t \in UdSlot,
                UdWaitsOn(x, t)', udptab'[t].pid = x, udptab'[t].state = "used"
         PROVE  udmsg'[x] # "none"
    <3>1. t # s
      BY <2>6, <2>11
    <3>2. x # p
      BY <2>8, <2>11, <3>1
    <3>3. UdWaitsOn(x, t) /\ udptab[t].pid = x /\ udptab[t].state = "used"
      BY <2>6, <2>7, <2>11, <3>1, <3>2
    <3>4. udmsg[x] # "none" /\ udmsg'[x] = udmsg[x]
      BY <1>1, <1>4, <2>3, <3>2, <3>3 DEF UdWoke
    <3>5. QED
      BY <3>4
  <2>12. UdKnown'
    BY <2>10 DEF UdKnown
  <2>13. UdWoke'
    BY <2>11 DEF UdWoke
  <2>14. QED
    BY <2>2, <2>6, <2>12, <2>13 DEF UdIInv
<1>5. QED
  BY <1>3, <1>4 DEF udp_recv

\* The process p has ended its wait in slot s, which is in use.
LEMMA UdWaitOver ==
  ASSUME UdTypes, UdTable, UdKnown, UdWoke, NEW p \in UdProc, NEW s \in UdSlot, UdWaitsOn(p, s),
         udcall' = [udcall EXCEPT ![p] = UdIdle], udmsg' = [udmsg EXCEPT ![p] = "none"],
         udptab'[s].state = "used", udptab'[s].pid = udptab[s].pid,
         udptab[s].state = "used" \/ udptab[s].pid = p,
         \A t \in UdSlot \ {s} : udptab'[t] = udptab[t] /\ udhas'[t] = udhas[t]
  PROVE  UdKnown' /\ UdWoke'
<1>1. udcall \in [UdProc -> UdCallOf] /\ udmsg \in [UdProc -> {"none", "ok", "other"}]
  BY DEF UdTypes
<1>2. /\ udcall'[p] = UdIdle
      /\ \A x \in UdProc : x # p => udcall'[x] = udcall[x] /\ udmsg'[x] = udmsg[x]
  BY <1>1
<1>3. \A t \in UdSlot : ~UdWaitsOn(p, t)'
  BY <1>2 DEF UdWaitsOn, UdIdle
<1>4. \A x \in UdProc, t \in UdSlot : UdWaitsOn(x, t)' => x # p /\ UdWaitsOn(x, t)
  BY <1>2, <1>3 DEF UdWaitsOn
<1>5. \A t \in UdSlot : UdWaitsOn(p, t) => t = s
  BY DEF UdWaitsOn
<1>6. ASSUME NEW t \in UdSlot, udptab'[t].state = "recv"
      PROVE  udhas'[t] = <<>> /\ udptab'[t].pid \in UdProc /\ UdWaitsOn(udptab[t].pid, t)'
  <2>1. t # s
    BY <1>6
  <2>2. udhas[t] = <<>> /\ udptab[t].pid \in UdProc /\ UdWaitsOn(udptab[t].pid, t)
    BY <1>6, <2>1 DEF UdKnown
  <2>3. PICK x \in UdProc : x = udptab[t].pid
    BY <2>2
  <2>4. x # p
    BY <1>5, <2>1, <2>2, <2>3
  <2>5. udcall'[x] = udcall[x] /\ udptab'[t].pid = x /\ udhas'[t] = udhas[t]
    BY <1>2, <2>1, <2>3, <2>4
  <2>6. QED
    BY <2>2, <2>3, <2>5 DEF UdWaitsOn
<1>7. ASSUME NEW x \in UdProc, NEW t \in UdSlot,
             UdWaitsOn(x, t)', udptab'[t].pid = x, udptab'[t].state = "used"
      PROVE  udmsg'[x] # "none"
  <2>1. x # p /\ UdWaitsOn(x, t)
    BY <1>4, <1>7
  <2>2. udptab[t].pid = x /\ udptab[t].state = "used"
    BY <1>7, <2>1
  <2>3. udmsg[x] # "none"
    BY <2>1, <2>2 DEF UdWoke
  <2>4. QED
    BY <1>2, <2>1, <2>3
<1>8. UdKnown'
  BY <1>6 DEF UdKnown
<1>9. UdWoke'
  BY <1>7 DEF UdWoke
<1>10. QED
  BY <1>8, <1>9

LEMMA UdWokenOK ==
  ASSUME UdIInv, NEW p \in UdProc, UdWoken(p)
  PROVE  UdIInv'
<1>1. /\ UdTypes /\ UdTable /\ UdOnce /\ UdKnown /\ UdWoke
      /\ udcall[p].op = "recv" /\ udspoilt = "no"
      /\ udcall' = [udcall EXCEPT ![p] = UdIdle] /\ udmsg' = [udmsg EXCEPT ![p] = "none"]
  BY DEF UdIInv, UdWoken
<1>2. udcall \in [UdProc -> UdCallOf] /\ udmsg \in [UdProc -> {"none", "ok", "other"}]
  BY <1>1 DEF UdTypes
<1>3. PICK s \in UdSlot : s = udcall[p].slot /\ UdWaitsOn(p, s)
  <2>1. udcall[p] \in UdCallOf
    BY <1>2
  <2>2. udcall[p] \in [op : {"recv"}, slot : UdSlot]
    BY <1>1, <2>1 DEF UdCallOf, UdIdle
  <2>3. QED
    BY <2>2 DEF UdWaitsOn
<1>4. \A c : UdSenders(c)' = UdSenders(c)
  <2>1. udcall'[p].op # "send" /\ \A x \in UdProc : x # p => udcall'[x] = udcall[x]
    BY <1>1, <1>2 DEF UdIdle
  <2>2. QED
    BY <1>1, <2>1, UdSendersKept
<1>5. /\ udcall' \in [UdProc -> UdCallOf] /\ udmsg' \in [UdProc -> {"none", "ok", "other"}]
  BY <1>1, <1>2 DEF UdCallOf
<1>6. CASE udhas[s] # <<>> /\ UdUsed(s) /\ UdDequeue(s) /\ udspoilt' = udspoilt
  <2>1. /\ UdTable' /\ UdOnce' /\ udfree' \subseteq UdBuf /\ udgot' = "first"
        /\ udptab'[s].state = "used" /\ udptab'[s].pid = udptab[s].pid
        /\ \A t \in UdSlot \ {s} : udptab'[t] = udptab[t] /\ udhas'[t] = udhas[t]
    BY <1>1, <1>4, <1>6, UdDequeueOK
  <2>2. udptab[s].state = "used"
    <3>1. udptab[s].state # "recv"
      BY <1>1, <1>6 DEF UdKnown
    <3>2. PICK e : e = udptab[s]
      OBVIOUS
    <3>3. e \in UdEntryOf /\ e.state # "free" /\ e.state # "recv"
      BY <1>1, <1>6, <3>1, <3>2 DEF UdTable, UdUsed
    <3>4. e.state = "used"
      BY <3>3, UdEntryFields
    <3>5. QED
      BY <3>2, <3>4
  <2>3. UdKnown' /\ UdWoke'
    BY <1>1, <1>3, <2>1, <2>2, UdWaitOver
  <2>4. UdTypes'
    BY <1>1, <1>5, <1>6, <2>1 DEF UdTypes
  <2>5. QED
    BY <2>1, <2>3, <2>4 DEF UdIInv
<1>7. CASE /\ udspoilt' \in {"taken", "lost"}
           /\ UNCHANGED <<udptab, udfree, udhas, udgot>>
  <2>1. UdTypes' /\ UdTable'
    BY <1>1, <1>5, <1>7 DEF UdTypes, UdTable
  <2>2. UdOnce'
    <3>1. \A c \in UdBuf : (c \in udfree' <=> c \in udfree)
                          /\ UdSenders(c)' = UdSenders(c) /\ UdHolders(c)' = UdHolders(c)
      BY <1>4, <1>7 DEF UdHolders
    <3>2. QED
      BY <1>1, <3>1, UdOnceNext
  <2>3. QED
    BY <1>7, <2>1, <2>2 DEF UdIInv
<1>8. CASE /\ udptab' = [udptab EXCEPT ![s].state = UdWaited(s)]
           /\ udspoilt' = IF udptab[s].state = "used" \/ udptab[s].pid = p THEN "no" ELSE "lost"
           /\ UNCHANGED <<udfree, udhas, udgot>>
  <2>1. PICK e : e = udptab[s] /\ e.pid \in UdProc \cup {-1} /\ e \in UdEntryOf
    BY <1>1, UdEntryFields DEF UdTable
  <2>2. udptab' = [udptab EXCEPT ![s].state = "used", ![s].pid = e.pid]
    <3>1. udptab \in [UdSlot -> UdEntryOf]
      BY <1>1 DEF UdTable
    <3>2. [e EXCEPT !.state = "used", !.pid = e.pid] = [e EXCEPT !.state = "used"]
      BY <2>1 DEF UdEntryOf
    <3>3. QED
      BY <1>8, <2>1, <3>1, <3>2 DEF UdWaited
  <2>3. PICK y : y = e.pid /\ y \in UdProc \cup {-1}
    BY <2>1
  <2>4. udptab' = [udptab EXCEPT ![s].state = "used", ![s].pid = y]
    BY <2>2, <2>3
  <2>5. /\ UdTable' /\ UdOnce'
        /\ udptab'[s].state = "used" /\ udptab'[s].pid = y
        /\ \A t \in UdSlot \ {s} : udptab'[t] = udptab[t]
    BY <1>1, <1>4, <1>8, <2>3, <2>4, UdMarked
  <2>6. UdTypes'
    BY <1>1, <1>5, <1>8 DEF UdTypes
  <2>7. ASSUME udspoilt' = "no"
        PROVE  UdKnown' /\ UdWoke'
    <3>1. udptab[s].state = "used" \/ udptab[s].pid = p
      BY <1>8, <2>7
    <3>2. udptab'[s].pid = udptab[s].pid /\ \A t \in UdSlot \ {s} : udptab'[t] = udptab[t] /\ udhas'[t] = udhas[t]
      BY <1>8, <2>1, <2>3, <2>5
    <3>3. QED
      BY <1>1, <1>3, <2>5, <3>1, <3>2, UdWaitOver
  <2>8. QED
    BY <2>5, <2>6, <2>7 DEF UdIInv
<1>9. QED
  BY <1>3, <1>6, <1>7, <1>8 DEF UdWoken

LEMMA UdStrayOK ==
  ASSUME UdIInv, NEW p \in UdProc, send(p)
  PROVE  UdIInv'
<1>1. /\ UdTypes /\ UdTable /\ UdOnce /\ UdKnown /\ UdWoke
      /\ udmsg' = [udmsg EXCEPT ![p] = "other"]
      /\ UNCHANGED <<udptab, udcall, udfree, udspoilt, udhas, udgot>>
  BY DEF UdIInv, send
<1>2. UdTypes' /\ UdTable'
  BY <1>1 DEF UdTypes, UdTable
<1>3. UdOnce'
  <2>1. \A c \in UdBuf : (c \in udfree' <=> c \in udfree)
                        /\ UdSenders(c)' = UdSenders(c) /\ UdHolders(c)' = UdHolders(c)
    BY <1>1 DEF UdSenders, UdHolders
  <2>2. QED
    BY <1>1, <2>1, UdOnceNext
<1>4. UdKnown' /\ UdWoke'
  <2>1. \A x \in UdProc, t \in UdSlot : UdWaitsOn(x, t)' <=> UdWaitsOn(x, t)
    BY <1>1 DEF UdWaitsOn
  <2>2. \A x \in UdProc : udmsg[x] # "none" => udmsg'[x] # "none"
    BY <1>1 DEF UdTypes
  <2>3. \A t \in UdSlot :
           udptab'[t].state = udptab[t].state /\ udptab'[t].pid = udptab[t].pid /\ udhas'[t] = udhas[t]
    BY <1>1
  <2>4. QED
    BY <1>1, <2>1, <2>2, <2>3, UdWaitersNext
<1>5. QED
  BY <1>2, <1>3, <1>4 DEF UdIInv

\* A process begins or ends to wait for an address: it waits for no packet.
LEMMA UdSendingWaiters ==
  ASSUME UdTypes, UdKnown, UdWoke, NEW p \in UdProc, NEW c,
         udcall' = [udcall EXCEPT ![p] = c], udmsg' = [udmsg EXCEPT ![p] = "none"],
         udcall[p].op # "recv", c.op # "recv", UNCHANGED <<udptab, udhas>>
  PROVE  UdKnown' /\ UdWoke'
<1>1. udcall \in [UdProc -> UdCallOf] /\ udmsg \in [UdProc -> {"none", "ok", "other"}]
  BY DEF UdTypes
<1>2. /\ udcall'[p] = c
      /\ \A x \in UdProc : x # p => udcall'[x] = udcall[x] /\ udmsg'[x] = udmsg[x]
  BY <1>1
<1>3. \A t \in UdSlot : ~UdWaitsOn(p, t)' /\ ~UdWaitsOn(p, t)
  BY <1>2 DEF UdWaitsOn
<1>4. ASSUME NEW t \in UdSlot, udptab'[t].state = "recv"
      PROVE  udhas'[t] = <<>> /\ udptab'[t].pid \in UdProc /\ UdWaitsOn(udptab[t].pid, t)'
  <2>1. udhas[t] = <<>> /\ udptab[t].pid \in UdProc /\ UdWaitsOn(udptab[t].pid, t)
    BY <1>4 DEF UdKnown
  <2>2. PICK x \in UdProc : x = udptab[t].pid
    BY <2>1
  <2>3. x # p
    BY <1>3, <2>1, <2>2
  <2>4. udcall'[x] = udcall[x] /\ udptab'[t].pid = x
    BY <1>2, <2>2, <2>3
  <2>5. QED
    BY <2>1, <2>2, <2>4 DEF UdWaitsOn
<1>5. ASSUME NEW x \in UdProc, NEW t \in UdSlot,
             UdWaitsOn(x, t)', udptab'[t].pid = x, udptab'[t].state = "used"
      PROVE  udmsg'[x] # "none"
  <2>1. x # p
    BY <1>3, <1>5
  <2>2. UdWaitsOn(x, t)
    BY <1>2, <1>5, <2>1 DEF UdWaitsOn
  <2>3. udmsg[x] # "none"
    BY <1>5, <2>2 DEF UdWoke
  <2>4. QED
    BY <1>2, <2>1, <2>3
<1>6. UdKnown'
  BY <1>4 DEF UdKnown
<1>7. UdWoke'
  BY <1>5 DEF UdWoke
<1>8. QED
  BY <1>6, <1>7

LEMMA UdSendOK ==
  ASSUME UdIInv, NEW p \in UdProc, NEW s \in UdSlot, NEW k, udp_send(p, s, k)
  PROVE  UdIInv'
<1>1. /\ UdTypes /\ UdTable /\ UdOnce /\ UdKnown /\ UdWoke
      /\ udspoilt = "no" /\ udcall[p] = UdIdle /\ udfree # {}
      /\ UNCHANGED <<udspoilt, udgot>>
  BY DEF UdIInv, udp_send, UdRuns
<1>2. CASE udp_in(k, Min(udfree), udfree \ {Min(udfree)}) /\ UNCHANGED udcall
  BY <1>1, <1>2, UdpInOK
<1>3. CASE /\ udfree' = udfree \ {Min(udfree)}
           /\ udcall' = [udcall EXCEPT ![p] = [op |-> "send", buf |-> Min(udfree)]]
           /\ udmsg' = [udmsg EXCEPT ![p] = "none"]
           /\ UNCHANGED <<udptab, udhas>>
  <2>1. PICK b, c : b = Min(udfree) /\ c = [op |-> "send", buf |-> b]
    OBVIOUS
  <2>2. b \in udfree /\ b \in UdBuf
    BY <1>1, <2>1, UdFirstFree
  <2>3. UdSenders(b) = {} /\ UdHolders(b) = {}
    BY <1>1, <2>2, UdFreeAlone
  <2>4. /\ udfree' = udfree \ {b} /\ udcall' = [udcall EXCEPT ![p] = c]
        /\ udcall \in [UdProc -> UdCallOf]
    BY <1>1, <1>3, <2>1 DEF UdTypes
  <2>5. c \in UdCallOf /\ c.op = "send" /\ c.buf = b /\ UdIdle.op = "idle"
    BY <2>1, <2>2 DEF UdCallOf, UdIdle
  <2>6. UdTypes' /\ UdTable'
    BY <1>1, <1>3, <2>4, <2>5 DEF UdTypes, UdTable
  <2>7. \A d : UdHolders(d)' = UdHolders(d)
    BY <1>3 DEF UdHolders
  <2>8. UdSenders(b)' = {p} /\ \A d : d # b => UdSenders(d)' = UdSenders(d)
    <3>1. udcall'[p] = c /\ \A x \in UdProc : x # p => udcall'[x] = udcall[x]
      BY <2>4
    <3>2. \A x \in UdProc : x # p => ~(udcall[x].op = "send" /\ udcall[x].buf = b)
      BY <2>3 DEF UdSenders
    <3>3. UdSenders(b)' = {p}
      BY <2>5, <3>1, <3>2 DEF UdSenders
    <3>4. \A d : d # b => UdSenders(d)' = UdSenders(d)
      BY <1>1, <2>5, <3>1 DEF UdSenders
    <3>5. QED
      BY <3>3, <3>4
  <2>9. UdOnce'
    <3>1. \A d \in UdBuf :
             \/ (d \in udfree' <=> d \in udfree) /\ UdSenders(d)' = UdSenders(d) /\ UdHolders(d)' = UdHolders(d)
             \/ d \notin udfree' /\ (\E x : UdSenders(d)' = {x}) /\ UdHolders(d)' = {}
      BY <2>3, <2>4, <2>7, <2>8
    <3>2. QED
      BY <1>1, <3>1, UdOnceNext
  <2>10. UdKnown' /\ UdWoke'
    <3>1. udcall[p].op # "recv" /\ c.op # "recv"
      BY <1>1, <2>5
    <3>2. QED
      BY <1>1, <1>3, <2>4, <3>1, UdSendingWaiters
  <2>11. QED
    BY <2>6, <2>9, <2>10 DEF UdIInv
<1>4. QED
  BY <1>2, <1>3 DEF udp_send

LEMMA UdSentOK ==
  ASSUME UdIInv, NEW p \in UdProc, UdSent(p)
  PROVE  UdIInv'
<1>1. /\ UdTypes /\ UdTable /\ UdOnce /\ UdKnown /\ UdWoke
      /\ udcall[p].op = "send" /\ udfree' = udfree \cup {udcall[p].buf}
      /\ udcall' = [udcall EXCEPT ![p] = UdIdle]
      /\ udmsg' = [udmsg EXCEPT ![p] = "none"]
      /\ UNCHANGED <<udptab, udspoilt, udhas, udgot>>
  BY DEF UdIInv, UdSent
<1>2. udcall \in [UdProc -> UdCallOf]
  BY <1>1 DEF UdTypes
<1>3. PICK b \in UdBuf : b = udcall[p].buf
  <2>1. udcall[p] \in [op : {"send"}, buf : UdBuf]
    BY <1>1, <1>2 DEF UdCallOf, UdIdle
  <2>2. QED
    BY <2>1
<1>4. UdSenders(b) = {p} /\ UdHolders(b) = {}
  <2>1. p \in UdSenders(b)
    BY <1>1, <1>3 DEF UdSenders
  <2>2. QED
    BY <1>1, <2>1, UdSentAlone
<1>5. UdIdle \in UdCallOf /\ UdIdle.op = "idle"
  BY DEF UdCallOf, UdIdle
<1>6. UdTypes' /\ UdTable'
  BY <1>1, <1>2, <1>3, <1>5 DEF UdTypes, UdTable
<1>7. \A d : UdHolders(d)' = UdHolders(d)
  BY <1>1 DEF UdHolders
<1>8. UdSenders(b)' = {} /\ \A d : d # b => UdSenders(d)' = UdSenders(d)
  <2>1. udcall'[p] = UdIdle /\ \A x \in UdProc : x # p => udcall'[x] = udcall[x]
    BY <1>1, <1>2
  <2>2. \A x \in UdProc : x # p => ~(udcall[x].op = "send" /\ udcall[x].buf = b)
    BY <1>4 DEF UdSenders
  <2>3. UdSenders(b)' = {}
    BY <1>5, <2>1, <2>2 DEF UdSenders
  <2>4. \A d : d # b => UdSenders(d)' = UdSenders(d)
    BY <1>3, <1>5, <2>1 DEF UdSenders
  <2>5. QED
    BY <2>3, <2>4
<1>9. UdOnce'
  <2>1. \A d \in UdBuf :
           \/ (d \in udfree' <=> d \in udfree) /\ UdSenders(d)' = UdSenders(d) /\ UdHolders(d)' = UdHolders(d)
           \/ d \in udfree' /\ UdSenders(d)' = {} /\ UdHolders(d)' = {}
    BY <1>1, <1>3, <1>4, <1>7, <1>8
  <2>2. QED
    BY <1>1, <2>1, UdOnceNext
<1>10. UdKnown' /\ UdWoke'
  BY <1>1, <1>5, UdSendingWaiters
<1>11. QED
  BY <1>6, <1>9, <1>10 DEF UdIInv

-----------------------------------------------------------------------------
(* UDP: the theorem.                                                       *)

LEMMA UdInitOK == UdInit => UdIInv
<1> SUFFICES ASSUME UdInit PROVE UdIInv
  OBVIOUS
<1>1. UdTypes
  BY DEF UdInit, UdTypes, UdCallOf
<1>2. UdTable
  <2>1. PICK w : w = UdEntry("free", <<>>)
    OBVIOUS
  <2>2. UdHolds(w, <<>>)
    BY <2>1, UdNewOK
  <2>3. udptab = [s \in UdSlot |-> w] /\ udhas = [s \in UdSlot |-> <<>>]
    BY <2>1 DEF UdInit
  <2>4. w \in UdEntryOf /\ <<>> \in Seq(UdBuf)
    BY <2>2 DEF UdHolds
  <2>5. QED
    BY <2>2, <2>3, <2>4 DEF UdTable
<1>3. ASSUME NEW b \in UdBuf
      PROVE  b \in udfree /\ UdSenders(b) = {} /\ UdHolders(b) = {}
  <2>1. b \in udfree /\ \A p \in UdProc : udcall[p].op = "idle"
    BY DEF UdInit, UdIdle
  <2>2. \A s \in UdSlot : udhas[s] = <<>>
    BY DEF UdInit
  <2>3. b \notin Range(<<>>)
    BY DEF Range
  <2>4. QED
    BY <2>1, <2>2, <2>3 DEF UdSenders, UdHolders
<1>4. UdOnce
  BY <1>3 DEF UdOnce
<1>5. \A s \in UdSlot : udptab[s].state = "free"
  BY DEF UdInit, UdEntry
<1>6. UdKnown /\ UdWoke
  BY <1>5 DEF UdKnown, UdWoke
<1>7. QED
  BY <1>1, <1>2, <1>4, <1>6 DEF UdIInv

LEMMA UdNextOK == UdIInv /\ [UdNext]_udVars => UdIInv'
<1> SUFFICES ASSUME UdIInv, [UdNext]_udVars PROVE UdIInv'
  OBVIOUS
<1>1. ASSUME NEW k \in UdPkts, netin(k)
      PROVE  UdIInv'
  BY <1>1, UdpInOK DEF netin
<1>2. ASSUME NEW p \in UdProc, NEW e \in UdEnds, udp_register(p, e)
      PROVE  UdIInv'
  BY <1>2, UdRegisterOK
<1>3. ASSUME NEW p \in UdProc, NEW s \in UdSlot, udp_recv(p, s)
      PROVE  UdIInv'
  BY <1>3, UdRecvOK
<1>4. ASSUME NEW p \in UdProc, NEW s \in UdSlot, udp_release(p, s)
      PROVE  UdIInv'
  BY <1>4, UdReleaseOK
<1>5. ASSUME NEW p \in UdProc, NEW s \in UdSlot, NEW k \in UdPkts, udp_send(p, s, k)
      PROVE  UdIInv'
  BY <1>5, UdSendOK
<1>6. ASSUME NEW p \in UdProc, UdWoken(p)
      PROVE  UdIInv'
  BY <1>6, UdWokenOK
<1>7. ASSUME NEW p \in UdProc, send(p)
      PROVE  UdIInv'
  BY <1>7, UdStrayOK
<1>8. ASSUME NEW p \in UdProc, UdSent(p)
      PROVE  UdIInv'
  BY <1>8, UdSentOK
<1>9. CASE UNCHANGED udVars
  <2>1. UNCHANGED <<udptab, udmsg, udcall, udfree, udspoilt, udhas, udgot>>
    BY <1>9 DEF udVars
  <2>2. UdTypes' /\ UdTable'
    BY <2>1 DEF UdIInv, UdTypes, UdTable
  <2>3. UdOnce'
    <3>1. \A c \in UdBuf : (c \in udfree' <=> c \in udfree)
                          /\ UdSenders(c)' = UdSenders(c) /\ UdHolders(c)' = UdHolders(c)
      BY <2>1 DEF UdSenders, UdHolders
    <3>2. QED
      BY <3>1, UdOnceNext DEF UdIInv
  <2>4. UdKnown /\ UdWoke => UdKnown' /\ UdWoke'
    BY <2>1 DEF UdKnown, UdWoke, UdWaitsOn
  <2>5. QED
    BY <2>1, <2>2, <2>3, <2>4 DEF UdIInv
<1>10. QED
  BY <1>1, <1>2, <1>3, <1>4, <1>5, <1>6, <1>7, <1>8, <1>9 DEF UdNext

\* The places of the property.
LEMMA UdPlacesAlone ==
  ASSUME UdIInv, NEW b \in UdBuf
  PROVE  \E x : UdPlaces(b) = {x}
<1>1. UdTable
  BY DEF UdIInv
<1>2. PICK F, S, Q : /\ F = {x \in {<<"free">>} : b \in udfree}
                     /\ S = {<<"sent", p>> : p \in UdSenders(b)}
                     /\ Q = UNION {{<<"queued", s, i>> : i \in {j \in DOMAIN udhas[s] : udhas[s][j] = b}} : s \in UdSlot}
  OBVIOUS
<1>3. UdPlaces(b) = F \cup S \cup Q
  BY <1>2 DEF UdPlaces, UdSenders
<1>4. \A s \in UdSlot : /\ DOMAIN udhas[s] = 1 .. Len(udhas[s])
                        /\ \A i, j \in 1 .. Len(udhas[s]) : udhas[s][i] = udhas[s][j] => i = j
                        /\ b \in Range(udhas[s]) <=> \E i \in 1 .. Len(udhas[s]) : udhas[s][i] = b
  <2>1. TAKE s \in UdSlot
  <2>2. PICK q : q = udhas[s] /\ QueueOf(UdBuf, q)
    BY <1>1 DEF UdTable, UdHolds
  <2>3. DOMAIN q = 1 .. Len(q)
    BY <2>2, LenProperties DEF QueueOf
  <2>4. Range(q) = {q[j] : j \in 1 .. Len(q)} /\ \A i, j \in 1 .. Len(q) : q[i] = q[j] => i = j
    BY <2>2, MembersAt DEF QueueOf
  <2>5. b \in Range(q) <=> \E i \in 1 .. Len(q) : q[i] = b
    BY <2>4
  <2>6. QED
    BY <2>2, <2>3, <2>4, <2>5
<1>5. \A x : x \in Q <=> \E s \in UdSlot : \E i \in 1 .. Len(udhas[s]) : udhas[s][i] = b /\ x = <<"queued", s, i>>
  BY <1>2, <1>4
<1>6. \A s \in UdSlot : s \in UdHolders(b) <=> \E i \in 1 .. Len(udhas[s]) : udhas[s][i] = b
  <2>1. TAKE s \in UdSlot
  <2>2. s \in UdHolders(b) <=> b \in Range(udhas[s])
    BY DEF UdHolders
  <2>3. QED
    BY <1>4, <2>2
<1>7. UdHolders(b) = {} => Q = {}
  BY <1>5, <1>6
<1>8. ASSUME NEW s, UdHolders(b) = {s}
      PROVE  \E x : Q = {x}
  <2>1. s \in UdSlot
    BY <1>8 DEF UdHolders
  <2>2. PICK i \in 1 .. Len(udhas[s]) : udhas[s][i] = b
    BY <1>6, <1>8, <2>1
  <2>3. \A x : x \in Q <=> x = <<"queued", s, i>>
    BY <1>4, <1>5, <1>6, <1>8, <2>1, <2>2
  <2>4. Q = {<<"queued", s, i>>}
    BY <2>3
  <2>5. QED
    BY <2>4
<1>9. UdSenders(b) = {} => S = {}
  BY <1>2
<1>10. ASSUME NEW p, UdSenders(b) = {p}
       PROVE  \E x : S = {x}
  <2>1. S = {<<"sent", x>> : x \in {p}}
    BY <1>2, <1>10
  <2>2. S = {<<"sent", p>>}
    BY <2>1
  <2>3. QED
    BY <2>2
<1>11. IF b \in udfree THEN F = {<<"free">>} ELSE F = {}
  BY <1>2
<1>12. CASE b \in udfree /\ UdSenders(b) = {} /\ UdHolders(b) = {}
  BY <1>3, <1>7, <1>9, <1>11, <1>12
<1>13. CASE b \notin udfree /\ (\E p : UdSenders(b) = {p}) /\ UdHolders(b) = {}
  <2>1. \E x : S = {x}
    BY <1>10, <1>13
  <2>2. F = {} /\ Q = {}
    BY <1>7, <1>11, <1>13
  <2>3. QED
    BY <1>3, <2>1, <2>2
<1>14. CASE b \notin udfree /\ UdSenders(b) = {} /\ (\E s : UdHolders(b) = {s})
  <2>1. \E x : Q = {x}
    BY <1>8, <1>14
  <2>2. F = {} /\ S = {}
    BY <1>9, <1>11, <1>14
  <2>3. QED
    BY <1>3, <2>1, <2>2
<1>15. QED
  BY <1>12, <1>13, <1>14 DEF UdIInv, UdOnce

LEMMA UdIInvImplies == UdIInv => UdInv
<1> SUFFICES ASSUME UdIInv PROVE UdInv
  OBVIOUS
<1>1. UdTypes /\ UdTable /\ UdOnce
  BY DEF UdIInv
<1>2. ASSUME NEW s \in UdSlot
      PROVE  /\ udptab[s].state \in {"free", "used", "recv"} /\ udptab[s].count \in 0 .. UDP_QSIZ
             /\ {udptab[s].head, udptab[s].tail} \subseteq 0 .. UDP_QSIZ - 1
             /\ udptab[s].count = Len(udhas[s])
             /\ \A i \in DOMAIN udhas[s] :
                   udptab[s].queue[(udptab[s].head + i - 1) % UDP_QSIZ] = udhas[s][i]
             /\ Range(udhas[s]) \subseteq UdBuf
             /\ udptab[s].state = "free" => udhas[s] = <<>>
  <2>1. PICK e, q : e = udptab[s] /\ q = udhas[s]
    OBVIOUS
  <2>2. /\ e \in UdEntryOf /\ q \in Seq(UdBuf) /\ RingHolds(UDP_QSIZ, e.queue, e.head, q)
        /\ e.count = Len(q) /\ (e.state = "free" => q = <<>>)
    BY <1>1, <2>1 DEF UdTable, UdHolds, QueueOf
  <2>3. /\ e.state \in {"free", "used", "recv"} /\ e.count \in 0 .. UDP_QSIZ
        /\ e.head \in 0 .. UDP_QSIZ - 1 /\ e.tail \in 0 .. UDP_QSIZ - 1
    BY <2>2, UdEntryFields
  <2>4. DOMAIN q = 1 .. Len(q) /\ Len(q) \in Nat /\ Range(q) \subseteq UdBuf
    BY <2>2, LenProperties, MembersAt
  <2>5. ASSUME NEW i \in DOMAIN q
        PROVE  e.queue[(e.head + i - 1) % UDP_QSIZ] = q[i]
    <3>1. i \in 1 .. Len(q) /\ e.head + (i - 1) = e.head + i - 1
      BY <2>3, <2>4
    <3>2. e.queue[RingTurn(UDP_QSIZ, e.head, i - 1)] = q[i]
      BY <2>2, <3>1 DEF RingHolds
    <3>3. QED
      BY <3>1, <3>2 DEF RingTurn
  <2>6. QED
    BY <2>1, <2>2, <2>3, <2>4, <2>5
<1>3. UdTypeOK
  BY <1>1, <1>2 DEF UdTypeOK, UdTypes
<1>4. PacketsInOrder
  BY <1>1, <1>2 DEF PacketsInOrder, UdTypes
<1>5. NetBufsOncePlaced
  <2>1. ASSUME NEW b \in UdBuf
        PROVE  Cardinality(UdPlaces(b)) = 1
    <3>1. PICK x : UdPlaces(b) = {x}
      BY UdPlacesAlone
    <3>2. QED
      BY <3>1, FS_Singleton
  <2>2. ASSUME NEW p \in UdProc, udcall[p].op = "send"
        PROVE  udcall[p].buf \in UdBuf
    <3>1. udcall[p] \in UdCallOf
      BY <1>1 DEF UdTypes
    <3>2. udcall[p] \in [op : {"send"}, buf : UdBuf]
      BY <2>2, <3>1 DEF UdCallOf, UdIdle
    <3>3. QED
      BY <3>2
  <2>3. QED
    BY <1>2, <2>1, <2>2 DEF NetBufsOncePlaced, UdUsed
<1>6. WaiterIsKnown
  <2>1. ASSUME udspoilt = "no", NEW s \in UdSlot, udptab[s].state = "recv"
        PROVE  /\ udptab[s].count = 0 /\ udptab[s].pid \in UdProc
               /\ udcall[udptab[s].pid] = [op |-> "recv", slot |-> s]
    <3>1. udhas[s] = <<>> /\ udptab[s].pid \in UdProc /\ UdWaitsOn(udptab[s].pid, s)
      BY <2>1 DEF UdIInv, UdKnown
    <3>2. udptab[s].count = 0
      BY <1>2, <3>1
    <3>3. QED
      BY <3>1, <3>2 DEF UdWaitsOn
  <2>2. QED
    BY <2>1 DEF WaiterIsKnown
<1>7. WaiterIsWoken
  <2>1. ASSUME udspoilt = "no", NEW p \in UdProc, udcall[p].op = "recv",
               udhas[udcall[p].slot] # <<>>, udptab[udcall[p].slot].pid = p
        PROVE  udmsg[p] # "none"
    <3>1. udcall[p] \in UdCallOf
      BY <1>1 DEF UdTypes
    <3>2. udcall[p] \in [op : {"recv"}, slot : UdSlot]
      BY <2>1, <3>1 DEF UdCallOf, UdIdle
    <3>3. PICK s \in UdSlot : s = udcall[p].slot /\ UdWaitsOn(p, s)
      BY <3>2 DEF UdWaitsOn
    <3>4. udhas[s] # <<>> /\ udptab[s].pid = p
      BY <2>1, <3>3
    <3>5. udptab[s].state # "recv" /\ udptab[s].state # "free"
      BY <1>2, <2>1, <3>4 DEF UdIInv, UdKnown
    <3>6. udptab[s].state = "used"
      BY <1>2, <3>5
    <3>7. QED
      BY <2>1, <3>3, <3>4, <3>6 DEF UdIInv, UdWoke
  <2>2. QED
    BY <2>1 DEF WaiterIsWoken
<1>8. QED
  BY <1>3, <1>4, <1>5, <1>6, <1>7 DEF UdInv

\* Packets come out of an endpoint in the order of their arrival, each buffer of
\* the pool is in one place, and a process that waits is known to its slot and
\* told of a packet that came (udp_in, udp_recv, udp_recvaddr, udp_send,
\* udp_sendto and udp_release, net/udp.c).
THEOREM EndpointsDeliver == UdSpec => []UdInv
<1>1. UdInit => UdIInv
  BY UdInitOK
<1>2. UdIInv /\ [UdNext]_udVars => UdIInv'
  BY UdNextOK
<1>3. UdIInv => UdInv
  BY UdIInvImplies
<1>4. QED
  BY <1>1, <1>2, <1>3, PTL DEF UdSpec
-----------------------------------------------------------------------------
(* ICMP: the inductive invariant.                                          *)

IcEntryOf ==
    [state : {"free", "used", "recv"}, remip : IcHosts \cup {-1},
     head : IcSlot, tail : 0 .. ICMP_QSIZ - 1, count : 0 .. ICMP_QSIZ,
     pid : IcProc \cup {-1}, queue : [0 .. ICMP_QSIZ - 1 -> IcBuf \cup {0}]]

IcCallOK(c) ==
    \/ c = IcIdle
    \/ c.op \in {"echo", "arp"} /\ c.buf \in IcBuf
    \/ \E s \in IcSlot : c = [op |-> "recv", slot |-> s]

IcTypes ==
    /\ icmsg \in [IcProc -> {"none", "ok", "other"}]
    /\ DOMAIN iccall = IcActor
    /\ \A a \in IcActor : IcCallOK(iccall[a])
    /\ icfree \subseteq IcBuf
    /\ icgot = "first"

\* The head of a queue, which is the first place when it is behind the last.
IcHeadIn(i) == IF i = ICMP_QSIZ THEN 0 ELSE i

\* An entry of the table and the packets in its queue.
IcHolds(e, q) ==
    /\ e \in IcEntryOf /\ QueueOf(IcBuf, q)
    /\ e.head <= ICMP_QSIZ
    /\ RingHolds(ICMP_QSIZ, e.queue, IcHeadIn(e.head), q)
    /\ e.count = Len(q) /\ e.tail = RingTurn(ICMP_QSIZ, IcHeadIn(e.head), Len(q))
    /\ e.state = "free" => (q = <<>> /\ e.pid = -1)

IcTable ==
    /\ icmptab \in [IcSlot -> IcEntryOf] /\ ichas \in [IcSlot -> Seq(IcBuf)]
    /\ \A s \in IcSlot : IcHolds(icmptab[s], ichas[s])

\* The output queue and what is in it; its semaphore and ipout.
IpQueueOf == [head : 0 .. IP_OQSIZ - 1, tail : 0 .. IP_OQSIZ - 1, count : Int,
              buf : [0 .. IP_OQSIZ - 1 -> IcBuf \cup {0}]]

IpHolds(e, q) ==
    /\ e \in IpQueueOf /\ QueueOf(IcBuf, q)
    /\ RingHolds(IP_OQSIZ, e.buf, e.head, q)
    /\ e.tail = RingTurn(IP_OQSIZ, e.head, Len(q))

IpoutIs(o, n, q) ==
    \/ o = [op |-> "waits"] /\ n = -1 /\ q = <<>>
    \/ o = [op |-> "ready"] /\ n + 1 = Len(q) /\ q # <<>>
    \/ n = Len(q) /\ \E b \in IcBuf : o = [op |-> "arp", buf |-> b]

IcOutput == IpHolds(ipoqueue, icsent) /\ IpoutIs(ipout, ipoqueue.count, icsent)

\* Who has buffer b.
IcHeld(b) == {a \in IcActor : iccall[a].op \in {"echo", "arp"} /\ iccall[a].buf = b}
IcOut(b) == ipout.op = "arp" /\ ipout.buf = b
IcQueues(b) == {s \in IcSlot : b \in Range(ichas[s])}

IcIn(free, H, out, sent, Q) ==
    \/ free /\ H = {} /\ ~out /\ ~sent /\ Q = {}
    \/ ~free /\ (\E a : H = {a}) /\ ~out /\ ~sent /\ Q = {}
    \/ ~free /\ H = {} /\ out /\ ~sent /\ Q = {}
    \/ ~free /\ H = {} /\ ~out /\ sent /\ Q = {}
    \/ ~free /\ H = {} /\ ~out /\ ~sent /\ (\E s : Q = {s})

IcWhere(b) == IcIn(b \in icfree, IcHeld(b), IcOut(b), b \in Range(icsent), IcQueues(b))

IcOnce == \A b \in IcBuf : IcWhere(b)

\* Who waits, and was told.
IcWaitsOn(p, s) == iccall[p] = [op |-> "recv", slot |-> s]

IcKnown ==
    \A s \in IcSlot : icmptab[s].state = "recv" =>
        ichas[s] = <<>> /\ icmptab[s].pid \in IcProc /\ IcWaitsOn(icmptab[s].pid, s)
IcWoke ==
    \A p \in IcProc, s \in IcSlot :
        IcWaitsOn(p, s) /\ icmptab[s].pid = p /\ icmptab[s].state = "used" => icmsg[p] # "none"

IcIInv ==
    /\ IcTypes
    /\ IcTable
    /\ IcOutput
    /\ icspoilt = "no" => IcOnce /\ IcKnown /\ IcWoke
-----------------------------------------------------------------------------
(* ICMP: one entry.                                                        *)

LEMMA IcSizes ==
  /\ ICMP_QSIZ \in Nat \ {0} /\ ICMP_SLOTS \in Nat \ {0} /\ IP_OQSIZ \in Nat \ {0}
  /\ ICMP_QSIZ <= ICMP_SLOTS
  /\ -1 \notin IcProc /\ IcBuf \in SUBSET Nat /\ 0 \notin IcBuf
BY IcAssumption DEF IcBuf

\* The next index of a ring with N places, as the code has it.
LEMMA IcWraps ==
  ASSUME NEW N \in Nat \ {0}, NEW i \in 0 .. N - 1
  PROVE  (IF i + 1 >= N THEN 0 ELSE i + 1) = RingTurn(N, i, 1)
<1>1. (i + 1) % N = IF i + 1 < N THEN i + 1 ELSE i + 1 - N
  <2>1. 1 \in 0 .. N
    OBVIOUS
  <2>2. QED
    BY <2>1, RingAfter
<1>2. QED
  BY <1>1 DEF RingTurn

LEMMA IcTailAfterIs ==
  ASSUME NEW i \in 0 .. ICMP_QSIZ - 1
  PROVE  IcTailAfter(i) = RingTurn(ICMP_QSIZ, i, 1) /\ IcTailAfter(i) \in 0 .. ICMP_QSIZ - 1
<1>1. IcTailAfter(i) = RingTurn(ICMP_QSIZ, i, 1)
  BY IcSizes, IcWraps DEF IcTailAfter
<1>2. IcTailAfter(i) \in 0 .. ICMP_QSIZ - 1
  BY IcSizes DEF IcTailAfter
<1>3. QED
  BY <1>1, <1>2

LEMMA IpAfterIs ==
  ASSUME NEW i \in 0 .. IP_OQSIZ - 1
  PROVE  IpAfter(i) = RingTurn(IP_OQSIZ, i, 1) /\ IpAfter(i) \in 0 .. IP_OQSIZ - 1
<1>1. IpAfter(i) = RingTurn(IP_OQSIZ, i, 1)
  BY IcSizes, IcWraps DEF IpAfter
<1>2. IpAfter(i) \in 0 .. IP_OQSIZ - 1
  BY IcSizes DEF IpAfter
<1>3. QED
  BY <1>1, <1>2

\* The head goes on as in a ring, or stops behind the end, which is where the
\* first place of the ring would be.
LEMMA IcHeadAfterIs ==
  ASSUME NEW i \in 0 .. ICMP_QSIZ - 1
  PROVE  /\ IcHeadAfter(i) \in IcSlot /\ IcHeadAfter(i) <= ICMP_QSIZ
         /\ IcHeadIn(IcHeadAfter(i)) = RingTurn(ICMP_QSIZ, i, 1)
<1>1. IcHeadAfter(i) \in IcSlot /\ IcHeadAfter(i) <= ICMP_QSIZ
  BY IcSizes DEF IcHeadAfter, IcSlot
<1>2. IcHeadIn(IcHeadAfter(i)) = IF i + 1 >= ICMP_QSIZ THEN 0 ELSE i + 1
  BY IcSizes DEF IcHeadAfter, IcHeadIn
<1>3. QED
  BY <1>1, <1>2, IcSizes, IcWraps

LEMMA IcEntryFields ==
  ASSUME NEW e \in IcEntryOf
  PROVE  /\ e.state \in {"free", "used", "recv"} /\ e.remip \in IcHosts \cup {-1}
         /\ e.head \in IcSlot /\ e.tail \in 0 .. ICMP_QSIZ - 1 /\ e.count \in 0 .. ICMP_QSIZ
         /\ e.pid \in IcProc \cup {-1} /\ e.queue \in [0 .. ICMP_QSIZ - 1 -> IcBuf \cup {0}]
BY DEF IcEntryOf

\* What there is to know of an entry that holds q.
LEMMA IcHoldsIs ==
  ASSUME NEW e, NEW q, IcHolds(e, q)
  PROVE  /\ e \in IcEntryOf /\ QueueOf(IcBuf, q) /\ q \in Seq(IcBuf)
         /\ e.head \in Nat /\ e.head <= ICMP_QSIZ
         /\ IcHeadIn(e.head) \in 0 .. ICMP_QSIZ - 1
         /\ RingHolds(ICMP_QSIZ, e.queue, IcHeadIn(e.head), q)
         /\ e.count = Len(q) /\ e.tail = RingTurn(ICMP_QSIZ, IcHeadIn(e.head), Len(q))
<1>1. e \in IcEntryOf /\ QueueOf(IcBuf, q) /\ q \in Seq(IcBuf)
  BY DEF IcHolds, QueueOf
<1>2. e.head \in IcSlot /\ e.head <= ICMP_QSIZ
  BY <1>1, IcEntryFields DEF IcHolds
<1>3. e.head \in Nat
  BY <1>2, IcSizes DEF IcSlot
<1>4. IcHeadIn(e.head) \in 0 .. ICMP_QSIZ - 1
  BY <1>2, <1>3, IcSizes DEF IcHeadIn
<1>5. QED
  BY <1>1, <1>2, <1>3, <1>4 DEF IcHolds

LEMMA IcNewOK ==
  ASSUME NEW state \in {"free", "used"}, NEW ip \in IcHosts \cup {-1}
  PROVE  IcHolds(IcEntry(state, ip), <<>>)
<1>1. PICK e : e = IcEntry(state, ip)
  OBVIOUS
<1>2. e \in IcEntryOf
  BY <1>1, IcSizes DEF IcEntry, IcEntryOf, IcSlot
<1>3. /\ e.head = 0 /\ e.tail = 0 /\ e.count = 0 /\ e.pid = -1
      /\ e.queue = [i \in 0 .. ICMP_QSIZ - 1 |-> 0]
  BY <1>1 DEF IcEntry
<1>4. <<>> \in Seq(IcBuf) /\ Len(<<>>) = 0 /\ QueueOf(IcBuf, <<>>)
  BY DEF QueueOf, IsInjective
<1>5. IcHeadIn(e.head) = 0 /\ e.head <= ICMP_QSIZ
  BY <1>3, IcSizes DEF IcHeadIn
<1>6. RingHolds(ICMP_QSIZ, e.queue, 0, <<>>)
  BY <1>3, <1>4, IcSizes DEF RingHolds
<1>7. RingTurn(ICMP_QSIZ, 0, 0) = 0
  <2>1. 0 \in 0 .. ICMP_QSIZ - 1
    BY IcSizes
  <2>2. QED
    BY <2>1, IcSizes, RingTurns
<1>8. IcHolds(e, <<>>)
  BY <1>2, <1>3, <1>4, <1>5, <1>6, <1>7 DEF IcHolds
<1>9. QED
  BY <1>1, <1>8

\* What an entry becomes when a packet is put in, and when one is taken.
IcWithOneMore(e, b) ==
    [state |-> "used", remip |-> e.remip, head |-> e.head, tail |-> IcTailAfter(e.tail),
     count |-> e.count + 1, pid |-> e.pid, queue |-> [e.queue EXCEPT ![e.tail] = b]]
IcWithOneLess(e) ==
    [state |-> "used", remip |-> e.remip, head |-> IcHeadAfter(e.head), tail |-> e.tail,
     count |-> e.count - 1, pid |-> e.pid, queue |-> [e.queue EXCEPT ![e.head] = 0]]

LEMMA IcPutOK ==
  ASSUME NEW e, NEW q, IcHolds(e, q), NEW b \in IcBuf, b \notin Range(q), e.count < ICMP_QSIZ
  PROVE  IcHolds(IcWithOneMore(e, b), Append(q, b))
<1>1. PICK N, h, r, n : N = ICMP_QSIZ /\ h = IcHeadIn(e.head) /\ r = e.queue /\ n = Len(q)
  OBVIOUS
<1>2. N \in Nat \ {0}
  BY <1>1, IcSizes
<1>3. /\ e.remip \in IcHosts \cup {-1} /\ e.head \in IcSlot /\ e.tail \in 0 .. N - 1
      /\ e.count \in 0 .. N /\ e.pid \in IcProc \cup {-1}
      /\ r \in [0 .. N - 1 -> IcBuf \cup {0}]
  BY <1>1, IcEntryFields DEF IcHolds
<1>4. /\ QueueOf(IcBuf, q) /\ q \in Seq(IcBuf) /\ h \in 0 .. N - 1 /\ RingHolds(N, r, h, q)
      /\ e.count = n /\ e.tail = RingTurn(N, h, n) /\ e.head <= N
  BY <1>1, IcHoldsIs
<1>5. QueueOf(IcBuf, Append(q, b)) /\ Len(Append(q, b)) = n + 1
  BY <1>1, <1>4, AppendMembers
<1>6. Len(q) < N /\ n \in Nat
  BY <1>1, <1>3, <1>4
<1>7. /\ RingHolds(N, [r EXCEPT ![RingTurn(N, h, n)] = b], h, Append(q, b))
      /\ RingTurn(N, RingTurn(N, h, n), 1) = RingTurn(N, h, Len(Append(q, b)))
  <2>1. h \in 0 .. N - 1 /\ q \in Seq(IcBuf) /\ RingHolds(N, r, h, q)
    BY <1>4
  <2>2. RingHolds(N, [r EXCEPT ![RingTurn(N, h, Len(q))] = b], h, Append(q, b))
    BY <1>2, <1>6, <2>1, RingPut
  <2>3. n \in Nat /\ n < N
    BY <1>1, <1>6
  <2>4. RingTurn(N, RingTurn(N, h, n), 1) = RingTurn(N, h, n + 1)
    BY <1>2, <2>1, <2>3, RingNext
  <2>5. QED
    BY <1>1, <1>5, <2>2, <2>4
<1>8. IcTailAfter(e.tail) = RingTurn(N, h, Len(Append(q, b))) /\ IcTailAfter(e.tail) \in 0 .. N - 1
  BY <1>1, <1>3, <1>4, <1>7, IcTailAfterIs
<1>9. [r EXCEPT ![e.tail] = b] \in [0 .. N - 1 -> IcBuf \cup {0}]
  BY <1>3
<1>10. e.count + 1 \in 0 .. N
  BY <1>2, <1>3, <1>4, <1>6, <1>1
<1>11. PICK w : w = IcWithOneMore(e, b)
  OBVIOUS
<1>12. /\ w.state = "used" /\ w.head = e.head /\ w.tail = IcTailAfter(e.tail) /\ w.count = e.count + 1
       /\ w.queue = [r EXCEPT ![RingTurn(N, h, n)] = b]
  BY <1>1, <1>4, <1>11 DEF IcWithOneMore
<1>13. w \in IcEntryOf
  BY <1>1, <1>3, <1>8, <1>9, <1>10, <1>11 DEF IcWithOneMore, IcEntryOf
<1>14. IcHolds(w, Append(q, b))
  BY <1>1, <1>4, <1>5, <1>7, <1>8, <1>12, <1>13 DEF IcHolds
<1>15. QED
  BY <1>11, <1>14

LEMMA IcTakeOK ==
  ASSUME NEW e, NEW q, IcHolds(e, q), q # <<>>, e.head < ICMP_QSIZ
  PROVE  e.queue[e.head] = Head(q) /\ IcHolds(IcWithOneLess(e), Tail(q))
<1>1. PICK N, h, r : N = ICMP_QSIZ /\ h = e.head /\ r = e.queue
  OBVIOUS
<1>2. N \in Nat \ {0}
  BY <1>1, IcSizes
<1>3. /\ e.remip \in IcHosts \cup {-1} /\ e.tail \in 0 .. N - 1
      /\ e.count \in 0 .. N /\ e.pid \in IcProc \cup {-1}
      /\ r \in [0 .. N - 1 -> IcBuf \cup {0}]
  BY <1>1, IcEntryFields DEF IcHolds
<1>4. /\ QueueOf(IcBuf, q) /\ q \in Seq(IcBuf) /\ h \in Nat /\ RingHolds(N, r, IcHeadIn(h), q)
      /\ e.count = Len(q) /\ e.tail = RingTurn(N, IcHeadIn(h), Len(q))
  BY <1>1, IcHoldsIs
<1>5. IcHeadIn(h) = h /\ h \in 0 .. N - 1
  BY <1>1, <1>2, <1>4 DEF IcHeadIn
<1>6. RingHolds(N, r, h, q) /\ e.tail = RingTurn(N, h, Len(q))
  BY <1>4, <1>5
<1>7. QueueOf(IcBuf, Tail(q)) /\ Len(Tail(q)) = Len(q) - 1 /\ Len(q) # 0
  BY <1>4, TailMembers, EmptySeq
<1>8. PICK g : g = [r EXCEPT ![h] = 0]
  OBVIOUS
<1>9. DOMAIN g = DOMAIN r /\ \A i \in 0 .. N - 1 : i # h => g[i] = r[i]
  BY <1>6, <1>8 DEF RingHolds
<1>10. h \in 0 .. N - 1 /\ q \in Seq(IcBuf) /\ RingHolds(N, r, h, q)
  BY <1>4, <1>5, <1>6
<1>11. r[h] = Head(q)
  BY <1>2, <1>10, RingHead
<1>12. /\ RingHolds(N, g, RingTurn(N, h, 1), Tail(q))
       /\ RingTurn(N, RingTurn(N, h, 1), Len(Tail(q))) = RingTurn(N, h, Len(q))
  <2>1. RingHolds(N, g, RingTurn(N, h, 1), Tail(q))
    BY <1>2, <1>9, <1>10, RingTake
  <2>2. PICK n : n = Len(q)
    OBVIOUS
  <2>3. n \in Nat \ {0} /\ n <= N
    BY <1>3, <1>4, <1>7, <2>2
  <2>4. RingTurn(N, RingTurn(N, h, 1), n - 1) = RingTurn(N, h, n)
    BY <1>2, <1>10, <2>3, RingFirst
  <2>5. RingTurn(N, RingTurn(N, h, 1), Len(Tail(q))) = RingTurn(N, h, Len(q))
    BY <1>7, <2>2, <2>4
  <2>6. QED
    BY <2>1, <2>5
<1>13. /\ IcHeadAfter(h) \in IcSlot /\ IcHeadAfter(h) <= N
       /\ IcHeadIn(IcHeadAfter(h)) = RingTurn(N, h, 1)
  BY <1>1, <1>5, IcHeadAfterIs
<1>14. g \in [0 .. N - 1 -> IcBuf \cup {0}]
  BY <1>3, <1>8
<1>15. e.count - 1 \in 0 .. N
  BY <1>2, <1>3, <1>4, <1>7
<1>16. PICK w : w = IcWithOneLess(e)
  OBVIOUS
<1>17. /\ w.state = "used" /\ w.head = IcHeadAfter(h) /\ w.tail = e.tail /\ w.count = e.count - 1
       /\ w.queue = g
  BY <1>1, <1>8, <1>16 DEF IcWithOneLess
<1>18. w \in IcEntryOf
  BY <1>1, <1>3, <1>8, <1>13, <1>14, <1>15, <1>16 DEF IcWithOneLess, IcEntryOf
<1>19. IcHolds(w, Tail(q))
  BY <1>1, <1>4, <1>6, <1>7, <1>12, <1>13, <1>17, <1>18 DEF IcHolds
<1>20. QED
  BY <1>1, <1>11, <1>16, <1>19

\* A change of state or of the process that waits.
LEMMA IcMarkOK ==
  ASSUME NEW e, NEW q, IcHolds(e, q), NEW state \in {"used", "recv"}, NEW p \in IcProc \cup {-1}
  PROVE  IcHolds([e EXCEPT !.state = state, !.pid = p], q)
<1>1. e \in IcEntryOf
  BY DEF IcHolds
<1>2. PICK w : w = [e EXCEPT !.state = state, !.pid = p]
  OBVIOUS
<1>3. w \in IcEntryOf
  BY <1>1, <1>2 DEF IcEntryOf
<1>4. /\ w.state = state /\ w.head = e.head /\ w.tail = e.tail /\ w.count = e.count
      /\ w.queue = e.queue
  BY <1>1, <1>2 DEF IcEntryOf
<1>5. IcHolds(w, q)
  BY <1>3, <1>4 DEF IcHolds
<1>6. QED
  BY <1>2, <1>5

\* The buffers a release frees, from the head on as far as the queue goes.
LEMMA IcQueuedIs ==
  ASSUME NEW s \in IcSlot, IcHolds(icmptab[s], ichas[s]),
         icmptab[s].head + icmptab[s].count <= ICMP_QSIZ
  PROVE  IcQueued(s) = Range(ichas[s])
<1>1. PICK q, e, N : q = ichas[s] /\ e = icmptab[s] /\ N = ICMP_QSIZ
  OBVIOUS
<1>2. PICK r, h, n : r = e.queue /\ h = e.head /\ n = Len(q)
  OBVIOUS
<1>3. /\ q \in Seq(IcBuf) /\ RingHolds(N, r, IcHeadIn(h), q) /\ e.count = n /\ h \in Nat
      /\ IcHeadIn(h) \in 0 .. N - 1 /\ N \in Nat \ {0} /\ n \in Nat
  BY <1>1, <1>2, IcHoldsIs, IcSizes, MembersAt
<1>4. h + n <= N
  BY <1>1, <1>2, <1>3
<1>5. IcQueued(s) = {r[h + i] : i \in 0 .. n - 1}
  BY <1>1, <1>2, <1>3 DEF IcQueued
<1>6. ASSUME NEW i \in 0 .. n - 1
      PROVE  r[h + i] = q[i + 1] /\ i + 1 \in 1 .. n
  <2>1. h # N /\ h + i < N
    BY <1>3, <1>4
  <2>2. IcHeadIn(h) = h
    BY <1>1, <2>1 DEF IcHeadIn
  <2>3. i + 1 \in 1 .. n /\ (i + 1) - 1 = i
    BY <1>3
  <2>4. r[RingTurn(N, h, i)] = q[i + 1]
    BY <1>2, <1>3, <2>2, <2>3 DEF RingHolds
  <2>5. (h + i) % N = h + i
    <3>1. i \in 0 .. N /\ h \in 0 .. N - 1
      BY <1>3, <2>1, <2>2
    <3>2. QED
      BY <1>3, <2>1, <3>1, RingAfter
  <2>6. QED
    BY <2>3, <2>4, <2>5 DEF RingTurn
<1>7. Range(q) = {q[j] : j \in 1 .. n}
  BY <1>2, <1>3, MembersAt
<1>8. \A j \in 1 .. n : j - 1 \in 0 .. n - 1 /\ (j - 1) + 1 = j
  BY <1>3
<1>9. \A j \in 1 .. n : q[j] = r[h + (j - 1)]
  BY <1>6, <1>8
<1>10. IcQueued(s) \subseteq Range(q)
  BY <1>5, <1>6, <1>7
<1>11. Range(q) \subseteq IcQueued(s)
  BY <1>5, <1>7, <1>8, <1>9
<1>12. QED
  BY <1>1, <1>10, <1>11

\* One entry of the table changes.
LEMMA IcTableNext ==
  ASSUME IcTable, NEW s \in IcSlot, NEW e, NEW q, IcHolds(e, q),
         icmptab' = [icmptab EXCEPT ![s] = e], ichas' = [ichas EXCEPT ![s] = q]
  PROVE  /\ IcTable'
         /\ icmptab'[s] = e /\ ichas'[s] = q
         /\ \A t \in IcSlot \ {s} : icmptab'[t] = icmptab[t] /\ ichas'[t] = ichas[t]
<1>1. icmptab \in [IcSlot -> IcEntryOf] /\ ichas \in [IcSlot -> Seq(IcBuf)]
  BY DEF IcTable
<1>2. e \in IcEntryOf /\ q \in Seq(IcBuf)
  BY DEF IcHolds, QueueOf
<1>3. icmptab' \in [IcSlot -> IcEntryOf] /\ ichas' \in [IcSlot -> Seq(IcBuf)]
  BY <1>1, <1>2
<1>4. icmptab'[s] = e /\ ichas'[s] = q
  BY <1>1
<1>5. \A t \in IcSlot \ {s} : icmptab'[t] = icmptab[t] /\ ichas'[t] = ichas[t]
  BY <1>1
<1>6. \A t \in IcSlot : IcHolds(icmptab'[t], ichas'[t])
  BY <1>4, <1>5 DEF IcTable
<1>7. IcTable'
  BY <1>3, <1>6 DEF IcTable
<1>8. QED
  BY <1>4, <1>5, <1>7
-----------------------------------------------------------------------------
(* ICMP: the output queue.                                                 *)

IpWithOneMore(e, b) ==
    [head |-> e.head, tail |-> IpAfter(e.tail), count |-> e.count + 1,
     buf |-> [e.buf EXCEPT ![e.tail] = b]]
IpWithOneLess(e, n) ==
    [head |-> IpAfter(e.head), tail |-> e.tail, count |-> n,
     buf |-> [e.buf EXCEPT ![e.head] = 0]]

LEMMA IpFields ==
  ASSUME NEW e, NEW q, IpHolds(e, q)
  PROVE  /\ e.head \in 0 .. IP_OQSIZ - 1 /\ e.tail \in 0 .. IP_OQSIZ - 1 /\ e.count \in Int
         /\ e.buf \in [0 .. IP_OQSIZ - 1 -> IcBuf \cup {0}]
         /\ QueueOf(IcBuf, q) /\ q \in Seq(IcBuf) /\ Len(q) \in Nat /\ Len(q) <= IP_OQSIZ
<1>1. e \in IpQueueOf /\ QueueOf(IcBuf, q) /\ q \in Seq(IcBuf) /\ Len(q) <= IP_OQSIZ
  BY DEF IpHolds, QueueOf, RingHolds
<1>2. Len(q) \in Nat
  BY <1>1, MembersAt
<1>3. QED
  BY <1>1, <1>2 DEF IpQueueOf

LEMMA IpPutOK ==
  ASSUME NEW e, NEW q, IpHolds(e, q), NEW b \in IcBuf, b \notin Range(q), Len(q) < IP_OQSIZ
  PROVE  /\ IpHolds(IpWithOneMore(e, b), Append(q, b))
         /\ Len(Append(q, b)) = Len(q) + 1
         /\ Range(Append(q, b)) = Range(q) \cup {b}
<1>1. PICK N, h, r, n : N = IP_OQSIZ /\ h = e.head /\ r = e.buf /\ n = Len(q)
  OBVIOUS
<1>2. /\ h \in 0 .. N - 1 /\ e.tail \in 0 .. N - 1 /\ e.count \in Int
      /\ r \in [0 .. N - 1 -> IcBuf \cup {0}]
      /\ QueueOf(IcBuf, q) /\ q \in Seq(IcBuf) /\ n \in Nat
  BY <1>1, IpFields
<1>3. N \in Nat \ {0} /\ Len(q) < N
  BY <1>1, IcSizes
<1>4. RingHolds(N, r, h, q) /\ e.tail = RingTurn(N, h, n)
  BY <1>1 DEF IpHolds
<1>5. QueueOf(IcBuf, Append(q, b)) /\ Len(Append(q, b)) = n + 1 /\ Range(Append(q, b)) = Range(q) \cup {b}
  BY <1>1, <1>2, AppendMembers
<1>6. /\ RingHolds(N, [r EXCEPT ![RingTurn(N, h, n)] = b], h, Append(q, b))
      /\ RingTurn(N, RingTurn(N, h, n), 1) = RingTurn(N, h, n + 1)
  <2>1. h \in 0 .. N - 1 /\ q \in Seq(IcBuf) /\ RingHolds(N, r, h, q)
    BY <1>2, <1>4
  <2>2. RingHolds(N, [r EXCEPT ![RingTurn(N, h, Len(q))] = b], h, Append(q, b))
    BY <1>3, <2>1, RingPut
  <2>3. n \in Nat /\ n < N
    BY <1>1, <1>2, <1>3
  <2>4. RingTurn(N, RingTurn(N, h, n), 1) = RingTurn(N, h, n + 1)
    BY <1>3, <2>1, <2>3, RingNext
  <2>5. QED
    BY <1>1, <2>2, <2>4
<1>7. IpAfter(e.tail) = RingTurn(N, h, n + 1) /\ IpAfter(e.tail) \in 0 .. N - 1
  BY <1>1, <1>2, <1>4, <1>6, IpAfterIs
<1>8. [r EXCEPT ![e.tail] = b] \in [0 .. N - 1 -> IcBuf \cup {0}] /\ e.count + 1 \in Int
  BY <1>2
<1>9. PICK w : w = IpWithOneMore(e, b)
  OBVIOUS
<1>10. w \in IpQueueOf
  BY <1>1, <1>2, <1>7, <1>8, <1>9 DEF IpWithOneMore, IpQueueOf
<1>11. w.head = h /\ w.tail = IpAfter(e.tail) /\ w.buf = [r EXCEPT ![RingTurn(N, h, n)] = b]
  BY <1>1, <1>4, <1>9 DEF IpWithOneMore
<1>12. IpHolds(w, Append(q, b))
  BY <1>1, <1>5, <1>6, <1>7, <1>10, <1>11 DEF IpHolds
<1>13. QED
  BY <1>1, <1>5, <1>9, <1>12

LEMMA IpTakeOK ==
  ASSUME NEW e, NEW q, IpHolds(e, q), q # <<>>, NEW m \in Int
  PROVE  /\ e.buf[e.head] = Head(q) /\ Head(q) \in IcBuf /\ Head(q) \in Range(q)
         /\ IpHolds(IpWithOneLess(e, m), Tail(q))
         /\ Len(Tail(q)) = Len(q) - 1
         /\ Range(Tail(q)) = Range(q) \ {Head(q)}
<1>1. PICK N, h, r : N = IP_OQSIZ /\ h = e.head /\ r = e.buf
  OBVIOUS
<1>2. /\ h \in 0 .. N - 1 /\ e.tail \in 0 .. N - 1
      /\ r \in [0 .. N - 1 -> IcBuf \cup {0}]
      /\ QueueOf(IcBuf, q) /\ q \in Seq(IcBuf)
  BY <1>1, IpFields
<1>3. N \in Nat \ {0}
  BY <1>1, IcSizes
<1>4. RingHolds(N, r, h, q) /\ e.tail = RingTurn(N, h, Len(q))
  BY <1>1 DEF IpHolds
<1>5. /\ QueueOf(IcBuf, Tail(q)) /\ Len(Tail(q)) = Len(q) - 1
      /\ Range(Tail(q)) = Range(q) \ {Head(q)} /\ Head(q) \in Range(q)
  BY <1>2, TailMembers
<1>6. Head(q) \in IcBuf
  BY <1>2, <1>5, MembersAt
<1>7. PICK g : g = [r EXCEPT ![h] = 0]
  OBVIOUS
<1>8. DOMAIN g = DOMAIN r /\ \A i \in 0 .. N - 1 : i # h => g[i] = r[i]
  BY <1>4, <1>7 DEF RingHolds
<1>9. h \in 0 .. N - 1 /\ q \in Seq(IcBuf) /\ RingHolds(N, r, h, q)
  BY <1>2, <1>4
<1>10. r[h] = Head(q)
  BY <1>3, <1>9, RingHead
<1>11. /\ RingHolds(N, g, RingTurn(N, h, 1), Tail(q))
       /\ RingTurn(N, RingTurn(N, h, 1), Len(Tail(q))) = RingTurn(N, h, Len(q))
  <2>1. RingHolds(N, g, RingTurn(N, h, 1), Tail(q))
    BY <1>3, <1>8, <1>9, RingTake
  <2>2. PICK n : n = Len(q)
    OBVIOUS
  <2>3. n \in Nat \ {0} /\ n <= N
    <3>1. Len(q) <= N /\ Len(q) \in Nat
      BY <1>9, LenProperties DEF RingHolds
    <3>2. Len(q) # 0
      BY <1>2, EmptySeq
    <3>3. QED
      BY <2>2, <3>1, <3>2
  <2>4. RingTurn(N, RingTurn(N, h, 1), n - 1) = RingTurn(N, h, n)
    BY <1>3, <1>9, <2>3, RingFirst
  <2>5. QED
    BY <1>5, <2>1, <2>2, <2>4
<1>12. IpAfter(h) = RingTurn(N, h, 1) /\ IpAfter(h) \in 0 .. N - 1
  BY <1>1, <1>2, IpAfterIs
<1>13. g \in [0 .. N - 1 -> IcBuf \cup {0}]
  BY <1>2, <1>7
<1>14. PICK w : w = IpWithOneLess(e, m)
  OBVIOUS
<1>15. w \in IpQueueOf
  BY <1>1, <1>2, <1>7, <1>12, <1>13, <1>14 DEF IpWithOneLess, IpQueueOf
<1>16. w.head = IpAfter(h) /\ w.tail = e.tail /\ w.buf = g
  BY <1>1, <1>7, <1>14 DEF IpWithOneLess
<1>17. IpHolds(w, Tail(q))
  BY <1>1, <1>4, <1>5, <1>11, <1>12, <1>15, <1>16 DEF IpHolds
<1>18. QED
  BY <1>1, <1>5, <1>6, <1>10, <1>14, <1>17

\* A packet for ipout, which is not on its way to it.
LEMMA IpEnqueueOK ==
  ASSUME IcOutput, ipout.op # "ready", NEW c \in IcBuf, c \notin Range(icsent), NEW k, NEW free,
         ip_enqueue(c, k, free)
  PROVE  /\ IcOutput'
         /\ \A d : IcOut(d)' <=> IcOut(d)
         /\ \/ icfree' = free \cup {c} /\ icsent' = icsent
            \/ icfree' = free /\ Range(icsent') = Range(icsent) \cup {c}
<1>1. IpHolds(ipoqueue, icsent) /\ IpoutIs(ipout, ipoqueue.count, icsent)
  BY DEF IcOutput
<1>2. CASE IpFull /\ icfree' = free \cup {c} /\ UNCHANGED icOutVars
  <2>1. UNCHANGED <<ipoqueue, ipout, icsent>>
    BY <1>2 DEF icOutVars
  <2>2. QED
    BY <1>2, <2>1 DEF IcOutput, IcOut
<1>3. CASE /\ ~IpFull
           /\ icfree' = free
           /\ ipoqueue' = [ipoqueue EXCEPT !.buf[ipoqueue.tail] = c, !.tail = IpAfter(@), !.count = @ + 1]
           /\ ipout' = IF ipout.op = "waits" THEN [op |-> "ready"] ELSE ipout
           /\ icsent' = Append(icsent, c)
  <2>1. PICK e, q : e = ipoqueue /\ q = icsent
    OBVIOUS
  <2>2. /\ IpHolds(e, q) /\ e \in IpQueueOf /\ e.count \in Int /\ Len(q) \in Nat
        /\ e.count < IP_OQSIZ
    <3>1. IpHolds(e, q)
      BY <1>1, <2>1
    <3>2. e \in IpQueueOf /\ e.count \in Int /\ Len(q) \in Nat
      BY <3>1, IpFields DEF IpHolds
    <3>3. e.count < IP_OQSIZ
      BY <1>3, <2>1, <3>2, IcSizes DEF IpFull
    <3>4. QED
      BY <3>1, <3>2, <3>3
  <2>3. ipoqueue' = IpWithOneMore(e, c)
    BY <1>3, <2>1, <2>2 DEF IpWithOneMore, IpQueueOf
  <2>4. Len(<<>>) = 0
    OBVIOUS
  <2>5. /\ \/ ipout = [op |-> "waits"] /\ e.count = -1 /\ Len(q) = 0
           \/ e.count = Len(q) /\ \E b \in IcBuf : ipout = [op |-> "arp", buf |-> b]
    BY <1>1, <2>1, <2>4 DEF IpoutIs
  <2>6. Len(q) < IP_OQSIZ
    BY <2>2, <2>5, IcSizes
  <2>7. /\ IpHolds(IpWithOneMore(e, c), Append(q, c))
        /\ Len(Append(q, c)) = Len(q) + 1
        /\ Range(Append(q, c)) = Range(q) \cup {c}
    BY <2>1, <2>2, <2>6, IpPutOK
  <2>8. ipoqueue'.count = e.count + 1
    BY <2>3 DEF IpWithOneMore
  <2>9. Append(q, c) # <<>>
    BY <2>2, <2>4, <2>7
  <2>10. IpoutIs(ipout', ipoqueue'.count, Append(q, c))
    <3>1. CASE ipout = [op |-> "waits"] /\ e.count = -1 /\ Len(q) = 0
      <4>1. ipout' = [op |-> "ready"]
        BY <1>3, <3>1
      <4>2. ipoqueue'.count + 1 = Len(Append(q, c))
        BY <2>7, <2>8, <3>1
      <4>3. QED
        BY <2>9, <4>1, <4>2 DEF IpoutIs
    <3>2. CASE e.count = Len(q) /\ \E b \in IcBuf : ipout = [op |-> "arp", buf |-> b]
      <4>1. ipout' = ipout
        BY <1>3, <3>2
      <4>2. ipoqueue'.count = Len(Append(q, c))
        BY <2>7, <2>8, <3>2
      <4>3. QED
        BY <3>2, <4>1, <4>2 DEF IpoutIs
    <3>3. QED
      BY <2>5, <3>1, <3>2
  <2>11. IcOutput'
    BY <1>3, <2>1, <2>3, <2>7, <2>10 DEF IcOutput
  <2>12. \A d : IcOut(d)' <=> IcOut(d)
    BY <1>3, <2>5 DEF IcOut
  <2>13. QED
    BY <1>3, <2>1, <2>7, <2>11, <2>12
<1>4. QED
  BY <1>2, <1>3 DEF ip_enqueue

\* ipout goes on with queue e, from which m packets can still be taken.
LEMMA IpoutLoopsOK ==
  ASSUME NEW e, NEW q, IpHolds(e, q), e.count = Len(q), IpoutLoops(e), icsent' = q
  PROVE  IcOutput' /\ \A d : ~IcOut(d)'
<1>1. ipoqueue' = [e EXCEPT !.count = @ - 1] /\ ipout' = IF e.count = 0 THEN [op |-> "waits"] ELSE [op |-> "ready"]
  BY DEF IpoutLoops
<1>2. e \in IpQueueOf /\ Len(q) \in Nat /\ q \in Seq(IcBuf)
  BY IpFields DEF IpHolds
<1>3. PICK w : w = [e EXCEPT !.count = @ - 1]
  OBVIOUS
<1>4. w \in IpQueueOf /\ w.head = e.head /\ w.tail = e.tail /\ w.buf = e.buf /\ w.count = Len(q) - 1
  BY <1>2, <1>3 DEF IpQueueOf
<1>5. IpHolds(w, q)
  BY <1>4 DEF IpHolds
<1>6. IpoutIs(ipout', w.count, q)
  <2>1. CASE Len(q) = 0
    BY <1>1, <1>2, <1>4, <2>1, EmptySeq DEF IpoutIs
  <2>2. CASE Len(q) # 0
    BY <1>1, <1>2, <1>4, <2>2, EmptySeq DEF IpoutIs
  <2>3. QED
    BY <2>1, <2>2
<1>7. IcOutput'
  BY <1>1, <1>3, <1>5, <1>6 DEF IcOutput
<1>8. \A d : ~IcOut(d)'
  BY <1>1 DEF IcOut
<1>9. QED
  BY <1>7, <1>8
-----------------------------------------------------------------------------
(* ICMP: where the buffers are.                                            *)

\* Buffers that stay where they are, and buffers that move.
LEMMA IcOnceNext ==
  ASSUME IcOnce,
         \A b \in IcBuf :
             \/ /\ b \in icfree' <=> b \in icfree
                /\ IcHeld(b)' = IcHeld(b)
                /\ IcOut(b)' <=> IcOut(b)
                /\ b \in Range(icsent') <=> b \in Range(icsent)
                /\ IcQueues(b)' = IcQueues(b)
             \/ IcWhere(b)'
  PROVE  IcOnce'
<1>1. ASSUME NEW b \in IcBuf
      PROVE  IcWhere(b)'
  <2>1. IcWhere(b)
    BY DEF IcOnce
  <2>2. ASSUME /\ b \in icfree' <=> b \in icfree
               /\ IcHeld(b)' = IcHeld(b)
               /\ IcOut(b)' <=> IcOut(b)
               /\ b \in Range(icsent') <=> b \in Range(icsent)
               /\ IcQueues(b)' = IcQueues(b)
        PROVE  IcWhere(b)'
    <3>1. PICK H, Q, H2, Q2 : H = IcHeld(b) /\ Q = IcQueues(b) /\ H2 = IcHeld(b)' /\ Q2 = IcQueues(b)'
      OBVIOUS
    <3>2. QED
      BY <2>1, <2>2, <3>1 DEF IcWhere, IcIn
  <2>3. QED
    BY <2>2
<1>2. QED
  BY <1>1 DEF IcOnce

\* Where a buffer is, it is alone.
LEMMA IcFreeAlone ==
  ASSUME IcOnce, NEW b \in IcBuf, b \in icfree
  PROVE  IcHeld(b) = {} /\ ~IcOut(b) /\ b \notin Range(icsent) /\ IcQueues(b) = {}
BY DEF IcOnce, IcWhere, IcIn

LEMMA IcHeldAlone ==
  ASSUME IcOnce, NEW b \in IcBuf, NEW a \in IcHeld(b)
  PROVE  b \notin icfree /\ IcHeld(b) = {a} /\ ~IcOut(b) /\ b \notin Range(icsent) /\ IcQueues(b) = {}
BY DEF IcOnce, IcWhere, IcIn

LEMMA IcOutAlone ==
  ASSUME IcOnce, NEW b \in IcBuf, IcOut(b)
  PROVE  b \notin icfree /\ IcHeld(b) = {} /\ b \notin Range(icsent) /\ IcQueues(b) = {}
BY DEF IcOnce, IcWhere, IcIn

LEMMA IcSentAlone ==
  ASSUME IcOnce, NEW b \in IcBuf, b \in Range(icsent)
  PROVE  b \notin icfree /\ IcHeld(b) = {} /\ ~IcOut(b) /\ IcQueues(b) = {}
BY DEF IcOnce, IcWhere, IcIn

LEMMA IcQueuedAlone ==
  ASSUME IcOnce, NEW b \in IcBuf, NEW s \in IcQueues(b)
  PROVE  b \notin icfree /\ IcHeld(b) = {} /\ ~IcOut(b) /\ b \notin Range(icsent) /\ IcQueues(b) = {s}
BY DEF IcOnce, IcWhere, IcIn

\* The calls of processes and the table decide who holds a buffer.
LEMMA IcHeldKept ==
  ASSUME \A a \in IcActor : \/ iccall'[a] = iccall[a]
                            \/ iccall[a].op \notin {"echo", "arp"} /\ iccall'[a].op \notin {"echo", "arp"}
  PROVE  \A b : IcHeld(b)' = IcHeld(b)
BY DEF IcHeld

LEMMA IcHeldLeft ==
  ASSUME IcTypes, NEW b, NEW a \in IcHeld(b), iccall' = [iccall EXCEPT ![a] = IcIdle]
  PROVE  IcHeld(b)' = IcHeld(b) \ {a} /\ \A d : d # b => IcHeld(d)' = IcHeld(d)
<1>1. a \in IcActor /\ iccall[a].buf = b
  BY DEF IcHeld
<1>2. iccall'[a] = IcIdle /\ \A x \in IcActor : x # a => iccall'[x] = iccall[x]
  BY <1>1 DEF IcTypes
<1>3. IcIdle.op = "idle"
  BY DEF IcIdle
<1>4. QED
  BY <1>1, <1>2, <1>3 DEF IcHeld

LEMMA IcQueuesOf ==
  ASSUME NEW s \in IcSlot, NEW q,
         ichas'[s] = q, \A t \in IcSlot \ {s} : ichas'[t] = ichas[t],
         NEW b
  PROVE  /\ b \in Range(q) => IcQueues(b)' = IcQueues(b) \cup {s}
         /\ b \notin Range(q) => IcQueues(b)' = IcQueues(b) \ {s}
<1>1. IcQueues(b)' = {t \in IcSlot : b \in Range(ichas'[t])} /\ IcQueues(b) = {t \in IcSlot : b \in Range(ichas[t])}
  BY DEF IcQueues
<1>2. \A t \in IcSlot : t # s => (t \in IcQueues(b)' <=> t \in IcQueues(b))
  BY <1>1
<1>3. s \in IcQueues(b)' <=> b \in Range(q)
  BY <1>1
<1>4. IcQueues(b)' \subseteq IcSlot /\ IcQueues(b) \subseteq IcSlot
  BY <1>1
<1>5. QED
  BY <1>2, <1>3, <1>4

\* The first free buffer.
LEMMA IcFirstFree ==
  ASSUME NEW F \in SUBSET IcBuf, F # {}
  PROVE  Min(F) \in F /\ Min(F) \in IcBuf
<1>1. F \in SUBSET Nat
  BY IcSizes
<1>2. Min(F) \in F
  BY <1>1, MinProperties
<1>3. QED
  BY <1>2

LEMMA IcWaitersNext ==
  ASSUME IcKnown, IcWoke, IcTypes, IcTable,
         \A p \in IcProc, s \in IcSlot :
             /\ IcWaitsOn(p, s) => IcWaitsOn(p, s)'
             /\ IcWaitsOn(p, s)' => IcWaitsOn(p, s),
         \A p \in IcProc : icmsg[p] # "none" => icmsg'[p] # "none",
         \A s \in IcSlot :
             \/ icmptab'[s].state = icmptab[s].state /\ icmptab'[s].pid = icmptab[s].pid /\ ichas'[s] = ichas[s]
             \/ icmptab'[s].state = "used" /\ icmptab[s].state = "used" /\ icmptab'[s].pid = icmptab[s].pid
             \/ icmptab'[s].state # "recv" /\ icmptab'[s].pid = -1
             \/ /\ icmptab'[s].state = "used" /\ icmptab[s].state = "recv" /\ icmptab'[s].pid = icmptab[s].pid
                /\ icmsg'[icmptab[s].pid] # "none"
  PROVE  IcKnown' /\ IcWoke'
<1>1. \A p \in IcProc, s \in IcSlot : IcWaitsOn(p, s)' <=> IcWaitsOn(p, s)
  OBVIOUS
<1>2. ASSUME NEW s \in IcSlot, icmptab'[s].state = "recv"
      PROVE  ichas'[s] = <<>> /\ icmptab'[s].pid \in IcProc /\ IcWaitsOn(icmptab[s].pid, s)'
  <2>1. icmptab[s].state = "recv" /\ icmptab'[s].pid = icmptab[s].pid /\ ichas'[s] = ichas[s]
    BY <1>2
  <2>2. ichas[s] = <<>> /\ icmptab[s].pid \in IcProc /\ IcWaitsOn(icmptab[s].pid, s)
    BY <2>1 DEF IcKnown
  <2>3. PICK p \in IcProc : p = icmptab[s].pid
    BY <2>2
  <2>4. IcWaitsOn(p, s)'
    BY <1>1, <2>2, <2>3
  <2>5. QED
    BY <2>1, <2>2, <2>3, <2>4 DEF IcWaitsOn
<1>3. ASSUME NEW p \in IcProc, NEW s \in IcSlot,
             IcWaitsOn(p, s)', icmptab'[s].pid = p, icmptab'[s].state = "used"
      PROVE  icmsg'[p] # "none"
  <2>1. IcWaitsOn(p, s) /\ p # -1
    BY <1>1, <1>3, IcSizes
  <2>2. CASE icmptab[s].state = "used" /\ icmptab[s].pid = p
    <3>1. icmsg[p] # "none"
      BY <2>1, <2>2 DEF IcWoke
    <3>2. QED
      BY <3>1
  <2>3. CASE icmsg'[icmptab[s].pid] # "none" /\ icmptab[s].pid = p
    BY <2>3
  <2>4. QED
    BY <1>3, <2>1, <2>2, <2>3
<1>4. IcKnown'
  BY <1>2 DEF IcKnown
<1>5. IcWoke'
  BY <1>3 DEF IcWoke
<1>6. QED
  BY <1>4, <1>5

-----------------------------------------------------------------------------
\* Who waits for what does not change where nobody begins or ends to wait.
LEMMA IcWaitsKept ==
  ASSUME \A a \in IcActor : iccall'[a] = iccall[a] \/ (iccall[a].op # "recv" /\ iccall'[a].op # "recv")
  PROVE  \A p \in IcProc, s \in IcSlot : IcWaitsOn(p, s)' <=> IcWaitsOn(p, s)
<1>1. IcProc \subseteq IcActor
  BY DEF IcActor
<1>2. QED
  BY <1>1 DEF IcWaitsOn

\* The table, the messages and the calls stay.
LEMMA IcWaitersStay ==
  ASSUME IcKnown, IcWoke, UNCHANGED icTabVars,
         \A p \in IcProc, s \in IcSlot : IcWaitsOn(p, s)' <=> IcWaitsOn(p, s)
  PROVE  IcKnown' /\ IcWoke'
<1>1. UNCHANGED <<icmptab, icmsg, ichas>>
  BY DEF icTabVars
<1>2. ASSUME NEW s \in IcSlot, icmptab'[s].state = "recv"
      PROVE  ichas'[s] = <<>> /\ icmptab'[s].pid \in IcProc /\ IcWaitsOn(icmptab[s].pid, s)'
  <2>1. ichas[s] = <<>> /\ icmptab[s].pid \in IcProc /\ IcWaitsOn(icmptab[s].pid, s)
    BY <1>1, <1>2 DEF IcKnown
  <2>2. PICK p \in IcProc : p = icmptab[s].pid
    BY <2>1
  <2>3. IcWaitsOn(p, s)'
    BY <2>1, <2>2
  <2>4. QED
    BY <1>1, <2>1, <2>2, <2>3 DEF IcWaitsOn
<1>3. IcKnown'
  BY <1>1, <1>2 DEF IcKnown
<1>4. IcWoke'
  BY <1>1 DEF IcWoke
<1>5. QED
  BY <1>3, <1>4

-----------------------------------------------------------------------------
(* ICMP: packets come in.                                                  *)

\* A reply is put into the queue of its slot, or not.
LEMMA IcReplyMoves ==
  ASSUME IcTypes, IcTable, IcKnown, IcWoke, NEW b \in IcBuf, IcQueues(b) = {},
         NEW h, NEW i, NEW free, IcReply(b, h, i, free), UNCHANGED iccall
  PROVE  /\ IcTable' /\ icmsg' \in [IcProc -> {"none", "ok", "other"}]
         /\ \/ icspoilt' = "overrun" /\ icfree' = free
            \/ /\ icspoilt' = icspoilt /\ IcKnown' /\ IcWoke'
               /\ \A d \in IcBuf : d # b => IcQueues(d)' = IcQueues(d)
               /\ \/ icfree' = free \cup {b} /\ IcQueues(b)' = {}
                  \/ icfree' = free /\ \E s : IcQueues(b)' = {s}
<1>1. \A p \in IcProc, s \in IcSlot : IcWaitsOn(p, s)' <=> IcWaitsOn(p, s)
  BY DEF IcWaitsOn
<1>2. CASE /\ UNCHANGED icTabVars
           /\ \/ icspoilt' = icspoilt /\ icfree' = free \cup {b}
              \/ icspoilt' = "overrun" /\ icfree' = free
  <2>1. UNCHANGED <<icmptab, icmsg, ichas>>
    BY <1>2 DEF icTabVars
  <2>2. IcTable' /\ icmsg' \in [IcProc -> {"none", "ok", "other"}]
    BY <2>1 DEF IcTable, IcTypes
  <2>3. \A d : IcQueues(d)' = IcQueues(d)
    BY <2>1 DEF IcQueues
  <2>4. IcKnown' /\ IcWoke'
    BY <1>1, <1>2, IcWaitersStay
  <2>5. QED
    BY <1>2, <2>2, <2>3, <2>4
<1>3. CASE /\ i \in IcSlot /\ icmptab[i].state # "free" /\ icmptab[i].count # ICMP_QSIZ
           /\ icmptab' = [icmptab EXCEPT
                 ![i].queue[icmptab[i].tail] = b, ![i].tail = IcTailAfter(@),
                 ![i].count = @ + 1, ![i].state = "used"]
           /\ icmsg' = IcTold(i)
           /\ ichas' = [ichas EXCEPT ![i] = Append(@, b)]
           /\ icfree' = free
           /\ UNCHANGED icspoilt
  <2>1. PICK s, e, q : s \in IcSlot /\ s = i /\ e = icmptab[i] /\ q = ichas[i]
    BY <1>3
  <2>2. IcHolds(e, q) /\ e \in IcEntryOf /\ QueueOf(IcBuf, q)
    BY <2>1 DEF IcTable, IcHolds
  <2>3. e.count < ICMP_QSIZ /\ e.state # "free" /\ b \notin Range(q)
    <3>1. e.count \in 0 .. ICMP_QSIZ
      BY <2>2, IcEntryFields
    <3>2. b \notin Range(q)
      BY <2>1 DEF IcQueues
    <3>3. QED
      BY <1>3, <2>1, <3>1, <3>2, IcSizes
  <2>4. IcHolds(IcWithOneMore(e, b), Append(q, b))
    BY <2>2, <2>3, IcPutOK
  <2>5. icmptab' = [icmptab EXCEPT ![s] = IcWithOneMore(e, b)]
    <3>1. icmptab \in [IcSlot -> IcEntryOf] /\ e \in IcEntryOf
      BY <2>2 DEF IcTable
    <3>2. icmptab'[s] = IcWithOneMore(e, b)
      BY <1>3, <2>1, <3>1 DEF IcEntryOf, IcWithOneMore
    <3>3. \A t \in IcSlot : t # s => icmptab'[t] = icmptab[t]
      BY <1>3, <2>1, <3>1
    <3>4. DOMAIN icmptab' = IcSlot /\ icmptab' = [t \in IcSlot |-> icmptab'[t]]
      BY <1>3, <3>1
    <3>5. QED
      BY <2>1, <3>1, <3>2, <3>3, <3>4
  <2>6. ichas' = [ichas EXCEPT ![s] = Append(q, b)]
    BY <1>3, <2>1
  <2>7. PICK e2, q2 : e2 = IcWithOneMore(e, b) /\ q2 = Append(q, b)
    OBVIOUS
  <2>8. IcHolds(e2, q2) /\ icmptab' = [icmptab EXCEPT ![s] = e2] /\ ichas' = [ichas EXCEPT ![s] = q2]
    BY <2>4, <2>5, <2>6, <2>7
  <2>9. /\ IcTable'
        /\ icmptab'[s] = e2 /\ ichas'[s] = q2
        /\ \A t \in IcSlot \ {s} : icmptab'[t] = icmptab[t] /\ ichas'[t] = ichas[t]
    <3>1. s \in IcSlot
      BY <2>1
    <3>2. QED
      BY <2>8, <3>1, IcTableNext
  <2>10. Range(q2) = Range(q) \cup {b}
    BY <2>2, <2>3, <2>7, AppendMembers
  <2>11. ASSUME NEW c \in IcBuf
         PROVE  IF c = b THEN IcQueues(c)' = {s} ELSE IcQueues(c)' = IcQueues(c)
    <3>1. c \in Range(q2) => IcQueues(c)' = IcQueues(c) \cup {s}
      BY <2>1, <2>9, IcQueuesOf
    <3>2. c \notin Range(q2) => IcQueues(c)' = IcQueues(c) \ {s}
      BY <2>1, <2>9, IcQueuesOf
    <3>3. s \in IcQueues(c) <=> c \in Range(q)
      BY <2>1 DEF IcQueues
    <3>4. QED
      BY <2>10, <3>1, <3>2, <3>3
  <2>12. e.state = "used" \/ (e.state = "recv" /\ e.pid \in IcProc)
    <3>1. e.state \in {"free", "used", "recv"}
      BY <2>2, IcEntryFields
    <3>2. e.state = "recv" => e.pid \in IcProc
      BY <2>1 DEF IcKnown
    <3>3. QED
      BY <2>3, <3>1, <3>2
  <2>13. icmsg' = IF e.state = "recv" /\ icmsg[e.pid] = "none" THEN [icmsg EXCEPT ![e.pid] = "ok"] ELSE icmsg
    BY <1>3, <2>1 DEF IcTold
  <2>14. /\ icmsg' \in [IcProc -> {"none", "ok", "other"}]
         /\ \A p \in IcProc : icmsg[p] # "none" => icmsg'[p] # "none"
         /\ e.state = "recv" => icmsg'[e.pid] # "none"
    BY <2>12, <2>13 DEF IcTypes
  <2>15. icmptab'[s].state = "used" /\ icmptab'[s].pid = icmptab[s].pid
    BY <2>1, <2>7, <2>9 DEF IcWithOneMore
  <2>16. \A t \in IcSlot :
             \/ icmptab'[t].state = icmptab[t].state /\ icmptab'[t].pid = icmptab[t].pid /\ ichas'[t] = ichas[t]
             \/ icmptab'[t].state = "used" /\ icmptab[t].state = "used" /\ icmptab'[t].pid = icmptab[t].pid
             \/ /\ icmptab'[t].state = "used" /\ icmptab[t].state = "recv" /\ icmptab'[t].pid = icmptab[t].pid
                /\ icmsg'[icmptab[t].pid] # "none"
    BY <2>1, <2>9, <2>12, <2>14, <2>15
  <2>17. IcKnown' /\ IcWoke'
    BY <1>1, <2>14, <2>16, IcWaitersNext
  <2>18. (\A d \in IcBuf : d # b => IcQueues(d)' = IcQueues(d)) /\ \E t : IcQueues(b)' = {t}
    BY <2>11
  <2>19. QED
    BY <1>3, <2>9, <2>14, <2>17, <2>18
<1>4. QED
  BY <1>2, <1>3 DEF IcReply, IcFor

\* A request in buffer o, which becomes free, is answered from another buffer.
LEMMA IcEchoOK ==
  ASSUME IcIInv, icspoilt = "no", ipout.op # "ready", UNCHANGED <<icspoilt, icgot>>,
         NEW o \in IcBuf, NEW free \in SUBSET icfree, o \notin free, NEW h, NEW i, IcEcho(o, h, i, free),
         \A d \in IcBuf : d # o => IcHeld(d)' = IcHeld(d) /\ (d \in icfree <=> d \in free),
         IcHeld(o)' = {}, ~IcOut(o), o \notin Range(icsent), IcQueues(o) = {},
         DOMAIN iccall' = IcActor, \A a \in IcActor : IcCallOK(iccall'[a]),
         \A p \in IcProc, s \in IcSlot : IcWaitsOn(p, s)' <=> IcWaitsOn(p, s)
  PROVE  IcIInv'
<1>1. IcTypes /\ IcTable /\ IcOutput /\ IcOnce /\ IcKnown /\ IcWoke
  BY DEF IcIInv
<1>2. PICK c : c = Min(free)
  OBVIOUS
<1>3. /\ free # {} /\ UNCHANGED <<icmptab, icmsg, ichas>>
      /\ ip_enqueue(c, [dst |-> h, ident |-> i], (free \ {c}) \cup {o})
  BY <1>2 DEF IcEcho, icTabVars
<1>4. c \in free /\ c \in IcBuf /\ c \in icfree /\ c # o
  <2>1. free \subseteq IcBuf
    BY <1>1 DEF IcTypes
  <2>2. c \in free
    BY <1>2, <1>3, <2>1, IcFirstFree
  <2>3. QED
    BY <2>1, <2>2
<1>5. IcHeld(c) = {} /\ ~IcOut(c) /\ c \notin Range(icsent) /\ IcQueues(c) = {}
  BY <1>1, <1>4, IcFreeAlone
<1>6. PICK k, rest : k = [dst |-> h, ident |-> i] /\ rest = (free \ {c}) \cup {o}
  OBVIOUS
<1>7. ip_enqueue(c, k, rest)
  BY <1>3, <1>6
<1>8. /\ IcOutput'
      /\ \A d : IcOut(d)' <=> IcOut(d)
      /\ \/ icfree' = rest \cup {c} /\ icsent' = icsent
         \/ icfree' = rest /\ Range(icsent') = Range(icsent) \cup {c}
  BY <1>1, <1>4, <1>5, <1>7, IpEnqueueOK
<1>9. IcTable'
  BY <1>1, <1>3 DEF IcTable
<1>10. IcTypes'
  <2>1. icfree' \subseteq IcBuf
    BY <1>1, <1>4, <1>6, <1>8 DEF IcTypes
  <2>2. QED
    BY <1>1, <1>3, <2>1 DEF IcTypes
<1>11. \A d : IcQueues(d)' = IcQueues(d)
  BY <1>3 DEF IcQueues
<1>12. IcKnown' /\ IcWoke'
  BY <1>1, <1>3, IcWaitersStay DEF icTabVars
<1>13. IcOnce'
  <2>1. ASSUME NEW d \in IcBuf, d # o, d # c
        PROVE  /\ d \in icfree' <=> d \in icfree
               /\ IcHeld(d)' = IcHeld(d)
               /\ IcOut(d)' <=> IcOut(d)
               /\ d \in Range(icsent') <=> d \in Range(icsent)
               /\ IcQueues(d)' = IcQueues(d)
    BY <1>6, <1>8, <1>11, <2>1
  <2>2. IcWhere(o)'
    <3>1. o \in icfree' /\ o \notin Range(icsent')
      BY <1>4, <1>6, <1>8
    <3>2. QED
      BY <1>8, <1>11, <3>1 DEF IcWhere, IcIn
  <2>3. IcHeld(c)' = {} /\ ~IcOut(c)' /\ IcQueues(c)' = {}
    BY <1>4, <1>5, <1>8, <1>11
  <2>4. IcWhere(c)'
    <3>1. CASE icfree' = rest \cup {c} /\ icsent' = icsent
      BY <1>5, <2>3, <3>1 DEF IcWhere, IcIn
    <3>2. CASE icfree' = rest /\ Range(icsent') = Range(icsent) \cup {c}
      <4>1. c \notin icfree' /\ c \in Range(icsent')
        BY <1>4, <1>6, <3>2
      <4>2. QED
        BY <2>3, <4>1 DEF IcWhere, IcIn
    <3>3. QED
      BY <1>8, <3>1, <3>2
  <2>5. QED
    BY <1>1, <2>1, <2>2, <2>4, IcOnceNext
<1>14. QED
  BY <1>8, <1>9, <1>10, <1>12, <1>13 DEF IcIInv
\* A buffer becomes that of a call, or of none again.
LEMMA IcWaitersAway ==
  ASSUME IcKnown, IcWoke, UNCHANGED <<icmptab, ichas>>,
         \A p \in IcProc, s \in IcSlot : IcWaitsOn(p, s)' <=> IcWaitsOn(p, s),
         \A p \in IcProc, s \in IcSlot : IcWaitsOn(p, s) /\ icmsg[p] # "none" => icmsg'[p] # "none"
  PROVE  IcKnown' /\ IcWoke'
<1>1. ASSUME NEW s \in IcSlot, icmptab'[s].state = "recv"
      PROVE  ichas'[s] = <<>> /\ icmptab'[s].pid \in IcProc /\ IcWaitsOn(icmptab[s].pid, s)'
  <2>1. ichas[s] = <<>> /\ icmptab[s].pid \in IcProc /\ IcWaitsOn(icmptab[s].pid, s)
    BY <1>1 DEF IcKnown
  <2>2. PICK p \in IcProc : p = icmptab[s].pid
    BY <2>1
  <2>3. IcWaitsOn(p, s)'
    BY <2>1, <2>2
  <2>4. QED
    BY <2>1, <2>2, <2>3 DEF IcWaitsOn
<1>2. IcKnown'
  BY <1>1 DEF IcKnown
<1>3. ASSUME NEW p \in IcProc, NEW s \in IcSlot,
             IcWaitsOn(p, s)', icmptab'[s].pid = p, icmptab'[s].state = "used"
      PROVE  icmsg'[p] # "none"
  <2>1. IcWaitsOn(p, s) /\ icmptab[s].pid = p /\ icmptab[s].state = "used"
    BY <1>3
  <2>2. icmsg[p] # "none"
    BY <2>1 DEF IcWoke
  <2>3. QED
    BY <2>1, <2>2
<1>4. IcWoke'
  BY <1>3 DEF IcWoke
<1>5. QED
  BY <1>2, <1>4

\* The call c of a holds the first free buffer.
IcHolding(a, c) ==
    /\ icfree # {} /\ iccall[a] = IcIdle
    /\ c.op \in {"echo", "arp"} /\ c.buf = Min(icfree)
    /\ iccall' = [iccall EXCEPT ![a] = c] /\ icfree' = icfree \ {Min(icfree)}
    /\ UNCHANGED <<icmptab, ichas, icpkt, ipoqueue, ipout, icsent, icspoilt, icgot>>
    /\ icmsg' = icmsg \/ icmsg' = [icmsg EXCEPT ![a] = "none"]

LEMMA IcHoldOK ==
  ASSUME IcIInv, icspoilt = "no", NEW a \in IcActor, NEW c, IcHolding(a, c)
  PROVE  IcIInv'
<1>1. IcTypes /\ IcTable /\ IcOutput /\ IcOnce /\ IcKnown /\ IcWoke
  BY DEF IcIInv
<1>2. /\ icfree # {} /\ iccall[a] = IcIdle
      /\ c.op \in {"echo", "arp"} /\ c.buf = Min(icfree)
      /\ iccall' = [iccall EXCEPT ![a] = c] /\ icfree' = icfree \ {Min(icfree)}
      /\ UNCHANGED <<icmptab, ichas, icpkt, ipoqueue, ipout, icsent, icspoilt, icgot>>
      /\ icmsg' = icmsg \/ icmsg' = [icmsg EXCEPT ![a] = "none"]
  BY DEF IcHolding
<1>3. PICK b : b = Min(icfree)
  OBVIOUS
<1>4. b \in icfree /\ b \in IcBuf
  BY <1>1, <1>2, <1>3, IcFirstFree DEF IcTypes
<1>5. IcHeld(b) = {} /\ ~IcOut(b) /\ b \notin Range(icsent) /\ IcQueues(b) = {}
  BY <1>1, <1>2, <1>4, IcFreeAlone
<1>6. IcIdle.op = "idle"
  BY DEF IcIdle
<1>7. IcHeld(b)' = {a} /\ \A d : d # b => IcHeld(d)' = IcHeld(d)
  <2>1. iccall[a].op \notin {"echo", "arp"} /\ c.buf = b
    BY <1>2, <1>3, <1>6
  <2>2. c.op \in {"echo", "arp"} /\ iccall'[a] = c /\ \A x \in IcActor : x # a => iccall'[x] = iccall[x]
    BY <1>1, <1>2 DEF IcTypes
  <2>3. IcHeld(b)' = IcHeld(b) \cup {a}
    BY <2>1, <2>2 DEF IcHeld
  <2>4. \A d : d # b => IcHeld(d)' = IcHeld(d)
    BY <2>1, <2>2 DEF IcHeld
  <2>5. QED
    BY <1>5, <2>3, <2>4
<1>8. iccall'[a] = c /\ DOMAIN iccall' = IcActor /\ \A x \in IcActor : x # a => iccall'[x] = iccall[x]
  BY <1>1, <1>2 DEF IcTypes
<1>9. IcTypes'
  <2>1. IcCallOK(c)
    BY <1>2, <1>3, <1>4 DEF IcCallOK
  <2>2. \A x \in IcActor : IcCallOK(iccall'[x])
    BY <1>1, <1>2, <1>8, <2>1 DEF IcTypes
  <2>3. icmsg' \in [IcProc -> {"none", "ok", "other"}]
    BY <1>1, <1>2 DEF IcTypes
  <2>4. QED
    BY <1>1, <1>2, <1>8, <2>2, <2>3 DEF IcTypes
<1>10. IcTable' /\ IcOutput'
  BY <1>1, <1>2 DEF IcTable, IcOutput
<1>11. IcOnce'
  <2>1. \A d : IcQueues(d)' = IcQueues(d) /\ (IcOut(d)' <=> IcOut(d))
    BY <1>2 DEF IcQueues, IcOut
  <2>2. IcWhere(b)'
    <3>1. b \notin icfree' /\ IcHeld(b)' = {a} /\ ~IcOut(b)' /\ b \notin Range(icsent') /\ IcQueues(b)' = {}
      BY <1>2, <1>3, <1>5, <1>7, <2>1
    <3>2. QED
      BY <1>2, <3>1 DEF IcWhere, IcIn
  <2>3. ASSUME NEW d \in IcBuf, d # b
        PROVE  /\ d \in icfree' <=> d \in icfree
               /\ IcHeld(d)' = IcHeld(d)
               /\ IcOut(d)' <=> IcOut(d)
               /\ d \in Range(icsent') <=> d \in Range(icsent)
               /\ IcQueues(d)' = IcQueues(d)
    BY <1>2, <1>3, <1>7, <2>1, <2>3
  <2>4. QED
    BY <1>1, <1>2, <2>2, <2>3, IcOnceNext
<1>12. IcKnown' /\ IcWoke'
  <2>1. iccall[a].op # "recv" /\ iccall'[a].op # "recv"
    BY <1>2, <1>6, <1>8
  <2>2. \A p \in IcProc, s \in IcSlot : IcWaitsOn(p, s)' <=> IcWaitsOn(p, s)
    BY <1>2, <1>8, <2>1, IcWaitsKept
  <2>3. \A s \in IcSlot : ~IcWaitsOn(a, s)
    BY <1>2, <2>1 DEF IcWaitsOn
  <2>4. \A p \in IcProc : p # a => icmsg'[p] = icmsg[p]
    BY <1>1, <1>2 DEF IcTypes
  <2>5. \A p \in IcProc, s \in IcSlot : IcWaitsOn(p, s) /\ icmsg[p] # "none" => icmsg'[p] # "none"
    BY <1>2, <2>3, <2>4
  <2>6. QED
    BY <1>1, <1>2, <2>2, <2>5, IcWaitersAway
<1>13. QED
  BY <1>2, <1>9, <1>10, <1>11, <1>12 DEF IcIInv

LEMMA IcSentOK ==
  ASSUME IcIInv, NEW p \in IcProc, IcSent(p)
  PROVE  IcIInv'
<1>1. /\ IcTypes /\ IcTable /\ IcOutput /\ IcOnce /\ IcKnown /\ IcWoke
      /\ iccall[p].op = "arp" /\ p \in IcActor
      /\ icfree' = icfree \cup {iccall[p].buf}
      /\ iccall' = [iccall EXCEPT ![p] = IcIdle]
      /\ icmsg' = [icmsg EXCEPT ![p] = "none"]
      /\ UNCHANGED <<icmptab, ichas, icOutVars, ipvalid, icspoilt, icgot>>
  BY DEF IcIInv, IcSent, IcActor
<1>2. PICK b \in IcBuf : b = iccall[p].buf
  BY <1>1 DEF IcTypes, IcCallOK, IcIdle
<1>3. p \in IcHeld(b)
  BY <1>1, <1>2 DEF IcHeld
<1>4. b \notin icfree /\ IcHeld(b) = {p} /\ ~IcOut(b) /\ b \notin Range(icsent) /\ IcQueues(b) = {}
  BY <1>1, <1>3, IcHeldAlone
<1>5. IcHeld(b)' = IcHeld(b) \ {p} /\ \A d : d # b => IcHeld(d)' = IcHeld(d)
  BY <1>1, <1>3, IcHeldLeft
<1>6. UNCHANGED <<icpkt, ipoqueue, ipout, icsent>>
  BY <1>1 DEF icOutVars
<1>7. iccall'[p] = IcIdle /\ DOMAIN iccall' = IcActor /\ \A x \in IcActor : x # p => iccall'[x] = iccall[x]
  BY <1>1 DEF IcTypes
<1>8. IcTypes'
  <2>1. \A x \in IcActor : IcCallOK(iccall'[x])
    BY <1>1, <1>7 DEF IcTypes, IcCallOK
  <2>2. icmsg' \in [IcProc -> {"none", "ok", "other"}]
    BY <1>1 DEF IcTypes
  <2>3. QED
    BY <1>1, <1>2, <1>7, <2>1, <2>2 DEF IcTypes
<1>9. IcTable' /\ IcOutput'
  BY <1>1, <1>6 DEF IcTable, IcOutput
<1>10. IcOnce'
  <2>1. \A d : IcQueues(d)' = IcQueues(d) /\ (IcOut(d)' <=> IcOut(d))
    BY <1>1, <1>6 DEF IcQueues, IcOut
  <2>2. IcWhere(b)'
    <3>1. b \in icfree' /\ IcHeld(b)' = {} /\ ~IcOut(b)' /\ b \notin Range(icsent') /\ IcQueues(b)' = {}
      BY <1>1, <1>2, <1>4, <1>5, <1>6, <2>1
    <3>2. QED
      BY <3>1 DEF IcWhere, IcIn
  <2>3. ASSUME NEW d \in IcBuf, d # b
        PROVE  /\ d \in icfree' <=> d \in icfree
               /\ IcHeld(d)' = IcHeld(d)
               /\ IcOut(d)' <=> IcOut(d)
               /\ d \in Range(icsent') <=> d \in Range(icsent)
               /\ IcQueues(d)' = IcQueues(d)
    BY <1>1, <1>2, <1>5, <1>6, <2>1, <2>3
  <2>4. QED
    BY <1>1, <2>2, <2>3, IcOnceNext
<1>11. IcKnown' /\ IcWoke'
  <2>1. iccall[p].op # "recv" /\ iccall'[p].op # "recv"
    BY <1>1, <1>7 DEF IcIdle
  <2>2. \A x \in IcProc, s \in IcSlot : IcWaitsOn(x, s)' <=> IcWaitsOn(x, s)
    BY <1>7, <2>1, IcWaitsKept
  <2>3. \A s \in IcSlot : ~IcWaitsOn(p, s)
    BY <2>1 DEF IcWaitsOn
  <2>4. \A x \in IcProc : x # p => icmsg'[x] = icmsg[x]
    BY <1>1 DEF IcTypes
  <2>5. \A x \in IcProc, s \in IcSlot : IcWaitsOn(x, s) /\ icmsg[x] # "none" => icmsg'[x] # "none"
    BY <2>3, <2>4
  <2>6. QED
    BY <1>1, <2>2, <2>5, IcWaitersAway
<1>12. QED
  BY <1>8, <1>9, <1>10, <1>11 DEF IcIInv

-----------------------------------------------------------------------------
(* ICMP: the actions.                                                      *)

\* A request in the first free buffer is answered at once.
LEMMA IcEchoAtOnce ==
  ASSUME IcIInv, icspoilt = "no", ipout.op # "ready", icfree # {}, NEW h, NEW i,
         IcEcho(Min(icfree), h, i, icfree \ {Min(icfree)}), UNCHANGED <<iccall, icspoilt, icgot>>
  PROVE  IcIInv'
<1>1. IcTypes /\ IcOnce
  BY DEF IcIInv
<1>2. PICK o, free : o = Min(icfree) /\ free = icfree \ {o}
  OBVIOUS
<1>3. o \in icfree /\ o \in IcBuf
  BY <1>1, <1>2, IcFirstFree DEF IcTypes
<1>4. IcHeld(o) = {} /\ ~IcOut(o) /\ o \notin Range(icsent) /\ IcQueues(o) = {}
  BY <1>1, <1>3, IcFreeAlone
<1>5. \A d : IcHeld(d)' = IcHeld(d)
  BY DEF IcHeld
<1>6. \A p \in IcProc, s \in IcSlot : IcWaitsOn(p, s)' <=> IcWaitsOn(p, s)
  BY DEF IcWaitsOn
<1>7. IcEcho(o, h, i, free) /\ free \in SUBSET icfree /\ o \notin free
  BY <1>2
<1>8. \A d \in IcBuf : d # o => IcHeld(d)' = IcHeld(d) /\ (d \in icfree <=> d \in free)
  BY <1>2, <1>5
<1>9. IcHeld(o)' = {} /\ DOMAIN iccall' = IcActor /\ \A a \in IcActor : IcCallOK(iccall'[a])
  BY <1>1, <1>4, <1>5 DEF IcTypes
<1>10. QED
  BY <1>3, <1>4, <1>6, <1>7, <1>8, <1>9, IcEchoOK

LEMMA IcGoesOnOK ==
  ASSUME IcIInv, NEW a \in IcActor, IcEchoGoesOn(a)
  PROVE  IcIInv'
<1>1. /\ IcTypes /\ IcOnce /\ icspoilt = "no" /\ ipout.op # "ready"
      /\ iccall[a].op = "echo" /\ iccall' = [iccall EXCEPT ![a] = IcIdle]
      /\ IcEcho(iccall[a].buf, iccall[a].dst, iccall[a].ident, icfree)
      /\ UNCHANGED <<icspoilt, icgot>>
  BY DEF IcIInv, IcEchoGoesOn
<1>2. PICK o \in IcBuf : o = iccall[a].buf
  BY <1>1 DEF IcTypes, IcCallOK, IcIdle
<1>3. PICK h, i, free : h = iccall[a].dst /\ i = iccall[a].ident /\ free = icfree
  OBVIOUS
<1>4. a \in IcHeld(o)
  BY <1>1, <1>2 DEF IcHeld
<1>5. o \notin icfree /\ IcHeld(o) = {a} /\ ~IcOut(o) /\ o \notin Range(icsent) /\ IcQueues(o) = {}
  BY <1>1, <1>4, IcHeldAlone
<1>6. IcHeld(o)' = IcHeld(o) \ {a} /\ \A d : d # o => IcHeld(d)' = IcHeld(d)
  BY <1>1, <1>4, IcHeldLeft
<1>7. iccall'[a] = IcIdle /\ DOMAIN iccall' = IcActor /\ \A x \in IcActor : x # a => iccall'[x] = iccall[x]
  BY <1>1 DEF IcTypes
<1>8. \A x \in IcActor : IcCallOK(iccall'[x])
  BY <1>1, <1>7 DEF IcTypes, IcCallOK
<1>9. \A p \in IcProc, s \in IcSlot : IcWaitsOn(p, s)' <=> IcWaitsOn(p, s)
  <2>1. iccall[a].op # "recv" /\ iccall'[a].op # "recv"
    BY <1>1, <1>7 DEF IcIdle
  <2>2. QED
    BY <1>7, <2>1, IcWaitsKept
<1>10. IcEcho(o, h, i, free) /\ free \in SUBSET icfree /\ o \notin free
  BY <1>1, <1>2, <1>3, <1>5
<1>11. \A d \in IcBuf : d # o => IcHeld(d)' = IcHeld(d) /\ (d \in icfree <=> d \in free)
  BY <1>3, <1>6
<1>12. IcHeld(o)' = {} /\ UNCHANGED <<icspoilt, icgot>>
  BY <1>1, <1>5, <1>6
<1>13. QED
  BY <1>1, <1>5, <1>7, <1>8, <1>9, <1>10, <1>11, <1>12, IcEchoOK

\* A reply in buffer b, which nobody else has: it gets into a queue, or is freed.
LEMMA IcReplyOK ==
  ASSUME IcIInv, icspoilt = "no", NEW b \in IcBuf, NEW h, NEW i, NEW free \in SUBSET IcBuf, b \notin free,
         IcReply(b, h, i, free), UNCHANGED <<iccall, icgot>>,
         IcHeld(b) = {}, IcQueues(b) = {},
         \A d \in IcBuf : d # b => (d \in icfree <=> d \in free) /\ (IcOut(d)' <=> IcOut(d))
                                   /\ (d \in Range(icsent') <=> d \in Range(icsent)),
         ~IcOut(b)', b \notin Range(icsent'), IcOutput'
  PROVE  IcIInv'
<1>1. IcTypes /\ IcTable /\ IcOnce /\ IcKnown /\ IcWoke
  BY DEF IcIInv
<1>2. /\ IcTable' /\ icmsg' \in [IcProc -> {"none", "ok", "other"}]
      /\ \/ icspoilt' = "overrun" /\ icfree' = free
         \/ /\ icspoilt' = icspoilt /\ IcKnown' /\ IcWoke'
            /\ \A d \in IcBuf : d # b => IcQueues(d)' = IcQueues(d)
            /\ \/ icfree' = free \cup {b} /\ IcQueues(b)' = {}
               \/ icfree' = free /\ \E s : IcQueues(b)' = {s}
  BY <1>1, IcReplyMoves
<1>3. icfree' = free \/ icfree' = free \cup {b}
  BY <1>2
<1>4. icfree' \subseteq IcBuf
  BY <1>3
<1>5. IcTypes'
  BY <1>1, <1>2, <1>4 DEF IcTypes
<1>6. CASE icspoilt' = "overrun"
  BY <1>2, <1>5, <1>6 DEF IcIInv
<1>7. CASE /\ icspoilt' = icspoilt /\ IcKnown' /\ IcWoke'
           /\ \A d \in IcBuf : d # b => IcQueues(d)' = IcQueues(d)
           /\ \/ icfree' = free \cup {b} /\ IcQueues(b)' = {}
              \/ icfree' = free /\ \E s : IcQueues(b)' = {s}
  <2>1. \A d : IcHeld(d)' = IcHeld(d)
    BY DEF IcHeld
  <2>2. ASSUME NEW d \in IcBuf, d # b
        PROVE  /\ d \in icfree' <=> d \in icfree
               /\ IcHeld(d)' = IcHeld(d)
               /\ IcOut(d)' <=> IcOut(d)
               /\ d \in Range(icsent') <=> d \in Range(icsent)
               /\ IcQueues(d)' = IcQueues(d)
    <3>1. d \in icfree' <=> d \in free
      BY <1>3, <2>2
    <3>2. IcQueues(d)' = IcQueues(d)
      BY <1>7, <2>2
    <3>3. QED
      BY <2>1, <2>2, <3>1, <3>2
  <2>3. IcHeld(b)' = {}
    BY <2>1
  <2>4. IcWhere(b)'
    <3>1. CASE icfree' = free \cup {b} /\ IcQueues(b)' = {}
      <4>1. b \in icfree'
        BY <3>1
      <4>2. QED
        BY <2>3, <3>1, <4>1 DEF IcWhere, IcIn
    <3>2. CASE icfree' = free /\ \E s : IcQueues(b)' = {s}
      <4>1. b \notin icfree'
        BY <3>2
      <4>2. QED
        BY <2>3, <3>2, <4>1 DEF IcWhere, IcIn
    <3>3. QED
      BY <1>7, <3>1, <3>2
  <2>5. IcOnce'
    BY <1>1, <2>2, <2>4, IcOnceNext
  <2>6. QED
    BY <1>2, <1>5, <1>7, <2>5 DEF IcIInv
<1>8. QED
  BY <1>2, <1>6, <1>7

LEMMA IcInOK ==
  ASSUME IcIInv, NEW h, NEW i, NEW type, ip_in(h, i, type)
  PROVE  IcIInv'
<1>1. /\ IcTypes /\ IcOutput /\ IcOnce /\ icspoilt = "no" /\ ipout.op # "ready"
      /\ iccall["netin"] = IcIdle /\ icfree # {} /\ UNCHANGED icgot /\ "netin" \in IcActor
  BY DEF IcIInv, ip_in, IcRuns, IcActor
<1>2. CASE IcEcho(Min(icfree), h, i, icfree \ {Min(icfree)}) /\ UNCHANGED <<iccall, icspoilt>>
  BY <1>1, <1>2, IcEchoAtOnce
<1>3. CASE /\ iccall' = [iccall EXCEPT !["netin"] =
                [op |-> "echo", buf |-> Min(icfree), dst |-> h, ident |-> i]]
           /\ icfree' = icfree \ {Min(icfree)}
           /\ UNCHANGED <<icTabVars, icOutVars, icspoilt>>
  <2>1. PICK c : c = [op |-> "echo", buf |-> Min(icfree), dst |-> h, ident |-> i]
    OBVIOUS
  <2>2. c.op \in {"echo", "arp"} /\ c.buf = Min(icfree) /\ iccall' = [iccall EXCEPT !["netin"] = c]
    BY <1>3, <2>1
  <2>3. /\ UNCHANGED <<icmptab, ichas, icpkt, ipoqueue, ipout, icsent, icspoilt, icgot>>
        /\ icmsg' = icmsg
    BY <1>1, <1>3 DEF icTabVars, icOutVars
  <2>4. IcHolding("netin", c)
    BY <1>1, <1>3, <2>2, <2>3 DEF IcHolding
  <2>5. QED
    BY <1>1, <2>4, IcHoldOK
<1>4. CASE IcReply(Min(icfree), h, i, icfree \ {Min(icfree)}) /\ UNCHANGED <<iccall, icOutVars>>
  <2>1. PICK b, free : b = Min(icfree) /\ free = icfree \ {b}
    OBVIOUS
  <2>2. b \in icfree /\ b \in IcBuf
    BY <1>1, <2>1, IcFirstFree DEF IcTypes
  <2>3. IcHeld(b) = {} /\ ~IcOut(b) /\ b \notin Range(icsent) /\ IcQueues(b) = {}
    BY <1>1, <2>2, IcFreeAlone
  <2>4. UNCHANGED <<icpkt, ipoqueue, ipout, icsent>>
    BY <1>4 DEF icOutVars
  <2>5. IcOutput' /\ \A d : IcOut(d)' <=> IcOut(d)
    BY <1>1, <2>4 DEF IcOutput, IcOut
  <2>6. free \in SUBSET IcBuf /\ b \notin free /\ IcReply(b, h, i, free) /\ UNCHANGED <<iccall, icgot>>
    BY <1>1, <1>4, <2>1 DEF IcTypes
  <2>7. \A d \in IcBuf : d # b => (d \in icfree <=> d \in free) /\ (IcOut(d)' <=> IcOut(d))
                                  /\ (d \in Range(icsent') <=> d \in Range(icsent))
    BY <2>1, <2>4, <2>5
  <2>8. ~IcOut(b)' /\ b \notin Range(icsent')
    BY <2>3, <2>4, <2>5
  <2>9. QED
    BY <1>1, <2>2, <2>3, <2>5, <2>6, <2>7, <2>8, IcReplyOK
<1>5. QED
  BY <1>2, <1>3, <1>4 DEF ip_in

LEMMA IcTakesOK ==
  ASSUME IcIInv, ipout_takes
  PROVE  IcIInv'
<1>1. /\ IcTypes /\ IcTable /\ IcOutput /\ IcOnce /\ IcKnown /\ IcWoke
      /\ icspoilt = "no" /\ ipout.op = "ready" /\ UNCHANGED <<iccall, ipvalid>>
      /\ icsent' = Tail(icsent)
  BY DEF IcIInv, ipout_takes
<1>2. PICK e, q, n : e = ipoqueue /\ q = icsent /\ n = ipoqueue.count
  OBVIOUS
<1>3. IpHolds(e, q) /\ q # <<>> /\ n + 1 = Len(q)
  BY <1>1, <1>2 DEF IcOutput, IpoutIs
<1>4. n \in Int /\ e \in IpQueueOf
  BY <1>2, <1>3, IpFields DEF IpHolds
<1>5. /\ e.buf[e.head] = Head(q) /\ Head(q) \in IcBuf /\ Head(q) \in Range(q)
      /\ IpHolds(IpWithOneLess(e, n), Tail(q))
      /\ Len(Tail(q)) = Len(q) - 1
      /\ Range(Tail(q)) = Range(q) \ {Head(q)}
  BY <1>3, <1>4, IpTakeOK
<1>6. PICK b, w, r : b = Head(q) /\ w = IpWithOneLess(e, n) /\ r = Tail(q)
  OBVIOUS
<1>7. /\ e.buf[e.head] = b /\ b \in IcBuf /\ b \in Range(icsent)
      /\ IpHolds(w, r) /\ Len(r) = n /\ icsent' = r /\ Range(icsent') = Range(icsent) \ {b}
  BY <1>1, <1>2, <1>3, <1>4, <1>5, <1>6
<1>8. w = [e EXCEPT !.buf[e.head] = 0, !.head = IpAfter(@)] /\ w.count = n
  <2>1. e.count = n
    BY <1>2
  <2>2. w = [head |-> IpAfter(e.head), tail |-> e.tail, count |-> e.count,
             buf |-> [e.buf EXCEPT ![e.head] = 0]]
    BY <1>6, <2>1 DEF IpWithOneLess
  <2>3. PICK v : v = [e EXCEPT !.buf[e.head] = 0, !.head = IpAfter(@)]
    OBVIOUS
  <2>4. v = [head |-> IpAfter(e.head), tail |-> e.tail, count |-> e.count,
             buf |-> [e.buf EXCEPT ![e.head] = 0]]
    BY <1>4, <2>3 DEF IpQueueOf
  <2>5. w.count = n
    BY <2>1, <2>2
  <2>6. QED
    BY <2>2, <2>3, <2>4, <2>5
<1>9. icgot' = icgot
  BY <1>2, <1>6, <1>7 DEF ipout_takes
<1>10. b \notin icfree /\ IcHeld(b) = {} /\ ~IcOut(b) /\ IcQueues(b) = {}
  BY <1>1, <1>7, IcSentAlone
<1>11. \A d : ~IcOut(d)
  BY <1>1 DEF IcOut
<1>12. \/ IcReply(b, 0, icpkt[b].ident, icfree) /\ IpoutLoops(w)
       \/ /\ ipoqueue' = w /\ ipout' = [op |-> "arp", buf |-> b]
          /\ UNCHANGED <<icTabVars, icfree, icspoilt>>
  BY <1>2, <1>7, <1>8 DEF ipout_takes
<1>13. CASE IcReply(b, 0, icpkt[b].ident, icfree) /\ IpoutLoops(w)
  <2>1. IcOutput' /\ \A d : ~IcOut(d)'
    BY <1>7, <1>8, <1>13, IpoutLoopsOK
  <2>2. PICK i, free : i = icpkt[b].ident /\ free = icfree
    OBVIOUS
  <2>3. free \in SUBSET IcBuf /\ b \notin free /\ IcReply(b, 0, i, free) /\ UNCHANGED <<iccall, icgot>>
    BY <1>1, <1>9, <1>10, <1>13, <2>2 DEF IcTypes
  <2>4. \A d \in IcBuf : d # b => (d \in icfree <=> d \in free) /\ (IcOut(d)' <=> IcOut(d))
                                  /\ (d \in Range(icsent') <=> d \in Range(icsent))
    BY <1>7, <1>11, <2>1, <2>2
  <2>5. ~IcOut(b)' /\ b \notin Range(icsent')
    BY <1>7, <2>1
  <2>6. QED
    BY <1>1, <1>7, <1>10, <2>1, <2>3, <2>4, <2>5, IcReplyOK
<1>14. CASE /\ ipoqueue' = w /\ ipout' = [op |-> "arp", buf |-> b]
            /\ UNCHANGED <<icTabVars, icfree, icspoilt>>
  <2>1. UNCHANGED <<icmptab, icmsg, ichas, iccall, icfree, icspoilt, icgot>>
    BY <1>1, <1>9, <1>14 DEF icTabVars
  <2>2. IcTypes' /\ IcTable'
    BY <1>1, <2>1 DEF IcTypes, IcTable
  <2>3. IcOutput'
    BY <1>7, <1>8, <1>14 DEF IcOutput, IpoutIs
  <2>4. \A d : IcHeld(d)' = IcHeld(d) /\ IcQueues(d)' = IcQueues(d)
    BY <2>1 DEF IcHeld, IcQueues
  <2>5. \A d : IcOut(d)' <=> d = b
    BY <1>14 DEF IcOut
  <2>6. IcWhere(b)'
    <3>1. b \notin icfree' /\ IcHeld(b)' = {} /\ IcOut(b)' /\ b \notin Range(icsent') /\ IcQueues(b)' = {}
      BY <1>7, <1>10, <2>1, <2>4, <2>5
    <3>2. QED
      BY <3>1 DEF IcWhere, IcIn
  <2>7. ASSUME NEW d \in IcBuf, d # b
        PROVE  /\ d \in icfree' <=> d \in icfree
               /\ IcHeld(d)' = IcHeld(d)
               /\ IcOut(d)' <=> IcOut(d)
               /\ d \in Range(icsent') <=> d \in Range(icsent)
               /\ IcQueues(d)' = IcQueues(d)
    BY <1>7, <1>11, <2>1, <2>4, <2>5, <2>7
  <2>8. IcOnce'
    BY <1>1, <2>6, <2>7, IcOnceNext
  <2>9. IcKnown' /\ IcWoke'
    BY <1>1, <2>1 DEF IcKnown, IcWoke, IcWaitsOn
  <2>10. QED
    BY <2>2, <2>3, <2>8, <2>9 DEF IcIInv
<1>15. QED
  BY <1>12, <1>13, <1>14

LEMMA IcOutOK ==
  ASSUME IcIInv, ip_out
  PROVE  IcIInv'
<1>1. /\ IcTypes /\ IcTable /\ IcOutput /\ IcOnce /\ IcKnown /\ IcWoke
      /\ ipout.op = "arp" /\ icfree' = icfree \cup {ipout.buf} /\ IpoutLoops(ipoqueue)
      /\ UNCHANGED <<icTabVars, iccall, icpkt, ipvalid, icspoilt, icgot, icsent>>
  BY DEF IcIInv, ip_out
<1>2. PICK b \in IcBuf : b = ipout.buf /\ ipoqueue.count = Len(icsent)
  BY <1>1 DEF IcOutput, IpoutIs
<1>3. \A d : IcOut(d) <=> d = b
  BY <1>1, <1>2 DEF IcOut
<1>4. b \notin icfree /\ IcHeld(b) = {} /\ b \notin Range(icsent) /\ IcQueues(b) = {}
  BY <1>1, <1>3, IcOutAlone
<1>5. IcOutput' /\ \A d : ~IcOut(d)'
  <2>1. PICK e, q : e = ipoqueue /\ q = icsent
    OBVIOUS
  <2>2. IpHolds(e, q) /\ e.count = Len(q) /\ IpoutLoops(e) /\ icsent' = q
    BY <1>1, <1>2, <2>1 DEF IcOutput
  <2>3. QED
    BY <2>2, IpoutLoopsOK
<1>6. UNCHANGED <<icmptab, icmsg, ichas, iccall, icspoilt, icgot>>
  BY <1>1 DEF icTabVars
<1>7. icfree' = icfree \cup {b}
  BY <1>1, <1>2
<1>8. IcTypes' /\ IcTable'
  BY <1>1, <1>6, <1>7 DEF IcTypes, IcTable
<1>9. \A d : IcHeld(d)' = IcHeld(d) /\ IcQueues(d)' = IcQueues(d)
  BY <1>6 DEF IcHeld, IcQueues
<1>10. IcWhere(b)'
  <2>1. b \in icfree' /\ IcHeld(b)' = {} /\ ~IcOut(b)' /\ b \notin Range(icsent') /\ IcQueues(b)' = {}
    BY <1>1, <1>4, <1>5, <1>7, <1>9
  <2>2. QED
    BY <2>1 DEF IcWhere, IcIn
<1>11. ASSUME NEW d \in IcBuf, d # b
       PROVE  /\ d \in icfree' <=> d \in icfree
              /\ IcHeld(d)' = IcHeld(d)
              /\ IcOut(d)' <=> IcOut(d)
              /\ d \in Range(icsent') <=> d \in Range(icsent)
              /\ IcQueues(d)' = IcQueues(d)
  BY <1>1, <1>3, <1>5, <1>7, <1>9, <1>11
<1>12. IcOnce'
  BY <1>1, <1>10, <1>11, IcOnceNext
<1>13. IcKnown' /\ IcWoke'
  BY <1>1, <1>6 DEF IcKnown, IcWoke, IcWaitsOn
<1>14. QED
  BY <1>5, <1>8, <1>12, <1>13 DEF IcIInv

\* Nothing of the invariant changes.
LEMMA IcSameOK ==
  ASSUME IcIInv, UNCHANGED <<icmptab, icmsg, iccall, icfree, icpkt, ipoqueue, ipout, icspoilt,
                             ichas, icgot, icsent>>
  PROVE  IcIInv'
<1>1. IcTypes' /\ IcTable' /\ IcOutput'
  BY DEF IcIInv, IcTypes, IcTable, IcOutput
<1>2. \A d : /\ IcHeld(d)' = IcHeld(d) /\ IcQueues(d)' = IcQueues(d)
             /\ IcOut(d)' <=> IcOut(d)
  BY DEF IcHeld, IcQueues, IcOut
<1>3. IcOnce => IcOnce'
  BY <1>2, IcOnceNext
<1>4. IcKnown /\ IcWoke => IcKnown' /\ IcWoke'
  BY DEF IcKnown, IcWoke, IcWaitsOn
<1>5. QED
  BY <1>1, <1>3, <1>4 DEF IcIInv

LEMMA IcConfiguredOK ==
  ASSUME IcIInv, IpConfigured
  PROVE  IcIInv'
<1>1. UNCHANGED <<icmptab, icmsg, iccall, icfree, icpkt, ipoqueue, ipout, icspoilt, ichas, icgot, icsent>>
  BY DEF IpConfigured, icTabVars, icOutVars
<1>2. QED
  BY <1>1, IcSameOK

LEMMA IcSendOK ==
  ASSUME IcIInv, NEW p \in IcProc, NEW ip, NEW s, icmp_send(p, ip, s)
  PROVE  IcIInv'
<1>1. /\ IcTypes /\ icspoilt = "no" /\ ipout.op # "ready" /\ p \in IcActor
      /\ iccall[p] = IcIdle /\ icfree # {} /\ UNCHANGED <<icspoilt, icgot>>
  BY DEF IcIInv, icmp_send, IcRuns, IcActor
<1>2. CASE IcEcho(Min(icfree), 0, s, icfree \ {Min(icfree)}) /\ UNCHANGED iccall
  BY <1>1, <1>2, IcEchoAtOnce
<1>3. CASE /\ iccall' = [iccall EXCEPT ![p] = [op |-> "echo", buf |-> Min(icfree), dst |-> 0, ident |-> s]]
           /\ icfree' = icfree \ {Min(icfree)}
           /\ UNCHANGED <<icTabVars, icOutVars>>
  <2>1. PICK c : c = [op |-> "echo", buf |-> Min(icfree), dst |-> 0, ident |-> s]
    OBVIOUS
  <2>2. c.op \in {"echo", "arp"} /\ c.buf = Min(icfree) /\ iccall' = [iccall EXCEPT ![p] = c]
    BY <1>3, <2>1
  <2>3. /\ UNCHANGED <<icmptab, ichas, icpkt, ipoqueue, ipout, icsent, icspoilt, icgot>>
        /\ icmsg' = icmsg
    BY <1>1, <1>3 DEF icTabVars, icOutVars
  <2>4. IcHolding(p, c)
    BY <1>1, <1>3, <2>2, <2>3 DEF IcHolding
  <2>5. QED
    BY <1>1, <2>4, IcHoldOK
<1>4. CASE /\ iccall' = [iccall EXCEPT ![p] = [op |-> "arp", buf |-> Min(icfree)]]
           /\ icmsg' = [icmsg EXCEPT ![p] = "none"]
           /\ icfree' = icfree \ {Min(icfree)}
           /\ UNCHANGED <<icmptab, ichas, icOutVars>>
  <2>1. PICK c : c = [op |-> "arp", buf |-> Min(icfree)]
    OBVIOUS
  <2>2. c.op \in {"echo", "arp"} /\ c.buf = Min(icfree) /\ iccall' = [iccall EXCEPT ![p] = c]
    BY <1>4, <2>1
  <2>3. /\ UNCHANGED <<icmptab, ichas, icpkt, ipoqueue, ipout, icsent, icspoilt, icgot>>
        /\ icmsg' = [icmsg EXCEPT ![p] = "none"]
    BY <1>1, <1>4 DEF icOutVars
  <2>4. IcHolding(p, c)
    BY <1>1, <1>4, <2>2, <2>3 DEF IcHolding
  <2>5. QED
    BY <1>1, <2>4, IcHoldOK
<1>5. QED
  BY <1>2, <1>3, <1>4 DEF icmp_send

\* The first packet of slot s is taken, whose head is inside the queue.
LEMMA IcDequeueOK ==
  ASSUME IcTypes, IcTable, IcOnce, NEW s \in IcSlot, ichas[s] # <<>>, icmptab[s].head < ICMP_QSIZ,
         IcDequeue(s), UNCHANGED icOutVars, \A c : IcHeld(c)' = IcHeld(c)
  PROVE  /\ IcTable' /\ IcOnce' /\ icfree' \subseteq IcBuf /\ icgot' = "first" /\ icspoilt' = icspoilt
         /\ icmptab'[s].state = "used" /\ icmptab'[s].pid = icmptab[s].pid
         /\ \A t \in IcSlot \ {s} : icmptab'[t] = icmptab[t] /\ ichas'[t] = ichas[t]
<1>1. PICK e, q : e = icmptab[s] /\ q = ichas[s]
  OBVIOUS
<1>2. IcHolds(e, q) /\ e \in IcEntryOf /\ QueueOf(IcBuf, q) /\ q # <<>> /\ e.head < ICMP_QSIZ
  BY <1>1 DEF IcTable, IcHolds
<1>3. e.queue[e.head] = Head(q) /\ IcHolds(IcWithOneLess(e), Tail(q))
  BY <1>2, IcTakeOK
<1>4. Range(Tail(q)) = Range(q) \ {Head(q)} /\ Head(q) \in Range(q)
  BY <1>2, TailMembers
<1>5. PICK b : b = Head(q)
  OBVIOUS
<1>6. b \in IcBuf /\ s \in IcQueues(b)
  <2>1. q \in Seq(IcBuf)
    BY <1>2 DEF QueueOf
  <2>2. Range(q) \subseteq IcBuf
    BY <2>1, MembersAt
  <2>3. QED
    BY <1>1, <1>4, <1>5, <2>2 DEF IcQueues
<1>7. b \notin icfree /\ IcHeld(b) = {} /\ ~IcOut(b) /\ b \notin Range(icsent) /\ IcQueues(b) = {s}
  BY <1>6, IcQueuedAlone
<1>8. e.head \in Nat
  BY <1>2, IcHoldsIs
<1>9. /\ icmptab' = [icmptab EXCEPT ![s].queue[icmptab[s].head] = 0, ![s].head = IcHeadAfter(@),
                                   ![s].count = @ - 1, ![s].state = "used"]
      /\ icfree' = icfree \cup {icmptab[s].queue[icmptab[s].head]}
      /\ icgot' = IF icmptab[s].queue[icmptab[s].head] = Head(ichas[s]) THEN icgot ELSE "other"
      /\ ichas' = [ichas EXCEPT ![s] = Tail(@)]
      /\ UNCHANGED icspoilt
  <2>1. ~(icmptab[s].head >= ICMP_QSIZ)
    BY <1>1, <1>2, <1>8, IcSizes
  <2>2. QED
    BY <2>1 DEF IcDequeue
<1>10. icmptab' = [icmptab EXCEPT ![s] = IcWithOneLess(e)]
  <2>1. icmptab \in [IcSlot -> IcEntryOf] /\ e \in IcEntryOf
    BY <1>2 DEF IcTable
  <2>2. icmptab'[s] = IcWithOneLess(e)
    BY <1>1, <1>9, <2>1 DEF IcEntryOf, IcWithOneLess
  <2>3. \A t \in IcSlot : t # s => icmptab'[t] = icmptab[t]
    BY <1>9, <2>1
  <2>4. DOMAIN icmptab' = IcSlot /\ icmptab' = [t \in IcSlot |-> icmptab'[t]]
    BY <1>9, <2>1
  <2>5. QED
    BY <2>1, <2>2, <2>3, <2>4
<1>11. ichas' = [ichas EXCEPT ![s] = Tail(q)] /\ icfree' = icfree \cup {b} /\ icgot' = "first"
  BY <1>1, <1>3, <1>5, <1>9 DEF IcTypes
<1>12. PICK e2, q2 : e2 = IcWithOneLess(e) /\ q2 = Tail(q)
  OBVIOUS
<1>13. IcHolds(e2, q2) /\ icmptab' = [icmptab EXCEPT ![s] = e2] /\ ichas' = [ichas EXCEPT ![s] = q2]
  BY <1>3, <1>10, <1>11, <1>12
<1>14. /\ IcTable'
       /\ icmptab'[s] = e2 /\ ichas'[s] = q2
       /\ \A t \in IcSlot \ {s} : icmptab'[t] = icmptab[t] /\ ichas'[t] = ichas[t]
  BY <1>13, IcTableNext
<1>15. ASSUME NEW c \in IcBuf
       PROVE  IF c = b THEN IcQueues(c)' = {} ELSE IcQueues(c)' = IcQueues(c)
  <2>1. c \in Range(q2) => IcQueues(c)' = IcQueues(c) \cup {s}
    BY <1>14, IcQueuesOf
  <2>2. c \notin Range(q2) => IcQueues(c)' = IcQueues(c) \ {s}
    BY <1>14, IcQueuesOf
  <2>3. s \in IcQueues(c) <=> c \in Range(q)
    BY <1>1 DEF IcQueues
  <2>4. QED
    BY <1>4, <1>5, <1>7, <1>12, <2>1, <2>2, <2>3
<1>16. icsent' = icsent /\ \A c : IcOut(c)' <=> IcOut(c)
  BY DEF icOutVars, IcOut
<1>17. IcWhere(b)'
  <2>1. b \in icfree' /\ IcHeld(b)' = {} /\ ~IcOut(b)' /\ b \notin Range(icsent') /\ IcQueues(b)' = {}
    BY <1>6, <1>7, <1>11, <1>15, <1>16
  <2>2. QED
    BY <2>1 DEF IcWhere, IcIn
<1>18. ASSUME NEW c \in IcBuf, c # b
       PROVE  /\ c \in icfree' <=> c \in icfree
              /\ IcHeld(c)' = IcHeld(c)
              /\ IcOut(c)' <=> IcOut(c)
              /\ c \in Range(icsent') <=> c \in Range(icsent)
              /\ IcQueues(c)' = IcQueues(c)
  BY <1>11, <1>15, <1>16, <1>18
<1>19. IcOnce'
  BY <1>17, <1>18, IcOnceNext
<1>20. icmptab'[s].state = "used" /\ icmptab'[s].pid = icmptab[s].pid
  BY <1>1, <1>12, <1>14 DEF IcWithOneLess
<1>21. icfree' \subseteq IcBuf
  BY <1>6, <1>11 DEF IcTypes
<1>22. QED
  BY <1>9, <1>11, <1>14, <1>19, <1>20, <1>21

LEMMA IcRegisterOK ==
  ASSUME IcIInv, NEW p \in IcProc, NEW ip \in IcHosts, icmp_register(p, ip)
  PROVE  IcIInv'
<1>1. IcTypes /\ IcTable /\ IcOutput /\ IcOnce /\ IcKnown /\ IcWoke
  BY DEF IcIInv, icmp_register, IcRuns
<1>2. PICK s \in IcSlot : icmptab[s].state = "free" /\ icmptab' = [icmptab EXCEPT ![s] = IcEntry("used", ip)]
  BY DEF icmp_register
<1>3. UNCHANGED <<ipoqueue, ipout, icsent, icmsg, iccall, icfree, icspoilt, ichas, icgot>>
  BY DEF icmp_register, icOutVars
<1>4. ichas[s] = <<>>
  BY <1>1, <1>2 DEF IcTable, IcHolds
<1>5. PICK w : w = IcEntry("used", ip)
  OBVIOUS
<1>6. IcHolds(w, <<>>) /\ w.state = "used" /\ w.pid = -1
  BY <1>5, IcNewOK DEF IcEntry
<1>7. ichas' = [ichas EXCEPT ![s] = <<>>]
  <2>1. ichas \in [IcSlot -> Seq(IcBuf)]
    BY <1>1 DEF IcTable
  <2>2. QED
    BY <1>3, <1>4, <2>1
<1>8. /\ IcTable' /\ icmptab'[s] = w
      /\ \A t \in IcSlot \ {s} : icmptab'[t] = icmptab[t] /\ ichas'[t] = ichas[t]
  BY <1>1, <1>2, <1>5, <1>6, <1>7, IcTableNext
<1>9. IcTypes' /\ IcOutput'
  BY <1>1, <1>3 DEF IcTypes, IcOutput
<1>10. IcOnce'
  <2>1. \A c : /\ IcHeld(c)' = IcHeld(c) /\ IcQueues(c)' = IcQueues(c)
               /\ IcOut(c)' <=> IcOut(c)
    BY <1>3 DEF IcHeld, IcQueues, IcOut
  <2>2. QED
    BY <1>1, <1>3, <2>1, IcOnceNext
<1>11. IcKnown' /\ IcWoke'
  <2>1. \A x \in IcProc, t \in IcSlot : /\ IcWaitsOn(x, t) => IcWaitsOn(x, t)'
                                        /\ IcWaitsOn(x, t)' => IcWaitsOn(x, t)
    BY <1>3 DEF IcWaitsOn
  <2>2. \A x \in IcProc : icmsg[x] # "none" => icmsg'[x] # "none"
    BY <1>3
  <2>3. \A t \in IcSlot :
           \/ icmptab'[t].state = icmptab[t].state /\ icmptab'[t].pid = icmptab[t].pid /\ ichas'[t] = ichas[t]
           \/ icmptab'[t].state # "recv" /\ icmptab'[t].pid = -1
    BY <1>6, <1>8
  <2>4. QED
    BY <1>1, <2>1, <2>2, <2>3, IcWaitersNext
<1>12. QED
  BY <1>8, <1>9, <1>10, <1>11 DEF IcIInv

LEMMA IcReleaseOK ==
  ASSUME IcIInv, NEW p \in IcProc, NEW s \in IcSlot, icmp_release(p, s)
  PROVE  IcIInv'
<1>1. /\ IcTypes /\ IcTable /\ IcOutput /\ IcOnce /\ IcKnown /\ IcWoke
      /\ UNCHANGED <<ipoqueue, ipout, icsent, icmsg, iccall, icgot>>
  BY DEF IcIInv, icmp_release, IcRuns, icOutVars
<1>2. CASE icspoilt' = "past" /\ UNCHANGED <<icmptab, icfree, ichas>>
  <2>1. IcTypes' /\ IcTable' /\ IcOutput'
    BY <1>1, <1>2 DEF IcTypes, IcTable, IcOutput
  <2>2. QED
    BY <1>2, <2>1 DEF IcIInv
<1>3. CASE /\ ~(icmptab[s].head + icmptab[s].count > ICMP_QSIZ)
           /\ icmptab' = [icmptab EXCEPT ![s] = IcEntry("free", -1)]
           /\ icfree' = icfree \cup IcQueued(s)
           /\ ichas' = [ichas EXCEPT ![s] = <<>>]
           /\ UNCHANGED icspoilt
  <2>1. IcHolds(icmptab[s], ichas[s])
    BY <1>1 DEF IcTable
  <2>2. icmptab[s].head + icmptab[s].count <= ICMP_QSIZ
    <3>1. PICK e, q : e = icmptab[s] /\ q = ichas[s]
      OBVIOUS
    <3>2. e.head \in Nat /\ e.count \in Nat
      BY <2>1, <3>1, IcHoldsIs, LenProperties
    <3>3. QED
      BY <1>3, <3>1, <3>2, IcSizes
  <2>3. IcQueued(s) = Range(ichas[s])
    BY <2>1, <2>2, IcQueuedIs
  <2>4. Range(ichas[s]) \subseteq IcBuf
    <3>1. ichas[s] \in Seq(IcBuf)
      BY <1>1 DEF IcTable
    <3>2. QED
      BY <3>1, MembersAt
  <2>5. PICK w, q : w = IcEntry("free", -1) /\ q = <<>>
    OBVIOUS
  <2>6. IcHolds(w, q) /\ w.state = "free" /\ w.pid = -1
    BY <2>5, IcNewOK DEF IcEntry
  <2>7. /\ IcTable' /\ icmptab'[s] = w /\ ichas'[s] = q
        /\ \A t \in IcSlot \ {s} : icmptab'[t] = icmptab[t] /\ ichas'[t] = ichas[t]
    BY <1>1, <1>3, <2>5, <2>6, IcTableNext
  <2>8. icfree' = icfree \cup Range(ichas[s])
    BY <1>3, <2>3
  <2>9. IcTypes' /\ IcOutput'
    BY <1>1, <2>4, <2>8 DEF IcTypes, IcOutput
  <2>10. \A c : IcHeld(c)' = IcHeld(c) /\ (IcOut(c)' <=> IcOut(c))
    BY <1>1 DEF IcHeld, IcOut
  <2>11. \A c : IcQueues(c)' = IcQueues(c) \ {s}
    <3>1. \A c : c \notin Range(q)
      BY <2>5 DEF Range
    <3>2. QED
      BY <2>7, <3>1, IcQueuesOf
  <2>12. ASSUME NEW c \in IcBuf, c \notin Range(ichas[s])
         PROVE  /\ c \in icfree' <=> c \in icfree
                /\ IcHeld(c)' = IcHeld(c)
                /\ IcOut(c)' <=> IcOut(c)
                /\ c \in Range(icsent') <=> c \in Range(icsent)
                /\ IcQueues(c)' = IcQueues(c)
    <3>1. s \notin IcQueues(c)
      BY <2>12 DEF IcQueues
    <3>2. IcQueues(c)' = IcQueues(c)
      BY <2>11, <3>1
    <3>3. QED
      BY <1>1, <2>8, <2>10, <2>12, <3>2
  <2>13. ASSUME NEW c \in IcBuf, c \in Range(ichas[s])
         PROVE  IcWhere(c)'
    <3>1. s \in IcQueues(c)
      BY <2>13 DEF IcQueues
    <3>2. c \notin icfree /\ IcHeld(c) = {} /\ ~IcOut(c) /\ c \notin Range(icsent) /\ IcQueues(c) = {s}
      BY <1>1, <3>1, IcQueuedAlone
    <3>3. IcQueues(c)' = {}
      BY <2>11, <3>2
    <3>4. c \in icfree' /\ IcHeld(c)' = {} /\ ~IcOut(c)' /\ c \notin Range(icsent')
      BY <1>1, <2>8, <2>10, <2>13, <3>2
    <3>5. QED
      BY <3>3, <3>4 DEF IcWhere, IcIn
  <2>14. IcOnce'
    BY <1>1, <2>12, <2>13, IcOnceNext
  <2>15. IcKnown' /\ IcWoke'
    <3>1. \A x \in IcProc, t \in IcSlot : /\ IcWaitsOn(x, t) => IcWaitsOn(x, t)'
                                          /\ IcWaitsOn(x, t)' => IcWaitsOn(x, t)
      BY <1>1 DEF IcWaitsOn
    <3>2. \A x \in IcProc : icmsg[x] # "none" => icmsg'[x] # "none"
      BY <1>1
    <3>3. \A t \in IcSlot :
             \/ icmptab'[t].state = icmptab[t].state /\ icmptab'[t].pid = icmptab[t].pid /\ ichas'[t] = ichas[t]
             \/ icmptab'[t].state # "recv" /\ icmptab'[t].pid = -1
      BY <2>6, <2>7
    <3>4. QED
      BY <1>1, <3>1, <3>2, <3>3, IcWaitersNext
  <2>16. QED
    BY <2>7, <2>9, <2>14, <2>15 DEF IcIInv
<1>4. QED
  BY <1>2, <1>3 DEF icmp_release

\* No buffer moves.
LEMMA IcOnceKept ==
  ASSUME IcOnce, UNCHANGED <<icfree, ipout, icsent, ichas>>, \A c : IcHeld(c)' = IcHeld(c)
  PROVE  IcOnce'
<1>1. \A c : /\ IcQueues(c)' = IcQueues(c)
             /\ IcOut(c)' <=> IcOut(c)
  BY DEF IcQueues, IcOut
<1>2. QED
  BY <1>1, IcOnceNext

\* Only the state of an entry and the process that waits change.
LEMMA IcMarked ==
  ASSUME IcTable, NEW s \in IcSlot, NEW state \in {"used", "recv"}, NEW p \in IcProc \cup {-1},
         icmptab' = [icmptab EXCEPT ![s].state = state, ![s].pid = p], UNCHANGED ichas
  PROVE  /\ IcTable'
         /\ icmptab'[s].state = state /\ icmptab'[s].pid = p
         /\ \A t \in IcSlot \ {s} : icmptab'[t] = icmptab[t]
<1>1. PICK e, q : e = icmptab[s] /\ q = ichas[s]
  OBVIOUS
<1>2. IcHolds(e, q) /\ e \in IcEntryOf
  BY <1>1 DEF IcTable, IcHolds
<1>3. PICK w : w = [e EXCEPT !.state = state, !.pid = p]
  OBVIOUS
<1>4. IcHolds(w, q) /\ w.state = state /\ w.pid = p
  BY <1>2, <1>3, IcMarkOK DEF IcEntryOf
<1>5. icmptab \in [IcSlot -> IcEntryOf] /\ ichas \in [IcSlot -> Seq(IcBuf)]
  BY DEF IcTable
<1>6. icmptab' = [icmptab EXCEPT ![s] = w]
  <2>1. icmptab'[s] = w
    BY <1>1, <1>2, <1>3, <1>5 DEF IcEntryOf
  <2>2. \A t \in IcSlot : t # s => icmptab'[t] = icmptab[t]
    BY <1>5
  <2>3. DOMAIN icmptab' = IcSlot /\ icmptab' = [t \in IcSlot |-> icmptab'[t]]
    BY <1>5
  <2>4. QED
    BY <1>5, <2>1, <2>2, <2>3
<1>7. ichas' = [ichas EXCEPT ![s] = q]
  BY <1>1, <1>5
<1>8. IcTable' /\ icmptab'[s] = w /\ \A t \in IcSlot \ {s} : icmptab'[t] = icmptab[t]
  BY <1>4, <1>6, <1>7, IcTableNext
<1>9. QED
  BY <1>4, <1>8

LEMMA IcRecvOK ==
  ASSUME IcIInv, NEW p \in IcProc, NEW s \in IcSlot, icmp_recv(p, s)
  PROVE  IcIInv'
<1>1. /\ IcTypes /\ IcTable /\ IcOutput /\ IcOnce /\ IcKnown /\ IcWoke
      /\ iccall[p] = IcIdle /\ icmptab[s].state = "used" /\ p \in IcActor
      /\ UNCHANGED icOutVars
  BY DEF IcIInv, icmp_recv, IcRuns, IcActor
<1>2. /\ IcHolds(icmptab[s], ichas[s]) /\ icmptab[s].count = Len(ichas[s]) /\ ichas[s] \in Seq(IcBuf)
      /\ icmptab[s].head \in Nat
  <2>1. PICK e, q : e = icmptab[s] /\ q = ichas[s]
    OBVIOUS
  <2>2. IcHolds(e, q)
    BY <1>1, <2>1 DEF IcTable
  <2>3. e.head \in Nat /\ e.count = Len(q) /\ q \in Seq(IcBuf)
    BY <2>2, IcHoldsIs
  <2>4. QED
    BY <2>1, <2>2, <2>3
<1>3. UNCHANGED <<ipoqueue, ipout, icsent>>
  BY <1>1 DEF icOutVars
<1>4. IcOutput'
  BY <1>1, <1>3 DEF IcOutput
<1>5. CASE icmptab[s].count # 0 /\ IcDequeue(s) /\ UNCHANGED <<icmsg, iccall>>
  <2>1. ichas[s] # <<>>
    BY <1>2, <1>5, EmptySeq
  <2>2. \A c : IcHeld(c)' = IcHeld(c)
    BY <1>5 DEF IcHeld
  <2>3. CASE icmptab[s].head >= ICMP_QSIZ
    <3>1. icspoilt' = "past" /\ UNCHANGED <<icmptab, icfree, ichas, icgot>>
      BY <1>5, <2>3 DEF IcDequeue
    <3>2. IcTypes' /\ IcTable'
      BY <1>1, <1>5, <3>1 DEF IcTypes, IcTable
    <3>3. QED
      BY <1>4, <3>1, <3>2 DEF IcIInv
  <2>4. CASE ~(icmptab[s].head >= ICMP_QSIZ)
    <3>1. icmptab[s].head < ICMP_QSIZ
      BY <1>2, <2>4, IcSizes
    <3>2. /\ IcTable' /\ IcOnce' /\ icfree' \subseteq IcBuf /\ icgot' = "first"
          /\ icmptab'[s].state = "used" /\ icmptab'[s].pid = icmptab[s].pid
          /\ \A t \in IcSlot \ {s} : icmptab'[t] = icmptab[t] /\ ichas'[t] = ichas[t]
      BY <1>1, <1>5, <2>1, <2>2, <3>1, IcDequeueOK
    <3>3. IcTypes'
      BY <1>1, <1>5, <3>2 DEF IcTypes
    <3>4. IcKnown' /\ IcWoke'
      <4>1. \A x \in IcProc, t \in IcSlot : /\ IcWaitsOn(x, t) => IcWaitsOn(x, t)'
                                            /\ IcWaitsOn(x, t)' => IcWaitsOn(x, t)
        BY <1>5 DEF IcWaitsOn
      <4>2. \A x \in IcProc : icmsg[x] # "none" => icmsg'[x] # "none"
        BY <1>5
      <4>3. \A t \in IcSlot :
               \/ icmptab'[t].state = icmptab[t].state /\ icmptab'[t].pid = icmptab[t].pid /\ ichas'[t] = ichas[t]
               \/ icmptab'[t].state = "used" /\ icmptab[t].state = "used" /\ icmptab'[t].pid = icmptab[t].pid
        BY <1>1, <3>2
      <4>4. QED
        BY <1>1, <4>1, <4>2, <4>3, IcWaitersNext
    <3>5. QED
      BY <1>4, <3>2, <3>3, <3>4 DEF IcIInv
  <2>5. QED
    BY <2>3, <2>4
<1>6. CASE /\ icmptab[s].count = 0
           /\ icmptab' = [icmptab EXCEPT ![s].state = "recv", ![s].pid = p]
           /\ icmsg' = [icmsg EXCEPT ![p] = "none"]
           /\ iccall' = [iccall EXCEPT ![p] = [op |-> "recv", slot |-> s]]
           /\ UNCHANGED <<icfree, icspoilt, ichas, icgot>>
  <2>1. ichas[s] = <<>>
    BY <1>2, <1>6, EmptySeq
  <2>2. icmsg \in [IcProc -> {"none", "ok", "other"}] /\ DOMAIN iccall = IcActor
    BY <1>1 DEF IcTypes
  <2>3. iccall'[p] = [op |-> "recv", slot |-> s] /\ \A x \in IcActor : x # p => iccall'[x] = iccall[x]
    BY <1>1, <1>6, <2>2
  <2>4. IcTypes'
    <3>1. \A x \in IcActor : IcCallOK(iccall'[x])
      BY <1>1, <2>3 DEF IcTypes, IcCallOK
    <3>2. DOMAIN iccall' = IcActor /\ icmsg' \in [IcProc -> {"none", "ok", "other"}]
      BY <1>6, <2>2
    <3>3. QED
      BY <1>1, <1>6, <3>1, <3>2 DEF IcTypes
  <2>5. \A c : IcHeld(c)' = IcHeld(c)
    <3>1. iccall[p].op \notin {"echo", "arp"} /\ iccall'[p].op \notin {"echo", "arp"}
      BY <1>1, <2>3 DEF IcIdle
    <3>2. QED
      BY <2>3, <3>1, IcHeldKept
  <2>6. /\ IcTable'
        /\ icmptab'[s].state = "recv" /\ icmptab'[s].pid = p
        /\ \A t \in IcSlot \ {s} : icmptab'[t] = icmptab[t]
    BY <1>1, <1>6, IcMarked
  <2>7. IcOnce'
    BY <1>1, <1>3, <1>6, <2>5, IcOnceKept
  <2>8. \A x \in IcProc, t \in IcSlot : x # p => (IcWaitsOn(x, t)' <=> IcWaitsOn(x, t))
    BY <2>3 DEF IcWaitsOn, IcActor
  <2>9. IcWaitsOn(p, s)' /\ \A t \in IcSlot : IcWaitsOn(p, t)' => t = s
    BY <2>3 DEF IcWaitsOn
  <2>10. \A t \in IcSlot : ~IcWaitsOn(p, t)
    BY <1>1 DEF IcWaitsOn, IcIdle
  <2>11. ASSUME NEW t \in IcSlot, icmptab'[t].state = "recv"
         PROVE  ichas'[t] = <<>> /\ icmptab'[t].pid \in IcProc /\ iccall'[icmptab'[t].pid] = [op |-> "recv", slot |-> t]
    <3>1. CASE t = s
      BY <1>6, <2>1, <2>3, <2>6, <3>1
    <3>2. CASE t # s
      <4>1. ichas[t] = <<>> /\ icmptab[t].pid \in IcProc /\ IcWaitsOn(icmptab[t].pid, t)
        BY <1>1, <2>6, <2>11, <3>2 DEF IcKnown
      <4>2. PICK x \in IcProc : x = icmptab[t].pid
        BY <4>1
      <4>3. x # p /\ x \in IcActor
        BY <2>10, <4>1, <4>2 DEF IcActor
      <4>4. iccall'[x] = iccall[x] /\ icmptab'[t].pid = x
        BY <2>3, <2>6, <3>2, <4>2, <4>3
      <4>5. QED
        BY <1>6, <4>1, <4>2, <4>4 DEF IcWaitsOn
    <3>3. QED
      BY <3>1, <3>2
  <2>12. ASSUME NEW x \in IcProc, NEW t \in IcSlot,
                IcWaitsOn(x, t)', icmptab'[t].pid = x, icmptab'[t].state = "used"
         PROVE  icmsg'[x] # "none"
    <3>1. t # s
      BY <2>6, <2>12
    <3>2. x # p
      BY <2>9, <2>12, <3>1
    <3>3. IcWaitsOn(x, t) /\ icmptab[t].pid = x /\ icmptab[t].state = "used"
      BY <2>6, <2>8, <2>12, <3>1, <3>2
    <3>4. icmsg[x] # "none" /\ icmsg'[x] = icmsg[x]
      BY <1>1, <1>6, <2>2, <3>2, <3>3 DEF IcWoke
    <3>5. QED
      BY <3>4
  <2>13. IcKnown'
    BY <2>11 DEF IcKnown, IcWaitsOn
  <2>14. IcWoke'
    BY <2>12 DEF IcWoke
  <2>15. QED
    BY <1>4, <2>4, <2>6, <2>7, <2>13, <2>14 DEF IcIInv
<1>7. QED
  BY <1>5, <1>6 DEF icmp_recv

\* The process p has ended its wait in slot s, which is in use.
LEMMA IcWaitOver ==
  ASSUME IcTypes, IcTable, IcKnown, IcWoke, NEW p \in IcProc, NEW s \in IcSlot, IcWaitsOn(p, s),
         iccall' = [iccall EXCEPT ![p] = IcIdle], icmsg' = [icmsg EXCEPT ![p] = "none"],
         icmptab'[s].state = "used", icmptab'[s].pid = icmptab[s].pid,
         icmptab[s].state = "used" \/ icmptab[s].pid = p,
         \A t \in IcSlot \ {s} : icmptab'[t] = icmptab[t] /\ ichas'[t] = ichas[t]
  PROVE  IcKnown' /\ IcWoke'
<1>1. DOMAIN iccall = IcActor /\ icmsg \in [IcProc -> {"none", "ok", "other"}] /\ p \in IcActor
  BY DEF IcTypes, IcActor
<1>2. /\ iccall'[p] = IcIdle
      /\ \A x \in IcProc : x # p => iccall'[x] = iccall[x] /\ icmsg'[x] = icmsg[x]
  BY <1>1 DEF IcActor
<1>3. \A t \in IcSlot : ~IcWaitsOn(p, t)'
  BY <1>2 DEF IcWaitsOn, IcIdle
<1>4. \A x \in IcProc, t \in IcSlot : IcWaitsOn(x, t)' => x # p /\ IcWaitsOn(x, t)
  BY <1>2, <1>3 DEF IcWaitsOn
<1>5. \A t \in IcSlot : IcWaitsOn(p, t) => t = s
  BY DEF IcWaitsOn
<1>6. ASSUME NEW t \in IcSlot, icmptab'[t].state = "recv"
      PROVE  ichas'[t] = <<>> /\ icmptab'[t].pid \in IcProc /\ iccall'[icmptab'[t].pid] = [op |-> "recv", slot |-> t]
  <2>1. t # s
    BY <1>6
  <2>2. ichas[t] = <<>> /\ icmptab[t].pid \in IcProc /\ IcWaitsOn(icmptab[t].pid, t)
    BY <1>6, <2>1 DEF IcKnown
  <2>3. PICK x \in IcProc : x = icmptab[t].pid
    BY <2>2
  <2>4. x # p
    BY <1>5, <2>1, <2>2, <2>3
  <2>5. iccall'[x] = iccall[x] /\ icmptab'[t].pid = x /\ ichas'[t] = ichas[t]
    BY <1>2, <2>1, <2>3, <2>4
  <2>6. QED
    BY <2>2, <2>3, <2>5 DEF IcWaitsOn
<1>7. ASSUME NEW x \in IcProc, NEW t \in IcSlot,
             IcWaitsOn(x, t)', icmptab'[t].pid = x, icmptab'[t].state = "used"
      PROVE  icmsg'[x] # "none"
  <2>1. x # p /\ IcWaitsOn(x, t)
    BY <1>4, <1>7
  <2>2. icmptab[t].pid = x /\ icmptab[t].state = "used"
    BY <1>7, <2>1
  <2>3. icmsg[x] # "none"
    BY <2>1, <2>2 DEF IcWoke
  <2>4. QED
    BY <1>2, <2>1, <2>3
<1>8. IcKnown'
  BY <1>6 DEF IcKnown, IcWaitsOn
<1>9. IcWoke'
  BY <1>7 DEF IcWoke
<1>10. QED
  BY <1>8, <1>9

LEMMA IcWokenOK ==
  ASSUME IcIInv, NEW p \in IcProc, IcWoken(p)
  PROVE  IcIInv'
<1>1. /\ IcTypes /\ IcTable /\ IcOutput /\ IcOnce /\ IcKnown /\ IcWoke
      /\ iccall[p].op = "recv" /\ icspoilt = "no" /\ p \in IcActor
      /\ iccall' = [iccall EXCEPT ![p] = IcIdle] /\ icmsg' = [icmsg EXCEPT ![p] = "none"]
      /\ UNCHANGED icOutVars
  BY DEF IcIInv, IcWoken, IcActor
<1>2. DOMAIN iccall = IcActor /\ icmsg \in [IcProc -> {"none", "ok", "other"}]
  BY <1>1 DEF IcTypes
<1>3. PICK s \in IcSlot : s = iccall[p].slot /\ IcWaitsOn(p, s)
  <2>1. IcCallOK(iccall[p])
    BY <1>1 DEF IcTypes
  <2>2. PICK c : c = iccall[p]
    OBVIOUS
  <2>3. c # IcIdle /\ c.op \notin {"echo", "arp"}
    BY <1>1, <2>2 DEF IcIdle
  <2>4. PICK s \in IcSlot : c = [op |-> "recv", slot |-> s]
    BY <2>1, <2>2, <2>3 DEF IcCallOK
  <2>5. c.slot = s
    BY <2>4
  <2>6. QED
    BY <2>2, <2>4, <2>5 DEF IcWaitsOn
<1>4. iccall'[p] = IcIdle /\ \A x \in IcActor : x # p => iccall'[x] = iccall[x]
  BY <1>1, <1>2
<1>5. \A c : IcHeld(c)' = IcHeld(c)
  <2>1. iccall[p].op \notin {"echo", "arp"} /\ iccall'[p].op \notin {"echo", "arp"}
    BY <1>1, <1>4 DEF IcIdle
  <2>2. QED
    BY <1>4, <2>1, IcHeldKept
<1>6. /\ DOMAIN iccall' = IcActor /\ \A x \in IcActor : IcCallOK(iccall'[x])
      /\ icmsg' \in [IcProc -> {"none", "ok", "other"}]
  <2>1. \A x \in IcActor : IcCallOK(iccall'[x])
    BY <1>1, <1>4 DEF IcTypes, IcCallOK
  <2>2. QED
    BY <1>1, <1>2, <2>1
<1>7. UNCHANGED <<ipoqueue, ipout, icsent>>
  BY <1>1 DEF icOutVars
<1>8. IcOutput'
  BY <1>1, <1>7 DEF IcOutput
<1>9. icmptab[s] \in IcEntryOf /\ icmptab[s].head \in Nat
  <2>1. PICK e, q : e = icmptab[s] /\ q = ichas[s]
    OBVIOUS
  <2>2. IcHolds(e, q)
    BY <1>1, <2>1 DEF IcTable
  <2>3. QED
    BY <2>1, <2>2, IcHoldsIs
<1>10. CASE icmptab[s].state # "free" /\ ichas[s] # <<>> /\ IcDequeue(s)
  <2>1. CASE icmptab[s].head >= ICMP_QSIZ
    <3>1. icspoilt' = "past" /\ UNCHANGED <<icmptab, icfree, ichas, icgot>>
      BY <1>10, <2>1 DEF IcDequeue
    <3>2. IcTypes' /\ IcTable'
      BY <1>1, <1>6, <3>1 DEF IcTypes, IcTable
    <3>3. QED
      BY <1>8, <3>1, <3>2 DEF IcIInv
  <2>2. CASE ~(icmptab[s].head >= ICMP_QSIZ)
    <3>1. icmptab[s].head < ICMP_QSIZ
      BY <1>9, <2>2, IcSizes
    <3>2. /\ IcTable' /\ IcOnce' /\ icfree' \subseteq IcBuf /\ icgot' = "first"
          /\ icmptab'[s].state = "used" /\ icmptab'[s].pid = icmptab[s].pid
          /\ \A t \in IcSlot \ {s} : icmptab'[t] = icmptab[t] /\ ichas'[t] = ichas[t]
      BY <1>1, <1>5, <1>10, <3>1, IcDequeueOK
    <3>3. icmptab[s].state = "used"
      <4>1. icmptab[s].state # "recv"
        BY <1>1, <1>10 DEF IcKnown
      <4>2. icmptab[s].state \in {"free", "used", "recv"}
        BY <1>9, IcEntryFields
      <4>3. QED
        BY <1>10, <4>1, <4>2
    <3>4. IcKnown' /\ IcWoke'
      BY <1>1, <1>3, <3>2, <3>3, IcWaitOver
    <3>5. IcTypes'
      BY <1>6, <3>2 DEF IcTypes
    <3>6. QED
      BY <1>8, <3>2, <3>4, <3>5 DEF IcIInv
  <2>3. QED
    BY <2>1, <2>2
<1>11. CASE /\ icmptab' = [icmptab EXCEPT ![s].state = IcWaited(s)]
            /\ icspoilt' = IF icmptab[s].state = "free" \/ icmptab[s].pid # p THEN "lost"
                           ELSE IF icmsg[p] = "ok" THEN "taken" ELSE "no"
            /\ UNCHANGED <<icfree, ichas, icgot>>
  <2>1. PICK e, y : e = icmptab[s] /\ y = e.pid /\ y \in IcProc \cup {-1} /\ e \in IcEntryOf
    BY <1>9, IcEntryFields
  <2>2. icmptab' = [icmptab EXCEPT ![s].state = "used", ![s].pid = y]
    <3>1. icmptab \in [IcSlot -> IcEntryOf]
      BY <1>1 DEF IcTable
    <3>2. [e EXCEPT !.state = "used", !.pid = y] = [e EXCEPT !.state = "used"]
      BY <2>1 DEF IcEntryOf
    <3>3. QED
      BY <1>11, <2>1, <3>1, <3>2 DEF IcWaited
  <2>3. /\ IcTable'
        /\ icmptab'[s].state = "used" /\ icmptab'[s].pid = y
        /\ \A t \in IcSlot \ {s} : icmptab'[t] = icmptab[t]
    BY <1>1, <1>11, <2>1, <2>2, IcMarked
  <2>4. IcOnce'
    BY <1>1, <1>5, <1>7, <1>11, IcOnceKept
  <2>5. IcTypes'
    BY <1>1, <1>6, <1>11 DEF IcTypes
  <2>6. ASSUME icspoilt' = "no"
        PROVE  IcKnown' /\ IcWoke'
    <3>1. icmptab[s].pid = p
      BY <1>11, <2>6
    <3>2. icmptab'[s].pid = icmptab[s].pid /\ \A t \in IcSlot \ {s} : icmptab'[t] = icmptab[t] /\ ichas'[t] = ichas[t]
      BY <1>11, <2>1, <2>3
    <3>3. QED
      BY <1>1, <1>3, <2>3, <3>1, <3>2, IcWaitOver
  <2>7. QED
    BY <1>8, <2>3, <2>4, <2>5, <2>6 DEF IcIInv
<1>12. QED
  BY <1>3, <1>10, <1>11 DEF IcWoken

LEMMA IcStrayOK ==
  ASSUME IcIInv, NEW p \in IcProc, IcStray(p)
  PROVE  IcIInv'
<1>1. /\ IcTypes /\ IcTable /\ IcOutput /\ IcOnce /\ IcKnown /\ IcWoke
      /\ icmsg' = [icmsg EXCEPT ![p] = "other"]
      /\ UNCHANGED <<icmptab, ichas, ipoqueue, ipout, icsent, iccall, icfree, icspoilt, icgot>>
  BY DEF IcIInv, IcStray, icOutVars
<1>2. IcTypes' /\ IcTable' /\ IcOutput'
  BY <1>1 DEF IcTypes, IcTable, IcOutput
<1>3. IcOnce'
  <2>1. \A c : IcHeld(c)' = IcHeld(c)
    BY <1>1 DEF IcHeld
  <2>2. QED
    BY <1>1, <2>1, IcOnceKept
<1>4. IcKnown' /\ IcWoke'
  <2>1. \A x \in IcProc, t \in IcSlot : /\ IcWaitsOn(x, t) => IcWaitsOn(x, t)'
                                        /\ IcWaitsOn(x, t)' => IcWaitsOn(x, t)
    BY <1>1 DEF IcWaitsOn
  <2>2. \A x \in IcProc : icmsg[x] # "none" => icmsg'[x] # "none"
    BY <1>1 DEF IcTypes
  <2>3. \A t \in IcSlot :
           icmptab'[t].state = icmptab[t].state /\ icmptab'[t].pid = icmptab[t].pid /\ ichas'[t] = ichas[t]
    BY <1>1
  <2>4. QED
    BY <1>1, <2>1, <2>2, <2>3, IcWaitersNext
<1>5. QED
  BY <1>2, <1>3, <1>4 DEF IcIInv

-----------------------------------------------------------------------------
(* ICMP: the theorem.                                                      *)

LEMMA IcInitOK == IcInit => IcIInv
<1> SUFFICES ASSUME IcInit PROVE IcIInv
  OBVIOUS
<1>1. IcTypes
  BY DEF IcInit, IcTypes, IcCallOK
<1>2. IcTable
  <2>1. PICK w : w = IcEntry("free", -1)
    OBVIOUS
  <2>2. IcHolds(w, <<>>)
    BY <2>1, IcNewOK
  <2>3. icmptab = [s \in IcSlot |-> w] /\ ichas = [s \in IcSlot |-> <<>>]
    BY <2>1 DEF IcInit
  <2>4. w \in IcEntryOf /\ <<>> \in Seq(IcBuf)
    BY <2>2 DEF IcHolds
  <2>5. QED
    BY <2>2, <2>3, <2>4 DEF IcTable
<1>3. IcOutput
  <2>1. PICK N, e, q : N = IP_OQSIZ /\ e = ipoqueue /\ q = icsent
    OBVIOUS
  <2>2. /\ e = [head |-> 0, tail |-> 0, count |-> -1, buf |-> [i \in 0 .. N - 1 |-> 0]]
        /\ q = <<>> /\ ipout = [op |-> "waits"]
    BY <2>1 DEF IcInit
  <2>3. N \in Nat \ {0} /\ 0 \in 0 .. N - 1
    BY <2>1, IcSizes
  <2>4. e \in IpQueueOf
    BY <2>1, <2>2, <2>3 DEF IpQueueOf
  <2>5. QueueOf(IcBuf, q) /\ Len(q) = 0
    BY <2>2 DEF QueueOf, IsInjective
  <2>6. RingTurn(N, 0, 0) = 0
    BY <2>3, RingTurns
  <2>7. RingHolds(N, e.buf, e.head, q)
    <3>1. DOMAIN e.buf = 0 .. N - 1
      BY <2>2
    <3>2. QED
      BY <2>3, <2>5, <3>1 DEF RingHolds
  <2>8. e.tail = RingTurn(N, e.head, Len(q))
    BY <2>2, <2>5, <2>6
  <2>9. IpHolds(e, q)
    BY <2>1, <2>4, <2>5, <2>7, <2>8 DEF IpHolds
  <2>10. IpoutIs(ipout, ipoqueue.count, icsent)
    BY <2>1, <2>2 DEF IpoutIs
  <2>11. QED
    BY <2>1, <2>9, <2>10 DEF IcOutput
<1>4. ASSUME NEW b \in IcBuf
      PROVE  IcWhere(b)
  <2>1. b \in icfree /\ (\A a \in IcActor : iccall[a].op = "idle") /\ icsent = <<>> /\ ipout.op = "waits"
    BY DEF IcInit, IcIdle
  <2>2. \A s \in IcSlot : ichas[s] = <<>>
    BY DEF IcInit
  <2>3. b \notin Range(<<>>)
    BY DEF Range
  <2>4. IcHeld(b) = {} /\ ~IcOut(b) /\ IcQueues(b) = {}
    BY <2>1, <2>2, <2>3 DEF IcHeld, IcOut, IcQueues
  <2>5. QED
    BY <2>1, <2>3, <2>4 DEF IcWhere, IcIn
<1>5. IcOnce
  BY <1>4 DEF IcOnce
<1>6. \A s \in IcSlot : icmptab[s].state = "free"
  BY DEF IcInit, IcEntry
<1>7. IcKnown /\ IcWoke
  BY <1>6 DEF IcKnown, IcWoke
<1>8. QED
  BY <1>1, <1>2, <1>3, <1>5, <1>7 DEF IcIInv

LEMMA IcNextOK == IcIInv /\ [IcNext]_icVars => IcIInv'
<1> SUFFICES ASSUME IcIInv, [IcNext]_icVars PROVE IcIInv'
  OBVIOUS
<1>1. ASSUME NEW h \in IcHosts \ {0}, NEW i \in IcIdents, NEW type \in {"request", "reply"}, ip_in(h, i, type)
      PROVE  IcIInv'
  BY <1>1, IcInOK
<1>2. ASSUME NEW a \in IcActor, IcEchoGoesOn(a)
      PROVE  IcIInv'
  BY <1>2, IcGoesOnOK
<1>3. CASE IpConfigured
  BY <1>3, IcConfiguredOK
<1>4. CASE ipout_takes
  BY <1>4, IcTakesOK
<1>5. CASE ip_out
  BY <1>5, IcOutOK
<1>6. ASSUME NEW p \in IcProc, NEW ip \in IcHosts, icmp_register(p, ip)
      PROVE  IcIInv'
  BY <1>6, IcRegisterOK
<1>7. ASSUME NEW p \in IcProc, NEW s \in IcSlot, icmp_recv(p, s)
      PROVE  IcIInv'
  BY <1>7, IcRecvOK
<1>8. ASSUME NEW p \in IcProc, NEW s \in IcSlot, icmp_release(p, s)
      PROVE  IcIInv'
  BY <1>8, IcReleaseOK
<1>9. ASSUME NEW p \in IcProc, NEW s \in IcSlot, icmp_send(p, icmptab[s].remip, s)
      PROVE  IcIInv'
  <2>1. PICK ip : ip = icmptab[s].remip
    OBVIOUS
  <2>2. icmp_send(p, ip, s)
    BY <1>9, <2>1
  <2>3. QED
    BY <2>2, IcSendOK
<1>10. ASSUME NEW p \in IcProc, IcSent(p)
       PROVE  IcIInv'
  BY <1>10, IcSentOK
<1>11. ASSUME NEW p \in IcProc, IcWoken(p)
       PROVE  IcIInv'
  BY <1>11, IcWokenOK
<1>12. ASSUME NEW p \in IcProc, IcStray(p)
       PROVE  IcIInv'
  BY <1>12, IcStrayOK
<1>13. CASE UNCHANGED icVars
  <2>1. UNCHANGED <<icmptab, icmsg, iccall, icfree, icpkt, ipoqueue, ipout, icspoilt, ichas, icgot, icsent>>
    BY <1>13 DEF icVars
  <2>2. QED
    BY <2>1, IcSameOK
<1>14. QED
  BY <1>1, <1>2, <1>3, <1>4, <1>5, <1>6, <1>7, <1>8, <1>9, <1>10, <1>11, <1>12, <1>13 DEF IcNext

\* The places of the property.
LEMMA IcPlacesAlone ==
  ASSUME IcIInv, icspoilt = "no", NEW b \in IcBuf
  PROVE  \E x : IcPlaces(b) = {x}
<1>1. IcTable /\ IcOutput /\ IcWhere(b)
  BY DEF IcIInv, IcOnce
<1>2. PICK F, H, O, S, Q :
        /\ F = {x \in {<<"free">>} : b \in icfree}
        /\ H = {<<"held", a>> : a \in IcHeld(b)}
        /\ O = {x \in {<<"out">>} : IcOut(b)}
        /\ S = {<<"sent", i>> : i \in {j \in DOMAIN icsent : icsent[j] = b}}
        /\ Q = UNION {{<<"queued", s, i>> : i \in {j \in DOMAIN ichas[s] : ichas[s][j] = b}} : s \in IcSlot}
  OBVIOUS
<1>3. IcPlaces(b) = F \cup H \cup O \cup S \cup Q
  BY <1>2 DEF IcPlaces, IcHeld, IcOut
<1>4. \A s \in IcSlot : /\ DOMAIN ichas[s] = 1 .. Len(ichas[s])
                        /\ \A i, j \in 1 .. Len(ichas[s]) : ichas[s][i] = ichas[s][j] => i = j
                        /\ b \in Range(ichas[s]) <=> \E i \in 1 .. Len(ichas[s]) : ichas[s][i] = b
  <2>1. TAKE s \in IcSlot
  <2>2. PICK q : q = ichas[s] /\ QueueOf(IcBuf, q)
    BY <1>1 DEF IcTable, IcHolds
  <2>3. DOMAIN q = 1 .. Len(q)
    BY <2>2, LenProperties DEF QueueOf
  <2>4. Range(q) = {q[j] : j \in 1 .. Len(q)} /\ \A i, j \in 1 .. Len(q) : q[i] = q[j] => i = j
    BY <2>2, MembersAt DEF QueueOf
  <2>5. b \in Range(q) <=> \E i \in 1 .. Len(q) : q[i] = b
    BY <2>4
  <2>6. QED
    BY <2>2, <2>3, <2>4, <2>5
<1>5. \A x : x \in Q <=> \E s \in IcSlot : \E i \in 1 .. Len(ichas[s]) : ichas[s][i] = b /\ x = <<"queued", s, i>>
  BY <1>2, <1>4
<1>6. \A s \in IcSlot : s \in IcQueues(b) <=> \E i \in 1 .. Len(ichas[s]) : ichas[s][i] = b
  <2>1. TAKE s \in IcSlot
  <2>2. s \in IcQueues(b) <=> b \in Range(ichas[s])
    BY DEF IcQueues
  <2>3. QED
    BY <1>4, <2>2
<1>7. IcQueues(b) = {} => Q = {}
  BY <1>5, <1>6
<1>8. ASSUME NEW s, IcQueues(b) = {s}
      PROVE  \E x : Q = {x}
  <2>1. s \in IcSlot
    BY <1>8 DEF IcQueues
  <2>2. PICK i \in 1 .. Len(ichas[s]) : ichas[s][i] = b
    BY <1>6, <1>8, <2>1
  <2>3. \A x : x \in Q <=> x = <<"queued", s, i>>
    BY <1>4, <1>5, <1>6, <1>8, <2>1, <2>2
  <2>4. Q = {<<"queued", s, i>>}
    BY <2>3
  <2>5. QED
    BY <2>4
<1>9. IcHeld(b) = {} => H = {}
  BY <1>2
<1>10. ASSUME NEW a, IcHeld(b) = {a}
       PROVE  \E x : H = {x}
  <2>1. H = {<<"held", x>> : x \in {a}}
    BY <1>2, <1>10
  <2>2. H = {<<"held", a>>}
    BY <2>1
  <2>3. QED
    BY <2>2
<1>11. /\ DOMAIN icsent = 1 .. Len(icsent)
       /\ \A i, j \in 1 .. Len(icsent) : icsent[i] = icsent[j] => i = j
       /\ b \in Range(icsent) <=> \E i \in 1 .. Len(icsent) : icsent[i] = b
  <2>1. PICK q : q = icsent /\ QueueOf(IcBuf, q)
    BY <1>1 DEF IcOutput, IpHolds
  <2>2. DOMAIN q = 1 .. Len(q)
    BY <2>1, LenProperties DEF QueueOf
  <2>3. Range(q) = {q[j] : j \in 1 .. Len(q)} /\ \A i, j \in 1 .. Len(q) : q[i] = q[j] => i = j
    BY <2>1, MembersAt DEF QueueOf
  <2>4. b \in Range(q) <=> \E i \in 1 .. Len(q) : q[i] = b
    BY <2>3
  <2>5. QED
    BY <2>1, <2>2, <2>3, <2>4
<1>12. \A x : x \in S <=> \E i \in 1 .. Len(icsent) : icsent[i] = b /\ x = <<"sent", i>>
  BY <1>2, <1>11
<1>13. b \notin Range(icsent) => S = {}
  BY <1>11, <1>12
<1>14. ASSUME b \in Range(icsent)
       PROVE  \E x : S = {x}
  <2>1. PICK i \in 1 .. Len(icsent) : icsent[i] = b
    BY <1>11, <1>14
  <2>2. \A x : x \in S <=> x = <<"sent", i>>
    BY <1>11, <1>12, <2>1
  <2>3. S = {<<"sent", i>>}
    BY <2>2
  <2>4. QED
    BY <2>3
<1>15. /\ b \in icfree => F = {<<"free">>}
       /\ b \notin icfree => F = {}
       /\ IcOut(b) => O = {<<"out">>}
       /\ ~IcOut(b) => O = {}
  BY <1>2
<1>16. CASE b \in icfree /\ IcHeld(b) = {} /\ ~IcOut(b) /\ b \notin Range(icsent) /\ IcQueues(b) = {}
  BY <1>3, <1>7, <1>9, <1>13, <1>15, <1>16
<1>17. CASE b \notin icfree /\ (\E a : IcHeld(b) = {a}) /\ ~IcOut(b) /\ b \notin Range(icsent) /\ IcQueues(b) = {}
  <2>1. \E x : H = {x}
    BY <1>10, <1>17
  <2>2. F = {} /\ O = {} /\ S = {} /\ Q = {}
    BY <1>7, <1>13, <1>15, <1>17
  <2>3. QED
    BY <1>3, <2>1, <2>2
<1>18. CASE b \notin icfree /\ IcHeld(b) = {} /\ IcOut(b) /\ b \notin Range(icsent) /\ IcQueues(b) = {}
  BY <1>3, <1>7, <1>9, <1>13, <1>15, <1>18
<1>19. CASE b \notin icfree /\ IcHeld(b) = {} /\ ~IcOut(b) /\ b \in Range(icsent) /\ IcQueues(b) = {}
  <2>1. \E x : S = {x}
    BY <1>14, <1>19
  <2>2. F = {} /\ H = {} /\ O = {} /\ Q = {}
    BY <1>7, <1>9, <1>15, <1>19
  <2>3. QED
    BY <1>3, <2>1, <2>2
<1>20. CASE b \notin icfree /\ IcHeld(b) = {} /\ ~IcOut(b) /\ b \notin Range(icsent) /\ (\E s : IcQueues(b) = {s})
  <2>1. \E x : Q = {x}
    BY <1>8, <1>20
  <2>2. F = {} /\ H = {} /\ O = {} /\ S = {}
    BY <1>9, <1>13, <1>15, <1>20
  <2>3. QED
    BY <1>3, <2>1, <2>2
<1>21. QED
  BY <1>1, <1>16, <1>17, <1>18, <1>19, <1>20 DEF IcWhere, IcIn

LEMMA IcIInvImplies == IcIInv => IcInv
<1> SUFFICES ASSUME IcIInv PROVE IcInv
  OBVIOUS
<1>1. IcTypes /\ IcTable /\ IcOutput
  BY DEF IcIInv
<1>2. ASSUME NEW s \in IcSlot
      PROVE  /\ icmptab[s].state \in {"free", "used", "recv"} /\ icmptab[s].count \in 0 .. ICMP_QSIZ
             /\ icmptab[s].head \in IcSlot /\ icmptab[s].tail \in 0 .. ICMP_QSIZ - 1
             /\ icmptab[s].count = Len(ichas[s])
             /\ \A j \in 1 .. icmptab[s].count : icmptab[s].head + j <= ICMP_QSIZ =>
                   icmptab[s].queue[icmptab[s].head + j - 1] = ichas[s][j]
             /\ Range(ichas[s]) \subseteq IcBuf
             /\ icmptab[s].state = "free" => ichas[s] = <<>>
  <2>1. PICK e, q, h : e = icmptab[s] /\ q = ichas[s] /\ h = e.head
    OBVIOUS
  <2>2. IcHolds(e, q)
    BY <1>1, <2>1 DEF IcTable
  <2>3. /\ e \in IcEntryOf /\ q \in Seq(IcBuf) /\ RingHolds(ICMP_QSIZ, e.queue, IcHeadIn(h), q)
        /\ e.count = Len(q) /\ (e.state = "free" => q = <<>>)
    BY <2>1, <2>2, IcHoldsIs DEF IcHolds
  <2>4. /\ e.state \in {"free", "used", "recv"} /\ e.count \in 0 .. ICMP_QSIZ
        /\ h \in IcSlot /\ e.tail \in 0 .. ICMP_QSIZ - 1
    BY <2>1, <2>3, IcEntryFields
  <2>5. h \in Nat /\ ICMP_QSIZ \in Nat
    BY <2>4, IcSizes DEF IcSlot
  <2>6. Len(q) \in Nat /\ Range(q) \subseteq IcBuf
    BY <2>3, LenProperties, MembersAt
  <2>7. ASSUME NEW j \in 1 .. Len(q), h + j <= ICMP_QSIZ
        PROVE  e.queue[h + j - 1] = q[j]
    <3>1. h < ICMP_QSIZ /\ h + (j - 1) \in 0 .. ICMP_QSIZ - 1 /\ h + (j - 1) = h + j - 1
      BY <2>5, <2>6, <2>7
    <3>2. IcHeadIn(h) = h
      BY <2>5, <3>1 DEF IcHeadIn
    <3>3. e.queue[RingTurn(ICMP_QSIZ, h, j - 1)] = q[j]
      BY <2>3, <3>2 DEF RingHolds
    <3>4. RingTurn(ICMP_QSIZ, h, j - 1) = h + (j - 1)
      <4>1. (h + (j - 1)) % ICMP_QSIZ = h + (j - 1)
        BY <2>5, <3>1
      <4>2. QED
        BY <4>1 DEF RingTurn
    <3>5. QED
      BY <3>1, <3>3, <3>4
  <2>8. QED
    BY <2>1, <2>3, <2>4, <2>6, <2>7
<1>3. PICK w, q, n : w = ipoqueue /\ q = icsent /\ n = ipoqueue.count
  OBVIOUS
<1>4. IpHolds(w, q) /\ IpoutIs(ipout, n, q) /\ w.count = n
  BY <1>1, <1>3 DEF IcOutput
<1>5. /\ w.head \in 0 .. IP_OQSIZ - 1 /\ n \in Int /\ q \in Seq(IcBuf)
      /\ Len(q) \in Nat /\ Len(q) <= IP_OQSIZ /\ Range(q) \subseteq IcBuf
  <2>1. /\ w.head \in 0 .. IP_OQSIZ - 1 /\ w.count \in Int /\ q \in Seq(IcBuf)
        /\ Len(q) \in Nat /\ Len(q) <= IP_OQSIZ
    BY <1>4, IpFields
  <2>2. Range(q) \subseteq IcBuf
    BY <2>1, MembersAt
  <2>3. QED
    BY <1>4, <2>1, <2>2
<1>6. Len(q) = IF ipout.op = "arp" THEN n ELSE n + 1
  <2>1. Len(<<>>) = 0
    OBVIOUS
  <2>2. QED
    BY <1>4, <1>5, <2>1 DEF IpoutIs
<1>7. ASSUME NEW j \in DOMAIN q
      PROVE  w.buf[(w.head + j - 1) % IP_OQSIZ] = q[j]
  <2>1. j \in 1 .. Len(q) /\ w.head + (j - 1) = w.head + j - 1
    BY <1>5, <1>7, LenProperties
  <2>2. w.buf[RingTurn(IP_OQSIZ, w.head, j - 1)] = q[j]
    BY <1>4, <2>1 DEF IpHolds, RingHolds
  <2>3. QED
    BY <2>1, <2>2 DEF RingTurn
<1>8. ipout.op \in {"waits", "ready", "arp"} /\ n \in -1 .. IP_OQSIZ
  <2>1. ipout.op \in {"waits", "ready", "arp"}
    BY <1>4 DEF IpoutIs
  <2>2. n \in -1 .. IP_OQSIZ
    BY <1>5, <1>6, IcSizes
  <2>3. QED
    BY <2>1, <2>2
<1>9. IcTypeOK
  BY <1>1, <1>2, <1>3, <1>8 DEF IcTypeOK, IcTypes
<1>10. QueuesHoldThePackets
  BY <1>1, <1>2, <1>3, <1>6, <1>7 DEF QueuesHoldThePackets, IcTypes
<1>11. IcBufsOnce
  <2>1. ASSUME icspoilt = "no", NEW b \in IcBuf
        PROVE  Cardinality(IcPlaces(b)) = 1
    <3>1. PICK x : IcPlaces(b) = {x}
      BY <2>1, IcPlacesAlone
    <3>2. QED
      BY <3>1, FS_Singleton
  <2>2. ASSUME NEW a \in IcActor, iccall[a].op \in {"echo", "arp"}
        PROVE  iccall[a].buf \in IcBuf
    <3>1. IcCallOK(iccall[a])
      BY <1>1 DEF IcTypes
    <3>2. PICK c : c = iccall[a]
      OBVIOUS
    <3>3. c # IcIdle /\ \A s \in IcSlot : c # [op |-> "recv", slot |-> s]
      BY <2>2, <3>2 DEF IcIdle
    <3>4. c.buf \in IcBuf
      BY <3>1, <3>2, <3>3 DEF IcCallOK
    <3>5. QED
      BY <3>2, <3>4
  <2>3. ipout.op = "arp" => ipout.buf \in IcBuf
    BY <1>4 DEF IpoutIs
  <2>4. Range(icsent) \cup UNION {Range(ichas[s]) : s \in IcSlot} \subseteq IcBuf
    BY <1>2, <1>3, <1>5
  <2>5. QED
    BY <2>1, <2>2, <2>3, <2>4 DEF IcBufsOnce
<1>12. PingWaiterIsKnown
  <2>1. ASSUME icspoilt = "no", NEW s \in IcSlot, icmptab[s].state = "recv"
        PROVE  /\ icmptab[s].count = 0
               /\ iccall[icmptab[s].pid] = [op |-> "recv", slot |-> s]
    <3>1. ichas[s] = <<>> /\ icmptab[s].pid \in IcProc /\ IcWaitsOn(icmptab[s].pid, s)
      BY <2>1 DEF IcIInv, IcKnown
    <3>2. icmptab[s].count = 0
      BY <1>2, <3>1
    <3>3. QED
      BY <3>1, <3>2 DEF IcWaitsOn
  <2>2. ASSUME icspoilt = "no", NEW p \in IcProc, iccall[p].op = "recv",
               ichas[iccall[p].slot] # <<>>, icmptab[iccall[p].slot].pid = p
        PROVE  icmsg[p] # "none"
    <3>1. IcCallOK(iccall[p])
      BY <1>1 DEF IcTypes, IcActor
    <3>2. PICK c : c = iccall[p]
      OBVIOUS
    <3>3. c # IcIdle /\ c.op \notin {"echo", "arp"}
      BY <2>2, <3>2 DEF IcIdle
    <3>4. PICK s \in IcSlot : c = [op |-> "recv", slot |-> s]
      BY <3>1, <3>2, <3>3 DEF IcCallOK
    <3>5. iccall[p].slot = s /\ IcWaitsOn(p, s)
      BY <3>2, <3>4 DEF IcWaitsOn
    <3>6. ichas[s] # <<>> /\ icmptab[s].pid = p
      BY <2>2, <3>5
    <3>7. icmptab[s].state # "recv" /\ icmptab[s].state # "free"
      BY <1>2, <2>2, <3>6 DEF IcIInv, IcKnown
    <3>8. icmptab[s].state = "used"
      BY <1>2, <3>7
    <3>9. QED
      BY <2>2, <3>5, <3>6, <3>8 DEF IcIInv, IcWoke
  <2>3. QED
    BY <2>1, <2>2 DEF PingWaiterIsKnown
<1>13. QED
  BY <1>9, <1>10, <1>11, <1>12 DEF IcInv

\* The queues of replies and of packets to send hold what came in, in order, and
\* as many as their count and their semaphore say; every buffer is in one place
\* (free, with a process, queued); and a slot knows who waits on it (icmp_in,
\* icmp_send, icmp_recv and icmp_release, net/icmp.c; ip_in, ip_enqueue and
\* ipout, net/ip.c).
THEOREM PingAndOutput == IcSpec => []IcInv
<1>1. IcInit => IcIInv
  BY IcInitOK
<1>2. IcIInv /\ [IcNext]_icVars => IcIInv'
  BY IcNextOK
<1>3. IcIInv => IcInv
  BY IcIInvImplies
<1>4. QED
  BY <1>1, <1>2, <1>3, PTL DEF IcSpec

=============================================================================
