-------------------------------- MODULE Arp --------------------------------
(***************************************************************************)
(* The cache of the address resolution protocol.  arp_resolve looks an     *)
(* address up, or makes a pending entry, broadcasts a request and waits in *)
(* recvtime, ARP_RETRY times; arp_in, in the network input process, takes  *)
(* what other hosts send and wakes the process.                            *)
(*                                                                         *)
(* A MAC address is <<host, version>>: hosts may change it.                *)
(*                                                                         *)
(* A woken process does not look again.  arspoilt tells that               *)
(*   "evicted"  the entry was given to another address before the process  *)
(*              ran (arp.c:148): it returns that one's;                    *)
(*   "stray"    a message from somebody else ended the wait (arp.c:133):   *)
(*              it returns OK without an address, and its entry stays      *)
(*              pending for good.                                          *)
(* Nothing is explored behind that.                                        *)
(***************************************************************************)
EXTENDS Integers, FiniteSets

CONSTANTS
    ArProc,             \* processes
    ARP_SIZ, ARP_RETRY,
    ArHosts,            \* the other hosts of the network
    ArVersions          \* of a host's MAC address

ASSUME ArAssumption == {ARP_SIZ, ARP_RETRY} \subseteq Nat \ {0}

VARIABLES
    arpcache, armsg,
    arcall,             \* what each process waits for
    arspoilt,
    arlatest,           \* observed: the MAC address each host told last, and
    arresult            \* if the last arp_resolve got its own host's address

arVars == <<arpcache, armsg, arcall, arspoilt, arlatest, arresult>>

ArSlot == 0 .. ARP_SIZ - 1
ArIdle == [op |-> "idle"]
ArNone == <<0, 0>>
ArFree == [state |-> "free", addr |-> 0, pid |-> 0, mac |-> ArNone]

ArInit ==
    /\ arpcache = [s \in ArSlot |-> ArFree]
    /\ armsg = [p \in ArProc |-> "none"]
    /\ arcall = [p \in ArProc |-> ArIdle]
    /\ arspoilt = "no"
    /\ arlatest = [h \in ArHosts |-> ArNone]
    /\ arresult = "own"

-----------------------------------------------------------------------------

ArEntries(h) == {s \in ArSlot : arpcache[s].state # "free" /\ arpcache[s].addr = h}

ArFirst(S) == CHOOSE s \in S : \A t \in S : s <= t

ArWith(state) == {s \in ArSlot : arpcache[s].state = state}

\* The slots arp_alloc chooses from; the wrong ones, for comparison, may be
\* waited for.
ArAnySlot == IF ArWith("free") # {} THEN ArWith("free") ELSE ArSlot

ArUsable == IF ArWith("free") # {} THEN ArWith("free") ELSE ArWith("resolved")

\* The entries whose address is returned at once; the wrong ones, for
\* comparison, may be pending.
ArAnyEntry(h) == ArEntries(h)

ArKnown(h) == ArEntries(h) \cap ArWith("resolved")

ArOwn(h, m) == IF m[1] = h THEN "own" ELSE "other"

\* arp_resolve, to its first wait.  With a pending entry for the address, or
\* without a slot, it returns SYSERR.
arp_resolve(p, h) ==
    /\ arspoilt = "no"
    /\ arcall[p] = ArIdle
    /\ \/ \E s \in ArKnown(h) :
            /\ arresult' = ArOwn(h, arpcache[s].mac)
            /\ UNCHANGED <<arpcache, armsg, arcall>>
       \/ /\ ArEntries(h) = {}
          /\ ArUsable # {}
          /\ LET s == ArFirst(ArUsable) IN
             /\ arpcache' = [arpcache EXCEPT
                  ![s] = [state |-> "pending", addr |-> h, pid |-> p, mac |-> ArNone]]
             /\ arcall' = [arcall EXCEPT ![p] = [op |-> "resolve", addr |-> h, slot |-> s,
                                                 try |-> 1]]
          /\ armsg' = [armsg EXCEPT ![p] = "none"]
          /\ UNCHANGED arresult
    /\ UNCHANGED <<arspoilt, arlatest>>

\* There is another try; the wrong one, for comparison, has one too many.
ArMoreThan(c) == c.try <= ARP_RETRY

ArMore(c) == c.try < ARP_RETRY

\* The wait ended without a message: another request, or the entry is freed.
ArTimeout(p) ==
    LET c == arcall[p] IN
    /\ arspoilt = "no"
    /\ c.op = "resolve"
    /\ armsg[p] = "none"
    /\ IF ArMore(c)
         THEN arcall' = [arcall EXCEPT ![p].try = @ + 1] /\ UNCHANGED arpcache
         ELSE /\ arcall' = [arcall EXCEPT ![p] = ArIdle]
              /\ arpcache' = [arpcache EXCEPT ![c.slot].state = "free"]
    /\ UNCHANGED <<armsg, arspoilt, arlatest, arresult>>

\* It ended with a message, whichever.
ArWoken(p) ==
    LET c == arcall[p]  e == arpcache[c.slot] IN
    /\ arspoilt = "no"
    /\ c.op = "resolve"
    /\ armsg[p] # "none"
    /\ armsg' = [armsg EXCEPT ![p] = "none"]
    /\ arcall' = [arcall EXCEPT ![p] = ArIdle]
    /\ arresult' = ArOwn(c.addr, e.mac)
    /\ arspoilt' = IF e.state = "pending" /\ e.pid = p THEN "stray"
                   ELSE IF e.state # "resolved" \/ e.addr # c.addr THEN "evicted" ELSE "no"
    /\ UNCHANGED <<arpcache, arlatest>>

\* A message from elsewhere, as a child that ends sends it to its parent.
ArStray(p) ==
    /\ arspoilt = "no"
    /\ armsg[p] = "none"
    /\ armsg' = [armsg EXCEPT ![p] = "other"]
    /\ UNCHANGED <<arpcache, arcall, arspoilt, arlatest, arresult>>

-----------------------------------------------------------------------------

\* An entry after host h told its address m; the wrong one, for comparison,
\* keeps the address it has.
ArKeeps(e, m) == [e EXCEPT !.state = "resolved", !.mac = IF @ = ArNone THEN m ELSE @]

ArUpdated(e, m) == [e EXCEPT !.mac = m, !.state = "resolved"]

\* Whether arp_in adds an entry; the wrong one, for comparison, does not ask
\* if there is one.
ArAddsAlways(h) == ArUsable # {}

ArAdds(h) == ArEntries(h) = {} /\ ArUsable # {}

\* arp_in: the sender h told its address m, in a reply, in a request for
\* somebody else (forus = FALSE), or in a request for this machine, which has
\* an address.  (The reply to that changes nothing here.)
arp_in(h, m, forus) ==
    LET found == ArEntries(h) IN
    /\ arspoilt = "no"
    /\ arlatest' = [arlatest EXCEPT ![h] = m]
    /\ arpcache' =
         IF forus /\ ArAdds(h)
           THEN [arpcache EXCEPT ![ArFirst(ArUsable)] =
                   [state |-> "resolved", addr |-> h, pid |-> 0, mac |-> m]]
           ELSE [s \in ArSlot |-> IF s \in found THEN ArUpdated(arpcache[s], m)
                                                 ELSE arpcache[s]]
    /\ armsg' = [p \in ArProc |->
                   IF /\ \E s \in found : arpcache[s].state = "pending" /\ arpcache[s].pid = p
                      /\ armsg[p] = "none"
                     THEN "ok" ELSE armsg[p]]
    /\ UNCHANGED <<arcall, arspoilt, arresult>>

ArNext ==
    \/ \E p \in ArProc :
         \/ \E h \in ArHosts : arp_resolve(p, h)
         \/ ArTimeout(p) \/ ArWoken(p) \/ ArStray(p)
    \/ \E h \in ArHosts, v \in ArVersions, forus \in BOOLEAN : arp_in(h, <<h, v>>, forus)

ArSpec == ArInit /\ [][ArNext]_arVars

-----------------------------------------------------------------------------

ArTypeOK ==
    /\ \A s \in ArSlot : /\ arpcache[s].state \in {"free", "pending", "resolved"}
                         /\ arpcache[s].addr \in ArHosts \cup {0}
    /\ \A p \in ArProc : arcall[p] # ArIdle => arcall[p].try \in 1 .. ARP_RETRY

\* No host has two entries, whoever made them (arp.c:61 and 243).
OneEntryPerHost == \A h \in ArHosts : Cardinality(ArEntries(h)) <= 1

\* A pending entry has a process that waits for it and for its address, and a
\* process that waits has its pending entry, or a message: an entry that is
\* waited for is not given away (arp.c:312), and one that nobody waits for does
\* not stay (arp.c:141).
PendingIsAwaited ==
    arspoilt = "no" =>
        /\ \A s \in ArWith("pending") :
             LET c == arcall[arpcache[s].pid] IN
             c.op = "resolve" /\ c.slot = s /\ c.addr = arpcache[s].addr
        /\ \A p \in ArProc : arcall[p].op = "resolve" =>
             \/ armsg[p] # "none"
             \/ /\ arpcache[arcall[p].slot].state = "pending"
                /\ arpcache[arcall[p].slot].pid = p

\* The cache follows the hosts: an entry has the address its host told last
\* (arp.c:210).
EntriesFollowHosts ==
    \A s \in ArWith("resolved") : arpcache[s].mac = arlatest[arpcache[s].addr]

\* What arp_resolve returns is an address of the host it was asked for, unless
\* the wait was disturbed.
ResolvesTheHost == arspoilt = "no" => arresult = "own"

\* The cache has one entry for a host, a pending entry has somebody who retries,
\* an entry is what a host announced, and a resolved address is the host's.
ArInv ==
    /\ ArTypeOK
    /\ OneEntryPerHost
    /\ PendingIsAwaited
    /\ EntriesFollowHosts
    /\ ResolvesTheHost

\* "Use ARP to resolve an IP address to an Ethernet address" (arp.c:21): the
\* address is not another host's.
NobodyElsesAddress == arspoilt # "evicted"

=============================================================================
