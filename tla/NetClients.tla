----------------------------- MODULE NetClients -----------------------------
(***************************************************************************)
(* The programs that talk to a server over a UDP slot: tftpget, getlocalip *)
(* (DHCP) and dnslookup, which begins with getlocalip.  Each registers an  *)
(* endpoint, sends, and receives with a time limit; UDP itself is Udp.     *)
(*                                                                         *)
(* The servers and the network are external: what was sent once may arrive *)
(* at any time after, in any order, any number of times or not at all.     *)
(* The DHCP and DNS endpoints are the same ones in every call, so that     *)
(* what is late meets the next call; TFTP has a new local port each time.  *)
(* A message that ends a receive is a SYSERR: somebody sent this process a *)
(* message while it waited.                                                *)
(***************************************************************************)
EXTENDS Integers, FiniteSets, SequencesExt

CONSTANTS
    NcProc,             \* processes
    NcSlots,            \* slots of the UDP table these programs may use
    TfFile,             \* the file on the server, a sequence
    TFTP_MAXDATA,       \* of a block
    TfSizes,            \* sizes of the caller's buffers, together
    TFTP_MAXRETRIES,
    TfSessions,         \* ports the server answers from in a transfer
    DhServers,          \* DHCP servers
    DHCP_RETRY, DhReads,
    DnNames,            \* names that are looked up, sequences
    DnLong,             \* of them, those that do not fit a query
    DNSRETRY

ASSUME NcAssumption ==
    /\ {NcSlots, TFTP_MAXDATA, TFTP_MAXRETRIES, DHCP_RETRY, DhReads, DNSRETRY}
         \subseteq Nat \ {0}
    /\ TfFile \in Seq(Nat)
    /\ TfSizes \subseteq Nat \ {0} /\ TfSessions \in Nat
    /\ DnLong \subseteq DnNames

VARIABLES
    nccall,             \* the call each process is in
    ncslots,            \* endpoints that are registered
    ncleft,             \* of them, those whose caller returned
    tfsent, tfnet,      \* what each process sent in its transfer, and what the
                        \* server did
    dhsent, dhnet, NetData,
    dnsent, dnnet,
    ncresult            \* observed: what the last call of a process returned

ncVars == <<nccall, ncslots, ncleft, tfsent, tfnet, dhsent, dhnet, NetData, dnsent, dnnet,
            ncresult>>
tfVars == <<tfsent, tfnet>>
dhVars == <<dhsent, dhnet, NetData>>
dnVars == <<dnsent, dnnet>>

NcIdle == [op |-> "idle"]
NcNone == [op |-> "none"]
TFTP_PORT == 0
TfPort == 1 .. TfSessions

\* The endpoints: of a transfer, and those of DHCP and DNS.
TfEnd(p) == <<"tftp", p>>
DhEnd == <<"dhcp">>
DnEnd == <<"dns">>

NcInit ==
    /\ nccall = [p \in NcProc |-> NcIdle]
    /\ ncslots = {} /\ ncleft = {}
    /\ tfsent = [p \in NcProc |-> {}] /\ tfnet = [p \in NcProc |-> {}]
    /\ dhsent = {} /\ dhnet = {}
    /\ NetData = [ipucast |-> <<>>, dnsserver |-> 0, ipvalid |-> FALSE]
    /\ dnsent = {} /\ dnnet = {}
    /\ ncresult = [p \in NcProc |-> NcNone]

\* An endpoint can be registered.
NcFree(e) == e \notin ncslots /\ Cardinality(ncslots) < NcSlots

\* The call of p returns with result r.
NcReturns(p, r) ==
    /\ nccall' = [nccall EXCEPT ![p] = NcIdle]
    /\ ncresult' = [ncresult EXCEPT ![p] = r]

\* Its endpoint is released, or is left as it is; the wrong one, for comparison,
\* releases nothing.
NcReleasesNone(e) == UNCHANGED <<ncslots, ncleft>>

NcReleases(e) == ncslots' = ncslots \ {e} /\ UNCHANGED ncleft

NcLeaves(e) == ncleft' = ncleft \cup {e} /\ UNCHANGED ncslots

-----------------------------------------------------------------------------
(* TFTP.  A message is <<port, block>> on the way out, where block 0 is the *)
(* request for the file, and an acknowledgement otherwise.                  *)

\* Block k of the file, which ends with a block that is not full.
TfBlock(k) ==
    SubSeq(TfFile, (k - 1) * TFTP_MAXDATA + 1,
           IF k * TFTP_MAXDATA < Len(TfFile) THEN k * TFTP_MAXDATA ELSE Len(TfFile))

TfLast == Len(TfFile) \div TFTP_MAXDATA + 1

TfSend(p, m) == tfsent' = [tfsent EXCEPT ![p] = @ \cup {m}]

tftpget(p, size) ==
    /\ nccall[p] = NcIdle
    /\ NcFree(TfEnd(p))
    /\ ncslots' = ncslots \cup {TfEnd(p)}
    /\ tfsent' = [tfsent EXCEPT ![p] = {<<TFTP_PORT, 0>>}]
    /\ tfnet' = [tfnet EXCEPT ![p] = {}]
    /\ nccall' = [nccall EXCEPT ![p] = [op |-> "tftp", expected |-> 1, port |-> TFTP_PORT,
                                        try |-> 1, got |-> <<>>, size |-> size]]
    /\ ncresult' = [ncresult EXCEPT ![p] = NcNone]
    /\ UNCHANGED <<ncleft, dhVars, dnVars>>

\* The transfer ends with what was delivered, if it did not fail.  (What is
\* still on the way, to a port nobody listens to, is forgotten.)
TfEnds(p, how, got) ==
    /\ NcReturns(p, [op |-> how, got |-> got, size |-> nccall[p].size])
    /\ NcReleases(TfEnd(p))
    /\ tfsent' = [tfsent EXCEPT ![p] = {}] /\ tfnet' = [tfnet EXCEPT ![p] = {}]

\* Nothing came for TFTP_WAIT: the last message once more, or no further.
TfTimeout(p) ==
    LET c == nccall[p] IN
    /\ c.op = "tftp"
    /\ IF c.try < TFTP_MAXRETRIES
         THEN /\ TfSend(p, <<c.port, c.expected - 1>>)
              /\ nccall' = [nccall EXCEPT ![p].try = @ + 1]
              /\ UNCHANGED <<tfnet, ncslots, ncleft, ncresult>>
         ELSE TfEnds(p, "failed", <<>>)
    /\ UNCHANGED <<dhVars, dnVars>>

\* Whether message m is the block that is expected; the wrong one, for
\* comparison, also takes the one before.
TfTakesLast(c, m) == m.kind = "data" /\ m.block \in {c.expected, c.expected - 1}

TfTakes(c, m) == m.kind = "data" /\ m.block = c.expected

\* The transfer ends with this block; the wrong ones, for comparison, end at
\* an empty one only, or at a full one.
TfEndsEmpty(b) == Len(b) = 0

TfEndsFull(b) == Len(b) <= TFTP_MAXDATA

TfEndsAt(b) == Len(b) < TFTP_MAXDATA

\* The next message from the server, from whichever port: an error, the block
\* expected, or one to ignore.
TfReceive(p, m) ==
    LET c == nccall[p]  b == TfBlock(m.block)  full == c.got \o b IN
    /\ c.op = "tftp"
    /\ \/ /\ m.kind = "error"
          /\ TfEnds(p, "failed", <<>>)
       \/ /\ m.kind = "data" /\ ~TfTakes(c, m)
          /\ nccall' = [nccall EXCEPT ![p].port = m.port]
          /\ UNCHANGED <<tfVars, ncslots, ncleft, ncresult>>
       \/ /\ TfTakes(c, m) /\ Len(full) > c.size
          /\ TfEnds(p, "done", SubSeq(full, 1, c.size))
       \/ /\ TfTakes(c, m) /\ Len(full) <= c.size /\ TfEndsAt(b)
          /\ TfEnds(p, "done", full)
       \/ /\ TfTakes(c, m) /\ Len(full) <= c.size /\ ~TfEndsAt(b)
          /\ TfSend(p, <<m.port, c.expected>>)
          /\ nccall' = [nccall EXCEPT ![p] = [op |-> "tftp", expected |-> c.expected + 1,
                          port |-> m.port, try |-> 1, got |-> full, size |-> c.size]]
          /\ UNCHANGED <<tfnet, ncslots, ncleft, ncresult>>
    /\ UNCHANGED <<dhVars, dnVars>>

\* The server: a session, on a port of its own, for each request that comes,
\* and the next block for each acknowledgement; or it refuses.
TfServer(p) ==
    /\ nccall[p].op = "tftp"
    /\ \/ \E port \in TfPort :
            /\ \/ <<TFTP_PORT, 0>> \in tfsent[p] /\ \A m \in tfnet[p] : m.port < port
               \/ \E m \in tfnet[p] : m.port = port
            /\ \E k \in 1 .. TfLast :
                 /\ k > 1 => <<port, k - 1>> \in tfsent[p]
                 /\ tfnet' = [tfnet EXCEPT
                      ![p] = @ \cup {[port |-> port, kind |-> "data", block |-> k]}]
       \/ /\ tfnet[p] = {}
          /\ tfnet' = [tfnet EXCEPT
               ![p] = {[port |-> 1, kind |-> "error", block |-> 1]}]
    /\ UNCHANGED <<nccall, ncslots, ncleft, tfsent, dhVars, dnVars, ncresult>>

-----------------------------------------------------------------------------
(* DHCP.  The endpoint is that of the DHCP client port.  A message of a    *)
(* server is an offer or an acknowledgement; own tells that it answers     *)
(* this machine, xid that it has the number of this machine's requests, id *)
(* that it names the server.  The number is the first four bytes of the    *)
(* Ethernet address, which another machine may have too.                   *)

\* The address in a message: the one its server has for this machine, or for
\* another one.  A request is for an address; before an offer there is none.
DhAddress(m) == <<m.server, m.own>>

DhDiscover == <<"discover">>

DhcpStart(p, name) ==
    IF NcFree(DhEnd)
      THEN /\ ncslots' = ncslots \cup {DhEnd}
           /\ dhsent' = dhsent \cup {DhDiscover}
           /\ nccall' = [nccall EXCEPT ![p] = [op |-> "dhcp", i |-> 1, j |-> 1,
                           msg |-> DhDiscover, name |-> name]]
           /\ ncresult' = [ncresult EXCEPT ![p] = NcNone]
      ELSE /\ ncresult' = [ncresult EXCEPT ![p] = [op |-> "failed"]]
           /\ UNCHANGED <<nccall, ncslots, dhsent>>

getlocalip(p) ==
    /\ nccall[p] = NcIdle
    /\ DhcpStart(p, <<>>)
    /\ UNCHANGED <<ncleft, tfVars, dhnet, NetData, dnVars>>

\* The next of the reads of a round; after the last one the last message is
\* sent once more, which is the request if there was an offer.
DhcpNextRead(p, c) ==
    IF c.j < DhReads
      THEN /\ nccall' = [nccall EXCEPT ![p] = [c EXCEPT !.j = @ + 1]]
           /\ dhsent' = dhsent \cup {c.msg}
           /\ UNCHANGED <<ncslots, ncleft, ncresult>>
    ELSE IF c.i < DHCP_RETRY
      THEN /\ nccall' = [nccall EXCEPT ![p] = [op |-> "dhcp", i |-> c.i + 1, j |-> 1,
                           msg |-> c.msg, name |-> c.name]]
           /\ dhsent' = dhsent \cup {c.msg}
           /\ UNCHANGED <<ncslots, ncleft, ncresult>>
    ELSE /\ NcReturns(p, [op |-> "failed"])
         /\ NcReleases(DhEnd)
         /\ dhsent' = dhsent \cup {c.msg}

\* Whether a message has our number, dc_xid; the wrong one, for comparison, does
\* not look.
DhForAny(m) == TRUE

DhForUs(m) == m.xid

\* The address and the DNS server of an acknowledgement, if it has one.
DhTaken(m) ==
    [ipucast |-> DhAddress(m), ipvalid |-> TRUE,
     dnsserver |-> IF m.dns THEN 1 ELSE NetData.dnsserver]

\* A receive of getlocalip ends.
DhcpReceive(p) ==
    LET c == nccall[p] IN
    /\ c.op = "dhcp"
    /\ \/ /\ DhcpNextRead(p, c)                             \* timeout
          /\ UNCHANGED <<NetData, dnsent>>
       \/ /\ NcReturns(p, [op |-> "failed"])                \* SYSERR
          /\ NcLeaves(DhEnd)
          /\ UNCHANGED <<dhsent, NetData, dnsent>>
       \/ \E m \in dhnet :
            \/ /\ ~DhForUs(m)
               /\ DhcpNextRead(p, c)
               /\ UNCHANGED <<NetData, dnsent>>
            \/ /\ DhForUs(m) /\ m.type = "offer" /\ m.id
               /\ DhcpNextRead(p, [c EXCEPT !.msg = DhAddress(m)])
               /\ UNCHANGED <<NetData, dnsent>>
            \/ /\ DhForUs(m) /\ m.type = "offer" /\ ~m.id
               /\ NcReturns(p, [op |-> "failed"])
               /\ NcLeaves(DhEnd)
               /\ UNCHANGED <<dhsent, NetData, dnsent>>
            \/ /\ DhForUs(m) /\ m.type = "ack"
               /\ NetData' = DhTaken(m)
               /\ NcReleases(DhEnd)
               /\ \/ c.name = <<>> /\ NcReturns(p, [op |-> "address"])
                  \/ /\ c.name # <<>>
                     /\ nccall' = [nccall EXCEPT ![p] = [op |-> "named", name |-> c.name]]
                     /\ UNCHANGED ncresult
               /\ UNCHANGED <<dhsent, dnsent>>
    /\ UNCHANGED <<tfVars, dhnet, dnnet>>

\* The servers answer what they were sent, or other machines, whose answers are
\* broadcast; those without our number are all alike.  (A server refuses a request
\* for an address of another machine, which ends a receive as a timeout does.)
DhServer ==
    /\ \E s \in DhServers, type \in {"offer", "ack"}, own, xid, id \in BOOLEAN :
         /\ own => xid /\ (IF type = "offer" THEN DhDiscover ELSE <<s, own>>) \in dhsent
         /\ ~own => id /\ (xid \/ type = "ack")
         /\ dhnet' = dhnet \cup {[server |-> s, type |-> type, own |-> own, xid |-> xid,
                                  id |-> id, dns |-> id]}
    /\ UNCHANGED <<nccall, ncslots, ncleft, tfVars, dhsent, NetData, dnVars, ncresult>>

-----------------------------------------------------------------------------
(* DNS.  A name is a sequence; the answer for one is the name itself.      *)

\* dnslookup of a name that is not an address or localhost.
dnslookup(p, name) ==
    /\ nccall[p] = NcIdle
    /\ DhcpStart(p, name)
    /\ UNCHANGED <<ncleft, tfVars, dhnet, NetData, dnVars>>

\* dnslookup goes on with an address, if there is a DNS server and its endpoint
\* is free; else it fails, as it does for a name too long, which leaves the
\* endpoint.
DnsStart(p) ==
    LET c == nccall[p]  possible == NetData.dnsserver # 0 /\ NcFree(DnEnd) IN
    /\ c.op = "named"
    /\ \/ /\ ~possible
          /\ NcReturns(p, [op |-> "failed"])
          /\ UNCHANGED <<ncslots, ncleft, dnsent>>
       \/ /\ possible
          /\ ncslots' = ncslots \cup {DnEnd}
          /\ \/ /\ c.name \in DnLong
                /\ NcReturns(p, [op |-> "failed"])
                /\ ncleft' = ncleft \cup {DnEnd}
                /\ UNCHANGED dnsent
             \/ /\ c.name \notin DnLong
                /\ nccall' = [nccall EXCEPT ![p] = [op |-> "dns", name |-> c.name, try |-> 1]]
                /\ dnsent' = dnsent \cup {c.name}
                /\ UNCHANGED <<ncleft, ncresult>>
    /\ UNCHANGED <<tfVars, dhVars, dnnet>>

\* The answer for name a is one to the question for name n: strncmp over the
\* length of n.  The wrong one, for comparison, takes all.
DnAnswersAny(a, n) == TRUE

DnAnswers(a, n) == IsPrefix(n, a)

\* Another try, or none.
DnsNextTry(p) ==
    IF nccall[p].try < DNSRETRY
      THEN /\ nccall' = [nccall EXCEPT ![p].try = @ + 1]
           /\ dnsent' = dnsent \cup {nccall[p].name}
           /\ UNCHANGED <<ncslots, ncleft, ncresult>>
      ELSE /\ NcReturns(p, [op |-> "failed"])
           /\ NcReleases(DnEnd)
           /\ UNCHANGED dnsent

\* A receive ends without an answer to the question, or with one.
DnsReceive(p) ==
    LET c == nccall[p] IN
    /\ c.op = "dns"
    /\ \/ DnsNextTry(p)
       \/ \E a \in dnnet :
            /\ DnAnswers(a, c.name)
            /\ NcReturns(p, [op |-> "resolved", name |-> c.name, answer |-> a])
            /\ NcReleases(DnEnd)
            /\ UNCHANGED dnsent
    /\ UNCHANGED <<tfVars, dhVars, dnnet>>

DnServer ==
    /\ \E n \in dnsent : n \notin dnnet /\ dnnet' = dnnet \cup {n}
    /\ UNCHANGED <<nccall, ncslots, ncleft, tfVars, dhVars, dnsent, ncresult>>

\* A message of another process ends the receive of a transfer.
TfStray(p) ==
    /\ nccall[p].op = "tftp"
    /\ TfEnds(p, "failed", <<>>)
    /\ UNCHANGED <<dhVars, dnVars>>

NcNext ==
    \/ DhServer \/ DnServer
    \/ \E p \in NcProc :
         \/ \E size \in TfSizes : tftpget(p, size)
         \/ TfTimeout(p) \/ TfStray(p) \/ TfServer(p)
         \/ \E m \in tfnet[p] : TfReceive(p, m)
         \/ getlocalip(p) \/ DhcpReceive(p)
         \/ \E n \in DnNames : dnslookup(p, n)
         \/ DnsStart(p) \/ DnsReceive(p)

NcSpec == NcInit /\ [][NcNext]_ncVars

-----------------------------------------------------------------------------

NcTypeOK ==
    /\ Cardinality(ncslots) <= NcSlots
    /\ ncleft \subseteq ncslots
    /\ \A p \in NcProc :
         /\ nccall[p].op = "tftp" => nccall[p].expected \in 1 .. TfLast
         /\ nccall[p].op = "dhcp" => nccall[p].msg \in {DhDiscover} \cup (DhServers \X BOOLEAN)

\* What a transfer has so far is the beginning of the file, whatever was lost,
\* came twice or from another session (tftp.c:83).
FileIsPrefix ==
    \A p \in NcProc :
        /\ nccall[p].op = "tftp" => IsPrefix(nccall[p].got, TfFile)
        /\ ncresult[p].op = "done" => IsPrefix(ncresult[p].got, TfFile)

\* A transfer that returns a size has the whole file, if the buffers can hold
\* it (tftp.c:269).
DoneIsWhole ==
    \A p \in NcProc : ncresult[p].op = "done" =>
        Len(ncresult[p].got) =
            (IF Len(TfFile) <= ncresult[p].size THEN Len(TfFile) ELSE ncresult[p].size)

\* An endpoint is registered while a call uses it, and not longer unless the
\* call left it behind (dhcp.c:187 and 237, and the name too long of
\* dnslookup); no transfer leaves one.
SlotsFollowCalls ==
    /\ ncslots = ncleft
         \cup {TfEnd(p) : p \in {q \in NcProc : nccall[q].op = "tftp"}}
         \cup {<<nccall[p].op>> : p \in {q \in NcProc : nccall[q].op \in {"dhcp", "dns"}}}
    /\ \A p \in NcProc : TfEnd(p) \notin ncleft
    /\ \A e \in {"dhcp", "dns"} :
         Cardinality({p \in NcProc : nccall[p].op = e}) <= (IF <<e>> \in ncleft THEN 0 ELSE 1)

\* The address of the machine is one that a server acknowledged with the number
\* of this machine's requests; and if it was acknowledged to this machine, then
\* this machine had asked for it (dhcp.c:192).  It need not be ours: a machine
\* whose Ethernet address begins with the same four bytes (dhcp.c:49) has the same
\* number, and its acknowledgement is taken.
AddressIsAcknowledged ==
    NetData.ipvalid =>
        \E m \in dhnet :
            /\ m.type = "ack" /\ m.xid
            /\ DhAddress(m) = NetData.ipucast
            /\ m.own => DhAddress(m) \in dhsent

\* A name that is resolved is answered with the address of a name that begins
\* like it, and that somebody asked for.
AnswerBeginsAlike ==
    \A p \in NcProc : ncresult[p].op = "resolved" =>
        IsPrefix(ncresult[p].name, ncresult[p].answer) /\ ncresult[p].answer \in dnsent

\* Whatever the network loses, delays or repeats: a file is received as a prefix
\* and is whole when the transfer ends, an address is one acknowledged with our
\* number, an answer is to our question up to its length, and slots are given back.
NcInv ==
    /\ NcTypeOK
    /\ FileIsPrefix
    /\ DoneIsWhole
    /\ SlotsFollowCalls
    /\ AddressIsAcknowledged
    /\ AnswerBeginsAlike

\* "Verify that the answer matches and is Type A" (dns.c:287): the answer is
\* for the name that was looked up.
AnswerMatches ==
    \A p \in NcProc : ncresult[p].op = "resolved" => ncresult[p].answer = ncresult[p].name

=============================================================================
