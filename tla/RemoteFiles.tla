---------------------------- MODULE RemoteFiles ----------------------------
(***************************************************************************)
(* Remote files.  A call takes the mutex, checks the control block of its  *)
(* device, sends a request with the next sequence number to the server,    *)
(* and waits for the reply with that number: at most RF_RETRIES            *)
(* transmissions, one after each timeout or reply that does not fit.  It   *)
(* ends with OK, or with SYSERR after a refusal or without a reply.        *)
(*                                                                         *)
(* The network loses, delays, repeats and reorders messages: a request     *)
(* that was sent may come to the server at any later time, any number of   *)
(* times or never, also after its call has ended.  The server is external: *)
(* it does a request when it gets it, as often as it gets it, for this     *)
(* client only.  A file is a sequence of bytes.                            *)
(***************************************************************************)
EXTENDS Integers, FiniteSets, SequencesExt

CONSTANTS
    RfProc, RfDev,      \* processes, and the devices RFILE0 ...
    RF_RETRIES,
    RfNames, RfModes,   \* files, and the mode strings of rfsopen
    RfByte, RfCounts,   \* bytes that are written, and how many at a time
    RfSeeks,            \* positions that are sought
    RfMaxSize,          \* bound on the size of a file
    MaxRfSeq            \* bound on the number of exchanges

ASSUME RfAssumption ==
    /\ RF_RETRIES \in Nat \ {0}
    /\ RfNames # {}
    /\ RfCounts \subseteq Nat \ {0}
    /\ RfMaxSize \in Nat /\ MaxRfSeq \in Nat
    /\ RfSeeks \subseteq 0 .. RfMaxSize
    /\ RfByte \subseteq Nat \ {0}

VARIABLES
    rf_mutex, rf_seq, rf_registered, rfltab,    \* Rf_data and the control blocks
    rfcall,                     \* the call of each process
    rffiles,                    \* the server's files
    rfrequests, rfreplies,      \* what was sent and may come to the server, and
                                \* replies on their way
    rfmay, rflate,              \* observed: what each file may be after the
                                \* results the callers got, the files that a
                                \* request has changed after its call ended,
    rftold, rfread              \* the position each device should have, and
                                \* the last read

rfVars == <<rf_mutex, rf_seq, rf_registered, rfltab, rfcall, rffiles, rfrequests,
            rfreplies, rfmay, rflate, rftold, rfread>>

RfIdle == [op |-> "idle"]
RfAbsent == <<-1>>        \* not a file: bytes are not negative
RfDirectory == <<-2>>
RfFree == [state |-> "free", name |-> CHOOSE f \in RfNames : TRUE, pos |-> 0, mode |-> {}]

RfInit ==
    /\ rf_mutex = 1 /\ rf_seq = 1 /\ rf_registered = FALSE
    /\ rfltab = [d \in RfDev |-> RfFree]
    /\ rfcall = [p \in RfProc |-> RfIdle]
    /\ rffiles = [f \in RfNames |-> RfAbsent]
    /\ rfrequests = {} /\ rfreplies = {}
    /\ rfmay = [f \in RfNames |-> {RfAbsent}]
    /\ rflate = {}
    /\ rftold = [d \in RfDev |-> 0]
    /\ rfread = "fits"

-----------------------------------------------------------------------------
(* The server.                                                             *)

RfIsFile(s) == s \notin {RfAbsent, RfDirectory}

RfWritten(s, pos, data) ==
    [i \in 1 .. (IF pos + Len(data) > Len(s) THEN pos + Len(data) ELSE Len(s)) |->
        IF i \in pos + 1 .. pos + Len(data) THEN data[i - pos]
        ELSE IF i <= Len(s) THEN s[i] ELSE 0]

\* Whether request c can be done with a file that is s, and what it becomes.
RfDoable(c, s) ==
    CASE c.op = "open"  -> IF "n" \in c.mode THEN s = RfAbsent
                           ELSE RfIsFile(s) \/ (s = RfAbsent /\ "o" \notin c.mode)
      [] c.op = "mkdir" -> s = RfAbsent
      [] c.op = "rmdir" -> s = RfDirectory
      [] OTHER          -> RfIsFile(s)

RfBecomes(c, s) ==
    CASE c.op = "open"              -> IF s = RfAbsent THEN <<>> ELSE s
      [] c.op = "mkdir"             -> RfDirectory
      [] c.op \in {"del", "rmdir"}  -> RfAbsent
      [] c.op = "trunc"             -> <<>>
      [] c.op = "write"             -> RfWritten(s, c.pos, c.data)
      [] OTHER                      -> s

RfReads(c, s) == SubSeq(s, c.pos + 1, IF c.pos + c.count < Len(s) THEN c.pos + c.count ELSE Len(s))

\* Request c comes to the server.
RfServe(c) ==
    LET s == rffiles[c.name]
        t == IF RfDoable(c, s) THEN RfBecomes(c, s) ELSE s
        late == \A p \in RfProc : rfcall[p] # RfIdle => rfcall[p].seq # c.seq
    IN  /\ rffiles' = [rffiles EXCEPT ![c.name] = t]
        /\ rfreplies' = rfreplies \cup
             {[op |-> c.op, seq |-> c.seq, ok |-> RfDoable(c, s),
               data |-> IF c.op = "read" /\ RfDoable(c, s) THEN RfReads(c, s) ELSE <<>>]}
        /\ rflate' = IF late /\ t # s THEN rflate \cup {c.name} ELSE rflate
        /\ UNCHANGED <<rf_mutex, rf_seq, rf_registered, rfltab, rfcall, rfrequests, rfmay,
                       rftold, rfread>>

-----------------------------------------------------------------------------
(* rfsgetmode, on mode strings as sequences of letters.                     *)

rfsgetmode(mode) ==
    LET letters == Range(mode) IN
    IF letters \cap {"r", "w"} = {} THEN letters \cup {"r", "w"} ELSE letters

RfModeValid(mode) ==
    LET letters == Range(mode) IN
    /\ letters \subseteq {"r", "w", "o", "n"}
    /\ Cardinality(letters) = Len(mode)
    /\ ~({"o", "n"} \subseteq letters)

-----------------------------------------------------------------------------
(* A call up to its first transmission.  Where a check fails the mutex is   *)
(* signalled again and nothing changed: there is no action for that.        *)

\* udp_send of request c.  All transmissions of a request are alike; what was sent
\* stays on its way.
RfCopy(c) == [c EXCEPT !.try = 1]

RfTransmit(c) == rfrequests' = rfrequests \cup {RfCopy(c)}

\* wait(rf_mutex)
RfWait == rf_mutex = 1 /\ rf_mutex' = 0

\* rfscomm, to the first udp_send; the first call registers the UDP port.
\* Bound: MaxRfSeq exchanges.
RfSends(p, c) ==
    /\ RfWait
    /\ rf_seq <= MaxRfSeq
    /\ rf_seq' = rf_seq + 1
    /\ rf_registered' = TRUE
    /\ rfcall[p] = RfIdle
    /\ rfcall' = [rfcall EXCEPT ![p] = c]
    /\ RfTransmit(c)
    /\ UNCHANGED <<rffiles, rfreplies, rfmay, rflate, rftold, rfread>>

\* The first free control block gets the name and the mode at once.
rfsopen(p, name, mode) ==
    \E d \in RfDev :
        /\ rfltab[d].state = "free"
        /\ \A e \in RfDev : e < d => rfltab[e].state # "free"
        /\ RfModeValid(mode)
        /\ rfltab' = [rfltab EXCEPT ![d] = [state |-> "free", name |-> name, pos |-> @.pos,
                                            mode |-> rfsgetmode(mode)]]
        /\ RfSends(p, [op |-> "open", dev |-> d, name |-> name, mode |-> rfsgetmode(mode),
                       seq |-> rf_seq, try |-> 1])

RfUsed(d) == rfltab[d].state = "used"

rflclose(p, d) ==
    /\ RfUsed(d)
    /\ RfSends(p, [op |-> "close", dev |-> d, name |-> rfltab[d].name,
                   seq |-> rf_seq, try |-> 1])
    /\ UNCHANGED rfltab

rflread(p, d, count) ==
    /\ RfUsed(d)
    /\ "r" \in rfltab[d].mode
    /\ RfSends(p, [op |-> "read", dev |-> d, name |-> rfltab[d].name,
                   pos |-> rfltab[d].pos, count |-> count, seq |-> rf_seq, try |-> 1])
    /\ UNCHANGED rfltab

rflwrite(p, d, data) ==
    /\ RfUsed(d)
    /\ "w" \in rfltab[d].mode
    /\ rfltab[d].pos + Len(data) <= RfMaxSize
    /\ RfSends(p, [op |-> "write", dev |-> d, name |-> rfltab[d].name,
                   pos |-> rfltab[d].pos, data |-> data, seq |-> rf_seq, try |-> 1])
    /\ UNCHANGED rfltab

\* No exchange: it holds the mutex for a moment.
rflseek(p, d, pos) ==
    /\ rf_mutex = 1
    /\ rfcall[p] = RfIdle
    /\ RfUsed(d)
    /\ rfltab' = [rfltab EXCEPT ![d].pos = pos]
    /\ rftold' = [rftold EXCEPT ![d] = pos]
    /\ UNCHANGED <<rf_mutex, rf_seq, rf_registered, rfcall, rffiles, rfrequests, rfreplies,
                   rfmay, rflate, rfread>>

\* rfsndmsg, and the size request, which has no device either
rfscontrol(p, func, name) ==
    /\ RfSends(p, [op |-> func, name |-> name, seq |-> rf_seq, try |-> 1])
    /\ UNCHANGED rfltab

-----------------------------------------------------------------------------
(* rfscomm after a transmission, and the end of the call.                   *)

\* The mutex after signal; the wrong one, for comparison, forgets it when the
\* call failed.
RfSignalOnce(ok) == IF ok THEN 1 ELSE rf_mutex

RfSignal(ok) == 1

\* A call that fails may have been done all the same.
RfFails(p) ==
    LET c == rfcall[p] IN
    /\ rf_mutex' = RfSignal(FALSE)
    /\ rfcall' = [rfcall EXCEPT ![p] = RfIdle]
    /\ rfmay' = [rfmay EXCEPT ![c.name] =
                   @ \cup {RfBecomes(c, s) : s \in {s \in @ : RfDoable(c, s)}}]
    /\ UNCHANGED <<rf_seq, rf_registered, rfltab, rffiles, rfrequests, rflate, rftold, rfread>>

\* Another transmission, or TIMEOUT after RF_RETRIES.
RfAgain(p, replies) ==
    \/ /\ rfcall[p].try < RF_RETRIES
       /\ rfcall' = [rfcall EXCEPT ![p].try = @ + 1]
       /\ RfTransmit(rfcall[p])
       /\ rfreplies' = replies
       /\ UNCHANGED <<rf_mutex, rf_seq, rf_registered, rfltab, rffiles, rfmay, rflate, rftold,
                      rfread>>
    \/ /\ rfcall[p].try = RF_RETRIES
       /\ RfFails(p)
       /\ rfreplies' = replies

\* The sequence number and the type fit; the wrong one, for comparison, looks
\* at the type only.
RfFitsType(c, r) == r.op = c.op

RfFits(c, r) == r.op = c.op /\ r.seq = c.seq

RfTimeout(p) == rfcall[p].op # "idle" /\ RfAgain(p, rfreplies)

\* udp_send cannot find the server's address: the call ends at once.
RfSendError(p) == rfcall[p].op # "idle" /\ RfFails(p) /\ UNCHANGED rfreplies

RfMismatch(p) ==
    \E r \in rfreplies :
        rfcall[p].op # "idle" /\ ~RfFits(rfcall[p], r) /\ RfAgain(p, rfreplies \ {r})

\* How far an answered call moves the position; the wrong one, for comparison,
\* moves it by what was asked for.
RfMovesAsked(c, r) ==
    CASE c.op = "read" -> c.count [] c.op = "write" -> Len(c.data) [] OTHER -> 0

RfMoves(c, r) ==
    CASE c.op = "read" -> Len(r.data) [] c.op = "write" -> Len(c.data) [] OTHER -> 0

RfControl(c, r, b) ==
    CASE c.op = "open"  -> [state |-> "used", name |-> b.name, pos |-> 0, mode |-> b.mode]
      [] c.op = "close" -> [b EXCEPT !.state = "free"]
      [] OTHER          -> [b EXCEPT !.pos = @ + RfMoves(c, r)]

\* The reply; a refusal by the server ends all calls but that for the size
\* with SYSERR.
RfReply(p) == \E r \in rfreplies :
    LET c == rfcall[p] IN
    /\ c.op # "idle"
    /\ RfFits(c, r)
    /\ rfreplies' = rfreplies \ {r}
    /\ \/ ~r.ok /\ c.op # "size" /\ RfFails(p)
       \/ /\ r.ok \/ c.op = "size"
          /\ rf_mutex' = RfSignal(TRUE)
          /\ rfcall' = [rfcall EXCEPT ![p] = RfIdle]
          /\ rfltab' = IF "dev" \in DOMAIN c
                         THEN [rfltab EXCEPT ![c.dev] = RfControl(c, r, @)] ELSE rfltab
          /\ rfmay' = IF c.op = "size" THEN rfmay
                      ELSE [rfmay EXCEPT ![c.name] =
                              {RfBecomes(c, s) : s \in {s \in @ : RfDoable(c, s)}}]
          /\ rftold' = CASE c.op = "open"  -> [rftold EXCEPT ![c.dev] = 0]
                         [] c.op = "read"  -> [rftold EXCEPT ![c.dev] = @ + Len(r.data)]
                         [] c.op = "write" -> [rftold EXCEPT ![c.dev] = @ + Len(c.data)]
                         [] OTHER          -> rftold
          /\ rfread' = IF /\ c.op = "read" /\ c.name \notin rflate
                          /\ \A s \in rfmay[c.name] : RfReads(c, s) # r.data
                         THEN "stale" ELSE rfread
          /\ UNCHANGED <<rf_seq, rf_registered, rffiles, rfrequests, rflate>>

-----------------------------------------------------------------------------

RfNext ==
    \/ \E c \in rfrequests : RfServe(c)
    \/ \E p \in RfProc :
        \/ \E f \in RfNames, mode \in RfModes : rfsopen(p, f, mode)
        \/ \E d \in RfDev :
             \/ rflclose(p, d)
             \/ \E n \in RfCounts : rflread(p, d, n)
             \/ \E n \in RfCounts, b \in RfByte : rflwrite(p, d, [i \in 1 .. n |-> b])
             \/ \E pos \in RfSeeks : rflseek(p, d, pos)
        \/ \E func \in {"del", "trunc", "mkdir", "rmdir", "size"}, f \in RfNames :
             rfscontrol(p, func, f)
        \/ RfTimeout(p) \/ RfSendError(p) \/ RfMismatch(p) \/ RfReply(p)

RfSpec == RfInit /\ [][RfNext]_rfVars

-----------------------------------------------------------------------------

RfTypeOK ==
    /\ rf_mutex \in {0, 1}
    /\ rf_seq \in Nat
    /\ \A d \in RfDev : /\ rfltab[d].state \in {"free", "used"}
                        /\ rfltab[d].name \in RfNames
                        /\ rfltab[d].pos \in 0 .. RfMaxSize
    /\ \A p \in RfProc : rfcall[p] # RfIdle => rfcall[p].try \in 1 .. RF_RETRIES

\* Every way out of a call signals the mutex, and nobody else does: it is free
\* when nobody is in a call, and two never are (rfsopen.c:27, and the returns
\* of all the calls).
MutexFollowsCalls ==
    Cardinality({p \in RfProc : rfcall[p] # RfIdle}) = 1 - rf_mutex

\* What callers were told is true, whatever was lost, sent twice or answered late:
\* a file is what the calls that ended with OK made of it, up to the calls that
\* failed, which may have been done or not; and a read got bytes such a file has
\* (rfscomm.c:77, and requests that name the position, rflwrite.c:61).  Only a
\* file that a copy of a request has changed after its call ended is excepted:
\* nothing in rfscomm.c keeps the server from doing such a copy.
ResultsAreTrue ==
    /\ rfread = "fits"
    /\ rf_mutex = 1 => \A f \in RfNames \ rflate : rffiles[f] \in rfmay[f]

\* The position of an open device is the last seek plus the bytes that calls
\* returned since then: a failed or repeated call does not move it
\* (rflread.c:96, rflwrite.c:93).
PositionsAsTold ==
    \A d \in RfDev : rfltab[d].state = "used" => rfltab[d].pos = rftold[d]

\* However requests and replies are lost, late or repeated: the mutex is held by
\* one call, the position of a device is the one that the results add up to, and
\* what calls returned is what became of each file, as long as no copy of a request
\* changes the file when the call that sent it has ended.
RfInv ==
    /\ RfTypeOK
    /\ MutexFollowsCalls
    /\ ResultsAreTrue
    /\ PositionsAsTold

=============================================================================
