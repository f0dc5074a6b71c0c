----------------------------- MODULE DeviceProofs ----------------------------
(***************************************************************************)
(* Proofs about devices: remote files, the name space, the serial line and *)
(* the Ethernet driver.                                                    *)
(*                                                                         *)
(* RfInv for any number of processes, devices and files, and any number of *)
(* retries.  While a call is under way, the server may have done it no     *)
(* time, once or several times, and copies of older requests still come.   *)
(* The proof rests on three facts: doing a request a second time changes   *)
(* nothing (Repeated), a reply with the number of the call can only come   *)
(* from one of its own transmissions, and a copy of an older request       *)
(* changes only files in rflate, for which nothing is said but how much a  *)
(* read returns.                                                           *)
(*                                                                         *)
(* NamInv for any names, mounts and sizes: what the loop of nammap comes   *)
(* to is followed in the buffer (NamTurnsIs) and in the table (LeadingIs). *)
(*                                                                         *)
(* TtyInv and LineEdited for any sizes of the buffers and any processes    *)
(* and keys: a character that may be read, or a free place, is one that a  *)
(* semaphore has promised, and what is between the head and the tail of a  *)
(* circular buffer is a text (TyText).                                     *)
(*                                                                         *)
(* EthInv for rings of any sizes and any number of processes and frames.   *)
(***************************************************************************)
EXTENDS RemoteFiles, Names, Tty, Ethernet, QueueOpsProofs, FiniteSetTheorems

\* Files, and the letters of modes.
RfFile == {RfAbsent, RfDirectory} \cup {s \in Seq(Nat) : Len(s) <= RfMaxSize}

RfLetterSets == {Range(mode) : mode \in RfModes}
RfLetters == (UNION RfLetterSets) \cup {"r", "w"}

RfBlock == [state : {"free", "used"}, name : RfNames, pos : 0 .. RfMaxSize,
            mode : SUBSET RfLetters]

\* Requests.
RfNamed == [op : {"del", "trunc", "mkdir", "rmdir", "size"}, name : RfNames,
            seq : Nat, try : 1 .. RF_RETRIES]
RfOpens == [op : {"open"}, dev : RfDev, name : RfNames, mode : SUBSET RfLetters,
            seq : Nat, try : 1 .. RF_RETRIES]
RfCloses == [op : {"close"}, dev : RfDev, name : RfNames, seq : Nat, try : 1 .. RF_RETRIES]
RfReadReqs == [op : {"read"}, dev : RfDev, name : RfNames, pos : 0 .. RfMaxSize,
               count : Nat, seq : Nat, try : 1 .. RF_RETRIES]
RfWriteReqs == [op : {"write"}, dev : RfDev, name : RfNames, pos : 0 .. RfMaxSize,
                data : {b \in Seq(Nat) : Len(b) <= RfMaxSize},
                seq : Nat, try : 1 .. RF_RETRIES]

\* A write fits the bound on the size of a file.
RfRequest == RfNamed \cup RfOpens \cup RfCloses \cup RfReadReqs
             \cup {c \in RfWriteReqs : c.pos + Len(c.data) <= RfMaxSize}

RfReplies == [op : {"open", "close", "read", "write", "del", "trunc", "mkdir", "rmdir", "size"},
              seq : Nat, ok : BOOLEAN, data : Seq(Nat)]

RfTypes ==
    /\ rf_mutex \in {0, 1}
    /\ rf_seq \in Nat
    /\ rf_registered \in BOOLEAN
    /\ rfltab \in [RfDev -> RfBlock]
    /\ rfcall \in [RfProc -> RfRequest \cup {RfIdle}]
    /\ rffiles \in [RfNames -> RfFile]
    /\ rfrequests \subseteq RfRequest
    /\ rfreplies \subseteq RfReplies
    /\ rfmay \in [RfNames -> SUBSET RfFile]
    /\ rflate \subseteq RfNames
    /\ rftold \in [RfDev -> Int]
    /\ rfread \in {"fits", "stale"}

\* What a file may be once request c is known to be done.
RfDone(c, may) == {RfBecomes(c, s) : s \in {s \in may[c.name] : RfDoable(c, s)}}

\* The files while request c is under way, those in late apart: its file is what
\* it may be, done or not, the others are what they may be.
FilesOK(c, may, files, late) ==
    /\ c.name \notin late => files[c.name] \in may[c.name] \cup RfDone(c, may)
    /\ \A f \in RfNames \ late : f # c.name => files[f] \in may[f]

\* Reply r to request c says what was done, and a read returns no more than the
\* file can have.
ReplyFits(c, may, files, late, r) ==
    /\ c.name \notin late => files[c.name] \in RfDone(c, may)
    /\ c.op = "read" => c.pos + Len(r.data) \in 0 .. RfMaxSize
    /\ c.op = "read" /\ c.name \notin late => r.data = RfReads(c, files[c.name])

RepliesOK(c, may, files, late, replies) ==
    \A r \in replies :
        r.seq = c.seq /\ r.op = c.op /\ r.ok => ReplyFits(c, may, files, late, r)

\* Requests with the number of request c are copies of it.
CopiesOK(c, requests) == \A q \in requests : q.seq = c.seq => q = RfCopy(c)

\* The device of request c stays as the call found it.
DeviceOK(c, tab) ==
    /\ c.op \in {"close", "read", "write"} => tab[c.dev].state = "used"
    /\ c.op \in {"read", "write"} => c.pos = tab[c.dev].pos

CallOK(c) ==
    /\ c.seq < rf_seq
    /\ DeviceOK(c, rfltab)
    /\ FilesOK(c, rfmay, rffiles, rflate)
    /\ RepliesOK(c, rfmay, rffiles, rflate, rfreplies)
    /\ CopiesOK(c, rfrequests)

InCall(p) == rfcall[p] # RfIdle

RfIInv ==
    /\ RfTypes
    /\ \A p, q \in RfProc : InCall(p) /\ InCall(q) => p = q
    /\ rf_mutex = 1 <=> \A p \in RfProc : ~InCall(p)
    /\ \A r \in rfreplies : r.seq < rf_seq
    /\ \A q \in rfrequests : q.seq < rf_seq
    /\ \A p \in RfProc : InCall(p) => CallOK(rfcall[p])
    /\ rf_mutex = 1 => \A f \in RfNames \ rflate : rffiles[f] \in rfmay[f]
    /\ rfread = "fits"
    /\ PositionsAsTold

-----------------------------------------------------------------------------
(* What requests do to files.                                              *)

\* A function on 1 .. n is a sequence of length n.
LEMMA MadeSeq ==
  ASSUME NEW S, NEW n \in Nat, NEW g \in [1 .. n -> S]
  PROVE  g \in Seq(S) /\ Len(g) = n
<1>1. g \in Seq(S)
  BY SeqDef
<1>2. Len(g) \in Nat /\ DOMAIN g = 1 .. Len(g)
  BY <1>1, LenProperties
<1>3. 1 .. n = 1 .. Len(g)
  BY <1>2
<1>4. QED
  BY <1>1, <1>2, <1>3

LEMMA EmptyFile == <<>> \in Seq(Nat) /\ Len(<<>>) = 0 /\ <<>> \in RfFile
  BY RfAssumption, EmptySeq DEF RfFile

LEMMA NotFiles ==
  /\ RfAbsent \notin Seq(Nat) /\ RfDirectory \notin Seq(Nat) /\ RfAbsent # RfDirectory
<1>1. RfAbsent[1] = -1 /\ RfDirectory[1] = -2 /\ Len(RfAbsent) = 1 /\ Len(RfDirectory) = 1
  BY DEF RfAbsent, RfDirectory
<1>2. ASSUME NEW s \in Seq(Nat), Len(s) = 1
      PROVE  s[1] \in Nat
  <2>1. 1 \in 1 .. Len(s)
    BY <1>2
  <2>2. QED
    BY <2>1, ElementOfSeq
<1>3. QED
  BY <1>1, <1>2

LEMMA FileFacts ==
  ASSUME NEW s \in RfFile
  PROVE  RfIsFile(s) <=> s \in Seq(Nat) /\ Len(s) <= RfMaxSize
  BY NotFiles DEF RfFile, RfIsFile

\* A write: the length and the bytes of what it leaves.
LEMMA WrittenFacts ==
  ASSUME NEW s \in Seq(Nat), NEW pos \in Nat, NEW data \in Seq(Nat)
  PROVE  LET w == RfWritten(s, pos, data)
             n == IF pos + Len(data) > Len(s) THEN pos + Len(data) ELSE Len(s)
         IN  /\ w \in Seq(Nat) /\ Len(w) = n
             /\ \A i \in 1 .. n : w[i] = IF i \in pos + 1 .. pos + Len(data) THEN data[i - pos]
                                         ELSE IF i <= Len(s) THEN s[i] ELSE 0
<1> DEFINE n == IF pos + Len(data) > Len(s) THEN pos + Len(data) ELSE Len(s)
           e(i) == IF i \in pos + 1 .. pos + Len(data) THEN data[i - pos]
                   ELSE IF i <= Len(s) THEN s[i] ELSE 0
           w == [i \in 1 .. n |-> e(i)]
<1>1. Len(s) \in Nat /\ Len(data) \in Nat /\ n \in Nat
  BY LenProperties
<1>2. ASSUME NEW i \in 1 .. n
      PROVE  e(i) \in Nat
  <2>1. CASE i \in pos + 1 .. pos + Len(data)
    <3>1. i - pos \in 1 .. Len(data)
      BY <1>1, <2>1
    <3>2. QED
      BY <2>1, <3>1, ElementOfSeq
  <2>2. CASE i \notin pos + 1 .. pos + Len(data) /\ i <= Len(s)
    <3>1. i \in 1 .. Len(s)
      BY <1>1, <2>2
    <3>2. QED
      BY <2>2, <3>1, ElementOfSeq
  <2>3. CASE i \notin pos + 1 .. pos + Len(data) /\ ~(i <= Len(s))
    BY <2>3
  <2>4. QED
    BY <2>1, <2>2, <2>3
<1>3. w \in [1 .. n -> Nat]
  BY <1>2
<1>4. w \in Seq(Nat) /\ Len(w) = n
  BY <1>1, <1>3, MadeSeq
<1>5. w = RfWritten(s, pos, data)
  BY DEF RfWritten
<1>6. \A i \in 1 .. n : w[i] = e(i)
  OBVIOUS
<1> HIDE DEF w
<1>7. QED
  BY <1>4, <1>5, <1>6

\* Writing the same bytes again changes nothing.
LEMMA WrittenTwice ==
  ASSUME NEW s \in Seq(Nat), NEW pos \in Nat, NEW data \in Seq(Nat)
  PROVE  RfWritten(RfWritten(s, pos, data), pos, data) = RfWritten(s, pos, data)
<1> DEFINE w == RfWritten(s, pos, data)
           v == RfWritten(w, pos, data)
           n == IF pos + Len(data) > Len(s) THEN pos + Len(data) ELSE Len(s)
<1>1. Len(s) \in Nat /\ Len(data) \in Nat /\ n \in Nat /\ n >= pos + Len(data)
  BY LenProperties
<1>2. /\ w \in Seq(Nat) /\ Len(w) = n
      /\ \A i \in 1 .. n : i \in pos + 1 .. pos + Len(data) => w[i] = data[i - pos]
  BY WrittenFacts
<1> HIDE DEF w
<1>3. v \in Seq(Nat) /\ Len(v) = n
  <2> DEFINE m == IF pos + Len(data) > Len(w) THEN pos + Len(data) ELSE Len(w)
  <2>1. v \in Seq(Nat) /\ Len(v) = m
    BY <1>2, WrittenFacts
  <2>2. m = n
    BY <1>1, <1>2
  <2>3. QED
    BY <2>1, <2>2
<1>4. ASSUME NEW i \in 1 .. n
      PROVE  v[i] = w[i]
  <2>1. v[i] = IF i \in pos + 1 .. pos + Len(data) THEN data[i - pos]
               ELSE IF i <= Len(w) THEN w[i] ELSE 0
    <3>1. \A j \in 1 .. (IF pos + Len(data) > Len(w) THEN pos + Len(data) ELSE Len(w)) :
             v[j] = IF j \in pos + 1 .. pos + Len(data) THEN data[j - pos]
                    ELSE IF j <= Len(w) THEN w[j] ELSE 0
      BY <1>2, WrittenFacts
    <3>2. (IF pos + Len(data) > Len(w) THEN pos + Len(data) ELSE Len(w)) = n
      BY <1>1, <1>2
    <3>3. QED
      BY <3>1, <3>2
  <2>2. QED
    BY <1>1, <1>2, <2>1
<1> HIDE DEF v
<1>5. v = w
  BY <1>2, <1>3, <1>4, SeqEqual
<1>6. QED
  BY <1>5 DEF v, w

-----------------------------------------------------------------------------
(* Requests.                                                               *)

LEMMA RequestFacts ==
  ASSUME NEW c \in RfRequest
  PROVE  /\ c.name \in RfNames /\ c.seq \in Nat /\ c.try \in 1 .. RF_RETRIES
         /\ c.op \in {"open", "close", "read", "write", "del", "trunc", "mkdir", "rmdir", "size"}
         /\ c.op \in {"open", "close", "read", "write"} => "dev" \in DOMAIN c /\ c.dev \in RfDev
         /\ c.op \notin {"open", "close", "read", "write"} => "dev" \notin DOMAIN c
         /\ c.op \in {"read", "write"} => c.pos \in 0 .. RfMaxSize
         /\ c.op = "read" => c.count \in Nat
         /\ c.op = "write" => c.data \in Seq(Nat) /\ c.pos + Len(c.data) <= RfMaxSize
         /\ c # RfIdle
<1>1. CASE c \in RfNamed
  BY <1>1 DEF RfNamed, RfIdle
<1>2. CASE c \in RfOpens
  BY <1>2 DEF RfOpens, RfIdle
<1>3. CASE c \in RfCloses
  BY <1>3 DEF RfCloses, RfIdle
<1>4. CASE c \in RfReadReqs
  BY <1>4 DEF RfReadReqs, RfIdle
<1>5. CASE c \in RfWriteReqs /\ c.pos + Len(c.data) <= RfMaxSize
  BY <1>5 DEF RfWriteReqs, RfIdle
<1>6. QED
  BY <1>1, <1>2, <1>3, <1>4, <1>5 DEF RfRequest

\* Another transmission is of the same request.
LEMMA RetryFacts ==
  ASSUME NEW c \in RfRequest, NEW t \in 1 .. RF_RETRIES
  PROVE  LET d == [c EXCEPT !.try = t] IN
         /\ d \in RfRequest /\ d.op = c.op /\ d.name = c.name /\ d.seq = c.seq /\ d.try = t
         /\ c.op \in {"open", "close", "read", "write"} => d.dev = c.dev
         /\ c.op \in {"read", "write"} => d.pos = c.pos
         /\ c.op = "open" => d.mode = c.mode
         /\ c.op = "write" => d.data = c.data
         /\ c.op = "read" => d.count = c.count
         /\ [d EXCEPT !.try = 1] = [c EXCEPT !.try = 1]
         /\ [d EXCEPT !.try = c.try] = c
<1> DEFINE d == [c EXCEPT !.try = t]
<1>1. CASE c \in RfNamed
  BY <1>1 DEF RfNamed, RfRequest
<1>2. CASE c \in RfOpens
  BY <1>2 DEF RfOpens, RfRequest
<1>3. CASE c \in RfCloses
  BY <1>3 DEF RfCloses, RfRequest
<1>4. CASE c \in RfReadReqs
  BY <1>4 DEF RfReadReqs, RfRequest
<1>5. CASE c \in RfWriteReqs /\ c.pos + Len(c.data) <= RfMaxSize
  <2>1. d \in RfWriteReqs /\ d.pos = c.pos /\ d.data = c.data
    BY <1>5 DEF RfWriteReqs
  <2>2. d \in RfRequest
    BY <1>5, <2>1 DEF RfRequest
  <2>3. QED
    BY <1>5, <2>1, <2>2 DEF RfWriteReqs
<1>6. QED
  BY <1>1, <1>2, <1>3, <1>4, <1>5 DEF RfRequest

\* The copy that is sent.
LEMMA CopyFacts ==
  ASSUME NEW c \in RfRequest
  PROVE  /\ RfCopy(c) \in RfRequest /\ RfCopy(c).seq = c.seq
         /\ c = [RfCopy(c) EXCEPT !.try = c.try]
<1>1. 1 \in 1 .. RF_RETRIES
  BY RfAssumption
<1>2. QED
  BY <1>1, RetryFacts DEF RfCopy

\* What becomes of a file is a file.
LEMMA BecomesFile ==
  ASSUME NEW c \in RfRequest, NEW s \in RfFile, RfDoable(c, s)
  PROVE  RfBecomes(c, s) \in RfFile
<1>1. CASE c.op = "write"
  <2>1. s \in Seq(Nat) /\ Len(s) <= RfMaxSize
    BY <1>1, FileFacts DEF RfDoable
  <2>2. c.pos \in Nat /\ c.data \in Seq(Nat) /\ c.pos + Len(c.data) <= RfMaxSize
    BY <1>1, RequestFacts, RfAssumption
  <2>3. /\ RfWritten(s, c.pos, c.data) \in Seq(Nat)
        /\ Len(RfWritten(s, c.pos, c.data))
             = IF c.pos + Len(c.data) > Len(s) THEN c.pos + Len(c.data) ELSE Len(s)
    BY <2>1, <2>2, WrittenFacts
  <2>4. Len(RfWritten(s, c.pos, c.data)) <= RfMaxSize
    BY <2>1, <2>2, <2>3
  <2>5. QED
    BY <1>1, <2>3, <2>4 DEF RfBecomes, RfFile
<1>2. CASE c.op # "write"
  <2>1. RfAbsent \in RfFile /\ RfDirectory \in RfFile /\ <<>> \in RfFile
    BY EmptyFile DEF RfFile
  <2>2. RfBecomes(c, s) \in {<<>>, s, RfAbsent, RfDirectory}
    BY <1>2 DEF RfBecomes
  <2>3. QED
    BY <2>1, <2>2
<1>3. QED
  BY <1>1, <1>2

\* A request that is done a second time changes nothing.
LEMMA Repeated ==
  ASSUME NEW c \in RfRequest, NEW s \in RfFile, RfDoable(c, s),
         RfDoable(c, RfBecomes(c, s))
  PROVE  RfBecomes(c, RfBecomes(c, s)) = RfBecomes(c, s)
<1>1. <<>> # RfAbsent /\ RfDirectory # RfAbsent
  BY NotFiles, EmptyFile
<1>2. CASE c.op = "open"
  BY <1>1, <1>2 DEF RfBecomes
<1>3. CASE c.op = "write"
  <2>1. s \in Seq(Nat) /\ c.pos \in Nat /\ c.data \in Seq(Nat)
    BY <1>3, FileFacts, RequestFacts, RfAssumption DEF RfDoable
  <2>2. QED
    BY <1>3, <2>1, WrittenTwice DEF RfBecomes
<1>4. CASE c.op \notin {"open", "write"}
  BY <1>4 DEF RfBecomes
<1>5. QED
  BY <1>2, <1>3, <1>4

\* What a read returns fits in front of the bound.
LEMMA ReadsFacts ==
  ASSUME NEW c \in RfRequest, c.op = "read", NEW s \in Seq(Nat), Len(s) <= RfMaxSize
  PROVE  RfReads(c, s) \in Seq(Nat) /\ c.pos + Len(RfReads(c, s)) \in 0 .. RfMaxSize
<1> DEFINE n == IF c.pos + c.count < Len(s) THEN c.pos + c.count ELSE Len(s)
           r == SubSeq(s, c.pos + 1, n)
<1>1. c.pos \in 0 .. RfMaxSize /\ c.count \in Nat /\ RfMaxSize \in Nat /\ Len(s) \in Nat
  BY RequestFacts, RfAssumption, LenProperties
<1>2. n \in Nat /\ n <= Len(s)
  BY <1>1
<1>3. RfReads(c, s) = r
  BY DEF RfReads
<1> HIDE DEF n
<1>4. CASE c.pos + 1 <= n
  <2>1. r \in Seq(Nat) /\ Len(r) = n - (c.pos + 1) + 1
    BY <1>1, <1>2, <1>4, SubSeqProperties
  <2> HIDE DEF r
  <2>2. c.pos \in Int /\ c.pos + Len(r) = n
    BY <1>1, <1>2, <2>1
  <2>3. n \in 0 .. RfMaxSize
    BY <1>1, <1>2
  <2>4. QED
    BY <1>3, <2>1, <2>2, <2>3
<1>5. CASE ~(c.pos + 1 <= n)
  <2>1. r = <<>>
    BY <1>1, <1>2, <1>5
  <2> HIDE DEF r
  <2>2. QED
    BY <1>1, <1>3, <2>1, EmptyFile
<1>6. QED
  BY <1>4, <1>5

\* The files that are possible after a request are files, and those after a
\* request that only looks were possible before it.
LEMMA DoneFacts ==
  ASSUME NEW c \in RfRequest, NEW may \in [RfNames -> SUBSET RfFile]
  PROVE  /\ may[c.name] \subseteq RfFile
         /\ RfDone(c, may) \subseteq RfFile
         /\ c.op \in {"close", "read", "size"} =>
               RfDone(c, may) \subseteq {s \in may[c.name] : RfDoable(c, s)}
<1>1. may[c.name] \subseteq RfFile
  BY RequestFacts
<1>2. RfDone(c, may) \subseteq RfFile
  BY <1>1, BecomesFile DEF RfDone
<1>3. ASSUME c.op \in {"close", "read", "size"}
      PROVE  RfDone(c, may) \subseteq {s \in may[c.name] : RfDoable(c, s)}
  <2>1. \A s : RfBecomes(c, s) = s
    BY <1>3 DEF RfBecomes
  <2>2. QED
    BY <2>1 DEF RfDone
<1>4. QED
  BY <1>1, <1>2, <1>3

\* Another transmission asks for the same.
LEMMA RetryOK ==
  ASSUME NEW c \in RfRequest, NEW t \in 1 .. RF_RETRIES,
         NEW may, NEW files, NEW late, NEW replies, NEW requests, NEW tab
  PROVE  LET d == [c EXCEPT !.try = t] IN
         /\ FilesOK(c, may, files, late) => FilesOK(d, may, files, late)
         /\ RepliesOK(c, may, files, late, replies) => RepliesOK(d, may, files, late, replies)
         /\ CopiesOK(c, requests) => CopiesOK(d, requests)
         /\ DeviceOK(c, tab) => DeviceOK(d, tab)
<1> DEFINE d == [c EXCEPT !.try = t]
<1>1. /\ d.op = c.op /\ d.name = c.name /\ d.seq = c.seq
      /\ c.op \in {"open", "close", "read", "write"} => d.dev = c.dev
      /\ c.op \in {"read", "write"} => d.pos = c.pos
      /\ c.op = "open" => d.mode = c.mode
      /\ c.op = "write" => d.data = c.data
      /\ c.op = "read" => d.count = c.count
  BY RetryFacts
<1>2. c.op \in {"open", "close", "read", "write", "del", "trunc", "mkdir", "rmdir", "size"}
  BY RequestFacts
<1> HIDE DEF d
<1>3. ASSUME NEW s
      PROVE  RfDoable(d, s) = RfDoable(c, s)
  <2>1. CASE c.op = "open"
    BY <1>1, <2>1 DEF RfDoable
  <2>2. CASE c.op \in {"mkdir", "rmdir"}
    BY <1>1, <2>2 DEF RfDoable
  <2>3. CASE c.op \notin {"open", "mkdir", "rmdir"}
    BY <1>1, <2>3 DEF RfDoable
  <2>4. QED
    BY <2>1, <2>2, <2>3
<1>4. ASSUME NEW s
      PROVE  RfBecomes(d, s) = RfBecomes(c, s)
  <2>1. CASE c.op = "write"
    BY <1>1, <2>1 DEF RfBecomes
  <2>2. CASE c.op # "write"
    BY <1>1, <2>2 DEF RfBecomes
  <2>3. QED
    BY <2>1, <2>2
<1>5. RfDone(d, may) = RfDone(c, may)
  BY <1>1, <1>3, <1>4 DEF RfDone
<1>6. ASSUME NEW s, c.op = "read"
      PROVE  RfReads(d, s) = RfReads(c, s)
  BY <1>1, <1>6 DEF RfReads
<1>7. FilesOK(c, may, files, late) => FilesOK(d, may, files, late)
  BY <1>1, <1>5 DEF FilesOK
<1>8. ASSUME NEW r, ReplyFits(c, may, files, late, r)
      PROVE  ReplyFits(d, may, files, late, r)
  BY <1>1, <1>5, <1>6, <1>8 DEF ReplyFits
<1>9. RepliesOK(c, may, files, late, replies) => RepliesOK(d, may, files, late, replies)
  BY <1>1, <1>8 DEF RepliesOK
<1>10. RfCopy(d) = RfCopy(c)
  BY RetryFacts DEF d, RfCopy
<1>11. CopiesOK(c, requests) => CopiesOK(d, requests)
  BY <1>1, <1>10 DEF CopiesOK
<1>12. DeviceOK(c, tab) => DeviceOK(d, tab)
  BY <1>1 DEF DeviceOK
<1>13. QED
  BY <1>7, <1>9, <1>11, <1>12 DEF d

\* What the server makes of file s for request c, and what it replies.
RfMade(c, s) == IF RfDoable(c, s) THEN RfBecomes(c, s) ELSE s

RfAnswer(c, s) ==
    [op |-> c.op, seq |-> c.seq, ok |-> RfDoable(c, s),
     data |-> IF c.op = "read" /\ RfDoable(c, s) THEN RfReads(c, s) ELSE <<>>]

\* It makes a file, and a read returns what fits.
LEMMA ServerOK ==
  ASSUME NEW c \in RfRequest, NEW s \in RfFile
  PROVE  /\ RfMade(c, s) \in RfFile /\ RfAnswer(c, s) \in RfReplies
         /\ RfAnswer(c, s).op = c.op /\ RfAnswer(c, s).seq = c.seq
         /\ RfAnswer(c, s).ok = RfDoable(c, s)
         /\ c.op = "read" /\ RfDoable(c, s) =>
               /\ RfAnswer(c, s).data = RfReads(c, s)
               /\ c.pos + Len(RfReads(c, s)) \in 0 .. RfMaxSize
<1>1. RfMade(c, s) \in RfFile
  BY BecomesFile DEF RfMade
<1>2. RfDoable(c, s) \in BOOLEAN
  BY DEF RfDoable, RfIsFile
<1>3. c.op = "read" /\ RfDoable(c, s) =>
         RfReads(c, s) \in Seq(Nat) /\ c.pos + Len(RfReads(c, s)) \in 0 .. RfMaxSize
  <2>1. c.op = "read" /\ RfDoable(c, s) => s \in Seq(Nat) /\ Len(s) <= RfMaxSize
    BY FileFacts DEF RfDoable
  <2>2. QED
    BY <2>1, ReadsFacts
<1>4. (IF c.op = "read" /\ RfDoable(c, s) THEN RfReads(c, s) ELSE <<>>) \in Seq(Nat)
  BY <1>3, EmptyFile
<1>5. RfAnswer(c, s) \in RfReplies
  BY <1>2, <1>4, RequestFacts DEF RfReplies, RfAnswer
<1>6. /\ RfAnswer(c, s).op = c.op /\ RfAnswer(c, s).seq = c.seq
      /\ RfAnswer(c, s).ok = RfDoable(c, s)
      /\ c.op = "read" /\ RfDoable(c, s) => RfAnswer(c, s).data = RfReads(c, s)
  BY DEF RfAnswer
<1>7. QED
  BY <1>1, <1>3, <1>5, <1>6

\* The server does request c while its call is under way, for the first time or
\* again.
LEMMA ServedOK ==
  ASSUME NEW c \in RfRequest, NEW may \in [RfNames -> SUBSET RfFile], NEW late,
         NEW files \in [RfNames -> RfFile], NEW replies \in SUBSET RfReplies,
         FilesOK(c, may, files, late), RepliesOK(c, may, files, late, replies)
  PROVE  LET g == [files EXCEPT ![c.name] = RfMade(c, files[c.name])]
             a == RfAnswer(c, files[c.name])
         IN  FilesOK(c, may, g, late) /\ RepliesOK(c, may, g, late, replies \cup {a})
<1> DEFINE s == files[c.name]
           t == RfMade(c, s)
           a == RfAnswer(c, s)
           g == [files EXCEPT ![c.name] = t]
<1>1. s \in RfFile /\ c.name \in RfNames
  BY RequestFacts
<1>2. /\ t \in RfFile
      /\ a.ok = RfDoable(c, s)
      /\ c.op = "read" /\ RfDoable(c, s) =>
            a.data = RfReads(c, s) /\ c.pos + Len(RfReads(c, s)) \in 0 .. RfMaxSize
  BY <1>1, ServerOK
<1>3. /\ RfDoable(c, s) => t = RfBecomes(c, s)
      /\ ~RfDoable(c, s) => t = s
      /\ c.op = "read" => t = s
  BY DEF RfMade, RfBecomes
<1>4. c.name \notin late /\ RfDoable(c, s) => t \in RfDone(c, may)
  <2>1. CASE s \in may[c.name]
    BY <1>3, <2>1 DEF RfDone
  <2>2. CASE s \in RfDone(c, may)
    <3>1. PICK u \in may[c.name] : RfDoable(c, u) /\ s = RfBecomes(c, u)
      BY <2>2 DEF RfDone
    <3>2. u \in RfFile
      BY DoneFacts
    <3>3. RfDoable(c, s) => RfBecomes(c, s) = s
      BY <3>1, <3>2, Repeated
    <3>4. QED
      BY <1>3, <2>2, <3>3
  <2>3. QED
    BY <2>1, <2>2 DEF FilesOK
<1> HIDE DEF a
<1>5. g[c.name] = t /\ \A f \in RfNames : f # c.name => g[f] = files[f]
  BY <1>1
<1> HIDE DEF t
<1>6. c.name \notin late => t \in may[c.name] \cup RfDone(c, may)
  BY <1>3, <1>4 DEF FilesOK
<1> HIDE DEF g
<1>7. FilesOK(c, may, g, late)
  BY <1>5, <1>6 DEF FilesOK
<1>8. ASSUME NEW r \in replies \cup {a}, r.seq = c.seq, r.op = c.op, r.ok
      PROVE  ReplyFits(c, may, g, late, r)
  <2>1. CASE r \in replies
    <3>1. ReplyFits(c, may, files, late, r)
      BY <1>8, <2>1 DEF RepliesOK
    <3>2. QED
      BY <1>3, <1>4, <1>5, <3>1 DEF ReplyFits
  <2>2. CASE r = a
    BY <1>2, <1>3, <1>4, <1>5, <1>8, <2>2 DEF ReplyFits
  <2>3. QED
    BY <1>8, <2>1, <2>2
<1>9. RepliesOK(c, may, g, late, replies \cup {a})
  BY <1>8 DEF RepliesOK
<1>10. QED
  BY <1>7, <1>9 DEF g, t, a

\* A copy of an older request changes another file than those that are spoken of.
LEMMA StaleOK ==
  ASSUME NEW c \in RfRequest, NEW may, NEW files, NEW late, NEW replies,
         NEW g, NEW more, NEW a,
         FilesOK(c, may, files, late), RepliesOK(c, may, files, late, replies),
         late \subseteq more, \A f \in RfNames \ more : g[f] = files[f], a.seq # c.seq
  PROVE  FilesOK(c, may, g, more) /\ RepliesOK(c, may, g, more, replies \cup {a})
<1>1. c.name \in RfNames
  BY RequestFacts
<1>2. FilesOK(c, may, g, more)
  BY <1>1 DEF FilesOK
<1>3. ASSUME NEW r \in replies, ReplyFits(c, may, files, late, r)
      PROVE  ReplyFits(c, may, g, more, r)
  BY <1>1, <1>3 DEF ReplyFits
<1>4. RepliesOK(c, may, g, more, replies \cup {a})
  BY <1>3 DEF RepliesOK
<1>5. QED
  BY <1>2, <1>4


-----------------------------------------------------------------------------
(* The steps of a call.                                                    *)

\* The first transmission of request c by process p, whose control block is in
\* the state that the request says.
LEMMA SendsOK ==
  ASSUME RfIInv, NEW p \in RfProc, NEW c \in RfRequest, c.seq = rf_seq,
         rfltab' \in [RfDev -> RfBlock], DeviceOK(c, rfltab'), PositionsAsTold',
         RfSends(p, c)
  PROVE  RfIInv'
<1>1. /\ rf_mutex = 1 /\ rf_mutex' = 0 /\ rf_seq' = rf_seq + 1 /\ rf_registered' = TRUE
      /\ rfcall' = [rfcall EXCEPT ![p] = c] /\ RfTransmit(c)
      /\ rfmay' = rfmay /\ rftold' = rftold /\ rfread' = rfread
  BY DEF RfSends, RfWait
<1>2. /\ rf_seq \in Nat /\ rfcall \in [RfProc -> RfRequest \cup {RfIdle}]
      /\ rffiles' = rffiles /\ rfreplies' = rfreplies /\ rflate' = rflate
      /\ rfreplies \subseteq RfReplies /\ rfrequests \subseteq RfRequest
      /\ \A r \in rfreplies : r.seq < rf_seq
      /\ \A q \in rfrequests : q.seq < rf_seq
      /\ \A q \in RfProc : ~InCall(q)
      /\ \A f \in RfNames \ rflate : rffiles[f] \in rfmay[f]
  BY <1>1 DEF RfIInv, RfTypes, RfSends
<1>3. c.name \in RfNames /\ c # RfIdle
  BY RequestFacts
<1>4. ASSUME NEW r \in rfreplies
      PROVE  r.seq # c.seq
  <2>1. r.seq \in Nat
    BY <1>2 DEF RfReplies
  <2>2. QED
    BY <1>2, <2>1
<1>5. FilesOK(c, rfmay, rffiles, rflate) /\ RepliesOK(c, rfmay, rffiles, rflate, rfreplies)
  BY <1>2, <1>3, <1>4 DEF FilesOK, RepliesOK
<1>6. /\ rfrequests' = rfrequests \cup {RfCopy(c)} /\ RfCopy(c) \in RfRequest
      /\ RfCopy(c).seq = c.seq
  BY <1>1, CopyFacts DEF RfTransmit
<1> HIDE DEF RfCopy
<1>16. CopiesOK(c, rfrequests')
  <2>1. ASSUME NEW q \in rfrequests
        PROVE  q.seq # c.seq
    <3>1. q.seq \in Nat
      BY <1>2, RequestFacts
    <3>2. QED
      BY <1>2, <3>1
  <2>2. QED
    BY <1>6, <2>1 DEF CopiesOK
<1>7. rfcall'[p] = c /\ \A q \in RfProc : q # p => rfcall'[q] = RfIdle
  BY <1>1, <1>2 DEF InCall
<1>8. RfTypes'
  BY <1>1, <1>2, <1>6 DEF RfIInv, RfTypes
<1>9. \A r \in rfreplies' : r.seq < rf_seq'
  <2>1. ASSUME NEW r \in rfreplies'
        PROVE  r.seq < rf_seq'
    <3>1. r.seq \in Nat /\ r.seq < rf_seq
      BY <1>2 DEF RfReplies
    <3>2. QED
      BY <1>1, <1>2, <3>1
  <2>2. QED
    BY <2>1
<1>10. c.seq < rf_seq'
  BY <1>1, <1>2
<1>11. \A q \in RfProc : InCall(q)' => CallOK(rfcall[q])'
  <2>1. CallOK(rfcall[p])'
    BY <1>1, <1>2, <1>5, <1>7, <1>10, <1>16 DEF CallOK
  <2>2. QED
    BY <1>7, <2>1 DEF InCall
<1>12. \A q, o \in RfProc : InCall(q)' /\ InCall(o)' => q = o
  BY <1>7 DEF InCall
<1>13. InCall(p)'
  BY <1>3, <1>7 DEF InCall
<1>14. rfread' = "fits"
  BY <1>1 DEF RfIInv
<1>17. \A q \in rfrequests' : q.seq < rf_seq'
  <2>1. ASSUME NEW q \in rfrequests'
        PROVE  q.seq < rf_seq'
    <3>1. q.seq \in Nat /\ (q.seq < rf_seq \/ q.seq = rf_seq)
      BY <1>2, <1>6, RequestFacts
    <3>2. QED
      BY <1>1, <1>2, <3>1
  <2>2. QED
    BY <2>1
<1>15. QED
  BY <1>1, <1>8, <1>9, <1>11, <1>12, <1>13, <1>14, <1>17 DEF RfIInv

\* Of the processes, only p is in a call.
LEMMA TheCaller ==
  ASSUME RfIInv, NEW p \in RfProc, InCall(p)
  PROVE  /\ rfcall[p] \in RfRequest /\ CallOK(rfcall[p])
         /\ rf_mutex = 0
         /\ \A q \in RfProc : q # p => rfcall[q] = RfIdle
  BY DEF RfIInv, RfTypes, InCall

\* The call of process p ends, with the files that are possible then.
LEMMA EndsOK ==
  ASSUME RfIInv, NEW p \in RfProc, InCall(p),
         rf_mutex' = 1, rfcall' = [rfcall EXCEPT ![p] = RfIdle],
         rf_seq' = rf_seq, rf_registered' = rf_registered, rffiles' = rffiles,
         rfrequests' = rfrequests, rflate' = rflate,
         rfreplies' \subseteq rfreplies, rfltab' \in [RfDev -> RfBlock],
         rfmay' \in [RfNames -> SUBSET RfFile],
         \A f \in RfNames \ rflate : rffiles[f] \in rfmay'[f],
         rftold' \in [RfDev -> Int], rfread' = "fits", PositionsAsTold'
  PROVE  RfIInv'
<1>1. \A q \in RfProc : rfcall'[q] = RfIdle
  BY TheCaller DEF RfIInv, RfTypes
<1>2. rfcall' \in [RfProc -> RfRequest \cup {RfIdle}]
  BY DEF RfIInv, RfTypes
<1>3. RfTypes'
  BY <1>2 DEF RfIInv, RfTypes
<1>4. \A q \in RfProc : ~InCall(q)'
  BY <1>1 DEF InCall
<1>5. (\A r \in rfreplies' : r.seq < rf_seq') /\ (\A q \in rfrequests' : q.seq < rf_seq')
  BY DEF RfIInv
<1>6. \A f \in RfNames \ rflate' : rffiles'[f] \in rfmay'[f]
  OBVIOUS
<1>7. QED
  BY <1>3, <1>4, <1>5, <1>6 DEF RfIInv

\* A call that fails may have been done or not.
LEMMA FailsOK ==
  ASSUME RfIInv, NEW p \in RfProc, InCall(p), RfFails(p), rfreplies' \subseteq rfreplies
  PROVE  RfIInv'
<1> DEFINE c == rfcall[p]
<1>1. /\ rf_mutex' = 1 /\ rfcall' = [rfcall EXCEPT ![p] = RfIdle]
      /\ rfmay' = [rfmay EXCEPT ![c.name] = rfmay[c.name] \cup RfDone(c, rfmay)]
      /\ rf_seq' = rf_seq /\ rf_registered' = rf_registered /\ rfltab' = rfltab
      /\ rffiles' = rffiles /\ rfrequests' = rfrequests /\ rflate' = rflate
      /\ rftold' = rftold /\ rfread' = rfread
  BY DEF RfFails, RfSignal, RfDone
<1>2. c \in RfRequest /\ CallOK(c)
  BY TheCaller
<1>3. /\ rfmay \in [RfNames -> SUBSET RfFile] /\ rfltab \in [RfDev -> RfBlock]
      /\ rftold \in [RfDev -> Int] /\ rfread = "fits" /\ PositionsAsTold
  BY DEF RfIInv, RfTypes
<1>4. FilesOK(c, rfmay, rffiles, rflate)
  BY <1>2 DEF CallOK
<1> HIDE DEF c
<1>5. c.name \in RfNames /\ rfmay[c.name] \subseteq RfFile /\ RfDone(c, rfmay) \subseteq RfFile
  BY <1>2, <1>3, RequestFacts, DoneFacts
<1>6. rfmay' \in [RfNames -> SUBSET RfFile]
  BY <1>1, <1>3, <1>5
<1>7. \A f \in RfNames \ rflate : rffiles[f] \in rfmay'[f]
  BY <1>1, <1>3, <1>4, <1>5 DEF FilesOK
<1>8. PositionsAsTold'
  BY <1>1, <1>3 DEF PositionsAsTold
<1>9. QED
  BY <1>1, <1>3, <1>6, <1>7, <1>8, EndsOK

\* After a timeout or a reply that does not fit: another transmission, or the end.
LEMMA AgainOK ==
  ASSUME RfIInv, NEW p \in RfProc, InCall(p), NEW replies \in SUBSET rfreplies,
         RfAgain(p, replies)
  PROVE  RfIInv'
<1> DEFINE c == rfcall[p]
           d == [c EXCEPT !.try = c.try + 1]
<1>1. CASE c.try = RF_RETRIES /\ RfFails(p) /\ rfreplies' = replies
  BY <1>1, FailsOK
<1>2. CASE /\ c.try < RF_RETRIES
           /\ rfcall' = [rfcall EXCEPT ![p] = d]
           /\ RfTransmit(c)
           /\ rfreplies' = replies
           /\ UNCHANGED <<rf_mutex, rf_seq, rf_registered, rfltab, rffiles, rfmay, rflate,
                          rftold, rfread>>
  <2>1. /\ c \in RfRequest /\ CallOK(c) /\ rf_mutex = 0
        /\ \A q \in RfProc : q # p => rfcall[q] = RfIdle
    BY TheCaller
  <2>2. /\ rf_seq \in Nat /\ rfcall \in [RfProc -> RfRequest \cup {RfIdle}]
        /\ rfrequests \subseteq RfRequest /\ rfreplies \subseteq RfReplies
        /\ \A r \in rfreplies : r.seq < rf_seq
        /\ \A q \in rfrequests : q.seq < rf_seq
    BY DEF RfIInv, RfTypes
  <2>3. c.try + 1 \in 1 .. RF_RETRIES
    BY <1>2, <2>1, RequestFacts, RfAssumption
  <2>4. /\ d \in RfRequest /\ d.seq = c.seq /\ d # RfIdle
        /\ DeviceOK(d, rfltab) /\ FilesOK(d, rfmay, rffiles, rflate)
        /\ RepliesOK(d, rfmay, rffiles, rflate, rfreplies)
        /\ CopiesOK(d, rfrequests)
    <3>1. d \in RfRequest /\ d.seq = c.seq
      BY <2>1, <2>3, RetryFacts
    <3>2. /\ DeviceOK(d, rfltab) /\ FilesOK(d, rfmay, rffiles, rflate)
          /\ RepliesOK(d, rfmay, rffiles, rflate, rfreplies)
          /\ CopiesOK(d, rfrequests)
      BY <2>1, <2>3, RetryOK DEF CallOK
    <3>3. QED
      BY <3>1, <3>2, RequestFacts
  <2>5. c.seq < rf_seq
    BY <2>1 DEF CallOK
  <2>6. rfcall' = [rfcall EXCEPT ![p] = d]
    BY <1>2
  <2>7. /\ rfrequests' = rfrequests \cup {RfCopy(d)} /\ RfCopy(d) \in RfRequest
        /\ RfCopy(d).seq = d.seq
    <3>1. RfCopy(d) = RfCopy(c)
      BY <2>1, <2>3, RetryFacts DEF RfCopy
    <3>2. RfCopy(d) \in RfRequest /\ RfCopy(d).seq = d.seq
      BY <2>4, CopyFacts
    <3>3. QED
      BY <1>2, <3>1, <3>2 DEF RfTransmit
  <2>8. /\ rf_mutex' = rf_mutex /\ rf_seq' = rf_seq /\ rf_registered' = rf_registered
        /\ rfltab' = rfltab /\ rfmay' = rfmay /\ rftold' = rftold /\ rfread' = rfread
        /\ rffiles' = rffiles /\ rflate' = rflate /\ rfreplies' \subseteq rfreplies
    BY <1>2
  <2> HIDE DEF c, d, RfCopy
  <2>9. RepliesOK(d, rfmay, rffiles, rflate, rfreplies') /\ CopiesOK(d, rfrequests')
    BY <2>4, <2>7, <2>8 DEF RepliesOK, CopiesOK
  <2>10. rfcall'[p] = d /\ \A q \in RfProc : q # p => rfcall'[q] = RfIdle
    BY <2>1, <2>2, <2>6
  <2>11. RfTypes'
    BY <2>2, <2>4, <2>6, <2>7, <2>8 DEF RfIInv, RfTypes
  <2>12. (\A r \in rfreplies' : r.seq < rf_seq') /\ (\A q \in rfrequests' : q.seq < rf_seq')
    BY <2>2, <2>4, <2>5, <2>7, <2>8
  <2>13. CallOK(rfcall[p])'
    BY <2>4, <2>5, <2>8, <2>9, <2>10 DEF CallOK
  <2>14. \A q \in RfProc : InCall(q)' => CallOK(rfcall[q])'
    BY <2>10, <2>13 DEF InCall
  <2>15. \A q, o \in RfProc : InCall(q)' /\ InCall(o)' => q = o
    BY <2>10 DEF InCall
  <2>16. InCall(p)'
    BY <2>4, <2>10 DEF InCall
  <2>17. rfread' = "fits" /\ PositionsAsTold'
    BY <2>8 DEF RfIInv, PositionsAsTold
  <2>18. rf_mutex' = 0
    BY <2>1, <2>8
  <2>19. QED
    BY <2>11, <2>12, <2>14, <2>15, <2>16, <2>17, <2>18 DEF RfIInv
<1>3. QED
  BY <1>1, <1>2 DEF RfAgain

\* A request comes to the server: one of the call under way, or a copy of an
\* older one.
LEMMA ServeOK ==
  ASSUME RfIInv, NEW q \in rfrequests, RfServe(q)
  PROVE  RfIInv'
<1> DEFINE s == rffiles[q.name]
           t == RfMade(q, s)
           a == RfAnswer(q, s)
           stale == \A p \in RfProc : rfcall[p] # RfIdle => rfcall[p].seq # q.seq
<1>1. /\ rffiles' = [rffiles EXCEPT ![q.name] = t]
      /\ rfreplies' = rfreplies \cup {a}
      /\ rflate' = IF stale /\ t # s THEN rflate \cup {q.name} ELSE rflate
      /\ rf_mutex' = rf_mutex /\ rf_seq' = rf_seq /\ rf_registered' = rf_registered
      /\ rfltab' = rfltab /\ rfcall' = rfcall /\ rfrequests' = rfrequests /\ rfmay' = rfmay
      /\ rftold' = rftold /\ rfread' = rfread
  BY DEF RfServe, RfMade, RfAnswer
<1>2. /\ q \in RfRequest /\ q.seq < rf_seq /\ rf_seq \in Nat
      /\ rffiles \in [RfNames -> RfFile] /\ rfreplies \in SUBSET RfReplies
      /\ rfmay \in [RfNames -> SUBSET RfFile] /\ rflate \subseteq RfNames
      /\ rfcall \in [RfProc -> RfRequest \cup {RfIdle}]
  BY DEF RfIInv, RfTypes
<1>3. q.name \in RfNames /\ s \in RfFile
  BY <1>2, RequestFacts
<1>4. t \in RfFile /\ a \in RfReplies /\ a.seq = q.seq
  BY <1>2, <1>3, ServerOK
<1>5. /\ rffiles' \in [RfNames -> RfFile] /\ rfreplies' \subseteq RfReplies
      /\ rflate' \subseteq RfNames /\ rflate \subseteq rflate'
  BY <1>1, <1>2, <1>3, <1>4
<1>6. RfTypes'
  BY <1>1, <1>5 DEF RfIInv, RfTypes
<1>7. \A r \in rfreplies' : r.seq < rf_seq'
  BY <1>1, <1>2, <1>4 DEF RfIInv
<1>8. \A p \in RfProc : InCall(p)' <=> InCall(p)
  BY <1>1 DEF InCall
<1>9. CASE stale
  <2>1. \A f \in RfNames \ rflate' : rffiles'[f] = rffiles[f]
    BY <1>1, <1>2, <1>3, <1>9
  <2>2. ASSUME NEW p \in RfProc, InCall(p)
        PROVE  CallOK(rfcall[p])'
    <3> DEFINE c == rfcall[p]
    <3>1. c \in RfRequest /\ CallOK(c)
      BY <2>2, TheCaller
    <3>2. a.seq # c.seq
      BY <1>4, <1>9, <2>2 DEF InCall
    <3> HIDE DEF c, a
    <3>3. FilesOK(c, rfmay, rffiles', rflate') /\ RepliesOK(c, rfmay, rffiles', rflate', rfreplies')
      <4>1. FilesOK(c, rfmay, rffiles, rflate) /\ RepliesOK(c, rfmay, rffiles, rflate, rfreplies)
        BY <3>1 DEF CallOK
      <4>2. /\ FilesOK(c, rfmay, rffiles', rflate')
            /\ RepliesOK(c, rfmay, rffiles', rflate', rfreplies \cup {a})
        BY <1>5, <2>1, <3>1, <3>2, <4>1, StaleOK
      <4>3. rfreplies' = rfreplies \cup {a}
        BY <1>1 DEF a
      <4>4. QED
        BY <4>2, <4>3
    <3>4. CallOK(c)'
      <4>1. c' = c
        BY <1>1 DEF c
      <4>2. QED
        BY <1>1, <3>1, <3>3, <4>1 DEF CallOK
    <3>5. QED
      BY <3>4 DEF c
  <2>3. rf_mutex' = 1 => \A f \in RfNames \ rflate' : rffiles'[f] \in rfmay'[f]
    BY <1>1, <1>5, <2>1 DEF RfIInv
  <2>4. QED
    BY <1>1, <1>6, <1>7, <1>8, <2>2, <2>3 DEF RfIInv, PositionsAsTold
<1>10. CASE ~stale
  <2>1. PICK p \in RfProc : rfcall[p] # RfIdle /\ rfcall[p].seq = q.seq
    BY <1>10
  <2> DEFINE c == rfcall[p]
  <2>2. /\ InCall(p) /\ c \in RfRequest /\ CallOK(c) /\ rf_mutex = 0
        /\ \A o \in RfProc : o # p => rfcall[o] = RfIdle
    BY <2>1, TheCaller DEF InCall
  <2>3. q = RfCopy(c)
    BY <2>1, <2>2 DEF CallOK, CopiesOK
  <2>4. FilesOK(q, rfmay, rffiles, rflate) /\ RepliesOK(q, rfmay, rffiles, rflate, rfreplies)
    <3>1. FilesOK(c, rfmay, rffiles, rflate) /\ RepliesOK(c, rfmay, rffiles, rflate, rfreplies)
      BY <2>2 DEF CallOK
    <3>2. 1 \in 1 .. RF_RETRIES /\ q = [c EXCEPT !.try = 1]
      BY <2>3, RfAssumption DEF RfCopy
    <3> HIDE DEF c
    <3>3. QED
      BY <2>2, <3>1, <3>2, RetryOK
  <2>5. rflate' = rflate
    BY <1>1, <1>10
  <2>6. FilesOK(q, rfmay, rffiles', rflate) /\ RepliesOK(q, rfmay, rffiles', rflate, rfreplies')
    BY <1>1, <1>2, <2>4, ServedOK
  <2>7. c.try \in 1 .. RF_RETRIES /\ c = [q EXCEPT !.try = c.try]
    BY <2>2, <2>3, RequestFacts, CopyFacts
  <2> DEFINE k == c.try
  <2>8. k \in 1 .. RF_RETRIES /\ c = [q EXCEPT !.try = k]
    BY <2>7
  <2> HIDE DEF c, k
  <2>9. FilesOK(c, rfmay, rffiles', rflate) /\ RepliesOK(c, rfmay, rffiles', rflate, rfreplies')
    BY <1>2, <2>6, <2>8, RetryOK
  <2>10. CallOK(c)'
    <3>1. c' = c
      BY <1>1 DEF c
    <3>2. QED
      BY <1>1, <2>2, <2>5, <2>9, <3>1 DEF CallOK
  <2>11. \A o \in RfProc : InCall(o)' => CallOK(rfcall[o])'
    BY <1>8, <2>2, <2>10 DEF InCall, c
  <2>12. rf_mutex' = 0
    BY <1>1, <2>2
  <2>13. QED
    BY <1>1, <1>6, <1>7, <1>8, <2>11, <2>12 DEF RfIInv, PositionsAsTold
<1>11. QED
  BY <1>9, <1>10

\* A reply that fits: the call ends as the server says.
LEMMA ReplyOK ==
  ASSUME RfIInv, NEW p \in RfProc, RfReply(p)
  PROVE  RfIInv'
<1> DEFINE c == rfcall[p]
<1>1. PICK r \in rfreplies :
        /\ c.op # "idle" /\ RfFits(c, r) /\ rfreplies' = rfreplies \ {r}
        /\ \/ ~r.ok /\ c.op # "size" /\ RfFails(p)
           \/ /\ r.ok \/ c.op = "size"
              /\ rf_mutex' = 1
              /\ rfcall' = [rfcall EXCEPT ![p] = RfIdle]
              /\ rfltab' = IF "dev" \in DOMAIN c
                             THEN [rfltab EXCEPT ![c.dev] = RfControl(c, r, rfltab[c.dev])]
                             ELSE rfltab
              /\ rfmay' = IF c.op = "size" THEN rfmay
                          ELSE [rfmay EXCEPT ![c.name] = RfDone(c, rfmay)]
              /\ rftold' = CASE c.op = "open"  -> [rftold EXCEPT ![c.dev] = 0]
                             [] c.op = "read"  ->
                                  [rftold EXCEPT ![c.dev] = rftold[c.dev] + Len(r.data)]
                             [] c.op = "write" ->
                                  [rftold EXCEPT ![c.dev] = rftold[c.dev] + Len(c.data)]
                             [] OTHER          -> rftold
              /\ rfread' = IF /\ c.op = "read" /\ c.name \notin rflate
                              /\ \A s \in rfmay[c.name] : RfReads(c, s) # r.data
                             THEN "stale" ELSE rfread
              /\ UNCHANGED <<rf_seq, rf_registered, rffiles, rfrequests, rflate>>
  BY DEF RfReply, RfSignal, RfDone
<1>2. InCall(p)
  BY <1>1 DEF InCall, RfIdle
<1>3. rfreplies' \subseteq rfreplies
  BY <1>1
<1>4. CASE ~r.ok /\ c.op # "size" /\ RfFails(p)
  BY <1>2, <1>3, <1>4, FailsOK
<1>5. CASE ~(~r.ok /\ c.op # "size" /\ RfFails(p))
  <2>1. /\ r.ok \/ c.op = "size"
        /\ rf_mutex' = 1 /\ rfcall' = [rfcall EXCEPT ![p] = RfIdle]
        /\ rf_seq' = rf_seq /\ rf_registered' = rf_registered /\ rffiles' = rffiles
        /\ rfrequests' = rfrequests /\ rflate' = rflate
    BY <1>1, <1>5
  <2>2. rfltab' = IF "dev" \in DOMAIN c
                    THEN [rfltab EXCEPT ![c.dev] = RfControl(c, r, rfltab[c.dev])]
                    ELSE rfltab
    BY <1>1, <1>5
  <2>3. rfmay' = IF c.op = "size" THEN rfmay
                 ELSE [rfmay EXCEPT ![c.name] = RfDone(c, rfmay)]
    BY <1>1, <1>5
  <2>4. rftold' = CASE c.op = "open"  -> [rftold EXCEPT ![c.dev] = 0]
                    [] c.op = "read"  -> [rftold EXCEPT ![c.dev] = rftold[c.dev] + Len(r.data)]
                    [] c.op = "write" -> [rftold EXCEPT ![c.dev] = rftold[c.dev] + Len(c.data)]
                    [] OTHER          -> rftold
    BY <1>1, <1>5
  <2>5. rfread' = IF /\ c.op = "read" /\ c.name \notin rflate
                     /\ \A s \in rfmay[c.name] : RfReads(c, s) # r.data
                    THEN "stale" ELSE rfread
    BY <1>1, <1>5
  <2>6. c \in RfRequest /\ CallOK(c)
    BY <1>2, TheCaller
  <2>7. /\ rfmay \in [RfNames -> SUBSET RfFile] /\ rfltab \in [RfDev -> RfBlock]
        /\ rftold \in [RfDev -> Int] /\ rfread = "fits" /\ PositionsAsTold
        /\ rffiles \in [RfNames -> RfFile] /\ rfreplies \subseteq RfReplies
    BY DEF RfIInv, RfTypes
  <2>8. /\ DeviceOK(c, rfltab) /\ FilesOK(c, rfmay, rffiles, rflate)
        /\ RepliesOK(c, rfmay, rffiles, rflate, rfreplies)
    BY <2>6 DEF CallOK
  <2>9. r.op = c.op /\ r.seq = c.seq /\ r.data \in Seq(Nat) /\ Len(r.data) \in Nat
    BY <1>1, <2>7, LenProperties DEF RfFits, RfReplies
  <2> HIDE DEF c
  <2>10. c.name \in RfNames
    BY <2>6, RequestFacts
  \* What the server did.
  <2>11. r.ok => ReplyFits(c, rfmay, rffiles, rflate, r)
    BY <2>8, <2>9 DEF RepliesOK
  <2>12. ASSUME c.op = "read"
         PROVE  /\ c.pos + Len(r.data) \in 0 .. RfMaxSize
                /\ c.name \notin rflate => /\ rffiles[c.name] \in rfmay[c.name]
                                           /\ r.data = RfReads(c, rffiles[c.name])
    <3>1. ReplyFits(c, rfmay, rffiles, rflate, r)
      BY <2>1, <2>11, <2>12
    <3>2. c.name \notin rflate => rffiles[c.name] \in {s \in rfmay[c.name] : RfDoable(c, s)}
      BY <2>6, <2>7, <2>12, <3>1, DoneFacts DEF ReplyFits
    <3>3. QED
      BY <2>12, <3>1, <3>2 DEF ReplyFits
  <2>13. rfread' = "fits"
    BY <2>5, <2>7, <2>12
  <2>14. /\ rfmay' \in [RfNames -> SUBSET RfFile]
         /\ \A f \in RfNames \ rflate : rffiles[f] \in rfmay'[f]
    <3>1. RfDone(c, rfmay) \subseteq RfFile
      BY <2>6, <2>7, DoneFacts
    <3>2. \A f \in RfNames \ rflate : f # c.name => rffiles[f] \in rfmay[f]
      BY <2>8 DEF FilesOK
    <3>3. CASE c.op = "size"
      <4>1. RfDone(c, rfmay) \subseteq rfmay[c.name]
        BY <2>6, <2>7, <3>3, DoneFacts
      <4>2. c.name \notin rflate => rffiles[c.name] \in rfmay[c.name]
        BY <2>8, <4>1 DEF FilesOK
      <4>3. QED
        BY <2>3, <2>7, <3>2, <3>3, <4>2
    <3>4. CASE c.op # "size"
      <4>1. c.name \notin rflate => rffiles[c.name] \in RfDone(c, rfmay)
        BY <2>1, <2>11, <3>4 DEF ReplyFits
      <4>2. QED
        BY <2>3, <2>7, <2>10, <3>1, <3>2, <3>4, <4>1
    <3>5. QED
      BY <3>3, <3>4
  <2>15. /\ rfltab' \in [RfDev -> RfBlock] /\ rftold' \in [RfDev -> Int]
         /\ PositionsAsTold'
    <3>1. CASE c.op \notin {"open", "close", "read", "write"}
      <4>1. rfltab' = rfltab
        BY <2>2, <2>6, <3>1, RequestFacts
      <4>2. rftold' = rftold
        BY <2>4, <3>1
      <4>3. QED
        BY <2>7, <4>1, <4>2 DEF PositionsAsTold
    <3>2. CASE c.op \in {"open", "close", "read", "write"}
      <4>1. c.dev \in RfDev
        BY <2>6, <3>2, RequestFacts
      <4>2. rfltab' = [rfltab EXCEPT ![c.dev] = RfControl(c, r, rfltab[c.dev])]
        BY <2>2, <2>6, <3>2, RequestFacts
      <4>3. /\ rfltab[c.dev] \in RfBlock /\ rftold[c.dev] \in Int
            /\ rfltab[c.dev].state = "used" => rfltab[c.dev].pos = rftold[c.dev]
        BY <2>7, <4>1 DEF PositionsAsTold
      <4> DEFINE b == rfltab[c.dev]
                 e == RfControl(c, r, b)
      <4>4. ASSUME NEW x \in Int, rftold' = [rftold EXCEPT ![c.dev] = x], e \in RfBlock,
                   e.state = "used" => e.pos = x
            PROVE  /\ rfltab' \in [RfDev -> RfBlock] /\ rftold' \in [RfDev -> Int]
                   /\ PositionsAsTold'
        <5> HIDE DEF e
        <5>1. rfltab' = [rfltab EXCEPT ![c.dev] = e]
          BY <4>2 DEF e
        <5>2. QED
          BY <2>7, <4>1, <4>4, <5>1 DEF PositionsAsTold
      <4>5. CASE c.op = "open"
        <5>1. e = [state |-> "used", name |-> b.name, pos |-> 0, mode |-> b.mode]
          BY <4>5 DEF RfControl
        <5>2. e \in RfBlock /\ e.pos = 0
          BY <4>3, <5>1, RfAssumption DEF RfBlock
        <5>3. rftold' = [rftold EXCEPT ![c.dev] = 0]
          BY <2>4, <4>5
        <5> HIDE DEF e
        <5>4. 0 \in Int
          OBVIOUS
        <5>5. QED
          BY <4>4, <5>2, <5>3, <5>4
      <4>6. CASE c.op = "close"
        <5>1. e = [b EXCEPT !.state = "free"]
          BY <4>6 DEF RfControl
        <5>2. e \in RfBlock /\ e.state = "free"
          BY <4>3, <5>1 DEF RfBlock
        <5>3. rftold' = rftold
          BY <2>4, <4>6
        <5>4. rftold' = [rftold EXCEPT ![c.dev] = rftold[c.dev]]
          BY <2>7, <5>3
        <5>5. QED
          BY <4>3, <4>4, <5>2, <5>4
      <4>7. CASE c.op \in {"read", "write"}
        <5> DEFINE m == RfMoves(c, r)
        <5>1. e = [b EXCEPT !.pos = b.pos + m]
          BY <4>7 DEF RfControl
        <5>2. c.pos = b.pos /\ b.state = "used" /\ b.pos = rftold[c.dev]
          BY <2>8, <4>3, <4>7 DEF DeviceOK
        <5>3. m \in Nat /\ c.pos + m \in 0 .. RfMaxSize
          <6>1. CASE c.op = "read"
            BY <2>9, <2>12, <6>1 DEF RfMoves
          <6>2. CASE c.op = "write"
            <7>1. m = Len(c.data)
              BY <6>2 DEF RfMoves
            <7>2. /\ c.data \in Seq(Nat) /\ c.pos \in 0 .. RfMaxSize
                  /\ c.pos + Len(c.data) <= RfMaxSize
              BY <2>6, <6>2, RequestFacts
            <7>3. Len(c.data) \in Nat
              BY <7>2, LenProperties
            <7>4. QED
              BY <7>1, <7>2, <7>3, RfAssumption
          <6>3. QED
            BY <4>7, <6>1, <6>2
        <5>4. rftold' = [rftold EXCEPT ![c.dev] = rftold[c.dev] + m]
          BY <2>4, <4>7 DEF RfMoves
        <5> HIDE DEF m
        <5>5. e \in RfBlock /\ e.pos = b.pos + m
          BY <4>3, <5>1, <5>2, <5>3 DEF RfBlock
        <5>6. e.pos = rftold[c.dev] + m /\ rftold[c.dev] + m \in Int
          BY <4>3, <5>2, <5>3, <5>5
        <5>7. QED
          BY <4>4, <5>4, <5>5, <5>6
      <4>8. QED
        BY <3>2, <4>5, <4>6, <4>7
    <3>3. QED
      BY <3>1, <3>2
  <2>16. QED
    BY <1>2, <1>3, <2>1, <2>13, <2>14, <2>15, EndsOK
<1>6. QED
  BY <1>4, <1>5

\* A seek is not an exchange.
LEMMA SeekOK ==
  ASSUME RfIInv, NEW p \in RfProc, NEW d \in RfDev, NEW pos \in RfSeeks, rflseek(p, d, pos)
  PROVE  RfIInv'
<1>1. /\ rfltab' = [rfltab EXCEPT ![d] = [rfltab[d] EXCEPT !.pos = pos]]
      /\ rftold' = [rftold EXCEPT ![d] = pos]
      /\ rf_mutex = 1
      /\ rf_mutex' = rf_mutex /\ rf_seq' = rf_seq /\ rf_registered' = rf_registered
      /\ rfcall' = rfcall /\ rffiles' = rffiles /\ rfreplies' = rfreplies
      /\ rfrequests' = rfrequests /\ rflate' = rflate
      /\ rfmay' = rfmay /\ rfread' = rfread
  BY DEF rflseek
<1>2. pos \in 0 .. RfMaxSize /\ pos \in Int
  BY RfAssumption
<1>3. rfltab \in [RfDev -> RfBlock] /\ rftold \in [RfDev -> Int] /\ PositionsAsTold
  BY DEF RfIInv, RfTypes
<1> DEFINE b == [rfltab[d] EXCEPT !.pos = pos]
<1>4. b \in RfBlock /\ b.pos = pos
  BY <1>2, <1>3 DEF RfBlock
<1> HIDE DEF b
<1>5. rfltab' = [rfltab EXCEPT ![d] = b]
  BY <1>1 DEF b
<1>6. rfltab' \in [RfDev -> RfBlock] /\ rftold' \in [RfDev -> Int] /\ PositionsAsTold'
  BY <1>1, <1>2, <1>3, <1>4, <1>5 DEF PositionsAsTold
<1>7. RfTypes'
  BY <1>1, <1>6 DEF RfIInv, RfTypes
<1>8. \A q \in RfProc : ~InCall(q)'
  BY <1>1 DEF RfIInv, InCall
<1>9. QED
  BY <1>1, <1>6, <1>7, <1>8 DEF RfIInv

-----------------------------------------------------------------------------
(* The theorem.                                                            *)

LEMMA RfInitOK == RfInit => RfIInv
<1> SUFFICES ASSUME RfInit PROVE RfIInv
  OBVIOUS
<1>1. RfFree \in RfBlock /\ RfFree.state = "free"
  <2>1. (CHOOSE f \in RfNames : TRUE) \in RfNames
    BY RfAssumption
  <2>2. QED
    BY <2>1, RfAssumption DEF RfFree, RfBlock
<1>2. RfAbsent \in RfFile
  BY DEF RfFile
<1>3. RfTypes
  <2>1. /\ rf_mutex \in {0, 1} /\ rf_seq \in Nat /\ rf_registered \in BOOLEAN
        /\ rfrequests \subseteq RfRequest /\ rfreplies \subseteq RfReplies
        /\ rflate \subseteq RfNames /\ rfread \in {"fits", "stale"}
    BY DEF RfInit
  <2>2. rfcall \in [RfProc -> RfRequest \cup {RfIdle}]
    BY DEF RfInit
  <2>3. rffiles \in [RfNames -> RfFile]
    BY <1>2 DEF RfInit
  <2>4. rfmay \in [RfNames -> SUBSET RfFile]
    BY <1>2 DEF RfInit
  <2>5. rftold \in [RfDev -> Int]
    BY DEF RfInit
  <2>6. rfltab \in [RfDev -> RfBlock]
    BY <1>1 DEF RfInit
  <2>7. QED
    BY <2>1, <2>2, <2>3, <2>4, <2>5, <2>6 DEF RfTypes
<1>4. PositionsAsTold
  BY <1>1 DEF RfInit, PositionsAsTold
<1>5. QED
  BY <1>3, <1>4 DEF RfInit, RfIInv, InCall

\* The letters of a valid mode string are letters of modes.
LEMMA LettersOK ==
  ASSUME NEW mode \in RfModes
  PROVE  rfsgetmode(mode) \in SUBSET RfLetters
<1> DEFINE L == Range(mode)
<1>1. L \subseteq RfLetters /\ {"r", "w"} \subseteq RfLetters
  <2>1. L \in RfLetterSets
    BY DEF RfLetterSets
  <2> HIDE DEF L
  <2>2. QED
    BY <2>1 DEF RfLetters
<1>2. rfsgetmode(mode) \in {L, L \cup {"r", "w"}}
  BY DEF rfsgetmode
<1> HIDE DEF L
<1>3. QED
  BY <1>1, <1>2

LEMMA RfNextOK == RfIInv /\ [RfNext]_rfVars => RfIInv'
<1> SUFFICES ASSUME RfIInv, [RfNext]_rfVars PROVE RfIInv'
  OBVIOUS
<1>1. /\ rf_seq \in Nat /\ 1 \in 1 .. RF_RETRIES /\ rfltab \in [RfDev -> RfBlock]
      /\ PositionsAsTold
  BY RfAssumption DEF RfIInv, RfTypes
<1>2. ASSUME NEW p \in RfProc, NEW f \in RfNames, NEW mode \in RfModes, rfsopen(p, f, mode)
      PROVE  RfIInv'
  <2>1. PICK d \in RfDev :
          /\ rfltab[d].state = "free"
          /\ rfltab' = [rfltab EXCEPT ![d] = [state |-> "free", name |-> f,
                                             pos |-> rfltab[d].pos, mode |-> rfsgetmode(mode)]]
          /\ RfSends(p, [op |-> "open", dev |-> d, name |-> f, mode |-> rfsgetmode(mode),
                         seq |-> rf_seq, try |-> 1])
    BY <1>2 DEF rfsopen
  <2> DEFINE c == [op |-> "open", dev |-> d, name |-> f, mode |-> rfsgetmode(mode),
                   seq |-> rf_seq, try |-> 1]
             b == [state |-> "free", name |-> f, pos |-> rfltab[d].pos,
                   mode |-> rfsgetmode(mode)]
  <2>2. c \in RfOpens /\ c.op = "open" /\ c.seq = rf_seq
    BY <1>1, LettersOK DEF RfOpens
  <2>3. b \in RfBlock /\ b.state = "free"
    BY <1>1, LettersOK DEF RfBlock
  <2> HIDE DEF c, b
  <2>4. rfltab' = [rfltab EXCEPT ![d] = b] /\ RfSends(p, c)
    BY <2>1 DEF c, b
  <2>5. rftold' = rftold
    BY <2>4 DEF RfSends
  <2>6. rfltab' \in [RfDev -> RfBlock] /\ PositionsAsTold'
    BY <1>1, <2>3, <2>4, <2>5 DEF PositionsAsTold
  <2>7. c \in RfRequest /\ DeviceOK(c, rfltab')
    BY <2>2 DEF RfRequest, DeviceOK
  <2>8. QED
    BY <2>2, <2>4, <2>6, <2>7, SendsOK
<1>3. ASSUME NEW p \in RfProc, NEW c \in RfRequest, c.seq = rf_seq, DeviceOK(c, rfltab),
             rfltab' = rfltab, RfSends(p, c)
      PROVE  RfIInv'
  <2>1. rftold' = rftold
    BY <1>3 DEF RfSends
  <2>2. PositionsAsTold'
    BY <1>1, <1>3, <2>1 DEF PositionsAsTold
  <2>3. QED
    BY <1>1, <1>3, <2>2, SendsOK
<1>4. ASSUME NEW p \in RfProc, NEW d \in RfDev, rflclose(p, d)
      PROVE  RfIInv'
  <2> DEFINE c == [op |-> "close", dev |-> d, name |-> rfltab[d].name,
                   seq |-> rf_seq, try |-> 1]
  <2>1. c \in RfCloses /\ c.op = "close" /\ c.dev = d /\ c.seq = rf_seq
    BY <1>1 DEF RfCloses, RfBlock
  <2>2. rfltab[d].state = "used" /\ rfltab' = rfltab /\ RfSends(p, c)
    BY <1>4 DEF rflclose, RfUsed
  <2> HIDE DEF c
  <2>3. c \in RfRequest /\ DeviceOK(c, rfltab)
    BY <2>1, <2>2 DEF RfRequest, DeviceOK
  <2>4. QED
    BY <1>3, <2>1, <2>2, <2>3
<1>5. ASSUME NEW p \in RfProc, NEW d \in RfDev, NEW n \in RfCounts, rflread(p, d, n)
      PROVE  RfIInv'
  <2> DEFINE c == [op |-> "read", dev |-> d, name |-> rfltab[d].name,
                   pos |-> rfltab[d].pos, count |-> n, seq |-> rf_seq, try |-> 1]
  <2>1. c \in RfReadReqs /\ c.op = "read" /\ c.dev = d /\ c.pos = rfltab[d].pos /\ c.seq = rf_seq
    BY <1>1, RfAssumption DEF RfReadReqs, RfBlock
  <2>2. rfltab[d].state = "used" /\ rfltab' = rfltab /\ RfSends(p, c)
    BY <1>5 DEF rflread, RfUsed
  <2> HIDE DEF c
  <2>3. c \in RfRequest /\ DeviceOK(c, rfltab)
    BY <2>1, <2>2 DEF RfRequest, DeviceOK
  <2>4. QED
    BY <1>3, <2>1, <2>2, <2>3
<1>6. ASSUME NEW p \in RfProc, NEW d \in RfDev, NEW n \in RfCounts, NEW b \in RfByte,
             rflwrite(p, d, [i \in 1 .. n |-> b])
      PROVE  RfIInv'
  <2> DEFINE g == [i \in 1 .. n |-> b]
             c == [op |-> "write", dev |-> d, name |-> rfltab[d].name,
                   pos |-> rfltab[d].pos, data |-> g, seq |-> rf_seq, try |-> 1]
  <2>1. g \in Seq(Nat) /\ Len(g) \in Nat
    <3>1. n \in Nat /\ g \in [1 .. n -> Nat]
      BY RfAssumption
    <3> HIDE DEF g
    <3>2. QED
      BY <3>1, MadeSeq
  <2>2. /\ rfltab[d].state = "used" /\ rfltab' = rfltab /\ RfSends(p, c)
        /\ rfltab[d].pos + Len(g) <= RfMaxSize
    BY <1>6 DEF rflwrite, RfUsed
  <2> HIDE DEF g
  <2>3. rfltab[d].pos \in 0 .. RfMaxSize /\ rfltab[d].name \in RfNames
    BY <1>1 DEF RfBlock
  <2>4. Len(g) <= RfMaxSize
    BY <2>1, <2>2, <2>3, RfAssumption
  <2>5. /\ c \in RfWriteReqs /\ c.op = "write" /\ c.dev = d /\ c.seq = rf_seq
        /\ c.pos = rfltab[d].pos /\ c.data = g
    BY <1>1, <2>1, <2>3, <2>4 DEF RfWriteReqs
  <2> HIDE DEF c
  <2>6. c \in RfRequest /\ DeviceOK(c, rfltab)
    BY <2>2, <2>5 DEF RfRequest, DeviceOK
  <2>7. QED
    BY <1>3, <2>2, <2>5, <2>6
<1>7. ASSUME NEW p \in RfProc, NEW f \in RfNames,
             NEW func \in {"del", "trunc", "mkdir", "rmdir", "size"}, rfscontrol(p, func, f)
      PROVE  RfIInv'
  <2> DEFINE c == [op |-> func, name |-> f, seq |-> rf_seq, try |-> 1]
  <2>1. c \in RfNamed /\ c.op = func /\ c.seq = rf_seq
    BY <1>1 DEF RfNamed
  <2>2. rfltab' = rfltab /\ RfSends(p, c)
    BY <1>7 DEF rfscontrol
  <2> HIDE DEF c
  <2>3. c \in RfRequest /\ DeviceOK(c, rfltab)
    BY <2>1 DEF RfRequest, DeviceOK
  <2>4. QED
    BY <1>3, <2>1, <2>2, <2>3
<1>8. ASSUME NEW p \in RfProc, RfTimeout(p)
      PROVE  RfIInv'
  <2>1. InCall(p) /\ RfAgain(p, rfreplies)
    BY <1>8 DEF RfTimeout, InCall, RfIdle
  <2>2. QED
    BY <2>1, AgainOK
<1>9. ASSUME NEW p \in RfProc, RfSendError(p)
      PROVE  RfIInv'
  <2>1. InCall(p) /\ RfFails(p) /\ rfreplies' \subseteq rfreplies
    BY <1>9 DEF RfSendError, InCall, RfIdle
  <2>2. QED
    BY <2>1, FailsOK
<1>10. ASSUME NEW p \in RfProc, RfMismatch(p)
       PROVE  RfIInv'
  <2>1. PICK r \in rfreplies : rfcall[p].op # "idle" /\ RfAgain(p, rfreplies \ {r})
    BY <1>10 DEF RfMismatch
  <2>2. InCall(p)
    BY <2>1 DEF InCall, RfIdle
  <2>3. rfreplies \ {r} \in SUBSET rfreplies
    OBVIOUS
  <2>4. QED
    BY <2>1, <2>2, <2>3, AgainOK
<1>11. ASSUME UNCHANGED rfVars
       PROVE  RfIInv'
  BY <1>11 DEF rfVars, RfIInv, RfTypes, InCall, CallOK, PositionsAsTold
<1>12. QED
  BY <1>2, <1>4, <1>5, <1>6, <1>7, <1>8, <1>9, <1>10, <1>11, ServeOK, ReplyOK, SeekOK
     DEF RfNext

\* At most one process is in a call, so that the set of them is empty or has one.
LEMMA OneCaller == RfIInv => MutexFollowsCalls
<1> SUFFICES ASSUME RfIInv PROVE MutexFollowsCalls
  OBVIOUS
<1> DEFINE C == {p \in RfProc : rfcall[p] # RfIdle}
<1>1. /\ rf_mutex \in {0, 1}
      /\ \A p, q \in C : p = q
      /\ rf_mutex = 1 <=> C = {}
  BY DEF RfIInv, RfTypes, InCall
<1> HIDE DEF C
<1>2. Cardinality(C) = 1 - rf_mutex
  <2>1. CASE C = {}
    BY <1>1, <2>1, FS_EmptySet
  <2>2. CASE C # {}
    <3>1. PICK p : C = {p}
      BY <1>1, <2>2
    <3>2. Cardinality(C) = 1
      BY <3>1, FS_Singleton
    <3>3. QED
      BY <1>1, <2>2, <3>2
  <2>3. QED
    BY <2>1, <2>2
<1>3. QED
  BY <1>2 DEF MutexFollowsCalls, C

LEMMA RfIInvImplies == RfIInv => RfInv
<1> SUFFICES ASSUME RfIInv PROVE RfInv
  OBVIOUS
<1>1. RfTypeOK
  <2>1. \A p \in RfProc : rfcall[p] # RfIdle => rfcall[p].try \in 1 .. RF_RETRIES
    BY RequestFacts DEF RfIInv, RfTypes
  <2>2. QED
    BY <2>1 DEF RfIInv, RfTypes, RfTypeOK, RfBlock
<1>2. ResultsAreTrue
  BY DEF RfIInv, ResultsAreTrue
<1>3. PositionsAsTold
  BY DEF RfIInv
<1>4. QED
  BY <1>1, <1>2, <1>3, OneCaller DEF RfInv

\* However requests and replies are lost, late or repeated, for any number of
\* processes, files and retries: one call holds the mutex, positions are what the
\* results add up to, and every file is what the results say, but those that a copy
\* of a request has changed when the call that sent it had ended: rfscomm.c does not
\* prevent such a copy, and nothing is said of the bytes of its file from then on.
THEOREM RemoteFileCalls == RfSpec => []RfInv
<1>1. RfInit => RfIInv
  BY RfInitOK
<1>2. RfIInv /\ [RfNext]_rfVars => RfIInv'
  BY RfNextOK
<1>3. RfIInv => RfInv
  BY RfIInvImplies
<1>4. QED
  BY <1>1, <1>2, <1>3, PTL DEF RfSpec
-----------------------------------------------------------------------------
(* The name space.                                                         *)

NamEntryOf ==
    [prefix : {s \in Seq(NamChars) : Len(s) < NM_PRELEN},
     replace : {s \in Seq(NamChars) : Len(s) < NM_REPLLEN},
     dev : NamDevs \cup {NAMESPACE}]

NamTableOf == {t \in Seq(NamEntryOf) : Len(t) <= NNAMES}

\* What one turn of nammap comes to, in its buffer.
NamFits(d) == Len(d.new) + (IF d.ended THEN 1 ELSE 0) <= NM_MAXLEN
NamResultOf == {d \in [dev : NamDev, new : Seq(NamChars), ended : BOOLEAN] : NamFits(d)}

\* What a name leads to, without the buffer.
NamPlaceOf == [dev : NamDevs \cup {NAMESPACE}, new : Seq(NamChars)]

NamIInv ==
    /\ nametab \in NamTableOf
    /\ nammapped.name \in Seq(NamChars) /\ nammapped.dev \in NamDev
    /\ NamFits(nammapped)
    /\ nammapped.dev # NAMERR /\ nammapped.ended =>
         /\ nammapped.dev # NAMESPACE
         /\ Meaning(nametab, nammapped.name) = [dev |-> nammapped.dev, new |-> nammapped.new]

LEMMA NamSizes ==
  /\ NM_PRELEN \in Nat \ {0} /\ NM_REPLLEN \in Nat \ {0} /\ NM_MAXLEN \in Nat \ {0}
  /\ NNAMES \in Nat \ {0} /\ CHARHALF \in Nat \ {0}
  /\ NM_REPLLEN <= NM_MAXLEN /\ NM_MAXLEN <= 2 * CHARHALF
  /\ NAMESPACE \notin NamDevs /\ NAMERR \notin NamDevs /\ NAMESPACE # NAMERR
BY NamAssumption DEF NAMESPACE, NAMERR

\* N steps from x with the functions F on S.
StepsOn(N, S, x, F) == N \in Nat /\ x \in S /\ F \in [1 .. N -> [S -> S]]
StepsTo(N, S, x, F, f) ==
    f \in [0 .. N -> S] /\ f[0] = x /\ \A n \in 1 .. N : f[n] = F[n][f[n - 1]]

LEMMA StepsExist ==
  ASSUME NEW N, NEW S, NEW x, NEW F, StepsOn(N, S, x, F)
  PROVE  \E f : StepsTo(N, S, x, F, f)
<1>0. N \in Nat /\ x \in S /\ F \in [1 .. N -> [S -> S]]
  BY DEF StepsOn
<1> DEFINE Goes(M, f) == f \in [0 .. M -> S] /\ f[0] = x /\ \A n \in 1 .. M : f[n] = F[n][f[n - 1]]
           T == {M \in Nat : \E f : Goes(M, f)}
<1>1. 0 \in T
  <2>1. Goes(0, [n \in 0 .. 0 |-> x])
    BY <1>0
  <2>2. QED
    BY <2>1
<1>2. ASSUME NEW M \in 0 .. N - 1, M \in T
      PROVE  M + 1 \in T
  <2>1. PICK f : Goes(M, f)
    BY <1>2
  <2>2. M \in Nat /\ M \in 0 .. M /\ M + 1 \in 1 .. N /\ f[M] \in S
    BY <1>0, <2>1
  <2> DEFINE y == F[M + 1][f[M]]
             g == [n \in 0 .. M + 1 |-> IF n = M + 1 THEN y ELSE f[n]]
  <2>3. y \in S
    BY <1>0, <2>2
  <2>4. \A n \in 0 .. M : g[n] = f[n]
    BY <2>2
  <2>5. g[M + 1] = y /\ g \in [0 .. M + 1 -> S]
    BY <2>1, <2>2, <2>3
  <2>6. ASSUME NEW n \in 1 .. M + 1
        PROVE  g[n] = F[n][g[n - 1]]
    <3>1. CASE n = M + 1
      BY <2>2, <2>4, <2>5, <3>1
    <3>2. CASE n # M + 1
      <4>1. n \in 1 .. M /\ n \in 0 .. M /\ n - 1 \in 0 .. M
        BY <2>2, <3>2
      <4>2. QED
        BY <2>1, <2>4, <4>1
    <3>3. QED
      BY <3>1, <3>2
  <2>7. g[0] = x
    BY <2>1, <2>2, <2>4
  <2> HIDE DEF g
  <2>8. Goes(M + 1, g)
    BY <2>5, <2>6, <2>7
  <2> HIDE DEF Goes
  <2>9. M + 1 \in Nat
    BY <2>2
  <2>10. QED
    BY <2>8, <2>9
<1>3. N \in 0 .. N
  BY <1>0
<1>4. N \in T
  <2> HIDE DEF T
  <2>1. QED
    BY <1>0, <1>1, <1>2, <1>3, UpTo
<1>5. QED
  BY <1>4 DEF StepsTo

LEMMA AsCharIs ==
  ASSUME NEW n \in 0 .. 2 * CHARHALF
  PROVE  AsChar(n) \in Int /\ (AsChar(n) > 0 => AsChar(n) = n)
<1>1. PICK N, H : H = CHARHALF /\ N = 2 * CHARHALF
  OBVIOUS
<1>2. H \in Nat \ {0} /\ N = 2 * H /\ N \in Nat \ {0} /\ H \in 0 .. N - 1 /\ n \in 0 .. N
  BY <1>1, NamSizes
<1>3. (H + n) % N = IF H + n < N THEN H + n ELSE H + n - N
  BY <1>2, RingAfter
<1>4. AsChar(n) = ((H + n) % N) - H
  <2>1. n + H = H + n
    BY <1>2
  <2>2. QED
    BY <1>1, <2>1 DEF AsChar
<1>5. QED
  BY <1>2, <1>3, <1>4

-----------------------------------------------------------------------------
(* The table.                                                              *)

LEMMA MountedOK ==
  ASSUME NEW t \in NamTableOf, NEW m \in NamMountOf
  PROVE  /\ Mounted(t, m) \in NamTableOf
         /\ Mounted(t, m) = t \/ \E e \in NamEntryOf : Mounted(t, m) = Append(t, e)
<1>1. CASE \/ Len(t) >= NNAMES
           \/ namlen(m[1], NM_PRELEN) = -1 \/ namlen(m[2], NM_REPLLEN) = -1
           \/ m[3] = NAMERR
  BY <1>1 DEF Mounted
<1>2. CASE ~(\/ Len(t) >= NNAMES
             \/ namlen(m[1], NM_PRELEN) = -1 \/ namlen(m[2], NM_REPLLEN) = -1
             \/ m[3] = NAMERR)
  <2> DEFINE e == [prefix |-> m[1], replace |-> m[2], dev |-> m[3]]
  <2>1. t \in Seq(NamEntryOf) /\ Len(t) \in Nat /\ Len(t) + 1 <= NNAMES
    BY <1>2, LenProperties, NamSizes DEF NamTableOf
  <2>2. m[1] \in Seq(NamChars) /\ m[2] \in Seq(NamChars) /\ m[3] \in NamDevs \cup {NAMESPACE}
    BY <1>2 DEF NamMountOf
  <2>3. Len(m[1]) \in Nat /\ Len(m[2]) \in Nat
    BY <2>2, LenProperties
  <2>4. Len(m[1]) < NM_PRELEN /\ Len(m[2]) < NM_REPLLEN
    BY <1>2, <2>3, NamSizes DEF namlen
  <2>5. e \in NamEntryOf
    BY <2>2, <2>4 DEF NamEntryOf
  <2>6. Mounted(t, m) = Append(t, e)
    BY <1>2 DEF Mounted
  <2> HIDE DEF e
  <2>7. Append(t, e) \in Seq(NamEntryOf) /\ Len(Append(t, e)) = Len(t) + 1
    BY <2>1, <2>5, AppendProperties
  <2>8. QED
    BY <2>1, <2>5, <2>6, <2>7 DEF NamTableOf
<1>3. QED
  BY <1>1, <1>2

LEMMA NamTablesOK ==
  ASSUME NEW boot \in Seq(NamMountOf)
  PROVE  NamTables(boot)[Len(boot)] \in NamTableOf
<1>1. PICK N : N = Len(boot)
  OBVIOUS
<1>2. N \in Nat /\ \A n \in 1 .. N : boot[n] \in NamMountOf
  BY <1>1, LenProperties
<1> DEFINE F == [n \in 1 .. N |-> [t \in NamTableOf |-> Mounted(t, boot[n])]]
<1>3. F \in [1 .. N -> [NamTableOf -> NamTableOf]]
  BY <1>2, MountedOK
<1>4. <<>> \in NamTableOf
  BY EmptySeq, NamSizes DEF NamTableOf
<1>5. PICK f \in [0 .. N -> NamTableOf] : f[0] = <<>> /\ \A n \in 1 .. N : f[n] = F[n][f[n - 1]]
  <2>1. PICK x : x = <<>>
    OBVIOUS
  <2> HIDE DEF F
  <2>2. PICK G : G = F
    OBVIOUS
  <2>3. StepsOn(N, NamTableOf, x, G)
    BY <1>2, <1>3, <1>4, <2>1, <2>2 DEF StepsOn
  <2>4. PICK f : StepsTo(N, NamTableOf, x, G, f)
    BY <2>3, StepsExist
  <2>5. QED
    BY <2>1, <2>2, <2>4 DEF StepsTo
<1>6. ASSUME NEW n \in 0 .. N
      PROVE  f[n] = IF n = 0 THEN <<>> ELSE Mounted(f[n - 1], boot[n])
  <2>1. CASE n = 0
    BY <1>5, <2>1
  <2>2. CASE n # 0
    <3>1. n \in 1 .. N /\ n - 1 \in 0 .. N
      BY <1>2, <2>2
    <3>2. QED
      BY <1>5, <2>2, <3>1
  <2>3. QED
    BY <2>1, <2>2
<1>7. f = [n \in 0 .. N |-> IF n = 0 THEN <<>> ELSE Mounted(f[n - 1], boot[n])]
  BY <1>5, <1>6
<1> DEFINE Is(g) == g = [n \in 0 .. N |-> IF n = 0 THEN <<>> ELSE Mounted(g[n - 1], boot[n])]
<1>8. PICK g : g = NamTables(boot)
  OBVIOUS
<1>9. Is(g)
  <2>1. NamTables(boot) = CHOOSE h : Is(h)
    BY <1>1 DEF NamTables
  <2>2. QED
    BY <1>7, <1>8, <2>1
<1> DEFINE T == {n \in 0 .. N : g[n] \in NamTableOf}
<1>10. 0 \in T
  BY <1>2, <1>4, <1>9
<1>11. ASSUME NEW n \in 0 .. N - 1, n \in T
       PROVE  n + 1 \in T
  <2>1. n + 1 \in 0 .. N /\ n + 1 # 0 /\ n + 1 - 1 = n /\ n + 1 \in 1 .. N
    BY <1>2
  <2>2. g[n + 1] = Mounted(g[n], boot[n + 1])
    <3>1. PICK k : k = n + 1
      OBVIOUS
    <3>2. k \in 0 .. N /\ k # 0 /\ k - 1 = n
      BY <2>1, <3>1
    <3>3. g[k] = IF k = 0 THEN <<>> ELSE Mounted(g[k - 1], boot[k])
      BY <1>9, <3>2
    <3>4. QED
      BY <3>1, <3>2, <3>3
  <2>3. g[n] \in NamTableOf /\ boot[n + 1] \in NamMountOf
    BY <1>2, <1>11, <2>1
  <2>4. QED
    BY <2>1, <2>2, <2>3, MountedOK
<1>12. N \in T
  <2> HIDE DEF T
  <2>1. N \in 0 .. N
    BY <1>2
  <2>2. QED
    BY <1>2, <1>10, <1>11, <2>1, UpTo
<1>13. QED
  BY <1>1, <1>8, <1>12
-----------------------------------------------------------------------------
(* One replacement.                                                        *)

\* Entry i is the first of the table whose prefix matches.
NamFirst(table, i, name) ==
    /\ i \in 1 .. Len(table)
    /\ IsPrefix(table[i].prefix, name)
    /\ \A j \in 1 .. i - 1 : ~IsPrefix(table[j].prefix, name)

LEMMA NamFirstIsOne ==
  ASSUME NEW t \in NamTableOf, NEW i, NEW k, NEW name,
         NamFirst(t, i, name), NamFirst(t, k, name)
  PROVE  i = k
<1>1. Len(t) \in Nat
  BY LenProperties DEF NamTableOf
<1>2. i \in Nat /\ k \in Nat /\ i >= 1 /\ k >= 1
  BY <1>1 DEF NamFirst
<1>3. ~(i < k) /\ ~(k < i)
  BY <1>2 DEF NamFirst
<1>4. QED
  BY <1>2, <1>3

LEMMA FirstMatchIs ==
  ASSUME nametab \in NamTableOf, NEW name
  PROVE  FirstMatch(name) = 0 \/ NamFirst(nametab, FirstMatch(name), name)
<1>1. DOMAIN nametab = 1 .. Len(nametab) /\ Len(nametab) \in Nat
  BY LenProperties DEF NamTableOf
<1> DEFINE found == {i \in DOMAIN nametab : Matches(name, nametab[i])}
<1>2. CASE found = {}
  BY <1>2 DEF FirstMatch
<1>3. CASE found # {}
  <2>1. found \in SUBSET Nat
    BY <1>1
  <2>2. FirstMatch(name) = Min(found)
    BY <1>3 DEF FirstMatch
  <2>3. Min(found) \in found /\ \A y \in found : Min(found) <= y
    <3> HIDE DEF found
    <3>1. QED
      BY <1>3, <2>1, MinProperties
  <2>4. PICK m : m = Min(found)
    OBVIOUS
  <2>5. m \in 1 .. Len(nametab) /\ IsPrefix(nametab[m].prefix, name)
    BY <1>1, <2>3, <2>4 DEF Matches
  <2>6. ASSUME NEW j \in 1 .. m - 1
        PROVE  ~IsPrefix(nametab[j].prefix, name)
    <3>1. j \in DOMAIN nametab /\ ~(m <= j)
      BY <1>1, <2>5
    <3>2. QED
      BY <2>3, <2>4, <3>1 DEF Matches
  <2>7. QED
    BY <2>2, <2>4, <2>5, <2>6 DEF NamFirst
<1>4. QED
  BY <1>2, <1>3

LEMMA LeadsIs ==
  ASSUME NEW t \in NamTableOf, NEW d, d.dev = NAMESPACE, NEW i, NamFirst(t, i, d.new)
  PROVE  Leads(t, d) = [dev |-> t[i].dev,
                        new |-> t[i].replace \o SubSeq(d.new, Len(t[i].prefix) + 1, Len(d.new))]
<1>1. DOMAIN t = 1 .. Len(t)
  BY LenProperties DEF NamTableOf
<1> DEFINE k == CHOOSE x \in DOMAIN t :
                   /\ IsPrefix(t[x].prefix, d.new)
                   /\ \A j \in 1 .. x - 1 : ~IsPrefix(t[j].prefix, d.new)
<1>2. i \in DOMAIN t /\ IsPrefix(t[i].prefix, d.new)
  BY <1>1 DEF NamFirst
<1>3. NamFirst(t, k, d.new)
  <2>1. \E x \in DOMAIN t : /\ IsPrefix(t[x].prefix, d.new)
                           /\ \A j \in 1 .. x - 1 : ~IsPrefix(t[j].prefix, d.new)
    BY <1>2 DEF NamFirst
  <2>2. QED
    BY <1>1, <2>1 DEF NamFirst
<1>4. k = i
  <2> HIDE DEF k
  <2>1. QED
    BY <1>3, NamFirstIsOne
<1>5. Leads(t, d) = [dev |-> t[k].dev,
                     new |-> t[k].replace \o SubSeq(d.new, Len(t[k].prefix) + 1, Len(d.new))]
  BY <1>2 DEF Leads
<1> HIDE DEF k
<1>6. QED
  BY <1>4, <1>5

LEMMA LeadsNowhere ==
  ASSUME NEW t \in NamTableOf, NEW d,
         d.dev # NAMESPACE \/ \A j \in 1 .. Len(t) : ~IsPrefix(t[j].prefix, d.new)
  PROVE  Leads(t, d) = d
<1>1. DOMAIN t = 1 .. Len(t)
  BY LenProperties DEF NamTableOf
<1>2. QED
  BY <1>1 DEF Leads

\* There is a first entry, or none at all.
LEMMA NamFirstOrNone ==
  ASSUME NEW t \in NamTableOf, NEW name
  PROVE  (\E i : NamFirst(t, i, name)) \/ \A j \in 1 .. Len(t) : ~IsPrefix(t[j].prefix, name)
<1> DEFINE found == {i \in 1 .. Len(t) : IsPrefix(t[i].prefix, name)}
<1>1. Len(t) \in Nat
  BY LenProperties DEF NamTableOf
<1>2. found \in SUBSET Nat
  BY <1>1
<1>3. CASE found # {}
  <2>1. Min(found) \in found /\ \A y \in found : Min(found) <= y
    <3> HIDE DEF found
    <3>1. QED
      BY <1>2, <1>3, MinProperties
  <2>2. PICK m : m = Min(found)
    OBVIOUS
  <2>3. m \in 1 .. Len(t) /\ IsPrefix(t[m].prefix, name)
    BY <2>1, <2>2
  <2>4. ASSUME NEW j \in 1 .. m - 1
        PROVE  ~IsPrefix(t[j].prefix, name)
    <3>1. j \in 1 .. Len(t) /\ ~(m <= j)
      BY <1>1, <2>3
    <3>2. QED
      BY <2>1, <2>2, <3>1
  <2>5. NamFirst(t, m, name)
    BY <2>3, <2>4 DEF NamFirst
  <2>6. QED
    BY <2>5
<1>4. CASE found = {}
  BY <1>4
<1>5. QED
  BY <1>3, <1>4

LEMMA LeadsOK ==
  ASSUME NEW t \in NamTableOf, NEW d \in NamPlaceOf
  PROVE  Leads(t, d) \in NamPlaceOf
<1>1. CASE d.dev # NAMESPACE \/ \A j \in 1 .. Len(t) : ~IsPrefix(t[j].prefix, d.new)
  BY <1>1, LeadsNowhere
<1>2. CASE d.dev = NAMESPACE /\ \E i : NamFirst(t, i, d.new)
  <2>1. PICK i : NamFirst(t, i, d.new)
    BY <1>2
  <2>2. PICK e, name : e = t[i] /\ name = d.new
    OBVIOUS
  <2>3. e \in NamEntryOf
    <3>1. t \in Seq(NamEntryOf) /\ i \in 1 .. Len(t)
      BY <2>1 DEF NamTableOf, NamFirst
    <3>2. QED
      BY <2>2, <3>1, LenProperties
  <2>4. name \in Seq(NamChars)
    BY <2>2 DEF NamPlaceOf
  <2>5. e.prefix \in Seq(NamChars) /\ e.replace \in Seq(NamChars) /\ e.dev \in NamDevs \cup {NAMESPACE}
    BY <2>3 DEF NamEntryOf
  <2>6. Len(e.prefix) \in Nat /\ Len(name) \in Nat
    BY <2>4, <2>5, LenProperties
  <2>7. SubSeq(name, Len(e.prefix) + 1, Len(name)) \in Seq(NamChars)
    <3>1. \A x \in Len(e.prefix) + 1 .. Len(name) : name[x] \in NamChars
      BY <2>4, <2>6, LenProperties
    <3>2. QED
      BY <2>6, <3>1, SubSeqProperties
  <2>8. e.replace \o SubSeq(name, Len(e.prefix) + 1, Len(name)) \in Seq(NamChars)
    BY <2>5, <2>7, ConcatProperties
  <2>9. Leads(t, d) = [dev |-> e.dev, new |-> e.replace \o SubSeq(name, Len(e.prefix) + 1, Len(name))]
    BY <1>2, <2>1, <2>2, LeadsIs
  <2>10. QED
    BY <2>5, <2>8, <2>9 DEF NamPlaceOf
<1>3. QED
  BY <1>1, <1>2, NamFirstOrNone

\* One replacement in the buffer: an error, a name without an end, or what the
\* table says.
LEMMA namreplOK ==
  ASSUME nametab \in NamTableOf, NEW name \in Seq(NamChars), Len(name) + 1 <= NM_MAXLEN
  PROVE  /\ namrepl(name) \in NamResultOf
         /\ namrepl(name).dev # NAMERR /\ namrepl(name).ended =>
              Leads(nametab, [dev |-> NAMESPACE, new |-> name])
                = [dev |-> namrepl(name).dev, new |-> namrepl(name).new]
<1>1. PICK i : i = FirstMatch(name)
  OBVIOUS
<1>2. CASE i = 0 \/ TooLong(name, nametab[i])
  <2>1. namrepl(name) = [dev |-> NAMERR, new |-> <<>>, ended |-> TRUE]
    BY <1>1, <1>2 DEF namrepl
  <2>2. <<>> \in Seq(NamChars) /\ Len(<<>>) = 0
    BY EmptySeq
  <2>3. [dev |-> NAMERR, new |-> <<>>, ended |-> TRUE] \in NamResultOf
    BY <2>2, NamSizes DEF NamResultOf, NamDev, NamFits
  <2>4. QED
    BY <2>1, <2>3
<1>3. CASE i # 0 /\ ~TooLong(name, nametab[i])
  <2>1. NamFirst(nametab, i, name)
    BY <1>1, <1>3, FirstMatchIs
  <2>2. PICK e, rest, n, p, l : /\ e = nametab[i] /\ rest = Remain(name, e) /\ n = Len(name)
                               /\ p = Len(e.prefix) /\ l = Len(e.replace)
    OBVIOUS
  <2>3. e \in NamEntryOf
    <3>1. nametab \in Seq(NamEntryOf) /\ i \in 1 .. Len(nametab)
      BY <2>1 DEF NamTableOf, NamFirst
    <3>2. QED
      BY <2>2, <3>1, LenProperties
  <2>4. /\ e.prefix \in Seq(NamChars) /\ e.replace \in Seq(NamChars)
        /\ e.dev \in NamDevs \cup {NAMESPACE}
        /\ l < NM_REPLLEN
    BY <2>2, <2>3 DEF NamEntryOf
  <2>5. n \in Nat /\ p \in Nat /\ l \in Nat
    BY <2>2, <2>4, LenProperties
  <2>6. p <= n
    BY <2>1, <2>2 DEF NamFirst, IsPrefix
  <2>7. n + 1 <= NM_MAXLEN /\ namlen(name, NM_MAXLEN) = n + 1
    BY <2>2 DEF namlen
  <2>8. n + 1 \in 0 .. 2 * CHARHALF
    BY <2>5, <2>7, NamSizes
  <2>9. rest \in Int /\ (rest > 0 => rest = n + 1 - p)
    <3>1. rest = AsChar(n + 1) - p
      BY <2>2, <2>7 DEF Remain
    <3>2. AsChar(n + 1) \in Int /\ (AsChar(n + 1) > 0 => AsChar(n + 1) = n + 1)
      BY <2>8, AsCharIs
    <3>3. QED
      BY <2>5, <3>1, <3>2
  <2>10. l + rest <= NM_MAXLEN
    <3>1. namlen(e.replace, NM_MAXLEN) = l + 1
      BY <2>2, <2>4, <2>5, NamSizes DEF namlen
    <3>2. ~(namlen(e.replace, NM_MAXLEN) - 1 + rest > NM_MAXLEN)
      BY <1>3, <2>2 DEF TooLong
    <3>3. QED
      BY <2>5, <2>9, <3>1, <3>2, NamSizes
  <2>11. PICK s : s = SubSeq(name, p + 1, p + rest - 1)
    OBVIOUS
  <2>12. s \in Seq(NamChars) /\ Len(s) = IF rest > 0 THEN rest - 1 ELSE 0
    <3>1. ASSUME NEW x \in p + 1 .. p + rest - 1
          PROVE  name[x] \in NamChars
      <4>1. x \in 1 .. n
        BY <2>5, <2>9
      <4>2. QED
        BY <2>2, <4>1, LenProperties
    <3>2. p + 1 \in Int /\ p + rest - 1 \in Int
      BY <2>5, <2>9
    <3>3. s \in Seq(NamChars)
      BY <2>11, <3>1, <3>2, SubSeqProperties
    <3>4. PICK a, b : a = p + 1 /\ b = p + rest - 1
      OBVIOUS
    <3>5. a \in Int /\ b \in Int /\ \A x \in a .. b : name[x] \in NamChars
      BY <3>1, <3>2, <3>4
    <3>6. Len(SubSeq(name, a, b)) = IF a <= b THEN b - a + 1 ELSE 0
      BY <3>5, SubSeqProperties
    <3>7. QED
      BY <2>5, <2>9, <2>11, <3>3, <3>4, <3>6
  <2>13. PICK w : w = e.replace \o s
    OBVIOUS
  <2>14. w \in Seq(NamChars) /\ Len(w) = l + Len(s)
    BY <2>2, <2>4, <2>12, <2>13, ConcatProperties
  <2>15. PICK v \in BOOLEAN : v <=> rest > 0
    OBVIOUS
  <2>16. PICK d : d = [dev |-> e.dev, new |-> w, ended |-> v]
    OBVIOUS
  <2>17. namrepl(name) = d
    <3>1. namrepl(name) = [dev |-> e.dev, new |-> w, ended |-> rest > 0]
      BY <1>1, <1>3, <2>2, <2>11, <2>13 DEF namrepl
    <3>2. v = (rest > 0)
      BY <2>15
    <3>3. QED
      BY <2>16, <3>1, <3>2
  <2>18. d.dev = e.dev /\ d.new = w /\ d.ended = v
    BY <2>16
  <2>19. d \in NamResultOf
    <3>1. d \in [dev : NamDev, new : Seq(NamChars), ended : BOOLEAN]
      BY <2>4, <2>14, <2>16 DEF NamDev
    <3>2. Len(w) + (IF v THEN 1 ELSE 0) <= NM_MAXLEN
      BY <2>4, <2>5, <2>9, <2>10, <2>12, <2>14, <2>15, NamSizes
    <3>3. NamFits(d)
      BY <2>18, <3>2 DEF NamFits
    <3>4. QED
      BY <3>1, <3>3 DEF NamResultOf
  <2>20. ASSUME rest > 0
         PROVE  Leads(nametab, [dev |-> NAMESPACE, new |-> name]) = [dev |-> e.dev, new |-> w]
    <3>1. p + rest - 1 = n
      BY <2>5, <2>9, <2>20
    <3>2. w = e.replace \o SubSeq(name, p + 1, n)
      BY <2>11, <2>13, <3>1
    <3>3. PICK c : c = [dev |-> NAMESPACE, new |-> name]
      OBVIOUS
    <3>4. c.dev = NAMESPACE /\ c.new = name
      BY <3>3
    <3>5. Leads(nametab, c) = [dev |-> nametab[i].dev,
                               new |-> nametab[i].replace
                                         \o SubSeq(c.new, Len(nametab[i].prefix) + 1, Len(c.new))]
      BY <2>1, <3>4, LeadsIs
    <3>6. QED
      BY <2>2, <3>2, <3>3, <3>4, <3>5
  <2>21. v => rest > 0
    BY <2>15
  <2>22. QED
    BY <2>17, <2>20, <2>21, <2>18, <2>19
<1>4. QED
  BY <1>2, <1>3
-----------------------------------------------------------------------------
(* One replacement after another.                                          *)

LEMMA LeadingIs ==
  ASSUME NEW t \in NamTableOf, NEW name \in Seq(NamChars)
  PROVE  /\ Leading(t, name)[0] = [dev |-> NAMESPACE, new |-> name]
         /\ \A n \in 1 .. NNAMES : Leading(t, name)[n] = Leads(t, Leading(t, name)[n - 1])
         /\ \A n \in 0 .. NNAMES : Leading(t, name)[n] \in NamPlaceOf
<1>1. PICK N, x : N = NNAMES /\ x = [dev |-> NAMESPACE, new |-> name]
  OBVIOUS
<1>2. N \in Nat
  BY <1>1, NamSizes
<1>3. x \in NamPlaceOf
  BY <1>1 DEF NamPlaceOf
<1>4. PICK F : F = [n \in 1 .. N |-> [d \in NamPlaceOf |-> Leads(t, d)]]
  OBVIOUS
<1>5. F \in [1 .. N -> [NamPlaceOf -> NamPlaceOf]]
  BY <1>4, LeadsOK
<1>6. PICK f : StepsTo(N, NamPlaceOf, x, F, f)
  <2>1. StepsOn(N, NamPlaceOf, x, F)
    BY <1>2, <1>3, <1>5 DEF StepsOn
  <2>2. QED
    BY <2>1, StepsExist
<1>7. f \in [0 .. N -> NamPlaceOf] /\ f[0] = x /\ \A n \in 1 .. N : f[n] = F[n][f[n - 1]]
  BY <1>6 DEF StepsTo
<1>8. ASSUME NEW n \in 0 .. N
      PROVE  f[n] = IF n = 0 THEN x ELSE Leads(t, f[n - 1])
  <2>1. CASE n = 0
    BY <1>7, <2>1
  <2>2. CASE n # 0
    <3>1. n \in 1 .. N /\ n - 1 \in 0 .. N
      BY <1>2, <2>2
    <3>2. f[n - 1] \in NamPlaceOf /\ f[n] = F[n][f[n - 1]]
      BY <1>7, <3>1
    <3>3. QED
      BY <1>4, <2>2, <3>1, <3>2
  <2>3. QED
    BY <2>1, <2>2
<1>9. f = [n \in 0 .. N |-> IF n = 0 THEN x ELSE Leads(t, f[n - 1])]
  BY <1>7, <1>8
<1> DEFINE Is(g) == g = [n \in 0 .. N |-> IF n = 0 THEN x ELSE Leads(t, g[n - 1])]
<1>10. PICK g : g = Leading(t, name)
  OBVIOUS
<1>11. Is(g)
  <2>1. Leading(t, name) = CHOOSE h : Is(h)
    BY <1>1 DEF Leading
  <2>2. QED
    BY <1>9, <1>10, <2>1
<1>12. g[0] = x
  BY <1>2, <1>11
<1>13. ASSUME NEW n \in 1 .. N
       PROVE  g[n] = Leads(t, g[n - 1])
  <2>1. n \in 0 .. N /\ n # 0
    BY <1>2
  <2>2. QED
    BY <1>11, <2>1
<1> DEFINE T == {n \in 0 .. N : g[n] \in NamPlaceOf}
<1>14. 0 \in T
  BY <1>2, <1>3, <1>12
<1>15. ASSUME NEW n \in 0 .. N - 1, n \in T
       PROVE  n + 1 \in T
  <2>1. PICK k : k = n + 1
    OBVIOUS
  <2>2. k \in 1 .. N /\ k \in 0 .. N /\ k - 1 = n
    BY <1>2, <2>1
  <2>3. g[k] = Leads(t, g[n])
    BY <1>13, <2>2
  <2>4. g[n] \in NamPlaceOf
    BY <1>15
  <2>5. g[k] \in NamPlaceOf
    BY <2>3, <2>4, LeadsOK
  <2>6. QED
    BY <2>1, <2>2, <2>5
<1>16. \A n \in 0 .. N : n \in T
  <2> HIDE DEF T
  <2>1. QED
    BY <1>2, <1>14, <1>15, UpTo
<1>17. QED
  BY <1>1, <1>10, <1>12, <1>13, <1>16

\* What leads nowhere is the meaning.
LEMMA LeadingStays ==
  ASSUME NEW t \in NamTableOf, NEW name \in Seq(NamChars), NEW m \in 0 .. NNAMES,
         Leads(t, Leading(t, name)[m]) = Leading(t, name)[m]
  PROVE  Meaning(t, name) = Leading(t, name)[m]
<1>1. PICK g, N : g = Leading(t, name) /\ N = NNAMES
  OBVIOUS
<1>2. N \in Nat /\ m \in 0 .. N /\ N - m \in Nat
  BY <1>1, NamSizes
<1>3. \A n \in 1 .. N : g[n] = Leads(t, g[n - 1])
  BY <1>1, LeadingIs
<1> DEFINE T == {j \in 0 .. N - m : g[m + j] = g[m]}
<1>4. 0 \in T
  BY <1>2
<1>5. ASSUME NEW j \in 0 .. N - m - 1, j \in T
      PROVE  j + 1 \in T
  <2>1. PICK k : k = m + (j + 1)
    OBVIOUS
  <2>2. k \in 1 .. N /\ k - 1 = m + j /\ j + 1 \in 0 .. N - m
    BY <1>2, <2>1
  <2>3. g[k] = Leads(t, g[m + j])
    BY <1>3, <2>2
  <2>4. g[m + j] = g[m]
    BY <1>5
  <2>5. g[k] = g[m]
    BY <1>1, <2>3, <2>4
  <2>6. QED
    BY <2>1, <2>2, <2>5
<1>6. N - m \in T
  <2> HIDE DEF T
  <2>1. N - m \in 0 .. N - m
    BY <1>2
  <2>2. QED
    BY <1>2, <1>4, <1>5, <2>1, UpTo
<1>7. m + (N - m) = N
  BY <1>2
<1>8. g[N] = g[m]
  BY <1>6, <1>7
<1>9. QED
  BY <1>1, <1>8 DEF Meaning

\* What a table says of a name is said by the longer ones.
LEMMA MeaningGrows ==
  ASSUME NEW t \in NamTableOf, NEW e \in NamEntryOf, Append(t, e) \in NamTableOf,
         NEW name \in Seq(NamChars), Meaning(t, name).dev # NAMESPACE
  PROVE  Meaning(Append(t, e), name) = Meaning(t, name)
<1>1. PICK u, N, g, h : /\ u = Append(t, e) /\ N = NNAMES
                        /\ g = Leading(t, name) /\ h = Leading(u, name)
  OBVIOUS
<1>2. u \in NamTableOf /\ N \in Nat
  BY <1>1, NamSizes
<1>3. /\ g[0] = [dev |-> NAMESPACE, new |-> name]
      /\ \A n \in 1 .. N : g[n] = Leads(t, g[n - 1])
  BY <1>1, LeadingIs
<1>4. /\ h[0] = [dev |-> NAMESPACE, new |-> name]
      /\ \A n \in 1 .. N : h[n] = Leads(u, h[n - 1])
  BY <1>1, <1>2, LeadingIs
<1>5. Len(t) \in Nat /\ Len(u) = Len(t) + 1 /\ \A i \in 1 .. Len(t) : u[i] = t[i]
  <2>1. t \in Seq(NamEntryOf)
    BY DEF NamTableOf
  <2>2. QED
    BY <1>1, <2>1, AppendProperties, LenProperties
<1> DEFINE T == {n \in 0 .. N : h[n] = g[n]}
<1>6. 0 \in T
  BY <1>2, <1>3, <1>4
<1>7. ASSUME NEW n \in 0 .. N - 1, n \in T
      PROVE  n + 1 \in T
  <2>1. PICK k, d : k = n + 1 /\ d = g[n]
    OBVIOUS
  <2>2. k \in 1 .. N /\ k \in 0 .. N /\ k - 1 = n /\ n \in 0 .. N
    BY <1>2, <2>1
  <2>3. g[k] = Leads(t, d) /\ h[k] = Leads(u, d)
    <3>1. h[n] = d
      BY <1>7, <2>1
    <3>2. QED
      BY <1>3, <1>4, <2>1, <2>2, <3>1
  <2>4. Leads(u, d) = Leads(t, d)
    <3>1. CASE d.dev # NAMESPACE
      BY <1>2, <3>1, LeadsNowhere
    <3>2. CASE d.dev = NAMESPACE /\ \E i : NamFirst(t, i, d.new)
      <4>1. PICK i : NamFirst(t, i, d.new)
        BY <3>2
      <4>2. i \in 1 .. Len(t) /\ u[i] = t[i] /\ i \in 1 .. Len(u)
        BY <1>5, <4>1 DEF NamFirst
      <4>3. ASSUME NEW j \in 1 .. i - 1
            PROVE  ~IsPrefix(u[j].prefix, d.new)
        <5>1. j \in 1 .. Len(t)
          BY <1>5, <4>2
        <5>2. QED
          BY <1>5, <4>1, <5>1 DEF NamFirst
      <4>4. NamFirst(u, i, d.new)
        BY <4>1, <4>2, <4>3 DEF NamFirst
      <4>5. Leads(t, d) = [dev |-> t[i].dev,
                           new |-> t[i].replace \o SubSeq(d.new, Len(t[i].prefix) + 1, Len(d.new))]
        BY <3>2, <4>1, LeadsIs
      <4>6. Leads(u, d) = [dev |-> u[i].dev,
                           new |-> u[i].replace \o SubSeq(d.new, Len(u[i].prefix) + 1, Len(d.new))]
        BY <1>2, <3>2, <4>4, LeadsIs
      <4>7. QED
        BY <4>2, <4>5, <4>6
    <3>3. CASE d.dev = NAMESPACE /\ \A j \in 1 .. Len(t) : ~IsPrefix(t[j].prefix, d.new)
      <4>1. Leads(t, d) = d
        BY <3>3, LeadsNowhere
      <4>2. n \in 0 .. NNAMES /\ Leads(t, Leading(t, name)[n]) = Leading(t, name)[n]
        BY <1>1, <2>1, <2>2, <4>1
      <4>3. Meaning(t, name) = d
        BY <1>1, <2>1, <4>2, LeadingStays
      <4>4. QED
        BY <3>3, <4>3
    <3>4. QED
      BY <3>1, <3>2, <3>3, NamFirstOrNone
  <2>5. QED
    BY <2>1, <2>2, <2>3, <2>4
<1>8. N \in T
  <2> HIDE DEF T
  <2>1. N \in 0 .. N
    BY <1>2
  <2>2. QED
    BY <1>2, <1>6, <1>7, <2>1, UpTo
<1>9. QED
  BY <1>1, <1>8 DEF Meaning

\* The loop of nammap.
LEMMA NamTurnOK ==
  ASSUME nametab \in NamTableOf, NEW d \in NamResultOf
  PROVE  /\ NamTurn(d) \in NamResultOf
         /\ NamTurn(d).dev # NAMERR /\ NamTurn(d).ended =>
              /\ d.dev # NAMERR /\ d.ended
              /\ Leads(nametab, [dev |-> d.dev, new |-> d.new])
                   = [dev |-> NamTurn(d).dev, new |-> NamTurn(d).new]
<1>1. PICK r : r = NamTurn(d)
  OBVIOUS
<1>2. CASE ~(d.dev = NAMESPACE /\ d.ended)
  <2>1. r = d
    BY <1>1, <1>2 DEF NamTurn
  <2>2. ASSUME r.dev # NAMERR, r.ended
        PROVE  Leads(nametab, [dev |-> d.dev, new |-> d.new]) = [dev |-> d.dev, new |-> d.new]
    <3>1. PICK c : c = [dev |-> d.dev, new |-> d.new]
      OBVIOUS
    <3>2. c.dev # NAMESPACE
      BY <1>2, <2>1, <2>2, <3>1
    <3>3. QED
      BY <3>1, <3>2, LeadsNowhere
  <2>3. QED
    BY <1>1, <2>1, <2>2
<1>3. CASE d.dev = NAMESPACE /\ d.ended
  <2>1. r = namrepl(d.new)
    BY <1>1, <1>3 DEF NamTurn
  <2>2. d.new \in Seq(NamChars)
    BY DEF NamResultOf
  <2>3. Len(d.new) + 1 <= NM_MAXLEN
    BY <1>3 DEF NamResultOf, NamFits
  <2>4. r \in NamResultOf
    BY <2>1, <2>2, <2>3, namreplOK
  <2>5. r.dev # NAMERR /\ r.ended =>
          Leads(nametab, [dev |-> NAMESPACE, new |-> d.new]) = [dev |-> r.dev, new |-> r.new]
    BY <2>1, <2>2, <2>3, namreplOK
  <2>6. QED
    BY <1>1, <1>3, <2>4, <2>5, NamSizes
<1>4. QED
  BY <1>2, <1>3

LEMMA NamTurnsIs ==
  ASSUME nametab \in NamTableOf, NEW name \in Seq(NamChars), Len(name) + 1 <= NM_MAXLEN
  PROVE  /\ NamTurns(name)[0] = [dev |-> NAMESPACE, new |-> name, ended |-> TRUE]
         /\ \A n \in 1 .. Len(nametab) : NamTurns(name)[n] = NamTurn(NamTurns(name)[n - 1])
         /\ \A n \in 0 .. Len(nametab) : NamTurns(name)[n] \in NamResultOf
<1>1. PICK N, x : N = Len(nametab) /\ x = [dev |-> NAMESPACE, new |-> name, ended |-> TRUE]
  OBVIOUS
<1>2. N \in Nat
  BY <1>1, LenProperties DEF NamTableOf
<1>3. x \in NamResultOf
  <2>1. x.new = name /\ x.ended = TRUE /\ x \in [dev : NamDev, new : Seq(NamChars), ended : BOOLEAN]
    BY <1>1 DEF NamDev
  <2>2. QED
    BY <2>1 DEF NamResultOf, NamFits
<1>4. PICK F : F = [n \in 1 .. N |-> [d \in NamResultOf |-> NamTurn(d)]]
  OBVIOUS
<1>5. F \in [1 .. N -> [NamResultOf -> NamResultOf]]
  BY <1>4, NamTurnOK
<1>6. PICK f : StepsTo(N, NamResultOf, x, F, f)
  <2>1. StepsOn(N, NamResultOf, x, F)
    BY <1>2, <1>3, <1>5 DEF StepsOn
  <2>2. QED
    BY <2>1, StepsExist
<1>7. f \in [0 .. N -> NamResultOf] /\ f[0] = x /\ \A n \in 1 .. N : f[n] = F[n][f[n - 1]]
  BY <1>6 DEF StepsTo
<1>8. ASSUME NEW n \in 0 .. N
      PROVE  f[n] = IF n = 0 THEN x ELSE NamTurn(f[n - 1])
  <2>1. CASE n = 0
    BY <1>7, <2>1
  <2>2. CASE n # 0
    <3>1. n \in 1 .. N /\ n - 1 \in 0 .. N
      BY <1>2, <2>2
    <3>2. f[n - 1] \in NamResultOf /\ f[n] = F[n][f[n - 1]]
      BY <1>7, <3>1
    <3>3. QED
      BY <1>4, <2>2, <3>1, <3>2
  <2>3. QED
    BY <2>1, <2>2
<1>9. f = [n \in 0 .. N |-> IF n = 0 THEN x ELSE NamTurn(f[n - 1])]
  BY <1>7, <1>8
<1> DEFINE Is(g) == g = [n \in 0 .. N |-> IF n = 0 THEN x ELSE NamTurn(g[n - 1])]
<1>10. PICK g : g = NamTurns(name)
  OBVIOUS
<1>11. Is(g)
  <2>1. NamTurns(name) = CHOOSE h : Is(h)
    BY <1>1 DEF NamTurns
  <2>2. QED
    BY <1>9, <1>10, <2>1
<1>12. g[0] = x
  BY <1>2, <1>11
<1>13. ASSUME NEW n \in 1 .. N
       PROVE  g[n] = NamTurn(g[n - 1])
  <2>1. n \in 0 .. N /\ n # 0
    BY <1>2
  <2>2. QED
    BY <1>11, <2>1
<1> DEFINE T == {n \in 0 .. N : g[n] \in NamResultOf}
<1>14. 0 \in T
  BY <1>2, <1>3, <1>12
<1>15. ASSUME NEW n \in 0 .. N - 1, n \in T
       PROVE  n + 1 \in T
  <2>1. PICK k : k = n + 1
    OBVIOUS
  <2>2. k \in 1 .. N /\ k \in 0 .. N /\ k - 1 = n
    BY <1>2, <2>1
  <2>3. g[k] = NamTurn(g[n])
    BY <1>13, <2>2
  <2>4. g[n] \in NamResultOf
    BY <1>15
  <2>5. g[k] \in NamResultOf
    BY <2>3, <2>4, NamTurnOK
  <2>6. QED
    BY <2>1, <2>2, <2>5
<1>16. \A n \in 0 .. N : n \in T
  <2> HIDE DEF T
  <2>1. QED
    BY <1>2, <1>14, <1>15, UpTo
<1>17. QED
  BY <1>1, <1>10, <1>12, <1>13, <1>16
LEMMA nammapOK ==
  ASSUME nametab \in NamTableOf, NEW name \in Seq(NamChars)
  PROVE  /\ nammap(name) \in NamResultOf
         /\ nammap(name).dev # NAMERR /\ nammap(name).ended =>
              /\ nammap(name).dev # NAMESPACE
              /\ Meaning(nametab, name) = [dev |-> nammap(name).dev, new |-> nammap(name).new]
<1>1. PICK N, g, r, bad : /\ N = Len(nametab) /\ g = NamTurns(name) /\ r = nammap(name)
                          /\ bad = [dev |-> NAMERR, new |-> <<>>, ended |-> TRUE]
  OBVIOUS
<1>2. N \in Nat /\ N <= NNAMES
  BY <1>1, LenProperties DEF NamTableOf
<1>3. bad \in NamResultOf /\ bad.dev = NAMERR
  <2>1. <<>> \in Seq(NamChars) /\ Len(<<>>) = 0
    BY EmptySeq
  <2>2. bad.ended = TRUE /\ bad.new = <<>> /\ bad.dev = NAMERR
    BY <1>1
  <2>3. bad \in [dev : NamDev, new : Seq(NamChars), ended : BOOLEAN]
    BY <1>1, <2>1 DEF NamDev
  <2>4. QED
    BY <2>1, <2>2, <2>3, NamSizes DEF NamResultOf, NamFits
<1>4. CASE namlen(name, NM_MAXLEN) = -1 \/ (g[N].dev = NAMESPACE /\ g[N].ended)
  <2>1. r = bad
    BY <1>1, <1>4 DEF nammap
  <2>2. QED
    BY <1>1, <1>3, <2>1
<1>5. CASE ~(namlen(name, NM_MAXLEN) = -1 \/ (g[N].dev = NAMESPACE /\ g[N].ended))
  <2>1. r = g[N]
    BY <1>1, <1>5 DEF nammap
  <2>2. Len(name) + 1 <= NM_MAXLEN
    BY <1>5, LenProperties, NamSizes DEF namlen
  <2>3. /\ g[0] = [dev |-> NAMESPACE, new |-> name, ended |-> TRUE]
        /\ \A n \in 1 .. N : g[n] = NamTurn(g[n - 1])
        /\ \A n \in 0 .. N : g[n] \in NamResultOf
    BY <1>1, <2>2, NamTurnsIs
  <2>4. PICK h : h = Leading(nametab, name)
    OBVIOUS
  <2>5. /\ h[0] = [dev |-> NAMESPACE, new |-> name]
        /\ \A n \in 1 .. NNAMES : h[n] = Leads(nametab, h[n - 1])
    BY <2>4, LeadingIs
  <2> DEFINE Told(n) == g[n].dev # NAMERR /\ g[n].ended => h[n] = [dev |-> g[n].dev, new |-> g[n].new]
             T == {n \in 0 .. N : Told(n)}
  <2>6. 0 \in T
    BY <1>2, <2>3, <2>5
  <2>7. ASSUME NEW n \in 0 .. N - 1, n \in T
        PROVE  n + 1 \in T
    <3>1. PICK k, d, e : k = n + 1 /\ d = g[n] /\ e = g[k]
      OBVIOUS
    <3>2. k \in 1 .. N /\ k \in 0 .. N /\ k \in 1 .. NNAMES /\ k - 1 = n /\ n \in 0 .. N
      BY <1>2, <3>1, NamSizes
    <3>3. e = NamTurn(d) /\ d \in NamResultOf
      BY <2>3, <3>1, <3>2
    <3>4. h[k] = Leads(nametab, h[n])
      BY <2>5, <3>2
    <3>5. e.dev # NAMERR /\ e.ended =>
            /\ d.dev # NAMERR /\ d.ended
            /\ Leads(nametab, [dev |-> d.dev, new |-> d.new]) = [dev |-> e.dev, new |-> e.new]
      BY <3>3, NamTurnOK
    <3>6. d.dev # NAMERR /\ d.ended => h[n] = [dev |-> d.dev, new |-> d.new]
      BY <2>7, <3>1
    <3>7. e.dev # NAMERR /\ e.ended => h[k] = [dev |-> e.dev, new |-> e.new]
      BY <3>4, <3>5, <3>6
    <3>8. Told(k)
      BY <3>1, <3>7
    <3> HIDE DEF Told
    <3>9. QED
      BY <3>1, <3>2, <3>8
  <2>8. N \in T
    <3> HIDE DEF T
    <3>1. N \in 0 .. N
      BY <1>2
    <3>2. QED
      BY <1>2, <2>6, <2>7, <3>1, UpTo
  <2>9. ASSUME r.dev # NAMERR, r.ended
        PROVE  r.dev # NAMESPACE /\ Meaning(nametab, name) = [dev |-> r.dev, new |-> r.new]
    <3>1. r.dev # NAMESPACE
      BY <1>5, <2>1, <2>9
    <3>2. h[N] = [dev |-> r.dev, new |-> r.new]
      BY <2>1, <2>8, <2>9
    <3>3. h[N].dev # NAMESPACE
      BY <3>1, <3>2
    <3>4. Leads(nametab, h[N]) = h[N]
      BY <3>3, LeadsNowhere
    <3>5. N \in 0 .. NNAMES
      BY <1>2, NamSizes
    <3>6. Meaning(nametab, name) = h[N]
      BY <2>4, <3>4, <3>5, LeadingStays
    <3>7. QED
      BY <3>1, <3>2, <3>6
  <2>10. r \in NamResultOf
    BY <1>2, <2>1, <2>3
  <2>11. QED
    BY <1>1, <2>9, <2>10
<1>6. QED
  BY <1>4, <1>5

-----------------------------------------------------------------------------
(* The steps.                                                              *)

LEMMA NamStarts == NamInit => NamIInv
<1>1. SUFFICES ASSUME NamInit PROVE NamIInv
  OBVIOUS
<1>2. nametab \in NamTableOf
  <2>1. PICK boot \in NamBoots : nametab = NamTables(boot)[Len(boot)]
    BY <1>1 DEF NamInit
  <2>2. boot \in Seq(NamMountOf)
    BY NamAssumption
  <2>3. QED
    BY <2>1, <2>2, NamTablesOK
<1>3. nammapped.name = <<>> /\ nammapped.dev = NAMERR /\ nammapped.new = <<>> /\ nammapped.ended = TRUE
  BY <1>1 DEF NamInit, NamNothing
<1>4. <<>> \in Seq(NamChars) /\ Len(<<>>) = 0
  BY EmptySeq
<1>5. NamFits(nammapped)
  BY <1>3, <1>4, NamSizes DEF NamFits
<1>6. QED
  BY <1>2, <1>3, <1>4, <1>5 DEF NamIInv, NamDev

LEMMA mountOK ==
  ASSUME NamIInv, NEW m \in NamMounts, mount(m)
  PROVE  NamIInv'
<1>1. nametab \in NamTableOf /\ m \in NamMountOf /\ nametab' = Mounted(nametab, m) /\ nammapped' = nammapped
  BY NamAssumption DEF NamIInv, mount
<1>2. PICK t, u, c : t = nametab /\ u = nametab' /\ c = nammapped
  OBVIOUS
<1>3. t \in NamTableOf /\ u \in NamTableOf /\ (u = t \/ \E e \in NamEntryOf : u = Append(t, e))
  BY <1>1, <1>2, MountedOK
<1>4. /\ c.name \in Seq(NamChars) /\ c.dev \in NamDev /\ NamFits(c)
      /\ c.dev # NAMERR /\ c.ended =>
           c.dev # NAMESPACE /\ Meaning(t, c.name) = [dev |-> c.dev, new |-> c.new]
  BY <1>2 DEF NamIInv
<1>5. ASSUME c.dev # NAMERR, c.ended
      PROVE  Meaning(u, c.name) = [dev |-> c.dev, new |-> c.new]
  <2>1. CASE u = t
    BY <1>4, <1>5, <2>1
  <2>2. CASE \E e \in NamEntryOf : u = Append(t, e)
    <3>1. PICK e \in NamEntryOf : u = Append(t, e)
      BY <2>2
    <3>2. Meaning(t, c.name).dev # NAMESPACE
      BY <1>4, <1>5
    <3>3. Meaning(u, c.name) = Meaning(t, c.name)
      BY <1>3, <1>4, <3>1, <3>2, MeaningGrows
    <3>4. QED
      BY <1>4, <1>5, <3>3
  <2>3. QED
    BY <1>3, <2>1, <2>2
<1>6. NamFits(nammapped) /\ NamFits(nammapped)' = NamFits(nammapped')
  BY <1>2, <1>4 DEF NamFits
<1>7. Meaning(nametab, nammapped.name)' = Meaning(u, c.name)
  BY <1>1, <1>2 DEF Meaning, Leading, Leads
<1>8. QED
  BY <1>1, <1>2, <1>3, <1>4, <1>5, <1>6, <1>7 DEF NamIInv

LEMMA namopenOK ==
  ASSUME NamIInv, NEW name \in NamNames, namopen(name)
  PROVE  NamIInv'
<1>1. nametab \in NamTableOf /\ name \in Seq(NamChars) /\ nametab' = nametab
  BY NamAssumption DEF NamIInv, namopen
<1>2. PICK r, c : r = nammap(name) /\ c = nammapped'
  OBVIOUS
<1>3. c = [name |-> name, dev |-> r.dev, new |-> r.new, ended |-> r.ended]
  BY <1>2 DEF namopen
<1>4. r \in NamResultOf
  BY <1>1, <1>2, nammapOK
<1>5. r.dev # NAMERR /\ r.ended =>
        r.dev # NAMESPACE /\ Meaning(nametab, name) = [dev |-> r.dev, new |-> r.new]
  BY <1>1, <1>2, nammapOK
<1>6. c.name = name /\ c.dev = r.dev /\ c.new = r.new /\ c.ended = r.ended
  BY <1>3
<1>7. r.dev \in NamDev /\ NamFits(r)
  BY <1>4 DEF NamResultOf
<1>8. NamFits(c)
  BY <1>6, <1>7 DEF NamFits
<1>9. NamFits(nammapped)' = NamFits(c)
  BY <1>2 DEF NamFits
<1>10. Meaning(nametab, nammapped.name)' = Meaning(nametab, name)
  BY <1>1, <1>2, <1>6 DEF Meaning, Leading, Leads
<1>11. QED
  BY <1>1, <1>2, <1>5, <1>6, <1>7, <1>8, <1>9, <1>10 DEF NamIInv

LEMMA NamSteps == NamIInv /\ [NamNext]_namVars => NamIInv'
<1>1. SUFFICES ASSUME NamIInv, [NamNext]_namVars PROVE NamIInv'
  OBVIOUS
<1>2. ASSUME NEW m \in NamMounts, mount(m)
      PROVE  NamIInv'
  BY <1>1, <1>2, mountOK
<1>3. ASSUME NEW name \in NamNames, namopen(name)
      PROVE  NamIInv'
  BY <1>1, <1>3, namopenOK
<1>4. CASE UNCHANGED namVars
  <2>1. nametab' = nametab /\ nammapped' = nammapped
    BY <1>4 DEF namVars
  <2>2. Meaning(nametab, nammapped.name)' = Meaning(nametab, nammapped.name)
    BY <2>1 DEF Meaning, Leading, Leads
  <2>3. NamFits(nammapped)' = NamFits(nammapped)
    BY <2>1 DEF NamFits
  <2>4. QED
    BY <1>1, <2>1, <2>2, <2>3 DEF NamIInv
<1>5. QED
  BY <1>1, <1>2, <1>3, <1>4 DEF NamNext

LEMMA NamIInvImplies == NamIInv => NamInv
<1>1. SUFFICES ASSUME NamIInv PROVE NamInv
  OBVIOUS
<1>2. nametab \in Seq(NamEntryOf) /\ Len(nametab) <= NNAMES
  BY <1>1 DEF NamIInv, NamTableOf
<1>3. DOMAIN nametab = 1 .. Len(nametab)
  BY <1>2, LenProperties
<1>4. ASSUME NEW i \in DOMAIN nametab
      PROVE  /\ Len(nametab[i].prefix) < NM_PRELEN /\ Len(nametab[i].replace) < NM_REPLLEN
             /\ nametab[i].dev \in NamDevs \cup {NAMESPACE}
  <2>1. nametab[i] \in NamEntryOf
    BY <1>2, <1>3, LenProperties
  <2>2. QED
    BY <2>1 DEF NamEntryOf
<1>5. NamTypeOK
  BY <1>1, <1>2, <1>4 DEF NamTypeOK, NamIInv
<1>6. NewNameFits
  BY <1>1 DEF NewNameFits, NamIInv, NamFits
<1>7. MappedForGood
  BY <1>1 DEF MappedForGood, NamIInv
<1>8. QED
  BY <1>5, <1>6, <1>7 DEF NamInv

\* Whatever is mounted and opened: what a name is mapped to fits the buffer of
\* its caller, however many prefixes were replaced, and is what the table says of
\* the name, now and after every later mount (mount, device/nam/mount.c; nammap and
\* namrepl, device/nam/nammap.c).
THEOREM NamesAreMapped == NamSpec => []NamInv
<1>1. NamInit => NamIInv
  BY NamStarts
<1>2. NamIInv /\ [NamNext]_namVars => NamIInv'
  BY NamSteps
<1>3. NamIInv => NamInv
  BY NamIInvImplies
<1>4. QED
  BY <1>1, <1>2, <1>3, PTL DEF NamSpec

-----------------------------------------------------------------------------
(* The serial line: the inductive invariant.                               *)

TyInOps == {"read", "line", "rest", "nextc"}
TyOutOps == {"write"}

TyChar == {"a", "b", "^A", "\n", "\r", "^H", "^U", "^S", "^Q", "^D"}

TyCallOf == [op : {"idle"} \cup TyInOps \cup TyOutOps, left : Int, got : {0, 1}]

\* Those who have called wait for a character, or for a place, and not gone on.
TyCallers(ops) == {p \in TyProc : tycall[p].op \in ops /\ tycall[p].got = 1}

TyInPromised == Promises(TyCallers(TyInOps), tyisem)
TyOutPromised == Promises(TyCallers(TyOutOps), tyosem)

TyTypes ==
    /\ tyihead \in 0 .. TY_IBUFLEN - 1
    /\ tyitail \in 0 .. TY_IBUFLEN
    /\ tyibuff \in [0 .. TY_IBUFLEN - 1 -> TyChar]
    /\ tyicursor \in 0 .. TY_IBUFLEN
    /\ tyohead \in 0 .. TY_OBUFLEN - 1
    /\ tyotail \in 0 .. TY_OBUFLEN - 1
    /\ tyechoes \in Nat
    /\ tycall \in [TyProc -> TyCallOf]
    /\ tyispoilt \in BOOLEAN
    /\ tyoextra \in BOOLEAN

\* What is readable and the line lie between the head and the tail.
TyInputOK ==
    /\ SoundFor(TyProc, TyCallers(TyInOps), tyisem)
    /\ ~tyispoilt =>
          /\ tyitail # TY_IBUFLEN
          /\ TyInPromised + tyicursor <= TY_IBUFLEN
          /\ tyitail = RingTurn(TY_IBUFLEN, tyihead, TyInPromised + tyicursor)
          /\ tyimode # "C" => tyicursor = 0

\* What is not sent yet lies between the head and the tail, and the semaphore has
\* promised the other places.
TyOutputOK ==
    /\ SoundFor(TyProc, TyCallers(TyOutOps), tyosem)
    /\ ~tyoextra =>
          /\ TyOutPromised <= TY_OBUFLEN
          /\ tyotail = RingTurn(TY_OBUFLEN, tyohead, TY_OBUFLEN - TyOutPromised)

TtyIInv == TyTypes /\ TyInputOK /\ TyOutputOK

LEMMA TyFacts ==
  /\ TY_IBUFLEN \in Nat \ {0} /\ TY_OBUFLEN \in Nat \ {0} /\ TY_EBUFLEN \in Nat \ {0}
  /\ UART_FIFO_SIZE \in Nat \ {0} /\ TyKeys \subseteq TyChar /\ TyCounts \subseteq Nat
  /\ TyReader \subseteq TyProc /\ TyWriter \subseteq TyProc
<1>1. {TY_IBUFLEN, TY_OBUFLEN, TY_EBUFLEN, UART_FIFO_SIZE} \subseteq Nat \ {0}
  BY TtyAssumption
<1>2. TY_IBUFLEN \in Nat \ {0} /\ TY_OBUFLEN \in Nat \ {0} /\ TY_EBUFLEN \in Nat \ {0}
  BY <1>1
<1>3. UART_FIFO_SIZE \in Nat \ {0}
  BY <1>1
<1>4. TyKeys \subseteq {"a", "b", "^A", "\n", "\r", "^H", "^U", "^S", "^Q", "^D"}
  BY TtyAssumption
<1>5. TyKeys \subseteq TyChar
  BY <1>4 DEF TyChar
<1>6. TyCounts \subseteq Nat
  BY TtyAssumption
<1>7. TyReader \subseteq TyProc /\ TyWriter \subseteq TyProc
  BY DEF TyProc
<1>8. QED
  BY <1>2, <1>3, <1>5, <1>6, <1>7

\* The greater and the smaller of two numbers.
LEMMA TyMinMax ==
  ASSUME NEW a \in Int, NEW b \in Int
  PROVE  /\ Max({a, b}) = IF a >= b THEN a ELSE b
         /\ Min({a, b}) = IF a <= b THEN a ELSE b
<1>1. PICK x : x = IF a >= b THEN a ELSE b
  OBVIOUS
<1>2. PICK y : y = IF a <= b THEN a ELSE b
  OBVIOUS
<1>3. x \in {a, b} /\ \A z \in {a, b} : x >= z
  BY <1>1
<1>4. y \in {a, b} /\ \A z \in {a, b} : y <= z
  BY <1>2
<1>5. Max({a, b}) \in {a, b} /\ \A z \in {a, b} : Max({a, b}) >= z
  <2>1. \E u \in {a, b} : \A z \in {a, b} : u >= z
    BY <1>3
  <2>2. QED
    BY <2>1 DEF Max
<1>6. Min({a, b}) \in {a, b} /\ \A z \in {a, b} : Min({a, b}) <= z
  <2>1. \E u \in {a, b} : \A z \in {a, b} : u <= z
    BY <1>4
  <2>2. QED
    BY <2>1 DEF Min
<1>7. PICK m, n : m = Max({a, b}) /\ n = Min({a, b})
  OBVIOUS
<1>8. m \in {a, b} /\ m >= a /\ m >= b
  BY <1>5, <1>7
<1>9. n \in {a, b} /\ n <= a /\ n <= b
  BY <1>6, <1>7
<1>10. m = (IF a >= b THEN a ELSE b) /\ n = IF a <= b THEN a ELSE b
  BY <1>8, <1>9
<1>11. QED
  BY <1>7, <1>10

\* The promises are what the model counts.
LEMMA TyCounted ==
  ASSUME TtyIInv
  PROVE  /\ TyReadable = TyInPromised /\ TyInPromised \in Nat
         /\ TyUnsent = TY_OBUFLEN - TyOutPromised /\ TyOutPromised \in Nat
         /\ tyisem.count \in Int /\ tyosem.count \in Int
         /\ TyAvail \in Nat
<1>1. PICK C, D, s, r : /\ C = TyCallers(TyInOps) /\ D = TyCallers(TyOutOps)
                        /\ s = tyisem /\ r = tyosem
  OBVIOUS
<1>2. SoundFor(TyProc, C, s) /\ SoundFor(TyProc, D, r)
  BY <1>1 DEF TtyIInv, TyInputOK, TyOutputOK
<1>3. TyHanded(s, TyInOps) = Admitted(C, s) /\ TyHanded(r, TyOutOps) = Admitted(D, r)
  BY <1>1 DEF TyHanded, TyCallers, Admitted
<1>4. /\ s.count \in Int /\ Promises(C, s) \in Nat
      /\ s.count + Len(s.queue) + Cardinality(Admitted(C, s)) = Promises(C, s)
  BY <1>2, PromisesSum
<1>5. /\ r.count \in Int /\ Promises(D, r) \in Nat
      /\ Len(r.queue) \in Nat /\ Cardinality(Admitted(D, r)) \in Nat
      /\ r.count + Len(r.queue) + Cardinality(Admitted(D, r)) = Promises(D, r)
  BY <1>2, PromisesSum
<1>6. TyReadable = Promises(C, s)
  BY <1>1, <1>3, <1>4 DEF TyReadable, TyInOps
<1>7. TyUnsent = TY_OBUFLEN - r.count - Len(r.queue) - Cardinality(Admitted(D, r))
  BY <1>1, <1>3 DEF TyUnsent, TyOutOps
<1>8. TyUnsent = TY_OBUFLEN - Promises(D, r)
  <2>1. PICK a, b, c, d, m : /\ a = r.count /\ b = Len(r.queue) /\ c = Cardinality(Admitted(D, r))
                             /\ d = Promises(D, r) /\ m = TY_OBUFLEN
    OBVIOUS
  <2>2. a \in Int /\ b \in Nat /\ c \in Nat /\ d \in Nat /\ a + b + c = d /\ m \in Nat
    BY <1>5, <2>1, TyFacts
  <2>3. m - a - b - c = m - d
    BY <2>2
  <2>4. QED
    BY <1>7, <2>1, <2>3
<1>9. TyAvail \in Nat
  BY <1>1, <1>4 DEF TyAvail
<1>10. QED
  BY <1>1, <1>4, <1>5, <1>6, <1>8, <1>9 DEF TyInPromised, TyOutPromised

\* The callers when p goes on to another state c of its call.
LEMMA TyCallersNext ==
  ASSUME tycall \in [TyProc -> TyCallOf], NEW p \in TyProc, NEW c,
         tycall' = [tycall EXCEPT ![p] = c], NEW ops
  PROVE  \A q : q \in TyCallers(ops)' <=>
            (q \in TyCallers(ops) /\ q # p) \/ (q = p /\ c.op \in ops /\ c.got = 1)
<1>1. \A q \in TyProc : tycall'[q] = IF q = p THEN c ELSE tycall[q]
  OBVIOUS
<1>2. \A q : q \in TyCallers(ops)' <=> q \in TyProc /\ tycall'[q].op \in ops /\ tycall'[q].got = 1
  BY DEF TyCallers
<1>3. \A q : q \in TyCallers(ops) <=> q \in TyProc /\ tycall[q].op \in ops /\ tycall[q].got = 1
  BY DEF TyCallers
<1>4. QED
  BY <1>1, <1>2, <1>3

\* The input when only what it does not depend on changes.
LEMMA TyInputSame ==
  ASSUME TyInputOK, UNCHANGED tyinVars, tyimode' = tyimode,
         TyCallers(TyInOps)' = TyCallers(TyInOps)
  PROVE  TyInputOK' /\ TyInPromised' = TyInPromised
BY DEF TyInputOK, TyInPromised, tyinVars

LEMMA TyOutputSame ==
  ASSUME TyOutputOK, UNCHANGED tyoutVars, TyCallers(TyOutOps)' = TyCallers(TyOutOps)
  PROVE  TyOutputOK' /\ TyOutPromised' = TyOutPromised
BY DEF TyOutputOK, TyOutPromised, tyoutVars

LEMMA TyTypesIn ==
  ASSUME TyTypes, UNCHANGED <<tyoutVars, tyechoes>>,
         tyihead' \in 0 .. TY_IBUFLEN - 1, tyitail' \in 0 .. TY_IBUFLEN,
         tyibuff' \in [0 .. TY_IBUFLEN - 1 -> TyChar], tyicursor' \in 0 .. TY_IBUFLEN,
         tycall' \in [TyProc -> TyCallOf], tyispoilt' \in BOOLEAN
  PROVE  TyTypes'
BY DEF TyTypes, tyoutVars

-----------------------------------------------------------------------------
(* The serial line: keys.                                                  *)

\* A character was put where one more is counted.
LEMMA TyInputPut ==
  ASSUME TtyIInv, ~tyispoilt, NEW ch \in TyChar, NEW nowrap \in BOOLEAN, TyPut(ch, nowrap),
         tyihead' = tyihead, tyimode' = tyimode, tycall' = tycall,
         SoundFor(TyProc, TyCallers(TyInOps), tyisem'), tyicursor' \in 0 .. TY_IBUFLEN,
         Promises(TyCallers(TyInOps), tyisem') + tyicursor' = TyInPromised + tyicursor + 1,
         tyimode # "C" => tyicursor' = 0
  PROVE  /\ TyInputOK' /\ tyitail' \in 0 .. TY_IBUFLEN /\ tyispoilt' \in BOOLEAN
         /\ tyibuff' \in [0 .. TY_IBUFLEN - 1 -> TyChar]
<1>1. TyTypes /\ TyInputOK
  BY DEF TtyIInv
<1>2. PICK N, h, t, k, C : /\ N = TY_IBUFLEN /\ h = tyihead /\ t = tyitail
                           /\ k = TyInPromised + tyicursor /\ C = TyCallers(TyInOps)
  OBVIOUS
<1>3. /\ N \in Nat \ {0} /\ h \in 0 .. N - 1 /\ t \in 0 .. N - 1 /\ k \in 0 .. N
      /\ t = RingTurn(N, h, k) /\ TyReadable = TyInPromised /\ TyInPromised \in Nat
  <2>1. TyInPromised \in Nat /\ TyReadable = TyInPromised
    BY TyCounted
  <2>2. tyitail # N /\ TyInPromised + tyicursor <= N /\ t = RingTurn(N, h, k)
    BY <1>1, <1>2 DEF TyInputOK
  <2>3. tyihead \in 0 .. N - 1 /\ tyitail \in 0 .. N /\ tyicursor \in 0 .. N
    BY <1>1, <1>2 DEF TyTypes
  <2>4. N \in Nat \ {0}
    BY <1>2, TyFacts
  <2>5. k \in 0 .. N /\ t \in 0 .. N - 1
    BY <1>2, <2>1, <2>2, <2>3, <2>4
  <2>6. QED
    BY <1>2, <2>1, <2>2, <2>3, <2>4, <2>5
<1>4. TyStored = k
  BY <1>2, <1>3 DEF TyStored
<1>5. /\ tyitail' = IF t + 1 >= N /\ ~nowrap THEN 0 ELSE t + 1
      /\ tyispoilt' = (k >= N \/ tyitail' = N)
      /\ tyibuff' = [tyibuff EXCEPT ![tyitail] = ch]
  BY <1>2, <1>4 DEF TyPut
<1>6. tyitail' \in 0 .. TY_IBUFLEN /\ tyispoilt' \in BOOLEAN
  <2>1. tyitail' \in 0 .. TY_IBUFLEN
    BY <1>2, <1>3, <1>5
  <2>2. QED
    BY <1>5, <2>1
<1>7. tyibuff' \in [0 .. TY_IBUFLEN - 1 -> TyChar]
  BY <1>1, <1>5 DEF TyTypes
<1>8. TyCallers(TyInOps)' = C
  BY <1>2 DEF TyCallers
<1>9. TyInPromised' = Promises(C, tyisem') /\ TyInPromised' \in Nat
  BY <1>2, <1>8, PromisesSum DEF TyInPromised
<1>10. TyInPromised' + tyicursor' = k + 1
  BY <1>2, <1>9
<1>11. ASSUME ~tyispoilt'
       PROVE  /\ tyitail' # TY_IBUFLEN
              /\ TyInPromised' + tyicursor' <= TY_IBUFLEN
              /\ tyitail' = RingTurn(TY_IBUFLEN, h, k + 1)
  <2>1. k < N /\ tyitail' # N
    <3>1. ~(k >= N \/ tyitail' = N)
      BY <1>5, <1>11
    <3>2. QED
      BY <3>1, <1>3
  <2>2. t + 1 # N \/ ~nowrap
    BY <1>3, <1>5, <2>1
  <2>3. tyitail' = IF t + 1 < N THEN t + 1 ELSE 0
    BY <1>3, <1>5, <2>2
  <2>4. RingTurn(N, t, 1) = IF t + 1 < N THEN t + 1 ELSE t + 1 - N
    BY <1>3, RingAfter DEF RingTurn
  <2>5. tyitail' = RingTurn(N, t, 1)
    BY <1>3, <2>3, <2>4
  <2>6. RingTurn(N, t, 1) = RingTurn(N, h, k + 1)
    BY <1>3, <2>1, RingNext
  <2>7. k + 1 <= N
    BY <1>3, <2>1
  <2>8. QED
    BY <1>2, <1>10, <2>1, <2>5, <2>6, <2>7
<1>12. tyimode' # "C" => tyicursor' = 0
  OBVIOUS
<1>13. TyInputOK'
  BY <1>2, <1>8, <1>10, <1>11, <1>12 DEF TyInputOK
<1>14. QED
  BY <1>6, <1>7, <1>13

\* The tail goes back over n characters of the line.
LEMMA TyInputBack ==
  ASSUME TtyIInv, ~tyispoilt, NEW n \in 0 .. tyicursor, TyBack(n), tyicursor' = tyicursor - n,
         tyihead' = tyihead, tyimode' = tyimode, tycall' = tycall, tyisem' = tyisem,
         tyispoilt' = tyispoilt
  PROVE  TyInputOK' /\ tyitail' \in 0 .. TY_IBUFLEN /\ tyicursor' \in 0 .. TY_IBUFLEN
<1>1. TyTypes /\ TyInputOK
  BY DEF TtyIInv
<1>2. PICK N, h, t, k, c, C : /\ N = TY_IBUFLEN /\ h = tyihead /\ t = tyitail /\ c = tyicursor
                              /\ k = TyInPromised /\ C = TyCallers(TyInOps)
  OBVIOUS
<1>3. /\ N \in Nat \ {0} /\ h \in 0 .. N - 1 /\ t \in 0 .. N - 1 /\ k + c \in 0 .. N
      /\ k \in Nat /\ c \in 0 .. N /\ n \in 0 .. c
      /\ t = RingTurn(N, h, k + c)
  <2>1. TyInPromised \in Nat
    BY TyCounted
  <2>2. tyitail # N /\ TyInPromised + tyicursor <= N /\ t = RingTurn(N, h, k + c)
    BY <1>1, <1>2 DEF TyInputOK
  <2>3. tyihead \in 0 .. N - 1 /\ tyitail \in 0 .. N /\ tyicursor \in 0 .. N
    BY <1>1, <1>2 DEF TyTypes
  <2>4. N \in Nat \ {0}
    BY <1>2, TyFacts
  <2>5. k + c \in 0 .. N /\ t \in 0 .. N - 1
    BY <1>2, <2>1, <2>2, <2>3, <2>4
  <2>6. QED
    BY <1>2, <2>1, <2>2, <2>3, <2>4, <2>5
<1>4. tyitail' = IF t < n THEN t - n + N ELSE t - n
  BY <1>2 DEF TyBack
<1>5. t = IF h + (k + c) < N THEN h + (k + c) ELSE h + (k + c) - N
  BY <1>3, RingAfter DEF RingTurn
<1>6. k + (c - n) \in 0 .. N
  BY <1>3
<1>7. RingTurn(N, h, k + (c - n)) = IF h + (k + (c - n)) < N THEN h + (k + (c - n)) ELSE h + (k + (c - n)) - N
  <2>1. PICK m \in 0 .. N : m = k + (c - n)
    BY <1>6
  <2>2. RingTurn(N, h, m) = IF h + m < N THEN h + m ELSE h + m - N
    BY <1>3, RingAfter DEF RingTurn
  <2>3. QED
    BY <2>1, <2>2
<1>8. CASE n = 0
  <2>1. tyitail' = t /\ tyicursor' = c
    BY <1>2, <1>3, <1>4, <1>8
  <2>2. UNCHANGED tyitail /\ UNCHANGED tyicursor
    BY <1>2, <2>1
  <2>3. TyCallers(TyInOps)' = C
    BY <1>2 DEF TyCallers
  <2>4. TyInputOK'
    BY <1>1, <1>2, <2>2, <2>3 DEF TyInputOK, TyInPromised
  <2>5. QED
    BY <1>1, <2>2, <2>4 DEF TyTypes
<1>9. CASE n # 0
  <2>1. tyitail' \in 0 .. N - 1
    BY <1>3, <1>4
  <2>2. PICK u : u = RingTurn(N, h, k + (c - n))
    OBVIOUS
  <2>3. tyitail' = u
    BY <1>3, <1>4, <1>5, <1>7, <1>9, <2>2
  <2>4. tyicursor' = c - n /\ c - n \in 0 .. N
    BY <1>2, <1>3
  <2>5. TyCallers(TyInOps)' = C
    BY <1>2 DEF TyCallers
  <2>6. TyInPromised' = k
    BY <1>2, <2>5 DEF TyInPromised
  <2>7. tyimode # "C" => c - n = 0
    <3>1. tyimode # "C" => c = 0
      BY <1>1, <1>2 DEF TyInputOK
    <3>2. QED
      BY <3>1, <1>3
  <2>8. SoundFor(TyProc, C, tyisem)
    BY <1>1, <1>2 DEF TyInputOK
  <2>9. TyInPromised' + tyicursor' = k + (c - n) /\ k + (c - n) <= N
    BY <1>6, <2>4, <2>6
  <2>10. tyitail' # TY_IBUFLEN
    BY <1>2, <1>3, <2>1
  <2>11. TyInputOK'
    BY <1>2, <2>2, <2>3, <2>4, <2>5, <2>7, <2>8, <2>9, <2>10 DEF TyInputOK
  <2>12. QED
    BY <1>2, <1>3, <2>1, <2>4, <2>11
<1>10. QED
  BY <1>8, <1>9
\* What a key must keep.
TyInGood ==
    /\ TyInputOK
    /\ tyihead \in 0 .. TY_IBUFLEN - 1
    /\ tyitail \in 0 .. TY_IBUFLEN
    /\ tyibuff \in [0 .. TY_IBUFLEN - 1 -> TyChar]
    /\ tyicursor \in 0 .. TY_IBUFLEN
    /\ tyispoilt \in BOOLEAN

LEMMA TyEchoOK ==
  ASSUME tyechoes \in Nat, NEW n \in Nat, TyEcho(n)
  PROVE  tyechoes' \in Nat
<1>1. PICK m, e : m = TY_EBUFLEN /\ e = tyechoes + n
  OBVIOUS
<1>2. m \in Nat \ {0} /\ e \in Nat
  BY <1>1, TyFacts
<1>3. e % m \in 0 .. m - 1
  BY <1>2
<1>4. tyechoes' = e % m
  BY <1>1 DEF TyEcho, TyMod
<1>5. QED
  BY <1>2, <1>3, <1>4

LEMMA TyEchoNat ==
  ASSUME NEW ch
  PROVE  TyEchoOf(ch) \in Nat /\ TyEraseEcho(ch) \in Nat
BY DEF TyEchoOf, TyEraseEcho

\* A key that changes nothing of the input.
LEMMA TyKeyKept ==
  ASSUME TtyIInv, UNCHANGED <<tyinVars, tymodeVars, tycall>>
  PROVE  TyInGood'
<1>1. TyTypes /\ TyInputOK
  BY DEF TtyIInv
<1>2. TyCallers(TyInOps)' = TyCallers(TyInOps)
  BY DEF TyCallers
<1>3. TyInputOK'
  BY <1>1, <1>2, TyInputSame DEF tymodeVars
<1>4. QED
  BY <1>1, <1>3 DEF TyInGood, TyTypes, tyinVars

\* A key that is put and signalled at once.
LEMMA TyKeySignalled ==
  ASSUME TtyIInv, ~tyispoilt, NEW ch \in TyChar, NEW nowrap \in BOOLEAN, TyPut(ch, nowrap),
         tyisem' = Signalled(tyisem), UNCHANGED <<tyihead, tyicursor, tymodeVars, tycall>>
  PROVE  TyInGood'
<1>1. TyTypes /\ TyInputOK
  BY DEF TtyIInv
<1>2. PICK C : C = TyCallers(TyInOps)
  OBVIOUS
<1>3. SoundFor(TyProc, C, tyisem) /\ TyInPromised = Promises(C, tyisem) /\ TyInPromised \in Nat
  BY <1>1, <1>2, TyCounted DEF TyInputOK, TyInPromised
<1>4. SoundFor(TyProc, C, tyisem') /\ Promises(C, tyisem') = TyInPromised + 1
  BY <1>3, PromisesSignalled
<1>5. /\ tyicursor' = tyicursor /\ tyihead' = tyihead /\ tyimode' = tyimode /\ tycall' = tycall
      /\ tyicursor \in 0 .. TY_IBUFLEN /\ tyihead \in 0 .. TY_IBUFLEN - 1
      /\ tyimode # "C" => tyicursor = 0
  BY <1>1 DEF TyTypes, TyInputOK, tymodeVars
<1>6. PICK m, c, d \in Int : m = TyInPromised /\ c = tyicursor /\ d = Promises(C, tyisem')
  BY <1>3, <1>4, <1>5
<1>7. d + c = m + c + 1
  BY <1>3, <1>4, <1>6
<1>8. Promises(TyCallers(TyInOps), tyisem') + tyicursor' = TyInPromised + tyicursor + 1
  BY <1>2, <1>5, <1>6, <1>7
<1>9. /\ TyInputOK' /\ tyitail' \in 0 .. TY_IBUFLEN /\ tyispoilt' \in BOOLEAN
      /\ tyibuff' \in [0 .. TY_IBUFLEN - 1 -> TyChar]
  BY <1>2, <1>4, <1>5, <1>8, TyInputPut
<1>10. QED
  BY <1>5, <1>9 DEF TyInGood

LEMMA TyRawKeyOK ==
  ASSUME TtyIInv, ~tyispoilt, NEW ch \in TyChar, TyRawKey(ch), UNCHANGED <<tymodeVars, tycall>>
  PROVE  TyInGood' /\ tyechoes' \in Nat
<1>1. tyechoes' = tyechoes /\ tyechoes \in Nat
  BY DEF TyRawKey, TtyIInv, TyTypes
<1>2. CASE UNCHANGED tyinVars
  BY <1>1, <1>2, TyKeyKept
<1>3. CASE TyPut(ch, FALSE) /\ tyisem' = Signalled(tyisem) /\ UNCHANGED <<tyihead, tyicursor>>
  BY <1>1, <1>3, TyKeySignalled
<1>4. QED
  BY <1>2, <1>3 DEF TyRawKey

LEMMA TyCbreakKeyOK ==
  ASSUME TtyIInv, ~tyispoilt, NEW ch \in TyChar, TyCbreakKey(ch), UNCHANGED <<tymodeVars, tycall>>
  PROVE  TyInGood' /\ tyechoes' \in Nat
<1>1. tyechoes \in Nat
  BY DEF TtyIInv, TyTypes
<1>2. CASE TyEcho(1) /\ UNCHANGED tyinVars
  BY <1>1, <1>2, TyKeyKept, TyEchoOK
<1>3. CASE TyPut(ch, FALSE) /\ TyEcho(TyEchoOf(ch)) /\ tyisem' = Signalled(tyisem)
           /\ UNCHANGED <<tyihead, tyicursor>>
  BY <1>1, <1>3, TyKeySignalled, TyEchoOK, TyEchoNat
<1>4. QED
  BY <1>2, <1>3 DEF TyCbreakKey

\* A key that takes n characters of the line away.
LEMMA TyKeyBack ==
  ASSUME TtyIInv, ~tyispoilt, NEW n \in 0 .. tyicursor, TyBack(n), tyicursor' = tyicursor - n,
         UNCHANGED <<tyihead, tyibuff, tyisem, tyispoilt, tymodeVars, tycall>>
  PROVE  TyInGood'
<1>1. TyTypes /\ TyInputOK
  BY DEF TtyIInv
<1>2. UNCHANGED tyihead /\ UNCHANGED tyibuff /\ UNCHANGED tyispoilt /\ tyimode' = tyimode
  BY DEF tymodeVars
<1>3. TyInputOK' /\ tyitail' \in 0 .. TY_IBUFLEN /\ tyicursor' \in 0 .. TY_IBUFLEN
  BY <1>2, TyInputBack
<1>4. QED
  BY <1>1, <1>2, <1>3 DEF TyInGood, TyTypes

LEMMA TyKillOK ==
  ASSUME TtyIInv, ~tyispoilt, TyKill, UNCHANGED <<tymodeVars, tycall>>
  PROVE  TyInGood' /\ tyechoes' \in Nat
<1>1. tyechoes \in Nat /\ tyicursor \in 0 .. TY_IBUFLEN /\ TY_IBUFLEN \in Nat
  BY TyFacts DEF TtyIInv, TyTypes
<1>2. tyechoes' \in Nat
  BY <1>1, TyEchoOK DEF TyKill
<1>3. PICK n : n = tyicursor
  OBVIOUS
<1>4. n \in 0 .. n /\ n - n = 0
  BY <1>1, <1>3
<1>5. n \in 0 .. tyicursor /\ TyBack(n) /\ tyicursor' = tyicursor - n
  BY <1>3, <1>4 DEF TyKill
<1>6. TyInGood'
  BY <1>5, TyKeyBack DEF TyKill
<1>7. QED
  BY <1>2, <1>6

LEMMA TyEraseOK ==
  ASSUME TtyIInv, ~tyispoilt, TyErase, tyicursor > 0, UNCHANGED <<tymodeVars, tycall>>
  PROVE  TyInGood' /\ tyechoes' \in Nat
<1>1. tyechoes \in Nat /\ tyicursor \in 0 .. TY_IBUFLEN /\ TY_IBUFLEN \in Nat
  BY TyFacts DEF TtyIInv, TyTypes
<1>2. tyechoes' \in Nat
  <2>1. PICK n \in Nat : TyEcho(n)
    BY TyEchoNat DEF TyErase
  <2>2. QED
    BY <1>1, <2>1, TyEchoOK
<1>3. 1 \in 0 .. tyicursor
  BY <1>1
<1>4. TyInGood'
  BY <1>3, TyKeyBack DEF TyErase
<1>5. QED
  BY <1>2, <1>4

LEMMA TyLineOK ==
  ASSUME TtyIInv, ~tyispoilt, NEW ch \in TyChar, TyLine(ch), UNCHANGED <<tymodeVars, tycall>>
  PROVE  TyInGood' /\ tyechoes' \in Nat
<1>1. TyTypes /\ TyInputOK
  BY DEF TtyIInv
<1>2. tyechoes' \in Nat
  BY <1>1, TyEchoOK, TyEchoNat DEF TyTypes, TyLine
<1>3. PICK C, k, N : C = TyCallers(TyInOps) /\ k = tyicursor /\ N = TY_IBUFLEN
  OBVIOUS
<1>4. SoundFor(TyProc, C, tyisem) /\ TyInPromised = Promises(C, tyisem) /\ TyInPromised \in Nat
  BY <1>1, <1>3, TyCounted DEF TyInputOK, TyInPromised
<1>5. k \in 0 .. N /\ N \in Nat \ {0} /\ tyihead \in 0 .. N - 1
  BY <1>1, <1>3, TyFacts DEF TyTypes
<1>6. k + 1 \in Nat
  BY <1>5
<1>7. tyisem' = SignalledN(tyisem, k + 1) /\ tyicursor' = 0 /\ tyihead' = tyihead
  BY <1>3 DEF TyLine
<1>8. SoundFor(TyProc, C, tyisem') /\ Promises(C, tyisem') = TyInPromised + (k + 1)
  BY <1>4, <1>6, <1>7, PromisesSignalledN
<1>9. PICK m, d \in Int : m = TyInPromised /\ d = Promises(C, tyisem')
  BY <1>4, <1>6, <1>8
<1>10. d + 0 = m + k + 1 /\ 0 \in 0 .. N
  BY <1>4, <1>5, <1>8, <1>9
<1>11. /\ Promises(TyCallers(TyInOps), tyisem') + tyicursor' = TyInPromised + tyicursor + 1
       /\ tyicursor' \in 0 .. TY_IBUFLEN
  BY <1>3, <1>7, <1>9, <1>10
<1>12. TyPut(ch, FALSE) /\ tyimode' = tyimode /\ tycall' = tycall
  BY DEF TyLine, tymodeVars
<1>13. /\ TyInputOK' /\ tyitail' \in 0 .. TY_IBUFLEN /\ tyispoilt' \in BOOLEAN
       /\ tyibuff' \in [0 .. TY_IBUFLEN - 1 -> TyChar]
  BY <1>3, <1>7, <1>8, <1>11, <1>12, TyInputPut
<1>14. QED
  BY <1>2, <1>3, <1>5, <1>7, <1>11, <1>13 DEF TyInGood

LEMMA TyOrdinaryOK ==
  ASSUME TtyIInv, ~tyispoilt, NEW ch \in TyChar, TyOrdinary(ch), tyimode = "C", ~TyFull,
         UNCHANGED <<tymodeVars, tycall>>
  PROVE  TyInGood' /\ tyechoes' \in Nat
<1>1. TyTypes /\ TyInputOK
  BY DEF TtyIInv
<1>2. tyechoes' \in Nat
  BY <1>1, TyEchoOK, TyEchoNat DEF TyTypes, TyOrdinary
<1>3. PICK C, k, N, m, a : /\ C = TyCallers(TyInOps) /\ k = tyicursor /\ N = TY_IBUFLEN
                           /\ m = TyInPromised /\ a = TyAvail
  OBVIOUS
<1>4. SoundFor(TyProc, C, tyisem) /\ m = Promises(C, tyisem) /\ m \in Nat /\ a \in Nat
  BY <1>1, <1>3, TyCounted DEF TyInputOK, TyInPromised
<1>5. k \in 0 .. N /\ N \in Nat \ {0} /\ tyihead \in 0 .. N - 1
  BY <1>1, <1>3, TyFacts DEF TyTypes
<1>6. ~(a + k >= N - 1)
  BY <1>3 DEF TyFull
<1>7. k + 1 \in 0 .. N /\ m + (k + 1) = m + k + 1
  BY <1>4, <1>5, <1>6
<1>8. tyisem' = tyisem /\ tyicursor' = k + 1 /\ tyihead' = tyihead
  BY <1>3 DEF TyOrdinary
<1>9. SoundFor(TyProc, C, tyisem') /\ Promises(C, tyisem') = m
  BY <1>4, <1>8
<1>10. /\ Promises(TyCallers(TyInOps), tyisem') + tyicursor' = TyInPromised + tyicursor + 1
       /\ tyicursor' \in 0 .. TY_IBUFLEN
  BY <1>3, <1>7, <1>8, <1>9
<1>11. TyPut(ch, FALSE) /\ tyimode' = tyimode /\ tycall' = tycall
  BY DEF TyOrdinary, tymodeVars
<1>12. /\ TyInputOK' /\ tyitail' \in 0 .. TY_IBUFLEN /\ tyispoilt' \in BOOLEAN
       /\ tyibuff' \in [0 .. TY_IBUFLEN - 1 -> TyChar]
  BY <1>3, <1>8, <1>9, <1>10, <1>11, TyInputPut
<1>13. QED
  BY <1>2, <1>3, <1>5, <1>8, <1>10, <1>12 DEF TyInGood

LEMMA TyEofOK ==
  ASSUME TtyIInv, ~tyispoilt, TyEof, UNCHANGED <<tymodeVars, tycall>>
  PROVE  TyInGood' /\ tyechoes' \in Nat
<1>1. tyechoes' \in Nat
  BY TyEchoOK, TyEchoNat DEF TyEof, TtyIInv, TyTypes
<1>2. CASE UNCHANGED tyinVars
  BY <1>1, <1>2, TyKeyKept
<1>3. CASE TyPut("^D", TRUE) /\ tyisem' = Signalled(tyisem) /\ UNCHANGED <<tyihead, tyicursor>>
  <2>1. "^D" \in TyChar
    BY DEF TyChar
  <2>2. QED
    BY <1>1, <1>3, <2>1, TyKeySignalled
<1>4. QED
  BY <1>2, <1>3 DEF TyEof

LEMMA TyCookedKeyOK ==
  ASSUME TtyIInv, ~tyispoilt, NEW ch \in TyChar, TyCookedKey(ch), UNCHANGED <<tymodeVars, tycall>>
  PROVE  TyInGood' /\ tyechoes' \in Nat
<1>1. tyechoes \in Nat /\ tyimode = "C"
  BY DEF TtyIInv, TyTypes, TyCookedKey
<1>2. CASE TyKill
  BY <1>2, TyKillOK
<1>3. CASE tyicursor > 0 /\ TyErase
  BY <1>3, TyEraseOK
<1>4. CASE UNCHANGED <<tyinVars, tyechoes>>
  BY <1>1, <1>4, TyKeyKept
<1>5. CASE TyLine(ch)
  BY <1>5, TyLineOK
<1>6. CASE TyEcho(1) /\ UNCHANGED tyinVars
  BY <1>1, <1>6, TyKeyKept, TyEchoOK
<1>7. CASE TyEof
  BY <1>7, TyEofOK
<1>8. CASE ~TyFull /\ TyOrdinary(ch)
  BY <1>1, <1>8, TyOrdinaryOK
<1>9. QED
  BY <1>2, <1>3, <1>4, <1>5, <1>6, <1>7, <1>8 DEF TyCookedKey

LEMMA ttyhandleinOK ==
  ASSUME TtyIInv, NEW key \in TyKeys, ttyhandle_in(key)
  PROVE  TtyIInv'
<1>1. PICK ch : ch = TyMapped(key)
  OBVIOUS
<1>2. key \in TyChar /\ ch \in TyChar
  <2>1. key \in TyChar
    BY TyFacts
  <2>2. "\n" \in TyChar
    BY DEF TyChar
  <2>3. ch = key \/ ch = "\n"
    BY <1>1 DEF TyMapped
  <2>4. QED
    BY <2>1, <2>2, <2>3
<1>3. /\ ~tyispoilt /\ UNCHANGED <<tymodeVars, tyoutVars, tycall, tybusy>>
      /\ TyRawKey(key) \/ TyFlowKey(ch) \/ TyCbreakKey(ch) \/ TyCookedKey(ch)
  BY <1>1 DEF ttyhandle_in
<1>4. UNCHANGED <<tymodeVars, tycall>> /\ UNCHANGED tyoutVars /\ UNCHANGED tycall
  BY <1>3
<1>5. TyInGood' /\ tyechoes' \in Nat
  <2>1. CASE TyRawKey(key)
    BY <1>2, <1>3, <1>4, <2>1, TyRawKeyOK
  <2>2. CASE TyFlowKey(ch)
    <3>1. UNCHANGED <<tyinVars, tyechoes>>
      BY <2>2 DEF TyFlowKey
    <3>2. tyechoes \in Nat
      BY DEF TtyIInv, TyTypes
    <3>3. QED
      BY <1>4, <3>1, <3>2, TyKeyKept
  <2>3. CASE TyCbreakKey(ch)
    BY <1>2, <1>3, <1>4, <2>3, TyCbreakKeyOK
  <2>4. CASE TyCookedKey(ch)
    BY <1>2, <1>3, <1>4, <2>4, TyCookedKeyOK
  <2>5. QED
    BY <1>3, <2>1, <2>2, <2>3, <2>4
<1>6. TyTypes'
  BY <1>4, <1>5 DEF TyInGood, TtyIInv, TyTypes, tyoutVars
<1>7. TyCallers(TyOutOps)' = TyCallers(TyOutOps)
  BY <1>4 DEF TyCallers
<1>8. TyOutputOK'
  BY <1>4, <1>7, TyOutputSame DEF TtyIInv
<1>9. QED
  BY <1>5, <1>6, <1>8 DEF TtyIInv, TyInGood

-----------------------------------------------------------------------------
(* The serial line: the transmitter.                                       *)

LEMMA ttyhandleoutOK ==
  ASSUME TtyIInv, ttyhandle_out
  PROVE  TtyIInv' /\ TyInPromised' = TyInPromised
<1>1. TyTypes /\ TyInputOK /\ TyOutputOK
  BY DEF TtyIInv
<1>2. PICK F, O, e, u, r, D, h : /\ F = UART_FIFO_SIZE /\ O = TY_OBUFLEN /\ e = tyechoes
                                 /\ u = TyUnsent /\ r = tyosem.count /\ D = TyCallers(TyOutOps)
                                 /\ h = tyohead
  OBVIOUS
<1>3. /\ F \in Nat \ {0} /\ O \in Nat \ {0} /\ e \in Nat /\ r \in Int /\ h \in 0 .. O - 1
      /\ u = O - TyOutPromised /\ TyOutPromised \in Nat
  BY <1>1, <1>2, TyFacts, TyCounted DEF TyTypes
<1>4. PICK echo : echo = Min({F, e})
  OBVIOUS
<1>5. PICK avail : avail = Max({0, O - r})
  OBVIOUS
<1>6. PICK out : out = Min({F - echo, avail})
  OBVIOUS
<1>7. echo \in Nat /\ echo <= e /\ echo <= F
  <2>1. F \in Int /\ e \in Int
    BY <1>3
  <2>2. Min({F, e}) = IF F <= e THEN F ELSE e
    BY <2>1, TyMinMax
  <2>3. QED
    BY <1>3, <1>4, <2>2
<1>8. avail \in Nat
  <2>1. 0 \in Int /\ O - r \in Int
    BY <1>3
  <2>2. avail = IF 0 >= O - r THEN 0 ELSE O - r
    BY <1>5, <2>1, TyMinMax
  <2>3. QED
    BY <2>1, <2>2
<1>9. out \in Nat
  <2>1. F - echo \in Int /\ avail \in Int /\ F - echo >= 0
    BY <1>3, <1>7, <1>8
  <2>2. out = IF F - echo <= avail THEN F - echo ELSE avail
    BY <1>6, <2>1, TyMinMax
  <2>3. QED
    BY <1>8, <2>1, <2>2
<1>10. /\ UNCHANGED tyinVars /\ UNCHANGED tymodeVars /\ UNCHANGED tycall /\ ~tyoextra
       /\ \/ UNCHANGED <<tyechoes, tyoutVars>>
          \/ /\ tyechoes' = e - echo
             /\ tyohead' = TyMod(h + out, O)
             /\ tyosem' = SignalledN(tyosem, TyFreed(echo, out))
             /\ tyoextra' = (tyoextra \/ out > u)
             /\ UNCHANGED tyotail
  BY <1>2, <1>4, <1>5, <1>6 DEF ttyhandle_out
<1>11. TyCallers(TyInOps)' = TyCallers(TyInOps) /\ TyCallers(TyOutOps)' = D
  BY <1>2, <1>10 DEF TyCallers
<1>12. TyInputOK' /\ TyInPromised' = TyInPromised
  BY <1>1, <1>10, <1>11, TyInputSame DEF tymodeVars
<1>13. CASE UNCHANGED <<tyechoes, tyoutVars>>
  <2>1. TyOutputOK'
    BY <1>1, <1>2, <1>11, <1>13, TyOutputSame
  <2>2. TyTypes'
    BY <1>1, <1>10, <1>13 DEF TyTypes, tyinVars, tyoutVars
  <2>3. QED
    BY <1>12, <2>1, <2>2 DEF TtyIInv
<1>14. CASE /\ tyechoes' = e - echo
            /\ tyohead' = TyMod(h + out, O)
            /\ tyosem' = SignalledN(tyosem, TyFreed(echo, out))
            /\ tyoextra' = (tyoextra \/ out > u)
            /\ UNCHANGED tyotail
  <2>1. tyechoes' \in Nat
    BY <1>3, <1>7, <1>14
  <2>2. tyohead' \in 0 .. O - 1
    <3>1. PICK z : z = h + out
      OBVIOUS
    <3>2. z \in Nat
      BY <1>3, <1>9, <3>1
    <3>3. z % O \in 0 .. O - 1
      BY <1>3, <3>2
    <3>4. QED
      BY <1>14, <3>1, <3>3 DEF TyMod
  <2>3. TyTypes'
    BY <1>1, <1>2, <1>10, <1>14, <2>1, <2>2 DEF TyTypes, tyinVars
  <2>4. SoundFor(TyProc, D, tyosem) /\ Promises(D, tyosem) = TyOutPromised
    BY <1>1, <1>2 DEF TyOutputOK, TyOutPromised
  <2>5. tyosem' = SignalledN(tyosem, out)
    BY <1>14 DEF TyFreed
  <2>6. SoundFor(TyProc, D, tyosem') /\ Promises(D, tyosem') = TyOutPromised + out
    BY <1>9, <2>4, <2>5, PromisesSignalledN
  <2>7. TyOutPromised' = TyOutPromised + out
    BY <1>11, <2>6 DEF TyOutPromised
  <2>8. ASSUME ~tyoextra'
        PROVE  /\ TyOutPromised' <= TY_OBUFLEN
               /\ tyotail' = RingTurn(TY_OBUFLEN, tyohead', TY_OBUFLEN - TyOutPromised')
    <3>1. out <= u
      <4>1. ~(out > u)
        BY <1>14, <2>8
      <4>2. QED
        BY <1>3, <1>9, <4>1
    <3>2. tyotail = RingTurn(O, h, u) /\ TyOutPromised <= O
      BY <1>1, <1>2, <1>3, <1>10 DEF TyOutputOK
    <3>3. PICK v : v = TyOutPromised
      OBVIOUS
    <3>4. v \in Nat /\ u = O - v /\ out <= u /\ O \in Nat
      BY <1>3, <3>1, <3>3
    <3>5. v + out <= O /\ O - (v + out) = u - out /\ u - out \in Nat /\ out + (u - out) = u /\ u <= O
      BY <1>9, <3>4
    <3>6. tyohead' = RingTurn(O, h, out)
      BY <1>14 DEF TyMod, RingTurn
    <3>7. RingTurn(O, RingTurn(O, h, out), u - out) = RingTurn(O, h, out + (u - out))
      <4>1. PICK w : w = u - out
        OBVIOUS
      <4>2. w \in Nat /\ out + w <= O
        BY <3>5, <4>1
      <4>3. RingTurn(O, RingTurn(O, h, out), w) = RingTurn(O, h, out + w)
        BY <1>3, <1>9, <4>2, RingTurns
      <4>4. QED
        BY <4>1, <4>3
    <3>8. tyotail' = RingTurn(O, tyohead', u - out)
      BY <1>14, <3>2, <3>5, <3>6, <3>7
    <3>9. QED
      BY <1>2, <2>7, <3>3, <3>5, <3>8
  <2>9. TyOutputOK'
    BY <1>11, <2>6, <2>8 DEF TyOutputOK
  <2>10. QED
    BY <1>12, <2>3, <2>9 DEF TtyIInv
<1>15. QED
  BY <1>10, <1>13, <1>14

-----------------------------------------------------------------------------
(* The serial line: calls.                                                 *)

\* p goes on to c, of which ops does not count.
LEMMA TyCallersKept ==
  ASSUME TtyIInv, NEW p \in TyProc, NEW c, tycall' = [tycall EXCEPT ![p] = c],
         NEW ops, p \notin TyCallers(ops), ~(c.op \in ops /\ c.got = 1)
  PROVE  TyCallers(ops)' = TyCallers(ops)
<1>1. tycall \in [TyProc -> TyCallOf]
  BY DEF TtyIInv, TyTypes
<1>2. \A q : q \in TyCallers(ops)' <=>
         (q \in TyCallers(ops) /\ q # p) \/ (q = p /\ c.op \in ops /\ c.got = 1)
  BY <1>1, TyCallersNext
<1>3. \A q : q \in TyCallers(ops)' <=> q \in TyCallers(ops)
  BY <1>2
<1>4. QED
  BY <1>3

\* One call changes, and nothing the processes share.
LEMMA TyCallOK ==
  ASSUME TtyIInv, NEW p \in TyProc, NEW c \in TyCallOf, tycall' = [tycall EXCEPT ![p] = c],
         p \notin TyCallers(TyInOps), p \notin TyCallers(TyOutOps), c.got = 0,
         UNCHANGED tyinVars, UNCHANGED tymodeVars, UNCHANGED tyoutVars, UNCHANGED tyechoes
  PROVE  TtyIInv' /\ TyInPromised' = TyInPromised
<1>1. TyTypes /\ TyInputOK /\ TyOutputOK
  BY DEF TtyIInv
<1>2. TyCallers(TyInOps)' = TyCallers(TyInOps) /\ TyCallers(TyOutOps)' = TyCallers(TyOutOps)
  <2>1. \A ops : ~(c.op \in ops /\ c.got = 1)
    OBVIOUS
  <2>2. TyCallers(TyInOps)' = TyCallers(TyInOps)
    BY <2>1, TyCallersKept
  <2>3. TyCallers(TyOutOps)' = TyCallers(TyOutOps)
    BY <2>1, TyCallersKept
  <2>4. QED
    BY <2>2, <2>3
<1>3. TyInputOK' /\ TyInPromised' = TyInPromised /\ TyOutputOK'
  BY <1>1, <1>2, TyInputSame, TyOutputSame DEF tymodeVars
<1>4. tycall' \in [TyProc -> TyCallOf]
  BY <1>1 DEF TyTypes
<1>5. TyTypes'
  BY <1>1, <1>4 DEF TyTypes, tyinVars, tyoutVars
<1>6. QED
  BY <1>3, <1>5 DEF TtyIInv

LEMMA TyEnterOK ==
  ASSUME TtyIInv, NEW p \in TyProc, NEW op \in TyInOps \cup TyOutOps, NEW n \in Int, TyEnter(p, op, n)
  PROVE  TtyIInv' /\ TyInPromised' = TyInPromised
<1>1. PICK c : c = [op |-> op, left |-> n, got |-> 0]
  OBVIOUS
<1>2. c \in TyCallOf /\ c.got = 0
  BY <1>1 DEF TyCallOf
<1>3. tycall' = [tycall EXCEPT ![p] = c]
  BY <1>1 DEF TyEnter, TyGo
<1>4. p \notin TyCallers(TyInOps) /\ p \notin TyCallers(TyOutOps)
  BY DEF TyEnter, TyIdle, TyCallers
<1>5. UNCHANGED tyinVars /\ UNCHANGED tymodeVars /\ UNCHANGED tyoutVars /\ UNCHANGED tyechoes
  BY DEF TyEnter
<1>6. QED
  BY <1>2, <1>3, <1>4, <1>5, TyCallOK

LEMMA ttyreadOK ==
  ASSUME TtyIInv, NEW p \in TyReader, NEW count \in TyCounts, ttyread(p, count)
  PROVE  TtyIInv' /\ TyInPromised' = TyInPromised
<1>1. p \in TyProc /\ count \in Int /\ tyisem.count \in Int
  BY TyFacts, TyCounted
<1>2. "line" \in TyInOps \cup TyOutOps /\ "read" \in TyInOps \cup TyOutOps
  BY DEF TyInOps
<1>3. TyEnter(p, "line", count) \/ TyEnter(p, "read", count) \/ TyEnter(p, "read", tyisem.count)
  BY DEF ttyread
<1>4. QED
  BY <1>1, <1>2, <1>3, TyEnterOK

LEMMA ttywriteOK ==
  ASSUME TtyIInv, NEW p \in TyWriter, NEW count \in TyCounts, ttywrite(p, count)
  PROVE  TtyIInv' /\ TyInPromised' = TyInPromised
<1>1. p \in TyProc /\ count \in Int
  BY TyFacts
<1>2. "write" \in TyInOps \cup TyOutOps
  BY DEF TyOutOps
<1>3. TyEnter(p, "write", count)
  BY DEF ttywrite
<1>4. QED
  BY <1>1, <1>2, <1>3, TyEnterOK

\* The call of one who has called wait.
LEMMA TyGot ==
  ASSUME TtyIInv, NEW p \in TyProc, NEW c, c = [tycall[p] EXCEPT !.got = 1]
  PROVE  c \in TyCallOf /\ c.op = tycall[p].op /\ c.got = 1
<1>1. tycall[p] \in TyCallOf
  BY DEF TtyIInv, TyTypes
<1>2. PICK d : d = tycall[p]
  OBVIOUS
<1>3. d \in TyCallOf /\ c = [d EXCEPT !.got = 1]
  BY <1>1, <1>2
<1>4. c = [op |-> d.op, left |-> d.left, got |-> 1]
  BY <1>3 DEF TyCallOf
<1>5. QED
  BY <1>2, <1>3, <1>4 DEF TyCallOf

LEMMA ttygetcWaitOK ==
  ASSUME TtyIInv, NEW p \in TyProc, ttygetcWait(p)
  PROVE  TtyIInv' /\ TyInPromised' = TyInPromised
<1>1. TyTypes /\ TyInputOK /\ TyOutputOK
  BY DEF TtyIInv
<1>2. PICK c, C : c = [tycall[p] EXCEPT !.got = 1] /\ C = TyCallers(TyInOps)
  OBVIOUS
<1>3. /\ tycall[p].op \in TyInOps /\ tycall[p].got = 0
      /\ tyisem' = Waited(tyisem, p) /\ tycall' = [tycall EXCEPT ![p] = c]
  BY <1>2 DEF ttygetcWait, TyWait, TyGo, TyInOps
<1>4. /\ UNCHANGED tymodeVars /\ UNCHANGED tyoutVars /\ UNCHANGED tyechoes
      /\ UNCHANGED <<tyihead, tyitail, tyibuff, tyicursor, tyispoilt>>
  BY DEF ttygetcWait
<1>5. c \in TyCallOf /\ c.op = tycall[p].op /\ c.got = 1
  BY <1>2, TyGot
<1>6. p \notin C /\ p \notin TyCallers(TyOutOps)
  BY <1>2, <1>3 DEF TyCallers
<1>7. TyCallers(TyInOps)' = C \cup {p}
  <2>1. tycall \in [TyProc -> TyCallOf]
    BY <1>1 DEF TyTypes
  <2>2. \A q : q \in TyCallers(TyInOps)' <=>
          (q \in TyCallers(TyInOps) /\ q # p) \/ (q = p /\ c.op \in TyInOps /\ c.got = 1)
    BY <1>3, <2>1, TyCallersNext
  <2>3. c.op \in TyInOps /\ c.got = 1
    BY <1>3, <1>5
  <2>4. \A q : q \in TyCallers(TyInOps)' <=> q \in C \cup {p}
    BY <1>2, <1>6, <2>2, <2>3
  <2>5. QED
    BY <2>4
<1>8. TyCallers(TyOutOps)' = TyCallers(TyOutOps)
  <2>1. ~(c.op \in TyOutOps)
    BY <1>3, <1>5 DEF TyInOps, TyOutOps
  <2>2. QED
    BY <1>3, <1>6, <2>1, TyCallersKept
<1>9. TyOutputOK'
  BY <1>1, <1>4, <1>8, TyOutputSame
<1>10. SoundFor(TyProc, C, tyisem)
  BY <1>1, <1>2 DEF TyInputOK
<1>11. /\ SoundFor(TyProc, C \cup {p}, tyisem')
       /\ Promises(C \cup {p}, tyisem') = Promises(C, tyisem)
  BY <1>3, <1>6, <1>10, PromisesWaited
<1>12. TyInPromised' = TyInPromised
  BY <1>2, <1>7, <1>11 DEF TyInPromised
<1>13. TyInputOK'
  BY <1>1, <1>4, <1>7, <1>11, <1>12 DEF TyInputOK, tymodeVars
<1>14. TyTypes'
  BY <1>1, <1>3, <1>4, <1>5 DEF TyTypes, tyoutVars
<1>15. QED
  BY <1>9, <1>12, <1>13, <1>14 DEF TtyIInv

LEMMA ttyputcWaitOK ==
  ASSUME TtyIInv, NEW p \in TyProc, ttyputcWait(p)
  PROVE  TtyIInv' /\ TyInPromised' = TyInPromised
<1>1. TyTypes /\ TyInputOK /\ TyOutputOK
  BY DEF TtyIInv
<1>2. PICK c, C : c = [tycall[p] EXCEPT !.got = 1] /\ C = TyCallers(TyOutOps)
  OBVIOUS
<1>3. /\ tycall[p].op \in TyOutOps /\ tycall[p].got = 0
      /\ tyosem' = Waited(tyosem, p) /\ tycall' = [tycall EXCEPT ![p] = c]
  BY <1>2 DEF ttyputcWait, TyWait, TyGo, TyOutOps
<1>4. /\ UNCHANGED tymodeVars /\ UNCHANGED tyinVars /\ UNCHANGED tyechoes
      /\ UNCHANGED <<tyohead, tyotail, tyoextra>>
  BY DEF ttyputcWait
<1>5. c \in TyCallOf /\ c.op = tycall[p].op /\ c.got = 1
  BY <1>2, TyGot
<1>6. p \notin C /\ p \notin TyCallers(TyInOps)
  BY <1>2, <1>3 DEF TyCallers
<1>7. TyCallers(TyOutOps)' = C \cup {p}
  <2>1. tycall \in [TyProc -> TyCallOf]
    BY <1>1 DEF TyTypes
  <2>2. \A q : q \in TyCallers(TyOutOps)' <=>
          (q \in TyCallers(TyOutOps) /\ q # p) \/ (q = p /\ c.op \in TyOutOps /\ c.got = 1)
    BY <1>3, <2>1, TyCallersNext
  <2>3. c.op \in TyOutOps /\ c.got = 1
    BY <1>3, <1>5
  <2>4. \A q : q \in TyCallers(TyOutOps)' <=> q \in C \cup {p}
    BY <1>2, <1>6, <2>2, <2>3
  <2>5. QED
    BY <2>4
<1>8. TyCallers(TyInOps)' = TyCallers(TyInOps)
  <2>1. ~(c.op \in TyInOps)
    BY <1>3, <1>5 DEF TyInOps, TyOutOps
  <2>2. QED
    BY <1>3, <1>6, <2>1, TyCallersKept
<1>9. TyInputOK' /\ TyInPromised' = TyInPromised
  BY <1>1, <1>4, <1>8, TyInputSame DEF tymodeVars
<1>10. SoundFor(TyProc, C, tyosem)
  BY <1>1, <1>2 DEF TyOutputOK
<1>11. /\ SoundFor(TyProc, C \cup {p}, tyosem')
       /\ Promises(C \cup {p}, tyosem') = Promises(C, tyosem)
  BY <1>3, <1>6, <1>10, PromisesWaited
<1>12. TyOutPromised' = TyOutPromised
  BY <1>2, <1>7, <1>11 DEF TyOutPromised
<1>13. TyOutputOK'
  BY <1>1, <1>4, <1>7, <1>11, <1>12 DEF TyOutputOK
<1>14. TyTypes'
  BY <1>1, <1>3, <1>4, <1>5 DEF TyTypes, tyinVars
<1>15. QED
  BY <1>9, <1>13, <1>14 DEF TtyIInv
\* On to the next character, or back to the caller.
LEMMA TyNextCall ==
  ASSUME TtyIInv, NEW p \in TyProc, NEW more, TyNext(p, more)
  PROVE  \E c \in TyCallOf : c.got = 0 /\ tycall' = [tycall EXCEPT ![p] = c]
<1>1. PICK d : d = tycall[p]
  OBVIOUS
<1>2. d \in TyCallOf
  BY <1>1 DEF TtyIInv, TyTypes
<1>3. d = [op |-> d.op, left |-> d.left, got |-> d.got] /\ d.left \in Int
  BY <1>2 DEF TyCallOf
<1>4. PICK l : l = Max({d.left - 1, 0})
  OBVIOUS
<1>5. l \in Int
  <2>1. d.left - 1 \in Int /\ 0 \in Int
    BY <1>3
  <2>2. l = IF d.left - 1 >= 0 THEN d.left - 1 ELSE 0
    BY <1>4, <2>1, TyMinMax
  <2>3. QED
    BY <2>1, <2>2
<1>6. PICK c : c = IF more THEN [d EXCEPT !.op = IF @ = "line" THEN "rest" ELSE @,
                                         !.got = 0, !.left = Max({@ - 1, 0})]
                            ELSE TyIdle
  OBVIOUS
<1>7. tycall' = [tycall EXCEPT ![p] = c]
  BY <1>1, <1>6 DEF TyNext, TyGo
<1>8. CASE more
  <2>1. PICK o : o = IF d.op = "line" THEN "rest" ELSE d.op
    OBVIOUS
  <2>2. c = [op |-> o, left |-> l, got |-> 0]
    <3>1. c = [[[d EXCEPT !.op = o] EXCEPT !.got = 0] EXCEPT !.left = l]
      BY <1>4, <1>6, <1>8, <2>1
    <3>2. QED
      BY <1>3, <3>1
  <2>3. c \in TyCallOf /\ c.got = 0
    <3>1. o \in {"idle"} \cup TyInOps \cup TyOutOps
      BY <1>2, <2>1 DEF TyCallOf, TyInOps
    <3>2. QED
      BY <1>5, <2>2, <3>1 DEF TyCallOf
  <2>4. QED
    BY <1>7, <2>3
<1>9. CASE ~more
  <2>1. c = [op |-> "idle", left |-> 0, got |-> 0]
    BY <1>6, <1>9 DEF TyIdle
  <2>2. c \in TyCallOf /\ c.got = 0
    BY <2>1 DEF TyCallOf
  <2>3. QED
    BY <1>7, <2>2
<1>10. QED
  BY <1>8, <1>9

\* p, that was admitted, goes on to c and is no more counted.
LEMMA TyCallersLess ==
  ASSUME TtyIInv, NEW p \in TyProc, NEW c, c.got = 0, tycall' = [tycall EXCEPT ![p] = c],
         NEW ops
  PROVE  TyCallers(ops)' = TyCallers(ops) \ {p}
<1>1. tycall \in [TyProc -> TyCallOf]
  BY DEF TtyIInv, TyTypes
<1>2. \A q : q \in TyCallers(ops)' <=>
         (q \in TyCallers(ops) /\ q # p) \/ (q = p /\ c.op \in ops /\ c.got = 1)
  BY <1>1, TyCallersNext
<1>3. \A q : q \in TyCallers(ops)' <=> q \in TyCallers(ops) \ {p}
  BY <1>2
<1>4. QED
  BY <1>3

LEMMA ttygetcOK ==
  ASSUME TtyIInv, NEW p \in TyProc, ttygetc(p)
  PROVE  /\ TtyIInv' /\ TyInPromised >= 1 /\ TyInPromised' = TyInPromised - 1
         /\ tyihead' = RingTurn(TY_IBUFLEN, tyihead, 1)
<1>1. TyTypes /\ TyInputOK /\ TyOutputOK
  BY DEF TtyIInv
<1>2. PICK C, N, h, k : C = TyCallers(TyInOps) /\ N = TY_IBUFLEN /\ h = tyihead /\ k = tyicursor
  OBVIOUS
<1>3. PICK c \in TyCallOf : c.got = 0 /\ tycall' = [tycall EXCEPT ![p] = c]
  <2>1. \E more : TyNext(p, more)
    BY DEF ttygetc
  <2>2. QED
    BY <2>1, TyNextCall
<1>4. /\ tycall[p].op \in {"read", "line", "rest"} /\ tycall[p].got = 1 /\ ~Waits(tyisem, p)
      /\ tyihead' = TyMod(h + 1, N)
      /\ UNCHANGED tymodeVars /\ UNCHANGED tyoutVars /\ UNCHANGED tyechoes
      /\ UNCHANGED <<tyitail, tyibuff, tyisem, tyicursor, tyispoilt>>
  BY <1>2 DEF ttygetc, TyContinues
<1>5. p \in C /\ p \notin TyCallers(TyOutOps)
  BY <1>2, <1>4 DEF TyCallers, TyInOps, TyOutOps
<1>6. TyCallers(TyInOps)' = C \ {p} /\ TyCallers(TyOutOps)' = TyCallers(TyOutOps)
  <2>1. TyCallers(TyInOps)' = C \ {p}
    BY <1>2, <1>3, TyCallersLess
  <2>2. TyCallers(TyOutOps)' = TyCallers(TyOutOps) \ {p}
    BY <1>3, TyCallersLess
  <2>3. QED
    BY <1>5, <2>1, <2>2
<1>7. TyOutputOK'
  BY <1>1, <1>4, <1>6, TyOutputSame
<1>8. SoundFor(TyProc, C, tyisem)
  BY <1>1, <1>2 DEF TyInputOK
<1>9. /\ SoundFor(TyProc, C \ {p}, tyisem)
      /\ Promises(C \ {p}, tyisem) = Promises(C, tyisem) - 1
      /\ Promises(C, tyisem) >= 1 /\ Promises(C, tyisem) \in Nat
  <2>1. p \in C /\ ~Waits(tyisem, p)
    BY <1>4, <1>5
  <2>2. /\ SoundFor(TyProc, C \ {p}, tyisem)
        /\ Promises(C \ {p}, tyisem) = Promises(C, tyisem) - 1
        /\ Promises(C, tyisem) >= 1
    BY <1>8, <2>1, PromisesKept
  <2>3. Promises(C, tyisem) \in Nat
    BY <1>8, PromisesSum
  <2>4. QED
    BY <2>2, <2>3
<1>10. PICK m : m = TyInPromised
  OBVIOUS
<1>11. m \in Nat /\ m >= 1 /\ TyInPromised' = m - 1 /\ SoundFor(TyProc, C \ {p}, tyisem')
  BY <1>2, <1>4, <1>6, <1>9, <1>10 DEF TyInPromised
<1>12. N \in Nat \ {0} /\ h \in 0 .. N - 1 /\ k \in 0 .. N
  BY <1>1, <1>2, TyFacts DEF TyTypes
<1>13. tyihead' = RingTurn(N, h, 1) /\ tyihead' \in 0 .. N - 1
  <2>1. 1 \in 0 .. N
    BY <1>12
  <2>2. RingTurn(N, h, 1) \in 0 .. N - 1
    BY <1>12, <2>1, RingTurns
  <2>3. QED
    BY <1>4, <2>2 DEF TyMod, RingTurn
<1>14. ASSUME ~tyispoilt'
       PROVE  /\ tyitail' # TY_IBUFLEN
              /\ TyInPromised' + tyicursor' <= TY_IBUFLEN
              /\ tyitail' = RingTurn(TY_IBUFLEN, tyihead', TyInPromised' + tyicursor')
              /\ tyimode' # "C" => tyicursor' = 0
  <2>1. /\ tyitail # N /\ m + k <= N /\ tyitail = RingTurn(N, h, m + k)
        /\ tyimode # "C" => k = 0
    BY <1>1, <1>2, <1>4, <1>10, <1>14 DEF TyInputOK
  <2>2. PICK j : j = m + k
    OBVIOUS
  <2>3. j \in Nat \ {0} /\ j <= N /\ m - 1 + k = j - 1 /\ m - 1 + k <= N
    BY <1>11, <1>12, <2>1, <2>2
  <2>4. RingTurn(N, RingTurn(N, h, 1), j - 1) = RingTurn(N, h, j)
    BY <1>12, <2>3, RingFirst
  <2>5. tyitail = RingTurn(N, tyihead', m - 1 + k)
    BY <1>13, <2>1, <2>2, <2>3, <2>4
  <2>6. UNCHANGED tyitail /\ UNCHANGED tyicursor /\ tyimode' = tyimode
    BY <1>4 DEF tymodeVars
  <2>7. QED
    BY <1>2, <1>11, <2>1, <2>3, <2>5, <2>6
<1>15. TyInputOK'
  BY <1>6, <1>11, <1>14 DEF TyInputOK
<1>16. TyTypes'
  BY <1>1, <1>2, <1>3, <1>4, <1>13 DEF TyTypes, tyoutVars
<1>17. QED
  BY <1>2, <1>7, <1>10, <1>11, <1>13, <1>15, <1>16 DEF TtyIInv

LEMMA ttyputcOK ==
  ASSUME TtyIInv, NEW p \in TyProc, ttyputc(p)
  PROVE  TtyIInv' /\ TyInPromised' = TyInPromised
<1>1. TyTypes /\ TyInputOK /\ TyOutputOK
  BY DEF TtyIInv
<1>2. PICK C, O, h, t : C = TyCallers(TyOutOps) /\ O = TY_OBUFLEN /\ h = tyohead /\ t = tyotail
  OBVIOUS
<1>3. PICK c \in TyCallOf : c.got = 0 /\ tycall' = [tycall EXCEPT ![p] = c]
  <2>1. \E more : TyNext(p, more)
    BY DEF ttyputc
  <2>2. QED
    BY <2>1, TyNextCall
<1>4. /\ tycall[p].op \in {"write"} /\ tycall[p].got = 1 /\ ~Waits(tyosem, p)
      /\ tyotail' = TyMod(t + 1, O)
      /\ UNCHANGED tymodeVars /\ UNCHANGED tyinVars /\ UNCHANGED tyechoes
      /\ UNCHANGED <<tyohead, tyosem, tyoextra>>
  BY <1>2 DEF ttyputc, TyContinues
<1>5. p \in C /\ p \notin TyCallers(TyInOps)
  BY <1>2, <1>4 DEF TyCallers, TyInOps, TyOutOps
<1>6. TyCallers(TyOutOps)' = C \ {p} /\ TyCallers(TyInOps)' = TyCallers(TyInOps)
  <2>1. TyCallers(TyOutOps)' = C \ {p}
    BY <1>2, <1>3, TyCallersLess
  <2>2. TyCallers(TyInOps)' = TyCallers(TyInOps) \ {p}
    BY <1>3, TyCallersLess
  <2>3. QED
    BY <1>5, <2>1, <2>2
<1>7. TyInputOK' /\ TyInPromised' = TyInPromised
  BY <1>1, <1>4, <1>6, TyInputSame DEF tymodeVars
<1>8. SoundFor(TyProc, C, tyosem)
  BY <1>1, <1>2 DEF TyOutputOK
<1>9. /\ SoundFor(TyProc, C \ {p}, tyosem)
      /\ Promises(C \ {p}, tyosem) = Promises(C, tyosem) - 1
      /\ Promises(C, tyosem) >= 1 /\ Promises(C, tyosem) \in Nat
  <2>1. p \in C /\ ~Waits(tyosem, p)
    BY <1>4, <1>5
  <2>2. /\ SoundFor(TyProc, C \ {p}, tyosem)
        /\ Promises(C \ {p}, tyosem) = Promises(C, tyosem) - 1
        /\ Promises(C, tyosem) >= 1
    BY <1>8, <2>1, PromisesKept
  <2>3. Promises(C, tyosem) \in Nat
    BY <1>8, PromisesSum
  <2>4. QED
    BY <2>2, <2>3
<1>10. PICK m : m = TyOutPromised
  OBVIOUS
<1>11. m \in Nat /\ m >= 1 /\ TyOutPromised' = m - 1 /\ SoundFor(TyProc, C \ {p}, tyosem')
  BY <1>2, <1>4, <1>6, <1>9, <1>10 DEF TyOutPromised
<1>12. O \in Nat \ {0} /\ h \in 0 .. O - 1 /\ t \in 0 .. O - 1
  BY <1>1, <1>2, TyFacts DEF TyTypes
<1>13. tyotail' = RingTurn(O, t, 1) /\ tyotail' \in 0 .. O - 1
  <2>1. 1 \in 0 .. O
    BY <1>12
  <2>2. RingTurn(O, t, 1) \in 0 .. O - 1
    BY <1>12, <2>1, RingTurns
  <2>3. QED
    BY <1>4, <2>2 DEF TyMod, RingTurn
<1>14. ASSUME ~tyoextra'
       PROVE  /\ TyOutPromised' <= TY_OBUFLEN
              /\ tyotail' = RingTurn(TY_OBUFLEN, tyohead', TY_OBUFLEN - TyOutPromised')
  <2>1. m <= O /\ t = RingTurn(O, h, O - m)
    BY <1>1, <1>2, <1>4, <1>10, <1>14 DEF TyOutputOK
  <2>2. PICK j : j = O - m
    OBVIOUS
  <2>3. j \in Nat /\ j < O /\ O - (m - 1) = j + 1 /\ m - 1 <= O
    BY <1>11, <1>12, <2>1, <2>2
  <2>4. RingTurn(O, RingTurn(O, h, j), 1) = RingTurn(O, h, j + 1)
    BY <1>12, <2>3, RingNext
  <2>5. tyotail' = RingTurn(O, h, O - (m - 1))
    BY <1>13, <2>1, <2>2, <2>3, <2>4
  <2>6. tyohead' = h
    BY <1>2, <1>4
  <2>7. QED
    BY <1>2, <1>11, <2>3, <2>5, <2>6
<1>15. TyOutputOK'
  BY <1>6, <1>11, <1>14 DEF TyOutputOK
<1>16. TyTypes'
  BY <1>1, <1>2, <1>3, <1>4, <1>13 DEF TyTypes, tyinVars
<1>17. QED
  BY <1>7, <1>15, <1>16 DEF TtyIInv

LEMMA ttynextcOK ==
  ASSUME TtyIInv, NEW p \in TyProc, ttynextc(p)
  PROVE  TtyIInv' /\ TyInPromised' = TyInPromised
<1>1. TyTypes /\ TyInputOK /\ TyOutputOK
  BY DEF TtyIInv
<1>2. PICK C : C = TyCallers(TyInOps)
  OBVIOUS
<1>3. PICK c \in TyCallOf : c.got = 0 /\ tycall' = [tycall EXCEPT ![p] = c]
  <2>1. \E more : TyNext(p, more)
    BY DEF ttynextc
  <2>2. QED
    BY <2>1, TyNextCall
<1>4. /\ tycall[p].op \in {"nextc"} /\ tycall[p].got = 1 /\ ~Waits(tyisem, p)
      /\ tyisem' = Signalled(tyisem)
      /\ UNCHANGED tymodeVars /\ UNCHANGED tyoutVars /\ UNCHANGED tyechoes
      /\ UNCHANGED <<tyihead, tyitail, tyibuff, tyicursor, tyispoilt>>
  BY DEF ttynextc, TyContinues
<1>5. p \in C /\ p \notin TyCallers(TyOutOps)
  BY <1>2, <1>4 DEF TyCallers, TyInOps, TyOutOps
<1>6. TyCallers(TyInOps)' = C \ {p} /\ TyCallers(TyOutOps)' = TyCallers(TyOutOps)
  <2>1. TyCallers(TyInOps)' = C \ {p}
    BY <1>2, <1>3, TyCallersLess
  <2>2. TyCallers(TyOutOps)' = TyCallers(TyOutOps) \ {p}
    BY <1>3, TyCallersLess
  <2>3. QED
    BY <1>5, <2>1, <2>2
<1>7. TyOutputOK'
  BY <1>1, <1>4, <1>6, TyOutputSame
<1>8. SoundFor(TyProc, C, tyisem)
  BY <1>1, <1>2 DEF TyInputOK
<1>9. /\ SoundFor(TyProc, C \ {p}, tyisem)
      /\ Promises(C \ {p}, tyisem) = Promises(C, tyisem) - 1
      /\ Promises(C, tyisem) >= 1 /\ Promises(C, tyisem) \in Nat
  <2>1. p \in C /\ ~Waits(tyisem, p)
    BY <1>4, <1>5
  <2>2. /\ SoundFor(TyProc, C \ {p}, tyisem)
        /\ Promises(C \ {p}, tyisem) = Promises(C, tyisem) - 1
        /\ Promises(C, tyisem) >= 1
    BY <1>8, <2>1, PromisesKept
  <2>3. Promises(C, tyisem) \in Nat
    BY <1>8, PromisesSum
  <2>4. QED
    BY <2>2, <2>3
<1>10. /\ SoundFor(TyProc, C \ {p}, tyisem')
       /\ Promises(C \ {p}, tyisem') = Promises(C \ {p}, tyisem) + 1
  BY <1>4, <1>9, PromisesSignalled
<1>11. Promises(C \ {p}, tyisem') = Promises(C, tyisem)
  BY <1>9, <1>10
<1>12. TyInPromised' = TyInPromised
  BY <1>2, <1>6, <1>11 DEF TyInPromised
<1>13. TyInputOK'
  BY <1>1, <1>4, <1>6, <1>10, <1>12 DEF TyInputOK, tymodeVars
<1>14. TyTypes'
  BY <1>1, <1>3, <1>4 DEF TyTypes, tyoutVars
<1>15. QED
  BY <1>7, <1>12, <1>13, <1>14 DEF TtyIInv

LEMMA ttycontrolOK ==
  ASSUME TtyIInv, ttycontrol
  PROVE  TtyIInv' /\ TyInPromised' = TyInPromised
<1>1. TyTypes /\ TyInputOK /\ TyOutputOK
  BY DEF TtyIInv
<1>2. /\ UNCHANGED tyoutVars /\ UNCHANGED tyechoes /\ UNCHANGED tycall
      /\ UNCHANGED <<tyihead, tyitail, tyibuff, tyisem, tyicursor>>
      /\ \/ tyispoilt' = (tyispoilt \/ tyicursor > 0)
         \/ UNCHANGED <<tyimode, tyispoilt>>
  BY DEF ttycontrol
<1>3. TyCallers(TyInOps)' = TyCallers(TyInOps) /\ TyCallers(TyOutOps)' = TyCallers(TyOutOps)
  BY <1>2 DEF TyCallers
<1>4. TyOutputOK'
  BY <1>1, <1>2, <1>3, TyOutputSame
<1>5. tyispoilt' \in BOOLEAN
  BY <1>1, <1>2 DEF TyTypes
<1>6. TyInPromised' = TyInPromised
  BY <1>2, <1>3 DEF TyInPromised
<1>7. SoundFor(TyProc, TyCallers(TyInOps)', tyisem')
  BY <1>1, <1>2, <1>3 DEF TyInputOK
<1>8. ASSUME ~tyispoilt'
      PROVE  ~tyispoilt /\ (tyimode' # "C" => tyicursor = 0)
  <2>1. CASE tyispoilt' = (tyispoilt \/ tyicursor > 0)
    <3>1. ~tyispoilt /\ ~(tyicursor > 0)
      BY <1>8, <2>1
    <3>2. tyicursor \in 0 .. TY_IBUFLEN /\ TY_IBUFLEN \in Nat
      BY <1>1, TyFacts DEF TyTypes
    <3>3. QED
      BY <3>1, <3>2
  <2>2. CASE UNCHANGED <<tyimode, tyispoilt>>
    BY <1>1, <1>8, <2>2 DEF TyInputOK
  <2>3. QED
    BY <1>2, <2>1, <2>2
<1>9. TyInputOK'
  BY <1>1, <1>2, <1>6, <1>7, <1>8 DEF TyInputOK
<1>10. TyTypes'
  BY <1>1, <1>2, <1>5 DEF TyTypes, tyoutVars
<1>11. QED
  BY <1>4, <1>6, <1>9, <1>10 DEF TtyIInv

-----------------------------------------------------------------------------
(* The serial line: the theorem.                                           *)

LEMMA TtyInitOK ==
  ASSUME TtyInit
  PROVE  TtyIInv
<1>1. /\ TY_IBUFLEN \in Nat \ {0} /\ TY_OBUFLEN \in Nat \ {0}
  BY TyFacts
<1>2. 0 \in 0 .. TY_IBUFLEN - 1 /\ 0 \in 0 .. TY_OBUFLEN - 1 /\ 0 \in 0 .. TY_IBUFLEN
  BY <1>1
<1>3. TyTypes
  <2>1. tyibuff \in [0 .. TY_IBUFLEN - 1 -> TyChar]
    BY DEF TtyInit, TyChar
  <2>2. tycall \in [TyProc -> TyCallOf]
    BY DEF TtyInit, TyCallOf, TyIdle
  <2>3. QED
    BY <1>2, <2>1, <2>2 DEF TtyInit, TyTypes
<1>4. TyCallers(TyInOps) = {} /\ TyCallers(TyOutOps) = {}
  BY DEF TtyInit, TyCallers, TyIdle
<1>5. tyisem = SemCreated(0) /\ tyosem = SemCreated(TY_OBUFLEN)
  BY DEF TtyInit
<1>6. SoundFor(TyProc, {}, tyisem) /\ Promises({}, tyisem) = 0
  BY <1>5, PromisesFresh
<1>7. SoundFor(TyProc, {}, tyosem) /\ Promises({}, tyosem) = TY_OBUFLEN
  BY <1>1, <1>5, PromisesFresh
<1>8. TyInPromised = 0 /\ TyOutPromised = TY_OBUFLEN
  BY <1>4, <1>6, <1>7 DEF TyInPromised, TyOutPromised
<1>9. RingTurn(TY_IBUFLEN, 0, 0) = 0 /\ RingTurn(TY_OBUFLEN, 0, 0) = 0
  BY <1>1, <1>2, RingTurns
<1>10. /\ tyihead = 0 /\ tyitail = 0 /\ tyicursor = 0 /\ tyimode = "C"
       /\ tyohead = 0 /\ tyotail = 0
  BY DEF TtyInit
<1>11. TyInputOK
  <2>1. 0 # TY_IBUFLEN /\ 0 + 0 = 0 /\ 0 <= TY_IBUFLEN
    BY <1>1
  <2>2. QED
    BY <1>4, <1>6, <1>8, <1>9, <1>10, <2>1 DEF TyInputOK
<1>12. TyOutputOK
  <2>1. TY_OBUFLEN - TY_OBUFLEN = 0 /\ TY_OBUFLEN <= TY_OBUFLEN
    BY <1>1
  <2>2. QED
    BY <1>4, <1>7, <1>8, <1>9, <1>10, <2>1 DEF TyOutputOK
<1>13. QED
  BY <1>3, <1>11, <1>12 DEF TtyIInv

LEMMA TtyNextOK ==
  ASSUME TtyIInv, [TtyNext]_tyVars
  PROVE  TtyIInv'
<1>1. CASE TtyNext
  <2>1. CASE \E key \in TyKeys : ttyhandle_in(key)
    BY <2>1, ttyhandleinOK
  <2>2. CASE ttyhandle_out
    BY <2>2, ttyhandleoutOK
  <2>3. CASE ttycontrol
    BY <2>3, ttycontrolOK
  <2>4. CASE \E p \in TyReader : TyEnter(p, "nextc", 1)
    <3>1. PICK p \in TyReader : TyEnter(p, "nextc", 1)
      BY <2>4
    <3>2. p \in TyProc /\ "nextc" \in TyInOps \cup TyOutOps /\ 1 \in Int
      BY TyFacts DEF TyInOps
    <3>3. QED
      BY <3>1, <3>2, TyEnterOK
  <2>5. CASE \E p \in TyReader, count \in TyCounts : ttyread(p, count)
    BY <2>5, ttyreadOK
  <2>6. CASE \E p \in TyWriter, count \in TyCounts : ttywrite(p, count)
    BY <2>6, ttywriteOK
  <2>7. CASE \E p \in TyProc : TyGoOn(p)
    <3>1. PICK p \in TyProc : TyGoOn(p)
      BY <2>7
    <3>2. CASE ttygetcWait(p)
      BY <3>2, ttygetcWaitOK
    <3>3. CASE ttyputcWait(p)
      BY <3>3, ttyputcWaitOK
    <3>4. CASE ttygetc(p)
      BY <3>4, ttygetcOK
    <3>5. CASE ttyputc(p)
      BY <3>5, ttyputcOK
    <3>6. CASE ttynextc(p)
      BY <3>6, ttynextcOK
    <3>7. QED
      BY <3>1, <3>2, <3>3, <3>4, <3>5, <3>6 DEF TyGoOn
  <2>8. QED
    BY <1>1, <2>1, <2>2, <2>3, <2>4, <2>5, <2>6, <2>7 DEF TtyNext
<1>2. CASE UNCHANGED tyVars
  <2>1. /\ UNCHANGED tyinVars /\ UNCHANGED tymodeVars /\ UNCHANGED tyoutVars
        /\ UNCHANGED tyechoes /\ UNCHANGED tycall
    BY <1>2 DEF tyVars
  <2>2. TyCallers(TyInOps)' = TyCallers(TyInOps) /\ TyCallers(TyOutOps)' = TyCallers(TyOutOps)
    BY <2>1 DEF TyCallers
  <2>3. TyInputOK' /\ TyOutputOK'
    BY <2>1, <2>2, TyInputSame, TyOutputSame DEF tymodeVars, TtyIInv
  <2>4. TyTypes'
    BY <2>1 DEF TtyIInv, TyTypes, tyinVars, tyoutVars
  <2>5. QED
    BY <2>3, <2>4 DEF TtyIInv
<1>3. QED
  BY <1>1, <1>2

LEMMA TtyIInvImplies ==
  ASSUME TtyIInv
  PROVE  TtyInv
<1>1. TyTypes /\ TyInputOK /\ TyOutputOK
  BY DEF TtyIInv
<1>2. TtyTypeOK
  BY <1>1 DEF TtyTypeOK, TyTypes, TyInputOK, TyOutputOK, SoundFor
<1>3. PICK O, m, u : O = TY_OBUFLEN /\ m = TyOutPromised /\ u = TyUnsent
  OBVIOUS
<1>4. O \in Nat \ {0} /\ m \in Nat /\ u = O - m
  BY <1>3, TyFacts, TyCounted
<1>5. ASSUME ~tyoextra
      PROVE  TyUnsent \in 0 .. TY_OBUFLEN /\ tyotail = TyMod(tyohead + TyUnsent, TY_OBUFLEN)
  <2>1. m <= O /\ tyotail = RingTurn(O, tyohead, O - m)
    BY <1>1, <1>3, <1>5 DEF TyOutputOK
  <2>2. u \in 0 .. O
    BY <1>4, <2>1
  <2>3. tyotail = (tyohead + u) % O
    BY <1>4, <2>1 DEF RingTurn
  <2>4. QED
    BY <1>3, <2>2, <2>3 DEF TyMod
<1>6. OutputCounted
  BY <1>5 DEF OutputCounted
<1>7. QED
  BY <1>2, <1>6 DEF TtyInv

\* The circular buffers of the serial line stay circular, and the semaphore of the
\* output buffer counts its free places, whatever the keys, the readers, the
\* writers and the transmitter do, until a character is sent that was not written.
THEOREM OutputStaysCounted == TtySpec => []TtyInv
<1>1. TtyInit => TtyIInv
  BY TtyInitOK
<1>2. TtyIInv /\ [TtyNext]_tyVars => TtyIInv'
  BY TtyNextOK
<1>3. TtyIInv => TtyInv
  BY TtyIInvImplies
<1>4. QED
  BY <1>1, <1>2, <1>3, PTL DEF TtySpec

-----------------------------------------------------------------------------
(* The serial line: the line editor.                                       *)

\* n characters of a buffer of N places, from the place i after h on.
TyText(N, b, h, i, n) == [j \in 1 .. n |-> b[RingTurn(N, h, i + j - 1)]]

IsText(q, N, b, h, i, n) ==
    /\ q \in Seq(TyChar) /\ Len(q) = n
    /\ \A j \in 1 .. n : q[j] = b[RingTurn(N, h, i + j - 1)]

LEMMA TyTextSeq ==
  ASSUME NEW N \in Nat \ {0}, NEW b \in [0 .. N - 1 -> TyChar], NEW h \in 0 .. N - 1,
         NEW i \in Nat, NEW n \in Nat
  PROVE  IsText(TyText(N, b, h, i, n), N, b, h, i, n)
<1>1. PICK q : q = TyText(N, b, h, i, n)
  OBVIOUS
<1>2. \A x \in Nat : RingTurn(N, h, x) \in 0 .. N - 1
  <2> SUFFICES ASSUME NEW x \in Nat
               PROVE  RingTurn(N, h, x) \in 0 .. N - 1
    OBVIOUS
  <2>1. PICK y : y = h + x
    OBVIOUS
  <2>2. y \in Nat
    BY <2>1
  <2>3. y % N \in 0 .. N - 1
    BY <2>2
  <2>4. QED
    BY <2>1, <2>3 DEF RingTurn
<1>3. \A j \in 1 .. n : b[RingTurn(N, h, i + j - 1)] \in TyChar
  <2> SUFFICES ASSUME NEW j \in 1 .. n
               PROVE  b[RingTurn(N, h, i + j - 1)] \in TyChar
    OBVIOUS
  <2>1. PICK x : x = i + j - 1
    OBVIOUS
  <2>2. x \in Nat
    BY <2>1
  <2>3. PICK y \in 0 .. N - 1 : y = RingTurn(N, h, x)
    BY <1>2, <2>2
  <2>4. b[y] \in TyChar
    OBVIOUS
  <2>5. QED
    BY <2>1, <2>3, <2>4
<1>4. q = [j \in 1 .. n |-> b[RingTurn(N, h, i + j - 1)]]
  BY <1>1 DEF TyText
<1>5. q \in [1 .. n -> TyChar]
  BY <1>3, <1>4
<1>6. q \in Seq(TyChar)
  BY <1>5
<1>7. Len(q) = n
  BY <1>5
<1>8. \A j \in 1 .. n : q[j] = b[RingTurn(N, h, i + j - 1)]
  BY <1>4
<1>9. QED
  BY <1>1, <1>6, <1>7, <1>8 DEF IsText

\* A part of a text.
LEMMA TyTextPart ==
  ASSUME NEW N \in Nat \ {0}, NEW b \in [0 .. N - 1 -> TyChar], NEW h \in 0 .. N - 1,
         NEW k \in Nat, NEW i \in 0 .. k, NEW n \in i .. k
  PROVE  SubSeq(TyText(N, b, h, 0, k), i + 1, n) = TyText(N, b, h, i, n - i)
<1>1. PICK q, s, t, f, l : /\ q = TyText(N, b, h, 0, k) /\ s = TyText(N, b, h, i, n - i)
                           /\ f = i + 1 /\ l = n - i /\ t = SubSeq(q, f, n)
  OBVIOUS
<1>2. l \in Nat /\ f \in Int /\ n \in Int /\ n - f + 1 = l
  BY <1>1
<1>3. /\ q \in Seq(TyChar) /\ Len(q) = k
      /\ \A j \in 1 .. k : q[j] = b[RingTurn(N, h, 0 + j - 1)]
  <2>1. 0 \in Nat
    OBVIOUS
  <2>2. IsText(q, N, b, h, 0, k)
    BY <1>1, <2>1, TyTextSeq
  <2>3. QED
    BY <2>2 DEF IsText
<1>4. /\ s \in Seq(TyChar) /\ Len(s) = l
      /\ \A j \in 1 .. l : s[j] = b[RingTurn(N, h, i + j - 1)]
  <2>1. IsText(s, N, b, h, i, l)
    BY <1>1, <1>2, TyTextSeq
  <2>2. QED
    BY <2>1 DEF IsText
<1>5. \A x \in f .. n : q[x] \in TyChar
  <2>1. \A x \in f .. n : x \in 1 .. Len(q)
    BY <1>1, <1>3
  <2>2. QED
    BY <1>3, <2>1, ElementOfSeq
<1>6. /\ t \in Seq(TyChar)
      /\ Len(t) = IF f <= n THEN n - f + 1 ELSE 0
      /\ \A x \in 1 .. n - f + 1 : t[x] = q[f + x - 1]
  BY <1>1, <1>2, <1>5, SubSeqProperties
<1>7. Len(t) = l
  <2>1. PICK z : z = Len(t)
    OBVIOUS
  <2>2. z = IF f <= n THEN n - f + 1 ELSE 0
    BY <1>6, <2>1
  <2>3. z = l
    BY <1>1, <1>2, <2>2
  <2>4. QED
    BY <2>1, <2>3
<1>8. \A x \in 1 .. l : t[x] = s[x]
  <2> SUFFICES ASSUME NEW x \in 1 .. l
               PROVE  t[x] = s[x]
    OBVIOUS
  <2>1. PICK y : y = f + x - 1
    OBVIOUS
  <2>2. y \in 1 .. k /\ 0 + y - 1 = i + x - 1
    BY <1>1, <1>2, <2>1
  <2>3. t[x] = q[y]
    BY <1>2, <1>6, <2>1
  <2>4. q[y] = b[RingTurn(N, h, 0 + y - 1)]
    BY <1>3, <2>2
  <2>5. QED
    BY <1>4, <2>2, <2>3, <2>4
<1>9. t = s
  BY <1>4, <1>6, <1>7, <1>8, SeqEqual
<1>10. QED
  BY <1>1, <1>9

\* The first character of a text is taken.
LEMMA TyTextTail ==
  ASSUME NEW N \in Nat \ {0}, NEW b \in [0 .. N - 1 -> TyChar], NEW h \in 0 .. N - 1,
         NEW n \in Nat \ {0}, n <= N
  PROVE  /\ TyText(N, b, h, 0, n) # <<>>
         /\ TyText(N, b, RingTurn(N, h, 1), 0, n - 1) = Tail(TyText(N, b, h, 0, n))
<1>1. PICK q, g, s, t : /\ q = TyText(N, b, h, 0, n) /\ g = RingTurn(N, h, 1)
                        /\ s = TyText(N, b, g, 0, n - 1) /\ t = Tail(q)
  OBVIOUS
<1>2. /\ q \in Seq(TyChar) /\ Len(q) = n
      /\ \A j \in 1 .. n : q[j] = b[RingTurn(N, h, 0 + j - 1)]
  <2>1. 0 \in Nat /\ n \in Nat
    OBVIOUS
  <2>2. IsText(q, N, b, h, 0, n)
    BY <1>1, <2>1, TyTextSeq
  <2>3. QED
    BY <2>2 DEF IsText
<1>3. g \in 0 .. N - 1
  <2>1. 1 \in 0 .. N
    OBVIOUS
  <2>2. QED
    BY <1>1, <2>1, RingTurns
<1>4. /\ s \in Seq(TyChar) /\ Len(s) = n - 1
      /\ \A j \in 1 .. n - 1 : s[j] = b[RingTurn(N, g, 0 + j - 1)]
  <2>1. 0 \in Nat /\ n - 1 \in Nat
    OBVIOUS
  <2>2. IsText(s, N, b, g, 0, n - 1)
    BY <1>1, <1>3, <2>1, TyTextSeq
  <2>3. QED
    BY <2>2 DEF IsText
<1>5. q # <<>>
  BY <1>2, EmptySeq
<1>6. /\ t \in Seq(TyChar) /\ Len(t) = n - 1
      /\ \A i \in 1 .. Len(t) : t[i] = q[i + 1]
  <2>1. /\ Tail(q) \in Seq(TyChar) /\ Len(Tail(q)) = Len(q) - 1
        /\ \A i \in 1 .. Len(Tail(q)) : Tail(q)[i] = q[i + 1]
    BY <1>2, <1>5, HeadTailProperties
  <2>2. QED
    BY <1>1, <1>2, <2>1
<1>7. \A i \in 1 .. n - 1 : t[i] = s[i]
  <2> SUFFICES ASSUME NEW i \in 1 .. n - 1
               PROVE  t[i] = s[i]
    OBVIOUS
  <2>1. i + 1 \in 1 .. n /\ 0 + (i + 1) - 1 = i /\ i - 1 \in Nat /\ 1 + (i - 1) = i /\ i <= N
    OBVIOUS
  <2>2. t[i] = q[i + 1]
    BY <1>6
  <2>3. q[i + 1] = b[RingTurn(N, h, i)]
    BY <1>2, <2>1
  <2>4. s[i] = b[RingTurn(N, g, i - 1)]
    <3>1. 0 + i - 1 = i - 1
      OBVIOUS
    <3>2. QED
      BY <1>4, <3>1
  <2>5. RingTurn(N, g, i - 1) = RingTurn(N, h, i)
    <3>1. PICK j : j = i - 1
      OBVIOUS
    <3>2. j \in Nat /\ 1 + j <= N /\ 1 + j = i /\ 1 \in Nat
      BY <2>1, <3>1
    <3>3. RingTurn(N, RingTurn(N, h, 1), j) = RingTurn(N, h, 1 + j)
      BY <3>2, RingTurns
    <3>4. QED
      BY <1>1, <3>1, <3>2, <3>3
  <2>6. QED
    BY <2>2, <2>3, <2>4, <2>5
<1>8. s = t
  BY <1>4, <1>6, <1>7, SeqEqual
<1>9. QED
  BY <1>1, <1>5, <1>8

\* What is behind it stays where it was.
LEMMA TyTextOn ==
  ASSUME NEW N \in Nat \ {0}, NEW b \in [0 .. N - 1 -> TyChar], NEW h \in 0 .. N - 1,
         NEW i \in Nat \ {0}, NEW n \in Nat, i + n <= N
  PROVE  TyText(N, b, RingTurn(N, h, 1), i - 1, n) = TyText(N, b, h, i, n)
<1>1. PICK g, k : g = RingTurn(N, h, 1) /\ k = i - 1
  OBVIOUS
<1>2. \A j \in 1 .. n : RingTurn(N, g, k + j - 1) = RingTurn(N, h, i + j - 1)
  <2> SUFFICES ASSUME NEW j \in 1 .. n
               PROVE  RingTurn(N, g, k + j - 1) = RingTurn(N, h, i + j - 1)
    OBVIOUS
  <2>1. PICK x : x = k + j - 1
    OBVIOUS
  <2>2. x \in Nat /\ 1 + x <= N /\ 1 + x = i + j - 1 /\ 1 \in Nat
    BY <1>1, <2>1
  <2>3. RingTurn(N, RingTurn(N, h, 1), x) = RingTurn(N, h, 1 + x)
    BY <2>2, RingTurns
  <2>4. QED
    BY <1>1, <2>1, <2>2, <2>3
<1>3. TyText(N, b, g, k, n) = TyText(N, b, h, i, n)
  BY <1>2 DEF TyText
<1>4. QED
  BY <1>1, <1>3

\* A character put behind a text.
IsPut(N, b, d, h, k, ch) ==
    /\ d \in [0 .. N - 1 -> TyChar]
    /\ \A i, n \in Nat : i + n <= k => TyText(N, d, h, i, n) = TyText(N, b, h, i, n)
    /\ \A i \in 0 .. k :
          TyText(N, d, h, i, k - i + 1) = Append(TyText(N, b, h, i, k - i), ch)

LEMMA TyTextPut ==
  ASSUME NEW N \in Nat \ {0}, NEW b \in [0 .. N - 1 -> TyChar], NEW h \in 0 .. N - 1,
         NEW k \in Nat, k < N, NEW ch \in TyChar, NEW d, d = [b EXCEPT ![RingTurn(N, h, k)] = ch]
  PROVE  IsPut(N, b, d, h, k, ch)
<1>1. d \in [0 .. N - 1 -> TyChar]
  OBVIOUS
<1>2. PICK p : p = RingTurn(N, h, k)
  OBVIOUS
<1>3. p \in 0 .. N - 1
  <2>1. k \in 0 .. N
    OBVIOUS
  <2>2. QED
    BY <1>2, <2>1, RingTurns
<1>4. d[p] = ch /\ \A x \in 0 .. k - 1 : d[RingTurn(N, h, x)] = b[RingTurn(N, h, x)]
  <2>1. d[p] = ch
    BY <1>2, <1>3
  <2>2. ASSUME NEW x \in 0 .. k - 1
        PROVE  d[RingTurn(N, h, x)] = b[RingTurn(N, h, x)]
    <3>1. x \in 0 .. N - 1 /\ k \in 0 .. N - 1 /\ x # k /\ x \in 0 .. N
      OBVIOUS
    <3>2. RingTurn(N, h, x) \in 0 .. N - 1
      BY <3>1, RingTurns
    <3>3. RingTurn(N, h, x) # RingTurn(N, h, k)
      <4>1. \A m, n \in 0 .. N - 1 : RingTurn(N, h, m) = RingTurn(N, h, n) => m = n
        BY RingTurns
      <4>2. QED
        BY <3>1, <4>1
    <3>4. QED
      BY <1>2, <3>2, <3>3
  <2>3. QED
    BY <2>1, <2>2
<1>5. ASSUME NEW i \in Nat, NEW n \in Nat, i + n <= k
      PROVE  TyText(N, d, h, i, n) = TyText(N, b, h, i, n)
  <2>1. ASSUME NEW j \in 1 .. n
        PROVE  d[RingTurn(N, h, i + j - 1)] = b[RingTurn(N, h, i + j - 1)]
    <3>1. PICK x \in 0 .. k - 1 : x = i + j - 1
      BY <1>5
    <3>2. QED
      BY <1>4, <3>1
  <2>2. QED
    BY <2>1 DEF TyText
<1>6. ASSUME NEW i \in 0 .. k
      PROVE  TyText(N, d, h, i, k - i + 1) = Append(TyText(N, b, h, i, k - i), ch)
  <2>1. PICK n, q, s, t : /\ n = k - i /\ q = TyText(N, b, h, i, n)
                          /\ s = TyText(N, d, h, i, n + 1) /\ t = Append(q, ch)
    OBVIOUS
  <2>2. n \in Nat /\ n + 1 \in Nat /\ i \in Nat /\ i + (n + 1) - 1 = k
    BY <2>1
  <2>3. /\ q \in Seq(TyChar) /\ Len(q) = n
        /\ \A j \in 1 .. n : q[j] = b[RingTurn(N, h, i + j - 1)]
    <3>1. IsText(q, N, b, h, i, n)
      BY <2>1, <2>2, TyTextSeq
    <3>2. QED
      BY <3>1 DEF IsText
  <2>4. /\ s \in Seq(TyChar) /\ Len(s) = n + 1
        /\ \A j \in 1 .. n + 1 : s[j] = d[RingTurn(N, h, i + j - 1)]
    <3>1. IsText(s, N, d, h, i, n + 1)
      BY <1>1, <2>1, <2>2, TyTextSeq
    <3>2. QED
      BY <3>1 DEF IsText
  <2>5. /\ t \in Seq(TyChar) /\ Len(t) = n + 1
        /\ (\A j \in 1 .. n : t[j] = q[j]) /\ t[n + 1] = ch
    BY <2>1, <2>3, AppendProperties
  <2>6. ASSUME NEW j \in 1 .. n + 1
        PROVE  s[j] = t[j]
    <3>1. CASE j = n + 1
      <4>1. s[n + 1] = d[RingTurn(N, h, i + (n + 1) - 1)]
        BY <2>2, <2>4
      <4>2. s[n + 1] = ch
        BY <1>2, <1>4, <2>2, <4>1
      <4>3. QED
        BY <2>5, <3>1, <4>2
    <3>2. CASE j \in 1 .. n
      <4>1. PICK x \in 0 .. k - 1 : x = i + j - 1
        BY <2>1, <2>2, <3>2
      <4>2. s[j] = d[RingTurn(N, h, x)] /\ q[j] = b[RingTurn(N, h, x)]
        BY <2>3, <2>4, <3>2, <4>1
      <4>3. QED
        BY <1>4, <2>5, <3>2, <4>2
    <3>3. QED
      BY <2>2, <3>1, <3>2
  <2>7. s = t
    BY <2>4, <2>5, <2>6, SeqEqual
  <2>8. QED
    BY <2>1, <2>7
<1>7. QED
  BY <1>1, <1>5, <1>6 DEF IsPut

\* The last character of a text is given up.
LEMMA TyTextFront ==
  ASSUME NEW N \in Nat \ {0}, NEW b \in [0 .. N - 1 -> TyChar], NEW h \in 0 .. N - 1,
         NEW i \in Nat, NEW n \in Nat \ {0}
  PROVE  /\ TyText(N, b, h, i, n) # <<>>
         /\ TyText(N, b, h, i, n - 1) = Front(TyText(N, b, h, i, n))
<1>1. PICK q, s, t : /\ q = TyText(N, b, h, i, n) /\ s = TyText(N, b, h, i, n - 1)
                     /\ t = SubSeq(q, 1, n - 1)
  OBVIOUS
<1>2. /\ q \in Seq(TyChar) /\ Len(q) = n
      /\ \A j \in 1 .. n : q[j] = b[RingTurn(N, h, i + j - 1)]
  <2>1. IsText(q, N, b, h, i, n)
    BY <1>1, TyTextSeq
  <2>2. QED
    BY <2>1 DEF IsText
<1>3. /\ s \in Seq(TyChar) /\ Len(s) = n - 1
      /\ \A j \in 1 .. n - 1 : s[j] = b[RingTurn(N, h, i + j - 1)]
  <2>1. n - 1 \in Nat
    OBVIOUS
  <2>2. IsText(s, N, b, h, i, n - 1)
    BY <1>1, <2>1, TyTextSeq
  <2>3. QED
    BY <2>2 DEF IsText
<1>4. q # <<>>
  BY <1>2, EmptySeq
<1>5. t \in Seq(TyChar) /\ Len(t) = n - 1 /\ \A j \in 1 .. n - 1 : t[j] = q[j]
  <2>1. PICK l \in Int : l = n - 1
    OBVIOUS
  <2>2. \A x \in 1 .. l : q[x] \in TyChar
    <3>1. \A x \in 1 .. l : x \in 1 .. Len(q)
      BY <1>2, <2>1
    <3>2. QED
      BY <1>2, <3>1, ElementOfSeq
  <2>3. 1 \in Int
    OBVIOUS
  <2>4. /\ SubSeq(q, 1, l) \in Seq(TyChar)
        /\ Len(SubSeq(q, 1, l)) = IF 1 <= l THEN l - 1 + 1 ELSE 0
        /\ \A x \in 1 .. l - 1 + 1 : SubSeq(q, 1, l)[x] = q[1 + x - 1]
    BY <2>2, <2>3, SubSeqProperties
  <2>5. PICK z, u : z = Len(SubSeq(q, 1, l)) /\ u = SubSeq(q, 1, l)
    OBVIOUS
  <2>6. z = l
    BY <2>1, <2>4, <2>5
  <2>7. \A j \in 1 .. l : u[j] = q[j]
    <3>1. l - 1 + 1 = l /\ \A j \in 1 .. l : 1 + j - 1 = j
      OBVIOUS
    <3>2. QED
      BY <2>4, <2>5, <3>1
  <2>8. QED
    BY <1>1, <2>1, <2>4, <2>5, <2>6, <2>7
<1>6. s = t
  <2>1. \A j \in 1 .. n - 1 : j \in 1 .. n
    OBVIOUS
  <2>2. \A j \in 1 .. n - 1 : s[j] = t[j]
    BY <1>2, <1>3, <1>5, <2>1
  <2>3. QED
    BY <1>3, <1>5, <2>2, SeqEqual
<1>7. Front(q) = t
  BY <1>1, <1>2 DEF Front
<1>8. QED
  BY <1>1, <1>4, <1>6, <1>7

\* A text and the one that follows it.
LEMMA TyTextJoined ==
  ASSUME NEW N \in Nat \ {0}, NEW b \in [0 .. N - 1 -> TyChar], NEW h \in 0 .. N - 1,
         NEW m \in Nat, NEW c \in Nat
  PROVE  TyText(N, b, h, 0, m) \o TyText(N, b, h, m, c) = TyText(N, b, h, 0, m + c)
<1>1. PICK q, s, t, k : /\ q = TyText(N, b, h, 0, m) /\ s = TyText(N, b, h, m, c)
                        /\ k = m + c /\ t = TyText(N, b, h, 0, k)
  OBVIOUS
<1>2. k \in Nat /\ 0 \in Nat
  BY <1>1
<1>3. /\ q \in Seq(TyChar) /\ Len(q) = m
      /\ \A j \in 1 .. m : q[j] = b[RingTurn(N, h, 0 + j - 1)]
  <2>1. IsText(q, N, b, h, 0, m)
    BY <1>1, <1>2, TyTextSeq
  <2>2. QED
    BY <2>1 DEF IsText
<1>4. /\ s \in Seq(TyChar) /\ Len(s) = c
      /\ \A j \in 1 .. c : s[j] = b[RingTurn(N, h, m + j - 1)]
  <2>1. IsText(s, N, b, h, m, c)
    BY <1>1, TyTextSeq
  <2>2. QED
    BY <2>1 DEF IsText
<1>5. /\ t \in Seq(TyChar) /\ Len(t) = k
      /\ \A j \in 1 .. k : t[j] = b[RingTurn(N, h, 0 + j - 1)]
  <2>1. IsText(t, N, b, h, 0, k)
    BY <1>1, <1>2, TyTextSeq
  <2>2. QED
    BY <2>1 DEF IsText
<1>6. /\ q \o s \in Seq(TyChar) /\ Len(q \o s) = k
      /\ \A i \in 1 .. k : (q \o s)[i] = IF i <= m THEN q[i] ELSE s[i - m]
  BY <1>1, <1>3, <1>4, ConcatProperties
<1>7. ASSUME NEW i \in 1 .. k
      PROVE  (q \o s)[i] = t[i]
  <2>1. CASE i <= m
    <3>1. i \in 1 .. m
      BY <2>1
    <3>2. (q \o s)[i] = q[i]
      BY <1>6, <2>1
    <3>3. QED
      BY <1>3, <1>5, <3>1, <3>2
  <2>2. CASE ~(i <= m)
    <3>1. PICK j : j = i - m
      OBVIOUS
    <3>2. j \in 1 .. c /\ m + j - 1 = 0 + i - 1
      BY <1>1, <2>2, <3>1
    <3>3. (q \o s)[i] = s[j]
      BY <1>6, <2>2, <3>1
    <3>4. s[j] = b[RingTurn(N, h, m + j - 1)]
      BY <1>4, <3>2
    <3>5. t[i] = b[RingTurn(N, h, 0 + i - 1)]
      BY <1>5
    <3>6. QED
      BY <3>2, <3>3, <3>4, <3>5
  <2>3. QED
    BY <2>1, <2>2
<1>8. q \o s = t
  BY <1>5, <1>6, <1>7, SeqEqual
<1>9. QED
  BY <1>1, <1>8
\* What is readable and the line, where they are in the buffer.
TyTexts ==
    /\ TyInPromised \in Nat /\ tyicursor \in Nat
    /\ TY_IBUFLEN \in Nat \ {0} /\ tyihead \in 0 .. TY_IBUFLEN - 1
    /\ tyibuff \in [0 .. TY_IBUFLEN - 1 -> TyChar]
    /\ readable = TyText(TY_IBUFLEN, tyibuff, tyihead, 0, TyInPromised)
    /\ line = TyText(TY_IBUFLEN, tyibuff, tyihead, TyInPromised, tyicursor)

LEMMA TyTextsOK == TtyIInv => TyTexts
<1> SUFFICES ASSUME TtyIInv
             PROVE  TyTexts
  OBVIOUS
<1>1. PICK N, b, h, m, c : /\ N = TY_IBUFLEN /\ b = tyibuff /\ h = tyihead
                           /\ m = TyInPromised /\ c = tyicursor
  OBVIOUS
<1>2. TyReadable = m /\ m \in Nat
  BY <1>1, TyCounted
<1>3. /\ N \in Nat \ {0} /\ b \in [0 .. N - 1 -> TyChar] /\ h \in 0 .. N - 1 /\ c \in 0 .. N
  BY <1>1, TyFacts DEF TtyIInv, TyTypes
<1>4. c \in Nat
  BY <1>3
<1>5. PICK k : k = m + c
  OBVIOUS
<1>6. k \in Nat /\ 0 \in 0 .. k /\ m \in 0 .. k /\ k \in m .. k /\ k - m = c /\ m - 0 = m /\ 0 + 1 = 1
  BY <1>2, <1>4, <1>5
<1>7. TyStored = k
  BY <1>1, <1>2, <1>5 DEF TyStored
<1>8. TyInput(TyStored) = TyText(N, b, h, 0, k)
  <2>1. \A i \in 1 .. k : b[TyMod(h + i - 1, N)] = b[RingTurn(N, h, 0 + i - 1)]
    <3> SUFFICES ASSUME NEW i \in 1 .. k
                 PROVE  b[TyMod(h + i - 1, N)] = b[RingTurn(N, h, 0 + i - 1)]
      OBVIOUS
    <3>1. h + i - 1 = h + (0 + i - 1)
      BY <1>3, <1>6
    <3>2. QED
      BY <3>1 DEF TyMod, RingTurn
  <2>2. [i \in 1 .. k |-> b[TyMod(h + i - 1, N)]] = [i \in 1 .. k |-> b[RingTurn(N, h, 0 + i - 1)]]
    BY <2>1
  <2>3. QED
    BY <1>1, <1>7, <2>2 DEF TyInput, TyText
<1>9. readable = TyText(N, b, h, 0, m)
  <2>1. SubSeq(TyText(N, b, h, 0, k), 0 + 1, m) = TyText(N, b, h, 0, m - 0)
    BY <1>3, <1>6, TyTextPart
  <2>2. readable = SubSeq(TyText(N, b, h, 0, k), 1, m)
    BY <1>2, <1>8 DEF readable
  <2>3. QED
    BY <1>6, <2>1, <2>2
<1>10. line = TyText(N, b, h, m, c)
  <2>1. SubSeq(TyText(N, b, h, 0, k), m + 1, k) = TyText(N, b, h, m, k - m)
    BY <1>3, <1>6, TyTextPart
  <2>2. line = SubSeq(TyText(N, b, h, 0, k), m + 1, k)
    BY <1>2, <1>7, <1>8 DEF line
  <2>3. QED
    BY <1>6, <2>1, <2>2
<1>11. QED
  BY <1>1, <1>2, <1>3, <1>4, <1>9, <1>10 DEF TyTexts

\* After a step as well.
LEMMA TyTextsNext == TtyIInv' => TyTexts'
BY TyTextsOK, PTL

\* What a step of the driver may do to them.
TyEdit ==
    \/ readable' = readable /\ line' = line
    \/ readable' = readable /\ \E ch \in TyKeys : line' = Append(line, ch)
    \/ readable' = readable /\ line # <<>> /\ line' \in {Front(line), <<>>}
    \/ line' = <<>> /\ readable' = readable \o line \o <<"\n">>
    \/ line' = line /\ \E ch \in TyKeys : readable' = Append(readable, ch)
    \/ line' = line /\ readable # <<>> /\ readable' = Tail(readable)

\* A step that changes nothing of the input, and releases and promises nothing.
LEMMA TyEditNone ==
  ASSUME TtyIInv, TtyIInv', UNCHANGED <<tyihead, tyibuff, tyicursor>>, TyInPromised' = TyInPromised
  PROVE  TyEdit
<1>1. TyTexts /\ TyTexts'
  BY TyTextsOK, TyTextsNext
<1>2. readable' = readable /\ line' = line
  BY <1>1 DEF TyTexts
<1>3. QED
  BY <1>2 DEF TyEdit
\* Where a character is put that does not spoil the input.
LEMMA TyPutWhere ==
  ASSUME TtyIInv, ~tyispoilt, ~tyispoilt', NEW ch, NEW nowrap, TyPut(ch, nowrap)
  PROVE  /\ TyInPromised + tyicursor < TY_IBUFLEN
         /\ tyibuff' = [tyibuff EXCEPT ![RingTurn(TY_IBUFLEN, tyihead, TyInPromised + tyicursor)] = ch]
<1>1. PICK N, m, c : N = TY_IBUFLEN /\ m = TyInPromised /\ c = tyicursor
  OBVIOUS
<1>2. TyReadable = m /\ m \in Nat
  BY <1>1, TyCounted
<1>3. N \in Nat /\ c \in 0 .. N
  BY <1>1, TyFacts DEF TtyIInv, TyTypes
<1>4. TyStored = m + c
  BY <1>1, <1>2 DEF TyStored
<1>5. ~(m + c >= N)
  <2>1. tyispoilt' = (TyStored >= TY_IBUFLEN \/ tyitail' = TY_IBUFLEN)
    BY DEF TyPut
  <2>2. ~(TyStored >= TY_IBUFLEN)
    BY <2>1
  <2>3. QED
    BY <1>1, <1>4, <2>2
<1>6. m + c < N
  BY <1>2, <1>3, <1>5
<1>7. tyitail = RingTurn(TY_IBUFLEN, tyihead, TyInPromised + tyicursor)
  BY DEF TtyIInv, TyInputOK
<1>8. tyibuff' = [tyibuff EXCEPT ![tyitail] = ch]
  BY DEF TyPut
<1>9. QED
  BY <1>1, <1>6, <1>7, <1>8

\* A key at the end of the line.
LEMMA TyEditPut ==
  ASSUME TtyIInv, TtyIInv', ~tyispoilt, ~tyispoilt', NEW ch \in TyKeys, NEW nowrap,
         TyPut(ch, nowrap), tyihead' = tyihead,
         TyInPromised' = TyInPromised, tyicursor' = tyicursor + 1
  PROVE  TyEdit
<1>1. TyTexts /\ TyTexts'
  BY TyTextsOK, TyTextsNext
<1>2. PICK N, b, d, h, m, c, k : /\ N = TY_IBUFLEN /\ b = tyibuff /\ d = tyibuff' /\ h = tyihead
                                 /\ m = TyInPromised /\ c = tyicursor /\ k = m + c
  OBVIOUS
<1>3. /\ N \in Nat \ {0} /\ b \in [0 .. N - 1 -> TyChar] /\ h \in 0 .. N - 1
      /\ m \in Nat /\ c \in Nat
      /\ readable = TyText(N, b, h, 0, m) /\ line = TyText(N, b, h, m, c)
  BY <1>1, <1>2 DEF TyTexts
<1>4. readable' = TyText(N, d, h, 0, m) /\ line' = TyText(N, d, h, m, c + 1)
  BY <1>1, <1>2 DEF TyTexts
<1>5. k < N /\ d = [b EXCEPT ![RingTurn(N, h, k)] = ch]
  BY <1>2, TyPutWhere
<1>6. k \in Nat /\ 0 + m <= k /\ m \in 0 .. k /\ k - m = c /\ 0 \in Nat
  BY <1>2, <1>3
<1>7. ch \in TyChar
  BY TyFacts
<1>8. /\ \A i, n \in Nat : i + n <= k => TyText(N, d, h, i, n) = TyText(N, b, h, i, n)
      /\ \A i \in 0 .. k : TyText(N, d, h, i, k - i + 1) = Append(TyText(N, b, h, i, k - i), ch)
  <2>1. IsPut(N, b, d, h, k, ch)
    BY <1>3, <1>5, <1>6, <1>7, TyTextPut
  <2>2. QED
    BY <2>1 DEF IsPut
<1>9. TyText(N, d, h, 0, m) = TyText(N, b, h, 0, m)
  BY <1>3, <1>6, <1>8
<1>10. TyText(N, d, h, m, c + 1) = Append(TyText(N, b, h, m, c), ch)
  BY <1>6, <1>8
<1>11. readable' = readable /\ line' = Append(line, ch)
  BY <1>3, <1>4, <1>9, <1>10
<1>12. QED
  BY <1>11 DEF TyEdit

\* A newline: the line is sent off.
LEMMA TyEditLine ==
  ASSUME TtyIInv, TtyIInv', ~tyispoilt, ~tyispoilt', NEW nowrap, TyPut("\n", nowrap),
         tyihead' = tyihead, TyInPromised' = TyInPromised + tyicursor + 1, tyicursor' = 0
  PROVE  TyEdit
<1>1. TyTexts /\ TyTexts'
  BY TyTextsOK, TyTextsNext
<1>2. PICK N, b, d, h, m, c, k, ch : /\ N = TY_IBUFLEN /\ b = tyibuff /\ d = tyibuff' /\ h = tyihead
                                     /\ m = TyInPromised /\ c = tyicursor /\ k = m + c
                                     /\ ch = "\n"
  OBVIOUS
<1>3. /\ N \in Nat \ {0} /\ b \in [0 .. N - 1 -> TyChar] /\ h \in 0 .. N - 1
      /\ m \in Nat /\ c \in Nat
      /\ readable = TyText(N, b, h, 0, m) /\ line = TyText(N, b, h, m, c)
  BY <1>1, <1>2 DEF TyTexts
<1>4. /\ readable' = TyText(N, d, h, 0, k + 1) /\ line' = TyText(N, d, h, k + 1, 0)
      /\ d \in [0 .. N - 1 -> TyChar]
  BY <1>1, <1>2 DEF TyTexts
<1>5. k < N /\ d = [b EXCEPT ![RingTurn(N, h, k)] = ch]
  BY <1>2, TyPutWhere
<1>6. k \in Nat /\ 0 \in 0 .. k /\ k - 0 = k /\ k + 1 \in Nat /\ 0 \in Nat
  BY <1>2, <1>3
<1>7. ch \in TyChar
  BY <1>2 DEF TyChar
<1>8. \A i \in 0 .. k : TyText(N, d, h, i, k - i + 1) = Append(TyText(N, b, h, i, k - i), ch)
  <2>1. IsPut(N, b, d, h, k, ch)
    BY <1>3, <1>5, <1>6, <1>7, TyTextPut
  <2>2. QED
    BY <2>1 DEF IsPut
<1>9. TyText(N, d, h, 0, k + 1) = Append(TyText(N, b, h, 0, k), ch)
  BY <1>6, <1>8
<1>10. TyText(N, b, h, 0, m) \o TyText(N, b, h, m, c) = TyText(N, b, h, 0, k)
  <2>1. TyText(N, b, h, 0, m) \o TyText(N, b, h, m, c) = TyText(N, b, h, 0, m + c)
    BY <1>3, TyTextJoined
  <2>2. QED
    BY <1>2, <2>1
<1>11. readable' = Append(readable \o line, ch)
  BY <1>3, <1>4, <1>9, <1>10
<1>12. Append(readable \o line, ch) = readable \o line \o <<ch>>
  <2>1. PICK q : q = TyText(N, b, h, 0, k)
    OBVIOUS
  <2>2. q \in Seq(TyChar)
    <3>1. IsText(q, N, b, h, 0, k)
      BY <1>3, <1>6, <2>1, TyTextSeq
    <3>2. QED
      BY <3>1 DEF IsText
  <2>3. Append(q, ch) = q \o <<ch>>
    BY <1>7, <2>2, AppendIsConcat
  <2>4. readable \o line = q
    BY <1>3, <1>10, <2>1
  <2>5. QED
    BY <2>3, <2>4
<1>13. line' = <<>>
  <2>1. PICK q : q = TyText(N, d, h, k + 1, 0)
    OBVIOUS
  <2>2. IsText(q, N, d, h, k + 1, 0)
    BY <1>3, <1>4, <1>6, <2>1, TyTextSeq
  <2>3. q = <<>>
    BY <2>2, EmptySeq DEF IsText
  <2>4. QED
    BY <1>4, <2>1, <2>3
<1>14. line' = <<>> /\ readable' = readable \o line \o <<"\n">>
  BY <1>2, <1>11, <1>12, <1>13
<1>15. QED
  BY <1>14 DEF TyEdit

\* A character that is readable at once, without a line before it.
LEMMA TyEditAtOnce ==
  ASSUME TtyIInv, TtyIInv', ~tyispoilt, ~tyispoilt', NEW ch \in TyKeys \cup {"\n"}, NEW nowrap,
         TyPut(ch, nowrap), tyihead' = tyihead,
         TyInPromised' = TyInPromised + 1, tyicursor = 0, tyicursor' = 0
  PROVE  TyEdit
<1>1. TyTexts /\ TyTexts'
  BY TyTextsOK, TyTextsNext
<1>2. CASE ch \notin TyKeys
  <2>1. TyPut("\n", nowrap)
    BY <1>2
  <2>2. TyInPromised' = TyInPromised + tyicursor + 1
    BY <1>1 DEF TyTexts
  <2>3. QED
    BY <2>1, <2>2, TyEditLine
<1>3. CASE ch \in TyKeys
  <2>1. PICK N, b, d, h, m : /\ N = TY_IBUFLEN /\ b = tyibuff /\ d = tyibuff' /\ h = tyihead
                             /\ m = TyInPromised
    OBVIOUS
  <2>2. /\ N \in Nat \ {0} /\ b \in [0 .. N - 1 -> TyChar] /\ h \in 0 .. N - 1 /\ m \in Nat
        /\ readable = TyText(N, b, h, 0, m) /\ line = TyText(N, b, h, m, 0)
    BY <1>1, <2>1 DEF TyTexts
  <2>3. /\ readable' = TyText(N, d, h, 0, m + 1) /\ line' = TyText(N, d, h, m + 1, 0)
        /\ d \in [0 .. N - 1 -> TyChar]
    BY <1>1, <2>1 DEF TyTexts
  <2>4. m < N /\ d = [b EXCEPT ![RingTurn(N, h, m)] = ch]
    <3>1. m + 0 = m
      BY <2>2
    <3>2. QED
      BY <2>1, <3>1, TyPutWhere
  <2>5. ch \in TyChar
    BY <1>3, TyFacts
  <2>6. \A i \in 0 .. m : TyText(N, d, h, i, m - i + 1) = Append(TyText(N, b, h, i, m - i), ch)
    <3>1. IsPut(N, b, d, h, m, ch)
      BY <2>2, <2>4, <2>5, TyTextPut
    <3>2. QED
      BY <3>1 DEF IsPut
  <2>7. 0 \in 0 .. m /\ m - 0 = m
    BY <2>2
  <2>8. readable' = Append(readable, ch)
    BY <2>2, <2>3, <2>6, <2>7
  <2>9. TyText(N, d, h, m + 1, 0) = TyText(N, b, h, m, 0)
    BY DEF TyText
  <2>10. line' = line
    BY <2>2, <2>3, <2>9
  <2>11. QED
    BY <1>3, <2>8, <2>10 DEF TyEdit
<1>4. QED
  BY <1>2, <1>3

\* The line is killed, or its last character erased.
LEMMA TyEditBack ==
  ASSUME TtyIInv, TtyIInv', UNCHANGED <<tyihead, tyibuff>>, TyInPromised' = TyInPromised,
         tyicursor' = 0 \/ (tyicursor > 0 /\ tyicursor' = tyicursor - 1)
  PROVE  TyEdit
<1>1. TyTexts /\ TyTexts'
  BY TyTextsOK, TyTextsNext
<1>2. PICK N, b, h, m, c, e : /\ N = TY_IBUFLEN /\ b = tyibuff /\ h = tyihead
                              /\ m = TyInPromised /\ c = tyicursor /\ e = tyicursor'
  OBVIOUS
<1>3. /\ N \in Nat \ {0} /\ b \in [0 .. N - 1 -> TyChar] /\ h \in 0 .. N - 1
      /\ m \in Nat /\ c \in Nat
      /\ readable = TyText(N, b, h, 0, m) /\ line = TyText(N, b, h, m, c)
  BY <1>1, <1>2 DEF TyTexts
<1>4. readable' = TyText(N, b, h, 0, m) /\ line' = TyText(N, b, h, m, e)
  BY <1>1, <1>2 DEF TyTexts
<1>5. readable' = readable
  BY <1>3, <1>4
<1>6. CASE c = 0
  <2>1. e = 0
    BY <1>2, <1>6
  <2>2. line' = line
    BY <1>3, <1>4, <1>6, <2>1
  <2>3. QED
    BY <1>5, <2>2 DEF TyEdit
<1>7. CASE c # 0
  <2>1. c \in Nat \ {0}
    BY <1>3, <1>7
  <2>2. line # <<>> /\ TyText(N, b, h, m, c - 1) = Front(line)
    BY <1>3, <2>1, TyTextFront
  <2>3. CASE e = 0
    <3>1. PICK q : q = TyText(N, b, h, m, 0)
      OBVIOUS
    <3>2. 0 \in Nat
      OBVIOUS
    <3>3. IsText(q, N, b, h, m, 0)
      BY <1>3, <3>1, <3>2, TyTextSeq
    <3>4. q = <<>>
      BY <3>3, EmptySeq DEF IsText
    <3>5. line' = <<>>
      BY <1>4, <2>3, <3>1, <3>4
    <3>6. QED
      BY <1>5, <2>2, <3>5 DEF TyEdit
  <2>4. CASE e = c - 1
    <3>1. line' = Front(line)
      BY <1>4, <2>2, <2>4
    <3>2. QED
      BY <1>5, <2>2, <3>1 DEF TyEdit
  <2>5. QED
    BY <1>2, <2>3, <2>4
<1>8. QED
  BY <1>6, <1>7

\* A reader takes the first character.
LEMMA TyEditTake ==
  ASSUME TtyIInv, TtyIInv', ~tyispoilt, tyihead' = RingTurn(TY_IBUFLEN, tyihead, 1),
         UNCHANGED <<tyibuff, tyicursor>>, TyInPromised >= 1, TyInPromised' = TyInPromised - 1
  PROVE  TyEdit
<1>1. TyTexts /\ TyTexts'
  BY TyTextsOK, TyTextsNext
<1>2. PICK N, b, h, g, m, c : /\ N = TY_IBUFLEN /\ b = tyibuff /\ h = tyihead /\ g = tyihead'
                              /\ m = TyInPromised /\ c = tyicursor
  OBVIOUS
<1>3. /\ N \in Nat \ {0} /\ b \in [0 .. N - 1 -> TyChar] /\ h \in 0 .. N - 1
      /\ m \in Nat /\ c \in Nat
      /\ readable = TyText(N, b, h, 0, m) /\ line = TyText(N, b, h, m, c)
  BY <1>1, <1>2 DEF TyTexts
<1>4. readable' = TyText(N, b, g, 0, m - 1) /\ line' = TyText(N, b, g, m - 1, c)
  BY <1>1, <1>2 DEF TyTexts
<1>5. g = RingTurn(N, h, 1) /\ m \in Nat \ {0}
  BY <1>2, <1>3
<1>6. m + c <= N
  BY <1>2 DEF TtyIInv, TyInputOK
<1>7. m <= N
  BY <1>3, <1>6
<1>8. readable # <<>> /\ TyText(N, b, g, 0, m - 1) = Tail(readable)
  BY <1>3, <1>5, <1>7, TyTextTail
<1>9. TyText(N, b, g, m - 1, c) = line
  BY <1>3, <1>5, <1>6, TyTextOn
<1>10. line' = line /\ readable # <<>> /\ readable' = Tail(readable)
  BY <1>4, <1>8, <1>9
<1>11. QED
  BY <1>10 DEF TyEdit
\* The promises after a key.
LEMMA TyKeyPromises ==
  ASSUME TtyIInv, UNCHANGED tycall
  PROVE  /\ tyisem' = tyisem => TyInPromised' = TyInPromised
         /\ tyisem' = Signalled(tyisem) => TyInPromised' = TyInPromised + 1
         /\ \A n \in Nat : tyisem' = SignalledN(tyisem, n) => TyInPromised' = TyInPromised + n
<1>1. PICK C : C = TyCallers(TyInOps)
  OBVIOUS
<1>2. TyCallers(TyInOps)' = C
  BY <1>1 DEF TyCallers
<1>3. SoundFor(TyProc, C, tyisem)
  BY <1>1 DEF TtyIInv, TyInputOK
<1>4. TyInPromised = Promises(C, tyisem) /\ TyInPromised' = Promises(C, tyisem')
  BY <1>1, <1>2 DEF TyInPromised
<1>5. Promises(C, Signalled(tyisem)) = Promises(C, tyisem) + 1
  BY <1>3, PromisesSignalled
<1>6. \A n \in Nat : Promises(C, SignalledN(tyisem, n)) = Promises(C, tyisem) + n
  BY <1>3, PromisesSignalledN
<1>7. QED
  BY <1>4, <1>5, <1>6

LEMMA TyEditSignalled ==
  ASSUME TtyIInv, TtyIInv', ~tyispoilt, ~tyispoilt', NEW ch \in TyKeys \cup {"\n"}, NEW nowrap,
         TyPut(ch, nowrap), tyisem' = Signalled(tyisem), UNCHANGED <<tyihead, tyicursor, tycall>>,
         tyicursor = 0
  PROVE  TyEdit
<1>1. TyInPromised' = TyInPromised + 1
  BY TyKeyPromises
<1>2. QED
  BY <1>1, TyEditAtOnce

LEMMA TyEditKept ==
  ASSUME TtyIInv, TtyIInv', UNCHANGED tyinVars, UNCHANGED tycall
  PROVE  TyEdit
<1>1. TyInPromised' = TyInPromised
  BY TyKeyPromises DEF tyinVars
<1>2. QED
  BY <1>1, TyEditNone DEF tyinVars

LEMMA TyEditCooked ==
  ASSUME TtyIInv, TtyIInv', ~tyispoilt, ~tyispoilt', NEW ch \in TyKeys \cup {"\n"},
         TyCookedKey(ch), UNCHANGED tycall
  PROVE  TyEdit
<1>1. CASE UNCHANGED tyinVars
  BY <1>1, TyEditKept
<1>2. CASE TyKill
  <2>1. TyInPromised' = TyInPromised
    BY <1>2, TyKeyPromises DEF TyKill
  <2>2. QED
    BY <1>2, <2>1, TyEditBack DEF TyKill
<1>3. CASE tyicursor > 0 /\ TyErase
  <2>1. TyInPromised' = TyInPromised
    BY <1>3, TyKeyPromises DEF TyErase
  <2>2. QED
    BY <1>3, <2>1, TyEditBack DEF TyErase
<1>4. CASE ch = "\n" /\ TyLine(ch)
  <2>1. PICK n : n = tyicursor + 1
    OBVIOUS
  <2>2. tyicursor \in 0 .. TY_IBUFLEN /\ TY_IBUFLEN \in Nat /\ TyInPromised \in Nat
    BY TyFacts, TyCounted DEF TtyIInv, TyTypes
  <2>3. n \in Nat /\ TyInPromised + n = TyInPromised + tyicursor + 1
    BY <2>1, <2>2
  <2>4. tyisem' = SignalledN(tyisem, n) /\ tyicursor' = 0 /\ tyihead' = tyihead
    BY <1>4, <2>1 DEF TyLine
  <2>5. TyInPromised' = TyInPromised + n
    BY <2>3, <2>4, TyKeyPromises
  <2>6. TyPut("\n", FALSE)
    BY <1>4 DEF TyLine
  <2>7. QED
    BY <2>3, <2>4, <2>5, <2>6, TyEditLine
<1>5. CASE ch = "^D" /\ TyEof
  <2>1. CASE UNCHANGED tyinVars
    BY <2>1, TyEditKept
  <2>2. CASE tyicursor = 0 /\ TyPut("^D", TRUE) /\ tyisem' = Signalled(tyisem)
             /\ UNCHANGED <<tyihead, tyicursor>>
    BY <1>5, <2>2, TyEditSignalled
  <2>3. QED
    BY <1>5, <2>1, <2>2 DEF TyEof
<1>6. CASE ch \notin {"^U", "^H", "\n", "^D"} /\ TyOrdinary(ch)
  <2>1. ch \in TyKeys
    BY <1>6
  <2>2. TyInPromised' = TyInPromised
    BY <1>6, TyKeyPromises DEF TyOrdinary
  <2>3. QED
    BY <1>6, <2>1, <2>2, TyEditPut DEF TyOrdinary
<1>7. QED
  BY <1>1, <1>2, <1>3, <1>4, <1>5, <1>6 DEF TyCookedKey

LEMMA TyEditKey ==
  ASSUME TtyIInv, TtyIInv', NEW key \in TyKeys, ttyhandle_in(key), ~tyispoilt'
  PROVE  TyEdit
<1>1. PICK ch : ch = TyMapped(key)
  OBVIOUS
<1>2. ch \in TyKeys \cup {"\n"} /\ key \in TyKeys \cup {"\n"}
  BY <1>1 DEF TyMapped
<1>3. /\ ~tyispoilt /\ UNCHANGED tycall
      /\ TyRawKey(key) \/ TyFlowKey(ch) \/ TyCbreakKey(ch) \/ TyCookedKey(ch)
  BY <1>1 DEF ttyhandle_in
<1>4. tyimode # "C" => tyicursor = 0
  BY <1>3 DEF TtyIInv, TyInputOK
<1>5. CASE TyRawKey(key)
  <2>1. tyicursor = 0
    BY <1>4, <1>5 DEF TyRawKey
  <2>2. CASE UNCHANGED tyinVars
    BY <1>3, <2>2, TyEditKept
  <2>3. CASE TyPut(key, FALSE) /\ tyisem' = Signalled(tyisem) /\ UNCHANGED <<tyihead, tyicursor>>
    BY <1>2, <1>3, <2>1, <2>3, TyEditSignalled
  <2>4. QED
    BY <1>5, <2>2, <2>3 DEF TyRawKey
<1>6. CASE TyFlowKey(ch)
  <2>1. UNCHANGED tyinVars
    BY <1>6 DEF TyFlowKey
  <2>2. QED
    BY <1>3, <2>1, TyEditKept
<1>7. CASE TyCbreakKey(ch)
  <2>1. tyicursor = 0
    BY <1>4, <1>7 DEF TyCbreakKey
  <2>2. CASE UNCHANGED tyinVars
    BY <1>3, <2>2, TyEditKept
  <2>3. CASE TyPut(ch, FALSE) /\ tyisem' = Signalled(tyisem) /\ UNCHANGED <<tyihead, tyicursor>>
    BY <1>2, <1>3, <2>1, <2>3, TyEditSignalled
  <2>4. QED
    BY <1>7, <2>2, <2>3 DEF TyCbreakKey
<1>8. CASE TyCookedKey(ch)
  BY <1>2, <1>3, <1>8, TyEditCooked
<1>9. QED
  BY <1>3, <1>5, <1>6, <1>7, <1>8

\* Every step that spoils nothing edits the line.
LEMMA TyNextEdits ==
  ASSUME TtyIInv, TtyIInv', [TtyNext]_tyVars, ~tyispoilt'
  PROVE  TyEdit
<1>1. CASE \E key \in TyKeys : ttyhandle_in(key)
  BY <1>1, TyEditKey
<1>2. CASE UNCHANGED <<tyihead, tyibuff, tyicursor>> /\ TyInPromised' = TyInPromised
  BY <1>2, TyEditNone
<1>3. CASE \E p \in TyProc : ttygetc(p)
  <2>1. PICK p \in TyProc : ttygetc(p)
    BY <1>3
  <2>2. /\ TyInPromised >= 1 /\ TyInPromised' = TyInPromised - 1
        /\ tyihead' = RingTurn(TY_IBUFLEN, tyihead, 1)
    BY <2>1, ttygetcOK
  <2>3. UNCHANGED <<tyibuff, tyicursor, tyispoilt>>
    BY <2>1 DEF ttygetc
  <2>4. ~tyispoilt
    BY <2>3
  <2>5. QED
    BY <2>2, <2>3, <2>4, TyEditTake
<1>4. CASE ttyhandle_out
  <2>1. TyInPromised' = TyInPromised
    BY <1>4, ttyhandleoutOK
  <2>2. UNCHANGED tyinVars
    BY <1>4 DEF ttyhandle_out
  <2>3. QED
    BY <1>2, <2>1, <2>2 DEF tyinVars
<1>5. CASE ttycontrol
  <2>1. TyInPromised' = TyInPromised
    BY <1>5, ttycontrolOK
  <2>2. QED
    BY <1>2, <1>5, <2>1 DEF ttycontrol
<1>6. ASSUME NEW p \in TyProc, NEW op \in TyInOps \cup TyOutOps, NEW n \in Int, TyEnter(p, op, n)
      PROVE  TyEdit
  <2>1. TyInPromised' = TyInPromised
    BY <1>6, TyEnterOK
  <2>2. UNCHANGED tyinVars
    BY <1>6 DEF TyEnter
  <2>3. QED
    BY <1>2, <2>1, <2>2 DEF tyinVars
<1>7. /\ "nextc" \in TyInOps \cup TyOutOps /\ "line" \in TyInOps \cup TyOutOps
      /\ "read" \in TyInOps \cup TyOutOps /\ "write" \in TyInOps \cup TyOutOps
  BY DEF TyInOps, TyOutOps
<1>8. CASE \E p \in TyReader : TyEnter(p, "nextc", 1)
  <2>1. PICK p \in TyReader : TyEnter(p, "nextc", 1)
    BY <1>8
  <2>2. p \in TyProc /\ 1 \in Int
    BY TyFacts
  <2>3. QED
    BY <1>6, <1>7, <2>1, <2>2
<1>9. CASE \E p \in TyReader, count \in TyCounts : ttyread(p, count)
  <2>1. PICK p \in TyReader, count \in TyCounts : ttyread(p, count)
    BY <1>9
  <2>2. p \in TyProc /\ count \in Int /\ tyisem.count \in Int
    BY TyFacts, TyCounted
  <2>3. TyEnter(p, "line", count) \/ TyEnter(p, "read", count) \/ TyEnter(p, "read", tyisem.count)
    BY <2>1 DEF ttyread
  <2>4. QED
    BY <1>6, <1>7, <2>2, <2>3
<1>10. CASE \E p \in TyWriter, count \in TyCounts : ttywrite(p, count)
  <2>1. PICK p \in TyWriter, count \in TyCounts : ttywrite(p, count)
    BY <1>10
  <2>2. p \in TyProc /\ count \in Int /\ TyEnter(p, "write", count)
    BY <2>1, TyFacts DEF ttywrite
  <2>3. QED
    BY <1>6, <1>7, <2>2
<1>11. CASE \E p \in TyProc : ttygetcWait(p)
  <2>1. PICK p \in TyProc : ttygetcWait(p)
    BY <1>11
  <2>2. TyInPromised' = TyInPromised
    BY <2>1, ttygetcWaitOK
  <2>3. QED
    BY <1>2, <2>1, <2>2 DEF ttygetcWait
<1>12. CASE \E p \in TyProc : ttyputcWait(p)
  <2>1. PICK p \in TyProc : ttyputcWait(p)
    BY <1>12
  <2>2. TyInPromised' = TyInPromised
    BY <2>1, ttyputcWaitOK
  <2>3. QED
    BY <1>2, <2>1, <2>2 DEF ttyputcWait, tyinVars
<1>13. CASE \E p \in TyProc : ttyputc(p)
  <2>1. PICK p \in TyProc : ttyputc(p)
    BY <1>13
  <2>2. TyInPromised' = TyInPromised
    BY <2>1, ttyputcOK
  <2>3. QED
    BY <1>2, <2>1, <2>2 DEF ttyputc, tyinVars
<1>14. CASE \E p \in TyProc : ttynextc(p)
  <2>1. PICK p \in TyProc : ttynextc(p)
    BY <1>14
  <2>2. TyInPromised' = TyInPromised
    BY <2>1, ttynextcOK
  <2>3. QED
    BY <1>2, <2>1, <2>2 DEF ttynextc
<1>15. CASE UNCHANGED tyVars
  BY <1>15, TyEditKept DEF tyVars
<1>16. QED
  BY <1>1, <1>3, <1>4, <1>5, <1>8, <1>9, <1>10, <1>11, <1>12, <1>13, <1>14, <1>15
     DEF TtyNext, TyGoOn

\* Whatever keys are pressed and whoever reads: unless a character is put where an
\* unread one was, or the mode is changed within a line, every step of the driver
\* does to what is readable and to the line what a line editor may do.
THEOREM LinesStayEdited == TtySpec => LineEdited
<1>1. TtyInit => TtyIInv
  BY TtyInitOK
<1>2. TtyIInv /\ [TtyNext]_tyVars => TtyIInv'
  BY TtyNextOK
<1>3. TtyIInv /\ TtyIInv' /\ [TtyNext]_tyVars => (tyispoilt' \/ TyEdit)
  BY TyNextEdits
<1>4. TtyIInv /\ TtyIInv' /\ [TtyNext]_tyVars =>
        [tyispoilt' \/
           \/ readable' = readable /\ line' = line
           \/ readable' = readable /\ \E ch \in TyKeys : line' = Append(line, ch)
           \/ readable' = readable /\ line # <<>> /\ line' \in {Front(line), <<>>}
           \/ line' = <<>> /\ readable' = readable \o line \o <<"\n">>
           \/ line' = line /\ \E ch \in TyKeys : readable' = Append(readable, ch)
           \/ line' = line /\ readable # <<>> /\ readable' = Tail(readable)]_tyVars
  BY <1>3 DEF TyEdit
<1>5. QED
  BY <1>1, <1>2, <1>4, PTL DEF TtySpec, LineEdited

-----------------------------------------------------------------------------
(* The Ethernet driver: indices of a ring.                                 *)

LEMMA RxSizes ==
  /\ E1000_RX_RING_SIZE \in Nat \ {0} /\ E1000_RING_BOUNDARY \in Nat \ {0}
  /\ E1000_RX_RING_SIZE = 2 * E1000_RING_BOUNDARY
BY EthAssumption

LEMMA RxTurns ==
  /\ \A i \in RxIndex : RxAfter(i, 0) = i
  /\ \A i \in RxIndex : \A n \in 0 .. E1000_RX_RING_SIZE : RxAfter(i, n) \in RxIndex
  /\ \A i \in RxIndex : \A m, n \in 0 .. E1000_RX_RING_SIZE - 1 : RxAfter(i, m) = RxAfter(i, n) => m = n
  /\ \A i, x \in RxIndex : \E n \in 0 .. E1000_RX_RING_SIZE - 1 : x = RxAfter(i, n)
  /\ \A i \in RxIndex : \A n, m \in Nat : n + m <= E1000_RX_RING_SIZE =>
        RxAfter(RxAfter(i, n), m) = RxAfter(i, n + m)
  /\ \A i \in RxIndex : \A n \in 0 .. E1000_RX_RING_SIZE - 1 : RxAfter(RxAfter(i, n), -i) = n
<1>1. E1000_RX_RING_SIZE \in Nat \ {0} /\ RxIndex = 0 .. E1000_RX_RING_SIZE - 1
  BY EthAssumption DEF RxIndex
<1>2. \A i, n : RxAfter(i, n) = RingTurn(E1000_RX_RING_SIZE, i, n)
  BY DEF RxAfter, RingTurn
<1>3. \A i \in RxIndex : RxAfter(i, 0) = i
  BY <1>1, <1>2, RingTurns
<1>4. \A i \in RxIndex : \A n \in 0 .. E1000_RX_RING_SIZE : RxAfter(i, n) \in RxIndex
  BY <1>1, <1>2, RingTurns
<1>5. \A i \in RxIndex : \A m, n \in 0 .. E1000_RX_RING_SIZE - 1 : RxAfter(i, m) = RxAfter(i, n) => m = n
  BY <1>1, <1>2, RingTurns
<1>6. \A i, x \in RxIndex : \E n \in 0 .. E1000_RX_RING_SIZE - 1 : x = RxAfter(i, n)
  BY <1>1, <1>2, RingTurns
<1>7. \A i \in RxIndex : \A n, m \in Nat : n + m <= E1000_RX_RING_SIZE =>
        RxAfter(RxAfter(i, n), m) = RxAfter(i, n + m)
  BY <1>1, <1>2, RingTurns
<1>8. \A i \in RxIndex : \A n \in 0 .. E1000_RX_RING_SIZE - 1 : RxAfter(RxAfter(i, n), -i) = n
  BY <1>1, <1>2, RingTurns
<1>9. QED
  BY <1>3, <1>4, <1>5, <1>6, <1>7, <1>8

LEMMA RxFurther ==
  ASSUME NEW i \in RxIndex, NEW n \in Nat, NEW m \in Nat, n + m <= E1000_RX_RING_SIZE
  PROVE  RxAfter(RxAfter(i, n), m) = RxAfter(i, n + m)
BY RxTurns

LEMMA RxAfterIs ==
  ASSUME NEW i \in RxIndex, NEW n \in 0 .. E1000_RX_RING_SIZE
  PROVE  RxAfter(i, n) = IF i + n < E1000_RX_RING_SIZE THEN i + n ELSE i + n - E1000_RX_RING_SIZE
<1>1. E1000_RX_RING_SIZE \in Nat \ {0} /\ RxIndex = 0 .. E1000_RX_RING_SIZE - 1
  BY EthAssumption DEF RxIndex
<1>2. QED
  BY <1>1, RingAfter DEF RxAfter

LEMMA TxTurns ==
  /\ \A i \in TxIndex : TxAfter(i, 0) = i
  /\ \A i \in TxIndex : \A n \in 0 .. E1000_TX_RING_SIZE : TxAfter(i, n) \in TxIndex
  /\ \A i \in TxIndex : \A m, n \in 0 .. E1000_TX_RING_SIZE - 1 : TxAfter(i, m) = TxAfter(i, n) => m = n
  /\ \A i, x \in TxIndex : \E n \in 0 .. E1000_TX_RING_SIZE - 1 : x = TxAfter(i, n)
  /\ \A i \in TxIndex : \A n, m \in Nat : n + m <= E1000_TX_RING_SIZE =>
        TxAfter(TxAfter(i, n), m) = TxAfter(i, n + m)
  /\ \A i \in TxIndex : \A n \in 0 .. E1000_TX_RING_SIZE - 1 : TxAfter(TxAfter(i, n), -i) = n
<1>1. E1000_TX_RING_SIZE \in Nat \ {0} /\ TxIndex = 0 .. E1000_TX_RING_SIZE - 1
  BY EthAssumption DEF TxIndex
<1>2. \A i, n : TxAfter(i, n) = RingTurn(E1000_TX_RING_SIZE, i, n)
  BY DEF TxAfter, RingTurn
<1>3. \A i \in TxIndex : TxAfter(i, 0) = i
  BY <1>1, <1>2, RingTurns
<1>4. \A i \in TxIndex : \A n \in 0 .. E1000_TX_RING_SIZE : TxAfter(i, n) \in TxIndex
  BY <1>1, <1>2, RingTurns
<1>5. \A i \in TxIndex : \A m, n \in 0 .. E1000_TX_RING_SIZE - 1 : TxAfter(i, m) = TxAfter(i, n) => m = n
  BY <1>1, <1>2, RingTurns
<1>6. \A i, x \in TxIndex : \E n \in 0 .. E1000_TX_RING_SIZE - 1 : x = TxAfter(i, n)
  BY <1>1, <1>2, RingTurns
<1>7. \A i \in TxIndex : \A n, m \in Nat : n + m <= E1000_TX_RING_SIZE =>
        TxAfter(TxAfter(i, n), m) = TxAfter(i, n + m)
  BY <1>1, <1>2, RingTurns
<1>8. \A i \in TxIndex : \A n \in 0 .. E1000_TX_RING_SIZE - 1 : TxAfter(TxAfter(i, n), -i) = n
  BY <1>1, <1>2, RingTurns
<1>9. QED
  BY <1>3, <1>4, <1>5, <1>6, <1>7, <1>8

LEMMA TxFurther ==
  ASSUME NEW i \in TxIndex, NEW n \in Nat, NEW m \in Nat, n + m <= E1000_TX_RING_SIZE
  PROVE  TxAfter(TxAfter(i, n), m) = TxAfter(i, n + m)
BY TxTurns

LEMMA TxAfterIs ==
  ASSUME NEW i \in TxIndex, NEW n \in 0 .. E1000_TX_RING_SIZE
  PROVE  TxAfter(i, n) = IF i + n < E1000_TX_RING_SIZE THEN i + n ELSE i + n - E1000_TX_RING_SIZE
<1>1. E1000_TX_RING_SIZE \in Nat \ {0} /\ TxIndex = 0 .. E1000_TX_RING_SIZE - 1
  BY EthAssumption DEF TxIndex
<1>2. QED
  BY <1>1, RingAfter DEF TxAfter

-----------------------------------------------------------------------------
(* The Ethernet driver: the inductive invariant.                           *)

EthWith(op) == {p \in EthProc : ethcall[p].op = op}
EthCallOf == {EthIdle} \cup [op : {"reads", "read"}] \cup [op : {"writes", "write"}, frame : EthFrames]

EthTypes ==
    /\ rxring \in [RxIndex -> EthFrames \cup {0}]
    /\ txring \in [TxIndex -> [frame : EthFrames \cup {0}, done : BOOLEAN]]
    /\ {rxhead, rxtail, rdh, rdt} \subseteq RxIndex
    /\ {txhead, txtail, tdh, tdt} \subseteq TxIndex
    /\ icr \subseteq {"rx", "tx"} /\ ethirq \subseteq {"rx", "tx"}
    /\ ethcall \in [EthProc -> EthCallOf]
    /\ ethspoilt \in BOOLEAN /\ ethlast = "first"
    /\ ethin \in Seq(EthFrames) /\ ethout \in Seq(EthFrames)
\* Who waits, for what, and those who are released and have not run yet.
EthWaiting ==
    /\ isem \in SemOf(EthProc) /\ SemOK(isem)
    /\ osem \in SemOf(EthProc) /\ SemOK(osem)
    /\ \A p \in EthProc : Waits(isem, p) <=> ethcall[p].op = "reads"
    /\ \A p \in EthProc : Waits(osem, p) <=> ethcall[p].op = "writes"
    /\ IsFiniteSet(EthWith("read")) /\ IsFiniteSet(EthWith("write"))
\* How many frames the controller may write from the head of the ring on: to
\* the half that was given back last.
RxRoom(h) ==
    IF h = 0 THEN E1000_RING_BOUNDARY
    ELSE IF h <= E1000_RING_BOUNDARY THEN E1000_RX_RING_SIZE - h
    ELSE E1000_RX_RING_SIZE + E1000_RING_BOUNDARY - h
\* The receive ring, k of its frames reported to the processes.
RxAt(k) ==
    /\ k \in 0 .. Len(ethin) /\ Len(ethin) <= RxRoom(rxhead)
    /\ rdt = RxAfter(rxhead, RxRoom(rxhead))
    /\ rdh = RxAfter(rxhead, Len(ethin)) /\ rxtail = RxAfter(rxhead, k)
    /\ \A j \in 0 .. E1000_RX_RING_SIZE - 1 :
          rxring[RxAfter(rxhead, j)] = IF j < Len(ethin) THEN ethin[j + 1] ELSE 0
    /\ k < Len(ethin) => "rx" \in icr \cup ethirq
    /\ Admits(isem) + Cardinality(EthWith("read")) = k
\* The transmit ring, d of its frames sent and not yet reclaimed.
TxAt(d) ==
    /\ d \in Nat /\ d + Len(ethout) <= E1000_TX_RING_SIZE
    /\ ~ethspoilt => Len(ethout) < E1000_TX_RING_SIZE
    /\ tdh = TxAfter(txhead, d) /\ tdt = txtail /\ txtail = TxAfter(txhead, d + Len(ethout))
    /\ \A j \in 0 .. E1000_TX_RING_SIZE - 1 :
          IF j < d THEN txring[TxAfter(txhead, j)].done
          ELSE txring[TxAfter(txhead, j)] =
                 IF j < d + Len(ethout) THEN [frame |-> ethout[j - d + 1], done |-> FALSE] ELSE TxFree
    /\ d > 0 => "tx" \in icr \cup ethirq
    /\ Admits(osem) + Cardinality(EthWith("write")) = E1000_TX_RING_SIZE - d - Len(ethout)

EthIInv ==
    /\ EthTypes
    /\ EthWaiting
    /\ \E k : RxAt(k)
    /\ \E d : TxAt(d)

-----------------------------------------------------------------------------
(* The Ethernet driver: what leaves a ring alone.                          *)

LEMMA RxKept ==
  ASSUME NEW k, RxAt(k), UNCHANGED rxVars, EthWith("read")' = EthWith("read"),
         "rx" \in icr \cup ethirq => "rx" \in icr' \cup ethirq'
  PROVE  RxAt(k)'
BY DEF RxAt, rxVars

LEMMA TxKept ==
  ASSUME NEW d, TxAt(d), UNCHANGED txVars, EthWith("write")' = EthWith("write"),
         "tx" \in icr \cup ethirq => "tx" \in icr' \cup ethirq'
  PROVE  TxAt(d)'
BY DEF TxAt, txVars

LEMMA EthWaitingKept ==
  ASSUME EthWaiting, UNCHANGED <<isem, osem, ethcall>>
  PROVE  EthWaiting' /\ \A op : EthWith(op)' = EthWith(op)
BY DEF EthWaiting, EthWith

LEMMA RxFacts ==
  ASSUME EthTypes, NEW k, RxAt(k)
  PROVE  /\ Len(ethin) \in Nat /\ DOMAIN ethin = 1 .. Len(ethin)
         /\ \A j \in 1 .. Len(ethin) : ethin[j] \in EthFrames
         /\ rxhead \in 0 .. E1000_RX_RING_SIZE - 1 /\ k \in 0 .. Len(ethin)
         /\ RxRoom(rxhead) \in 1 .. E1000_RX_RING_SIZE - 1
         /\ Len(ethin) \in 0 .. RxRoom(rxhead)
<1>1. ethin \in Seq(EthFrames) /\ rxhead \in 0 .. E1000_RX_RING_SIZE - 1
  BY DEF EthTypes, RxIndex
<1>2. Len(ethin) \in Nat /\ DOMAIN ethin = 1 .. Len(ethin)
  BY <1>1, LenProperties
<1>3. \A j \in 1 .. Len(ethin) : ethin[j] \in EthFrames
  BY <1>1, <1>2, ElementOfSeq
<1>4. RxRoom(rxhead) \in 1 .. E1000_RX_RING_SIZE - 1
  BY <1>1, RxSizes DEF RxRoom
<1>5. k \in 0 .. Len(ethin) /\ Len(ethin) <= RxRoom(rxhead)
  BY DEF RxAt
<1>6. QED
  BY <1>1, <1>2, <1>3, <1>4, <1>5

LEMMA TxFacts ==
  ASSUME EthTypes, NEW d, TxAt(d)
  PROVE  /\ Len(ethout) \in Nat /\ DOMAIN ethout = 1 .. Len(ethout)
         /\ \A j \in 1 .. Len(ethout) : ethout[j] \in EthFrames
         /\ txhead \in 0 .. E1000_TX_RING_SIZE - 1
         /\ d \in 0 .. E1000_TX_RING_SIZE
         /\ d + Len(ethout) \in 0 .. E1000_TX_RING_SIZE
<1>1. ethout \in Seq(EthFrames) /\ txhead \in 0 .. E1000_TX_RING_SIZE - 1
  BY DEF EthTypes, TxIndex
<1>2. Len(ethout) \in Nat /\ DOMAIN ethout = 1 .. Len(ethout)
  BY <1>1, LenProperties
<1>3. \A j \in 1 .. Len(ethout) : ethout[j] \in EthFrames
  BY <1>1, <1>2, ElementOfSeq
<1>4. d \in Nat /\ d + Len(ethout) <= E1000_TX_RING_SIZE
  BY DEF TxAt
<1>5. d \in 0 .. E1000_TX_RING_SIZE /\ d + Len(ethout) \in 0 .. E1000_TX_RING_SIZE
  BY <1>2, <1>4, EthAssumption
<1>6. QED
  BY <1>1, <1>2, <1>3, <1>5

\* The three parts of the transmit ring.
LEMMA TxRing ==
  ASSUME EthTypes, NEW d, TxAt(d)
  PROVE  /\ \A j \in 0 .. d - 1 : txring[TxAfter(txhead, j)].done
         /\ \A j \in d .. d + Len(ethout) - 1 :
               txring[TxAfter(txhead, j)] = [frame |-> ethout[j - d + 1], done |-> FALSE]
         /\ \A j \in d + Len(ethout) .. E1000_TX_RING_SIZE - 1 : txring[TxAfter(txhead, j)] = TxFree
<1>1. PICK h, o, T : h = txhead /\ o = Len(ethout) /\ T = E1000_TX_RING_SIZE
  OBVIOUS
<1>2. T \in Nat /\ o \in Nat /\ d \in Nat /\ d + o <= T
  BY <1>1, TxFacts, EthAssumption
<1>3. \A j \in 0 .. T - 1 :
          IF j < d THEN txring[TxAfter(h, j)].done
          ELSE txring[TxAfter(h, j)] =
                 IF j < d + o THEN [frame |-> ethout[j - d + 1], done |-> FALSE] ELSE TxFree
  BY <1>1 DEF TxAt
<1>4. ASSUME NEW j \in 0 .. d - 1
      PROVE  txring[TxAfter(h, j)].done
  <2>1. j \in 0 .. T - 1 /\ j < d
    BY <1>2
  <2>2. QED
    BY <1>3, <2>1
<1>5. ASSUME NEW j \in d .. d + o - 1
      PROVE  txring[TxAfter(h, j)] = [frame |-> ethout[j - d + 1], done |-> FALSE]
  <2>1. j \in 0 .. T - 1 /\ ~(j < d) /\ j < d + o
    BY <1>2
  <2>2. QED
    BY <1>3, <2>1
<1>6. ASSUME NEW j \in d + o .. T - 1
      PROVE  txring[TxAfter(h, j)] = TxFree
  <2>1. j \in 0 .. T - 1 /\ ~(j < d) /\ ~(j < d + o)
    BY <1>2
  <2>2. QED
    BY <1>3, <2>1
<1>7. QED
  BY <1>1, <1>4, <1>5, <1>6

-----------------------------------------------------------------------------
(* The Ethernet driver: the controller.                                    *)

\* There is a place for the frame while the two registers differ.
LEMMA NicStoresOK ==
  ASSUME EthTypes, NEW k, RxAt(k), NEW f \in EthFrames, NicStores(f)
  PROVE  RxAt(k)' /\ EthTypes'
<1>1. PICK h, n, q, R : h = rxhead /\ n = Len(ethin) /\ q = ethin /\ R = E1000_RX_RING_SIZE
  OBVIOUS
<1>2. /\ R \in Nat \ {0} /\ h \in RxIndex /\ n \in Nat /\ k \in 0 .. n
      /\ RxRoom(h) \in 1 .. R - 1 /\ n \in 0 .. RxRoom(h)
  BY <1>1, RxFacts, RxSizes DEF RxIndex
<1>3. /\ \A j \in 0 .. R : RxAfter(h, j) \in RxIndex
      /\ \A j, m \in 0 .. R - 1 : RxAfter(h, j) = RxAfter(h, m) => j = m
  BY <1>1, <1>2, RxTurns
<1>4. rdh = RxAfter(h, n) /\ rdt = RxAfter(h, RxRoom(h)) /\ rxtail = RxAfter(h, k)
  BY <1>1 DEF RxAt
<1>5. n # RxRoom(h)
  BY <1>4 DEF NicStores
<1>6. n \in 0 .. R - 1 /\ n + 1 \in 0 .. R /\ n + 1 <= RxRoom(h) /\ k \in 0 .. n + 1
  BY <1>2, <1>5
<1>7. /\ ethin' \in Seq(EthFrames) /\ Len(ethin') = n + 1
      /\ \A j \in 1 .. n : ethin'[j] = q[j]
      /\ ethin'[n + 1] = f
  <2>1. ethin \in Seq(EthFrames)
    BY DEF EthTypes
  <2>2. ethin' = Append(ethin, f)
    BY DEF NicStores
  <2>3. QED
    BY <1>1, <2>1, <2>2, AppendProperties
<1>8. rdh' = RxAfter(h, n + 1) /\ rdh' \in RxIndex
  <2>1. RxAfter(RxAfter(h, n), 1) = RxAfter(h, n + 1)
    <3>1. n \in Nat /\ 1 \in Nat /\ n + 1 <= R
      BY <1>2, <1>6
    <3>2. QED
      BY <1>1, <1>2, <3>1, RxFurther
  <2>2. rdh' = RxAfter(rdh, 1)
    BY DEF NicStores
  <2>3. QED
    BY <1>3, <1>4, <1>6, <2>1, <2>2
<1>9. rxring' = [rxring EXCEPT ![rdh] = f]
      /\ UNCHANGED <<rxhead, rxtail, isem, rdt, txVars, ethirq, ethcall, ethlast>>
      /\ icr' = icr \cup {"rx"}
  BY DEF NicStores
<1>10. ASSUME NEW j \in 0 .. R - 1
       PROVE  rxring'[RxAfter(h, j)] = IF j < n + 1 THEN ethin'[j + 1] ELSE 0
  <2>1. rxring[RxAfter(h, j)] = IF j < n THEN q[j + 1] ELSE 0
    BY <1>1 DEF RxAt
  <2>2. RxAfter(h, j) = rdh <=> j = n
    BY <1>3, <1>4, <1>6
  <2>3. RxAfter(h, j) \in DOMAIN rxring
    <3>1. RxAfter(h, j) \in RxIndex
      BY <1>2, <1>3
    <3>2. QED
      BY <3>1 DEF EthTypes
  <2>4. CASE j = n
    BY <1>2, <1>7, <1>9, <2>2, <2>3, <2>4
  <2>5. CASE j # n
    <3>1. rxring'[RxAfter(h, j)] = rxring[RxAfter(h, j)]
      BY <1>9, <2>2, <2>5
    <3>2. j < n => j + 1 \in 1 .. n
      BY <1>2
    <3>3. j < n + 1 <=> j < n
      BY <1>2, <2>5
    <3>4. QED
      BY <1>7, <2>1, <3>1, <3>2, <3>3
  <2>6. QED
    BY <2>4, <2>5
<1>11. EthTypes'
  <2>1. rxring' \in [RxIndex -> EthFrames \cup {0}]
    BY <1>9 DEF EthTypes
  <2>2. QED
    BY <1>7, <1>8, <1>9, <2>1 DEF EthTypes, txVars
<1>12. Admits(isem') + Cardinality(EthWith("read")') = k
  BY <1>9 DEF RxAt, EthWith
<1>13. RxAt(k)'
  <2>1. rxhead' = h /\ Len(ethin') = n + 1
    BY <1>1, <1>7, <1>9
  <2>2. rdt' = RxAfter(h, RxRoom(h)) /\ rxtail' = RxAfter(h, k)
    BY <1>4, <1>9
  <2>3. "rx" \in icr' \cup ethirq'
    BY <1>9
  <2>4. QED
    BY <1>1, <1>6, <1>8, <1>10, <1>12, <2>1, <2>2, <2>3 DEF RxAt
<1>14. QED
  BY <1>11, <1>13

\* What is between the two registers is what was written and is not sent.
LEMMA NicSendsOK ==
  ASSUME EthTypes, NEW d, TxAt(d), NicSends
  PROVE  TxAt(d + 1)' /\ EthTypes'
<1>1. PICK h, o, q, T : h = txhead /\ o = Len(ethout) /\ q = ethout /\ T = E1000_TX_RING_SIZE
  OBVIOUS
<1>2. /\ T \in Nat \ {0} /\ h \in TxIndex /\ o \in Nat /\ d \in Nat /\ d + o <= T
      /\ \A j \in 1 .. o : q[j] \in EthFrames
  BY <1>1, TxFacts, EthAssumption DEF TxIndex
<1>3. /\ \A j \in 0 .. T : TxAfter(h, j) \in TxIndex
      /\ \A j, m \in 0 .. T - 1 : TxAfter(h, j) = TxAfter(h, m) => j = m
  BY <1>1, <1>2, TxTurns
<1>4. tdh = TxAfter(h, d) /\ tdt = TxAfter(h, d + o) /\ txtail = TxAfter(h, d + o)
  BY <1>1 DEF TxAt
<1>5. /\ txring' = [txring EXCEPT ![tdh].done = TRUE]
      /\ tdh' = TxAfter(tdh, 1)
      /\ icr' = icr \cup {"tx"}
      /\ UNCHANGED <<txhead, txtail, osem, tdt, ethspoilt, rxVars, ethirq, ethcall>>
  BY DEF NicSends
<1>6. o # 0
  BY <1>2, <1>4 DEF NicSends
<1>7. d \in 0 .. T - 1 /\ d + 1 \in 0 .. T /\ o - 1 \in Nat /\ (d + 1) + (o - 1) = d + o
  BY <1>2, <1>6
<1>8. ethout \in Seq(EthFrames) /\ ethout # <<>> /\ Head(ethout) = q[1]
  BY <1>1, <1>6 DEF EthTypes
<1>9. Tail(ethout) \in Seq(EthFrames) /\ Len(Tail(ethout)) = o - 1
      /\ \A j \in 1 .. o - 1 : Tail(ethout)[j] = q[j + 1]
  <2>1. Tail(ethout) \in Seq(EthFrames)
    BY <1>8, HeadTailProperties
  <2>2. Len(Tail(ethout)) = o - 1
    BY <1>1, <1>8, HeadTailProperties
  <2>3. \A j \in 1 .. o - 1 : Tail(ethout)[j] = q[j + 1]
    BY <1>1, <1>8, <2>2, HeadTailProperties
  <2>4. QED
    BY <2>1, <2>2, <2>3
<1>10. ethout' = Tail(ethout)
  BY <1>8 DEF NicSends
<1>11. /\ \A j \in 0 .. d - 1 : txring[TxAfter(h, j)].done
       /\ \A j \in d .. d + o - 1 : txring[TxAfter(h, j)] = [frame |-> q[j - d + 1], done |-> FALSE]
       /\ \A j \in d + o .. T - 1 : txring[TxAfter(h, j)] = TxFree
  BY <1>1, TxRing
<1>12. txring[tdh] = [frame |-> q[1], done |-> FALSE]
  <2>1. d \in d .. d + o - 1 /\ d - d + 1 = 1
    BY <1>2, <1>7
  <2>2. QED
    BY <1>4, <1>7, <1>11, <2>1
<1>13. ethlast' = ethlast
  BY <1>8, <1>12 DEF NicSends
<1>14. tdh' = TxAfter(h, d + 1)
  <2>1. d \in Nat /\ 1 \in Nat /\ d + 1 <= T
    BY <1>7
  <2>2. TxAfter(TxAfter(h, d), 1) = TxAfter(h, d + 1)
    BY <1>1, <1>2, <2>1, TxFurther
  <2>3. QED
    BY <1>4, <1>5, <2>2
<1>15. txring \in [TxIndex -> [frame : EthFrames \cup {0}, done : BOOLEAN]] /\ tdh \in TxIndex
  BY DEF EthTypes
<1>16. txring' \in [TxIndex -> [frame : EthFrames \cup {0}, done : BOOLEAN]]
  BY <1>5, <1>15
<1>17. EthTypes'
  <2>1. tdh' \in TxIndex
    BY <1>3, <1>7, <1>14
  <2>2. QED
    BY <1>5, <1>9, <1>10, <1>13, <1>16, <2>1 DEF EthTypes, rxVars
<1>18. /\ \A j \in 0 .. T - 1 : j # d => txring'[TxAfter(h, j)] = txring[TxAfter(h, j)]
       /\ txring'[TxAfter(h, d)].done
  <2>1. \A j \in 0 .. T - 1 : TxAfter(h, j) \in TxIndex /\ (TxAfter(h, j) = tdh => j = d)
    <3>1. \A j \in 0 .. T - 1 : TxAfter(h, j) \in TxIndex
      BY <1>2, <1>3
    <3>2. \A j \in 0 .. T - 1 : TxAfter(h, j) = TxAfter(h, d) => j = d
      BY <1>3, <1>7
    <3>3. QED
      BY <1>4, <3>1, <3>2
  <2>2. QED
    BY <1>4, <1>5, <1>15, <2>1
<1>19. ASSUME NEW j \in 0 .. T - 1
       PROVE  IF j < d + 1 THEN txring'[TxAfter(h, j)].done
              ELSE txring'[TxAfter(h, j)] =
                     IF j < d + o THEN [frame |-> ethout'[j - (d + 1) + 1], done |-> FALSE] ELSE TxFree
  <2>1. CASE j < d
    <3>1. j \in 0 .. d - 1 /\ j # d /\ j < d + 1
      BY <1>7, <2>1
    <3>2. QED
      BY <1>11, <1>18, <3>1
  <2>2. CASE j = d
    BY <1>7, <1>18, <2>2
  <2>3. CASE j > d /\ j < d + o
    <3>1. j \in d .. d + o - 1 /\ j # d /\ ~(j < d + 1)
      BY <1>2, <2>3
    <3>2. txring'[TxAfter(h, j)] = [frame |-> q[j - d + 1], done |-> FALSE]
      BY <1>11, <1>18, <3>1
    <3>3. j - d \in 1 .. o - 1 /\ j - (d + 1) + 1 = j - d
      BY <1>2, <2>3
    <3>4. ethout'[j - (d + 1) + 1] = q[j - d + 1]
      BY <1>9, <1>10, <3>3
    <3>5. QED
      BY <2>3, <3>1, <3>2, <3>4
  <2>4. CASE j >= d + o
    <3>1. j \in d + o .. T - 1 /\ j # d /\ ~(j < d + 1) /\ ~(j < d + o)
      BY <1>2, <1>6, <2>4
    <3>2. QED
      BY <1>11, <1>18, <3>1
  <2>5. QED
    BY <1>2, <2>1, <2>2, <2>3, <2>4
<1>20. Admits(osem') + Cardinality(EthWith("write")') = T - d - o
  BY <1>1, <1>5 DEF TxAt, EthWith
<1>21. TxAt(d + 1)'
  <2>1. txhead' = h /\ Len(ethout') = o - 1
    BY <1>1, <1>5, <1>9, <1>10
  <2>2. T - d - o = T - (d + 1) - (o - 1)
    BY <1>2
  <2>3. ~ethspoilt' => o - 1 < T
    BY <1>2, <1>5
  <2>4. "tx" \in icr' \cup ethirq'
    BY <1>5
  <2>5. tdh' = TxAfter(h, d + 1) /\ tdt' = txtail' /\ txtail' = TxAfter(h, d + o)
    BY <1>4, <1>5, <1>14
  <2>6. d + 1 \in Nat /\ (d + 1) + (o - 1) <= T
    BY <1>2
  <2>7. QED
    BY <1>1, <1>7, <1>19, <1>20, <2>1, <2>2, <2>3, <2>4, <2>5, <2>6 DEF TxAt
<1>22. QED
  BY <1>17, <1>21

-----------------------------------------------------------------------------
(* The Ethernet driver: the interrupt handler.                             *)

LEMMA ethhandlerOK ==
  ASSUME EthIInv, ethhandler
  PROVE  EthIInv'
<1>1. PICK k, d : RxAt(k) /\ TxAt(d)
  BY DEF EthIInv
<1>2. /\ ethirq = {} /\ ethirq' = icr /\ icr' = {}
      /\ UNCHANGED rxVars /\ UNCHANGED txVars /\ UNCHANGED <<ethcall, ethlast>>
  BY DEF ethhandler
<1>3. EthWaiting' /\ \A op : EthWith(op)' = EthWith(op)
  BY <1>2, EthWaitingKept DEF EthIInv, rxVars, txVars
<1>4. RxAt(k)'
  BY <1>1, <1>2, <1>3, RxKept
<1>5. TxAt(d)'
  BY <1>1, <1>2, <1>3, TxKept
<1>6. EthTypes'
  BY <1>2 DEF EthIInv, EthTypes, rxVars, txVars
<1>7. QED
  BY <1>3, <1>4, <1>5, <1>6 DEF EthIInv

\* What a process waits for, by what it does.
LEMMA EthShape ==
  ASSUME EthTypes, NEW p \in EthProc
  PROVE  /\ ethcall[p].op \in {"reads", "read"} => ethcall[p] \in [op : {"reads", "read"}]
         /\ ethcall[p].op \in {"writes", "write"} =>
               ethcall[p] \in [op : {"writes", "write"}, frame : EthFrames]
         /\ ethcall[p].op \in {"idle", "reads", "read", "writes", "write"}
         /\ ethcall[p].op = "idle" <=> ethcall[p] = EthIdle
<1>1. ethcall[p] \in EthCallOf
  BY DEF EthTypes
<1>2. QED
  BY <1>1 DEF EthCallOf, EthIdle

EthOps == {"idle", "reads", "read", "writes", "write"}

\* signaln releases the first n of those who wait, each in its call.
LEMMA EthReleasedOK ==
  ASSUME EthTypes, NEW s \in SemOf(EthProc), SemOK(s), NEW n \in Nat,
         NEW a, NEW b, (a = "reads" /\ b = "read") \/ (a = "writes" /\ b = "write"),
         \A p \in EthProc : Waits(s, p) <=> ethcall[p].op = a,
         IsFiniteSet(EthWith(b)), ethcall' = EthReleased(s, n)
  PROVE  /\ ethcall' \in [EthProc -> EthCallOf]
         /\ \A p \in EthProc : Waits(SignalledN(s, n), p) <=> ethcall'[p].op = a
         /\ \A p \in EthProc : \A op \in EthOps \ {a, b} : ethcall'[p].op = op <=> ethcall[p].op = op
         /\ IsFiniteSet(EthWith(b)')
         /\ Admits(SignalledN(s, n)) + Cardinality(EthWith(b)')
              = Admits(s) + Cardinality(EthWith(b)) + n
<1> DEFINE Q == ReleasedBy(s, n)
           w == SignalledN(s, n)
<1>1. /\ \A q : Waits(w, q) <=> (Waits(s, q) /\ q \notin Q)
      /\ \A q \in Q : q \in EthProc /\ Waits(s, q)
  BY SemSignalledN
<1>2. IsFiniteSet(Q) /\ Admits(w) + Cardinality(Q) = Admits(s) + n
  BY SemSignalledN
<1>3. Admits(w) \in Nat /\ Admits(s) \in Nat
  <2>1. w \in SemOf(EthProc)
    BY SemSignalledN
  <2>2. w.count \in Int /\ s.count \in Int
    BY <2>1 DEF SemOf
  <2>3. QED
    BY <2>2 DEF Admits
<1>4. \A p \in EthProc : p \in Q <=> \E i \in DOMAIN s.queue : i <= n /\ s.queue[i] = p
  BY DEF ReleasedBy
<1> HIDE DEF Q, w
<1>5. \A p \in EthProc : ethcall'[p] =
          IF p \in Q THEN [ethcall[p] EXCEPT !.op = IF @ = "reads" THEN "read" ELSE "write"]
          ELSE ethcall[p]
  BY <1>4 DEF EthReleased
<1>6. \A p \in EthProc : p \in Q => ethcall[p].op = a
  BY <1>1
<1>7. \A p \in EthProc : p \in Q => ethcall'[p] \in EthCallOf /\ ethcall'[p].op = b
  BY <1>5, <1>6, EthShape DEF EthCallOf
<1>8. \A p \in EthProc : p \notin Q => ethcall'[p] = ethcall[p]
  BY <1>5
<1>9. ethcall' \in [EthProc -> EthCallOf]
  <2>1. \A p \in EthProc : ethcall'[p] \in EthCallOf
    BY <1>7, <1>8 DEF EthTypes
  <2>2. ethcall' = [p \in EthProc |-> ethcall'[p]]
    BY DEF EthReleased
  <2>3. QED
    BY <2>1, <2>2
<1>10. a # b
  OBVIOUS
<1>11. \A p \in EthProc : Waits(w, p) <=> ethcall'[p].op = a
  BY <1>1, <1>7, <1>8, <1>10
<1>12. \A p \in EthProc : \A op \in EthOps \ {a, b} : ethcall'[p].op = op <=> ethcall[p].op = op
  BY <1>6, <1>7, <1>8
<1>13. EthWith(b)' = EthWith(b) \cup Q /\ EthWith(b) \cap Q = {}
  BY <1>1, <1>6, <1>7, <1>8, <1>10 DEF EthWith
<1>14. /\ IsFiniteSet(EthWith(b)')
       /\ Cardinality(EthWith(b)') = Cardinality(EthWith(b)) + Cardinality(Q)
  <2>1. IsFiniteSet(EthWith(b) \cup Q)
    BY <1>2, FS_Union
  <2>2. Cardinality(EthWith(b) \cup Q) = Cardinality(EthWith(b)) + Cardinality(Q)
    <3>1. Cardinality(EthWith(b) \cap Q) = 0
      BY <1>13, FS_EmptySet
    <3>2. PICK x, y, z, u :
             /\ x = Cardinality(EthWith(b) \cup Q) /\ y = Cardinality(EthWith(b))
             /\ z = Cardinality(Q) /\ u = Cardinality(EthWith(b) \cap Q)
      OBVIOUS
    <3>3. y \in Nat /\ z \in Nat /\ x = y + z - u
      BY <1>2, <3>2, FS_CardinalityType, FS_Union
    <3>4. x = y + z
      BY <3>1, <3>2, <3>3
    <3>5. QED
      BY <3>2, <3>4
  <2>3. QED
    BY <1>13, <2>1, <2>2
<1>15. Cardinality(Q) \in Nat /\ Cardinality(EthWith(b)) \in Nat
  BY <1>2, FS_CardinalityType
<1>16. Admits(w) + Cardinality(EthWith(b)') = Admits(s) + Cardinality(EthWith(b)) + n
  <2>1. PICK x \in Nat, y \in Nat, u \in Nat, v \in Nat :
           x = Admits(w) /\ y = Admits(s) /\ u = Cardinality(Q) /\ v = Cardinality(EthWith(b))
    BY <1>3, <1>15
  <2>2. x + u = y + n
    BY <1>2, <2>1
  <2>3. x + (v + u) = y + v + n
    BY <2>1, <2>2
  <2>4. QED
    BY <1>14, <2>1, <2>3
<1>17. QED
  BY <1>9, <1>11, <1>12, <1>14, <1>16 DEF w

\* The greatest of the numbers up to m.
LEMMA MaxUpTo ==
  ASSUME NEW S, NEW m \in Nat, m \in S, \A x \in S : x \in Nat /\ x <= m
  PROVE  Max(S) = m
<1>1. \A x \in S : (\A y \in S : x >= y) <=> x = m
  OBVIOUS
<1>2. QED
  BY <1>1 DEF Max

\* The descriptors with a status from the tail on are those not reported yet.
LEMMA RxFilledIs ==
  ASSUME EthTypes, NEW k, RxAt(k)
  PROVE  RxFilled = Len(ethin) - k
<1>1. PICK h, n, q, R : h = rxhead /\ n = Len(ethin) /\ q = ethin /\ R = E1000_RX_RING_SIZE
  OBVIOUS
<1>2. /\ R \in Nat \ {0} /\ h \in RxIndex /\ n \in Nat /\ k \in 0 .. n /\ n < R
      /\ \A j \in 1 .. n : q[j] # 0
  <2>1. /\ R \in Nat \ {0} /\ h \in RxIndex /\ n \in Nat /\ k \in 0 .. n
        /\ RxRoom(h) \in 1 .. R - 1 /\ n \in 0 .. RxRoom(h)
    BY <1>1, RxFacts, RxSizes DEF RxIndex
  <2>2. \A j \in 1 .. n : q[j] # 0
    BY <1>1, RxFacts, EthAssumption
  <2>3. QED
    BY <2>1, <2>2
<1>3. rxtail = RxAfter(h, k)
  BY <1>1 DEF RxAt
<1>4. \A j \in 0 .. R - 1 : rxring[RxAfter(h, j)] = IF j < n THEN q[j + 1] ELSE 0
  BY <1>1 DEF RxAt
<1>5. ASSUME NEW j \in 0 .. R - 1 - k
      PROVE  rxring[RxAfter(rxtail, j)] # 0 <=> j < n - k
  <2>1. k \in Nat /\ j \in Nat /\ k + j <= R /\ k + j \in 0 .. R - 1
    BY <1>2
  <2>2. RxAfter(rxtail, j) = RxAfter(h, k + j)
    BY <1>1, <1>2, <1>3, <2>1, RxFurther
  <2>3. CASE k + j < n
    <3>1. k + j + 1 \in 1 .. n
      BY <2>1, <2>3, <1>2
    <3>2. rxring[RxAfter(h, k + j)] = q[k + j + 1]
      BY <1>4, <2>1, <2>3
    <3>3. QED
      BY <1>2, <2>1, <2>2, <2>3, <3>1, <3>2
  <2>4. CASE ~(k + j < n)
    BY <1>2, <1>4, <2>1, <2>2, <2>4
  <2>5. QED
    BY <2>3, <2>4
<1> DEFINE S == {m \in 0 .. E1000_RX_RING_SIZE :
                    \A j \in 0 .. m - 1 : rxring[RxAfter(rxtail, j)] # 0}
<1>6. n - k \in S
  <2>1. n - k \in 0 .. R /\ \A j \in 0 .. n - k - 1 : j \in 0 .. R - 1 - k /\ j < n - k
    BY <1>2
  <2>2. QED
    BY <1>1, <1>5, <2>1
<1>7. ASSUME NEW m \in S
      PROVE  m \in Nat /\ m <= n - k
  <2>1. m \in 0 .. R /\ \A j \in 0 .. m - 1 : rxring[RxAfter(rxtail, j)] # 0
    BY <1>1
  <2>2. n - k \in 0 .. R - 1 - k /\ ~(n - k < n - k)
    BY <1>2
  <2>3. n - k \notin 0 .. m - 1
    BY <1>5, <2>1, <2>2
  <2>4. QED
    BY <1>2, <2>1, <2>3
<1> HIDE DEF S
<1>8. n - k \in Nat
  BY <1>2
<1>9. Max(S) = n - k
  BY <1>6, <1>7, <1>8, MaxUpTo
<1>10. QED
  BY <1>1, <1>9 DEF RxFilled, S

\* The descriptors that are done, from the head on, are those that were sent.
LEMMA TxDoneIs ==
  ASSUME EthTypes, NEW d, TxAt(d)
  PROVE  TxDone = d
<1>1. PICK h, o, T : h = txhead /\ o = Len(ethout) /\ T = E1000_TX_RING_SIZE
  OBVIOUS
<1>2. T \in Nat \ {0} /\ o \in Nat /\ d \in 0 .. T /\ d + o <= T
  BY <1>1, TxFacts, EthAssumption
<1>3. \A j \in 0 .. d - 1 : txring[TxAfter(h, j)].done
  BY <1>1, TxRing
<1>4. ASSUME d < T
      PROVE  ~txring[TxAfter(h, d)].done
  <2>1. CASE o > 0
    <3>1. d \in d .. d + o - 1
      BY <1>2, <2>1
    <3>2. txring[TxAfter(h, d)] = [frame |-> ethout[d - d + 1], done |-> FALSE]
      BY <1>1, <3>1, TxRing
    <3>3. QED
      BY <3>2
  <2>2. CASE o = 0
    <3>1. d \in d + o .. T - 1
      BY <1>2, <1>4, <2>2
    <3>2. txring[TxAfter(h, d)] = TxFree
      BY <1>1, <3>1, TxRing
    <3>3. QED
      BY <3>2 DEF TxFree
  <2>3. QED
    BY <1>2, <2>1, <2>2
<1> DEFINE S == {m \in 0 .. E1000_TX_RING_SIZE :
                    \A j \in 0 .. m - 1 : txring[TxAfter(txhead, j)].done}
<1>5. d \in S
  BY <1>1, <1>2, <1>3
<1>6. ASSUME NEW m \in S
      PROVE  m \in Nat /\ m <= d
  <2>1. m \in 0 .. T /\ \A j \in 0 .. m - 1 : txring[TxAfter(h, j)].done
    BY <1>1
  <2>2. d < T => d \notin 0 .. m - 1
    BY <1>4, <2>1
  <2>3. QED
    BY <1>2, <2>1, <2>2
<1> HIDE DEF S
<1>7. Max(S) = d
  BY <1>2, <1>5, <1>6, MaxUpTo
<1>8. QED
  BY <1>7 DEF TxDone, S

\* The frames that the handler has found are told to the processes.
LEMMA eth_rxPacketsOK ==
  ASSUME EthIInv, eth_rxPackets
  PROVE  EthIInv'
<1>1. PICK k, d : RxAt(k) /\ TxAt(d)
  BY DEF EthIInv
<1>2. PICK h, n, R : h = rxhead /\ n = Len(ethin) /\ R = E1000_RX_RING_SIZE
  OBVIOUS
<1>3. EthTypes /\ EthWaiting
  BY DEF EthIInv
<1>4. R \in Nat \ {0} /\ h \in RxIndex /\ n \in Nat /\ k \in 0 .. n /\ n < R
  <2>1. /\ R \in Nat \ {0} /\ h \in RxIndex /\ n \in Nat /\ k \in 0 .. n
        /\ RxRoom(h) \in 1 .. R - 1 /\ n \in 0 .. RxRoom(h)
    BY <1>1, <1>2, <1>3, RxFacts, RxSizes DEF RxIndex
  <2>2. QED
    BY <2>1
<1>5. PICK m \in Nat : m = n - k
  BY <1>4
<1>6. /\ rxtail' = RxAfter(rxtail, m) /\ isem' = SignalledN(isem, m)
      /\ ethcall' = EthReleased(isem, m) /\ ethirq' = ethirq \ {"rx"}
      /\ UNCHANGED <<rxring, rxhead, rdh, rdt, ethin, txVars, icr, ethlast>>
  <2>1. RxFilled = m
    BY <1>1, <1>2, <1>3, <1>5, RxFilledIs
  <2>2. QED
    BY <2>1 DEF eth_rxPackets
<1>7. /\ ethcall' \in [EthProc -> EthCallOf]
      /\ \A p \in EthProc : Waits(SignalledN(isem, m), p) <=> ethcall'[p].op = "reads"
      /\ \A p \in EthProc : \A op \in EthOps \ {"reads", "read"} : ethcall'[p].op = op <=> ethcall[p].op = op
      /\ IsFiniteSet(EthWith("read")')
      /\ Admits(SignalledN(isem, m)) + Cardinality(EthWith("read")')
           = Admits(isem) + Cardinality(EthWith("read")) + m
  <2>1. isem \in SemOf(EthProc) /\ SemOK(isem) /\ IsFiniteSet(EthWith("read"))
        /\ \A p \in EthProc : Waits(isem, p) <=> ethcall[p].op = "reads"
    BY <1>3 DEF EthWaiting
  <2>2. QED
    BY <1>3, <1>6, <2>1, EthReleasedOK
<1>8. \A p \in EthProc : (ethcall'[p].op = "writes" <=> ethcall[p].op = "writes")
                         /\ (ethcall'[p].op = "write" <=> ethcall[p].op = "write")
  BY <1>7 DEF EthOps
<1>9. EthWith("write")' = EthWith("write")
  BY <1>8 DEF EthWith
<1>10. EthWaiting'
  <2>1. isem' \in SemOf(EthProc) /\ SemOK(isem')
    BY <1>3, <1>6, SemSignalledN DEF EthWaiting
  <2>2. osem' = osem
    BY <1>6 DEF txVars
  <2>3. \A p \in EthProc : Waits(osem', p) <=> ethcall'[p].op = "writes"
    BY <1>3, <1>8, <2>2 DEF EthWaiting
  <2>4. \A p \in EthProc : Waits(isem', p) <=> ethcall'[p].op = "reads"
    BY <1>6, <1>7
  <2>5. QED
    BY <1>3, <1>7, <1>9, <2>1, <2>2, <2>3, <2>4 DEF EthWaiting
<1>11. rxtail' = RxAfter(h, n) /\ rxtail' \in RxIndex
  <2>1. rxtail = RxAfter(h, k)
    BY <1>1, <1>2 DEF RxAt
  <2>2. k \in Nat /\ m \in Nat /\ k + m <= R /\ k + m = n /\ n \in 0 .. R
    BY <1>4, <1>5
  <2>3. RxAfter(RxAfter(h, k), m) = RxAfter(h, n)
    <3>1. RxAfter(RxAfter(h, k), m) = RxAfter(h, k + m)
      BY <1>2, <1>4, <2>2, RxFurther
    <3>2. QED
      BY <2>2, <3>1
  <2>4. RxAfter(h, n) \in RxIndex
    BY <1>2, <1>4, <2>2, RxTurns
  <2>5. QED
    BY <1>6, <2>1, <2>3, <2>4
<1>12. EthTypes'
  BY <1>3, <1>6, <1>7, <1>11 DEF EthTypes, txVars
<1>13. RxAt(n)'
  <2>1. rxhead' = h /\ Len(ethin') = n /\ ethin' = ethin /\ rxring' = rxring /\ rdh' = rdh /\ rdt' = rdt
    BY <1>2, <1>6
  <2>2. n \in 0 .. n /\ ~(n < n)
    BY <1>4
  <2>3. Admits(isem) + Cardinality(EthWith("read")) = k
    BY <1>1 DEF RxAt
  <2>4. Admits(isem') + Cardinality(EthWith("read")') = n
    BY <1>4, <1>5, <1>6, <1>7, <2>3
  <2>5. QED
    BY <1>1, <1>2, <1>11, <2>1, <2>2, <2>4 DEF RxAt
<1>14. TxAt(d)'
  <2>1. "tx" \in icr \cup ethirq => "tx" \in icr' \cup ethirq'
    BY <1>6
  <2>2. QED
    BY <1>1, <1>6, <1>9, <2>1, TxKept
<1>15. QED
  BY <1>10, <1>12, <1>13, <1>14 DEF EthIInv

\* The descriptors that were sent are reclaimed, the DD bit included, and told
\* to the processes.
LEMMA eth_txPacketsOK ==
  ASSUME EthIInv, eth_txPackets
  PROVE  EthIInv'
<1>1. PICK k, d : RxAt(k) /\ TxAt(d)
  BY DEF EthIInv
<1>2. PICK h, o, T, g : h = txhead /\ o = Len(ethout) /\ T = E1000_TX_RING_SIZE /\ g = TxAfter(h, d)
  OBVIOUS
<1>3. EthTypes /\ EthWaiting
  BY DEF EthIInv
<1>4. T \in Nat \ {0} /\ h \in TxIndex /\ o \in Nat /\ d \in 0 .. T /\ d + o \in 0 .. T
  BY <1>1, <1>2, <1>3, TxFacts, EthAssumption DEF TxIndex
<1>5. TxDone = d
  BY <1>1, <1>3, TxDoneIs
<1>6. /\ txring' = [i \in TxIndex |->
             IF \E j \in 0 .. d - 1 : i = TxAfter(h, j) THEN TxFree ELSE txring[i]]
      /\ txhead' = g /\ osem' = SignalledN(osem, d) /\ ethcall' = EthReleased(osem, d)
      /\ ethirq = {"tx"} /\ ethirq' = {}
      /\ UNCHANGED <<txtail, tdh, tdt, ethout, ethspoilt, rxVars, icr, ethlast>>
  BY <1>2, <1>5 DEF eth_txPackets, TxCleared
<1>7. /\ ethcall' \in [EthProc -> EthCallOf]
      /\ \A p \in EthProc : Waits(SignalledN(osem, d), p) <=> ethcall'[p].op = "writes"
      /\ \A p \in EthProc : \A op \in EthOps \ {"writes", "write"} : ethcall'[p].op = op <=> ethcall[p].op = op
      /\ IsFiniteSet(EthWith("write")')
      /\ Admits(SignalledN(osem, d)) + Cardinality(EthWith("write")')
           = Admits(osem) + Cardinality(EthWith("write")) + d
  <2>1. osem \in SemOf(EthProc) /\ SemOK(osem) /\ IsFiniteSet(EthWith("write"))
        /\ \A p \in EthProc : Waits(osem, p) <=> ethcall[p].op = "writes"
    BY <1>3 DEF EthWaiting
  <2>2. d \in Nat
    BY <1>4
  <2>3. QED
    BY <1>3, <1>6, <2>1, <2>2, EthReleasedOK
<1>8. \A p \in EthProc : (ethcall'[p].op = "reads" <=> ethcall[p].op = "reads")
                         /\ (ethcall'[p].op = "read" <=> ethcall[p].op = "read")
  BY <1>7 DEF EthOps
<1>9. EthWith("read")' = EthWith("read")
  BY <1>8 DEF EthWith
<1>10. EthWaiting'
  <2>1. osem' \in SemOf(EthProc) /\ SemOK(osem')
    BY <1>3, <1>4, <1>6, SemSignalledN DEF EthWaiting
  <2>2. isem' = isem
    BY <1>6 DEF rxVars
  <2>3. \A p \in EthProc : Waits(isem', p) <=> ethcall'[p].op = "reads"
    BY <1>3, <1>8, <2>2 DEF EthWaiting
  <2>4. \A p \in EthProc : Waits(osem', p) <=> ethcall'[p].op = "writes"
    BY <1>6, <1>7
  <2>5. QED
    BY <1>3, <1>7, <1>9, <2>1, <2>2, <2>3, <2>4 DEF EthWaiting
<1>11. tdh = TxAfter(h, d) /\ tdt = txtail /\ txtail = TxAfter(h, d + o)
  BY <1>1, <1>2 DEF TxAt
<1>12. g \in TxIndex /\ TxAfter(g, 0) = g
  BY <1>2, <1>4, TxTurns
<1>13. \A j \in Nat : d + j <= T => TxAfter(g, j) = TxAfter(h, d + j)
  <2>1. d \in Nat
    BY <1>4
  <2>2. QED
    BY <1>2, <1>4, <2>1, TxFurther
<1>14. /\ \A j \in 0 .. T : TxAfter(g, j) \in TxIndex
       /\ \A i, j \in 0 .. T - 1 : TxAfter(g, i) = TxAfter(g, j) => i = j
  BY <1>2, <1>12, TxTurns
<1>15. \A i, j \in 0 .. T - 1 : TxAfter(h, i) = TxAfter(h, j) => i = j
  BY <1>2, <1>4, TxTurns
<1>16. /\ \A j \in d .. d + o - 1 : txring[TxAfter(h, j)] = [frame |-> ethout[j - d + 1], done |-> FALSE]
       /\ \A j \in d + o .. T - 1 : txring[TxAfter(h, j)] = TxFree
  BY <1>1, <1>2, <1>3, TxRing
<1>17. ASSUME NEW j \in 0 .. T - 1
       PROVE  txring'[TxAfter(g, j)] = IF j < o THEN [frame |-> ethout[j + 1], done |-> FALSE] ELSE TxFree
  <2>1. TxAfter(g, j) \in TxIndex
    BY <1>4, <1>14
  <2>2. PICK i \in 0 .. T - 1 : TxAfter(g, j) = TxAfter(h, i)
    BY <1>2, <1>4, <2>1, TxTurns
  <2>3. CASE i < d
    <3>1. i \in 0 .. d - 1
      BY <1>4, <2>3
    <3>2. txring'[TxAfter(g, j)] = TxFree
      BY <1>6, <2>1, <2>2, <3>1
    <3>3. ~(j < o)
      <4>1. SUFFICES ASSUME j < o
                     PROVE  FALSE
        OBVIOUS
      <4>2. j \in Nat /\ d + j <= T /\ d + j \in 0 .. T - 1 /\ d + j # i
        BY <1>4, <2>3, <4>1
      <4>3. TxAfter(h, d + j) = TxAfter(h, i)
        BY <1>13, <2>2, <4>2
      <4>4. QED
        BY <1>15, <4>2, <4>3
    <3>4. QED
      BY <3>2, <3>3
  <2>4. CASE i >= d
    <3>1. i - d \in Nat /\ i - d \in 0 .. T - 1 /\ d + (i - d) = i /\ d + (i - d) <= T
      BY <1>4, <2>4
    <3>2. TxAfter(g, i - d) = TxAfter(h, i)
      <4>1. TxAfter(g, i - d) = TxAfter(h, d + (i - d))
        BY <1>13, <3>1
      <4>2. QED
        BY <3>1, <4>1
    <3>3. j = i - d
      BY <1>14, <2>2, <3>1, <3>2
    <3>4. ~\E m \in 0 .. d - 1 : TxAfter(h, i) = TxAfter(h, m)
      <4>1. \A m \in 0 .. d - 1 : m \in 0 .. T - 1 /\ m # i
        BY <1>4, <2>4
      <4>2. QED
        BY <1>15, <4>1
    <3>5. txring'[TxAfter(g, j)] = txring[TxAfter(h, i)]
      BY <1>6, <2>1, <2>2, <3>4
    <3>6. CASE j < o
      <4>1. i \in d .. d + o - 1 /\ i - d + 1 = j + 1
        BY <1>4, <3>1, <3>3, <3>6
      <4>2. QED
        BY <1>16, <3>5, <3>6, <4>1
    <3>7. CASE ~(j < o)
      <4>1. i \in d + o .. T - 1
        BY <1>4, <3>1, <3>3, <3>7
      <4>2. QED
        BY <1>16, <3>5, <3>7, <4>1
    <3>8. QED
      BY <3>6, <3>7
  <2>5. QED
    BY <1>4, <2>3, <2>4
<1>18. EthTypes'
  <2>1. TxFree \in [frame : EthFrames \cup {0}, done : BOOLEAN]
    BY DEF TxFree
  <2>2. txring' \in [TxIndex -> [frame : EthFrames \cup {0}, done : BOOLEAN]]
    BY <1>3, <1>6, <2>1 DEF EthTypes
  <2>3. QED
    BY <1>3, <1>6, <1>7, <1>12, <2>2 DEF EthTypes, rxVars
<1>19. TxAt(0)'
  <2>1. txhead' = g /\ Len(ethout') = o /\ ethout' = ethout /\ tdh' = tdh /\ tdt' = tdt /\ txtail' = txtail
        /\ ethspoilt' = ethspoilt
    BY <1>2, <1>6
  <2>2. tdh' = TxAfter(g, 0) /\ txtail' = TxAfter(g, 0 + o) /\ tdt' = txtail'
    <3>1. TxAfter(g, o) = TxAfter(h, d + o) /\ 0 + o = o
      BY <1>4, <1>13
    <3>2. QED
      BY <1>2, <1>11, <1>12, <2>1, <3>1
  <2>3. Admits(osem') + Cardinality(EthWith("write")') = T - 0 - o
    <3>1. Admits(osem) + Cardinality(EthWith("write")) = T - d - o
      BY <1>1, <1>2 DEF TxAt
    <3>2. QED
      BY <1>4, <1>6, <1>7, <3>1
  <2>4. \A j \in 0 .. T - 1 :
          IF j < 0 THEN txring'[TxAfter(g, j)].done
          ELSE txring'[TxAfter(g, j)] =
                 IF j < 0 + o THEN [frame |-> ethout'[j - 0 + 1], done |-> FALSE] ELSE TxFree
    <3>1. \A j \in 0 .. T - 1 : ~(j < 0) /\ (j < 0 + o <=> j < o) /\ j - 0 + 1 = j + 1
      BY <1>4
    <3>2. QED
      BY <1>17, <2>1, <3>1
  <2>5. 0 + o <= T /\ (~ethspoilt' => o < T)
    BY <1>1, <1>2, <1>4, <2>1 DEF TxAt
  <2>6. QED
    BY <1>2, <2>1, <2>2, <2>3, <2>4, <2>5 DEF TxAt
<1>20. RxAt(k)'
  <2>1. "rx" \in icr \cup ethirq => "rx" \in icr' \cup ethirq'
    BY <1>6
  <2>2. QED
    BY <1>1, <1>6, <1>9, <2>1, RxKept
<1>21. QED
  BY <1>10, <1>18, <1>19, <1>20 DEF EthIInv

-----------------------------------------------------------------------------
(* The Ethernet driver: read.                                              *)

\* Half a ring is given back when its first descriptor is read: the tail that
\* the driver writes is the one after all that the controller may fill.
LEMMA RoomAfterRead ==
  ASSUME NEW h \in RxIndex
  PROVE  /\ RxAfter(RxAfter(h, 1), RxRoom(RxAfter(h, 1))) =
              IF h % E1000_RING_BOUNDARY = 0
                THEN RxAfter(RxAfter(h, RxRoom(h)), E1000_RING_BOUNDARY)
                ELSE RxAfter(h, RxRoom(h))
         /\ RxRoom(h) - 1 <= RxRoom(RxAfter(h, 1))
<1>1. PICK B, R : B = E1000_RING_BOUNDARY /\ R = E1000_RX_RING_SIZE
  OBVIOUS
<1>2. B \in Nat \ {0} /\ R \in Nat /\ R = 2 * B /\ RxIndex = 0 .. R - 1 /\ h \in 0 .. R - 1
  BY <1>1, RxSizes DEF RxIndex
<1>3. \A i \in 0 .. R - 1 : \A n \in 0 .. R : RxAfter(i, n) = IF i + n < R THEN i + n ELSE i + n - R
  BY <1>1, <1>2, RxAfterIs
<1>4. \A i \in 0 .. R - 1 : RxRoom(i) = IF i = 0 THEN B ELSE IF i <= B THEN R - i ELSE R + B - i
  BY <1>1 DEF RxRoom
<1>5. \A i \in 0 .. R - 1 : RxRoom(i) \in 0 .. R
  BY <1>2, <1>4
<1>6. \A i \in 0 .. R - 1 : RxAfter(i, RxRoom(i)) = IF i \in 1 .. B THEN 0 ELSE B
  <2>1. ASSUME NEW i \in 0 .. R - 1
        PROVE  RxAfter(i, RxRoom(i)) = IF i \in 1 .. B THEN 0 ELSE B
    <3>1. PICK n \in 0 .. R : n = RxRoom(i)
      BY <1>5
    <3>2. RxAfter(i, n) = IF i + n < R THEN i + n ELSE i + n - R
      BY <1>3
    <3>3. n = IF i = 0 THEN B ELSE IF i <= B THEN R - i ELSE R + B - i
      BY <1>4, <3>1
    <3>4. QED
      BY <1>2, <3>1, <3>2, <3>3
  <2>2. QED
    BY <2>1
<1>7. PICK g \in 0 .. R - 1 : g = RxAfter(h, 1) /\ g = IF h + 1 < R THEN h + 1 ELSE 0
  <2>1. 1 \in 0 .. R
    BY <1>2
  <2>2. RxAfter(h, 1) = IF h + 1 < R THEN h + 1 ELSE 0
    BY <1>2, <1>3, <2>1
  <2>3. QED
    BY <1>2, <2>2
<1>8. h % B = 0 <=> (h = 0 \/ h = B)
  <2>1. CASE h < B
    <3>1. h \in 0 .. B - 1
      BY <1>2, <2>1
    <3>2. h % B = h
      BY <1>2, <3>1, Wrap
    <3>3. QED
      BY <1>2, <2>1, <3>2
  <2>2. CASE h >= B
    <3>1. PICK x \in 0 .. B - 1 : x = h - B
      BY <1>2, <2>2
    <3>2. (x + B) % B = x /\ x + B = h
      BY <1>2, <3>1, Wrap
    <3>3. QED
      BY <1>2, <2>2, <3>1, <3>2
  <2>3. QED
    BY <1>2, <2>1, <2>2
<1>9. RxAfter(0, B) = B /\ RxAfter(B, B) = 0
  <2>1. 0 \in 0 .. R - 1 /\ B \in 0 .. R - 1 /\ B \in 0 .. R
    BY <1>2
  <2>2. QED
    BY <1>2, <1>3, <2>1
<1>10. RxAfter(g, RxRoom(g)) = IF h % B = 0 THEN RxAfter(RxAfter(h, RxRoom(h)), B) ELSE RxAfter(h, RxRoom(h))
  <2>1. CASE h = 0
    BY <1>2, <1>6, <1>7, <1>8, <1>9, <2>1
  <2>2. CASE h = B
    BY <1>2, <1>6, <1>7, <1>8, <1>9, <2>2
  <2>3. CASE h # 0 /\ h # B
    <3>1. h \in 1 .. B <=> g \in 1 .. B
      BY <1>2, <1>7, <2>3
    <3>2. QED
      BY <1>2, <1>6, <1>8, <2>3, <3>1
  <2>4. QED
    BY <2>1, <2>2, <2>3
<1>11. RxRoom(h) - 1 <= RxRoom(g)
  BY <1>2, <1>4, <1>7
<1>12. QED
  BY <1>1, <1>7, <1>10, <1>11

\* A reported frame is at the head, and the read takes it off.
LEMMA PickUpOK ==
  ASSUME EthTypes, NEW k, RxAt(k), k # 0, PickUp,
         Admits(isem') + Cardinality(EthWith("read")') = k - 1
  PROVE  /\ RxAt(k - 1)'
         /\ rxring' \in [RxIndex -> EthFrames \cup {0}]
         /\ rxhead' \in RxIndex /\ rdt' \in RxIndex
         /\ ethin' \in Seq(EthFrames) /\ ethlast' = ethlast
<1>1. PICK h, n, q, R, g : /\ h = rxhead /\ n = Len(ethin) /\ q = ethin /\ R = E1000_RX_RING_SIZE
                           /\ g = RxAfter(h, 1)
  OBVIOUS
<1>2. /\ R \in Nat \ {0} /\ h \in RxIndex /\ n \in Nat /\ k \in 0 .. n /\ n < R
      /\ RxRoom(h) \in 1 .. R - 1 /\ n \in 0 .. RxRoom(h)
  <2>1. /\ R \in Nat \ {0} /\ h \in RxIndex /\ n \in Nat /\ k \in 0 .. n
        /\ RxRoom(h) \in 1 .. R - 1 /\ n \in 0 .. RxRoom(h)
    BY <1>1, RxFacts, RxSizes DEF RxIndex
  <2>2. QED
    BY <2>1
<1>3. /\ n - 1 \in Nat /\ k - 1 \in 0 .. n - 1 /\ n # 0 /\ R >= 2
  BY <1>2
<1>4. /\ rxring' = [rxring EXCEPT ![h] = 0]
      /\ rdt' = IF h % E1000_RING_BOUNDARY = 0 THEN RxAfter(rdt, E1000_RING_BOUNDARY) ELSE rdt
      /\ rxhead' = g
      /\ UNCHANGED <<rxtail, rdh, icr, ethirq>>
  BY <1>1 DEF PickUp, GivesBack
<1>5. ethin \in Seq(EthFrames) /\ ethin # <<>> /\ Head(ethin) = q[1]
  BY <1>1, <1>3 DEF EthTypes
<1>6. Tail(ethin) \in Seq(EthFrames) /\ Len(Tail(ethin)) = n - 1
      /\ \A j \in 1 .. n - 1 : Tail(ethin)[j] = q[j + 1]
  <2>1. Tail(ethin) \in Seq(EthFrames)
    BY <1>5, HeadTailProperties
  <2>2. Len(Tail(ethin)) = n - 1
    BY <1>1, <1>5, HeadTailProperties
  <2>3. \A j \in 1 .. n - 1 : Tail(ethin)[j] = q[j + 1]
    BY <1>1, <1>5, <2>2, HeadTailProperties
  <2>4. QED
    BY <2>1, <2>2, <2>3
<1>7. ethin' = Tail(ethin)
  BY <1>5 DEF PickUp
<1>8. /\ rdt = RxAfter(h, RxRoom(h)) /\ rdh = RxAfter(h, n) /\ rxtail = RxAfter(h, k)
      /\ \A j \in 0 .. R - 1 : rxring[RxAfter(h, j)] = IF j < n THEN q[j + 1] ELSE 0
  BY <1>1 DEF RxAt
<1>9. /\ RxAfter(h, 0) = h
      /\ \A j \in 0 .. R : RxAfter(h, j) \in RxIndex
      /\ \A j, m \in 0 .. R - 1 : RxAfter(h, j) = RxAfter(h, m) => j = m
  BY <1>1, <1>2, RxTurns
<1>10. RxAfter(h, R) = h
  <2>1. R \in 0 .. R /\ h \in 0 .. R - 1
    BY <1>1, <1>2 DEF RxIndex
  <2>2. RxAfter(h, R) = IF h + R < R THEN h + R ELSE h + R - R
    BY <1>1, <1>2, <2>1, RxAfterIs
  <2>3. QED
    BY <1>2, <2>1, <2>2
<1>11. g \in RxIndex
  <2>1. 1 \in 0 .. R
    BY <1>2, <1>3
  <2>2. QED
    BY <1>1, <1>9, <2>1
<1>12. \A j \in Nat : 1 + j <= R => RxAfter(g, j) = RxAfter(h, 1 + j)
  <2>1. 1 \in Nat
    OBVIOUS
  <2>2. QED
    BY <1>1, <1>2, <2>1, RxFurther
<1>13. rxring[h] = q[1]
  <2>1. 0 \in 0 .. R - 1 /\ 0 < n /\ 0 + 1 = 1
    BY <1>2, <1>3
  <2>2. QED
    BY <1>8, <1>9, <2>1
<1>14. ethlast' = ethlast
  BY <1>1, <1>5, <1>13 DEF PickUp
<1>15. rdt' = RxAfter(g, RxRoom(g)) /\ n - 1 <= RxRoom(g)
  <2>1. RxAfter(g, RxRoom(g)) =
              IF h % E1000_RING_BOUNDARY = 0
                THEN RxAfter(RxAfter(h, RxRoom(h)), E1000_RING_BOUNDARY)
                ELSE RxAfter(h, RxRoom(h))
    BY <1>1, <1>2, RoomAfterRead
  <2>2. RxRoom(h) - 1 <= RxRoom(g)
    BY <1>1, <1>2, RoomAfterRead
  <2>3. RxRoom(g) \in Int
    BY <1>11, RxSizes DEF RxRoom, RxIndex
  <2>4. n - 1 <= RxRoom(g)
    BY <1>2, <2>2, <2>3
  <2>5. QED
    BY <1>4, <1>8, <2>1, <2>4
<1>16. rdt' \in RxIndex
  <2>1. rdt \in RxIndex
    BY DEF EthTypes
  <2>2. E1000_RING_BOUNDARY \in 0 .. R
    BY <1>1, RxSizes
  <2>3. RxAfter(rdt, E1000_RING_BOUNDARY) \in RxIndex
    BY <1>1, <2>1, <2>2, RxTurns
  <2>4. QED
    BY <1>4, <2>1, <2>3
<1>17. rdh' = RxAfter(g, n - 1) /\ rxtail' = RxAfter(g, k - 1)
  <2>1. n - 1 \in Nat /\ 1 + (n - 1) = n /\ n <= R /\ k - 1 \in Nat /\ 1 + (k - 1) = k /\ k <= R
    BY <1>2, <1>3
  <2>2. RxAfter(g, n - 1) = RxAfter(h, n)
    BY <1>12, <2>1
  <2>3. RxAfter(g, k - 1) = RxAfter(h, k)
    BY <1>12, <2>1
  <2>4. QED
    BY <1>4, <1>8, <2>2, <2>3
<1>18. rxring \in [RxIndex -> EthFrames \cup {0}]
  BY DEF EthTypes
<1>19. ASSUME NEW j \in 0 .. R - 1
       PROVE  rxring'[RxAfter(g, j)] = IF j < n - 1 THEN ethin'[j + 1] ELSE 0
  <2>1. CASE j = R - 1
    <3>1. RxAfter(g, j) = h /\ ~(j < n - 1)
      <4>1. j \in Nat /\ 1 + j = R /\ 1 + j <= R
        BY <1>2, <2>1
      <4>2. RxAfter(g, j) = RxAfter(h, 1 + j)
        BY <1>12, <4>1
      <4>3. QED
        BY <1>2, <1>10, <2>1, <4>1, <4>2
    <3>2. QED
      BY <1>2, <1>4, <1>18, <3>1
  <2>2. CASE j # R - 1
    <3>1. j \in Nat /\ 1 + j <= R /\ 1 + j \in 0 .. R - 1 /\ 1 + j # 0
      BY <1>2, <2>2
    <3>2. RxAfter(g, j) = RxAfter(h, 1 + j)
      BY <1>12, <3>1
    <3>3. RxAfter(h, 1 + j) # h
      <4>1. 0 \in 0 .. R - 1
        BY <1>2
      <4>2. QED
        BY <1>9, <3>1, <4>1
    <3>4. rxring'[RxAfter(g, j)] = rxring[RxAfter(h, 1 + j)]
      BY <1>4, <3>2, <3>3
    <3>5. rxring[RxAfter(h, 1 + j)] = IF 1 + j < n THEN q[1 + j + 1] ELSE 0
      BY <1>8, <3>1
    <3>6. CASE j < n - 1
      <4>1. 1 + j < n /\ j + 1 \in 1 .. n - 1 /\ 1 + j + 1 = j + 1 + 1
        BY <1>2, <3>6
      <4>2. Tail(ethin)[j + 1] = q[j + 1 + 1]
        BY <1>6, <4>1
      <4>3. QED
        BY <1>7, <3>4, <3>5, <3>6, <4>1, <4>2
    <3>7. CASE ~(j < n - 1)
      <4>1. ~(1 + j < n)
        BY <1>2, <3>7
      <4>2. QED
        BY <3>4, <3>5, <3>7, <4>1
    <3>8. QED
      BY <3>6, <3>7
  <2>3. QED
    BY <2>1, <2>2
<1>20. RxAt(k - 1)'
  <2>1. Len(ethin') = n - 1
    BY <1>6, <1>7
  <2>2. k - 1 < n - 1 => "rx" \in icr' \cup ethirq'
    <3>1. k - 1 < n - 1 => k < n
      BY <1>2
    <3>2. QED
      BY <1>1, <1>4, <3>1 DEF RxAt
  <2>3. QED
    BY <1>1, <1>3, <1>4, <1>15, <1>17, <1>19, <2>1, <2>2 DEF RxAt
<1>21. rxring' \in [RxIndex -> EthFrames \cup {0}]
  BY <1>4, <1>18
<1>22. QED
  BY <1>4, <1>6, <1>7, <1>11, <1>14, <1>16, <1>20, <1>21

\* What a process of EthProc goes on with.
LEMMA EthGoes ==
  ASSUME EthTypes, NEW p \in EthProc, NEW c \in EthCallOf, ethcall' = [ethcall EXCEPT ![p] = c]
  PROVE  /\ ethcall' \in [EthProc -> EthCallOf]
         /\ ethcall'[p] = c
         /\ \A q \in EthProc : q # p => ethcall'[q] = ethcall[q]
BY DEF EthTypes

\* A process that was released goes on, and is then done.
LEMMA EthDone ==
  ASSUME EthTypes, EthWaiting, NEW p \in EthProc, NEW b, b = "read" \/ b = "write",
         ethcall[p].op = b, ethcall' = [ethcall EXCEPT ![p] = EthIdle],
         UNCHANGED <<isem, osem>>
  PROVE  /\ ethcall' \in [EthProc -> EthCallOf]
         /\ EthWaiting'
         /\ \A a \in EthOps \ {"idle", b} : EthWith(a)' = EthWith(a)
         /\ Cardinality(EthWith(b)) # 0
         /\ Cardinality(EthWith(b)') = Cardinality(EthWith(b)) - 1
<1>1. EthIdle \in EthCallOf /\ EthIdle.op = "idle"
  BY DEF EthCallOf, EthIdle
<1>2. /\ ethcall' \in [EthProc -> EthCallOf]
      /\ ethcall'[p] = EthIdle
      /\ \A q \in EthProc : q # p => ethcall'[q] = ethcall[q]
  BY <1>1, EthGoes
<1>3. \A a \in EthOps \ {"idle", b} : EthWith(a)' = EthWith(a)
  BY <1>1, <1>2 DEF EthWith, EthOps
<1>4. EthWith(b)' = EthWith(b) \ {p} /\ p \in EthWith(b)
  BY <1>1, <1>2 DEF EthWith
<1>5. IsFiniteSet(EthWith(b))
  BY DEF EthWaiting
<1>6. IsFiniteSet(EthWith(b)') /\ Cardinality(EthWith(b)') = Cardinality(EthWith(b)) - 1
  BY <1>4, <1>5, FS_RemoveElement
<1>7. Cardinality(EthWith(b)) # 0
  <2>1. Cardinality(EthWith(b)') \in Nat
    BY <1>6, FS_CardinalityType
  <2>2. QED
    BY <1>6, <2>1
<1>8. \A q \in EthProc : /\ ethcall'[q].op = "reads" <=> ethcall[q].op = "reads"
                         /\ ethcall'[q].op = "writes" <=> ethcall[q].op = "writes"
  BY <1>1, <1>2
<1>9. IsFiniteSet(EthWith("read")') /\ IsFiniteSet(EthWith("write")')
  <2>1. IsFiniteSet(EthWith("read")) /\ IsFiniteSet(EthWith("write"))
    BY DEF EthWaiting
  <2>2. QED
    BY <1>3, <1>6, <2>1 DEF EthOps
<1>10. EthWaiting'
  BY <1>8, <1>9 DEF EthWaiting
<1>11. QED
  BY <1>2, <1>3, <1>6, <1>7, <1>10

LEMMA ethreadOK ==
  ASSUME EthIInv, NEW p \in EthProc, ethread(p)
  PROVE  EthIInv'
<1>1. PICK k, d : RxAt(k) /\ TxAt(d)
  BY DEF EthIInv
<1>2. EthTypes /\ EthWaiting
  BY DEF EthIInv
<1>3. ethcall[p] = EthIdle /\ ethcall[p].op = "idle" /\ isem' = Waited(isem, p)
  BY DEF ethread, EthIdle
<1>4. isem \in SemOf(EthProc) /\ SemOK(isem) /\ ~Waits(isem, p)
  BY <1>2, <1>3 DEF EthWaiting
<1>5. /\ Waited(isem, p) \in SemOf(EthProc) /\ SemOK(Waited(isem, p))
      /\ \A q : Waits(Waited(isem, p), q) <=> (Waits(isem, q) \/ (Blocks(isem) /\ q = p))
  BY <1>4, SemWaited
<1>6. Admits(isem) + Cardinality(EthWith("read")) = k
  BY <1>1 DEF RxAt
<1>7. Admits(isem) \in Nat /\ Cardinality(EthWith("read")) \in Nat
  BY <1>2, <1>4, AdmitsWaited, FS_CardinalityType DEF EthWaiting
<1>8. CASE Blocks(isem)
  <2> DEFINE c == [op |-> "reads"]
  <2>1. /\ ethcall' = [ethcall EXCEPT ![p] = c]
        /\ UNCHANGED <<rxring, rxhead, rxtail, rdh, rdt, ethin, txVars, icr, ethirq, ethlast>>
    BY <1>8 DEF ethread
  <2>2. c \in EthCallOf /\ c.op = "reads"
    BY DEF EthCallOf
  <2> HIDE DEF c
  <2>3. /\ ethcall' \in [EthProc -> EthCallOf]
        /\ ethcall'[p] = c
        /\ \A q \in EthProc : q # p => ethcall'[q] = ethcall[q]
    BY <1>2, <2>1, <2>2, EthGoes
  <2>4. EthWith("read")' = EthWith("read") /\ EthWith("write")' = EthWith("write")
    BY <1>3, <2>2, <2>3 DEF EthWith
  <2>5. EthWaiting'
    <3>1. \A q \in EthProc : Waits(isem', q) <=> ethcall'[q].op = "reads"
      BY <1>2, <1>3, <1>5, <1>8, <2>2, <2>3 DEF EthWaiting
    <3>2. osem' = osem
      BY <2>1 DEF txVars
    <3>3. \A q \in EthProc : Waits(osem', q) <=> ethcall'[q].op = "writes"
      BY <1>2, <1>3, <2>2, <2>3, <3>2 DEF EthWaiting
    <3>4. QED
      BY <1>2, <1>3, <1>5, <2>4, <3>1, <3>2, <3>3 DEF EthWaiting
  <2>6. EthTypes'
    BY <1>2, <2>1, <2>3 DEF EthTypes, txVars
  <2>7. TxAt(d)'
    BY <1>1, <2>1, <2>4, TxKept
  <2>8. Admits(isem') = Admits(isem)
    BY <1>3, <1>4, <1>8, AdmitsWaited
  <2>9. RxAt(k)'
    BY <1>1, <2>1, <2>4, <2>8 DEF RxAt
  <2>10. QED
    BY <2>5, <2>6, <2>7, <2>9 DEF EthIInv
<1>9. CASE ~Blocks(isem)
  <2>1. PickUp /\ ethcall' = ethcall
    BY <1>9 DEF ethread
  <2>2. UNCHANGED <<rxtail, rdh, txVars, icr, ethirq>>
    BY <2>1 DEF PickUp
  <2>3. \A op : EthWith(op)' = EthWith(op)
    BY <2>1 DEF EthWith
  <2>4. Admits(isem) # 0 /\ Admits(isem') = Admits(isem) - 1
    BY <1>3, <1>4, <1>9, AdmitsWaited
  <2>5. k # 0 /\ Admits(isem') + Cardinality(EthWith("read")') = k - 1
    <3>1. Cardinality(EthWith("read")') = Cardinality(EthWith("read"))
      BY <2>3
    <3>2. QED
      BY <1>6, <1>7, <2>4, <3>1
  <2>6. /\ RxAt(k - 1)'
        /\ rxring' \in [RxIndex -> EthFrames \cup {0}]
        /\ rxhead' \in RxIndex /\ rdt' \in RxIndex
        /\ ethin' \in Seq(EthFrames) /\ ethlast' = ethlast
    BY <1>1, <1>2, <2>1, <2>5, PickUpOK
  <2>7. EthTypes'
    BY <1>2, <2>1, <2>2, <2>6 DEF EthTypes, txVars
  <2>8. TxAt(d)'
    BY <1>1, <2>2, <2>3, TxKept
  <2>9. EthWaiting'
    <3>1. osem' = osem
      BY <2>2 DEF txVars
    <3>2. \A q \in EthProc : Waits(isem', q) <=> ethcall'[q].op = "reads"
      BY <1>2, <1>3, <1>5, <1>9, <2>1 DEF EthWaiting
    <3>3. QED
      BY <1>2, <1>3, <1>5, <2>1, <2>3, <3>1, <3>2 DEF EthWaiting
  <2>10. QED
    BY <2>6, <2>7, <2>8, <2>9 DEF EthIInv
<1>10. QED
  BY <1>8, <1>9

LEMMA ethreadGoesOnOK ==
  ASSUME EthIInv, NEW p \in EthProc, ethreadGoesOn(p)
  PROVE  EthIInv'
<1>1. PICK k, d : RxAt(k) /\ TxAt(d)
  BY DEF EthIInv
<1>2. EthTypes /\ EthWaiting
  BY DEF EthIInv
<1>3. /\ ethcall[p].op = "read" /\ PickUp
      /\ ethcall' = [ethcall EXCEPT ![p] = EthIdle] /\ isem' = isem
  BY DEF ethreadGoesOn
<1>4. UNCHANGED <<rxtail, rdh, txVars, icr, ethirq>> /\ osem' = osem
  BY <1>3 DEF PickUp, txVars
<1>5. /\ ethcall' \in [EthProc -> EthCallOf]
      /\ EthWaiting'
      /\ \A a \in EthOps \ {"idle", "read"} : EthWith(a)' = EthWith(a)
      /\ Cardinality(EthWith("read")) # 0
      /\ Cardinality(EthWith("read")') = Cardinality(EthWith("read")) - 1
  BY <1>2, <1>3, <1>4, EthDone
<1>6. k # 0 /\ Admits(isem') + Cardinality(EthWith("read")') = k - 1
  <2>1. Admits(isem) + Cardinality(EthWith("read")) = k
    BY <1>1 DEF RxAt
  <2>2. isem.count \in Int
    BY <1>2 DEF EthWaiting, SemOf
  <2>3. Admits(isem) \in Nat
    BY <2>2 DEF Admits
  <2>4. Cardinality(EthWith("read")) \in Nat
    BY <1>2, FS_CardinalityType DEF EthWaiting
  <2>5. QED
    BY <1>3, <1>5, <2>1, <2>3, <2>4
<1>7. /\ RxAt(k - 1)'
      /\ rxring' \in [RxIndex -> EthFrames \cup {0}]
      /\ rxhead' \in RxIndex /\ rdt' \in RxIndex
      /\ ethin' \in Seq(EthFrames) /\ ethlast' = ethlast
  BY <1>1, <1>2, <1>3, <1>6, PickUpOK
<1>8. EthTypes'
  BY <1>2, <1>4, <1>5, <1>7 DEF EthTypes, txVars
<1>9. EthWith("write")' = EthWith("write")
  BY <1>5 DEF EthOps
<1>10. TxAt(d)'
  BY <1>1, <1>4, <1>9, TxKept
<1>11. QED
  BY <1>5, <1>7, <1>8, <1>10 DEF EthIInv

-----------------------------------------------------------------------------
(* The Ethernet driver: write.                                             *)

\* The frame goes to a free place, the one after all that are taken.
LEMMA InsertFrameOK ==
  ASSUME EthTypes, NEW d, TxAt(d), NEW f \in EthFrames, InsertFrame(f),
         d + Len(ethout) < E1000_TX_RING_SIZE,
         Admits(osem') + Cardinality(EthWith("write")') = E1000_TX_RING_SIZE - d - Len(ethout) - 1
  PROVE  /\ TxAt(d)'
         /\ txring' \in [TxIndex -> [frame : EthFrames \cup {0}, done : BOOLEAN]]
         /\ txtail' \in TxIndex /\ tdt' \in TxIndex
         /\ ethout' \in Seq(EthFrames) /\ ethspoilt' \in BOOLEAN
<1>1. PICK h, o, q, T : h = txhead /\ o = Len(ethout) /\ q = ethout /\ T = E1000_TX_RING_SIZE
  OBVIOUS
<1>2. T \in Nat \ {0} /\ h \in TxIndex /\ o \in Nat /\ d \in 0 .. T /\ d + o \in 0 .. T - 1
  BY <1>1, TxFacts, EthAssumption DEF TxIndex
<1>3. /\ txring' = [txring EXCEPT ![txtail] = [frame |-> f, done |-> FALSE]]
      /\ tdt' = TxAfter(tdt, 1) /\ txtail' = TxAfter(txtail, 1)
      /\ ethout' = Append(ethout, f) /\ ethspoilt' = (tdt' = tdh)
      /\ UNCHANGED <<txhead, tdh, icr, ethirq>>
  BY DEF InsertFrame, TxSlot
<1>4. tdh = TxAfter(h, d) /\ tdt = TxAfter(h, d + o) /\ txtail = TxAfter(h, d + o)
  BY <1>1 DEF TxAt
<1>5. /\ ethout' \in Seq(EthFrames) /\ Len(ethout') = o + 1
      /\ \A j \in 1 .. o : ethout'[j] = q[j]
      /\ ethout'[o + 1] = f
  <2>1. ethout \in Seq(EthFrames)
    BY DEF EthTypes
  <2>2. QED
    BY <1>1, <1>3, <2>1, AppendProperties
<1>6. /\ TxAfter(h, 0) = h
      /\ \A j \in 0 .. T : TxAfter(h, j) \in TxIndex
      /\ \A i, j \in 0 .. T - 1 : TxAfter(h, i) = TxAfter(h, j) => i = j
  BY <1>1, <1>2, TxTurns
<1>7. TxAfter(h, T) = h
  <2>1. T \in 0 .. T /\ h \in 0 .. T - 1
    BY <1>1, <1>2 DEF TxIndex
  <2>2. TxAfter(h, T) = IF h + T < T THEN h + T ELSE h + T - T
    BY <1>1, <1>2, <2>1, TxAfterIs
  <2>3. QED
    BY <1>2, <2>1, <2>2
<1>8. tdt' = TxAfter(h, d + (o + 1)) /\ txtail' = TxAfter(h, d + (o + 1))
  <2>1. d + o \in Nat /\ 1 \in Nat /\ d + o + 1 <= T
    BY <1>2
  <2>2. TxAfter(TxAfter(h, d + o), 1) = TxAfter(h, d + o + 1)
    BY <1>1, <1>2, <2>1, TxFurther
  <2>3. d + o + 1 = d + (o + 1)
    BY <1>2
  <2>4. QED
    BY <1>3, <1>4, <2>2, <2>3
<1>9. ~ethspoilt' => o + 1 < T
  <2>1. ASSUME o + 1 >= T
        PROVE  tdt' = tdh
    <3>1. d = 0 /\ d + (o + 1) = T
      BY <1>2, <2>1
    <3>2. QED
      BY <1>4, <1>6, <1>7, <1>8, <3>1
  <2>2. ~ethspoilt' => tdt' # tdh
    BY <1>3
  <2>3. o + 1 < T \/ o + 1 >= T
    BY <1>2
  <2>4. QED
    BY <2>1, <2>2, <2>3
<1>10. txring \in [TxIndex -> [frame : EthFrames \cup {0}, done : BOOLEAN]]
  BY DEF EthTypes
<1>11. txring' \in [TxIndex -> [frame : EthFrames \cup {0}, done : BOOLEAN]]
  BY <1>3, <1>10
<1>12. /\ \A j \in 0 .. d - 1 : txring[TxAfter(h, j)].done
       /\ \A j \in d .. d + o - 1 : txring[TxAfter(h, j)] = [frame |-> q[j - d + 1], done |-> FALSE]
       /\ \A j \in d + o .. T - 1 : txring[TxAfter(h, j)] = TxFree
  BY <1>1, TxRing
<1>13. /\ \A j \in 0 .. T - 1 : j # d + o => txring'[TxAfter(h, j)] = txring[TxAfter(h, j)]
       /\ txring'[TxAfter(h, d + o)] = [frame |-> f, done |-> FALSE]
  <2>1. \A j \in 0 .. T - 1 : TxAfter(h, j) \in TxIndex
    BY <1>2, <1>6
  <2>2. \A j \in 0 .. T - 1 : TxAfter(h, j) = TxAfter(h, d + o) => j = d + o
    BY <1>2, <1>6
  <2>3. TxAfter(h, d + o) \in TxIndex
    BY <1>2, <2>1
  <2>4. QED
    BY <1>3, <1>4, <1>10, <2>1, <2>2, <2>3
<1>14. ASSUME NEW j \in 0 .. T - 1
       PROVE  IF j < d THEN txring'[TxAfter(h, j)].done
              ELSE txring'[TxAfter(h, j)] =
                     IF j < d + (o + 1) THEN [frame |-> ethout'[j - d + 1], done |-> FALSE] ELSE TxFree
  <2>1. CASE j < d
    <3>1. j \in 0 .. d - 1 /\ j # d + o
      BY <1>2, <2>1
    <3>2. QED
      BY <1>12, <1>13, <2>1, <3>1
  <2>2. CASE j >= d /\ j < d + o
    <3>1. j \in d .. d + o - 1 /\ j # d + o /\ ~(j < d) /\ j < d + (o + 1)
      BY <1>2, <2>2
    <3>2. txring'[TxAfter(h, j)] = [frame |-> q[j - d + 1], done |-> FALSE]
      BY <1>12, <1>13, <3>1
    <3>3. j - d + 1 \in 1 .. o
      BY <1>2, <2>2
    <3>4. QED
      BY <1>5, <3>1, <3>2, <3>3
  <2>3. CASE j = d + o
    <3>1. ~(j < d) /\ j < d + (o + 1) /\ j - d + 1 = o + 1
      BY <1>2, <2>3
    <3>2. QED
      BY <1>5, <1>13, <2>3, <3>1
  <2>4. CASE j > d + o
    <3>1. j \in d + o .. T - 1 /\ j # d + o /\ ~(j < d) /\ ~(j < d + (o + 1))
      BY <1>2, <2>4
    <3>2. QED
      BY <1>12, <1>13, <3>1
  <2>5. QED
    BY <1>2, <2>1, <2>2, <2>3, <2>4
<1>15. TxAt(d)'
  <2>1. d \in Nat /\ d + (o + 1) <= T /\ T - d - o - 1 = T - d - (o + 1)
    BY <1>2
  <2>2. Admits(osem') + Cardinality(EthWith("write")') = T - d - (o + 1)
    BY <1>1, <2>1
  <2>3. txhead' = h /\ tdh' = TxAfter(h, d) /\ tdt' = txtail'
    BY <1>1, <1>3, <1>4, <1>8
  <2>4. d > 0 => "tx" \in icr' \cup ethirq'
    BY <1>3 DEF TxAt
  <2>5. QED
    BY <1>1, <1>5, <1>8, <1>9, <1>14, <2>1, <2>2, <2>3, <2>4 DEF TxAt
<1>16. txtail' \in TxIndex /\ tdt' \in TxIndex
  <2>1. d + (o + 1) \in 0 .. T
    BY <1>2
  <2>2. QED
    BY <1>6, <1>8, <2>1
<1>17. ethspoilt' \in BOOLEAN
  BY <1>3
<1>18. QED
  BY <1>5, <1>11, <1>15, <1>16, <1>17

LEMMA ethwriteOK ==
  ASSUME EthIInv, NEW p \in EthProc, NEW f \in EthFrames, ethwrite(p, f)
  PROVE  EthIInv'
<1>1. PICK k, d : RxAt(k) /\ TxAt(d)
  BY DEF EthIInv
<1>2. EthTypes /\ EthWaiting
  BY DEF EthIInv
<1>3. ethcall[p] = EthIdle /\ ethcall[p].op = "idle" /\ osem' = Waited(osem, p)
  BY DEF ethwrite, EthIdle
<1>4. osem \in SemOf(EthProc) /\ SemOK(osem) /\ ~Waits(osem, p)
  BY <1>2, <1>3 DEF EthWaiting
<1>5. /\ Waited(osem, p) \in SemOf(EthProc) /\ SemOK(Waited(osem, p))
      /\ \A q : Waits(Waited(osem, p), q) <=> (Waits(osem, q) \/ (Blocks(osem) /\ q = p))
  BY <1>4, SemWaited
<1>6. PICK o, T : o = Len(ethout) /\ T = E1000_TX_RING_SIZE
  OBVIOUS
<1>7. Admits(osem) + Cardinality(EthWith("write")) = T - d - o
  BY <1>1, <1>6 DEF TxAt
<1>8. Admits(osem) \in Nat /\ Cardinality(EthWith("write")) \in Nat
  BY <1>2, <1>4, AdmitsWaited, FS_CardinalityType DEF EthWaiting
<1>9. T \in Nat /\ o \in Nat /\ d \in Nat
  BY <1>1, <1>2, <1>6, TxFacts, EthAssumption
<1>10. CASE Blocks(osem)
  <2> DEFINE c == [op |-> "writes", frame |-> f]
  <2>1. /\ ethcall' = [ethcall EXCEPT ![p] = c]
        /\ UNCHANGED <<txring, txhead, txtail, tdh, tdt, ethout, ethspoilt>>
        /\ UNCHANGED <<rxVars, icr, ethirq, ethlast>>
    BY <1>10 DEF ethwrite
  <2>2. c \in EthCallOf /\ c.op = "writes"
    BY DEF EthCallOf
  <2> HIDE DEF c
  <2>3. /\ ethcall' \in [EthProc -> EthCallOf]
        /\ ethcall'[p] = c
        /\ \A q \in EthProc : q # p => ethcall'[q] = ethcall[q]
    BY <1>2, <2>1, <2>2, EthGoes
  <2>4. EthWith("read")' = EthWith("read") /\ EthWith("write")' = EthWith("write")
    BY <1>3, <2>2, <2>3 DEF EthWith
  <2>5. EthWaiting'
    <3>1. \A q \in EthProc : Waits(osem', q) <=> ethcall'[q].op = "writes"
      BY <1>2, <1>3, <1>5, <1>10, <2>2, <2>3 DEF EthWaiting
    <3>2. isem' = isem
      BY <2>1 DEF rxVars
    <3>3. \A q \in EthProc : Waits(isem', q) <=> ethcall'[q].op = "reads"
      BY <1>2, <1>3, <2>2, <2>3, <3>2 DEF EthWaiting
    <3>4. QED
      BY <1>2, <1>3, <1>5, <2>4, <3>1, <3>2, <3>3 DEF EthWaiting
  <2>6. EthTypes'
    BY <1>2, <2>1, <2>3 DEF EthTypes, rxVars
  <2>7. RxAt(k)'
    BY <1>1, <2>1, <2>4, RxKept
  <2>8. Admits(osem') = Admits(osem)
    BY <1>3, <1>4, <1>10, AdmitsWaited
  <2>9. TxAt(d)'
    BY <1>1, <2>1, <2>4, <2>8 DEF TxAt
  <2>10. QED
    BY <2>5, <2>6, <2>7, <2>9 DEF EthIInv
<1>11. CASE ~Blocks(osem)
  <2>1. InsertFrame(f) /\ ethcall' = ethcall
    BY <1>11 DEF ethwrite
  <2>2. UNCHANGED <<txhead, tdh, rxVars, icr, ethirq, ethlast>>
    BY <2>1 DEF InsertFrame
  <2>3. \A op : EthWith(op)' = EthWith(op)
    BY <2>1 DEF EthWith
  <2>4. Admits(osem) # 0 /\ Admits(osem') = Admits(osem) - 1
    BY <1>3, <1>4, <1>11, AdmitsWaited
  <2>5. d + o < T /\ Admits(osem') + Cardinality(EthWith("write")') = T - d - o - 1
    <3>1. Cardinality(EthWith("write")') = Cardinality(EthWith("write"))
      BY <2>3
    <3>2. QED
      BY <1>7, <1>8, <1>9, <2>4, <3>1
  <2>6. /\ TxAt(d)'
        /\ txring' \in [TxIndex -> [frame : EthFrames \cup {0}, done : BOOLEAN]]
        /\ txtail' \in TxIndex /\ tdt' \in TxIndex
        /\ ethout' \in Seq(EthFrames) /\ ethspoilt' \in BOOLEAN
    BY <1>1, <1>2, <1>6, <2>1, <2>5, InsertFrameOK
  <2>7. EthTypes'
    BY <1>2, <2>1, <2>2, <2>6 DEF EthTypes, rxVars
  <2>8. RxAt(k)'
    BY <1>1, <2>2, <2>3, RxKept
  <2>9. EthWaiting'
    <3>1. isem' = isem
      BY <2>2 DEF rxVars
    <3>2. \A q \in EthProc : Waits(osem', q) <=> ethcall'[q].op = "writes"
      BY <1>2, <1>3, <1>5, <1>11, <2>1 DEF EthWaiting
    <3>3. QED
      BY <1>2, <1>3, <1>5, <2>1, <2>3, <3>1, <3>2 DEF EthWaiting
  <2>10. QED
    BY <2>6, <2>7, <2>8, <2>9 DEF EthIInv
<1>12. QED
  BY <1>10, <1>11

LEMMA ethwriteGoesOnOK ==
  ASSUME EthIInv, NEW p \in EthProc, ethwriteGoesOn(p)
  PROVE  EthIInv'
<1>1. PICK k, d : RxAt(k) /\ TxAt(d)
  BY DEF EthIInv
<1>2. EthTypes /\ EthWaiting
  BY DEF EthIInv
<1>3. PICK f : f = ethcall[p].frame
  OBVIOUS
<1>4. /\ ethcall[p].op = "write" /\ InsertFrame(f)
      /\ ethcall' = [ethcall EXCEPT ![p] = EthIdle] /\ osem' = osem
  BY <1>3 DEF ethwriteGoesOn
<1>5. f \in EthFrames
  BY <1>2, <1>3, <1>4, EthShape
<1>6. UNCHANGED <<txhead, tdh, rxVars, icr, ethirq, ethlast>> /\ isem' = isem
  BY <1>4 DEF InsertFrame, rxVars
<1>7. /\ ethcall' \in [EthProc -> EthCallOf]
      /\ EthWaiting'
      /\ \A a \in EthOps \ {"idle", "write"} : EthWith(a)' = EthWith(a)
      /\ Cardinality(EthWith("write")) # 0
      /\ Cardinality(EthWith("write")') = Cardinality(EthWith("write")) - 1
  BY <1>2, <1>4, <1>6, EthDone
<1>8. PICK o, T : o = Len(ethout) /\ T = E1000_TX_RING_SIZE
  OBVIOUS
<1>9. d + o < T /\ Admits(osem') + Cardinality(EthWith("write")') = T - d - o - 1
  <2>1. Admits(osem) + Cardinality(EthWith("write")) = T - d - o
    BY <1>1, <1>8 DEF TxAt
  <2>2. osem.count \in Int
    BY <1>2 DEF EthWaiting, SemOf
  <2>3. Admits(osem) \in Nat
    BY <2>2 DEF Admits
  <2>4. Cardinality(EthWith("write")) \in Nat
    BY <1>2, FS_CardinalityType DEF EthWaiting
  <2>5. T \in Nat /\ o \in Nat /\ d \in Nat
    BY <1>1, <1>2, <1>8, TxFacts, EthAssumption
  <2>6. QED
    BY <1>4, <1>7, <2>1, <2>3, <2>4, <2>5
<1>10. /\ TxAt(d)'
       /\ txring' \in [TxIndex -> [frame : EthFrames \cup {0}, done : BOOLEAN]]
       /\ txtail' \in TxIndex /\ tdt' \in TxIndex
       /\ ethout' \in Seq(EthFrames) /\ ethspoilt' \in BOOLEAN
  BY <1>1, <1>2, <1>4, <1>5, <1>8, <1>9, InsertFrameOK
<1>11. EthTypes'
  BY <1>2, <1>6, <1>7, <1>10 DEF EthTypes, rxVars
<1>12. EthWith("read")' = EthWith("read")
  BY <1>7 DEF EthOps
<1>13. RxAt(k)'
  BY <1>1, <1>6, <1>12, RxKept
<1>14. QED
  BY <1>7, <1>10, <1>11, <1>13 DEF EthIInv

-----------------------------------------------------------------------------
(* The Ethernet driver: every step, and what follows.                      *)

LEMMA EthInitOK == EthInit => EthIInv
<1> SUFFICES ASSUME EthInit
             PROVE  EthIInv
  OBVIOUS
<1>1. PICK R, T, B : R = E1000_RX_RING_SIZE /\ T = E1000_TX_RING_SIZE /\ B = E1000_RING_BOUNDARY
  OBVIOUS
<1>2. /\ R \in Nat \ {0} /\ T \in Nat \ {0} /\ B \in Nat \ {0} /\ R = 2 * B
      /\ RxIndex = 0 .. R - 1 /\ TxIndex = 0 .. T - 1
  BY <1>1, EthAssumption DEF RxIndex, TxIndex
<1>3. /\ rxring = [i \in RxIndex |-> 0] /\ txring = [i \in TxIndex |-> TxFree]
      /\ rxhead = 0 /\ rxtail = 0 /\ txhead = 0 /\ txtail = 0
      /\ isem = SemCreated(0) /\ osem = SemCreated(T)
      /\ rdh = 0 /\ rdt = B /\ tdh = 0 /\ tdt = 0
      /\ icr = {} /\ ethirq = {}
      /\ ethcall = [p \in EthProc |-> EthIdle]
      /\ ethspoilt = FALSE
      /\ ethin = <<>> /\ ethout = <<>> /\ ethlast = "first"
  <2>1. R - B = B
    BY <1>2
  <2>2. QED
    BY <1>1, <2>1 DEF EthInit, RdtAtStart
<1>4. EthIdle \in EthCallOf /\ EthIdle.op = "idle"
  BY DEF EthCallOf, EthIdle
<1>5. EthTypes
  <2>1. rxring \in [RxIndex -> EthFrames \cup {0}]
    BY <1>3
  <2>2. TxFree \in [frame : EthFrames \cup {0}, done : BOOLEAN]
    BY DEF TxFree
  <2>3. txring \in [TxIndex -> [frame : EthFrames \cup {0}, done : BOOLEAN]]
    BY <1>3, <2>2
  <2>4. {rxhead, rxtail, rdh, rdt} \subseteq RxIndex /\ {txhead, txtail, tdh, tdt} \subseteq TxIndex
    BY <1>2, <1>3
  <2>5. ethin \in Seq(EthFrames) /\ ethout \in Seq(EthFrames)
    BY <1>3
  <2>6. ethcall \in [EthProc -> EthCallOf]
    BY <1>3, <1>4
  <2>7. QED
    BY <1>3, <2>1, <2>3, <2>4, <2>5, <2>6 DEF EthTypes
<1>6. EthWith("read") = {} /\ EthWith("write") = {}
  BY <1>3, <1>4 DEF EthWith
<1>7. /\ IsFiniteSet(EthWith("read")) /\ Cardinality(EthWith("read")) = 0
      /\ IsFiniteSet(EthWith("write")) /\ Cardinality(EthWith("write")) = 0
  BY <1>6, FS_EmptySet
<1>8. \A c \in Nat : SemCreated(c) \in SemOf(EthProc) /\ SemOK(SemCreated(c)) /\ Admits(SemCreated(c)) = c
                     /\ \A p : ~Waits(SemCreated(c), p)
  BY DEF SemCreated, SemOf, SemOK, Admits, Waits
<1>9. EthWaiting
  <2>1. isem \in SemOf(EthProc) /\ SemOK(isem) /\ \A p : ~Waits(isem, p)
    BY <1>3, <1>8
  <2>2. osem \in SemOf(EthProc) /\ SemOK(osem) /\ \A p : ~Waits(osem, p)
    BY <1>2, <1>3, <1>8
  <2>3. \A p \in EthProc : ethcall[p].op = "idle"
    BY <1>3, <1>4
  <2>4. QED
    BY <1>7, <2>1, <2>2, <2>3 DEF EthWaiting
<1>10. 0 \in RxIndex /\ 0 \in TxIndex /\ RxAfter(0, 0) = 0 /\ TxAfter(0, 0) = 0
  <2>1. 0 \in RxIndex /\ 0 \in TxIndex
    BY <1>2
  <2>2. QED
    BY <2>1, RxTurns, TxTurns
<1>11. RxRoom(0) = B /\ RxAfter(0, B) = B
  <2>1. B \in 0 .. R /\ B < R
    BY <1>2
  <2>2. RxAfter(0, B) = IF 0 + B < R THEN 0 + B ELSE 0 + B - R
    BY <1>1, <1>10, <2>1, RxAfterIs
  <2>3. QED
    BY <1>1, <1>2, <2>1, <2>2 DEF RxRoom
<1>12. RxAt(0)
  <2>1. Len(ethin) = 0 /\ 0 \in 0 .. 0 /\ ~(0 < 0) /\ 0 <= B
    BY <1>2, <1>3
  <2>2. \A j \in 0 .. R - 1 : rxring[RxAfter(0, j)] = 0 /\ ~(j < 0)
    <3>1. \A j \in 0 .. R - 1 : RxAfter(0, j) \in RxIndex /\ ~(j < 0)
      <4>1. \A j \in 0 .. R : RxAfter(0, j) \in RxIndex
        BY <1>1, <1>10, RxTurns
      <4>2. QED
        BY <1>2, <4>1
    <3>2. QED
      BY <1>3, <3>1
  <2>3. Admits(isem) + Cardinality(EthWith("read")) = 0
    BY <1>3, <1>7, <1>8
  <2>4. QED
    BY <1>1, <1>3, <1>10, <1>11, <2>1, <2>2, <2>3 DEF RxAt
<1>13. TxAt(0)
  <2>1. Len(ethout) = 0 /\ 0 + 0 = 0 /\ 0 <= T /\ 0 < T /\ ~(0 > 0) /\ T - 0 - 0 = T
    BY <1>2, <1>3
  <2>2. \A j \in 0 .. T - 1 : txring[TxAfter(0, j)] = TxFree /\ ~(j < 0)
    <3>1. \A j \in 0 .. T - 1 : TxAfter(0, j) \in TxIndex /\ ~(j < 0)
      <4>1. \A j \in 0 .. T : TxAfter(0, j) \in TxIndex
        BY <1>1, <1>10, TxTurns
      <4>2. QED
        BY <1>2, <4>1
    <3>2. QED
      BY <1>3, <3>1
  <2>3. Admits(osem) + Cardinality(EthWith("write")) = T
    BY <1>2, <1>3, <1>7, <1>8
  <2>4. QED
    BY <1>1, <1>3, <1>10, <2>1, <2>2, <2>3 DEF TxAt
<1>14. QED
  BY <1>5, <1>9, <1>12, <1>13 DEF EthIInv

LEMMA EthNextOK ==
  ASSUME EthIInv, [EthNext]_ethVars
  PROVE  EthIInv'
<1>1. PICK k, d : RxAt(k) /\ TxAt(d)
  BY DEF EthIInv
<1>2. EthTypes /\ EthWaiting
  BY DEF EthIInv
<1>3. ASSUME NEW f \in EthFrames, NicStores(f)
      PROVE  EthIInv'
  <2>1. RxAt(k)' /\ EthTypes'
    BY <1>1, <1>2, <1>3, NicStoresOK
  <2>2. /\ UNCHANGED <<isem, osem, ethcall>> /\ UNCHANGED txVars
        /\ ("tx" \in icr \cup ethirq => "tx" \in icr' \cup ethirq')
    BY <1>3 DEF NicStores, txVars
  <2>3. EthWaiting' /\ \A op : EthWith(op)' = EthWith(op)
    BY <1>2, <2>2, EthWaitingKept
  <2>4. TxAt(d)'
    BY <1>1, <2>2, <2>3, TxKept
  <2>5. QED
    BY <2>1, <2>3, <2>4 DEF EthIInv
<1>4. CASE NicSends
  <2>1. TxAt(d + 1)' /\ EthTypes'
    BY <1>1, <1>2, <1>4, NicSendsOK
  <2>2. /\ UNCHANGED <<isem, osem, ethcall>> /\ UNCHANGED rxVars
        /\ ("rx" \in icr \cup ethirq => "rx" \in icr' \cup ethirq')
    BY <1>4 DEF NicSends, rxVars
  <2>3. EthWaiting' /\ \A op : EthWith(op)' = EthWith(op)
    BY <1>2, <2>2, EthWaitingKept
  <2>4. RxAt(k)'
    BY <1>1, <2>2, <2>3, RxKept
  <2>5. QED
    BY <2>1, <2>3, <2>4 DEF EthIInv
<1>5. CASE UNCHANGED ethVars
  <2>1. UNCHANGED rxVars /\ UNCHANGED txVars /\ UNCHANGED <<icr, ethirq, ethcall, ethlast>>
    BY <1>5 DEF ethVars
  <2>2. UNCHANGED <<isem, osem, ethcall>>
    BY <2>1 DEF rxVars, txVars
  <2>3. EthWaiting' /\ \A op : EthWith(op)' = EthWith(op)
    BY <1>2, <2>2, EthWaitingKept
  <2>4. RxAt(k)'
    BY <1>1, <2>1, <2>3, RxKept
  <2>5. TxAt(d)'
    BY <1>1, <2>1, <2>3, TxKept
  <2>6. EthTypes'
    BY <1>2, <2>1 DEF EthTypes, rxVars, txVars
  <2>7. QED
    BY <2>3, <2>4, <2>5, <2>6 DEF EthIInv
<1>6. QED
  BY <1>3, <1>4, <1>5, ethhandlerOK, eth_rxPacketsOK, eth_txPacketsOK, ethreadOK, ethreadGoesOnOK,
     ethwriteOK, ethwriteGoesOnOK DEF EthNext

\* All who wait are in the queue, each once.
LEMMA EthWaitingCounted ==
  ASSUME NEW s \in SemOf(EthProc), SemOK(s), NEW a,
         \A p \in EthProc : Waits(s, p) <=> ethcall[p].op = a
  PROVE  EthCalls(a) \in Nat /\ s.count + EthCalls(a) = Admits(s)
<1>1. /\ s.queue \in Seq(EthProc) /\ Len(s.queue) \in Nat /\ DOMAIN s.queue = 1 .. Len(s.queue)
      /\ s.count \in Int
      /\ Len(s.queue) = IF s.count < 0 THEN -s.count ELSE 0
  BY SemQueue
<1>2. \A i \in 1 .. Len(s.queue) : s.queue[i] \in EthProc
  BY <1>1, ElementOfSeq
<1>3. {p \in EthProc : ethcall[p].op = a} = {s.queue[i] : i \in 1 .. Len(s.queue)}
  BY <1>1, <1>2 DEF Waits
<1>4. Len(s.queue) \in 0 .. Len(s.queue)
  BY <1>1
<1>5. Cardinality({s.queue[i] : i \in 1 .. Len(s.queue)}) = Len(s.queue)
  BY <1>4, FirstOfQueue
<1>6. EthCalls(a) = Len(s.queue)
  BY <1>3, <1>5 DEF EthCalls
<1>7. QED
  BY <1>1, <1>6 DEF Admits

\* The free places are those from d + o on.
LEMMA EthFreePlaces ==
  ASSUME EthTypes, NEW d, TxAt(d)
  PROVE  Cardinality({i \in TxIndex : txring[i] = TxFree}) = E1000_TX_RING_SIZE - d - Len(ethout)
<1>1. PICK h, o, T, e : h = txhead /\ o = Len(ethout) /\ T = E1000_TX_RING_SIZE /\ e = d + o
  OBVIOUS
<1>2. T \in Nat \ {0} /\ h \in TxIndex /\ o \in Nat /\ d \in 0 .. T /\ e \in 0 .. T
      /\ \A j \in 1 .. o : ethout[j] # 0
  <2>1. T \in Nat \ {0} /\ h \in TxIndex /\ o \in Nat /\ d \in 0 .. T /\ e \in 0 .. T
    BY <1>1, TxFacts, EthAssumption DEF TxIndex
  <2>2. \A j \in 1 .. o : ethout[j] # 0
    BY <1>1, TxFacts, EthAssumption
  <2>3. QED
    BY <2>1, <2>2
<1> DEFINE S == {i \in TxIndex : txring[i] = TxFree}
           f == [j \in e .. T - 1 |-> TxAfter(h, j)]
<1>3. /\ \A j \in 0 .. d - 1 : txring[TxAfter(h, j)].done
      /\ \A j \in d .. e - 1 : txring[TxAfter(h, j)] = [frame |-> ethout[j - d + 1], done |-> FALSE]
      /\ \A j \in e .. T - 1 : txring[TxAfter(h, j)] = TxFree
  <2>1. \A j \in 0 .. d - 1 : txring[TxAfter(txhead, j)].done
    BY TxRing
  <2>2. \A j \in d .. d + Len(ethout) - 1 :
           txring[TxAfter(txhead, j)] = [frame |-> ethout[j - d + 1], done |-> FALSE]
    BY TxRing
  <2>3. \A j \in d + Len(ethout) .. E1000_TX_RING_SIZE - 1 : txring[TxAfter(txhead, j)] = TxFree
    BY TxRing
  <2>4. QED
    BY <1>1, <1>2, <2>1, <2>2, <2>3
<1>4. \A j \in 0 .. T - 1 : TxAfter(h, j) \in TxIndex
  <2>1. \A j \in 0 .. T : TxAfter(h, j) \in TxIndex
    BY <1>1, <1>2, TxTurns
  <2>2. QED
    BY <1>2, <2>1
<1>5. ASSUME NEW j \in 0 .. T - 1, txring[TxAfter(h, j)] = TxFree
      PROVE  j \in e .. T - 1
  <2>1. ~(j < d)
    <3>1. SUFFICES ASSUME j < d
                   PROVE  FALSE
      OBVIOUS
    <3>2. j \in 0 .. d - 1
      BY <1>2, <3>1
    <3>3. QED
      BY <1>3, <1>5, <3>2 DEF TxFree
  <2>2. ~(j >= d /\ j < e)
    <3>1. SUFFICES ASSUME j >= d, j < e
                   PROVE  FALSE
      OBVIOUS
    <3>2. j \in d .. e - 1 /\ j - d + 1 \in 1 .. o
      BY <1>1, <1>2, <3>1
    <3>3. TxFree = [frame |-> ethout[j - d + 1], done |-> FALSE]
      BY <1>3, <1>5, <3>2
    <3>4. ethout[j - d + 1] = 0
      BY <3>3 DEF TxFree
    <3>5. QED
      BY <1>2, <3>2, <3>4
  <2>3. QED
    BY <1>2, <2>1, <2>2
<1>6. e .. T - 1 \subseteq 0 .. T - 1
  BY <1>2
<1>7. f \in [e .. T - 1 -> S]
  BY <1>3, <1>4, <1>6
<1>8. \A i, j \in e .. T - 1 : f[i] = f[j] => i = j
  <2>1. \A i, j \in 0 .. T - 1 : TxAfter(h, i) = TxAfter(h, j) => i = j
    BY <1>1, <1>2, TxTurns
  <2>2. QED
    BY <1>6, <2>1
<1>9. ASSUME NEW x \in S
      PROVE  \E j \in e .. T - 1 : f[j] = x
  <2>1. PICK j \in 0 .. T - 1 : x = TxAfter(h, j)
    BY <1>1, <1>2, TxTurns
  <2>2. j \in e .. T - 1
    BY <1>5, <2>1
  <2>3. QED
    BY <2>1, <2>2
<1> HIDE DEF f, S
<1>10. f \in Injection(e .. T - 1, S)
  BY <1>7, <1>8 DEF Injection, IsInjective
<1>11. f \in Surjection(e .. T - 1, S)
  BY <1>7, <1>9 DEF Surjection
<1>12. ExistsBijection(e .. T - 1, S)
  BY <1>10, <1>11 DEF ExistsBijection, Bijection
<1>13. IsFiniteSet(e .. T - 1) /\ Cardinality(e .. T - 1) = T - e
  <2>1. e \in Int /\ T - 1 \in Int
    BY <1>2
  <2>2. IsFiniteSet(e .. T - 1) /\ Cardinality(e .. T - 1) = IF e > T - 1 THEN 0 ELSE (T - 1) - e + 1
    BY <2>1, FS_Interval
  <2>3. (IF e > T - 1 THEN 0 ELSE (T - 1) - e + 1) = T - e
    BY <1>2
  <2>4. QED
    BY <2>2, <2>3
<1>14. Cardinality(S) = T - e
  BY <1>12, <1>13, FS_Bijection
<1>15. T - e = T - d - o
  BY <1>1, <1>2
<1>16. QED
  BY <1>1, <1>14, <1>15 DEF S

\* What EthInv says follows from it.
LEMMA EthIInvImplies == EthIInv => EthInv
<1> SUFFICES ASSUME EthIInv
             PROVE  EthInv
  OBVIOUS
<1>1. PICK k, d : RxAt(k) /\ TxAt(d)
  BY DEF EthIInv
<1>2. EthTypes /\ EthWaiting
  BY DEF EthIInv
<1>3. PICK h, n, R, t, o, T : /\ h = rxhead /\ n = Len(ethin) /\ R = E1000_RX_RING_SIZE
                              /\ t = txhead /\ o = Len(ethout) /\ T = E1000_TX_RING_SIZE
  OBVIOUS
<1>4. /\ R \in Nat \ {0} /\ h \in RxIndex /\ n \in Nat /\ k \in 0 .. n /\ n < R
      /\ k \in 0 .. R - 1
  <2>1. /\ R \in Nat \ {0} /\ h \in RxIndex /\ n \in Nat /\ k \in 0 .. n
        /\ RxRoom(h) \in 1 .. R - 1 /\ n \in 0 .. RxRoom(h)
    BY <1>1, <1>2, <1>3, RxFacts, RxSizes DEF RxIndex
  <2>2. QED
    BY <2>1
<1>5. T \in Nat \ {0} /\ t \in TxIndex /\ o \in Nat /\ d \in 0 .. T /\ d + o \in 0 .. T
  BY <1>1, <1>2, <1>3, TxFacts, EthAssumption DEF TxIndex
<1>6. RxAfter(rxtail, -rxhead) = k
  <2>1. rxtail = RxAfter(h, k)
    BY <1>1, <1>3 DEF RxAt
  <2>2. RxAfter(RxAfter(h, k), -h) = k
    BY <1>3, <1>4, RxTurns
  <2>3. QED
    BY <1>3, <2>1, <2>2
<1>7. EthTypeOK
  BY <1>2, EthShape DEF EthTypeOK, EthTypes, EthWaiting
<1>8. FramesReadInOrder
  <2>1. ethlast = "first"
    BY <1>2 DEF EthTypes
  <2>2. QED
    BY <1>1, <1>3, <1>4, <2>1 DEF FramesReadInOrder, RxAt
<1>9. DescriptorsCounted
  <2>1. EthCalls("reads") \in Nat /\ isem.count + EthCalls("reads") = Admits(isem)
    BY <1>2, EthWaitingCounted DEF EthWaiting
  <2>2. EthCalls("writes") \in Nat /\ osem.count + EthCalls("writes") = Admits(osem)
    BY <1>2, EthWaitingCounted DEF EthWaiting
  <2>3. EthCalls("read") = Cardinality(EthWith("read")) /\ EthCalls("write") = Cardinality(EthWith("write"))
    BY DEF EthCalls, EthWith
  <2>4. Admits(isem) + EthCalls("read") = k
    BY <1>1, <2>3 DEF RxAt
  <2>5. Admits(osem) + EthCalls("write") = T - d - o
    BY <1>1, <1>3, <2>3 DEF TxAt
  <2>6. Cardinality({i \in TxIndex : txring[i] = TxFree}) = T - d - o
    BY <1>1, <1>2, <1>3, EthFreePlaces
  <2>7. QED
    BY <1>6, <2>1, <2>2, <2>4, <2>5, <2>6 DEF DescriptorsCounted
<1>10. NoInterruptLost
  <2>1. k < n => "rx" \in icr \cup ethirq
    BY <1>1, <1>3 DEF RxAt
  <2>2. d > 0 => "tx" \in icr \cup ethirq
    BY <1>1 DEF TxAt
  <2>3. txring[txhead].done => d > 0
    <3>1. SUFFICES ASSUME d = 0
                   PROVE  ~txring[txhead].done
      BY <1>5
    <3>2. TxAfter(t, 0) = t /\ 0 \in 0 .. T - 1 /\ ~(0 < d)
      BY <1>3, <1>5, <3>1, TxTurns
    <3>3. txring[t] = [frame |-> ethout[0 - d + 1], done |-> FALSE] \/ txring[t] = TxFree
      BY <1>1, <1>3, <3>2 DEF TxAt
    <3>4. QED
      BY <1>3, <3>3 DEF TxFree
  <2>4. QED
    BY <1>3, <1>6, <2>1, <2>2, <2>3 DEF NoInterruptLost
<1>11. FramesSentInOrder
  <2> SUFFICES ASSUME ~ethspoilt
               PROVE  /\ TxAfter(tdt, -tdh) = o
                      /\ \A j \in 1 .. o : txring[TxAfter(tdh, j - 1)] = [frame |-> ethout[j], done |-> FALSE]
    BY <1>3 DEF FramesSentInOrder
  <2>1. o < T /\ tdh = TxAfter(t, d) /\ tdt = TxAfter(t, d + o)
    BY <1>1, <1>3 DEF TxAt
  <2>2. \A j \in Nat : d + j <= T => TxAfter(tdh, j) = TxAfter(t, d + j)
    <3>1. d \in Nat
      BY <1>5
    <3>2. QED
      BY <1>3, <1>5, <2>1, <3>1, TxFurther
  <2>3. TxAfter(tdt, -tdh) = o
    <3>1. tdt = TxAfter(tdh, o)
      BY <1>5, <2>1, <2>2
    <3>2. tdh \in TxIndex /\ o \in 0 .. T - 1
      BY <1>2, <1>5, <2>1 DEF EthTypes
    <3>3. TxAfter(TxAfter(tdh, o), -tdh) = o
      BY <1>3, <3>2, TxTurns
    <3>4. QED
      BY <3>1, <3>3
  <2>4. ASSUME NEW j \in 1 .. o
        PROVE  txring[TxAfter(tdh, j - 1)] = [frame |-> ethout[j], done |-> FALSE]
    <3>1. PICK i \in Nat : i = d + (j - 1)
      BY <1>5
    <3>2. j - 1 \in Nat /\ d + (j - 1) <= T /\ i \in d .. d + o - 1 /\ i - d + 1 = j
      BY <1>5, <3>1
    <3>3. TxAfter(tdh, j - 1) = TxAfter(t, i)
      BY <2>2, <3>1, <3>2
    <3>4. txring[TxAfter(t, i)] = [frame |-> ethout[i - d + 1], done |-> FALSE]
      <4>1. \A m \in d .. d + Len(ethout) - 1 :
               txring[TxAfter(txhead, m)] = [frame |-> ethout[m - d + 1], done |-> FALSE]
        BY <1>1, <1>2, TxRing
      <4>2. i \in d .. d + Len(ethout) - 1
        BY <1>3, <3>2
      <4>3. txring[TxAfter(txhead, i)] = [frame |-> ethout[i - d + 1], done |-> FALSE]
        BY <4>1, <4>2
      <4>4. QED
        BY <1>3, <4>3
    <3>5. QED
      BY <3>2, <3>3, <3>4
  <2>5. QED
    BY <2>3, <2>4
<1>12. QED
  BY <1>7, <1>8, <1>9, <1>10, <1>11 DEF EthInv

\* EthInv for every size of the rings and every number of processes: driver and
\* controller never use the same descriptor (ethread.c:63, ethwrite.c:66),
\* the semaphores count what the processes may use (ethhandler.c:34, 71), and
\* whatever the controller has done has a cause pending (ethhandler.c:103).
THEOREM EthernetRings == EthSpec => []EthInv
<1>1. EthInit => EthIInv
  BY EthInitOK
<1>2. EthIInv /\ [EthNext]_ethVars => EthIInv'
  BY EthNextOK
<1>3. EthIInv => EthInv
  BY EthIInvImplies
<1>4. QED
  BY <1>1, <1>2, <1>3, PTL DEF EthSpec

=============================================================================
