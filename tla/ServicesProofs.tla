--------------------------- MODULE ServicesProofs ----------------------------
(***************************************************************************)
(* Proofs about the services of the kernel: memory marks, for any number   *)
(* of processes and locations, any size of marks and whatever the memory   *)
(* holds at first; buffer pools, for any numbers of processes, pools,      *)
(* buffers and semaphores; ports, for any numbers of processes, ports,     *)
(* message nodes and semaphores; and the heap, for any sizes of it and any *)
(* requests: its free list is followed as a list in the order of addresses *)
(* without blocks that touch each other.                                   *)
(***************************************************************************)
EXTENDS Marks, BufPool, Ports, Memory, QueueOpsProofs, FiniteSetTheorems, SequenceTheorems, TLAPS

-----------------------------------------------------------------------------
(* Memory marks: the inductive invariant.                                  *)

\* What a process is in: before the mutex, or in it with an index.
MkOutside == [at : {"room", "wait", "assign"}, loc : MkLoc]
MkInside == [at : {"count", "point", "signal"}, loc : MkLoc, i : Nat]

MkTypes ==
    /\ marks \in [MkSlot -> MkLoc \cup {"none"}]
    /\ nmarks \in Nat
    /\ mkmutex \in SemOf(MkProc)
    /\ mkvalue \in [MkLoc -> Int]
    /\ mkcall \in [MkProc -> {MkIdle} \cup MkOutside \cup MkInside]
    /\ mkok \subseteq MkLoc

\* The process has the mutex.
MkHolds(p) ==
    \/ mkcall[p].at \in {"count", "point", "signal"}
    \/ mkcall[p].at = "assign" /\ ~Waits(mkmutex, p)

\* At most one process has it, and one does when the count is not 1; those in
\* its queue are in wait.
MkExclusion ==
    /\ SemOK(mkmutex)
    /\ mkmutex.count <= 1
    /\ \A p \in MkProc : Waits(mkmutex, p) => mkcall[p].at = "assign"
    /\ \A p, q \in MkProc : MkHolds(p) /\ MkHolds(q) => p = q
    /\ mkmutex.count = 1 <=> \A p \in MkProc : ~MkHolds(p)

\* The index of the process in the mutex is the next entry, then the last one.
MkIndex ==
    \A p \in MkProc :
        /\ mkcall[p].at = "count" => mkcall[p].i = nmarks
        /\ mkcall[p].at = "point" =>
             /\ mkcall[p].i = nmarks - 1
             /\ mkvalue[mkcall[p].loc] = mkcall[p].i
             /\ marks[mkcall[p].i] = "none"
        /\ mkcall[p].at = "signal" => ~notmarked(mkcall[p].loc)

\* Entries from nmarks on are not used; below it one may be about to be.
MkEntries ==
    /\ \A j \in MkSlot : j >= nmarks => marks[j] = "none"
    /\ \A j \in 0 .. nmarks - 1 :
         marks[j] # "none" \/ \E p \in MkProc : mkcall[p].at = "point" /\ mkcall[p].i = j

\* A location that was marked is, or is just moved.
MkStays ==
    \A loc \in mkok :
        \/ ~notmarked(loc)
        \/ \E p \in MkProc : mkcall[p].at = "point" /\ mkcall[p].loc = loc

MkIInv ==
    /\ MkTypes
    /\ MkExclusion
    /\ OverrunBounded
    /\ MkIndex
    /\ MkEntries
    /\ MkStays

-----------------------------------------------------------------------------
(* Facts the steps share.                                                  *)

\* How many may have passed the test.
LEMMA MkPassedBound ==
  ASSUME NEW S \in SUBSET MkProc
  PROVE  /\ IsFiniteSet(S) /\ Cardinality(S) \in Nat
         /\ Cardinality(MkProc) \in Nat /\ Cardinality(S) <= Cardinality(MkProc)
<1>1. IsFiniteSet(MkProc)
  BY MarksAssumption
<1>2. QED
  BY <1>1, FS_Subset, FS_CardinalityType

\* What a process is in, by where it is.
LEMMA MkShape ==
  ASSUME MkTypes, NEW p \in MkProc
  PROVE  /\ mkcall[p].at \in {"room", "wait", "assign"} => mkcall[p] \in MkOutside
         /\ mkcall[p].at \in {"count", "point", "signal"} => mkcall[p] \in MkInside
         /\ mkcall[p].at = "idle" <=> mkcall[p] = MkIdle
         /\ mkcall[p].at # "idle" => mkcall[p].loc \in MkLoc
<1>1. mkcall[p] \in {MkIdle} \cup MkOutside \cup MkInside
  BY DEF MkTypes
<1>2. QED
  BY <1>1 DEF MkIdle, MkOutside, MkInside

\* A step of p to c.
LEMMA MkGoes ==
  ASSUME MkTypes, NEW p \in MkProc, NEW c \in {MkIdle} \cup MkOutside \cup MkInside, MkGo(p, c)
  PROVE  /\ mkcall' \in [MkProc -> {MkIdle} \cup MkOutside \cup MkInside]
         /\ mkcall'[p] = c
         /\ \A q \in MkProc : q # p => mkcall'[q] = mkcall[q]
BY DEF MkTypes, MkGo

\* A step that is neither in the mutex nor into it, and does not pass the test.
LEMMA MkApart ==
  ASSUME MkIInv, NEW p \in MkProc, NEW c \in {MkIdle} \cup MkOutside, MkGo(p, c),
         mkcall[p].at \in {"idle", "room"}, c.at \in {"idle", "room", "wait"},
         UNCHANGED <<marks, nmarks, mkmutex, mkvalue>>, mkok' \subseteq MkLoc,
         c.at = "wait" => nmarks < MAXMARK,
         \A loc \in mkok' \ mkok : ~notmarked(loc)
  PROVE  MkIInv'
<1> USE DEF MkIInv
<1>1. /\ mkcall' \in [MkProc -> {MkIdle} \cup MkOutside \cup MkInside]
      /\ mkcall'[p] = c
      /\ \A q \in MkProc : q # p => mkcall'[q] = mkcall[q]
  BY MkGoes
<1>2. MkTypes'
  BY <1>1 DEF MkTypes
<1>3. \A q \in MkProc : MkHolds(q)' <=> MkHolds(q)
  BY <1>1 DEF MkHolds
<1>4. MkExclusion'
  BY <1>1, <1>3 DEF MkExclusion
<1>5. OverrunBounded'
  <2>1. MkPassed \in SUBSET MkProc /\ MkPassed' \in SUBSET MkProc
    BY DEF MkPassed
  <2>2. CASE c.at = "wait"
    BY <2>1, <2>2, MkPassedBound, MarksAssumption DEF OverrunBounded, MkTypes
  <2>3. CASE c.at # "wait"
    <3>1. MkPassed' = MkPassed
      BY <1>1, <2>3 DEF MkPassed
    <3>2. QED
      BY <3>1 DEF OverrunBounded
  <2>4. QED
    BY <2>2, <2>3
<1>6. MkIndex'
  BY <1>1 DEF MkIndex, notmarked
<1>7. MkEntries'
  BY <1>1 DEF MkEntries
<1>8. MkStays'
  <2> SUFFICES ASSUME NEW loc \in mkok', notmarked(loc)
               PROVE  \E q \in MkProc : mkcall'[q].at = "point" /\ mkcall'[q].loc = loc
    BY DEF MkStays, notmarked
  <2>1. PICK q \in MkProc : mkcall[q].at = "point" /\ mkcall[q].loc = loc
    BY DEF MkStays
  <2>2. QED
    BY <1>1, <2>1
<1>9. QED
  BY <1>2, <1>4, <1>5, <1>6, <1>7, <1>8

-----------------------------------------------------------------------------
(* The steps.                                                              *)

LEMMA MkInitOK == MkInit => MkIInv
<1> SUFFICES ASSUME MkInit PROVE MkIInv
  OBVIOUS
<1> USE DEF MkInit
<1>1. MkTypes
  <2>1. mkmutex \in SemOf(MkProc)
    BY DEF SemOf, SemCreated
  <2>2. QED
    BY <2>1, MarksAssumption DEF MkTypes
<1>2. MkExclusion
  <2>1. /\ mkmutex.count = 1 /\ mkmutex.queue = <<>>
    BY DEF SemCreated
  <2>2. SemOK(mkmutex) /\ \A p : ~Waits(mkmutex, p)
    BY <2>1 DEF SemOK, Waits
  <2>3. QED
    BY <2>1, <2>2 DEF MkExclusion, MkHolds, MkIdle
<1>3. OverrunBounded
  <2>1. MkPassed = {}
    BY DEF MkPassed, MkIdle
  <2>2. Cardinality(MkPassed) = 0
    BY <2>1, FS_EmptySet
  <2>3. Cardinality(MkProc) \in Nat
    BY MkPassedBound
  <2>4. QED
    BY <2>2, <2>3, MarksAssumption DEF OverrunBounded
<1>4. MkIndex /\ MkEntries /\ MkStays
  BY DEF MkIndex, MkEntries, MkStays, MkIdle
<1>5. QED
  BY <1>1, <1>2, <1>3, <1>4 DEF MkIInv

LEMMA MkFoundOK ==
  ASSUME MkIInv, NEW p \in MkProc, NEW loc \in MkLoc, MkFound(p, loc)
  PROVE  MkIInv'
<1>1. MkGo(p, MkIdle)
  BY DEF MkFound, MkGo, MkIInv, MkTypes
<1>2. mkcall[p].at = "idle" /\ MkIdle.at = "idle"
  BY DEF MkFound, MkIdle
<1>3. mkok' \subseteq MkLoc
  BY DEF MkFound, MkIInv, MkTypes
<1>4. QED
  BY <1>1, <1>2, <1>3, MkApart DEF MkFound

LEMMA MkNotFoundOK ==
  ASSUME MkIInv, NEW p \in MkProc, NEW loc \in MkLoc, MkNotFound(p, loc)
  PROVE  MkIInv'
<1> DEFINE c == [at |-> "room", loc |-> loc]
<1>1. c \in MkOutside /\ c.at = "room"
  BY DEF MkOutside
<1>2. mkcall[p].at = "idle" /\ mkok' \subseteq MkLoc
  BY DEF MkNotFound, MkIdle, MkIInv, MkTypes
<1>3. QED
  BY <1>1, <1>2, MkApart DEF MkNotFound

LEMMA MkTestRoomOK ==
  ASSUME MkIInv, NEW p \in MkProc, MkTestRoom(p)
  PROVE  MkIInv'
<1> DEFINE c == IF MkRoom THEN [mkcall[p] EXCEPT !.at = "wait"] ELSE MkIdle
<1>1. mkcall[p].at = "room" /\ mkcall[p] \in MkOutside
  BY MkShape DEF MkTestRoom, MkIInv
<1>2. /\ c \in {MkIdle} \cup MkOutside
      /\ c.at \in {"idle", "wait"}
      /\ c.at = "wait" => nmarks < MAXMARK
  BY <1>1 DEF MkOutside, MkIdle, MkRoom
<1>3. mkok' \subseteq MkLoc
  BY DEF MkTestRoom, MkIInv, MkTypes
<1>4. MkGo(p, c)
  BY DEF MkTestRoom
<1> HIDE DEF c
<1>5. QED
  BY <1>1, <1>2, <1>3, <1>4, MkApart DEF MkTestRoom

\* Into the mutex, or into its queue.
LEMMA MkEnterOK ==
  ASSUME MkIInv, NEW p \in MkProc, MkEnter(p)
  PROVE  MkIInv'
<1> USE DEF MkIInv
<1> DEFINE c == [mkcall[p] EXCEPT !.at = "assign"]
<1>1. /\ mkcall[p].at = "wait" /\ mkcall[p] \in MkOutside /\ ~Waits(mkmutex, p)
      /\ UNCHANGED <<marks, nmarks, mkvalue, mkok>>
      /\ MkGo(p, c)
  BY MkShape DEF MkEnter
<1>2. c \in MkOutside /\ c.at = "assign" /\ c.loc = mkcall[p].loc
  BY <1>1 DEF MkOutside
<1> HIDE DEF c
<1>3. /\ mkcall' \in [MkProc -> {MkIdle} \cup MkOutside \cup MkInside]
      /\ mkcall'[p] = c
      /\ \A q \in MkProc : q # p => mkcall'[q] = mkcall[q]
  BY <1>1, <1>2, MkGoes
<1>4. /\ mkmutex' \in SemOf(MkProc)
      /\ SemOK(mkmutex')
      /\ mkmutex'.count = mkmutex.count - 1
      /\ \A q : Waits(mkmutex', q) <=> (Waits(mkmutex, q) \/ (Blocks(mkmutex) /\ q = p))
  <2>1. mkmutex \in SemOf(MkProc) /\ SemOK(mkmutex) /\ mkmutex' = Waited(mkmutex, p)
    BY DEF MkTypes, MkExclusion, MkEnter
  <2>2. QED
    BY <1>1, <2>1, SemWaited
<1>5. MkTypes'
  BY <1>1, <1>3, <1>4 DEF MkTypes
<1>6. /\ \A q \in MkProc : q # p => (MkHolds(q)' <=> MkHolds(q))
      /\ ~MkHolds(p) /\ (MkHolds(p)' <=> ~Blocks(mkmutex))
  BY <1>1, <1>2, <1>3, <1>4 DEF MkHolds
<1>7. mkmutex.count \in Int
  BY DEF MkTypes, SemOf
<1>8. MkExclusion'
  <2>1. CASE Blocks(mkmutex)
    <3>1. mkmutex.count <= 0 /\ mkmutex'.count < 0
      BY <1>4, <1>7, <2>1 DEF Blocks
    <3>2. \E q \in MkProc : MkHolds(q) /\ q # p
      BY <1>6, <1>7, <3>1 DEF MkExclusion
    <3>3. \A q \in MkProc : MkHolds(q)' <=> MkHolds(q)
      BY <1>6, <2>1
    <3>4. \A q \in MkProc : Waits(mkmutex', q) => mkcall'[q].at = "assign"
      BY <1>2, <1>3, <1>4 DEF MkExclusion
    <3>5. QED
      BY <1>4, <1>7, <3>1, <3>2, <3>3, <3>4 DEF MkExclusion
  <2>2. CASE ~Blocks(mkmutex)
    <3>1. mkmutex.count = 1 /\ mkmutex'.count = 0
      BY <1>4, <1>7, <2>2 DEF Blocks, MkExclusion
    <3>2. \A q \in MkProc : ~MkHolds(q)
      BY <3>1 DEF MkExclusion
    <3>3. QED
      BY <1>2, <1>3, <1>4, <1>6, <2>2, <3>1, <3>2 DEF MkExclusion
  <2>3. QED
    BY <2>1, <2>2
<1>9. OverrunBounded'
  <2>1. MkPassed' = MkPassed
    BY <1>1, <1>2, <1>3 DEF MkPassed
  <2>2. QED
    BY <1>1, <2>1 DEF OverrunBounded
<1>10. MkIndex' /\ MkEntries'
  BY <1>1, <1>2, <1>3 DEF MkIndex, MkEntries, notmarked
<1>11. MkStays'
  <2> SUFFICES ASSUME NEW loc \in mkok, notmarked(loc)
               PROVE  \E q \in MkProc : mkcall'[q].at = "point" /\ mkcall'[q].loc = loc
    BY <1>1 DEF MkStays, notmarked
  <2>1. PICK q \in MkProc : mkcall[q].at = "point" /\ mkcall[q].loc = loc
    BY DEF MkStays
  <2>2. QED
    BY <1>1, <1>3, <2>1
<1>12. QED
  BY <1>5, <1>8, <1>9, <1>10, <1>11

\* The index is read.
LEMMA MkReadOK ==
  ASSUME MkIInv, NEW p \in MkProc, MkRead(p)
  PROVE  MkIInv'
<1> USE DEF MkIInv
<1> DEFINE c == [at |-> "count", loc |-> mkcall[p].loc, i |-> nmarks]
<1>1. /\ mkcall[p].at = "assign" /\ ~Waits(mkmutex, p) /\ mkcall[p].loc \in MkLoc
      /\ UNCHANGED <<marks, nmarks, mkmutex, mkvalue, mkok>>
      /\ MkGo(p, c)
  BY MkShape DEF MkRead
<1>2. c \in MkInside /\ c.at = "count" /\ c.i = nmarks
  BY <1>1 DEF MkInside, MkTypes
<1> HIDE DEF c
<1>3. /\ mkcall' \in [MkProc -> {MkIdle} \cup MkOutside \cup MkInside]
      /\ mkcall'[p] = c
      /\ \A q \in MkProc : q # p => mkcall'[q] = mkcall[q]
  BY <1>1, <1>2, MkGoes
<1>4. MkTypes'
  BY <1>1, <1>3 DEF MkTypes
<1>5. \A q \in MkProc : MkHolds(q)' <=> MkHolds(q)
  BY <1>1, <1>2, <1>3 DEF MkHolds
<1>6. MkExclusion'
  BY <1>1, <1>3, <1>5 DEF MkExclusion
<1>7. OverrunBounded'
  <2>1. MkPassed' = MkPassed
    BY <1>1, <1>2, <1>3 DEF MkPassed
  <2>2. QED
    BY <1>1, <2>1 DEF OverrunBounded
<1>8. MkIndex' /\ MkEntries'
  BY <1>1, <1>2, <1>3 DEF MkIndex, MkEntries, notmarked
<1>9. MkStays'
  <2> SUFFICES ASSUME NEW loc \in mkok, notmarked(loc)
               PROVE  \E q \in MkProc : mkcall'[q].at = "point" /\ mkcall'[q].loc = loc
    BY <1>1 DEF MkStays, notmarked
  <2>1. PICK q \in MkProc : mkcall[q].at = "point" /\ mkcall[q].loc = loc
    BY DEF MkStays
  <2>2. QED
    BY <1>1, <1>3, <2>1
<1>10. QED
  BY <1>4, <1>6, <1>7, <1>8, <1>9

\* nmarks is increased and the location has its index.
LEMMA MkCountOK ==
  ASSUME MkIInv, NEW p \in MkProc, MkCount(p)
  PROVE  MkIInv'
<1> USE DEF MkIInv
<1> DEFINE c == [mkcall[p] EXCEPT !.at = "point"]
           l == mkcall[p].loc
<1>1. /\ mkcall[p].at = "count" /\ mkcall[p] \in MkInside /\ l \in MkLoc
      /\ mkcall[p].i = nmarks /\ nmarks \in Nat
      /\ nmarks' = nmarks + 1
      /\ mkvalue' = [mkvalue EXCEPT ![l] = nmarks]
      /\ UNCHANGED <<marks, mkmutex, mkok>>
      /\ MkGo(p, c)
  BY MkShape DEF MkCount, MkIndex, MkTypes
<1>2. c \in MkInside /\ c.at = "point" /\ c.loc = l /\ c.i = nmarks
  BY <1>1 DEF MkInside
<1> HIDE DEF c
<1>3. /\ mkcall' \in [MkProc -> {MkIdle} \cup MkOutside \cup MkInside]
      /\ mkcall'[p] = c
      /\ \A q \in MkProc : q # p => mkcall'[q] = mkcall[q]
  BY <1>1, <1>2, MkGoes
<1>4. /\ mkvalue' \in [MkLoc -> Int] /\ mkvalue'[l] = nmarks
      /\ \A k \in MkLoc : k # l => mkvalue'[k] = mkvalue[k]
  BY <1>1 DEF MkTypes
<1>5. MkTypes'
  BY <1>1, <1>3, <1>4 DEF MkTypes
<1>6. \A q \in MkProc : MkHolds(q)' <=> MkHolds(q)
  BY <1>1, <1>2, <1>3 DEF MkHolds
<1>7. MkExclusion'
  BY <1>1, <1>3, <1>6 DEF MkExclusion
<1>8. \A q \in MkProc : q # p => mkcall[q].at \notin {"count", "point", "signal"}
  BY <1>1 DEF MkExclusion, MkHolds
<1>9. nmarks \in MkSlot /\ OverrunBounded'
  <2>1. MkPassed \in SUBSET MkProc /\ p \in MkPassed /\ MkPassed' = MkPassed \ {p}
    BY <1>1, <1>2, <1>3 DEF MkPassed
  <2>2. /\ Cardinality(MkPassed) \in Nat /\ Cardinality(MkPassed \ {p}) = Cardinality(MkPassed) - 1
        /\ Cardinality(MkPassed \ {p}) \in Nat
        /\ Cardinality(MkProc) \in Nat
    <3>1. MkPassed \ {p} \in SUBSET MkProc /\ IsFiniteSet(MkPassed)
      BY <2>1, MkPassedBound
    <3>2. QED
      BY <2>1, <3>1, MkPassedBound, FS_RemoveElement
  <2>3. nmarks + Cardinality(MkPassed) <= MAXMARK + Cardinality(MkProc) - 1
    BY DEF OverrunBounded
  <2>4. nmarks \in MkSlot
    BY <1>1, <2>2, <2>3, MarksAssumption DEF MkSlot
  <2>5. OverrunBounded'
    BY <1>1, <2>1, <2>2, <2>3, MarksAssumption DEF OverrunBounded
  <2>6. QED
    BY <2>4, <2>5
<1>10. MkIndex'
  BY <1>1, <1>2, <1>3, <1>4, <1>8, <1>9 DEF MkIndex, MkEntries
<1>11. MkEntries'
  <2>1. \A j \in MkSlot : j >= nmarks' => marks'[j] = "none"
    BY <1>1 DEF MkEntries, MkSlot
  <2>2. ASSUME NEW j \in 0 .. nmarks' - 1
        PROVE  marks'[j] # "none" \/ \E q \in MkProc : mkcall'[q].at = "point" /\ mkcall'[q].i = j
    <3>1. j = nmarks \/ j \in 0 .. nmarks - 1
      BY <1>1
    <3>2. QED
      BY <1>1, <1>2, <1>3, <1>8, <3>1 DEF MkEntries
  <2>3. QED
    BY <2>1, <2>2 DEF MkEntries
<1>12. MkStays'
  <2> SUFFICES ASSUME NEW k \in mkok, k # l
               PROVE  ~notmarked(k)'
    BY <1>1, <1>2, <1>3 DEF MkStays
  <2>1. k \in MkLoc /\ ~notmarked(k)
    BY <1>1, <1>8 DEF MkStays, MkTypes
  <2>2. mkvalue'[k] = mkvalue[k] /\ mkvalue[k] \in Int
    BY <1>4, <2>1 DEF MkTypes
  <2>3. QED
    BY <1>1, <2>1, <2>2 DEF notmarked
<1>13. QED
  BY <1>5, <1>7, <1>9, <1>10, <1>11, <1>12

\* The entry points to the location.
LEMMA MkPointOK ==
  ASSUME MkIInv, NEW p \in MkProc, MkPoint(p)
  PROVE  MkIInv'
<1> USE DEF MkIInv
<1> DEFINE c == [mkcall[p] EXCEPT !.at = "signal"]
<1> PICK l, i : l = mkcall[p].loc /\ i = mkcall[p].i
  OBVIOUS
<1>1. /\ mkcall[p].at = "point" /\ mkcall[p] \in MkInside /\ l \in MkLoc /\ i \in Nat
      /\ i = nmarks - 1 /\ mkvalue[l] = i /\ nmarks \in Nat
      /\ marks[i] = "none"
      /\ marks' = [marks EXCEPT ![i] = l]
      /\ UNCHANGED <<nmarks, mkmutex, mkvalue, mkok>>
      /\ MkGo(p, c)
  BY MkShape DEF MkPoint, MkIndex, MkTypes, MkInside
<1>2. c \in MkInside /\ c.at = "signal" /\ c.loc = l
  BY <1>1 DEF MkInside
<1> HIDE DEF c
<1>3. /\ mkcall' \in [MkProc -> {MkIdle} \cup MkOutside \cup MkInside]
      /\ mkcall'[p] = c
      /\ \A q \in MkProc : q # p => mkcall'[q] = mkcall[q]
  BY <1>1, <1>2, MkGoes
<1>4. i \in MkSlot /\ l # "none"
  <2>1. MkPassed \in SUBSET MkProc
    BY DEF MkPassed
  <2>2. Cardinality(MkPassed) \in Nat /\ Cardinality(MkProc) \in Nat
    BY <2>1, MkPassedBound
  <2>3. QED
    BY <1>1, <2>2, MarksAssumption DEF MkSlot, OverrunBounded
<1>5. /\ marks' \in [MkSlot -> MkLoc \cup {"none"}] /\ marks'[i] = l
      /\ \A j \in MkSlot : j # i => marks'[j] = marks[j]
  BY <1>1, <1>4 DEF MkTypes
<1>6. MkTypes'
  BY <1>1, <1>3, <1>5 DEF MkTypes
<1>7. \A q \in MkProc : MkHolds(q)' <=> MkHolds(q)
  BY <1>1, <1>2, <1>3 DEF MkHolds
<1>8. MkExclusion'
  BY <1>1, <1>3, <1>7 DEF MkExclusion
<1>9. \A q \in MkProc : q # p => mkcall[q].at \notin {"count", "point", "signal"}
  BY <1>1 DEF MkExclusion, MkHolds
<1>10. OverrunBounded'
  <2>1. MkPassed' = MkPassed
    BY <1>1, <1>2, <1>3 DEF MkPassed
  <2>2. QED
    BY <1>1, <2>1 DEF OverrunBounded
<1>11. ~notmarked(l)'
  <2>1. mkvalue'[l] = i /\ i >= 0 /\ i < nmarks' /\ marks'[i] = l
    BY <1>1, <1>5
  <2>2. QED
    BY <1>1, <2>1 DEF notmarked
<1>12. MkIndex'
  BY <1>2, <1>3, <1>9, <1>11 DEF MkIndex
<1>13. \A j \in 0 .. nmarks - 1 : j \in MkSlot
  <2>1. Cardinality(MkProc) \in Nat
    BY MarksAssumption, FS_CardinalityType
  <2>2. QED
    BY <1>1, <1>4, <2>1, MarksAssumption DEF MkSlot
<1>14. MkEntries'
  <2>1. \A j \in MkSlot : j >= nmarks => marks'[j] = "none"
    BY <1>1, <1>5 DEF MkEntries, MkSlot
  <2>2. \A j \in 0 .. nmarks - 1 : marks'[j] # "none"
    <3>1. ASSUME NEW j \in 0 .. nmarks - 1, j # i PROVE marks[j] # "none"
      BY <1>9, <3>1 DEF MkEntries
    <3>2. QED
      BY <1>4, <1>5, <1>13, <3>1
  <2>3. QED
    BY <1>1, <2>1, <2>2 DEF MkEntries
<1>15. MkStays'
  <2> SUFFICES ASSUME NEW k \in mkok, k # l
               PROVE  ~notmarked(k)'
    BY <1>1, <1>11 DEF MkStays
  <2>1. k \in MkLoc /\ ~notmarked(k) /\ mkvalue[k] \in Int
    BY <1>1, <1>9 DEF MkStays, MkTypes
  <2>2. mkvalue[k] \in 0 .. nmarks - 1 /\ marks[mkvalue[k]] = k
    BY <1>1, <2>1 DEF notmarked
  <2>3. k # "none" /\ mkvalue[k] # i
    BY <1>1, <2>1, <2>2, MarksAssumption
  <2>4. marks'[mkvalue[k]] = k
    BY <1>5, <1>13, <2>2, <2>3
  <2>5. QED
    BY <1>1, <2>2, <2>4 DEF notmarked
<1>16. QED
  BY <1>6, <1>8, <1>10, <1>12, <1>14, <1>15

\* Out of the mutex.
LEMMA MkLeaveOK ==
  ASSUME MkIInv, NEW p \in MkProc, MkLeave(p)
  PROVE  MkIInv'
<1> USE DEF MkIInv
<1> DEFINE l == mkcall[p].loc
<1>1. /\ mkcall[p].at = "signal" /\ l \in MkLoc /\ ~notmarked(l)
      /\ mkok' = mkok \cup {l}
      /\ UNCHANGED <<marks, nmarks, mkvalue>>
      /\ MkGo(p, MkIdle)
  BY MkShape DEF MkLeave, MkIndex
<1>2. MkIdle.at = "idle"
  BY DEF MkIdle
<1>3. /\ mkcall' \in [MkProc -> {MkIdle} \cup MkOutside \cup MkInside]
      /\ mkcall'[p] = MkIdle
      /\ \A q \in MkProc : q # p => mkcall'[q] = mkcall[q]
  BY <1>1, MkGoes
<1>4. /\ mkmutex' \in SemOf(MkProc)
      /\ SemOK(mkmutex')
      /\ mkmutex'.count = mkmutex.count + 1
      /\ mkmutex.count >= 0 => \A q : ~Waits(mkmutex, q) /\ ~Waits(mkmutex', q)
      /\ mkmutex.count < 0 => \E h \in MkProc :
           Waits(mkmutex, h) /\ \A q : Waits(mkmutex', q) <=> (Waits(mkmutex, q) /\ q # h)
  <2>1. mkmutex \in SemOf(MkProc) /\ SemOK(mkmutex) /\ mkmutex' = Signalled(mkmutex)
    BY DEF MkTypes, MkExclusion, MkLeave
  <2>2. QED
    BY <2>1, SemSignalled
<1>5. MkTypes'
  BY <1>1, <1>3, <1>4 DEF MkTypes
<1>6. MkHolds(p) /\ \A q \in MkProc : q # p => ~MkHolds(q)
  BY <1>1 DEF MkExclusion, MkHolds
<1>7. mkmutex.count \in Int /\ mkmutex.count <= 0
  BY <1>6 DEF MkTypes, SemOf, MkExclusion
<1>8. ~MkHolds(p)'
  BY <1>2, <1>3 DEF MkHolds
<1>9. MkExclusion'
  <2>1. CASE mkmutex.count = 0
    <3>1. \A q \in MkProc : ~MkHolds(q)'
      BY <1>3, <1>4, <1>6, <1>8, <2>1 DEF MkHolds
    <3>2. QED
      BY <1>4, <2>1, <3>1 DEF MkExclusion
  <2>2. CASE mkmutex.count < 0
    <3>1. PICK h \in MkProc :
            Waits(mkmutex, h) /\ \A q : Waits(mkmutex', q) <=> (Waits(mkmutex, q) /\ q # h)
      BY <1>4, <2>2
    <3>2. mkcall[h].at = "assign" /\ h # p
      BY <1>1, <3>1 DEF MkExclusion
    <3>3. MkHolds(h)' /\ \A q \in MkProc : q # h => ~MkHolds(q)'
      BY <1>3, <1>6, <1>8, <3>1, <3>2 DEF MkHolds
    <3>4. \A q \in MkProc : Waits(mkmutex', q) => mkcall'[q].at = "assign"
      BY <1>1, <1>3, <3>1 DEF MkExclusion
    <3>5. mkmutex'.count <= 0
      BY <1>4, <1>7, <2>2
    <3>6. \A q, r \in MkProc : MkHolds(q)' /\ MkHolds(r)' => q = r
      BY <3>3
    <3>7. mkmutex'.count # 1 /\ ~ \A q \in MkProc : ~MkHolds(q)'
      BY <3>3, <3>5
    <3>8. QED
      BY <1>4, <1>7, <3>4, <3>5, <3>6, <3>7 DEF MkExclusion
  <2>3. QED
    BY <1>7, <2>1, <2>2
<1>10. OverrunBounded'
  <2>1. MkPassed' = MkPassed
    BY <1>1, <1>2, <1>3 DEF MkPassed
  <2>2. QED
    BY <1>1, <2>1 DEF OverrunBounded
<1>11. MkIndex' /\ MkEntries'
  BY <1>1, <1>2, <1>3 DEF MkIndex, MkEntries, notmarked
<1>12. MkStays'
  <2> SUFFICES ASSUME NEW loc \in mkok, notmarked(loc)
               PROVE  \E q \in MkProc : mkcall'[q].at = "point" /\ mkcall'[q].loc = loc
    BY <1>1 DEF MkStays, notmarked
  <2>1. PICK q \in MkProc : mkcall[q].at = "point" /\ mkcall[q].loc = loc
    BY DEF MkStays
  <2>2. QED
    BY <1>1, <1>3, <2>1
<1>13. QED
  BY <1>5, <1>9, <1>10, <1>11, <1>12

LEMMA MkNextOK ==
  ASSUME MkIInv, [MkNext]_mkVars
  PROVE  MkIInv'
<1>1. CASE UNCHANGED mkVars
  BY <1>1 DEF mkVars, MkIInv, MkTypes, MkExclusion, MkHolds, OverrunBounded, MkPassed, MkIndex,
              MkEntries, MkStays, notmarked
<1>2. CASE MkNext
  BY <1>2, MkFoundOK, MkNotFoundOK, MkTestRoomOK, MkEnterOK, MkReadOK, MkCountOK, MkPointOK,
     MkLeaveOK DEF MkNext, MkStep
<1>3. QED
  BY <1>1, <1>2

\* What MkInv says follows from it.
LEMMA MkIInvImplies == MkIInv => MkInv
<1> SUFFICES ASSUME MkIInv PROVE MkInv
  OBVIOUS
<1> USE DEF MkIInv
<1>1. MkTypeOK
  BY DEF MkTypeOK, MkTypes, MkExclusion
<1>2. MarkedStays
  <2> SUFFICES ASSUME NEW loc \in mkok,
                      \A p \in MkProc : mkcall[p] = MkIdle \/ mkcall[p].loc # loc
               PROVE  /\ ~notmarked(loc)
                      /\ \A l \in mkok \ {loc} : mkvalue[l] # mkvalue[loc]
    BY DEF MarkedStays
  <2>1. ~notmarked(loc)
    BY DEF MkStays, MkIdle
  <2>2. loc \in MkLoc /\ marks[mkvalue[loc]] = loc /\ loc # "none"
    BY <2>1, MarksAssumption DEF MkTypes, notmarked
  <2>3. ASSUME NEW l \in mkok \ {loc}
        PROVE  mkvalue[l] # mkvalue[loc]
    <3>1. CASE ~notmarked(l)
      BY <2>2, <3>1 DEF notmarked
    <3>2. CASE notmarked(l)
      BY <2>2, <3>2 DEF MkStays, MkIndex
    <3>3. QED
      BY <3>1, <3>2
  <2>4. QED
    BY <2>1, <2>3
<1>3. EntriesUsed
  BY DEF EntriesUsed, MkExclusion, MkHolds, MkEntries
<1>4. QED
  BY <1>1, <1>2, <1>3 DEF MkInv

\* A location for which mark returned OK stays marked, with an entry of its own,
\* whatever the memory held before and whoever runs between the test and the
\* mutex; no entry is lost; and marks is overrun by at most one entry for each
\* other process that passed the test.
THEOREM MemoryMarks == MkSpec => []MkInv
<1>1. MkInit => MkIInv
  BY MkInitOK
<1>2. MkIInv /\ [MkNext]_mkVars => MkIInv'
  BY MkNextOK
<1>3. MkIInv => MkInv
  BY MkIInvImplies
<1>4. QED
  BY <1>1, <1>2, <1>3, PTL DEF MkSpec

-----------------------------------------------------------------------------
(* Buffer pools: lists of free buffers.                                    *)

\* The buffers of s are linked by their words w from f on.
ListOf(w, f, s) ==
    /\ QueueOf(Buf, s)
    /\ f = IF s = <<>> THEN NoBuf ELSE s[1]
    /\ \A k \in 1 .. Len(s) : w[s[k]] = Link(IF k < Len(s) THEN s[k + 1] ELSE NoBuf)

LEMMA BufFacts == BpMem \in Nat /\ Buf = 1 .. BpMem /\ NoBuf = 0 /\ NoBuf \notin Buf
  BY BufPoolAssumption DEF Buf, NoBuf

\* One turn of Linked, on the sequences that are found in one turn less.
BpTurn(w, k, before) ==
    [b \in 0 .. BpMem |->
        IF k = 0 \/ b = NoBuf THEN <<>>
        ELSE <<b>> \o before[IF w[b].is = "link" THEN w[b].of ELSE NoBuf]]

\* The recursion of Linked defines a function.
LEMMA LinkedTurns ==
  ASSUME NEW w
  PROVE  \A k \in 0 .. BpMem : Linked(w)[k] = BpTurn(w, k, Linked(w)[k - 1])
<1> DEFINE Defines(f, N) == f = [i \in 0 .. N |-> BpTurn(w, i, f[i - 1])]
           T == {N \in Nat : \E f : Defines(f, N)}
<1>1. BpMem \in Nat
  BY BufFacts
<1>2. 0 \in T
  <2> DEFINE f == [i \in 0 .. 0 |-> BpTurn(w, 0, <<>>)]
  <2>1. BpTurn(w, 0, f[0 - 1]) = BpTurn(w, 0, <<>>)
    BY DEF BpTurn
  <2>2. Defines(f, 0)
    BY <2>1
  <2>3. QED
    BY <2>2
<1>3. ASSUME NEW N \in 0 .. BpMem - 1, N \in T
      PROVE  N + 1 \in T
  <2>1. PICK f : Defines(f, N)
    BY <1>3
  <2> DEFINE g == [i \in 0 .. N + 1 |-> IF i = N + 1 THEN BpTurn(w, N + 1, f[N]) ELSE f[i]]
  <2>2. N + 1 \in Nat /\ N \in Nat /\ N \in 0 .. N
    BY <1>1
  <2>3. ASSUME NEW i \in 0 .. N + 1
        PROVE  g[i] = BpTurn(w, i, g[i - 1])
    <3>1. CASE i = N + 1
      <4>1. g[i - 1] = f[N]
        BY <2>2, <3>1
      <4>2. QED
        BY <3>1, <4>1
    <3>2. CASE i \in 1 .. N
      <4>1. g[i] = f[i] /\ g[i - 1] = f[i - 1]
        BY <2>2, <3>2
      <4>2. f[i] = BpTurn(w, i, f[i - 1])
        BY <2>1, <2>2, <3>2
      <4>3. QED
        BY <4>1, <4>2
    <3>3. CASE i = 0
      <4>1. g[0] = f[0] /\ f[0] = BpTurn(w, 0, f[0 - 1])
        BY <2>1, <2>2
      <4>2. QED
        BY <3>3, <4>1 DEF BpTurn
    <3>4. QED
      BY <2>2, <3>1, <3>2, <3>3
  <2>4. Defines(g, N + 1)
    <3> DEFINE h == [i \in 0 .. N + 1 |-> BpTurn(w, i, g[i - 1])]
    <3>1. \A i \in 0 .. N + 1 : g[i] = h[i]
      BY <2>3
    <3>2. DOMAIN g = 0 .. N + 1 /\ DOMAIN h = 0 .. N + 1
      OBVIOUS
    <3>3. QED
      BY <3>1, <3>2
  <2>5. QED
    BY <2>2, <2>4
<1>4. BpMem \in T
  <2> HIDE DEF T
  <2>1. BpMem \in 0 .. BpMem
    BY <1>1
  <2>2. QED
    BY <1>1, <1>2, <1>3, <2>1, UpTo
<1>5. PICK f : Defines(f, BpMem)
  BY <1>4
<1>6. Linked(w) = [k \in 0 .. BpMem |-> BpTurn(w, k, Linked(w)[k - 1])]
  BY <1>5 DEF Linked, BpTurn
<1>7. QED
  BY <1>6

\* A list has no more entries than there are buffers.
LEMMA ListEntries ==
  ASSUME NEW s, QueueOf(Buf, s)
  PROVE  /\ s \in Seq(Buf) /\ Len(s) \in 0 .. BpMem
         /\ \A k \in 1 .. Len(s) : s[k] \in Buf
         /\ \A j, k \in 1 .. Len(s) : j # k => s[j] # s[k]
         /\ Range(s) = {s[k] : k \in 1 .. Len(s)}
<1>1. s \in Seq(Buf) /\ Len(s) \in Nat /\ DOMAIN s = 1 .. Len(s)
  BY LenProperties DEF QueueOf
<1>2. \A k \in 1 .. Len(s) : s[k] \in Buf
  BY <1>1, ElementOfSeq
<1>3. \A j, k \in 1 .. Len(s) : j # k => s[j] # s[k]
  BY <1>1 DEF QueueOf, IsInjective
<1>4. Len(s) <= BpMem
  <2>1. s \in Injection(1 .. Len(s), 1 .. BpMem)
    BY <1>1, <1>2, <1>3, BufFacts DEF Injection, IsInjective
  <2>2. IsFiniteSet(1 .. BpMem) /\ Cardinality(1 .. BpMem) = BpMem
    BY BufFacts, FS_Interval
  <2>3. Cardinality(1 .. Len(s)) = Len(s)
    BY <1>1, FS_Interval
  <2>4. QED
    BY <2>1, <2>2, <2>3, FS_Injection
<1>5. QED
  BY <1>1, <1>2, <1>3, <1>4, BufFacts DEF Range

\* A list is what is found along its links.
LEMMA ListIs ==
  ASSUME NEW w, NEW f, NEW s, ListOf(w, f, s)
  PROVE  Linked(w)[BpMem][f] = s
<1> DEFINE L == Len(s)
           At(k) == IF k <= L THEN s[k] ELSE NoBuf
           T == {j \in 0 .. L : \A k \in j .. BpMem :
                    Linked(w)[k][At(L + 1 - j)] = SubSeq(s, L + 1 - j, L)}
<1>1. /\ s \in Seq(Buf) /\ L \in 0 .. BpMem
      /\ \A k \in 1 .. L : s[k] \in Buf
  BY ListEntries DEF ListOf
<1>2. BpMem \in Nat /\ Buf = 1 .. BpMem /\ NoBuf = 0
  BY BufFacts
<1>3. \A k \in 1 .. L : w[s[k]] = Link(At(k + 1))
  <2> TAKE k \in 1 .. L
  <2>1. At(k + 1) = IF k < L THEN s[k + 1] ELSE NoBuf
    BY <1>1, <1>2
  <2>2. QED
    BY <2>1 DEF ListOf
<1>4. \A k \in 0 .. BpMem : \A b \in 0 .. BpMem :
         Linked(w)[k][b] =
            IF k = 0 \/ b = NoBuf THEN <<>>
            ELSE <<b>> \o Linked(w)[k - 1][IF w[b].is = "link" THEN w[b].of ELSE NoBuf]
  <2> TAKE k \in 0 .. BpMem
  <2>1. Linked(w)[k] = BpTurn(w, k, Linked(w)[k - 1])
    BY LinkedTurns
  <2>2. QED
    BY <2>1 DEF BpTurn
<1>5. f = At(1)
  <2>1. s = <<>> <=> L = 0
    BY <1>1, EmptySeq
  <2>2. QED
    BY <2>1, <1>1, <1>2 DEF ListOf
<1> HIDE DEF L
<1>6. 0 \in T
  <2>1. At(L + 1) = NoBuf /\ NoBuf \in 0 .. BpMem
    BY <1>1, <1>2
  <2>2. \A k \in 0 .. BpMem : Linked(w)[k][NoBuf] = <<>>
    BY <2>1, <1>4
  <2>3. SubSeq(s, L + 1, L) = <<>>
    BY <1>1, SubSeqEmpty
  <2>4. L + 1 - 0 = L + 1 /\ 0 \in 0 .. L
    BY <1>1, <1>2
  <2>5. QED
    BY <2>1, <2>2, <2>3, <2>4
<1>7. ASSUME NEW j \in 0 .. L - 1, j \in T
      PROVE  j + 1 \in T
  <2> DEFINE m == L - j
  <2>1. m \in 1 .. L /\ L + 1 - (j + 1) = m /\ L + 1 - j = m + 1 /\ j + 1 \in 0 .. L /\ L \in Nat
    BY <1>1, <1>2
  <2> HIDE DEF m
  <2>2. ASSUME NEW k \in j + 1 .. BpMem
        PROVE  Linked(w)[k][At(m)] = SubSeq(s, m, L)
    <3>1. k \in 0 .. BpMem /\ k - 1 \in j .. BpMem /\ k # 0
      BY <1>1, <1>2
    <3>2. At(m) = s[m] /\ s[m] \in Buf /\ s[m] \in 0 .. BpMem /\ s[m] # NoBuf
      BY <2>1, <1>1, <1>2
    <3>3. w[s[m]].is = "link" /\ w[s[m]].of = At(m + 1)
      <4>1. w[s[m]] = Link(At(m + 1))
        BY <1>3, <2>1
      <4> HIDE DEF At
      <4>2. QED
        BY <4>1 DEF Link
    <3>4. Linked(w)[k][s[m]] = <<s[m]>> \o Linked(w)[k - 1][At(m + 1)]
      BY <3>1, <3>2, <3>3, <1>4
    <3>5. Linked(w)[k - 1][At(m + 1)] = SubSeq(s, m + 1, L)
      BY <1>7, <2>1, <3>1
    <3>6. SubSeq(s, m, L) = <<s[m]>> \o SubSeq(s, m + 1, L)
      <4>1. m \in 1 .. Len(s) /\ L \in m .. Len(s)
        BY <2>1, <1>1, <1>2 DEF L
      <4>2. QED
        BY <4>1, <1>1, SubSeqRecursiveFirst
    <3>7. QED
      BY <3>2, <3>4, <3>5, <3>6
  <2>3. QED
    BY <2>1, <2>2
<1>8. L \in T
  <2> HIDE DEF T
  <2>1. L \in Nat /\ L \in 0 .. L
    BY <1>1, <1>2
  <2>2. QED
    BY <2>1, <1>6, <1>7, UpTo
<1>9. Linked(w)[BpMem][At(1)] = SubSeq(s, 1, L)
  <2>1. BpMem \in L .. BpMem /\ L + 1 - L = 1
    BY <1>1, <1>2
  <2>2. QED
    BY <1>8, <2>1
<1>10. SubSeq(s, 1, L) = s
  BY <1>1, SubSeqFull DEF L
<1>11. QED
  BY <1>5, <1>9, <1>10

\* A list is what it was while its words are.
LEMMA ListKept ==
  ASSUME NEW w, NEW w2, NEW f, NEW s, ListOf(w, f, s), \A b \in Range(s) : w2[b] = w[b]
  PROVE  ListOf(w2, f, s)
<1>1. \A k \in 1 .. Len(s) : s[k] \in Range(s)
  BY ListEntries DEF ListOf
<1>2. \A k \in 1 .. Len(s) : w2[s[k]] = w[s[k]]
  BY <1>1
<1>3. QED
  BY <1>2 DEF ListOf

\* The first buffer is taken off.
LEMMA ListFirstOut ==
  ASSUME NEW w, NEW w2, NEW f, NEW s, ListOf(w, f, s), s # <<>>,
         \A b \in Buf \ {f} : w2[b] = w[b]
  PROVE  /\ f \in Buf
         /\ Range(s) = Range(Tail(s)) \cup {f} /\ f \notin Range(Tail(s))
         /\ Len(s) = Len(Tail(s)) + 1
         /\ w[f].of \in Buf \cup {NoBuf}
         /\ ListOf(w2, w[f].of, Tail(s))
<1> DEFINE L == Len(s)
           r == Tail(s)
<1>1. /\ s \in Seq(Buf) /\ L \in Nat /\ L >= 1
      /\ \A k \in 1 .. L : s[k] \in Buf
      /\ \A j, k \in 1 .. L : j # k => s[j] # s[k]
      /\ Range(s) = {s[k] : k \in 1 .. L}
  <2>1. QueueOf(Buf, s)
    BY DEF ListOf
  <2>2. L # 0
    BY <2>1, ListEntries, EmptySeq
  <2>3. QED
    BY <2>1, <2>2, ListEntries, BufFacts
<1>2. f = s[1] /\ f \in Buf
  BY <1>1 DEF ListOf
<1>3. /\ r \in Seq(Buf) /\ Len(r) = L - 1 /\ DOMAIN r = 1 .. L - 1
      /\ \A k \in 1 .. L - 1 : r[k] = s[k + 1]
  BY <1>1, HeadTailProperties, LenProperties
<1> HIDE DEF L, r
<1>4. QueueOf(Buf, r)
  <2>1. \A j, k \in 1 .. L - 1 : j # k => r[j] # r[k]
    <3> TAKE j, k \in 1 .. L - 1
    <3>1. j + 1 \in 1 .. L /\ k + 1 \in 1 .. L /\ (j # k => j + 1 # k + 1)
      BY <1>1
    <3>2. QED
      BY <1>1, <1>3, <3>1
  <2>2. QED
    BY <2>1, <1>3 DEF QueueOf, IsInjective
<1>5. Range(r) = {s[k] : k \in 2 .. L}
  <2>1. Range(r) = {r[k] : k \in 1 .. L - 1}
    BY <1>3 DEF Range
  <2>2. \A k \in 1 .. L - 1 : k + 1 \in 2 .. L /\ r[k] = s[k + 1]
    BY <1>1, <1>3
  <2>3. \A k \in 2 .. L : k - 1 \in 1 .. L - 1 /\ r[k - 1] = s[k]
    <3> TAKE k \in 2 .. L
    <3>1. k - 1 \in 1 .. L - 1 /\ (k - 1) + 1 = k
      BY <1>1
    <3>2. QED
      BY <1>3, <3>1
  <2>4. QED
    BY <2>1, <2>2, <2>3
<1>6. Range(s) = Range(r) \cup {f} /\ f \notin Range(r)
  <2>1. \A k \in 1 .. L : k = 1 \/ k \in 2 .. L
    BY <1>1
  <2>2. \A k \in 2 .. L : k \in 1 .. L /\ 1 \in 1 .. L /\ k # 1
    BY <1>1
  <2>3. \A k \in 2 .. L : s[k] # s[1]
    BY <1>1, <2>2
  <2>4. 1 \in 1 .. L
    BY <1>1
  <2>5. QED
    BY <1>1, <1>2, <1>5, <2>1, <2>2, <2>3, <2>4
<1>7. w[s[1]] = Link(IF 1 < L THEN s[2] ELSE NoBuf)
  <2>1. 1 \in 1 .. Len(s) /\ 1 + 1 = 2
    BY <1>1 DEF L
  <2>2. QED
    BY <2>1 DEF ListOf, L
<1>8. w[f].of = IF 1 < L THEN s[2] ELSE NoBuf
  <2>1. PICK x : x = IF 1 < L THEN s[2] ELSE NoBuf
    OBVIOUS
  <2>2. w[f] = Link(x)
    BY <2>1, <1>2, <1>7
  <2>3. QED
    BY <2>1, <2>2 DEF Link
<1>9. w[f].of = IF r = <<>> THEN NoBuf ELSE r[1]
  <2>1. r = <<>> <=> L - 1 = 0
    BY <1>3, EmptySeq
  <2>2. 1 < L => r[1] = s[2]
    BY <1>1, <1>3
  <2>3. QED
    BY <1>1, <1>8, <2>1, <2>2
<1>10. w[f].of \in Buf \cup {NoBuf}
  BY <1>1, <1>8
<1>11. \A k \in 1 .. L - 1 : w2[r[k]] = Link(IF k < L - 1 THEN r[k + 1] ELSE NoBuf)
  <2> TAKE k \in 1 .. L - 1
  <2>1. k + 1 \in 1 .. L /\ r[k] = s[k + 1] /\ k + 1 # 1 /\ 1 \in 1 .. L
    BY <1>1, <1>3
  <2>2. r[k] \in Buf \ {f}
    BY <1>1, <1>2, <2>1
  <2>3. w[s[k + 1]] = Link(IF k + 1 < L THEN s[k + 1 + 1] ELSE NoBuf)
    BY <2>1 DEF ListOf, L
  <2>4. k < L - 1 <=> k + 1 < L
    BY <1>1
  <2>5. k < L - 1 => r[k + 1] = s[k + 1 + 1]
    BY <1>1, <1>3
  <2>6. QED
    BY <2>1, <2>2, <2>3, <2>4, <2>5
<1>12. ListOf(w2, w[f].of, r)
  BY <1>3, <1>4, <1>9, <1>11 DEF ListOf
<1>13. L = Len(r) + 1
  BY <1>1, <1>3
<1>14. QED
  BY <1>2, <1>6, <1>10, <1>12, <1>13 DEF L, r

\* A buffer is put before the first one.
LEMMA ListFirstIn ==
  ASSUME NEW w, NEW w2, NEW f, NEW s, ListOf(w, f, s), NEW b \in Buf \ Range(s),
         w2[b] = Link(f), \A c \in Buf \ {b} : w2[c] = w[c]
  PROVE  /\ Range(<<b>> \o s) = Range(s) \cup {b}
         /\ Len(<<b>> \o s) = Len(s) + 1
         /\ ListOf(w2, b, <<b>> \o s)
<1> DEFINE L == Len(s)
           r == <<b>> \o s
<1>1. /\ s \in Seq(Buf) /\ L \in Nat
      /\ \A k \in 1 .. L : s[k] \in Buf
      /\ \A j, k \in 1 .. L : j # k => s[j] # s[k]
      /\ Range(s) = {s[k] : k \in 1 .. L}
  BY ListEntries, BufFacts DEF ListOf
<1>2. /\ r \in Seq(Buf) /\ Len(r) = L + 1 /\ DOMAIN r = 1 .. L + 1
      /\ r[1] = b /\ \A k \in 1 .. L : r[k + 1] = s[k]
  <2>1. <<b>> \in Seq(Buf) /\ Len(<<b>>) = 1 /\ <<b>>[1] = b
    OBVIOUS
  <2>2. r \in Seq(Buf) /\ Len(r) = 1 + L
    BY <1>1, <2>1, ConcatProperties
  <2>3. \A k \in 1 .. 1 + L : r[k] = IF k <= 1 THEN <<b>>[k] ELSE s[k - 1]
    BY <1>1, <2>1, ConcatProperties
  <2>4. DOMAIN r = 1 .. L + 1
    BY <1>1, <2>2, LenProperties
  <2>5. r[1] = b
    BY <1>1, <2>1, <2>3
  <2>6. ASSUME NEW k \in 1 .. L PROVE r[k + 1] = s[k]
    <3>1. k + 1 \in 1 .. 1 + L /\ ~(k + 1 <= 1) /\ (k + 1) - 1 = k
      BY <1>1
    <3>2. QED
      BY <2>3, <3>1
  <2>7. QED
    BY <1>1, <2>2, <2>4, <2>5, <2>6
<1> HIDE DEF L, r
<1>3. \A k \in 2 .. L + 1 : k - 1 \in 1 .. L /\ r[k] = s[k - 1]
  <2> TAKE k \in 2 .. L + 1
  <2>1. k - 1 \in 1 .. L /\ (k - 1) + 1 = k
    BY <1>1
  <2>2. QED
    BY <1>2, <2>1
<1>4. \A k \in 1 .. L + 1 : k = 1 \/ k \in 2 .. L + 1
  BY <1>1
<1>5. \A k \in 1 .. L : s[k] # b
  BY <1>1
<1>6. QueueOf(Buf, r)
  <2>1. \A j, k \in 1 .. L + 1 : j # k => r[j] # r[k]
    <3> TAKE j, k \in 1 .. L + 1
    <3>1. CASE j = 1 /\ k # 1
      BY <3>1, <1>2, <1>3, <1>4, <1>5
    <3>2. CASE j # 1 /\ k = 1
      BY <3>2, <1>2, <1>3, <1>4, <1>5
    <3>3. CASE j # 1 /\ k # 1
      <4>1. j - 1 \in 1 .. L /\ k - 1 \in 1 .. L /\ r[j] = s[j - 1] /\ r[k] = s[k - 1]
        BY <3>3, <1>3, <1>4
      <4>2. j # k => j - 1 # k - 1
        BY <1>1
      <4>3. QED
        BY <4>1, <4>2, <1>1
    <3>4. QED
      BY <3>1, <3>2, <3>3
  <2>2. QED
    BY <2>1, <1>2 DEF QueueOf, IsInjective
<1>7. Range(r) = Range(s) \cup {b}
  <2>1. Range(r) = {r[k] : k \in 1 .. L + 1}
    BY <1>2 DEF Range
  <2>2. \A k \in 1 .. L : k + 1 \in 1 .. L + 1 /\ r[k + 1] = s[k]
    BY <1>1, <1>2
  <2>3. 1 \in 1 .. L + 1
    BY <1>1
  <2>4. \A k \in 1 .. L + 1 : r[k] \in Range(s) \cup {b}
    <3> TAKE k \in 1 .. L + 1
    <3>1. CASE k = 1
      BY <3>1, <1>2
    <3>2. CASE k \in 2 .. L + 1
      <4>1. k - 1 \in 1 .. L /\ r[k] = s[k - 1]
        BY <3>2, <1>3
      <4>2. QED
        BY <4>1, <1>1
    <3>3. QED
      BY <3>1, <3>2, <1>4
  <2>5. \A k \in 1 .. L : s[k] \in Range(r)
    BY <2>1, <2>2
  <2>6. b \in Range(r)
    BY <2>1, <2>3, <1>2
  <2>7. QED
    BY <2>1, <2>4, <2>5, <2>6, <1>1
<1>8. \A k \in 1 .. L + 1 : w2[r[k]] = Link(IF k < L + 1 THEN r[k + 1] ELSE NoBuf)
  <2> TAKE k \in 1 .. L + 1
  <2>1. CASE k = 1
    <3>1. f = IF s = <<>> THEN NoBuf ELSE s[1]
      BY DEF ListOf
    <3>2. s = <<>> <=> L = 0
      BY <1>1, EmptySeq DEF L
    <3>3. L # 0 => r[1 + 1] = s[1]
      BY <1>1, <1>2
    <3>4. f = IF 1 < L + 1 THEN r[1 + 1] ELSE NoBuf
      BY <1>1, <3>1, <3>2, <3>3
    <3>5. QED
      BY <1>2, <2>1, <3>4
  <2>2. CASE k # 1
    <3>1. k - 1 \in 1 .. L /\ r[k] = s[k - 1]
      BY <1>3, <1>4, <2>2
    <3>2. w[s[k - 1]] = Link(IF k - 1 < L THEN s[k - 1 + 1] ELSE NoBuf)
      BY <3>1 DEF ListOf, L
    <3>3. w2[s[k - 1]] = w[s[k - 1]]
      BY <1>1, <1>5, <3>1
    <3>4. (k - 1 < L <=> k < L + 1) /\ k - 1 + 1 = k
      BY <1>1
    <3>5. k < L + 1 => k \in 1 .. L /\ r[k + 1] = s[k]
      BY <1>1, <1>2
    <3>6. QED
      BY <3>1, <3>2, <3>3, <3>4, <3>5
  <2>3. QED
    BY <2>1, <2>2
<1>9. b = IF r = <<>> THEN NoBuf ELSE r[1]
  <2>1. r # <<>>
    BY <1>1, <1>2, EmptySeq
  <2>2. QED
    BY <1>2, <2>1
<1>10. ListOf(w2, b, r)
  BY <1>2, <1>6, <1>8, <1>9 DEF ListOf
<1>11. QED
  BY <1>2, <1>7, <1>10 DEF L, r

\* The buffers of a run of n are linked one to the next.
LEMMA ListMade ==
  ASSUME NEW w, NEW n \in Nat \ {0}, NEW m \in Buf, m + n - 1 \in Buf,
         \A b \in m .. m + n - 1 : w[b] = Link(IF b = m + n - 1 THEN NoBuf ELSE b + 1)
  PROVE  /\ Range([k \in 1 .. n |-> m + k - 1]) = m .. m + n - 1
         /\ Len([k \in 1 .. n |-> m + k - 1]) = n
         /\ ListOf(w, m, [k \in 1 .. n |-> m + k - 1])
<1> DEFINE s == [k \in 1 .. n |-> m + k - 1]
<1>1. m \in 1 .. BpMem /\ m + n - 1 \in 1 .. BpMem /\ BpMem \in Nat /\ Buf = 1 .. BpMem
  BY BufFacts
<1>2. \A k \in 1 .. n : s[k] = m + k - 1 /\ s[k] \in Buf /\ s[k] \in m .. m + n - 1
  BY <1>1
<1>3. s \in Seq(Buf) /\ Len(s) = n /\ DOMAIN s = 1 .. n
  <2>1. DOMAIN s = 1 .. n /\ \A k \in 1 .. n : s[k] \in Buf
    BY <1>2
  <2>2. s \in Seq(Buf)
    BY <2>1, SeqDef
  <2>3. QED
    BY <2>1, <2>2, LenProperties
<1> HIDE DEF s
<1>4. QueueOf(Buf, s)
  <2>1. \A j, k \in 1 .. n : j # k => s[j] # s[k]
    BY <1>1, <1>2
  <2>2. QED
    BY <2>1, <1>3 DEF QueueOf, IsInjective
<1>5. Range(s) = m .. m + n - 1
  <2>1. Range(s) = {s[k] : k \in 1 .. n}
    BY <1>3 DEF Range
  <2>2. \A b \in m .. m + n - 1 : b - m + 1 \in 1 .. n /\ m + (b - m + 1) - 1 = b
    BY <1>1
  <2>3. QED
    BY <2>1, <2>2, <1>2
<1>6. m = IF s = <<>> THEN NoBuf ELSE s[1]
  <2>1. s # <<>> /\ 1 \in 1 .. n /\ m + 1 - 1 = m
    BY <1>1, <1>3, EmptySeq
  <2>2. QED
    BY <1>2, <2>1
<1>7. \A k \in 1 .. n : w[s[k]] = Link(IF k < n THEN s[k + 1] ELSE NoBuf)
  <2> TAKE k \in 1 .. n
  <2>1. w[s[k]] = Link(IF s[k] = m + n - 1 THEN NoBuf ELSE s[k] + 1)
    BY <1>2
  <2>2. s[k] = m + k - 1 /\ (s[k] = m + n - 1 <=> ~(k < n))
    <3>1. s[k] = m + k - 1
      BY <1>2
    <3>2. QED
      BY <3>1, <1>1
  <2>3. k < n => s[k + 1] = s[k] + 1
    <3>1. k < n => k + 1 \in 1 .. n /\ m + (k + 1) - 1 = m + k - 1 + 1
      BY <1>1
    <3>2. k < n => s[k + 1] = m + (k + 1) - 1
      BY <1>2, <3>1
    <3>3. QED
      BY <2>2, <3>1, <3>2
  <2>4. QED
    BY <2>1, <2>2, <2>3
<1>8. QED
  BY <1>3, <1>4, <1>5, <1>6, <1>7 DEF ListOf, s

-----------------------------------------------------------------------------
(* Buffer pools: the inductive invariant.                                  *)

\* Where a buffer is: each of them is in one place.
Heap == <<"heap">>
OnList(i) == <<"list", i>>
With(p) == <<"with", p>>

Places(M) == {Heap} \cup {OnList(i) : i \in M} \cup {With(p) : p \in BpProc}

PlacesAre(place, M, ch, held, fresh) ==
    /\ place \in [Buf -> Places(M)]
    /\ fresh = {b \in Buf : place[b] = Heap}
    /\ \A i \in M : Range(ch[i]) = {b \in Buf : place[b] = OnList(i)}
    /\ \A p \in BpProc : held[p] = {b \in Buf : place[b] = With(p)}

BpTypes ==
    /\ nbpools \in 0 .. NBPOOLS
    /\ bpnext \in [BpId -> Buf \cup {NoBuf}]
    /\ bpsem \in [BpId -> {NoSem} \cup SemOf(BpProc)]
    /\ bpword \in [Buf -> [is : {"link", "pool"}, of : Int]]
    /\ bpfresh \subseteq Buf
    /\ bpheld \in [BpProc -> SUBSET Buf]
    /\ bpget \in [BpProc -> Made \cup {-1}]

\* The lists of the pools, whose words link them.
BpLists == \A i \in Made : ListOf(bpword, bpnext[i], BpChain(i))

Chains == [i \in Made |-> BpChain(i)]

BpPlaces == \E place : PlacesAre(place, Made, Chains, bpheld, bpfresh)

\* Those in the queue of a pool are in its getbuf.
BpQueues ==
    /\ \A i \in Made : bpsem[i] \in SemOf(BpProc) /\ SemOK(bpsem[i])
    /\ \A i \in BpId \ Made : bpsem[i] = NoSem
    /\ \A i \in Made : \A p \in BpProc : Waits(bpsem[i], p) => bpget[p] = i

\* Released processes are as few as buffers for them.
BpCounted == \A i \in Made : IsFiniteSet(BpHanded(i))

BpIInv ==
    /\ BpTypes
    /\ BpLists
    /\ BpPlaces
    /\ BpQueues
    /\ BpCounted
    /\ BuffersCounted
    /\ BuffersKnowTheirPool

Moved(place, r, t) == [b \in Buf |-> IF b \in r THEN t ELSE place[b]]

\* The buffers at u, when those of r move to t.
MovedSet(new, old, u, r, t) == new = IF t = u THEN old \cup r ELSE old \ r

\* A set r of buffers changes its place.
LEMMA PlacesMove ==
  ASSUME NEW place, NEW M, NEW M2, NEW ch, NEW ch2, NEW held, NEW held2, NEW fresh, NEW fresh2,
         NEW r \in SUBSET Buf, NEW t,
         PlacesAre(place, M, ch, held, fresh), M \subseteq M2,
         t \in Places(M2),
         MovedSet(fresh2, fresh, Heap, r, t),
         \A i \in M : MovedSet(Range(ch2[i]), Range(ch[i]), OnList(i), r, t),
         \A i \in M2 \ M : MovedSet(Range(ch2[i]), {}, OnList(i), r, t),
         \A p \in BpProc : MovedSet(held2[p], held[p], With(p), r, t)
  PROVE  PlacesAre(Moved(place, r, t), M2, ch2, held2, fresh2)
<1> DEFINE place2 == Moved(place, r, t)
<1>1. place \in [Buf -> Places(M)] /\ t \in Places(M2) /\ Places(M) \subseteq Places(M2)
  BY DEF PlacesAre, Places
<1>2. place2 \in [Buf -> Places(M2)]
  BY <1>1 DEF Moved
<1>3. \A u : {b \in Buf : place2[b] = u} =
             IF t = u THEN {b \in Buf : place[b] = u} \cup r ELSE {b \in Buf : place[b] = u} \ r
  BY DEF Moved
<1>4. \A i \in M2 \ M : {b \in Buf : place[b] = OnList(i)} = {}
  <2> SUFFICES ASSUME NEW i \in M2 \ M, NEW b \in Buf, place[b] = OnList(i)
               PROVE  FALSE
    OBVIOUS
  <2>1. place[b] \in Places(M)
    BY <1>1
  <2>2. QED
    BY <2>1 DEF Places, Heap, OnList, With
<1> HIDE DEF place2
<1>5. fresh2 = {b \in Buf : place2[b] = Heap}
  BY <1>3 DEF PlacesAre, MovedSet
<1>6. \A i \in M2 : Range(ch2[i]) = {b \in Buf : place2[b] = OnList(i)}
  <2> TAKE i \in M2
  <2>1. CASE i \in M
    <3>1. Range(ch[i]) = {b \in Buf : place[b] = OnList(i)}
      BY <2>1 DEF PlacesAre
    <3>2. Range(ch2[i]) = IF t = OnList(i) THEN Range(ch[i]) \cup r ELSE Range(ch[i]) \ r
      BY <2>1 DEF MovedSet
    <3>3. QED
      BY <3>1, <3>2, <1>3
  <2>2. CASE i \notin M
    BY <2>2, <1>3, <1>4 DEF MovedSet
  <2>3. QED
    BY <2>1, <2>2
<1>7. \A p \in BpProc : held2[p] = {b \in Buf : place2[b] = With(p)}
  <2> TAKE p \in BpProc
  <2>1. held[p] = {b \in Buf : place[b] = With(p)}
    BY DEF PlacesAre
  <2>2. held2[p] = IF t = With(p) THEN held[p] \cup r ELSE held[p] \ r
    BY DEF MovedSet
  <2>3. QED
    BY <2>1, <2>2, <1>3
<1>8. QED
  BY <1>2, <1>5, <1>6, <1>7 DEF PlacesAre, place2

\* Nobody's buffer is somebody else's.
LEMMA PlacesApart ==
  ASSUME NEW place, NEW M, NEW ch, NEW held, NEW fresh, PlacesAre(place, M, ch, held, fresh)
  PROVE  /\ \A i, j \in M : i # j => Range(ch[i]) \cap Range(ch[j]) = {}
         /\ \A p, q \in BpProc : p # q => held[p] \cap held[q] = {}
         /\ \A i \in M : Range(ch[i]) \cap fresh = {}
         /\ \A p \in BpProc : held[p] \cap fresh = {}
         /\ \A i \in M : \A p \in BpProc : held[p] \cap Range(ch[i]) = {}
         /\ \A b \in Buf : b \in fresh \/ (\E i \in M : b \in Range(ch[i]))
                                       \/ (\E p \in BpProc : b \in held[p])
<1>1. \A i, j \in M : i # j => OnList(i) # OnList(j)
  BY DEF OnList
<1>2. \A p, q \in BpProc : p # q => With(p) # With(q)
  BY DEF With
<1>3. \A i : \A p : Heap # OnList(i) /\ Heap # With(p) /\ OnList(i) # With(p)
  BY DEF Heap, OnList, With
<1>4. QED
  BY <1>1, <1>2, <1>3 DEF PlacesAre, Places

-----------------------------------------------------------------------------
(* Buffer pools: what the steps share.                                     *)

LEMMA MadeFacts ==
  ASSUME BpIInv
  PROVE  /\ Made \subseteq BpId /\ Made \subseteq Nat /\ -1 \notin Made /\ nbpools \in Nat
         /\ \A i \in BpId : i < nbpools <=> i \in Made
<1>1. nbpools \in 0 .. NBPOOLS /\ NBPOOLS \in Nat
  BY BufPoolAssumption DEF BpIInv, BpTypes
<1>2. QED
  BY <1>1 DEF Made, BpId

\* The lists that the links make, and the places of the buffers.
LEMMA ListsNext ==
  ASSUME NEW ch2, \A i \in Made' : ListOf(bpword', bpnext'[i], ch2[i]),
         \E place2 : PlacesAre(place2, Made', ch2, bpheld', bpfresh')
  PROVE  /\ \A i \in Made' : BpChain(i)' = ch2[i]
         /\ BpLists'
         /\ BpPlaces'
<1>1. \A i \in Made' : BpChain(i)' = ch2[i]
  <2> TAKE i \in Made'
  <2>1. Linked(bpword')[BpMem][bpnext'[i]] = ch2[i]
    BY ListIs
  <2>2. QED
    BY <2>1 DEF BpChain
<1>2. BpLists'
  BY <1>1 DEF BpLists
<1>3. BpPlaces'
  <2>1. PICK place2 : PlacesAre(place2, Made', ch2, bpheld', bpfresh')
    OBVIOUS
  <2>2. \A i \in Made' : Chains'[i] = ch2[i]
    BY <1>1 DEF Chains
  <2>3. PlacesAre(place2, Made', Chains', bpheld', bpfresh')
    BY <2>1, <2>2 DEF PlacesAre
  <2>4. QED
    BY <2>3 DEF BpPlaces
<1>4. QED
  BY <1>1, <1>2, <1>3

\* What a pool that a step does not touch keeps.
LEMMA CountKept ==
  ASSUME NEW i \in Made, BpIInv, bpsem'[i] = bpsem[i], BpChain(i)' = BpChain(i),
         \A p \in BpProc : bpget'[p] = i <=> bpget[p] = i
  PROVE  /\ IsFiniteSet(BpHanded(i)')
         /\ bpsem'[i].count + Len(bpsem'[i].queue) + Cardinality(BpHanded(i)') = Len(BpChain(i)')
<1>1. BpHanded(i)' = BpHanded(i)
  BY DEF BpHanded
<1>2. QED
  BY <1>1 DEF BpIInv, BpCounted, BuffersCounted

LEMMA BpInitOK == BpInit => BpIInv
<1> SUFFICES ASSUME BpInit PROVE BpIInv
  OBVIOUS
<1>1. Made = {} /\ 0 \in 0 .. NBPOOLS
  BY BufPoolAssumption DEF BpInit, Made
<1>2. BpTypes
  BY <1>1, BufFacts DEF BpInit, BpTypes, Link
<1>3. BpPlaces
  <2> DEFINE place == [b \in Buf |-> Heap]
  <2>1. place \in [Buf -> Places(Made)]
    BY DEF Places
  <2>2. \A p : Heap # With(p)
    BY DEF Heap, With
  <2>3. bpfresh = {b \in Buf : place[b] = Heap}
    BY DEF BpInit
  <2>4. \A p \in BpProc : bpheld[p] = {b \in Buf : place[b] = With(p)}
    BY <2>2 DEF BpInit
  <2>5. PlacesAre(place, Made, Chains, bpheld, bpfresh)
    BY <1>1, <2>1, <2>3, <2>4 DEF PlacesAre
  <2>6. QED
    BY <2>5 DEF BpPlaces
<1>4. BpQueues
  BY <1>1 DEF BpInit, BpQueues
<1>5. QED
  BY <1>1, <1>2, <1>3, <1>4
     DEF BpIInv, BpLists, BpCounted, BuffersCounted, BuffersKnowTheirPool, BpInit

-----------------------------------------------------------------------------
(* Buffer pools: the steps.                                                *)

LEMMA HandoverOK ==
  ASSUME BpIInv, NEW p \in BpProc, NEW q \in BpProc, NEW b \in Buf, handover(p, q, b)
  PROVE  BpIInv'
<1>1. /\ p # q /\ b \in bpheld[p]
      /\ bpheld' = [bpheld EXCEPT ![p] = @ \ {b}, ![q] = @ \cup {b}]
      /\ UNCHANGED <<nbpools, bpnext, bpsem, bpword, bpfresh, bpget>>
  BY DEF handover
<1>2. bpheld \in [BpProc -> SUBSET Buf]
  BY DEF BpIInv, BpTypes
<1>3. Made' = Made /\ BpId = BpId /\ \A i \in Made : BpChain(i)' = BpChain(i) /\ BpHanded(i)' = BpHanded(i)
  BY <1>1 DEF Made, BpChain, BpHanded
<1>4. PICK place : PlacesAre(place, Made, Chains, bpheld, bpfresh)
  BY DEF BpIInv, BpPlaces
<1>5. \A x \in BpProc : x # p => b \notin bpheld[x]
  BY <1>1, <1>4, PlacesApart
<1>6. \A x \in BpProc : bpheld'[x] = IF With(q) = With(x) THEN bpheld[x] \cup {b} ELSE bpheld[x] \ {b}
  <2>1. \A x \in BpProc : With(q) = With(x) <=> q = x
    BY DEF With
  <2>2. QED
    BY <1>1, <1>2, <1>5, <2>1
<1>7. b \notin bpfresh /\ \A i \in Made : b \notin Range(Chains[i])
  BY <1>1, <1>4, PlacesApart
<1>8. \E place2 : PlacesAre(place2, Made, Chains, bpheld', bpfresh)
  <2>1. With(q) # Heap /\ \A i : With(q) # OnList(i)
    BY DEF With, Heap, OnList
  <2>2. {b} \in SUBSET Buf
    OBVIOUS
  <2>3. bpfresh = IF With(q) = Heap THEN bpfresh \cup {b} ELSE bpfresh \ {b}
    BY <1>7, <2>1
  <2>4. \A i \in Made : Range(Chains[i]) = IF With(q) = OnList(i) THEN Range(Chains[i]) \cup {b}
                                           ELSE Range(Chains[i]) \ {b}
    BY <1>7, <2>1
  <2>5. With(q) \in Places(Made)
    BY DEF Places
  <2>7. PICK M, ch, held, held2, fresh, t :
            M = Made /\ ch = Chains /\ held = bpheld /\ held2 = bpheld' /\ fresh = bpfresh
            /\ t = With(q)
    OBVIOUS
  <2>8. PlacesAre(place, M, ch, held, fresh) /\ M \subseteq M
    BY <1>4, <2>7
  <2>9. t \in Places(M)
    BY <2>5, <2>7
  <2>10. MovedSet(fresh, fresh, Heap, {b}, t)
    BY <2>3, <2>7 DEF MovedSet
  <2>11. \A i \in M : MovedSet(Range(ch[i]), Range(ch[i]), OnList(i), {b}, t)
    BY <2>4, <2>7 DEF MovedSet
  <2>12. \A i \in M \ M : MovedSet(Range(ch[i]), {}, OnList(i), {b}, t)
    OBVIOUS
  <2>13. \A x \in BpProc : MovedSet(held2[x], held[x], With(x), {b}, t)
    BY <1>6, <2>7 DEF MovedSet
  <2>14. PlacesAre(Moved(place, {b}, t), M, ch, held2, fresh)
    BY <2>2, <2>8, <2>9, <2>10, <2>11, <2>12, <2>13, PlacesMove
  <2>15. QED
    BY <2>7, <2>14
<1>9. BpTypes'
  <2>1. bpheld' \in [BpProc -> SUBSET Buf]
    BY <1>1, <1>2
  <2>2. QED
    BY <1>1, <1>3, <2>1 DEF BpIInv, BpTypes
<1>10. BpLists' /\ BpPlaces'
  <2>1. Chains' = Chains
    BY <1>3 DEF Chains
  <2>2. QED
    BY <1>1, <1>3, <1>8, <2>1 DEF BpIInv, BpLists, BpPlaces
<1>11. BpQueues'
  BY <1>1, <1>3 DEF BpIInv, BpQueues
<1>12. BpCounted' /\ BuffersCounted'
  BY <1>1, <1>3 DEF BpIInv, BpCounted, BuffersCounted
<1>13. BuffersKnowTheirPool'
  <2>1. \A x \in BpProc : \A c \in bpheld'[x] : \E y \in BpProc : c \in bpheld[y]
    BY <1>1, <1>2
  <2>2. QED
    BY <1>1, <1>3, <2>1 DEF BpIInv, BuffersKnowTheirPool
<1>14. QED
  BY <1>9, <1>10, <1>11, <1>12, <1>13 DEF BpIInv

\* getbuf, as far as wait, when the pool has no buffer.
LEMMA GetbufBlocksOK ==
  ASSUME BpIInv, NEW p \in BpProc, NEW i \in Made, BpCalls(p), Blocks(bpsem[i]),
         bpsem' = [bpsem EXCEPT ![i] = Waited(@, p)],
         bpget' = [bpget EXCEPT ![p] = i],
         UNCHANGED <<nbpools, bpnext, bpword, bpfresh, bpheld>>
  PROVE  BpIInv'
<1> DEFINE s == bpsem[i]
           w == Waited(bpsem[i], p)
<1>1. /\ Made \subseteq BpId /\ Made' = Made /\ -1 \notin Made
      /\ bpsem \in [BpId -> {NoSem} \cup SemOf(BpProc)] /\ bpget \in [BpProc -> Made \cup {-1}]
  BY MadeFacts DEF BpIInv, BpTypes, Made
<1>2. \A j \in Made : BpChain(j)' = BpChain(j)
  BY DEF BpChain
<1>3. /\ s \in SemOf(BpProc) /\ SemOK(s) /\ bpget[p] = -1
      /\ \A q \in BpProc : Waits(s, q) => bpget[q] = i
  BY DEF BpIInv, BpQueues, BpCalls
<1>4. ~Waits(s, p)
  BY <1>1, <1>3
<1>5. /\ w \in SemOf(BpProc) /\ SemOK(w) /\ w.count = s.count - 1
      /\ \A q : Waits(w, q) <=> (Waits(s, q) \/ q = p)
  BY <1>3, <1>4, SemWaited
<1>6. bpsem'[i] = w /\ \A j \in BpId : j # i => bpsem'[j] = bpsem[j]
  BY <1>1
<1>7. bpget'[p] = i /\ \A q \in BpProc : q # p => bpget'[q] = bpget[q]
  BY <1>1
<1>8. BpTypes'
  <2>1. bpsem' \in [BpId -> {NoSem} \cup SemOf(BpProc)]
    BY <1>1, <1>5
  <2>2. bpget' \in [BpProc -> Made' \cup {-1}]
    BY <1>1
  <2>3. QED
    BY <1>1, <2>1, <2>2 DEF BpIInv, BpTypes
<1> HIDE DEF s, w
<1>9. BpLists' /\ BpPlaces'
  <2>1. Chains' = Chains
    BY <1>1, <1>2 DEF Chains
  <2>2. QED
    BY <1>1, <1>2, <2>1 DEF BpIInv, BpLists, BpPlaces
<1>10. BpQueues'
  <2>1. \A j \in Made' : bpsem'[j] \in SemOf(BpProc) /\ SemOK(bpsem'[j])
    BY <1>1, <1>5, <1>6 DEF BpIInv, BpQueues
  <2>2. \A j \in BpId \ Made' : bpsem'[j] = NoSem
    BY <1>1, <1>6 DEF BpIInv, BpQueues
  <2>3. ASSUME NEW j \in Made', NEW q \in BpProc, Waits(bpsem'[j], q)
        PROVE  bpget'[q] = j
    <3>1. CASE j = i
      BY <2>3, <3>1, <1>3, <1>5, <1>6, <1>7
    <3>2. CASE j # i
      <4>1. bpget[q] = j /\ q # p
        BY <2>3, <3>2, <1>1, <1>3, <1>6 DEF BpIInv, BpQueues
      <4>2. QED
        BY <4>1, <1>7
    <3>3. QED
      BY <3>1, <3>2
  <2>4. QED
    BY <2>1, <2>2, <2>3 DEF BpQueues
<1>11. ASSUME NEW j \in Made'
       PROVE  /\ IsFiniteSet(BpHanded(j)')
              /\ bpsem'[j].count + Len(bpsem'[j].queue) + Cardinality(BpHanded(j)') = Len(BpChain(j)')
  <2>1. CASE j # i
    <3>1. \A q \in BpProc : bpget'[q] = j <=> bpget[q] = j
      BY <2>1, <1>1, <1>3, <1>7
    <3>2. j \in Made /\ bpsem'[j] = bpsem[j] /\ BpChain(j)' = BpChain(j)
      BY <2>1, <1>1, <1>2, <1>6
    <3>3. QED
      BY <3>1, <3>2, CountKept
  <2>2. CASE j = i
    <3>1. BpHanded(i)' = BpHanded(i)
      <4>1. BpHanded(i)' = {q \in BpProc : bpget'[q] = i /\ ~Waits(w, q)}
        BY <1>6 DEF BpHanded
      <4>2. BpHanded(i) = {q \in BpProc : bpget[q] = i /\ ~Waits(s, q)}
        BY DEF BpHanded, s
      <4>3. QED
        BY <4>1, <4>2, <1>1, <1>3, <1>5, <1>7
    <3>2. s.count + Len(s.queue) = w.count + Len(w.queue)
      <4>1. s.count \in Int /\ s.count + Len(s.queue) = IF s.count < 0 THEN 0 ELSE s.count
        BY <1>3, SemSum
      <4>2. w.count + Len(w.queue) = IF w.count < 0 THEN 0 ELSE w.count
        BY <1>5, SemSum
      <4>3. s.count <= 0
        BY DEF Blocks, s
      <4>4. QED
        BY <4>1, <4>2, <4>3, <1>5
    <3>3. QED
      BY <2>2, <3>1, <3>2, <1>2, <1>6 DEF BpIInv, BpCounted, BuffersCounted, s
  <2>3. QED
    BY <2>1, <2>2
<1>12. BpCounted' /\ BuffersCounted'
  BY <1>11 DEF BpCounted, BuffersCounted
<1>13. BuffersKnowTheirPool'
  BY <1>1 DEF BpIInv, BuffersKnowTheirPool
<1>14. QED
  BY <1>8, <1>9, <1>10, <1>12, <1>13 DEF BpIInv

\* getbuf behind its wait: the first buffer of the pool is taken.
LEMMA UnlinkOK ==
  ASSUME BpIInv, NEW p \in BpProc, NEW i \in Made, NEW sem \in SemOf(BpProc), SemOK(sem),
         Unlink(p, i, sem), BpChain(i) # <<>>, bpget[p] \in {-1, i}, ~Waits(sem, p),
         \A q \in BpProc : q # p => (Waits(sem, q) <=> Waits(bpsem[i], q)),
         sem.count + Len(sem.queue) + Cardinality(BpHanded(i) \ {p}) = Len(BpChain(i)) - 1
  PROVE  BpIInv'
<1> DEFINE b == bpnext[i]
           s == BpChain(i)
           ch2 == [j \in Made |-> IF j = i THEN Tail(s) ELSE BpChain(j)]
<1>1. /\ Made \subseteq BpId /\ Made' = Made /\ -1 \notin Made
      /\ bpsem \in [BpId -> {NoSem} \cup SemOf(BpProc)] /\ bpget \in [BpProc -> Made \cup {-1}]
      /\ bpnext \in [BpId -> Buf \cup {NoBuf}] /\ bpheld \in [BpProc -> SUBSET Buf]
      /\ bpword \in [Buf -> [is : {"link", "pool"}, of : Int]]
      /\ i \in Int
  BY MadeFacts DEF BpIInv, BpTypes, Made, Unlink
<1>2. ListOf(bpword, b, s)
  BY DEF BpIInv, BpLists
<1>3. /\ bpsem' = [bpsem EXCEPT ![i] = sem]
      /\ bpnext' = [bpnext EXCEPT ![i] = bpword[b].of]
      /\ bpword' = [bpword EXCEPT ![b] = InPool(i)]
      /\ bpheld' = [bpheld EXCEPT ![p] = @ \cup {b}]
      /\ bpget' = [bpget EXCEPT ![p] = -1]
      /\ nbpools' = nbpools /\ bpfresh' = bpfresh
  BY DEF Unlink, Stamp
<1>4. \A c \in Buf \ {b} : bpword'[c] = bpword[c]
  BY <1>1, <1>3
<1>5. /\ b \in Buf /\ bpword[b].of \in Buf \cup {NoBuf}
      /\ Range(s) = Range(Tail(s)) \cup {b} /\ b \notin Range(Tail(s))
      /\ Len(s) = Len(Tail(s)) + 1
      /\ ListOf(bpword', bpword[b].of, Tail(s))
  <2> HIDE DEF s, b
  <2>1. s # <<>>
    BY DEF s
  <2>2. PICK w, w2, f, r : w = bpword /\ w2 = bpword' /\ f = b /\ r = s
    OBVIOUS
  <2>3. /\ f \in Buf
        /\ Range(r) = Range(Tail(r)) \cup {f} /\ f \notin Range(Tail(r))
        /\ Len(r) = Len(Tail(r)) + 1
        /\ w[f].of \in Buf \cup {NoBuf}
        /\ ListOf(w2, w[f].of, Tail(r))
    BY <1>2, <1>4, <2>1, <2>2, ListFirstOut
  <2>4. QED
    BY <2>2, <2>3
<1>6. PICK place : PlacesAre(place, Made, Chains, bpheld, bpfresh)
  BY DEF BpIInv, BpPlaces
<1>7. \A j \in Made : Chains[j] = BpChain(j)
  BY DEF Chains
<1> HIDE DEF b, s, ch2
<1>8. /\ \A j \in Made : j # i => b \notin Range(BpChain(j))
      /\ b \notin bpfresh
      /\ \A q \in BpProc : b \notin bpheld[q]
  <2>1. b \in Range(Chains[i])
    BY <1>5, <1>7 DEF s
  <2>2. \A j \in Made : j # i => Range(Chains[i]) \cap Range(Chains[j]) = {}
    BY <1>6, PlacesApart
  <2>3. Range(Chains[i]) \cap bpfresh = {}
    BY <1>6, PlacesApart
  <2>4. \A q \in BpProc : bpheld[q] \cap Range(Chains[i]) = {}
    BY <1>6, PlacesApart
  <2>5. QED
    BY <1>7, <2>1, <2>2, <2>3, <2>4
<1>9. \A j \in Made' : ListOf(bpword', bpnext'[j], ch2[j])
  <2> TAKE j \in Made'
  <2>1. CASE j = i
    BY <2>1, <1>1, <1>3, <1>5 DEF ch2
  <2>2. CASE j # i
    <3>1. ListOf(bpword, bpnext[j], BpChain(j))
      BY <1>1 DEF BpIInv, BpLists
    <3>2. \A c \in Range(BpChain(j)) : bpword'[c] = bpword[c]
      <4>1. Range(BpChain(j)) \subseteq Buf
        BY <3>1, ListEntries DEF ListOf
      <4>2. QED
        BY <4>1, <1>1, <1>4, <1>8, <2>2
    <3>3. ListOf(bpword', bpnext[j], BpChain(j))
      BY <3>1, <3>2, ListKept
    <3>4. QED
      BY <3>3, <2>2, <1>1, <1>3 DEF ch2
  <2>3. QED
    BY <2>1, <2>2
<1>10. \E place2 : PlacesAre(place2, Made', ch2, bpheld', bpfresh')
  <2>1. With(p) # Heap /\ \A j : With(p) # OnList(j)
    BY DEF With, Heap, OnList
  <2>2. PICK M, ch, held, held2, fresh, t, d, c2 :
            M = Made /\ ch = Chains /\ held = bpheld /\ held2 = bpheld' /\ fresh = bpfresh
            /\ t = With(p) /\ d = b /\ c2 = ch2
    OBVIOUS
  <2>3. {d} \in SUBSET Buf
    BY <1>5, <2>2
  <2>4. MovedSet(fresh, fresh, Heap, {d}, t)
    BY <1>8, <2>1, <2>2 DEF MovedSet
  <2>5. \A j \in M : MovedSet(Range(c2[j]), Range(ch[j]), OnList(j), {d}, t)
    <3> TAKE j \in M
    <3>1. Range(ch2[j]) = Range(BpChain(j)) \ {b}
      BY <1>5, <1>8, <2>2 DEF ch2, s
    <3>2. QED
      BY <3>1, <1>7, <2>1, <2>2 DEF MovedSet
  <2>7. \A q \in BpProc : MovedSet(held2[q], held[q], With(q), {d}, t)
    <3>1. \A q \in BpProc : With(p) = With(q) <=> p = q
      BY DEF With
    <3>2. QED
      BY <3>1, <1>1, <1>3, <1>8, <2>2 DEF MovedSet
  <2>8. t \in Places(M)
    BY <2>2 DEF Places
  <2>9. PlacesAre(place, M, ch, held, fresh) /\ M \subseteq M
    BY <1>6, <2>2
  <2>10. \A j \in M \ M : MovedSet(Range(c2[j]), {}, OnList(j), {d}, t)
    OBVIOUS
  <2>11. PlacesAre(Moved(place, {d}, t), M, c2, held2, fresh)
    BY <2>3, <2>4, <2>5, <2>7, <2>8, <2>9, <2>10, PlacesMove
  <2>12. QED
    BY <2>11, <2>2, <1>1, <1>3
<1>11. (\A j \in Made' : BpChain(j)' = ch2[j]) /\ BpLists' /\ BpPlaces'
  BY <1>9, <1>10, ListsNext
<1>12. BpTypes'
  <2>1. bpsem' \in [BpId -> {NoSem} \cup SemOf(BpProc)]
    BY <1>1, <1>3
  <2>2. bpget' \in [BpProc -> Made' \cup {-1}]
    BY <1>1, <1>3
  <2>3. bpnext' \in [BpId -> Buf \cup {NoBuf}]
    BY <1>1, <1>3, <1>5
  <2>4. bpheld' \in [BpProc -> SUBSET Buf]
    BY <1>1, <1>3, <1>5
  <2>5. bpword' \in [Buf -> [is : {"link", "pool"}, of : Int]]
    <3>1. InPool(i) \in [is : {"link", "pool"}, of : Int]
      BY <1>1 DEF InPool
    <3>2. QED
      BY <3>1, <1>1, <1>3
  <2>6. QED
    BY <1>1, <1>3, <2>1, <2>2, <2>3, <2>4, <2>5 DEF BpIInv, BpTypes
<1>13. bpsem'[i] = sem /\ \A j \in BpId : j # i => bpsem'[j] = bpsem[j]
  BY <1>1, <1>3
<1>14. bpget'[p] = -1 /\ \A q \in BpProc : q # p => bpget'[q] = bpget[q]
  BY <1>1, <1>3
<1>15. BpQueues'
  <2>1. \A j \in Made' : bpsem'[j] \in SemOf(BpProc) /\ SemOK(bpsem'[j])
    BY <1>1, <1>13 DEF BpIInv, BpQueues
  <2>2. \A j \in BpId \ Made' : bpsem'[j] = NoSem
    BY <1>1, <1>13 DEF BpIInv, BpQueues
  <2>3. ASSUME NEW j \in Made', NEW q \in BpProc, Waits(bpsem'[j], q)
        PROVE  bpget'[q] = j
    <3>1. CASE j = i
      <4>1. q # p
        BY <2>3, <3>1, <1>13
      <4>2. Waits(bpsem[i], q)
        BY <2>3, <3>1, <4>1, <1>13
      <4>3. QED
        BY <3>1, <4>1, <4>2, <1>14 DEF BpIInv, BpQueues
    <3>2. CASE j # i
      <4>1. bpget[q] = j
        BY <2>3, <3>2, <1>1, <1>13 DEF BpIInv, BpQueues
      <4>2. QED
        BY <3>2, <4>1, <1>1, <1>14
    <3>3. QED
      BY <3>1, <3>2
  <2>4. QED
    BY <2>1, <2>2, <2>3 DEF BpQueues
<1>16. ASSUME NEW j \in Made'
       PROVE  /\ IsFiniteSet(BpHanded(j)')
              /\ bpsem'[j].count + Len(bpsem'[j].queue) + Cardinality(BpHanded(j)') = Len(BpChain(j)')
  <2>1. CASE j # i
    <3>1. \A q \in BpProc : bpget'[q] = j <=> bpget[q] = j
      BY <2>1, <1>1, <1>14
    <3>2. j \in Made /\ bpsem'[j] = bpsem[j] /\ BpChain(j)' = BpChain(j)
      BY <2>1, <1>1, <1>11, <1>13 DEF ch2
    <3>3. QED
      BY <3>1, <3>2, CountKept
  <2>2. CASE j = i
    <3>1. BpHanded(i)' = BpHanded(i) \ {p}
      <4>1. BpHanded(i)' = {q \in BpProc : bpget'[q] = i /\ ~Waits(sem, q)}
        BY <1>13 DEF BpHanded
      <4>2. QED
        BY <4>1, <1>1, <1>14 DEF BpHanded
    <3>2. IsFiniteSet(BpHanded(i) \ {p})
      BY FS_RemoveElement DEF BpIInv, BpCounted
    <3>3. BpChain(i)' = Tail(s)
      BY <1>1, <1>11 DEF ch2
    <3>4. Len(Tail(s)) = Len(s) - 1
      <4>1. QueueOf(Buf, s) /\ QueueOf(Buf, Tail(s))
        BY <1>2, <1>5 DEF ListOf
      <4>2. Len(s) \in Int /\ Len(Tail(s)) \in Int
        BY <4>1, ListEntries, BufFacts
      <4>3. QED
        BY <4>2, <1>5
    <3>5. QED
      BY <2>2, <3>1, <3>2, <3>3, <3>4, <1>13 DEF s
  <2>3. QED
    BY <2>1, <2>2
<1>17. BpCounted' /\ BuffersCounted'
  BY <1>16 DEF BpCounted, BuffersCounted
<1>18. BuffersKnowTheirPool'
  <2> SUFFICES ASSUME NEW q \in BpProc, NEW c \in bpheld'[q]
               PROVE  bpword'[c].is = "pool" /\ bpword'[c].of \in Made'
    BY DEF BuffersKnowTheirPool
  <2>1. CASE c = b
    BY <2>1, <1>1, <1>3, <1>5 DEF InPool
  <2>2. CASE c # b
    <3>1. c \in bpheld[q] /\ c \in Buf
      BY <2>2, <1>1, <1>3
    <3>2. bpword'[c] = bpword[c]
      BY <2>2, <3>1, <1>4
    <3>3. QED
      BY <3>1, <3>2, <1>1 DEF BpIInv, BuffersKnowTheirPool
  <2>3. QED
    BY <2>1, <2>2
<1>19. QED
  BY <1>11, <1>12, <1>15, <1>17, <1>18 DEF BpIInv

LEMMA ChainLength ==
  ASSUME BpIInv, NEW i \in Made
  PROVE  /\ Len(BpChain(i)) \in Nat /\ (Len(BpChain(i)) # 0 => BpChain(i) # <<>>)
         /\ IsFiniteSet(BpHanded(i)) /\ Cardinality(BpHanded(i)) \in Nat
         /\ bpsem[i] \in SemOf(BpProc) /\ SemOK(bpsem[i])
         /\ bpsem[i].count \in Int
         /\ (IF bpsem[i].count < 0 THEN 0 ELSE bpsem[i].count) + Cardinality(BpHanded(i))
              = Len(BpChain(i))
<1>1. QueueOf(Buf, BpChain(i))
  BY DEF BpIInv, BpLists, ListOf
<1>2. Len(BpChain(i)) \in Nat /\ BpChain(i) \in Seq(Buf)
  BY <1>1, ListEntries, BufFacts
<1>3. Len(BpChain(i)) # 0 => BpChain(i) # <<>>
  BY <1>2, EmptySeq
<1>4. IsFiniteSet(BpHanded(i)) /\ Cardinality(BpHanded(i)) \in Nat
  BY FS_CardinalityType DEF BpIInv, BpCounted
<1>5. bpsem[i] \in SemOf(BpProc) /\ SemOK(bpsem[i])
  BY DEF BpIInv, BpQueues
<1>6. /\ bpsem[i].count \in Int
      /\ bpsem[i].count + Len(bpsem[i].queue) = IF bpsem[i].count < 0 THEN 0 ELSE bpsem[i].count
  BY <1>5, SemSum
<1>7. bpsem[i].count + Len(bpsem[i].queue) + Cardinality(BpHanded(i)) = Len(BpChain(i))
  BY DEF BpIInv, BuffersCounted
<1>8. QED
  BY <1>2, <1>3, <1>4, <1>5, <1>6, <1>7

LEMMA GetbufOK ==
  ASSUME BpIInv, NEW p \in BpProc, NEW i \in BpId, getbuf(p, i)
  PROVE  BpIInv'
<1>1. i \in Made /\ BpCalls(p) /\ bpget[p] = -1 /\ -1 \notin Made
  BY MadeFacts DEF getbuf, BpCalls
<1>2. CASE Blocks(bpsem[i])
  BY <1>1, <1>2, GetbufBlocksOK DEF getbuf
<1>3. CASE ~Blocks(bpsem[i])
  <2>1. Unlink(p, i, Waited(bpsem[i], p))
    BY <1>3 DEF getbuf
  <2>2. PICK sem : sem = Waited(bpsem[i], p)
    OBVIOUS
  <2>3. ~Waits(bpsem[i], p)
    BY <1>1 DEF BpIInv, BpQueues
  <2>4. /\ sem \in SemOf(BpProc) /\ SemOK(sem) /\ sem.count = bpsem[i].count - 1
        /\ \A q : Waits(sem, q) <=> Waits(bpsem[i], q)
    BY <1>1, <1>3, <2>2, <2>3, ChainLength, SemWaited
  <2>5. bpsem[i].count \in Int /\ bpsem[i].count > 0
    BY <1>1, <1>3, ChainLength DEF Blocks
  <2>6. /\ sem.count + Len(sem.queue) = bpsem[i].count - 1
        /\ sem.count \in Int /\ Len(sem.queue) \in Int
    <3>1. /\ sem.count + Len(sem.queue) = IF sem.count < 0 THEN 0 ELSE sem.count
          /\ sem.count \in Int /\ Len(sem.queue) \in Nat
      BY <2>4, SemSum
    <3>2. QED
      BY <2>4, <2>5, <3>1
  <2>7. p \notin BpHanded(i) /\ BpHanded(i) \ {p} = BpHanded(i)
    BY <1>1 DEF BpHanded
  <2>8. /\ bpsem[i].count + Cardinality(BpHanded(i)) = Len(BpChain(i))
        /\ Len(BpChain(i)) \in Nat /\ Cardinality(BpHanded(i)) \in Nat
    BY <1>1, <2>5, ChainLength
  <2>9. BpChain(i) # <<>>
    <3>1. Len(BpChain(i)) # 0
      BY <2>5, <2>8
    <3>2. QED
      BY <1>1, <3>1, ChainLength
  <2>10. sem.count + Len(sem.queue) + Cardinality(BpHanded(i) \ {p}) = Len(BpChain(i)) - 1
    <3>1. Cardinality(BpHanded(i) \ {p}) = Cardinality(BpHanded(i))
      BY <2>7
    <3>2. PICK a, l, h, k, c : /\ a = sem.count /\ l = Len(sem.queue) /\ c = bpsem[i].count
                               /\ h = Cardinality(BpHanded(i)) /\ k = Len(BpChain(i))
      OBVIOUS
    <3>3. a \in Int /\ l \in Int /\ c \in Int /\ h \in Int /\ k \in Int
      BY <2>5, <2>6, <2>8, <3>2
    <3>4. a + l = c - 1 /\ c + h = k
      BY <2>6, <2>8, <3>2
    <3>5. a + l + h = k - 1
      BY <3>3, <3>4
    <3>6. QED
      BY <3>1, <3>2, <3>5
  <2>11. QED
    BY <1>1, <2>1, <2>2, <2>3, <2>4, <2>9, <2>10, UnlinkOK
<1>4. QED
  BY <1>2, <1>3

LEMMA GetbufGoesOnOK ==
  ASSUME BpIInv, NEW p \in BpProc, getbufGoesOn(p)
  PROVE  BpIInv'
<1>1. PICK i : i = bpget[p]
  OBVIOUS
<1>2. i \in Made /\ ~Waits(bpsem[i], p) /\ Unlink(p, i, bpsem[i])
  BY <1>1 DEF getbufGoesOn, BpIInv, BpTypes
<1>3. PICK sem : sem = bpsem[i]
  OBVIOUS
<1>4. sem \in SemOf(BpProc) /\ SemOK(sem)
  BY <1>2, <1>3, ChainLength
<1>5. p \in BpHanded(i)
  BY <1>1, <1>2 DEF BpHanded
<1>6. /\ IsFiniteSet(BpHanded(i)) /\ Cardinality(BpHanded(i)) \in Nat
      /\ Len(BpChain(i)) \in Nat
  BY <1>2, ChainLength
<1>7. /\ Cardinality(BpHanded(i)) # 0
      /\ Cardinality(BpHanded(i) \ {p}) = Cardinality(BpHanded(i)) - 1
  BY <1>5, <1>6, FS_EmptySet, FS_RemoveElement
<1>8. bpsem[i].count \in Int /\ Len(bpsem[i].queue) \in Nat
  BY <1>3, <1>4, SemSum
<1>9. sem.count + Len(sem.queue) + Cardinality(BpHanded(i) \ {p}) = Len(BpChain(i)) - 1
  <2>1. bpsem[i].count + Len(bpsem[i].queue) + Cardinality(BpHanded(i)) = Len(BpChain(i))
    BY <1>2 DEF BpIInv, BuffersCounted
  <2>2. QED
    BY <2>1, <1>3, <1>6, <1>7, <1>8
<1>10. BpChain(i) # <<>>
  <2>1. /\ (IF bpsem[i].count < 0 THEN 0 ELSE bpsem[i].count) + Cardinality(BpHanded(i))
              = Len(BpChain(i))
        /\ Len(BpChain(i)) # 0 => BpChain(i) # <<>>
    BY <1>2, ChainLength
  <2>2. Len(BpChain(i)) # 0
    BY <2>1, <1>6, <1>7, <1>8
  <2>3. QED
    BY <2>1, <2>2
<1>11. Unlink(p, i, sem) /\ bpget[p] \in {-1, i} /\ ~Waits(sem, p)
  BY <1>1, <1>2, <1>3
<1>12. QED
  BY <1>2, <1>3, <1>4, <1>9, <1>10, <1>11, UnlinkOK

\* The buffer is put before the others of its pool, and the next process is told.
LEMMA FreebufOK ==
  ASSUME BpIInv, NEW p \in BpProc, NEW b \in Buf, freebuf(p, b)
  PROVE  BpIInv'
<1>1. PICK i : i = bpword[b].of
  OBVIOUS
<1> DEFINE s == BpChain(i)
           ch2 == [j \in Made |-> IF j = i THEN <<b>> \o s ELSE BpChain(j)]
<1>2. /\ BpCalls(p) /\ b \in bpheld[p]
      /\ bpword' = [bpword EXCEPT ![b] = Link(bpnext[i])]
      /\ bpnext' = [bpnext EXCEPT ![i] = b]
      /\ bpsem' = [bpsem EXCEPT ![i] = Signalled(bpsem[i])]
      /\ bpheld' = [bpheld EXCEPT ![p] = @ \ {b}]
      /\ nbpools' = nbpools /\ bpfresh' = bpfresh /\ bpget' = bpget
  BY <1>1 DEF freebuf, LinkIn, TellNext
<1>3. /\ i \in Made /\ Made \subseteq BpId /\ Made' = Made /\ -1 \notin Made
      /\ bpsem \in [BpId -> {NoSem} \cup SemOf(BpProc)] /\ bpget \in [BpProc -> Made \cup {-1}]
      /\ bpnext \in [BpId -> Buf \cup {NoBuf}] /\ bpheld \in [BpProc -> SUBSET Buf]
      /\ bpword \in [Buf -> [is : {"link", "pool"}, of : Int]]
  BY <1>1, <1>2, MadeFacts DEF BpIInv, BpTypes, Made, BuffersKnowTheirPool
<1>4. ListOf(bpword, bpnext[i], s)
  BY <1>3 DEF BpIInv, BpLists
<1>5. /\ bpword'[b] = Link(bpnext[i]) /\ \A c \in Buf \ {b} : bpword'[c] = bpword[c]
  BY <1>2, <1>3
<1>6. PICK place : PlacesAre(place, Made, Chains, bpheld, bpfresh)
  BY DEF BpIInv, BpPlaces
<1>7. \A j \in Made : Chains[j] = BpChain(j)
  BY DEF Chains
<1>8. /\ \A j \in Made : b \notin Range(BpChain(j))
      /\ b \notin bpfresh
      /\ \A q \in BpProc : q # p => b \notin bpheld[q]
  <2>1. \A j \in Made : bpheld[p] \cap Range(Chains[j]) = {}
    BY <1>6, PlacesApart
  <2>2. bpheld[p] \cap bpfresh = {}
    BY <1>6, PlacesApart
  <2>3. \A q \in BpProc : q # p => bpheld[p] \cap bpheld[q] = {}
    BY <1>6, PlacesApart
  <2>4. QED
    BY <1>2, <1>7, <2>1, <2>2, <2>3
<1>9. /\ Range(<<b>> \o s) = Range(s) \cup {b}
      /\ Len(<<b>> \o s) = Len(s) + 1
      /\ ListOf(bpword', b, <<b>> \o s)
  <2>1. PICK w, w2, f, r : w = bpword /\ w2 = bpword' /\ f = bpnext[i] /\ r = s
    OBVIOUS
  <2>2. ListOf(w, f, r) /\ b \in Buf \ Range(r)
    BY <2>1, <1>3, <1>4, <1>8
  <2> HIDE DEF s
  <2>3. w2[b] = Link(f) /\ \A c \in Buf \ {b} : w2[c] = w[c]
    BY <2>1, <1>5
  <2>4. /\ Range(<<b>> \o r) = Range(r) \cup {b}
        /\ Len(<<b>> \o r) = Len(r) + 1
        /\ ListOf(w2, b, <<b>> \o r)
    BY <2>2, <2>3, ListFirstIn
  <2>5. QED
    BY <2>1, <2>4
<1> HIDE DEF s, ch2
<1>10. \A j \in Made' : ListOf(bpword', bpnext'[j], ch2[j])
  <2> TAKE j \in Made'
  <2>1. CASE j = i
    BY <2>1, <1>2, <1>3, <1>9 DEF ch2
  <2>2. CASE j # i
    <3>1. ListOf(bpword, bpnext[j], BpChain(j))
      BY <1>3 DEF BpIInv, BpLists
    <3>2. \A c \in Range(BpChain(j)) : bpword'[c] = bpword[c]
      <4>1. Range(BpChain(j)) \subseteq Buf
        BY <3>1, ListEntries DEF ListOf
      <4>2. QED
        BY <4>1, <1>3, <1>5, <1>8
    <3>3. ListOf(bpword', bpnext[j], BpChain(j))
      BY <3>1, <3>2, ListKept
    <3>4. QED
      BY <3>3, <2>2, <1>2, <1>3 DEF ch2
  <2>3. QED
    BY <2>1, <2>2
<1>11. \E place2 : PlacesAre(place2, Made', ch2, bpheld', bpfresh')
  <2>1. OnList(i) # Heap /\ (\A q : OnList(i) # With(q)) /\ \A j : OnList(i) = OnList(j) <=> i = j
    BY DEF With, Heap, OnList
  <2>2. PICK M, ch, held, held2, fresh, t, c2 :
            M = Made /\ ch = Chains /\ held = bpheld /\ held2 = bpheld' /\ fresh = bpfresh
            /\ t = OnList(i) /\ c2 = ch2
    OBVIOUS
  <2>3. {b} \in SUBSET Buf
    OBVIOUS
  <2>4. MovedSet(fresh, fresh, Heap, {b}, t)
    BY <1>8, <2>1, <2>2 DEF MovedSet
  <2>5. \A j \in M : MovedSet(Range(c2[j]), Range(ch[j]), OnList(j), {b}, t)
    <3> TAKE j \in M
    <3>1. Range(ch2[j]) = IF i = j THEN Range(BpChain(j)) \cup {b} ELSE Range(BpChain(j)) \ {b}
      BY <1>8, <1>9, <2>2 DEF ch2, s
    <3>2. QED
      BY <3>1, <1>7, <2>1, <2>2 DEF MovedSet
  <2>6. \A q \in BpProc : MovedSet(held2[q], held[q], With(q), {b}, t)
    BY <1>2, <1>3, <1>8, <2>1, <2>2 DEF MovedSet
  <2>7. t \in Places(M)
    BY <2>2, <1>3 DEF Places
  <2>8. PlacesAre(place, M, ch, held, fresh) /\ M \subseteq M
    BY <1>6, <2>2
  <2>9. \A j \in M \ M : MovedSet(Range(c2[j]), {}, OnList(j), {b}, t)
    OBVIOUS
  <2>10. PlacesAre(Moved(place, {b}, t), M, c2, held2, fresh)
    BY <2>3, <2>4, <2>5, <2>6, <2>7, <2>8, <2>9, PlacesMove
  <2>11. QED
    BY <2>10, <2>2, <1>2, <1>3
<1>12. (\A j \in Made' : BpChain(j)' = ch2[j]) /\ BpLists' /\ BpPlaces'
  BY <1>10, <1>11, ListsNext
<1>13. PICK sem : sem = Signalled(bpsem[i])
  OBVIOUS
<1>14. /\ bpsem[i] \in SemOf(BpProc) /\ SemOK(bpsem[i]) /\ bpsem[i].count \in Int
       /\ \A q \in BpProc : Waits(bpsem[i], q) => bpget[q] = i
  BY <1>3, ChainLength DEF BpIInv, BpQueues
<1>15. /\ sem \in SemOf(BpProc) /\ SemOK(sem) /\ sem.count = bpsem[i].count + 1
       /\ bpsem[i].count >= 0 => \A q : ~Waits(bpsem[i], q) /\ ~Waits(sem, q)
       /\ bpsem[i].count < 0 => \E h \in BpProc :
            Waits(bpsem[i], h) /\ \A q : Waits(sem, q) <=> (Waits(bpsem[i], q) /\ q # h)
  BY <1>13, <1>14, SemSignalled
<1>16. bpsem'[i] = sem /\ \A j \in BpId : j # i => bpsem'[j] = bpsem[j]
  BY <1>2, <1>3, <1>13
<1>17. \A q : Waits(sem, q) => Waits(bpsem[i], q)
  BY <1>14, <1>15
<1>18. BpTypes'
  <2>1. bpsem' \in [BpId -> {NoSem} \cup SemOf(BpProc)]
    BY <1>2, <1>3, <1>13, <1>15
  <2>2. bpnext' \in [BpId -> Buf \cup {NoBuf}]
    BY <1>2, <1>3
  <2>3. bpheld' \in [BpProc -> SUBSET Buf]
    BY <1>2, <1>3
  <2>4. bpword' \in [Buf -> [is : {"link", "pool"}, of : Int]]
    <3>1. bpnext[i] \in Int
      BY <1>3, BufFacts
    <3>2. Link(bpnext[i]) \in [is : {"link", "pool"}, of : Int]
      BY <3>1 DEF Link
    <3>3. QED
      BY <3>2, <1>2, <1>3
  <2>5. QED
    BY <1>2, <1>3, <2>1, <2>2, <2>3, <2>4 DEF BpIInv, BpTypes
<1>19. BpQueues'
  <2>1. \A j \in Made' : bpsem'[j] \in SemOf(BpProc) /\ SemOK(bpsem'[j])
    BY <1>3, <1>15, <1>16 DEF BpIInv, BpQueues
  <2>2. \A j \in BpId \ Made' : bpsem'[j] = NoSem
    BY <1>3, <1>16 DEF BpIInv, BpQueues
  <2>3. \A j \in Made' : \A q \in BpProc : Waits(bpsem'[j], q) => bpget'[q] = j
    BY <1>2, <1>3, <1>14, <1>16, <1>17 DEF BpIInv, BpQueues
  <2>4. QED
    BY <2>1, <2>2, <2>3 DEF BpQueues
<1>20. ASSUME NEW j \in Made'
       PROVE  /\ IsFiniteSet(BpHanded(j)')
              /\ bpsem'[j].count + Len(bpsem'[j].queue) + Cardinality(BpHanded(j)') = Len(BpChain(j)')
  <2>1. CASE j # i
    <3>1. j \in Made /\ bpsem'[j] = bpsem[j] /\ BpChain(j)' = BpChain(j)
      BY <2>1, <1>3, <1>12, <1>16 DEF ch2
    <3>2. QED
      BY <3>1, <1>2, CountKept
  <2>2. CASE j = i
    <3>1. BpHanded(i)' = {q \in BpProc : bpget[q] = i /\ ~Waits(sem, q)}
      BY <1>2, <1>16 DEF BpHanded
    <3>2. /\ IsFiniteSet(BpHanded(i)) /\ Cardinality(BpHanded(i)) \in Nat
          /\ (IF bpsem[i].count < 0 THEN 0 ELSE bpsem[i].count) + Cardinality(BpHanded(i)) = Len(s)
      BY <1>3, ChainLength DEF s
    <3>3. /\ sem.count + Len(sem.queue) = IF sem.count < 0 THEN 0 ELSE sem.count
          /\ sem.count \in Int /\ Len(sem.queue) \in Nat
      BY <1>15, SemSum
    <3>4. Len(BpChain(i)') = Len(s) + 1
      BY <1>3, <1>9, <1>12 DEF ch2
    <3>5. CASE bpsem[i].count >= 0
      <4>1. BpHanded(i)' = BpHanded(i)
        BY <3>1, <3>5, <1>15 DEF BpHanded
      <4>2. sem.count + Len(sem.queue) = bpsem[i].count + 1
        BY <3>3, <3>5, <1>14, <1>15
      <4>3. bpsem[i].count + Cardinality(BpHanded(i)) = Len(s)
        BY <3>2, <3>5, <1>14
      <4>4. Cardinality(BpHanded(i)') = Cardinality(BpHanded(i))
        BY <4>1
      <4>5. sem.count + Len(sem.queue) + Cardinality(BpHanded(i)') = Len(BpChain(i)')
        BY <3>2, <3>4, <4>2, <4>3, <4>4, <1>14
      <4>6. QED
        BY <2>2, <3>2, <4>1, <4>5, <1>16
    <3>6. CASE bpsem[i].count < 0
      <4>1. PICK h \in BpProc : Waits(bpsem[i], h)
                                /\ \A q : Waits(sem, q) <=> (Waits(bpsem[i], q) /\ q # h)
        BY <3>6, <1>15
      <4>2. h \notin BpHanded(i) /\ BpHanded(i)' = BpHanded(i) \cup {h}
        BY <3>1, <4>1, <1>14 DEF BpHanded
      <4>3. IsFiniteSet(BpHanded(i)') /\ Cardinality(BpHanded(i)') = Cardinality(BpHanded(i)) + 1
        BY <3>2, <4>2, FS_AddElement
      <4>4. sem.count + Len(sem.queue) = 0
        BY <3>3, <3>6, <1>14, <1>15
      <4>5. Cardinality(BpHanded(i)) = Len(s)
        BY <3>2, <3>6
      <4>6. sem.count + Len(sem.queue) + Cardinality(BpHanded(i)') = Len(BpChain(i)')
        BY <3>2, <3>4, <4>3, <4>4, <4>5
      <4>7. QED
        BY <2>2, <4>3, <4>6, <1>16
    <3>7. QED
      BY <3>5, <3>6, <1>14
  <2>3. QED
    BY <2>1, <2>2
<1>21. BpCounted' /\ BuffersCounted'
  BY <1>20 DEF BpCounted, BuffersCounted
<1>22. BuffersKnowTheirPool'
  <2> SUFFICES ASSUME NEW q \in BpProc, NEW c \in bpheld'[q]
               PROVE  bpword'[c].is = "pool" /\ bpword'[c].of \in Made'
    BY DEF BuffersKnowTheirPool
  <2>1. c \in bpheld[q] /\ c \in Buf /\ c # b
    BY <1>2, <1>3, <1>8
  <2>2. bpword'[c] = bpword[c]
    BY <2>1, <1>5
  <2>3. QED
    BY <2>1, <2>2, <1>3 DEF BpIInv, BuffersKnowTheirPool
<1>23. QED
  BY <1>12, <1>18, <1>19, <1>21, <1>22 DEF BpIInv

\* The greatest of some buffers.
LEMMA MaxOfBufs ==
  ASSUME NEW r \in SUBSET Buf, r # {}
  PROVE  Max(r) \in r /\ \A y \in r : Max(r) >= y
<1> DEFINE T == {BpMem - x : x \in r}
<1>1. BpMem \in Nat /\ r \subseteq 1 .. BpMem
  BY BufFacts
<1>2. T \in SUBSET Nat /\ T # {}
  <2>1. \A x \in r : BpMem - x \in Nat
    BY <1>1
  <2>2. QED
    BY <2>1
<1>3. Min(T) \in T /\ \A y \in T : Min(T) <= y
  BY <1>2, MinProperties
<1>4. PICK x \in r : \A y \in r : BpMem - x <= BpMem - y
  BY <1>3
<1>5. \A y \in r : x >= y
  BY <1>1, <1>4
<1>6. QED
  BY <1>4, <1>5 DEF Max

\* The buffers of a run are those from its first on.
LEMMA RunFacts ==
  ASSUME bpfresh \subseteq Buf, NEW n \in Nat \ {0}, NEW r \in Runs(n)
  PROVE  /\ r \subseteq bpfresh /\ r # {} /\ Min(r) \in Buf /\ Max(r) \in Buf
         /\ Max(r) = Min(r) + n - 1
         /\ r = Min(r) .. Min(r) + n - 1
<1>1. r \subseteq bpfresh /\ r \in SUBSET Buf /\ Cardinality(r) = n /\ Max(r) - Min(r) = n - 1
  BY DEF Runs
<1>2. r # {}
  BY <1>1, FS_EmptySet
<1>3. r \in SUBSET Nat
  BY <1>1, BufFacts
<1>4. Min(r) \in r /\ \A y \in r : Min(r) <= y
  BY <1>2, <1>3, MinProperties
<1>5. Max(r) \in r /\ \A y \in r : Max(r) >= y
  BY <1>1, <1>2, MaxOfBufs
<1>6. Min(r) \in Nat /\ Max(r) \in Nat /\ Max(r) = Min(r) + n - 1
  <2>1. Min(r) \in Nat /\ Max(r) \in Nat
    BY <1>3, <1>4, <1>5
  <2>2. Max(r) - Min(r) = n - 1
    BY <1>1
  <2>3. QED
    BY <2>1, <2>2
<1>7. r \subseteq Min(r) .. Max(r)
  BY <1>3, <1>4, <1>5, <1>6
<1>8. IsFiniteSet(Min(r) .. Max(r)) /\ Cardinality(Min(r) .. Max(r)) = n
  BY <1>6, FS_Interval
<1>9. r = Min(r) .. Max(r)
  BY <1>1, <1>7, <1>8, FS_Subset
<1>10. QED
  BY <1>1, <1>2, <1>4, <1>5, <1>6, <1>9

\* A pool is made, or the semaphore table is full and only the head is written.
LEMMA MkbufpoolOK ==
  ASSUME BpIInv, NEW p \in BpProc, NEW n \in BpSizes, mkbufpool(p, n)
  PROVE  BpIInv'
<1>1. PICK i : i = nbpools
  OBVIOUS
<1> DEFINE first == CHOOSE r \in Runs(n) : \A q \in Runs(n) : Min(r) <= Min(q)
<1>2. /\ n \in Nat \ {0} /\ i < NBPOOLS /\ Runs(n) # {}
      /\ bpheld' = bpheld /\ bpget' = bpget
  BY <1>1, BufPoolAssumption DEF mkbufpool
<1>3. /\ Made \subseteq BpId /\ Made = 0 .. i - 1 /\ i \in BpId \ Made /\ -1 \notin Made
      /\ i \in Nat /\ i \in 0 .. NBPOOLS - 1
      /\ bpsem \in [BpId -> {NoSem} \cup SemOf(BpProc)] /\ bpget \in [BpProc -> Made \cup {-1}]
      /\ bpnext \in [BpId -> Buf \cup {NoBuf}] /\ bpheld \in [BpProc -> SUBSET Buf]
      /\ bpword \in [Buf -> [is : {"link", "pool"}, of : Int]] /\ bpfresh \subseteq Buf
  BY <1>1, <1>2, MadeFacts, BufPoolAssumption DEF BpIInv, BpTypes, Made, BpId
<1>4. PICK r : r = first
  OBVIOUS
<1>5. r \in Runs(n)
  <2> DEFINE T == {Min(q) : q \in Runs(n)}
  <2>1. \A q \in Runs(n) : Min(q) \in Buf
    BY <1>2, <1>3, RunFacts
  <2>2. T \in SUBSET Nat /\ T # {}
    BY <1>2, <2>1, BufFacts
  <2>3. Min(T) \in T /\ \A y \in T : Min(T) <= y
    BY <2>2, MinProperties
  <2>4. \E x \in Runs(n) : \A q \in Runs(n) : Min(x) <= Min(q)
    BY <2>3
  <2>5. QED
    BY <2>4, <1>4
<1> HIDE DEF first
<1>6. PICK m : m = Min(r)
  OBVIOUS
<1>7. /\ r \subseteq bpfresh /\ m \in Buf /\ m + n - 1 \in Buf /\ Max(r) = m + n - 1
      /\ r = m .. m + n - 1
  BY <1>2, <1>3, <1>5, <1>6, RunFacts
<1>8. bpnext' = [bpnext EXCEPT ![i] = m]
  BY <1>1, <1>4, <1>6 DEF mkbufpool, first
<1>9. bpnext' \in [BpId -> Buf \cup {NoBuf}] /\ bpnext'[i] = m
      /\ \A j \in Made : bpnext'[j] = bpnext[j]
  BY <1>3, <1>7, <1>8
<1>10. CASE UNCHANGED <<nbpools, bpsem, bpword, bpfresh>>
  <2>1. Made' = Made /\ \A j \in Made : BpChain(j)' = BpChain(j) /\ BpHanded(j)' = BpHanded(j)
    BY <1>2, <1>9, <1>10 DEF Made, BpChain, BpHanded
  <2>2. BpTypes'
    BY <1>2, <1>9, <1>10, <2>1 DEF BpIInv, BpTypes
  <2>3. BpLists'
    BY <1>9, <1>10, <2>1 DEF BpIInv, BpLists
  <2>4. BpPlaces'
    <3>1. Chains' = Chains
      BY <2>1 DEF Chains
    <3>2. QED
      BY <1>2, <1>10, <2>1, <3>1 DEF BpIInv, BpPlaces
  <2>5. BpQueues'
    BY <1>2, <1>10, <2>1 DEF BpIInv, BpQueues
  <2>6. BpCounted' /\ BuffersCounted'
    BY <1>10, <2>1 DEF BpIInv, BpCounted, BuffersCounted
  <2>7. BuffersKnowTheirPool'
    BY <1>2, <1>10, <2>1 DEF BpIInv, BuffersKnowTheirPool
  <2>8. QED
    BY <2>2, <2>3, <2>4, <2>5, <2>6, <2>7 DEF BpIInv
<1>11. CASE /\ bpsem' = [bpsem EXCEPT ![i] = SemCreated(n)]
            /\ nbpools' = nbpools + 1
            /\ bpfresh' = bpfresh \ r
            /\ bpword' = [c \in Buf |-> IF c \notin r THEN bpword[c]
                                       ELSE Link(IF c = Max(r) THEN NoBuf ELSE c + 1)]
  <2> DEFINE s == [k \in 1 .. n |-> m + k - 1]
             ch2 == [j \in Made' |-> IF j = i THEN s ELSE BpChain(j)]
  <2>1. Made' = Made \cup {i} /\ Made' \subseteq BpId /\ nbpools' \in 0 .. NBPOOLS
    BY <1>1, <1>2, <1>3, <1>11, BufPoolAssumption DEF Made, BpId
  <2>2. /\ Range(s) = r /\ Len(s) = n /\ ListOf(bpword', m, s)
    <3>1. PICK w2 : w2 = bpword'
      OBVIOUS
    <3>2. \A c \in m .. m + n - 1 : w2[c] = Link(IF c = m + n - 1 THEN NoBuf ELSE c + 1)
      BY <1>3, <1>7, <1>11, <3>1
    <3>3. /\ Range([k \in 1 .. n |-> m + k - 1]) = m .. m + n - 1
          /\ Len([k \in 1 .. n |-> m + k - 1]) = n
          /\ ListOf(w2, m, [k \in 1 .. n |-> m + k - 1])
      BY <1>2, <1>7, <3>2, ListMade
    <3>4. QED
      BY <1>7, <3>1, <3>3
  <2>3. PICK place : PlacesAre(place, Made, Chains, bpheld, bpfresh)
    BY DEF BpIInv, BpPlaces
  <2>4. \A j \in Made : Chains[j] = BpChain(j)
    BY DEF Chains
  <2>5. /\ \A j \in Made : Range(BpChain(j)) \cap r = {}
        /\ \A q \in BpProc : bpheld[q] \cap r = {}
    <3>1. \A j \in Made : Range(Chains[j]) \cap bpfresh = {}
      BY <2>3, PlacesApart
    <3>2. \A q \in BpProc : bpheld[q] \cap bpfresh = {}
      BY <2>3, PlacesApart
    <3>3. QED
      BY <1>7, <2>4, <3>1, <3>2
  <2> HIDE DEF s, ch2
  <2>6. ch2[i] = s /\ \A j \in Made : ch2[j] = BpChain(j)
    BY <1>3, <2>1 DEF ch2
  <2>7. \A j \in Made' : ListOf(bpword', bpnext'[j], ch2[j])
    <3> TAKE j \in Made'
    <3>1. CASE j = i
      BY <3>1, <1>9, <2>2, <2>6
    <3>2. CASE j # i
      <4>1. j \in Made /\ ListOf(bpword, bpnext[j], BpChain(j))
        BY <3>2, <2>1 DEF BpIInv, BpLists
      <4>2. \A c \in Range(BpChain(j)) : bpword'[c] = bpword[c]
        <5>1. Range(BpChain(j)) \subseteq Buf
          BY <4>1, ListEntries DEF ListOf
        <5>2. QED
          BY <4>1, <5>1, <1>11, <2>5
      <4>3. ListOf(bpword', bpnext[j], BpChain(j))
        BY <4>1, <4>2, ListKept
      <4>4. QED
        BY <4>1, <4>3, <1>9, <2>6
    <3>3. QED
      BY <3>1, <3>2
  <2>8. \E place2 : PlacesAre(place2, Made', ch2, bpheld', bpfresh')
    <3>1. OnList(i) # Heap /\ (\A q : OnList(i) # With(q)) /\ \A j : OnList(i) = OnList(j) <=> i = j
      BY DEF With, Heap, OnList
    <3>2. PICK M, M2, ch, held, fresh, fresh2, t, c2 :
              M = Made /\ M2 = Made' /\ ch = Chains /\ held = bpheld /\ fresh = bpfresh
              /\ fresh2 = bpfresh' /\ t = OnList(i) /\ c2 = ch2
      OBVIOUS
    <3>3. r \in SUBSET Buf
      BY <1>3, <1>7
    <3>4. MovedSet(fresh2, fresh, Heap, r, t)
      BY <1>11, <3>1, <3>2 DEF MovedSet
    <3>5. \A j \in M : MovedSet(Range(c2[j]), Range(ch[j]), OnList(j), r, t)
      <4> TAKE j \in M
      <4>1. Range(c2[j]) = Range(ch[j]) /\ Range(ch[j]) \cap r = {}
        BY <2>4, <2>5, <2>6, <3>2
      <4>2. t # OnList(j)
        BY <1>3, <3>1, <3>2
      <4>3. QED
        BY <4>1, <4>2 DEF MovedSet
    <3>6. \A j \in M2 \ M : MovedSet(Range(c2[j]), {}, OnList(j), r, t)
      <4> TAKE j \in M2 \ M
      <4>1. j = i /\ Range(c2[j]) = r
        BY <2>1, <2>2, <2>6, <3>2
      <4>2. QED
        BY <4>1, <3>2 DEF MovedSet
    <3>7. \A q \in BpProc : MovedSet(held[q], held[q], With(q), r, t)
      BY <2>5, <3>1, <3>2 DEF MovedSet
    <3>8. t \in Places(M2)
      BY <2>1, <3>2 DEF Places
    <3>9. PlacesAre(place, M, ch, held, fresh) /\ M \subseteq M2
      BY <2>1, <2>3, <3>2
    <3>10. PlacesAre(Moved(place, r, t), M2, c2, held, fresh2)
      BY <3>3, <3>4, <3>5, <3>6, <3>7, <3>8, <3>9, PlacesMove
    <3>11. QED
      BY <3>10, <3>2, <1>2
  <2>9. (\A j \in Made' : BpChain(j)' = ch2[j]) /\ BpLists' /\ BpPlaces'
    BY <2>7, <2>8, ListsNext
  <2>10. /\ bpsem'[i] = SemCreated(n) /\ \A j \in BpId : j # i => bpsem'[j] = bpsem[j]
    BY <1>3, <1>11
  <2>11. SemCreated(n) \in SemOf(BpProc) /\ SemOK(SemCreated(n)) /\ \A q : ~Waits(SemCreated(n), q)
    BY <1>2 DEF SemCreated, SemOf, SemOK, Waits
  <2>12. BpTypes'
    <3>1. bpsem' \in [BpId -> {NoSem} \cup SemOf(BpProc)]
      BY <1>3, <1>11, <2>11
    <3>2. bpword' \in [Buf -> [is : {"link", "pool"}, of : Int]]
      <4>1. \A c \in Buf : Link(IF c = Max(r) THEN NoBuf ELSE c + 1) \in [is : {"link", "pool"}, of : Int]
        BY BufFacts DEF Link
      <4>2. QED
        BY <4>1, <1>3, <1>11
    <3>3. bpfresh' \subseteq Buf /\ bpget' \in [BpProc -> Made' \cup {-1}]
      BY <1>2, <1>3, <1>11, <2>1
    <3>4. QED
      BY <1>2, <1>3, <1>9, <2>1, <3>1, <3>2, <3>3 DEF BpTypes
  <2>13. BpQueues'
    <3>1. \A j \in Made' : bpsem'[j] \in SemOf(BpProc) /\ SemOK(bpsem'[j])
      BY <1>3, <2>1, <2>10, <2>11 DEF BpIInv, BpQueues
    <3>2. \A j \in BpId \ Made' : bpsem'[j] = NoSem
      BY <1>3, <2>1, <2>10 DEF BpIInv, BpQueues
    <3>3. \A j \in Made' : \A q \in BpProc : Waits(bpsem'[j], q) => bpget'[q] = j
      BY <1>2, <1>3, <2>1, <2>10, <2>11 DEF BpIInv, BpQueues
    <3>4. QED
      BY <3>1, <3>2, <3>3 DEF BpQueues
  <2>14. ASSUME NEW j \in Made'
         PROVE  /\ IsFiniteSet(BpHanded(j)')
                /\ bpsem'[j].count + Len(bpsem'[j].queue) + Cardinality(BpHanded(j)') = Len(BpChain(j)')
    <3>1. CASE j # i
      <4>1. j \in Made /\ bpsem'[j] = bpsem[j] /\ BpChain(j)' = BpChain(j)
        BY <3>1, <1>3, <2>1, <2>6, <2>9, <2>10
      <4>2. QED
        BY <4>1, <1>2, CountKept
    <3>2. CASE j = i
      <4>1. BpHanded(i)' = {}
        BY <1>2, <1>3 DEF BpHanded
      <4>2. bpsem'[i].count = n /\ Len(bpsem'[i].queue) = 0
        BY <2>10 DEF SemCreated
      <4>3. Len(BpChain(i)') = n
        BY <2>1, <2>2, <2>6, <2>9
      <4>4. QED
        BY <3>2, <4>1, <4>2, <4>3, <1>2, FS_EmptySet
    <3>3. QED
      BY <3>1, <3>2
  <2>15. BpCounted' /\ BuffersCounted'
    BY <2>14 DEF BpCounted, BuffersCounted
  <2>16. BuffersKnowTheirPool'
    <3> SUFFICES ASSUME NEW q \in BpProc, NEW c \in bpheld[q]
                 PROVE  bpword'[c].is = "pool" /\ bpword'[c].of \in Made'
      BY <1>2 DEF BuffersKnowTheirPool
    <3>1. c \in Buf /\ c \notin r
      BY <1>3, <2>5
    <3>2. bpword'[c] = bpword[c]
      BY <3>1, <1>11
    <3>3. QED
      BY <3>2, <2>1 DEF BpIInv, BuffersKnowTheirPool
  <2>17. QED
    BY <2>9, <2>12, <2>13, <2>15, <2>16 DEF BpIInv
<1>12. QED
  BY <1>1, <1>4, <1>10, <1>11 DEF mkbufpool, first

LEMMA BpNextOK ==
  ASSUME BpIInv, [BpNext]_bpVars
  PROVE  BpIInv'
<1>1. CASE UNCHANGED bpVars
  <2>1. Made' = Made /\ Chains' = Chains
    BY <1>1 DEF bpVars, Made, Chains, BpChain
  <2>2. \A i \in Made : BpChain(i)' = BpChain(i) /\ BpHanded(i)' = BpHanded(i)
    BY <1>1 DEF bpVars, BpChain, BpHanded
  <2>3. BpTypes' /\ BpLists' /\ BpPlaces'
    BY <1>1, <2>1, <2>2 DEF bpVars, BpIInv, BpTypes, BpLists, BpPlaces
  <2>4. BpQueues'
    BY <1>1, <2>1 DEF bpVars, BpIInv, BpQueues
  <2>5. BpCounted' /\ BuffersCounted' /\ BuffersKnowTheirPool'
    BY <1>1, <2>1, <2>2 DEF bpVars, BpIInv, BpCounted, BuffersCounted, BuffersKnowTheirPool
  <2>6. QED
    BY <2>3, <2>4, <2>5 DEF BpIInv
<1>2. ASSUME NEW p \in BpProc, NEW n \in BpSizes, mkbufpool(p, n)
      PROVE  BpIInv'
  BY <1>2, MkbufpoolOK
<1>3. ASSUME NEW p \in BpProc, NEW i \in BpId, getbuf(p, i)
      PROVE  BpIInv'
  BY <1>3, GetbufOK
<1>4. ASSUME NEW p \in BpProc, getbufGoesOn(p)
      PROVE  BpIInv'
  BY <1>4, GetbufGoesOnOK
<1>5. ASSUME NEW p \in BpProc, NEW b \in Buf, freebuf(p, b)
      PROVE  BpIInv'
  BY <1>5, FreebufOK
<1>6. ASSUME NEW p \in BpProc, NEW q \in BpProc, NEW b \in Buf, handover(p, q, b)
      PROVE  BpIInv'
  BY <1>6, HandoverOK
<1>7. QED
  BY <1>1, <1>2, <1>3, <1>4, <1>5, <1>6 DEF BpNext

\* The invariant says where each buffer is: with the heap, on one list at one
\* place, or with one process.
LEMMA BpConserved == BpIInv => BuffersConserved
<1> SUFFICES ASSUME BpIInv, NEW b \in Buf
             PROVE  Cardinality({p \in BpProc : b \in bpheld[p]})
                    + Cardinality({x \in Made \X Buf :
                                      /\ x[2] \in DOMAIN BpChain(x[1])
                                      /\ BpChain(x[1])[x[2]] = b})
                    + (IF b \in bpfresh THEN 1 ELSE 0) = 1
  BY DEF BuffersConserved
<1> DEFINE H == {p \in BpProc : b \in bpheld[p]}
           C == {x \in Made \X Buf : x[2] \in DOMAIN BpChain(x[1]) /\ BpChain(x[1])[x[2]] = b}
<1>1. PICK place : PlacesAre(place, Made, Chains, bpheld, bpfresh)
  BY DEF BpIInv, BpPlaces
<1>2. \A i \in Made : Range(BpChain(i)) = {c \in Buf : place[c] = OnList(i)}
  BY <1>1 DEF PlacesAre, Chains
<1>3. /\ bpfresh = {c \in Buf : place[c] = Heap}
      /\ \A p \in BpProc : bpheld[p] = {c \in Buf : place[c] = With(p)}
      /\ place[b] \in Places(Made)
  BY <1>1 DEF PlacesAre
<1>4. /\ \A i, j : Heap # OnList(i) /\ Heap # With(j) /\ OnList(i) # With(j)
      /\ \A i, j : OnList(i) = OnList(j) => i = j
      /\ \A i, j : With(i) = With(j) => i = j
  BY DEF Heap, OnList, With
<1>5. H = {p \in BpProc : place[b] = With(p)}
  BY <1>3
<1>6. \A i \in Made : QueueOf(Buf, BpChain(i))
  BY DEF BpIInv, BpLists, ListOf
<1>7. \A i \in Made : \A k \in DOMAIN BpChain(i) :
         k \in Buf /\ (BpChain(i)[k] = b => place[b] = OnList(i))
  <2> TAKE i \in Made
  <2>1. /\ BpChain(i) \in Seq(Buf) /\ Len(BpChain(i)) \in 0 .. BpMem
        /\ Range(BpChain(i)) = {BpChain(i)[k] : k \in 1 .. Len(BpChain(i))}
    BY <1>6, ListEntries
  <2>2. DOMAIN BpChain(i) = 1 .. Len(BpChain(i))
    BY <2>1, LenProperties
  <2>3. \A k \in DOMAIN BpChain(i) : k \in Buf
    BY <2>1, <2>2, BufFacts
  <2>4. QED
    BY <1>2, <2>1, <2>2, <2>3
<1>8. (\A i \in Made : place[b] # OnList(i)) => C = {}
  BY <1>7
<1>9. (\A p \in BpProc : place[b] # With(p)) => H = {}
  BY <1>5
<1> HIDE DEF H, C
<1>10. CASE place[b] = Heap
  <2>1. b \in bpfresh /\ H = {} /\ C = {}
    BY <1>3, <1>4, <1>8, <1>9, <1>10
  <2>2. Cardinality(H) = 0 /\ Cardinality(C) = 0
    BY <2>1, FS_EmptySet
  <2>3. Cardinality(H) + Cardinality(C) + (IF b \in bpfresh THEN 1 ELSE 0) = 1
    BY <2>1, <2>2
  <2>4. QED
    BY <2>3 DEF H, C
<1>11. CASE \E i \in Made : place[b] = OnList(i)
  <2>1. PICK i \in Made : place[b] = OnList(i)
    BY <1>11
  <2>2. b \notin bpfresh /\ H = {}
    BY <1>3, <1>4, <1>9, <2>1
  <2>3. /\ BpChain(i) \in Seq(Buf) /\ Len(BpChain(i)) \in 0 .. BpMem
        /\ \A j, k \in 1 .. Len(BpChain(i)) : j # k => BpChain(i)[j] # BpChain(i)[k]
        /\ Range(BpChain(i)) = {BpChain(i)[k] : k \in 1 .. Len(BpChain(i))}
    BY <1>6, <2>1, ListEntries
  <2>4. DOMAIN BpChain(i) = 1 .. Len(BpChain(i))
    BY <2>3, LenProperties
  <2>5. PICK k \in DOMAIN BpChain(i) : BpChain(i)[k] = b
    BY <1>2, <2>1, <2>3, <2>4
  <2>6. C = {<<i, k>>}
    <3>1. <<i, k>> \in C
      BY <1>7, <2>1, <2>5 DEF C
    <3>2. ASSUME NEW x \in C PROVE x = <<i, k>>
      <4>1. /\ x \in Made \X Buf /\ x[1] \in Made
            /\ x[2] \in DOMAIN BpChain(x[1]) /\ BpChain(x[1])[x[2]] = b
        BY DEF C
      <4>2. x[1] = i
        BY <1>4, <1>7, <2>1, <4>1
      <4>3. x[2] = k
        BY <2>3, <2>4, <2>5, <4>1, <4>2
      <4>4. QED
        BY <4>1, <4>2, <4>3
    <3>3. QED
      BY <3>1, <3>2
  <2>7. Cardinality(H) = 0 /\ Cardinality(C) = 1
    BY <2>2, <2>6, FS_EmptySet, FS_Singleton
  <2>8. Cardinality(H) + Cardinality(C) + (IF b \in bpfresh THEN 1 ELSE 0) = 1
    BY <2>2, <2>6, <2>7
  <2>9. QED
    BY <2>8 DEF H, C
<1>12. CASE \E p \in BpProc : place[b] = With(p)
  <2>1. PICK p \in BpProc : place[b] = With(p)
    BY <1>12
  <2>2. b \notin bpfresh /\ C = {}
    BY <1>3, <1>4, <1>8, <2>1
  <2>3. H = {p}
    BY <1>4, <1>5, <2>1
  <2>4. Cardinality(H) = 1 /\ Cardinality(C) = 0
    BY <2>2, <2>3, FS_EmptySet, FS_Singleton
  <2>5. Cardinality(H) + Cardinality(C) + (IF b \in bpfresh THEN 1 ELSE 0) = 1
    BY <2>2, <2>3, <2>4
  <2>6. QED
    BY <2>5 DEF H, C
<1>13. QED
  BY <1>3, <1>10, <1>11, <1>12 DEF Places

LEMMA BpIInvImplies == BpIInv => BpInv
<1> SUFFICES ASSUME BpIInv PROVE BpInv
  OBVIOUS
<1>1. BuffersConserved
  BY BpConserved
<1>2. \A i \in BpId : SemOK(bpsem[i])
  <2>1. SemOK(NoSem)
    BY DEF SemOK, NoSem
  <2>2. QED
    BY <2>1 DEF BpIInv, BpQueues
<1>3. BpTypeOK
  BY <1>2 DEF BpIInv, BpTypes, BpTypeOK
<1>4. QED
  BY <1>1, <1>3 DEF BpInv, BpIInv

\* Whatever processes get, hand on and free, for any numbers of processes,
\* pools, buffers and semaphores: every buffer is in one place, knows its pool
\* while it is in use, and the semaphore of a pool admits nobody for whom there
\* is none, although getbuf tests nothing behind its wait.
THEOREM BufferPools == BpSpec => []BpInv
<1>1. BpInit => BpIInv
  BY BpInitOK
<1>2. BpIInv /\ [BpNext]_bpVars => BpIInv'
  BY BpNextOK
<1>3. BpIInv => BpInv
  BY BpIInvImplies
<1>4. QED
  BY <1>1, <1>2, <1>3, PTL DEF BpSpec

-----------------------------------------------------------------------------
(* Ports: lists of message nodes.                                          *)

\* The nodes of s are linked by w from f on.
PtListOf(w, f, s) ==
    /\ QueueOf(PtNode, s)
    /\ f = IF s = <<>> THEN NULL ELSE s[1]
    /\ \A k \in 1 .. Len(s) : w[s[k]] = IF k < Len(s) THEN s[k + 1] ELSE NULL

LEMMA PtFacts ==
  /\ PtNodes \in Nat \ {0} /\ PtNode = 1 .. PtNodes /\ NULL = 0 /\ NULL \notin PtNode
  /\ NPORTS \in Nat \ {0} /\ Port = 0 .. NPORTS - 1 /\ -1 \notin Port /\ Port \subseteq Nat
  BY PortsAssumption DEF PtNode, NULL, Port

\* One turn of PtLinked, on the sequences that are found in one turn less.
PtTurn(w, k, before) ==
    [b \in 0 .. PtNodes |->
        IF k = 0 \/ b = NULL THEN <<>>
        ELSE <<b>> \o before[w[b]]]

\* The recursion of PtLinked defines a function.
LEMMA PtLinkedTurns ==
  ASSUME NEW w
  PROVE  \A k \in 0 .. PtNodes : PtLinked(w)[k] = PtTurn(w, k, PtLinked(w)[k - 1])
<1> DEFINE Defines(f, N) == f = [i \in 0 .. N |-> PtTurn(w, i, f[i - 1])]
           T == {N \in Nat : \E f : Defines(f, N)}
<1>1. PtNodes \in Nat
  BY PtFacts
<1>2. 0 \in T
  <2> DEFINE f == [i \in 0 .. 0 |-> PtTurn(w, 0, <<>>)]
  <2>1. PtTurn(w, 0, f[0 - 1]) = PtTurn(w, 0, <<>>)
    BY DEF PtTurn
  <2>2. Defines(f, 0)
    BY <2>1
  <2>3. QED
    BY <2>2
<1>3. ASSUME NEW N \in 0 .. PtNodes - 1, N \in T
      PROVE  N + 1 \in T
  <2>1. PICK f : Defines(f, N)
    BY <1>3
  <2> DEFINE g == [i \in 0 .. N + 1 |-> IF i = N + 1 THEN PtTurn(w, N + 1, f[N]) ELSE f[i]]
  <2>2. N + 1 \in Nat /\ N \in Nat /\ N \in 0 .. N
    BY <1>1
  <2>3. ASSUME NEW i \in 0 .. N + 1
        PROVE  g[i] = PtTurn(w, i, g[i - 1])
    <3>1. CASE i = N + 1
      <4>1. g[i - 1] = f[N]
        BY <2>2, <3>1
      <4>2. QED
        BY <3>1, <4>1
    <3>2. CASE i \in 1 .. N
      <4>1. g[i] = f[i] /\ g[i - 1] = f[i - 1]
        BY <2>2, <3>2
      <4>2. f[i] = PtTurn(w, i, f[i - 1])
        BY <2>1, <2>2, <3>2
      <4>3. QED
        BY <4>1, <4>2
    <3>3. CASE i = 0
      <4>1. g[0] = f[0] /\ f[0] = PtTurn(w, 0, f[0 - 1])
        BY <2>1, <2>2
      <4>2. QED
        BY <3>3, <4>1 DEF PtTurn
    <3>4. QED
      BY <2>2, <3>1, <3>2, <3>3
  <2>4. Defines(g, N + 1)
    <3> DEFINE h == [i \in 0 .. N + 1 |-> PtTurn(w, i, g[i - 1])]
    <3>1. \A i \in 0 .. N + 1 : g[i] = h[i]
      BY <2>3
    <3>2. DOMAIN g = 0 .. N + 1 /\ DOMAIN h = 0 .. N + 1
      OBVIOUS
    <3>3. QED
      BY <3>1, <3>2
  <2>5. QED
    BY <2>2, <2>4
<1>4. PtNodes \in T
  <2> HIDE DEF T
  <2>1. PtNodes \in 0 .. PtNodes
    BY <1>1
  <2>2. QED
    BY <1>1, <1>2, <1>3, <2>1, UpTo
<1>5. PICK f : Defines(f, PtNodes)
  BY <1>4
<1>6. PtLinked(w) = [k \in 0 .. PtNodes |-> PtTurn(w, k, PtLinked(w)[k - 1])]
  BY <1>5 DEF PtLinked, PtTurn
<1>7. QED
  BY <1>6

\* A list has no more entries than there are nodes.
LEMMA PtListEntries ==
  ASSUME NEW s, QueueOf(PtNode, s)
  PROVE  /\ s \in Seq(PtNode) /\ Len(s) \in 0 .. PtNodes /\ Len(s) \in Nat
         /\ \A k \in 1 .. Len(s) : s[k] \in PtNode
         /\ \A j, k \in 1 .. Len(s) : j # k => s[j] # s[k]
         /\ Range(s) = {s[k] : k \in 1 .. Len(s)}
<1>1. s \in Seq(PtNode) /\ Len(s) \in Nat /\ DOMAIN s = 1 .. Len(s)
  BY LenProperties DEF QueueOf
<1>2. \A k \in 1 .. Len(s) : s[k] \in PtNode
  BY <1>1, ElementOfSeq
<1>3. \A j, k \in 1 .. Len(s) : j # k => s[j] # s[k]
  BY <1>1 DEF QueueOf, IsInjective
<1>4. Len(s) <= PtNodes
  <2>1. s \in Injection(1 .. Len(s), 1 .. PtNodes)
    BY <1>1, <1>2, <1>3, PtFacts DEF Injection, IsInjective
  <2>2. IsFiniteSet(1 .. PtNodes) /\ Cardinality(1 .. PtNodes) = PtNodes
    BY PtFacts, FS_Interval
  <2>3. Cardinality(1 .. Len(s)) = Len(s)
    BY <1>1, FS_Interval
  <2>4. QED
    BY <2>1, <2>2, <2>3, FS_Injection
<1>5. QED
  BY <1>1, <1>2, <1>3, <1>4, PtFacts DEF Range

\* A list is what is found along its links.
LEMMA PtListIs ==
  ASSUME NEW w, NEW f, NEW s, PtListOf(w, f, s)
  PROVE  PtLinked(w)[PtNodes][f] = s
<1> DEFINE L == Len(s)
           At(k) == IF k <= L THEN s[k] ELSE NULL
           T == {j \in 0 .. L : \A k \in j .. PtNodes :
                    PtLinked(w)[k][At(L + 1 - j)] = SubSeq(s, L + 1 - j, L)}
<1>1. /\ s \in Seq(PtNode) /\ L \in 0 .. PtNodes
      /\ \A k \in 1 .. L : s[k] \in PtNode
  BY PtListEntries DEF PtListOf
<1>2. PtNodes \in Nat /\ PtNode = 1 .. PtNodes /\ NULL = 0
  BY PtFacts
<1>3. \A k \in 1 .. L : w[s[k]] = At(k + 1)
  <2> TAKE k \in 1 .. L
  <2>1. At(k + 1) = IF k < L THEN s[k + 1] ELSE NULL
    BY <1>1, <1>2
  <2>2. QED
    BY <2>1 DEF PtListOf
<1>4. \A k \in 0 .. PtNodes : \A b \in 0 .. PtNodes :
         PtLinked(w)[k][b] =
            IF k = 0 \/ b = NULL THEN <<>>
            ELSE <<b>> \o PtLinked(w)[k - 1][w[b]]
  <2> TAKE k \in 0 .. PtNodes
  <2>1. PtLinked(w)[k] = PtTurn(w, k, PtLinked(w)[k - 1])
    BY PtLinkedTurns
  <2>2. QED
    BY <2>1 DEF PtTurn
<1>5. f = At(1)
  <2>1. s = <<>> <=> L = 0
    BY <1>1, EmptySeq
  <2>2. QED
    BY <2>1, <1>1, <1>2 DEF PtListOf
<1> HIDE DEF L
<1>6. 0 \in T
  <2>1. At(L + 1) = NULL /\ NULL \in 0 .. PtNodes
    BY <1>1, <1>2
  <2>2. \A k \in 0 .. PtNodes : PtLinked(w)[k][NULL] = <<>>
    BY <2>1, <1>4
  <2>3. SubSeq(s, L + 1, L) = <<>>
    BY <1>1, SubSeqEmpty
  <2>4. L + 1 - 0 = L + 1 /\ 0 \in 0 .. L
    BY <1>1, <1>2
  <2>5. QED
    BY <2>1, <2>2, <2>3, <2>4
<1>7. ASSUME NEW j \in 0 .. L - 1, j \in T
      PROVE  j + 1 \in T
  <2> DEFINE m == L - j
  <2>1. m \in 1 .. L /\ L + 1 - (j + 1) = m /\ L + 1 - j = m + 1 /\ j + 1 \in 0 .. L /\ L \in Nat
    BY <1>1, <1>2
  <2> HIDE DEF m
  <2>2. ASSUME NEW k \in j + 1 .. PtNodes
        PROVE  PtLinked(w)[k][At(m)] = SubSeq(s, m, L)
    <3>1. k \in 0 .. PtNodes /\ k - 1 \in j .. PtNodes /\ k # 0
      BY <1>1, <1>2
    <3>2. At(m) = s[m] /\ s[m] \in PtNode /\ s[m] \in 0 .. PtNodes /\ s[m] # NULL
      BY <2>1, <1>1, <1>2
    <3>3. w[s[m]] = At(m + 1)
      BY <1>3, <2>1
    <3>4. PtLinked(w)[k][s[m]] = <<s[m]>> \o PtLinked(w)[k - 1][At(m + 1)]
      BY <3>1, <3>2, <3>3, <1>4
    <3>5. PtLinked(w)[k - 1][At(m + 1)] = SubSeq(s, m + 1, L)
      BY <1>7, <2>1, <3>1
    <3>6. SubSeq(s, m, L) = <<s[m]>> \o SubSeq(s, m + 1, L)
      <4>1. m \in 1 .. Len(s) /\ L \in m .. Len(s)
        BY <2>1, <1>1, <1>2 DEF L
      <4>2. QED
        BY <4>1, <1>1, SubSeqRecursiveFirst
    <3>7. QED
      BY <3>2, <3>4, <3>5, <3>6
  <2>3. QED
    BY <2>1, <2>2
<1>8. L \in T
  <2> HIDE DEF T
  <2>1. L \in Nat /\ L \in 0 .. L
    BY <1>1, <1>2
  <2>2. QED
    BY <2>1, <1>6, <1>7, UpTo
<1>9. PtLinked(w)[PtNodes][At(1)] = SubSeq(s, 1, L)
  <2>1. PtNodes \in L .. PtNodes /\ L + 1 - L = 1
    BY <1>1, <1>2
  <2>2. QED
    BY <1>8, <2>1
<1>10. SubSeq(s, 1, L) = s
  BY <1>1, SubSeqFull DEF L
<1>11. QED
  BY <1>5, <1>9, <1>10

\* A list is what it was while its links are.
LEMMA PtListKept ==
  ASSUME NEW w, NEW w2, NEW f, NEW s, PtListOf(w, f, s), \A b \in Range(s) : w2[b] = w[b]
  PROVE  PtListOf(w2, f, s)
<1>1. \A k \in 1 .. Len(s) : s[k] \in Range(s)
  BY PtListEntries DEF PtListOf
<1>2. \A k \in 1 .. Len(s) : w2[s[k]] = w[s[k]]
  BY <1>1
<1>3. QED
  BY <1>2 DEF PtListOf

\* The first node is taken off.
LEMMA PtListFirstOut ==
  ASSUME NEW w, NEW w2, NEW f, NEW s, PtListOf(w, f, s), s # <<>>,
         \A b \in PtNode \ {f} : w2[b] = w[b]
  PROVE  /\ f \in PtNode
         /\ Range(s) = Range(Tail(s)) \cup {f} /\ f \notin Range(Tail(s))
         /\ Len(s) = Len(Tail(s)) + 1
         /\ w[f] \in PtNode \cup {NULL}
         /\ PtListOf(w2, w[f], Tail(s))
<1> DEFINE L == Len(s)
           r == Tail(s)
<1>1. /\ s \in Seq(PtNode) /\ L \in Nat /\ L >= 1
      /\ \A k \in 1 .. L : s[k] \in PtNode
      /\ \A j, k \in 1 .. L : j # k => s[j] # s[k]
      /\ Range(s) = {s[k] : k \in 1 .. L}
  <2>1. QueueOf(PtNode, s)
    BY DEF PtListOf
  <2>2. L # 0
    BY <2>1, PtListEntries, EmptySeq
  <2>3. QED
    BY <2>1, <2>2, PtListEntries, PtFacts
<1>2. f = s[1] /\ f \in PtNode
  BY <1>1 DEF PtListOf
<1>3. /\ r \in Seq(PtNode) /\ Len(r) = L - 1 /\ DOMAIN r = 1 .. L - 1
      /\ \A k \in 1 .. L - 1 : r[k] = s[k + 1]
  BY <1>1, HeadTailProperties, LenProperties
<1> HIDE DEF L, r
<1>4. QueueOf(PtNode, r)
  <2>1. \A j, k \in 1 .. L - 1 : j # k => r[j] # r[k]
    <3> TAKE j, k \in 1 .. L - 1
    <3>1. j + 1 \in 1 .. L /\ k + 1 \in 1 .. L /\ (j # k => j + 1 # k + 1)
      BY <1>1
    <3>2. QED
      BY <1>1, <1>3, <3>1
  <2>2. QED
    BY <2>1, <1>3 DEF QueueOf, IsInjective
<1>5. Range(r) = {s[k] : k \in 2 .. L}
  <2>1. Range(r) = {r[k] : k \in 1 .. L - 1}
    BY <1>3 DEF Range
  <2>2. \A k \in 1 .. L - 1 : k + 1 \in 2 .. L /\ r[k] = s[k + 1]
    BY <1>1, <1>3
  <2>3. \A k \in 2 .. L : k - 1 \in 1 .. L - 1 /\ r[k - 1] = s[k]
    <3> TAKE k \in 2 .. L
    <3>1. k - 1 \in 1 .. L - 1 /\ (k - 1) + 1 = k
      BY <1>1
    <3>2. QED
      BY <1>3, <3>1
  <2>4. QED
    BY <2>1, <2>2, <2>3
<1>6. Range(s) = Range(r) \cup {f} /\ f \notin Range(r)
  <2>1. \A k \in 1 .. L : k = 1 \/ k \in 2 .. L
    BY <1>1
  <2>2. \A k \in 2 .. L : k \in 1 .. L /\ 1 \in 1 .. L /\ k # 1
    BY <1>1
  <2>3. \A k \in 2 .. L : s[k] # s[1]
    BY <1>1, <2>2
  <2>4. 1 \in 1 .. L
    BY <1>1
  <2>5. QED
    BY <1>1, <1>2, <1>5, <2>1, <2>2, <2>3, <2>4
<1>7. w[s[1]] = (IF 1 < L THEN s[2] ELSE NULL)
  <2>1. 1 \in 1 .. Len(s) /\ 1 + 1 = 2
    BY <1>1 DEF L
  <2>2. QED
    BY <2>1 DEF PtListOf, L
<1>8. w[f] = IF 1 < L THEN s[2] ELSE NULL
  BY <1>2, <1>7
<1>9. w[f] = IF r = <<>> THEN NULL ELSE r[1]
  <2>1. r = <<>> <=> L - 1 = 0
    BY <1>3, EmptySeq
  <2>2. 1 < L => r[1] = s[2]
    BY <1>1, <1>3
  <2>3. QED
    BY <1>1, <1>8, <2>1, <2>2
<1>10. w[f] \in PtNode \cup {NULL}
  BY <1>1, <1>8
<1>11. \A k \in 1 .. L - 1 : w2[r[k]] = (IF k < L - 1 THEN r[k + 1] ELSE NULL)
  <2> TAKE k \in 1 .. L - 1
  <2>1. k + 1 \in 1 .. L /\ r[k] = s[k + 1] /\ k + 1 # 1 /\ 1 \in 1 .. L
    BY <1>1, <1>3
  <2>2. r[k] \in PtNode \ {f}
    BY <1>1, <1>2, <2>1
  <2>3. w[s[k + 1]] = (IF k + 1 < L THEN s[k + 1 + 1] ELSE NULL)
    BY <2>1 DEF PtListOf, L
  <2>4. k < L - 1 <=> k + 1 < L
    BY <1>1
  <2>5. k < L - 1 => r[k + 1] = s[k + 1 + 1]
    BY <1>1, <1>3
  <2>6. QED
    BY <2>1, <2>2, <2>3, <2>4, <2>5
<1>12. PtListOf(w2, w[f], r)
  BY <1>3, <1>4, <1>9, <1>11 DEF PtListOf
<1>13. L = Len(r) + 1
  BY <1>1, <1>3
<1>14. QED
  BY <1>2, <1>6, <1>10, <1>12, <1>13 DEF L, r
\* What two sequences hold one after the other.
LEMMA PtJoinedFacts ==
  ASSUME NEW s, NEW r, QueueOf(PtNode, s), QueueOf(PtNode, r), Range(s) \cap Range(r) = {}
  PROVE  /\ QueueOf(PtNode, s \o r)
         /\ Len(s \o r) = Len(s) + Len(r)
         /\ \A k \in 1 .. Len(s) : (s \o r)[k] = s[k]
         /\ \A k \in 1 .. Len(r) : (s \o r)[Len(s) + k] = r[k]
         /\ \A k \in 1 .. Len(s) + Len(r) :
               k \in 1 .. Len(s) \/ (k - Len(s) \in 1 .. Len(r) /\ k = Len(s) + (k - Len(s)))
         /\ Range(s \o r) = Range(s) \cup Range(r)
<1> DEFINE L == Len(s)
           M == Len(r)
           j == s \o r
<1>1. /\ s \in Seq(PtNode) /\ L \in Nat /\ \A k \in 1 .. L : s[k] \in PtNode
      /\ \A i, k \in 1 .. L : i # k => s[i] # s[k]
      /\ Range(s) = {s[k] : k \in 1 .. L}
  BY PtListEntries, PtFacts
<1>2. /\ r \in Seq(PtNode) /\ M \in Nat /\ \A k \in 1 .. M : r[k] \in PtNode
      /\ \A i, k \in 1 .. M : i # k => r[i] # r[k]
      /\ Range(r) = {r[k] : k \in 1 .. M}
  BY PtListEntries, PtFacts
<1>3. /\ j \in Seq(PtNode) /\ Len(j) = L + M
      /\ \A k \in 1 .. L + M : j[k] = IF k <= L THEN s[k] ELSE r[k - L]
  BY <1>1, <1>2, ConcatProperties
<1> HIDE DEF L, M, j
<1>4. DOMAIN j = 1 .. L + M
  <2>1. L + M \in Nat
    BY <1>1, <1>2
  <2>2. QED
    BY <1>3, <2>1, LenProperties
<1>5. \A k \in 1 .. L : k \in 1 .. L + M /\ j[k] = s[k]
  BY <1>1, <1>2, <1>3
<1>6. \A k \in 1 .. M : L + k \in 1 .. L + M /\ j[L + k] = r[k]
  <2> TAKE k \in 1 .. M
  <2>1. PICK i : i = L + k
    OBVIOUS
  <2>2. i \in 1 .. L + M /\ ~(i <= L) /\ i - L = k
    BY <2>1, <1>1, <1>2
  <2>3. j[i] = r[i - L]
    BY <2>2, <1>3
  <2>4. QED
    BY <2>1, <2>2, <2>3
<1>7. \A k \in 1 .. L + M : k \in 1 .. L \/ (k - L \in 1 .. M /\ k = L + (k - L))
  BY <1>1, <1>2
<1>8. \A k \in 1 .. L : \A i \in 1 .. M : s[k] # r[i]
  BY <1>1, <1>2
<1>9. QueueOf(PtNode, j)
  <2>1. ASSUME NEW i \in 1 .. L + M, NEW k \in 1 .. L + M, i # k
        PROVE  j[i] # j[k]
    <3>1. CASE i \in 1 .. L /\ k \in 1 .. L
      BY <2>1, <3>1, <1>1, <1>5
    <3>2. CASE i \in 1 .. L /\ k \notin 1 .. L
      BY <3>2, <1>5, <1>6, <1>7, <1>8
    <3>3. CASE i \notin 1 .. L /\ k \in 1 .. L
      BY <3>3, <1>5, <1>6, <1>7, <1>8
    <3>4. CASE i \notin 1 .. L /\ k \notin 1 .. L
      <4>1. i - L \in 1 .. M /\ k - L \in 1 .. M /\ i - L # k - L
        BY <2>1, <3>4, <1>1, <1>2
      <4>2. j[i] = r[i - L] /\ j[k] = r[k - L]
        BY <3>4, <1>6, <1>7
      <4>3. QED
        BY <4>1, <4>2, <1>2
    <3>5. QED
      BY <3>1, <3>2, <3>3, <3>4
  <2>2. QED
    BY <1>3, <1>4, <2>1 DEF QueueOf, IsInjective
<1>10. Range(j) = Range(s) \cup Range(r)
  <2>1. Range(j) = {j[k] : k \in 1 .. L + M}
    BY <1>4 DEF Range
  <2>2. \A k \in 1 .. L + M : j[k] \in Range(s) \cup Range(r)
    <3> TAKE k \in 1 .. L + M
    <3>1. CASE k \in 1 .. L
      BY <3>1, <1>1, <1>5
    <3>2. CASE k \notin 1 .. L
      <4>1. k - L \in 1 .. M /\ k = L + (k - L)
        BY <3>2, <1>7
      <4>2. j[k] = r[k - L]
        BY <4>1, <1>6
      <4>3. QED
        BY <4>1, <4>2, <1>2
    <3>3. QED
      BY <3>1, <3>2
  <2>3. \A k \in 1 .. L : s[k] \in Range(j)
    BY <2>1, <1>5
  <2>4. \A k \in 1 .. M : r[k] \in Range(j)
    BY <2>1, <1>6
  <2>5. QED
    BY <2>1, <2>2, <2>3, <2>4, <1>1, <1>2
<1>11. QED
  BY <1>3, <1>5, <1>6, <1>7, <1>9, <1>10 DEF L, M, j

LEMMA PtJoinedRange ==
  ASSUME NEW w, NEW g, NEW s, NEW r, NEW j, j = s \o r, QueueOf(PtNode, s), PtListOf(w, g, r),
         Range(s) \cap Range(r) = {}
  PROVE  \A n : n \in Range(j) <=> n \in Range(s) \/ n \in Range(r)
<1>1. Range(j) = Range(s) \cup Range(r)
  BY PtJoinedFacts DEF PtListOf
<1>2. QED
  BY <1>1

\* The nodes of s are linked one to the next, and the last to g.
PtFollows(w, s, g) ==
    \A k \in 1 .. Len(s) : w[s[k]] = IF k < Len(s) THEN s[k + 1] ELSE g

PtSame(w, w2, S) == \A n \in S : w2[n] = w[n]

\* A list is put behind nodes that are linked one to the next, the last to the list.
LEMMA PtListJoined ==
  ASSUME NEW w, NEW w2, NEW g, NEW s, NEW r, NEW j, j = s \o r, QueueOf(PtNode, s), s # <<>>,
         PtListOf(w, g, r), Range(s) \cap Range(r) = {},
         PtFollows(w2, s, g), PtSame(w, w2, Range(r))
  PROVE  /\ PtListOf(w2, s[1], j)
         /\ Range(j) = Range(s) \cup Range(r)
         /\ Len(j) = Len(s) + Len(r)
         /\ j # <<>>
         /\ r = <<>> => j[Len(j)] = s[Len(s)]
         /\ r # <<>> => j[Len(j)] = r[Len(r)]
<1> DEFINE L == Len(s)
           M == Len(r)
<1>1. QueueOf(PtNode, r)
  BY DEF PtListOf
<1>2. /\ QueueOf(PtNode, j) /\ Len(j) = L + M
      /\ \A k \in 1 .. L : j[k] = s[k]
      /\ \A k \in 1 .. M : j[L + k] = r[k]
      /\ \A k \in 1 .. L + M : k \in 1 .. L \/ (k - L \in 1 .. M /\ k = L + (k - L))
      /\ Range(j) = Range(s) \cup Range(r)
  BY <1>1, PtJoinedFacts
<1>3. L \in Nat /\ M \in Nat /\ L # 0 /\ (r = <<>> <=> M = 0) /\ (j = <<>> <=> L + M = 0)
  <2>1. s \in Seq(PtNode) /\ r \in Seq(PtNode) /\ j \in Seq(PtNode)
    BY <1>1, <1>2 DEF QueueOf
  <2>2. QED
    BY <1>2, <2>1, EmptySeq, LenProperties
<1>4. \A k \in 1 .. M : r[k] \in Range(r)
  BY <1>1, PtListEntries
<1>5. /\ g = IF r = <<>> THEN NULL ELSE r[1]
      /\ \A k \in 1 .. M : w[r[k]] = IF k < M THEN r[k + 1] ELSE NULL
  BY DEF PtListOf
<1>6. \A k \in 1 .. L : w2[s[k]] = IF k < L THEN s[k + 1] ELSE g
  BY DEF PtFollows
<1>7. \A k \in 1 .. M : w2[r[k]] = IF k < M THEN r[k + 1] ELSE NULL
  BY <1>4, <1>5 DEF PtSame
<1> HIDE DEF L, M
<1>8. ASSUME NEW k \in 1 .. L + M
      PROVE  w2[j[k]] = IF k < L + M THEN j[k + 1] ELSE NULL
  <2>1. CASE k \in 1 .. L /\ k < L
    <3>1. k + 1 \in 1 .. L /\ k < L + M
      BY <2>1, <1>3
    <3>2. QED
      BY <2>1, <3>1, <1>2, <1>6
  <2>2. CASE k = L /\ M = 0
    <3>1. L \in 1 .. L /\ ~(L < L + M) /\ ~(L < L)
      BY <2>2, <1>3
    <3>2. g = NULL
      BY <2>2, <1>3, <1>5
    <3>3. QED
      BY <2>2, <3>1, <3>2, <1>2, <1>6
  <2>3. CASE k = L /\ M # 0
    <3>1. L \in 1 .. L /\ L < L + M /\ ~(L < L) /\ 1 \in 1 .. M
      BY <2>3, <1>3
    <3>2. g = r[1]
      BY <2>3, <1>3, <1>5
    <3>3. QED
      BY <2>3, <3>1, <3>2, <1>2, <1>6
  <2>4. CASE k \notin 1 .. L
    <3>1. PICK i \in 1 .. M : k = L + i
      BY <2>4, <1>2
    <3>2. i < M <=> k < L + M
      BY <3>1, <1>3
    <3>3. i < M => i + 1 \in 1 .. M /\ k + 1 = L + (i + 1)
      BY <3>1, <1>3
    <3>4. j[k] = r[i] /\ (i < M => j[k + 1] = r[i + 1])
      BY <3>1, <3>3, <1>2
    <3>5. QED
      BY <3>1, <3>2, <3>4, <1>7
  <2>5. (k \in 1 .. L /\ k < L) \/ k = L \/ k \notin 1 .. L
    BY <1>3
  <2>6. QED
    BY <2>1, <2>2, <2>3, <2>4, <2>5
<1>9. s[1] = IF j = <<>> THEN NULL ELSE j[1]
  <2>1. 1 \in 1 .. L
    BY <1>3
  <2>2. QED
    BY <2>1, <1>2, <1>3
<1>10. PtListOf(w2, s[1], j)
  BY <1>2, <1>8, <1>9 DEF PtListOf
<1>11. j[L + M] = IF r = <<>> THEN s[L] ELSE r[M]
  <2>1. L \in 1 .. L /\ (M # 0 => M \in 1 .. M)
    BY <1>3
  <2>2. M = 0 => L + M = L
    BY <1>3
  <2>3. QED
    BY <2>1, <2>2, <1>2, <1>3
<1>12. j # <<>>
  BY <1>3
<1>13. QED
  BY <1>2, <1>10, <1>11, <1>12 DEF L, M

\* A node alone.
LEMMA PtListOfOne ==
  ASSUME NEW w, NEW n \in PtNode
  PROVE  /\ QueueOf(PtNode, <<n>>) /\ <<n>> # <<>> /\ Range(<<n>>) = {n}
         /\ Len(<<n>>) = 1 /\ <<n>>[1] = n
         /\ w[n] = NULL => PtListOf(w, n, <<n>>)
<1>1. <<n>> \in Seq(PtNode) /\ Len(<<n>>) = 1 /\ <<n>>[1] = n /\ <<n>> # <<>> /\ DOMAIN <<n>> = 1 .. 1
  OBVIOUS
<1>2. QueueOf(PtNode, <<n>>)
  BY <1>1 DEF QueueOf, IsInjective
<1>3. Range(<<n>>) = {n}
  BY <1>1 DEF Range
<1>4. PICK s : s = <<n>>
  OBVIOUS
<1>5. s # <<>> /\ Len(s) = 1 /\ s[1] = n /\ QueueOf(PtNode, s)
  BY <1>1, <1>2, <1>4
<1>6. ASSUME w[n] = NULL
      PROVE  PtListOf(w, n, s)
  <2>1. \A k \in 1 .. 1 : k = 1 /\ ~(k < 1)
    OBVIOUS
  <2>2. \A k \in 1 .. Len(s) : w[s[k]] = IF k < Len(s) THEN s[k + 1] ELSE NULL
    BY <1>5, <1>6, <2>1
  <2>3. QED
    BY <1>5, <2>2 DEF PtListOf
<1>7. QED
  BY <1>1, <1>2, <1>3, <1>4, <1>6

\* Nothing is a list without a first node.
LEMMA PtListOfNone ==
  ASSUME NEW w
  PROVE  PtListOf(w, NULL, <<>>) /\ Range(<<>>) = {} /\ Len(<<>>) = 0
<1>1. QueueOf(PtNode, <<>>)
  BY DEF QueueOf, IsInjective
<1>2. Len(<<>>) = 0 /\ Range(<<>>) = {}
  BY DEF Range
<1>3. QED
  BY <1>1, <1>2 DEF PtListOf

-----------------------------------------------------------------------------
(* Ports: the free list and the lists of ports share the nodes.            *)

PtHeadOf(free, head, u) == IF u = -1 THEN free ELSE head[u]

PtLastOf(s) == IF s = <<>> THEN NULL ELSE s[Len(s)]

\* Each node is on one of the lists L, which start and end where they should.
PtListsAre(next, free, head, tail, K, L) ==
    /\ \A u \in K : PtListOf(next, PtHeadOf(free, head, u), L[u])
    /\ \A u \in K \ {-1} : tail[u] = PtLastOf(L[u])
    /\ \A n \in PtNode : \E u \in K : n \in Range(L[u])
    /\ \A u, v \in K : u # v => Range(L[u]) \cap Range(L[v]) = {}

\* What a list of a port says about the head and the tail of the port.
LEMMA PtListEnds ==
  ASSUME NEW w, NEW f, NEW s, PtListOf(w, f, s)
  PROVE  /\ s = <<>> <=> f = NULL
         /\ s = <<>> <=> PtLastOf(s) = NULL
         /\ s # <<>> => /\ f \in Range(s) /\ PtLastOf(s) \in Range(s)
                        /\ Len(s) \in 1 .. Len(s) /\ 1 \in 1 .. Len(s)
                        /\ f = s[1] /\ PtLastOf(s) = s[Len(s)]
         /\ Range(s) \subseteq PtNode
         /\ \A k \in 1 .. Len(s) : s[k] \in Range(s)
         /\ \A k \in 1 .. Len(s) : s[k] = PtLastOf(s) <=> k = Len(s)
         /\ Len(s) \in Nat
<1>1. QueueOf(PtNode, s)
  BY DEF PtListOf
<1>2. /\ s \in Seq(PtNode) /\ Len(s) \in Nat
      /\ \A k \in 1 .. Len(s) : s[k] \in PtNode
      /\ \A j, k \in 1 .. Len(s) : j # k => s[j] # s[k]
      /\ Range(s) = {s[k] : k \in 1 .. Len(s)}
  BY <1>1, PtListEntries
<1>3. s = <<>> <=> Len(s) = 0
  <2>1. CASE s = <<>>
    BY <2>1, EmptySeq
  <2>2. CASE s # <<>>
    <3>1. Len(s) \in Nat \ {0}
      BY <1>2, <2>2, EmptySeq
    <3>2. QED
      BY <2>2, <3>1
  <2>3. QED
    BY <2>1, <2>2
<1>4. s # <<>> => Len(s) \in 1 .. Len(s) /\ 1 \in 1 .. Len(s)
  BY <1>2, <1>3
<1>5. f = IF s = <<>> THEN NULL ELSE s[1]
  BY DEF PtListOf
<1>6. NULL \notin PtNode
  BY PtFacts
<1>7. /\ s = <<>> <=> f = NULL
      /\ s = <<>> <=> PtLastOf(s) = NULL
  BY <1>2, <1>4, <1>5, <1>6 DEF PtLastOf
<1>8. s # <<>> => /\ f \in Range(s) /\ PtLastOf(s) \in Range(s)
                  /\ f = s[1] /\ PtLastOf(s) = s[Len(s)]
  BY <1>2, <1>4, <1>5 DEF PtLastOf
<1>9. Range(s) \subseteq PtNode /\ \A k \in 1 .. Len(s) : s[k] \in Range(s)
  BY <1>2
<1>10. \A k \in 1 .. Len(s) : s[k] = PtLastOf(s) <=> k = Len(s)
  <2> TAKE k \in 1 .. Len(s)
  <2>1. s # <<>>
    BY <1>2, <1>3
  <2>2. QED
    BY <2>1, <1>2, <1>4, <1>8
<1>11. QED
  BY <1>2, <1>4, <1>7, <1>8, <1>9, <1>10

\* next2, free2, head2, tail2 and L2 are what linking the first free node at the tail of t makes.
PtPuts(next, free, head, tail, K, L, next2, free2, head2, tail2, L2, t) ==
    /\ PtListsAre(next, free, head, tail, K, L)
    /\ t # -1
    /\ -1 \in K
    /\ free # NULL
    /\ free2 = next[free]
    /\ \A m \in PtNode : next2[m] = IF m = free THEN NULL
                                    ELSE IF m = tail[t] THEN free ELSE next[m]
    /\ head2[t] = IF tail[t] = NULL THEN free ELSE head[t]
    /\ tail2[t] = free
    /\ \A u \in K \ {-1, t} : head2[u] = head[u] /\ tail2[u] = tail[u]
    /\ L2[-1] = Tail(L[-1])
    /\ L2[t] = L[t] \o <<free>>
    /\ \A u \in K \ {-1, t} : L2[u] = L[u]

\* A node is taken from the free list and put at the end of that of t.
LEMMA PtListsPut ==
  ASSUME NEW next, NEW free, NEW head, NEW tail, NEW K, NEW L,
         NEW next2, NEW free2, NEW head2, NEW tail2, NEW L2, NEW t \in K,
         PtPuts(next, free, head, tail, K, L, next2, free2, head2, tail2, L2, t)
  PROVE  /\ PtListsAre(next2, free2, head2, tail2, K, L2)
         /\ free \in PtNode /\ next[free] \in PtNode \cup {NULL}
         /\ free \in Range(L[-1])
         /\ Len(L2[t]) = Len(L[t]) + 1
         /\ Range(L2[t]) = Range(L[t]) \cup {free}
<1> USE DEF PtPuts
<1>1. PICK F, s : F = L[-1] /\ s = L[t]
  OBVIOUS
<1>2. PtListOf(next, free, F) /\ PtListOf(next, head[t], s) /\ tail[t] = PtLastOf(s)
  BY <1>1 DEF PtListsAre, PtHeadOf
<1>3. F # <<>> /\ free \in Range(F) /\ free \in PtNode
  <2>1. /\ F = <<>> <=> free = NULL
        /\ F # <<>> => free \in Range(F)
        /\ Range(F) \subseteq PtNode
    BY <1>2, PtListEnds
  <2>2. QED
    BY <2>1
<1>4. /\ s = <<>> <=> tail[t] = NULL
      /\ s # <<>> => tail[t] \in Range(s)
      /\ Range(s) \subseteq PtNode
      /\ \A k \in 1 .. Len(s) : s[k] \in Range(s) /\ (s[k] = tail[t] <=> k = Len(s))
      /\ Len(s) \in Nat
  <2>1. PICK f : f = head[t]
    OBVIOUS
  <2>2. PtListOf(next, f, s)
    BY <1>2, <2>1
  <2>3. /\ s = <<>> <=> PtLastOf(s) = NULL
        /\ s # <<>> => PtLastOf(s) \in Range(s)
        /\ Range(s) \subseteq PtNode
        /\ \A k \in 1 .. Len(s) : s[k] \in Range(s)
        /\ \A k \in 1 .. Len(s) : s[k] = PtLastOf(s) <=> k = Len(s)
        /\ Len(s) \in Nat
    BY <2>2, PtListEnds
  <2>4. QED
    BY <2>3, <1>2
<1>5. \A u \in K \ {-1} : free \notin Range(L[u])
  BY <1>1, <1>3 DEF PtListsAre
<1>6. \A u \in K \ {t} : tail[t] \notin Range(L[u])
  <2>1. CASE s = <<>>
    <3>1. \A u \in K : Range(L[u]) \subseteq PtNode
      <4> TAKE u \in K
      <4>1. PICK f, r : f = PtHeadOf(free, head, u) /\ r = L[u]
        OBVIOUS
      <4>2. PtListOf(next, f, r)
        BY <4>1 DEF PtListsAre
      <4>3. QED
        BY <4>1, <4>2, PtListEnds
    <3>2. tail[t] \notin PtNode
      BY <2>1, <1>4, PtFacts
    <3>3. QED
      BY <3>1, <3>2
  <2>2. CASE s # <<>>
    BY <2>2, <1>1, <1>4 DEF PtListsAre
  <2>3. QED
    BY <2>1, <2>2
<1>7. /\ Range(F) = Range(Tail(F)) \cup {free} /\ free \notin Range(Tail(F))
      /\ next[free] \in PtNode \cup {NULL}
      /\ PtListOf(next, next[free], Tail(F))
  BY <1>2, <1>3, PtListFirstOut
<1>8. \A m \in PtNode : m # free /\ m # tail[t] => next2[m] = next[m]
  OBVIOUS
<1>9. PtListOf(next2, free2, Tail(F))
  <2>1. PICK f, r : f = next[free] /\ r = Tail(F)
    OBVIOUS
  <2>2. PtListOf(next, f, r)
    BY <1>7, <2>1
  <2>3. Range(r) \subseteq PtNode
    BY <2>2, PtListEnds
  <2>4. \A b \in Range(r) : next2[b] = next[b]
    BY <2>1, <2>3, <1>1, <1>6, <1>7, <1>8
  <2>5. PtListOf(next2, f, r)
    BY <2>2, <2>4, PtListKept
  <2>6. QED
    BY <2>1, <2>5
<1>10. \A u \in K \ {-1, t} : PtListOf(next2, head2[u], L2[u])
  <2> TAKE u \in K \ {-1, t}
  <2>1. PICK f, r : f = head[u] /\ r = L[u]
    OBVIOUS
  <2>2. PtListOf(next, f, r)
    BY <2>1 DEF PtListsAre, PtHeadOf
  <2>3. Range(r) \subseteq PtNode
    BY <2>2, PtListEnds
  <2>4. \A b \in Range(r) : next2[b] = next[b]
    BY <2>1, <2>3, <1>5, <1>6, <1>8
  <2>5. PtListOf(next2, f, r)
    BY <2>2, <2>4, PtListKept
  <2>6. QED
    BY <2>1, <2>5
<1>11. /\ QueueOf(PtNode, <<free>>) /\ <<free>> # <<>> /\ Range(<<free>>) = {free}
       /\ Len(<<free>>) = 1 /\ <<free>>[1] = free
       /\ PtListOf(next2, free, <<free>>)
  BY <1>3, PtListOfOne
<1>12. /\ PtListOf(next2, head2[t], L2[t])
       /\ Range(L2[t]) = Range(s) \cup {free}
       /\ Len(L2[t]) = Len(s) + 1
       /\ L2[t] # <<>> /\ L2[t][Len(L2[t])] = free
  <2>1. CASE s = <<>>
    <3>1. L2[t] = <<free>>
      <4>1. L2[t] = <<>> \o <<free>>
        BY <2>1, <1>1
      <4>2. QED
        <5>1. <<free>> \in Seq(PtNode)
          BY <1>3
        <5>2. QED
          BY <4>1, <5>1, ConcatEmptySeq
    <3>2. head2[t] = free
      BY <2>1, <1>4
    <3>3. Range(s) = {} /\ Len(s) = 0
      BY <2>1, PtListOfNone
    <3>4. PICK r : r = <<free>>
      OBVIOUS
    <3>5. /\ r # <<>> /\ Range(r) = {free} /\ Len(r) = 1 /\ r[1] = free
          /\ PtListOf(next2, free, r)
      BY <1>11, <3>4
    <3>6. L2[t] = r
      BY <3>1, <3>4
    <3>7. Range(L2[t]) = Range(s) \cup {free} /\ Len(L2[t]) = Len(s) + 1
      <4>1. Range(r) = Range(s) \cup {free}
        BY <3>3, <3>5
      <4>2. Len(r) = Len(s) + 1
        BY <3>3, <3>5
      <4>3. QED
        BY <4>1, <4>2, <3>6
    <3>8. L2[t] # <<>> /\ L2[t][Len(L2[t])] = free
      BY <3>5, <3>6
    <3>9. QED
      BY <3>2, <3>5, <3>6, <3>7, <3>8
  <2>2. CASE s # <<>>
    <3>1. PICK r : r = <<free>>
      OBVIOUS
    <3>2. /\ PtListOf(next2, free, r) /\ Range(r) = {free} /\ r # <<>> /\ Len(r) = 1 /\ r[1] = free
      BY <1>11, <3>1
    <3>3. Range(s) \cap Range(r) = {}
      BY <3>2, <1>1, <1>5
    <3>4. PtFollows(next2, s, free)
      <4> SUFFICES ASSUME NEW k \in 1 .. Len(s)
                   PROVE  next2[s[k]] = IF k < Len(s) THEN s[k + 1] ELSE free
        BY DEF PtFollows
      <4>1. s[k] \in PtNode /\ s[k] # free /\ (s[k] = tail[t] <=> k = Len(s))
        BY <1>1, <1>4, <1>5
      <4>2. k < Len(s) <=> k # Len(s)
        BY <1>4
      <4>3. next[s[k]] = IF k < Len(s) THEN s[k + 1] ELSE NULL
        BY <1>2 DEF PtListOf
      <4>4. QED
        BY <4>1, <4>2, <4>3
    <3>5. QueueOf(PtNode, s) /\ PtSame(next2, next2, Range(r))
      BY <1>2 DEF PtListOf, PtSame
    <3>6. PICK j : j = s \o r
      OBVIOUS
    <3>7. /\ PtListOf(next2, s[1], j)
          /\ Range(j) = Range(s) \cup Range(r)
          /\ Len(j) = Len(s) + Len(r)
          /\ j # <<>>
          /\ r # <<>> => j[Len(j)] = r[Len(r)]
      <4>1. PtListOf(next2, free, r)
        BY <3>2
      <4>2. PtListOf(next2, s[1], j)
        BY <2>2, <4>1, <3>3, <3>4, <3>5, <3>6, PtListJoined
      <4>3. Range(j) = Range(s) \cup Range(r)
        BY <2>2, <4>1, <3>3, <3>4, <3>5, <3>6, PtListJoined
      <4>4. Len(j) = Len(s) + Len(r) /\ j # <<>>
        BY <2>2, <4>1, <3>3, <3>4, <3>5, <3>6, PtListJoined
      <4>5. r # <<>> => j[Len(j)] = r[Len(r)]
        BY <2>2, <4>1, <3>3, <3>4, <3>5, <3>6, PtListJoined
      <4>6. QED
        BY <4>2, <4>3, <4>4, <4>5
    <3>8. head2[t] = s[1]
      BY <2>2, <1>2, <1>4 DEF PtListOf
    <3>9. L2[t] = j
      BY <3>1, <3>6, <1>1
    <3>10. /\ Range(j) = Range(s) \cup {free} /\ Len(j) = Len(s) + 1
           /\ j[Len(j)] = free
      BY <3>2, <3>7
    <3>11. QED
      BY <3>7, <3>8, <3>9, <3>10
  <2>3. QED
    BY <2>1, <2>2
<1>13. \A u \in K : Range(L2[u]) = IF u = -1 THEN Range(L[u]) \ {free}
                                   ELSE IF u = t THEN Range(L[u]) \cup {free} ELSE Range(L[u])
  <2>1. Range(L2[-1]) = Range(L[-1]) \ {free}
    BY <1>1, <1>7
  <2>2. Range(L2[t]) = Range(L[t]) \cup {free}
    BY <1>1, <1>12
  <2>3. \A u \in K \ {-1, t} : Range(L2[u]) = Range(L[u])
    OBVIOUS
  <2>4. QED
    BY <2>1, <2>2, <2>3
<1>14. \A u \in K : PtListOf(next2, PtHeadOf(free2, head2, u), L2[u])
  BY <1>1, <1>9, <1>10, <1>12 DEF PtHeadOf
<1>15. \A u \in K \ {-1} : tail2[u] = PtLastOf(L2[u])
  <2> TAKE u \in K \ {-1}
  <2>1. CASE u = t
    BY <2>1, <1>12 DEF PtLastOf
  <2>2. CASE u # t
    BY <2>2 DEF PtListsAre
  <2>3. QED
    BY <2>1, <2>2
<1>16. \A n \in PtNode : \E u \in K : n \in Range(L2[u])
  <2> TAKE n \in PtNode
  <2>1. CASE n = free
    BY <2>1, <1>13
  <2>2. CASE n # free
    <3>1. PICK u \in K : n \in Range(L[u])
      BY DEF PtListsAre
    <3>2. n \in Range(L2[u])
      BY <2>2, <3>1, <1>13
    <3>3. QED
      BY <3>2
  <2>3. QED
    BY <2>1, <2>2
<1>17. \A u, v \in K : u # v => Range(L2[u]) \cap Range(L2[v]) = {}
  <2>1. \A u, v \in K : u # v => Range(L[u]) \cap Range(L[v]) = {}
    BY DEF PtListsAre
  <2>2. \A u \in K : Range(L2[u]) \subseteq Range(L[u]) \cup {free}
    BY <1>13
  <2>3. \A u \in K : free \in Range(L2[u]) => u = t
    BY <1>5, <1>13
  <2>4. \A u, v \in K : u # v => \A n : ~(n \in Range(L[u]) /\ n \in Range(L[v]))
    BY <2>1
  <2>5. ASSUME NEW u \in K, NEW v \in K, u # v, NEW n
        PROVE  ~(n \in Range(L2[u]) /\ n \in Range(L2[v]))
    <3>1. CASE n = free
      BY <2>3, <2>5, <3>1
    <3>2. CASE n # free
      BY <2>2, <2>4, <2>5, <3>2
    <3>3. QED
      BY <3>1, <3>2
  <2>6. QED
    BY <2>5
<1>18. PtListsAre(next2, free2, head2, tail2, K, L2)
  BY <1>14, <1>15, <1>16, <1>17 DEF PtListsAre
<1>19. QED
  BY <1>1, <1>3, <1>7, <1>12, <1>18
\* The lists have no node in common, as an instance for two lists.
LEMMA PtListsApart ==
  ASSUME NEW next, NEW free, NEW head, NEW tail, NEW K, NEW L,
         PtListsAre(next, free, head, tail, K, L), NEW u \in K
  PROVE  /\ Range(L[u]) \subseteq PtNode /\ Len(L[u]) \in Nat
         /\ \A n \in Range(L[u]) : \A v \in K : v # u => n \notin Range(L[v])
<1>1. PICK f, r : f = PtHeadOf(free, head, u) /\ r = L[u]
  OBVIOUS
<1>2. PtListOf(next, f, r)
  BY <1>1 DEF PtListsAre
<1>3. Range(r) \subseteq PtNode /\ Len(r) \in Nat
  BY <1>2, PtListEnds
<1>4. QED
  BY <1>1, <1>3 DEF PtListsAre

\* A list whose nodes keep their links stays one.
LEMMA PtListsKeep ==
  ASSUME NEW next, NEW next2, NEW free, NEW head, NEW tail, NEW K, NEW L,
         PtListsAre(next, free, head, tail, K, L), NEW u \in K \ {-1},
         PtSame(next, next2, Range(L[u]))
  PROVE  PtListOf(next2, head[u], L[u])
<1>1. PICK f, r : f = head[u] /\ r = L[u]
  OBVIOUS
<1>2. PtListOf(next, f, r)
  BY <1>1 DEF PtListsAre, PtHeadOf
<1>3. \A b \in Range(r) : next2[b] = next[b]
  BY <1>1 DEF PtSame
<1>4. PtListOf(next2, f, r)
  BY <1>2, <1>3, PtListKept
<1>5. QED
  BY <1>1, <1>4

\* The same for unlinking the first node of t.
PtTakes(next, free, head, tail, K, L, next2, free2, head2, tail2, L2, t) ==
    /\ PtListsAre(next, free, head, tail, K, L)
    /\ t # -1
    /\ -1 \in K
    /\ L[t] # <<>>
    /\ free2 = head[t]
    /\ \A m \in PtNode : next2[m] = IF m = head[t] THEN free ELSE next[m]
    /\ head2[t] = IF head[t] = tail[t] THEN NULL ELSE next[head[t]]
    /\ tail2[t] = IF head[t] = tail[t] THEN NULL ELSE tail[t]
    /\ \A u \in K \ {-1, t} : head2[u] = head[u] /\ tail2[u] = tail[u]
    /\ L2[-1] = <<head[t]>> \o L[-1]
    /\ L2[t] = Tail(L[t])
    /\ \A u \in K \ {-1, t} : L2[u] = L[u]

\* The first node of t is put before the free list.
LEMMA PtListsTake ==
  ASSUME NEW next, NEW free, NEW head, NEW tail, NEW K, NEW L,
         NEW next2, NEW free2, NEW head2, NEW tail2, NEW L2, NEW t \in K,
         PtTakes(next, free, head, tail, K, L, next2, free2, head2, tail2, L2, t)
  PROVE  /\ PtListsAre(next2, free2, head2, tail2, K, L2)
         /\ head[t] \in PtNode /\ next[head[t]] \in PtNode \cup {NULL}
         /\ Len(L[t]) = Len(L2[t]) + 1
         /\ Range(L2[t]) \subseteq Range(L[t])
<1> USE DEF PtTakes
<1>1. PICK F, s, n, r : F = L[-1] /\ s = L[t] /\ n = head[t] /\ r = Tail(L[t])
  OBVIOUS
<1>2. PtListOf(next, free, F) /\ PtListOf(next, n, s) /\ tail[t] = PtLastOf(s) /\ s # <<>>
  BY <1>1 DEF PtListsAre, PtHeadOf
<1>3. \A m \in PtNode \ {n} : next2[m] = next[m]
  BY <1>1
<1>4. /\ n \in PtNode
      /\ Range(s) = Range(r) \cup {n} /\ n \notin Range(r)
      /\ Len(s) = Len(r) + 1
      /\ next[n] \in PtNode \cup {NULL}
      /\ PtListOf(next2, next[n], r)
  <2>1. r = Tail(s)
    BY <1>1
  <2>2. QED
    BY <1>2, <1>3, <2>1, PtListFirstOut
<1>5. /\ n \in Range(s) /\ n = s[1] /\ PtLastOf(s) = s[Len(s)] /\ 1 \in 1 .. Len(s)
      /\ (s[1] = PtLastOf(s) <=> 1 = Len(s)) /\ Len(s) \in Nat
  <2>1. /\ s # <<>> => /\ n \in Range(s) /\ 1 \in 1 .. Len(s)
                        /\ n = s[1] /\ PtLastOf(s) = s[Len(s)]
        /\ \A k \in 1 .. Len(s) : s[k] = PtLastOf(s) <=> k = Len(s)
        /\ Len(s) \in Nat
    BY <1>2, PtListEnds
  <2>2. 1 \in 1 .. Len(s) => (s[1] = PtLastOf(s) <=> 1 = Len(s))
    BY <2>1
  <2>3. QED
    BY <2>1, <2>2, <1>2
<1>6. n = tail[t] <=> r = <<>>
  <2>1. r = <<>> <=> Len(r) = 0
    <3>1. r \in Seq(PtNode)
      BY <1>4 DEF PtListOf, QueueOf
    <3>2. QED
      BY <3>1, EmptySeq
  <2>2. Len(r) \in Nat
    BY <1>4, PtListEnds
  <2>3. QED
    BY <2>1, <2>2, <1>2, <1>4, <1>5
<1>7. r # <<>> => PtLastOf(r) = tail[t]
  <2> SUFFICES ASSUME r # <<>> PROVE PtLastOf(r) = tail[t]
    OBVIOUS
  <2>1. s \in Seq(PtNode)
    BY <1>2 DEF PtListOf, QueueOf
  <2>2. Len(r) = Len(s) - 1 /\ \A i \in 1 .. Len(s) - 1 : r[i] = s[i + 1]
    BY <2>1, <1>1, <1>2, HeadTailProperties
  <2>3. Len(r) \in 1 .. Len(r)
    BY <1>4, PtListEnds
  <2>4. PICK k : k = Len(r)
    OBVIOUS
  <2>5. k \in 1 .. Len(s) - 1 /\ k + 1 = Len(s)
    BY <2>2, <2>3, <2>4, <1>5
  <2>6. r[k] = s[Len(s)]
    BY <2>2, <2>5
  <2>7. QED
    BY <2>4, <2>6, <1>2, <1>5 DEF PtLastOf
<1>8. \A u \in K \ {t} : n \notin Range(L[u])
  BY <1>1, <1>5 DEF PtListsAre
<1>9. PtListOf(next2, head2[t], r) /\ tail2[t] = PtLastOf(r)
  <2>1. CASE r = <<>>
    <3>1. head2[t] = NULL /\ tail2[t] = NULL
      BY <2>1, <1>1, <1>6
    <3>2. PtListOf(next2, NULL, r)
      BY <2>1, PtListOfNone
    <3>3. QED
      BY <2>1, <3>1, <3>2 DEF PtLastOf
  <2>2. CASE r # <<>>
    <3>1. head2[t] = next[n] /\ tail2[t] = tail[t]
      BY <2>2, <1>1, <1>6
    <3>2. QED
      BY <2>2, <3>1, <1>4, <1>7
  <2>3. QED
    BY <2>1, <2>2
<1>10. PICK o, j : o = <<n>> /\ j = o \o F
  OBVIOUS
<1>11. /\ QueueOf(PtNode, o) /\ o # <<>> /\ Range(o) = {n}
       /\ Len(o) = 1 /\ o[1] = n
  BY <1>4, <1>10, PtListOfOne
<1>12. PtListOf(next2, n, j) /\ Range(j) = Range(F) \cup {n}
  <2>1. Range(o) \cap Range(F) = {}
    BY <1>1, <1>8, <1>11
  <2>2. PtFollows(next2, o, free)
    <3>1. \A k \in 1 .. 1 : k = 1 /\ ~(k < 1)
      OBVIOUS
    <3>2. next2[n] = free
      BY <1>1, <1>4
    <3>3. QED
      BY <3>1, <3>2, <1>11 DEF PtFollows
  <2>3. PtSame(next, next2, Range(F))
    <3>1. Range(F) \subseteq PtNode
      BY <1>2, PtListEnds
    <3>2. QED
      BY <3>1, <1>1, <1>3, <1>8 DEF PtSame
  <2>4. PtListOf(next2, o[1], j)
    BY <2>1, <2>2, <2>3, <1>2, <1>10, <1>11, PtListJoined
  <2>5. Range(j) = Range(o) \cup Range(F)
    <3>1. j = o \o F /\ QueueOf(PtNode, o) /\ PtListOf(next, free, F)
      BY <1>2, <1>10, <1>11
    <3>2. \A m : m \in Range(j) <=> m \in Range(o) \/ m \in Range(F)
      BY <2>1, <3>1, PtJoinedRange
    <3>3. QED
      BY <3>2
  <2>6. QED
    BY <2>4, <2>5, <1>11
<1>13. L2[-1] = j /\ L2[t] = r
  BY <1>1, <1>10
<1>14. \A u \in K : Range(L2[u]) = IF u = -1 THEN Range(L[u]) \cup {n}
                                   ELSE IF u = t THEN Range(L[u]) \ {n} ELSE Range(L[u])
  <2>1. Range(L2[-1]) = Range(L[-1]) \cup {n}
    BY <1>1, <1>12, <1>13
  <2>2. Range(L2[t]) = Range(L[t]) \ {n}
    BY <1>1, <1>4, <1>13
  <2>3. \A u \in K \ {-1, t} : Range(L2[u]) = Range(L[u])
    OBVIOUS
  <2>4. QED
    BY <2>1, <2>2, <2>3
<1>15. \A u \in K \ {-1, t} : PtListOf(next2, head2[u], L2[u])
  <2> TAKE u \in K \ {-1, t}
  <2>1. PtSame(next, next2, Range(L[u]))
    <3>1. Range(L[u]) \subseteq PtNode
      BY PtListsApart
    <3>2. QED
      BY <3>1, <1>3, <1>8 DEF PtSame
  <2>2. PtListOf(next2, head[u], L[u])
    BY <2>1, PtListsKeep
  <2>3. QED
    BY <2>2
<1>16. \A u \in K : PtListOf(next2, PtHeadOf(free2, head2, u), L2[u])
  BY <1>1, <1>9, <1>12, <1>13, <1>15 DEF PtHeadOf
<1>17. \A u \in K \ {-1} : tail2[u] = PtLastOf(L2[u])
  <2> TAKE u \in K \ {-1}
  <2>1. CASE u = t
    BY <2>1, <1>9, <1>13
  <2>2. CASE u # t
    BY <2>2 DEF PtListsAre
  <2>3. QED
    BY <2>1, <2>2
<1>18. \A m \in PtNode : \E u \in K : m \in Range(L2[u])
  <2> TAKE m \in PtNode
  <2>1. CASE m = n
    BY <2>1, <1>14
  <2>2. CASE m # n
    <3>1. PICK u \in K : m \in Range(L[u])
      BY DEF PtListsAre
    <3>2. m \in Range(L2[u])
      BY <2>2, <3>1, <1>14
    <3>3. QED
      BY <3>2
  <2>3. QED
    BY <2>1, <2>2
<1>19. \A u, v \in K : u # v => Range(L2[u]) \cap Range(L2[v]) = {}
  <2>1. \A u, v \in K : u # v => \A m : ~(m \in Range(L[u]) /\ m \in Range(L[v]))
    BY DEF PtListsAre
  <2>2. \A u \in K : Range(L2[u]) \subseteq Range(L[u]) \cup {n}
    BY <1>14
  <2>3. \A u \in K : n \in Range(L2[u]) => u = -1
    BY <1>8, <1>14
  <2>4. ASSUME NEW u \in K, NEW v \in K, u # v, NEW m
        PROVE  ~(m \in Range(L2[u]) /\ m \in Range(L2[v]))
    <3>1. CASE m = n
      BY <2>3, <2>4, <3>1
    <3>2. CASE m # n
      BY <2>1, <2>2, <2>4, <3>2
    <3>3. QED
      BY <3>1, <3>2
  <2>5. QED
    BY <2>4
<1>20. PtListsAre(next2, free2, head2, tail2, K, L2)
  BY <1>16, <1>17, <1>18, <1>19 DEF PtListsAre
<1>21. QED
  BY <1>1, <1>4, <1>13, <1>20

\* The same for giving all nodes of t back.
PtClearsOf(next, free, head, tail, K, L, next2, free2, head2, tail2, L2, t) ==
    /\ PtListsAre(next, free, head, tail, K, L)
    /\ t # -1
    /\ -1 \in K
    /\ \A m \in PtNode : next2[m] = IF head[t] # NULL /\ m = tail[t] THEN free ELSE next[m]
    /\ free2 = IF head[t] = NULL THEN free ELSE head[t]
    /\ \A u \in K \ {-1, t} : head2[u] = head[u] /\ tail2[u] = tail[u]
    /\ L2[-1] = L[t] \o L[-1]
    /\ \A u \in K \ {-1, t} : L2[u] = L[u]

\* The nodes of t go to the free list in one piece, and t has no list any more.
LEMMA PtListsClear ==
  ASSUME NEW next, NEW free, NEW head, NEW tail, NEW K, NEW L,
         NEW next2, NEW free2, NEW head2, NEW tail2, NEW L2, NEW t \in K,
         PtClearsOf(next, free, head, tail, K, L, next2, free2, head2, tail2, L2, t)
  PROVE  /\ PtListsAre(next2, free2, head2, tail2, K \ {t}, L2)
         /\ head[t] \in PtNode \cup {NULL} /\ free \in PtNode \cup {NULL}
<1> USE DEF PtClearsOf
<1>1. PICK F, s, f, j : F = L[-1] /\ s = L[t] /\ f = head[t] /\ j = s \o F
  OBVIOUS
<1>2. PtListOf(next, free, F) /\ PtListOf(next, f, s) /\ tail[t] = PtLastOf(s)
  BY <1>1 DEF PtListsAre, PtHeadOf
<1>3. /\ s = <<>> <=> f = NULL
      /\ s # <<>> => /\ f \in Range(s) /\ PtLastOf(s) \in Range(s)
                     /\ f = s[1] /\ PtLastOf(s) = s[Len(s)]
      /\ Range(s) \subseteq PtNode
      /\ \A k \in 1 .. Len(s) : s[k] \in Range(s)
      /\ \A k \in 1 .. Len(s) : s[k] = PtLastOf(s) <=> k = Len(s)
      /\ Len(s) \in Nat
  BY <1>2, PtListEnds
<1>4. Range(F) \subseteq PtNode /\ (F = <<>> <=> free = NULL) /\ (F # <<>> => free \in Range(F))
  BY <1>2, PtListEnds
<1>5. \A u \in K \ {t} : Range(s) \cap Range(L[u]) = {}
  BY <1>1 DEF PtListsAre
<1>6. \A u \in K \ {t} : PtSame(next, next2, Range(L[u]))
  <2> TAKE u \in K \ {t}
  <2>1. Range(L[u]) \subseteq PtNode
    BY PtListsApart
  <2>2. \A m \in Range(L[u]) : ~(f # NULL /\ m = tail[t])
    BY <1>2, <1>3, <1>5
  <2>3. QED
    BY <2>1, <2>2, <1>1 DEF PtSame
<1>7. PtListOf(next2, free2, j) /\ Range(j) = Range(s) \cup Range(F)
  <2>1. CASE s = <<>>
    <3>1. j = F
      <4>1. F \in Seq(PtNode)
        BY <1>2 DEF PtListOf, QueueOf
      <4>2. <<>> \o F = F
        BY <4>1, ConcatEmptySeq
      <4>3. QED
        BY <4>2, <2>1, <1>1
    <3>2. free2 = free
      BY <2>1, <1>1, <1>3
    <3>3. \A m \in Range(F) : next2[m] = next[m]
      BY <1>1, <1>6 DEF PtSame
    <3>4. PtListOf(next2, free, F)
      BY <3>3, <1>2, PtListKept
    <3>5. Range(s) = {}
      BY <2>1, PtListOfNone
    <3>6. QED
      BY <3>1, <3>2, <3>4, <3>5
  <2>2. CASE s # <<>>
    <3>1. PtFollows(next2, s, free)
      <4> SUFFICES ASSUME NEW k \in 1 .. Len(s)
                   PROVE  next2[s[k]] = IF k < Len(s) THEN s[k + 1] ELSE free
        BY DEF PtFollows
      <4>1. s[k] \in PtNode /\ (s[k] = tail[t] <=> k = Len(s)) /\ f # NULL
        BY <2>2, <1>2, <1>3
      <4>2. k < Len(s) <=> k # Len(s)
        BY <1>3
      <4>3. next[s[k]] = IF k < Len(s) THEN s[k + 1] ELSE NULL
        BY <1>2 DEF PtListOf
      <4>4. QED
        BY <4>1, <4>2, <4>3, <1>1
    <3>2. PtSame(next, next2, Range(F)) /\ Range(s) \cap Range(F) = {}
      BY <1>1, <1>5, <1>6
    <3>3. QueueOf(PtNode, s)
      BY <1>2 DEF PtListOf
    <3>4. PtListOf(next2, s[1], j)
      BY <2>2, <3>1, <3>2, <3>3, <1>1, <1>2, PtListJoined
    <3>5. Range(j) = Range(s) \cup Range(F)
      <4>1. j = s \o F /\ PtListOf(next, free, F) /\ Range(s) \cap Range(F) = {}
        BY <3>2, <1>1, <1>2
      <4>2. \A m : m \in Range(j) <=> m \in Range(s) \/ m \in Range(F)
        BY <3>3, <4>1, PtJoinedRange
      <4>3. QED
        BY <4>2
    <3>6. free2 = s[1]
      BY <2>2, <1>1, <1>3
    <3>7. QED
      BY <3>4, <3>5, <3>6
  <2>3. QED
    BY <2>1, <2>2
<1>8. \A u \in K \ {t} : Range(L2[u]) = IF u = -1 THEN Range(L[u]) \cup Range(s) ELSE Range(L[u])
  BY <1>1, <1>7
<1>9. \A u \in K \ {t} : PtListOf(next2, PtHeadOf(free2, head2, u), L2[u])
  <2> TAKE u \in K \ {t}
  <2>1. CASE u = -1
    BY <2>1, <1>1, <1>7 DEF PtHeadOf
  <2>2. CASE u # -1
    <3>1. PtListOf(next2, head[u], L[u])
      BY <2>2, <1>6, PtListsKeep
    <3>2. QED
      BY <2>2, <3>1 DEF PtHeadOf
  <2>3. QED
    BY <2>1, <2>2
<1>10. \A u \in (K \ {t}) \ {-1} : tail2[u] = PtLastOf(L2[u])
  BY DEF PtListsAre
<1>11. \A m \in PtNode : \E u \in K \ {t} : m \in Range(L2[u])
  <2> TAKE m \in PtNode
  <2>1. PICK u \in K : m \in Range(L[u])
    BY DEF PtListsAre
  <2>2. CASE u = t
    <3>1. m \in Range(L2[-1])
      BY <2>1, <2>2, <1>1, <1>8
    <3>2. QED
      BY <3>1
  <2>3. CASE u # t
    <3>1. m \in Range(L2[u])
      BY <2>1, <2>3, <1>8
    <3>2. QED
      BY <2>3, <3>1
  <2>4. QED
    BY <2>2, <2>3
<1>12. \A u, v \in K \ {t} : u # v => Range(L2[u]) \cap Range(L2[v]) = {}
  <2>1. \A u, v \in K : u # v => Range(L[u]) \cap Range(L[v]) = {}
    BY DEF PtListsAre
  <2>2. QED
    BY <2>1, <1>5, <1>8
<1>13. PtListsAre(next2, free2, head2, tail2, K \ {t}, L2)
  BY <1>9, <1>10, <1>11, <1>12 DEF PtListsAre
<1>14. QED
  BY <1>1, <1>3, <1>4, <1>13

\* A port without nodes is opened.
LEMMA PtListsOpen ==
  ASSUME NEW next, NEW free, NEW head, NEW tail, NEW K, NEW L,
         NEW head2, NEW tail2, NEW L2, NEW t, t \notin K, t # -1, -1 \in K,
         PtListsAre(next, free, head, tail, K, L),
         head2[t] = NULL, tail2[t] = NULL, L2[t] = <<>>,
         \A u \in K \ {-1} : head2[u] = head[u] /\ tail2[u] = tail[u],
         \A u \in K : L2[u] = L[u]
  PROVE  PtListsAre(next, free, head2, tail2, K \cup {t}, L2)
<1>1. PtListOf(next, NULL, <<>>) /\ Range(<<>>) = {}
  BY PtListOfNone
<1>2. \A u \in K \cup {t} : PtListOf(next, PtHeadOf(free, head2, u), L2[u])
  BY <1>1 DEF PtListsAre, PtHeadOf
<1>3. \A u \in (K \cup {t}) \ {-1} : tail2[u] = PtLastOf(L2[u])
  BY DEF PtListsAre, PtLastOf
<1>4. \A m \in PtNode : \E u \in K \cup {t} : m \in Range(L2[u])
  <2> TAKE m \in PtNode
  <2>1. PICK u \in K : m \in Range(L[u])
    BY DEF PtListsAre
  <2>2. QED
    BY <2>1
<1>5. \A u, v \in K \cup {t} : u # v => Range(L2[u]) \cap Range(L2[v]) = {}
  <2>1. \A u, v \in K : u # v => Range(L[u]) \cap Range(L[v]) = {}
    BY DEF PtListsAre
  <2>2. Range(L2[t]) = {}
    BY <1>1
  <2>3. QED
    BY <2>1, <2>2
<1>6. QED
  BY <1>2, <1>3, <1>4, <1>5 DEF PtListsAre

-----------------------------------------------------------------------------
(* Ports: the inductive invariant.                                         *)

PtOps == {"idle", "send", "recv", "reset", "delete"}

PtCallOf == [op : PtOps, port : Port, seq : Nat]

PtTypes ==
    /\ ptstate \in [Port -> {"PT_FREE", "PT_LIMBO", "PT_ALLOC"}]
    /\ ptseq \in [Port -> 0 .. MaxPtSeq]
    /\ ptmaxcnt \in [Port -> Nat]
    /\ ptssem \in [Port -> {NoSem} \cup SemOf(PtProc)]
    /\ ptrsem \in [Port -> {NoSem} \cup SemOf(PtProc)]
    /\ \A t \in Port : SemOK(ptssem[t]) /\ SemOK(ptrsem[t])
    /\ pthead \in [Port -> PtNode \cup {NULL}]
    /\ pttail \in [Port -> PtNode \cup {NULL}]
    /\ ptnext \in [PtNode -> PtNode \cup {NULL}]
    /\ ptmsg \in [PtNode -> Nat]
    /\ ptfree \in PtNode \cup {NULL}
    /\ ptnextid \in Port
    /\ ptsemsleft \in Nat
    /\ ptcall \in [PtProc -> PtCallOf]
    /\ busy \in PtProc \cup {Nobody}
    /\ ptpanic \in BOOLEAN

PtKeys == PtOpen \cup {-1}

\* Every node is on the free list or on that of an open port.
PtNodesShared == PtListsAre(ptnext, ptfree, pthead, pttail, PtKeys, PtLists)

\* The messages of an open port were sent in this life of it.
PtMessages == \A t \in PtOpen : \A n \in Range(PtLists[t]) : ptmsg[n] = ptseq[t]

\* Who is in op on this life of port t.
PtCallers(op, t) == {p \in PtProc : ptcall[p] = [op |-> op, port |-> t, seq |-> ptseq[t]]}

\* A call is on this life of an open port or on one that is over.
PtUser(c) ==
    c.op \in {"send", "recv"} =>
        c.seq < ptseq[c.port] \/ (c.seq = ptseq[c.port] /\ ptstate[c.port] = "PT_ALLOC")

\* What a reset or a deletion has done to its port so far.
PtClearing(c) ==
    c.op \in PtClears =>
        /\ ptstate[c.port] = "PT_LIMBO"
        /\ c.seq \in {0, 1} /\ ptseq[c.port] >= 1
        /\ c.op = "reset" =>
              /\ pthead[c.port] = NULL /\ pttail[c.port] = NULL
              /\ ptssem[c.port] \in {NoSem, SemCreated(ptmaxcnt[c.port])}
              /\ c.seq = 1 => ptrsem[c.port] \in {NoSem, SemCreated(0)}
        /\ c.op = "delete" =>
              /\ ptssem[c.port] = NoSem
              /\ c.seq = 1 => ptrsem[c.port] = NoSem

PtCallsOK ==
    /\ \A p \in PtProc : PtUser(ptcall[p]) /\ PtClearing(ptcall[p])
    /\ \A p \in PtProc : ptcall[p] = PtIdle \/ ptcall[p].op # "idle"
    /\ \A p, q \in PtProc :
          /\ ptcall[p].op \in PtClears /\ ptcall[q].op \in PtClears
          /\ ptcall[p].port = ptcall[q].port
          => p = q
    /\ \A t \in Port : ptstate[t] = "PT_FREE" => ptssem[t] = NoSem /\ ptrsem[t] = NoSem

\* The semaphores of a port promise its places and its messages.
PtPromises(cs, cr, ss, rs, n, max, panic) ==
    /\ ss = NoSem => cs = {} /\ n = 0
    /\ rs = NoSem => cr = {}
    /\ ss # NoSem => SoundFor(PtProc, cs, ss) /\ (panic \/ Promises(cs, ss) + n = max)
    /\ rs # NoSem => SoundFor(PtProc, cr, rs) /\ Promises(cr, rs) = n

PtPromised(t) ==
    PtPromises(PtCallers("send", t), PtCallers("recv", t), ptssem[t], ptrsem[t],
               Len(PtLists[t]), ptmaxcnt[t], ptpanic)

\* The entries of the semaphore table that the ports have.
PtUsed(sem) == {t \in Port : sem[t] # NoSem}

PtSemsCounted ==
    ptsemsleft + Cardinality(PtUsed(ptssem)) + Cardinality(PtUsed(ptrsem)) = PtSems

PtIInv ==
    /\ PtTypes
    /\ PtNodesShared
    /\ PtMessages
    /\ PtCallsOK
    /\ \A t \in PtOpen : PtPromised(t)
    /\ PtSemsCounted
    /\ PanicOnlyWhenOversold

-----------------------------------------------------------------------------
(* Ports: what the steps share.                                            *)

LEMMA PtKeyFacts ==
  /\ -1 \notin PtOpen /\ PtOpen \subseteq Port /\ PtKeys \ {-1} = PtOpen /\ -1 \in PtKeys
  /\ DOMAIN PtLists = PtKeys
BY PtFacts DEF PtOpen, PtKeys, PtLists

\* The lists that the links make.
LEMMA PtListsNext ==
  ASSUME NEW L2, L2 = [u \in PtKeys' |-> L2[u]],
         PtListsAre(ptnext', ptfree', pthead', pttail', PtKeys', L2)
  PROVE  PtLists' = L2 /\ PtNodesShared'
<1>1. ASSUME NEW u \in PtKeys'
      PROVE  PtLists'[u] = L2[u]
  <2>1. PICK w, f, s : w = ptnext' /\ f = PtHeadOf(ptfree', pthead', u) /\ s = L2[u]
    OBVIOUS
  <2>2. PtListOf(w, f, s)
    BY <2>1 DEF PtListsAre
  <2>3. PtLinked(w)[PtNodes][f] = s
    BY <2>2, PtListIs
  <2>4. PtLists'[u] = PtLinked(ptnext')[PtNodes][IF u = -1 THEN ptfree' ELSE pthead'[u]]
    BY DEF PtLists, PtChain, PtKeys
  <2>5. QED
    BY <2>1, <2>3, <2>4 DEF PtHeadOf
<1>2. PtLists' = [u \in PtKeys' |-> PtLists'[u]]
  BY DEF PtLists, PtKeys
<1>3. PtLists' = L2
  BY <1>1, <1>2
<1>4. QED
  BY <1>3 DEF PtNodesShared

\* A port whose callers, semaphores and messages stay the same.
LEMMA PtPromisedKept ==
  ASSUME NEW t, PtPromised(t),
         PtCallers("send", t)' = PtCallers("send", t), PtCallers("recv", t)' = PtCallers("recv", t),
         ptssem'[t] = ptssem[t], ptrsem'[t] = ptrsem[t], ptmaxcnt'[t] = ptmaxcnt[t],
         Len(PtLists'[t]) = Len(PtLists[t]), ptpanic => ptpanic'
  PROVE  PtPromised(t)'
BY DEF PtPromised, PtPromises

\* The callers when p begins or ends a call.
LEMMA PtCallersNext ==
  ASSUME ptcall \in [PtProc -> PtCallOf], NEW p \in PtProc, NEW c,
         ptcall' = [ptcall EXCEPT ![p] = c], NEW op, NEW t, ptseq'[t] = ptseq[t]
  PROVE  \A q : q \in PtCallers(op, t)' <=>
            (q \in PtCallers(op, t) /\ q # p) \/ (q = p /\ c = [op |-> op, port |-> t, seq |-> ptseq[t]])
<1>1. \A q \in PtProc : ptcall'[q] = IF q = p THEN c ELSE ptcall[q]
  OBVIOUS
<1>2. PtCallers(op, t)' = {q \in PtProc : ptcall'[q] = [op |-> op, port |-> t, seq |-> ptseq[t]]}
  BY DEF PtCallers
<1>3. PICK r : r = [op |-> op, port |-> t, seq |-> ptseq[t]]
  OBVIOUS
<1>4. PtCallers(op, t) = {q \in PtProc : ptcall[q] = r}
  BY <1>3 DEF PtCallers
<1>5. PtCallers(op, t)' = {q \in PtProc : ptcall'[q] = r}
  BY <1>2, <1>3
<1>6. \A q : q \in PtCallers(op, t)' <=> (q \in PtCallers(op, t) /\ q # p) \/ (q = p /\ c = r)
  BY <1>1, <1>4, <1>5
<1>7. QED
  BY <1>3, <1>6

\* Who is in no call.
LEMMA PtIdleFacts ==
  /\ PtIdle \in PtCallOf /\ PtIdle.op = "idle"
  /\ \A op \in {"send", "recv"} : \A t, n : PtIdle # [op |-> op, port |-> t, seq |-> n]
<1>1. 0 \in Port
  BY PtFacts
<1>2. PtIdle \in PtCallOf
  BY <1>1 DEF PtIdle, PtCallOf, PtOps
<1>3. PtIdle.op = "idle"
  BY DEF PtIdle
<1>4. \A op \in {"send", "recv"} : \A t, n : PtIdle # [op |-> op, port |-> t, seq |-> n]
  <2> TAKE op \in {"send", "recv"}
  <2> TAKE t, n
  <2>1. [op |-> op, port |-> t, seq |-> n].op # "idle"
    OBVIOUS
  <2>2. QED
    BY <2>1, <1>3
<1>5. QED
  BY <1>2, <1>3, <1>4

LEMMA PtCallerFacts ==
  ASSUME PtTypes, PtCallsOK, NEW p \in PtProc
  PROVE  /\ ptcall[p] \in PtCallOf /\ ptcall[p].port \in Port /\ ptcall[p].seq \in Nat
         /\ ptcall[p].op \in PtOps
         /\ \A op, t : p \in PtCallers(op, t) =>
               ptcall[p].op = op /\ ptcall[p].port = t /\ ptcall[p].seq = ptseq[t]
         /\ \A t : (ptcall[p].port = t /\ ptcall[p].seq = ptseq[t]) => p \in PtCallers(ptcall[p].op, t)
<1>1. PICK c \in PtCallOf : c = ptcall[p]
  BY DEF PtTypes
<1>2. PICK o, po, n : c = [op |-> o, port |-> po, seq |-> n] /\ o \in PtOps /\ po \in Port /\ n \in Nat
  BY DEF PtCallOf
<1>3. c.op = o /\ c.port = po /\ c.seq = n
  BY <1>2
<1>4. \A op, t : p \in PtCallers(op, t) <=> c = [op |-> op, port |-> t, seq |-> ptseq[t]]
  BY <1>1 DEF PtCallers
<1>5. \A op, t : p \in PtCallers(op, t) => c.op = op /\ c.port = t /\ c.seq = ptseq[t]
  BY <1>4
<1>6. \A t : (c.port = t /\ c.seq = ptseq[t]) => p \in PtCallers(c.op, t)
  BY <1>2, <1>3, <1>4
<1>7. QED
  BY <1>1, <1>2, <1>3, <1>5, <1>6

\* The calls of the others, when the port of an open port changes.
LEMMA PtCallsFrame ==
  ASSUME PtTypes, PtCallsOK, NEW p \in PtProc, NEW c \in PtCallOf,
         ptcall' = [ptcall EXCEPT ![p] = c],
         UNCHANGED <<ptstate, ptseq, ptmaxcnt>>,
         \A t \in Port : ptstate[t] # "PT_ALLOC" =>
            /\ pthead'[t] = pthead[t] /\ pttail'[t] = pttail[t]
            /\ ptssem'[t] = ptssem[t] /\ ptrsem'[t] = ptrsem[t],
         PtUser(c), c.op \notin PtClears, c = PtIdle \/ c.op # "idle"
  PROVE  PtCallsOK'
<1>1. ptcall \in [PtProc -> PtCallOf] /\ \A q \in PtProc : ptcall'[q] = IF q = p THEN c ELSE ptcall[q]
  BY DEF PtTypes
<1>2. \A q \in PtProc : ptcall[q].port \in Port
  BY PtCallerFacts
<1>3. \A d : PtUser(d)' <=> PtUser(d)
  BY DEF PtUser
<1>4. ASSUME NEW q \in PtProc
      PROVE  PtUser(ptcall[q])' /\ PtClearing(ptcall[q])'
  <2>1. PICK d : d = ptcall'[q]
    OBVIOUS
  <2>2. CASE q = p
    <3>1. d = c
      BY <2>1, <2>2, <1>1
    <3>2. PtClearing(c)'
      BY DEF PtClearing
    <3>3. PtUser(d)' /\ PtClearing(d)'
      BY <3>1, <3>2, <1>3
    <3>4. QED
      BY <2>1, <3>3 DEF PtUser, PtClearing
  <2>3. CASE q # p
    <3>1. d = ptcall[q]
      BY <2>1, <2>3, <1>1
    <3>2. d.port \in Port /\ PtUser(d) /\ PtClearing(d)
      BY <3>1, <1>2 DEF PtCallsOK
    <3>3. PtClearing(d)'
      BY <3>2 DEF PtClearing
    <3>4. PtUser(d)'
      BY <3>2, <1>3
    <3>5. QED
      BY <2>1, <3>3, <3>4 DEF PtUser, PtClearing
  <2>4. QED
    BY <2>2, <2>3
<1>5. \A q \in PtProc : ptcall'[q] = PtIdle \/ ptcall'[q].op # "idle"
  BY <1>1 DEF PtCallsOK
<1>6. \A q, r \in PtProc :
         /\ ptcall'[q].op \in PtClears /\ ptcall'[r].op \in PtClears
         /\ ptcall'[q].port = ptcall'[r].port
         => q = r
  BY <1>1 DEF PtCallsOK
<1>7. \A t \in Port : ptstate'[t] = "PT_FREE" => ptssem'[t] = NoSem /\ ptrsem'[t] = NoSem
  BY DEF PtCallsOK
<1>8. QED
  BY <1>4, <1>5, <1>6, <1>7 DEF PtCallsOK

\* The same semaphores are used.
LEMMA PtSemsFrame ==
  ASSUME PtSemsCounted, ptsemsleft' = ptsemsleft,
         \A t \in Port : (ptssem'[t] = NoSem <=> ptssem[t] = NoSem)
                         /\ (ptrsem'[t] = NoSem <=> ptrsem[t] = NoSem)
  PROVE  PtSemsCounted'
<1>1. PtUsed(ptssem)' = PtUsed(ptssem) /\ PtUsed(ptrsem)' = PtUsed(ptrsem)
  BY DEF PtUsed
<1>2. QED
  BY <1>1 DEF PtSemsCounted

\* A semaphore that is used is not none, also after signal.
LEMMA PtSemFacts ==
  /\ NoSem.used = FALSE /\ Signalled(NoSem) = NoSem /\ SemOK(NoSem) /\ \A p : ~Waits(NoSem, p)
  /\ \A P : \A s \in SemOf(P) : s # NoSem /\ s.used = TRUE
<1>1. NoSem.used = FALSE /\ NoSem.count = 0 /\ NoSem.queue = <<>>
  BY DEF NoSem
<1>2. ~Releases(NoSem)
  BY <1>1 DEF Releases
<1>3. Signalled(NoSem) = NoSem
  BY <1>1, <1>2 DEF Signalled, NoSem
<1>4. SemOK(NoSem)
  BY DEF SemOK, NoSem
<1>5. \A p : ~Waits(NoSem, p)
  BY DEF Waits, NoSem
<1>6. ASSUME NEW P, NEW s \in SemOf(P)
      PROVE  s # NoSem /\ s.used = TRUE
  BY <1>1 DEF SemOf
<1>7. QED
  BY <1>1, <1>3, <1>4, <1>5, <1>6

\* There are finitely many places.
LEMMA PtPlacesFinite ==
  ASSUME PtTypes
  PROVE  /\ IsFiniteSet(PtPlaces)
         /\ \A x : x \in PtPlaces <=> \E t \in PtOpen : \E k \in 1 .. ptmaxcnt[t] : x = <<t, k>>
<1> DEFINE Of(t) == {t} \X (1 .. ptmaxcnt[t])
           S == {Of(t) : t \in PtOpen}
           f == [t \in PtOpen |-> Of(t)]
<1>1. IsFiniteSet(PtOpen)
  <2>1. IsFiniteSet(Port)
    BY PtFacts, FS_Interval
  <2>2. PtOpen \in SUBSET Port
    BY PtKeyFacts
  <2>3. QED
    BY <2>1, <2>2, FS_Subset
<1>2. \A t \in PtOpen : ptmaxcnt[t] \in Nat
  BY PtKeyFacts DEF PtTypes
<1>3. \A T \in S : IsFiniteSet(T)
  <2> SUFFICES ASSUME NEW t \in PtOpen PROVE IsFiniteSet(Of(t))
    OBVIOUS
  <2>1. IsFiniteSet({t})
    BY FS_Singleton
  <2>2. IsFiniteSet(1 .. ptmaxcnt[t])
    BY <1>2, FS_Interval
  <2>3. QED
    BY <2>1, <2>2, FS_Product
<1>4. IsFiniteSet(S)
  <2>1. f \in Surjection(PtOpen, S)
    BY DEF Surjection
  <2>2. QED
    BY <2>1, <1>1, FS_Surjection
<1>5. PtPlaces = UNION S
  BY DEF PtPlaces
<1>6. IsFiniteSet(PtPlaces)
  <2> HIDE DEF S
  <2>1. QED
    BY <1>3, <1>4, <1>5, FS_UNION
<1>7. \A x : x \in PtPlaces <=> \E t \in PtOpen : \E k \in 1 .. ptmaxcnt[t] : x = <<t, k>>
  BY <1>5
<1>8. QED
  BY <1>6, <1>7

\* If all nodes are taken and no port has more than it promises, and one less, then
\* more is promised than there is.
LEMMA PtOversold ==
  ASSUME PtTypes, PtNodesShared, ptfree = NULL,
         \A u \in PtOpen : Len(PtLists[u]) <= ptmaxcnt[u],
         NEW t \in PtOpen, Len(PtLists[t]) < ptmaxcnt[t]
  PROVE  Cardinality(PtPlaces) > PtNodes
<1> DEFINE M == {x \in PtPlaces : x[2] <= Len(PtLists[x[1]])}
           f == [x \in M |-> PtLists[x[1]][x[2]]]
<1>1. /\ IsFiniteSet(PtPlaces)
      /\ \A x : x \in PtPlaces <=> \E u \in PtOpen : \E k \in 1 .. ptmaxcnt[u] : x = <<u, k>>
  BY PtPlacesFinite
<1>2. \A u \in PtOpen : ptmaxcnt[u] \in Nat
  BY PtKeyFacts DEF PtTypes
<1>3. \A u \in PtOpen : /\ Len(PtLists[u]) \in Nat
                        /\ \A k \in 1 .. Len(PtLists[u]) : PtLists[u][k] \in Range(PtLists[u])
                        /\ Range(PtLists[u]) \subseteq PtNode
                        /\ \A n \in Range(PtLists[u]) : \E k \in 1 .. Len(PtLists[u]) : PtLists[u][k] = n
                        /\ \A j, k \in 1 .. Len(PtLists[u]) : j # k => PtLists[u][j] # PtLists[u][k]
  <2> TAKE u \in PtOpen
  <2>1. u \in PtKeys
    BY DEF PtKeys
  <2>2. PICK g, s : g = PtHeadOf(ptfree, pthead, u) /\ s = PtLists[u]
    OBVIOUS
  <2>3. PtListOf(ptnext, g, s)
    BY <2>1, <2>2 DEF PtNodesShared, PtListsAre
  <2>4. QueueOf(PtNode, s)
    BY <2>3 DEF PtListOf
  <2>5. /\ \A k \in 1 .. Len(s) : s[k] \in PtNode
        /\ \A j, k \in 1 .. Len(s) : j # k => s[j] # s[k]
        /\ Range(s) = {s[k] : k \in 1 .. Len(s)}
        /\ Len(s) \in Nat
    BY <2>4, PtListEntries
  <2>6. /\ Range(s) \subseteq PtNode
        /\ \A k \in 1 .. Len(s) : s[k] \in Range(s)
        /\ \A n \in Range(s) : \E k \in 1 .. Len(s) : s[k] = n
    BY <2>5
  <2>7. PtLists[u] = s
    BY <2>2
  <2>8. QED
    BY <2>5, <2>6, <2>7
<1>4. \A n \in PtNode : \E u \in PtOpen : n \in Range(PtLists[u])
  <2> TAKE n \in PtNode
  <2>1. PICK u \in PtKeys : n \in Range(PtLists[u])
    BY DEF PtNodesShared, PtListsAre
  <2>2. u # -1
    <3> SUFFICES ASSUME u = -1 PROVE FALSE
      OBVIOUS
    <3>1. PICK s : s = PtLists[u]
      OBVIOUS
    <3>2. PtListOf(ptnext, ptfree, s)
      BY <3>1 DEF PtNodesShared, PtListsAre, PtHeadOf
    <3>3. s = <<>>
      BY <3>2, PtListEnds
    <3>4. Range(s) = {}
      BY <3>3, PtListOfNone
    <3>5. QED
      BY <2>1, <3>1, <3>4
  <2>3. QED
    BY <2>1, <2>2, PtKeyFacts
<1>5. \A u, v \in PtOpen : u # v => Range(PtLists[u]) \cap Range(PtLists[v]) = {}
  BY DEF PtNodesShared, PtListsAre, PtKeys
<1>6. \A x : x \in M <=> \E u \in PtOpen : \E k \in 1 .. Len(PtLists[u]) : x = <<u, k>>
  <2>1. \A u \in PtOpen : \A k \in 1 .. Len(PtLists[u]) : k \in 1 .. ptmaxcnt[u]
    BY <1>2, <1>3
  <2>2. \A u \in PtOpen : \A k \in 1 .. ptmaxcnt[u] :
           k <= Len(PtLists[u]) <=> k \in 1 .. Len(PtLists[u])
    BY <1>2, <1>3
  <2>3. \A u, k : <<u, k>>[1] = u /\ <<u, k>>[2] = k
    OBVIOUS
  <2>4. ASSUME NEW x \in M
        PROVE  \E u \in PtOpen : \E k \in 1 .. Len(PtLists[u]) : x = <<u, k>>
    <3>1. PICK u \in PtOpen : \E k \in 1 .. ptmaxcnt[u] : x = <<u, k>>
      BY <1>1
    <3>2. PICK k \in 1 .. ptmaxcnt[u] : x = <<u, k>>
      BY <3>1
    <3>3. k <= Len(PtLists[u])
      BY <3>2
    <3>4. QED
      BY <3>2, <3>3, <2>2
  <2>5. ASSUME NEW u \in PtOpen, NEW k \in 1 .. Len(PtLists[u])
        PROVE  <<u, k>> \in M
    <3>1. k \in 1 .. ptmaxcnt[u] /\ k <= Len(PtLists[u])
      BY <2>1, <2>2
    <3>2. QED
      BY <3>1, <1>1
  <2>6. QED
    BY <2>4, <2>5
<1>7. \A x \in M : f[x] = PtLists[x[1]][x[2]]
  OBVIOUS
<1>8. \A u \in PtOpen : \A k \in 1 .. Len(PtLists[u]) : <<u, k>> \in M /\ f[<<u, k>>] = PtLists[u][k]
  <2>1. \A u, k : <<u, k>>[1] = u /\ <<u, k>>[2] = k
    OBVIOUS
  <2>2. QED
    BY <1>6, <1>7, <2>1
<1>9. DOMAIN f = M /\ f = [x \in M |-> f[x]]
  OBVIOUS
<1> HIDE DEF M, f
<1>10. f \in [M -> PtNode]
  <2>1. \A x \in M : f[x] \in PtNode
    BY <1>3, <1>6, <1>8
  <2>2. QED
    BY <1>9, <2>1
<1>11. \A x, y \in M : f[x] = f[y] => x = y
  <2> SUFFICES ASSUME NEW x \in M, NEW y \in M, f[x] = f[y] PROVE x = y
    OBVIOUS
  <2>1. PICK u \in PtOpen : \E k \in 1 .. Len(PtLists[u]) : x = <<u, k>>
    BY <1>6
  <2>2. PICK k \in 1 .. Len(PtLists[u]) : x = <<u, k>>
    BY <2>1
  <2>3. PICK v \in PtOpen : \E i \in 1 .. Len(PtLists[v]) : y = <<v, i>>
    BY <1>6
  <2>4. PICK j \in 1 .. Len(PtLists[v]) : y = <<v, j>>
    BY <2>3
  <2>5. PtLists[u][k] = PtLists[v][j]
    BY <2>2, <2>4, <1>8
  <2>6. u = v
    <3>1. PtLists[u][k] \in Range(PtLists[u]) /\ PtLists[v][j] \in Range(PtLists[v])
      BY <1>3
    <3>2. u # v => Range(PtLists[u]) \cap Range(PtLists[v]) = {}
      BY <1>5
    <3>3. QED
      BY <2>5, <3>1, <3>2
  <2>7. k = j
    BY <2>5, <2>6, <1>3
  <2>8. QED
    BY <2>2, <2>4, <2>6, <2>7
<1>12. \A n \in PtNode : \E x \in M : f[x] = n
  <2> TAKE n \in PtNode
  <2>1. PICK u \in PtOpen : n \in Range(PtLists[u])
    BY <1>4
  <2>2. PICK k \in 1 .. Len(PtLists[u]) : PtLists[u][k] = n
    BY <2>1, <1>3
  <2>3. QED
    BY <2>2, <1>8
<1>13. IsFiniteSet(M) /\ M \in SUBSET PtPlaces
  <2>1. M \in SUBSET PtPlaces
    BY DEF M
  <2>2. QED
    BY <2>1, <1>1, FS_Subset
<1>14. Cardinality(M) = PtNodes
  <2>1. f \in Bijection(M, PtNode)
    BY <1>10, <1>11, <1>12 DEF Bijection, Injection, Surjection, IsInjective
  <2>2. ExistsBijection(M, PtNode)
    BY <2>1 DEF ExistsBijection
  <2>3. Cardinality(PtNode) = Cardinality(M)
    BY <2>2, <1>13, FS_Bijection
  <2>4. QED
    BY <2>3, PtFacts, FS_Interval
<1>15. PtPlaces # M
  <2>1. PICK k : k = Len(PtLists[t]) + 1
    OBVIOUS
  <2>2. k \in 1 .. ptmaxcnt[t] /\ k \notin 1 .. Len(PtLists[t])
    BY <2>1, <1>2, <1>3
  <2>3. <<t, k>> \in PtPlaces
    BY <2>2, <1>1
  <2>4. <<t, k>> \notin M
    BY <2>2, <1>6
  <2>5. QED
    BY <2>3, <2>4
<1>16. Cardinality(M) <= Cardinality(PtPlaces) /\ Cardinality(PtPlaces) # Cardinality(M)
  BY <1>1, <1>13, <1>15, FS_Subset
<1>17. Cardinality(PtPlaces) \in Nat
  BY <1>1, FS_CardinalityType
<1>18. QED
  BY <1>14, <1>16, <1>17, PtFacts

-----------------------------------------------------------------------------
(* Ports: the steps of ptsend and ptrecv.                                  *)

\* p begins (c) or ends a call on port t, and the semaphores of t get new values.
PtPortNext(p, t, c, ss, rs) ==
    /\ UNCHANGED <<ptstate, ptseq, ptmaxcnt, ptnextid, ptsemsleft>>
    /\ ptcall' = [ptcall EXCEPT ![p] = c]
    /\ c = PtIdle \/ \E op \in {"send", "recv"} : c = [op |-> op, port |-> t, seq |-> ptseq[t]]
    /\ ptcall[p] = PtIdle \/ ptcall[p].port = t
    /\ busy' \in PtProc \cup {Nobody}
    /\ ptssem' = [ptssem EXCEPT ![t] = ss]
    /\ ptrsem' = [ptrsem EXCEPT ![t] = rs]
    /\ ss = NoSem <=> ptssem[t] = NoSem
    /\ rs = NoSem <=> ptrsem[t] = NoSem

\* Only the list of t and the free list change.
PtNodesNext(t, L2) ==
    /\ pthead' \in [Port -> PtNode \cup {NULL}]
    /\ pttail' \in [Port -> PtNode \cup {NULL}]
    /\ ptnext' \in [PtNode -> PtNode \cup {NULL}]
    /\ ptfree' \in PtNode \cup {NULL}
    /\ ptmsg' \in [PtNode -> Nat]
    /\ \A u \in Port \ {t} : pthead'[u] = pthead[u] /\ pttail'[u] = pttail[u]
    /\ L2 = [u \in PtKeys |-> L2[u]]
    /\ PtListsAre(ptnext', ptfree', pthead', pttail', PtKeys, L2)
    /\ \A u \in PtOpen \ {t} : Len(L2[u]) = Len(PtLists[u])
    /\ \A u \in PtOpen : \A n \in Range(L2[u]) : ptmsg'[n] = ptseq[u]

\* Port t promises what it should.
PtPromisedNext(t, ss, rs, n) ==
    /\ PtPromises(PtCallers("send", t)', PtCallers("recv", t)', ss, rs, n, ptmaxcnt[t], ptpanic')
    /\ ptpanic' \in BOOLEAN
    /\ ptpanic => ptpanic'
    /\ ptpanic' => Cardinality(PtPlaces) > PtNodes

\* A step on one open port.
LEMMA PtPortOK ==
  ASSUME PtIInv, NEW p \in PtProc, NEW t \in PtOpen, NEW c, NEW ss, NEW rs, NEW L2,
         PtPortNext(p, t, c, ss, rs), PtNodesNext(t, L2), PtPromisedNext(t, ss, rs, Len(L2[t]))
  PROVE  PtIInv'
<1>1. /\ PtTypes /\ PtNodesShared /\ PtMessages /\ PtCallsOK /\ PtSemsCounted
      /\ \A u \in PtOpen : PtPromised(u)
  BY DEF PtIInv
<1>2. t \in Port /\ ptstate[t] = "PT_ALLOC" /\ ptseq[t] \in Nat /\ t # -1
  BY <1>1, PtKeyFacts, PtFacts, PortsAssumption DEF PtOpen, PtTypes
<1>3. /\ UNCHANGED <<ptstate, ptseq, ptmaxcnt, ptnextid, ptsemsleft>>
      /\ ptcall' = [ptcall EXCEPT ![p] = c]
      /\ ptssem' = [ptssem EXCEPT ![t] = ss]
      /\ ptrsem' = [ptrsem EXCEPT ![t] = rs]
      /\ busy' \in PtProc \cup {Nobody}
  BY DEF PtPortNext
<1>4. /\ c \in PtCallOf /\ PtUser(c) /\ c.op \notin PtClears
      /\ c = PtIdle \/ c.op # "idle"
      /\ c = PtIdle \/ c.port = t
  <2>1. CASE c = PtIdle
    BY <2>1, PtIdleFacts DEF PtUser, PtClears
  <2>2. CASE c # PtIdle
    <3>1. PICK op \in {"send", "recv"} : c = [op |-> op, port |-> t, seq |-> ptseq[t]]
      BY <2>2 DEF PtPortNext
    <3>2. c.op = op /\ c.port = t /\ c.seq = ptseq[t]
      BY <3>1
    <3>3. c \in PtCallOf
      BY <3>1, <1>2 DEF PtCallOf, PtOps
    <3>4. PtUser(c)
      BY <3>2, <1>2 DEF PtUser
    <3>5. QED
      BY <3>2, <3>3, <3>4 DEF PtClears
  <2>3. QED
    BY <2>1, <2>2
<1>5. /\ ss \in {NoSem} \cup SemOf(PtProc) /\ SemOK(ss)
      /\ rs \in {NoSem} \cup SemOf(PtProc) /\ SemOK(rs)
  <2>1. /\ ss # NoSem => ss \in SemOf(PtProc) /\ SemOK(ss)
        /\ rs # NoSem => rs \in SemOf(PtProc) /\ SemOK(rs)
    BY DEF PtPromisedNext, PtPromises, SoundFor
  <2>2. QED
    BY <2>1, PtSemFacts
<1>6. PtOpen' = PtOpen /\ PtKeys' = PtKeys
  BY <1>3 DEF PtOpen, PtKeys
<1>7. PtLists' = L2 /\ PtNodesShared'
  <2>1. L2 = [u \in PtKeys' |-> L2[u]] /\ PtListsAre(ptnext', ptfree', pthead', pttail', PtKeys', L2)
    BY <1>6 DEF PtNodesNext
  <2>2. QED
    BY <2>1, PtListsNext
<1>8. PtTypes'
  <2>1. /\ ptssem' \in [Port -> {NoSem} \cup SemOf(PtProc)]
        /\ ptrsem' \in [Port -> {NoSem} \cup SemOf(PtProc)]
    BY <1>1, <1>3, <1>5 DEF PtTypes
  <2>2. \A u \in Port : SemOK(ptssem'[u]) /\ SemOK(ptrsem'[u])
    BY <1>1, <1>3, <1>5 DEF PtTypes
  <2>3. ptcall' \in [PtProc -> PtCallOf]
    BY <1>1, <1>3, <1>4 DEF PtTypes
  <2>4. /\ pthead' \in [Port -> PtNode \cup {NULL}]
        /\ pttail' \in [Port -> PtNode \cup {NULL}]
        /\ ptnext' \in [PtNode -> PtNode \cup {NULL}]
        /\ ptfree' \in PtNode \cup {NULL}
        /\ ptmsg' \in [PtNode -> Nat]
    BY DEF PtNodesNext
  <2>5. ptpanic' \in BOOLEAN
    BY DEF PtPromisedNext
  <2>6. QED
    BY <1>1, <1>3, <2>1, <2>2, <2>3, <2>4, <2>5 DEF PtTypes
<1>9. PtMessages'
  BY <1>3, <1>6, <1>7 DEF PtMessages, PtNodesNext
<1>10. PtCallsOK'
  <2>1. \A u \in Port : ptstate[u] # "PT_ALLOC" =>
            /\ pthead'[u] = pthead[u] /\ pttail'[u] = pttail[u]
            /\ ptssem'[u] = ptssem[u] /\ ptrsem'[u] = ptrsem[u]
    BY <1>1, <1>2, <1>3 DEF PtNodesNext, PtTypes
  <2>2. UNCHANGED <<ptstate, ptseq, ptmaxcnt>> /\ c \in PtCallOf
    BY <1>3, <1>4
  <2>3. QED
    BY <2>1, <2>2, <1>1, <1>3, <1>4, PtCallsFrame
<1>11. PtPromised(t)'
  <2>1. /\ ptssem'[t] = ss /\ ptrsem'[t] = rs /\ ptmaxcnt'[t] = ptmaxcnt[t]
        /\ PtLists'[t] = L2[t]
    BY <1>1, <1>2, <1>3, <1>7 DEF PtTypes
  <2>2. QED
    BY <2>1 DEF PtPromised, PtPromisedNext
<1>12. \A u \in PtOpen \ {t} : PtPromised(u)'
  <2> TAKE u \in PtOpen \ {t}
  <2>1. ASSUME NEW op \in {"send", "recv"}
        PROVE  PtCallers(op, u)' = PtCallers(op, u)
    <3>1. ptcall \in [PtProc -> PtCallOf] /\ ptseq'[u] = ptseq[u]
      BY <1>1, <1>3 DEF PtTypes
    <3>2. \A q : q \in PtCallers(op, u)' <=>
            (q \in PtCallers(op, u) /\ q # p) \/ (q = p /\ c = [op |-> op, port |-> u, seq |-> ptseq[u]])
      BY <3>1, <1>3, PtCallersNext
    <3>3. c # [op |-> op, port |-> u, seq |-> ptseq[u]]
      <4>1. [op |-> op, port |-> u, seq |-> ptseq[u]].port # t
        OBVIOUS
      <4>2. QED
        BY <4>1, <1>4, PtIdleFacts
    <3>4. p \notin PtCallers(op, u)
      <4>1. p \in PtCallers(op, u) => ptcall[p].op = op /\ ptcall[p].port = u
        BY <1>1, PtCallerFacts
      <4>2. QED
        BY <4>1, PtIdleFacts DEF PtPortNext
    <3>5. QED
      BY <3>2, <3>3, <3>4
  <2>2. PtCallers("send", u)' = PtCallers("send", u) /\ PtCallers("recv", u)' = PtCallers("recv", u)
    BY <2>1
  <2>3. u \in Port /\ u # t
    BY PtKeyFacts
  <2>4. ptssem'[u] = ptssem[u] /\ ptrsem'[u] = ptrsem[u] /\ ptmaxcnt'[u] = ptmaxcnt[u]
    BY <2>3, <1>1, <1>3 DEF PtTypes
  <2>5. Len(PtLists'[u]) = Len(PtLists[u])
    BY <1>7 DEF PtNodesNext
  <2>6. PtPromised(u) /\ (ptpanic => ptpanic')
    BY <1>1 DEF PtPromisedNext
  <2>7. QED
    BY <2>2, <2>4, <2>5, <2>6, PtPromisedKept
<1>13. PtSemsCounted'
  <2>1. \A u \in Port : (ptssem'[u] = NoSem <=> ptssem[u] = NoSem)
                        /\ (ptrsem'[u] = NoSem <=> ptrsem[u] = NoSem)
    BY <1>1, <1>3 DEF PtPortNext, PtTypes
  <2>2. QED
    BY <2>1, <1>1, <1>3, PtSemsFrame
<1>14. PanicOnlyWhenOversold'
  <2>1. PtPlaces' = PtPlaces
    BY <1>3, <1>6 DEF PtPlaces
  <2>2. QED
    BY <2>1 DEF PanicOnlyWhenOversold, PtPromisedNext
<1>15. \A u \in PtOpen' : PtPromised(u)'
  BY <1>6, <1>11, <1>12
<1>16. QED
  BY <1>7, <1>8, <1>9, <1>10, <1>13, <1>14, <1>15 DEF PtIInv

\* Nothing happens to the nodes.
LEMMA PtNodesSame ==
  ASSUME PtTypes, PtNodesShared, PtMessages, UNCHANGED ptNodeVars, NEW t
  PROVE  PtNodesNext(t, PtLists)
<1>1. PtLists = [u \in PtKeys |-> PtLists[u]]
  BY DEF PtLists, PtKeys
<1>2. QED
  BY <1>1 DEF PtTypes, PtNodesShared, PtMessages, PtNodesNext, ptNodeVars

\* The part of a semaphore that is used.
LEMMA PtUsedSems ==
  ASSUME PtIInv, NEW t \in PtOpen
  PROVE  /\ ptssem[t].used => /\ ptssem[t] # NoSem /\ ptssem[t] \in SemOf(PtProc)
                              /\ SoundFor(PtProc, PtCallers("send", t), ptssem[t])
                              /\ ptpanic \/ Promises(PtCallers("send", t), ptssem[t])
                                              + Len(PtLists[t]) = ptmaxcnt[t]
         /\ ptrsem[t].used => /\ ptrsem[t] # NoSem /\ ptrsem[t] \in SemOf(PtProc)
                              /\ SoundFor(PtProc, PtCallers("recv", t), ptrsem[t])
                              /\ Promises(PtCallers("recv", t), ptrsem[t]) = Len(PtLists[t])
         /\ ptssem[t] # NoSem => ptssem[t].used
         /\ ptrsem[t] # NoSem => ptrsem[t].used
         /\ Len(PtLists[t]) \in Nat /\ ptmaxcnt[t] \in Nat
<1>1. PtTypes /\ PtPromised(t) /\ t \in Port /\ PtNodesShared /\ t \in PtKeys
  BY PtKeyFacts DEF PtIInv, PtKeys
<1>2. /\ ptssem[t] \in {NoSem} \cup SemOf(PtProc)
      /\ ptrsem[t] \in {NoSem} \cup SemOf(PtProc)
      /\ ptmaxcnt[t] \in Nat
  BY <1>1 DEF PtTypes
<1>3. \A s \in {NoSem} \cup SemOf(PtProc) : /\ s.used => s # NoSem /\ s \in SemOf(PtProc)
                                            /\ s # NoSem => s.used
  BY PtSemFacts
<1>4. Len(PtLists[t]) \in Nat
  BY <1>1, PtListsApart DEF PtNodesShared
<1>5. QED
  BY <1>1, <1>2, <1>3, <1>4 DEF PtPromised, PtPromises

\* Those who have called, when p is in no call any more.
LEMMA PtCallersLeft ==
  ASSUME PtIInv, NEW p \in PtProc, NEW t, PtReturn(p), ptseq' = ptseq
  PROVE  /\ PtCallers("send", t)' = PtCallers("send", t) \ {p}
         /\ PtCallers("recv", t)' = PtCallers("recv", t) \ {p}
<1>1. ptcall \in [PtProc -> PtCallOf] /\ ptcall' = [ptcall EXCEPT ![p] = PtIdle] /\ ptseq'[t] = ptseq[t]
  BY DEF PtIInv, PtTypes, PtReturn
<1>2. ASSUME NEW op \in {"send", "recv"}
      PROVE  PtCallers(op, t)' = PtCallers(op, t) \ {p}
  <2>1. \A q : q \in PtCallers(op, t)' <=>
            (q \in PtCallers(op, t) /\ q # p) \/ (q = p /\ PtIdle = [op |-> op, port |-> t, seq |-> ptseq[t]])
    BY <1>1, PtCallersNext
  <2>2. PtIdle # [op |-> op, port |-> t, seq |-> ptseq[t]]
    BY PtIdleFacts
  <2>3. QED
    BY <2>1, <2>2
<1>3. QED
  BY <1>2

\* No port holds more than it promises.
LEMMA PtWithin ==
  ASSUME PtIInv, ~ptpanic
  PROVE  \A u \in PtOpen : Len(PtLists[u]) <= ptmaxcnt[u]
<1> TAKE u \in PtOpen
<1>1. Len(PtLists[u]) \in Nat /\ ptmaxcnt[u] \in Nat
  BY PtUsedSems
<1>2. CASE ptssem[u] = NoSem
  <2>1. Len(PtLists[u]) = 0
    BY <1>2 DEF PtIInv, PtPromised, PtPromises
  <2>2. QED
    BY <1>1, <2>1
<1>3. CASE ptssem[u] # NoSem
  <2>1. /\ SoundFor(PtProc, PtCallers("send", u), ptssem[u])
        /\ Promises(PtCallers("send", u), ptssem[u]) + Len(PtLists[u]) = ptmaxcnt[u]
    BY <1>3, PtUsedSems
  <2>2. Promises(PtCallers("send", u), ptssem[u]) \in Nat
    BY <2>1, PromisesSum
  <2>3. QED
    BY <1>1, <2>1, <2>2
<1>4. QED
  BY <1>2, <1>3

\* The lists after ptsend has linked a node at the tail of t.
PtListsAfterPut(t) ==
    [u \in PtKeys |-> IF u = -1 THEN Tail(PtLists[u])
                      ELSE IF u = t THEN PtLists[u] \o <<ptfree>> ELSE PtLists[u]]

LEMMA PtPutNodes ==
  ASSUME PtIInv, NEW p, NEW t \in PtOpen, NEW ssem, PtPut(p, t, ssem, ptseq[t]), ptfree # NULL
  PROVE  /\ PtNodesNext(t, PtListsAfterPut(t))
         /\ Len(PtListsAfterPut(t)[t]) = Len(PtLists[t]) + 1
<1>1. PtTypes /\ PtNodesShared /\ PtMessages /\ t \in Port /\ t # -1 /\ t \in PtKeys /\ -1 \in PtKeys
  BY PtKeyFacts DEF PtIInv, PtKeys
<1>2. PICK n : n = ptfree
  OBVIOUS
<1>3. /\ ptfree' = ptnext[n]
      /\ ptnext' = [m \in PtNode |-> IF m = n THEN NULL
                                     ELSE IF m = pttail[t] THEN n ELSE ptnext[m]]
      /\ ptmsg' = [ptmsg EXCEPT ![n] = ptseq[t]]
      /\ pthead' = [pthead EXCEPT ![t] = IF pttail[t] = NULL THEN n ELSE @]
      /\ pttail' = [pttail EXCEPT ![t] = n]
  BY <1>2 DEF PtPut
<1>4. /\ pthead \in [Port -> PtNode \cup {NULL}]
      /\ pttail \in [Port -> PtNode \cup {NULL}]
      /\ ptnext \in [PtNode -> PtNode \cup {NULL}]
      /\ ptmsg \in [PtNode -> Nat]
      /\ ptfree \in PtNode \cup {NULL}
      /\ ptseq[t] \in Nat
  BY <1>1, PortsAssumption DEF PtTypes
<1>5. PICK L2 : L2 = PtListsAfterPut(t)
  OBVIOUS
<1>6. /\ L2 = [u \in PtKeys |-> L2[u]]
      /\ L2[-1] = Tail(PtLists[-1]) /\ L2[t] = PtLists[t] \o <<ptfree>>
      /\ \A u \in PtKeys \ {-1, t} : L2[u] = PtLists[u]
  BY <1>1, <1>5 DEF PtListsAfterPut
<1>7. /\ pthead'[t] = IF pttail[t] = NULL THEN ptfree ELSE pthead[t]
      /\ pttail'[t] = ptfree
      /\ \A u \in Port \ {t} : pthead'[u] = pthead[u] /\ pttail'[u] = pttail[u]
  BY <1>1, <1>2, <1>3, <1>4
<1>8. /\ PtListsAre(ptnext', ptfree', pthead', pttail', PtKeys, L2)
      /\ ptfree \in PtNode /\ ptnext[ptfree] \in PtNode \cup {NULL}
      /\ ptfree \in Range(PtLists[-1])
      /\ Len(L2[t]) = Len(PtLists[t]) + 1
      /\ Range(L2[t]) = Range(PtLists[t]) \cup {ptfree}
  <2>1. PICK w, f, h, ta, L, K, w2, f2, h2, ta2 :
           /\ w = ptnext /\ f = ptfree /\ h = pthead /\ ta = pttail /\ L = PtLists /\ K = PtKeys
           /\ w2 = ptnext' /\ f2 = ptfree' /\ h2 = pthead' /\ ta2 = pttail'
    OBVIOUS
  <2>2. PtListsAre(w, f, h, ta, K, L) /\ t \in K /\ t # -1 /\ -1 \in K /\ f # NULL
    BY <1>1, <2>1 DEF PtNodesShared
  <2>3. f2 = w[f]
    BY <1>2, <1>3, <2>1
  <2>4. \A m \in PtNode : w2[m] = IF m = f THEN NULL ELSE IF m = ta[t] THEN f ELSE w[m]
    BY <1>2, <1>3, <2>1
  <2>5. h2[t] = (IF ta[t] = NULL THEN f ELSE h[t]) /\ ta2[t] = f
    BY <1>7, <2>1
  <2>6. \A u \in K \ {-1, t} : h2[u] = h[u] /\ ta2[u] = ta[u]
    BY <1>7, <2>1, PtKeyFacts
  <2>7. L2[-1] = Tail(L[-1]) /\ L2[t] = L[t] \o <<f>> /\ \A u \in K \ {-1, t} : L2[u] = L[u]
    BY <1>6, <2>1
  <2>8. PtPuts(w, f, h, ta, K, L, w2, f2, h2, ta2, L2, t)
    BY <2>2, <2>3, <2>4, <2>5, <2>6, <2>7 DEF PtPuts
  <2>9. /\ PtListsAre(w2, f2, h2, ta2, K, L2)
        /\ f \in PtNode /\ w[f] \in PtNode \cup {NULL}
        /\ f \in Range(L[-1])
        /\ Len(L2[t]) = Len(L[t]) + 1
        /\ Range(L2[t]) = Range(L[t]) \cup {f}
    BY <2>2, <2>8, PtListsPut
  <2>10. QED
    BY <2>1, <2>9
<1>9. /\ pthead' \in [Port -> PtNode \cup {NULL}]
      /\ pttail' \in [Port -> PtNode \cup {NULL}]
      /\ ptnext' \in [PtNode -> PtNode \cup {NULL}]
      /\ ptfree' \in PtNode \cup {NULL}
      /\ ptmsg' \in [PtNode -> Nat]
  BY <1>2, <1>3, <1>4, <1>8
<1>10. \A u \in PtOpen : u \in PtKeys /\ u # -1
  BY PtKeyFacts DEF PtKeys
<1>11. \A u \in PtOpen \ {t} : Len(L2[u]) = Len(PtLists[u])
  BY <1>6, <1>10
<1>12. \A u \in PtOpen : \A m \in Range(L2[u]) : ptmsg'[m] = ptseq[u]
  <2> TAKE u \in PtOpen
  <2> TAKE m \in Range(L2[u])
  <2>1. CASE u = t /\ m = ptfree
    BY <2>1, <1>2, <1>3, <1>4, <1>8
  <2>2. CASE ~(u = t /\ m = ptfree)
    <3>1. m \in Range(PtLists[u])
      <4>1. CASE u = t
        BY <2>2, <4>1, <1>8
      <4>2. CASE u # t
        <5>1. L2[u] = PtLists[u]
          BY <4>2, <1>6, <1>10
        <5>2. QED
          BY <5>1
      <4>3. QED
        BY <4>1, <4>2
    <3>2. m # ptfree /\ m \in PtNode
      <4>1. Range(PtLists[u]) \subseteq PtNode
        BY <1>1, <1>10, PtListsApart DEF PtNodesShared
      <4>2. Range(PtLists[u]) \cap Range(PtLists[-1]) = {}
        BY <1>1, <1>10 DEF PtNodesShared, PtListsAre
      <4>3. QED
        BY <3>1, <4>1, <4>2, <1>8
    <3>3. ptmsg'[m] = ptmsg[m]
      BY <3>2, <1>2, <1>3, <1>4
    <3>4. ptmsg[m] = ptseq[u]
      BY <3>1, <1>1 DEF PtMessages
    <3>5. QED
      BY <3>3, <3>4
  <2>3. QED
    BY <2>1, <2>2
<1>13. PtNodesNext(t, L2)
  BY <1>6, <1>7, <1>8, <1>9, <1>11, <1>12 DEF PtNodesNext
<1>14. QED
  BY <1>5, <1>8, <1>13

\* ptsend, after the wait.
LEMMA PtPutOK ==
  ASSUME PtIInv, NEW p \in PtProc, NEW t \in PtOpen, NEW ssem, ~ptpanic,
         ptcall[p] = PtIdle \/ ptcall[p].port = t, p \notin PtCallers("recv", t),
         ptssem[t] # NoSem, SoundFor(PtProc, PtCallers("send", t) \ {p}, ssem),
         Promises(PtCallers("send", t) \ {p}, ssem) + Len(PtLists[t]) = ptmaxcnt[t] - 1,
         PtPut(p, t, ssem, ptseq[t])
  PROVE  PtIInv'
<1>1. PtTypes /\ PtNodesShared /\ PtMessages /\ PtPromised(t) /\ t \in Port
  BY PtKeyFacts DEF PtIInv
<1>2. PICK cs, cr, m : cs = PtCallers("send", t) \ {p} /\ cr = PtCallers("recv", t)
                       /\ m = Promises(cs, ssem)
  OBVIOUS
<1>3. PtReturn(p) /\ UNCHANGED <<ptstate, ptseq, ptmaxcnt, ptnextid, ptsemsleft>>
      /\ ptssem' = [ptssem EXCEPT ![t] = ssem]
  BY DEF PtPut
<1>4. PtCallers("send", t)' = cs /\ PtCallers("recv", t)' = cr
  <2>1. PtCallers("send", t)' = PtCallers("send", t) \ {p}
        /\ PtCallers("recv", t)' = PtCallers("recv", t) \ {p}
    BY <1>3, PtCallersLeft
  <2>2. QED
    BY <1>2, <2>1
<1>5. SoundFor(PtProc, cs, ssem) /\ m \in Nat /\ m + Len(PtLists[t]) = ptmaxcnt[t] - 1
  <2>1. SoundFor(PtProc, cs, ssem) /\ m + Len(PtLists[t]) = ptmaxcnt[t] - 1
    BY <1>2
  <2>2. QED
    BY <1>2, <2>1, PromisesSum
<1>6. Len(PtLists[t]) \in Nat /\ ptmaxcnt[t] \in Nat
  BY PtUsedSems
<1>7. ssem # NoSem /\ (ssem = NoSem <=> ptssem[t] = NoSem)
  <2>1. ssem \in SemOf(PtProc)
    BY <1>5 DEF SoundFor
  <2>2. QED
    BY <2>1, PtSemFacts
<1>8. ASSUME NEW rs, ptrsem' = [ptrsem EXCEPT ![t] = rs], rs = NoSem <=> ptrsem[t] = NoSem
      PROVE  PtPortNext(p, t, PtIdle, ssem, rs)
  BY <1>3, <1>7, <1>8 DEF PtPortNext, PtReturn
<1>9. CASE ptfree = NULL
  <2>1. UNCHANGED <<ptNodeVars, ptrsem>> /\ ptpanic' = TRUE
    BY <1>9 DEF PtPut
  <2>2. PtNodesNext(t, PtLists)
    BY <1>1, <2>1, PtNodesSame
  <2>3. PtPortNext(p, t, PtIdle, ssem, ptrsem[t])
    <3>1. ptrsem' = [ptrsem EXCEPT ![t] = ptrsem[t]]
      BY <1>1, <2>1 DEF PtTypes
    <3>2. QED
      BY <3>1, <1>8
  <2>4. Cardinality(PtPlaces) > PtNodes
    <3>1. Len(PtLists[t]) < ptmaxcnt[t]
      BY <1>5, <1>6
    <3>2. \A u \in PtOpen : Len(PtLists[u]) <= ptmaxcnt[u]
      BY PtWithin
    <3>3. QED
      BY <3>1, <3>2, <1>1, <1>9, PtOversold
  <2>5. PtPromisedNext(t, ssem, ptrsem[t], Len(PtLists[t]))
    <3>1. /\ ptrsem[t] = NoSem => cr = {}
          /\ ptrsem[t] # NoSem => SoundFor(PtProc, cr, ptrsem[t]) /\ Promises(cr, ptrsem[t]) = Len(PtLists[t])
      BY <1>1, <1>2 DEF PtPromised, PtPromises
    <3>2. PtPromises(cs, cr, ssem, ptrsem[t], Len(PtLists[t]), ptmaxcnt[t], ptpanic')
      BY <3>1, <1>5, <1>7, <2>1 DEF PtPromises
    <3>3. QED
      BY <3>2, <1>4, <2>1, <2>4 DEF PtPromisedNext
  <2>6. QED
    BY <2>2, <2>3, <2>5, PtPortOK
<1>10. CASE ptfree # NULL
  <2>1. ptrsem' = [ptrsem EXCEPT ![t] = Signalled(@)] /\ UNCHANGED ptpanic
    BY <1>10 DEF PtPut
  <2>2. PICK L2 : L2 = PtListsAfterPut(t)
    OBVIOUS
  <2>3. PtNodesNext(t, L2) /\ Len(L2[t]) = Len(PtLists[t]) + 1
    BY <1>10, <2>2, PtPutNodes
  <2>4. PICK rs : rs = Signalled(ptrsem[t])
    OBVIOUS
  <2>5. ptrsem' = [ptrsem EXCEPT ![t] = rs]
    BY <2>1, <2>4
  <2>6. /\ ptrsem[t] = NoSem => cr = {} /\ rs = NoSem
        /\ ptrsem[t] # NoSem => SoundFor(PtProc, cr, rs) /\ Promises(cr, rs) = Len(PtLists[t]) + 1
                                /\ rs # NoSem
    <3>1. CASE ptrsem[t] = NoSem
      BY <3>1, <1>1, <1>2, <2>4, PtSemFacts DEF PtPromised, PtPromises
    <3>2. CASE ptrsem[t] # NoSem
      <4>1. SoundFor(PtProc, cr, ptrsem[t]) /\ Promises(cr, ptrsem[t]) = Len(PtLists[t])
        BY <3>2, <1>1, <1>2 DEF PtPromised, PtPromises
      <4>2. SoundFor(PtProc, cr, rs) /\ Promises(cr, rs) = Promises(cr, ptrsem[t]) + 1
        BY <4>1, <2>4, PromisesSignalled
      <4>3. rs # NoSem
        BY <4>2, PtSemFacts DEF SoundFor
      <4>4. QED
        BY <3>2, <4>1, <4>2, <4>3
    <3>3. QED
      BY <3>1, <3>2
  <2>7. PtPortNext(p, t, PtIdle, ssem, rs)
    BY <1>8, <2>5, <2>6
  <2>8. PtPromisedNext(t, ssem, rs, Len(L2[t]))
    <3>1. m + Len(L2[t]) = ptmaxcnt[t]
      BY <1>5, <1>6, <2>3
    <3>2. /\ ssem # NoSem /\ SoundFor(PtProc, cs, ssem) /\ Promises(cs, ssem) + Len(L2[t]) = ptmaxcnt[t]
          /\ rs = NoSem => cr = {}
          /\ rs # NoSem => SoundFor(PtProc, cr, rs) /\ Promises(cr, rs) = Len(L2[t])
      BY <3>1, <1>2, <1>5, <1>7, <2>3, <2>6
    <3>3. PtPromises(cs, cr, ssem, rs, Len(L2[t]), ptmaxcnt[t], ptpanic')
      BY <3>2 DEF PtPromises
    <3>4. ptpanic' = FALSE /\ ptpanic' \in BOOLEAN
      BY <1>1, <2>1 DEF PtTypes
    <3>5. QED
      BY <3>3, <3>4, <1>4 DEF PtPromisedNext
  <2>9. QED
    BY <2>3, <2>7, <2>8, PtPortOK
<1>11. QED
  BY <1>9, <1>10

\* Those who have called, when p waits as well.
LEMMA PtCallersMore ==
  ASSUME PtIInv, NEW p \in PtProc, ptcall[p] = PtIdle, NEW t, NEW op \in {"send", "recv"},
         PtEnter(p, op, t, ptseq[t]), ptseq' = ptseq
  PROVE  /\ PtCallers(op, t)' = PtCallers(op, t) \cup {p}
         /\ \A o \in {"send", "recv"} : o # op => PtCallers(o, t)' = PtCallers(o, t)
         /\ \A o \in {"send", "recv"} : p \notin PtCallers(o, t)
<1>1. PICK c : c = [op |-> op, port |-> t, seq |-> ptseq[t]]
  OBVIOUS
<1>2. ptcall \in [PtProc -> PtCallOf] /\ ptcall' = [ptcall EXCEPT ![p] = c] /\ ptseq'[t] = ptseq[t]
  BY <1>1 DEF PtIInv, PtTypes, PtEnter
<1>3. c.op = op
  BY <1>1
<1>4. ASSUME NEW o \in {"send", "recv"}
      PROVE  p \notin PtCallers(o, t)
  <2>1. p \in PtCallers(o, t) => PtIdle = [op |-> o, port |-> t, seq |-> ptseq[t]]
    BY DEF PtCallers
  <2>2. QED
    BY <2>1, PtIdleFacts
<1>5. ASSUME NEW o \in {"send", "recv"}
      PROVE  PtCallers(o, t)' = IF o = op THEN PtCallers(o, t) \cup {p} ELSE PtCallers(o, t)
  <2>1. \A q : q \in PtCallers(o, t)' <=>
            (q \in PtCallers(o, t) /\ q # p) \/ (q = p /\ c = [op |-> o, port |-> t, seq |-> ptseq[t]])
    BY <1>2, PtCallersNext
  <2>2. c = [op |-> o, port |-> t, seq |-> ptseq[t]] <=> o = op
    <3>1. [op |-> o, port |-> t, seq |-> ptseq[t]].op = o
      OBVIOUS
    <3>2. QED
      BY <3>1, <1>1, <1>3
  <2>3. QED
    BY <2>1, <2>2, <1>4
<1>6. QED
  BY <1>4, <1>5

\* The semaphores that do not change.
LEMMA PtSemsSame ==
  ASSUME PtTypes, NEW t
  PROVE  /\ UNCHANGED ptssem => ptssem' = [ptssem EXCEPT ![t] = ptssem[t]]
         /\ UNCHANGED ptrsem => ptrsem' = [ptrsem EXCEPT ![t] = ptrsem[t]]
BY DEF PtTypes

\* ptsend waits for space.
LEMMA PtSendWaitsOK ==
  ASSUME PtIInv, NEW p \in PtProc, NEW t \in PtOpen, ~ptpanic, ptcall[p] = PtIdle,
         ptssem[t].used, Blocks(ptssem[t]), ptssem' = [ptssem EXCEPT ![t] = Waited(@, p)],
         PtWaitsThere(p, "send", t), UNCHANGED ptrsem
  PROVE  PtIInv'
<1>1. PtTypes /\ PtNodesShared /\ PtMessages /\ PtPromised(t) /\ t \in Port
  BY PtKeyFacts DEF PtIInv
<1>2. PICK s, w, cs, cr, c : /\ s = ptssem[t] /\ w = Waited(s, p)
                             /\ cs = PtCallers("send", t) /\ cr = PtCallers("recv", t)
                             /\ c = [op |-> "send", port |-> t, seq |-> ptseq[t]]
  OBVIOUS
<1>3. /\ UNCHANGED <<ptstate, ptseq, ptmaxcnt, ptNodeVars, ptnextid, ptsemsleft, busy, ptpanic>>
      /\ PtEnter(p, "send", t, ptseq[t])
      /\ ptcall' = [ptcall EXCEPT ![p] = c]
  BY <1>2 DEF PtWaitsThere, PtEnter
<1>4. PtCallers("send", t)' = cs \cup {p} /\ PtCallers("recv", t)' = cr /\ p \notin cs
  <2>1. ptseq' = ptseq /\ "send" \in {"send", "recv"} /\ "recv" \in {"send", "recv"} /\ "recv" # "send"
    BY <1>3
  <2>2. /\ PtCallers("send", t)' = PtCallers("send", t) \cup {p}
        /\ PtCallers("recv", t)' = PtCallers("recv", t)
        /\ p \notin PtCallers("send", t)
    BY <2>1, <1>3, PtCallersMore
  <2>3. QED
    BY <1>2, <2>2
<1>5. s # NoSem /\ SoundFor(PtProc, cs, s) /\ Promises(cs, s) + Len(PtLists[t]) = ptmaxcnt[t]
  BY <1>2, PtUsedSems
<1>6. SoundFor(PtProc, cs \cup {p}, w) /\ Promises(cs \cup {p}, w) = Promises(cs, s)
  BY <1>2, <1>4, <1>5, PromisesBlocked
<1>7. w # NoSem
  BY <1>6, PtSemFacts DEF SoundFor
<1>8. PtPortNext(p, t, c, w, ptrsem[t])
  <2>1. ptssem' = [ptssem EXCEPT ![t] = w] /\ ptrsem' = [ptrsem EXCEPT ![t] = ptrsem[t]]
    BY <1>1, <1>2, PtSemsSame
  <2>2. busy' \in PtProc \cup {Nobody}
    BY <1>1, <1>3 DEF PtTypes
  <2>3. \E op \in {"send", "recv"} : c = [op |-> op, port |-> t, seq |-> ptseq[t]]
    BY <1>2
  <2>4. QED
    BY <2>1, <2>2, <2>3, <1>2, <1>3, <1>5, <1>7 DEF PtPortNext
<1>9. PtNodesNext(t, PtLists)
  BY <1>1, <1>3, PtNodesSame
<1>10. PtPromisedNext(t, w, ptrsem[t], Len(PtLists[t]))
  <2>1. PtPromises(cs \cup {p}, cr, w, ptrsem[t], Len(PtLists[t]), ptmaxcnt[t], ptpanic)
    BY <1>1, <1>2, <1>5, <1>6, <1>7 DEF PtPromised, PtPromises
  <2>2. QED
    BY <2>1, <1>1, <1>3, <1>4 DEF PtPromisedNext, PtTypes
<1>11. QED
  BY <1>8, <1>9, <1>10, PtPortOK

\* ptrecv waits for a message.
LEMMA PtRecvWaitsOK ==
  ASSUME PtIInv, NEW p \in PtProc, NEW t \in PtOpen, ~ptpanic, ptcall[p] = PtIdle,
         ptrsem[t].used, Blocks(ptrsem[t]), ptrsem' = [ptrsem EXCEPT ![t] = Waited(@, p)],
         PtWaitsThere(p, "recv", t), UNCHANGED ptssem
  PROVE  PtIInv'
<1>1. PtTypes /\ PtNodesShared /\ PtMessages /\ PtPromised(t) /\ t \in Port
  BY PtKeyFacts DEF PtIInv
<1>2. PICK s, w, cs, cr, c : /\ s = ptrsem[t] /\ w = Waited(s, p)
                             /\ cs = PtCallers("send", t) /\ cr = PtCallers("recv", t)
                             /\ c = [op |-> "recv", port |-> t, seq |-> ptseq[t]]
  OBVIOUS
<1>3. /\ UNCHANGED <<ptstate, ptseq, ptmaxcnt, ptNodeVars, ptnextid, ptsemsleft, busy, ptpanic>>
      /\ PtEnter(p, "recv", t, ptseq[t])
      /\ ptcall' = [ptcall EXCEPT ![p] = c]
  BY <1>2 DEF PtWaitsThere, PtEnter
<1>4. PtCallers("recv", t)' = cr \cup {p} /\ PtCallers("send", t)' = cs /\ p \notin cr
  <2>1. ptseq' = ptseq /\ "send" \in {"send", "recv"} /\ "recv" \in {"send", "recv"} /\ "recv" # "send"
    BY <1>3
  <2>2. /\ PtCallers("recv", t)' = PtCallers("recv", t) \cup {p}
        /\ PtCallers("send", t)' = PtCallers("send", t)
        /\ p \notin PtCallers("recv", t)
    BY <2>1, <1>3, PtCallersMore
  <2>3. QED
    BY <1>2, <2>2
<1>5. s # NoSem /\ SoundFor(PtProc, cr, s) /\ Promises(cr, s) = Len(PtLists[t])
  BY <1>2, PtUsedSems
<1>6. SoundFor(PtProc, cr \cup {p}, w) /\ Promises(cr \cup {p}, w) = Promises(cr, s)
  BY <1>2, <1>4, <1>5, PromisesBlocked
<1>7. w # NoSem
  BY <1>6, PtSemFacts DEF SoundFor
<1>8. PtPortNext(p, t, c, ptssem[t], w)
  <2>1. ptrsem' = [ptrsem EXCEPT ![t] = w] /\ ptssem' = [ptssem EXCEPT ![t] = ptssem[t]]
    BY <1>1, <1>2, PtSemsSame
  <2>2. busy' \in PtProc \cup {Nobody}
    BY <1>1, <1>3 DEF PtTypes
  <2>3. \E op \in {"send", "recv"} : c = [op |-> op, port |-> t, seq |-> ptseq[t]]
    BY <1>2
  <2>4. QED
    BY <2>1, <2>2, <2>3, <1>2, <1>3, <1>5, <1>7 DEF PtPortNext
<1>9. PtNodesNext(t, PtLists)
  BY <1>1, <1>3, PtNodesSame
<1>10. PtPromisedNext(t, ptssem[t], w, Len(PtLists[t]))
  <2>1. PtPromises(cs, cr \cup {p}, ptssem[t], w, Len(PtLists[t]), ptmaxcnt[t], ptpanic)
    BY <1>1, <1>2, <1>5, <1>6, <1>7 DEF PtPromised, PtPromises
  <2>2. QED
    BY <2>1, <1>1, <1>3, <1>4 DEF PtPromisedNext, PtTypes
<1>11. QED
  BY <1>8, <1>9, <1>10, PtPortOK

\* A call ends on a port that has begun another life, or none.
LEMMA PtGivesUpOK ==
  ASSUME PtIInv, NEW p \in PtProc, ptcall[p].op \in {"send", "recv"}, ~PtLives(ptcall[p]), PtReturn(p),
         UNCHANGED <<ptstate, ptseq, ptmaxcnt, ptssem, ptrsem, ptNodeVars, ptnextid, ptsemsleft, ptpanic>>
  PROVE  PtIInv'
<1>1. /\ PtTypes /\ PtNodesShared /\ PtMessages /\ PtCallsOK /\ PtSemsCounted
      /\ \A u \in PtOpen : PtPromised(u)
  BY DEF PtIInv
<1>2. ptcall' = [ptcall EXCEPT ![p] = PtIdle] /\ busy' = Nobody
  BY DEF PtReturn
<1>3. PtOpen' = PtOpen /\ PtKeys' = PtKeys
  BY DEF PtOpen, PtKeys
<1>4. PtLists' = PtLists /\ PtNodesShared'
  <2>1. PtLists = [u \in PtKeys' |-> PtLists[u]]
    BY <1>3 DEF PtLists, PtKeys
  <2>2. PtListsAre(ptnext', ptfree', pthead', pttail', PtKeys', PtLists)
    BY <1>1, <1>3 DEF PtNodesShared, ptNodeVars
  <2>3. QED
    BY <2>1, <2>2, PtListsNext
<1>5. PtTypes'
  <2>1. ptcall' \in [PtProc -> PtCallOf]
    BY <1>1, <1>2, PtIdleFacts DEF PtTypes
  <2>2. QED
    BY <1>1, <1>2, <2>1 DEF PtTypes, ptNodeVars
<1>6. PtMessages'
  BY <1>1, <1>3, <1>4 DEF PtMessages, ptNodeVars
<1>7. PtCallsOK'
  <2>1. PtUser(PtIdle) /\ PtIdle.op \notin PtClears /\ PtIdle \in PtCallOf
    BY PtIdleFacts DEF PtUser, PtClears
  <2>2. \A t \in Port : ptstate[t] # "PT_ALLOC" =>
            /\ pthead'[t] = pthead[t] /\ pttail'[t] = pttail[t]
            /\ ptssem'[t] = ptssem[t] /\ ptrsem'[t] = ptrsem[t]
    BY DEF ptNodeVars
  <2>3. UNCHANGED <<ptstate, ptseq, ptmaxcnt>>
    OBVIOUS
  <2>4. QED
    BY <2>1, <2>2, <2>3, <1>1, <1>2, PtCallsFrame
<1>8. \A u \in PtOpen' : PtPromised(u)'
  <2> TAKE u \in PtOpen'
  <2>1. u \in PtOpen /\ PtPromised(u) /\ ptstate[u] = "PT_ALLOC"
    BY <1>1, <1>3 DEF PtOpen
  <2>2. ptseq' = ptseq
    OBVIOUS
  <2>3. PtCallers("send", u)' = PtCallers("send", u) \ {p} /\ PtCallers("recv", u)' = PtCallers("recv", u) \ {p}
    BY <2>2, PtCallersLeft
  <2>4. ASSUME NEW op \in {"send", "recv"}
        PROVE  p \notin PtCallers(op, u)
    <3>1. p \in PtCallers(op, u) => ptcall[p].port = u /\ ptcall[p].seq = ptseq[u]
      BY <1>1, PtCallerFacts
    <3>2. QED
      BY <2>1, <3>1 DEF PtLives
  <2>5. PtCallers("send", u)' = PtCallers("send", u) /\ PtCallers("recv", u)' = PtCallers("recv", u)
    BY <2>3, <2>4
  <2>6. /\ ptssem'[u] = ptssem[u] /\ ptrsem'[u] = ptrsem[u] /\ ptmaxcnt'[u] = ptmaxcnt[u]
        /\ Len(PtLists'[u]) = Len(PtLists[u]) /\ (ptpanic => ptpanic')
    BY <1>4
  <2>7. QED
    BY <2>1, <2>5, <2>6, PtPromisedKept
<1>9. PtSemsCounted'
  BY <1>1, PtSemsFrame
<1>10. PanicOnlyWhenOversold'
  <2>1. PtPlaces' = PtPlaces
    BY <1>3 DEF PtPlaces
  <2>2. QED
    BY <2>1 DEF PtIInv, PanicOnlyWhenOversold
<1>11. QED
  BY <1>4, <1>5, <1>6, <1>7, <1>8, <1>9, <1>10 DEF PtIInv

LEMMA PtSendOK ==
  ASSUME PtIInv, NEW p \in PtProc, NEW t \in Port, PtSend(p, t)
  PROVE  PtIInv'
<1>1. /\ ~ptpanic /\ ptcall[p] = PtIdle /\ t \in PtOpen /\ ptssem[t].used
  BY DEF PtSend, PtCalls, PtMay, PtOpen
<1>2. CASE Blocks(ptssem[t])
  <2>1. /\ ptssem' = [ptssem EXCEPT ![t] = Waited(@, p)]
        /\ PtWaitsThere(p, "send", t)
        /\ UNCHANGED ptrsem
    BY <1>2 DEF PtSend
  <2>2. QED
    BY <1>1, <1>2, <2>1, PtSendWaitsOK
<1>3. CASE ~Blocks(ptssem[t])
  <2>1. PICK s, w, cs : s = ptssem[t] /\ w = Waited(s, p) /\ cs = PtCallers("send", t)
    OBVIOUS
  <2>2. PtPut(p, t, w, ptseq[t])
    BY <1>3, <2>1 DEF PtSend
  <2>3. \A op \in {"send", "recv"} : p \notin PtCallers(op, t)
    <3> TAKE op \in {"send", "recv"}
    <3>1. p \in PtCallers(op, t) => PtIdle = [op |-> op, port |-> t, seq |-> ptseq[t]]
      BY <1>1 DEF PtCallers
    <3>2. QED
      BY <3>1, PtIdleFacts
  <2>4. p \notin cs /\ p \notin PtCallers("recv", t) /\ cs \ {p} = cs
    BY <2>1, <2>3
  <2>5. s # NoSem /\ SoundFor(PtProc, cs, s) /\ Promises(cs, s) + Len(PtLists[t]) = ptmaxcnt[t]
    BY <1>1, <2>1, PtUsedSems
  <2>6. SoundFor(PtProc, cs, w) /\ Promises(cs, w) = Promises(cs, s) - 1
    BY <1>3, <2>1, <2>4, <2>5, PromisesPassed
  <2>7. Promises(cs, w) + Len(PtLists[t]) = ptmaxcnt[t] - 1
    <3>1. Promises(cs, s) \in Nat
      BY <2>5, PromisesSum
    <3>2. Len(PtLists[t]) \in Nat /\ ptmaxcnt[t] \in Nat
      BY <1>1, PtUsedSems
    <3>3. QED
      BY <2>5, <2>6, <3>1, <3>2
  <2>8. /\ SoundFor(PtProc, PtCallers("send", t) \ {p}, w)
        /\ Promises(PtCallers("send", t) \ {p}, w) + Len(PtLists[t]) = ptmaxcnt[t] - 1
        /\ ptssem[t] # NoSem
    BY <2>1, <2>4, <2>5, <2>6, <2>7
  <2>9. QED
    BY <1>1, <2>2, <2>4, <2>8, PtPutOK
<1>4. QED
  BY <1>2, <1>3

LEMMA PtSendGoesOnOK ==
  ASSUME PtIInv, NEW p \in PtProc, PtSendGoesOn(p)
  PROVE  PtIInv'
<1>1. PICK t : t = ptcall[p].port
  OBVIOUS
<1>2. /\ ~ptpanic /\ ptcall[p].op = "send" /\ ~Waits(ptssem[t], p)
  BY <1>1 DEF PtSendGoesOn, PtGoesOn, PtMay
<1>3. CASE PtLives(ptcall[p])
  <2>1. PtTypes /\ PtCallsOK
    BY DEF PtIInv
  <2>2. t \in PtOpen /\ ptcall[p].seq = ptseq[t]
    BY <2>1, <1>1, <1>3, PtCallerFacts DEF PtLives, PtOpen
  <2>3. p \in PtCallers("send", t) /\ p \notin PtCallers("recv", t)
    BY <2>1, <2>2, <1>1, <1>2, PtCallerFacts
  <2>4. PtPut(p, t, ptssem[t], ptseq[t])
    BY <2>2, <1>1, <1>3 DEF PtSendGoesOn
  <2>5. PICK s, cs : s = ptssem[t] /\ cs = PtCallers("send", t)
    OBVIOUS
  <2>6. s # NoSem
    BY <2>2, <2>3, <2>5 DEF PtIInv, PtPromised, PtPromises
  <2>7. SoundFor(PtProc, cs, s) /\ Promises(cs, s) + Len(PtLists[t]) = ptmaxcnt[t]
    BY <2>2, <2>5, <2>6, <1>2, PtUsedSems
  <2>8. SoundFor(PtProc, cs \ {p}, s) /\ Promises(cs \ {p}, s) = Promises(cs, s) - 1
    BY <2>3, <2>5, <2>7, <1>2, PromisesKept
  <2>9. Promises(cs \ {p}, s) + Len(PtLists[t]) = ptmaxcnt[t] - 1
    <3>1. Promises(cs, s) \in Nat
      BY <2>7, PromisesSum
    <3>2. Len(PtLists[t]) \in Nat /\ ptmaxcnt[t] \in Nat
      BY <2>2, PtUsedSems
    <3>3. QED
      BY <2>7, <2>8, <3>1, <3>2
  <2>10. /\ SoundFor(PtProc, PtCallers("send", t) \ {p}, ptssem[t])
         /\ Promises(PtCallers("send", t) \ {p}, ptssem[t]) + Len(PtLists[t]) = ptmaxcnt[t] - 1
         /\ ptssem[t] # NoSem
    BY <2>5, <2>6, <2>8, <2>9
  <2>11. QED
    BY <1>1, <1>2, <2>2, <2>3, <2>4, <2>10, PtPutOK
<1>4. CASE ~PtLives(ptcall[p])
  <2>1. /\ PtReturn(p)
        /\ UNCHANGED <<ptstate, ptseq, ptmaxcnt, ptssem, ptrsem, ptNodeVars, ptnextid, ptsemsleft, ptpanic>>
    BY <1>4 DEF PtSendGoesOn
  <2>2. QED
    BY <2>1, <1>2, <1>4, PtGivesUpOK
<1>5. QED
  BY <1>3, <1>4

\* The lists after ptrecv has put the first node of t on the free list.
PtListsAfterTake(t) ==
    [u \in PtKeys |-> IF u = -1 THEN <<pthead[t]>> \o PtLists[u]
                      ELSE IF u = t THEN Tail(PtLists[u]) ELSE PtLists[u]]

LEMMA PtTakeNodes ==
  ASSUME PtIInv, NEW p, NEW t \in PtOpen, NEW rsem, PtTake(p, t, rsem), PtLists[t] # <<>>
  PROVE  /\ PtNodesNext(t, PtListsAfterTake(t))
         /\ Len(PtLists[t]) = Len(PtListsAfterTake(t)[t]) + 1
<1>1. PtTypes /\ PtNodesShared /\ PtMessages /\ t \in Port /\ t # -1 /\ t \in PtKeys /\ -1 \in PtKeys
  BY PtKeyFacts DEF PtIInv, PtKeys
<1>2. PICK n : n = pthead[t]
  OBVIOUS
<1>3. /\ pthead' = [pthead EXCEPT ![t] = IF n = pttail[t] THEN NULL ELSE ptnext[n]]
      /\ pttail' = [pttail EXCEPT ![t] = IF n = @ THEN NULL ELSE @]
      /\ ptnext' = [ptnext EXCEPT ![n] = ptfree]
      /\ ptfree' = n
      /\ ptmsg' = ptmsg
  BY <1>2 DEF PtTake
<1>4. /\ pthead \in [Port -> PtNode \cup {NULL}]
      /\ pttail \in [Port -> PtNode \cup {NULL}]
      /\ ptnext \in [PtNode -> PtNode \cup {NULL}]
      /\ ptmsg \in [PtNode -> Nat]
      /\ ptfree \in PtNode \cup {NULL}
  BY <1>1 DEF PtTypes
<1>5. PICK L2 : L2 = PtListsAfterTake(t)
  OBVIOUS
<1>6. /\ L2 = [u \in PtKeys |-> L2[u]]
      /\ L2[-1] = <<pthead[t]>> \o PtLists[-1] /\ L2[t] = Tail(PtLists[t])
      /\ \A u \in PtKeys \ {-1, t} : L2[u] = PtLists[u]
  BY <1>1, <1>5 DEF PtListsAfterTake
<1>7. /\ pthead'[t] = IF pthead[t] = pttail[t] THEN NULL ELSE ptnext[pthead[t]]
      /\ pttail'[t] = IF pthead[t] = pttail[t] THEN NULL ELSE pttail[t]
      /\ \A u \in Port \ {t} : pthead'[u] = pthead[u] /\ pttail'[u] = pttail[u]
  BY <1>1, <1>2, <1>3, <1>4
<1>8. /\ PtListsAre(ptnext', ptfree', pthead', pttail', PtKeys, L2)
      /\ pthead[t] \in PtNode /\ ptnext[pthead[t]] \in PtNode \cup {NULL}
      /\ Len(PtLists[t]) = Len(L2[t]) + 1
      /\ Range(L2[t]) \subseteq Range(PtLists[t])
  <2>1. PICK w, f, h, ta, L, K, w2, f2, h2, ta2 :
           /\ w = ptnext /\ f = ptfree /\ h = pthead /\ ta = pttail /\ L = PtLists /\ K = PtKeys
           /\ w2 = ptnext' /\ f2 = ptfree' /\ h2 = pthead' /\ ta2 = pttail'
    OBVIOUS
  <2>2. PtListsAre(w, f, h, ta, K, L) /\ t \in K /\ t # -1 /\ -1 \in K /\ L[t] # <<>>
    BY <1>1, <2>1 DEF PtNodesShared
  <2>3. f2 = h[t]
    BY <1>2, <1>3, <2>1
  <2>4. \A m \in PtNode : w2[m] = IF m = h[t] THEN f ELSE w[m]
    BY <1>2, <1>3, <1>4, <2>1
  <2>5. /\ h2[t] = IF h[t] = ta[t] THEN NULL ELSE w[h[t]]
        /\ ta2[t] = IF h[t] = ta[t] THEN NULL ELSE ta[t]
    BY <1>7, <2>1
  <2>6. \A u \in K \ {-1, t} : h2[u] = h[u] /\ ta2[u] = ta[u]
    BY <1>7, <2>1, PtKeyFacts
  <2>7. L2[-1] = <<h[t]>> \o L[-1] /\ L2[t] = Tail(L[t]) /\ \A u \in K \ {-1, t} : L2[u] = L[u]
    BY <1>6, <2>1
  <2>8. PtTakes(w, f, h, ta, K, L, w2, f2, h2, ta2, L2, t)
    BY <2>2, <2>3, <2>4, <2>5, <2>6, <2>7 DEF PtTakes
  <2>9. /\ PtListsAre(w2, f2, h2, ta2, K, L2)
        /\ h[t] \in PtNode /\ w[h[t]] \in PtNode \cup {NULL}
        /\ Len(L[t]) = Len(L2[t]) + 1
        /\ Range(L2[t]) \subseteq Range(L[t])
    BY <2>2, <2>8, PtListsTake
  <2>10. QED
    BY <2>1, <2>9
<1>9. /\ pthead' \in [Port -> PtNode \cup {NULL}]
      /\ pttail' \in [Port -> PtNode \cup {NULL}]
      /\ ptnext' \in [PtNode -> PtNode \cup {NULL}]
      /\ ptfree' \in PtNode \cup {NULL}
      /\ ptmsg' \in [PtNode -> Nat]
  BY <1>2, <1>3, <1>4, <1>8
<1>10. \A u \in PtOpen : u \in PtKeys /\ u # -1
  BY PtKeyFacts DEF PtKeys
<1>11. \A u \in PtOpen \ {t} : L2[u] = PtLists[u]
  BY <1>6, <1>10
<1>12. \A u \in PtOpen : \A m \in Range(L2[u]) : ptmsg'[m] = ptseq[u]
  <2>1. \A u \in PtOpen : Range(L2[u]) \subseteq Range(PtLists[u])
    BY <1>8, <1>11
  <2>2. QED
    BY <2>1, <1>1, <1>3 DEF PtMessages
<1>13. PtNodesNext(t, L2)
  BY <1>6, <1>7, <1>8, <1>9, <1>11, <1>12 DEF PtNodesNext
<1>14. QED
  BY <1>5, <1>8, <1>13

\* ptrecv, after the wait: there is a message.
LEMMA PtTakeOK ==
  ASSUME PtIInv, NEW p \in PtProc, NEW t \in PtOpen, NEW rsem, ~ptpanic,
         ptcall[p] = PtIdle \/ ptcall[p].port = t, p \notin PtCallers("send", t),
         ptrsem[t] # NoSem, SoundFor(PtProc, PtCallers("recv", t) \ {p}, rsem),
         Promises(PtCallers("recv", t) \ {p}, rsem) = Len(PtLists[t]) - 1,
         PtTake(p, t, rsem)
  PROVE  PtIInv'
<1>1. PtTypes /\ PtPromised(t) /\ t \in Port
  BY PtKeyFacts DEF PtIInv
<1>2. PICK cs, cr, m : cs = PtCallers("send", t) /\ cr = PtCallers("recv", t) \ {p}
                       /\ m = Promises(cr, rsem)
  OBVIOUS
<1>3. /\ PtReturn(p) /\ UNCHANGED <<ptstate, ptseq, ptmaxcnt, ptnextid, ptsemsleft, ptpanic>>
      /\ ptrsem' = [ptrsem EXCEPT ![t] = rsem]
      /\ ptssem' = [ptssem EXCEPT ![t] = Signalled(ptssem[t])]
  BY DEF PtTake, PtGivePlace
<1>4. PtCallers("send", t)' = cs /\ PtCallers("recv", t)' = cr
  <2>1. PtCallers("send", t)' = PtCallers("send", t) \ {p}
        /\ PtCallers("recv", t)' = PtCallers("recv", t) \ {p}
    BY <1>3, PtCallersLeft
  <2>2. QED
    BY <1>2, <2>1
<1>5. SoundFor(PtProc, cr, rsem) /\ m \in Nat /\ m = Len(PtLists[t]) - 1
  <2>1. SoundFor(PtProc, cr, rsem) /\ m = Len(PtLists[t]) - 1
    BY <1>2
  <2>2. QED
    BY <1>2, <2>1, PromisesSum
<1>6. Len(PtLists[t]) \in Nat /\ ptmaxcnt[t] \in Nat
  BY PtUsedSems
<1>7. PtLists[t] # <<>>
  BY <1>5, <1>6
<1>8. PICK L2 : L2 = PtListsAfterTake(t)
  OBVIOUS
<1>9. PtNodesNext(t, L2) /\ Len(PtLists[t]) = Len(L2[t]) + 1
  BY <1>7, <1>8, PtTakeNodes
<1>10. rsem # NoSem /\ (rsem = NoSem <=> ptrsem[t] = NoSem)
  <2>1. rsem \in SemOf(PtProc)
    BY <1>5 DEF SoundFor
  <2>2. QED
    BY <2>1, PtSemFacts
<1>11. PICK ss : ss = Signalled(ptssem[t])
  OBVIOUS
<1>12. ptssem[t] # NoSem
  BY <1>1, <1>7 DEF PtPromised, PtPromises
<1>13. /\ SoundFor(PtProc, cs, ss) /\ ss # NoSem
       /\ Promises(cs, ss) + Len(L2[t]) = ptmaxcnt[t]
  <2>1. SoundFor(PtProc, cs, ptssem[t]) /\ Promises(cs, ptssem[t]) + Len(PtLists[t]) = ptmaxcnt[t]
    BY <1>1, <1>2, <1>12 DEF PtPromised, PtPromises
  <2>2. SoundFor(PtProc, cs, ss) /\ Promises(cs, ss) = Promises(cs, ptssem[t]) + 1
    BY <2>1, <1>11, PromisesSignalled
  <2>3. Promises(cs, ptssem[t]) \in Nat
    BY <2>1, PromisesSum
  <2>4. ss # NoSem
    BY <2>2, PtSemFacts DEF SoundFor
  <2>5. m = Len(L2[t]) /\ Len(L2[t]) \in Nat
    BY <1>5, <1>6, <1>9
  <2>6. QED
    BY <2>1, <2>2, <2>3, <2>4, <2>5, <1>6, <1>9
<1>14. PtPortNext(p, t, PtIdle, ss, rsem)
  <2>1. ptssem' = [ptssem EXCEPT ![t] = ss]
    BY <1>3, <1>11
  <2>2. ss = NoSem <=> ptssem[t] = NoSem
    BY <1>12, <1>13
  <2>3. QED
    BY <2>1, <2>2, <1>3, <1>10 DEF PtPortNext, PtReturn
<1>15. PtPromisedNext(t, ss, rsem, Len(L2[t]))
  <2>1. Promises(cr, rsem) = Len(L2[t])
    BY <1>2, <1>5, <1>6, <1>9
  <2>2. PtPromises(cs, cr, ss, rsem, Len(L2[t]), ptmaxcnt[t], ptpanic')
    BY <2>1, <1>5, <1>10, <1>13 DEF PtPromises
  <2>3. ptpanic' = FALSE /\ ptpanic' \in BOOLEAN
    BY <1>1, <1>3 DEF PtTypes
  <2>4. QED
    BY <2>2, <2>3, <1>4 DEF PtPromisedNext
<1>16. QED
  BY <1>9, <1>14, <1>15, PtPortOK

LEMMA PtRecvOK ==
  ASSUME PtIInv, NEW p \in PtProc, NEW t \in Port, PtRecv(p, t)
  PROVE  PtIInv'
<1>1. /\ ~ptpanic /\ ptcall[p] = PtIdle /\ t \in PtOpen /\ ptrsem[t].used
  BY DEF PtRecv, PtCalls, PtMay, PtOpen
<1>2. CASE Blocks(ptrsem[t])
  <2>1. /\ ptrsem' = [ptrsem EXCEPT ![t] = Waited(@, p)]
        /\ PtWaitsThere(p, "recv", t)
        /\ UNCHANGED ptssem
    BY <1>2 DEF PtRecv
  <2>2. QED
    BY <1>1, <1>2, <2>1, PtRecvWaitsOK
<1>3. CASE ~Blocks(ptrsem[t])
  <2>1. PICK s, w, cr : s = ptrsem[t] /\ w = Waited(s, p) /\ cr = PtCallers("recv", t)
    OBVIOUS
  <2>2. PtTake(p, t, w)
    BY <1>3, <2>1 DEF PtRecv
  <2>3. \A op \in {"send", "recv"} : p \notin PtCallers(op, t)
    <3> TAKE op \in {"send", "recv"}
    <3>1. p \in PtCallers(op, t) => PtIdle = [op |-> op, port |-> t, seq |-> ptseq[t]]
      BY <1>1 DEF PtCallers
    <3>2. QED
      BY <3>1, PtIdleFacts
  <2>4. p \notin cr /\ p \notin PtCallers("send", t) /\ cr \ {p} = cr
    BY <2>1, <2>3
  <2>5. s # NoSem /\ SoundFor(PtProc, cr, s) /\ Promises(cr, s) = Len(PtLists[t])
    BY <1>1, <2>1, PtUsedSems
  <2>6. SoundFor(PtProc, cr, w) /\ Promises(cr, w) = Promises(cr, s) - 1
    BY <1>3, <2>1, <2>4, <2>5, PromisesPassed
  <2>7. /\ SoundFor(PtProc, PtCallers("recv", t) \ {p}, w)
        /\ Promises(PtCallers("recv", t) \ {p}, w) = Len(PtLists[t]) - 1
        /\ ptrsem[t] # NoSem
    BY <2>1, <2>4, <2>5, <2>6
  <2>8. QED
    BY <1>1, <2>2, <2>4, <2>7, PtTakeOK
<1>4. QED
  BY <1>2, <1>3

LEMMA PtRecvGoesOnOK ==
  ASSUME PtIInv, NEW p \in PtProc, PtRecvGoesOn(p)
  PROVE  PtIInv'
<1>1. PICK t : t = ptcall[p].port
  OBVIOUS
<1>2. /\ ~ptpanic /\ ptcall[p].op = "recv" /\ ~Waits(ptrsem[t], p)
  BY <1>1 DEF PtRecvGoesOn, PtGoesOn, PtMay
<1>3. CASE PtLives(ptcall[p])
  <2>1. PtTypes /\ PtCallsOK
    BY DEF PtIInv
  <2>2. t \in PtOpen /\ ptcall[p].seq = ptseq[t]
    BY <2>1, <1>1, <1>3, PtCallerFacts DEF PtLives, PtOpen
  <2>3. p \in PtCallers("recv", t) /\ p \notin PtCallers("send", t)
    BY <2>1, <2>2, <1>1, <1>2, PtCallerFacts
  <2>4. PtTake(p, t, ptrsem[t])
    BY <2>2, <1>1, <1>3 DEF PtRecvGoesOn
  <2>5. PICK s, cr : s = ptrsem[t] /\ cr = PtCallers("recv", t)
    OBVIOUS
  <2>6. s # NoSem
    BY <2>2, <2>3, <2>5 DEF PtIInv, PtPromised, PtPromises
  <2>7. SoundFor(PtProc, cr, s) /\ Promises(cr, s) = Len(PtLists[t])
    BY <2>2, <2>5, <2>6, PtUsedSems
  <2>8. SoundFor(PtProc, cr \ {p}, s) /\ Promises(cr \ {p}, s) = Promises(cr, s) - 1
    BY <2>3, <2>5, <2>7, <1>2, PromisesKept
  <2>9. /\ SoundFor(PtProc, PtCallers("recv", t) \ {p}, ptrsem[t])
        /\ Promises(PtCallers("recv", t) \ {p}, ptrsem[t]) = Len(PtLists[t]) - 1
        /\ ptrsem[t] # NoSem
    BY <2>5, <2>6, <2>7, <2>8
  <2>10. QED
    BY <1>1, <1>2, <2>2, <2>3, <2>4, <2>9, PtTakeOK
<1>4. CASE ~PtLives(ptcall[p])
  <2>1. /\ PtReturn(p)
        /\ UNCHANGED <<ptstate, ptseq, ptmaxcnt, ptssem, ptrsem, ptNodeVars, ptnextid, ptsemsleft, ptpanic>>
    BY <1>4 DEF PtRecvGoesOn
  <2>2. QED
    BY <2>1, <1>2, <1>4, PtGivesUpOK
<1>5. QED
  BY <1>3, <1>4

-----------------------------------------------------------------------------
(* Ports: the steps that begin and end a life of a port.                   *)

\* What a port keeps while something happens to another one.
PtSamePort(u) ==
    /\ ptstate'[u] = ptstate[u] /\ ptseq'[u] = ptseq[u] /\ ptmaxcnt'[u] = ptmaxcnt[u]
    /\ ptssem'[u] = ptssem[u] /\ ptrsem'[u] = ptrsem[u]
    /\ pthead'[u] = pthead[u] /\ pttail'[u] = pttail[u]

\* p, which neither sends nor receives, is at c.
PtNoUser(p, c) ==
    /\ ptcall' = [ptcall EXCEPT ![p] = c]
    /\ c \in PtCallOf /\ c.op \notin {"send", "recv"} /\ ptcall[p].op \notin {"send", "recv"}

LEMMA PtOthersKept ==
  ASSUME PtIInv, NEW p \in PtProc, NEW c, PtNoUser(p, c), NEW u \in PtOpen, PtSamePort(u),
         Len(PtLists'[u]) = Len(PtLists[u]), ptpanic => ptpanic'
  PROVE  PtPromised(u)'
<1>1. PtTypes /\ PtPromised(u) /\ ptcall \in [PtProc -> PtCallOf]
  BY DEF PtIInv, PtTypes
<1>2. ASSUME NEW op \in {"send", "recv"}
      PROVE  PtCallers(op, u)' = PtCallers(op, u)
  <2>1. ptseq'[u] = ptseq[u] /\ ptcall' = [ptcall EXCEPT ![p] = c]
    BY DEF PtSamePort, PtNoUser
  <2>2. \A q : q \in PtCallers(op, u)' <=>
            (q \in PtCallers(op, u) /\ q # p) \/ (q = p /\ c = [op |-> op, port |-> u, seq |-> ptseq[u]])
    BY <1>1, <2>1, PtCallersNext
  <2>3. PICK r : r = [op |-> op, port |-> u, seq |-> ptseq[u]]
    OBVIOUS
  <2>4. r.op = op
    BY <2>3
  <2>5. c # r /\ ptcall[p] # r
    BY <2>4 DEF PtNoUser
  <2>6. p \notin PtCallers(op, u)
    BY <2>3, <2>5 DEF PtCallers
  <2>7. QED
    BY <2>2, <2>3, <2>5, <2>6
<1>3. PtCallers("send", u)' = PtCallers("send", u) /\ PtCallers("recv", u)' = PtCallers("recv", u)
  BY <1>2
<1>4. ptssem'[u] = ptssem[u] /\ ptrsem'[u] = ptrsem[u] /\ ptmaxcnt'[u] = ptmaxcnt[u]
  BY DEF PtSamePort
<1>5. QED
  BY <1>1, <1>3, <1>4, PtPromisedKept

\* Whoever uses port t, when its life ends or nobody lives there.
LEMMA PtCallsOthers ==
  ASSUME PtTypes, PtCallsOK, NEW p \in PtProc, NEW c, NEW t \in Port,
         PtNoUser(p, c), c = PtIdle \/ (c.op # "idle" /\ c.port = t),
         \A u \in Port \ {t} : PtSamePort(u),
         \A q \in PtProc \ {p} : ptcall[q].op \in PtClears => ptcall[q].port # t,
         ptseq'[t] \in Nat, ptseq'[t] > ptseq[t] \/ (ptseq'[t] = ptseq[t] /\ ptstate[t] # "PT_ALLOC"),
         PtClearing(c)', ptstate'[t] = "PT_FREE" => ptssem'[t] = NoSem /\ ptrsem'[t] = NoSem
  PROVE  PtCallsOK'
<1>1. \A q \in PtProc : ptcall'[q] = IF q = p THEN c ELSE ptcall[q]
  BY DEF PtTypes, PtNoUser
<1>2. \A q \in PtProc : ptcall[q].port \in Port /\ ptcall[q].seq \in Nat
  BY PtCallerFacts
<1>3. ptseq[t] \in Nat
  BY PortsAssumption DEF PtTypes
<1>4. ASSUME NEW q \in PtProc
      PROVE  PtUser(ptcall[q])' /\ PtClearing(ptcall[q])'
  <2>1. PICK d : d = ptcall'[q]
    OBVIOUS
  <2>2. CASE q = p
    <3>1. d = c
      BY <2>1, <2>2, <1>1
    <3>2. PtUser(d)'
      BY <3>1 DEF PtNoUser, PtUser
    <3>3. PtClearing(d)'
      BY <3>1
    <3>4. QED
      BY <2>1, <3>2, <3>3 DEF PtUser, PtClearing
  <2>3. CASE q # p
    <3>1. d = ptcall[q]
      BY <2>1, <2>3, <1>1
    <3>2. d.port \in Port /\ d.seq \in Nat /\ PtUser(d) /\ PtClearing(d)
      BY <3>1, <1>2 DEF PtCallsOK
    <3>3. CASE d.port # t
      <4>1. PtSamePort(d.port)
        BY <3>2, <3>3
      <4>2. PtUser(d)'
        BY <3>2, <4>1 DEF PtUser, PtSamePort
      <4>3. PtClearing(d)'
        BY <3>2, <4>1 DEF PtClearing, PtSamePort
      <4>4. QED
        BY <2>1, <4>2, <4>3 DEF PtUser, PtClearing
    <3>4. CASE d.port = t
      <4>1. d.op \notin PtClears
        BY <2>3, <3>1, <3>4
      <4>2. PtClearing(d)'
        BY <4>1 DEF PtClearing
      <4>3. PtUser(d)'
        BY <3>2, <3>4, <1>3 DEF PtUser
      <4>4. QED
        BY <2>1, <4>2, <4>3 DEF PtUser, PtClearing
    <3>5. QED
      BY <3>3, <3>4
  <2>4. QED
    BY <2>2, <2>3
<1>5. \A q \in PtProc : ptcall'[q] = PtIdle \/ ptcall'[q].op # "idle"
  BY <1>1 DEF PtCallsOK
<1>6. ASSUME NEW q \in PtProc, NEW r \in PtProc,
             ptcall'[q].op \in PtClears, ptcall'[r].op \in PtClears,
             ptcall'[q].port = ptcall'[r].port
      PROVE  q = r
  <2>1. PtIdle.op \notin PtClears
    BY PtIdleFacts DEF PtClears
  <2>2. \A x \in PtProc : (ptcall'[x].op \in PtClears /\ x = p) => ptcall'[x].port = t
    BY <2>1, <1>1
  <2>3. \A x \in PtProc : (ptcall'[x].op \in PtClears /\ x # p) => ptcall'[x].port # t /\ ptcall'[x] = ptcall[x]
    BY <1>1
  <2>4. CASE q = p \/ r = p
    BY <1>6, <2>2, <2>3, <2>4
  <2>5. CASE q # p /\ r # p
    BY <1>6, <2>3, <2>5 DEF PtCallsOK
  <2>6. QED
    BY <2>4, <2>5
<1>7. \A u \in Port : ptstate'[u] = "PT_FREE" => ptssem'[u] = NoSem /\ ptrsem'[u] = NoSem
  BY DEF PtCallsOK, PtSamePort
<1>8. QED
  BY <1>4, <1>5, <1>6, <1>7 DEF PtCallsOK

\* What is left of a semaphore that is reset or deleted.
LEMMA PtReleasedSem ==
  ASSUME NEW P, NEW s, s \in {NoSem} \cup SemOf(P), NEW n \in Nat, NEW op \in PtClears,
         NEW r, r = IF op = "reset" THEN WasReset(s, n) ELSE NoSem
  PROVE  /\ r \in {NoSem} \cup SemOf(P) /\ SemOK(r)
         /\ op = "reset" => r \in {NoSem, SemCreated(n)} /\ (r = NoSem <=> s = NoSem)
         /\ op = "delete" => r = NoSem
         /\ s.used <=> s # NoSem
<1>1. s.used <=> s # NoSem
  BY PtSemFacts
<1>2. SemCreated(n) \in SemOf(P) /\ SemOK(SemCreated(n)) /\ SemCreated(n) # NoSem
  BY PromisesFresh, PtSemFacts
<1>3. CASE op = "delete"
  BY <1>1, <1>3, PtSemFacts
<1>4. CASE op = "reset"
  BY <1>1, <1>2, <1>4, PtSemFacts DEF WasReset
<1>5. QED
  BY <1>3, <1>4 DEF PtClears

\* One semaphore more or less.
LEMMA PtUsedCount ==
  ASSUME NEW sem, NEW sem2, NEW t \in Port, \A u \in Port \ {t} : sem2[u] = sem[u]
  PROVE  /\ Cardinality(PtUsed(sem)) \in Nat /\ Cardinality(PtUsed(sem2)) \in Nat
         /\ (sem[t] = NoSem <=> sem2[t] = NoSem) => Cardinality(PtUsed(sem2)) = Cardinality(PtUsed(sem))
         /\ sem[t] = NoSem /\ sem2[t] # NoSem => Cardinality(PtUsed(sem2)) = Cardinality(PtUsed(sem)) + 1
         /\ sem[t] # NoSem /\ sem2[t] = NoSem => Cardinality(PtUsed(sem2)) = Cardinality(PtUsed(sem)) - 1
<1>1. IsFiniteSet(Port)
  BY PtFacts, FS_Interval
<1>2. PICK S, S2 : S = PtUsed(sem) /\ S2 = PtUsed(sem2)
  OBVIOUS
<1>3. IsFiniteSet(S) /\ IsFiniteSet(S2)
  <2>1. S \in SUBSET Port /\ S2 \in SUBSET Port
    BY <1>2 DEF PtUsed
  <2>2. QED
    BY <2>1, <1>1, FS_Subset
<1>4. Cardinality(S) \in Nat /\ Cardinality(S2) \in Nat
  BY <1>3, FS_CardinalityType
<1>5. (sem[t] = NoSem <=> sem2[t] = NoSem) => S2 = S
  BY <1>2 DEF PtUsed
<1>6. sem[t] = NoSem /\ sem2[t] # NoSem => Cardinality(S2) = Cardinality(S) + 1
  <2> SUFFICES ASSUME sem[t] = NoSem, sem2[t] # NoSem PROVE Cardinality(S2) = Cardinality(S) + 1
    OBVIOUS
  <2>1. S2 = S \cup {t} /\ t \notin S
    BY <1>2 DEF PtUsed
  <2>2. QED
    BY <2>1, <1>3, FS_AddElement
<1>7. sem[t] # NoSem /\ sem2[t] = NoSem => Cardinality(S2) = Cardinality(S) - 1
  <2> SUFFICES ASSUME sem[t] # NoSem, sem2[t] = NoSem PROVE Cardinality(S2) = Cardinality(S) - 1
    OBVIOUS
  <2>1. S2 = S \ {t} /\ t \in S
    BY <1>2 DEF PtUsed
  <2>2. QED
    BY <2>1, <1>3, FS_RemoveElement
<1>8. QED
  BY <1>2, <1>4, <1>5, <1>6, <1>7

\* The entries of the semaphore table, after a reset or a deletion of ptssem[t] or ptrsem[t].
LEMMA PtReleaseCounted ==
  ASSUME PtTypes, PtSemsCounted, NEW p, NEW t \in Port, NEW op \in PtClears, NEW n \in Nat,
         \/ PtRelease(p, ptssem, t, op, n) /\ UNCHANGED ptrsem
         \/ PtRelease(p, ptrsem, t, op, n) /\ UNCHANGED ptssem
  PROVE  PtSemsCounted' /\ ptsemsleft' \in Nat
<1>1. PICK s, s2, r, r2 : s = ptssem /\ s2 = ptssem' /\ r = ptrsem /\ r2 = ptrsem'
  OBVIOUS
<1>2. /\ s \in [Port -> {NoSem} \cup SemOf(PtProc)] /\ r \in [Port -> {NoSem} \cup SemOf(PtProc)]
      /\ ptsemsleft \in Nat
  BY <1>1 DEF PtTypes
<1>3. ptsemsleft + Cardinality(PtUsed(s)) + Cardinality(PtUsed(r)) = PtSems
  BY <1>1 DEF PtSemsCounted
<1>4. ASSUME ptsemsleft' + Cardinality(PtUsed(s2)) + Cardinality(PtUsed(r2)) = PtSems
      PROVE  PtSemsCounted'
  BY <1>1, <1>4 DEF PtSemsCounted, PtUsed
<1>5. Cardinality(PtUsed(s)) \in Nat /\ Cardinality(PtUsed(r)) \in Nat
  BY PtUsedCount
<1>6. ASSUME NEW x \in [Port -> {NoSem} \cup SemOf(PtProc)], NEW x2,
             x2 = [x EXCEPT ![t] = IF op = "reset" THEN WasReset(@, n) ELSE NoSem],
             ptsemsleft' = IF op = "delete" /\ x[t].used THEN ptsemsleft + 1 ELSE ptsemsleft
      PROVE  ptsemsleft' + Cardinality(PtUsed(x2)) = ptsemsleft + Cardinality(PtUsed(x))
  <2>1. PICK y : y = IF op = "reset" THEN WasReset(x[t], n) ELSE NoSem
    OBVIOUS
  <2>2. x[t] \in {NoSem} \cup SemOf(PtProc) /\ x2[t] = y /\ \A u \in Port \ {t} : x2[u] = x[u]
    BY <2>1, <1>6
  <2>3. /\ op = "reset" => (y = NoSem <=> x[t] = NoSem)
        /\ op = "delete" => y = NoSem
        /\ x[t].used <=> x[t] # NoSem
    BY <2>1, <2>2, PtReleasedSem
  <2>4. /\ Cardinality(PtUsed(x)) \in Nat /\ Cardinality(PtUsed(x2)) \in Nat
        /\ (x[t] = NoSem <=> y = NoSem) => Cardinality(PtUsed(x2)) = Cardinality(PtUsed(x))
        /\ x[t] # NoSem /\ y = NoSem => Cardinality(PtUsed(x2)) = Cardinality(PtUsed(x)) - 1
    BY <2>2, PtUsedCount
  <2>5. CASE op = "reset"
    <3>1. ptsemsleft' = ptsemsleft
      BY <2>5, <1>6
    <3>2. QED
      BY <3>1, <2>3, <2>4, <2>5
  <2>6. CASE op = "delete" /\ x[t] # NoSem
    <3>1. ptsemsleft' = ptsemsleft + 1
      BY <2>3, <2>6, <1>6
    <3>2. QED
      BY <3>1, <2>3, <2>4, <2>6, <1>2
  <2>7. CASE op = "delete" /\ x[t] = NoSem
    <3>1. ptsemsleft' = ptsemsleft
      BY <2>3, <2>7, <1>6
    <3>2. QED
      BY <3>1, <2>3, <2>4, <2>7
  <2>8. QED
    BY <2>5, <2>6, <2>7 DEF PtClears
<1>7. ptsemsleft' \in Nat
  BY <1>2 DEF PtRelease
<1>8. CASE PtRelease(p, ptssem, t, op, n) /\ UNCHANGED ptrsem
  <2>1. /\ s2 = [s EXCEPT ![t] = IF op = "reset" THEN WasReset(@, n) ELSE NoSem]
        /\ ptsemsleft' = (IF op = "delete" /\ s[t].used THEN ptsemsleft + 1 ELSE ptsemsleft)
        /\ r2 = r
    BY <1>1, <1>8 DEF PtRelease
  <2>2. ptsemsleft' + Cardinality(PtUsed(s2)) = ptsemsleft + Cardinality(PtUsed(s))
    BY <2>1, <1>2, <1>6
  <2>3. Cardinality(PtUsed(s2)) \in Nat
    <3>1. \A u \in Port \ {t} : s2[u] = s[u]
      BY <2>1, <1>2
    <3>2. QED
      BY <3>1, PtUsedCount
  <2>4. ptsemsleft' + Cardinality(PtUsed(s2)) + Cardinality(PtUsed(r2)) = PtSems
    BY <2>1, <2>2, <2>3, <1>2, <1>3, <1>5, <1>7
  <2>5. QED
    BY <2>4, <1>4, <1>7
<1>9. CASE PtRelease(p, ptrsem, t, op, n) /\ UNCHANGED ptssem
  <2>1. /\ r2 = [r EXCEPT ![t] = IF op = "reset" THEN WasReset(@, n) ELSE NoSem]
        /\ ptsemsleft' = (IF op = "delete" /\ r[t].used THEN ptsemsleft + 1 ELSE ptsemsleft)
        /\ s2 = s
    BY <1>1, <1>9 DEF PtRelease
  <2>2. ptsemsleft' + Cardinality(PtUsed(r2)) = ptsemsleft + Cardinality(PtUsed(r))
    BY <2>1, <1>2, <1>6
  <2>3. Cardinality(PtUsed(r2)) \in Nat
    <3>1. \A u \in Port \ {t} : r2[u] = r[u]
      BY <2>1, <1>2
    <3>2. QED
      BY <3>1, PtUsedCount
  <2>4. ptsemsleft' + Cardinality(PtUsed(s2)) + Cardinality(PtUsed(r2)) = PtSems
    BY <2>1, <2>2, <2>3, <1>2, <1>3, <1>5, <1>7
  <2>5. QED
    BY <2>4, <1>4, <1>7
<1>10. QED
  BY <1>8, <1>9

\* The lists after _ptclear has freed the messages of t.
PtListsAfterClear(t) ==
    [u \in PtKeys \ {t} |-> IF u = -1 THEN PtLists[t] \o PtLists[u] ELSE PtLists[u]]

LEMMA PtClearNodes ==
  ASSUME PtIInv, NEW t \in PtOpen, NEW op, PtFreeMsgs(t, op)
  PROVE  /\ PtListsAre(ptnext', ptfree', pthead', pttail', PtKeys \ {t}, PtListsAfterClear(t))
         /\ pthead' \in [Port -> PtNode \cup {NULL}]
         /\ pttail' \in [Port -> PtNode \cup {NULL}]
         /\ ptnext' \in [PtNode -> PtNode \cup {NULL}]
         /\ ptfree' \in PtNode \cup {NULL}
         /\ ptmsg' = ptmsg
         /\ \A u \in Port \ {t} : pthead'[u] = pthead[u] /\ pttail'[u] = pttail[u]
         /\ op = "reset" => pthead'[t] = NULL /\ pttail'[t] = NULL
<1>1. PtTypes /\ PtNodesShared /\ t \in Port /\ t # -1 /\ t \in PtKeys /\ -1 \in PtKeys
  BY PtKeyFacts DEF PtIInv, PtKeys
<1>2. /\ ptnext' = IF pthead[t] = NULL THEN ptnext ELSE [ptnext EXCEPT ![pttail[t]] = ptfree]
      /\ ptfree' = IF pthead[t] = NULL THEN ptfree ELSE pthead[t]
      /\ pthead' = [pthead EXCEPT ![t] = IF op = "reset" THEN NULL ELSE @]
      /\ pttail' = [pttail EXCEPT ![t] = IF op = "reset" THEN NULL ELSE @]
      /\ ptmsg' = ptmsg
  BY DEF PtFreeMsgs
<1>3. /\ pthead \in [Port -> PtNode \cup {NULL}]
      /\ pttail \in [Port -> PtNode \cup {NULL}]
      /\ ptnext \in [PtNode -> PtNode \cup {NULL}]
      /\ ptfree \in PtNode \cup {NULL}
  BY <1>1 DEF PtTypes
<1>4. PICK L2 : L2 = PtListsAfterClear(t)
  OBVIOUS
<1>5. /\ L2[-1] = PtLists[t] \o PtLists[-1]
      /\ \A u \in PtKeys \ {-1, t} : L2[u] = PtLists[u]
  BY <1>1, <1>4 DEF PtListsAfterClear
<1>6. \A u \in Port \ {t} : pthead'[u] = pthead[u] /\ pttail'[u] = pttail[u]
  BY <1>2, <1>3
<1>7. /\ PtListsAre(ptnext', ptfree', pthead', pttail', PtKeys \ {t}, L2)
      /\ pthead[t] \in PtNode \cup {NULL} /\ ptfree \in PtNode \cup {NULL}
  <2>1. PICK w, f, h, ta, L, K, w2, f2, h2, ta2 :
           /\ w = ptnext /\ f = ptfree /\ h = pthead /\ ta = pttail /\ L = PtLists /\ K = PtKeys
           /\ w2 = ptnext' /\ f2 = ptfree' /\ h2 = pthead' /\ ta2 = pttail'
    OBVIOUS
  <2>2. PtListsAre(w, f, h, ta, K, L) /\ t \in K /\ t # -1 /\ -1 \in K
    BY <1>1, <2>1 DEF PtNodesShared
  <2>3. f2 = IF h[t] = NULL THEN f ELSE h[t]
    BY <1>2, <2>1
  <2>4. \A m \in PtNode : w2[m] = IF h[t] # NULL /\ m = ta[t] THEN f ELSE w[m]
    BY <1>2, <1>3, <2>1
  <2>5. \A u \in K \ {-1, t} : h2[u] = h[u] /\ ta2[u] = ta[u]
    BY <1>6, <2>1, PtKeyFacts
  <2>6. L2[-1] = L[t] \o L[-1] /\ \A u \in K \ {-1, t} : L2[u] = L[u]
    BY <1>5, <2>1
  <2>7. PtClearsOf(w, f, h, ta, K, L, w2, f2, h2, ta2, L2, t)
    BY <2>2, <2>3, <2>4, <2>5, <2>6 DEF PtClearsOf
  <2>8. PtListsAre(w2, f2, h2, ta2, K \ {t}, L2)
    BY <2>2, <2>7, PtListsClear
  <2>9. QED
    BY <2>1, <2>8, <1>1, <1>3
<1>8. /\ pthead' \in [Port -> PtNode \cup {NULL}]
      /\ pttail' \in [Port -> PtNode \cup {NULL}]
      /\ ptnext' \in [PtNode -> PtNode \cup {NULL}]
      /\ ptfree' \in PtNode \cup {NULL}
  <2>1. pthead' \in [Port -> PtNode \cup {NULL}]
    BY <1>1, <1>2, <1>3
  <2>2. pttail' \in [Port -> PtNode \cup {NULL}]
    BY <1>1, <1>2, <1>3
  <2>3. ptnext' \in [PtNode -> PtNode \cup {NULL}]
    <3>1. [ptnext EXCEPT ![pttail[t]] = ptfree] \in [PtNode -> PtNode \cup {NULL}]
      BY <1>3
    <3>2. QED
      BY <3>1, <1>2, <1>3
  <2>4. ptfree' \in PtNode \cup {NULL}
    BY <1>2, <1>7
  <2>5. QED
    BY <2>1, <2>2, <2>3, <2>4
<1>9. op = "reset" => pthead'[t] = NULL /\ pttail'[t] = NULL
  BY <1>1, <1>2, <1>3
<1>10. QED
  BY <1>2, <1>4, <1>6, <1>7, <1>8, <1>9

LEMMA PtClearOK ==
  ASSUME PtIInv, NEW p \in PtProc, NEW t \in Port, NEW op \in PtClears, PtClear(p, t, op)
  PROVE  PtIInv'
<1>1. /\ PtTypes /\ PtNodesShared /\ PtMessages /\ PtCallsOK /\ PtSemsCounted
      /\ \A u \in PtOpen : PtPromised(u)
  BY DEF PtIInv
<1>2. /\ ~ptpanic /\ ptcall[p] = PtIdle /\ ptstate[t] = "PT_ALLOC" /\ ptseq[t] < MaxPtSeq
      /\ ptstate' = [ptstate EXCEPT ![t] = "PT_LIMBO"]
      /\ ptseq' = [ptseq EXCEPT ![t] = @ + 1]
      /\ PtFreeMsgs(t, op)
      /\ PtRelease(p, ptssem, t, op, ptmaxcnt[t])
      /\ UNCHANGED <<ptmaxcnt, ptrsem, ptnextid, ptpanic>>
  BY DEF PtClear, PtCalls, PtMay
<1>3. PICK c : c = [op |-> op, port |-> t, seq |-> 0]
  OBVIOUS
<1>4. ptcall' = [ptcall EXCEPT ![p] = c]
  BY <1>3 DEF PtClear
<1>5. t \in PtOpen /\ t # -1 /\ t \in PtKeys /\ -1 \in PtKeys
  BY <1>2, PtKeyFacts DEF PtOpen, PtKeys
<1>6. c.op = op /\ c.port = t /\ c.seq = 0
  BY <1>3
<1>7. c \in PtCallOf
  BY <1>3 DEF PtCallOf, PtOps, PtClears
<1>8. PtNoUser(p, c)
  <2>1. c.op \notin {"send", "recv"} /\ ptcall[p].op \notin {"send", "recv"}
    BY <1>2, <1>6, PtIdleFacts DEF PtClears
  <2>2. QED
    BY <2>1, <1>4, <1>7 DEF PtNoUser
<1>9. PICK L2 : L2 = PtListsAfterClear(t)
  OBVIOUS
<1>10. /\ PtListsAre(ptnext', ptfree', pthead', pttail', PtKeys \ {t}, L2)
       /\ pthead' \in [Port -> PtNode \cup {NULL}]
       /\ pttail' \in [Port -> PtNode \cup {NULL}]
       /\ ptnext' \in [PtNode -> PtNode \cup {NULL}]
       /\ ptfree' \in PtNode \cup {NULL}
       /\ ptmsg' = ptmsg
       /\ \A u \in Port \ {t} : pthead'[u] = pthead[u] /\ pttail'[u] = pttail[u]
       /\ op = "reset" => pthead'[t] = NULL /\ pttail'[t] = NULL
  BY <1>2, <1>5, <1>9, PtClearNodes
<1>11. /\ ptstate \in [Port -> {"PT_FREE", "PT_LIMBO", "PT_ALLOC"}]
       /\ ptseq \in [Port -> 0 .. MaxPtSeq] /\ MaxPtSeq \in Nat
       /\ ptssem \in [Port -> {NoSem} \cup SemOf(PtProc)]
       /\ ptmaxcnt \in [Port -> Nat]
  BY <1>1, PortsAssumption DEF PtTypes
<1>12. PtOpen' = PtOpen \ {t} /\ PtKeys' = PtKeys \ {t}
  <2>1. \A u \in Port : ptstate'[u] = IF u = t THEN "PT_LIMBO" ELSE ptstate[u]
    BY <1>2, <1>11
  <2>2. PtOpen' = PtOpen \ {t}
    BY <2>1 DEF PtOpen
  <2>3. QED
    BY <2>2, <1>5 DEF PtKeys
<1>13. /\ PtLists' = L2 /\ PtNodesShared'
       /\ \A u \in PtOpen' : PtLists'[u] = PtLists[u]
  <2>1. L2 = [u \in PtKeys' |-> L2[u]]
    BY <1>9, <1>12 DEF PtListsAfterClear
  <2>2. PtLists' = L2 /\ PtNodesShared'
    BY <2>1, <1>10, <1>12, PtListsNext
  <2>3. \A u \in PtOpen' : u \in PtKeys \ {t} /\ u # -1
    BY <1>12, PtKeyFacts DEF PtKeys
  <2>4. QED
    BY <2>2, <2>3, <1>9 DEF PtListsAfterClear
<1>14. PICK r : r = IF op = "reset" THEN WasReset(ptssem[t], ptmaxcnt[t]) ELSE NoSem
  OBVIOUS
<1>15. /\ r \in {NoSem} \cup SemOf(PtProc) /\ SemOK(r)
       /\ op = "reset" => r \in {NoSem, SemCreated(ptmaxcnt[t])}
       /\ op = "delete" => r = NoSem
  <2>1. ptssem[t] \in {NoSem} \cup SemOf(PtProc) /\ ptmaxcnt[t] \in Nat
    BY <1>11
  <2>2. QED
    BY <2>1, <1>14, PtReleasedSem
<1>16. ptssem' = [ptssem EXCEPT ![t] = r]
  BY <1>2, <1>14 DEF PtRelease
<1>17. PtSemsCounted' /\ ptsemsleft' \in Nat
  <2>1. ptmaxcnt[t] \in Nat /\ UNCHANGED ptrsem
    BY <1>2, <1>11
  <2>2. QED
    BY <2>1, <1>1, <1>2, PtReleaseCounted
<1>18. PtTypes'
  <2>1. ptstate' \in [Port -> {"PT_FREE", "PT_LIMBO", "PT_ALLOC"}]
    BY <1>2, <1>11
  <2>2. ptseq' \in [Port -> 0 .. MaxPtSeq]
    BY <1>2, <1>11
  <2>3. ptssem' \in [Port -> {NoSem} \cup SemOf(PtProc)] /\ \A u \in Port : SemOK(ptssem'[u])
    BY <1>1, <1>15, <1>16 DEF PtTypes
  <2>4. ptcall' \in [PtProc -> PtCallOf]
    BY <1>1, <1>4, <1>7 DEF PtTypes
  <2>5. busy' \in PtProc \cup {Nobody}
    BY <1>2 DEF PtRelease
  <2>6. QED
    BY <1>1, <1>2, <1>10, <1>17, <2>1, <2>2, <2>3, <2>4, <2>5 DEF PtTypes
<1>19. \A u \in Port \ {t} : PtSamePort(u)
  BY <1>2, <1>10, <1>11, <1>16 DEF PtSamePort
<1>20. PtMessages'
  <2>1. \A u \in PtOpen' : u \in PtOpen /\ ptseq'[u] = ptseq[u]
    BY <1>12, <1>19, PtKeyFacts DEF PtSamePort
  <2>2. QED
    BY <2>1, <1>1, <1>10, <1>13 DEF PtMessages
<1>21. PtCallsOK'
  <2>1. \A q \in PtProc \ {p} : ptcall[q].op \in PtClears => ptcall[q].port # t
    BY <1>1, <1>2 DEF PtCallsOK, PtClearing
  <2>2. ptseq[t] \in Nat /\ ptseq'[t] = ptseq[t] + 1 /\ ptstate'[t] = "PT_LIMBO" /\ ptssem'[t] = r
        /\ ptmaxcnt'[t] = ptmaxcnt[t]
    BY <1>2, <1>11, <1>16
  <2>3. PtClearing(c)'
    <3>1. ptseq'[t] >= 1 /\ ptseq'[t] \in Nat
      BY <2>2
    <3>2. \A x : ~(0 = 1 /\ x)
      OBVIOUS
    <3>3. QED
      BY <2>2, <3>1, <1>6, <1>10, <1>15 DEF PtClearing
  <2>4. c.op # "idle" /\ c.port = t
    BY <1>6 DEF PtClears
  <2>5. ptseq'[t] \in Nat /\ ptseq'[t] > ptseq[t]
    BY <2>2
  <2>6. ptstate'[t] # "PT_FREE"
    BY <2>2
  <2>7. QED
    BY <2>1, <2>3, <2>4, <2>5, <2>6, <1>1, <1>8, <1>19, PtCallsOthers
<1>22. \A u \in PtOpen' : PtPromised(u)'
  <2> TAKE u \in PtOpen'
  <2>1. u \in PtOpen /\ u \in Port \ {t}
    BY <1>12, PtKeyFacts
  <2>2. PtSamePort(u) /\ Len(PtLists'[u]) = Len(PtLists[u]) /\ (ptpanic => ptpanic')
    BY <2>1, <1>2, <1>13, <1>19
  <2>3. QED
    BY <2>1, <2>2, <1>8, PtOthersKept
<1>23. PanicOnlyWhenOversold'
  BY <1>2 DEF PanicOnlyWhenOversold
<1>24. QED
  BY <1>13, <1>17, <1>18, <1>20, <1>21, <1>22, <1>23 DEF PtIInv

\* The lists do not change.
LEMMA PtNodesStay ==
  ASSUME PtNodesShared, UNCHANGED <<ptstate, ptNodeVars>>
  PROVE  PtOpen' = PtOpen /\ PtKeys' = PtKeys /\ PtLists' = PtLists /\ PtNodesShared'
<1>1. PtOpen' = PtOpen /\ PtKeys' = PtKeys
  BY DEF PtOpen, PtKeys
<1>2. PtLists = [u \in PtKeys' |-> PtLists[u]]
  BY <1>1 DEF PtLists, PtKeys
<1>3. PtListsAre(ptnext', ptfree', pthead', pttail', PtKeys', PtLists)
  BY <1>1 DEF PtNodesShared, ptNodeVars
<1>4. PtLists' = PtLists /\ PtNodesShared'
  BY <1>2, <1>3, PtListsNext
<1>5. QED
  BY <1>1, <1>4

\* Nobody is in a call of the life that begins.
LEMMA PtNoCallers ==
  ASSUME PtTypes, PtCallsOK, NEW p \in PtProc, NEW c, PtNoUser(p, c), NEW t \in Port,
         ptstate[t] # "PT_ALLOC", ptseq'[t] \in Nat, ptseq'[t] >= ptseq[t], NEW op \in {"send", "recv"}
  PROVE  PtCallers(op, t)' = {}
<1> SUFFICES ASSUME NEW q \in PtCallers(op, t)' PROVE FALSE
  OBVIOUS
<1>1. q \in PtProc /\ ptcall'[q] = [op |-> op, port |-> t, seq |-> ptseq'[t]]
  BY DEF PtCallers
<1>2. PICK d : d = ptcall'[q]
  OBVIOUS
<1>3. d.op = op /\ d.port = t /\ d.seq = ptseq'[t]
  BY <1>1, <1>2
<1>4. q # p
  <2>1. ptcall'[p] = c /\ c.op # op
    BY DEF PtTypes, PtNoUser
  <2>2. QED
    BY <2>1, <1>2, <1>3
<1>5. d = ptcall[q]
  BY <1>1, <1>2, <1>4 DEF PtTypes, PtNoUser
<1>6. d.seq < ptseq[t]
  <2>1. PtUser(d)
    BY <1>1, <1>5 DEF PtCallsOK
  <2>2. QED
    BY <2>1, <1>3 DEF PtUser
<1>7. ptseq[t] \in Nat
  BY PortsAssumption DEF PtTypes
<1>8. QED
  BY <1>3, <1>6, <1>7

\* The process that resets or deletes port t.
LEMMA PtClearerFacts ==
  ASSUME PtTypes, PtCallsOK, NEW p \in PtProc, NEW op \in PtClears, ptcall[p].op = op, NEW t, t = ptcall[p].port
  PROVE  /\ t \in Port /\ ptstate[t] = "PT_LIMBO" /\ ptseq[t] \in Nat /\ ptseq[t] >= 1
         /\ t \notin PtOpen
         /\ \A q \in PtProc \ {p} : ptcall[q].op \in PtClears => ptcall[q].port # t
         /\ op = "reset" => /\ pthead[t] = NULL /\ pttail[t] = NULL
                            /\ ptssem[t] \in {NoSem, SemCreated(ptmaxcnt[t])}
                            /\ ptcall[p].seq = 1 => ptrsem[t] \in {NoSem, SemCreated(0)}
         /\ op = "delete" => /\ ptssem[t] = NoSem
                             /\ ptcall[p].seq = 1 => ptrsem[t] = NoSem
<1>1. t \in Port
  BY PtCallerFacts
<1>2. PICK d : d = ptcall[p]
  OBVIOUS
<1>3. PtClearing(d) /\ d.op = op /\ d.port = t
  BY <1>2 DEF PtCallsOK
<1>4. /\ ptstate[t] = "PT_LIMBO" /\ ptseq[t] >= 1
      /\ op = "reset" => /\ pthead[t] = NULL /\ pttail[t] = NULL
                         /\ ptssem[t] \in {NoSem, SemCreated(ptmaxcnt[t])}
                         /\ d.seq = 1 => ptrsem[t] \in {NoSem, SemCreated(0)}
      /\ op = "delete" => /\ ptssem[t] = NoSem
                          /\ d.seq = 1 => ptrsem[t] = NoSem
  BY <1>3 DEF PtClearing
<1>5. ptseq[t] \in Nat
  BY <1>1, PortsAssumption DEF PtTypes
<1>6. t \notin PtOpen
  BY <1>4 DEF PtOpen
<1>7. \A q \in PtProc \ {p} : ptcall[q].op \in PtClears => ptcall[q].port # t
  BY DEF PtCallsOK
<1>8. QED
  BY <1>1, <1>2, <1>4, <1>5, <1>6, <1>7

LEMMA PtClearGoesOnOK ==
  ASSUME PtIInv, NEW p \in PtProc, NEW op \in PtClears, PtClearGoesOn(p, op)
  PROVE  PtIInv'
<1>1. /\ PtTypes /\ PtNodesShared /\ PtMessages /\ PtCallsOK /\ PtSemsCounted
      /\ \A u \in PtOpen : PtPromised(u)
  BY DEF PtIInv
<1>2. PICK t : t = ptcall[p].port
  OBVIOUS
<1>3. /\ ptcall[p].op = op /\ ptcall[p].seq = 0
      /\ PtRelease(p, ptrsem, t, op, 0)
      /\ ptcall' = [ptcall EXCEPT ![p].seq = 1]
      /\ UNCHANGED <<ptstate, ptseq, ptmaxcnt, ptssem, ptNodeVars, ptnextid, ptpanic>>
  BY <1>2 DEF PtClearGoesOn, PtGoesOn
<1>4. /\ t \in Port /\ ptstate[t] = "PT_LIMBO" /\ ptseq[t] \in Nat /\ ptseq[t] >= 1
      /\ t \notin PtOpen
      /\ \A q \in PtProc \ {p} : ptcall[q].op \in PtClears => ptcall[q].port # t
      /\ op = "reset" => /\ pthead[t] = NULL /\ pttail[t] = NULL
                         /\ ptssem[t] \in {NoSem, SemCreated(ptmaxcnt[t])}
      /\ op = "delete" => ptssem[t] = NoSem
  BY <1>1, <1>2, <1>3, PtClearerFacts
<1>5. PICK c : c = [op |-> op, port |-> t, seq |-> 1]
  OBVIOUS
<1>6. c.op = op /\ c.port = t /\ c.seq = 1 /\ c \in PtCallOf
  BY <1>4, <1>5 DEF PtCallOf, PtOps, PtClears
<1>7. ptcall' = [ptcall EXCEPT ![p] = c]
  <2>1. ptcall[p] \in PtCallOf
    BY <1>1 DEF PtTypes
  <2>2. [ptcall[p] EXCEPT !.seq = 1] = c
    BY <2>1, <1>2, <1>3, <1>5 DEF PtCallOf
  <2>3. QED
    BY <2>2, <1>3
<1>8. PtNoUser(p, c)
  <2>1. c.op \notin {"send", "recv"} /\ ptcall[p].op \notin {"send", "recv"}
    BY <1>3, <1>6 DEF PtClears
  <2>2. QED
    BY <2>1, <1>6, <1>7 DEF PtNoUser
<1>9. PtOpen' = PtOpen /\ PtKeys' = PtKeys /\ PtLists' = PtLists /\ PtNodesShared'
  BY <1>1, <1>3, PtNodesStay
<1>10. PICK r : r = IF op = "reset" THEN WasReset(ptrsem[t], 0) ELSE NoSem
  OBVIOUS
<1>11. /\ r \in {NoSem} \cup SemOf(PtProc) /\ SemOK(r)
       /\ op = "reset" => r \in {NoSem, SemCreated(0)}
       /\ op = "delete" => r = NoSem
  <2>1. ptrsem[t] \in {NoSem} \cup SemOf(PtProc) /\ 0 \in Nat
    BY <1>1, <1>4 DEF PtTypes
  <2>2. QED
    BY <2>1, <1>10, PtReleasedSem
<1>12. ptrsem' = [ptrsem EXCEPT ![t] = r]
  BY <1>3, <1>10 DEF PtRelease
<1>13. PtSemsCounted' /\ ptsemsleft' \in Nat
  <2>1. 0 \in Nat /\ UNCHANGED ptssem
    BY <1>3
  <2>2. QED
    BY <2>1, <1>1, <1>3, <1>4, PtReleaseCounted
<1>14. PtTypes'
  <2>1. ptrsem' \in [Port -> {NoSem} \cup SemOf(PtProc)] /\ \A u \in Port : SemOK(ptrsem'[u])
    BY <1>1, <1>11, <1>12 DEF PtTypes
  <2>2. ptcall' \in [PtProc -> PtCallOf]
    BY <1>1, <1>6, <1>7 DEF PtTypes
  <2>3. busy' \in PtProc \cup {Nobody}
    BY <1>3 DEF PtRelease
  <2>4. QED
    BY <1>1, <1>3, <1>13, <2>1, <2>2, <2>3 DEF PtTypes, ptNodeVars
<1>15. \A u \in Port \ {t} : PtSamePort(u)
  BY <1>1, <1>3, <1>12 DEF PtSamePort, PtTypes, ptNodeVars
<1>16. PtMessages'
  BY <1>1, <1>3, <1>9 DEF PtMessages, ptNodeVars
<1>17. PtCallsOK'
  <2>1. /\ ptstate'[t] = "PT_LIMBO" /\ ptseq'[t] = ptseq[t] /\ ptssem'[t] = ptssem[t]
        /\ pthead'[t] = pthead[t] /\ pttail'[t] = pttail[t] /\ ptmaxcnt'[t] = ptmaxcnt[t]
    BY <1>3, <1>4 DEF ptNodeVars
  <2>2. ptrsem'[t] = r
    BY <1>1, <1>4, <1>12 DEF PtTypes
  <2>3. PtClearing(c)'
    BY <2>1, <2>2, <1>4, <1>6, <1>11 DEF PtClearing
  <2>4. c.op # "idle" /\ c.port = t
    BY <1>6 DEF PtClears
  <2>5. ptseq'[t] \in Nat /\ ptseq'[t] = ptseq[t] /\ ptstate[t] # "PT_ALLOC" /\ ptstate'[t] # "PT_FREE"
    BY <2>1, <1>4
  <2>6. QED
    BY <2>3, <2>4, <2>5, <1>1, <1>4, <1>8, <1>15, PtCallsOthers
<1>18. \A u \in PtOpen' : PtPromised(u)'
  <2> TAKE u \in PtOpen'
  <2>1. u \in PtOpen /\ u \in Port \ {t}
    BY <1>4, <1>9, PtKeyFacts
  <2>2. PtSamePort(u) /\ Len(PtLists'[u]) = Len(PtLists[u]) /\ (ptpanic => ptpanic')
    BY <2>1, <1>3, <1>9, <1>15
  <2>3. QED
    BY <2>1, <2>2, <1>8, PtOthersKept
<1>19. PanicOnlyWhenOversold'
  <2>1. PtPlaces' = PtPlaces
    BY <1>3, <1>9 DEF PtPlaces
  <2>2. QED
    BY <2>1, <1>3 DEF PtIInv, PanicOnlyWhenOversold
<1>20. QED
  BY <1>9, <1>13, <1>14, <1>16, <1>17, <1>18, <1>19 DEF PtIInv

\* The calls, when p has ended a life of port t or has begun one.
LEMMA PtClearerReturns ==
  ASSUME PtTypes, PtCallsOK, NEW p \in PtProc, ptcall[p].op \notin {"send", "recv"}, PtReturn(p)
  PROVE  PtNoUser(p, PtIdle) /\ PtClearing(PtIdle)' /\ ptcall' \in [PtProc -> PtCallOf]
<1>1. PtIdle \in PtCallOf /\ PtIdle.op \notin {"send", "recv"} /\ PtIdle.op \notin PtClears
  BY PtIdleFacts DEF PtClears
<1>2. ptcall' = [ptcall EXCEPT ![p] = PtIdle]
  BY DEF PtReturn
<1>3. PtNoUser(p, PtIdle) /\ ptcall' \in [PtProc -> PtCallOf]
  BY <1>1, <1>2 DEF PtNoUser, PtTypes
<1>4. PtClearing(PtIdle)'
  <2>1. PICK c : c = PtIdle
    OBVIOUS
  <2>2. PtClearing(c)'
    BY <2>1, <1>1 DEF PtClearing
  <2>3. QED
    BY <2>1, <2>2 DEF PtIdle
<1>5. QED
  BY <1>3, <1>4

LEMMA PtClearEndsOK ==
  ASSUME PtIInv, NEW p \in PtProc, NEW op \in PtClears, PtClearEnds(p, op)
  PROVE  PtIInv'
<1>1. /\ PtTypes /\ PtNodesShared /\ PtMessages /\ PtCallsOK /\ PtSemsCounted
      /\ \A u \in PtOpen : PtPromised(u)
  BY DEF PtIInv
<1>2. PICK t : t = ptcall[p].port
  OBVIOUS
<1>3. /\ ptcall[p].op = op /\ ptcall[p].seq = 1 /\ ~ptpanic
      /\ ptstate' = [ptstate EXCEPT ![t] = IF op = "reset" THEN "PT_ALLOC" ELSE "PT_FREE"]
      /\ ptnextid' = IF op = "delete" THEN t ELSE ptnextid
      /\ PtReturn(p)
      /\ UNCHANGED <<ptseq, ptmaxcnt, ptssem, ptrsem, ptNodeVars, ptsemsleft, ptpanic>>
  BY <1>2 DEF PtClearEnds, PtGoesOn, PtMay
<1>4. /\ t \in Port /\ ptstate[t] = "PT_LIMBO" /\ ptseq[t] \in Nat /\ t \notin PtOpen
      /\ \A q \in PtProc \ {p} : ptcall[q].op \in PtClears => ptcall[q].port # t
      /\ op = "reset" => /\ pthead[t] = NULL /\ pttail[t] = NULL
                         /\ ptssem[t] \in {NoSem, SemCreated(ptmaxcnt[t])}
                         /\ ptrsem[t] \in {NoSem, SemCreated(0)}
      /\ op = "delete" => ptssem[t] = NoSem /\ ptrsem[t] = NoSem
  BY <1>1, <1>2, <1>3, PtClearerFacts
<1>5. PtNoUser(p, PtIdle) /\ PtClearing(PtIdle)' /\ ptcall' \in [PtProc -> PtCallOf]
  <2>1. ptcall[p].op \notin {"send", "recv"}
    BY <1>3 DEF PtClears
  <2>2. QED
    BY <2>1, <1>1, <1>3, PtClearerReturns
<1>6. \A u \in Port : ptstate'[u] = IF u = t THEN IF op = "reset" THEN "PT_ALLOC" ELSE "PT_FREE"
                                    ELSE ptstate[u]
  BY <1>1, <1>3 DEF PtTypes
<1>7. PtTypes'
  <2>1. ptstate' \in [Port -> {"PT_FREE", "PT_LIMBO", "PT_ALLOC"}]
    BY <1>1, <1>3 DEF PtTypes
  <2>2. ptnextid' \in Port /\ busy' \in PtProc \cup {Nobody}
    BY <1>1, <1>3, <1>4 DEF PtTypes, PtReturn
  <2>3. QED
    BY <1>1, <1>3, <1>5, <2>1, <2>2 DEF PtTypes, ptNodeVars
<1>8. \A u \in Port \ {t} : PtSamePort(u)
  BY <1>3, <1>6 DEF PtSamePort, ptNodeVars
<1>9. PtCallsOK'
  <2>1. ptseq'[t] \in Nat /\ ptseq'[t] = ptseq[t] /\ ptstate[t] # "PT_ALLOC"
    BY <1>3, <1>4
  <2>2. ptstate'[t] = "PT_FREE" => ptssem'[t] = NoSem /\ ptrsem'[t] = NoSem
    BY <1>3, <1>4, <1>6 DEF PtClears
  <2>3. QED
    BY <2>1, <2>2, <1>1, <1>4, <1>5, <1>8, PtCallsOthers
<1>10. PtSemsCounted'
  BY <1>1, <1>3, PtSemsFrame
<1>11. PtOpen' = IF op = "reset" THEN PtOpen \cup {t} ELSE PtOpen
  BY <1>4, <1>6 DEF PtOpen
<1>12. /\ PtNodesShared' /\ \A u \in PtOpen : PtLists'[u] = PtLists[u]
       /\ op = "reset" => PtLists'[t] = <<>>
  <2>1. t # -1 /\ t \notin PtKeys /\ -1 \in PtKeys
    BY <1>4, PtKeyFacts, PtFacts DEF PtKeys
  <2>2. CASE op = "reset"
    <3>1. PICK L2 : L2 = [u \in PtKeys \cup {t} |-> IF u = t THEN <<>> ELSE PtLists[u]]
      OBVIOUS
    <3>2. PtKeys' = PtKeys \cup {t}
      BY <2>2, <1>11 DEF PtKeys
    <3>3. PtListsAre(ptnext, ptfree, pthead, pttail, PtKeys \cup {t}, L2)
      <4>1. PICK w, f, h, ta, K, L : w = ptnext /\ f = ptfree /\ h = pthead /\ ta = pttail
                                     /\ K = PtKeys /\ L = PtLists
        OBVIOUS
      <4>2. PtListsAre(w, f, h, ta, K, L) /\ h[t] = NULL /\ ta[t] = NULL /\ t \notin K /\ t # -1 /\ -1 \in K
        BY <4>1, <2>1, <2>2, <1>1, <1>4 DEF PtNodesShared
      <4>3. L2[t] = <<>> /\ \A u \in K : L2[u] = L[u]
        BY <4>1, <3>1, <2>1
      <4>4. \A u \in K \ {-1} : h[u] = h[u] /\ ta[u] = ta[u]
        OBVIOUS
      <4>5. PtListsAre(w, f, h, ta, K \cup {t}, L2)
        BY <4>2, <4>3, <4>4, PtListsOpen
      <4>6. QED
        BY <4>1, <4>5
    <3>4. PtListsAre(ptnext', ptfree', pthead', pttail', PtKeys', L2)
      BY <3>2, <3>3, <1>3 DEF ptNodeVars
    <3>5. L2 = [u \in PtKeys' |-> L2[u]]
      BY <3>1, <3>2
    <3>6. PtLists' = L2 /\ PtNodesShared'
      BY <3>4, <3>5, PtListsNext
    <3>7. \A u \in PtOpen : u \in PtKeys /\ u # t
      BY <1>4 DEF PtKeys
    <3>8. QED
      BY <3>1, <3>6, <3>7
  <2>3. CASE op = "delete"
    <3>1. PtKeys' = PtKeys
      BY <2>3, <1>11 DEF PtKeys
    <3>2. PtLists = [u \in PtKeys' |-> PtLists[u]]
      BY <3>1 DEF PtLists, PtKeys
    <3>3. PtListsAre(ptnext', ptfree', pthead', pttail', PtKeys', PtLists)
      BY <3>1, <1>1, <1>3 DEF PtNodesShared, ptNodeVars
    <3>4. PtLists' = PtLists /\ PtNodesShared'
      BY <3>2, <3>3, PtListsNext
    <3>5. QED
      BY <2>3, <3>4
  <2>4. QED
    BY <2>2, <2>3 DEF PtClears
<1>13. PtMessages'
  <2>1. CASE op = "reset"
    <3>1. Range(PtLists'[t]) = {}
      BY <2>1, <1>12, PtListOfNone
    <3>2. QED
      BY <2>1, <3>1, <1>1, <1>3, <1>11, <1>12 DEF PtMessages, ptNodeVars
  <2>2. CASE op = "delete"
    BY <2>2, <1>1, <1>3, <1>11, <1>12 DEF PtMessages, ptNodeVars
  <2>3. QED
    BY <2>1, <2>2 DEF PtClears
<1>14. \A u \in PtOpen : PtPromised(u)'
  <2> TAKE u \in PtOpen
  <2>1. u \in Port \ {t}
    BY <1>4, PtKeyFacts
  <2>2. PtSamePort(u) /\ Len(PtLists'[u]) = Len(PtLists[u]) /\ (ptpanic => ptpanic')
    BY <2>1, <1>3, <1>8, <1>12
  <2>3. QED
    BY <2>2, <1>5, PtOthersKept
<1>15. op = "reset" => PtPromised(t)'
  <2> SUFFICES ASSUME op = "reset" PROVE PtPromised(t)'
    OBVIOUS
  <2>1. PtCallers("send", t)' = {} /\ PtCallers("recv", t)' = {}
    <3>1. ptstate[t] # "PT_ALLOC" /\ ptseq'[t] \in Nat /\ ptseq'[t] >= ptseq[t]
      BY <1>3, <1>4
    <3>2. \A o \in {"send", "recv"} : PtCallers(o, t)' = {}
      BY <3>1, <1>1, <1>4, <1>5, PtNoCallers
    <3>3. QED
      BY <3>2
  <2>2. Len(PtLists'[t]) = 0
    BY <1>12
  <2>3. ptmaxcnt[t] \in Nat /\ ptmaxcnt'[t] = ptmaxcnt[t] /\ ptssem'[t] = ptssem[t] /\ ptrsem'[t] = ptrsem[t]
    BY <1>1, <1>3, <1>4 DEF PtTypes
  <2>4. PICK m : m = ptmaxcnt[t]
    OBVIOUS
  <2>5. m \in Nat /\ 0 \in Nat
    BY <2>3, <2>4
  <2>6. ptssem'[t] # NoSem => SoundFor(PtProc, {}, ptssem'[t]) /\ Promises({}, ptssem'[t]) = m
    <3>1. SoundFor(PtProc, {}, SemCreated(m)) /\ Promises({}, SemCreated(m)) = m
      BY <2>5, PromisesFresh
    <3>2. QED
      BY <3>1, <2>3, <2>4, <1>4
  <2>7. ptrsem'[t] # NoSem => SoundFor(PtProc, {}, ptrsem'[t]) /\ Promises({}, ptrsem'[t]) = 0
    <3>1. SoundFor(PtProc, {}, SemCreated(0)) /\ Promises({}, SemCreated(0)) = 0
      BY <2>5, PromisesFresh
    <3>2. QED
      BY <3>1, <2>3, <1>4
  <2>8. m + 0 = m
    BY <2>5
  <2>9. PtPromises({}, {}, ptssem'[t], ptrsem'[t], 0, m, ptpanic')
    BY <2>6, <2>7, <2>8 DEF PtPromises
  <2>10. QED
    BY <2>1, <2>2, <2>3, <2>4, <2>9 DEF PtPromised
<1>16. \A u \in PtOpen' : PtPromised(u)'
  BY <1>11, <1>14, <1>15
<1>17. PanicOnlyWhenOversold'
  BY <1>3 DEF PanicOnlyWhenOversold
<1>18. QED
  BY <1>7, <1>9, <1>10, <1>12, <1>13, <1>16, <1>17 DEF PtIInv

\* The scan finds a free entry, and the next one starts at an entry of the table.
LEMMA PtFoundFree ==
  ASSUME PtTypes, \E u \in Port : ptstate[u] = "PT_FREE", NEW t, t = PtFound
  PROVE  t \in Port /\ ptstate[t] = "PT_FREE" /\ PtAfter(t) \in Port
<1> DEFINE free == {u \in Port : ptstate[u] = "PT_FREE"}
           later == {u \in free : u >= ptnextid}
<1>1. free # {} /\ free \subseteq Nat /\ later \subseteq Nat
  BY PtFacts
<1>2. Min(free) \in free /\ (later # {} => Min(later) \in later)
  <2> HIDE DEF free, later
  <2>1. Min(free) \in free
    BY <1>1, MinProperties
  <2>2. later # {} => Min(later) \in later
    BY <1>1, MinProperties
  <2>3. QED
    BY <2>1, <2>2
<1>3. t = IF later # {} THEN Min(later) ELSE Min(free)
  BY DEF PtFound
<1>4. t \in free
  BY <1>2, <1>3
<1>5. PtAfter(t) \in Port
  <2>1. NPORTS \in Nat \ {0} /\ t \in 0 .. NPORTS - 1 /\ 1 \in 0 .. NPORTS
    BY <1>4, PtFacts
  <2>2. (t + 1) % NPORTS = IF t + 1 < NPORTS THEN t + 1 ELSE t + 1 - NPORTS
    BY <2>1, RingAfter
  <2>3. QED
    BY <2>1, <2>2, PtFacts DEF PtAfter
<1>6. QED
  BY <1>4, <1>5

LEMMA PtCreateOK ==
  ASSUME PtIInv, NEW p \in PtProc, NEW count \in PtCounts, PtCreate(p, count)
  PROVE  PtIInv'
<1>1. /\ PtTypes /\ PtNodesShared /\ PtMessages /\ PtCallsOK /\ PtSemsCounted
      /\ \A u \in PtOpen : PtPromised(u)
  BY DEF PtIInv
<1>2. PICK t : t = PtFound
  OBVIOUS
<1>3. PICK ss, rs : /\ ss = IF ptsemsleft >= 1 THEN SemCreated(count) ELSE NoSem
                    /\ rs = IF ptsemsleft >= 2 THEN SemCreated(0) ELSE NoSem
  OBVIOUS
<1>4. /\ ~ptpanic /\ ptcall[p] = PtIdle /\ \E u \in Port : ptstate[u] = "PT_FREE"
      /\ ptseq[t] < MaxPtSeq
      /\ ptstate' = [ptstate EXCEPT ![t] = "PT_ALLOC"]
      /\ ptssem' = [ptssem EXCEPT ![t] = ss]
      /\ ptrsem' = [ptrsem EXCEPT ![t] = rs]
      /\ ptsemsleft' = IF ptsemsleft >= 2 THEN ptsemsleft - 2 ELSE 0
      /\ pthead' = [pthead EXCEPT ![t] = NULL]
      /\ pttail' = [pttail EXCEPT ![t] = NULL]
      /\ ptseq' = [ptseq EXCEPT ![t] = @ + 1]
      /\ ptmaxcnt' = [ptmaxcnt EXCEPT ![t] = count]
      /\ ptnextid' = PtAfter(t)
      /\ UNCHANGED <<ptnext, ptmsg, ptfree, ptcall, busy, ptpanic>>
  BY <1>2, <1>3 DEF PtCreate, PtCalls, PtMay
<1>5. t \in Port /\ ptstate[t] = "PT_FREE" /\ PtAfter(t) \in Port
  BY <1>1, <1>2, <1>4, PtFoundFree
<1>6. count \in Nat /\ 0 \in Nat /\ MaxPtSeq \in Nat /\ ptseq[t] \in 0 .. MaxPtSeq
  BY <1>1, <1>5, PortsAssumption DEF PtTypes
<1>7. ptssem[t] = NoSem /\ ptrsem[t] = NoSem /\ t \notin PtOpen /\ t # -1 /\ t \notin PtKeys /\ -1 \in PtKeys
  BY <1>1, <1>5, PtKeyFacts, PtFacts DEF PtCallsOK, PtOpen, PtKeys
<1>8. /\ SoundFor(PtProc, {}, SemCreated(count)) /\ Promises({}, SemCreated(count)) = count
      /\ SoundFor(PtProc, {}, SemCreated(0)) /\ Promises({}, SemCreated(0)) = 0
      /\ SemCreated(count) \in SemOf(PtProc) /\ SemOK(SemCreated(count))
      /\ SemCreated(0) \in SemOf(PtProc) /\ SemOK(SemCreated(0))
  BY <1>6, PromisesFresh
<1>9. SemCreated(count) # NoSem /\ SemCreated(0) # NoSem
  BY <1>8, PtSemFacts
<1>10. /\ ss \in {NoSem} \cup SemOf(PtProc) /\ SemOK(ss)
       /\ rs \in {NoSem} \cup SemOf(PtProc) /\ SemOK(rs)
  BY <1>3, <1>8, PtSemFacts
<1>11. ptcall' = [ptcall EXCEPT ![p] = PtIdle]
  BY <1>1, <1>4 DEF PtTypes
<1>12. PtNoUser(p, PtIdle) /\ PtClearing(PtIdle)'
  <2>1. PtIdle \in PtCallOf /\ PtIdle.op \notin {"send", "recv"} /\ PtIdle.op \notin PtClears
    BY PtIdleFacts DEF PtClears
  <2>2. PtNoUser(p, PtIdle)
    BY <2>1, <1>4, <1>11 DEF PtNoUser
  <2>3. PICK c : c = PtIdle
    OBVIOUS
  <2>4. PtClearing(c)'
    BY <2>1, <2>3 DEF PtClearing
  <2>5. QED
    BY <2>2, <2>3, <2>4 DEF PtIdle
<1>13. \A u \in Port \ {t} : PtSamePort(u)
  BY <1>1, <1>4, <1>5 DEF PtSamePort, PtTypes
<1>14. /\ ptstate'[t] = "PT_ALLOC" /\ ptseq'[t] = ptseq[t] + 1 /\ ptmaxcnt'[t] = count
       /\ ptssem'[t] = ss /\ ptrsem'[t] = rs /\ pthead'[t] = NULL /\ pttail'[t] = NULL
  BY <1>1, <1>4, <1>5 DEF PtTypes
<1>15. PtSemsCounted' /\ ptsemsleft' \in Nat
  <2>1. PICK s, s2, r, r2 : s = ptssem /\ s2 = ptssem' /\ r = ptrsem /\ r2 = ptrsem'
    OBVIOUS
  <2>2. /\ \A u \in Port \ {t} : s2[u] = s[u] /\ r2[u] = r[u]
        /\ s[t] = NoSem /\ r[t] = NoSem /\ s2[t] = ss /\ r2[t] = rs
    BY <2>1, <1>7, <1>13, <1>14 DEF PtSamePort
  <2>3. /\ Cardinality(PtUsed(s)) \in Nat /\ Cardinality(PtUsed(s2)) \in Nat
        /\ ss = NoSem => Cardinality(PtUsed(s2)) = Cardinality(PtUsed(s))
        /\ ss # NoSem => Cardinality(PtUsed(s2)) = Cardinality(PtUsed(s)) + 1
    BY <2>2, <1>5, PtUsedCount
  <2>4. /\ Cardinality(PtUsed(r)) \in Nat /\ Cardinality(PtUsed(r2)) \in Nat
        /\ rs = NoSem => Cardinality(PtUsed(r2)) = Cardinality(PtUsed(r))
        /\ rs # NoSem => Cardinality(PtUsed(r2)) = Cardinality(PtUsed(r)) + 1
    BY <2>2, <1>5, PtUsedCount
  <2>5. ptsemsleft + Cardinality(PtUsed(s)) + Cardinality(PtUsed(r)) = PtSems
    BY <2>1, <1>1 DEF PtSemsCounted
  <2>6. ptsemsleft \in Nat
    BY <1>1 DEF PtTypes
  <2>7. PICK l2 : l2 = ptsemsleft'
    OBVIOUS
  <2>8. l2 = (IF ptsemsleft >= 2 THEN ptsemsleft - 2 ELSE 0) /\ l2 \in Nat
    BY <2>6, <2>7, <1>4
  <2>9. l2 + Cardinality(PtUsed(s2)) + Cardinality(PtUsed(r2)) = PtSems
    <3>1. CASE ptsemsleft >= 2
      <4>1. ss # NoSem /\ rs # NoSem
        BY <3>1, <2>6, <1>3, <1>9
      <4>2. QED
        BY <3>1, <4>1, <2>3, <2>4, <2>5, <2>6, <2>8
    <3>2. CASE ptsemsleft = 1
      <4>1. ss # NoSem /\ rs = NoSem
        BY <3>2, <2>6, <1>3, <1>9
      <4>2. QED
        BY <3>2, <4>1, <2>3, <2>4, <2>5, <2>6, <2>8
    <3>3. CASE ptsemsleft = 0
      <4>1. ss = NoSem /\ rs = NoSem
        BY <3>3, <2>6, <1>3
      <4>2. QED
        BY <3>3, <4>1, <2>3, <2>4, <2>5, <2>6, <2>8
    <3>4. QED
      BY <2>6, <3>1, <3>2, <3>3
  <2>10. PtSemsCounted'
    BY <2>1, <2>7, <2>9 DEF PtSemsCounted, PtUsed
  <2>11. QED
    BY <2>7, <2>8, <2>10
<1>16. PtTypes'
  <2>1. ptstate' \in [Port -> {"PT_FREE", "PT_LIMBO", "PT_ALLOC"}]
    BY <1>1, <1>4 DEF PtTypes
  <2>2. ptseq' \in [Port -> 0 .. MaxPtSeq]
    <3>1. ptseq[t] + 1 \in 0 .. MaxPtSeq
      BY <1>4, <1>6
    <3>2. ptseq' = [ptseq EXCEPT ![t] = ptseq[t] + 1] /\ ptseq \in [Port -> 0 .. MaxPtSeq]
      BY <1>1, <1>4 DEF PtTypes
    <3>3. QED
      BY <3>1, <3>2
  <2>3. ptssem' \in [Port -> {NoSem} \cup SemOf(PtProc)] /\ \A u \in Port : SemOK(ptssem'[u])
    BY <1>1, <1>4, <1>10 DEF PtTypes
  <2>4. ptrsem' \in [Port -> {NoSem} \cup SemOf(PtProc)] /\ \A u \in Port : SemOK(ptrsem'[u])
    BY <1>1, <1>4, <1>10 DEF PtTypes
  <2>5. pthead' \in [Port -> PtNode \cup {NULL}] /\ pttail' \in [Port -> PtNode \cup {NULL}]
    BY <1>1, <1>4 DEF PtTypes
  <2>6. ptmaxcnt' \in [Port -> Nat]
    BY <1>1, <1>4, <1>6 DEF PtTypes
  <2>7. QED
    BY <1>1, <1>4, <1>5, <1>15, <2>1, <2>2, <2>3, <2>4, <2>5, <2>6 DEF PtTypes
<1>17. PtOpen' = PtOpen \cup {t} /\ PtKeys' = PtKeys \cup {t}
  <2>1. \A u \in Port : ptstate'[u] = IF u = t THEN "PT_ALLOC" ELSE ptstate[u]
    BY <1>1, <1>4 DEF PtTypes
  <2>2. PtOpen' = PtOpen \cup {t}
    BY <2>1, <1>5 DEF PtOpen
  <2>3. QED
    BY <2>2 DEF PtKeys
<1>18. PtNodesShared' /\ PtLists'[t] = <<>> /\ \A u \in PtOpen : PtLists'[u] = PtLists[u]
  <2>1. PICK L2 : L2 = [u \in PtKeys \cup {t} |-> IF u = t THEN <<>> ELSE PtLists[u]]
    OBVIOUS
  <2>2. PtListsAre(ptnext', ptfree', pthead', pttail', PtKeys', L2)
    <3>1. PICK w, f, h, ta, K, L, h2, ta2 :
             /\ w = ptnext /\ f = ptfree /\ h = pthead /\ ta = pttail /\ K = PtKeys /\ L = PtLists
             /\ h2 = pthead' /\ ta2 = pttail'
      OBVIOUS
    <3>2. PtListsAre(w, f, h, ta, K, L) /\ h2[t] = NULL /\ ta2[t] = NULL /\ t \notin K /\ t # -1 /\ -1 \in K
      BY <3>1, <1>1, <1>7, <1>14 DEF PtNodesShared
    <3>3. L2[t] = <<>> /\ \A u \in K : L2[u] = L[u]
      BY <3>1, <2>1, <1>7
    <3>4. \A u \in K \ {-1} : h2[u] = h[u] /\ ta2[u] = ta[u]
      <4>1. \A u \in K \ {-1} : u \in Port \ {t}
        BY <3>1, <1>7, PtKeyFacts
      <4>2. QED
        BY <4>1, <3>1, <1>13 DEF PtSamePort
    <3>5. PtListsAre(w, f, h2, ta2, K \cup {t}, L2)
      BY <3>2, <3>3, <3>4, PtListsOpen
    <3>6. QED
      BY <3>1, <3>5, <1>4, <1>17
  <2>3. L2 = [u \in PtKeys' |-> L2[u]]
    BY <2>1, <1>17
  <2>4. PtLists' = L2 /\ PtNodesShared'
    BY <2>2, <2>3, PtListsNext
  <2>5. \A u \in PtOpen : u \in PtKeys /\ u # t
    BY <1>7 DEF PtKeys
  <2>6. QED
    BY <2>1, <2>4, <2>5
<1>19. PtMessages'
  <2>1. Range(PtLists'[t]) = {}
    BY <1>18, PtListOfNone
  <2>2. \A u \in PtOpen : ptseq'[u] = ptseq[u]
    BY <1>7, <1>13, PtKeyFacts DEF PtSamePort
  <2>3. QED
    BY <2>1, <2>2, <1>1, <1>4, <1>17, <1>18 DEF PtMessages
<1>20. PtCallsOK'
  <2>1. \A q \in PtProc \ {p} : ptcall[q].op \in PtClears => ptcall[q].port # t
    BY <1>1, <1>5 DEF PtCallsOK, PtClearing
  <2>2. ptseq'[t] \in Nat /\ ptseq'[t] > ptseq[t] /\ ptstate'[t] # "PT_FREE"
    BY <1>6, <1>14
  <2>3. QED
    BY <2>1, <2>2, <1>1, <1>5, <1>12, <1>13, PtCallsOthers
<1>21. \A u \in PtOpen : PtPromised(u)'
  <2> TAKE u \in PtOpen
  <2>1. u \in Port \ {t}
    BY <1>7, PtKeyFacts
  <2>2. PtSamePort(u) /\ Len(PtLists'[u]) = Len(PtLists[u]) /\ (ptpanic => ptpanic')
    BY <2>1, <1>4, <1>13, <1>18
  <2>3. QED
    BY <2>2, <1>12, PtOthersKept
<1>22. PtPromised(t)'
  <2>1. PtCallers("send", t)' = {} /\ PtCallers("recv", t)' = {}
    <3>1. ptstate[t] # "PT_ALLOC" /\ ptseq'[t] \in Nat /\ ptseq'[t] >= ptseq[t]
      BY <1>5, <1>6, <1>14
    <3>2. \A o \in {"send", "recv"} : PtCallers(o, t)' = {}
      BY <3>1, <1>1, <1>5, <1>12, PtNoCallers
    <3>3. QED
      BY <3>2
  <2>2. Len(PtLists'[t]) = 0
    BY <1>18
  <2>3. /\ ss # NoSem => SoundFor(PtProc, {}, ss) /\ Promises({}, ss) + 0 = count
        /\ rs # NoSem => SoundFor(PtProc, {}, rs) /\ Promises({}, rs) = 0
    BY <1>3, <1>6, <1>8
  <2>4. PtPromises({}, {}, ss, rs, 0, count, ptpanic')
    BY <2>3 DEF PtPromises
  <2>5. QED
    BY <2>1, <2>2, <2>4, <1>14 DEF PtPromised
<1>23. \A u \in PtOpen' : PtPromised(u)'
  BY <1>17, <1>21, <1>22
<1>24. PanicOnlyWhenOversold'
  BY <1>4 DEF PanicOnlyWhenOversold
<1>25. QED
  BY <1>15, <1>16, <1>18, <1>19, <1>20, <1>23, <1>24 DEF PtIInv

-----------------------------------------------------------------------------
(* Ports: the inductive invariant holds.                                   *)

\* The free list that ptinit makes.
LEMMA PtListMade ==
  ASSUME NEW w, \A n \in PtNode : w[n] = IF n < PtNodes THEN n + 1 ELSE NULL,
         NEW s, s = [k \in PtNode |-> k]
  PROVE  PtListOf(w, 1, s) /\ Range(s) = PtNode
<1>1. PtNodes \in Nat \ {0} /\ PtNode = 1 .. PtNodes /\ NULL = 0
  BY PtFacts
<1>2. DOMAIN s = 1 .. PtNodes /\ \A k \in 1 .. PtNodes : s[k] = k /\ s[k] \in PtNode
  BY <1>1
<1>3. s \in Seq(PtNode)
  BY <1>1, <1>2, SeqDef
<1>4. Len(s) = PtNodes
  BY <1>1, <1>2, <1>3, LenProperties
<1>5. QueueOf(PtNode, s)
  BY <1>2, <1>3 DEF QueueOf, IsInjective
<1>6. 1 = IF s = <<>> THEN NULL ELSE s[1]
  <2>1. s # <<>> /\ 1 \in 1 .. PtNodes
    BY <1>1, <1>3, <1>4, EmptySeq
  <2>2. QED
    BY <2>1, <1>2
<1>7. \A k \in 1 .. Len(s) : w[s[k]] = IF k < Len(s) THEN s[k + 1] ELSE NULL
  <2> TAKE k \in 1 .. Len(s)
  <2>1. k \in PtNode /\ s[k] = k
    BY <1>1, <1>2, <1>4
  <2>2. w[k] = IF k < PtNodes THEN k + 1 ELSE NULL
    BY <2>1
  <2>3. k < PtNodes => s[k + 1] = k + 1
    <3>1. k < PtNodes => k + 1 \in 1 .. PtNodes
      BY <1>1, <2>1
    <3>2. QED
      BY <3>1, <1>2
  <2>4. QED
    BY <1>4, <2>1, <2>2, <2>3
<1>8. Range(s) = PtNode
  BY <1>1, <1>2 DEF Range
<1>9. QED
  BY <1>5, <1>6, <1>7, <1>8 DEF PtListOf

LEMMA PtInitOK == PtInit => PtIInv
<1> SUFFICES ASSUME PtInit PROVE PtIInv
  OBVIOUS
<1>1. PtNodes \in Nat \ {0} /\ PtNode = 1 .. PtNodes /\ 0 \in Port /\ NULL = 0
  BY PtFacts
<1>2. /\ \A t \in Port : /\ ptstate[t] = "PT_FREE" /\ ptseq[t] = 0
                         /\ ptssem[t] = NoSem /\ ptrsem[t] = NoSem
      /\ \A p \in PtProc : ptcall[p] = PtIdle
      /\ ptfree = 1 /\ ~ptpanic /\ ptsemsleft = PtSems
  BY DEF PtInit
<1>3. PtOpen = {} /\ PtKeys = {-1}
  BY <1>2 DEF PtOpen, PtKeys
<1>4. PtTypes
  <2>1. PtSems \in Nat /\ MaxPtSeq \in Nat /\ 0 \in 0 .. MaxPtSeq
    BY PortsAssumption
  <2>2. PtIdle \in PtCallOf /\ SemOK(NoSem)
    BY PtIdleFacts, PtSemFacts
  <2>3. /\ ptstate \in [Port -> {"PT_FREE", "PT_LIMBO", "PT_ALLOC"}]
        /\ ptseq \in [Port -> 0 .. MaxPtSeq]
        /\ ptmaxcnt \in [Port -> Nat]
    BY <2>1 DEF PtInit
  <2>4. /\ ptssem \in [Port -> {NoSem} \cup SemOf(PtProc)]
        /\ ptrsem \in [Port -> {NoSem} \cup SemOf(PtProc)]
        /\ \A t \in Port : SemOK(ptssem[t]) /\ SemOK(ptrsem[t])
    BY <1>2, <2>2 DEF PtInit
  <2>5. /\ pthead \in [Port -> PtNode \cup {NULL}]
        /\ pttail \in [Port -> PtNode \cup {NULL}]
    BY DEF PtInit
  <2>6. ptnext \in [PtNode -> PtNode \cup {NULL}]
    <3>1. \A n \in PtNode : (IF n < PtNodes THEN n + 1 ELSE NULL) \in PtNode \cup {NULL}
      BY <1>1
    <3>2. QED
      BY <3>1 DEF PtInit
  <2>7. ptmsg \in [PtNode -> Nat] /\ ptfree \in PtNode \cup {NULL} /\ ptnextid \in Port
    BY <1>1 DEF PtInit
  <2>8. /\ ptsemsleft \in Nat /\ ptcall \in [PtProc -> PtCallOf]
        /\ busy \in PtProc \cup {Nobody} /\ ptpanic \in BOOLEAN
    BY <2>1, <2>2 DEF PtInit
  <2>9. QED
    BY <2>3, <2>4, <2>5, <2>6, <2>7, <2>8 DEF PtTypes
<1>5. PtNodesShared
  <2>1. PICK w, s : w = ptnext /\ s = [k \in PtNode |-> k]
    OBVIOUS
  <2>2. \A n \in PtNode : w[n] = IF n < PtNodes THEN n + 1 ELSE NULL
    BY <2>1 DEF PtInit
  <2>3. PtListOf(w, 1, s) /\ Range(s) = PtNode
    BY <2>1, <2>2, PtListMade
  <2>4. PtLinked(w)[PtNodes][1] = s
    BY <2>3, PtListIs
  <2>5. PtLists[-1] = s
    BY <1>2, <2>1, <2>4 DEF PtLists, PtChain
  <2>6. PICK L : L = PtLists
    OBVIOUS
  <2>7. PtListsAre(w, ptfree, pthead, pttail, {-1}, L)
    BY <1>2, <2>3, <2>5, <2>6 DEF PtListsAre, PtHeadOf
  <2>8. QED
    BY <1>3, <2>1, <2>6, <2>7 DEF PtNodesShared
<1>6. PtMessages /\ \A t \in PtOpen : PtPromised(t)
  BY <1>3 DEF PtMessages
<1>7. PtCallsOK
  <2>1. PtIdle.op \notin {"send", "recv"} /\ PtIdle.op \notin PtClears
    BY PtIdleFacts DEF PtClears
  <2>2. \A p \in PtProc : PtUser(ptcall[p]) /\ PtClearing(ptcall[p]) /\ ptcall[p].op \notin PtClears
    BY <2>1, <1>2 DEF PtUser, PtClearing
  <2>3. QED
    BY <2>2, <1>2 DEF PtCallsOK
<1>8. PtSemsCounted
  <2>1. PtUsed(ptssem) = {} /\ PtUsed(ptrsem) = {}
    BY <1>2 DEF PtUsed
  <2>2. PtSems \in Nat /\ Cardinality({}) = 0
    BY PortsAssumption, FS_EmptySet
  <2>3. QED
    BY <1>2, <2>1, <2>2 DEF PtSemsCounted
<1>9. PanicOnlyWhenOversold
  BY <1>2 DEF PanicOnlyWhenOversold
<1>10. QED
  BY <1>4, <1>5, <1>6, <1>7, <1>8, <1>9 DEF PtIInv

\* A step that changes nothing of the ports.
LEMMA PtStutter ==
  ASSUME PtIInv, UNCHANGED ptVars
  PROVE  PtIInv'
<1>1. /\ UNCHANGED <<ptstate, ptseq, ptmaxcnt, ptssem, ptrsem>>
      /\ UNCHANGED <<ptnext, ptmsg, ptfree, pthead, pttail>>
      /\ UNCHANGED <<ptnextid, ptsemsleft, ptcall, busy, ptpanic>>
  BY DEF ptVars, ptNodeVars
<1>2. PtTypes'
  BY <1>1 DEF PtIInv, PtTypes
<1>3. PtOpen' = PtOpen /\ PtKeys' = PtKeys
  BY <1>1 DEF PtOpen, PtKeys
<1>4. PtLists' = PtLists
  BY <1>1, <1>3 DEF PtLists, PtChain
<1>5. PtNodesShared' /\ PtMessages'
  BY <1>1, <1>3, <1>4 DEF PtIInv, PtNodesShared, PtMessages
<1>6. PtCallsOK'
  BY <1>1 DEF PtIInv, PtCallsOK, PtUser, PtClearing
<1>7. \A t \in PtOpen' : PtPromised(t)'
  BY <1>1, <1>3, <1>4 DEF PtIInv, PtPromised, PtCallers
<1>8. PtSemsCounted'
  BY <1>1 DEF PtIInv, PtSemsCounted
<1>9. PanicOnlyWhenOversold'
  BY <1>1, <1>3 DEF PtIInv, PanicOnlyWhenOversold, PtPlaces
<1>10. QED
  BY <1>2, <1>5, <1>6, <1>7, <1>8, <1>9 DEF PtIInv

LEMMA PtNextOK == PtIInv /\ [PtNext]_ptVars => PtIInv'
<1> SUFFICES ASSUME PtIInv, [PtNext]_ptVars PROVE PtIInv'
  OBVIOUS
<1>1. CASE UNCHANGED ptVars
  BY <1>1, PtStutter
<1>2. CASE PtNext
  <2>1. PICK p \in PtProc : \/ PtGoOn(p)
                            \/ \E count \in PtCounts : PtCreate(p, count)
                            \/ \E t \in Port : \/ PtSend(p, t) \/ PtRecv(p, t)
                                               \/ \E op \in PtClears : PtClear(p, t, op)
    BY <1>2 DEF PtNext
  <2>2. CASE PtGoOn(p)
    BY <2>2, PtSendGoesOnOK, PtRecvGoesOnOK, PtClearGoesOnOK, PtClearEndsOK DEF PtGoOn
  <2>3. CASE \E count \in PtCounts : PtCreate(p, count)
    BY <2>3, PtCreateOK
  <2>4. CASE \E t \in Port : \/ PtSend(p, t) \/ PtRecv(p, t)
                             \/ \E op \in PtClears : PtClear(p, t, op)
    BY <2>4, PtSendOK, PtRecvOK, PtClearOK
  <2>5. QED
    BY <2>1, <2>2, <2>3, <2>4
<1>3. QED
  BY <1>1, <1>2

-----------------------------------------------------------------------------
(* Ports: what the inductive invariant says.                               *)

\* Who waits at a semaphore of an open port has called, and who has called and does not
\* wait has been handed something.
LEMMA PtHandedIs ==
  ASSUME PtIInv, NEW t \in PtOpen
  PROVE  /\ \A p : Waits(ptssem[t], p) => p \in PtCallers("send", t)
         /\ \A p : Waits(ptrsem[t], p) => p \in PtCallers("recv", t)
         /\ PtHanded("send", t) = Admitted(PtCallers("send", t), ptssem[t])
         /\ PtHanded("recv", t) = Admitted(PtCallers("recv", t), ptrsem[t])
<1>1. PtTypes /\ PtCallsOK /\ PtPromised(t)
  BY DEF PtIInv
<1>2. PICK cs, cr, s, r : /\ cs = PtCallers("send", t) /\ cr = PtCallers("recv", t)
                          /\ s = ptssem[t] /\ r = ptrsem[t]
  OBVIOUS
<1>3. \A p : Waits(s, p) => p \in cs
  <2>1. s = NoSem => \A p : ~Waits(s, p)
    BY PtSemFacts
  <2>2. s # NoSem => \A p : Waits(s, p) => p \in cs
    BY <1>1, <1>2 DEF PtPromised, PtPromises, SoundFor
  <2>3. QED
    BY <2>1, <2>2
<1>4. \A p : Waits(r, p) => p \in cr
  <2>1. r = NoSem => \A p : ~Waits(r, p)
    BY PtSemFacts
  <2>2. r # NoSem => \A p : Waits(r, p) => p \in cr
    BY <1>1, <1>2 DEF PtPromised, PtPromises, SoundFor
  <2>3. QED
    BY <2>1, <2>2
<1>5. cs \subseteq PtProc /\ cr \subseteq PtProc
  BY <1>2 DEF PtCallers
<1>6. \A p \in PtProc : p \in cs => p \notin cr
  <2> TAKE p \in PtProc
  <2>1. \A op, u : p \in PtCallers(op, u) => ptcall[p].op = op
    BY <1>1, PtCallerFacts
  <2>2. QED
    BY <2>1, <1>2
<1>7. PtHanded("send", t) = {p \in cs : ~Waits(s, p) /\ ~Waits(r, p)}
  BY <1>2 DEF PtHanded, PtCallers
<1>8. PtHanded("recv", t) = {p \in cr : ~Waits(s, p) /\ ~Waits(r, p)}
  BY <1>2 DEF PtHanded, PtCallers
<1>9. {p \in cs : ~Waits(s, p) /\ ~Waits(r, p)} = {p \in cs : ~Waits(s, p)}
  BY <1>4, <1>5, <1>6
<1>10. {p \in cr : ~Waits(s, p) /\ ~Waits(r, p)} = {p \in cr : ~Waits(r, p)}
  BY <1>3, <1>5, <1>6
<1>11. /\ PtHanded("send", t) = Admitted(cs, s)
       /\ PtHanded("recv", t) = Admitted(cr, r)
  BY <1>7, <1>8, <1>9, <1>10 DEF Admitted
<1>12. QED
  BY <1>2, <1>3, <1>4, <1>11

\* The sums that the promises of an open port are.
LEMMA PtSums ==
  ASSUME PtIInv, NEW t \in PtOpen
  PROVE  /\ PtChain(pthead[t]) = PtLists[t]
         /\ Len(PtLists[t]) \in Nat /\ ptmaxcnt[t] \in Nat
         /\ ptssem[t].used =>
               /\ ptssem[t].count \in Int /\ Len(ptssem[t].queue) \in Nat
               /\ Cardinality(PtHanded("send", t)) \in Nat
               /\ ptpanic \/ ptssem[t].count + Len(ptssem[t].queue)
                               + Cardinality(PtHanded("send", t)) + Len(PtLists[t]) = ptmaxcnt[t]
         /\ ptrsem[t].used =>
               /\ ptrsem[t].count \in Int /\ Len(ptrsem[t].queue) \in Nat
               /\ Cardinality(PtHanded("recv", t)) \in Nat
               /\ ptrsem[t].count + Len(ptrsem[t].queue)
                    + Cardinality(PtHanded("recv", t)) = Len(PtLists[t])
<1>1. PtChain(pthead[t]) = PtLists[t]
  <2>1. t # -1 /\ t \in PtOpen \cup {-1}
    BY PtKeyFacts
  <2>2. QED
    BY <2>1 DEF PtLists
<1>2. Len(PtLists[t]) \in Nat /\ ptmaxcnt[t] \in Nat
  BY PtUsedSems
<1>3. PICK cs, cr, s, r : /\ cs = PtCallers("send", t) /\ cr = PtCallers("recv", t)
                          /\ s = ptssem[t] /\ r = ptrsem[t]
  OBVIOUS
<1>4. PICK n, max : n = Len(PtLists[t]) /\ max = ptmaxcnt[t]
  OBVIOUS
<1>5. PtHanded("send", t) = Admitted(cs, s) /\ PtHanded("recv", t) = Admitted(cr, r)
  BY <1>3, PtHandedIs
<1>6. s.used => SoundFor(PtProc, cs, s) /\ (ptpanic \/ Promises(cs, s) + n = max)
  BY <1>3, <1>4, PtUsedSems
<1>7. r.used => SoundFor(PtProc, cr, r) /\ Promises(cr, r) = n
  BY <1>3, <1>4, PtUsedSems
<1>8. ASSUME s.used
      PROVE  /\ s.count \in Int /\ Len(s.queue) \in Nat /\ Cardinality(Admitted(cs, s)) \in Nat
             /\ ptpanic \/ s.count + Len(s.queue) + Cardinality(Admitted(cs, s)) + n = max
  <2>1. SoundFor(PtProc, cs, s)
    BY <1>6, <1>8
  <2>2. /\ s.count \in Int /\ Len(s.queue) \in Nat /\ Cardinality(Admitted(cs, s)) \in Nat
        /\ s.count + Len(s.queue) + Cardinality(Admitted(cs, s)) = Promises(cs, s)
    BY <2>1, PromisesSum
  <2>3. QED
    BY <2>2, <1>6, <1>8
<1>9. ASSUME r.used
      PROVE  /\ r.count \in Int /\ Len(r.queue) \in Nat /\ Cardinality(Admitted(cr, r)) \in Nat
             /\ r.count + Len(r.queue) + Cardinality(Admitted(cr, r)) = n
  <2>1. SoundFor(PtProc, cr, r)
    BY <1>7, <1>9
  <2>2. /\ r.count \in Int /\ Len(r.queue) \in Nat /\ Cardinality(Admitted(cr, r)) \in Nat
        /\ r.count + Len(r.queue) + Cardinality(Admitted(cr, r)) = Promises(cr, r)
    BY <2>1, PromisesSum
  <2>3. QED
    BY <2>2, <1>7, <1>9
<1>10. QED
  BY <1>1, <1>2, <1>3, <1>4, <1>5, <1>8, <1>9

LEMMA PtCountsRight == PtIInv => PortCounts
<1> SUFFICES ASSUME PtIInv, ~ptpanic, NEW t \in PtOpen
             PROVE  /\ ptssem[t].used =>
                          ptssem[t].count + Len(ptssem[t].queue) + Len(PtChain(pthead[t]))
                            + Cardinality(PtHanded("send", t)) = ptmaxcnt[t]
                    /\ ptrsem[t].used =>
                          ptrsem[t].count + Len(ptrsem[t].queue)
                            + Cardinality(PtHanded("recv", t)) = Len(PtChain(pthead[t]))
  BY DEF PortCounts
<1>1. PICK c, q, h, n, max : /\ c = ptssem[t].count /\ q = Len(ptssem[t].queue)
                             /\ h = Cardinality(PtHanded("send", t))
                             /\ n = Len(PtLists[t]) /\ max = ptmaxcnt[t]
  OBVIOUS
<1>2. n \in Nat /\ (ptssem[t].used => c \in Int /\ q \in Nat /\ h \in Nat /\ c + q + h + n = max)
  BY <1>1, PtSums
<1>3. ptssem[t].used => c + q + n + h = max
  BY <1>2
<1>4. QED
  BY <1>1, <1>3, PtSums

LEMMA PtLivesApart == PtIInv => OnlyThisLife
<1> SUFFICES ASSUME PtIInv, NEW t \in PtOpen
             PROVE  /\ \A n \in Range(PtChain(pthead[t])) : ptmsg[n] = ptseq[t]
                    /\ \A p \in PtProc :
                          Waits(ptssem[t], p) \/ Waits(ptrsem[t], p) => ptcall[p].seq = ptseq[t]
  BY DEF OnlyThisLife
<1>1. \A n \in Range(PtChain(pthead[t])) : ptmsg[n] = ptseq[t]
  BY PtSums DEF PtIInv, PtMessages
<1>2. ASSUME NEW p \in PtProc, Waits(ptssem[t], p) \/ Waits(ptrsem[t], p)
      PROVE  ptcall[p].seq = ptseq[t]
  <2>1. p \in PtCallers("send", t) \/ p \in PtCallers("recv", t)
    BY <1>2, PtHandedIs
  <2>2. \A op, u : p \in PtCallers(op, u) => ptcall[p].seq = ptseq[u]
    BY PtCallerFacts DEF PtIInv
  <2>3. QED
    BY <2>1, <2>2
<1>3. QED
  BY <1>1, <1>2

LEMMA PtTellsMessages == PtIInv => CountTellsMessages
<1> SUFFICES ASSUME PtIInv, NEW t \in PtOpen, ptssem[t].used, ptrsem[t].used,
                    PtHanded("send", t) = {}, PtHanded("recv", t) = {}
             PROVE  IF PtCount(t) >= 0
                    THEN PtCount(t) = Len(PtChain(pthead[t])) + Len(ptssem[t].queue)
                    ELSE pthead[t] = NULL /\ Len(ptrsem[t].queue) = -PtCount(t)
  BY DEF CountTellsMessages
<1>1. PICK c, q, d, r, n : /\ c = ptssem[t].count /\ q = Len(ptssem[t].queue)
                           /\ d = ptrsem[t].count /\ r = Len(ptrsem[t].queue)
                           /\ n = Len(PtLists[t])
  OBVIOUS
<1>2. c \in Int /\ q \in Nat /\ d \in Int /\ r \in Nat /\ n \in Nat
  BY <1>1, PtSums
<1>3. d + r = n
  <2>1. Cardinality(PtHanded("recv", t)) = 0
    BY FS_EmptySet
  <2>2. d + r + Cardinality(PtHanded("recv", t)) = n
    BY <1>1, PtSums
  <2>3. QED
    BY <2>1, <2>2, <1>2
<1>4. (q = IF c < 0 THEN -c ELSE 0) /\ (r = IF d < 0 THEN -d ELSE 0)
  <2>1. SemOK(ptssem[t]) /\ SemOK(ptrsem[t])
    BY PtKeyFacts DEF PtIInv, PtTypes
  <2>2. QED
    BY <2>1, <1>1 DEF SemOK
<1>5. PICK k : k = IF d >= 0 /\ c < 0 THEN d - c ELSE d
  OBVIOUS
<1>6. IF k >= 0 THEN k = n + q ELSE n = 0 /\ r = -k
  <2>1. CASE d >= 0 /\ c < 0
    BY <2>1, <1>2, <1>3, <1>4, <1>5
  <2>2. CASE d >= 0 /\ c >= 0
    BY <2>2, <1>2, <1>3, <1>4, <1>5
  <2>3. CASE d < 0
    BY <2>3, <1>2, <1>3, <1>4, <1>5
  <2>4. QED
    BY <2>1, <2>2, <2>3, <1>2
<1>7. n = 0 => pthead[t] = NULL
  <2>1. PtListOf(ptnext, PtHeadOf(ptfree, pthead, t), PtLists[t])
    BY DEF PtIInv, PtNodesShared, PtListsAre, PtKeys
  <2>2. PICK w, f, s : w = ptnext /\ f = pthead[t] /\ s = PtLists[t]
    OBVIOUS
  <2>3. t # -1
    BY PtKeyFacts
  <2>4. PtListOf(w, f, s)
    BY <2>1, <2>2, <2>3 DEF PtHeadOf
  <2>5. (s = <<>> <=> f = NULL) /\ s \in Seq(PtNode)
    BY <2>4, PtListEnds DEF PtListOf, QueueOf
  <2>6. QED
    BY <2>2, <2>5, <1>1, EmptySeq
<1>8. PtCount(t) = k
  BY <1>1, <1>5 DEF PtCount
<1>9. Len(PtChain(pthead[t])) = n
  BY <1>1, PtSums
<1>10. QED
  BY <1>1, <1>6, <1>7, <1>8, <1>9

LEMMA PtConserved == PtIInv => NodesConserved
<1> SUFFICES ASSUME PtIInv PROVE NodesConserved
  OBVIOUS
<1>1. PtNodesShared
  BY DEF PtIInv
<1>2. \A u \in PtKeys : /\ PtLists[u] \in Seq(PtNode) /\ Len(PtLists[u]) \in 0 .. PtNodes
                        /\ \A j, k \in 1 .. Len(PtLists[u]) : j # k => PtLists[u][j] # PtLists[u][k]
                        /\ Range(PtLists[u]) = {PtLists[u][k] : k \in 1 .. Len(PtLists[u])}
                        /\ DOMAIN PtLists[u] = 1 .. Len(PtLists[u])
  <2> TAKE u \in PtKeys
  <2>1. PtListOf(ptnext, PtHeadOf(ptfree, pthead, u), PtLists[u])
    BY <1>1 DEF PtNodesShared, PtListsAre
  <2>2. PICK s : s = PtLists[u]
    OBVIOUS
  <2>3. QueueOf(PtNode, s)
    BY <2>1, <2>2 DEF PtListOf
  <2>4. /\ s \in Seq(PtNode) /\ Len(s) \in 0 .. PtNodes
        /\ \A j, k \in 1 .. Len(s) : j # k => s[j] # s[k]
        /\ Range(s) = {s[k] : k \in 1 .. Len(s)}
    BY <2>3, PtListEntries
  <2>5. DOMAIN s = 1 .. Len(s)
    BY <2>4, LenProperties
  <2>6. QED
    BY <2>2, <2>4, <2>5
<1>3. ASSUME NEW n \in PtNode
      PROVE  Cardinality({x \in PtKeys \X PtNode :
                             x[2] \in DOMAIN PtLists[x[1]] /\ PtLists[x[1]][x[2]] = n}) = 1
  <2> DEFINE C == {x \in PtKeys \X PtNode : x[2] \in DOMAIN PtLists[x[1]] /\ PtLists[x[1]][x[2]] = n}
  <2>1. PICK u \in PtKeys : n \in Range(PtLists[u])
    BY <1>1 DEF PtNodesShared, PtListsAre
  <2>2. PICK k \in 1 .. Len(PtLists[u]) : PtLists[u][k] = n
    BY <1>2, <2>1
  <2>3. <<u, k>> \in C
    <3>1. k \in PtNode /\ k \in DOMAIN PtLists[u]
      BY <1>2, <2>1, <2>2, PtFacts
    <3>2. QED
      BY <2>1, <2>2, <3>1
  <2>4. ASSUME NEW x \in C PROVE x = <<u, k>>
    <3>1. PICK v \in PtKeys, j \in PtNode : x = <<v, j>> /\ j \in DOMAIN PtLists[v] /\ PtLists[v][j] = n
      OBVIOUS
    <3>2. j \in 1 .. Len(PtLists[v]) /\ n \in Range(PtLists[v])
      BY <1>2, <3>1
    <3>3. v = u
      BY <1>1, <2>1, <3>2 DEF PtNodesShared, PtListsAre
    <3>4. j = k
      BY <1>2, <2>1, <2>2, <3>1, <3>2, <3>3
    <3>5. QED
      BY <3>1, <3>3, <3>4
  <2> HIDE DEF C
  <2>5. C = {<<u, k>>}
    BY <2>3, <2>4
  <2>6. Cardinality(C) = 1
    BY <2>5, FS_Singleton
  <2>7. QED
    BY <2>6 DEF C
<1>4. ASSUME NEW t \in PtOpen, PtLists[t] # <<>>
      PROVE  pttail[t] = Last(PtLists[t])
  <2>1. t \in PtKeys \ {-1}
    BY PtKeyFacts
  <2>2. pttail[t] = PtLastOf(PtLists[t])
    BY <1>1, <2>1 DEF PtNodesShared, PtListsAre
  <2>3. QED
    BY <2>2, <1>4 DEF PtLastOf, Last
<1>5. QED
  BY <1>3, <1>4 DEF NodesConserved, PtKeys

LEMMA PtTyped == PtIInv => PtTypeOK
<1> SUFFICES ASSUME PtIInv PROVE PtTypeOK
  OBVIOUS
<1>1. PtTypes /\ PtCallsOK /\ PtSemsCounted
  BY DEF PtIInv
<1>2. PtNode \cup {NULL} = 0 .. PtNodes /\ PtNodes \in Nat
  BY PtFacts
<1>3. ptsemsleft \in 0 .. PtSems
  <2>1. \A S : S \subseteq Port => Cardinality(S) \in Nat
    <3>1. IsFiniteSet(Port)
      BY PtFacts, FS_Interval
    <3>2. QED
      BY <3>1, FS_Subset, FS_CardinalityType
  <2>2. PICK a, b : a = Cardinality(PtUsed(ptssem)) /\ b = Cardinality(PtUsed(ptrsem))
    OBVIOUS
  <2>3. a \in Nat /\ b \in Nat
    BY <2>1, <2>2 DEF PtUsed
  <2>4. ptsemsleft + a + b = PtSems /\ ptsemsleft \in Nat /\ PtSems \in Nat
    BY <1>1, <2>2, PortsAssumption DEF PtSemsCounted, PtTypes
  <2>5. QED
    BY <2>3, <2>4
<1>4. ASSUME NEW p \in PtProc
      PROVE  ptcall[p].seq <= ptseq[ptcall[p].port]
  <2>1. PICK c \in PtCallOf : c = ptcall[p]
    BY <1>1 DEF PtTypes
  <2>2. c.op \in PtOps /\ c.port \in Port /\ c.seq \in Nat
    BY DEF PtCallOf
  <2>3. ptseq[c.port] \in Nat
    BY <1>1, <2>2, PortsAssumption DEF PtTypes
  <2>4. PtUser(c) /\ PtClearing(c) /\ (c = PtIdle \/ c.op # "idle")
    BY <1>1, <2>1 DEF PtCallsOK
  <2>5. CASE c.op \in {"send", "recv"}
    <3>1. c.seq < ptseq[c.port] \/ c.seq = ptseq[c.port]
      BY <2>4, <2>5 DEF PtUser
    <3>2. QED
      BY <3>1, <2>1, <2>2, <2>3
  <2>6. CASE c.op \in PtClears
    <3>1. c.seq \in {0, 1} /\ ptseq[c.port] >= 1
      BY <2>4, <2>6 DEF PtClearing
    <3>2. QED
      BY <3>1, <2>1, <2>3
  <2>7. CASE c = PtIdle
    <3>1. c.seq = 0
      BY <2>7 DEF PtIdle
    <3>2. QED
      BY <3>1, <2>1, <2>3
  <2>8. QED
    BY <2>2, <2>4, <2>5, <2>6, <2>7 DEF PtOps, PtClears
<1>5. QED
  BY <1>1, <1>2, <1>3, <1>4 DEF PtTypes, PtTypeOK

LEMMA PtIInvImplies == PtIInv => PtInv
BY PtTyped, PtConserved, PtCountsRight, PtLivesApart, PtTellsMessages DEF PtInv, PtIInv

\* Whatever processes send, receive, reset and delete, for any numbers of processes,
\* ports, nodes and semaphores: the nodes stay shared out among the open ports and the
\* free list, the semaphores of a port say what its queue holds, nobody serves another
\* life of a port, ptsend panics only when the ports have been promised more than there
\* is, and ptcount tells the truth.
THEOREM PortsKeepTheirPromises == PtSpec => []PtInv
<1>1. PtInit => PtIInv
  BY PtInitOK
<1>2. PtIInv /\ [PtNext]_ptVars => PtIInv'
  BY PtNextOK
<1>3. PtIInv => PtInv
  BY PtIInvImplies
<1>4. QED
  BY <1>1, <1>2, <1>3, PTL DEF PtSpec

-----------------------------------------------------------------------------
(* The heap: sequences of blocks.                                          *)

HpBlock == [addr : Nat, len : Nat \ {0}]

HpAligned(b) == b.addr % MB = 0 /\ b.len % MB = 0

\* Each block ends below the next one, and does not touch it.
HpApart(s) ==
    \A i, j \in 1 .. Len(s) : i < j => s[i].addr + s[i].len < s[j].addr

HpList(s) ==
    /\ s \in Seq(HpBlock)
    /\ \A i \in 1 .. Len(s) : HpAligned(s[i])
    /\ HpApart(s)

HpBytes(s) == UNION {Span(b) : b \in Range(s)}

\* The entries of s behind k and up to l are replaced by those of m.
HpPut(s, k, m, l) == SubSeq(s, 1, k) \o m \o SubSeq(s, l + 1, Len(s))

\* Multiples of MB.
LEMMA HpMultiple ==
  ASSUME NEW a \in Int, NEW b \in Int, a % MB = 0, b % MB = 0
  PROVE  (a + b) % MB = 0 /\ (a - b) % MB = 0
<1>1. MB \in Nat \ {0}
  BY MemoryAssumption
<1>2. a = MB * (a \div MB) + (a % MB) /\ b = MB * (b \div MB) + (b % MB)
  BY <1>1
<1>3. PICK x \in Int, y \in Int : x = a \div MB /\ y = b \div MB
  BY <1>1
<1>4. a + b = MB * (x + y) /\ a - b = MB * (x - y)
  BY <1>1, <1>2, <1>3, Z3
<1>5. \A q \in Int : (MB * q) % MB = 0
  BY <1>1, Z3
<1>6. QED
  BY <1>3, <1>4, <1>5

\* Rounding up and down.
LEMMA HpRounded ==
  ASSUME NEW n \in Nat
  PROVE  /\ roundmb(n) \in Nat /\ roundmb(n) % MB = 0
         /\ n <= roundmb(n) /\ roundmb(n) <= n + MB - 1
         /\ truncmb(n) \in Nat /\ truncmb(n) % MB = 0
         /\ n - MB + 1 <= truncmb(n) /\ truncmb(n) <= n
<1>1. MB \in Nat \ {0}
  BY MemoryAssumption
<1>2. \A q \in Int : (q * MB) % MB = 0
  BY <1>1, Z3
<1>3. ASSUME NEW m \in Nat
      PROVE  /\ m \div MB \in Nat /\ (m \div MB) * MB \in Nat
             /\ (m \div MB) * MB % MB = 0
             /\ m - MB + 1 <= (m \div MB) * MB /\ (m \div MB) * MB <= m
  <2>1. m \div MB \in Int /\ m % MB \in 0 .. MB - 1 /\ m = MB * (m \div MB) + (m % MB)
    BY <1>1
  <2>2. m \div MB \in Nat
    BY <1>1, Z3
  <2>3. PICK q \in Nat, r \in 0 .. MB - 1 : q = m \div MB /\ r = m % MB
    BY <2>1, <2>2
  <2>4. m = MB * q + r /\ MB * q = q * MB /\ q * MB \in Nat
    BY <1>1, <2>1, <2>3, Z3
  <2>5. (m \div MB) * MB = q * MB
    BY <2>3
  <2>6. q * MB % MB = 0 /\ m - MB + 1 <= q * MB /\ q * MB <= m
    BY <1>1, <1>2, <2>4
  <2>7. QED
    BY <2>2, <2>4, <2>5, <2>6
<1>4. n + MB - 1 \in Nat
  BY <1>1
<1>5. QED
  BY <1>1, <1>3, <1>4 DEF roundmb, truncmb

\* The entries after HpPut.
LEMMA HpPutEntries ==
  ASSUME NEW S, NEW s \in Seq(S), NEW m \in Seq(S), NEW k \in Nat, NEW l \in Nat,
         k <= l, l <= Len(s)
  PROVE  /\ HpPut(s, k, m, l) \in Seq(S)
         /\ Len(HpPut(s, k, m, l)) = k + Len(m) + Len(s) - l
         /\ \A i \in 1 .. k : HpPut(s, k, m, l)[i] = s[i]
         /\ \A i \in 1 .. Len(m) : HpPut(s, k, m, l)[k + i] = m[i]
         /\ \A i \in l + 1 .. Len(s) : HpPut(s, k, m, l)[k + Len(m) + i - l] = s[i]
<1> DEFINE a == SubSeq(s, 1, k)
           c == SubSeq(s, l + 1, Len(s))
<1>1. Len(s) \in Nat /\ Len(m) \in Nat /\ \A i \in 1 .. Len(s) : s[i] \in S
  BY LenProperties, ElementOfSeq
<1>2. a \in Seq(S) /\ Len(a) = k /\ \A i \in 1 .. k : a[i] = s[i]
  <2>1. \A i \in 1 .. k : s[i] \in S
    BY <1>1
  <2>2. /\ a \in Seq(S)
        /\ Len(a) = IF 1 <= k THEN k - 1 + 1 ELSE 0
        /\ \A i \in 1 .. k - 1 + 1 : a[i] = s[1 + i - 1]
    BY <2>1, SubSeqProperties, 1 \in Int, k \in Int
  <2>3. QED
    BY <2>2
<1>3. c \in Seq(S) /\ Len(c) = Len(s) - l /\ \A i \in 1 .. Len(s) - l : c[i] = s[l + i]
  <2>1. \A i \in l + 1 .. Len(s) : s[i] \in S
    BY <1>1
  <2>2. /\ c \in Seq(S)
        /\ Len(c) = IF l + 1 <= Len(s) THEN Len(s) - (l + 1) + 1 ELSE 0
        /\ \A i \in 1 .. Len(s) - (l + 1) + 1 : c[i] = s[l + 1 + i - 1]
    BY <2>1, <1>1, SubSeqProperties, l + 1 \in Int, Len(s) \in Int
  <2>3. QED
    BY <2>2, <1>1
<1> HIDE DEF a, c
<1>4. /\ a \o m \in Seq(S) /\ Len(a \o m) = k + Len(m)
      /\ \A i \in 1 .. k + Len(m) : (a \o m)[i] = IF i <= k THEN a[i] ELSE m[i - k]
  BY <1>1, <1>2, ConcatProperties
<1>5. /\ (a \o m) \o c \in Seq(S)
      /\ Len((a \o m) \o c) = k + Len(m) + Len(s) - l
      /\ \A i \in 1 .. k + Len(m) + Len(s) - l :
            ((a \o m) \o c)[i] = IF i <= k + Len(m) THEN (a \o m)[i] ELSE c[i - (k + Len(m))]
  <2>1. PICK u : u = a \o m
    OBVIOUS
  <2>2. u \in Seq(S) /\ Len(u) = k + Len(m)
    BY <1>4, <2>1
  <2>3. /\ u \o c \in Seq(S)
        /\ Len(u \o c) = Len(u) + Len(c)
        /\ \A i \in 1 .. Len(u) + Len(c) :
              (u \o c)[i] = IF i <= Len(u) THEN u[i] ELSE c[i - Len(u)]
    <3>1. c \in Seq(S) /\ u \in Seq(S)
      BY <1>3, <2>2
    <3>2. QED
      BY <3>1, ConcatProperties
  <2>4. Len(u) + Len(c) = k + Len(m) + Len(s) - l
    BY <1>1, <1>3, <2>2
  <2>5. QED
    BY <2>1, <2>2, <2>3, <2>4
<1>6. HpPut(s, k, m, l) = (a \o m) \o c
  BY DEF HpPut, a, c
<1>7. PICK t : t = (a \o m) \o c
  OBVIOUS
<1>8. \A i \in 1 .. k : t[i] = s[i]
  BY <1>1, <1>2, <1>4, <1>5, <1>7
<1>9. \A i \in 1 .. Len(m) : t[k + i] = m[i]
  <2>1. TAKE i \in 1 .. Len(m)
  <2>2. /\ k + i \in 1 .. k + Len(m) /\ k + i \in 1 .. k + Len(m) + Len(s) - l
        /\ ~(k + i <= k) /\ k + i <= k + Len(m) /\ (k + i) - k = i
    BY <1>1, LenProperties
  <2>3. t[k + i] = (a \o m)[k + i]
    BY <1>5, <1>7, <2>2
  <2>4. (a \o m)[k + i] = m[(k + i) - k]
    BY <1>4, <2>2
  <2>5. QED
    BY <2>2, <2>3, <2>4
<1>10. \A i \in l + 1 .. Len(s) : t[k + Len(m) + i - l] = s[i]
  <2>1. TAKE i \in l + 1 .. Len(s)
  <2>2. /\ k + Len(m) + i - l \in 1 .. k + Len(m) + Len(s) - l
        /\ ~(k + Len(m) + i - l <= k + Len(m))
        /\ k + Len(m) + i - l - (k + Len(m)) = i - l
        /\ i - l \in 1 .. Len(s) - l /\ l + (i - l) = i
    BY <1>1
  <2>3. t[k + Len(m) + i - l] = c[i - l]
    <3>1. PICK j : j = k + Len(m) + i - l
      OBVIOUS
    <3>2. j \in 1 .. k + Len(m) + Len(s) - l /\ ~(j <= k + Len(m)) /\ j - (k + Len(m)) = i - l
      BY <2>2, <3>1
    <3>3. t[j] = c[j - (k + Len(m))]
      BY <3>2, <1>5, <1>7
    <3>4. QED
      BY <3>1, <3>2, <3>3
  <2>4. QED
    BY <2>2, <2>3, <1>3
<1>11. QED
  BY <1>5, <1>6, <1>7, <1>8, <1>9, <1>10

\* The bytes of a list.
LEMMA HpBytesAre ==
  ASSUME NEW s \in Seq(HpBlock)
  PROVE  /\ Len(s) \in Nat
         /\ \A i \in 1 .. Len(s) : s[i].addr \in Nat /\ s[i].len \in Nat \ {0}
         /\ HpBytes(s) = {x \in Nat : \E i \in 1 .. Len(s) :
                                         s[i].addr <= x /\ x < s[i].addr + s[i].len}
<1>1. Len(s) \in Nat /\ DOMAIN s = 1 .. Len(s) /\ \A i \in 1 .. Len(s) : s[i] \in HpBlock
  BY LenProperties, ElementOfSeq
<1>2. \A i \in 1 .. Len(s) : s[i].addr \in Nat /\ s[i].len \in Nat \ {0}
  BY <1>1 DEF HpBlock
<1>3. ASSUME NEW i \in 1 .. Len(s)
      PROVE  Span(s[i]) = {x \in Nat : s[i].addr <= x /\ x < s[i].addr + s[i].len}
  BY <1>2 DEF Span
<1>4. \A x : x \in HpBytes(s) <=> \E i \in 1 .. Len(s) : x \in Span(s[i])
  BY <1>1 DEF HpBytes, Range
<1>5. QED
  BY <1>1, <1>2, <1>3, <1>4

\* Bytes in a row are in one block: between two blocks is one that is not free.
LEMMA HpWithinOne ==
  ASSUME NEW s, HpList(s), NEW a \in Int, NEW n \in Nat \ {0}, Span(Blk(a, n)) \subseteq HpBytes(s)
  PROVE  a \in Nat /\ \E i \in 1 .. Len(s) : s[i].addr <= a /\ a + n <= s[i].addr + s[i].len
<1>1. s \in Seq(HpBlock) /\ HpApart(s)
  BY DEF HpList
<1>2. /\ Len(s) \in Nat
      /\ \A i \in 1 .. Len(s) : s[i].addr \in Nat /\ s[i].len \in Nat \ {0}
      /\ HpBytes(s) = {x \in Nat : \E i \in 1 .. Len(s) :
                                      s[i].addr <= x /\ x < s[i].addr + s[i].len}
  BY <1>1, HpBytesAre
<1>3. Span(Blk(a, n)) = a .. a + n - 1
  BY DEF Span, Blk
<1>4. a \in Span(Blk(a, n))
  BY <1>3
<1>5. PICK i \in 1 .. Len(s) : a \in Nat /\ s[i].addr <= a /\ a < s[i].addr + s[i].len
  BY <1>2, <1>4
<1>6. ASSUME s[i].addr + s[i].len < a + n
      PROVE  FALSE
  <2> DEFINE e == s[i].addr + s[i].len
  <2>1. e \in Nat /\ e \in Span(Blk(a, n))
    BY <1>2, <1>3, <1>5, <1>6
  <2>2. PICK j \in 1 .. Len(s) : s[j].addr <= e /\ e < s[j].addr + s[j].len
    BY <1>2, <2>1
  <2>3. CASE i < j
    <3>1. e < s[j].addr
      BY <1>1, <2>3 DEF HpApart
    <3>2. QED
      BY <1>2, <2>1, <2>2, <3>1
  <2>4. CASE j < i
    <3>1. s[j].addr + s[j].len < s[i].addr
      BY <1>1, <2>4 DEF HpApart
    <3>2. /\ s[i].addr \in Nat /\ s[i].len \in Nat \ {0}
          /\ s[j].addr \in Nat /\ s[j].len \in Nat \ {0}
      BY <1>2
    <3>3. QED
      BY <2>2, <3>1, <3>2
  <2>5. CASE i = j
    BY <1>2, <2>1, <2>2, <2>5
  <2>6. QED
    BY <1>2, <2>3, <2>4, <2>5
<1>7. QED
  BY <1>2, <1>5, <1>6

\* There is place for m between the entries k and l + 1.
HpPlace(s, k, m, l) ==
    /\ k <= l /\ l <= Len(s)
    /\ Len(m) \in {0, 1}
    /\ Len(m) = 1 => /\ k >= 1 => s[k].addr + s[k].len < m[1].addr
                     /\ l < Len(s) => m[1].addr + m[1].len < s[l + 1].addr

\* A block in the place of others, apart from those before and behind it, or
\* nothing in their place.
LEMMA HpPutList ==
  ASSUME NEW s, HpList(s), NEW m, HpList(m), NEW k \in Nat, NEW l \in Nat, HpPlace(s, k, m, l)
  PROVE  /\ HpList(HpPut(s, k, m, l))
         /\ HpBytes(HpPut(s, k, m, l)) =
               (HpBytes(s) \ UNION {Span(s[i]) : i \in k + 1 .. l}) \cup HpBytes(m)
<1> DEFINE t == HpPut(s, k, m, l)
<1>1. /\ s \in Seq(HpBlock) /\ m \in Seq(HpBlock) /\ HpApart(s)
      /\ k <= l /\ l <= Len(s) /\ Len(m) \in {0, 1}
  BY DEF HpList, HpPlace
<1>2. /\ Len(s) \in Nat /\ Len(m) \in {0, 1} /\ k <= l /\ l <= Len(s)
      /\ \A i \in 1 .. Len(s) : s[i].addr \in Nat /\ s[i].len \in Nat \ {0}
      /\ \A i \in 1 .. Len(m) : m[i].addr \in Nat /\ m[i].len \in Nat \ {0}
      /\ HpBytes(s) = {x \in Nat : \E i \in 1 .. Len(s) :
                                      s[i].addr <= x /\ x < s[i].addr + s[i].len}
      /\ HpBytes(m) = {x \in Nat : \E i \in 1 .. Len(m) :
                                      m[i].addr <= x /\ x < m[i].addr + m[i].len}
  <2>1. /\ Len(s) \in Nat
        /\ \A i \in 1 .. Len(s) : s[i].addr \in Nat /\ s[i].len \in Nat \ {0}
        /\ HpBytes(s) = {x \in Nat : \E i \in 1 .. Len(s) :
                                        s[i].addr <= x /\ x < s[i].addr + s[i].len}
    BY <1>1, HpBytesAre
  <2>2. /\ Len(m) \in Nat
        /\ \A i \in 1 .. Len(m) : m[i].addr \in Nat /\ m[i].len \in Nat \ {0}
        /\ HpBytes(m) = {x \in Nat : \E i \in 1 .. Len(m) :
                                        m[i].addr <= x /\ x < m[i].addr + m[i].len}
    BY <1>1, HpBytesAre
  <2>3. QED
    BY <1>1, <2>1, <2>2
<1>3. /\ t \in Seq(HpBlock) /\ Len(t) = k + Len(m) + Len(s) - l
      /\ \A i \in 1 .. k : t[i] = s[i]
      /\ \A i \in 1 .. Len(m) : t[k + i] = m[i]
      /\ \A i \in l + 1 .. Len(s) : t[k + Len(m) + i - l] = s[i]
  <2>1. s \in Seq(HpBlock) /\ m \in Seq(HpBlock) /\ k \in Nat /\ l \in Nat /\ k <= l /\ l <= Len(s)
    BY <1>1
  <2>2. QED
    <3>1. t \in Seq(HpBlock)
      BY <2>1, HpPutEntries
    <3>2. Len(t) = k + Len(m) + Len(s) - l
      BY <2>1, HpPutEntries
    <3>3. \A i \in 1 .. k : t[i] = s[i]
      BY <2>1, HpPutEntries
    <3>4. \A i \in 1 .. Len(m) : t[k + i] = m[i]
      BY <2>1, HpPutEntries
    <3>5. \A i \in l + 1 .. Len(s) : t[k + Len(m) + i - l] = s[i]
      BY <2>1, HpPutEntries
    <3>6. QED
      BY <3>1, <3>2, <3>3, <3>4, <3>5
<1> HIDE DEF t
\* Each entry of t is one of s in front, the one of m, or one of s behind.
<1>4. ASSUME NEW i \in 1 .. Len(t)
      PROVE  \/ i <= k /\ i \in 1 .. Len(s) /\ t[i] = s[i]
             \/ Len(m) = 1 /\ i = k + 1 /\ t[i] = m[1]
             \/ /\ i > k + Len(m) /\ i - k - Len(m) + l \in l + 1 .. Len(s)
                /\ t[i] = s[i - k - Len(m) + l]
  <2>1. CASE i <= k
    BY <1>2, <1>3, <2>1
  <2>2. CASE i > k /\ i <= k + Len(m)
    <3>1. Len(m) = 1 /\ i = k + 1 /\ 1 \in 1 .. Len(m)
      <4>1. Len(m) \in {0, 1} /\ i \in Int
        BY <1>2, <1>3
      <4>2. PICK c \in {0, 1} : c = Len(m)
        BY <4>1
      <4>3. c = 1 /\ i = k + 1
        BY <2>2, <4>1, <4>2
      <4>4. QED
        BY <4>2, <4>3
    <3>2. QED
      BY <1>3, <3>1
  <2>3. CASE i > k + Len(m)
    <3>1. PICK j : j = i - k - Len(m) + l
      OBVIOUS
    <3>2. j \in l + 1 .. Len(s) /\ k + Len(m) + j - l = i
      BY <1>2, <1>3, <2>3, <3>1
    <3>3. t[i] = s[j]
      BY <1>3, <3>2
    <3>4. QED
      BY <2>3, <3>1, <3>2, <3>3
  <2>4. QED
    BY <1>2, <1>3, <2>1, <2>2, <2>3
<1>5. \A i \in 1 .. Len(t) : HpAligned(t[i])
  <2>1. TAKE i \in 1 .. Len(t)
  <2>2. /\ \A j \in 1 .. Len(s) : HpAligned(s[j])
        /\ Len(m) = 1 => HpAligned(m[1])
    BY DEF HpList
  <2>3. \A j \in l + 1 .. Len(s) : j \in 1 .. Len(s)
    BY <1>2
  <2>4. QED
    BY <1>4, <2>2, <2>3
<1>6. HpApart(t)
  <2>1. SUFFICES ASSUME NEW i \in 1 .. Len(t), NEW j \in 1 .. Len(t), i < j
                 PROVE  t[i].addr + t[i].len < t[j].addr
    BY DEF HpApart
  <2>2. \A x, y \in 1 .. Len(s) : x < y => s[x].addr + s[x].len < s[y].addr
    BY <1>1 DEF HpApart
  <2>3. \A x \in 1 .. Len(s) :
           s[x].addr + s[x].len \in Nat /\ s[x].addr < s[x].addr + s[x].len
    <3>1. TAKE x \in 1 .. Len(s)
    <3>2. s[x].addr \in Nat /\ s[x].len \in Nat \ {0}
      BY <1>2
    <3>3. QED
      BY <3>2
  <2>4. ASSUME Len(m) = 1, NEW x \in 1 .. Len(s), x <= k
        PROVE  s[x].addr + s[x].len < m[1].addr
    <3>1. k \in 1 .. Len(s) /\ (x = k \/ x < k) /\ 1 \in 1 .. Len(m)
      BY <1>2, <2>4
    <3>2. x < k => s[x].addr + s[x].len < s[k].addr
      BY <2>2, <3>1
    <3>3. s[x].addr + s[x].len \in Nat
      BY <2>3
    <3>4. s[k].addr + s[k].len \in Nat /\ s[k].addr < s[k].addr + s[k].len
      BY <2>3, <3>1
    <3>5. s[k].addr \in Nat /\ m[1].addr \in Nat
      BY <1>2, <3>1
    <3>6. s[k].addr + s[k].len < m[1].addr
      BY <2>4, <3>1 DEF HpPlace
    <3>7. PICK y, z, w, v :
             s[x].addr + s[x].len = y /\ s[k].addr = z /\ s[k].addr + s[k].len = w /\ m[1].addr = v
      OBVIOUS
    <3>8. y \in Nat /\ z \in Nat /\ w \in Nat /\ v \in Nat /\ z < w /\ w < v
      BY <3>3, <3>4, <3>5, <3>6, <3>7
    <3>9. y = w \/ y < z
      BY <3>1, <3>2, <3>7
    <3>10. QED
      BY <3>7, <3>8, <3>9
  <2>5. ASSUME Len(m) = 1, NEW x \in 1 .. Len(s), x > l
        PROVE  m[1].addr + m[1].len < s[x].addr
    <3>1. l + 1 \in 1 .. Len(s) /\ (x = l + 1 \/ l + 1 < x) /\ 1 \in 1 .. Len(m)
      BY <1>2, <2>5
    <3>2. l + 1 < x => s[l + 1].addr + s[l + 1].len < s[x].addr
      BY <2>2, <3>1
    <3>3. /\ s[x].addr \in Nat /\ s[l + 1].addr \in Nat /\ s[l + 1].len \in Nat \ {0}
          /\ m[1].addr \in Nat /\ m[1].len \in Nat \ {0}
      BY <1>2, <3>1
    <3>4. m[1].addr + m[1].len < s[l + 1].addr
      <4>1. l < Len(s)
        BY <1>2, <3>1
      <4>2. QED
        BY <2>5, <4>1 DEF HpPlace
    <3>5. PICK y, z, w, v :
             s[x].addr = y /\ s[l + 1].addr = z /\ s[l + 1].addr + s[l + 1].len = w /\ m[1].addr + m[1].len = v
      OBVIOUS
    <3>6. y \in Nat /\ z \in Nat /\ w \in Nat /\ z < w /\ v < z
      BY <2>3, <3>1, <3>3, <3>4, <3>5
    <3>7. v \in Nat
      <4>1. m[1].addr \in Nat /\ m[1].len \in Nat
        BY <3>3
      <4>2. QED
        BY <4>1, <3>5
    <3>8. y = z \/ w < y
      BY <3>1, <3>2, <3>5
    <3>9. QED
      BY <3>5, <3>6, <3>8, <3>7
  <2>6. PICK v : v = j - k - Len(m) + l
    OBVIOUS
  <2>7. PICK u : u = i - k - Len(m) + l
    OBVIOUS
  <2>8. CASE i <= k /\ t[i] = s[i] /\ i \in 1 .. Len(s)
    <3>1. CASE j <= k /\ t[j] = s[j] /\ j \in 1 .. Len(s)
      BY <2>1, <2>2, <2>8, <3>1
    <3>2. CASE Len(m) = 1 /\ j = k + 1 /\ t[j] = m[1]
      BY <2>4, <2>8, <3>2
    <3>3. CASE v \in l + 1 .. Len(s) /\ t[j] = s[v]
      <4>1. v \in 1 .. Len(s) /\ i < v
        BY <1>2, <2>8, <3>3
      <4>2. QED
        BY <2>2, <2>8, <3>3, <4>1
    <3>4. QED
      BY <1>4, <2>6, <3>1, <3>2, <3>3
  <2>9. CASE Len(m) = 1 /\ i = k + 1 /\ t[i] = m[1]
    <3>1. v \in l + 1 .. Len(s) /\ t[j] = s[v]
      BY <1>4, <2>1, <2>6, <2>9
    <3>2. v \in 1 .. Len(s) /\ v > l
      BY <1>2, <3>1
    <3>3. QED
      BY <2>5, <2>9, <3>1, <3>2
  <2>10. CASE i > k + Len(m) /\ u \in l + 1 .. Len(s) /\ t[i] = s[u]
    <3>1. v \in l + 1 .. Len(s) /\ t[j] = s[v] /\ u < v
      BY <1>2, <1>4, <2>1, <2>6, <2>7, <2>10
    <3>2. u \in 1 .. Len(s) /\ v \in 1 .. Len(s)
      BY <1>2, <2>10, <3>1
    <3>3. QED
      BY <2>2, <2>10, <3>1, <3>2
  <2>11. QED
    BY <1>4, <2>7, <2>8, <2>9, <2>10
<1>7. HpList(t)
  BY <1>3, <1>5, <1>6 DEF HpList
<1> DEFINE In(x, b) == b.addr <= x /\ x < b.addr + b.len
<1>8. HpBytes(t) = {x \in Nat : \E i \in 1 .. Len(t) : In(x, t[i])}
  BY <1>3, HpBytesAre
<1>9. ASSUME NEW x \in Nat
      PROVE  x \in HpBytes(t) <=> \/ \E i \in 1 .. k : In(x, s[i])
                                  \/ \E i \in l + 1 .. Len(s) : In(x, s[i])
                                  \/ x \in HpBytes(m)
  <2>1. ASSUME x \in HpBytes(t)
        PROVE  \/ \E i \in 1 .. k : In(x, s[i])
               \/ \E i \in l + 1 .. Len(s) : In(x, s[i])
               \/ x \in HpBytes(m)
    <3>1. PICK i \in 1 .. Len(t) : In(x, t[i])
      BY <1>8, <2>1
    <3>2. CASE i <= k /\ t[i] = s[i]
      BY <3>1, <3>2
    <3>3. CASE Len(m) = 1 /\ t[i] = m[1]
      <4>1. 1 \in 1 .. Len(m)
        BY <3>3
      <4>2. QED
        BY <1>2, <3>1, <3>3, <4>1
    <3>4. CASE \E j \in l + 1 .. Len(s) : t[i] = s[j]
      BY <3>1, <3>4
    <3>5. QED
      BY <1>4, <3>2, <3>3, <3>4
  <2>2. ASSUME NEW i \in 1 .. k, In(x, s[i])
        PROVE  x \in HpBytes(t)
    <3>1. i \in 1 .. Len(t) /\ t[i] = s[i]
      BY <1>2, <1>3
    <3>2. QED
      BY <1>8, <2>2, <3>1
  <2>3. ASSUME NEW i \in l + 1 .. Len(s), In(x, s[i])
        PROVE  x \in HpBytes(t)
    <3>1. PICK j : j = k + Len(m) + i - l
      OBVIOUS
    <3>2. j \in 1 .. Len(t) /\ t[j] = s[i]
      BY <1>2, <1>3, <3>1
    <3>3. QED
      BY <1>8, <2>3, <3>2
  <2>4. ASSUME x \in HpBytes(m)
        PROVE  x \in HpBytes(t)
    <3>1. PICK i \in 1 .. Len(m) : In(x, m[i])
      BY <1>2, <2>4
    <3>2. k + i \in 1 .. Len(t) /\ t[k + i] = m[i]
      BY <1>2, <1>3
    <3>3. QED
      BY <1>8, <3>1, <3>2
  <2>5. QED
    BY <2>1, <2>2, <2>3, <2>4
<1>10. ASSUME NEW i \in 1 .. Len(s), NEW j \in 1 .. Len(s), NEW x \in Nat, In(x, s[i]), In(x, s[j])
       PROVE  i = j
  <2>1. i < j => s[i].addr + s[i].len < s[j].addr
    BY <1>1 DEF HpApart
  <2>2. j < i => s[j].addr + s[j].len < s[i].addr
    BY <1>1 DEF HpApart
  <2>3. /\ s[i].addr \in Nat /\ s[i].len \in Nat \ {0}
        /\ s[j].addr \in Nat /\ s[j].len \in Nat \ {0}
    BY <1>2
  <2>4. ~(i < j)
    <3>1. x < s[i].addr + s[i].len /\ s[j].addr <= x
      BY <1>10
    <3>2. QED
      BY <2>1, <2>3, <3>1
  <2>5. ~(j < i)
    <3>1. x < s[j].addr + s[j].len /\ s[i].addr <= x
      BY <1>10
    <3>2. QED
      BY <2>2, <2>3, <3>1
  <2>6. QED
    BY <1>2, <2>4, <2>5
<1>11. ASSUME NEW i \in 1 .. Len(s)
       PROVE  Span(s[i]) = {x \in Nat : In(x, s[i])}
  BY <1>2 DEF Span
<1>12. \A i \in k + 1 .. l : i \in 1 .. Len(s)
  BY <1>2
<1>13. UNION {Span(s[i]) : i \in k + 1 .. l} = {x \in Nat : \E i \in k + 1 .. l : In(x, s[i])}
  BY <1>11, <1>12
<1>14. ASSUME NEW x \in Nat
       PROVE  x \in HpBytes(s) /\ x \notin UNION {Span(s[i]) : i \in k + 1 .. l}
                <=> \/ \E i \in 1 .. k : In(x, s[i])
                    \/ \E i \in l + 1 .. Len(s) : In(x, s[i])
  <2>1. ASSUME NEW i \in 1 .. Len(s), In(x, s[i]), ~\E j \in k + 1 .. l : In(x, s[j])
        PROVE  i \in 1 .. k \/ i \in l + 1 .. Len(s)
    BY <1>2, <2>1
  <2>2. ASSUME NEW i \in 1 .. Len(s), In(x, s[i]), i \in 1 .. k \/ i \in l + 1 .. Len(s),
               NEW j \in k + 1 .. l, In(x, s[j])
        PROVE  FALSE
    <3>1. i = j
      BY <1>10, <1>12, <2>2
    <3>2. QED
      BY <1>2, <2>2, <3>1
  <2>3. (\A i \in 1 .. k : i \in 1 .. Len(s)) /\ \A i \in l + 1 .. Len(s) : i \in 1 .. Len(s)
    BY <1>2
  <2>4. QED
    BY <1>2, <1>13, <2>1, <2>2, <2>3
<1>15. HpBytes(m) \subseteq Nat /\ HpBytes(t) \subseteq Nat /\ HpBytes(s) \subseteq Nat
  BY <1>2, <1>8
<1>16. HpBytes(t) = (HpBytes(s) \ UNION {Span(s[i]) : i \in k + 1 .. l}) \cup HpBytes(m)
  BY <1>9, <1>14, <1>15
<1>17. QED
  BY <1>7, <1>16 DEF t

\* A multiple of MB is not a little more than another one.
LEMMA HpBelow ==
  ASSUME NEW a \in Int, NEW b \in Int, a % MB = 0, b % MB = 0, a < b + MB
  PROVE  a <= b
<1>1. MB \in Nat \ {0}
  BY MemoryAssumption
<1>2. a = MB * (a \div MB) + (a % MB) /\ b = MB * (b \div MB) + (b % MB)
  BY <1>1
<1>3. PICK x \in Int, y \in Int : x = a \div MB /\ y = b \div MB
  BY <1>1
<1>4. a = MB * x /\ b = MB * y
  BY <1>1, <1>2, <1>3, Z3
<1>5. MB * (x - y) < MB
  BY <1>1, <1>4, Z3
<1>6. x - y <= 0
  BY <1>1, <1>5, Z3
<1>7. MB * x <= MB * y
  BY <1>1, <1>6, Z3
<1>8. QED
  BY <1>4, <1>7

LEMMA HpConstants ==
  /\ MB \in Nat \ {0} /\ minheap \in Nat /\ maxheap \in Nat /\ HOLESTART \in Nat
  /\ HOLEEND \in Nat /\ NULLSTK \in Nat
  /\ MB \div 2 \in Nat /\ MB \div 2 <= MB
BY MemoryAssumption

\* A list of one block and one of two.
LEMMA HpOne ==
  ASSUME NEW b \in HpBlock, HpAligned(b)
  PROVE  HpList(<<b>>) /\ Len(<<b>>) = 1 /\ HpBytes(<<b>>) = Span(b)
<1>1. <<b>> \in Seq(HpBlock) /\ Len(<<b>>) = 1 /\ <<b>>[1] = b
  OBVIOUS
<1>2. HpApart(<<b>>)
  BY <1>1 DEF HpApart
<1>3. \A i \in 1 .. Len(<<b>>) : HpAligned(<<b>>[i])
  BY <1>1
<1>4. Range(<<b>>) = {b}
  BY <1>1 DEF Range
<1>5. QED
  BY <1>1, <1>2, <1>3, <1>4 DEF HpList, HpBytes

LEMMA HpTwo ==
  ASSUME NEW b \in HpBlock, NEW c \in HpBlock, HpAligned(b), HpAligned(c),
         b.addr + b.len < c.addr
  PROVE  HpList(<<b, c>>) /\ HpBytes(<<b, c>>) = Span(b) \cup Span(c)
<1>1. /\ <<b, c>> \in Seq(HpBlock) /\ Len(<<b, c>>) = 2
      /\ <<b, c>>[1] = b /\ <<b, c>>[2] = c
  OBVIOUS
<1>2. 1 .. Len(<<b, c>>) = {1, 2}
  BY <1>1
<1>3. HpApart(<<b, c>>)
  BY <1>1, <1>2 DEF HpApart
<1>4. \A i \in 1 .. Len(<<b, c>>) : HpAligned(<<b, c>>[i])
  BY <1>1, <1>2
<1>5. Range(<<b, c>>) = {b, c}
  BY <1>1, <1>2 DEF Range
<1>6. QED
  BY <1>1, <1>3, <1>4, <1>5 DEF HpList, HpBytes

\* The blocks of meminit are blocks of the heap.
LEMMA HpPoolOK ==
  HpList(MemPool) /\ HpBytes(MemPool) \subseteq HeapBytes /\ IsFiniteSet(HpBytes(MemPool))
<1> DEFINE r == roundmb(minheap)
           d == HOLESTART - minheap - MB \div 2
           e == maxheap - HOLEEND - NULLSTK
           f == maxheap - minheap - NULLSTK
<1>1. /\ r \in Nat /\ r % MB = 0 /\ minheap <= r /\ r <= minheap + MB - 1
  BY HpConstants, HpRounded
<1>2. /\ 0 < minheap /\ minheap + 2 * MB <= HOLESTART /\ HOLESTART < HOLEEND
      /\ MB <= NULLSTK /\ HOLESTART % MB = 0 /\ HOLEEND % MB = 0
  BY MemoryAssumption
<1>3. CASE maxheap + 1 > HOLESTART
  <2>1. HOLEEND + NULLSTK + MB < maxheap
    BY <1>3, HpConstants, MemoryAssumption
  <2>2. d \in Nat /\ MB <= d /\ d <= HOLESTART - minheap /\ e \in Nat /\ MB < e
    BY <1>2, <2>1, HpConstants
  <2>3. PICK x : x = truncmb(d)
    OBVIOUS
  <2>4. PICK y : y = truncmb(e)
    OBVIOUS
  <2>5. /\ x \in Nat /\ x % MB = 0 /\ d - MB + 1 <= x /\ x <= d
        /\ y \in Nat /\ y % MB = 0 /\ e - MB + 1 <= y /\ y <= e
    BY <2>2, <2>3, <2>4, HpRounded
  <2>6. x > 0 /\ y > 0 /\ r + x < HOLESTART + MB
    BY <1>1, <1>2, <2>2, <2>5, HpConstants
  <2>7. (r + x) % MB = 0
    BY <1>1, <2>5, HpMultiple
  <2>8. r + x <= HOLESTART
    BY <1>1, <1>2, <2>5, <2>6, <2>7, HpBelow, HpConstants
  <2>9. HOLEEND + y <= maxheap /\ HOLESTART <= maxheap
    BY <1>3, <2>2, <2>5, HpConstants
  <2>10. MemPool = <<Blk(r, x), Blk(HOLEEND, y)>>
    BY <1>3, <2>3, <2>4 DEF MemPool
  <2>11. /\ Blk(r, x) \in HpBlock /\ Blk(HOLEEND, y) \in HpBlock
         /\ Blk(r, x).addr = r /\ Blk(r, x).len = x
         /\ Blk(HOLEEND, y).addr = HOLEEND /\ Blk(HOLEEND, y).len = y
    BY <1>1, <2>5, <2>6, HpConstants DEF HpBlock, Blk
  <2>12. /\ HpAligned(Blk(r, x)) /\ HpAligned(Blk(HOLEEND, y))
         /\ Blk(r, x).addr + Blk(r, x).len < Blk(HOLEEND, y).addr
    BY <1>1, <1>2, <2>5, <2>8, <2>11, HpConstants DEF HpAligned
  <2>13. /\ HpList(MemPool)
         /\ HpBytes(MemPool) = Span(Blk(r, x)) \cup Span(Blk(HOLEEND, y))
    BY <2>10, <2>11, <2>12, HpTwo
  <2>14. Span(Blk(r, x)) = r .. r + x - 1 /\ Span(Blk(HOLEEND, y)) = HOLEEND .. HOLEEND + y - 1
    BY <2>11 DEF Span
  <2>15. Span(Blk(r, x)) \subseteq HeapBytes
    BY <1>1, <1>2, <2>5, <2>8, <2>9, <2>14, HpConstants DEF HeapBytes, Bytes
  <2>16. Span(Blk(HOLEEND, y)) \subseteq HeapBytes
    BY <1>2, <2>5, <2>9, <2>14, HpConstants DEF HeapBytes, Bytes
  <2>17. IsFiniteSet(Span(Blk(r, x))) /\ IsFiniteSet(Span(Blk(HOLEEND, y)))
    BY <1>1, <2>5, <2>14, HpConstants, FS_Interval
  <2>18. IsFiniteSet(HpBytes(MemPool))
    BY <2>13, <2>17, FS_Union
  <2>19. QED
    BY <2>13, <2>15, <2>16, <2>18
<1>4. CASE maxheap + 1 <= HOLESTART
  <2>1. minheap + NULLSTK + MB < maxheap
    BY <1>2, <1>4, HpConstants, MemoryAssumption
  <2>2. f \in Nat /\ MB < f
    BY <1>2, <2>1, HpConstants
  <2>3. PICK x : x = truncmb(f)
    OBVIOUS
  <2>4. /\ x \in Nat /\ x % MB = 0 /\ f - MB + 1 <= x /\ x <= f
    BY <2>2, <2>3, HpRounded
  <2>5. x > 0 /\ r + x <= maxheap
    BY <1>1, <1>2, <2>2, <2>4, HpConstants
  <2>6. MemPool = <<Blk(r, x)>>
    BY <1>4, <2>3, HpConstants DEF MemPool
  <2>7. Blk(r, x) \in HpBlock /\ Blk(r, x).addr = r /\ Blk(r, x).len = x
    BY <1>1, <2>4, <2>5 DEF HpBlock, Blk
  <2>8. HpAligned(Blk(r, x))
    BY <1>1, <2>4, <2>7 DEF HpAligned
  <2>9. HpList(MemPool) /\ HpBytes(MemPool) = Span(Blk(r, x))
    BY <2>6, <2>7, <2>8, HpOne
  <2>10. Span(Blk(r, x)) = r .. r + x - 1
    BY <2>7 DEF Span
  <2>11. Span(Blk(r, x)) \subseteq HeapBytes
    BY <1>1, <1>4, <2>4, <2>5, <2>10, HpConstants DEF HeapBytes, Bytes
  <2>12. IsFiniteSet(Span(Blk(r, x)))
    BY <1>1, <2>4, <2>10, FS_Interval
  <2>13. QED
    BY <2>9, <2>11, <2>12
<1>5. QED
  BY <1>3, <1>4, HpConstants

-----------------------------------------------------------------------------
(* The heap: the inductive invariant.                                      *)

\* The free list is in the order of addresses, without blocks that touch
\* each other; it and what is held are what meminit put into the list.
HpIInv ==
    /\ HpList(memlist)
    /\ FreeBytes \cap owned = {}
    /\ FreeBytes \cup owned = HpBytes(MemPool)
    /\ mlength = Cardinality(FreeBytes) - Cardinality(HpBytes(MemPool))
    /\ RefusedOnlyWhenFull

\* The largest of a set of indices.
LEMMA HpMax ==
  ASSUME NEW n \in Nat, NEW T \in SUBSET (1 .. n), T # {}
  PROVE  Max(T) \in T /\ \A y \in T : y <= Max(T)
<1> DEFINE U == {n - x : x \in T}
<1>1. U \in SUBSET Nat /\ U # {}
  <2>1. \A x \in T : x \in Int /\ n - x \in Nat
    OBVIOUS
  <2>2. QED
    BY <2>1
<1>2. Min(U) \in U /\ \A y \in U : Min(U) <= y
  BY <1>1, MinProperties
<1>3. PICK x \in T : Min(U) = n - x
  BY <1>2
<1>4. \A y \in T : x >= y
  <2>1. TAKE y \in T
  <2>2. n - y \in U /\ x \in Int /\ y \in Int
    OBVIOUS
  <2>3. n - x <= n - y
    BY <1>2, <1>3, <2>2
  <2>4. QED
    BY <2>2, <2>3
<1>5. \E z \in T : \A y \in T : z >= y
  BY <1>4
<1>6. Max(T) \in T /\ \A y \in T : Max(T) >= y
  BY <1>5 DEF Max
<1>7. \A y \in T : y \in Int
  OBVIOUS
<1>8. QED
  BY <1>6, <1>7

LEMMA HpReplaced ==
  ASSUME NEW S, NEW s \in Seq(S), NEW i \in 1 .. Len(s), NEW e \in S
  PROVE  ReplaceAt(s, i, e) = HpPut(s, i - 1, <<e>>, i)
<1>1. Len(s) \in Nat /\ i - 1 \in Nat /\ i \in Nat /\ i - 1 <= i /\ i <= Len(s)
  BY LenProperties
<1>2. <<e>> \in Seq(S) /\ Len(<<e>>) = 1 /\ <<e>>[1] = e
  OBVIOUS
<1> DEFINE t == HpPut(s, i - 1, <<e>>, i)
           r == ReplaceAt(s, i, e)
<1>3. /\ t \in Seq(S) /\ Len(t) = i - 1 + 1 + Len(s) - i
      /\ \A j \in 1 .. i - 1 : t[j] = s[j]
      /\ \A j \in 1 .. 1 : t[i - 1 + j] = <<e>>[j]
      /\ \A j \in i + 1 .. Len(s) : t[i - 1 + 1 + j - i] = s[j]
  <2>1. PICK k \in Nat, m \in Seq(S) : k = i - 1 /\ m = <<e>>
    BY <1>1, <1>2
  <2>2. k <= i /\ i <= Len(s) /\ i \in Nat /\ s \in Seq(S) /\ m \in Seq(S) /\ k \in Nat
    BY <1>1, <1>2, <2>1
  <2>3. /\ HpPut(s, k, m, i) \in Seq(S)
        /\ Len(HpPut(s, k, m, i)) = k + Len(m) + Len(s) - i
        /\ \A j \in 1 .. k : HpPut(s, k, m, i)[j] = s[j]
        /\ \A j \in 1 .. Len(m) : HpPut(s, k, m, i)[k + j] = m[j]
        /\ \A j \in i + 1 .. Len(s) : HpPut(s, k, m, i)[k + Len(m) + j - i] = s[j]
    <3>1. HpPut(s, k, m, i) \in Seq(S) /\ Len(HpPut(s, k, m, i)) = k + Len(m) + Len(s) - i
      BY <2>2, HpPutEntries
    <3>2. \A j \in 1 .. k : HpPut(s, k, m, i)[j] = s[j]
      BY <2>2, HpPutEntries
    <3>3. \A j \in 1 .. Len(m) : HpPut(s, k, m, i)[k + j] = m[j]
      BY <2>2, HpPutEntries
    <3>4. \A j \in i + 1 .. Len(s) : HpPut(s, k, m, i)[k + Len(m) + j - i] = s[j]
      BY <2>2, HpPutEntries
    <3>5. QED
      BY <3>1, <3>2, <3>3, <3>4
  <2>4. QED
    BY <1>2, <2>1, <2>2, <2>3
<1>4. /\ r \in Seq(S) /\ Len(r) = Len(s)
      /\ \A j \in 1 .. Len(s) : r[j] = IF j = i THEN e ELSE s[j]
  BY ExceptSeq DEF ReplaceAt
<1> HIDE DEF t, r
<1>5. Len(t) = Len(s)
  BY <1>1, <1>3
<1>6. ASSUME NEW j \in 1 .. Len(s)
      PROVE  t[j] = r[j]
  <2>1. CASE j < i
    <3>1. j \in 1 .. i - 1 /\ j # i
      BY <1>1, <2>1
    <3>2. t[j] = s[j]
      BY <1>3, <3>1
    <3>3. QED
      BY <1>4, <3>1, <3>2
  <2>2. CASE j = i
    <3>1. 1 \in 1 .. 1 /\ i - 1 + 1 = j
      BY <1>1, <2>2
    <3>2. t[j] = e
      BY <1>2, <1>3, <3>1
    <3>3. QED
      BY <1>4, <2>2, <3>2
  <2>3. CASE i < j
    <3>1. j \in i + 1 .. Len(s) /\ i - 1 + 1 + j - i = j
      BY <1>1, <2>3
    <3>2. t[j] = s[j]
      BY <1>3, <3>1
    <3>3. QED
      BY <1>4, <2>3, <3>2
  <2>4. QED
    BY <1>1, <2>1, <2>2, <2>3
<1>7. t = r
  BY <1>3, <1>4, <1>5, <1>6, SeqEqual
<1>8. QED
  BY <1>7 DEF t, r

LEMMA HpRemoved ==
  ASSUME NEW S, NEW s \in Seq(S), NEW i \in 1 .. Len(s)
  PROVE  RemoveAt(s, i) = HpPut(s, i - 1, <<>>, i)
<1>1. Len(s) \in Nat /\ i - 1 \in Int
  BY LenProperties
<1>2. \A j \in 1 .. i - 1 : s[j] \in S
  BY <1>1, ElementOfSeq
<1>3. SubSeq(s, 1, i - 1) \in Seq(S)
  BY <1>1, <1>2, SubSeqProperties
<1>4. SubSeq(s, 1, i - 1) \o <<>> = SubSeq(s, 1, i - 1)
  BY <1>3, ConcatEmptySeq
<1>5. QED
  BY <1>4 DEF RemoveAt, HpPut

\* The empty list.
LEMMA HpNone == HpList(<<>>) /\ Len(<<>>) = 0 /\ HpBytes(<<>>) = {}
<1>1. <<>> \in Seq(HpBlock) /\ Len(<<>>) = 0
  OBVIOUS
<1>2. HpBytes(<<>>) = {x \in Nat : \E i \in 1 .. Len(<<>>) :
                                    <<>>[i].addr <= x /\ x < <<>>[i].addr + <<>>[i].len}
  BY <1>1, HpBytesAre
<1>3. QED
  BY <1>1, <1>2 DEF HpList, HpApart

\* Bytes are taken at one of the ends of a block that has enough of them.
LEMMA HpTaken ==
  ASSUME HpIInv, NEW call \in {"getmem", "getstk"}, NEW n \in Nat \ {0}, n % MB = 0,
         NEW i \in 1 .. Len(memlist), n <= memlist[i].len, NEW a, NEW rest,
         \/ a = memlist[i].addr /\ rest = Blk(memlist[i].addr + n, memlist[i].len - n)
         \/ /\ a = memlist[i].addr + memlist[i].len - n
            /\ rest = Blk(memlist[i].addr, memlist[i].len - n),
         Take(call, n, i, a, rest)
  PROVE  HpIInv' /\ a \in Nat /\ Span(Blk(a, n)) \subseteq FreeBytes
<1> DEFINE s == memlist
           m == IF rest.len = 0 THEN <<>> ELSE <<rest>>
           b == s[i]
<1>1. HpList(s) /\ s \in Seq(HpBlock) /\ HpApart(s) /\ HpAligned(b)
  BY DEF HpIInv, HpList
<1>2. /\ Len(s) \in Nat /\ b.addr \in Nat /\ b.len \in Nat \ {0}
      /\ \A j \in 1 .. Len(s) : s[j].addr \in Nat /\ s[j].len \in Nat \ {0}
      /\ HpBytes(s) = {x \in Nat : \E j \in 1 .. Len(s) :
                                      s[j].addr <= x /\ x < s[j].addr + s[j].len}
  BY <1>1, HpBytesAre
<1>3. PICK d, l : d = b.addr /\ l = b.len
  OBVIOUS
<1>4. d \in Nat /\ l \in Nat \ {0} /\ n <= l /\ d % MB = 0 /\ l % MB = 0
  BY <1>1, <1>2, <1>3 DEF HpAligned
<1>5. \/ a = d /\ rest = Blk(d + n, l - n)
      \/ a = d + l - n /\ rest = Blk(d, l - n)
  BY <1>3
<1>6. /\ rest.len = l - n
      /\ \/ rest.addr = d + n /\ a = d
         \/ rest.addr = d /\ a = d + l - n
  <2>1. CASE a = d /\ rest = Blk(d + n, l - n)
    BY <2>1 DEF Blk
  <2>2. CASE a = d + l - n /\ rest = Blk(d, l - n)
    BY <2>2 DEF Blk
  <2>3. QED
    BY <1>5, <2>1, <2>2
<1>7. (l - n) % MB = 0 /\ (d + n) % MB = 0
  <2>1. l \in Int /\ n \in Int /\ d \in Int
    BY <1>4
  <2>2. (l - n) % MB = 0
    BY <1>4, <2>1, HpMultiple
  <2>3. (d + n) % MB = 0
    BY <1>4, <2>1, HpMultiple
  <2>4. QED
    BY <2>2, <2>3
<1>8. l # n => rest \in HpBlock /\ HpAligned(rest)
  <2>1. ASSUME l # n
        PROVE  l - n \in Nat \ {0} /\ d + n \in Nat
    BY <1>4, <2>1
  <2>2. QED
    BY <1>4, <1>5, <1>7, <2>1 DEF Blk, HpBlock, HpAligned
<1>9. /\ m = IF l = n THEN <<>> ELSE <<rest>>
  BY <1>4, <1>6
<1>10. HpList(m) /\ Len(m) \in {0, 1} /\ HpBytes(m) = (IF l = n THEN {} ELSE Span(rest))
  BY <1>8, <1>9, HpOne, HpNone
<1>11. memlist' = HpPut(s, i - 1, m, i)
  <2>1. CASE l = n
    <3>1. memlist' = RemoveAt(s, i) /\ m = <<>>
      BY <1>4, <1>6, <2>1 DEF Take
    <3>2. RemoveAt(s, i) = HpPut(s, i - 1, <<>>, i)
      BY <1>1, HpRemoved
    <3>3. QED
      BY <3>1, <3>2
  <2>2. CASE l # n
    <3>1. memlist' = ReplaceAt(s, i, rest) /\ m = <<rest>>
      BY <1>4, <1>6, <2>2 DEF Take
    <3>2. ReplaceAt(s, i, rest) = HpPut(s, i - 1, <<rest>>, i)
      BY <1>1, <1>8, <2>2, HpReplaced
    <3>3. QED
      BY <3>1, <3>2
  <2>3. QED
    BY <2>1, <2>2
<1>12. l # n => d <= rest.addr /\ rest.addr + rest.len <= d + l
  BY <1>4, <1>6
<1>13. HpPlace(s, i - 1, m, i)
  <2>1. i - 1 <= i /\ i <= Len(s)
    BY <1>2
  <2>2. Len(m) = 1 => l # n /\ m[1] = rest
    <3>1. CASE l = n
      BY <1>9, <3>1, HpNone
    <3>2. CASE l # n
      BY <1>9, <3>2
    <3>3. QED
      BY <3>1, <3>2
  <2>3. ASSUME l # n, i - 1 >= 1
        PROVE  s[i - 1].addr + s[i - 1].len < rest.addr
    <3>1. i - 1 \in 1 .. Len(s) /\ i - 1 < i
      BY <1>2, <2>3
    <3>2. s[i - 1].addr + s[i - 1].len < d
      BY <1>1, <1>3, <3>1 DEF HpApart
    <3>3. s[i - 1].addr \in Nat /\ s[i - 1].len \in Nat
      BY <1>2, <3>1
    <3>4. PICK y : y = s[i - 1].addr + s[i - 1].len
      OBVIOUS
    <3>5. y \in Nat
      BY <3>3, <3>4
    <3>6. rest.addr \in Nat
      BY <1>4, <1>6
    <3>7. QED
      BY <1>4, <1>12, <2>3, <3>2, <3>4, <3>5, <3>6
  <2>4. ASSUME l # n, i < Len(s)
        PROVE  rest.addr + rest.len < s[i + 1].addr
    <3>1. i + 1 \in 1 .. Len(s) /\ i < i + 1
      BY <1>2, <2>4
    <3>2. d + l < s[i + 1].addr
      BY <1>1, <1>3, <3>1 DEF HpApart
    <3>3. PICK z : z = s[i + 1].addr
      OBVIOUS
    <3>4. z \in Nat
      BY <1>2, <3>1, <3>3
    <3>5. PICK y : y = rest.addr + rest.len
      OBVIOUS
    <3>6. y \in Nat
      BY <1>4, <1>6, <3>5
    <3>7. y <= d + l
      BY <1>12, <2>4, <3>5
    <3>8. QED
      BY <1>4, <3>2, <3>3, <3>4, <3>5, <3>6, <3>7
  <2>5. QED
    BY <1>10, <2>1, <2>2, <2>3, <2>4 DEF HpPlace
<1> HIDE DEF m
<1>14. /\ HpList(memlist')
       /\ HpBytes(memlist') = (HpBytes(s) \ UNION {Span(s[j]) : j \in i - 1 + 1 .. i}) \cup HpBytes(m)
  <2>1. PICK k \in Nat : k = i - 1
    BY <1>2
  <2>2. i \in Nat
    BY <1>2
  <2>3. QED
    BY <1>1, <1>10, <1>11, <1>13, <2>1, <2>2, HpPutList
<1>15. UNION {Span(s[j]) : j \in i - 1 + 1 .. i} = d .. d + l - 1
  <2>1. i - 1 + 1 .. i = {i}
    BY <1>2
  <2>2. QED
    BY <1>3, <2>1 DEF Span
<1>16. Span(Blk(a, n)) = a .. a + n - 1
  BY DEF Span, Blk
<1>17. l # n => Span(rest) = rest.addr .. rest.addr + (l - n) - 1
  BY <1>6 DEF Span
<1>18. d .. d + l - 1 \subseteq HpBytes(s)
  BY <1>2, <1>3, <1>4
<1>19. Span(Blk(a, n)) \subseteq d .. d + l - 1 /\ a \in Nat
  <2>1. CASE a = d
    BY <1>4, <1>16, <2>1
  <2>2. CASE a = d + l - n
    BY <1>4, <1>16, <2>2
  <2>3. QED
    BY <1>6, <2>1, <2>2
<1>20. HpBytes(memlist') = HpBytes(s) \ Span(Blk(a, n))
  <2>1. CASE l = n
    <3>1. Span(Blk(a, n)) = d .. d + l - 1
      BY <1>4, <1>6, <1>16, <2>1
    <3>2. QED
      BY <1>10, <1>14, <1>15, <2>1, <3>1
  <2>2. CASE l # n
    <3>1. Span(rest) = (d .. d + l - 1) \ Span(Blk(a, n))
      BY <1>4, <1>6, <1>16, <1>17, <2>2
    <3>2. QED
      BY <1>10, <1>14, <1>15, <1>18, <1>19, <2>2, <3>1
  <2>3. QED
    BY <2>1, <2>2
<1>21. FreeBytes = HpBytes(s) /\ FreeBytes' = HpBytes(memlist')
  BY DEF FreeBytes, HpBytes, Span
<1>22. Span(Blk(a, n)) \subseteq FreeBytes
  BY <1>18, <1>19, <1>21
<1>23. owned' = owned \cup Span(Blk(a, n)) /\ mlength' = mlength - n
       /\ memret' = Called(call, n, a)
  BY DEF Take
<1>24. FreeBytes' \cap owned' = {} /\ FreeBytes' \cup owned' = HpBytes(MemPool)
  BY <1>20, <1>21, <1>22, <1>23 DEF HpIInv
<1>25. /\ IsFiniteSet(FreeBytes) /\ Cardinality(FreeBytes) \in Nat
       /\ IsFiniteSet(FreeBytes') /\ Cardinality(FreeBytes') = Cardinality(FreeBytes) - n
  <2>1. IsFiniteSet(FreeBytes)
    BY HpPoolOK, FS_Subset DEF HpIInv
  <2>2. Cardinality(Span(Blk(a, n))) = n /\ IsFiniteSet(Span(Blk(a, n)))
    BY <1>16, <1>19, FS_Interval
  <2>3. PICK f, g : f = FreeBytes /\ g = Span(Blk(a, n))
    OBVIOUS
  <2>4. IsFiniteSet(f) /\ Cardinality(f \ g) = Cardinality(f) - Cardinality(f \cap g) /\ IsFiniteSet(f \ g)
    BY <2>1, <2>3, FS_Difference
  <2>5. f \cap g = g
    BY <1>22, <2>3
  <2>6. Cardinality(f) \in Nat
    BY <2>4, FS_CardinalityType
  <2>7. QED
    BY <1>20, <1>21, <2>2, <2>3, <2>4, <2>5, <2>6
<1>26. mlength' = Cardinality(FreeBytes') - Cardinality(HpBytes(MemPool))
  <2>1. Cardinality(HpBytes(MemPool)) \in Nat
    BY HpPoolOK, FS_CardinalityType
  <2>2. QED
    BY <1>23, <1>25, <2>1 DEF HpIInv
<1>27. RefusedOnlyWhenFull'
  <2>1. memret'.addr = a /\ a # SYSERR
    BY <1>19, <1>23 DEF Called, SYSERR
  <2>2. QED
    BY <2>1 DEF RefusedOnlyWhenFull
<1>28. HpIInv'
  <2>1. HpBytes(MemPool)' = HpBytes(MemPool)
    BY DEF HpBytes, MemPool, Span
  <2>2. HpList(memlist)'
    BY <1>14 DEF HpList, HpApart, HpAligned
  <2>3. QED
    BY <1>24, <1>26, <1>27, <2>1, <2>2 DEF HpIInv
<1>29. QED
  BY <1>19, <1>22, <1>28

\* What all of them start from.
LEMMA HpFacts ==
  ASSUME HpIInv
  PROVE  /\ memlist \in Seq(HpBlock) /\ HpApart(memlist)
         /\ Len(memlist) \in Nat /\ DOMAIN memlist = 1 .. Len(memlist)
         /\ \A i \in 1 .. Len(memlist) :
               memlist[i].addr \in Nat /\ memlist[i].len \in Nat \ {0}
         /\ FreeBytes = HpBytes(memlist)
         /\ FreeBytes = {x \in Nat : \E i \in 1 .. Len(memlist) :
                              memlist[i].addr <= x /\ x < memlist[i].addr + memlist[i].len}
         /\ \A n \in Nat : Fits(n) = {i \in 1 .. Len(memlist) : memlist[i].len >= n}
<1>1. memlist \in Seq(HpBlock) /\ HpApart(memlist)
  BY DEF HpIInv, HpList
<1>2. /\ Len(memlist) \in Nat
      /\ \A i \in 1 .. Len(memlist) :
            memlist[i].addr \in Nat /\ memlist[i].len \in Nat \ {0}
      /\ HpBytes(memlist) = {x \in Nat : \E i \in 1 .. Len(memlist) :
                              memlist[i].addr <= x /\ x < memlist[i].addr + memlist[i].len}
  BY <1>1, HpBytesAre
<1>3. DOMAIN memlist = 1 .. Len(memlist)
  BY <1>1, LenProperties
<1>4. FreeBytes = HpBytes(memlist)
  BY DEF FreeBytes, HpBytes
<1>5. QED
  BY <1>1, <1>2, <1>3, <1>4 DEF Fits

\* The rest of the invariant follows from what the list and the bytes are.
LEMMA HpSame ==
  ASSUME HpIInv, UNCHANGED <<memlist, mlength, owned>>, RefusedOnlyWhenFull'
  PROVE  HpIInv'
BY DEF HpIInv, HpList, HpApart, HpAligned, HpBytes, FreeBytes, MemPool, Span

LEMMA HpFailed ==
  ASSUME HpIInv, NEW call, NEW n \in Nat, Fail(call, n)
  PROVE  HpIInv' /\ memret'.addr = SYSERR
<1>1. /\ n = 0 \/ Fits(n) = {}
      /\ memret' = Called(call, n, SYSERR)
      /\ UNCHANGED <<memlist, mlength, owned>>
  BY DEF Fail
<1>2. memret'.size = n /\ memret'.addr = SYSERR
  BY <1>1 DEF Called
<1>3. FreeBytes' = FreeBytes
  BY <1>1 DEF FreeBytes, Span
<1>4. ASSUME n # 0, NEW a \in Bytes, Span(Blk(a, n)) \subseteq FreeBytes
      PROVE  FALSE
  <2>1. a \in Int
    BY HpConstants DEF Bytes
  <2>2. HpList(memlist) /\ Span(Blk(a, n)) \subseteq HpBytes(memlist)
    BY <1>4, HpFacts DEF HpIInv
  <2>3. PICK i \in 1 .. Len(memlist) :
           memlist[i].addr <= a /\ a + n <= memlist[i].addr + memlist[i].len /\ a \in Nat
    <3>1. n \in Nat \ {0}
      BY <1>4
    <3>2. QED
      BY <2>1, <2>2, <3>1, HpWithinOne
  <2>4. PICK d, l : d = memlist[i].addr /\ l = memlist[i].len
    OBVIOUS
  <2>5. d \in Nat /\ l \in Nat /\ l >= n
    BY <2>3, <2>4, HpFacts
  <2>6. i \in Fits(n)
    BY <2>4, <2>5, HpFacts
  <2>7. QED
    BY <1>1, <1>4, <2>6
<1>5. RefusedOnlyWhenFull'
  <2>1. ASSUME NEW a \in Bytes
        PROVE  n = 0 \/ ~(Span(Blk(a, n)) \subseteq FreeBytes')
    BY <1>3, <1>4
  <2>2. \A a : Span(Blk(a, n))' = Span(Blk(a, n))
    BY DEF Span, Blk
  <2>3. QED
    BY <1>2, <2>1, <2>2 DEF RefusedOnlyWhenFull, Bytes, Span, Blk
<1>6. QED
  BY <1>1, <1>2, <1>5, HpSame

\* What is said of getmem and getstk alike: the first or the last bytes that fit.
HpFirst(a, n) == \A b \in Bytes : Span(Blk(b, n)) \subseteq FreeBytes => a <= b
HpLast(a, n) == \A b \in Bytes : Span(Blk(b, n)) \subseteq FreeBytes => b <= a

LEMMA HpGetmem ==
  ASSUME HpIInv, NEW nbytes \in Nat, getmem(nbytes)
  PROVE  /\ HpIInv'
         /\ memret'.call = "getmem"
         /\ memret'.addr # SYSERR =>
               /\ Span(Blk(memret'.addr, memret'.size)) \subseteq FreeBytes
               /\ HpFirst(memret'.addr, memret'.size)
<1>1. PICK n : n = roundmb(nbytes)
  OBVIOUS
<1>2. n \in Nat /\ n % MB = 0
  BY <1>1, HpRounded
<1>3. PICK i : i = Min(Fits(n))
  OBVIOUS
<1>4. PICK d, l : d = memlist[i].addr /\ l = memlist[i].len
  OBVIOUS
<1>5. \/ Fail("getmem", n)
      \/ n # 0 /\ Fits(n) # {} /\ Take("getmem", n, i, d, Blk(d + n, l - n))
  BY <1>1, <1>3, <1>4 DEF getmem
<1>6. CASE Fail("getmem", n)
  <2>1. memret'.call = "getmem"
    BY <1>6 DEF Fail, Called
  <2>2. QED
    BY <1>2, <1>6, <2>1, HpFailed
<1>7. CASE n # 0 /\ Fits(n) # {} /\ Take("getmem", n, i, d, Blk(d + n, l - n))
  <2>1. Fits(n) = {j \in 1 .. Len(memlist) : memlist[j].len >= n}
    BY <1>2, HpFacts
  <2>2. i \in Fits(n) /\ \A j \in Fits(n) : i <= j
    <3>1. Fits(n) \in SUBSET Nat
      BY <2>1
    <3>2. QED
      BY <1>3, <1>7, <3>1, MinProperties
  <2>3. i \in 1 .. Len(memlist) /\ n <= memlist[i].len
    BY <1>2, <2>1, <2>2, HpFacts
  <2>4. HpIInv' /\ d \in Nat /\ Span(Blk(d, n)) \subseteq FreeBytes
    BY <1>2, <1>4, <1>7, <2>3, HpTaken
  <2>5. memret'.call = "getmem" /\ memret'.addr = d /\ memret'.size = n
    BY <1>7 DEF Take, Called
  <2>6. ASSUME NEW b \in Bytes, Span(Blk(b, n)) \subseteq FreeBytes
        PROVE  d <= b
    <3>1. b \in Int
      BY HpConstants DEF Bytes
    <3>2. HpList(memlist) /\ Span(Blk(b, n)) \subseteq HpBytes(memlist)
      BY <2>6, HpFacts DEF HpIInv
    <3>3. PICK j \in 1 .. Len(memlist) :
             memlist[j].addr <= b /\ b + n <= memlist[j].addr + memlist[j].len /\ b \in Nat
      BY <1>2, <1>7, <3>1, <3>2, HpWithinOne
    <3>4. PICK e, m : e = memlist[j].addr /\ m = memlist[j].len
      OBVIOUS
    <3>5. e \in Nat /\ m \in Nat /\ e <= b /\ m >= n
      BY <1>2, <3>3, <3>4, HpFacts
    <3>6. j \in Fits(n)
      BY <2>1, <3>4, <3>5
    <3>7. i <= j
      BY <2>2, <3>6
    <3>8. i < j => d + l < e
      BY <1>4, <2>3, <3>4, HpFacts DEF HpApart
    <3>9. i = j => d = e
      BY <1>4, <3>4
    <3>10. l \in Nat /\ j \in Nat /\ i \in Nat
      BY <1>4, <2>3, HpFacts
    <3>11. QED
      BY <2>4, <3>1, <3>5, <3>7, <3>8, <3>9, <3>10
  <2>7. QED
    BY <2>4, <2>5, <2>6 DEF HpFirst
<1>8. QED
  BY <1>5, <1>6, <1>7

LEMMA HpGetstk ==
  ASSUME HpIInv, NEW nbytes \in Nat, getstk(nbytes)
  PROVE  /\ HpIInv'
         /\ memret'.call = "getstk"
         /\ memret'.addr # SYSERR =>
               /\ Span(Blk(memret'.addr, memret'.size)) \subseteq FreeBytes
               /\ HpLast(memret'.addr, memret'.size)
<1>1. PICK n : n = roundmb(nbytes)
  OBVIOUS
<1>2. n \in Nat /\ n % MB = 0
  BY <1>1, HpRounded
<1>3. PICK i : i = Max(Fits(n))
  OBVIOUS
<1>4. PICK d, l : d = memlist[i].addr /\ l = memlist[i].len
  OBVIOUS
<1>5. \/ Fail("getstk", n)
      \/ n # 0 /\ Fits(n) # {} /\ Take("getstk", n, i, d + l - n, Blk(d, l - n))
  BY <1>1, <1>3, <1>4 DEF getstk
<1>6. CASE Fail("getstk", n)
  <2>1. memret'.call = "getstk"
    BY <1>6 DEF Fail, Called
  <2>2. QED
    BY <1>2, <1>6, <2>1, HpFailed
<1>7. CASE n # 0 /\ Fits(n) # {} /\ Take("getstk", n, i, d + l - n, Blk(d, l - n))
  <2>1. Fits(n) = {j \in 1 .. Len(memlist) : memlist[j].len >= n}
    BY <1>2, HpFacts
  <2>2. i \in Fits(n) /\ \A j \in Fits(n) : j <= i
    <3>1. Fits(n) \in SUBSET (1 .. Len(memlist)) /\ Len(memlist) \in Nat
      BY <2>1, HpFacts
    <3>2. QED
      BY <1>3, <1>7, <3>1, HpMax
  <2>3. i \in 1 .. Len(memlist) /\ n <= memlist[i].len
    BY <1>2, <2>1, <2>2, HpFacts
  <2>4. HpIInv' /\ d + l - n \in Nat /\ Span(Blk(d + l - n, n)) \subseteq FreeBytes
    BY <1>2, <1>4, <1>7, <2>3, HpTaken
  <2>5. memret'.call = "getstk" /\ memret'.addr = d + l - n /\ memret'.size = n
    BY <1>7 DEF Take, Called
  <2>6. ASSUME NEW b \in Bytes, Span(Blk(b, n)) \subseteq FreeBytes
        PROVE  b <= d + l - n
    <3>1. b \in Int
      BY HpConstants DEF Bytes
    <3>2. HpList(memlist) /\ Span(Blk(b, n)) \subseteq HpBytes(memlist)
      BY <2>6, HpFacts DEF HpIInv
    <3>3. PICK j \in 1 .. Len(memlist) :
             memlist[j].addr <= b /\ b + n <= memlist[j].addr + memlist[j].len /\ b \in Nat
      BY <1>2, <1>7, <3>1, <3>2, HpWithinOne
    <3>4. PICK e, m : e = memlist[j].addr /\ m = memlist[j].len
      OBVIOUS
    <3>5. e \in Nat /\ m \in Nat /\ b + n <= e + m /\ m >= n
      BY <1>2, <3>3, <3>4, HpFacts
    <3>6. j \in Fits(n)
      BY <2>1, <3>4, <3>5
    <3>7. j <= i
      BY <2>2, <3>6
    <3>8. j < i => e + m < d
      BY <1>4, <2>3, <3>4, HpFacts DEF HpApart
    <3>9. i = j => d = e /\ l = m
      BY <1>4, <3>4
    <3>10. l \in Nat /\ d \in Nat /\ n <= l /\ j \in Nat /\ i \in Nat
      BY <1>4, <2>3, HpFacts
    <3>11. QED
      BY <1>2, <3>1, <3>5, <3>7, <3>8, <3>9, <3>10
  <2>7. QED
    BY <2>4, <2>5, <2>6 DEF HpLast
<1>8. QED
  BY <1>5, <1>6, <1>7

-----------------------------------------------------------------------------
(* The heap: freemem.                                                      *)

\* The free blocks before address a are the first ones.
LEMMA HpBefore ==
  ASSUME HpIInv, NEW a \in Nat
  PROVE  LET next == {i \in DOMAIN memlist : memlist[i].addr >= a}
             k == Cardinality(DOMAIN memlist \ next)
         IN  /\ k \in 0 .. Len(memlist)
             /\ DOMAIN memlist \ next = 1 .. k /\ next = k + 1 .. Len(memlist)
             /\ \A i \in 1 .. k : memlist[i].addr < a
             /\ \A i \in k + 1 .. Len(memlist) : a <= memlist[i].addr
             /\ k >= 1 => Max(DOMAIN memlist \ next) = k
             /\ k < Len(memlist) => Min(next) = k + 1
<1> DEFINE s == memlist
           next == {i \in DOMAIN s : s[i].addr >= a}
<1>1. /\ Len(s) \in Nat /\ DOMAIN s = 1 .. Len(s) /\ HpApart(s)
      /\ \A i \in 1 .. Len(s) : s[i].addr \in Nat /\ s[i].len \in Nat \ {0}
  BY HpFacts
<1>2. PICK k \in 0 .. Len(s) : next = k + 1 .. Len(s)
  <2>1. CASE next = {}
    <3>1. next = Len(s) + 1 .. Len(s) /\ Len(s) \in 0 .. Len(s)
      BY <1>1, <2>1
    <3>2. QED
      BY <3>1
  <2>2. CASE next # {}
    <3>1. next \in SUBSET Nat
      BY <1>1
    <3>2. PICK f : f = Min(next)
      OBVIOUS
    <3>3. f \in next /\ \A y \in next : f <= y
      BY <2>2, <3>1, <3>2, MinProperties
    <3>4. f \in 1 .. Len(s) /\ s[f].addr >= a
      BY <1>1, <3>3
    <3>5. ASSUME NEW j \in 1 .. Len(s), f < j
          PROVE  j \in next
      <4>1. s[f].addr + s[f].len < s[j].addr
        BY <1>1, <3>4, <3>5 DEF HpApart
      <4>2. s[f].addr \in Nat /\ s[f].len \in Nat /\ s[j].addr \in Nat
        BY <1>1, <3>4
      <4>3. s[j].addr >= a
        BY <3>4, <4>1, <4>2
      <4>4. QED
        BY <1>1, <4>3
    <3>6. \A j \in f .. Len(s) : j \in next
      <4>1. TAKE j \in f .. Len(s)
      <4>2. j \in 1 .. Len(s) /\ (j = f \/ f < j)
        BY <1>1, <3>4
      <4>3. QED
        BY <3>3, <3>5, <4>2
    <3>7. next = f .. Len(s)
      <4>1. \A y \in next : y \in 1 .. Len(s) /\ f <= y
        BY <1>1, <3>3
      <4>2. \A y \in next : y \in f .. Len(s)
        BY <1>1, <3>4, <4>1
      <4>3. QED
        BY <3>6, <4>2
    <3>8. f - 1 \in 0 .. Len(s) /\ f - 1 + 1 = f
      BY <1>1, <3>4
    <3>9. QED
      BY <3>7, <3>8
  <2>3. QED
    BY <2>1, <2>2
<1>3. DOMAIN s \ next = 1 .. k
  <2>1. \A i \in 1 .. Len(s) : i \in k + 1 .. Len(s) <=> ~(i \in 1 .. k)
    BY <1>1
  <2>2. 1 .. k \subseteq 1 .. Len(s)
    BY <1>1
  <2>3. QED
    BY <1>1, <1>2, <2>1, <2>2
<1>4. Cardinality(DOMAIN s \ next) = k
  <2>1. Cardinality(1 .. k) = k
    BY FS_Interval
  <2>2. QED
    BY <1>3, <2>1
<1>5. \A i \in 1 .. k : s[i].addr < a
  <2>1. TAKE i \in 1 .. k
  <2>2. i \in 1 .. Len(s) /\ i \notin k + 1 .. Len(s)
    BY <1>1
  <2>3. ~(s[i].addr >= a)
    BY <1>1, <1>2, <2>2
  <2>4. s[i].addr \in Nat
    BY <1>1, <2>2
  <2>5. QED
    BY <2>3, <2>4
<1>6. \A i \in k + 1 .. Len(s) : a <= s[i].addr
  <2>1. TAKE i \in k + 1 .. Len(s)
  <2>2. i \in 1 .. Len(s) /\ s[i].addr >= a
    BY <1>1, <1>2
  <2>3. s[i].addr \in Nat
    BY <1>1, <2>2
  <2>4. QED
    BY <2>2, <2>3
<1>7. ASSUME k >= 1
      PROVE  Max(1 .. k) = k
  <2>1. 1 .. k # {} /\ k \in Nat /\ k \in 1 .. k
    BY <1>7
  <2>2. Max(1 .. k) \in 1 .. k /\ k <= Max(1 .. k)
    BY <2>1, HpMax
  <2>3. QED
    BY <2>2
<1>8. ASSUME k < Len(s)
      PROVE  Min(k + 1 .. Len(s)) = k + 1
  <2>1. k + 1 .. Len(s) # {} /\ k + 1 \in k + 1 .. Len(s) /\ k + 1 .. Len(s) \in SUBSET Nat
    BY <1>1, <1>8
  <2>2. Min(k + 1 .. Len(s)) \in k + 1 .. Len(s) /\ Min(k + 1 .. Len(s)) <= k + 1
    BY <2>1, MinProperties
  <2>3. QED
    BY <1>1, <2>2
<1>9. QED
  BY <1>2, <1>3, <1>4, <1>5, <1>6, <1>7, <1>8

\* The block a of n bytes overlaps no free block.
HpFreeable(a, n, k) ==
    /\ k \in 0 .. Len(memlist)
    /\ \A i \in 1 .. k : memlist[i].addr < a
    /\ \A i \in k + 1 .. Len(memlist) : a <= memlist[i].addr
    /\ k >= 1 => memlist[k].addr + memlist[k].len <= a
    /\ k < Len(memlist) => a + n <= memlist[k + 1].addr

\* It is joined with what is before and behind it.
HpJoinsPrev(a, k) == k # 0 /\ memlist[k].addr + memlist[k].len = a
HpJoinsNext(a, n, k) == k # Len(memlist) /\ a + n = memlist[k + 1].addr

HpFrom(a, k) == IF HpJoinsPrev(a, k) THEN memlist[k].addr ELSE a
HpTo(a, n, k) ==
    IF HpJoinsNext(a, n, k) THEN memlist[k + 1].addr + memlist[k + 1].len ELSE a + n

HpFreed(a, n, k) ==
    HpPut(memlist, IF HpJoinsPrev(a, k) THEN k - 1 ELSE k,
          <<Blk(HpFrom(a, k), HpTo(a, n, k) - HpFrom(a, k))>>,
          IF HpJoinsNext(a, n, k) THEN k + 1 ELSE k)

\* What freemem makes of the list.
LEMMA HpLinked ==
  ASSUME HpIInv, NEW a \in Nat, NEW n \in Nat \ {0}, NEW k \in 0 .. Len(memlist)
  PROVE  LET before == SubSeq(memlist, 1, k)
             after == SubSeq(memlist, k + 1, Len(memlist))
             linked == IF k # 0 /\ Joins(Last(before), Blk(a, n))
                       THEN ReplaceAt(before, k, Blk(Last(before).addr, Last(before).len + n))
                       ELSE Append(before, Blk(a, n))
             block == Last(linked)
         IN  (IF after # <<>> /\ Joins(block, Head(after))
              THEN Front(linked) \o <<Blk(block.addr, block.len + Head(after).len)>> \o Tail(after)
              ELSE linked \o after)
                = HpFreed(a, n, k)
<1> DEFINE s == memlist
           before == SubSeq(s, 1, k)
           after == SubSeq(s, k + 1, Len(s))
           linked == IF k # 0 /\ Joins(Last(before), Blk(a, n))
                     THEN ReplaceAt(before, k, Blk(Last(before).addr, Last(before).len + n))
                     ELSE Append(before, Blk(a, n))
           block == Last(linked)
           x == HpFrom(a, k)
           j == IF HpJoinsPrev(a, k) THEN k - 1 ELSE k
           head == SubSeq(s, 1, j)
<1>1. /\ s \in Seq(HpBlock) /\ Len(s) \in Nat /\ k \in Nat
      /\ \A i \in 1 .. Len(s) : s[i].addr \in Nat /\ s[i].len \in Nat \ {0} /\ s[i] \in HpBlock
  BY HpFacts, ElementOfSeq
<1>2. /\ before \in Seq(HpBlock) /\ Len(before) = k
      /\ \A i \in 1 .. k : before[i] = s[i]
  <2>1. \A i \in 1 .. k : s[i] \in HpBlock
    BY <1>1
  <2>2. /\ before \in Seq(HpBlock)
        /\ Len(before) = IF 1 <= k THEN k - 1 + 1 ELSE 0
        /\ \A i \in 1 .. k - 1 + 1 : before[i] = s[1 + i - 1]
    BY <1>1, <2>1, SubSeqProperties
  <2>3. QED
    BY <1>1, <2>2
<1>3. j \in Nat /\ j <= k /\ x \in Nat /\ a + n - x \in Nat \ {0} /\ x <= a
  <2>1. CASE HpJoinsPrev(a, k)
    <3>1. k \in 1 .. Len(s) /\ s[k].addr + s[k].len = a
      BY <1>1, <2>1 DEF HpJoinsPrev
    <3>2. PICK d, l : d = s[k].addr /\ l = s[k].len
      OBVIOUS
    <3>3. d \in Nat /\ l \in Nat /\ d + l = a /\ x = d /\ j = k - 1
      BY <1>1, <2>1, <3>1, <3>2 DEF HpFrom
    <3>4. QED
      BY <3>1, <3>3
  <2>2. CASE ~HpJoinsPrev(a, k)
    <3>1. x = a /\ j = k
      BY <2>2 DEF HpFrom
    <3>2. QED
      BY <1>1, <3>1
  <2>3. QED
    BY <2>1, <2>2
<1>4. /\ head \in Seq(HpBlock) /\ Len(head) = j
      /\ \A i \in 1 .. j : head[i] = s[i]
  <2>1. \A i \in 1 .. j : s[i] \in HpBlock
    BY <1>1, <1>3
  <2>2. /\ head \in Seq(HpBlock)
        /\ Len(head) = IF 1 <= j THEN j - 1 + 1 ELSE 0
        /\ \A i \in 1 .. j - 1 + 1 : head[i] = s[1 + i - 1]
    BY <1>1, <1>3, <2>1, SubSeqProperties
  <2>3. QED
    BY <1>3, <2>2
<1>5. linked = Append(head, Blk(x, a + n - x))
  <2>1. CASE HpJoinsPrev(a, k)
    <3>1. k \in 1 .. Len(s) /\ k \in 1 .. k /\ k # 0 /\ s[k].addr + s[k].len = a
      BY <1>1, <2>1 DEF HpJoinsPrev
    <3>2. Last(before) = s[k]
      BY <1>2, <3>1 DEF Last
    <3>3. PICK d, l : d = s[k].addr /\ l = s[k].len
      OBVIOUS
    <3>4. d \in Nat /\ l \in Nat /\ d + l = a /\ x = d /\ l + n = a + n - x /\ j = k - 1
      BY <1>1, <2>1, <3>1, <3>3 DEF HpFrom
    <3>5. Blk(a, n).addr = a
      BY DEF Blk
    <3>6. Joins(Last(before), Blk(a, n))
      BY <3>1, <3>2, <3>5 DEF Joins
    <3>7. PICK c : c = Blk(x, a + n - x)
      OBVIOUS
    <3>8. linked = ReplaceAt(before, k, c)
      BY <3>1, <3>2, <3>3, <3>4, <3>6, <3>7
    <3>9. c \in HpBlock
      BY <1>3, <3>7 DEF Blk, HpBlock
    <3>10. /\ ReplaceAt(before, k, c) \in Seq(HpBlock) /\ Len(ReplaceAt(before, k, c)) = k
           /\ \A i \in 1 .. k : ReplaceAt(before, k, c)[i] = IF i = k THEN c ELSE s[i]
      <4>1. PICK w : w = before
        OBVIOUS
      <4>2. w \in Seq(HpBlock) /\ k \in 1 .. Len(w) /\ Len(w) = k /\ \A i \in 1 .. k : w[i] = s[i]
        BY <1>2, <3>1, <4>1
      <4>3. /\ [w EXCEPT ![k] = c] \in Seq(HpBlock) /\ Len([w EXCEPT ![k] = c]) = Len(w)
            /\ \A i \in 1 .. Len(w) : [w EXCEPT ![k] = c][i] = IF i = k THEN c ELSE w[i]
        BY <3>9, <4>2, ExceptSeq
      <4>4. QED
        BY <4>1, <4>2, <4>3 DEF ReplaceAt
    <3>11. /\ Append(head, c) \in Seq(HpBlock) /\ Len(Append(head, c)) = j + 1
           /\ \A i \in 1 .. j : Append(head, c)[i] = s[i]
           /\ Append(head, c)[j + 1] = c
      BY <1>4, <3>9, AppendProperties
    <3>12. \A i \in 1 .. k : ReplaceAt(before, k, c)[i] = Append(head, c)[i]
      <4>1. TAKE i \in 1 .. k
      <4>2. j + 1 = k /\ (i = k \/ i \in 1 .. j)
        BY <1>1, <3>4
      <4>3. QED
        BY <3>4, <3>10, <3>11, <4>2
    <3>13. Len(Append(head, c)) = k
      BY <1>1, <3>4, <3>11
    <3>14. ReplaceAt(before, k, c) = Append(head, c)
      BY <3>10, <3>11, <3>12, <3>13, SeqEqual
    <3>15. QED
      BY <3>7, <3>8, <3>14
  <2>2. CASE ~HpJoinsPrev(a, k)
    <3>1. x = a /\ j = k /\ head = before
      BY <2>2 DEF HpFrom
    <3>2. a + n - x = n
      BY <3>1
    <3>3. ~(k # 0 /\ Joins(Last(before), Blk(a, n)))
      <4>1. ASSUME k # 0
            PROVE  Last(before) = s[k]
        <5>1. k \in 1 .. k
          BY <1>1, <4>1
        <5>2. QED
          BY <1>2, <5>1 DEF Last
      <4>2. Blk(a, n).addr = a
        BY DEF Blk
      <4>3. QED
        BY <2>2, <4>1, <4>2 DEF Joins, HpJoinsPrev
    <3>4. QED
      BY <3>1, <3>2, <3>3
  <2>3. QED
    BY <2>1, <2>2
<1>6. PICK c : c = Blk(x, a + n - x)
  OBVIOUS
<1>7. c \in HpBlock /\ c.addr = x /\ c.len = a + n - x
  BY <1>3, <1>6 DEF Blk, HpBlock
<1>8. linked = Append(head, c)
  BY <1>5, <1>6
<1> HIDE DEF linked
<1>9. block = c
  <2>1. Len(Append(head, c)) = j + 1 /\ Append(head, c)[j + 1] = c
    BY <1>4, <1>7, AppendProperties
  <2>2. QED
    BY <1>8, <2>1 DEF Last
<1>10. /\ linked \in Seq(HpBlock) /\ Len(linked) = j + 1
       /\ \A i \in 1 .. j : linked[i] = s[i]
       /\ linked = head \o <<c>>
  BY <1>4, <1>7, <1>8, AppendProperties, AppendIsConcat
<1>11. Front(linked) = head
  <2>1. SubSeq(linked, 1, j) = head
    <3>1. \A i \in 1 .. j : linked[i] \in HpBlock
      BY <1>1, <1>3, <1>10
    <3>2. /\ SubSeq(linked, 1, j) \in Seq(HpBlock)
          /\ Len(SubSeq(linked, 1, j)) = IF 1 <= j THEN j - 1 + 1 ELSE 0
          /\ \A i \in 1 .. j - 1 + 1 : SubSeq(linked, 1, j)[i] = linked[1 + i - 1]
      BY <1>3, <3>1, SubSeqProperties
    <3>3. Len(SubSeq(linked, 1, j)) = j /\ \A i \in 1 .. j : SubSeq(linked, 1, j)[i] = linked[i]
      BY <1>3, <3>2
    <3>4. QED
      BY <1>4, <1>10, <3>2, <3>3, SeqEqual
  <2>2. Len(linked) - 1 = j
    BY <1>3, <1>10
  <2>3. QED
    BY <2>1, <2>2 DEF Front
<1>12. CASE k = Len(s)
  <2>1. after = <<>>
    BY <1>1, <1>12, SubSeqEmpty
  <2>2. ~HpJoinsNext(a, n, k)
    BY <1>12 DEF HpJoinsNext
  <2>3. HpFreed(a, n, k) = HpPut(s, j, <<c>>, k)
    <3>1. HpTo(a, n, k) = a + n
      BY <2>2 DEF HpTo
    <3>2. Blk(HpFrom(a, k), HpTo(a, n, k) - HpFrom(a, k)) = c
      <4>1. HpTo(a, n, k) - HpFrom(a, k) = a + n - x
        BY <1>3, <3>1
      <4>2. QED
        BY <1>6, <4>1
    <3>3. QED
      BY <2>2, <3>2 DEF HpFreed
  <2>4. HpPut(s, j, <<c>>, k) = linked \o after
    BY <1>10 DEF HpPut
  <2>5. QED
    BY <2>1, <2>3, <2>4 DEF linked
<1>13. CASE k < Len(s)
  <2>1. k + 1 \in 1 .. Len(s) /\ Len(s) \in k + 1 .. Len(s)
    BY <1>1, <1>13
  <2>2. Head(after) = s[k + 1] /\ Tail(after) = SubSeq(s, k + 1 + 1, Len(s))
    BY <1>1, <2>1, HeadTailOfSubSeq
  <2>3. after # <<>>
    <3>1. \A i \in k + 1 .. Len(s) : s[i] \in HpBlock
      BY <1>1
    <3>2. Len(after) = IF k + 1 <= Len(s) THEN Len(s) - (k + 1) + 1 ELSE 0
      BY <1>1, <3>1, SubSeqProperties, k + 1 \in Int, Len(s) \in Int
    <3>3. Len(after) # 0
      BY <1>1, <1>13, <3>2
    <3>4. QED
      BY <3>3, HpNone
  <2>4. c.addr + c.len = a + n
    BY <1>3, <1>7
  <2>5. CASE HpJoinsNext(a, n, k)
    <3>1. Joins(block, Head(after))
      BY <1>9, <2>2, <2>4, <2>5 DEF Joins, HpJoinsNext
    <3>2. PICK l : l = s[k + 1].len
      OBVIOUS
    <3>3. l \in Nat /\ a + n = s[k + 1].addr
      BY <1>1, <2>1, <2>5, <3>2 DEF HpJoinsNext
    <3>4. HpTo(a, n, k) = a + n + l
      BY <2>5, <3>2, <3>3 DEF HpTo
    <3>5. c.len + l = HpTo(a, n, k) - x
      BY <1>3, <1>7, <3>3, <3>4
    <3>6. HpFreed(a, n, k) = HpPut(s, j, <<Blk(c.addr, c.len + l)>>, k + 1)
      BY <1>7, <2>5, <3>5 DEF HpFreed
    <3>7. HpPut(s, j, <<Blk(c.addr, c.len + l)>>, k + 1)
            = Front(linked) \o <<Blk(block.addr, block.len + Head(after).len)>> \o Tail(after)
      BY <1>9, <1>11, <2>2, <3>2 DEF HpPut
    <3>8. QED
      BY <2>3, <3>1, <3>6, <3>7 DEF linked
  <2>6. CASE ~HpJoinsNext(a, n, k)
    <3>1. ~Joins(block, Head(after))
      BY <1>1, <1>9, <1>13, <2>2, <2>4, <2>6 DEF Joins, HpJoinsNext
    <3>2. HpFreed(a, n, k) = HpPut(s, j, <<c>>, k)
      <4>1. HpTo(a, n, k) = a + n
        BY <2>6 DEF HpTo
      <4>2. Blk(HpFrom(a, k), HpTo(a, n, k) - HpFrom(a, k)) = c
        <5>1. HpTo(a, n, k) - HpFrom(a, k) = a + n - x
          BY <1>3, <4>1
        <5>2. QED
          BY <1>6, <5>1
      <4>3. QED
        BY <2>6, <4>2 DEF HpFreed
    <3>3. HpPut(s, j, <<c>>, k) = linked \o after
      BY <1>10 DEF HpPut
    <3>4. QED
      BY <3>1, <3>2, <3>3 DEF linked
  <2>7. QED
    BY <2>5, <2>6
<1>14. k = Len(s) \/ k < Len(s)
  BY <1>1
<1>15. QED
  BY <1>12, <1>13, <1>14

\* The list with the block in it is one as the invariant asks for.
LEMMA HpFreedOK ==
  ASSUME HpIInv, NEW a \in Nat, a % MB = 0, NEW n \in Nat \ {0}, n % MB = 0, NEW k \in Nat,
         HpFreeable(a, n, k)
  PROVE  /\ HpList(HpFreed(a, n, k))
         /\ HpBytes(HpFreed(a, n, k)) = FreeBytes \cup Span(Blk(a, n))
         /\ FreeBytes \cap Span(Blk(a, n)) = {}
<1> DEFINE s == memlist
           x == HpFrom(a, k)
           y == HpTo(a, n, k)
           j == IF HpJoinsPrev(a, k) THEN k - 1 ELSE k
           l == IF HpJoinsNext(a, n, k) THEN k + 1 ELSE k
           b == Blk(x, y - x)
<1>1. /\ HpList(s) /\ s \in Seq(HpBlock) /\ Len(s) \in Nat /\ HpApart(s)
      /\ \A i \in 1 .. Len(s) : s[i].addr \in Nat /\ s[i].len \in Nat \ {0} /\ HpAligned(s[i])
      /\ FreeBytes = HpBytes(s)
      /\ FreeBytes = {z \in Nat : \E i \in 1 .. Len(s) : s[i].addr <= z /\ z < s[i].addr + s[i].len}
  BY HpFacts DEF HpIInv, HpList
<1>2. /\ k \in 0 .. Len(s)
      /\ \A i \in 1 .. k : s[i].addr < a
      /\ \A i \in k + 1 .. Len(s) : a <= s[i].addr
      /\ k >= 1 => s[k].addr + s[k].len <= a
      /\ k < Len(s) => a + n <= s[k + 1].addr
  BY DEF HpFreeable
\* Before the block.
<1>3. ASSUME NEW i \in 1 .. k
      PROVE  s[i].addr + s[i].len <= a
  <2>1. i \in 1 .. Len(s) /\ k \in 1 .. Len(s) /\ (i = k \/ i < k) /\ k >= 1
    BY <1>1, <1>2
  <2>2. i < k => s[i].addr + s[i].len < s[k].addr
    BY <1>1, <2>1 DEF HpApart
  <2>3. PICK u, v, w, o : u = s[i].addr /\ v = s[i].len /\ w = s[k].addr /\ o = s[k].len
    OBVIOUS
  <2>4. u \in Nat /\ v \in Nat /\ w \in Nat /\ o \in Nat
    BY <1>1, <2>1, <2>3
  <2>5. w + o <= a /\ (i < k => u + v < w) /\ (i = k => u = w /\ v = o)
    BY <1>2, <2>1, <2>2, <2>3
  <2>6. u + v <= a
    BY <2>1, <2>4, <2>5
  <2>7. QED
    BY <2>3, <2>6
\* Behind it.
<1>4. ASSUME NEW i \in k + 1 .. Len(s)
      PROVE  a + n <= s[i].addr
  <2>1. i \in 1 .. Len(s) /\ k + 1 \in 1 .. Len(s) /\ (i = k + 1 \/ k + 1 < i) /\ k < Len(s)
    BY <1>1, <1>2
  <2>2. k + 1 < i => s[k + 1].addr + s[k + 1].len < s[i].addr
    BY <1>1, <2>1 DEF HpApart
  <2>3. PICK u, w, o : u = s[i].addr /\ w = s[k + 1].addr /\ o = s[k + 1].len
    OBVIOUS
  <2>4. u \in Nat /\ w \in Nat /\ o \in Nat
    BY <1>1, <2>1, <2>3
  <2>5. a + n <= w /\ (k + 1 < i => w + o < u) /\ (i = k + 1 => u = w)
    BY <1>2, <2>1, <2>2, <2>3
  <2>6. a + n <= u
    BY <2>1, <2>4, <2>5
  <2>7. QED
    BY <2>3, <2>6
<1>5. Span(Blk(a, n)) = a .. a + n - 1
  BY DEF Span, Blk
<1>6. FreeBytes \cap Span(Blk(a, n)) = {}
  <2>1. SUFFICES ASSUME NEW z \in FreeBytes, z \in a .. a + n - 1
                 PROVE  FALSE
    BY <1>5
  <2>2. PICK i \in 1 .. Len(s) : s[i].addr <= z /\ z < s[i].addr + s[i].len
    BY <1>1
  <2>3. PICK u, v : u = s[i].addr /\ v = s[i].len
    OBVIOUS
  <2>4. u \in Nat /\ v \in Nat /\ u <= z /\ z < u + v /\ z \in Nat /\ a <= z /\ z < a + n
    BY <1>1, <2>1, <2>2, <2>3
  <2>5. CASE i \in 1 .. k
    <3>1. u + v <= a
      BY <1>3, <2>3, <2>5
    <3>2. QED
      BY <2>4, <3>1
  <2>6. CASE i \in k + 1 .. Len(s)
    <3>1. a + n <= u
      BY <1>4, <2>3, <2>6
    <3>2. QED
      BY <2>4, <3>1
  <2>7. i \in 1 .. k \/ i \in k + 1 .. Len(s)
    BY <1>1, <1>2
  <2>8. QED
    BY <2>5, <2>6, <2>7
\* The ends of the new block.
<1>7. /\ x \in Nat /\ x <= a /\ x % MB = 0 /\ j \in Nat /\ j <= k
      /\ j < k => HpJoinsPrev(a, k) /\ j = k - 1 /\ x = s[k].addr /\ s[k].addr + s[k].len = a
      /\ j = k => x = a
      /\ j >= 1 => s[j].addr + s[j].len < x
  <2>1. CASE HpJoinsPrev(a, k)
    <3>1. k \in 1 .. Len(s) /\ k \in 1 .. k /\ s[k].addr + s[k].len = a /\ x = s[k].addr /\ j = k - 1
      BY <1>1, <1>2, <2>1 DEF HpJoinsPrev, HpFrom
    <3>2. s[k].addr \in Nat /\ s[k].addr % MB = 0
      BY <1>1, <3>1 DEF HpAligned
    <3>3. s[k].addr < a
      BY <1>2, <3>1
    <3>4. ASSUME j >= 1
          PROVE  s[j].addr + s[j].len < x
      <4>1. j \in 1 .. Len(s) /\ j < k
        BY <3>1, <3>4
      <4>2. QED
        BY <1>1, <3>1, <4>1 DEF HpApart
    <3>5. j \in Nat /\ j <= k /\ j # k
      BY <3>1
    <3>6. QED
      BY <2>1, <3>1, <3>2, <3>3, <3>4, <3>5
  <2>2. CASE ~HpJoinsPrev(a, k)
    <3>1. x = a /\ j = k
      BY <2>2 DEF HpFrom
    <3>2. ASSUME k >= 1
          PROVE  s[k].addr + s[k].len < a
      <4>1. k \in 1 .. Len(s)
        BY <1>2, <3>2
      <4>2. s[k].addr + s[k].len <= a /\ s[k].addr + s[k].len # a
        BY <1>2, <2>2, <3>2 DEF HpJoinsPrev
      <4>3. PICK u, v : u = s[k].addr /\ v = s[k].len
        OBVIOUS
      <4>4. u \in Nat /\ v \in Nat /\ u + v <= a /\ u + v # a
        BY <1>1, <4>1, <4>2, <4>3
      <4>5. u + v < a
        BY <4>4
      <4>6. QED
        BY <4>3, <4>5
    <3>3. QED
      BY <3>1, <3>2
  <2>3. QED
    BY <2>1, <2>2
<1>8. /\ y \in Nat /\ a + n <= y /\ y % MB = 0 /\ l \in Nat /\ k <= l /\ l <= Len(s)
      /\ l > k => /\ HpJoinsNext(a, n, k) /\ l = k + 1 /\ k + 1 \in 1 .. Len(s)
                  /\ s[k + 1].addr = a + n /\ y = s[k + 1].addr + s[k + 1].len
      /\ l = k => y = a + n
      /\ l < Len(s) => y < s[l + 1].addr
  <2>1. CASE HpJoinsNext(a, n, k)
    <3>1. /\ k + 1 \in 1 .. Len(s) /\ a + n = s[k + 1].addr
          /\ y = s[k + 1].addr + s[k + 1].len /\ l = k + 1
      BY <1>1, <1>2, <2>1 DEF HpJoinsNext, HpTo
    <3>2. /\ s[k + 1].addr \in Nat /\ s[k + 1].addr % MB = 0
          /\ s[k + 1].len \in Nat /\ s[k + 1].len % MB = 0
      BY <1>1, <3>1 DEF HpAligned
    <3>3. PICK u, v : u = s[k + 1].addr /\ v = s[k + 1].len
      OBVIOUS
    <3>4. /\ u \in Nat /\ u % MB = 0 /\ v \in Nat /\ v % MB = 0 /\ a + n = u /\ y = u + v
      BY <3>1, <3>2, <3>3
    <3>5. (u + v) % MB = 0
      BY <3>4, HpMultiple
    <3>6. y \in Nat /\ a + n <= y /\ y % MB = 0
      BY <3>4, <3>5
    <3>7. ASSUME l < Len(s)
          PROVE  y < s[l + 1].addr
      <4>1. l + 1 \in 1 .. Len(s) /\ k + 1 < l + 1
        BY <1>1, <3>1, <3>7
      <4>2. QED
        BY <1>1, <3>1, <4>1 DEF HpApart
    <3>8. l \in Nat /\ k <= l /\ l <= Len(s) /\ l # k
      BY <1>1, <3>1
    <3>9. QED
      BY <2>1, <3>1, <3>6, <3>7, <3>8
  <2>2. CASE ~HpJoinsNext(a, n, k)
    <3>1. y = a + n /\ l = k
      BY <2>2 DEF HpTo
    <3>2. (a + n) % MB = 0
      BY HpMultiple
    <3>3. ASSUME k < Len(s)
          PROVE  a + n < s[k + 1].addr
      <4>1. k + 1 \in 1 .. Len(s)
        BY <1>1, <1>2, <3>3
      <4>2. a + n <= s[k + 1].addr /\ a + n # s[k + 1].addr
        BY <1>1, <1>2, <2>2, <3>3 DEF HpJoinsNext
      <4>3. s[k + 1].addr \in Nat
        BY <1>1, <4>1
      <4>4. QED
        BY <4>2, <4>3
    <3>4. QED
      BY <1>1, <1>2, <3>1, <3>2, <3>3
  <2>3. QED
    BY <2>1, <2>2
<1> HIDE DEF x, y, j, l
<1>9. /\ b \in HpBlock /\ HpAligned(b) /\ b.addr = x /\ b.addr + b.len = y
  <2>1. y - x \in Nat \ {0}
    BY <1>7, <1>8
  <2>2. (y - x) % MB = 0
    BY <1>7, <1>8, HpMultiple
  <2>3. b.addr = x /\ b.len = y - x
    BY DEF Blk
  <2>4. b \in HpBlock
    BY <1>7, <2>1 DEF HpBlock, Blk
  <2>5. x + (y - x) = y
    BY <1>7, <1>8
  <2>6. QED
    BY <1>7, <2>2, <2>3, <2>4, <2>5 DEF HpAligned
<1>10. Span(b) = x .. y - 1
  <2>1. Span(b) = b.addr .. b.addr + b.len - 1
    BY DEF Span
  <2>2. b.addr \in Nat /\ b.len \in Nat
    BY <1>9 DEF HpBlock
  <2>3. PICK u \in Nat, v \in Nat : u = b.addr /\ v = b.len
    BY <2>2
  <2>4. u = x /\ u + v = y
    BY <1>9, <2>3
  <2>5. x .. y - 1 = u .. u + v - 1
    BY <2>4
  <2>6. QED
    BY <2>1, <2>3, <2>5
<1> HIDE DEF b
<1>11. HpFreed(a, n, k) = HpPut(s, j, <<b>>, l)
  BY DEF HpFreed, b, x, y, j, l
<1>12. HpList(<<b>>) /\ Len(<<b>>) = 1 /\ <<b>>[1] = b /\ HpBytes(<<b>>) = Span(b)
  BY <1>9, HpOne
<1>13. HpPlace(s, j, <<b>>, l)
  <2>1. j <= l
    BY <1>1, <1>2, <1>7, <1>8
  <2>2. QED
    BY <1>7, <1>8, <1>9, <1>12, <2>1 DEF HpPlace
<1>14. /\ HpList(HpPut(s, j, <<b>>, l))
       /\ HpBytes(HpPut(s, j, <<b>>, l))
             = (HpBytes(s) \ UNION {Span(s[i]) : i \in j + 1 .. l}) \cup HpBytes(<<b>>)
  <2>1. PICK m : m = <<b>>
    OBVIOUS
  <2>2. HpList(m) /\ HpPlace(s, j, m, l) /\ HpList(s) /\ j \in Nat /\ l \in Nat
    BY <1>1, <1>7, <1>8, <1>12, <1>13, <2>1
  <2>3. /\ HpList(HpPut(s, j, m, l))
        /\ HpBytes(HpPut(s, j, m, l))
              = (HpBytes(s) \ UNION {Span(s[i]) : i \in j + 1 .. l}) \cup HpBytes(m)
    BY <2>2, HpPutList
  <2>4. QED
    BY <2>1, <2>3
<1>15. ASSUME NEW i \in 1 .. Len(s), NEW u, NEW v, s[i].addr = u, s[i].addr + s[i].len = v
       PROVE  Span(s[i]) = u .. v - 1 /\ u .. v - 1 \subseteq FreeBytes
  <2>1. PICK w : w = s[i].len
    OBVIOUS
  <2>2. u \in Nat /\ w \in Nat /\ u + w = v
    BY <1>1, <1>15, <2>1
  <2>3. Span(s[i]) = u .. u + w - 1
    BY <1>15, <2>1 DEF Span
  <2>4. \A z \in u .. v - 1 : z \in Nat /\ s[i].addr <= z /\ z < s[i].addr + s[i].len
    BY <1>15, <2>2
  <2>5. u .. v - 1 \subseteq FreeBytes
    BY <1>1, <2>4
  <2>6. QED
    BY <2>2, <2>3, <2>5
<1> DEFINE old == UNION {Span(s[i]) : i \in j + 1 .. l}
<1>16. old \subseteq FreeBytes /\ x .. y - 1 = old \cup (a .. a + n - 1)
  <2>1. PICK before : before = IF j < k THEN Span(s[k]) ELSE {}
    OBVIOUS
  <2>2. PICK after : after = IF l > k THEN Span(s[k + 1]) ELSE {}
    OBVIOUS
  <2>3. /\ before = x .. a - 1
        /\ j < k => before = Span(s[k]) /\ k \in 1 .. Len(s)
    <3>1. CASE j < k
      <4>1. k \in 1 .. Len(s) /\ x = s[k].addr /\ s[k].addr + s[k].len = a
        BY <1>2, <1>7, <3>1
      <4>2. Span(s[k]) = x .. a - 1
        BY <1>15, <4>1
      <4>3. QED
        BY <2>1, <3>1, <4>1, <4>2
    <3>2. CASE j = k
      <4>1. x = a /\ before = {}
        BY <1>7, <2>1, <3>2
      <4>2. x .. a - 1 = {}
        BY <4>1
      <4>3. QED
        BY <3>2, <4>1, <4>2
    <3>3. QED
      BY <1>7, <3>1, <3>2
  <2>4. /\ after = a + n .. y - 1
        /\ l > k => after = Span(s[k + 1]) /\ k + 1 \in 1 .. Len(s)
    <3>1. CASE l > k
      <4>1. k + 1 \in 1 .. Len(s) /\ a + n = s[k + 1].addr /\ s[k + 1].addr + s[k + 1].len = y
        BY <1>8, <3>1
      <4>2. Span(s[k + 1]) = a + n .. y - 1
        BY <1>15, <4>1
      <4>3. QED
        BY <2>2, <3>1, <4>1, <4>2
    <3>2. CASE l = k
      <4>1. y = a + n /\ after = {}
        BY <1>8, <2>2, <3>2
      <4>2. a + n .. y - 1 = {}
        BY <4>1
      <4>3. QED
        BY <3>2, <4>1, <4>2
    <3>3. QED
      BY <1>8, <3>1, <3>2
  <2>5. old = before \cup after
    <3>1. ASSUME NEW i \in j + 1 .. l
          PROVE  (i = k /\ j < k) \/ (i = k + 1 /\ l > k)
      BY <1>7, <1>8
    <3>2. \A z \in old : z \in before \cup after
      BY <2>3, <2>4, <3>1
    <3>3. j < k => k \in j + 1 .. l
      BY <1>7, <1>8
    <3>4. l > k => k + 1 \in j + 1 .. l
      BY <1>7, <1>8
    <3>5. before \subseteq old
      <4>1. CASE j < k
        BY <2>3, <3>3, <4>1
      <4>2. CASE ~(j < k)
        BY <2>1, <4>2
      <4>3. QED
        BY <4>1, <4>2
    <3>6. after \subseteq old
      <4>1. CASE l > k
        BY <2>4, <3>4, <4>1
      <4>2. CASE ~(l > k)
        BY <2>2, <4>2
      <4>3. QED
        BY <4>1, <4>2
    <3>7. QED
      BY <3>2, <3>5, <3>6
  <2>6. \A i \in j + 1 .. l : i \in 1 .. Len(s)
    BY <1>7, <1>8
  <2>7. \A i \in 1 .. Len(s) : Span(s[i]) \subseteq FreeBytes
    <3>1. TAKE i \in 1 .. Len(s)
    <3>2. PICK u, v : s[i].addr = u /\ s[i].addr + s[i].len = v
      OBVIOUS
    <3>3. QED
      BY <1>15, <3>2
  <2>8. old \subseteq FreeBytes
    BY <2>6, <2>7
  <2>9. x .. y - 1 = (x .. a - 1) \cup (a .. a + n - 1) \cup (a + n .. y - 1)
    BY <1>7, <1>8
  <2>10. QED
    BY <2>3, <2>4, <2>5, <2>8, <2>9
<1>17. HpBytes(HpFreed(a, n, k)) = FreeBytes \cup Span(Blk(a, n))
  <2>1. HpBytes(HpFreed(a, n, k)) = (FreeBytes \ old) \cup Span(b)
    BY <1>1, <1>11, <1>12, <1>14
  <2>2. Span(b) = old \cup Span(Blk(a, n))
    BY <1>5, <1>10, <1>16
  <2>3. QED
    BY <1>16, <2>1, <2>2
<1>18. QED
  BY <1>6, <1>11, <1>14, <1>17

LEMMA HpFreemem ==
  ASSUME HpIInv, NEW a \in Bytes, a % MB = 0, NEW nbytes \in Nat, MayFree(a, nbytes),
         freemem(a, nbytes)
  PROVE  HpIInv' /\ memret'.call = "freemem"
<1> DEFINE s == memlist
           next == {i \in DOMAIN s : s[i].addr >= a}
           k == Cardinality(DOMAIN s \ next)
           n == roundmb(nbytes)
<1>1. /\ n \in Nat /\ n % MB = 0 /\ nbytes <= n
  BY HpRounded
<1>2. a \in Nat
  BY HpConstants DEF Bytes
<1>3. /\ k \in 0 .. Len(s) /\ k \in Nat
      /\ DOMAIN s \ next = 1 .. k /\ next = k + 1 .. Len(s)
      /\ \A i \in 1 .. k : s[i].addr < a
      /\ \A i \in k + 1 .. Len(s) : a <= s[i].addr
      /\ k >= 1 => Max(DOMAIN s \ next) = k
      /\ k < Len(s) => Min(next) = k + 1
  <2>1. /\ k \in 0 .. Len(s)
        /\ DOMAIN s \ next = 1 .. k /\ next = k + 1 .. Len(s)
        /\ \A i \in 1 .. k : s[i].addr < a
        /\ \A i \in k + 1 .. Len(s) : a <= s[i].addr
        /\ k >= 1 => Max(DOMAIN s \ next) = k
        /\ k < Len(s) => Min(next) = k + 1
    BY <1>2, HpBefore
  <2>2. k \in Nat
    BY <2>1
  <2>3. QED
    BY <2>1, <2>2
<1>4. /\ memret' = Called("freemem", n, SYSERR) /\ UNCHANGED <<memlist, mlength, owned>>
      \/ /\ nbytes # 0 /\ ~Overlaps(next, a, n)
         /\ mlength' = mlength + n
         /\ memlist' = HpFreed(a, n, k)
         /\ owned' = owned \ Span(Blk(a, n))
         /\ memret' = Called("freemem", n, a)
  <2>1. CASE \/ nbytes = 0 \/ a \notin Bytes
             \/ Overlaps(next, a, n)
    BY <2>1 DEF freemem
  <2>2. CASE nbytes # 0 /\ a \in Bytes /\ ~Overlaps(next, a, n)
    <3>1. n \in Nat \ {0}
      BY <1>1, <2>2
    <3>2. memlist' = HpFreed(a, n, k)
      BY <1>2, <1>3, <2>2, <3>1, HpLinked DEF freemem
    <3>3. QED
      BY <2>2, <3>2 DEF freemem
  <2>3. QED
    BY <2>1, <2>2
<1> HIDE DEF next, k, n
<1>5. CASE memret' = Called("freemem", n, SYSERR) /\ UNCHANGED <<memlist, mlength, owned>>
  <2>1. memret'.call = "freemem"
    BY <1>5 DEF Called
  <2>2. RefusedOnlyWhenFull'
    BY <2>1 DEF RefusedOnlyWhenFull
  <2>3. QED
    BY <1>5, <2>1, <2>2, HpSame
<1>6. CASE /\ nbytes # 0 /\ ~Overlaps(next, a, n)
           /\ mlength' = mlength + n
           /\ memlist' = HpFreed(a, n, k)
           /\ owned' = owned \ Span(Blk(a, n))
           /\ memret' = Called("freemem", n, a)
  <2>1. n \in Nat \ {0}
    BY <1>1, <1>6
  <2>2. Len(s) \in Nat /\ DOMAIN s = 1 .. Len(s)
    BY HpFacts
  <2>3. ASSUME k >= 1
        PROVE  s[k].addr + s[k].len <= a
    <3>1. DOMAIN s \ next # {} /\ Max(DOMAIN s \ next) = k
      BY <1>3, <2>3
    <3>2. ~(a < s[k].addr + s[k].len)
      BY <1>6, <3>1 DEF Overlaps
    <3>3. k \in 1 .. Len(s)
      BY <1>3, <2>3
    <3>4. PICK u, v : u = s[k].addr /\ v = s[k].len
      OBVIOUS
    <3>5. u \in Nat /\ v \in Nat /\ ~(a < u + v)
      BY <3>2, <3>3, <3>4, HpFacts
    <3>6. u + v <= a
      BY <1>2, <3>5
    <3>7. QED
      BY <3>4, <3>6
  <2>4. ASSUME k < Len(s)
        PROVE  a + n <= s[k + 1].addr
    <3>1. next # {} /\ Min(next) = k + 1
      BY <1>3, <2>2, <2>4
    <3>2. ~(a + n > s[k + 1].addr)
      BY <1>6, <3>1 DEF Overlaps
    <3>3. k + 1 \in 1 .. Len(s)
      BY <1>3, <2>2, <2>4
    <3>4. s[k + 1].addr \in Nat
      BY <3>3, HpFacts
    <3>5. QED
      BY <1>1, <1>2, <3>2, <3>4
  <2>5. HpFreeable(a, n, k)
    BY <1>3, <2>3, <2>4 DEF HpFreeable
  <2>6. /\ HpList(memlist') /\ HpBytes(memlist') = FreeBytes \cup Span(Blk(a, n))
        /\ FreeBytes \cap Span(Blk(a, n)) = {}
    BY <1>1, <1>2, <1>3, <1>6, <2>1, <2>5, HpFreedOK
  <2>7. Span(Blk(a, n)) \subseteq owned
    BY <2>6 DEF MayFree, n
  <2>8. FreeBytes' = FreeBytes \cup Span(Blk(a, n))
    BY <2>6 DEF FreeBytes, HpBytes, Span
  <2>9. FreeBytes' \cap owned' = {} /\ FreeBytes' \cup owned' = HpBytes(MemPool)
    BY <1>6, <2>6, <2>7, <2>8 DEF HpIInv
  <2>10. mlength' = Cardinality(FreeBytes') - Cardinality(HpBytes(MemPool))
    <3>1. Span(Blk(a, n)) = a .. a + n - 1
      BY DEF Span, Blk
    <3>2. Cardinality(Span(Blk(a, n))) = n /\ IsFiniteSet(Span(Blk(a, n)))
      BY <1>2, <2>1, <3>1, FS_Interval
    <3>3. IsFiniteSet(FreeBytes)
      BY HpPoolOK, FS_Subset DEF HpIInv
    <3>4. PICK f, g : f = FreeBytes /\ g = Span(Blk(a, n))
      OBVIOUS
    <3>5. Cardinality(f \cup g) = Cardinality(f) + Cardinality(g) - Cardinality(f \cap g)
      BY <3>2, <3>3, <3>4, FS_Union
    <3>6. Cardinality(f \cap g) = 0
      BY <2>6, <3>4, FS_EmptySet
    <3>7. Cardinality(f) \in Nat /\ Cardinality(HpBytes(MemPool)) \in Nat
      BY <3>3, <3>4, HpPoolOK, FS_CardinalityType
    <3>8. Cardinality(FreeBytes') = Cardinality(FreeBytes) + n
      BY <2>1, <2>8, <3>2, <3>4, <3>5, <3>6, <3>7
    <3>9. QED
      BY <1>6, <2>1, <3>4, <3>7, <3>8 DEF HpIInv
  <2>11. memret'.call = "freemem"
    BY <1>6 DEF Called
  <2>12. RefusedOnlyWhenFull'
    BY <2>11 DEF RefusedOnlyWhenFull
  <2>13. HpIInv'
    <3>1. HpBytes(MemPool)' = HpBytes(MemPool)
      BY DEF HpBytes, MemPool, Span
    <3>2. HpList(memlist)'
      BY <2>6 DEF HpList, HpApart, HpAligned
    <3>3. QED
      BY <2>9, <2>10, <2>12, <3>1, <3>2 DEF HpIInv
  <2>14. QED
    BY <2>11, <2>13
<1>7. QED
  BY <1>4, <1>5, <1>6

-----------------------------------------------------------------------------
(* The heap: the theorems.                                                 *)

LEMMA HpInitOK == MemInit => HpIInv
<1> SUFFICES ASSUME MemInit PROVE HpIInv
  OBVIOUS
<1>1. memlist = MemPool /\ mlength = 0 /\ owned = {} /\ memret = Called("meminit", 0, 0)
  BY DEF MemInit
<1>2. FreeBytes = HpBytes(MemPool)
  BY <1>1 DEF FreeBytes, HpBytes
<1>3. Cardinality(HpBytes(MemPool)) \in Nat
  BY HpPoolOK, FS_CardinalityType
<1>4. RefusedOnlyWhenFull
  <2>1. memret.call = "meminit"
    BY <1>1 DEF Called
  <2>2. QED
    BY <2>1 DEF RefusedOnlyWhenFull
<1>5. mlength = Cardinality(FreeBytes) - Cardinality(HpBytes(MemPool))
  BY <1>1, <1>2, <1>3
<1>6. QED
  BY <1>1, <1>2, <1>4, <1>5, HpPoolOK DEF HpIInv

LEMMA HpNextOK ==
  ASSUME HpIInv, [MemNext]_memVars
  PROVE  HpIInv'
<1>1. Requests \subseteq Nat
  BY MemoryAssumption
<1>2. CASE UNCHANGED memVars
  <2>1. UNCHANGED <<memlist, mlength, owned, memret>>
    BY <1>2 DEF memVars
  <2>2. RefusedOnlyWhenFull'
    BY <2>1 DEF HpIInv, RefusedOnlyWhenFull, FreeBytes, Span, Blk, Bytes
  <2>3. QED
    BY <2>1, <2>2, HpSame
<1>3. ASSUME NEW n \in Requests, getmem(n) \/ getstk(n)
      PROVE  HpIInv'
  BY <1>1, <1>3, HpGetmem, HpGetstk
<1>4. ASSUME NEW a \in {b \in Bytes : b % MB = 0}, NEW n \in Requests, MayFree(a, n), freemem(a, n)
      PROVE  HpIInv'
  BY <1>1, <1>4, HpFreemem
<1>5. QED
  BY <1>2, <1>3, <1>4 DEF MemNext

\* The invariants the run checks follow.
LEMMA HpIInvImplies == HpIInv => MemInv
<1> SUFFICES ASSUME HpIInv PROVE MemInv
  OBVIOUS
<1>1. /\ Len(memlist) \in Nat /\ DOMAIN memlist = 1 .. Len(memlist) /\ HpApart(memlist)
      /\ \A i \in 1 .. Len(memlist) : memlist[i].addr \in Nat /\ memlist[i].len \in Nat \ {0}
  BY HpFacts
<1>2. \A i \in 1 .. Len(memlist) : HpAligned(memlist[i])
  BY DEF HpIInv, HpList
<1>3. HpBytes(MemPool) \subseteq HeapBytes /\ IsFiniteSet(HpBytes(MemPool))
  BY HpPoolOK
<1>4. HeapBytes \subseteq Bytes
  BY DEF HeapBytes
<1>5. Cardinality(HpBytes(MemPool)) \in Nat /\ Cardinality(FreeBytes) \in Nat
  <2>1. IsFiniteSet(FreeBytes)
    BY <1>3, FS_Subset DEF HpIInv
  <2>2. QED
    BY <1>3, <2>1, FS_CardinalityType
<1>6. MemTypeOK
  <2>1. owned \subseteq Bytes
    BY <1>3, <1>4 DEF HpIInv
  <2>2. mlength \in Int
    BY <1>5 DEF HpIInv
  <2>3. QED
    BY <1>1, <1>2, <2>1, <2>2 DEF MemTypeOK, HpAligned
<1>7. HeapPartition
  <2>1. ASSUME NEW i \in 1 .. Len(memlist) - 1
        PROVE  memlist[i].addr + memlist[i].len <= memlist[i + 1].addr
    <3>1. i \in 1 .. Len(memlist) /\ i + 1 \in 1 .. Len(memlist) /\ i < i + 1
      BY <1>1
    <3>2. memlist[i].addr + memlist[i].len < memlist[i + 1].addr
      BY <1>1, <3>1 DEF HpApart
    <3>3. PICK u, v, w : u = memlist[i].addr /\ v = memlist[i].len /\ w = memlist[i + 1].addr
      OBVIOUS
    <3>4. u \in Nat /\ v \in Nat /\ w \in Nat /\ u + v < w
      BY <1>1, <3>1, <3>2, <3>3
    <3>5. u + v <= w
      BY <3>4
    <3>6. QED
      BY <3>3, <3>5
  <2>2. HpBytes(MemPool) = UNION {Span(b) : b \in Range(MemPool)}
    BY DEF HpBytes
  <2>3. QED
    BY <1>3, <2>1, <2>2 DEF HeapPartition, HpIInv
<1>8. LengthFollows
  BY DEF LengthFollows, HpIInv
<1>9. RefusedOnlyWhenFull
  BY DEF HpIInv
<1>10. QED
  BY <1>6, <1>7, <1>8, <1>9 DEF MemInv

\* The heap is partitioned: for any sizes of it and any requests, each byte is
\* free or held, once; the free blocks are in order, apart from each other and
\* counted, and a request is refused only when no block is large enough
\* (getmem.c, getstk.c, freemem.c).
THEOREM HeapStaysPartitioned == MemSpec => []MemInv
<1>1. MemInit => HpIInv
  BY HpInitOK
<1>2. HpIInv /\ [MemNext]_memVars => HpIInv'
  BY HpNextOK
<1>3. HpIInv => MemInv
  BY HpIInvImplies
<1>4. QED
  BY <1>1, <1>2, <1>3, PTL DEF MemSpec

\* getmem gives the first bytes that fit and getstk the last, and they were free.
LEMMA HpNextGives ==
  ASSUME HpIInv, [MemNext]_memVars
  PROVE  [memret'.call \in {"getmem", "getstk"} /\ memret'.addr # SYSERR =>
            /\ Span(Blk(memret'.addr, memret'.size)) \subseteq FreeBytes
            /\ \A a \in Bytes :
                  Span(Blk(a, memret'.size)) \subseteq FreeBytes =>
                      IF memret'.call = "getmem" THEN memret'.addr <= a
                                                 ELSE a <= memret'.addr]_memVars
<1>1. Requests \subseteq Nat
  BY MemoryAssumption
<1>2. ASSUME NEW n \in Requests, getmem(n), memret'.addr # SYSERR
      PROVE  /\ memret'.call = "getmem"
             /\ Span(Blk(memret'.addr, memret'.size)) \subseteq FreeBytes
             /\ HpFirst(memret'.addr, memret'.size)
  BY <1>1, <1>2, HpGetmem
<1>3. ASSUME NEW n \in Requests, getstk(n), memret'.addr # SYSERR
      PROVE  /\ memret'.call = "getstk"
             /\ Span(Blk(memret'.addr, memret'.size)) \subseteq FreeBytes
             /\ HpLast(memret'.addr, memret'.size)
  BY <1>1, <1>3, HpGetstk
<1>4. ASSUME NEW a \in {b \in Bytes : b % MB = 0}, NEW n \in Requests, MayFree(a, n), freemem(a, n)
      PROVE  memret'.call = "freemem"
  BY <1>1, <1>4, HpFreemem
<1>5. CASE \E n \in Requests : getmem(n)
  BY <1>2, <1>5 DEF HpFirst
<1>6. CASE \E n \in Requests : getstk(n)
  BY <1>3, <1>6 DEF HpLast
<1>7. CASE \E a \in {b \in Bytes : b % MB = 0}, n \in Requests : MayFree(a, n) /\ freemem(a, n)
  BY <1>4, <1>7
<1>8. QED
  BY <1>5, <1>6, <1>7 DEF MemNext

\* What a call hands out was free, for any sizes of the heap and any requests:
\* nobody is given what another one holds, and the bytes from the ends of the
\* free memory (getmem.c:24-40, getstk.c:25-45).
THEOREM GivesWhatWasFree == MemSpec => HandedOutWasFree
<1>1. MemInit => HpIInv
  BY HpInitOK
<1>2. HpIInv /\ [MemNext]_memVars => HpIInv'
  BY HpNextOK
<1>3. HpIInv /\ [MemNext]_memVars =>
        [memret'.call \in {"getmem", "getstk"} /\ memret'.addr # SYSERR =>
            /\ Span(Blk(memret'.addr, memret'.size)) \subseteq FreeBytes
            /\ \A a \in Bytes :
                  Span(Blk(a, memret'.size)) \subseteq FreeBytes =>
                      IF memret'.call = "getmem" THEN memret'.addr <= a
                                                 ELSE a <= memret'.addr]_memVars
  BY HpNextGives
<1>4. QED
  BY <1>1, <1>2, <1>3, PTL DEF MemSpec, HandedOutWasFree

=============================================================================
