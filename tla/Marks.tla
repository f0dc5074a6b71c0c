-------------------------------- MODULE Marks --------------------------------
(***************************************************************************)
(* Memory marks: location loc is marked when *loc is the index of an entry *)
(* of marks that points back to loc, so that no value the memory happens   *)
(* to hold counts as a mark.  mark runs with interrupts enabled; only the  *)
(* assignment is inside the mutex, and the tests are made before it.       *)
(***************************************************************************)
EXTENDS SemOps, FiniteSets

CONSTANTS
    MkProc,     \* processes that call mark
    MkLoc,      \* locations
    MkJunk,     \* values the locations may hold at the start
    MAXMARK     \* entries of marks

ASSUME MarksAssumption ==
    /\ MAXMARK \in Nat \ {0}
    /\ MkJunk \subseteq Int
    /\ IsFiniteSet(MkProc)
    /\ "none" \notin MkLoc

\* marks and the memory behind it, as far as the callers can get.
MkSlot == 0 .. MAXMARK + Cardinality(MkProc) - 1

VARIABLES
    marks, nmarks, mkmutex,
    mkvalue,    \* *loc for each location
    mkcall,     \* where each process is in mark, with the location and index
    mkok        \* locations for which mark has returned OK

mkVars == <<marks, nmarks, mkmutex, mkvalue, mkcall, mkok>>

MkIdle == [at |-> "idle"]

\* markinit
MkInit ==
    /\ marks = [i \in MkSlot |-> "none"]
    /\ nmarks = 0
    /\ mkmutex = SemCreated(1)
    /\ mkvalue \in [MkLoc -> MkJunk]
    /\ mkcall = [p \in MkProc |-> MkIdle]
    /\ mkok = {}

-----------------------------------------------------------------------------

notmarked(loc) ==
    \/ mkvalue[loc] < 0
    \/ mkvalue[loc] >= nmarks
    \/ marks[mkvalue[loc]] # loc

MkGo(p, c) == mkcall' = [mkcall EXCEPT ![p] = c]

\* The location is marked already.
MkFound(p, loc) ==
    /\ mkcall[p] = MkIdle
    /\ ~notmarked(loc)
    /\ mkok' = mkok \cup {loc}
    /\ UNCHANGED <<marks, nmarks, mkmutex, mkvalue, mkcall>>

MkNotFound(p, loc) ==
    /\ mkcall[p] = MkIdle
    /\ notmarked(loc)
    /\ MkGo(p, [at |-> "room", loc |-> loc])
    /\ UNCHANGED <<marks, nmarks, mkmutex, mkvalue, mkok>>

\* The test for a free entry; when there is one, the process goes on to the
\* mutex.  A test that is one off, for comparison.
MkRoomOneMore == nmarks <= MAXMARK

MkRoom == nmarks < MAXMARK

MkTestRoom(p) ==
    /\ mkcall[p].at = "room"
    /\ MkGo(p, IF MkRoom THEN [mkcall[p] EXCEPT !.at = "wait"] ELSE MkIdle)
    /\ UNCHANGED <<marks, nmarks, mkmutex, mkvalue, mkok>>

\* No mutual exclusion, for comparison.
MkEnterAlways(p) ==
    /\ mkcall[p].at = "wait"
    /\ MkGo(p, [mkcall[p] EXCEPT !.at = "assign"])
    /\ UNCHANGED <<marks, nmarks, mkmutex, mkvalue, mkok>>

MkEnter(p) ==
    /\ mkcall[p].at = "wait"
    /\ ~Waits(mkmutex, p)
    /\ mkmutex' = Waited(mkmutex, p)
    /\ MkGo(p, [mkcall[p] EXCEPT !.at = "assign"])
    /\ UNCHANGED <<marks, nmarks, mkvalue, mkok>>

\* marks[(*loc) = nmarks++] = loc, in three accesses to memory.
MkRead(p) ==
    /\ mkcall[p].at = "assign"
    /\ ~Waits(mkmutex, p)
    /\ MkGo(p, [at |-> "count", loc |-> mkcall[p].loc, i |-> nmarks])
    /\ UNCHANGED <<marks, nmarks, mkmutex, mkvalue, mkok>>

MkCount(p) ==
    /\ mkcall[p].at = "count"
    /\ nmarks' = mkcall[p].i + 1
    /\ mkvalue' = [mkvalue EXCEPT ![mkcall[p].loc] = mkcall[p].i]
    /\ MkGo(p, [mkcall[p] EXCEPT !.at = "point"])
    /\ UNCHANGED <<marks, mkmutex, mkok>>

MkPoint(p) ==
    /\ mkcall[p].at = "point"
    /\ marks' = [marks EXCEPT ![mkcall[p].i] = mkcall[p].loc]
    /\ MkGo(p, [mkcall[p] EXCEPT !.at = "signal"])
    /\ UNCHANGED <<nmarks, mkmutex, mkvalue, mkok>>

\* A wrong end, for comparison: the mutex is reset.
MkLeaveTwice(p) ==
    /\ mkcall[p].at = "signal"
    /\ mkmutex' = [mkmutex EXCEPT !.count = 1]
    /\ mkok' = mkok \cup {mkcall[p].loc}
    /\ MkGo(p, MkIdle)
    /\ UNCHANGED <<marks, nmarks, mkvalue>>

MkLeave(p) ==
    /\ mkcall[p].at = "signal"
    /\ mkmutex' = Signalled(mkmutex)
    /\ mkok' = mkok \cup {mkcall[p].loc}
    /\ MkGo(p, MkIdle)
    /\ UNCHANGED <<marks, nmarks, mkvalue>>

MkStep(p) ==
    \/ MkTestRoom(p) \/ MkEnter(p) \/ MkRead(p) \/ MkCount(p) \/ MkPoint(p)
    \/ MkLeave(p)

MkNext ==
    \E p \in MkProc :
        \/ \E loc \in MkLoc : MkFound(p, loc) \/ MkNotFound(p, loc)
        \/ MkStep(p)

MkSpec == MkInit /\ [][MkNext]_mkVars

-----------------------------------------------------------------------------

\* Past the test for room, before nmarks is increased.
MkPassed == {p \in MkProc : mkcall[p].at \in {"wait", "assign", "count"}}

\* The variables have their types.
MkTypeOK ==
    /\ nmarks \in Nat
    /\ DOMAIN marks = MkSlot
    /\ SemOK(mkmutex)

\* marks may be overrun, for mark tests nmarks before the mutex; but by at most
\* one entry for each other process that had passed the test (mark.c:37).
OverrunBounded ==
    nmarks + Cardinality(MkPassed) <= MAXMARK + Cardinality(MkProc) - 1

\* A location for which mark has returned OK is marked, whatever was in the
\* memory before, and two of them do not share an entry; a second call of
\* mark for the location may be in the middle of moving it.  (As long as what
\* was written behind the end of marks is still there.)
MarkedStays ==
    \A loc \in mkok :
        (\A p \in MkProc : mkcall[p] = MkIdle \/ mkcall[p].loc # loc) =>
            /\ ~notmarked(loc)
            /\ \A l \in mkok \ {loc} : mkvalue[l] # mkvalue[loc]

\* No mark is lost: an entry is used once, so that all entries below nmarks
\* point somewhere when nobody is in the mutex.
EntriesUsed ==
    mkmutex.count = 1 => \A i \in 0 .. nmarks - 1 : marks[i] # "none"

\* Whatever runs between the test of nmarks and the mutex: a place that was
\* marked stays marked, the entries in use are those below nmarks, and the table
\* is overrun by no more than the processes that passed the test together.
MkInv ==
    /\ MkTypeOK
    /\ OverrunBounded
    /\ MarkedStays
    /\ EntriesUsed

=============================================================================
