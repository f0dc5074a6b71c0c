------------------------------ MODULE QueueOps ------------------------------
(***************************************************************************)
(* What the queue functions of system/ do, on sequences: insert and        *)
(* getitem, and insertd and unsleep of the delta list of sleeping          *)
(* processes.  q is a queue and ky[p] the qkey of entry p.  The kernel     *)
(* modules use these operators; QueueTab shows that the linked lists of    *)
(* queuetab implement them.                                                *)
(***************************************************************************)
EXTENDS Integers, SequencesExt

\* A wrong insert, for comparison: before the entries of the same key.
InsertPosBeforeEquals(q, ky, k) ==
    Min({i \in 1 .. Len(q) + 1 : i = Len(q) + 1 \/ ky[q[i]] <= k})

\* insert puts a process before the first entry whose key is below k.
InsertPos(q, ky, k) ==
    Min({i \in 1 .. Len(q) + 1 : i = Len(q) + 1 \/ ky[q[i]] < k})

Insert(q, p, ky, k) == InsertAt(q, InsertPos(q, ky, k), p)

\* The place of p in q, and getitem: q without p.
PosOf(q, p) == CHOOSE i \in 1 .. Len(q) : q[i] = p

GetItem(q, p) == RemoveAt(q, PosOf(q, p))

\* x is in front of y.
Ahead(q, x, y) ==
    \E j \in 1 .. Len(q) : \E i \in 1 .. j - 1 : q[i] = x /\ q[j] = y

-----------------------------------------------------------------------------
(* Delta lists: the key of an entry is the time between the entry before   *)
(* it and its own.                                                         *)

\* Elapsed(q, ky)[i]: the time until entry i of q is due.
Elapsed(q, ky) ==
    LET sum[i \in 0 .. Len(q)] == IF i = 0 THEN 0 ELSE sum[i - 1] + ky[q[i]]
    IN  sum

\* insertd stops at the first entry that is due later than the new one.
InsertdPos(q, ky, delay) ==
    Min({i \in 1 .. Len(q) + 1 : i = Len(q) + 1 \/ Elapsed(q, ky)[i] > delay})

Insertd(q, p, ky, delay) == InsertAt(q, InsertdPos(q, ky, delay), p)

\* The new entry gets what is left of the delay, the next one is reduced by it.
InsertdKeys(q, p, ky, delay) ==
    LET i == InsertdPos(q, ky, delay)
        left == delay - Elapsed(q, ky)[i - 1]
    IN  [x \in DOMAIN ky |-> IF x = p THEN left
                             ELSE IF i <= Len(q) /\ x = q[i] THEN ky[x] - left
                             ELSE ky[x]]

\* A wrong unsleep, for comparison: the next entry keeps its key.
UnsleepKeysKept(q, p, ky) == ky

\* unsleep passes the time of p on to the next entry, if there is one, and
\* takes p out with getitem.
UnsleepKeys(q, p, ky) ==
    LET i == PosOf(q, p)
    IN  IF i < Len(q) THEN [ky EXCEPT ![q[i + 1]] = @ + ky[p]] ELSE ky

=============================================================================
