----------------------------- MODULE ProcessProofs -----------------------------
(***************************************************************************)
(* Theorems about Kernel that hold when the processes leave something      *)
(* alone: without chprio the process that runs has the highest priority,   *)
(* and while processes end only themselves (exit, and the return from the  *)
(* top-level function, but no kill of another process) the live processes  *)
(* are counted and each has its own stack.                                 *)
(*                                                                         *)
(* KernelProofs supplies the invariant (Parts), and what resched does to   *)
(* the process states; here the order of the ready list is followed.       *)
(*                                                                         *)
(* The last part shows that the delta list of the sleepers implements      *)
(* Timers, one counter for each process, as long as no recvtime has a      *)
(* limit of 0: what a process has left is the sum of the keys as far as    *)
(* its own, and each step changes these sums as Timers says.               *)
(***************************************************************************)
EXTENDS KernelProofs, FiniteSetTheorems

-----------------------------------------------------------------------------
(* Who runs.                                                               *)

\* The ready list rl is in the order of the keys ky, which are the priorities.
OrderOf(rl, ky) ==
    /\ Sorted(rl, ky)
    /\ \A p \in Range(rl) : ky[p] = prprio[p]

Ordered == OrderOf(readylist, qkey)

HeadRuns == \A p \in Range(readylist) : prprio[p] <= prprio[currpid]

\* While rescheduling is deferred a process of higher priority may be ready,
\* and then the attempt to reschedule has been recorded.
PrioInv == Ordered /\ (ndefers = 0 \/ ~attempt => HeadRuns)

\* What a step has to show of the scheduler's variables.
OrderAfter ==
    /\ Sorted(readylist', qkey')
    /\ \A p \in Range(readylist)' : qkey'[p] = prprio[p]

RunsAfter == \A p \in Range(readylist)' : prprio[p] <= prprio[currpid']

\* What resched leaves behind.
DoneOrRecorded ==
    OrderAfter /\ (ndefers = 0 => RunsAfter) /\ (ndefers = 1 => attempt' = TRUE)

\* The members of a queue, as they occur in it.
LEMMA EntryFacts ==
  ASSUME NEW q \in Seq(Pid)
  PROVE  /\ \A j \in 1 .. Len(q) : q[j] \in Range(q) /\ q[j] \in Pid
         /\ Range(q) \subseteq Pid
  BY MembersAt

\* The context switch puts the process of the highest priority on the processor.
LEMMA DispatchOrder ==
  ASSUME NEW st, NEW rl, NEW ky, NEW pre,
         currpid \in Pid, MayResched(st, rl, ky, pre),
         prprio \in [Pid -> Nat], OrderOf(rl, ky),
         Dispatch(st, rl, ky, pre)
  PROVE  OrderAfter /\ RunsAfter
<1> DEFINE eligible == st[currpid] = "PR_CURR"
           prio == prprio[currpid]
           stays == eligible /\ (rl = <<>> \/ prio > ky[Head(rl)])
           ky1 == IF eligible THEN [ky EXCEPT ![currpid] = prio] ELSE ky
           rl1 == IF eligible THEN Insert(rl, currpid, ky, prio) ELSE rl
           st1 == IF eligible THEN [st EXCEPT ![currpid] = "PR_READY"] ELSE st
<1>1. /\ QueueOf(Pid, rl) /\ rl \in Seq(Pid)
      /\ \A p \in Pid : p \in Range(rl) <=> st[p] = "PR_READY"
      /\ \A p \in Pid : st[p] = "PR_CURR" => p = currpid
      /\ st[NULLPROC] \in Eligible
      /\ DOMAIN ky = Pid
  BY DEF MayResched, QueueOf
<1>2. /\ Sorted(rl, ky)
      /\ \A p \in Range(rl) : ky[p] = prprio[p]
      /\ Range(rl) \subseteq Pid
      /\ \A j \in 1 .. Len(rl) : ky[rl[j]] \in Int /\ rl[j] \in Range(rl)
  BY <1>1, EntryFacts DEF OrderOf
<1>3. prio \in Nat
  OBVIOUS
<1>4. CASE stays
  <2>1. readylist' = rl /\ qkey' = ky /\ currpid' = currpid
    BY <1>4 DEF Dispatch
  <2>2. ASSUME NEW p \in Range(rl)
        PROVE  prprio[p] <= prio
    <3>1. rl # <<>>
      <4>1. Range(<<>>) = {}
        BY DEF Range
      <4>2. QED
        BY <2>2, <4>1
    <3>2. ky[p] <= ky[Head(rl)] /\ Head(rl) \in Range(rl)
      BY <1>1, <1>2, <3>1, TailSorted, TailMembers
    <3>3. QED
      BY <1>2, <1>3, <1>4, <2>2, <3>1, <3>2
  <2>3. QED
    BY <1>2, <2>1, <2>2 DEF OrderAfter, RunsAfter
<1>5. CASE ~stays
  <2>1. currpid' = Head(rl1) /\ readylist' = Tail(rl1) /\ qkey' = ky1
    BY <1>5 DEF Dispatch
  <2>2. /\ QueueOf(Pid, rl1) /\ rl1 # <<>>
        /\ Sorted(rl1, ky1)
        /\ \A p \in Range(rl1) : ky1[p] = prprio[p]
    <3>1. CASE eligible
      <4>1. rl1 = Insert(rl, currpid, ky, prio) /\ ky1 = [ky EXCEPT ![currpid] = prio]
        BY <3>1
      <4> HIDE DEF rl1, ky1
      <4>2. currpid \notin Range(rl)
        BY <1>1, <3>1
      <4>3. QueueOf(Pid, rl1) /\ Range(rl1) = Range(rl) \cup {currpid}
        BY <1>1, <4>1, <4>2, InsertMembers
      <4>4. ky1[currpid] = prio /\ \A p \in Range(rl) : ky1[p] = ky[p]
        BY <1>1, <1>2, <4>1, <4>2
      <4>5. \A j \in 1 .. Len(rl) : ky1[rl[j]] = ky[rl[j]]
        BY <1>2, <4>4
      <4>6. Sorted(rl1, ky1)
        <5>1. /\ rl \in Seq(Pid) /\ Sorted(rl, ky) /\ ky1[currpid] = prprio[currpid]
              /\ \A j \in 1 .. Len(rl) : ky[rl[j]] \in Int
              /\ prprio[currpid] \in Int
          BY <1>1, <1>2, <4>4
        <5>2. Sorted(Insert(rl, currpid, ky, prprio[currpid]), ky1)
          BY <4>5, <5>1, InsertSorted
        <5>3. QED
          BY <4>1, <5>2
      <4>7. rl1 # <<>>
        BY <4>3 DEF Range
      <4>8. QED
        BY <1>2, <4>3, <4>4, <4>6, <4>7
    <3>2. CASE ~eligible
      <4>1. rl1 = rl /\ ky1 = ky
        BY <3>2
      <4> HIDE DEF rl1, ky1
      <4>2. NULLPROC \in Range(rl)
        BY <1>1, <3>2, PidFacts DEF Eligible
      <4>3. rl # <<>>
        BY <4>2 DEF Range
      <4>4. QED
        BY <1>1, <1>2, <4>1, <4>3
    <3>3. QED
      BY <3>1, <3>2
  <2> HIDE DEF rl1, ky1
  <2>3. /\ Range(Tail(rl1)) = Range(rl1) \ {Head(rl1)} /\ Head(rl1) \in Range(rl1)
        /\ rl1 \in Seq(Pid) /\ Range(rl1) \subseteq Pid
    BY <2>2, TailMembers, EntryFacts DEF QueueOf
  <2>4. \A j \in 1 .. Len(rl1) : ky1[rl1[j]] \in Int
    BY <2>2, <2>3, EntryFacts
  <2>5. Sorted(Tail(rl1), ky1) /\ \A p \in Range(rl1) : ky1[p] <= ky1[Head(rl1)]
    BY <2>2, <2>3, <2>4, TailSorted
  <2>6. QED
    BY <2>1, <2>2, <2>3, <2>5 DEF OrderAfter, RunsAfter
<1>6. QED
  BY <1>4, <1>5

\* resched, deferred or not: it is done or recorded.
LEMMA ReschedOrder ==
  ASSUME NEW st, NEW rl, NEW ky, NEW pre,
         currpid \in Pid, MayResched(st, rl, ky, pre), ndefers \in {0, 1},
         prprio \in [Pid -> Nat], OrderOf(rl, ky),
         Resched(st, rl, ky, pre)
  PROVE  DoneOrRecorded
<1>1. CASE ndefers = 0
  BY <1>1, DispatchOrder DEF Resched, DoneOrRecorded
<1>2. CASE ndefers = 1
  BY <1>2 DEF Resched, OrderAfter, OrderOf, DoneOrRecorded
<1>3. QED
  BY <1>1, <1>2

\* ready: the new member of the ready list is put at its place.
LEMMA ReadyOrder ==
  ASSUME Parts, Ordered,
         NEW p \in Pid, prstate[p] \notin Eligible,
         NEW ky, DOMAIN ky = Pid, \A x \in Range(readylist) : ky[x] = qkey[x],
         ReadyWith(p, ky)
  PROVE  DoneOrRecorded
<1> DEFINE st == [prstate EXCEPT ![p] = "PR_READY"]
           rl == Insert(readylist, p, ky, prprio[p])
           k1 == [ky EXCEPT ![p] = prprio[p]]
<1> USE DEF Parts
<1>1. /\ QueueOf(Pid, rl) /\ Range(rl) = Range(readylist) \cup {p}
      /\ readylist \in Seq(Pid) /\ p \notin Range(readylist)
  BY SchedFacts, InsertMembers DEF Eligible, QueueOf
<1>2. /\ st \in [Pid -> PrState]
      /\ \A x \in Pid : st[x] = IF x = p THEN "PR_READY" ELSE prstate[x]
  BY SchedFacts DEF PrState
<1>3. DOMAIN k1 = Pid /\ k1[p] = prprio[p] /\ \A x \in Pid \ {p} : k1[x] = ky[x]
  OBVIOUS
<1>4. Resched(st, rl, k1, preempt)
  BY DEF ReadyWith
<1>5. prprio \in [Pid -> Nat] /\ ndefers \in {0, 1}
  BY DEF TypeRest
<1>6. \A j \in 1 .. Len(readylist) :
         /\ readylist[j] \in Range(readylist) /\ readylist[j] \in Pid \ {p}
         /\ ky[readylist[j]] = qkey[readylist[j]]
         /\ ky[readylist[j]] = prprio[readylist[j]]
  BY <1>1, EntryFacts DEF Ordered, OrderOf
<1>7. Sorted(readylist, ky)
  BY <1>6 DEF Ordered, OrderOf, Sorted
<1>8. Sorted(rl, k1)
  <2>1. \A j \in 1 .. Len(readylist) : /\ ky[readylist[j]] \in Int
                                      /\ k1[readylist[j]] = ky[readylist[j]]
    BY <1>3, <1>5, <1>6
  <2>2. prprio[p] \in Int /\ k1[p] = prprio[p]
    BY <1>3, <1>5
  <2> HIDE DEF k1
  <2>3. QED
    BY <1>1, <1>7, <2>1, <2>2, InsertSorted
<1> HIDE DEF st, rl, k1
<1>9. OrderOf(rl, k1)
  BY <1>1, <1>3, <1>8, EntryFacts DEF OrderOf, Ordered
<1>10. MayResched(st, rl, k1, preempt)
  BY <1>1, <1>2, <1>3, SchedFacts, PidFacts DEF MayResched, Eligible
<1>11. QED
  BY <1>4, <1>5, <1>9, <1>10, SchedFacts, ReschedOrder

\* The current process blocks, or ends.
LEMMA BlockOrder ==
  ASSUME Parts, Ordered, ndefers = 0, currpid # NULLPROC,
         NEW s \in PrState \ Eligible,
         NEW ky, DOMAIN ky = Pid, \A x \in Range(readylist) : ky[x] = qkey[x],
         Block(s, ky)
  PROVE  DoneOrRecorded
<1> DEFINE st == [prstate EXCEPT ![currpid] = s]
<1> USE DEF Parts
<1>1. /\ st \in [Pid -> PrState]
      /\ \A x \in Pid : st[x] = IF x = currpid THEN s ELSE prstate[x]
  BY SchedFacts
<1>2. Resched(st, readylist, ky, preempt)
  BY DEF Block
<1> HIDE DEF st
<1>3. MayResched(st, readylist, ky, preempt)
  BY <1>1, SchedFacts, PidFacts DEF MayResched, Eligible
<1>4. OrderOf(readylist, ky)
  <2>1. \A j \in 1 .. Len(readylist) : readylist[j] \in Range(readylist)
    BY SchedFacts, EntryFacts DEF QueueOf
  <2>2. QED
    BY <2>1 DEF Ordered, OrderOf, Sorted
<1>5. QED
  BY <1>2, <1>3, <1>4, SchedFacts, ReschedOrder DEF TypeRest

\* resched called by a process that stays eligible.
LEMMA YieldOrder ==
  ASSUME Parts, Ordered, NEW pre \in 1 .. QUANTUM,
         Resched(prstate, readylist, qkey, pre)
  PROVE  DoneOrRecorded
<1> USE DEF Parts
<1>1. MayResched(prstate, readylist, qkey, pre)
  BY SchedFacts DEF MayResched
<1>2. QED
  BY <1>1, SchedFacts, ReschedOrder DEF TypeRest, Ordered

\* A step that called resched keeps the invariant, ...
LEMMA RescheduledPrio ==
  ASSUME Parts, DoneOrRecorded, prprio' = prprio, ndefers' = ndefers
  PROVE  PrioInv'
<1>1. ndefers \in {0, 1}
  BY DEF Parts, TypeRest
<1>2. Ordered'
  BY DEF DoneOrRecorded, OrderAfter, Ordered, OrderOf
<1>3. CASE ndefers = 0
  BY <1>2, <1>3 DEF DoneOrRecorded, RunsAfter, PrioInv, HeadRuns
<1>4. CASE ndefers = 1
  BY <1>2, <1>4 DEF DoneOrRecorded, PrioInv
<1>5. QED
  BY <1>1, <1>3, <1>4

\* ... one that leaves the ready list and the processor alone, ...
LEMMA QuietPrio ==
  ASSUME Parts, PrioInv, readylist' = readylist, currpid' = currpid,
         \A p \in Range(readylist) : qkey'[p] = qkey[p] /\ prprio'[p] = prprio[p],
         prprio'[currpid] = prprio[currpid],
         ndefers' = 0 \/ ~attempt' => ndefers = 0 \/ ~attempt
  PROVE  PrioInv'
<1>1. \A j \in 1 .. Len(readylist) : readylist[j] \in Range(readylist)
  BY EntryFacts, SchedFacts DEF Parts, QueueOf
<1>2. Ordered'
  BY <1>1 DEF PrioInv, Ordered, OrderOf, Sorted
<1>3. QED
  BY <1>2 DEF PrioInv, HeadRuns

LEMMA UntouchedPrio ==
  ASSUME Parts, PrioInv, UNCHANGED schedVars, prprio' = prprio, ndefers' = ndefers
  PROVE  PrioInv'
  BY QuietPrio DEF schedVars

\* ... and one that takes a process off the ready list.
LEMMA TakenOffPrio ==
  ASSUME Parts, PrioInv, NEW p \in Range(readylist), readylist' = GetItem(readylist, p),
         UNCHANGED <<qkey, currpid, attempt>>, prprio' = prprio, ndefers' = ndefers
  PROVE  PrioInv'
<1>1. QueueOf(Pid, readylist) /\ readylist \in Seq(Pid)
  BY SchedFacts DEF Parts, QueueOf
<1>2. Range(readylist') = Range(readylist) \ {p}
  BY <1>1, GetItemMembers
<1>3. Sorted(readylist', qkey)
  BY <1>1, GetItemSorted DEF PrioInv, Ordered, OrderOf
<1>4. Ordered'
  BY <1>2, <1>3 DEF PrioInv, Ordered, OrderOf
<1>5. QED
  BY <1>2, <1>4 DEF PrioInv, HeadRuns

\* The end of a deferral makes up for a recorded attempt.
LEMMA DeferStopPrio ==
  ASSUME Parts, PrioInv, ndefers = 1, DeferStop, prprio' = prprio
  PROVE  PrioInv'
<1>1. ndefers' = 0
  BY DEF DeferStop
<1>2. CASE Dispatch(prstate, readylist, qkey, preempt)
  <2>1. MayResched(prstate, readylist, qkey, preempt)
    BY SchedFacts DEF MayResched, Parts
  <2>2. OrderAfter /\ RunsAfter
    BY <1>2, <2>1, SchedFacts, DispatchOrder DEF Parts, TypeRest, PrioInv, Ordered
  <2>3. QED
    BY <2>2 DEF OrderAfter, RunsAfter, PrioInv, Ordered, OrderOf, HeadRuns
<1>3. CASE ~attempt /\ UNCHANGED schedVars
  BY <1>1, <1>3, QuietPrio DEF schedVars
<1>4. QED
  BY <1>2, <1>3 DEF DeferStop

\* The start of one records no attempt, as there is none to make.
LEMMA DeferStartPrio ==
  ASSUME Parts, PrioInv, ndefers = 0, DeferStart, readylist' = readylist,
         currpid' = currpid, \A p \in Range(readylist) : qkey'[p] = qkey[p],
         prprio' = prprio
  PROVE  PrioInv'
  BY QuietPrio

\* ready of the first process of a semaphore queue.
LEMMA ReadyFirstPrio ==
  ASSUME Parts, PrioInv, NEW s \in Sem, squeue[s] # <<>>, Ready(Head(squeue[s])),
         prprio' = prprio, ndefers' = ndefers
  PROVE  PrioInv'
<1>1. QueueOf(Pid, squeue[s])
  BY DEF Parts, TypeRest, SemsOK, SemQueuesOK, QueueOf
<1>2. Head(squeue[s]) \in Pid /\ prstate[Head(squeue[s])] = "PR_WAIT"
  BY <1>1, TailMembers, EntryFacts DEF QueueOf, Parts, SemsOK, SemQueuesOK
<1>3. DoneOrRecorded
  BY <1>2, ReadyOrder, SchedFacts DEF Ready, Parts, Eligible, PrioInv
<1>4. QED
  BY <1>3, RescheduledPrio

LEMMA ReleasePrio ==
  ASSUME Parts, PrioInv, NEW s \in Sem, cont[currpid].op \notin {"semreset"},
         Release(s), prprio' = prprio, ndefers' = ndefers
  PROVE  PrioInv'
<1>1. CASE scount[s] < 0 /\ Ready(Head(squeue[s]))
  <2>1. squeue[s] # <<>>
    <3>1. Len(squeue[s]) = -scount[s] /\ scount[s] \in Int
      BY <1>1, CountFacts
    <3>2. QED
      BY <1>1, <3>1
  <2>2. QED
    BY <1>1, <2>1, ReadyFirstPrio
<1>2. CASE UNCHANGED schedVars
  BY <1>2, UntouchedPrio
<1>3. QED
  BY <1>1, <1>2 DEF Release

\* The semaphore calls.
LEMMA SemPrio ==
  ASSUME Parts, PrioInv, SemCalls \/ SemSteps
  PROVE  PrioInv'
<1>1. ASSUME NEW s \in Sem, Wait(s)
      PROVE  PrioInv'
  <2>1. Calls("wait") /\ prprio' = prprio /\ ndefers' = ndefers
    BY <1>1 DEF Wait, SemUnchanged, tableVars
  <2>2. ndefers = 0 /\ currpid # NULLPROC
    BY <2>1, CallFacts
  <2>3. CASE UNCHANGED schedVars
    BY <2>1, <2>3, UntouchedPrio
  <2>4. CASE Block("PR_WAIT", qkey)
    <3>1. "PR_WAIT" \in PrState \ Eligible /\ DOMAIN qkey = Pid
      BY SchedFacts DEF PrState, Eligible, Parts
    <3>2. DoneOrRecorded
      BY <2>2, <2>4, <3>1, BlockOrder DEF PrioInv
    <3>3. QED
      BY <2>1, <3>2, RescheduledPrio
  <2>5. QED
    BY <1>1, <2>3, <2>4 DEF Wait
<1>2. ASSUME NEW s \in Sem, Signal(s)
      PROVE  PrioInv'
  <2>1. Calls("signal") /\ Release(s) /\ prprio' = prprio /\ ndefers' = ndefers
    BY <1>2 DEF Signal, SemUnchanged, tableVars
  <2>2. cont[currpid].op \notin {"semreset"}
    BY <2>1, CallFacts DEF Deferred
  <2>3. QED
    BY <2>1, <2>2, ReleasePrio
<1>3. ASSUME NEW s \in Sem, NEW count \in Counts, Signaln(s, count) \/ SemReset(s, count)
      PROVE  PrioInv'
  <2>1. /\ Calls("signaln") \/ Calls("semreset")
        /\ DeferStart /\ readylist' = readylist /\ currpid' = currpid /\ qkey' = qkey
        /\ prprio' = prprio
    BY <1>3 DEF Signaln, SemReset, SemUnchanged, tableVars
  <2>2. ndefers = 0
    BY <2>1, CallFacts
  <2>3. QED
    BY <2>1, <2>2, DeferStartPrio
<1>4. ASSUME NEW s \in Sem, SemDelete(s)
      PROVE  PrioInv'
  <2>1. /\ Calls("semdelete")
        /\ DeferStart /\ readylist' = readylist /\ currpid' = currpid /\ qkey' = qkey
        /\ prprio' = prprio
    BY <1>4 DEF SemDelete, SemUnchanged, tableVars
  <2>2. ndefers = 0
    BY <2>1, CallFacts
  <2>3. QED
    BY <2>1, <2>2, DeferStartPrio
<1>5. ASSUME NEW count \in Counts, SemCreate(count)
      PROVE  PrioInv'
  BY <1>5, UntouchedPrio DEF SemCreate, tableVars
<1>6. ASSUME SignalnStep \/ SemDeleteStep
      PROVE  PrioInv'
  <2>1. /\ Resumes("signaln") \/ Resumes("semdelete")
        /\ Release(cont[currpid].arg) /\ prprio' = prprio /\ ndefers' = ndefers
    BY <1>6 DEF SignalnStep, SemDeleteStep, SemUnchanged, tableVars
  <2>2. cont[currpid].arg \in Sem /\ cont[currpid].op \in {"signaln", "semdelete"}
    BY <2>1, LoopFacts
  <2>3. QED
    BY <2>1, <2>2, ReleasePrio
<1>7. CASE SemResetStep
  <2>1. /\ Resumes("semreset") /\ squeue[cont[currpid].arg] # <<>>
        /\ Ready(Head(squeue[cont[currpid].arg])) /\ prprio' = prprio /\ ndefers' = ndefers
    BY <1>7 DEF SemResetStep, SemUnchanged, tableVars
  <2>2. cont[currpid].arg \in Sem
    BY <2>1, LoopFacts
  <2>3. QED
    BY <2>1, <2>2, ReadyFirstPrio
<1>8. ASSUME SignalnDone \/ SemDeleteDone \/ SemResetDone
      PROVE  PrioInv'
  <2>1. /\ Resumes("signaln") \/ Resumes("semdelete") \/ Resumes("semreset")
        /\ DeferStop /\ prprio' = prprio
    BY <1>8 DEF SignalnDone, SemDeleteDone, SemResetDone, Finish, SemUnchanged, tableVars
  <2>2. ndefers = 1
    BY <2>1, LoopFacts
  <2>3. QED
    BY <2>1, <2>2, DeferStopPrio
<1>9. QED
  BY <1>1, <1>2, <1>3, <1>4, <1>5, <1>6, <1>7, <1>8 DEF SemCalls, SemSteps

\* The keys of the ready processes are not touched by the delta list.
LEMMA InsertdKept ==
  ASSUME Parts, prstate[currpid] = "PR_CURR", NEW delay
  PROVE  /\ DOMAIN InsertdKeys(sleepq, currpid, qkey, delay) = Pid
         /\ \A x \in Range(readylist) : InsertdKeys(sleepq, currpid, qkey, delay)[x] = qkey[x]
<1> DEFINE i == InsertdPos(sleepq, qkey, delay)
<1>1. DOMAIN qkey = Pid /\ sleepq \in Seq(Pid) /\ currpid \in Pid
  BY SchedFacts DEF Parts, TypeRest
<1>2. i \in 1 .. Len(sleepq) + 1 /\ Len(sleepq) \in Nat
  BY <1>1, InsertdPosRange
<1>3. ASSUME NEW x \in Range(readylist)
      PROVE  x \in Pid /\ x # currpid /\ (i <= Len(sleepq) => x # sleepq[i])
  <2>1. x \in Pid /\ prstate[x] = "PR_READY"
    BY <1>3, SchedFacts, EntryFacts DEF Parts, QueueOf
  <2>2. CASE i <= Len(sleepq)
    <3>1. sleepq[i] \in Range(sleepq) /\ sleepq[i] \in Pid
      BY <1>1, <1>2, <2>2, EntryFacts
    <3>2. prstate[sleepq[i]] # "PR_READY"
      BY <3>1 DEF Parts, SleepQueueOK
    <3>3. QED
      BY <2>1, <3>2
  <2>3. QED
    BY <2>1, <2>2
<1> HIDE DEF i
<1>4. QED
  BY <1>1, <1>3 DEF InsertdKeys, i

LEMMA UnsleepKept ==
  ASSUME Parts, NEW p \in Range(sleepq)
  PROVE  /\ DOMAIN UnsleepKeys(sleepq, p, qkey) = Pid
         /\ \A x \in Range(readylist) : UnsleepKeys(sleepq, p, qkey)[x] = qkey[x]
<1> DEFINE i == PosOf(sleepq, p)
<1>1. DOMAIN qkey = Pid /\ sleepq \in Seq(Pid) /\ Len(sleepq) \in Nat
  BY SchedFacts, LenProperties DEF Parts, TypeRest
<1>2. i \in 1 .. Len(sleepq)
  BY <1>1, MembersAt DEF PosOf
<1>3. ASSUME NEW x \in Range(readylist), i < Len(sleepq)
      PROVE  x \in Pid /\ x # sleepq[i + 1]
  <2>1. x \in Pid /\ prstate[x] = "PR_READY"
    BY <1>3, SchedFacts, EntryFacts DEF Parts, QueueOf
  <2>2. i + 1 \in 1 .. Len(sleepq)
    BY <1>1, <1>2, <1>3
  <2>3. sleepq[i + 1] \in Range(sleepq) /\ sleepq[i + 1] \in Pid
    BY <1>1, <2>2, EntryFacts
  <2>4. prstate[sleepq[i + 1]] # "PR_READY"
    BY <2>3 DEF Parts, SleepQueueOK
  <2>5. QED
    BY <2>1, <2>4
<1> HIDE DEF i
<1>4. QED
  BY <1>1, <1>3 DEF UnsleepKeys, i

\* A process that gives the processor away in a call of its own.
LEMMA CallBlocksPrio ==
  ASSUME Parts, PrioInv, NEW op, Calls(op), NEW s \in PrState \ Eligible,
         NEW ky, DOMAIN ky = Pid, \A x \in Range(readylist) : ky[x] = qkey[x],
         Block(s, ky), prprio' = prprio, ndefers' = ndefers
  PROVE  PrioInv'
<1>1. ndefers = 0 /\ currpid # NULLPROC
  BY CallFacts
<1>2. DoneOrRecorded
  BY <1>1, BlockOrder DEF PrioInv
<1>3. QED
  BY <1>2, RescheduledPrio

\* Sleeping and the clock interrupt.
LEMMA ClockPrio ==
  ASSUME Parts, PrioInv, SleepCalls \/ ClkHandler \/ WakeupStep \/ WakeupDone \/ ClkTail
  PROVE  PrioInv'
<1>1. ASSUME NEW delay \in Delays, Sleepms(delay)
      PROVE  PrioInv'
  <2>1. /\ Calls("sleepms") /\ Block("PR_SLEEP", InsertdKeys(sleepq, currpid, qkey, delay))
        /\ prprio' = prprio /\ ndefers' = ndefers
    BY <1>1 DEF Sleepms, tableVars
  <2>2. "PR_SLEEP" \in PrState \ Eligible
    BY DEF PrState, Eligible
  <2>3. prstate[currpid] = "PR_CURR"
    BY <2>1, CallFacts
  <2>4. QED
    BY <2>1, <2>2, <2>3, InsertdKept, CallBlocksPrio
<1>2. CASE ClkHandler
  <2>1. /\ cont[currpid] = Run
        /\ qkey' = IF sleepq = <<>> THEN qkey ELSE [qkey EXCEPT ![Head(sleepq)] = @ - 1]
        /\ DeferStart \/ UNCHANGED <<ndefers, attempt>>
        /\ readylist' = readylist /\ currpid' = currpid /\ prprio' = prprio
    BY <1>2 DEF ClkHandler, tableVars
  <2>2. ndefers = 0
    BY <2>1, RunIsCont DEF Parts, DeferralEnds, Deferred
  <2>3. ASSUME NEW x \in Range(readylist)
        PROVE  qkey'[x] = qkey[x]
    <3>1. x \in Pid /\ prstate[x] = "PR_READY" /\ DOMAIN qkey = Pid
      BY <2>3, SchedFacts, EntryFacts DEF Parts, QueueOf
    <3>2. CASE sleepq # <<>>
      <4>1. Head(sleepq) \in Range(sleepq) /\ Head(sleepq) \in Pid
        BY <3>2, TailMembers, EntryFacts DEF Parts, TypeRest, SleepQueueOK, QueueOf
      <4>2. x # Head(sleepq)
        BY <3>1, <4>1 DEF Parts, SleepQueueOK
      <4>3. QED
        BY <2>1, <3>1, <4>2
    <3>3. QED
      BY <2>1, <3>2
  <2>4. CASE DeferStart
    BY <2>1, <2>2, <2>3, <2>4, DeferStartPrio
  <2>5. CASE UNCHANGED <<ndefers, attempt>>
    BY <2>1, <2>3, <2>5, QuietPrio
  <2>6. QED
    BY <2>1, <2>4, <2>5
<1>3. CASE WakeupStep
  <2>1. /\ sleepq # <<>> /\ ReadyWith(Head(sleepq), qkey)
        /\ prprio' = prprio /\ ndefers' = ndefers
    BY <1>3 DEF WakeupStep, FirstIsDue, Ready, tableVars
  <2>2. Head(sleepq) \in Pid /\ prstate[Head(sleepq)] \notin Eligible
    <3>1. Head(sleepq) \in Range(sleepq) /\ Head(sleepq) \in Pid
      BY <2>1, TailMembers, EntryFacts DEF Parts, TypeRest, SleepQueueOK, QueueOf
    <3>2. QED
      BY <3>1 DEF Parts, SleepQueueOK, Eligible
  <2>3. DoneOrRecorded
    BY <2>1, <2>2, ReadyOrder, SchedFacts DEF Parts, PrioInv
  <2>4. QED
    BY <2>1, <2>3, RescheduledPrio
<1>4. CASE WakeupDone
  <2>1. Resumes("wakeup") /\ DeferStop /\ prprio' = prprio
    BY <1>4 DEF WakeupDone, tableVars
  <2>2. ndefers = 1
    BY <2>1, DeferredFacts DEF Deferred
  <2>3. QED
    BY <2>1, <2>2, DeferStopPrio
<1>5. CASE ClkTail
  <2>1. prprio' = prprio /\ ndefers' = ndefers
    BY <1>5 DEF ClkTail, tableVars
  <2>2. CASE Resched(prstate, readylist, qkey, QUANTUM)
    <3>1. QUANTUM \in 1 .. QUANTUM
      BY TableAssumption
    <3>2. DoneOrRecorded
      BY <2>2, <3>1, YieldOrder DEF PrioInv
    <3>3. QED
      BY <2>1, <3>2, RescheduledPrio
  <2>3. CASE UNCHANGED <<prstate, readylist, qkey, currpid, attempt>>
    BY <2>1, <2>3, QuietPrio
  <2>4. QED
    BY <1>5, <2>2, <2>3 DEF ClkTail
<1>6. QED
  BY <1>1, <1>2, <1>3, <1>4, <1>5 DEF SleepCalls

\* send, which kill calls too.
LEMMA DeliverPrio ==
  ASSUME Parts, PrioInv, NEW p \in Pid, NEW msg, Deliver(p, msg),
         prprio' = prprio, ndefers' = ndefers
  PROVE  PrioInv'
<1>1. CASE prstate[p] = "PR_RECV" /\ ReadyWith(p, qkey)
  <2>1. prstate[p] \notin Eligible /\ DOMAIN qkey = Pid
    BY <1>1, SchedFacts DEF Eligible, Parts
  <2>2. DoneOrRecorded
    BY <1>1, <2>1, ReadyOrder DEF PrioInv
  <2>3. QED
    BY <2>2, RescheduledPrio
<1>2. CASE prstate[p] = "PR_RECTIM" /\ ReadyWith(p, UnsleepKeys(sleepq, p, qkey))
  <2>1. prstate[p] \notin Eligible /\ p \in Range(sleepq)
    BY <1>2 DEF Eligible, Parts, SleepQueueOK
  <2>2. DoneOrRecorded
    BY <1>2, <2>1, UnsleepKept, ReadyOrder DEF PrioInv
  <2>3. QED
    BY <2>2, RescheduledPrio
<1>3. CASE UNCHANGED schedVars
  BY <1>3, UntouchedPrio
<1>4. QED
  BY <1>1, <1>2, <1>3 DEF Deliver, Ready

\* The message calls.
LEMMA MsgPrio ==
  ASSUME Parts, PrioInv, MsgCalls \/ MsgSteps
  PROVE  PrioInv'
<1>1. ASSUME NEW p \in Pid, NEW msg \in Msgs, Send(p, msg)
      PROVE  PrioInv'
  BY <1>1, DeliverPrio DEF Send, tableVars
<1>2. CASE ReceiveNow \/ MsgSteps
  BY <1>2, UntouchedPrio DEF ReceiveNow, MsgSteps, ReceiveDone, RecvtimeDone, MsgUnchanged,
     tableVars
<1>3. CASE ReceiveBlock
  <2>1. /\ Calls("receive") /\ Block("PR_RECV", qkey)
        /\ prprio' = prprio /\ ndefers' = ndefers
    BY <1>3 DEF ReceiveBlock, MsgUnchanged, tableVars
  <2>2. "PR_RECV" \in PrState \ Eligible /\ DOMAIN qkey = Pid
    BY SchedFacts DEF PrState, Eligible, Parts
  <2>3. QED
    BY <2>1, <2>2, CallBlocksPrio
<1>4. ASSUME NEW maxwait \in Delays, RecvtimeBlock(maxwait)
      PROVE  PrioInv'
  <2>1. /\ Calls("recvtime")
        /\ Block("PR_RECTIM", InsertdKeys(sleepq, currpid, qkey, maxwait))
        /\ prprio' = prprio /\ ndefers' = ndefers
    BY <1>4 DEF RecvtimeBlock, MsgUnchanged, tableVars
  <2>2. "PR_RECTIM" \in PrState \ Eligible
    BY DEF PrState, Eligible
  <2>3. prstate[currpid] = "PR_CURR"
    BY <2>1, CallFacts
  <2>4. QED
    BY <2>1, <2>2, <2>3, InsertdKept, CallBlocksPrio
<1>5. QED
  BY <1>1, <1>2, <1>3, <1>4 DEF MsgCalls

\* Creating, resuming, suspending and ending processes.
LEMMA ProcPrio ==
  ASSUME Parts, PrioInv, "chprio" \notin Ops, ProcCalls \/ KillDone
  PROVE  PrioInv'
<1>1. ASSUME NEW prio \in Prios, Create(prio)
      PROVE  PrioInv'
  <2>1. /\ readylist' = readylist /\ currpid' = currpid /\ qkey' = qkey
        /\ ndefers' = ndefers /\ attempt' = attempt /\ FreePids # {}
        /\ prprio' = prprio \/ prprio' = [prprio EXCEPT ![NewPid] = prio]
    BY <1>1 DEF Create
  <2>2. NewPid \in FreePids
    BY <2>1, FirstFreeIsFree, PidFacts DEF NewPid, FreePids
  <2>3. prstate[NewPid] = "PR_FREE"
    BY <2>2 DEF FreePids, Live
  <2>4. \A x \in Range(readylist) : x \in Pid /\ x # NewPid
    BY <2>3, SchedFacts, EntryFacts DEF Parts, QueueOf
  <2>5. currpid # NewPid /\ currpid \in Pid
    BY <2>3, SchedFacts DEF Parts
  <2>6. prprio \in [Pid -> Nat]
    BY TableTypes
  <2>7. QED
    BY <2>1, <2>4, <2>5, <2>6, QuietPrio
<1>2. ASSUME NEW p \in Pid, Resume(p)
      PROVE  PrioInv'
  <2>1. /\ prstate[p] = "PR_SUSP" /\ ReadyWith(p, qkey)
        /\ prprio' = prprio /\ ndefers' = ndefers
    BY <1>2 DEF Resume, Ready, tableVars, ProcUnchanged
  <2>2. prstate[p] \notin Eligible /\ DOMAIN qkey = Pid
    BY <2>1, SchedFacts DEF Eligible, Parts
  <2>3. DoneOrRecorded
    BY <2>1, <2>2, ReadyOrder DEF PrioInv
  <2>4. QED
    BY <2>1, <2>3, RescheduledPrio
<1>3. ASSUME NEW p \in Pid, Suspend(p)
      PROVE  PrioInv'
  <2>1. Calls("suspend") /\ prprio' = prprio /\ ndefers' = ndefers
    BY <1>3 DEF Suspend, tableVars, ProcUnchanged
  <2>2. CASE prstate[p] = "PR_READY" /\ readylist' = GetItem(readylist, p)
             /\ UNCHANGED <<qkey, currpid, preempt, attempt>>
    <3>1. p \in Range(readylist)
      BY <2>2, SchedFacts DEF Parts
    <3>2. QED
      BY <2>1, <2>2, <3>1, TakenOffPrio
  <2>3. CASE Block("PR_SUSP", qkey)
    <3>1. "PR_SUSP" \in PrState \ Eligible /\ DOMAIN qkey = Pid
      BY SchedFacts DEF PrState, Eligible, Parts
    <3>2. QED
      BY <2>1, <2>3, <3>1, CallBlocksPrio
  <2>4. QED
    BY <1>3, <2>2, <2>3 DEF Suspend
<1>4. CASE Yield
  <2>1. /\ Resched(prstate, readylist, qkey, preempt)
        /\ prprio' = prprio /\ ndefers' = ndefers
    BY <1>4 DEF Yield, tableVars, ProcUnchanged
  <2>2. DoneOrRecorded
    BY <2>1, YieldOrder, SchedFacts DEF PrioInv, Parts
  <2>3. QED
    BY <2>1, <2>2, RescheduledPrio
<1>5. ASSUME NEW p \in Pid, NEW newprio \in Prios, Chprio(p, newprio)
      PROVE  FALSE
  BY <1>5 DEF Chprio, Calls
<1>6. ASSUME NEW victim \in Pid, Kill(victim)
      PROVE  PrioInv'
  <2>1. /\ prprio' = prprio /\ ndefers' = ndefers
        /\ UNCHANGED schedVars \/ Deliver(prparent[victim], victim)
    BY <1>6 DEF Kill
  <2>2. prparent[victim] \in Pid
    BY DEF Parts, TypeRest
  <2>3. QED
    BY <2>1, <2>2, DeliverPrio, UntouchedPrio
<1>7. CASE KillDone
  <2> DEFINE victim == cont[currpid].arg
  <2>1. /\ Resumes("kill") /\ Withdraw(victim)
        /\ prprio' = prprio /\ ndefers' = ndefers
    BY <1>7 DEF KillDone
  <2>2. ndefers = 0 /\ currpid \in Pid /\ victim \in Pid \ {NULLPROC}
        /\ prstate[currpid] = "PR_CURR"
    BY <2>1, ResumeFacts DEF Deferred, Parts, ContOK
  <2> HIDE DEF victim
  <2>3. CASE prstate[victim] = "PR_CURR" /\ Block("PR_FREE", qkey)
    <3>1. victim = currpid
      BY <2>2, <2>3, SchedFacts DEF Parts
    <3>2. "PR_FREE" \in PrState \ Eligible /\ DOMAIN qkey = Pid
      BY SchedFacts DEF PrState, Eligible, Parts
    <3>3. DoneOrRecorded
      BY <2>2, <2>3, <3>1, <3>2, BlockOrder DEF PrioInv
    <3>4. QED
      BY <2>1, <3>3, RescheduledPrio
  <2>4. CASE /\ prstate[victim] \in {"PR_SLEEP", "PR_RECTIM"}
             /\ qkey' = UnsleepKeys(sleepq, victim, qkey)
             /\ UNCHANGED <<readylist, currpid, attempt>>
    <3>1. victim \in Range(sleepq)
      BY <2>2, <2>4 DEF Parts, SleepQueueOK
    <3>2. \A x \in Range(readylist) : qkey'[x] = qkey[x]
      BY <2>4, <3>1, UnsleepKept
    <3>3. QED
      BY <2>1, <2>4, <3>2, QuietPrio
  <2>5. CASE /\ prstate[victim] = "PR_READY" /\ readylist' = GetItem(readylist, victim)
             /\ UNCHANGED <<qkey, currpid, attempt>>
    <3>1. victim \in Range(readylist)
      BY <2>2, <2>5, SchedFacts DEF Parts
    <3>2. QED
      BY <2>1, <2>5, <3>1, TakenOffPrio
  <2>6. CASE UNCHANGED <<readylist, qkey, currpid, attempt>>
    BY <2>1, <2>6, QuietPrio
  <2>7. QED
    BY <2>1, <2>3, <2>4, <2>5, <2>6 DEF Withdraw, WithdrawLeaving
<1>8. QED
  BY <1>1, <1>2, <1>3, <1>4, <1>5, <1>6, <1>7 DEF ProcCalls

LEMMA PrioNext ==
  ASSUME Parts, PrioInv, "chprio" \notin Ops, [Next]_vars
  PROVE  PrioInv'
<1>1. CASE UNCHANGED vars
  BY <1>1, UntouchedPrio DEF vars, tableVars
<1>2. CASE Calling
  BY <1>2, SemPrio, ClockPrio, MsgPrio, ProcPrio DEF Calling
<1>3. CASE KernelSteps \/ ClkHandler
  BY <1>3, SemPrio, ClockPrio, MsgPrio, ProcPrio DEF KernelSteps
<1>4. CASE Halted
  BY <1>1, <1>4 DEF Halted
<1>5. QED
  BY <1>1, <1>2, <1>3, <1>4 DEF Next

LEMMA PrioInit ==
  ASSUME Init
  PROVE  PrioInv
<1>1. /\ readylist = <<NULLPROC>> /\ qkey = [p \in Pid |-> 0] /\ ndefers = 0 /\ currpid = 1
      /\ prprio = [p \in Pid |-> IF p \in Started THEN StartPrio[p] ELSE 0]
  BY DEF Init
<1>2. Started = 1 .. Len(StartPrio) /\ 1 \in Started /\ StartPrio[1] \in Nat
  BY TableAssumption, LenProperties, ElementOfSeq DEF Started
<1>3. prprio[NULLPROC] = 0 /\ prprio[currpid] \in Nat /\ qkey[NULLPROC] = 0
  BY <1>1, <1>2, PidFacts DEF NULLPROC
<1>4. Len(readylist) = 1 /\ Range(readylist) = {NULLPROC}
  BY <1>1 DEF Range
<1>5. QED
  BY <1>1, <1>3, <1>4 DEF PrioInv, Ordered, OrderOf, Sorted, HeadRuns

\* "Reschedule processor to highest priority eligible process" (resched.c:8), for
\* any number of processes and whatever made one ready, if no call of chprio leaves
\* the ready list with old keys: outside a deferral no ready process has a higher
\* priority than the one that runs.
THEOREM TheHighestPriorityRuns ==
  ASSUME "chprio" \notin Ops
  PROVE  Spec => []HighestPriorityRuns
<1>1. Init => PrioInv
  BY PrioInit
<1>2. IInv /\ PrioInv /\ [Next]_vars => PrioInv'
  BY IInvParts, PrioNext
<1>3. IInv /\ PrioInv => HighestPriorityRuns
  BY IInvParts, SchedFacts DEF Parts, PrioInv, HeadRuns, HighestPriorityRuns
<1>4. QED
  BY <1>1, <1>2, <1>3, Invariant, PTL DEF Spec

-----------------------------------------------------------------------------
(* Who lives.                                                              *)

FreeKept == \A x \in Pid : prstate'[x] = "PR_FREE" <=> prstate[x] = "PR_FREE"

\* The step begins and ends no process, and nothing of a kill.
KillKept ==
    \A x \in Pid : cont'[x] = cont[x] \/ (cont[x].op # "kill" /\ cont'[x].op # "kill")

LifeKept ==
    FreeKept /\ KillKept /\ UNCHANGED <<prcount, prstkbase, freestks, halted>>

LEMMA KeptIsFreeKept ==
  ASSUME \A x \in Pid : Keeps(x)
  PROVE  FreeKept
  BY DEF Keeps, FreeKept, Eligible

LEMMA ReadyFree ==
  ASSUME Parts, NEW p \in Pid, prstate[p] \notin Eligible \cup {"PR_FREE"},
         NEW ky, DOMAIN ky = Pid, ReadyWith(p, ky)
  PROVE  FreeKept
<1>1. prstate'[p] \in Eligible /\ \A x \in Pid \ {p} : Keeps(x)
  BY ReadyOK DEF Parts, TypeRest
<1>2. QED
  BY <1>1 DEF Keeps, FreeKept, Eligible

LEMMA BlockFree ==
  ASSUME Parts, NEW op, Calls(op), NEW s \in PrState \ Eligible, s # "PR_FREE",
         NEW ky, DOMAIN ky = Pid, Block(s, ky)
  PROVE  FreeKept
<1>1. ndefers = 0 /\ currpid \in Pid /\ currpid # NULLPROC /\ prstate[currpid] = "PR_CURR"
  BY CallFacts
<1>2. prstate'[currpid] = s /\ \A x \in Pid \ {currpid} : Keeps(x)
  BY <1>1, BlockOK DEF Parts
<1>3. QED
  BY <1>1, <1>2 DEF Keeps, FreeKept, Eligible

\* What is left of the calls other than kill is not a kill.
LEMMA ContinueKept ==
  ASSUME Parts, NEW c, ContinueWith(c), c.op # "kill", cont[currpid].op # "kill"
  PROVE  KillKept
<1>1. cont' = [cont EXCEPT ![currpid] = c] /\ cont \in [Pid -> Cont]
  BY DEF ContinueWith, Parts, TypeRest
<1>2. QED
  BY <1>1 DEF KillKept

LEMMA ReadyFirstFree ==
  ASSUME Parts, NEW s \in Sem, squeue[s] # <<>>, Ready(Head(squeue[s]))
  PROVE  FreeKept
<1>1. QueueOf(Pid, squeue[s])
  BY DEF Parts, TypeRest, SemsOK, SemQueuesOK, QueueOf
<1>2. Head(squeue[s]) \in Pid /\ prstate[Head(squeue[s])] = "PR_WAIT"
  BY <1>1, TailMembers, EntryFacts DEF QueueOf, Parts, SemsOK, SemQueuesOK
<1>3. QED
  BY <1>2, ReadyFree, SchedFacts DEF Ready, Parts, Eligible

LEMMA ReleaseFree ==
  ASSUME Parts, NEW s \in Sem, cont[currpid].op \notin {"semreset"}, Release(s)
  PROVE  FreeKept
<1>1. CASE scount[s] < 0 /\ Ready(Head(squeue[s]))
  <2>1. Len(squeue[s]) = -scount[s] /\ scount[s] \in Int
    BY <1>1, CountFacts
  <2>2. squeue[s] # <<>>
    BY <1>1, <2>1
  <2>3. QED
    BY <1>1, <2>2, ReadyFirstFree
<1>2. CASE UNCHANGED schedVars
  BY <1>2 DEF schedVars, FreeKept
<1>3. QED
  BY <1>1, <1>2 DEF Release

\* The semaphore calls begin and end nobody.
LEMMA SemLife ==
  ASSUME Parts, SemCalls \/ SemSteps
  PROVE  LifeKept
<1>1. ASSUME NEW s \in Sem, Wait(s)
      PROVE  LifeKept
  <2>1. /\ Calls("wait") /\ cont' = cont
        /\ UNCHANGED <<prcount, prstkbase, freestks, halted>>
    BY <1>1 DEF Wait, SemUnchanged, tableVars
  <2>2. CASE UNCHANGED schedVars
    BY <2>1, <2>2 DEF schedVars, LifeKept, FreeKept, KillKept
  <2>3. CASE Block("PR_WAIT", qkey)
    <3>1. "PR_WAIT" \in PrState \ Eligible /\ DOMAIN qkey = Pid
      BY SchedFacts DEF PrState, Eligible, Parts
    <3>2. FreeKept
      BY <2>1, <2>3, <3>1, BlockFree
    <3>3. QED
      BY <2>1, <3>2 DEF LifeKept, KillKept
  <2>4. QED
    BY <1>1, <2>2, <2>3 DEF Wait
<1>2. ASSUME NEW s \in Sem, Signal(s)
      PROVE  LifeKept
  <2>1. /\ Calls("signal") /\ Release(s) /\ cont' = cont
        /\ UNCHANGED <<prcount, prstkbase, freestks, halted>>
    BY <1>2 DEF Signal, SemUnchanged, tableVars
  <2>2. cont[currpid].op \notin {"semreset"}
    BY <2>1, CallFacts DEF Deferred
  <2>3. QED
    BY <2>1, <2>2, ReleaseFree DEF LifeKept, KillKept
<1>3. ASSUME NEW s \in Sem, NEW op \in {"signaln", "semdelete", "semreset"}, NEW n,
             Calls(op), ContinueWith([op |-> op, arg |-> s, n |-> n]), prstate' = prstate,
             SemUnchanged
      PROVE  LifeKept
  <2>1. cont[currpid].op # "kill"
    BY <1>3, CallFacts, RunIsCont
  <2>2. [op |-> op, arg |-> s, n |-> n].op # "kill"
    BY <1>3
  <2>3. KillKept
    BY <1>3, <2>1, <2>2, ContinueKept
  <2>4. QED
    BY <1>3, <2>3 DEF LifeKept, FreeKept, SemUnchanged, tableVars
<1>4. ASSUME NEW s \in Sem, NEW count \in Counts, Signaln(s, count) \/ SemReset(s, count)
      PROVE  LifeKept
  BY <1>3, <1>4 DEF Signaln, SemReset
<1>5. ASSUME NEW s \in Sem, SemDelete(s)
      PROVE  LifeKept
  BY <1>3, <1>5 DEF SemDelete
<1>6. ASSUME NEW count \in Counts, SemCreate(count)
      PROVE  LifeKept
  BY <1>6 DEF SemCreate, LifeKept, FreeKept, KillKept, schedVars, tableVars
<1>7. CASE SignalnStep
  <2> DEFINE c == cont[currpid]
             d == [c EXCEPT !.n = @ - 1]
  <2>1. /\ Resumes("signaln") /\ Release(c.arg) /\ ContinueWith(d) /\ SemUnchanged
    BY <1>7 DEF SignalnStep
  <2>2. c.arg \in Sem /\ c.op = "signaln" /\ c \in Cont
    BY <2>1, LoopFacts
  <2>3. d.op = c.op
    BY <2>2 DEF Cont
  <2> HIDE DEF d
  <2>4. KillKept
    BY <2>1, <2>2, <2>3, ContinueKept
  <2>5. FreeKept
    BY <2>1, <2>2, ReleaseFree
  <2>6. QED
    BY <2>1, <2>4, <2>5 DEF LifeKept, SemUnchanged, tableVars
<1>8. CASE SemDeleteStep
  <2>1. /\ Resumes("semdelete") /\ Release(cont[currpid].arg) /\ cont' = cont /\ SemUnchanged
    BY <1>8 DEF SemDeleteStep
  <2>2. cont[currpid].arg \in Sem /\ cont[currpid].op = "semdelete"
    BY <2>1, LoopFacts
  <2>3. FreeKept
    BY <2>1, <2>2, ReleaseFree
  <2>4. QED
    BY <2>1, <2>3 DEF LifeKept, KillKept, SemUnchanged, tableVars
<1>9. CASE SemResetStep
  <2>1. /\ Resumes("semreset") /\ squeue[cont[currpid].arg] # <<>>
        /\ Ready(Head(squeue[cont[currpid].arg])) /\ cont' = cont /\ SemUnchanged
    BY <1>9 DEF SemResetStep
  <2>2. cont[currpid].arg \in Sem
    BY <2>1, LoopFacts
  <2>3. FreeKept
    BY <2>1, <2>2, ReadyFirstFree
  <2>4. QED
    BY <2>1, <2>3 DEF LifeKept, KillKept, SemUnchanged, tableVars
<1>10. CASE SignalnDone \/ SemDeleteDone \/ SemResetDone
  <2>1. /\ Resumes("signaln") \/ Resumes("semdelete") \/ Resumes("semreset")
        /\ ContinueWith(Run) /\ DeferStop /\ SemUnchanged
    BY <1>10 DEF SignalnDone, SemDeleteDone, SemResetDone, Finish
  <2>2. ndefers = 1 /\ cont[currpid].op # "kill"
    BY <2>1, LoopFacts
  <2>3. FreeKept
    BY <2>1, <2>2, DeferStopOK, KeptIsFreeKept DEF Parts
  <2>4. KillKept
    BY <2>1, <2>2, RunIsCont, ContinueKept
  <2>5. QED
    BY <2>1, <2>3, <2>4 DEF LifeKept, SemUnchanged, tableVars
<1>11. QED
  BY <1>1, <1>2, <1>4, <1>5, <1>6, <1>7, <1>8, <1>9, <1>10 DEF SemCalls, SemSteps

\* Nor do sleeping and the clock, ...
LEMMA ClockLife ==
  ASSUME Parts, SleepCalls \/ ClkHandler \/ WakeupStep \/ WakeupDone \/ ClkTail
  PROVE  LifeKept
<1>1. ASSUME NEW delay \in Delays, Sleepms(delay)
      PROVE  LifeKept
  <2>1. /\ Calls("sleepms") /\ Block("PR_SLEEP", InsertdKeys(sleepq, currpid, qkey, delay))
        /\ cont' = cont /\ UNCHANGED <<prcount, prstkbase, freestks, halted>>
    BY <1>1 DEF Sleepms, tableVars
  <2>2. "PR_SLEEP" \in PrState \ Eligible
    BY DEF PrState, Eligible
  <2>3. prstate[currpid] = "PR_CURR"
    BY <2>1, CallFacts
  <2>4. FreeKept
    BY <2>1, <2>2, <2>3, InsertdKept, BlockFree
  <2>5. QED
    BY <2>1, <2>4 DEF LifeKept, KillKept
<1>2. CASE ClkHandler
  <2>1. /\ cont[currpid] = Run
        /\ ContinueWith(Wakeup1) \/ ContinueWith(Tail1)
        /\ prstate' = prstate /\ UNCHANGED <<prcount, prstkbase, freestks, halted>>
    BY <1>2 DEF ClkHandler, tableVars
  <2>2. KillKept
    BY <2>1, RunIsCont, ContinueKept DEF Wakeup1, Tail1
  <2>3. QED
    BY <2>1, <2>2 DEF LifeKept, FreeKept
<1>3. CASE WakeupStep
  <2>1. /\ sleepq # <<>> /\ ReadyWith(Head(sleepq), qkey)
        /\ cont' = cont /\ UNCHANGED <<prcount, prstkbase, freestks, halted>>
    BY <1>3 DEF WakeupStep, FirstIsDue, Ready, tableVars
  <2>2. Head(sleepq) \in Range(sleepq) /\ Head(sleepq) \in Pid
    BY <2>1, TailMembers, EntryFacts DEF Parts, TypeRest, SleepQueueOK, QueueOf
  <2>3. prstate[Head(sleepq)] \notin Eligible \cup {"PR_FREE"}
    BY <2>2 DEF Parts, SleepQueueOK, Eligible
  <2>4. FreeKept
    BY <2>1, <2>2, <2>3, ReadyFree, SchedFacts DEF Parts
  <2>5. QED
    BY <2>1, <2>4 DEF LifeKept, KillKept
<1>4. CASE WakeupDone
  <2>1. /\ Resumes("wakeup") /\ DeferStop /\ ContinueWith(Tail1)
        /\ UNCHANGED <<prcount, prstkbase, freestks, halted>>
    BY <1>4 DEF WakeupDone, tableVars
  <2>2. ndefers = 1 /\ cont[currpid].op = "wakeup"
    BY <2>1, DeferredFacts DEF Deferred
  <2>3. FreeKept
    BY <2>1, <2>2, DeferStopOK, KeptIsFreeKept DEF Parts
  <2>4. KillKept
    BY <2>1, <2>2, ContinueKept DEF Tail1
  <2>5. QED
    BY <2>1, <2>3, <2>4 DEF LifeKept
<1>5. CASE ClkTail
  <2>1. /\ cont[currpid].op = "clktail" /\ ContinueWith(Run)
        /\ UNCHANGED <<prcount, prstkbase, freestks, halted>>
        /\ prstate' = prstate \/ Resched(prstate, readylist, qkey, QUANTUM)
    BY <1>5 DEF ClkTail, Resumes, tableVars
  <2>2. FreeKept
    <3>1. QUANTUM \in 1 .. QUANTUM
      BY TableAssumption
    <3>2. CASE Resched(prstate, readylist, qkey, QUANTUM)
      BY <3>1, <3>2, YieldOK, KeptIsFreeKept DEF Parts, TypeRest
    <3>3. QED
      BY <2>1, <3>2 DEF FreeKept
  <2>3. KillKept
    BY <2>1, RunIsCont, ContinueKept
  <2>4. QED
    BY <2>1, <2>2, <2>3 DEF LifeKept
<1>6. QED
  BY <1>1, <1>2, <1>3, <1>4, <1>5 DEF SleepCalls

LEMMA DeliverFree ==
  ASSUME Parts, NEW p \in Pid, prstate[p] # "PR_FREE", NEW msg, Deliver(p, msg)
  PROVE  FreeKept
<1>1. CASE prstate[p] = "PR_RECV" /\ ReadyWith(p, qkey)
  BY <1>1, ReadyFree, SchedFacts DEF Eligible, Parts
<1>2. CASE prstate[p] = "PR_RECTIM" /\ ReadyWith(p, UnsleepKeys(sleepq, p, qkey))
  <2>1. prstate[p] \notin Eligible \cup {"PR_FREE"} /\ p \in Range(sleepq)
    BY <1>2 DEF Eligible, Parts, SleepQueueOK
  <2>2. QED
    BY <1>2, <2>1, UnsleepKept, ReadyFree
<1>3. CASE UNCHANGED schedVars
  BY <1>3 DEF schedVars, FreeKept
<1>4. QED
  BY <1>1, <1>2, <1>3 DEF Deliver, Ready

\* ... the message calls ...
LEMMA MsgLife ==
  ASSUME Parts, MsgCalls \/ MsgSteps
  PROVE  LifeKept
<1>1. ASSUME NEW p \in Pid, NEW msg \in Msgs, Send(p, msg)
      PROVE  LifeKept
  <2>1. /\ Deliver(p, msg) /\ prstate[p] # "PR_FREE" /\ cont' = cont
        /\ UNCHANGED <<prcount, prstkbase, freestks, halted>>
    BY <1>1 DEF Send, CanDeliver, Live, tableVars
  <2>2. QED
    BY <2>1, DeliverFree DEF LifeKept, KillKept
<1>2. CASE ReceiveNow
  BY <1>2 DEF ReceiveNow, MsgUnchanged, LifeKept, FreeKept, KillKept, schedVars, tableVars
<1>3. CASE MsgSteps
  <2>1. /\ cont[currpid].op \in {"receive", "recvtime"} /\ ContinueWith(Run)
        /\ prstate' = prstate /\ UNCHANGED <<prcount, prstkbase, freestks, halted>>
    BY <1>3 DEF MsgSteps, ReceiveDone, RecvtimeDone, Resumes, MsgUnchanged, schedVars, tableVars
  <2>2. KillKept
    BY <2>1, RunIsCont, ContinueKept
  <2>3. QED
    BY <2>1, <2>2 DEF LifeKept, FreeKept
<1>4. ASSUME NEW op \in {"receive", "recvtime"}, Calls(op),
             ContinueWith([op |-> op, arg |-> 0, n |-> 0]),
             NEW s \in {"PR_RECV", "PR_RECTIM"}, NEW ky, DOMAIN ky = Pid, Block(s, ky),
             MsgUnchanged
      PROVE  LifeKept
  <2>1. cont[currpid].op # "kill" /\ [op |-> op, arg |-> 0, n |-> 0].op # "kill"
    BY <1>4, CallFacts, RunIsCont
  <2>2. KillKept
    BY <1>4, <2>1, ContinueKept
  <2>3. FreeKept
    BY <1>4, BlockFree DEF PrState, Eligible
  <2>4. QED
    BY <1>4, <2>2, <2>3 DEF LifeKept, MsgUnchanged, tableVars
<1>5. CASE ReceiveBlock
  BY <1>4, <1>5, SchedFacts DEF ReceiveBlock, Parts
<1>6. ASSUME NEW maxwait \in Delays, RecvtimeBlock(maxwait)
      PROVE  LifeKept
  <2>1. prstate[currpid] = "PR_CURR"
    BY <1>6, CallFacts DEF RecvtimeBlock
  <2>2. QED
    BY <1>4, <1>6, <2>1, InsertdKept DEF RecvtimeBlock
<1>7. QED
  BY <1>1, <1>2, <1>3, <1>5, <1>6 DEF MsgCalls

\* ... and the calls about processes other than create and kill.
LEMMA ProcLife ==
  ASSUME Parts, NEW p \in Pid,
         \/ Resume(p) \/ Suspend(p) \/ Yield
         \/ \E newprio \in Prios : Chprio(p, newprio)
  PROVE  LifeKept
<1>1. cont' = cont /\ UNCHANGED <<prcount, prstkbase, freestks, halted>>
  BY DEF Resume, Suspend, Yield, Chprio, ProcUnchanged, tableVars
<1>2. FreeKept
  <2>1. CASE Resume(p)
    BY <2>1, ReadyFree, SchedFacts DEF Resume, Ready, Eligible, Parts
  <2>2. CASE Suspend(p)
    <3>1. Calls("suspend")
      BY <2>2 DEF Suspend
    <3>2. CASE prstate[p] = "PR_READY" /\ prstate' = [prstate EXCEPT ![p] = "PR_SUSP"]
      BY <3>2, SchedFacts DEF FreeKept, Parts
    <3>3. CASE Block("PR_SUSP", qkey)
      <4>1. "PR_SUSP" \in PrState \ Eligible /\ DOMAIN qkey = Pid
        BY SchedFacts DEF PrState, Eligible, Parts
      <4>2. QED
        BY <3>1, <3>3, <4>1, BlockFree
    <3>4. QED
      BY <2>2, <3>2, <3>3 DEF Suspend
  <2>3. CASE Yield
    BY <2>3, YieldOK, SchedFacts, KeptIsFreeKept DEF Yield, Parts, TypeRest
  <2>4. CASE \E newprio \in Prios : Chprio(p, newprio)
    BY <2>4 DEF Chprio, schedVars, FreeKept
  <2>5. QED
    BY <2>1, <2>2, <2>3, <2>4
<1>3. QED
  BY <1>1, <1>2 DEF LifeKept, KillKept

\* A step creates a process, starts or finishes a kill, or keeps all that live.
LEMMA LifeSteps ==
  ASSUME Parts, [Next]_vars
  PROVE  \/ LifeKept
         \/ \E prio \in Prios : Create(prio)
         \/ \E victim \in Pid : Kill(victim)
         \/ KillDone
<1>1. CASE UNCHANGED vars
  BY <1>1 DEF vars, schedVars, tableVars, LifeKept, FreeKept, KillKept
<1>2. CASE Calling
  <2>1. CASE ProcCalls
    <3>1. NULLPROC \in Pid
      BY PidFacts
    <3>2. QED
      BY <2>1, <3>1, ProcLife DEF ProcCalls
  <2>2. QED
    BY <1>2, <2>1, SemLife, ClockLife, MsgLife DEF Calling
<1>3. CASE KernelSteps \/ ClkHandler
  BY <1>3, SemLife, ClockLife, MsgLife DEF KernelSteps
<1>4. CASE Halted
  BY <1>1, <1>4 DEF Halted
<1>5. QED
  BY <1>1, <1>2, <1>3, <1>4 DEF Next

\* Processes end only themselves.
EndOnlySelf == \A p \in InKill : cont[p].arg = p

EndInv == EndOnlySelf /\ StacksExclusive /\ LiveCount /\ HaltsAtTheEnd

LivePids == {p \in Pid : Live(p)}

\* Both are finite, and who is in kill is not the null process and lives.
LEMMA LiveFacts ==
  ASSUME Parts
  PROVE  /\ IsFiniteSet(LivePids) /\ IsFiniteSet(InKill)
         /\ Cardinality(LivePids) \in Nat /\ Cardinality(InKill) \in Nat
         /\ InKill \subseteq LivePids
         /\ EndOnlySelf => NULLPROC \notin InKill
         /\ NULLPROC \in LivePids
<1>1. IsFiniteSet(Pid)
  BY FS_Interval, TableAssumption DEF Pid
<1>2. LivePids \in SUBSET Pid /\ InKill \in SUBSET Pid
  BY DEF LivePids, InKill
<1>3. IsFiniteSet(LivePids) /\ IsFiniteSet(InKill)
  BY <1>1, <1>2, FS_Subset
<1>4. InKill \subseteq LivePids
  BY RunIsCont DEF InKill, LivePids, Live, Parts, ContOK
<1>5. EndOnlySelf => NULLPROC \notin InKill
  BY DEF EndOnlySelf, InKill, Parts, ContOK
<1>6. NULLPROC \in LivePids
  BY SchedFacts, PidFacts DEF LivePids, Live, Parts, Eligible
<1>7. QED
  BY <1>3, <1>4, <1>5, <1>6, FS_CardinalityType

\* Once the processor is halted nothing changes.
LEMMA HaltedStays ==
  ASSUME halted, [Next]_vars
  PROVE  UNCHANGED vars
<1>1. ASSUME NEW op
      PROVE  ~Calls(op) /\ ~Resumes(op)
  BY DEF Calls, Resumes
<1>2. ~SemCalls /\ ~SleepCalls /\ ~MsgCalls /\ ~ProcCalls
  BY <1>1 DEF SemCalls, Wait, Signal, SemDelete, Signaln, SemReset, SemCreate,
     SleepCalls, Sleepms, MsgCalls, Send, ReceiveNow, ReceiveBlock, RecvtimeBlock,
     ProcCalls, Create, Resume, Suspend, Yield, Chprio, Kill
<1>3. ~KernelSteps /\ ~ClkHandler
  BY <1>1 DEF KernelSteps, SemSteps, SignalnStep, SignalnDone, SemDeleteStep, SemDeleteDone,
     SemResetStep, SemResetDone, MsgSteps, ReceiveDone, RecvtimeDone, KillDone,
     WakeupStep, WakeupDone, ClkTail, ClkHandler
<1>4. QED
  BY <1>2, <1>3 DEF Next, Calling, Halted

\* Steps that begin and end nothing.
LEMMA LifeKeptEnd ==
  ASSUME Parts, EndInv, LifeKept
  PROVE  EndInv'
<1>1. \A p \in Pid : Live(p)' <=> Live(p)
  BY DEF LifeKept, FreeKept, Live
<1>2. InKill' = InKill /\ \A p \in InKill : cont'[p] = cont[p]
  BY DEF LifeKept, KillKept, InKill
<1>3. LivePids' = LivePids
  BY <1>1 DEF LivePids
<1>4. LiveCount'
  BY <1>2, <1>3 DEF EndInv, LiveCount, LifeKept, LivePids
<1>5. EndOnlySelf'
  BY <1>2 DEF EndInv, EndOnlySelf
<1>6. Victims' = Victims
  BY <1>2 DEF Victims
<1>7. HaltsAtTheEnd'
  BY <1>1, <1>6 DEF EndInv, HaltsAtTheEnd, LifeKept
<1>8. StacksExclusive'
  BY <1>1 DEF EndInv, StacksExclusive, LifeKept
<1>9. QED
  BY <1>4, <1>5, <1>7, <1>8 DEF EndInv

\* create: one process more, on a stack that was free.
LEMMA CreateEnd ==
  ASSUME Parts, EndInv, NEW prio \in Prios, Create(prio)
  PROVE  EndInv'
<1> DEFINE p == NewPid
<1>1. FreePids # {} /\ UNCHANGED <<cont, halted>> /\ ~halted
  BY DEF Create, Calls
<1>2. p \in Pid /\ prstate[p] = "PR_FREE"
  <2>1. FreePids \in SUBSET Nat
    BY PidFacts DEF FreePids
  <2>2. p \in FreePids
    BY <1>1, <2>1, FirstFreeIsFree DEF NewPid
  <2>3. QED
    BY <2>2 DEF FreePids, Live
<1> HIDE DEF p
<1>3. CASE UNCHANGED <<prstate, prstkbase, prcount, freestks>>
  BY <1>1, <1>3, LifeKeptEnd DEF LifeKept, FreeKept, KillKept
<1>4. CASE /\ freestks # {}
           /\ prcount' = prcount + 1
           /\ prstate' = [prstate EXCEPT ![p] = "PR_SUSP"]
           /\ prstkbase' = [prstkbase EXCEPT ![p] = Max(freestks)]
           /\ freestks' = freestks \ {Max(freestks)}
  <2>1. Max(freestks) \in freestks /\ prstkbase \in [Pid -> Stack]
    BY <1>4, MaxStack DEF Parts, TypeRest
  <2>2. \A x \in Pid : Live(x)' <=> Live(x) \/ x = p
    BY <1>2, <1>4, SchedFacts DEF Live, Parts
  <2>3. \A x \in Pid : prstkbase'[x] = IF x = p THEN Max(freestks) ELSE prstkbase[x]
    BY <1>2, <1>4, <2>1
  <2>4. StacksExclusive'
    <3>1. ASSUME NEW x \in Pid, Live(x)'
          PROVE  prstkbase'[x] \notin freestks'
      BY <1>4, <2>1, <2>2, <2>3, <3>1 DEF EndInv, StacksExclusive
    <3>2. ASSUME NEW x \in Pid, NEW q \in Pid \ {x}, Live(x)', Live(q)'
          PROVE  prstkbase'[q] # prstkbase'[x]
      BY <2>1, <2>2, <2>3, <3>2 DEF EndInv, StacksExclusive
    <3>3. QED
      BY <3>1, <3>2 DEF StacksExclusive
  <2>5. LivePids' = LivePids \cup {p} /\ p \notin LivePids
    BY <1>2, <2>2 DEF LivePids, Live
  <2>6. Cardinality(LivePids') = Cardinality(LivePids) + 1
    BY <2>5, LiveFacts, FS_AddElement
  <2>7. LiveCount'
    <3>1. InKill' = InKill
      BY <1>1 DEF InKill
    <3>2. prcount = Cardinality(LivePids) - Cardinality(InKill)
      BY DEF EndInv, LiveCount, LivePids
    <3>3. prcount' = Cardinality(LivePids') - Cardinality(InKill')
      BY <1>4, <2>6, <3>1, <3>2, LiveFacts
    <3>4. QED
      BY <3>3 DEF LiveCount, LivePids
  <2>8. EndOnlySelf' /\ HaltsAtTheEnd'
    BY <1>1 DEF EndInv, EndOnlySelf, InKill, HaltsAtTheEnd
  <2>9. QED
    BY <2>4, <2>7, <2>8 DEF EndInv
<1>5. QED
  BY <1>3, <1>4 DEF Create, Getstk, p

\* kill of oneself up to send: the caller is counted out, and if only the null
\* process is left the processor is halted.
LEMMA KillEnd ==
  ASSUME Parts, Parts', EndInv, "kill" \notin Ops, NEW victim \in Pid, Kill(victim)
  PROVE  EndInv'
<1> DEFINE c == [op |-> "kill", arg |-> victim, n |-> 0]
<1>1. /\ victim = currpid /\ currpid # NULLPROC /\ cont[currpid] = Run /\ ~halted
      /\ prcount' = prcount - 1 /\ cont' = [cont EXCEPT ![currpid] = c]
      /\ UNCHANGED <<prstkbase, freestks>>
  BY DEF Kill, Calls, ContinueWith
<1>2. cont \in [Pid -> Cont] /\ currpid \in Pid
  BY SchedFacts DEF Parts, TypeRest
<1>3. cont'[currpid] = c /\ \A x \in Pid \ {currpid} : cont'[x] = cont[x]
  BY <1>1, <1>2
<1>4. InKill' = InKill \cup {currpid} /\ currpid \notin InKill
  BY <1>1, <1>2, <1>3, RunIsCont DEF InKill
<1>5. EndOnlySelf'
  BY <1>1, <1>3, <1>4 DEF EndInv, EndOnlySelf, InKill
<1>6. FreeKept
  <2>1. CASE UNCHANGED schedVars
    BY <2>1 DEF schedVars, FreeKept
  <2>2. CASE CanDeliver(prparent[victim]) /\ Deliver(prparent[victim], victim)
    <3>1. prparent[victim] \in Pid
      BY DEF Parts, TypeRest
    <3>2. QED
      BY <2>2, <3>1, DeliverFree DEF CanDeliver, Live
  <2>3. QED
    BY <2>1, <2>2 DEF Kill
<1>7. LivePids' = LivePids /\ \A x \in Pid : Live(x)' <=> Live(x)
  BY <1>6 DEF FreeKept, LivePids, Live
<1>8. Cardinality(InKill') = Cardinality(InKill) + 1
  BY <1>4, LiveFacts, FS_AddElement
<1>9. prcount' = Cardinality(LivePids) - Cardinality(InKill')
  <2>1. prcount = Cardinality(LivePids) - Cardinality(InKill)
    BY DEF EndInv, LiveCount, LivePids
  <2>2. QED
    BY <1>1, <1>8, <2>1, LiveFacts
<1>10. LiveCount'
  BY <1>7, <1>9 DEF LiveCount, LivePids
<1>11. StacksExclusive'
  BY <1>1, <1>7 DEF EndInv, StacksExclusive
<1>12. HaltsAtTheEnd'
  <2>1. CASE LastProcess
    <3> DEFINE T == InKill' \cup {NULLPROC}
    <3>1. Cardinality(LivePids) <= Cardinality(InKill') + 1
      BY <1>1, <1>9, <2>1, <1>8, LiveFacts DEF LastProcess
    <3>2. IsFiniteSet(InKill') /\ NULLPROC \notin InKill' /\ Cardinality(InKill') \in Nat
      BY <1>1, <1>4, <1>8, LiveFacts, FS_AddElement DEF EndInv
    <3>3. Cardinality(T) = Cardinality(InKill') + 1
      BY <3>2, FS_AddElement
    <3>4. T \in SUBSET LivePids
      <4>1. currpid \in LivePids
        BY <1>2, SchedFacts DEF LivePids, Live, Parts
      <4>2. QED
        BY <1>4, <4>1, LiveFacts
    <3>5. IsFiniteSet(LivePids) /\ Cardinality(LivePids) \in Nat
      BY LiveFacts
    <3> HIDE DEF T
    <3>6. Cardinality(T) <= Cardinality(LivePids)
      BY <3>4, <3>5, FS_Subset
    <3>7. Cardinality(LivePids) = Cardinality(T)
      BY <3>1, <3>2, <3>3, <3>5, <3>6
    <3>8. LivePids = T
      BY <3>4, <3>5, <3>7, FS_Subset
    <3>9. Victims' = {cont'[x].arg : x \in InKill'}
      BY DEF Victims
    <3>10. ASSUME NEW x \in Pid \ {NULLPROC}, Live(x)'
           PROVE  x \in Victims'
      <4>1. x \in InKill'
        BY <1>7, <3>8, <3>10 DEF LivePids, T
      <4>2. cont'[x].arg = x
        BY <1>5, <4>1 DEF EndOnlySelf
      <4>3. QED
        BY <3>9, <4>1, <4>2
    <3>11. QED
      BY <3>10 DEF HaltsAtTheEnd
  <2>2. CASE ~LastProcess
    BY <1>1, <2>2 DEF Kill, HaltsAtTheEnd
  <2>3. QED
    BY <2>1, <2>2
<1>13. QED
  BY <1>5, <1>10, <1>11, <1>12 DEF EndInv

\* The end of a kill of oneself: the stack is free, and its process is gone.
LEMMA KillDoneEnd ==
  ASSUME Parts, EndInv, KillDone
  PROVE  EndInv'
<1>1. /\ Resumes("kill") /\ Withdraw(cont[currpid].arg) /\ ~halted
      /\ freestks' = freestks \cup {prstkbase[cont[currpid].arg]}
      /\ cont' = [cont EXCEPT ![currpid] = Run, ![cont[currpid].arg] = Run]
      /\ UNCHANGED <<prcount, prstkbase, halted>>
  BY DEF KillDone, Resumes
<1>2. /\ currpid \in Pid /\ prstate[currpid] = "PR_CURR" /\ cont[currpid].op = "kill"
      /\ ndefers = 0
  BY <1>1, ResumeFacts DEF Deferred
<1>3. currpid \in InKill /\ cont[currpid].arg = currpid /\ currpid # NULLPROC
  BY <1>2, LiveFacts DEF InKill, EndInv, EndOnlySelf
<1>4. cont'[currpid] = Run /\ \A x \in Pid \ {currpid} : cont'[x] = cont[x]
  BY <1>1, <1>2, <1>3 DEF Parts, TypeRest
<1>5. Block("PR_FREE", qkey)
  BY <1>1, <1>2, <1>3 DEF Withdraw, WithdrawLeaving
<1>6. prstate'[currpid] = "PR_FREE" /\ \A x \in Pid \ {currpid} : Keeps(x)
  <2>1. "PR_FREE" \in PrState \ Eligible /\ DOMAIN qkey = Pid
    BY SchedFacts DEF PrState, Eligible, Parts
  <2>2. QED
    BY <1>2, <1>3, <1>5, <2>1, BlockOK DEF Parts
<1>7. \A x \in Pid : Live(x)' <=> Live(x) /\ x # currpid
  BY <1>6 DEF Live, Keeps, Eligible
<1>8. InKill' = InKill \ {currpid} /\ \A x \in InKill' : cont'[x] = cont[x]
  BY <1>2, <1>4, RunIsCont DEF InKill
<1>9. LivePids' = LivePids \ {currpid} /\ currpid \in LivePids
  BY <1>2, <1>7 DEF LivePids, Live
<1>10. /\ Cardinality(LivePids') = Cardinality(LivePids) - 1
       /\ Cardinality(InKill') = Cardinality(InKill) - 1
  BY <1>3, <1>8, <1>9, LiveFacts, FS_RemoveElement
<1>11. LiveCount'
  <2>1. prcount = Cardinality(LivePids) - Cardinality(InKill)
    BY DEF EndInv, LiveCount, LivePids
  <2>2. prcount' = Cardinality(LivePids') - Cardinality(InKill')
    BY <1>1, <1>10, <2>1, LiveFacts
  <2>3. QED
    BY <2>2 DEF LiveCount, LivePids
<1>12. EndOnlySelf'
  BY <1>8 DEF EndInv, EndOnlySelf
<1>13. StacksExclusive'
  <2>1. Live(currpid)
    BY <1>2 DEF Live
  <2>2. QED
    BY <1>1, <1>2, <1>3, <1>7, <2>1 DEF EndInv, StacksExclusive
<1>14. HaltsAtTheEnd'
  BY <1>1 DEF HaltsAtTheEnd
<1>15. QED
  BY <1>11, <1>12, <1>13, <1>14 DEF EndInv

LEMMA EndNext ==
  ASSUME Parts, EndInv, "kill" \notin Ops, [Next]_vars
  PROVE  EndInv'
  BY NextOK, LifeSteps, LifeKeptEnd, CreateEnd, KillEnd, KillDoneEnd

LEMMA EndInit ==
  ASSUME Init
  PROVE  EndInv
<1> DEFINE k == Len(StartPrio)
<1>1. k \in Nat /\ k >= 1 /\ k <= NPROC - 1 /\ NPROC \in Nat /\ NSTK \in Nat /\ k < NSTK
  BY TableAssumption, LenProperties
<1>2. /\ prstate = [p \in Pid |-> CASE p = NULLPROC -> "PR_READY"
                                    [] p = 1 -> "PR_CURR"
                                    [] p \in 2 .. k -> "PR_SUSP"
                                    [] OTHER -> "PR_FREE"]
      /\ prstkbase = [p \in Pid |-> IF p <= k THEN NSTK - 1 - p ELSE 0]
      /\ prcount = k + 1 /\ freestks = 0 .. NSTK - 2 - k
      /\ cont = [p \in Pid |-> Run] /\ halted = FALSE
  BY DEF Init
<1> HIDE DEF k
<1>3. ASSUME NEW p \in Pid
      PROVE  Live(p) <=> p \in 0 .. k
  BY <1>1, <1>2 DEF Live, Pid, NULLPROC
<1>4. LivePids = 0 .. k
  BY <1>1, <1>3 DEF LivePids, Pid
<1>5. InKill = {}
  BY <1>2, RunIsCont DEF InKill
<1>6. LiveCount
  <2>1. Cardinality(0 .. k) = k + 1
    BY <1>1, FS_Interval
  <2>2. Cardinality(InKill) = 0
    BY <1>5, FS_EmptySet
  <2>3. prcount = Cardinality(LivePids) - Cardinality(InKill)
    BY <1>1, <1>2, <1>4, <2>1, <2>2
  <2>4. QED
    BY <2>3 DEF LiveCount, LivePids
<1>7. StacksExclusive
  BY <1>1, <1>2, <1>3 DEF StacksExclusive, Pid
<1>8. QED
  BY <1>2, <1>5, <1>6, <1>7 DEF EndInv, EndOnlySelf, HaltsAtTheEnd

\* While processes end only themselves, no two that live have the same stack, and
\* none runs on one that is on the free list, although kill frees the stack of the
\* caller (kill.c:37) while it still runs on it.
THEOREM StacksAreExclusive ==
  ASSUME "kill" \notin Ops
  PROVE  Spec => []StacksExclusive
<1>1. Init => EndInv
  BY EndInit
<1>2. IInv /\ EndInv /\ [Next]_vars => EndInv'
  BY IInvParts, EndNext
<1>3. EndInv => StacksExclusive
  BY DEF EndInv
<1>4. QED
  BY <1>1, <1>2, <1>3, Invariant, PTL DEF Spec

\* While processes end only themselves, prcount is their number, and the processor
\* is halted when the last user process ends and not before (kill.c:29, xdone.c).
THEOREM TheLastEndsTheSystem ==
  ASSUME "kill" \notin Ops
  PROVE  Spec => []EndsWithTheLast
<1>1. Init => EndInv
  BY EndInit
<1>2. IInv /\ EndInv /\ [Next]_vars => EndInv'
  BY IInvParts, EndNext
<1>3. EndInv => EndsWithTheLast
  BY DEF EndInv, EndsWithTheLast
<1>4. QED
  BY <1>1, <1>2, <1>3, Invariant, PTL DEF Spec

-----------------------------------------------------------------------------
(* How long it sleeps.                                                     *)

\* The keys of the sleep queue are not negative; outside wakeup nobody is due;
\* and who waits for a message with a limit has none.
DeltaInv ==
    /\ \A x \in Range(sleepq) : qkey[x] \in Nat
    /\ sleepq # <<>> /\ cont[currpid].op # "wakeup" => qkey[Head(sleepq)] > 0
    /\ \A x \in Pid : prstate[x] = "PR_RECTIM" => ~prhasmsg[x]

\* Nobody falls asleep or wakes up, and the keys of those who sleep stay.
SleepersKept ==
    \A x \in Pid :
        /\ prstate[x] \in Sleeping => prstate'[x] = prstate[x] /\ qkey'[x] = qkey[x]
        /\ prstate'[x] \in Sleeping => prstate[x] \in Sleeping

\* resched writes the key of a process only if it stays eligible.
LEMMA DispatchKeys ==
  ASSUME NEW st, NEW rl, NEW ky, NEW pre, currpid \in Pid, DOMAIN ky = Pid,
         Dispatch(st, rl, ky, pre)
  PROVE  \A x \in Pid : st[x] \notin Eligible => qkey'[x] = ky[x]
<1>1. qkey' = ky \/ (st[currpid] = "PR_CURR" /\ qkey' = [ky EXCEPT ![currpid] = prprio[currpid]])
  BY DEF Dispatch
<1>2. QED
  BY <1>1 DEF Eligible

LEMMA ReschedKeys ==
  ASSUME NEW st, NEW rl, NEW ky, NEW pre, currpid \in Pid, DOMAIN ky = Pid,
         Resched(st, rl, ky, pre)
  PROVE  \A x \in Pid : st[x] \notin Eligible => qkey'[x] = ky[x]
<1>1. CASE Dispatch(st, rl, ky, pre)
  BY <1>1, DispatchKeys
<1>2. CASE qkey' = ky
  BY <1>2
<1>3. QED
  BY <1>1, <1>2 DEF Resched

\* ready and the keys of those who sleep on.
LEMMA ReadyKeys ==
  ASSUME Parts, NEW p \in Pid, prstate[p] \notin Eligible,
         NEW ky, DOMAIN ky = Pid, ReadyWith(p, ky)
  PROVE  /\ prstate'[p] \in Eligible /\ \A x \in Pid \ {p} : Keeps(x)
         /\ \A x \in Pid \ {p} : prstate[x] \in Sleeping => qkey'[x] = ky[x]
<1> DEFINE st == [prstate EXCEPT ![p] = "PR_READY"]
           rl == Insert(readylist, p, ky, prprio[p])
           k1 == [ky EXCEPT ![p] = prprio[p]]
<1>1. currpid \in Pid /\ prstate \in [Pid -> PrState]
  BY SchedFacts DEF Parts
<1>2. /\ Resched(st, rl, k1, preempt) /\ DOMAIN k1 = Pid
      /\ \A x \in Pid \ {p} : st[x] = prstate[x] /\ k1[x] = ky[x]
  BY <1>1 DEF ReadyWith
<1> HIDE DEF st, rl, k1
<1>3. \A x \in Pid : st[x] \notin Eligible => qkey'[x] = k1[x]
  BY <1>1, <1>2, ReschedKeys
<1>4. \A x \in Pid \ {p} : prstate[x] \in Sleeping => qkey'[x] = ky[x]
  BY <1>2, <1>3 DEF Eligible, Sleeping
<1>5. prstate'[p] \in Eligible /\ \A x \in Pid \ {p} : Keeps(x)
  BY ReadyOK DEF Parts, TypeRest
<1>6. QED
  BY <1>4, <1>5

\* The same of a process that blocks, or ends.
LEMMA BlockKeys ==
  ASSUME Parts, ndefers = 0, currpid # NULLPROC, NEW s \in PrState \ Eligible,
         NEW ky, DOMAIN ky = Pid, Block(s, ky)
  PROVE  /\ prstate'[currpid] = s /\ \A x \in Pid \ {currpid} : Keeps(x)
         /\ \A x \in Pid : x = currpid \/ prstate[x] \in Sleeping => qkey'[x] = ky[x]
<1> DEFINE st == [prstate EXCEPT ![currpid] = s]
<1>1. currpid \in Pid /\ prstate \in [Pid -> PrState]
  BY SchedFacts DEF Parts
<1>2. /\ Resched(st, readylist, ky, preempt) /\ st[currpid] = s
      /\ \A x \in Pid \ {currpid} : st[x] = prstate[x]
  BY <1>1 DEF Block
<1> HIDE DEF st
<1>3. \A x \in Pid : st[x] \notin Eligible => qkey'[x] = ky[x]
  BY <1>1, <1>2, ReschedKeys
<1>4. \A x \in Pid : x = currpid \/ prstate[x] \in Sleeping => qkey'[x] = ky[x]
  BY <1>1, <1>2, <1>3 DEF Eligible, Sleeping
<1>5. prstate'[currpid] = s /\ \A x \in Pid \ {currpid} : Keeps(x)
  BY BlockOK DEF Parts
<1>6. QED
  BY <1>4, <1>5

\* What that means for steps that do not touch the sleep queue.
LEMMA ReadySleep ==
  ASSUME Parts, NEW p \in Pid, prstate[p] \notin Eligible \cup Sleeping, ReadyWith(p, qkey)
  PROVE  SleepersKept
<1>1. DOMAIN qkey = Pid
  BY SchedFacts DEF Parts
<1>2. /\ prstate'[p] \in Eligible /\ \A x \in Pid \ {p} : Keeps(x)
      /\ \A x \in Pid \ {p} : prstate[x] \in Sleeping => qkey'[x] = qkey[x]
  BY <1>1, ReadyKeys
<1>3. QED
  BY <1>2 DEF SleepersKept, Keeps, Eligible, Sleeping

LEMMA BlockSleep ==
  ASSUME Parts, NEW op, Calls(op), NEW s \in PrState \ (Eligible \cup Sleeping), Block(s, qkey)
  PROVE  SleepersKept
<1>1. /\ DOMAIN qkey = Pid /\ ndefers = 0 /\ currpid # NULLPROC /\ currpid \in Pid
      /\ prstate[currpid] = "PR_CURR"
  BY SchedFacts, CallFacts DEF Parts
<1>2. /\ prstate'[currpid] = s /\ \A x \in Pid \ {currpid} : Keeps(x)
      /\ \A x \in Pid : x = currpid \/ prstate[x] \in Sleeping => qkey'[x] = qkey[x]
  BY <1>1, BlockKeys
<1>3. QED
  BY <1>1, <1>2 DEF SleepersKept, Keeps, Eligible, Sleeping

LEMMA YieldSleep ==
  ASSUME Parts, NEW pre \in 1 .. QUANTUM, Resched(prstate, readylist, qkey, pre)
  PROVE  SleepersKept
<1>1. \A x \in Pid : Keeps(x)
  BY YieldOK DEF Parts, TypeRest
<1>2. \A x \in Pid : prstate[x] \notin Eligible => qkey'[x] = qkey[x]
  BY ReschedKeys, SchedFacts DEF Parts
<1>3. QED
  BY <1>1, <1>2 DEF SleepersKept, Keeps, Eligible, Sleeping

LEMMA DeferStopSleep ==
  ASSUME Parts, ndefers = 1, DeferStop
  PROVE  SleepersKept
<1>1. \A x \in Pid : Keeps(x)
  BY DeferStopOK DEF Parts
<1>2. CASE Dispatch(prstate, readylist, qkey, preempt)
  <2>1. \A x \in Pid : prstate[x] \notin Eligible => qkey'[x] = qkey[x]
    BY <1>2, DispatchKeys, SchedFacts DEF Parts
  <2>2. QED
    BY <1>1, <2>1 DEF SleepersKept, Keeps, Eligible, Sleeping
<1>3. CASE UNCHANGED schedVars
  BY <1>3 DEF schedVars, SleepersKept
<1>4. QED
  BY <1>2, <1>3 DEF DeferStop

LEMMA ReadyFirstSleep ==
  ASSUME Parts, NEW s \in Sem, squeue[s] # <<>>, Ready(Head(squeue[s]))
  PROVE  SleepersKept
<1>1. QueueOf(Pid, squeue[s])
  BY DEF Parts, TypeRest, SemsOK, SemQueuesOK, QueueOf
<1>2. Head(squeue[s]) \in Pid /\ prstate[Head(squeue[s])] = "PR_WAIT"
  BY <1>1, TailMembers, EntryFacts DEF QueueOf, Parts, SemsOK, SemQueuesOK
<1>3. QED
  BY <1>2, ReadySleep DEF Ready, Eligible, Sleeping

LEMMA ReleaseSleep ==
  ASSUME Parts, NEW s \in Sem, cont[currpid].op \notin {"semreset"}, Release(s)
  PROVE  SleepersKept
<1>1. CASE scount[s] < 0 /\ Ready(Head(squeue[s]))
  <2>1. Len(squeue[s]) = -scount[s] /\ scount[s] \in Int
    BY <1>1, CountFacts
  <2>2. squeue[s] # <<>>
    BY <1>1, <2>1
  <2>3. QED
    BY <1>1, <2>2, ReadyFirstSleep
<1>2. CASE UNCHANGED schedVars
  BY <1>2 DEF schedVars, SleepersKept
<1>3. QED
  BY <1>1, <1>2 DEF Release

\* The step has nothing to do with the sleep queue.
SleepKept ==
    /\ SleepersKept
    /\ sleepq' = sleepq
    /\ cont[currpid].op = "wakeup" => ~FirstIsDue

LEMMA NotInWakeup ==
  ASSUME Parts, NEW op, op # "wakeup", Calls(op) \/ Resumes(op)
  PROVE  cont[currpid].op # "wakeup"
  BY RunIsCont DEF Calls, Resumes

\* The semaphore calls leave the sleep queue alone, ...
LEMMA SemSleep ==
  ASSUME Parts, SemCalls \/ SemSteps
  PROVE  SleepKept
<1>1. sleepq' = sleepq
  BY DEF SemCalls, SemSteps, Wait, Signal, Signaln, SignalnStep, SignalnDone, SemDelete,
     SemDeleteStep, SemDeleteDone, SemReset, SemResetStep, SemResetDone, SemCreate,
     SemUnchanged, Finish
<1>2. cont[currpid].op # "wakeup"
  <2>1. CASE SemCalls
    <3>1. \E op \in {"wait", "signal", "signaln", "semdelete", "semreset", "semcreate"} : Calls(op)
      BY <2>1 DEF SemCalls, Wait, Signal, Signaln, SemDelete, SemReset, SemCreate
    <3>2. QED
      BY <3>1, NotInWakeup
  <2>2. CASE SemSteps
    <3>1. \E op \in {"signaln", "semdelete", "semreset"} : Resumes(op)
      BY <2>2 DEF SemSteps, SignalnStep, SignalnDone, SemDeleteStep, SemDeleteDone,
         SemResetStep, SemResetDone
    <3>2. QED
      BY <3>1, NotInWakeup
  <2>3. QED
    BY <2>1, <2>2
<1>3. CASE UNCHANGED <<prstate, qkey>>
  BY <1>1, <1>2, <1>3 DEF SleepKept, SleepersKept
<1>4. ASSUME NEW s \in Sem, Wait(s)
      PROVE  SleepersKept
  <2>1. CASE Block("PR_WAIT", qkey)
    <3>1. "PR_WAIT" \in PrState \ (Eligible \cup Sleeping) /\ Calls("wait")
      BY <1>4 DEF PrState, Eligible, Sleeping, Wait
    <3>2. QED
      BY <2>1, <3>1, BlockSleep
  <2>2. CASE UNCHANGED schedVars
    BY <2>2 DEF schedVars, SleepersKept
  <2>3. QED
    BY <1>4, <2>1, <2>2 DEF Wait
<1>5. ASSUME NEW s \in Sem, Signal(s)
      PROVE  SleepersKept
  <2>1. Calls("signal") /\ Release(s)
    BY <1>5 DEF Signal
  <2>2. cont[currpid].op \notin {"semreset"}
    BY <2>1, CallFacts DEF Deferred
  <2>3. QED
    BY <2>1, <2>2, ReleaseSleep
<1>6. ASSUME SignalnStep \/ SemDeleteStep
      PROVE  SleepersKept
  <2>1. Resumes("signaln") \/ Resumes("semdelete")
    BY <1>6 DEF SignalnStep, SemDeleteStep
  <2>2. cont[currpid].arg \in Sem /\ cont[currpid].op \notin {"semreset"}
    BY <2>1, LoopFacts
  <2>3. Release(cont[currpid].arg)
    BY <1>6 DEF SignalnStep, SemDeleteStep
  <2>4. QED
    BY <2>2, <2>3, ReleaseSleep
<1>7. ASSUME SemResetStep
      PROVE  SleepersKept
  <2>1. /\ Resumes("semreset") /\ squeue[cont[currpid].arg] # <<>>
        /\ Ready(Head(squeue[cont[currpid].arg]))
    BY <1>7 DEF SemResetStep
  <2>2. cont[currpid].arg \in Sem
    BY <2>1, LoopFacts
  <2>3. QED
    BY <2>1, <2>2, ReadyFirstSleep
<1>8. ASSUME SignalnDone \/ SemDeleteDone \/ SemResetDone
      PROVE  SleepersKept
  <2>1. /\ Resumes("signaln") \/ Resumes("semdelete") \/ Resumes("semreset")
        /\ DeferStop
    BY <1>8 DEF SignalnDone, SemDeleteDone, SemResetDone, Finish
  <2>2. ndefers = 1
    BY <2>1, LoopFacts
  <2>3. QED
    BY <2>1, <2>2, DeferStopSleep
<1>9. CASE SemSteps
  BY <1>1, <1>2, <1>6, <1>7, <1>8, <1>9 DEF SemSteps, SleepKept
<1>10. CASE \E s \in Sem : Wait(s) \/ Signal(s)
  BY <1>1, <1>2, <1>4, <1>5, <1>10 DEF SleepKept
<1>11. CASE \/ \E s \in Sem : SemDelete(s)
            \/ \E s \in Sem, count \in Counts : Signaln(s, count) \/ SemReset(s, count)
            \/ \E count \in Counts : SemCreate(count)
  BY <1>3, <1>11 DEF SemDelete, Signaln, SemReset, SemCreate, schedVars
<1>12. QED
  BY <1>9, <1>10, <1>11 DEF SemCalls

\* ... the end of a wakeup and of the clock handler do, ...
LEMMA ClockSleep ==
  ASSUME Parts, WakeupDone \/ ClkTail
  PROVE  SleepKept
<1>1. CASE WakeupDone
  <2>1. Resumes("wakeup") /\ ~FirstIsDue /\ DeferStop /\ sleepq' = sleepq
    BY <1>1 DEF WakeupDone
  <2>2. ndefers = 1
    BY <2>1, DeferredFacts DEF Deferred
  <2>3. QED
    BY <2>1, <2>2, DeferStopSleep DEF SleepKept
<1>2. CASE ClkTail
  <2>1. Resumes("clktail") /\ sleepq' = sleepq
    BY <1>2 DEF ClkTail
  <2>2. SleepersKept
    <3>1. QUANTUM \in 1 .. QUANTUM
      BY TableAssumption
    <3>2. CASE Resched(prstate, readylist, qkey, QUANTUM)
      BY <3>1, <3>2, YieldSleep
    <3>3. CASE UNCHANGED <<prstate, qkey>>
      BY <3>3 DEF SleepersKept
    <3>4. QED
      BY <1>2, <3>2, <3>3 DEF ClkTail
  <2>3. QED
    BY <2>1, <2>2, NotInWakeup DEF SleepKept
<1>3. QED
  BY <1>1, <1>2

\* ... and so do receive, ...
LEMMA ReceiveSleep ==
  ASSUME Parts, ReceiveNow \/ ReceiveBlock \/ MsgSteps
  PROVE  SleepKept
<1>1. cont[currpid].op # "wakeup"
  <2>1. \/ \E op \in {"receive", "recvclr", "recvtime"} : Calls(op)
        \/ \E op \in {"receive", "recvtime"} : Resumes(op)
    BY DEF ReceiveNow, ReceiveBlock, MsgSteps, ReceiveDone, RecvtimeDone
  <2>2. QED
    BY <2>1, NotInWakeup
<1>2. CASE ReceiveBlock
  <2>1. Calls("receive") /\ Block("PR_RECV", qkey) /\ sleepq' = sleepq
    BY <1>2 DEF ReceiveBlock
  <2>2. "PR_RECV" \in PrState \ (Eligible \cup Sleeping)
    BY DEF PrState, Eligible, Sleeping
  <2>3. SleepersKept
    BY <2>1, <2>2, BlockSleep
  <2>4. QED
    BY <1>1, <2>1, <2>3 DEF SleepKept
<1>3. CASE ReceiveNow \/ MsgSteps
  BY <1>1, <1>3 DEF ReceiveNow, MsgSteps, ReceiveDone, RecvtimeDone, schedVars, SleepKept,
     SleepersKept
<1>4. QED
  BY <1>2, <1>3

\* ... a message for somebody who does not wait with a limit ...
LEMMA DeliverSleep ==
  ASSUME Parts, NEW p \in Pid, prstate[p] # "PR_RECTIM", NEW msg, Deliver(p, msg)
  PROVE  SleepersKept /\ sleepq' = sleepq
<1>1. CASE prstate[p] = "PR_RECV" /\ ReadyWith(p, qkey) /\ sleepq' = sleepq
  BY <1>1, ReadySleep DEF Eligible, Sleeping
<1>2. CASE UNCHANGED <<schedVars, sleepq>>
  BY <1>2 DEF schedVars, SleepersKept
<1>3. QED
  BY <1>1, <1>2 DEF Deliver, Ready

\* ... and the calls about processes other than kill.
LEMMA ProcSleep ==
  ASSUME Parts, NEW p \in Pid,
         \/ Resume(p) \/ Suspend(p) \/ Yield
         \/ \E newprio \in Prios : Chprio(p, newprio)
         \/ \E prio \in Prios : Create(prio)
  PROVE  SleepKept
<1>1. cont[currpid].op # "wakeup"
  <2>1. \E op \in {"resume", "suspend", "yield", "chprio", "create"} : Calls(op)
    BY DEF Resume, Suspend, Yield, Chprio, Create
  <2>2. QED
    BY <2>1, NotInWakeup
<1>2. sleepq' = sleepq
  BY DEF Resume, Suspend, Yield, Chprio, Create, ProcUnchanged
<1>3. CASE Resume(p)
  BY <1>1, <1>2, <1>3, ReadySleep DEF Resume, Ready, Eligible, Sleeping, SleepKept
<1>4. CASE Suspend(p)
  <2>1. CASE /\ prstate[p] = "PR_READY" /\ prstate' = [prstate EXCEPT ![p] = "PR_SUSP"]
             /\ qkey' = qkey
    <3>1. SleepersKept
      BY <2>1, SchedFacts DEF SleepersKept, Sleeping, Parts
    <3>2. QED
      BY <1>1, <1>2, <3>1 DEF SleepKept
  <2>2. CASE Block("PR_SUSP", qkey)
    <3>1. "PR_SUSP" \in PrState \ (Eligible \cup Sleeping) /\ Calls("suspend")
      BY <1>4 DEF PrState, Eligible, Sleeping, Suspend
    <3>2. QED
      BY <1>1, <1>2, <2>2, <3>1, BlockSleep DEF SleepKept
  <2>3. QED
    BY <1>4, <2>1, <2>2 DEF Suspend
<1>5. CASE Yield
  BY <1>1, <1>2, <1>5, YieldSleep, SchedFacts DEF Yield, Parts, SleepKept
<1>6. CASE \E newprio \in Prios : Chprio(p, newprio)
  BY <1>1, <1>2, <1>6 DEF Chprio, schedVars, SleepKept, SleepersKept
<1>7. ASSUME NEW prio \in Prios, Create(prio)
      PROVE  SleepKept
  <2>1. FreePids # {} /\ qkey' = qkey
    BY <1>7 DEF Create
  <2>2. FreePids \in SUBSET Nat
    BY PidFacts DEF FreePids
  <2>3. NewPid \in FreePids
    BY <2>1, <2>2, FirstFreeIsFree DEF NewPid
  <2>4. NewPid \in Pid /\ prstate[NewPid] = "PR_FREE"
    BY <2>3 DEF FreePids, Live
  <2>5. prstate' = prstate \/ prstate' = [prstate EXCEPT ![NewPid] = "PR_SUSP"]
    BY <1>7 DEF Create
  <2>6. SleepersKept
    BY <2>1, <2>4, <2>5, SchedFacts DEF SleepersKept, Sleeping, Parts
  <2>7. QED
    BY <1>1, <1>2, <2>6 DEF SleepKept
<1>8. QED
  BY <1>3, <1>4, <1>5, <1>6, <1>7

-----------------------------------------------------------------------------
(* The timers after a step.                                                *)

\* The sleep queue, its members and the keys they have.
LEMMA SleepFacts ==
  ASSUME Parts, DeltaInv
  PROVE  /\ QueueOf(Pid, sleepq) /\ sleepq \in Seq(Pid) /\ Range(sleepq) \subseteq Pid
         /\ \A x \in Pid : x \in Range(sleepq) <=> prstate[x] \in Sleeping
         /\ DOMAIN qkey = Pid
         /\ \A x \in Range(sleepq) : qkey[x] \in Nat /\ qkey[x] \in Int
         /\ \A x \in Pid :
               /\ x \in Range(sleepq) => TimeLeft(x) \in Nat /\ TimeLeft(x) >= qkey[Head(sleepq)]
               /\ x \notin Range(sleepq) => TimeLeft(x) = EMPTY - 1
<1>1. QueueOf(Pid, sleepq) /\ sleepq \in Seq(Pid)
  BY DEF Parts, TypeRest, SleepQueueOK, QueueOf
<1>2. Range(sleepq) \subseteq Pid
  BY <1>1, EntryFacts
<1>3. \A x \in Pid : x \in Range(sleepq) <=> prstate[x] \in Sleeping
  BY DEF Parts, SleepQueueOK, Sleeping
<1>4. DOMAIN qkey = Pid
  BY SchedFacts DEF Parts
<1>5. \A x \in Range(sleepq) : qkey[x] \in Nat
  BY DEF DeltaInv
<1>6. \A x \in Range(sleepq) :
         Left(sleepq, qkey, x) \in Nat /\ Left(sleepq, qkey, x) >= qkey[Head(sleepq)]
  BY <1>1, <1>5, FirstIsFirst
<1>7. \A x \in Pid :
         /\ x \in Range(sleepq) => TimeLeft(x) = Left(sleepq, qkey, x)
         /\ x \notin Range(sleepq) => TimeLeft(x) = EMPTY - 1
  BY DEF TimeLeft, Left
<1>8. QED
  BY <1>1, <1>2, <1>3, <1>4, <1>5, <1>6, <1>7

\* The times that the sleep queue of the next state stands for.
LEMMA NextTimes ==
  ASSUME NEW r, QueueOf(Pid, r), NEW kz, \A x \in Range(r) : kz[x] \in Int,
         sleepq' = r, \A x \in Range(r) : qkey'[x] = kz[x]
  PROVE  \A x \in Pid : TimeLeft(x)' = IF x \in Range(r) THEN Left(r, kz, x) ELSE EMPTY - 1
<1>1. PICK kn : kn = qkey'
  OBVIOUS
<1>2. KeysOf(r, kz)
  BY MembersAt DEF QueueOf, KeysOf
<1>3. \A x \in Range(r) : kn[x] = kz[x]
  BY <1>1
<1>4. \A x \in Range(r) : Left(r, kn, x) = Left(r, kz, x)
  BY <1>2, <1>3, LeftSame
<1>5. ASSUME NEW x \in Pid
      PROVE  TimeLeft(x)' = IF x \in Range(r) THEN Left(r, kn, x) ELSE EMPTY - 1
  BY <1>1 DEF TimeLeft, Left
<1>6. QED
  BY <1>4, <1>5

\* When nothing happens to the sleep queue.
LEMMA SameTimes ==
  ASSUME Parts, DeltaInv, SleepersKept, sleepq' = sleepq
  PROVE  /\ \A x \in Pid : TimeLeft(x)' = TimeLeft(x)
         /\ \A x \in Range(sleepq') : qkey'[x] \in Nat
         /\ sleepq # <<>> => qkey'[Head(sleepq')] = qkey[Head(sleepq)]
<1>1. /\ QueueOf(Pid, sleepq) /\ Range(sleepq) \subseteq Pid
      /\ \A x \in Range(sleepq) : qkey[x] \in Nat /\ qkey[x] \in Int
      /\ \A x \in Pid : x \in Range(sleepq) <=> prstate[x] \in Sleeping
  BY SleepFacts
<1>2. \A x \in Range(sleepq) : qkey'[x] = qkey[x]
  BY <1>1 DEF SleepersKept
<1>3. PICK r, kz : r = sleepq /\ kz = qkey
  OBVIOUS
<1>4. QueueOf(Pid, r) /\ \A x \in Range(r) : kz[x] \in Int
  BY <1>1, <1>3
<1>5. sleepq' = r /\ \A x \in Range(r) : qkey'[x] = kz[x]
  BY <1>2, <1>3
<1>6. \A x \in Pid : TimeLeft(x)' = IF x \in Range(r) THEN Left(r, kz, x) ELSE EMPTY - 1
  BY <1>4, <1>5, NextTimes
<1>7. \A x \in Pid : TimeLeft(x)' = TimeLeft(x)
  BY <1>3, <1>6 DEF TimeLeft, Left
<1>8. sleepq # <<>> => Head(sleepq) \in Range(sleepq)
  BY <1>1, TailMembers
<1>9. QED
  BY <1>1, <1>2, <1>7, <1>8

\* When p goes to sleep for d ticks.
LEMMA JoinTimes ==
  ASSUME Parts, DeltaInv, NEW p \in Pid, p \notin Range(sleepq), NEW d \in Nat, d > 0,
         sleepq # <<>> => qkey[Head(sleepq)] > 0,
         sleepq' = Insertd(sleepq, p, qkey, d),
         \A x \in Range(sleepq) \cup {p} : qkey'[x] = InsertdKeys(sleepq, p, qkey, d)[x]
  PROVE  /\ TimeLeft(p)' = d /\ \A x \in Pid \ {p} : TimeLeft(x)' = TimeLeft(x)
         /\ \A x \in Range(sleepq') : qkey'[x] \in Nat
         /\ qkey'[Head(sleepq')] > 0
<1>1. /\ QueueOf(Pid, sleepq) /\ DOMAIN qkey = Pid
      /\ \A x \in Range(sleepq) : qkey[x] \in Nat
  BY SleepFacts
<1>2. PICK q, ky : q = sleepq /\ ky = qkey
  OBVIOUS
<1>3. PICK r, kz : r = Insertd(q, p, ky, d) /\ kz = InsertdKeys(q, p, ky, d)
  OBVIOUS
<1>4. /\ QueueOf(Pid, q) /\ p \notin Range(q) /\ DOMAIN ky = Pid
      /\ \A x \in Range(q) : ky[x] \in Nat
      /\ q # <<>> => ky[Head(q)] > 0
  BY <1>1, <1>2
<1>5. /\ \A x \in Range(q) : Left(r, kz, x) = Left(q, ky, x)
      /\ Left(r, kz, p) = d
      /\ \A x \in Range(r) : kz[x] \in Nat
      /\ kz[Head(r)] > 0
  BY <1>3, <1>4, DeltaInsertd
<1>6. QueueOf(Pid, r) /\ Range(r) = Range(q) \cup {p}
  BY <1>3, <1>4, InsertdMembers
<1>7. Head(r) \in Range(r)
  <2>1. r # <<>>
    BY <1>6 DEF Range
  <2>2. QED
    BY <1>6, <2>1, TailMembers
<1>8. sleepq' = r /\ \A x \in Range(r) : qkey'[x] = kz[x]
  BY <1>2, <1>3, <1>6
<1>9. \A x \in Pid : TimeLeft(x)' = IF x \in Range(r) THEN Left(r, kz, x) ELSE EMPTY - 1
  <2>1. \A x \in Range(r) : kz[x] \in Int
    BY <1>5
  <2>2. QED
    BY <1>6, <1>8, <2>1, NextTimes
<1>10. TimeLeft(p)' = d
  BY <1>5, <1>6, <1>9
<1>11. ASSUME NEW x \in Pid \ {p}
       PROVE  TimeLeft(x)' = TimeLeft(x)
  <2>1. TimeLeft(x) = IF x \in Range(q) THEN Left(q, ky, x) ELSE EMPTY - 1
    BY <1>2 DEF TimeLeft, Left
  <2>2. QED
    BY <1>5, <1>6, <1>9, <2>1
<1>12. QED
  BY <1>5, <1>7, <1>8, <1>10, <1>11

\* When p leaves the queue before its time.
LEMMA LeaveTimes ==
  ASSUME Parts, DeltaInv, NEW p \in Range(sleepq),
         qkey[Head(sleepq)] > 0,
         sleepq' = GetItem(sleepq, p),
         \A x \in Range(sleepq) \ {p} : qkey'[x] = UnsleepKeys(sleepq, p, qkey)[x]
  PROVE  /\ TimeLeft(p)' = EMPTY - 1 /\ \A x \in Pid \ {p} : TimeLeft(x)' = TimeLeft(x)
         /\ \A x \in Range(sleepq') : qkey'[x] \in Nat
         /\ sleepq' # <<>> => qkey'[Head(sleepq')] > 0
<1>1. /\ QueueOf(Pid, sleepq) /\ DOMAIN qkey = Pid
      /\ \A x \in Range(sleepq) : qkey[x] \in Nat
      /\ Range(sleepq) \subseteq Pid
  BY SleepFacts
<1>2. PICK q, ky : q = sleepq /\ ky = qkey
  OBVIOUS
<1>3. PICK r, kz : r = GetItem(q, p) /\ kz = UnsleepKeys(q, p, ky)
  OBVIOUS
<1>4. /\ QueueOf(Pid, q) /\ p \in Range(q) /\ p \in Pid /\ DOMAIN ky = Pid
      /\ \A x \in Range(q) : ky[x] \in Nat
      /\ ky[Head(q)] > 0
  BY <1>1, <1>2
<1>5. /\ \A x \in Range(q) \ {p} : Left(r, kz, x) = Left(q, ky, x)
      /\ \A x \in Range(r) : kz[x] \in Nat
      /\ r # <<>> => kz[Head(r)] > 0
  BY <1>3, <1>4, DeltaUnsleep
<1>6. QueueOf(Pid, r) /\ Range(r) = Range(q) \ {p}
  BY <1>3, <1>4, GetItemMembers
<1>7. r # <<>> => Head(r) \in Range(r)
  BY <1>6, TailMembers
<1>8. sleepq' = r /\ \A x \in Range(r) : qkey'[x] = kz[x]
  BY <1>2, <1>3, <1>6
<1>9. \A x \in Pid : TimeLeft(x)' = IF x \in Range(r) THEN Left(r, kz, x) ELSE EMPTY - 1
  <2>1. \A x \in Range(r) : kz[x] \in Int
    BY <1>5
  <2>2. QED
    BY <1>6, <1>8, <2>1, NextTimes
<1>10. TimeLeft(p)' = EMPTY - 1
  BY <1>4, <1>6, <1>9
<1>11. ASSUME NEW x \in Pid \ {p}
       PROVE  TimeLeft(x)' = TimeLeft(x)
  <2>1. TimeLeft(x) = IF x \in Range(q) THEN Left(q, ky, x) ELSE EMPTY - 1
    BY <1>2 DEF TimeLeft, Left
  <2>2. QED
    BY <1>5, <1>6, <1>9, <2>1
<1>12. QED
  BY <1>5, <1>7, <1>8, <1>10, <1>11

-----------------------------------------------------------------------------
(* Every step is a step of Timers.                                         *)

\* A step that has nothing to do with the sleep queue may deliver messages to
\* others, and start processes.
LEMMA QuietTimers ==
  ASSUME Parts, DeltaInv, SleepKept, [Next]_vars,
         \A x \in Pid : Live(x) => Live(x)'
  PROVE  ProcTimers!Other /\ DeltaInv'
<1>1. /\ \A x \in Pid : TimeLeft(x)' = TimeLeft(x)
      /\ \A x \in Range(sleepq') : qkey'[x] \in Nat
      /\ sleepq # <<>> => qkey'[Head(sleepq')] = qkey[Head(sleepq)]
  BY SameTimes DEF SleepKept
<1>2. sleepq' # <<>> => qkey'[Head(sleepq')] > 0
  <2>1. sleepq # <<>> => Head(sleepq) \in Range(sleepq)
    BY SleepFacts, TailMembers
  <2>2. sleepq # <<>> => qkey[Head(sleepq)] \in Nat
    BY <2>1 DEF DeltaInv
  <2>3. sleepq # <<>> => qkey[Head(sleepq)] > 0
    BY <2>2 DEF DeltaInv, SleepKept, FirstIsDue
  <2>4. QED
    BY <1>1, <2>3 DEF SleepKept
<1>3. \A x \in Pid : prstate'[x] = "PR_RECTIM" <=> prstate[x] = "PR_RECTIM"
  BY DEF SleepKept, SleepersKept, Sleeping
<1>4. ASSUME NEW x \in Pid, prstate[x] = "PR_RECTIM"
      PROVE  ~prhasmsg'[x]
  <2>1. ~prhasmsg[x] /\ prhasmsg \in [Pid -> BOOLEAN]
    BY <1>4 DEF DeltaInv, Parts, TypeRest
  <2>2. ASSUME NEW p \in Pid, NEW msg \in Nat, Deliver(p, msg)
        PROVE  ~prhasmsg'[x]
    <3>1. prhasmsg' = [prhasmsg EXCEPT ![p] = TRUE]
      BY <2>2 DEF Deliver
    <3>2. p # x
      <4>1. SUFFICES ASSUME p = x PROVE FALSE
        OBVIOUS
      <4>2. ReadyWith(x, UnsleepKeys(sleepq, x, qkey))
        BY <1>4, <2>2, <4>1 DEF Deliver
      <4>3. DOMAIN UnsleepKeys(sleepq, x, qkey) = Pid /\ prstate[x] \notin Eligible
        BY <1>4, SleepFacts, UnsleepKept DEF Sleeping, Eligible
      <4>4. prstate'[x] \in Eligible
        BY <4>2, <4>3, ReadyKeys
      <4>5. QED
        BY <1>3, <1>4, <4>4 DEF Eligible
    <3>3. QED
      BY <2>1, <3>1, <3>2
  <2>3. CASE UNCHANGED msgVars \/ TakeMessage
    BY <2>1, <2>3 DEF msgVars, TakeMessage
  <2>4. ASSUME NEW p \in FreePids, prhasmsg' = [prhasmsg EXCEPT ![p] = FALSE]
        PROVE  ~prhasmsg'[x]
    BY <2>1, <2>4
  <2>5. QED
    BY <2>2, <2>3, <2>4, MailSteps
<1>5. DeltaInv'
  BY <1>1, <1>2, <1>3, <1>4 DEF DeltaInv
<1>6. ProcTimers!Other
  BY <1>1, <1>3, <1>4 DEF ProcTimers!Other
<1>7. QED
  BY <1>5, <1>6

\* sleepms and recvtime start a timer.
LEMMA StartTimers ==
  ASSUME Parts, DeltaInv, NEW op, op # "wakeup", Calls(op), NEW s \in Sleeping,
         NEW d \in Nat, d > 0,
         sleepq' = Insertd(sleepq, currpid, qkey, d),
         Block(s, InsertdKeys(sleepq, currpid, qkey, d)),
         s = "PR_RECTIM" => ~prhasmsg[currpid],
         prhasmsg' = prhasmsg
  PROVE  (\E p \in Pid : ProcTimers!Start(p)) /\ DeltaInv'
<1> DEFINE kz == InsertdKeys(sleepq, currpid, qkey, d)
<1>1. /\ currpid \in Pid /\ currpid # NULLPROC /\ prstate[currpid] = "PR_CURR" /\ ndefers = 0
      /\ cont[currpid].op # "wakeup"
  BY CallFacts, NotInWakeup
<1>2. s \in PrState \ Eligible /\ s # "PR_FREE"
  BY DEF PrState, Eligible, Sleeping
<1>3. DOMAIN kz = Pid
  BY <1>1, InsertdOK DEF Sleeping
<1>4. /\ prstate'[currpid] = s /\ \A x \in Pid \ {currpid} : Keeps(x)
      /\ \A x \in Pid : x = currpid \/ prstate[x] \in Sleeping => qkey'[x] = kz[x]
  BY <1>1, <1>2, <1>3, BlockKeys
<1>5. /\ currpid \notin Range(sleepq) /\ Range(sleepq) \subseteq Pid
      /\ \A x \in Range(sleepq) : prstate[x] \in Sleeping
      /\ TimeLeft(currpid) = EMPTY - 1
  BY <1>1, SleepFacts DEF Sleeping
<1>6. \A x \in Range(sleepq) \cup {currpid} : qkey'[x] = kz[x]
  BY <1>1, <1>4, <1>5
<1>7. sleepq # <<>> => qkey[Head(sleepq)] > 0
  BY <1>1 DEF DeltaInv
<1> HIDE DEF kz
<1>8. PICK p \in Pid : p = currpid
  BY <1>1
<1>9. /\ TimeLeft(p)' = d /\ \A x \in Pid \ {p} : TimeLeft(x)' = TimeLeft(x)
      /\ \A x \in Range(sleepq') : qkey'[x] \in Nat
      /\ qkey'[Head(sleepq')] > 0
  BY <1>5, <1>6, <1>7, <1>8, JoinTimes DEF kz
<1>10. /\ prstate'[p] = s /\ prstate[p] = "PR_CURR"
       /\ \A x \in Pid \ {p} : /\ prstate'[x] = "PR_RECTIM" <=> prstate[x] = "PR_RECTIM"
                               /\ Live(x)' <=> Live(x)
  BY <1>1, <1>4, <1>8 DEF Keeps, Eligible, Live
<1>11. Live(p) /\ Live(p)' /\ TimeLeft(p) = EMPTY - 1
  BY <1>2, <1>5, <1>8, <1>10 DEF Live
<1>12. DeltaInv'
  BY <1>8, <1>9, <1>10 DEF DeltaInv
<1>13. ProcTimers!Start(p)
  <2>1. ~ProcTimers!Running(p)
    BY <1>11 DEF ProcTimers!Running
  <2>2. [x \in Pid |-> TimeLeft(x)]'[p] \in Nat \ {0}
    BY <1>9
  <2>3. [x \in Pid |-> prstate[x] = "PR_RECTIM"]'[p] => ~prhasmsg[p]
    BY <1>8, <1>10
  <2>4. \A q \in Pid \ {p} :
           /\ [x \in Pid |-> TimeLeft(x)]'[q] = [x \in Pid |-> TimeLeft(x)][q]
           /\ [x \in Pid |-> prstate[x] = "PR_RECTIM"]'[q]
                 = [x \in Pid |-> prstate[x] = "PR_RECTIM"][q]
    BY <1>9, <1>10
  <2>5. [x \in Pid |-> Live(x)]' = [x \in Pid |-> Live(x)]
    BY <1>10, <1>11 DEF Live
  <2>6. QED
    BY <2>1, <2>2, <2>3, <2>4, <2>5 DEF ProcTimers!Start
<1>14. QED
  BY <1>8, <1>12, <1>13

\* clkhandler counts the timers down.
LEMMA TickTimers ==
  ASSUME Parts, DeltaInv, ClkHandler
  PROVE  ProcTimers!Tick /\ DeltaInv'
<1>1. /\ cont[currpid] = Run /\ cont[currpid].op # "wakeup"
      /\ qkey' = IF sleepq = <<>> THEN qkey ELSE [qkey EXCEPT ![Head(sleepq)] = @ - 1]
      /\ UNCHANGED <<prstate, currpid, msgVars, sleepq>>
      /\ \/ DueAtThisTick /\ ContinueWith(Wakeup1)
         \/ ~DueAtThisTick
  BY RunIsCont DEF ClkHandler
<1>2. /\ QueueOf(Pid, sleepq) /\ Range(sleepq) \subseteq Pid /\ DOMAIN qkey = Pid
      /\ \A x \in Range(sleepq) : qkey[x] \in Nat /\ qkey[x] \in Int
      /\ \A x \in Pid :
            /\ x \in Range(sleepq) => TimeLeft(x) \in Nat /\ TimeLeft(x) >= qkey[Head(sleepq)]
            /\ x \notin Range(sleepq) => TimeLeft(x) = EMPTY - 1
  BY SleepFacts
<1>3. sleepq # <<>> => qkey[Head(sleepq)] > 0
  BY <1>1 DEF DeltaInv
<1>4. sleepq # <<>> => Head(sleepq) \in Range(sleepq)
  BY <1>2, TailMembers
<1>5. sleepq = <<>> => Range(sleepq) = {}
  BY DEF Range
<1>6. \A x \in Pid : TimeLeft(x) # EMPTY - 1 <=> x \in Range(sleepq)
  BY <1>2 DEF EMPTY
<1>7. \A x \in Pid : TimeLeft(x)' = IF x \in Range(sleepq) THEN TimeLeft(x) - 1 ELSE EMPTY - 1
  <2>1. CASE sleepq = <<>>
    BY <1>1, <1>5, <2>1 DEF TimeLeft
  <2>2. CASE sleepq # <<>>
    <3>1. PICK q, ky : q = sleepq /\ ky = qkey
      OBVIOUS
    <3>2. PICK kz : kz = [ky EXCEPT ![Head(q)] = @ - 1]
      OBVIOUS
    <3>3. /\ QueueOf(Pid, q) /\ q # <<>> /\ DOMAIN ky = Pid
          /\ \A x \in Range(q) : ky[x] \in Int
      BY <1>2, <2>2, <3>1
    <3>4. \A x \in Range(q) : Left(q, kz, x) = Left(q, ky, x) - 1
      <4>1. kz[Head(q)] = ky[Head(q)] - 1 /\ \A x \in Range(q) \ {Head(q)} : kz[x] = ky[x]
        BY <1>2, <1>4, <2>2, <3>1, <3>2
      <4>2. QED
        BY <3>3, <4>1, DeltaTick
    <3>5. \A x \in Range(q) : kz[x] \in Int
      BY <1>2, <3>1, <3>2, <3>3
    <3>6. sleepq' = q /\ \A x \in Range(q) : qkey'[x] = kz[x]
      BY <1>1, <2>2, <3>1, <3>2
    <3>7. \A x \in Pid : TimeLeft(x)' = IF x \in Range(q) THEN Left(q, kz, x) ELSE EMPTY - 1
      BY <3>3, <3>5, <3>6, NextTimes
    <3>8. \A x \in Range(q) : TimeLeft(x) = Left(q, ky, x)
      BY <3>1 DEF TimeLeft, Left
    <3>9. QED
      BY <3>1, <3>4, <3>7, <3>8
  <2>3. QED
    BY <2>1, <2>2
<1>8. \A x \in Range(sleepq') : qkey'[x] \in Nat
  BY <1>1, <1>2, <1>3, <1>4, <1>5
<1>9. sleepq' # <<>> /\ cont'[currpid'].op # "wakeup" => qkey'[Head(sleepq')] > 0
  <2>1. CASE DueAtThisTick
    <3>1. cont' = [cont EXCEPT ![currpid] = Wakeup1] /\ cont \in [Pid -> Cont] /\ currpid \in Pid
      BY <1>1, <2>1, SchedFacts DEF ContinueWith, Parts, TypeRest
    <3>2. cont'[currpid'].op = "wakeup"
      BY <1>1, <3>1 DEF Wakeup1
    <3>3. QED
      BY <3>2
  <2>2. CASE ~DueAtThisTick /\ sleepq # <<>>
    <3>1. ~(qkey[Head(sleepq)] - 1 <= 0) /\ Head(sleepq) \in Pid
      BY <1>2, <1>4, <2>2 DEF DueAtThisTick
    <3>2. qkey'[Head(sleepq')] = qkey[Head(sleepq)] - 1
      BY <1>1, <1>2, <2>2, <3>1
    <3>3. QED
      BY <1>2, <1>4, <2>2, <3>1, <3>2
  <2>3. QED
    BY <1>1, <2>1, <2>2
<1>10. DeltaInv'
  BY <1>1, <1>8, <1>9 DEF DeltaInv, msgVars
<1>11. ProcTimers!Tick
  <2>1. \A p \in Pid : ProcTimers!Running(p) => [x \in Pid |-> TimeLeft(x)][p] > 0
    <3>1. ASSUME NEW p \in Pid, ProcTimers!Running(p)
          PROVE  TimeLeft(p) > 0
      <4>1. p \in Range(sleepq)
        BY <1>6, <3>1 DEF ProcTimers!Running
      <4>2. TimeLeft(p) \in Nat /\ TimeLeft(p) >= qkey[Head(sleepq)]
        BY <1>2, <4>1
      <4>3. qkey[Head(sleepq)] > 0 /\ qkey[Head(sleepq)] \in Nat
        BY <1>2, <1>3, <1>4, <1>5, <4>1
      <4>4. QED
        BY <4>2, <4>3
    <3>2. QED
      BY <3>1
  <2>2. [x \in Pid |-> TimeLeft(x)]'
           = [p \in Pid |-> IF ProcTimers!Running(p) THEN [x \in Pid |-> TimeLeft(x)][p] - 1
                                                     ELSE EMPTY - 1]
    BY <1>6, <1>7 DEF ProcTimers!Running
  <2>3. UNCHANGED <<[x \in Pid |-> prstate[x] = "PR_RECTIM"], prhasmsg, [x \in Pid |-> Live(x)]>>
    BY <1>1 DEF Live, msgVars
  <2>4. QED
    BY <2>1, <2>2, <2>3 DEF ProcTimers!Tick
<1>12. QED
  BY <1>10, <1>11

\* wakeup makes those ready whose timer has gone off.
LEMMA WakeupTimers ==
  ASSUME Parts, DeltaInv, WakeupStep
  PROVE  (\E p \in Pid : ProcTimers!GoesOff(p)) /\ DeltaInv'
<1>1. /\ Resumes("wakeup") /\ sleepq # <<>> /\ qkey[Head(sleepq)] <= 0
      /\ sleepq' = Tail(sleepq) /\ ReadyWith(Head(sleepq), qkey)
      /\ UNCHANGED <<msgVars, cont>>
  BY DEF WakeupStep, FirstIsDue, Ready
<1>2. /\ cont[currpid].op = "wakeup" /\ ndefers = 1 /\ currpid \in Pid
  BY <1>1, DeferredFacts DEF Deferred
<1>3. /\ QueueOf(Pid, sleepq) /\ Range(sleepq) \subseteq Pid /\ DOMAIN qkey = Pid
      /\ \A x \in Range(sleepq) : qkey[x] \in Nat /\ qkey[x] \in Int
      /\ \A x \in Pid : x \in Range(sleepq) <=> prstate[x] \in Sleeping
  BY SleepFacts
<1>4. PICK p \in Pid : p = Head(sleepq) /\ p \in Range(sleepq)
  BY <1>1, <1>3, TailMembers
<1>5. qkey[p] = 0 /\ qkey[Head(sleepq)] = 0
  BY <1>1, <1>3, <1>4
<1>6. prstate[p] \in Sleeping /\ prstate[p] \notin Eligible
  BY <1>3, <1>4 DEF Sleeping, Eligible
<1>7. /\ prstate'[p] \in Eligible /\ \A x \in Pid \ {p} : Keeps(x)
      /\ \A x \in Pid \ {p} : prstate[x] \in Sleeping => qkey'[x] = qkey[x]
  BY <1>1, <1>3, <1>4, <1>6, ReadyKeys
<1>8. currpid' = currpid
  BY <1>1, <1>2, <1>3, <1>4, <1>6, ReadyOK DEF Parts
<1>9. PICK q, ky : q = sleepq /\ ky = qkey
  OBVIOUS
<1>10. /\ QueueOf(Pid, q) /\ q # <<>> /\ DOMAIN ky = Pid /\ p = Head(q) /\ ky[Head(q)] = 0
       /\ \A x \in Range(q) : ky[x] \in Nat /\ ky[x] \in Int
  BY <1>1, <1>3, <1>4, <1>5, <1>9
<1>11. QueueOf(Pid, Tail(q)) /\ Range(Tail(q)) = Range(q) \ {p}
  BY <1>10, TailMembers
<1>12. \A x \in Range(q) \ {p} : Left(Tail(q), ky, x) = Left(q, ky, x) - ky[Head(q)]
  BY <1>10, DeltaFirstOut
<1>13. sleepq' = Tail(q) /\ \A x \in Range(Tail(q)) : qkey'[x] = ky[x]
  BY <1>1, <1>3, <1>7, <1>9, <1>11
<1>14. \A x \in Pid : TimeLeft(x)' = IF x \in Range(Tail(q)) THEN Left(Tail(q), ky, x) ELSE EMPTY - 1
  <2>1. PICK r : r = Tail(q)
    OBVIOUS
  <2>2. QueueOf(Pid, r) /\ (\A x \in Range(r) : ky[x] \in Int) /\ sleepq' = r
    BY <1>10, <1>11, <1>13, <2>1
  <2>3. \A x \in Range(r) : qkey'[x] = ky[x]
    BY <1>13, <2>1
  <2>4. \A x \in Pid : TimeLeft(x)' = IF x \in Range(r) THEN Left(r, ky, x) ELSE EMPTY - 1
    BY <2>2, <2>3, NextTimes
  <2>5. QED
    BY <2>1, <2>4
<1>15. \A x \in Pid : TimeLeft(x) = IF x \in Range(q) THEN Left(q, ky, x) ELSE EMPTY - 1
  BY <1>9 DEF TimeLeft, Left
<1>16. \A x \in Range(q) : Left(q, ky, x) \in Nat
  BY <1>10, FirstIsFirst
<1>17. TimeLeft(p) = 0
  <2>1. q \in Seq(Pid) /\ Len(q) \in Nat \ {0} /\ Head(q) = q[1] /\ 1 \in 1 .. Len(q)
    BY <1>10, EmptySeq DEF QueueOf
  <2>2. Left(q, ky, q[1]) = Elapsed(q, ky)[1]
    BY <1>10, <2>1, LeftAt
  <2>3. \A i \in 1 .. Len(q) : ky[q[i]] \in Int
    BY <1>10, <2>1, MembersAt
  <2>4. Elapsed(q, ky)[0] = 0 /\ Elapsed(q, ky)[1] = Elapsed(q, ky)[1 - 1] + ky[q[1]]
    BY <2>1, <2>3, ElapsedSums
  <2>5. Elapsed(q, ky)[1] = 0
    BY <1>10, <2>1, <2>4
  <2>6. QED
    BY <1>4, <1>9, <1>10, <1>15, <2>1, <2>2, <2>5
<1>18. TimeLeft(p)' = EMPTY - 1 /\ \A x \in Pid \ {p} : TimeLeft(x)' = TimeLeft(x)
  BY <1>10, <1>11, <1>12, <1>14, <1>15, <1>16
<1>19. \A x \in Pid : prstate'[x] = "PR_RECTIM" <=> x # p /\ prstate[x] = "PR_RECTIM"
  BY <1>7 DEF Keeps, Eligible
<1>20. DeltaInv'
  <2>1. \A x \in Range(sleepq') : qkey'[x] \in Nat
    BY <1>10, <1>11, <1>13
  <2>2. QED
    BY <1>1, <1>2, <1>8, <1>19, <2>1 DEF DeltaInv, msgVars
<1>21. ProcTimers!GoesOff(p)
  <2>1. ProcTimers!Running(p) /\ [x \in Pid |-> TimeLeft(x)][p] <= 0
    BY <1>17 DEF ProcTimers!Running, EMPTY
  <2>2. [x \in Pid |-> TimeLeft(x)]' = [[x \in Pid |-> TimeLeft(x)] EXCEPT ![p] = EMPTY - 1]
    BY <1>18
  <2>3. [x \in Pid |-> prstate[x] = "PR_RECTIM"]'
           = [[x \in Pid |-> prstate[x] = "PR_RECTIM"] EXCEPT ![p] = FALSE]
    BY <1>19
  <2>4. [x \in Pid |-> Live(x)]' = [x \in Pid |-> Live(x)]
    BY <1>6, <1>7 DEF Live, Keeps, Eligible, Sleeping
  <2>5. prhasmsg' = prhasmsg
    BY <1>1 DEF msgVars
  <2>6. QED
    BY <2>1, <2>2, <2>3, <2>4, <2>5 DEF ProcTimers!GoesOff, ProcTimers!Stop
<1>22. QED
  BY <1>20, <1>21

\* A message stops the timer of the process that waits for it.
LEMMA AnswerTimers ==
  ASSUME Parts, DeltaInv, cont[currpid].op # "wakeup",
         NEW p \in Pid, prstate[p] = "PR_RECTIM", NEW msg, Deliver(p, msg)
  PROVE  ProcTimers!Answered(p) /\ DeltaInv'
<1>1. /\ prhasmsg' = [prhasmsg EXCEPT ![p] = TRUE]
      /\ sleepq' = GetItem(sleepq, p) /\ ReadyWith(p, UnsleepKeys(sleepq, p, qkey))
  BY DEF Deliver
<1>2. /\ Range(sleepq) \subseteq Pid /\ p \in Range(sleepq)
      /\ \A x \in Pid : x \in Range(sleepq) <=> prstate[x] \in Sleeping
  BY SleepFacts DEF Sleeping
<1>3. sleepq # <<>> /\ qkey[Head(sleepq)] > 0
  <2>1. sleepq # <<>>
    BY <1>2 DEF Range
  <2>2. QED
    BY <2>1 DEF DeltaInv
<1>4. /\ prstate'[p] \in Eligible /\ \A x \in Pid \ {p} : Keeps(x)
      /\ \A x \in Pid \ {p} : prstate[x] \in Sleeping
                                 => qkey'[x] = UnsleepKeys(sleepq, p, qkey)[x]
  BY <1>1, <1>2, UnsleepKept, ReadyKeys DEF Eligible
<1>5. /\ TimeLeft(p)' = EMPTY - 1 /\ \A x \in Pid \ {p} : TimeLeft(x)' = TimeLeft(x)
      /\ \A x \in Range(sleepq') : qkey'[x] \in Nat
      /\ sleepq' # <<>> => qkey'[Head(sleepq')] > 0
  BY <1>1, <1>2, <1>3, <1>4, LeaveTimes
<1>6. \A x \in Pid : prstate'[x] = "PR_RECTIM" <=> x # p /\ prstate[x] = "PR_RECTIM"
  BY <1>4 DEF Keeps, Eligible
<1>7. \A x \in Pid \ {p} : prhasmsg'[x] = prhasmsg[x]
  BY <1>1 DEF Parts, TypeRest
<1>8. DeltaInv'
  BY <1>5, <1>6, <1>7 DEF DeltaInv
<1>9. ProcTimers!Answered(p)
  <2>1. [x \in Pid |-> TimeLeft(x)]' = [[x \in Pid |-> TimeLeft(x)] EXCEPT ![p] = EMPTY - 1]
    BY <1>5
  <2>2. [x \in Pid |-> prstate[x] = "PR_RECTIM"]'
           = [[x \in Pid |-> prstate[x] = "PR_RECTIM"] EXCEPT ![p] = FALSE]
    BY <1>6
  <2>3. [x \in Pid |-> Live(x)]' = [x \in Pid |-> Live(x)]
    BY <1>4 DEF Live, Keeps, Eligible
  <2>4. QED
    BY <1>1, <2>1, <2>2, <2>3 DEF ProcTimers!Answered, ProcTimers!Stop
<1>10. QED
  BY <1>8, <1>9

\* The end of a process that sleeps stops its timer.
LEMMA DieTimers ==
  ASSUME Parts, DeltaInv, [Next]_vars, KillDone
  PROVE  (ProcTimers!Other \/ \E p \in Pid : ProcTimers!Dies(p)) /\ DeltaInv'
<1>1. /\ Resumes("kill") /\ Withdraw(cont[currpid].arg) /\ UNCHANGED msgVars
  BY DEF KillDone
<1>2. /\ currpid \in Pid /\ prstate[currpid] = "PR_CURR" /\ cont[currpid].op = "kill"
      /\ ndefers = 0 /\ cont[currpid].op # "wakeup"
  BY <1>1, ResumeFacts DEF Deferred
<1>3. PICK p \in Pid \ {NULLPROC} : p = cont[currpid].arg
  BY <1>2 DEF Parts, ContOK
<1>4. /\ Withdraw(p) /\ prstate \in [Pid -> PrState] /\ DOMAIN qkey = Pid
      /\ prstate[p] = "PR_CURR" => p = currpid
  BY <1>1, <1>3, SchedFacts DEF Parts
<1>5. /\ QueueOf(Pid, sleepq) /\ Range(sleepq) \subseteq Pid
      /\ \A x \in Pid : x \in Range(sleepq) <=> prstate[x] \in Sleeping
      /\ \A x \in Pid : x \notin Range(sleepq) => TimeLeft(x) = EMPTY - 1
  BY SleepFacts
<1> DEFINE Gone == /\ prstate'[p] = "PR_FREE"
                   /\ \A x \in Pid \ {p} : Keeps(x)
                   /\ \A x \in Pid \ {p} : TimeLeft(x)' = TimeLeft(x)
                   /\ TimeLeft(p)' = EMPTY - 1
                   /\ \A x \in Range(sleepq') : qkey'[x] \in Nat
                   /\ sleepq' # <<>> => qkey'[Head(sleepq')] > 0
<1>6. ASSUME prstate[p] \in Sleeping
      PROVE  Gone
  <2>1. /\ prstate' = [prstate EXCEPT ![p] = "PR_FREE"]
        /\ qkey' = UnsleepKeys(sleepq, p, qkey) /\ sleepq' = GetItem(sleepq, p)
    BY <1>4, <1>6 DEF Withdraw, WithdrawLeaving, Sleeping
  <2>2. p \in Range(sleepq)
    BY <1>5, <1>6
  <2>3. sleepq # <<>> /\ qkey[Head(sleepq)] > 0
    <3>1. sleepq # <<>>
      BY <2>2 DEF Range
    <3>2. QED
      BY <1>2, <3>1 DEF DeltaInv
  <2>4. /\ TimeLeft(p)' = EMPTY - 1 /\ \A x \in Pid \ {p} : TimeLeft(x)' = TimeLeft(x)
        /\ \A x \in Range(sleepq') : qkey'[x] \in Nat
        /\ sleepq' # <<>> => qkey'[Head(sleepq')] > 0
    BY <2>1, <2>2, <2>3, LeaveTimes
  <2>5. prstate'[p] = "PR_FREE" /\ \A x \in Pid \ {p} : Keeps(x)
    BY <1>4, <2>1 DEF Keeps
  <2>6. QED
    BY <2>4, <2>5
<1>7. ASSUME prstate[p] \notin Sleeping
      PROVE  Gone
  <2>1. SleepersKept /\ sleepq' = sleepq /\ prstate'[p] = "PR_FREE" /\ \A x \in Pid \ {p} : Keeps(x)
    <3>1. CASE prstate[p] = "PR_CURR" /\ Block("PR_FREE", qkey) /\ sleepq' = sleepq
      <4>1. p = currpid /\ currpid # NULLPROC /\ "PR_FREE" \in PrState \ Eligible
        BY <1>3, <1>4, <3>1 DEF PrState, Eligible
      <4>2. /\ prstate'[currpid] = "PR_FREE" /\ \A x \in Pid \ {currpid} : Keeps(x)
            /\ \A x \in Pid : x = currpid \/ prstate[x] \in Sleeping => qkey'[x] = qkey[x]
        BY <1>2, <1>4, <3>1, <4>1, BlockKeys
      <4>3. SleepersKept
        BY <1>7, <4>1, <4>2 DEF SleepersKept, Keeps, Eligible, Sleeping
      <4>4. QED
        BY <3>1, <4>1, <4>2, <4>3
    <3>2. CASE prstate' = [prstate EXCEPT ![p] = "PR_FREE"] /\ qkey' = qkey /\ sleepq' = sleepq
      BY <1>4, <1>7, <3>2 DEF SleepersKept, Keeps, Sleeping
    <3>3. QED
      BY <1>4, <1>7, <3>1, <3>2 DEF Withdraw, WithdrawLeaving, Sleeping
  <2>2. /\ \A x \in Pid : TimeLeft(x)' = TimeLeft(x)
        /\ \A x \in Range(sleepq') : qkey'[x] \in Nat
        /\ sleepq # <<>> => qkey'[Head(sleepq')] = qkey[Head(sleepq)]
    BY <2>1, SameTimes
  <2>3. sleepq' # <<>> => qkey'[Head(sleepq')] > 0
    BY <1>2, <2>1, <2>2 DEF DeltaInv
  <2>4. TimeLeft(p)' = EMPTY - 1
    BY <1>5, <1>7, <2>2
  <2>5. QED
    BY <2>1, <2>2, <2>3, <2>4
<1>8. Gone
  BY <1>6, <1>7
<1>9. \A x \in Pid : /\ prstate'[x] = "PR_RECTIM" <=> x # p /\ prstate[x] = "PR_RECTIM"
                     /\ Live(x)' <=> Live(x) /\ x # p
  BY <1>8 DEF Keeps, Eligible, Live
<1>10. DeltaInv'
  BY <1>1, <1>8, <1>9 DEF DeltaInv, msgVars
<1>11. CASE Live(p)
  <2>1. [x \in Pid |-> TimeLeft(x)]' = [[x \in Pid |-> TimeLeft(x)] EXCEPT ![p] = EMPTY - 1]
    BY <1>8
  <2>2. [x \in Pid |-> prstate[x] = "PR_RECTIM"]'
           = [[x \in Pid |-> prstate[x] = "PR_RECTIM"] EXCEPT ![p] = FALSE]
    BY <1>9
  <2>3. [x \in Pid |-> Live(x)]' = [[x \in Pid |-> Live(x)] EXCEPT ![p] = FALSE]
    BY <1>9 DEF Live
  <2>4. [x \in Pid |-> Live(x)][p] /\ prhasmsg' = prhasmsg
    BY <1>1, <1>11 DEF msgVars
  <2>5. ProcTimers!Dies(p)
    BY <2>1, <2>2, <2>3, <2>4 DEF ProcTimers!Dies, ProcTimers!Stop
  <2>6. QED
    BY <1>10, <2>5
<1>12. CASE ~Live(p)
  <2>1. prstate[p] \notin Sleeping /\ TimeLeft(p) = EMPTY - 1
    BY <1>5, <1>12 DEF Live, Sleeping
  <2>2. [x \in Pid |-> TimeLeft(x)]' = [x \in Pid |-> TimeLeft(x)]
    BY <1>8, <2>1
  <2>3. [x \in Pid |-> prstate[x] = "PR_RECTIM"]' = [x \in Pid |-> prstate[x] = "PR_RECTIM"]
    BY <1>9, <2>1 DEF Sleeping
  <2>4. \A x \in Pid : Live(x) => Live(x)'
    BY <1>9, <1>12
  <2>5. \A x \in Pid : prstate[x] = "PR_RECTIM" => ~prhasmsg'[x]
    BY <1>1 DEF DeltaInv, msgVars
  <2>6. ProcTimers!Other
    BY <2>2, <2>3, <2>4, <2>5 DEF ProcTimers!Other
  <2>7. QED
    BY <1>10, <2>6
<1>13. QED
  BY <1>11, <1>12

\* send, and the message of kill to the parent.
LEMMA SendTimers ==
  ASSUME Parts, DeltaInv, [Next]_vars, NEW p \in Pid, NEW msg, Deliver(p, msg),
         cont[currpid].op # "wakeup", \A x \in Pid : Live(x) => Live(x)'
  PROVE  (ProcTimers!Other \/ ProcTimers!Answered(p)) /\ DeltaInv'
<1>1. CASE prstate[p] = "PR_RECTIM"
  BY <1>1, AnswerTimers
<1>2. CASE prstate[p] # "PR_RECTIM"
  <2>1. SleepKept
    BY <1>2, DeliverSleep DEF SleepKept
  <2>2. QED
    BY <2>1, QuietTimers
<1>3. QED
  BY <1>1, <1>2

\* What Timers allows.
TimersStep == [ProcTimers!Next]_(ProcTimers!timerVars)

LEMMA TimersNext ==
  ASSUME Parts, DeltaInv, 0 \notin Delays, [Next]_vars
  PROVE  TimersStep /\ DeltaInv'
<1>1. CASE UNCHANGED vars
  <2>1. UNCHANGED <<sleepq, qkey, prstate, prhasmsg, cont, currpid>>
    BY <1>1 DEF vars, schedVars, msgVars
  <2>2. DeltaInv'
    BY <2>1 DEF DeltaInv
  <2>3. UNCHANGED <<[x \in Pid |-> TimeLeft(x)], [x \in Pid |-> prstate[x] = "PR_RECTIM"],
                    prhasmsg, [x \in Pid |-> Live(x)]>>
    BY <2>1 DEF TimeLeft, Live
  <2>4. QED
    BY <2>2, <2>3 DEF TimersStep, ProcTimers!timerVars
<1>2. ASSUME SleepKept, \A x \in Pid : Live(x) => Live(x)'
      PROVE  TimersStep /\ DeltaInv'
  BY <1>2, QuietTimers DEF TimersStep, ProcTimers!Next
<1>3. CASE SemCalls \/ SemSteps \/ WakeupDone \/ ClkTail \/ ReceiveNow \/ ReceiveBlock \/ MsgSteps
  <2>1. SleepKept
    BY <1>3, SemSleep, ClockSleep, ReceiveSleep
  <2>2. LifeKept
    BY <1>3, SemLife, ClockLife, MsgLife DEF MsgCalls
  <2>3. \A x \in Pid : Live(x) => Live(x)'
    BY <2>2 DEF LifeKept, FreeKept, Live
  <2>4. QED
    BY <1>2, <2>1, <2>3
<1>4. ASSUME NEW d \in Delays, Sleepms(d)
      PROVE  TimersStep /\ DeltaInv'
  <2>1. /\ Calls("sleepms") /\ d > 0
        /\ sleepq' = Insertd(sleepq, currpid, qkey, d)
        /\ Block("PR_SLEEP", InsertdKeys(sleepq, currpid, qkey, d))
        /\ prhasmsg' = prhasmsg
    BY <1>4 DEF Sleepms, msgVars
  <2>2. d \in Nat /\ "PR_SLEEP" \in Sleeping
    BY DelaysAssumption DEF Sleeping
  <2>3. (\E p \in Pid : ProcTimers!Start(p)) /\ DeltaInv'
    BY <2>1, <2>2, StartTimers
  <2>4. QED
    BY <2>3 DEF TimersStep, ProcTimers!Next
<1>5. ASSUME NEW d \in Delays, RecvtimeBlock(d)
      PROVE  TimersStep /\ DeltaInv'
  <2>1. /\ Calls("recvtime") /\ ~prhasmsg[currpid]
        /\ sleepq' = Insertd(sleepq, currpid, qkey, d)
        /\ Block("PR_RECTIM", InsertdKeys(sleepq, currpid, qkey, d))
        /\ prhasmsg' = prhasmsg
    BY <1>5 DEF RecvtimeBlock, msgVars
  <2>2. d \in Nat /\ d > 0 /\ "PR_RECTIM" \in Sleeping
    BY DelaysAssumption DEF Sleeping
  <2>3. (\E p \in Pid : ProcTimers!Start(p)) /\ DeltaInv'
    BY <2>1, <2>2, StartTimers
  <2>4. QED
    BY <2>3 DEF TimersStep, ProcTimers!Next
<1>6. CASE ClkHandler
  BY <1>6, TickTimers DEF TimersStep, ProcTimers!Next
<1>7. CASE WakeupStep
  BY <1>7, WakeupTimers DEF TimersStep, ProcTimers!Next
<1>8. ASSUME NEW p \in Pid, NEW msg \in Msgs, Send(p, msg)
      PROVE  TimersStep /\ DeltaInv'
  <2>1. Calls("send") /\ Deliver(p, msg)
    BY <1>8 DEF Send
  <2>2. LifeKept
    BY <1>8, MsgLife DEF MsgCalls
  <2>3. \A x \in Pid : Live(x) => Live(x)'
    BY <2>2 DEF LifeKept, FreeKept, Live
  <2>4. cont[currpid].op # "wakeup"
    BY <2>1, NotInWakeup
  <2>5. QED
    BY <2>1, <2>3, <2>4, SendTimers DEF TimersStep, ProcTimers!Next
<1>9. ASSUME NEW p \in Pid,
             \/ Resume(p) \/ Suspend(p) \/ Yield
             \/ \E newprio \in Prios : Chprio(p, newprio)
             \/ \E prio \in Prios : Create(prio)
      PROVE  TimersStep /\ DeltaInv'
  <2>1. SleepKept
    BY <1>9, ProcSleep
  <2>2. \A x \in Pid : Live(x) => Live(x)'
    <3>1. CASE \E prio \in Prios : Create(prio)
      <4>1. prstate' = prstate \/ prstate' = [prstate EXCEPT ![NewPid] = "PR_SUSP"]
        BY <3>1 DEF Create
      <4>2. QED
        BY <4>1, SchedFacts DEF Live, Parts
    <3>2. CASE ~\E prio \in Prios : Create(prio)
      BY <1>9, <3>2, ProcLife DEF LifeKept, FreeKept, Live
    <3>3. QED
      BY <3>1, <3>2
  <2>3. QED
    BY <1>2, <2>1, <2>2
<1>10. ASSUME NEW victim \in Pid, Kill(victim)
       PROVE  TimersStep /\ DeltaInv'
  <2>1. cont[currpid].op # "wakeup"
    BY <1>10, NotInWakeup DEF Kill
  <2>2. PICK p \in Pid : p = prparent[victim]
    BY DEF Parts, TypeRest
  <2>3. CASE CanDeliver(p) /\ Deliver(p, victim)
    <3>1. FreeKept
      BY <2>3, DeliverFree DEF CanDeliver, Live
    <3>2. \A x \in Pid : Live(x) => Live(x)'
      BY <3>1 DEF FreeKept, Live
    <3>3. QED
      BY <2>1, <2>3, <3>2, SendTimers DEF TimersStep, ProcTimers!Next
  <2>4. CASE UNCHANGED <<schedVars, msgVars, sleepq>>
    BY <1>2, <2>1, <2>4 DEF schedVars, SleepKept, SleepersKept, Live
  <2>5. QED
    BY <1>10, <2>2, <2>3, <2>4 DEF Kill
<1>11. CASE KillDone
  BY <1>11, DieTimers DEF TimersStep, ProcTimers!Next
<1>12. CASE Calling
  <2>1. NULLPROC \in Pid
    BY PidFacts
  <2>2. QED
    BY <1>3, <1>4, <1>5, <1>8, <1>9, <1>10, <1>12, <2>1 DEF Calling, SleepCalls, MsgCalls, ProcCalls
<1>13. CASE KernelSteps
  BY <1>3, <1>7, <1>11, <1>13 DEF KernelSteps
<1>14. QED
  BY <1>1, <1>6, <1>12, <1>13 DEF Next, Halted

LEMMA TimersInit ==
  ASSUME Init
  PROVE  ProcTimers!Init /\ DeltaInv
<1>1. /\ sleepq = <<>> /\ prhasmsg = [p \in Pid |-> FALSE]
      /\ prstate = [p \in Pid |-> CASE p = NULLPROC -> "PR_READY"
                                    [] p = 1 -> "PR_CURR"
                                    [] p \in 2 .. Len(StartPrio) -> "PR_SUSP"
                                    [] OTHER -> "PR_FREE"]
  BY DEF Init
<1>2. Range(sleepq) = {}
  BY <1>1 DEF Range
<1>3. \A x \in Pid : TimeLeft(x) = EMPTY - 1
  BY <1>2 DEF TimeLeft
<1>4. \A x \in Pid : prstate[x] # "PR_RECTIM"
  BY <1>1
<1>5. [x \in Pid |-> Live(x)] \in [Pid -> BOOLEAN]
  BY DEF Live
<1>6. ProcTimers!Init
  BY <1>1, <1>3, <1>4, <1>5 DEF ProcTimers!Init
<1>7. QED
  BY <1>1, <1>2, <1>4, <1>6 DEF DeltaInv

\* The delta list of sleep.c, wakeup.c, insertd.c and unsleep.c, driven by
\* clkhandler.c, keeps one timer for each process that sleeps or waits for a
\* message with a limit: each counts every tick, goes off when it has counted
\* down, and is stopped before by a message, or by kill, and by nothing else.
\* (recvtime(0) puts a key on the list that the next tick makes negative.)
THEOREM SleepersKeepTheirTime ==
  ASSUME 0 \notin Delays
  PROVE  Spec => SleepQueueKeepsTime
<1>1. Init => ProcTimers!Init /\ DeltaInv
  BY TimersInit
<1>2. IInv /\ DeltaInv /\ [Next]_vars => TimersStep /\ DeltaInv'
  BY IInvParts, TimersNext
<1>3. QED
  BY <1>1, <1>2, Invariant, PTL DEF Spec, SleepQueueKeepsTime, ProcTimers!Spec, TimersStep

=============================================================================
