----------------------------- MODULE KernelProofs -----------------------------
(***************************************************************************)
(* Theorems about Kernel, for any number of processes and semaphores, any  *)
(* priorities and any set of system calls.  The invariant IInv of Kernel   *)
(* is inductive.  The proof first says what resched does to the process    *)
(* table, whoever calls it (DispatchOK, ReschedOK), and then what each     *)
(* way of calling it does: ready, blocking, and the end of a deferral.     *)
(* The steps for the actions only have to look at the queues, counts and   *)
(* messages that the action changes itself.                                *)
(***************************************************************************)
EXTENDS Kernel, QueueOpsProofs

Eligible == {"PR_CURR", "PR_READY"}

\* What the scheduler relies on and restores.
SchedOK ==
    /\ prstate \in [Pid -> PrState]
    /\ readylist \in Seq(Pid)
    /\ ReadyListOK
    /\ currpid \in Pid
    /\ CurrentAndNull
    /\ DOMAIN qkey = Pid
    /\ preempt \in 1 .. QUANTUM
    /\ attempt \in BOOLEAN

\* What a caller of resched has to see to, with the process states st, the
\* ready list rl, the keys ky and the time slice pre that it has set.
MayResched(st, rl, ky, pre) ==
    /\ st \in [Pid -> PrState]
    /\ QueueOf(Pid, rl)
    /\ \A p \in Pid : p \in Range(rl) <=> st[p] = "PR_READY"
    /\ \A p \in Pid : st[p] = "PR_CURR" => p = currpid
    /\ st[NULLPROC] \in Eligible
    /\ ndefers > 0 => st[currpid] = "PR_CURR"
    /\ DOMAIN ky = Pid
    /\ pre \in 1 .. QUANTUM

\* What resched then does: it restores SchedOK and changes no state but from
\* PR_CURR to PR_READY and back.
Rescheduled(st) ==
    /\ SchedOK'
    /\ \A p \in Pid : \/ prstate'[p] = st[p]
                      \/ prstate'[p] \in Eligible /\ st[p] \in Eligible

-----------------------------------------------------------------------------
(* The scheduler.                                                          *)

\* Pid contains the null process and process 1.
LEMMA PidFacts == NULLPROC \in Pid /\ 1 \in Pid /\ Pid \subseteq Nat
  BY TableAssumption DEF Pid, NULLPROC

\* The context switch: the ready list is not empty when it is dequeued, and
\* the process that comes off it becomes the only current one.
LEMMA DispatchOK ==
  ASSUME NEW st, NEW rl, NEW ky, NEW pre,
         currpid \in Pid, MayResched(st, rl, ky, pre),
         Dispatch(st, rl, ky, pre), attempt' \in BOOLEAN,
         ndefers > 0 \/ ndefers = 0
  PROVE  Rescheduled(st)
<1> DEFINE eligible == st[currpid] = "PR_CURR"
           prio == prprio[currpid]
           stays == eligible /\ (rl = <<>> \/ prio > ky[Head(rl)])
           ky1 == IF eligible THEN [ky EXCEPT ![currpid] = prio] ELSE ky
           rl1 == IF eligible THEN Insert(rl, currpid, ky, prio) ELSE rl
           st1 == IF eligible THEN [st EXCEPT ![currpid] = "PR_READY"] ELSE st
<1>1. /\ st \in [Pid -> PrState]
      /\ QueueOf(Pid, rl)
      /\ \A p \in Pid : p \in Range(rl) <=> st[p] = "PR_READY"
      /\ \A p \in Pid : st[p] = "PR_CURR" => p = currpid
      /\ st[NULLPROC] \in Eligible
      /\ DOMAIN ky = Pid
      /\ pre \in 1 .. QUANTUM
  BY DEF MayResched
<1>2. CASE stays
  <2>1. /\ prstate' = st /\ readylist' = rl /\ qkey' = ky
        /\ preempt' = pre /\ currpid' = currpid
    BY <1>2 DEF Dispatch
  <2>2. \A p \in Pid : st[p] = "PR_CURR" <=> p = currpid
    BY <1>1, <1>2
  <2>3. QED
    BY <1>1, <2>1, <2>2
       DEF Rescheduled, SchedOK, ReadyListOK, CurrentAndNull, Eligible, QueueOf
<1>3. CASE ~stays
  <2>1. /\ currpid' = Head(rl1)
        /\ prstate' = [st1 EXCEPT ![Head(rl1)] = "PR_CURR"]
        /\ readylist' = Tail(rl1)
        /\ qkey' = ky1
        /\ preempt' = QUANTUM
    BY <1>3 DEF Dispatch
  <2>2. /\ QueueOf(Pid, rl1)
        /\ \A p \in Pid : p \in Range(rl1) <=> st1[p] = "PR_READY"
        /\ st1 \in [Pid -> PrState]
        /\ DOMAIN ky1 = Pid
        /\ \A p \in Pid : st1[p] # "PR_CURR"
        /\ st1[NULLPROC] = "PR_READY"
        /\ \A p \in Pid : \/ st1[p] = st[p]
                          \/ st1[p] = "PR_READY" /\ st[p] = "PR_CURR"
    <3>1. CASE eligible
      <4>1. currpid \notin Range(rl)
        BY <1>1, <3>1
      <4>2. /\ QueueOf(Pid, Insert(rl, currpid, ky, prio))
            /\ Range(Insert(rl, currpid, ky, prio)) = Range(rl) \cup {currpid}
        BY <1>1, <4>1, InsertMembers
      <4>3. /\ st1 = [st EXCEPT ![currpid] = "PR_READY"]
            /\ rl1 = Insert(rl, currpid, ky, prio)
            /\ ky1 = [ky EXCEPT ![currpid] = prio]
        BY <3>1
      <4>4. "PR_READY" \in PrState
        BY DEF PrState
      <4> HIDE DEF st1, rl1, ky1
      <4>5. /\ st1 \in [Pid -> PrState]
            /\ \A p \in Pid : st1[p] = IF p = currpid THEN "PR_READY" ELSE st[p]
        BY <1>1, <4>3, <4>4
      <4>6. DOMAIN ky1 = Pid
        BY <1>1, <4>3
      <4>7. QED
        BY <1>1, <3>1, <4>2, <4>3, <4>5, <4>6, PidFacts DEF Eligible
    <3>2. CASE ~eligible
      <4>1. /\ st1 = st /\ rl1 = rl /\ ky1 = ky
        BY <3>2
      <4>2. \A p \in Pid : st[p] # "PR_CURR"
        BY <1>1, <3>2
      <4>3. st[NULLPROC] = "PR_READY"
        BY <1>1, <4>2, PidFacts DEF Eligible
      <4> HIDE DEF st1, rl1, ky1
      <4>4. QED
        BY <1>1, <4>1, <4>2, <4>3
    <3>3. QED
      BY <3>1, <3>2
  <2> HIDE DEF st1, rl1, ky1
  <2>3. rl1 # <<>>
    <3>1. NULLPROC \in Range(rl1)
      BY <2>2, PidFacts
    <3>2. Range(<<>>) = {}
      BY DEF Range
    <3>3. QED
      BY <3>1, <3>2
  <2>4. /\ QueueOf(Pid, Tail(rl1))
        /\ Range(Tail(rl1)) = Range(rl1) \ {Head(rl1)}
        /\ Head(rl1) \in Range(rl1)
    BY <2>2, <2>3, TailMembers
  <2>5. Head(rl1) \in Pid
    BY <2>2, <2>4, MembersAt DEF QueueOf
  <2>6. "PR_CURR" \in PrState
    BY DEF PrState
  <2>7. /\ prstate' \in [Pid -> PrState]
        /\ \A p \in Pid : prstate'[p] = IF p = currpid' THEN "PR_CURR" ELSE st1[p]
    BY <2>1, <2>2, <2>5, <2>6
  <2>8. ReadyListOK'
    BY <2>1, <2>2, <2>4, <2>7 DEF ReadyListOK, QueueOf
  <2>9. CurrentAndNull'
    BY <2>1, <2>2, <2>5, <2>7, PidFacts DEF CurrentAndNull
  <2>10. SchedOK'
    <3>1. QUANTUM \in 1 .. QUANTUM
      BY TableAssumption
    <3>2. QED
      BY <2>1, <2>2, <2>4, <2>5, <2>7, <2>8, <2>9, <3>1 DEF SchedOK, QueueOf
  <2>11. st1[currpid'] = "PR_READY"
    BY <2>1, <2>2, <2>4, <2>5
  <2>12. QED
    BY <2>2, <2>7, <2>10, <2>11, <2>1, <2>5 DEF Rescheduled, Eligible
<1>4. QED
  BY <1>2, <1>3

\* resched, deferred or not.
LEMMA ReschedOK ==
  ASSUME NEW st, NEW rl, NEW ky, NEW pre,
         currpid \in Pid, attempt \in BOOLEAN, ndefers \in {0, 1},
         MayResched(st, rl, ky, pre), Resched(st, rl, ky, pre)
  PROVE  /\ Rescheduled(st)
         /\ ndefers > 0 => currpid' = currpid
<1>1. CASE ndefers = 0
  <2>1. Dispatch(st, rl, ky, pre) /\ attempt' \in BOOLEAN
    BY <1>1 DEF Resched
  <2>2. QED
    BY <1>1, <2>1, DispatchOK
<1>2. CASE ndefers = 1
  <2>1. /\ prstate' = st /\ readylist' = rl /\ qkey' = ky
        /\ preempt' = pre /\ currpid' = currpid /\ attempt' = TRUE
    BY <1>2 DEF Resched
  <2>2. /\ st \in [Pid -> PrState]
        /\ QueueOf(Pid, rl)
        /\ \A p \in Pid : p \in Range(rl) <=> st[p] = "PR_READY"
        /\ \A p \in Pid : st[p] = "PR_CURR" => p = currpid
        /\ st[NULLPROC] \in Eligible
        /\ st[currpid] = "PR_CURR"
        /\ DOMAIN ky = Pid
        /\ pre \in 1 .. QUANTUM
    BY <1>2 DEF MayResched
  <2>3. QED
    BY <2>1, <2>2
       DEF Rescheduled, SchedOK, ReadyListOK, CurrentAndNull, Eligible, QueueOf
<1>3. QED
  BY <1>1, <1>2

-----------------------------------------------------------------------------
(* The ways resched is called.                                             *)

\* The step changes nothing about p but whether it has the processor.
Keeps(p) ==
    prstate'[p] = prstate[p] \/ (prstate'[p] \in Eligible /\ prstate[p] \in Eligible)

\* What SchedOK says of the arguments of a call.
LEMMA SchedFacts ==
  ASSUME SchedOK
  PROVE  /\ prstate \in [Pid -> PrState]
         /\ QueueOf(Pid, readylist)
         /\ \A p \in Pid : p \in Range(readylist) <=> prstate[p] = "PR_READY"
         /\ currpid \in Pid
         /\ \A p \in Pid : prstate[p] = "PR_CURR" <=> p = currpid
         /\ prstate[NULLPROC] \in Eligible
         /\ DOMAIN qkey = Pid
         /\ preempt \in 1 .. QUANTUM
         /\ attempt \in BOOLEAN
  BY DEF SchedOK, ReadyListOK, CurrentAndNull, Eligible, QueueOf

\* ready: p, which was not eligible, becomes so.
LEMMA ReadyOK ==
  ASSUME SchedOK, ndefers \in {0, 1},
         NEW p \in Pid, prstate[p] \notin Eligible,
         NEW ky, DOMAIN ky = Pid,
         ReadyWith(p, ky)
  PROVE  /\ SchedOK'
         /\ prstate'[p] \in Eligible
         /\ \A x \in Pid \ {p} : Keeps(x)
         /\ ndefers > 0 => currpid' = currpid
<1> DEFINE st == [prstate EXCEPT ![p] = "PR_READY"]
           rl == Insert(readylist, p, ky, prprio[p])
           k1 == [ky EXCEPT ![p] = prprio[p]]
<1>1. /\ QueueOf(Pid, rl)
      /\ Range(rl) = Range(readylist) \cup {p}
  BY SchedFacts, InsertMembers DEF Eligible
<1>2. /\ st \in [Pid -> PrState]
      /\ \A x \in Pid : st[x] = IF x = p THEN "PR_READY" ELSE prstate[x]
  BY SchedFacts DEF PrState
<1>3. DOMAIN k1 = Pid
  OBVIOUS
<1>4. Resched(st, rl, k1, preempt)
  BY DEF ReadyWith
<1> HIDE DEF st, rl, k1
<1>5. MayResched(st, rl, k1, preempt)
  BY <1>1, <1>2, <1>3, SchedFacts, PidFacts DEF MayResched, Eligible
<1>6. Rescheduled(st) /\ (ndefers > 0 => currpid' = currpid)
  BY <1>4, <1>5, SchedFacts, ReschedOK
<1>7. QED
  BY <1>2, <1>6 DEF Rescheduled, Keeps, Eligible

\* The current process blocks, or ends.
LEMMA BlockOK ==
  ASSUME SchedOK, ndefers = 0, currpid # NULLPROC,
         NEW s \in PrState \ Eligible,
         NEW ky, DOMAIN ky = Pid,
         Block(s, ky)
  PROVE  /\ SchedOK'
         /\ prstate'[currpid] = s
         /\ \A x \in Pid \ {currpid} : Keeps(x)
<1> DEFINE st == [prstate EXCEPT ![currpid] = s]
<1>1. /\ st \in [Pid -> PrState]
      /\ \A x \in Pid : st[x] = IF x = currpid THEN s ELSE prstate[x]
  BY SchedFacts
<1>2. Resched(st, readylist, ky, preempt)
  BY DEF Block
<1> HIDE DEF st
<1>3. MayResched(st, readylist, ky, preempt)
  BY <1>1, SchedFacts, PidFacts DEF MayResched, Eligible
<1>4. Rescheduled(st)
  BY <1>2, <1>3, SchedFacts, ReschedOK
<1>5. QED
  BY <1>1, <1>4, SchedFacts DEF Rescheduled, Keeps

\* resched called by a process that stays eligible.
LEMMA YieldOK ==
  ASSUME SchedOK, ndefers \in {0, 1}, NEW pre \in 1 .. QUANTUM,
         Resched(prstate, readylist, qkey, pre)
  PROVE  SchedOK' /\ \A x \in Pid : Keeps(x)
<1>1. MayResched(prstate, readylist, qkey, pre)
  BY SchedFacts DEF MayResched
<1>2. Rescheduled(prstate)
  BY <1>1, SchedFacts, ReschedOK
<1>3. QED
  BY <1>2 DEF Rescheduled, Keeps

\* Steps that leave the scheduler alone.
LEMMA NoReschedOK ==
  ASSUME SchedOK,
         prstate' = prstate, readylist' = readylist, currpid' = currpid,
         DOMAIN qkey' = Pid, preempt' \in 1 .. QUANTUM, attempt' \in BOOLEAN
  PROVE  SchedOK' /\ \A x \in Pid : Keeps(x)
  BY DEF SchedOK, ReadyListOK, CurrentAndNull, Keeps

\* A step that changes none of the kernel's variables keeps every part.
LEMMA UnchangedOK ==
  ASSUME SchedOK, UNCHANGED schedVars
  PROVE  SchedOK' /\ \A x \in Pid : Keeps(x)
  BY SchedFacts, NoReschedOK DEF schedVars

\* DEFER_STOP.
LEMMA DeferStopOK ==
  ASSUME SchedOK, ndefers = 1, DeferStop
  PROVE  SchedOK' /\ ndefers' = 0 /\ \A x \in Pid : Keeps(x)
<1>1. ndefers' = 0
  BY DEF DeferStop
<1>2. CASE Dispatch(prstate, readylist, qkey, preempt) /\ UNCHANGED attempt
  <2>1. MayResched(prstate, readylist, qkey, preempt)
    BY SchedFacts DEF MayResched
  <2>2. Rescheduled(prstate)
    BY <1>2, <2>1, SchedFacts, DispatchOK
  <2>3. QED
    BY <1>1, <2>2 DEF Rescheduled, Keeps
<1>3. CASE UNCHANGED schedVars
  BY <1>1, <1>3, UnchangedOK
<1>4. QED
  BY <1>2, <1>3 DEF DeferStop

-----------------------------------------------------------------------------
(* The parts of IInv and what preserves each.                              *)

Sleeping == {"PR_SLEEP", "PR_RECTIM"}

\* What TypeOK says beyond SchedOK.
TypeRest ==
    /\ prprio \in [Pid -> Nat]
    /\ prstkbase \in [Pid -> Stack]
    /\ prsem \in [Pid -> Sem \cup {EMPTY}]
    /\ prparent \in [Pid -> Pid]
    /\ prmsg \in [Pid -> Nat]
    /\ prhasmsg \in [Pid -> BOOLEAN]
    /\ prcount \in Int
    /\ nextpid \in Pid
    /\ freestks \subseteq Stack
    /\ sleepq \in Seq(Pid)
    /\ ndefers \in {0, 1}
    /\ sstate \in [Sem -> {"S_FREE", "S_USED"}]
    /\ scount \in [Sem -> Int]
    /\ squeue \in [Sem -> Seq(Pid)]
    /\ nextsem \in Sem
    /\ cont \in [Pid -> Cont]
    /\ halted \in BOOLEAN

SemsOK == SemQueuesOK /\ CountsMatchQueues /\ FreeSemsAreEmpty

Parts ==
    /\ SchedOK
    /\ TypeRest
    /\ SleepQueueOK
    /\ SemsOK
    /\ DeferralEnds
    /\ ReceiveHasMessage
    /\ ContOK

\* The invariant, taken apart by component: what the step lemmas work on.
LEMMA IInvParts == IInv <=> Parts
<1>1. TypeOK /\ ReadyListOK /\ CurrentAndNull <=> SchedOK /\ TypeRest
  BY DEF TypeOK, SchedOK, TypeRest
<1>2. QED
  BY <1>1 DEF IInv, Parts, SemsOK, QueuesMatchStates

\* The same, in the next state.
LEMMA PartsNext ==
  ASSUME Parts'
  PROVE  IInv'
<1>1. TypeOK' /\ ReadyListOK' /\ CurrentAndNull'
  BY DEF Parts, TypeOK, SchedOK, TypeRest
<1>2. QED
  BY <1>1 DEF IInv, Parts, SemsOK, QueuesMatchStates

\* Nobody's deferral is open when the current process is not in one.
LEMMA NoDeferral ==
  ASSUME Parts, cont[currpid].op \notin Deferred
  PROVE  ndefers = 0 /\ \A p \in Pid : cont[p].op \notin Deferred
  BY DEF Parts, DeferralEnds

\* A step after which the process that runs is not inside a deferral, and
\* nobody else is, has ended its deferral (resched_cntl, resched.c).
LEMMA DeferralEndsNext ==
  ASSUME ndefers' = 0, currpid' \in Pid,
         \A p \in Pid : cont'[p].op \notin Deferred
  PROVE  DeferralEnds'
  BY DEF DeferralEnds

\* Inside a deferral the same process goes on.
LEMMA SameDeferral ==
  ASSUME DeferralEnds, ndefers' = ndefers, currpid' = currpid, currpid \in Pid,
         \A p \in Pid : cont'[p].op = cont[p].op
  PROVE  DeferralEnds'
  BY DEF DeferralEnds

\* A call that neither touches the sleep queue nor moves a process in or
\* out of a sleeping state leaves the sleep queue in order.
LEMMA SleepQueueKept ==
  ASSUME SleepQueueOK, sleepq' = sleepq,
         \A p \in Pid : prstate'[p] \in Sleeping <=> prstate[p] \in Sleeping
  PROVE  SleepQueueOK'
  BY DEF SleepQueueOK, Sleeping

\* Nobody's wait for a message ends without one, and no message is taken.
LEMMA ReceiversKept ==
  ASSUME ReceiveHasMessage,
         \A p \in Pid : /\ cont'[p].op = "receive" => cont[p].op = "receive"
                        /\ prhasmsg[p] => prhasmsg'[p]
                        /\ prstate[p] = "PR_RECV"
                              => prstate'[p] = "PR_RECV" \/ prhasmsg'[p]
  PROVE  ReceiveHasMessage'
  BY DEF ReceiveHasMessage

\* A process that is not freed keeps a rest of a call that makes sense.
LEMMA ContKept ==
  ASSUME ContOK, cont' = cont,
         \A p \in Pid : prstate'[p] = "PR_FREE" => prstate[p] = "PR_FREE"
  PROVE  ContOK'
  BY DEF ContOK

\* Calls that have nothing to do with semaphores.
LEMMA SemsKept ==
  ASSUME Parts, cont[currpid].op \notin Deferred,
         squeue' = squeue, scount' = scount, sstate' = sstate,
         \A p \in Pid :
            /\ prstate'[p] = "PR_WAIT" <=> prstate[p] = "PR_WAIT"
            /\ prstate[p] = "PR_WAIT" => prsem'[p] = prsem[p]
  PROVE  SemsOK'
<1>1. SemQueuesOK'
  BY DEF Parts, SemsOK, SemQueuesOK
<1>2. CountsMatchQueues'
  BY DEF Parts, SemsOK, CountsMatchQueues, Deferred
<1>3. FreeSemsAreEmpty'
  BY DEF Parts, SemsOK, FreeSemsAreEmpty, Deferred
<1>4. QED
  BY <1>1, <1>2, <1>3 DEF SemsOK

-----------------------------------------------------------------------------
(* What the steps of all modules have in common.                           *)

\* A step of one call that leaves the states of the others alone keeps what
\* is said of the rests of their calls.
LEMMA KeepsStates ==
  ASSUME NEW x, Keeps(x)
  PROVE  /\ prstate'[x] = "PR_WAIT" <=> prstate[x] = "PR_WAIT"
         /\ prstate'[x] \in Sleeping <=> prstate[x] \in Sleeping
         /\ prstate'[x] = "PR_RECV" <=> prstate[x] = "PR_RECV"
         /\ prstate'[x] = "PR_FREE" <=> prstate[x] = "PR_FREE"
  BY DEF Keeps, Eligible, Sleeping

\* A system call starts outside any deferral.
LEMMA CallFacts ==
  ASSUME Parts, NEW op, Calls(op)
  PROVE  /\ currpid \in Pid /\ currpid # NULLPROC
         /\ prstate[currpid] = "PR_CURR"
         /\ cont[currpid] = Run /\ cont[currpid].op \notin Deferred
         /\ ndefers = 0
         /\ \A p \in Pid : cont[p].op \notin Deferred
<1>1. currpid # NULLPROC /\ cont[currpid] = Run /\ Run.op = "run"
  BY DEF Calls, Run
<1>2. cont[currpid].op \notin Deferred
  BY <1>1 DEF Deferred
<1>3. QED
  BY <1>1, <1>2, NoDeferral, SchedFacts DEF Parts

\* A rest of a call that is no deferral.
LEMMA ResumeFacts ==
  ASSUME Parts, NEW op, op \notin Deferred, Resumes(op)
  PROVE  /\ currpid \in Pid
         /\ prstate[currpid] = "PR_CURR"
         /\ cont[currpid].op = op
         /\ ndefers = 0
         /\ \A p \in Pid : cont[p].op \notin Deferred
<1>1. cont[currpid].op = op
  BY DEF Resumes
<1>2. QED
  BY <1>1, NoDeferral, SchedFacts DEF Parts

\* A step of a deferral.
LEMMA DeferredFacts ==
  ASSUME Parts, NEW op \in Deferred, Resumes(op)
  PROVE  /\ currpid \in Pid
         /\ cont[currpid].op = op
         /\ ndefers = 1
         /\ \A p \in Pid \ {currpid} : cont[p].op \notin Deferred
<1>1. cont[currpid].op = op
  BY DEF Resumes
<1>2. QED
  BY <1>1, SchedFacts DEF Parts, DeferralEnds

\* What the current process leaves in cont.
LEMMA ContinueFacts ==
  ASSUME Parts, NEW c \in Cont, ContinueWith(c)
  PROVE  /\ cont' \in [Pid -> Cont]
         /\ cont'[currpid] = c
         /\ \A p \in Pid \ {currpid} : cont'[p] = cont[p]
  BY SchedFacts DEF Parts, TypeRest, ContinueWith

\* A process with nothing left of a call is just running.
LEMMA RunIsCont == Run \in Cont /\ Run.op = "run"
  BY DEF Run, Cont, ContOps

\* The first process of a semaphore queue is taken off and made ready.
LEMMA ReleaseFirst ==
  ASSUME Parts, NEW s \in Sem, squeue[s] # <<>>,
         squeue' = [squeue EXCEPT ![s] = Tail(@)],
         Ready(Head(squeue[s])), prsem' = prsem
  PROVE  /\ SchedOK'
         /\ SemQueuesOK'
         /\ squeue' \in [Sem -> Seq(Pid)]
         /\ Len(squeue'[s]) = Len(squeue[s]) - 1
         /\ \A r \in Sem \ {s} : squeue'[r] = squeue[r]
         /\ \A p \in Pid : Keeps(p) \/ (prstate[p] = "PR_WAIT" /\ prstate'[p] \in Eligible)
         /\ ndefers > 0 => currpid' = currpid
<1> DEFINE h == Head(squeue[s])
<1>1. QueueOf(Pid, squeue[s])
  BY DEF Parts, TypeRest, SemsOK, SemQueuesOK, QueueOf
<1>2. /\ QueueOf(Pid, Tail(squeue[s]))
      /\ Range(Tail(squeue[s])) = Range(squeue[s]) \ {h}
      /\ Len(Tail(squeue[s])) = Len(squeue[s]) - 1
      /\ h \in Range(squeue[s])
  BY <1>1, TailMembers
<1>3. h \in Pid
  BY <1>1, <1>2, MembersAt DEF QueueOf
<1>4. prstate[h] = "PR_WAIT" /\ prsem[h] = s
  BY <1>2, <1>3 DEF Parts, SemsOK, SemQueuesOK
<1>5. ReadyWith(h, qkey)
  BY DEF Ready
<1>6. /\ squeue'[s] = Tail(squeue[s])
      /\ squeue' \in [Sem -> Seq(Pid)]
      /\ \A r \in Sem \ {s} : squeue'[r] = squeue[r]
  BY <1>2 DEF Parts, TypeRest, QueueOf
<1> HIDE DEF h
<1>7. prstate[h] \notin Eligible
  BY <1>4 DEF Eligible
<1>8. /\ SchedOK'
      /\ prstate'[h] \in Eligible
      /\ \A x \in Pid \ {h} : Keeps(x)
      /\ ndefers > 0 => currpid' = currpid
  BY <1>3, <1>5, <1>7, ReadyOK, SchedFacts DEF Parts, TypeRest
<1>9. SemQueuesOK'
  <2>1. \A r \in Sem : IsInjective(squeue'[r])
    BY <1>2, <1>6 DEF Parts, SemsOK, SemQueuesOK, QueueOf
  <2>2. ASSUME NEW r \in Sem, NEW p \in Pid
        PROVE  p \in Range(squeue'[r]) <=> prstate'[p] = "PR_WAIT" /\ prsem'[p] = r
    <3>1. p \in Range(squeue[r]) <=> prstate[p] = "PR_WAIT" /\ prsem[p] = r
      BY DEF Parts, SemsOK, SemQueuesOK
    <3>2. CASE p = h
      <4>1. prstate'[p] # "PR_WAIT"
        BY <1>8, <3>2 DEF Eligible
      <4>2. r # s => p \notin Range(squeue[r])
        BY <1>4, <3>1, <3>2
      <4>3. QED
        BY <1>2, <1>6, <3>2, <4>1, <4>2
    <3>3. CASE p # h
      <4>1. prstate'[p] = "PR_WAIT" <=> prstate[p] = "PR_WAIT"
        BY <1>8, <3>3, KeepsStates
      <4>2. p \in Range(squeue'[r]) <=> p \in Range(squeue[r])
        BY <1>2, <1>6, <3>3
      <4>3. QED
        BY <3>1, <4>1, <4>2
    <3>4. QED
      BY <3>2, <3>3
  <2>3. ASSUME NEW p \in Pid, prstate'[p] = "PR_WAIT"
        PROVE  prsem'[p] \in Sem
    <3>1. p # h
      BY <1>8, <2>3 DEF Eligible
    <3>2. prstate[p] = "PR_WAIT"
      BY <1>8, <2>3, <3>1, KeepsStates
    <3>3. QED
      BY <3>2 DEF Parts, SemsOK, SemQueuesOK
  <2>4. QED
    BY <2>1, <2>2, <2>3 DEF SemQueuesOK
<1>10. QED
  BY <1>2, <1>4, <1>6, <1>8, <1>9

-----------------------------------------------------------------------------
(* Semaphores.                                                             *)

\* SemUnchanged, for the parts of IInv that semaphore calls do not disturb.
LEMMA SemFrame ==
  ASSUME Parts, SemUnchanged,
         prsem' \in [Pid -> Sem \cup {EMPTY}], ndefers' \in {0, 1},
         sstate' \in [Sem -> {"S_FREE", "S_USED"}], scount' \in [Sem -> Int],
         squeue' \in [Sem -> Seq(Pid)], cont' \in [Pid -> Cont],
         \A p \in Pid : \/ Keeps(p)
                        \/ /\ prstate[p] \in Eligible \cup {"PR_WAIT"}
                           /\ prstate'[p] \in Eligible \cup {"PR_WAIT"},
         \A p \in Pid : cont'[p].op = "receive" => cont[p].op = "receive"
  PROVE  /\ TypeRest' /\ SleepQueueOK' /\ ReceiveHasMessage'
         /\ \A p \in Pid : prstate'[p] = "PR_FREE" => prstate[p] = "PR_FREE"
<1>1. UNCHANGED <<msgVars, tableVars, sleepq, nextsem, halted>>
  BY DEF SemUnchanged
<1>2. TypeRest'
  BY <1>1 DEF Parts, TypeRest, msgVars, tableVars
<1>3. ASSUME NEW p \in Pid
      PROVE  /\ prstate'[p] \in Sleeping <=> prstate[p] \in Sleeping
             /\ prstate'[p] = "PR_RECV" <=> prstate[p] = "PR_RECV"
             /\ prstate'[p] = "PR_FREE" <=> prstate[p] = "PR_FREE"
  <2>1. CASE Keeps(p)
    BY <2>1, KeepsStates
  <2>2. CASE /\ prstate[p] \in Eligible \cup {"PR_WAIT"}
             /\ prstate'[p] \in Eligible \cup {"PR_WAIT"}
    BY <2>2 DEF Eligible, Sleeping
  <2>3. QED
    BY <2>1, <2>2
<1>4. SleepQueueOK'
  BY <1>1, <1>3, SleepQueueKept DEF Parts
<1>5. ReceiveHasMessage'
  BY <1>1, <1>3, ReceiversKept DEF Parts, msgVars
<1>6. QED
  BY <1>2, <1>3, <1>4, <1>5

\* The types of the semaphore table, from the invariant.
LEMMA SemTypes ==
  ASSUME Parts
  PROVE  /\ prsem \in [Pid -> Sem \cup {EMPTY}] /\ ndefers \in {0, 1}
         /\ sstate \in [Sem -> {"S_FREE", "S_USED"}] /\ scount \in [Sem -> Int]
         /\ squeue \in [Sem -> Seq(Pid)] /\ cont \in [Pid -> Cont]
  BY DEF Parts, TypeRest

\* Outside a deferral the count of every semaphore matches its queue.
LEMMA CountFacts ==
  ASSUME Parts, cont[currpid].op \notin {"semreset"}, NEW s \in Sem
  PROVE  /\ scount[s] < 0 => Len(squeue[s]) = -scount[s]
         /\ scount[s] >= 0 => Len(squeue[s]) = 0 /\ squeue[s] = <<>>
         /\ scount[s] \in Int /\ squeue[s] \in Seq(Pid)
<1>1. scount[s] \in Int /\ squeue[s] \in Seq(Pid)
  BY SemTypes
<1>2. Len(squeue[s]) = IF scount[s] < 0 THEN -scount[s] ELSE 0
  BY DEF Parts, SemsOK, CountsMatchQueues
<1>3. Len(squeue[s]) = 0 => squeue[s] = <<>>
  BY <1>1, EmptySeq
<1>4. QED
  BY <1>1, <1>2, <1>3

\* wait (wait.c) keeps the invariant, whether the caller blocks or not.
LEMMA WaitOK ==
  ASSUME Parts, NEW s \in Sem, Wait(s)
  PROVE  Parts'
<1>1. /\ currpid \in Pid /\ currpid # NULLPROC
      /\ prstate[currpid] = "PR_CURR"
      /\ cont[currpid] = Run /\ cont[currpid].op \notin Deferred
      /\ ndefers = 0
      /\ \A p \in Pid : cont[p].op \notin Deferred
  BY CallFacts DEF Wait
<1>2. /\ sstate[s] = "S_USED"
      /\ scount' = [scount EXCEPT ![s] = @ - 1]
      /\ UNCHANGED <<sstate, cont, ndefers>>
      /\ SemUnchanged
  BY DEF Wait, Used
<1>3. /\ scount' \in [Sem -> Int]
      /\ scount'[s] = scount[s] - 1
      /\ \A r \in Sem \ {s} : scount'[r] = scount[r]
  BY <1>2, SemTypes
<1>4. cont[currpid].op \notin {"semreset", "semdelete"}
  BY <1>1 DEF Deferred
<1>5. /\ SchedOK' /\ SemsOK'
      /\ prsem' \in [Pid -> Sem \cup {EMPTY}] /\ squeue' \in [Sem -> Seq(Pid)]
      /\ \A p \in Pid : \/ Keeps(p)
                        \/ /\ prstate[p] \in Eligible \cup {"PR_WAIT"}
                           /\ prstate'[p] \in Eligible \cup {"PR_WAIT"}
  <2>1. CASE scount[s] > 0 /\ UNCHANGED <<schedVars, prsem, squeue>>
    <3>1. SchedOK' /\ \A p \in Pid : Keeps(p)
      BY <2>1, UnchangedOK DEF Parts
    <3>2. UNCHANGED <<prsem, squeue, sstate, cont>> /\ currpid' = currpid
      BY <1>2, <2>1 DEF schedVars
    <3>3. SemQueuesOK'
      BY <3>1, <3>2, KeepsStates DEF Parts, SemsOK, SemQueuesOK
    <3>4. CountsMatchQueues'
      <4>1. ASSUME NEW r \in Sem
            PROVE  Len(squeue'[r]) = IF scount'[r] < 0 THEN -scount'[r] ELSE 0
        BY <1>3, <1>4, <2>1, <3>2, CountFacts
      <4>2. QED
        BY <4>1 DEF CountsMatchQueues
    <3>5. FreeSemsAreEmpty'
      BY <3>2 DEF Parts, SemsOK, FreeSemsAreEmpty
    <3>6. QED
      BY <3>1, <3>2, <3>3, <3>4, <3>5, SemTypes DEF SemsOK
  <2>2. CASE /\ scount[s] <= 0
             /\ prsem' = [prsem EXCEPT ![currpid] = s]
             /\ squeue' = [squeue EXCEPT ![s] = Append(@, currpid)]
             /\ Block("PR_WAIT", qkey)
    <3>1. /\ SchedOK' /\ prstate'[currpid] = "PR_WAIT"
          /\ \A x \in Pid \ {currpid} : Keeps(x)
      <4>1. "PR_WAIT" \in PrState \ Eligible
        BY DEF PrState, Eligible
      <4>2. QED
        BY <1>1, <2>2, <4>1, BlockOK, SchedFacts DEF Parts
    <3>2. QueueOf(Pid, squeue[s]) /\ \A r \in Sem : currpid \notin Range(squeue[r])
      BY <1>1, SemTypes DEF Parts, SemsOK, SemQueuesOK, QueueOf
    <3>3. /\ QueueOf(Pid, Append(squeue[s], currpid))
          /\ Range(Append(squeue[s], currpid)) = Range(squeue[s]) \cup {currpid}
          /\ Len(Append(squeue[s], currpid)) = Len(squeue[s]) + 1
      BY <1>1, <3>2, AppendMembers
    <3>4. /\ squeue'[s] = Append(squeue[s], currpid)
          /\ squeue' \in [Sem -> Seq(Pid)]
          /\ \A r \in Sem \ {s} : squeue'[r] = squeue[r]
      BY <2>2, <3>3, SemTypes DEF QueueOf
    <3>5. /\ prsem' \in [Pid -> Sem \cup {EMPTY}]
          /\ prsem'[currpid] = s
          /\ \A x \in Pid \ {currpid} : prsem'[x] = prsem[x]
      BY <1>1, <2>2, SemTypes
    <3>6. SemQueuesOK'
      <4>1. \A r \in Sem : IsInjective(squeue'[r])
        BY <3>3, <3>4 DEF Parts, SemsOK, SemQueuesOK, QueueOf
      <4>2. ASSUME NEW r \in Sem, NEW p \in Pid
            PROVE  p \in Range(squeue'[r]) <=> prstate'[p] = "PR_WAIT" /\ prsem'[p] = r
        <5>1. p \in Range(squeue[r]) <=> prstate[p] = "PR_WAIT" /\ prsem[p] = r
          BY DEF Parts, SemsOK, SemQueuesOK
        <5>2. CASE p = currpid
          BY <3>1, <3>2, <3>3, <3>4, <3>5, <5>2
        <5>3. CASE p # currpid
          <6>1. prstate'[p] = "PR_WAIT" <=> prstate[p] = "PR_WAIT"
            BY <3>1, <5>3, KeepsStates
          <6>2. QED
            BY <3>3, <3>4, <3>5, <5>1, <5>3, <6>1
        <5>4. QED
          BY <5>2, <5>3
      <4>3. ASSUME NEW p \in Pid, prstate'[p] = "PR_WAIT"
            PROVE  prsem'[p] \in Sem
        <5>1. CASE p = currpid
          BY <3>5, <5>1
        <5>2. CASE p # currpid
          <6>1. prstate[p] = "PR_WAIT"
            BY <3>1, <4>3, <5>2, KeepsStates
          <6>2. QED
            BY <3>5, <5>2, <6>1 DEF Parts, SemsOK, SemQueuesOK
        <5>3. QED
          BY <5>1, <5>2
      <4>4. QED
        BY <4>1, <4>2, <4>3 DEF SemQueuesOK
    <3>7. CountsMatchQueues'
      <4>1. ASSUME NEW r \in Sem
            PROVE  Len(squeue'[r]) = IF scount'[r] < 0 THEN -scount'[r] ELSE 0
        <5>1. CASE r = s
          BY <1>3, <1>4, <2>2, <3>3, <3>4, <5>1, CountFacts
        <5>2. CASE r # s
          <6>1. squeue'[r] = squeue[r] /\ scount'[r] = scount[r]
            BY <1>3, <3>4, <5>2
          <6>2. cont[currpid].op \notin {"semreset"}
            BY <1>4
          <6>3. QED
            BY <6>1, <6>2, CountFacts
        <5>3. QED
          BY <5>1, <5>2
      <4>2. QED
        BY <4>1 DEF CountsMatchQueues
    <3>8. FreeSemsAreEmpty'
      BY <1>2, <1>4, <3>4 DEF Parts, SemsOK, FreeSemsAreEmpty
    <3>9. QED
      BY <1>1, <3>1, <3>4, <3>5, <3>6, <3>7, <3>8 DEF SemsOK, Eligible
  <2>3. QED
    BY <2>1, <2>2 DEF Wait
<1>6. /\ TypeRest' /\ SleepQueueOK' /\ ReceiveHasMessage'
      /\ \A p \in Pid : prstate'[p] = "PR_FREE" => prstate[p] = "PR_FREE"
  BY <1>2, <1>3, <1>5, SemTypes, SemFrame
<1>7. DeferralEnds'
  BY <1>1, <1>2, <1>5, DeferralEndsNext DEF SchedOK
<1>8. ContOK'
  BY <1>2, <1>6, ContKept DEF Parts
<1>9. QED
  BY <1>5, <1>6, <1>7, <1>8 DEF Parts

\* scount++ and the release of the first process that waits.
LEMMA ReleaseOK ==
  ASSUME Parts, NEW s \in Sem, cont[currpid].op \notin {"semreset"},
         Release(s), prsem' = prsem
  PROVE  /\ SchedOK' /\ SemQueuesOK'
         /\ squeue' \in [Sem -> Seq(Pid)] /\ scount' \in [Sem -> Int]
         /\ \A p \in Pid : \/ Keeps(p)
                           \/ prstate[p] = "PR_WAIT" /\ prstate'[p] \in Eligible
         /\ ndefers > 0 => currpid' = currpid
         /\ \A r \in Sem :
               Len(squeue'[r]) = IF scount'[r] < 0 THEN -scount'[r] ELSE 0
         /\ \A r \in Sem : squeue[r] = <<>> => squeue'[r] = <<>>
<1>1. /\ scount' = [scount EXCEPT ![s] = @ + 1]
      /\ scount' \in [Sem -> Int]
      /\ scount'[s] = scount[s] + 1
      /\ \A r \in Sem \ {s} : scount'[r] = scount[r]
  BY SemTypes DEF Release
<1>2. \A r \in Sem : /\ scount[r] < 0 => Len(squeue[r]) = -scount[r]
                     /\ scount[r] >= 0 => Len(squeue[r]) = 0 /\ squeue[r] = <<>>
                     /\ scount[r] \in Int /\ squeue[r] \in Seq(Pid)
  BY CountFacts
<1>3. CASE /\ scount[s] < 0
           /\ squeue' = [squeue EXCEPT ![s] = Tail(@)]
           /\ Ready(Head(squeue[s]))
  <2>1. Len(squeue[s]) > 0
    BY <1>2, <1>3
  <2>2. squeue[s] # <<>>
    BY <2>1, EmptySeq
  <2>3. /\ SchedOK' /\ SemQueuesOK'
        /\ squeue' \in [Sem -> Seq(Pid)]
        /\ Len(squeue'[s]) = Len(squeue[s]) - 1
        /\ \A r \in Sem \ {s} : squeue'[r] = squeue[r]
        /\ \A p \in Pid : Keeps(p) \/ (prstate[p] = "PR_WAIT" /\ prstate'[p] \in Eligible)
        /\ ndefers > 0 => currpid' = currpid
    BY <1>3, <2>2, ReleaseFirst
  <2>4. ASSUME NEW r \in Sem
        PROVE  Len(squeue'[r]) = IF scount'[r] < 0 THEN -scount'[r] ELSE 0
    <3>1. CASE r = s
      BY <1>1, <1>2, <1>3, <2>3, <3>1
    <3>2. CASE r # s
      <4>1. squeue'[r] = squeue[r] /\ scount'[r] = scount[r]
        BY <1>1, <2>3, <3>2
      <4>2. QED
        BY <1>2, <4>1
    <3>3. QED
      BY <3>1, <3>2
  <2>5. \A r \in Sem : squeue[r] = <<>> => squeue'[r] = <<>>
    BY <2>2, <2>3
  <2>6. QED
    BY <1>1, <2>3, <2>4, <2>5
<1>4. CASE scount[s] >= 0 /\ UNCHANGED <<schedVars, squeue>>
  <2>1. SchedOK' /\ \A p \in Pid : Keeps(p)
    BY <1>4, UnchangedOK DEF Parts
  <2>2. currpid' = currpid /\ squeue' = squeue
    BY <1>4 DEF schedVars
  <2>3. SemQueuesOK'
    BY <2>1, <2>2, KeepsStates DEF Parts, SemsOK, SemQueuesOK
  <2>4. ASSUME NEW r \in Sem
        PROVE  Len(squeue'[r]) = IF scount'[r] < 0 THEN -scount'[r] ELSE 0
    BY <1>1, <1>2, <1>4, <2>2
  <2>5. QED
    BY <1>1, <2>1, <2>2, <2>3, <2>4, SemTypes
<1>5. QED
  BY <1>3, <1>4 DEF Release

\* signal (signal.c) keeps the invariant: the count and the queue move
\* together.
LEMMA SignalOK ==
  ASSUME Parts, NEW s \in Sem, Signal(s)
  PROVE  Parts'
<1>1. /\ cont[currpid].op \notin Deferred
      /\ ndefers = 0
      /\ \A p \in Pid : cont[p].op \notin Deferred
  BY CallFacts DEF Signal
<1>2. cont[currpid].op \notin {"semreset", "semdelete"}
  BY <1>1 DEF Deferred
<1>3. Release(s) /\ UNCHANGED <<sstate, prsem, cont, ndefers>> /\ SemUnchanged
  BY DEF Signal
<1>4. /\ SchedOK' /\ SemQueuesOK'
      /\ squeue' \in [Sem -> Seq(Pid)] /\ scount' \in [Sem -> Int]
      /\ \A p \in Pid : \/ Keeps(p)
                        \/ prstate[p] = "PR_WAIT" /\ prstate'[p] \in Eligible
      /\ \A r \in Sem :
            Len(squeue'[r]) = IF scount'[r] < 0 THEN -scount'[r] ELSE 0
      /\ \A r \in Sem : squeue[r] = <<>> => squeue'[r] = <<>>
  BY <1>2, <1>3, ReleaseOK
<1>5. CountsMatchQueues'
  BY <1>4 DEF CountsMatchQueues
<1>6. FreeSemsAreEmpty'
  BY <1>2, <1>3, <1>4 DEF Parts, SemsOK, FreeSemsAreEmpty
<1>7. /\ TypeRest' /\ SleepQueueOK' /\ ReceiveHasMessage'
      /\ \A p \in Pid : prstate'[p] = "PR_FREE" => prstate[p] = "PR_FREE"
  BY <1>3, <1>4, SemTypes, SemFrame
<1>8. DeferralEnds'
  BY <1>1, <1>3, <1>4, DeferralEndsNext DEF SchedOK
<1>9. ContOK'
  BY <1>3, <1>7, ContKept DEF Parts
<1>10. QED
  BY <1>4, <1>5, <1>6, <1>7, <1>8, <1>9 DEF Parts, SemsOK

\* The start of a call with a loop.  semdelete marks the semaphore free; it
\* may then still have a queue, until the call has emptied it.
LEMMA StartLoop ==
  ASSUME Parts, NEW op \in {"signaln", "semdelete", "semreset"}, Calls(op),
         NEW s \in Sem, NEW n \in Nat, sstate[s] = "S_USED",
         ContinueWith([op |-> op, arg |-> s, n |-> n]),
         DeferStart,
         UNCHANGED <<prstate, readylist, qkey, currpid, preempt, prsem,
                     scount, squeue>>,
         SemUnchanged,
         \/ sstate' = sstate
         \/ op = "semdelete" /\ sstate' = [sstate EXCEPT ![s] = "S_FREE"]
  PROVE  Parts'
<1> DEFINE c == [op |-> op, arg |-> s, n |-> n]
<1>1. /\ currpid \in Pid /\ prstate[currpid] = "PR_CURR"
      /\ cont[currpid].op \notin Deferred
      /\ ndefers = 0
      /\ \A p \in Pid : cont[p].op \notin Deferred
  BY CallFacts
<1>2. s \in Nat
  BY DEF Sem
<1>3. c \in Cont /\ c.op = op /\ c.arg = s /\ c.op \in Deferred
  BY <1>2 DEF Cont, ContOps, Deferred
<1> HIDE DEF c
<1>4. /\ cont' \in [Pid -> Cont]
      /\ cont'[currpid] = c
      /\ \A p \in Pid \ {currpid} : cont'[p] = cont[p]
  BY <1>3, ContinueFacts DEF c
<1>5. ndefers' = 1 /\ attempt' \in BOOLEAN
  BY <1>1 DEF DeferStart
<1>6. SchedOK' /\ \A p \in Pid : Keeps(p)
  BY <1>5, NoReschedOK, SchedFacts DEF Parts
<1>7. sstate' \in [Sem -> {"S_FREE", "S_USED"}]
  BY SemTypes
<1>8. /\ TypeRest' /\ SleepQueueOK' /\ ReceiveHasMessage'
      /\ \A p \in Pid : prstate'[p] = "PR_FREE" => prstate[p] = "PR_FREE"
  <2>1. \A p \in Pid : cont'[p].op = "receive" => cont[p].op = "receive"
    BY <1>3, <1>4
  <2>2. QED
    BY <1>4, <1>5, <1>6, <1>7, <2>1, SemTypes, SemFrame
<1>9. SemsOK'
  <2>1. SemQueuesOK'
    BY DEF Parts, SemsOK, SemQueuesOK
  <2>2. CountsMatchQueues'
    BY <1>1 DEF Parts, SemsOK, CountsMatchQueues, Deferred
  <2>3. FreeSemsAreEmpty'
    <3>1. ASSUME NEW r \in Sem
          PROVE  \/ sstate'[r] = "S_USED"
                 \/ cont'[currpid].op = "semdelete" /\ cont'[currpid].arg = r
                 \/ squeue'[r] = <<>>
      <4>1. sstate[r] = "S_USED" \/ squeue[r] = <<>>
        BY <1>1 DEF Parts, SemsOK, FreeSemsAreEmpty, Deferred
      <4>2. CASE r = s
        BY <1>3, <1>4, <4>1, <4>2
      <4>3. CASE r # s
        BY <4>1, <4>3, SemTypes
      <4>4. QED
        BY <4>2, <4>3
    <3>2. QED
      BY <3>1 DEF FreeSemsAreEmpty
  <2>4. QED
    BY <2>1, <2>2, <2>3 DEF SemsOK
<1>10. DeferralEnds'
  BY <1>1, <1>3, <1>4, <1>5 DEF DeferralEnds
<1>11. ContOK'
  <2>1. ASSUME NEW p \in Pid
        PROVE  /\ cont'[p].op \in {"signaln", "semdelete", "semreset"}
                      => cont'[p].arg \in Sem
               /\ cont'[p].op = "kill" => cont'[p].arg \in Pid \ {NULLPROC}
               /\ prstate'[p] = "PR_FREE" => cont'[p] = Run
    <3>1. CASE p = currpid
      BY <1>1, <1>3, <1>4, <3>1
    <3>2. CASE p # currpid
      BY <1>4, <3>2 DEF Parts, ContOK
    <3>3. QED
      BY <3>1, <3>2
  <2>2. QED
    BY <2>1 DEF ContOK
<1>12. QED
  BY <1>6, <1>8, <1>9, <1>10, <1>11 DEF Parts

\* What a step inside a call with a loop has to say for itself.
LEMMA LoopStep ==
  ASSUME Parts, NEW op \in {"signaln", "semdelete", "semreset"}, Resumes(op),
         SchedOK', SemQueuesOK',
         squeue' \in [Sem -> Seq(Pid)], scount' \in [Sem -> Int],
         cont' \in [Pid -> Cont],
         \A p \in Pid : \/ Keeps(p)
                        \/ prstate[p] = "PR_WAIT" /\ prstate'[p] \in Eligible,
         \A p \in Pid : /\ cont'[p].op = cont[p].op /\ cont'[p].arg = cont[p].arg
                        /\ p # currpid => cont'[p] = cont[p],
         currpid' = currpid, ndefers' = ndefers, CountsMatchQueues',
         \A r \in Sem : squeue[r] = <<>> => squeue'[r] = <<>>,
         UNCHANGED <<sstate, prsem>>, SemUnchanged
  PROVE  Parts'
<1>1. currpid \in Pid /\ prstate[currpid] = "PR_CURR"
  BY SchedFacts DEF Parts
<1>2. /\ TypeRest' /\ SleepQueueOK' /\ ReceiveHasMessage'
      /\ \A p \in Pid : prstate'[p] = "PR_FREE" => prstate[p] = "PR_FREE"
  BY SemTypes, SemFrame
<1>3. FreeSemsAreEmpty'
  BY <1>1 DEF Parts, SemsOK, FreeSemsAreEmpty
<1>4. DeferralEnds'
  BY <1>1, SameDeferral DEF Parts
<1>5. ContOK'
  <2>1. ASSUME NEW p \in Pid
        PROVE  /\ cont'[p].op \in {"signaln", "semdelete", "semreset"}
                      => cont'[p].arg \in Sem
               /\ cont'[p].op = "kill" => cont'[p].arg \in Pid \ {NULLPROC}
               /\ prstate'[p] = "PR_FREE" => cont'[p] = Run
    BY <1>1, <1>2 DEF Parts, ContOK
  <2>2. QED
    BY <2>1 DEF ContOK
<1>6. QED
  BY <1>2, <1>3, <1>4, <1>5 DEF Parts, SemsOK

\* The semaphore a loop works on.
LEMMA LoopFacts ==
  ASSUME Parts, NEW op \in {"signaln", "semdelete", "semreset"}, Resumes(op)
  PROVE  /\ currpid \in Pid
         /\ cont[currpid].op = op /\ cont[currpid].arg \in Sem
         /\ cont[currpid] \in Cont
         /\ ndefers = 1
         /\ \A p \in Pid \ {currpid} : cont[p].op \notin Deferred
<1>1. /\ currpid \in Pid /\ cont[currpid].op = op /\ ndefers = 1
      /\ \A p \in Pid \ {currpid} : cont[p].op \notin Deferred
  BY DeferredFacts DEF Deferred
<1>2. cont[currpid].arg \in Sem
  BY <1>1 DEF Parts, ContOK
<1>3. QED
  BY <1>1, <1>2, SemTypes

\* One turn of the loop of signaln (signaln.c) keeps the invariant.
LEMMA SignalnStepOK ==
  ASSUME Parts, SignalnStep
  PROVE  Parts'
<1> DEFINE c == cont[currpid]
<1>1. Resumes("signaln")
  BY DEF SignalnStep
<1>2. /\ currpid \in Pid /\ c.op = "signaln" /\ c.arg \in Sem
      /\ c \in Cont /\ ndefers = 1
  BY <1>1, LoopFacts
<1>3. /\ c.n > 0 /\ Release(c.arg) /\ ContinueWith([c EXCEPT !.n = @ - 1])
      /\ UNCHANGED <<sstate, prsem, ndefers>> /\ SemUnchanged
  BY DEF SignalnStep
<1>4. /\ SchedOK' /\ SemQueuesOK'
      /\ squeue' \in [Sem -> Seq(Pid)] /\ scount' \in [Sem -> Int]
      /\ \A p \in Pid : \/ Keeps(p)
                        \/ prstate[p] = "PR_WAIT" /\ prstate'[p] \in Eligible
      /\ ndefers > 0 => currpid' = currpid
      /\ \A r \in Sem :
            Len(squeue'[r]) = IF scount'[r] < 0 THEN -scount'[r] ELSE 0
      /\ \A r \in Sem : squeue[r] = <<>> => squeue'[r] = <<>>
  BY <1>2, <1>3, ReleaseOK
<1>5. currpid' = currpid
  BY <1>2, <1>4
<1>6. CountsMatchQueues'
  BY <1>4 DEF CountsMatchQueues
<1>7. /\ [c EXCEPT !.n = @ - 1] \in Cont
      /\ [c EXCEPT !.n = @ - 1].op = c.op /\ [c EXCEPT !.n = @ - 1].arg = c.arg
  BY <1>2, <1>3 DEF Cont
<1>8. /\ cont' \in [Pid -> Cont]
      /\ cont'[currpid] = [c EXCEPT !.n = @ - 1]
      /\ \A p \in Pid \ {currpid} : cont'[p] = cont[p]
  BY <1>3, <1>7, ContinueFacts
<1>9. \A p \in Pid : /\ cont'[p].op = cont[p].op /\ cont'[p].arg = cont[p].arg
                     /\ p # currpid => cont'[p] = cont[p]
  BY <1>7, <1>8
<1>10. QED
  BY <1>1, <1>3, <1>4, <1>5, <1>6, <1>8, <1>9, LoopStep

\* One turn of the loop of semdelete (semdelete.c) keeps the invariant: the
\* count it raises stays that of the processes still queued.
LEMMA SemDeleteStepOK ==
  ASSUME Parts, SemDeleteStep
  PROVE  Parts'
<1> DEFINE s == cont[currpid].arg
<1>1. Resumes("semdelete")
  BY DEF SemDeleteStep
<1>2. /\ currpid \in Pid /\ cont[currpid].op = "semdelete" /\ s \in Sem
      /\ ndefers = 1
  BY <1>1, LoopFacts
<1>3. Release(s) /\ UNCHANGED <<sstate, prsem, cont, ndefers>> /\ SemUnchanged
  BY DEF SemDeleteStep
<1>4. /\ SchedOK' /\ SemQueuesOK'
      /\ squeue' \in [Sem -> Seq(Pid)] /\ scount' \in [Sem -> Int]
      /\ \A p \in Pid : \/ Keeps(p)
                        \/ prstate[p] = "PR_WAIT" /\ prstate'[p] \in Eligible
      /\ ndefers > 0 => currpid' = currpid
      /\ \A r \in Sem :
            Len(squeue'[r]) = IF scount'[r] < 0 THEN -scount'[r] ELSE 0
      /\ \A r \in Sem : squeue[r] = <<>> => squeue'[r] = <<>>
  BY <1>2, <1>3, ReleaseOK
<1>5. currpid' = currpid
  BY <1>2, <1>4
<1>6. CountsMatchQueues'
  BY <1>4 DEF CountsMatchQueues
<1>7. cont' = cont /\ cont' \in [Pid -> Cont]
  BY <1>3, SemTypes
<1>8. QED
  BY <1>1, <1>3, <1>4, <1>5, <1>6, <1>7, LoopStep

\* One turn of the loop of semreset (semreset.c) keeps the invariant, the
\* count being that of before the reset.
LEMMA SemResetStepOK ==
  ASSUME Parts, SemResetStep
  PROVE  Parts'
<1> DEFINE s == cont[currpid].arg
<1>1. Resumes("semreset")
  BY DEF SemResetStep
<1>2. /\ currpid \in Pid /\ cont[currpid].op = "semreset" /\ s \in Sem
      /\ ndefers = 1
  BY <1>1, LoopFacts
<1>3. /\ squeue[s] # <<>>
      /\ squeue' = [squeue EXCEPT ![s] = Tail(@)]
      /\ Ready(Head(squeue[s]))
      /\ UNCHANGED <<sstate, scount, prsem, cont, ndefers>> /\ SemUnchanged
  BY DEF SemResetStep
<1>4. /\ SchedOK' /\ SemQueuesOK'
      /\ squeue' \in [Sem -> Seq(Pid)]
      /\ \A r \in Sem \ {s} : squeue'[r] = squeue[r]
      /\ \A p \in Pid : Keeps(p) \/ (prstate[p] = "PR_WAIT" /\ prstate'[p] \in Eligible)
      /\ ndefers > 0 => currpid' = currpid
  BY <1>2, <1>3, ReleaseFirst
<1>5. currpid' = currpid
  BY <1>2, <1>4
<1> HIDE DEF s
<1>6. CountsMatchQueues'
  <2>1. ASSUME NEW r \in Sem
        PROVE  \/ cont'[currpid'].op = "semreset" /\ cont'[currpid'].arg = r
               \/ Len(squeue'[r]) = IF scount'[r] < 0 THEN -scount'[r] ELSE 0
    <3>1. CASE r = s
      BY <1>2, <1>3, <1>5, <3>1 DEF s
    <3>2. CASE r # s
      <4>1. Len(squeue[r]) = IF scount[r] < 0 THEN -scount[r] ELSE 0
        BY <3>2 DEF Parts, SemsOK, CountsMatchQueues, s
      <4>2. squeue'[r] = squeue[r] /\ scount' = scount
        BY <1>3, <1>4, <3>2
      <4>3. QED
        BY <4>1, <4>2
    <3>3. QED
      BY <3>1, <3>2
  <2>2. QED
    BY <2>1 DEF CountsMatchQueues
<1>7. \A r \in Sem : squeue[r] = <<>> => squeue'[r] = <<>>
  BY <1>3, <1>4
<1>8. cont' = cont /\ cont' \in [Pid -> Cont] /\ scount' \in [Sem -> Int]
  BY <1>3, SemTypes
<1>9. QED
  BY <1>1, <1>3, <1>4, <1>5, <1>6, <1>7, <1>8, LoopStep

\* The end of a loop: all counts match their queues again, and the queue of
\* a deleted semaphore is empty.
LEMMA LoopEnd ==
  ASSUME Parts, NEW op \in {"signaln", "semdelete", "semreset"}, Resumes(op),
         Finish, scount' \in [Sem -> Int],
         \A r \in Sem : Len(squeue[r]) = IF scount'[r] < 0 THEN -scount'[r] ELSE 0,
         op = "semdelete" => squeue[cont[currpid].arg] = <<>>
  PROVE  Parts'
<1>1. /\ currpid \in Pid
      /\ cont[currpid].op = op /\ cont[currpid].arg \in Sem
      /\ ndefers = 1
      /\ \A p \in Pid \ {currpid} : cont[p].op \notin Deferred
  BY LoopFacts
<1>2. /\ ContinueWith(Run) /\ DeferStop
      /\ UNCHANGED <<prsem, sstate, squeue>> /\ SemUnchanged
  BY DEF Finish
<1>3. SchedOK' /\ ndefers' = 0 /\ \A x \in Pid : Keeps(x)
  BY <1>1, <1>2, DeferStopOK DEF Parts
<1>4. /\ cont' \in [Pid -> Cont] /\ cont'[currpid] = Run
      /\ \A p \in Pid \ {currpid} : cont'[p] = cont[p]
  BY <1>2, RunIsCont, ContinueFacts
<1>5. \A p \in Pid : cont'[p].op \notin Deferred
  BY <1>1, <1>4, RunIsCont DEF Deferred
<1>6. DeferralEnds'
  BY <1>3, <1>5, DeferralEndsNext DEF SchedOK
<1>7. /\ TypeRest' /\ SleepQueueOK' /\ ReceiveHasMessage'
      /\ \A p \in Pid : prstate'[p] = "PR_FREE" => prstate[p] = "PR_FREE"
  <2>1. \A p \in Pid : cont'[p].op = "receive" => cont[p].op = "receive"
    BY <1>4, RunIsCont
  <2>2. QED
    BY <1>2, <1>3, <1>4, <2>1, SemTypes, SemFrame
<1>8. SemQueuesOK'
  BY <1>2, <1>3, KeepsStates DEF Parts, SemsOK, SemQueuesOK
<1>9. CountsMatchQueues'
  BY <1>2 DEF CountsMatchQueues
<1>10. FreeSemsAreEmpty'
  BY <1>1, <1>2 DEF Parts, SemsOK, FreeSemsAreEmpty
<1>11. ContOK'
  <2>1. ASSUME NEW p \in Pid
        PROVE  /\ cont'[p].op \in {"signaln", "semdelete", "semreset"}
                      => cont'[p].arg \in Sem
               /\ cont'[p].op = "kill" => cont'[p].arg \in Pid \ {NULLPROC}
               /\ prstate'[p] = "PR_FREE" => cont'[p] = Run
    BY <1>4, <1>7, RunIsCont DEF Parts, ContOK
  <2>2. QED
    BY <2>1 DEF ContOK
<1>12. QED
  BY <1>3, <1>6, <1>7, <1>8, <1>9, <1>10, <1>11 DEF Parts, SemsOK

\* The end of signaln, where the deferral is undone (signaln.c), keeps the
\* invariant.
LEMMA SignalnDoneOK ==
  ASSUME Parts, SignalnDone
  PROVE  Parts'
<1>1. Resumes("signaln") /\ scount' = scount /\ Finish
  BY DEF SignalnDone
<1>2. cont[currpid].op = "signaln"
  BY <1>1, LoopFacts
<1>3. \A r \in Sem : Len(squeue[r]) = IF scount'[r] < 0 THEN -scount'[r] ELSE 0
  BY <1>1, <1>2 DEF Parts, SemsOK, CountsMatchQueues
<1>4. QED
  BY <1>1, <1>3, SemTypes, LoopEnd

\* The end of semdelete keeps the invariant: the queue of the semaphore it
\* frees is empty.
LEMMA SemDeleteDoneOK ==
  ASSUME Parts, SemDeleteDone
  PROVE  Parts'
<1> DEFINE s == cont[currpid].arg
<1>1. /\ Resumes("semdelete") /\ scount[s] >= 0
      /\ scount' = [scount EXCEPT ![s] = @ + 1] /\ Finish
  BY DEF SemDeleteDone
<1>2. cont[currpid].op = "semdelete" /\ s \in Sem
  BY <1>1, LoopFacts
<1> HIDE DEF s
<1>3. /\ scount' \in [Sem -> Int] /\ scount'[s] = scount[s] + 1
      /\ \A r \in Sem \ {s} : scount'[r] = scount[r]
  BY <1>1, <1>2, SemTypes
<1>4. ASSUME NEW r \in Sem
      PROVE  /\ Len(squeue[r]) = IF scount'[r] < 0 THEN -scount'[r] ELSE 0
             /\ r = s => squeue[r] = <<>>
  <2>1. /\ scount[r] < 0 => Len(squeue[r]) = -scount[r]
        /\ scount[r] >= 0 => Len(squeue[r]) = 0 /\ squeue[r] = <<>>
        /\ scount[r] \in Int
    BY <1>2, CountFacts
  <2>2. CASE r = s
    BY <1>1, <1>3, <2>1, <2>2
  <2>3. CASE r # s
    <3>1. scount'[r] = scount[r]
      BY <1>3, <2>3
    <3>2. QED
      BY <2>1, <2>3, <3>1
  <2>4. QED
    BY <2>2, <2>3
<1>5. QED
  BY <1>1, <1>2, <1>3, <1>4, LoopEnd DEF s

\* The end of semreset keeps the invariant: the new count is not negative,
\* and the queue is empty.
LEMMA SemResetDoneOK ==
  ASSUME Parts, SemResetDone
  PROVE  Parts'
<1> DEFINE c == cont[currpid]
<1>1. /\ Resumes("semreset") /\ squeue[c.arg] = <<>>
      /\ scount' = [scount EXCEPT ![c.arg] = c.n] /\ Finish
  BY DEF SemResetDone
<1>2. c.op = "semreset" /\ c.arg \in Sem /\ c \in Cont
  BY <1>1, LoopFacts
<1>3. c.n \in Nat
  BY <1>2 DEF Cont
<1> HIDE DEF c
<1>4. /\ scount' \in [Sem -> Int] /\ scount'[c.arg] = c.n
      /\ \A r \in Sem \ {c.arg} : scount'[r] = scount[r]
  BY <1>1, <1>2, <1>3, SemTypes
<1>5. ASSUME NEW r \in Sem
      PROVE  Len(squeue[r]) = IF scount'[r] < 0 THEN -scount'[r] ELSE 0
  <2>1. CASE r = c.arg
    BY <1>1, <1>3, <1>4, <2>1, EmptySeq
  <2>2. CASE r # c.arg
    <3>1. Len(squeue[r]) = IF scount[r] < 0 THEN -scount[r] ELSE 0
      BY <2>2 DEF Parts, SemsOK, CountsMatchQueues, c
    <3>2. QED
      BY <1>4, <2>2, <3>1
  <2>3. QED
    BY <2>1, <2>2
<1>6. QED
  BY <1>1, <1>2, <1>4, <1>5, LoopEnd DEF c

\* A scan of a table finds a free slot if there is one.
LEMMA FirstFreeIsFree ==
  ASSUME NEW next, NEW free \in SUBSET Nat, free # {}
  PROVE  FirstFree(next, free) \in free
<1> DEFINE later == {i \in free : i >= next}
<1>1. CASE later # {}
  <2>1. Min(later) \in later
    BY <1>1, MinProperties
  <2>2. QED
    BY <1>1, <2>1 DEF FirstFree
<1>2. CASE later = {}
  <2>1. Min(free) \in free
    BY MinProperties
  <2>2. QED
    BY <1>2, <2>1 DEF FirstFree
<1>3. QED
  BY <1>1, <1>2

\* semcreate relies on the queue of a free semaphore being empty.
LEMMA SemCreateOK ==
  ASSUME Parts, NEW count \in Counts, SemCreate(count)
  PROVE  Parts'
<1> DEFINE s == FirstFree(nextsem, FreeSems)
<1>1. /\ Calls("semcreate") /\ FreeSems # {}
      /\ sstate' = [sstate EXCEPT ![s] = "S_USED"]
      /\ scount' = [scount EXCEPT ![s] = count]
      /\ nextsem' = (s + 1) % NSEM
      /\ UNCHANGED <<schedVars, msgVars, tableVars, squeue, prsem, sleepq,
                     ndefers, cont, halted>>
  BY DEF SemCreate
<1>2. /\ cont[currpid].op \notin Deferred /\ ndefers = 0
      /\ \A p \in Pid : cont[p].op \notin Deferred
  BY <1>1, CallFacts
<1>3. s \in Sem /\ sstate[s] = "S_FREE"
  <2>1. FreeSems \in SUBSET Nat
    BY DEF FreeSems, Sem
  <2>2. s \in FreeSems
    BY <1>1, <2>1, FirstFreeIsFree
  <2>3. QED
    BY <2>2 DEF FreeSems
<1>4. squeue[s] = <<>>
  BY <1>2, <1>3 DEF Parts, SemsOK, FreeSemsAreEmpty, Deferred
<1> HIDE DEF s
<1>5. count \in Nat
  BY CountsAssumption
<1>6. /\ scount' \in [Sem -> Int] /\ scount'[s] = count
      /\ \A r \in Sem \ {s} : scount'[r] = scount[r]
  BY <1>1, <1>3, <1>5, SemTypes
<1>7. /\ sstate' \in [Sem -> {"S_FREE", "S_USED"}] /\ sstate'[s] = "S_USED"
      /\ \A r \in Sem \ {s} : sstate'[r] = sstate[r]
  BY <1>1, <1>3, SemTypes
<1>8. nextsem' \in Sem
  BY <1>1, <1>3, TableAssumption DEF Sem
<1>9. SchedOK' /\ \A p \in Pid : Keeps(p)
  BY <1>1, UnchangedOK DEF Parts
<1>10. TypeRest'
  BY <1>1, <1>6, <1>7, <1>8 DEF Parts, TypeRest, msgVars, tableVars
<1>11. SleepQueueOK' /\ ReceiveHasMessage' /\ ContOK' /\ DeferralEnds'
  BY <1>1 DEF Parts, SleepQueueOK, ReceiveHasMessage, ContOK, DeferralEnds,
             schedVars, msgVars
<1>12. SemQueuesOK'
  BY <1>1 DEF Parts, SemsOK, SemQueuesOK, schedVars
<1>13. CountsMatchQueues'
  <2>1. ASSUME NEW r \in Sem
        PROVE  Len(squeue'[r]) = IF scount'[r] < 0 THEN -scount'[r] ELSE 0
    <3>1. CASE r = s
      BY <1>1, <1>4, <1>5, <1>6, <3>1, EmptySeq
    <3>2. CASE r # s
      <4>1. Len(squeue[r]) = IF scount[r] < 0 THEN -scount[r] ELSE 0
        BY <1>2 DEF Parts, SemsOK, CountsMatchQueues, Deferred
      <4>2. QED
        BY <1>1, <1>6, <3>2, <4>1
    <3>3. QED
      BY <3>1, <3>2
  <2>2. QED
    BY <2>1 DEF CountsMatchQueues
<1>14. FreeSemsAreEmpty'
  BY <1>1, <1>7 DEF Parts, SemsOK, FreeSemsAreEmpty, schedVars
<1>15. QED
  BY <1>9, <1>10, <1>11, <1>12, <1>13, <1>14 DEF Parts, SemsOK

\* Every call on semaphores, and every step of one, keeps the invariant.
LEMMA SemActionsOK ==
  ASSUME Parts, SemCalls \/ SemSteps
  PROVE  Parts'
<1>1. ASSUME NEW s \in Sem, NEW count \in Counts, Signaln(s, count)
      PROVE  Parts'
  BY <1>1, StartLoop, CountsAssumption DEF Signaln, Used
<1>2. ASSUME NEW s \in Sem, NEW count \in Counts, SemReset(s, count)
      PROVE  Parts'
  BY <1>2, StartLoop, CountsAssumption DEF SemReset, Used
<1>3. ASSUME NEW s \in Sem, SemDelete(s)
      PROVE  Parts'
  BY <1>3, StartLoop DEF SemDelete, Used
<1>4. QED
  BY <1>1, <1>2, <1>3, WaitOK, SignalOK, SemCreateOK, SignalnStepOK,
     SignalnDoneOK, SemDeleteStepOK, SemDeleteDoneOK, SemResetStepOK,
     SemResetDoneOK DEF SemCalls, SemSteps

-----------------------------------------------------------------------------
(* Sleeping and the clock.                                                 *)

\* A step outside any deferral that leaves semaphores alone.
LEMMA QuietFrame ==
  ASSUME Parts, cont[currpid].op \notin Deferred, SchedOK',
         UNCHANGED semVars, ndefers' = ndefers,
         \A p \in Pid : cont'[p].op \notin Deferred,
         \A p \in Pid : /\ prstate'[p] = "PR_WAIT" <=> prstate[p] = "PR_WAIT"
                        /\ prstate[p] = "PR_WAIT" => prsem'[p] = prsem[p]
  PROVE  SemsOK' /\ DeferralEnds'
<1>1. SemsOK'
  BY SemsKept DEF semVars
<1>2. ndefers' = 0
  BY NoDeferral
<1>3. DeferralEnds'
  BY <1>2, DeferralEndsNext DEF SchedOK
<1>4. QED
  BY <1>1, <1>3

\* sleepq with a process added, and its key set, by insertd.
LEMMA InsertdOK ==
  ASSUME Parts, NEW delay, NEW p \in Pid, prstate[p] \notin Sleeping
  PROVE  /\ QueueOf(Pid, Insertd(sleepq, p, qkey, delay))
         /\ Range(Insertd(sleepq, p, qkey, delay)) = Range(sleepq) \cup {p}
         /\ DOMAIN InsertdKeys(sleepq, p, qkey, delay) = Pid
<1>1. QueueOf(Pid, sleepq) /\ p \notin Range(sleepq)
  BY DEF Parts, TypeRest, SleepQueueOK, QueueOf, Sleeping
<1>2. DOMAIN qkey = Pid
  BY SchedFacts DEF Parts
<1>3. QED
  BY <1>1, <1>2, InsertdMembers DEF InsertdKeys

\* sleepms (sleep.c) keeps the invariant: insertd puts the caller once on the
\* sleep queue.
LEMMA SleepmsOK ==
  ASSUME Parts, NEW delay \in Delays, Sleepms(delay)
  PROVE  Parts'
<1>1. /\ currpid \in Pid /\ currpid # NULLPROC
      /\ prstate[currpid] = "PR_CURR"
      /\ cont[currpid] = Run /\ cont[currpid].op \notin Deferred
      /\ ndefers = 0
      /\ \A p \in Pid : cont[p].op \notin Deferred
  BY CallFacts DEF Sleepms
<1>2. /\ sleepq' = Insertd(sleepq, currpid, qkey, delay)
      /\ Block("PR_SLEEP", InsertdKeys(sleepq, currpid, qkey, delay))
      /\ UNCHANGED <<semVars, msgVars, tableVars, prsem, ndefers, cont, halted>>
  BY DEF Sleepms
<1>3. /\ QueueOf(Pid, sleepq')
      /\ Range(sleepq') = Range(sleepq) \cup {currpid}
      /\ DOMAIN InsertdKeys(sleepq, currpid, qkey, delay) = Pid
  BY <1>1, <1>2, InsertdOK DEF Sleeping
<1>4. /\ SchedOK' /\ prstate'[currpid] = "PR_SLEEP"
      /\ \A x \in Pid \ {currpid} : Keeps(x)
  <2>1. "PR_SLEEP" \in PrState \ Eligible
    BY DEF PrState, Eligible
  <2>2. QED
    BY <1>1, <1>2, <1>3, <2>1, BlockOK DEF Parts
<1>5. TypeRest'
  BY <1>2, <1>3 DEF Parts, TypeRest, semVars, msgVars, tableVars, QueueOf
<1>6. SleepQueueOK'
  <2>1. ASSUME NEW p \in Pid
        PROVE  p \in Range(sleepq') <=> prstate'[p] \in Sleeping
    <3>1. CASE p = currpid
      BY <1>3, <1>4, <3>1 DEF Sleeping
    <3>2. CASE p # currpid
      BY <1>3, <1>4, <3>2, KeepsStates DEF Parts, SleepQueueOK, Sleeping
    <3>3. QED
      BY <3>1, <3>2
  <2>2. QED
    BY <1>3, <2>1 DEF SleepQueueOK, QueueOf, Sleeping
<1>7. \A p \in Pid : /\ prstate'[p] = "PR_WAIT" <=> prstate[p] = "PR_WAIT"
                     /\ prstate'[p] = "PR_RECV" <=> prstate[p] = "PR_RECV"
                     /\ prstate'[p] = "PR_FREE" <=> prstate[p] = "PR_FREE"
  BY <1>1, <1>4, KeepsStates
<1>8. SemsOK' /\ DeferralEnds'
  BY <1>1, <1>2, <1>4, <1>7, QuietFrame
<1>9. ReceiveHasMessage' /\ ContOK'
  BY <1>2, <1>7, ReceiversKept, ContKept DEF Parts, msgVars
<1>10. QED
  BY <1>4, <1>5, <1>6, <1>8, <1>9 DEF Parts

\* The first part of the clock interrupt (clkhandler.c) keeps the invariant.
LEMMA ClkHandlerOK ==
  ASSUME Parts, ClkHandler
  PROVE  Parts'
<1>1. /\ cont[currpid] = Run
      /\ DOMAIN qkey' = DOMAIN qkey
      /\ \/ ContinueWith(Wakeup1) /\ DeferStart
         \/ ContinueWith(Tail1) /\ UNCHANGED <<ndefers, attempt>>
      /\ UNCHANGED <<prstate, readylist, currpid, preempt, semVars, msgVars,
                     tableVars, prsem, sleepq, halted>>
  BY DEF ClkHandler, DueAtThisTick
<1>2. currpid \in Pid /\ DOMAIN qkey = Pid /\ preempt \in 1 .. QUANTUM /\ attempt \in BOOLEAN
      /\ prstate[currpid] = "PR_CURR"
  BY SchedFacts DEF Parts
<1>3. cont[currpid].op \notin Deferred
  BY <1>1, RunIsCont DEF Deferred
<1>4. ndefers = 0 /\ \A p \in Pid : cont[p].op \notin Deferred
  BY <1>3, NoDeferral
<1>5. attempt' \in BOOLEAN
  BY <1>1, <1>2 DEF DeferStart
<1>6. SchedOK' /\ \A p \in Pid : Keeps(p)
  BY <1>1, <1>2, <1>5, NoReschedOK DEF Parts
<1>7. /\ Wakeup1 \in Cont /\ Wakeup1.op = "wakeup"
      /\ Tail1 \in Cont /\ Tail1.op = "clktail"
  BY DEF Wakeup1, Tail1, Cont, ContOps
<1>8. /\ cont' \in [Pid -> Cont]
      /\ \A p \in Pid \ {currpid} : cont'[p] = cont[p]
      /\ \/ cont'[currpid] = Wakeup1 /\ ndefers' = 1
         \/ cont'[currpid] = Tail1 /\ ndefers' = 0
  <2>1. CASE ContinueWith(Wakeup1) /\ DeferStart
    BY <1>4, <1>7, <2>1, ContinueFacts DEF DeferStart
  <2>2. CASE ContinueWith(Tail1) /\ UNCHANGED <<ndefers, attempt>>
    BY <1>4, <1>7, <2>2, ContinueFacts
  <2>3. QED
    BY <1>1, <2>1, <2>2
<1>9. TypeRest'
  BY <1>1, <1>8 DEF Parts, TypeRest, semVars, msgVars, tableVars
<1>10. SleepQueueOK'
  BY <1>1 DEF Parts, SleepQueueOK
<1>11. SemsOK'
  <2>1. \A p \in Pid : /\ prstate'[p] = "PR_WAIT" <=> prstate[p] = "PR_WAIT"
                       /\ prstate[p] = "PR_WAIT" => prsem'[p] = prsem[p]
    BY <1>1
  <2>2. QED
    BY <1>1, <1>3, <2>1, SemsKept DEF semVars
<1>12. DeferralEnds'
  BY <1>1, <1>2, <1>4, <1>7, <1>8 DEF DeferralEnds, Deferred
<1>13. ReceiveHasMessage'
  BY <1>1, <1>7, <1>8, ReceiversKept DEF Parts, msgVars
<1>14. ContOK'
  BY <1>1, <1>2, <1>7, <1>8 DEF Parts, ContOK
<1>15. QED
  BY <1>6, <1>9, <1>10, <1>11, <1>12, <1>13, <1>14 DEF Parts

\* One turn of the loop of wakeup (wakeup.c) keeps the invariant.
LEMMA WakeupStepOK ==
  ASSUME Parts, WakeupStep
  PROVE  Parts'
<1> DEFINE h == Head(sleepq)
<1>1. /\ Resumes("wakeup") /\ sleepq # <<>>
      /\ sleepq' = Tail(sleepq) /\ ReadyWith(h, qkey)
      /\ UNCHANGED <<semVars, msgVars, tableVars, prsem, ndefers, cont, halted>>
  BY DEF WakeupStep, FirstIsDue, Ready
<1>2. /\ currpid \in Pid /\ cont[currpid].op = "wakeup" /\ ndefers = 1
      /\ \A p \in Pid \ {currpid} : cont[p].op \notin Deferred
  BY <1>1, DeferredFacts DEF Deferred
<1>3. QueueOf(Pid, sleepq)
  BY DEF Parts, TypeRest, SleepQueueOK, QueueOf
<1>4. /\ QueueOf(Pid, sleepq')
      /\ Range(sleepq') = Range(sleepq) \ {h}
      /\ h \in Range(sleepq)
  BY <1>1, <1>3, TailMembers
<1>5. h \in Pid
  BY <1>3, <1>4, MembersAt DEF QueueOf
<1> HIDE DEF h
<1>6. prstate[h] \in Sleeping
  BY <1>4, <1>5 DEF Parts, SleepQueueOK, Sleeping
<1>7. /\ SchedOK' /\ prstate'[h] \in Eligible
      /\ \A x \in Pid \ {h} : Keeps(x)
      /\ currpid' = currpid
  BY <1>1, <1>2, <1>5, <1>6, ReadyOK, SchedFacts DEF Parts, Sleeping, Eligible
<1>8. \A p \in Pid : /\ prstate'[p] = "PR_WAIT" <=> prstate[p] = "PR_WAIT"
                     /\ prstate'[p] = "PR_RECV" <=> prstate[p] = "PR_RECV"
                     /\ prstate'[p] = "PR_FREE" <=> prstate[p] = "PR_FREE"
  BY <1>6, <1>7, KeepsStates DEF Sleeping, Eligible
<1>9. TypeRest'
  BY <1>1, <1>4 DEF Parts, TypeRest, semVars, msgVars, tableVars, QueueOf
<1>10. SleepQueueOK'
  <2>1. ASSUME NEW p \in Pid
        PROVE  p \in Range(sleepq') <=> prstate'[p] \in Sleeping
    <3>1. CASE p = h
      BY <1>4, <1>7, <3>1 DEF Sleeping, Eligible
    <3>2. CASE p # h
      BY <1>4, <1>7, <3>2, KeepsStates DEF Parts, SleepQueueOK, Sleeping
    <3>3. QED
      BY <3>1, <3>2
  <2>2. QED
    BY <1>4, <2>1 DEF SleepQueueOK, QueueOf, Sleeping
<1>11. SemsOK'
  <2>1. SemQueuesOK'
    BY <1>1, <1>8 DEF Parts, SemsOK, SemQueuesOK, semVars
  <2>2. CountsMatchQueues' /\ FreeSemsAreEmpty'
    BY <1>1, <1>7 DEF Parts, SemsOK, CountsMatchQueues, FreeSemsAreEmpty, semVars
  <2>3. QED
    BY <2>1, <2>2 DEF SemsOK
<1>12. DeferralEnds'
  BY <1>1, <1>2, <1>7, SameDeferral DEF Parts
<1>13. ReceiveHasMessage' /\ ContOK'
  BY <1>1, <1>8, ReceiversKept, ContKept DEF Parts, msgVars
<1>14. QED
  BY <1>7, <1>9, <1>10, <1>11, <1>12, <1>13 DEF Parts

\* The clock handler returns, or goes on after wakeup.
LEMMA ClockRest ==
  ASSUME Parts, currpid \in Pid, NEW c \in {Tail1, Run}, ContinueWith(c),
         \A p \in Pid \ {currpid} : cont[p].op \notin Deferred,
         cont[currpid].op \in {"wakeup", "clktail"},
         SchedOK', \A p \in Pid : Keeps(p), ndefers' = 0,
         UNCHANGED <<semVars, msgVars, tableVars, prsem, sleepq, halted>>
  PROVE  Parts'
<1>1. c \in Cont /\ c.op \in {"run", "clktail"}
  BY DEF Tail1, Run, Cont, ContOps
<1>2. /\ cont' \in [Pid -> Cont] /\ cont'[currpid] = c
      /\ \A p \in Pid \ {currpid} : cont'[p] = cont[p]
  BY <1>1, ContinueFacts
<1>3. \A p \in Pid : cont'[p].op \notin Deferred
  BY <1>1, <1>2 DEF Deferred
<1>4. DeferralEnds'
  BY <1>3, DeferralEndsNext DEF SchedOK
<1>5. TypeRest'
  BY <1>2 DEF Parts, TypeRest, semVars, msgVars, tableVars
<1>6. SleepQueueOK'
  BY KeepsStates, SleepQueueKept DEF Parts
<1>7. SemQueuesOK'
  BY KeepsStates DEF Parts, SemsOK, SemQueuesOK, semVars
<1>8. CountsMatchQueues' /\ FreeSemsAreEmpty'
  BY DEF Parts, SemsOK, CountsMatchQueues, FreeSemsAreEmpty, semVars
<1>9. ReceiveHasMessage'
  BY <1>1, <1>2, KeepsStates, ReceiversKept DEF Parts, msgVars
<1>10. ContOK'
  <2>1. prstate[currpid] = "PR_CURR"
    BY SchedFacts DEF Parts
  <2>2. \A p \in Pid : prstate'[p] = "PR_FREE" <=> prstate[p] = "PR_FREE"
    BY KeepsStates
  <2>3. QED
    BY <1>1, <1>2, <2>1, <2>2 DEF Parts, ContOK
<1>11. QED
  BY <1>4, <1>5, <1>6, <1>7, <1>8, <1>9, <1>10 DEF Parts, SemsOK

\* The end of wakeup, where the deferral is undone, keeps the invariant.
LEMMA WakeupDoneOK ==
  ASSUME Parts, WakeupDone
  PROVE  Parts'
<1>1. /\ Resumes("wakeup") /\ ContinueWith(Tail1) /\ DeferStop
      /\ UNCHANGED <<semVars, msgVars, tableVars, prsem, sleepq, halted>>
  BY DEF WakeupDone
<1>2. /\ currpid \in Pid /\ cont[currpid].op = "wakeup" /\ ndefers = 1
      /\ \A p \in Pid \ {currpid} : cont[p].op \notin Deferred
  BY <1>1, DeferredFacts DEF Deferred
<1>3. SchedOK' /\ ndefers' = 0 /\ \A x \in Pid : Keeps(x)
  BY <1>1, <1>2, DeferStopOK DEF Parts
<1>4. QED
  BY <1>1, <1>2, <1>3, ClockRest

\* The time slice part of the clock interrupt (clkhandler.c) keeps the
\* invariant.
LEMMA ClkTailOK ==
  ASSUME Parts, ClkTail
  PROVE  Parts'
<1>1. /\ Resumes("clktail") /\ ContinueWith(Run)
      /\ UNCHANGED <<semVars, msgVars, tableVars, prsem, sleepq, ndefers, halted>>
  BY DEF ClkTail
<1>2. /\ currpid \in Pid /\ cont[currpid].op = "clktail" /\ ndefers = 0
      /\ \A p \in Pid : cont[p].op \notin Deferred
  BY <1>1, ResumeFacts DEF Deferred
<1>3. SchedOK' /\ \A p \in Pid : Keeps(p)
  <2>1. CASE /\ preempt - 1 > 0 /\ preempt' = preempt - 1
             /\ UNCHANGED <<prstate, readylist, qkey, currpid, attempt>>
    <3>1. preempt' \in 1 .. QUANTUM
      BY <2>1, SchedFacts, TableAssumption DEF Parts
    <3>2. QED
      BY <2>1, <3>1, SchedFacts, NoReschedOK DEF Parts
  <2>2. CASE Resched(prstate, readylist, qkey, QUANTUM)
    <3>1. QUANTUM \in 1 .. QUANTUM
      BY TableAssumption
    <3>2. QED
      BY <1>2, <2>2, <3>1, YieldOK DEF Parts
  <2>3. QED
    BY <2>1, <2>2 DEF ClkTail
<1>4. QED
  BY <1>1, <1>2, <1>3, ClockRest

\* Every step of sleeping and of the clock keeps the invariant.
LEMMA ClockActionsOK ==
  ASSUME Parts, SleepCalls \/ ClkHandler \/ WakeupStep \/ WakeupDone \/ ClkTail
  PROVE  Parts'
  BY SleepmsOK, ClkHandlerOK, WakeupStepOK, WakeupDoneOK, ClkTailOK DEF SleepCalls

-----------------------------------------------------------------------------
(* Messages.                                                               *)

\* send: a receiver that waits becomes ready, and if it waited with a limit
\* it leaves the sleep queue.
LEMMA DeliverOK ==
  ASSUME Parts, ndefers = 0, NEW p \in Pid, NEW msg \in Nat, Deliver(p, msg)
  PROVE  /\ SchedOK' /\ SleepQueueOK'
         /\ prmsg' \in [Pid -> Nat] /\ prhasmsg' \in [Pid -> BOOLEAN]
         /\ sleepq' \in Seq(Pid)
         /\ \A x \in Pid :
               /\ prstate'[x] = "PR_WAIT" <=> prstate[x] = "PR_WAIT"
               /\ prstate'[x] = "PR_FREE" <=> prstate[x] = "PR_FREE"
               /\ prhasmsg[x] => prhasmsg'[x]
               /\ prstate[x] = "PR_RECV"
                     => prstate'[x] = "PR_RECV" \/ prhasmsg'[x]
<1>1. /\ prmsg' \in [Pid -> Nat] /\ prhasmsg' \in [Pid -> BOOLEAN]
      /\ prhasmsg'[p] /\ \A x \in Pid : prhasmsg[x] => prhasmsg'[x]
  BY DEF Deliver, Parts, TypeRest
<1>2. QueueOf(Pid, sleepq) /\ DOMAIN qkey = Pid
  BY SchedFacts DEF Parts, TypeRest, SleepQueueOK, QueueOf
<1>3. CASE /\ prstate[p] = "PR_RECV" /\ Ready(p) /\ UNCHANGED sleepq
  <2>1. /\ SchedOK' /\ prstate'[p] \in Eligible
        /\ \A x \in Pid \ {p} : Keeps(x)
    BY <1>2, <1>3, ReadyOK DEF Parts, Ready, Eligible
  <2>2. \A x \in Pid : /\ prstate'[x] = "PR_WAIT" <=> prstate[x] = "PR_WAIT"
                       /\ prstate'[x] \in Sleeping <=> prstate[x] \in Sleeping
                       /\ prstate'[x] = "PR_FREE" <=> prstate[x] = "PR_FREE"
                       /\ x = p \/ (prstate'[x] = "PR_RECV" <=> prstate[x] = "PR_RECV")
    BY <1>3, <2>1, KeepsStates DEF Eligible, Sleeping
  <2>3. SleepQueueOK'
    BY <1>3, <2>2, SleepQueueKept DEF Parts
  <2>4. QED
    BY <1>1, <1>2, <1>3, <2>1, <2>2, <2>3 DEF QueueOf
<1>4. CASE /\ prstate[p] = "PR_RECTIM"
           /\ sleepq' = GetItem(sleepq, p)
           /\ ReadyWith(p, UnsleepKeys(sleepq, p, qkey))
  <2>1. p \in Range(sleepq)
    BY <1>4 DEF Parts, SleepQueueOK
  <2>2. QueueOf(Pid, sleepq') /\ Range(sleepq') = Range(sleepq) \ {p}
    BY <1>2, <1>4, <2>1, GetItemMembers
  <2>3. DOMAIN UnsleepKeys(sleepq, p, qkey) = Pid
    BY <1>2 DEF UnsleepKeys
  <2>4. /\ SchedOK' /\ prstate'[p] \in Eligible
        /\ \A x \in Pid \ {p} : Keeps(x)
    BY <1>4, <2>3, ReadyOK DEF Parts, Eligible
  <2>5. \A x \in Pid : /\ prstate'[x] = "PR_WAIT" <=> prstate[x] = "PR_WAIT"
                       /\ prstate'[x] = "PR_FREE" <=> prstate[x] = "PR_FREE"
                       /\ prstate'[x] = "PR_RECV" <=> prstate[x] = "PR_RECV"
    BY <1>4, <2>4, KeepsStates DEF Eligible
  <2>6. SleepQueueOK'
    <3>1. ASSUME NEW x \in Pid
          PROVE  x \in Range(sleepq') <=> prstate'[x] \in Sleeping
      <4>1. CASE x = p
        BY <2>2, <2>4, <4>1 DEF Sleeping, Eligible
      <4>2. CASE x # p
        BY <2>2, <2>4, <4>2, KeepsStates DEF Parts, SleepQueueOK, Sleeping
      <4>3. QED
        BY <4>1, <4>2
    <3>2. QED
      BY <2>2, <3>1 DEF SleepQueueOK, QueueOf, Sleeping
  <2>7. QED
    BY <1>1, <2>2, <2>4, <2>5, <2>6 DEF QueueOf
<1>5. CASE UNCHANGED <<schedVars, sleepq>>
  <2>1. SchedOK' /\ prstate' = prstate /\ sleepq' = sleepq
    BY <1>5, UnchangedOK DEF Parts, schedVars
  <2>2. QED
    BY <1>1, <1>2, <2>1 DEF Parts, SleepQueueOK, QueueOf
<1>6. QED
  BY <1>3, <1>4, <1>5 DEF Deliver

\* send (send.c) keeps the invariant in all of its three cases: the receiver
\* waits, waits with a limit, or does not wait.
LEMMA SendOK ==
  ASSUME Parts, NEW p \in Pid, NEW msg \in Msgs, Send(p, msg)
  PROVE  Parts'
<1>1. /\ cont[currpid].op \notin Deferred /\ ndefers = 0
      /\ \A x \in Pid : cont[x].op \notin Deferred
  BY CallFacts DEF Send
<1>2. /\ Deliver(p, msg)
      /\ UNCHANGED <<semVars, tableVars, prsem, ndefers, cont, halted>>
  BY DEF Send
<1>3. msg \in Nat
  BY MsgsAssumption
<1>4. /\ SchedOK' /\ SleepQueueOK'
      /\ prmsg' \in [Pid -> Nat] /\ prhasmsg' \in [Pid -> BOOLEAN]
      /\ sleepq' \in Seq(Pid)
      /\ \A x \in Pid :
            /\ prstate'[x] = "PR_WAIT" <=> prstate[x] = "PR_WAIT"
            /\ prstate'[x] = "PR_FREE" <=> prstate[x] = "PR_FREE"
            /\ prhasmsg[x] => prhasmsg'[x]
            /\ prstate[x] = "PR_RECV" => prstate'[x] = "PR_RECV" \/ prhasmsg'[x]
  BY <1>1, <1>2, <1>3, DeliverOK
<1>5. SemsOK' /\ DeferralEnds'
  BY <1>1, <1>2, <1>4, QuietFrame
<1>6. TypeRest'
  BY <1>2, <1>4 DEF Parts, TypeRest, semVars, tableVars
<1>7. ReceiveHasMessage' /\ ContOK'
  BY <1>2, <1>4, ReceiversKept, ContKept DEF Parts
<1>8. QED
  BY <1>4, <1>5, <1>6, <1>7 DEF Parts

\* A receiver that has the processor: it may take its message, and blocks or
\* goes on with continuation c.
LEMMA ReceiverStep ==
  ASSUME Parts, currpid \in Pid, ndefers = 0,
         \A p \in Pid : cont[p].op \notin Deferred,
         NEW c \in Cont, c.op \in {"run", "receive", "recvtime"},
         cont' = [cont EXCEPT ![currpid] = c],
         SchedOK', SleepQueueOK', sleepq' \in Seq(Pid), MsgUnchanged,
         prmsg' = prmsg,
         prhasmsg' \in [Pid -> BOOLEAN],
         \A x \in Pid \ {currpid} : Keeps(x) /\ prhasmsg'[x] = prhasmsg[x],
         c.op = "receive" => prstate'[currpid] = "PR_RECV",
         prstate'[currpid] \notin {"PR_FREE", "PR_WAIT"}
  PROVE  Parts'
<1>1. UNCHANGED <<semVars, tableVars, prsem, ndefers, halted>>
  BY DEF MsgUnchanged
<1>2. prstate[currpid] = "PR_CURR"
  BY SchedFacts DEF Parts
<1>3. \A x \in Pid : cont'[x] = IF x = currpid THEN c ELSE cont[x]
  BY DEF Parts, TypeRest
<1>4. TypeRest'
  BY <1>1 DEF Parts, TypeRest, semVars, tableVars
<1>5. \A x \in Pid : /\ prstate'[x] = "PR_WAIT" <=> prstate[x] = "PR_WAIT"
                     /\ prstate'[x] = "PR_FREE" <=> prstate[x] = "PR_FREE"
                     /\ x = currpid \/ (prstate'[x] = "PR_RECV" <=> prstate[x] = "PR_RECV")
  BY <1>2, KeepsStates
<1>6. SemsOK' /\ DeferralEnds'
  <2>1. \A x \in Pid : cont'[x].op \notin Deferred
    BY <1>3 DEF Deferred
  <2>2. QED
    BY <1>1, <1>5, <2>1, QuietFrame
<1>7. ReceiveHasMessage'
  <2>1. ASSUME NEW x \in Pid, cont'[x].op = "receive", prstate'[x] # "PR_RECV"
        PROVE  prhasmsg'[x]
    <3>1. x # currpid
      BY <1>3, <2>1
    <3>2. QED
      BY <1>3, <1>5, <2>1, <3>1 DEF Parts, ReceiveHasMessage
  <2>2. QED
    BY <2>1 DEF ReceiveHasMessage
<1>8. ContOK'
  <2>1. ASSUME NEW x \in Pid
        PROVE  /\ cont'[x].op \in {"signaln", "semdelete", "semreset"}
                      => cont'[x].arg \in Sem
               /\ cont'[x].op = "kill" => cont'[x].arg \in Pid \ {NULLPROC}
               /\ prstate'[x] = "PR_FREE" => cont'[x] = Run
    <3>1. CASE x = currpid
      BY <1>3, <3>1
    <3>2. CASE x # currpid
      BY <1>3, <1>5, <3>2 DEF Parts, ContOK
    <3>3. QED
      BY <3>1, <3>2
  <2>2. QED
    BY <2>1 DEF ContOK
<1>9. QED
  BY <1>4, <1>6, <1>7, <1>8 DEF Parts

\* The receiver goes on without giving the processor away.
LEMMA ReceiverRuns ==
  ASSUME Parts, currpid \in Pid, ndefers = 0,
         \A p \in Pid : cont[p].op \notin Deferred,
         cont' = [cont EXCEPT ![currpid] = Run],
         TakeMessage \/ UNCHANGED msgVars,
         UNCHANGED <<schedVars, sleepq>>, MsgUnchanged
  PROVE  Parts'
<1>1. /\ SchedOK' /\ \A x \in Pid : Keeps(x)
      /\ prstate' = prstate /\ sleepq' = sleepq
  BY UnchangedOK DEF Parts, schedVars
<1>2. prstate[currpid] = "PR_CURR"
  BY SchedFacts DEF Parts
<1>3. /\ prmsg' = prmsg /\ prhasmsg' \in [Pid -> BOOLEAN]
      /\ \A x \in Pid \ {currpid} : prhasmsg'[x] = prhasmsg[x]
  BY DEF TakeMessage, msgVars, Parts, TypeRest
<1>4. SleepQueueOK' /\ sleepq' \in Seq(Pid)
  BY <1>1 DEF Parts, SleepQueueOK, TypeRest
<1>5. QED
  BY <1>1, <1>2, <1>3, <1>4, RunIsCont, ReceiverStep

\* receive (receive.c), when it has to wait, keeps the invariant.
LEMMA ReceiveBlockOK ==
  ASSUME Parts, ReceiveBlock
  PROVE  Parts'
<1> DEFINE c == [op |-> "receive", arg |-> 0, n |-> 0]
<1>1. /\ currpid \in Pid /\ currpid # NULLPROC /\ prstate[currpid] = "PR_CURR"
      /\ ndefers = 0 /\ \A p \in Pid : cont[p].op \notin Deferred
  BY CallFacts DEF ReceiveBlock
<1>2. /\ cont' = [cont EXCEPT ![currpid] = c] /\ Block("PR_RECV", qkey)
      /\ UNCHANGED <<msgVars, sleepq>> /\ MsgUnchanged
  BY DEF ReceiveBlock, ContinueWith
<1>3. c \in Cont /\ c.op = "receive"
  BY DEF Cont, ContOps
<1> HIDE DEF c
<1>4. /\ SchedOK' /\ prstate'[currpid] = "PR_RECV"
      /\ \A x \in Pid \ {currpid} : Keeps(x)
  <2>1. "PR_RECV" \in PrState \ Eligible
    BY DEF PrState, Eligible
  <2>2. QED
    BY <1>1, <1>2, <2>1, BlockOK, SchedFacts DEF Parts
<1>5. SleepQueueOK' /\ sleepq' \in Seq(Pid)
  <2>1. \A p \in Pid : prstate'[p] \in Sleeping <=> prstate[p] \in Sleeping
    BY <1>1, <1>4, KeepsStates DEF Sleeping
  <2>2. QED
    BY <1>2, <2>1, SleepQueueKept DEF Parts, TypeRest
<1>6. prmsg' = prmsg /\ prhasmsg' = prhasmsg /\ prhasmsg' \in [Pid -> BOOLEAN]
  BY <1>2 DEF msgVars, Parts, TypeRest
<1>7. QED
  BY <1>1, <1>2, <1>3, <1>4, <1>5, <1>6, ReceiverStep

\* recvtime (recvtime.c), when it has to wait, keeps the invariant.
LEMMA RecvtimeBlockOK ==
  ASSUME Parts, NEW maxwait \in Delays, RecvtimeBlock(maxwait)
  PROVE  Parts'
<1> DEFINE c == [op |-> "recvtime", arg |-> 0, n |-> 0]
           ky == InsertdKeys(sleepq, currpid, qkey, maxwait)
<1>1. /\ currpid \in Pid /\ currpid # NULLPROC /\ prstate[currpid] = "PR_CURR"
      /\ ndefers = 0 /\ \A p \in Pid : cont[p].op \notin Deferred
  BY CallFacts DEF RecvtimeBlock
<1>2. /\ cont' = [cont EXCEPT ![currpid] = c] /\ Block("PR_RECTIM", ky)
      /\ sleepq' = Insertd(sleepq, currpid, qkey, maxwait)
      /\ UNCHANGED msgVars /\ MsgUnchanged
  BY DEF RecvtimeBlock, ContinueWith
<1>3. c \in Cont /\ c.op = "recvtime"
  BY DEF Cont, ContOps
<1>4. /\ QueueOf(Pid, sleepq')
      /\ Range(sleepq') = Range(sleepq) \cup {currpid}
      /\ DOMAIN ky = Pid
  BY <1>1, <1>2, InsertdOK DEF Sleeping
<1> HIDE DEF c, ky
<1>5. /\ SchedOK' /\ prstate'[currpid] = "PR_RECTIM"
      /\ \A x \in Pid \ {currpid} : Keeps(x)
  <2>1. "PR_RECTIM" \in PrState \ Eligible
    BY DEF PrState, Eligible
  <2>2. QED
    BY <1>1, <1>2, <1>4, <2>1, BlockOK DEF Parts
<1>6. SleepQueueOK'
  <2>1. ASSUME NEW p \in Pid
        PROVE  p \in Range(sleepq') <=> prstate'[p] \in Sleeping
    <3>1. CASE p = currpid
      BY <1>4, <1>5, <3>1 DEF Sleeping
    <3>2. CASE p # currpid
      BY <1>4, <1>5, <3>2, KeepsStates DEF Parts, SleepQueueOK, Sleeping
    <3>3. QED
      BY <3>1, <3>2
  <2>2. QED
    BY <1>4, <2>1 DEF SleepQueueOK, QueueOf, Sleeping
<1>7. prmsg' = prmsg /\ prhasmsg' = prhasmsg /\ prhasmsg' \in [Pid -> BOOLEAN]
  BY <1>2 DEF msgVars, Parts, TypeRest
<1>8. sleepq' \in Seq(Pid)
  BY <1>4 DEF QueueOf
<1>9. QED
  BY <1>1, <1>2, <1>3, <1>5, <1>6, <1>7, <1>8, ReceiverStep

\* Every call on messages, and every step of one, keeps the invariant.
LEMMA MsgActionsOK ==
  ASSUME Parts, MsgCalls \/ MsgSteps
  PROVE  Parts'
<1>1. CASE ReceiveNow
  <2>1. /\ currpid \in Pid /\ cont[currpid] = Run
        /\ ndefers = 0 /\ \A p \in Pid : cont[p].op \notin Deferred
    BY <1>1, CallFacts DEF ReceiveNow
  <2>2. cont' = [cont EXCEPT ![currpid] = Run]
    BY <1>1, <2>1, SemTypes DEF ReceiveNow
  <2>3. QED
    BY <1>1, <2>1, <2>2, ReceiverRuns DEF ReceiveNow
<1>2. CASE ReceiveDone
  <2>1. /\ currpid \in Pid
        /\ ndefers = 0 /\ \A p \in Pid : cont[p].op \notin Deferred
    BY <1>2, ResumeFacts DEF ReceiveDone, Deferred
  <2>2. QED
    BY <1>2, <2>1, ReceiverRuns DEF ReceiveDone, ContinueWith
<1>3. CASE RecvtimeDone
  <2>1. /\ currpid \in Pid
        /\ ndefers = 0 /\ \A p \in Pid : cont[p].op \notin Deferred
    BY <1>3, ResumeFacts DEF RecvtimeDone, Deferred
  <2>2. QED
    BY <1>3, <2>1, ReceiverRuns DEF RecvtimeDone, ContinueWith
<1>4. QED
  BY <1>1, <1>2, <1>3, SendOK, ReceiveBlockOK, RecvtimeBlockOK
     DEF MsgCalls, MsgSteps

-----------------------------------------------------------------------------
(* Processes.                                                              *)

\* getstk finds a stack if one is free.
LEMMA MaxStack ==
  ASSUME NEW T \in SUBSET Stack, T # {}
  PROVE  Max(T) \in T
<1> DEFINE D == {NSTK - 1 - x : x \in T}
<1>1. T \subseteq Nat /\ NSTK \in Nat /\ \A x \in T : x <= NSTK - 1
  BY TableAssumption DEF Stack
<1>2. D \in SUBSET Nat /\ D # {}
  <2>1. ASSUME NEW x \in T
        PROVE  NSTK - 1 - x \in Nat
    BY <1>1
  <2>2. D # {}
    OBVIOUS
  <2>3. QED
    BY <2>1, <2>2
<1>3. Min(D) \in D /\ \A y \in D : Min(D) <= y
  BY <1>2, MinProperties
<1>4. PICK x \in T : Min(D) = NSTK - 1 - x
  BY <1>3
<1>5. ASSUME NEW y \in T
      PROVE  x >= y
  <2>1. NSTK - 1 - y \in D
    OBVIOUS
  <2>2. NSTK - 1 - x <= NSTK - 1 - y
    BY <1>3, <1>4, <2>1
  <2>3. QED
    BY <1>1, <2>2
<1>6. QED
  BY <1>5 DEF Max

\* create (create.c) keeps the invariant: it reuses a free table entry, which
\* is on no queue.
LEMMA CreateOK ==
  ASSUME Parts, NEW prio \in Prios, Create(prio)
  PROVE  Parts'
<1> DEFINE p == NewPid
<1>1. /\ currpid \in Pid /\ prstate[currpid] = "PR_CURR"
      /\ cont[currpid].op \notin Deferred /\ ndefers = 0
      /\ \A x \in Pid : cont[x].op \notin Deferred
  BY CallFacts DEF Create, Getstk
<1>2. /\ FreePids # {} /\ nextpid' = (p + 1) % NPROC
      /\ UNCHANGED <<readylist, qkey, currpid, preempt, attempt, prmsg, semVars,
                     sleepq, ndefers, cont, halted>>
  BY DEF Create, Getstk
<1>3. p \in Pid /\ prstate[p] = "PR_FREE"
  <2>1. FreePids \in SUBSET Nat
    BY PidFacts DEF FreePids
  <2>2. p \in FreePids
    BY <1>2, <2>1, FirstFreeIsFree DEF NewPid
  <2>3. QED
    BY <2>2 DEF FreePids, Live
<1> HIDE DEF p
<1>4. nextpid' \in Pid
  BY <1>2, <1>3, TableAssumption DEF Pid
<1>5. CASE UNCHANGED <<prstate, prprio, prstkbase, prsem, prparent, prhasmsg,
                       prcount, freestks>>
  <2>1. SchedOK' /\ \A x \in Pid : Keeps(x)
    BY <1>2, <1>5, NoReschedOK, SchedFacts DEF Parts
  <2>2. TypeRest'
    BY <1>2, <1>4, <1>5 DEF Parts, TypeRest, semVars
  <2>3. SemsOK' /\ DeferralEnds'
    BY <1>1, <1>2, <1>5, <2>1, QuietFrame
  <2>4. SleepQueueOK' /\ ReceiveHasMessage' /\ ContOK'
    BY <1>2, <1>5 DEF Parts, SleepQueueOK, ReceiveHasMessage, ContOK
  <2>5. QED
    BY <2>1, <2>2, <2>3, <2>4 DEF Parts
<1>6. CASE /\ freestks # {}
           /\ prcount' = prcount + 1
           /\ prstate' = [prstate EXCEPT ![p] = "PR_SUSP"]
           /\ prprio' = [prprio EXCEPT ![p] = prio]
           /\ prstkbase' = [prstkbase EXCEPT ![p] = Max(freestks)]
           /\ freestks' = freestks \ {Max(freestks)}
           /\ prsem' = [prsem EXCEPT ![p] = EMPTY]
           /\ prparent' = [prparent EXCEPT ![p] = currpid]
           /\ prhasmsg' = [prhasmsg EXCEPT ![p] = FALSE]
  <2>1. /\ prstate' \in [Pid -> PrState]
        /\ \A x \in Pid : prstate'[x] = IF x = p THEN "PR_SUSP" ELSE prstate[x]
    BY <1>3, <1>6, SchedFacts DEF Parts, PrState
  <2>2. SchedOK'
    <3>1. ReadyListOK'
      BY <1>2, <1>3, <2>1 DEF Parts, SchedOK, ReadyListOK
    <3>2. CurrentAndNull'
      BY <1>1, <1>2, <1>3, <2>1, PidFacts DEF Parts, SchedOK, CurrentAndNull
    <3>3. QED
      BY <1>2, <2>1, <3>1, <3>2 DEF Parts, SchedOK
  <2>3. TypeRest'
    <3>1. prio \in Nat /\ Max(freestks) \in Stack
      BY <1>6, TableAssumption, MaxStack DEF Parts, TypeRest
    <3>2. /\ prprio' \in [Pid -> Nat] /\ prstkbase' \in [Pid -> Stack]
          /\ prcount' \in Int /\ freestks' \subseteq Stack
      <4>1. /\ prprio \in [Pid -> Nat] /\ prstkbase \in [Pid -> Stack]
            /\ prcount \in Int /\ freestks \subseteq Stack
        BY DEF Parts, TypeRest
      <4>2. prcount' \in Int
        BY <1>6, <4>1
      <4>3. freestks' \subseteq Stack
        BY <1>6, <4>1
      <4>4. prprio' \in [Pid -> Nat] /\ prstkbase' \in [Pid -> Stack]
        BY <1>6, <3>1, <4>1
      <4>5. QED
        BY <4>2, <4>3, <4>4
    <3>3. /\ prsem' \in [Pid -> Sem \cup {EMPTY}] /\ prparent' \in [Pid -> Pid]
          /\ prhasmsg' \in [Pid -> BOOLEAN]
      BY <1>1, <1>6 DEF Parts, TypeRest
    <3>4. QED
      BY <1>2, <1>4, <3>2, <3>3 DEF Parts, TypeRest, semVars
  <2>4. \A x \in Pid : /\ prstate'[x] = "PR_WAIT" <=> prstate[x] = "PR_WAIT"
                       /\ prstate[x] = "PR_WAIT" => prsem'[x] = prsem[x]
                       /\ prstate'[x] \in Sleeping <=> prstate[x] \in Sleeping
    BY <1>3, <1>6, <2>1 DEF Sleeping, Parts, TypeRest
  <2>5. SemsOK' /\ DeferralEnds'
    BY <1>1, <1>2, <2>2, <2>4, QuietFrame
  <2>6. SleepQueueOK'
    BY <1>2, <2>4, SleepQueueKept DEF Parts
  <2>7. cont[p] = Run
    BY <1>3 DEF Parts, ContOK
  <2>8. ReceiveHasMessage'
    BY <1>2, <1>6, <2>1, <2>7, RunIsCont DEF Parts, ReceiveHasMessage, TypeRest
  <2>9. ContOK'
    BY <1>2, <2>1 DEF Parts, ContOK
  <2>10. QED
    BY <2>2, <2>3, <2>5, <2>6, <2>8, <2>9 DEF Parts
<1>7. QED
  BY <1>5, <1>6 DEF Create, Getstk, p

\* Calls that change process states but no message, semaphore or sleeper.
LEMMA ProcFrame ==
  ASSUME Parts, cont[currpid].op \notin Deferred,
         SchedOK', prprio' \in [Pid -> Nat],
         \A x \in Pid :
            /\ prstate'[x] = "PR_WAIT" <=> prstate[x] = "PR_WAIT"
            /\ prstate'[x] = "PR_RECV" <=> prstate[x] = "PR_RECV"
            /\ prstate'[x] = "PR_FREE" <=> prstate[x] = "PR_FREE"
            /\ prstate'[x] \in Sleeping <=> prstate[x] \in Sleeping,
         UNCHANGED <<prstkbase, prparent, prcount, nextpid, freestks, cont>>,
         ProcUnchanged
  PROVE  Parts'
<1>1. UNCHANGED <<semVars, msgVars, sleepq, prsem, ndefers, halted, cont>>
  BY DEF ProcUnchanged
<1>2. TypeRest'
  BY <1>1 DEF Parts, TypeRest, semVars, msgVars
<1>3. SemsOK' /\ DeferralEnds'
  BY <1>1, NoDeferral, QuietFrame
<1>4. SleepQueueOK' /\ ReceiveHasMessage' /\ ContOK'
  BY <1>1, SleepQueueKept, ReceiversKept, ContKept DEF Parts, msgVars
<1>5. QED
  BY <1>2, <1>3, <1>4 DEF Parts

\* The types of the process table, from the invariant.
LEMMA TableTypes ==
  ASSUME Parts
  PROVE  prprio \in [Pid -> Nat]
  BY DEF Parts, TypeRest

\* resume (resume.c) keeps the invariant.
LEMMA ResumeOK ==
  ASSUME Parts, NEW p \in Pid, Resume(p)
  PROVE  Parts'
<1>1. ndefers = 0 /\ cont[currpid].op \notin Deferred
  BY CallFacts DEF Resume
<1>2. /\ prstate[p] = "PR_SUSP" /\ ReadyWith(p, qkey)
      /\ UNCHANGED <<tableVars, cont>> /\ ProcUnchanged
  BY DEF Resume, Ready
<1>3. /\ SchedOK' /\ prstate'[p] \in Eligible
      /\ \A x \in Pid \ {p} : Keeps(x)
  BY <1>1, <1>2, ReadyOK, SchedFacts DEF Parts, Eligible
<1>4. \A x \in Pid :
         /\ prstate'[x] = "PR_WAIT" <=> prstate[x] = "PR_WAIT"
         /\ prstate'[x] = "PR_RECV" <=> prstate[x] = "PR_RECV"
         /\ prstate'[x] = "PR_FREE" <=> prstate[x] = "PR_FREE"
         /\ prstate'[x] \in Sleeping <=> prstate[x] \in Sleeping
  BY <1>2, <1>3, KeepsStates DEF Eligible, Sleeping
<1>5. QED
  BY <1>1, <1>2, <1>3, <1>4, TableTypes, ProcFrame DEF tableVars

\* suspend (suspend.c) keeps the invariant, for a ready process, which it
\* takes out of the ready list, and for the current one.
LEMMA SuspendOK ==
  ASSUME Parts, NEW p \in Pid, Suspend(p)
  PROVE  Parts'
<1>1. /\ ndefers = 0 /\ cont[currpid].op \notin Deferred
      /\ currpid \in Pid /\ currpid # NULLPROC /\ prstate[currpid] = "PR_CURR"
  BY CallFacts DEF Suspend
<1>2. p # NULLPROC /\ UNCHANGED <<tableVars, cont>> /\ ProcUnchanged
  BY DEF Suspend
<1>3. /\ SchedOK'
      /\ \A x \in Pid :
            /\ prstate'[x] = "PR_WAIT" <=> prstate[x] = "PR_WAIT"
            /\ prstate'[x] = "PR_RECV" <=> prstate[x] = "PR_RECV"
            /\ prstate'[x] = "PR_FREE" <=> prstate[x] = "PR_FREE"
            /\ prstate'[x] \in Sleeping <=> prstate[x] \in Sleeping
  <2>1. CASE /\ prstate[p] = "PR_READY"
             /\ readylist' = GetItem(readylist, p)
             /\ prstate' = [prstate EXCEPT ![p] = "PR_SUSP"]
             /\ UNCHANGED <<qkey, currpid, preempt, attempt>>
    <3>1. QueueOf(Pid, readylist') /\ Range(readylist') = Range(readylist) \ {p}
      BY <2>1, GetItemMembers, SchedFacts DEF Parts
    <3>2. /\ prstate' \in [Pid -> PrState]
          /\ \A x \in Pid : prstate'[x] = IF x = p THEN "PR_SUSP" ELSE prstate[x]
      BY <2>1, SchedFacts DEF Parts, PrState
    <3>3. ReadyListOK'
      BY <3>1, <3>2, SchedFacts DEF Parts, ReadyListOK, QueueOf
    <3>4. CurrentAndNull'
      BY <1>2, <2>1, <3>2, PidFacts, SchedFacts DEF Parts, CurrentAndNull, Eligible
    <3>5. SchedOK'
      BY <2>1, <3>1, <3>2, <3>3, <3>4, SchedFacts DEF Parts, SchedOK, QueueOf
    <3>6. QED
      BY <2>1, <3>2, <3>5 DEF Sleeping
  <2>2. CASE Block("PR_SUSP", qkey)
    <3>1. "PR_SUSP" \in PrState \ Eligible
      BY DEF PrState, Eligible
    <3>2. /\ SchedOK' /\ prstate'[currpid] = "PR_SUSP"
          /\ \A x \in Pid \ {currpid} : Keeps(x)
      BY <1>1, <2>2, <3>1, BlockOK, SchedFacts DEF Parts
    <3>3. QED
      BY <1>1, <3>2, KeepsStates DEF Sleeping
  <2>3. QED
    BY <2>1, <2>2 DEF Suspend
<1>4. QED
  BY <1>1, <1>2, <1>3, TableTypes, ProcFrame DEF tableVars

\* yield (yield.c) keeps the invariant.
LEMMA YieldStepOK ==
  ASSUME Parts, Yield
  PROVE  Parts'
<1>1. ndefers = 0 /\ cont[currpid].op \notin Deferred
  BY CallFacts DEF Yield
<1>2. SchedOK' /\ \A x \in Pid : Keeps(x)
  BY <1>1, YieldOK, SchedFacts DEF Yield, Parts
<1>3. QED
  BY <1>1, <1>2, KeepsStates, TableTypes, ProcFrame DEF Yield, tableVars

\* chprio (chprio.c) keeps the invariant: it changes a priority and nothing
\* else.
LEMMA ChprioOK ==
  ASSUME Parts, NEW p \in Pid, NEW newprio \in Prios, Chprio(p, newprio)
  PROVE  Parts'
<1>1. cont[currpid].op \notin Deferred
  BY CallFacts DEF Chprio
<1>2. SchedOK' /\ \A x \in Pid : Keeps(x)
  BY UnchangedOK DEF Chprio, Parts
<1>3. prprio' \in [Pid -> Nat]
  BY TableTypes, TableAssumption DEF Chprio
<1>4. QED
  BY <1>1, <1>2, <1>3, KeepsStates, ProcFrame DEF Chprio

\* kill, up to the message to the parent.
LEMMA KillOK ==
  ASSUME Parts, NEW victim \in Pid, Kill(victim)
  PROVE  Parts'
<1> DEFINE c == [op |-> "kill", arg |-> victim, n |-> 0]
           parent == prparent[victim]
<1>1. /\ ndefers = 0 /\ cont[currpid].op \notin Deferred
      /\ currpid \in Pid /\ prstate[currpid] = "PR_CURR"
      /\ \A x \in Pid : cont[x].op \notin Deferred
  BY CallFacts DEF Kill, LastProcess
<1>2. /\ victim # NULLPROC /\ prcount' = prcount - 1 /\ ContinueWith(c)
      /\ UNCHANGED <<semVars, prprio, prparent, prstkbase, nextpid, freestks,
                     prsem, ndefers>>
  BY DEF Kill, LastProcess
<1>3. c \in Cont /\ c.op = "kill" /\ c.arg = victim
  BY PidFacts DEF Cont, ContOps
<1> HIDE DEF c
<1>4. /\ cont' \in [Pid -> Cont] /\ cont'[currpid] = c
      /\ \A x \in Pid \ {currpid} : cont'[x] = cont[x]
  BY <1>2, <1>3, ContinueFacts
<1>5. /\ SchedOK' /\ SleepQueueOK' /\ halted' \in BOOLEAN
      /\ prmsg' \in [Pid -> Nat] /\ prhasmsg' \in [Pid -> BOOLEAN]
      /\ sleepq' \in Seq(Pid)
      /\ \A x \in Pid :
            /\ prstate'[x] = "PR_WAIT" <=> prstate[x] = "PR_WAIT"
            /\ prstate'[x] = "PR_FREE" <=> prstate[x] = "PR_FREE"
            /\ prhasmsg[x] => prhasmsg'[x]
            /\ prstate[x] = "PR_RECV" => prstate'[x] = "PR_RECV" \/ prhasmsg'[x]
  <2>1. halted' \in BOOLEAN
    BY DEF Kill, LastProcess, Parts, TypeRest
  <2>2. CASE UNCHANGED <<schedVars, msgVars, sleepq>>
    <3>1. /\ SchedOK' /\ prstate' = prstate /\ sleepq' = sleepq
          /\ prmsg' = prmsg /\ prhasmsg' = prhasmsg
      BY <2>2, UnchangedOK DEF Parts, schedVars, msgVars
    <3>2. QED
      BY <2>1, <3>1 DEF Parts, SleepQueueOK, TypeRest
  <2>3. CASE Deliver(parent, victim)
    <3>1. parent \in Pid /\ victim \in Nat
      BY PidFacts DEF Parts, TypeRest
    <3>2. QED
      BY <1>1, <2>1, <2>3, <3>1, DeliverOK
  <2>4. QED
    BY <2>2, <2>3 DEF Kill, LastProcess
<1>6. TypeRest'
  <2>1. TypeRest
    BY DEF Parts
  <2>2. UNCHANGED <<sstate, scount, squeue, nextsem>>
    BY <1>2 DEF semVars
  <2>3. prcount' \in Int
    BY <1>2, <2>1 DEF TypeRest
  <2>4. QED
    BY <1>2, <1>4, <1>5, <2>1, <2>2, <2>3 DEF TypeRest
<1>7. SemsOK' /\ DeferralEnds'
  <2>1. \A x \in Pid : cont'[x].op \notin Deferred
    BY <1>1, <1>3, <1>4 DEF Deferred
  <2>2. QED
    BY <1>1, <1>2, <1>5, <2>1, QuietFrame
<1>8. ReceiveHasMessage'
  <2>1. \A x \in Pid : cont'[x].op = "receive" => cont[x].op = "receive"
    BY <1>3, <1>4
  <2>2. QED
    BY <1>5, <2>1, ReceiversKept DEF Parts
<1>9. ContOK'
  <2>1. ASSUME NEW x \in Pid
        PROVE  /\ cont'[x].op \in {"signaln", "semdelete", "semreset"}
                      => cont'[x].arg \in Sem
               /\ cont'[x].op = "kill" => cont'[x].arg \in Pid \ {NULLPROC}
               /\ prstate'[x] = "PR_FREE" => cont'[x] = Run
    <3>1. CASE x = currpid
      BY <1>1, <1>2, <1>3, <1>4, <1>5, <3>1
    <3>2. CASE x # currpid
      BY <1>4, <1>5, <3>2 DEF Parts, ContOK
    <3>3. QED
      BY <3>1, <3>2
  <2>2. QED
    BY <2>1 DEF ContOK
<1>10. QED
  BY <1>5, <1>6, <1>7, <1>8, <1>9 DEF Parts

\* What the switch at the end of kill does for a victim that does not have
\* the processor.
LEMMA WithdrawOther ==
  ASSUME Parts, NEW victim \in Pid, victim # NULLPROC,
         prstate[victim] # "PR_CURR",
         prstate' = [prstate EXCEPT ![victim] = "PR_FREE"],
         DOMAIN qkey' = Pid,
         IF prstate[victim] = "PR_READY"
            THEN readylist' = GetItem(readylist, victim)
            ELSE readylist' = readylist,
         UNCHANGED <<currpid, preempt, attempt>>
  PROVE  /\ SchedOK' /\ prstate'[victim] = "PR_FREE"
         /\ \A x \in Pid \ {victim} : Keeps(x)
<1>1. /\ prstate' \in [Pid -> PrState]
      /\ \A x \in Pid : prstate'[x] = IF x = victim THEN "PR_FREE" ELSE prstate[x]
  BY SchedFacts DEF Parts, PrState
<1>2. QueueOf(Pid, readylist') /\ Range(readylist') = Range(readylist) \ {victim}
  <2>1. CASE prstate[victim] = "PR_READY"
    BY <2>1, GetItemMembers, SchedFacts DEF Parts
  <2>2. CASE prstate[victim] # "PR_READY"
    BY <2>2, SchedFacts DEF Parts
  <2>3. QED
    BY <2>1, <2>2
<1>3. ReadyListOK'
  BY <1>1, <1>2, SchedFacts DEF Parts, ReadyListOK, QueueOf
<1>4. CurrentAndNull'
  BY <1>1, PidFacts, SchedFacts DEF Parts, CurrentAndNull, Eligible
<1>5. SchedOK'
  BY <1>1, <1>2, <1>3, <1>4, SchedFacts DEF Parts, SchedOK, QueueOf
<1>6. QED
  BY <1>1, <1>5 DEF Keeps

\* The second part of kill (kill.c), after the exit message and the closes,
\* keeps the invariant in every state the victim may have got into.
LEMMA KillDoneOK ==
  ASSUME Parts, KillDone
  PROVE  Parts'
<1> DEFINE victim == cont[currpid].arg
<1>1. /\ Resumes("kill")
      /\ freestks' = freestks \cup {prstkbase[victim]}
      /\ cont' = [cont EXCEPT ![currpid] = Run, ![victim] = Run]
      /\ Withdraw(victim)
      /\ UNCHANGED <<msgVars, prprio, prparent, prstkbase, prcount, nextpid,
                     prsem, sstate, nextsem, ndefers, halted>>
  BY DEF KillDone
<1>2. /\ ndefers = 0 /\ cont[currpid].op = "kill" /\ cont[currpid].op \notin Deferred
      /\ currpid \in Pid /\ prstate[currpid] = "PR_CURR"
      /\ \A x \in Pid : cont[x].op \notin Deferred
  BY <1>1, ResumeFacts DEF Deferred
<1>3. victim \in Pid /\ victim # NULLPROC
  BY <1>2 DEF Parts, ContOK
<1> HIDE DEF victim
<1>4. /\ cont' \in [Pid -> Cont]
      /\ \A x \in Pid : cont'[x] = IF x \in {currpid, victim} THEN Run ELSE cont[x]
  BY <1>1, <1>2, <1>3, RunIsCont DEF Parts, TypeRest
<1>5. SchedOK' /\ prstate'[victim] = "PR_FREE" /\ \A x \in Pid \ {victim} : Keeps(x)
  <2>1. CASE prstate[victim] = "PR_CURR" /\ Block("PR_FREE", qkey)
    <3>1. victim = currpid
      BY <1>3, <2>1, SchedFacts DEF Parts
    <3>2. "PR_FREE" \in PrState \ Eligible
      BY DEF PrState, Eligible
    <3>3. QED
      BY <1>2, <1>3, <2>1, <3>1, <3>2, BlockOK, SchedFacts DEF Parts
  <2>2. CASE /\ prstate' = [prstate EXCEPT ![victim] = "PR_FREE"]
             /\ UNCHANGED <<currpid, preempt, attempt>>
             /\ \/ /\ prstate[victim] \in {"PR_SLEEP", "PR_RECTIM"}
                   /\ qkey' = UnsleepKeys(sleepq, victim, qkey)
                   /\ UNCHANGED readylist
                \/ /\ prstate[victim] = "PR_READY"
                   /\ readylist' = GetItem(readylist, victim)
                   /\ UNCHANGED qkey
                \/ /\ prstate[victim] \in {"PR_WAIT", "PR_RECV", "PR_SUSP", "PR_FREE"}
                   /\ UNCHANGED <<qkey, readylist>>
    <3>1. DOMAIN qkey' = Pid
      BY <2>2, SchedFacts DEF Parts, UnsleepKeys
    <3>2. /\ prstate[victim] # "PR_CURR"
          /\ IF prstate[victim] = "PR_READY"
                THEN readylist' = GetItem(readylist, victim)
                ELSE readylist' = readylist
      BY <2>2
    <3>3. QED
      BY <1>3, <2>2, <3>1, <3>2, WithdrawOther
  <2>3. QED
    BY <1>1, <2>1, <2>2 DEF Withdraw, WithdrawLeaving
<1>6. \A x \in Pid \ {victim} :
         /\ prstate'[x] = "PR_WAIT" <=> prstate[x] = "PR_WAIT"
         /\ prstate'[x] = "PR_RECV" <=> prstate[x] = "PR_RECV"
         /\ prstate'[x] = "PR_FREE" <=> prstate[x] = "PR_FREE"
         /\ prstate'[x] \in Sleeping <=> prstate[x] \in Sleeping
  BY <1>5, KeepsStates
<1>7. SleepQueueOK' /\ sleepq' \in Seq(Pid)
  <2>1. QueueOf(Pid, sleepq)
    BY DEF Parts, TypeRest, SleepQueueOK, QueueOf
  <2>2. CASE prstate[victim] \in Sleeping
    <3>1. sleepq' = GetItem(sleepq, victim)
      BY <1>1, <2>2 DEF Withdraw, WithdrawLeaving, Sleeping
    <3>2. victim \in Range(sleepq)
      BY <1>3, <2>2 DEF Parts, SleepQueueOK, Sleeping
    <3>3. QueueOf(Pid, sleepq') /\ Range(sleepq') = Range(sleepq) \ {victim}
      BY <2>1, <3>1, <3>2, GetItemMembers
    <3>4. ASSUME NEW x \in Pid
          PROVE  x \in Range(sleepq') <=> prstate'[x] \in Sleeping
      <4>1. CASE x = victim
        BY <1>5, <3>3, <4>1 DEF Sleeping
      <4>2. CASE x # victim
        BY <1>6, <3>3, <4>2 DEF Parts, SleepQueueOK, Sleeping
      <4>3. QED
        BY <4>1, <4>2
    <3>5. QED
      BY <3>3, <3>4 DEF SleepQueueOK, QueueOf, Sleeping
  <2>3. CASE prstate[victim] \notin Sleeping
    <3>1. sleepq' = sleepq
      BY <1>1, <2>3 DEF Withdraw, WithdrawLeaving, Sleeping
    <3>2. \A x \in Pid : prstate'[x] \in Sleeping <=> prstate[x] \in Sleeping
      BY <1>5, <1>6, <2>3 DEF Sleeping
    <3>3. QED
      BY <2>1, <3>1, <3>2, SleepQueueKept DEF Parts, QueueOf
  <2>4. QED
    BY <2>2, <2>3
<1>8. SemsOK' /\ scount' \in [Sem -> Int] /\ squeue' \in [Sem -> Seq(Pid)]
  <2>1. CASE prstate[victim] # "PR_WAIT"
    <3>1. scount' = scount /\ squeue' = squeue
      BY <1>1, <2>1 DEF Withdraw, WithdrawLeaving
    <3>2. \A x \in Pid : prstate'[x] = "PR_WAIT" <=> prstate[x] = "PR_WAIT"
      BY <1>5, <1>6, <2>1
    <3>3. QED
      BY <1>1, <1>2, <3>1, <3>2, SemsKept, SemTypes
  <2>2. CASE prstate[victim] = "PR_WAIT"
    <3> DEFINE s == prsem[victim]
    <3>1. /\ scount' = [scount EXCEPT ![s] = @ + 1]
          /\ squeue' = [squeue EXCEPT ![s] = GetItem(@, victim)]
      BY <1>1, <2>2 DEF Withdraw, WithdrawLeaving
    <3>2. s \in Sem /\ victim \in Range(squeue[s])
      BY <1>3, <2>2 DEF Parts, SemsOK, SemQueuesOK
    <3>3. QueueOf(Pid, squeue[s])
      BY <3>2 DEF Parts, TypeRest, SemsOK, SemQueuesOK, QueueOf
    <3>4. /\ QueueOf(Pid, GetItem(squeue[s], victim))
          /\ Range(GetItem(squeue[s], victim)) = Range(squeue[s]) \ {victim}
          /\ Len(GetItem(squeue[s], victim)) = Len(squeue[s]) - 1
      BY <3>2, <3>3, GetItemMembers
    <3> HIDE DEF s
    <3>5. /\ squeue' \in [Sem -> Seq(Pid)] /\ squeue'[s] = GetItem(squeue[s], victim)
          /\ \A r \in Sem \ {s} : squeue'[r] = squeue[r]
      BY <3>1, <3>2, <3>4, SemTypes DEF QueueOf
    <3>6. /\ scount' \in [Sem -> Int] /\ scount'[s] = scount[s] + 1
          /\ \A r \in Sem \ {s} : scount'[r] = scount[r]
      BY <3>1, <3>2, SemTypes
    <3>7. \A r \in Sem : /\ scount[r] < 0 => Len(squeue[r]) = -scount[r]
                         /\ scount[r] >= 0 => Len(squeue[r]) = 0 /\ squeue[r] = <<>>
                         /\ scount[r] \in Int /\ squeue[r] \in Seq(Pid)
      BY <1>2, CountFacts
    <3>8. squeue[s] # <<>>
      BY <3>2 DEF Range
    <3>9. SemQueuesOK'
      <4>1. \A r \in Sem : IsInjective(squeue'[r])
        BY <3>4, <3>5 DEF Parts, SemsOK, SemQueuesOK, QueueOf
      <4>2. ASSUME NEW r \in Sem, NEW x \in Pid
            PROVE  x \in Range(squeue'[r]) <=> prstate'[x] = "PR_WAIT" /\ prsem'[x] = r
        <5>1. x \in Range(squeue[r]) <=> prstate[x] = "PR_WAIT" /\ prsem[x] = r
          BY DEF Parts, SemsOK, SemQueuesOK
        <5>2. x \in Range(squeue'[r]) <=> x \in Range(squeue[r]) /\ x # victim
          <6>1. CASE r = s
            BY <3>4, <3>5, <6>1
          <6>2. CASE r # s
            BY <3>5, <5>1, <6>2 DEF s
          <6>3. QED
            BY <6>1, <6>2
        <5>3. prsem' = prsem
          BY <1>1
        <5>4. QED
          BY <1>5, <1>6, <5>1, <5>2, <5>3
      <4>3. \A x \in Pid : prstate'[x] = "PR_WAIT" => prsem'[x] \in Sem
        BY <1>1, <1>5, <1>6 DEF Parts, SemsOK, SemQueuesOK
      <4>4. QED
        BY <4>1, <4>2, <4>3 DEF SemQueuesOK
    <3>10. CountsMatchQueues'
      <4>1. ASSUME NEW r \in Sem
            PROVE  Len(squeue'[r]) = IF scount'[r] < 0 THEN -scount'[r] ELSE 0
        <5>1. CASE r = s
          <6>1. /\ Len(squeue'[s]) = Len(squeue[s]) - 1
                /\ scount'[s] = scount[s] + 1
            BY <3>4, <3>5, <3>6
          <6>2. scount[s] \in Int /\ scount[s] < 0 /\ Len(squeue[s]) = -scount[s]
            BY <3>2, <3>7, <3>8
          <6>3. QED
            BY <6>1, <6>2, <5>1
        <5>2. CASE r # s
          <6>1. squeue'[r] = squeue[r] /\ scount'[r] = scount[r]
            BY <3>5, <3>6, <5>2
          <6>2. QED
            BY <3>7, <6>1
        <5>3. QED
          BY <5>1, <5>2
      <4>2. QED
        BY <4>1 DEF CountsMatchQueues
    <3>11. FreeSemsAreEmpty'
      <4>1. \A r \in Sem : sstate[r] = "S_USED" \/ squeue[r] = <<>>
        BY <1>2 DEF Parts, SemsOK, FreeSemsAreEmpty
      <4>2. \A r \in Sem : squeue[r] = <<>> => squeue'[r] = <<>>
        BY <3>5, <3>8
      <4>3. QED
        BY <1>1, <4>1, <4>2 DEF FreeSemsAreEmpty
    <3>12. QED
      BY <3>5, <3>6, <3>9, <3>10, <3>11 DEF SemsOK
  <2>3. QED
    BY <2>1, <2>2
<1>9. TypeRest'
  <2>1. freestks' \subseteq Stack
    BY <1>1, <1>3 DEF Parts, TypeRest
  <2>2. QED
    BY <1>1, <1>4, <1>7, <1>8, <2>1 DEF Parts, TypeRest, msgVars
<1>10. DeferralEnds'
  <2>1. \A x \in Pid : cont'[x].op \notin Deferred
    BY <1>2, <1>4, RunIsCont DEF Deferred
  <2>2. QED
    BY <1>1, <1>2, <1>5, <2>1, DeferralEndsNext DEF SchedOK
<1>11. ReceiveHasMessage'
  <2>1. ASSUME NEW x \in Pid, cont'[x].op = "receive", prstate'[x] # "PR_RECV"
        PROVE  prhasmsg'[x]
    <3>1. x # victim /\ cont[x].op = "receive"
      BY <1>4, <2>1, RunIsCont
    <3>2. prhasmsg[x]
      BY <1>6, <2>1, <3>1 DEF Parts, ReceiveHasMessage
    <3>3. QED
      BY <1>1, <3>2 DEF msgVars
  <2>2. QED
    BY <2>1 DEF ReceiveHasMessage
<1>12. ContOK'
  <2>1. ASSUME NEW x \in Pid
        PROVE  /\ cont'[x].op \in {"signaln", "semdelete", "semreset"}
                      => cont'[x].arg \in Sem
               /\ cont'[x].op = "kill" => cont'[x].arg \in Pid \ {NULLPROC}
               /\ prstate'[x] = "PR_FREE" => cont'[x] = Run
    <3>1. CASE x \in {currpid, victim}
      BY <1>4, <3>1, RunIsCont
    <3>2. CASE x \notin {currpid, victim}
      BY <1>4, <1>6, <3>2 DEF Parts, ContOK
    <3>3. QED
      BY <3>1, <3>2
  <2>2. QED
    BY <2>1 DEF ContOK
<1>13. QED
  BY <1>5, <1>7, <1>8, <1>9, <1>10, <1>11, <1>12 DEF Parts

\* Every call on processes, and every step of one, keeps the invariant.
LEMMA ProcActionsOK ==
  ASSUME Parts, ProcCalls \/ KillDone
  PROVE  Parts'
  BY CreateOK, ResumeOK, SuspendOK, KillOK, YieldStepOK, ChprioOK, KillDoneOK
     DEF ProcCalls

-----------------------------------------------------------------------------
(* The invariant.                                                          *)

\* The invariant holds when the first process starts its work.
LEMMA InitOK ==
  ASSUME Init
  PROVE  Parts
<1> DEFINE k == Len(StartPrio)
<1>1. /\ k \in Nat /\ k >= 1 /\ k <= NPROC - 1 /\ NPROC \in Nat
      /\ Started = 1 .. k /\ NSTK \in Nat /\ k < NSTK
      /\ \A i \in 1 .. k : StartPrio[i] \in Nat
  BY TableAssumption, LenProperties, ElementOfSeq DEF Started
<1>2. prstate = [p \in Pid |-> CASE p = NULLPROC -> "PR_READY"
                                    [] p = 1 -> "PR_CURR"
                                    [] p \in 2 .. k -> "PR_SUSP"
                                    [] OTHER -> "PR_FREE"]
  BY DEF Init
<1>12. /\ readylist = <<NULLPROC>> /\ currpid = 1 /\ sleepq = <<>>
       /\ qkey = [p \in Pid |-> 0] /\ ndefers = 0 /\ attempt = FALSE
       /\ preempt = QUANTUM /\ sstate = [s \in Sem |-> "S_FREE"]
       /\ scount = [s \in Sem |-> 0] /\ squeue = [s \in Sem |-> <<>>]
       /\ nextsem = 0 /\ cont = [p \in Pid |-> Run] /\ halted = FALSE
  BY DEF Init
<1>3. /\ prprio = [p \in Pid |-> IF p \in Started THEN StartPrio[p] ELSE 0]
      /\ prstkbase = [p \in Pid |-> IF p <= k THEN NSTK - 1 - p ELSE 0]
      /\ prsem = [p \in Pid |-> IF p \in Started THEN EMPTY ELSE 0]
      /\ prparent = [p \in Pid |-> IF p \in 2 .. k THEN 1 ELSE NULLPROC]
      /\ prmsg = [p \in Pid |-> 0] /\ prhasmsg = [p \in Pid |-> FALSE]
      /\ prcount = k + 1 /\ nextpid = (k + 1) % NPROC
      /\ freestks = 0 .. NSTK - 2 - k
  BY DEF Init
<1> HIDE DEF k
<1>4. \A p \in Pid :
         /\ prstate[p] \in PrState
         /\ prstate[p] \in {"PR_READY", "PR_CURR", "PR_SUSP", "PR_FREE"}
         /\ prstate[p] = "PR_READY" <=> p = NULLPROC
         /\ prstate[p] = "PR_CURR" <=> p = 1
  BY <1>2 DEF PrState, NULLPROC
<1>5. SchedOK
  <2>1. prstate \in [Pid -> PrState]
    BY <1>2, <1>4
  <2>2. readylist \in Seq(Pid) /\ IsInjective(readylist) /\ Range(readylist) = {NULLPROC}
    BY <1>12, PidFacts DEF IsInjective, Range
  <2>3. ReadyListOK
    BY <1>4, <2>2 DEF ReadyListOK
  <2>4. CurrentAndNull
    BY <1>12, <1>4, PidFacts DEF CurrentAndNull
  <2>5. DOMAIN qkey = Pid /\ preempt \in 1 .. QUANTUM /\ attempt \in BOOLEAN
    <3>1. DOMAIN qkey = Pid /\ preempt \in 1 .. QUANTUM
      BY <1>12, TableAssumption
    <3>2. attempt \in BOOLEAN
      BY Zenon DEF Init
    <3>3. QED
      BY <3>1, <3>2
  <2>6. QED
    BY <1>12, <2>1, <2>2, <2>3, <2>4, <2>5, PidFacts DEF SchedOK
<1>6. TypeRest
  <2>1. prprio \in [Pid -> Nat] /\ prsem \in [Pid -> Sem \cup {EMPTY}]
    BY <1>1, <1>3, TableAssumption DEF Sem
  <2>2. /\ prparent \in [Pid -> Pid] /\ prmsg \in [Pid -> Nat]
        /\ prhasmsg \in [Pid -> BOOLEAN]
    BY <1>3, PidFacts
  <2>3. prstkbase \in [Pid -> Stack] /\ freestks \subseteq Stack
    BY <1>1, <1>3, PidFacts DEF Stack
  <2>4. prcount \in Int /\ nextpid \in Pid
    BY <1>1, <1>3, TableAssumption DEF Pid
  <2>5. /\ sstate \in [Sem -> {"S_FREE", "S_USED"}] /\ scount \in [Sem -> Int]
        /\ squeue \in [Sem -> Seq(Pid)] /\ nextsem \in Sem
    BY <1>12, TableAssumption DEF Sem
  <2>6. /\ sleepq \in Seq(Pid) /\ ndefers \in {0, 1} /\ halted \in BOOLEAN
        /\ cont \in [Pid -> Cont]
    <3>1. sleepq \in Seq(Pid) /\ ndefers \in {0, 1} /\ cont \in [Pid -> Cont]
      BY <1>12, RunIsCont
    <3>2. halted \in BOOLEAN
      BY Zenon DEF Init
    <3>3. QED
      BY <3>1, <3>2
  <2>7. QED
    BY <2>1, <2>2, <2>3, <2>4, <2>5, <2>6 DEF TypeRest
<1>7. Range(<<>>) = {} /\ IsInjective(<<>>)
  BY DEF Range, IsInjective
<1>8. SleepQueueOK
  BY <1>12, <1>4, <1>7 DEF SleepQueueOK
<1>9. SemsOK
  <2>1. SemQueuesOK
    BY <1>12, <1>4, <1>7 DEF SemQueuesOK
  <2>2. CountsMatchQueues /\ FreeSemsAreEmpty
    BY <1>12 DEF CountsMatchQueues, FreeSemsAreEmpty
  <2>3. QED
    BY <2>1, <2>2 DEF SemsOK
<1>10. DeferralEnds /\ ReceiveHasMessage /\ ContOK
  BY <1>4, <1>12, RunIsCont, PidFacts DEF DeferralEnds, ReceiveHasMessage, ContOK, Deferred
<1>11. QED
  BY <1>5, <1>6, <1>8, <1>9, <1>10 DEF Parts

\* Every step of the kernel keeps the invariant.
LEMMA NextOK ==
  ASSUME Parts, [Next]_vars
  PROVE  Parts'
<1>1. CASE UNCHANGED vars
  BY <1>1 DEF Parts, SchedOK, TypeRest, ReadyListOK, CurrentAndNull, SleepQueueOK,
     SemsOK, SemQueuesOK, CountsMatchQueues, FreeSemsAreEmpty, DeferralEnds,
     ReceiveHasMessage, ContOK, vars, schedVars, semVars, msgVars, tableVars
<1>2. CASE Calling
  BY <1>2, SemActionsOK, ClockActionsOK, MsgActionsOK, ProcActionsOK DEF Calling
<1>3. CASE KernelSteps
  BY <1>3, SemActionsOK, ClockActionsOK, MsgActionsOK, ProcActionsOK DEF KernelSteps
<1>4. CASE ClkHandler
  BY <1>4, ClockActionsOK
<1>5. QED
  BY <1>1, <1>2, <1>3, <1>4 DEF Next, Halted

\* IInv holds always: every system call and every clock interrupt keeps the
\* process table, the queues, the semaphore counts, the deferral of
\* rescheduling and the mailboxes consistent with each other.
THEOREM Invariant == Spec => []IInv
<1>1. Init => IInv
  BY InitOK, IInvParts
<1>2. IInv /\ [Next]_vars => IInv'
  BY NextOK, IInvParts, PartsNext
<1>3. QED
  BY <1>1, <1>2, PTL DEF Spec

\* Every variable keeps its type.
THEOREM TypeCorrect == Spec => []TypeOK
<1>1. IInv => TypeOK
  BY DEF IInv
<1>2. QED
  BY <1>1, Invariant, PTL

\* A process is on the queue its state names, once, and on no other
\* (insert, insertd, enqueue, getitem and dequeue never corrupt queuetab).
THEOREM QueuesAreConsistent == Spec => []QueuesMatchStates
<1>1. IInv => QueuesMatchStates
  BY DEF IInv
<1>2. QED
  BY <1>1, Invariant, PTL

\* Exactly one process is current, and the null process can always run, so
\* that resched never dequeues from an empty ready list.
THEOREM OneCurrentProcess == Spec => []CurrentAndNull
<1>1. IInv => CurrentAndNull
  BY DEF IInv
<1>2. QED
  BY <1>1, Invariant, PTL

\* resched_cntl is balanced: ndefers never goes above one, and the processor
\* never changes hands in a deferral.
THEOREM DeferralIsBalanced == Spec => []DeferralEnds
<1>1. IInv => DeferralEnds
  BY DEF IInv
<1>2. QED
  BY <1>1, Invariant, PTL

\* The count of a semaphore tells the length of its queue, whatever signaln,
\* semdelete, semreset and kill do.
THEOREM SemaphoreCounts == Spec => [](CountsMatchQueues /\ FreeSemsAreEmpty)
<1>1. IInv => CountsMatchQueues /\ FreeSemsAreEmpty
  BY DEF IInv
<1>2. QED
  BY <1>1, Invariant, PTL

\* Nobody returns from receive without a message, although receive does not
\* look again and kill and suspend may intervene.
THEOREM ReceiversHaveMessages == Spec => []ReceiveHasMessage
<1>1. IInv => ReceiveHasMessage
  BY DEF IInv
<1>2. QED
  BY <1>1, Invariant, PTL

-----------------------------------------------------------------------------
(* Messages and semaphore queues, step by step.                            *)

\* What a step can do to mailboxes.
LEMMA MailSteps ==
  ASSUME Parts, [Next]_vars
  PROVE  \/ UNCHANGED msgVars
         \/ \E p \in Pid : \E msg \in Nat : CanDeliver(p) /\ Deliver(p, msg)
         \/ TakeMessage /\ currpid \in Pid
         \/ /\ UNCHANGED prmsg
            /\ \E p \in FreePids : prhasmsg' = [prhasmsg EXCEPT ![p] = FALSE]
<1> DEFINE Goal ==
       \/ UNCHANGED msgVars
       \/ \E p \in Pid : \E msg \in Nat : CanDeliver(p) /\ Deliver(p, msg)
       \/ TakeMessage /\ currpid \in Pid
       \/ /\ UNCHANGED prmsg
          /\ \E p \in FreePids : prhasmsg' = [prhasmsg EXCEPT ![p] = FALSE]
<1>1. CASE UNCHANGED vars
  BY <1>1 DEF vars
<1>2. CASE SemCalls \/ SemSteps
  BY <1>2 DEF SemCalls, SemSteps, Wait, Signal, Signaln, SignalnStep, SignalnDone,
     SemDelete, SemDeleteStep, SemDeleteDone, SemReset, SemResetStep, SemResetDone,
     SemCreate, SemUnchanged, Finish
<1>3. CASE SleepCalls \/ ClkHandler \/ WakeupStep \/ WakeupDone \/ ClkTail
  BY <1>3 DEF SleepCalls, Sleepms, ClkHandler, WakeupStep, WakeupDone, ClkTail
<1>4. CASE MsgCalls \/ MsgSteps
  <2>1. CASE \E p \in Pid, msg \in Msgs : Send(p, msg)
    BY <2>1, MsgsAssumption DEF Send
  <2>2. CASE ReceiveNow \/ ReceiveDone \/ RecvtimeDone
    <3>1. currpid \in Pid
      BY SchedFacts DEF Parts
    <3>2. TakeMessage \/ UNCHANGED msgVars
      BY <2>2 DEF ReceiveNow, ReceiveDone, RecvtimeDone
    <3>3. QED
      BY <3>1, <3>2
  <2>3. CASE ReceiveBlock \/ \E maxwait \in Delays : RecvtimeBlock(maxwait)
    BY <2>3 DEF ReceiveBlock, RecvtimeBlock
  <2>4. QED
    BY <1>4, <2>1, <2>2, <2>3 DEF MsgCalls, MsgSteps
<1>5. CASE ProcCalls \/ KillDone
  <2>1. ASSUME NEW prio \in Prios, Create(prio)
        PROVE  Goal
    <3>1. prmsg' = prmsg /\ FreePids # {}
      BY <2>1 DEF Create, Getstk
    <3>2. NewPid \in FreePids
      <4>1. FreePids \in SUBSET Nat
        BY PidFacts DEF FreePids
      <4>2. QED
        BY <3>1, <4>1, FirstFreeIsFree DEF NewPid
    <3>3. prhasmsg' = prhasmsg \/ prhasmsg' = [prhasmsg EXCEPT ![NewPid] = FALSE]
      BY <2>1 DEF Create, Getstk
    <3>4. QED
      BY <3>1, <3>2, <3>3 DEF msgVars
  <2>2. ASSUME NEW victim \in Pid, Kill(victim)
        PROVE  Goal
    <3>1. prparent[victim] \in Pid /\ victim \in Nat
      BY PidFacts DEF Parts, TypeRest
    <3>2. \/ UNCHANGED msgVars
          \/ CanDeliver(prparent[victim]) /\ Deliver(prparent[victim], victim)
      BY <2>2 DEF Kill, LastProcess
    <3>3. QED
      BY <3>1, <3>2
  <2>3. ASSUME NEW p \in Pid, Resume(p) \/ Suspend(p)
        PROVE  Goal
    BY <2>3 DEF Resume, Suspend, ProcUnchanged
  <2>4. ASSUME NEW p \in Pid, NEW newprio \in Prios, Chprio(p, newprio)
        PROVE  Goal
    BY <2>4 DEF Chprio, ProcUnchanged
  <2>5. CASE Yield \/ KillDone
    BY <2>5 DEF Yield, KillDone, ProcUnchanged
  <2>6. QED
    BY <1>5, <2>1, <2>2, <2>3, <2>4, <2>5 DEF ProcCalls
<1>6. QED
  BY <1>1, <1>2, <1>3, <1>4, <1>5 DEF Next, Calling, KernelSteps, Halted

\* A message waits unchanged until its receiver takes it.
THEOREM MessagesAreKept == Spec => MessageKept
<1> DEFINE Kept == \A p \in Pid : prhasmsg[p] /\ prhasmsg'[p] => prmsg'[p] = prmsg[p]
<1>1. IInv /\ [Next]_vars => Kept
  <2> SUFFICES ASSUME IInv, [Next]_vars
               PROVE  Kept
    OBVIOUS
  <2>1. Parts
    BY IInvParts
  <2>2. prmsg \in [Pid -> Nat]
    BY <2>1 DEF Parts, TypeRest
  <2>3. ASSUME NEW p \in Pid, NEW msg \in Nat, CanDeliver(p), Deliver(p, msg)
        PROVE  Kept
    BY <2>2, <2>3 DEF CanDeliver, Deliver
  <2>4. CASE prmsg' = prmsg
    BY <2>4
  <2>5. QED
    BY <2>1, <2>3, <2>4, MailSteps DEF TakeMessage, msgVars
<1>2. QED
  BY <1>1, Invariant, PTL DEF Spec, MessageKept

\* Only its receiver takes a message, but for a process table entry that is
\* used again.
THEOREM MessagesAreTaken == Spec => MessageTaken
<1> DEFINE Taken == \A p \in Pid : prhasmsg[p] /\ ~prhasmsg'[p]
                                      => p = currpid \/ prstate[p] = "PR_FREE"
<1>1. IInv /\ [Next]_vars => Taken
  <2> SUFFICES ASSUME IInv, [Next]_vars
               PROVE  Taken
    OBVIOUS
  <2>1. Parts
    BY IInvParts
  <2>2. prhasmsg \in [Pid -> BOOLEAN]
    BY <2>1 DEF Parts, TypeRest
  <2>3. ASSUME NEW p \in Pid, NEW msg \in Nat, CanDeliver(p), Deliver(p, msg)
        PROVE  Taken
    BY <2>2, <2>3 DEF Deliver
  <2>4. CASE TakeMessage /\ currpid \in Pid
    BY <2>2, <2>4 DEF TakeMessage
  <2>5. ASSUME NEW p \in FreePids, prhasmsg' = [prhasmsg EXCEPT ![p] = FALSE]
        PROVE  Taken
    BY <2>2, <2>5 DEF FreePids, Live
  <2>6. CASE UNCHANGED msgVars
    BY <2>6 DEF msgVars
  <2>7. QED
    BY <2>1, <2>3, <2>4, <2>5, <2>6, MailSteps
<1>2. QED
  BY <1>1, Invariant, PTL DEF Spec, MessageTaken

\* What a step can do to semaphore queues.
LEMMA SemQueueSteps ==
  ASSUME Parts, [Next]_vars
  PROVE  \/ UNCHANGED squeue
         \/ \E s \in Sem : squeue' = [squeue EXCEPT ![s] = Append(@, currpid)]
         \/ \E s \in Sem : /\ squeue[s] # <<>>
                           /\ squeue' = [squeue EXCEPT ![s] = Tail(@)]
         \/ \E p \in Pid :
               /\ prstate[p] = "PR_WAIT" /\ prstate' = [prstate EXCEPT ![p] = "PR_FREE"]
               /\ squeue' = [squeue EXCEPT ![prsem[p]] = GetItem(@, p)]
<1> DEFINE Goal ==
       \/ UNCHANGED squeue
       \/ \E s \in Sem : squeue' = [squeue EXCEPT ![s] = Append(@, currpid)]
       \/ \E s \in Sem : /\ squeue[s] # <<>>
                         /\ squeue' = [squeue EXCEPT ![s] = Tail(@)]
       \/ \E p \in Pid :
             /\ prstate[p] = "PR_WAIT" /\ prstate' = [prstate EXCEPT ![p] = "PR_FREE"]
             /\ squeue' = [squeue EXCEPT ![prsem[p]] = GetItem(@, p)]
<1>1. CASE UNCHANGED vars
  BY <1>1 DEF vars, semVars
<1>2. ASSUME NEW s \in Sem, Release(s), cont[currpid].op \notin {"semreset"}
      PROVE  Goal
  <2>1. CASE squeue' = squeue
    BY <2>1
  <2>2. CASE scount[s] < 0 /\ squeue' = [squeue EXCEPT ![s] = Tail(@)]
    <3>1. Len(squeue[s]) = -scount[s] /\ scount[s] \in Int /\ squeue[s] \in Seq(Pid)
      BY <1>2, <2>2, CountFacts
    <3>2. squeue[s] # <<>>
      BY <2>2, <3>1, EmptySeq
    <3>3. QED
      BY <2>2, <3>2
  <2>3. QED
    BY <1>2, <2>1, <2>2 DEF Release
<1>3. CASE SemCalls
  <2>1. ASSUME NEW s \in Sem, Wait(s)
        PROVE  Goal
    BY <2>1 DEF Wait
  <2>2. ASSUME NEW s \in Sem, Signal(s)
        PROVE  Goal
    <3>1. cont[currpid].op \notin {"semreset"}
      BY <2>2, CallFacts DEF Signal, Deferred
    <3>2. QED
      BY <1>2, <2>2, <3>1 DEF Signal
  <2>3. ASSUME NEW s \in Sem, NEW count \in Counts,
               Signaln(s, count) \/ SemReset(s, count) \/ SemDelete(s) \/ SemCreate(count)
        PROVE  Goal
    BY <2>3 DEF Signaln, SemReset, SemDelete, SemCreate
  <2>4. ASSUME NEW s \in Sem, SemDelete(s)
        PROVE  Goal
    BY <2>4 DEF SemDelete
  <2>5. QED
    BY <1>3, <2>1, <2>2, <2>3, <2>4, TableAssumption DEF SemCalls, Sem, SemCreate
<1>4. CASE SemSteps
  <2>1. CASE SignalnStep
    <3>1. cont[currpid].op = "signaln" /\ cont[currpid].arg \in Sem
      BY <2>1, LoopFacts DEF SignalnStep
    <3>2. QED
      BY <1>2, <2>1, <3>1 DEF SignalnStep
  <2>2. CASE SemDeleteStep
    <3>1. cont[currpid].op = "semdelete" /\ cont[currpid].arg \in Sem
      BY <2>2, LoopFacts DEF SemDeleteStep
    <3>2. QED
      BY <1>2, <2>2, <3>1 DEF SemDeleteStep
  <2>3. CASE SemResetStep
    <3>1. cont[currpid].op = "semreset" /\ cont[currpid].arg \in Sem
      BY <2>3, LoopFacts DEF SemResetStep
    <3>2. QED
      BY <2>3, <3>1 DEF SemResetStep
  <2>4. CASE SignalnDone \/ SemDeleteDone \/ SemResetDone
    BY <2>4 DEF SignalnDone, SemDeleteDone, SemResetDone, Finish
  <2>5. QED
    BY <1>4, <2>1, <2>2, <2>3, <2>4 DEF SemSteps
<1>5. CASE SleepCalls \/ ClkHandler \/ WakeupStep \/ WakeupDone \/ ClkTail
  BY <1>5 DEF SleepCalls, Sleepms, ClkHandler, WakeupStep, WakeupDone, ClkTail, semVars
<1>6. CASE MsgCalls \/ MsgSteps
  BY <1>6 DEF MsgCalls, MsgSteps, Send, ReceiveNow, ReceiveBlock, ReceiveDone,
     RecvtimeBlock, RecvtimeDone, MsgUnchanged, semVars
<1>7. CASE ProcCalls
  <2>1. ASSUME NEW prio \in Prios, Create(prio)
        PROVE  Goal
    BY <2>1 DEF Create, Getstk, semVars
  <2>2. ASSUME NEW p \in Pid, Resume(p) \/ Suspend(p) \/ Kill(p)
        PROVE  Goal
    BY <2>2 DEF Resume, Suspend, Kill, LastProcess, ProcUnchanged, semVars
  <2>3. ASSUME NEW p \in Pid, NEW newprio \in Prios, Chprio(p, newprio) \/ Yield
        PROVE  Goal
    BY <2>3 DEF Chprio, Yield, ProcUnchanged, semVars
  <2>4. CASE Yield
    BY <2>4 DEF Yield, ProcUnchanged, semVars
  <2>5. QED
    BY <1>7, <2>1, <2>2, <2>3, <2>4 DEF ProcCalls
<1>8. CASE KillDone
  <2>1. cont[currpid].arg \in Pid /\ Withdraw(cont[currpid].arg)
    <3>1. Resumes("kill") /\ Withdraw(cont[currpid].arg)
      BY <1>8 DEF KillDone
    <3>2. currpid \in Pid /\ cont[currpid].op = "kill"
      BY <3>1, ResumeFacts DEF Deferred
    <3>3. QED
      BY <3>1, <3>2 DEF Parts, ContOK
  <2>2. QED
    BY <2>1 DEF Withdraw, WithdrawLeaving
<1>9. QED
  BY <1>1, <1>3, <1>4, <1>5, <1>6, <1>7, <1>8 DEF Next, Calling, KernelSteps, Halted

\* Semaphore queues are first in, first out for everyone who is not killed.
THEOREM FirstComeFirstServed == Spec => ServedInOrder
<1>1. IInv /\ [Next]_vars => \A s \in Sem : ServedFromHead(s)
  <2> SUFFICES ASSUME IInv, [Next]_vars, NEW s \in Sem, NEW p \in Range(squeue[s]),
                      p \notin Range(squeue[s]'), prstate'[p] # "PR_FREE"
               PROVE  p = Head(squeue[s])
    BY DEF ServedFromHead
  <2>1. Parts
    BY IInvParts
  <2>2. QueueOf(Pid, squeue[s]) /\ squeue \in [Sem -> Seq(Pid)]
    BY <2>1 DEF Parts, TypeRest, SemsOK, SemQueuesOK, QueueOf
  <2>3. p \in Pid /\ prstate[p] = "PR_WAIT" /\ prsem[p] = s
    BY <2>1, <2>2, MembersAt DEF Parts, SemsOK, SemQueuesOK, QueueOf
  <2>4. ASSUME NEW r \in Sem, squeue' = [squeue EXCEPT ![r] = Append(@, currpid)]
        PROVE  p = Head(squeue[s])
    <3>1. currpid \in Pid /\ prstate[currpid] = "PR_CURR"
      BY <2>1, SchedFacts DEF Parts
    <3>2. currpid \notin Range(squeue[s])
      BY <2>1, <3>1 DEF Parts, SemsOK, SemQueuesOK
    <3>3. Range(Append(squeue[s], currpid)) = Range(squeue[s]) \cup {currpid}
      BY <2>2, <3>1, <3>2, AppendMembers
    <3>4. squeue'[s] = squeue[s] \/ squeue'[s] = Append(squeue[s], currpid)
      BY <2>2, <2>4
    <3>5. QED
      BY <3>3, <3>4
  <2>5. ASSUME NEW r \in Sem, squeue[r] # <<>>,
               squeue' = [squeue EXCEPT ![r] = Tail(@)]
        PROVE  p = Head(squeue[s])
    <3>1. r = s
      BY <2>2, <2>5
    <3>2. squeue'[s] = Tail(squeue[s])
      BY <2>2, <2>5, <3>1
    <3>3. Range(Tail(squeue[s])) = Range(squeue[s]) \ {Head(squeue[s])}
      BY <2>2, <2>5, <3>1, TailMembers
    <3>4. QED
      BY <3>2, <3>3
  <2>6. ASSUME NEW x \in Pid, prstate[x] = "PR_WAIT",
               prstate' = [prstate EXCEPT ![x] = "PR_FREE"],
               squeue' = [squeue EXCEPT ![prsem[x]] = GetItem(@, x)]
        PROVE  p = Head(squeue[s])
    <3>1. prstate \in [Pid -> PrState]
      BY <2>1, SchedFacts DEF Parts
    <3>2. prsem[x] = s
      BY <2>2, <2>6
    <3>3. x # p
      BY <2>3, <2>6, <3>1
    <3>4. x \in Range(squeue[s])
      BY <2>1, <2>6, <3>2 DEF Parts, SemsOK, SemQueuesOK
    <3>5. Range(GetItem(squeue[s], x)) = Range(squeue[s]) \ {x}
      BY <2>2, <3>4, GetItemMembers
    <3>6. squeue'[s] = GetItem(squeue[s], x)
      BY <2>2, <2>6, <3>2
    <3>7. QED
      BY <3>3, <3>5, <3>6
  <2>7. CASE UNCHANGED squeue
    BY <2>7
  <2>8. QED
    BY <2>1, <2>4, <2>5, <2>6, <2>7, SemQueueSteps
<1>2. IInv /\ [Next]_vars => \A s \in Sem : NobodyOvertakes(s)
  <2> SUFFICES ASSUME IInv, [Next]_vars, NEW s \in Sem, NEW p \in Range(squeue[s]),
                      NEW q \in Pid, Ahead(squeue[s]', q, p)
               PROVE  Ahead(squeue[s], q, p)
    BY DEF NobodyOvertakes
  <2>1. Parts
    BY IInvParts
  <2>2. QueueOf(Pid, squeue[s]) /\ squeue \in [Sem -> Seq(Pid)]
    BY <2>1 DEF Parts, TypeRest, SemsOK, SemQueuesOK, QueueOf
  <2>3. ASSUME NEW r \in Sem, squeue' = [squeue EXCEPT ![r] = Append(@, currpid)]
        PROVE  Ahead(squeue[s], q, p)
    <3>1. currpid \in Pid /\ prstate[currpid] = "PR_CURR"
      BY <2>1, SchedFacts DEF Parts
    <3>2. currpid \notin Range(squeue[s])
      BY <2>1, <3>1 DEF Parts, SemsOK, SemQueuesOK
    <3>3. squeue'[s] = squeue[s] \/ squeue'[s] = Append(squeue[s], currpid)
      BY <2>2, <2>3
    <3>4. QED
      BY <2>2, <3>1, <3>2, <3>3, AppendOrder
  <2>4. ASSUME NEW r \in Sem, squeue[r] # <<>>,
               squeue' = [squeue EXCEPT ![r] = Tail(@)]
        PROVE  Ahead(squeue[s], q, p)
    <3>1. \/ squeue'[s] = squeue[s]
          \/ squeue[s] # <<>> /\ squeue'[s] = Tail(squeue[s])
      BY <2>2, <2>4
    <3>2. QED
      BY <2>2, <3>1, TailOrder
  <2>5. ASSUME NEW x \in Pid, prstate[x] = "PR_WAIT",
               squeue' = [squeue EXCEPT ![prsem[x]] = GetItem(@, x)]
        PROVE  Ahead(squeue[s], q, p)
    <3>1. \/ squeue'[s] = squeue[s]
          \/ prsem[x] = s /\ squeue'[s] = GetItem(squeue[s], x)
      BY <2>2, <2>5
    <3>2. prsem[x] = s => x \in Range(squeue[s])
      BY <2>1, <2>5 DEF Parts, SemsOK, SemQueuesOK
    <3>3. QED
      BY <2>2, <3>1, <3>2, GetItemOrder
  <2>6. CASE UNCHANGED squeue
    BY <2>6
  <2>7. QED
    BY <2>1, <2>3, <2>4, <2>5, <2>6, SemQueueSteps
<1>3. IInv /\ [Next]_vars
         => \A s \in Sem : ServedFromHead(s) /\ NobodyOvertakes(s)
  BY <1>1, <1>2
<1>4. QED
  BY <1>3, Invariant, PTL DEF Spec, ServedInOrder

=============================================================================
