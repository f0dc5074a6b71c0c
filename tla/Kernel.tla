-------------------------------- MODULE Kernel --------------------------------
(***************************************************************************)
(* The Xinu kernel: the system calls of Semaphores, Messages, SleepClock   *)
(* and Processes and the clock interrupt, over one process table.          *)
(*                                                                         *)
(* The initial state is the one in which the first process, started by     *)
(* nulluser, has created the other processes of the instance and has not   *)
(* resumed any of them yet.                                                *)
(***************************************************************************)
EXTENDS Processes, FiniteSets

Init ==
    LET k == Len(StartPrio) IN
    /\ prstate = [p \in Pid |-> CASE p = NULLPROC -> "PR_READY"
                                  [] p = 1 -> "PR_CURR"
                                  [] p \in 2 .. k -> "PR_SUSP"
                                  [] OTHER -> "PR_FREE"]
    /\ prprio = [p \in Pid |-> IF p \in Started THEN StartPrio[p] ELSE 0]
    /\ prstkbase = [p \in Pid |-> IF p <= k THEN NSTK - 1 - p ELSE 0]
    /\ prsem = [p \in Pid |-> IF p \in Started THEN EMPTY ELSE 0]
    /\ prparent = [p \in Pid |-> IF p \in 2 .. k THEN 1 ELSE NULLPROC]
    /\ prmsg = [p \in Pid |-> 0]
    /\ prhasmsg = [p \in Pid |-> FALSE]
    /\ prcount = k + 1
    /\ currpid = 1
    /\ nextpid = (k + 1) % NPROC
    /\ freestks = 0 .. NSTK - 2 - k
    /\ readylist = <<NULLPROC>>
    /\ sleepq = <<>>
    /\ qkey = [p \in Pid |-> 0]
    /\ ndefers = 0
    /\ attempt = FALSE
    /\ preempt = QUANTUM
    /\ sstate = [s \in Sem |-> "S_FREE"]
    /\ scount = [s \in Sem |-> 0]
    /\ squeue = [s \in Sem |-> <<>>]
    /\ nextsem = 0
    /\ cont = [p \in Pid |-> Run]
    /\ halted = FALSE

\* halt: the processor does nothing any more.
Halted == halted /\ UNCHANGED vars

\* What a process does of its own accord.
Calling == SemCalls \/ SleepCalls \/ MsgCalls \/ ProcCalls

\* What the kernel does with interrupts disabled.
KernelSteps ==
    \/ SemSteps \/ MsgSteps \/ KillDone
    \/ WakeupStep \/ WakeupDone \/ ClkTail

Next == Calling \/ KernelSteps \/ ClkHandler \/ Halted

Spec == Init /\ [][Next]_vars

\* The processor executes instructions, so code that nothing can interrupt
\* goes on.  A clock interrupt that arrives while interrupts are disabled
\* stays pending in the interrupt controller and is taken when they are
\* enabled again: strong fairness.  Nothing is assumed of the processes.
Fairness == WF_vars(KernelSteps) /\ SF_vars(ClkHandler)

FairSpec == Spec /\ Fairness

-----------------------------------------------------------------------------
(* Type invariant.                                                         *)

TypeOK ==
    /\ prstate \in [Pid -> PrState]
    /\ prprio \in [Pid -> Nat]
    /\ prstkbase \in [Pid -> Stack]
    /\ prsem \in [Pid -> Sem \cup {EMPTY}]
    /\ prparent \in [Pid -> Pid]
    /\ prmsg \in [Pid -> Nat]
    /\ prhasmsg \in [Pid -> BOOLEAN]
    /\ prcount \in Int
    /\ currpid \in Pid
    /\ nextpid \in Pid
    /\ freestks \subseteq Stack
    /\ readylist \in Seq(Pid)
    /\ sleepq \in Seq(Pid)
    /\ DOMAIN qkey = Pid
    /\ ndefers \in {0, 1}
    /\ attempt \in BOOLEAN
    /\ preempt \in 1 .. QUANTUM
    /\ sstate \in [Sem -> {"S_FREE", "S_USED"}]
    /\ scount \in [Sem -> Int]
    /\ squeue \in [Sem -> Seq(Pid)]
    /\ nextsem \in Sem
    /\ cont \in [Pid -> Cont]
    /\ halted \in BOOLEAN

-----------------------------------------------------------------------------
(* The scheduler.                                                          *)

Deferred == {"wakeup", "signaln", "semdelete", "semreset"}

ReadyListOK ==
    /\ IsInjective(readylist)
    /\ \A p \in Pid : p \in Range(readylist) <=> prstate[p] = "PR_READY"

SleepQueueOK ==
    /\ IsInjective(sleepq)
    /\ \A p \in Pid :
          p \in Range(sleepq) <=> prstate[p] \in {"PR_SLEEP", "PR_RECTIM"}

SemQueuesOK ==
    /\ \A s \in Sem : IsInjective(squeue[s])
    /\ \A s \in Sem : \A p \in Pid :
          p \in Range(squeue[s]) <=> prstate[p] = "PR_WAIT" /\ prsem[p] = s
    /\ \A p \in Pid : prstate[p] = "PR_WAIT" => prsem[p] \in Sem

\* A process is on the queue its state names, once, and on no other: so
\* queuetab needs one node per process, and resched, which does not check
\* what dequeue returns, never finds the ready list empty.
QueuesMatchStates == ReadyListOK /\ SleepQueueOK /\ SemQueuesOK

\* Exactly the process that runs is in state PR_CURR, and the null process
\* is always there to run.
CurrentAndNull ==
    /\ \A p \in Pid : prstate[p] = "PR_CURR" <=> p = currpid
    /\ prstate[NULLPROC] \in {"PR_CURR", "PR_READY"}

\* No process loses the processor while rescheduling is deferred, and no
\* call returns without having ended its deferral.
DeferralEnds ==
    /\ ndefers = IF cont[currpid].op \in Deferred THEN 1 ELSE 0
    /\ \A p \in Pid \ {currpid} : cont[p].op \notin Deferred

\* "Reschedule processor to highest priority eligible process" (resched.c):
\* outside a deferral no ready process has a higher priority than the
\* current one, whatever made it ready.  (For instances without chprio, which
\* leaves the ready list as it is and does not reschedule.)
HighestPriorityRuns ==
    ndefers = 0 =>
        \A p \in Pid : prstate[p] = "PR_READY" => prprio[p] <= prprio[currpid]

-----------------------------------------------------------------------------
(* Semaphores.                                                             *)

\* The count of a semaphore says how many processes are on its queue, also
\* while signaln and semdelete are half way through it; and the queue of a
\* free semaphore is empty, which semcreate, that only sets the count,
\* relies on.  The exception is semreset, which empties the queue first.
CountsMatchQueues ==
    \A s \in Sem :
        \/ cont[currpid].op = "semreset" /\ cont[currpid].arg = s
        \/ Len(squeue[s]) = IF scount[s] < 0 THEN -scount[s] ELSE 0

FreeSemsAreEmpty ==
    \A s \in Sem :
        \/ sstate[s] = "S_USED"
        \/ cont[currpid].op = "semdelete" /\ cont[currpid].arg = s
        \/ squeue[s] = <<>>

ServedFromHead(s) ==
    \A p \in Range(squeue[s]) :
        p \notin Range(squeue[s]') /\ prstate'[p] # "PR_FREE"
            => p = Head(squeue[s])

NobodyOvertakes(s) ==
    \A p \in Range(squeue[s]), q \in Pid :
        Ahead(squeue[s]', q, p) => Ahead(squeue[s], q, p)

\* First in, first out: whoever leaves a semaphore queue alive was its head,
\* and nobody gets in front of a process that waits already.
ServedInOrder == [][\A s \in Sem : ServedFromHead(s) /\ NobodyOvertakes(s)]_vars

-----------------------------------------------------------------------------
(* Messages.                                                               *)

\* receive takes the message without looking at prhasmsg again (receive.c):
\* whoever comes out of the wait has got one.
ReceiveHasMessage ==
    \A p \in Pid :
        cont[p].op = "receive" /\ prstate[p] # "PR_RECV" => prhasmsg[p]

\* A message is not replaced before its receiver has taken it.
MessageKept ==
    [][\A p \in Pid : prhasmsg[p] /\ prhasmsg'[p] => prmsg'[p] = prmsg[p]]_vars

\* A message leaves the mailbox only into the hands of its receiver, or when
\* create makes a new process of the table entry.
MessageTaken ==
    [][\A p \in Pid :
          prhasmsg[p] /\ ~prhasmsg'[p]
              => p = currpid \/ prstate[p] = "PR_FREE"]_vars

-----------------------------------------------------------------------------
(* What is left of a call.                                                 *)

\* The rest of a call works on a semaphore, or a victim, that was checked at
\* its start, and a process that has been killed has nothing left to do.
ContOK ==
    \A p \in Pid :
        /\ cont[p].op \in {"signaln", "semdelete", "semreset"}
               => cont[p].arg \in Sem
        /\ cont[p].op = "kill" => cont[p].arg \in Pid \ {NULLPROC}
        /\ prstate[p] = "PR_FREE" => cont[p] = Run

\* The inductive invariant that the safety theorems rest on.
IInv ==
    /\ TypeOK
    /\ QueuesMatchStates
    /\ CurrentAndNull
    /\ DeferralEnds
    /\ CountsMatchQueues
    /\ FreeSemsAreEmpty
    /\ ReceiveHasMessage
    /\ ContOK

-----------------------------------------------------------------------------
(* Sleeping.                                                               *)

\* The ticks left to a process on the sleep queue.
TimeLeft(p) ==
    IF p \in Range(sleepq)
    THEN Elapsed(sleepq, qkey)[PosOf(sleepq, p)]
    ELSE EMPTY - 1

\* The delta list implements one timer for each process.
ProcTimers == INSTANCE Timers WITH
    Proc  <- Pid,
    Off   <- EMPTY - 1,
    timer <- [p \in Pid |-> TimeLeft(p)],
    open  <- [p \in Pid |-> prstate[p] = "PR_RECTIM"],
    mail  <- prhasmsg,
    alive <- [p \in Pid |-> Live(p)]

SleepQueueKeepsTime == ProcTimers!Spec

\* Every process that sleeps, or waits for a message with a limit, goes on:
\* the clock does not lose it, unless the system halts.
SleepersWake ==
    \A p \in Pid :
        prstate[p] \in {"PR_SLEEP", "PR_RECTIM"}
            ~> halted \/ prstate[p] \notin {"PR_SLEEP", "PR_RECTIM"}

\* Among processes of one priority the time slice shares the processor:
\* nobody that is ready waits for ever, unless the system halts.  (For
\* instances whose processes all have the same priority.)
ReadyRuns ==
    \A p \in Started :
        prstate[p] = "PR_READY" ~> halted \/ prstate[p] # "PR_READY"

-----------------------------------------------------------------------------
(* The end of processes.                                                   *)

\* The processes that are inside kill, and those they are killing.
InKill == {p \in Pid : cont[p].op = "kill"}
Victims == {cont[p].arg : p \in InKill}

\* prcount is the "Total number of live processes" (initialize.c), less
\* those that kill has counted out and not yet taken apart.
LiveCount ==
    prcount = Cardinality({p \in Pid : Live(p)}) - Cardinality(InKill)

\* "All user processes have completed." (xdone.c): when the processor is
\* halted, every user process left is one that kill is taking apart.
HaltsAtTheEnd ==
    halted => \A p \in Pid \ {NULLPROC} : Live(p) => p \in Victims

\* No process runs on a stack that is free or that is another process's.
StacksExclusive ==
    \A p \in Pid : Live(p) =>
        /\ prstkbase[p] \notin freestks
        /\ \A q \in Pid \ {p} : Live(q) => prstkbase[q] # prstkbase[p]

\* The live processes are counted, so that the processor is halted when the last
\* user process ends and not before.
EndsWithTheLast ==
    /\ LiveCount
    /\ HaltsAtTheEnd

=============================================================================
