------------------------------ MODULE ProcTable ------------------------------
(***************************************************************************)
(* The process table, the ready list and the scheduler of Xinu: the state  *)
(* every other kernel module works on, and resched, resched_cntl and ready *)
(* as operators that the system calls of the other modules use.            *)
(*                                                                         *)
(* The kernel runs on one processor.  A system call disables interrupts    *)
(* and gives the processor away only inside resched, so the code between   *)
(* two calls of resched is one action, always of the current process.  A   *)
(* call that has something left to do when resched returns leaves it in    *)
(* cont[p]: the rest runs, still with interrupts disabled, when p is next  *)
(* dispatched.                                                             *)
(***************************************************************************)
EXTENDS QueueOps

CONSTANTS
    NPROC,      \* process table entries
    NSEM,       \* semaphore table entries
    QUANTUM,    \* clock ticks a process runs before it is preempted
    StartPrio,  \* priorities of the processes that exist at the start: 1..k
    NSTK,       \* stacks the heap has room for
    MaxCount,   \* bound on semaphore counts
    Prios,      \* priorities create and chprio are called with
    Ops         \* the system calls the processes of the instance make

Pid == 0 .. NPROC - 1
Sem == 0 .. NSEM - 1
Started == DOMAIN StartPrio
Stack == 0 .. NSTK - 1    \* stack-sized pieces of the heap, by address
NULLPROC == 0
EMPTY == -1

ASSUME TableAssumption ==
    /\ NPROC \in Nat \ {0, 1}
    /\ NSEM \in Nat \ {0}
    /\ QUANTUM \in Nat \ {0}
    /\ StartPrio \in Seq(Nat \ {0})
    /\ Len(StartPrio) \in 1 .. NPROC - 1
    /\ NSTK \in Nat /\ NSTK > Len(StartPrio)
    /\ MaxCount \in Nat
    /\ Prios \subseteq Nat

PrState == {"PR_FREE", "PR_CURR", "PR_READY", "PR_RECV", "PR_SLEEP",
            "PR_SUSP", "PR_WAIT", "PR_RECTIM"}

VARIABLES
    \* proctab[p]
    prstate, prprio, prstkbase, prsem, prparent, prmsg, prhasmsg,
    prcount,        \* number of processes, as the kernel counts them
    currpid,        \* the process that has the processor
    nextpid,        \* where newpid starts to look
    freestks,       \* the stacks on the free list of the heap
    readylist,      \* processes eligible for the processor, in list order
    sleepq,         \* delta list of the processes waiting for the clock
    qkey,           \* queuetab[p].qkey
    ndefers, attempt,           \* the structure Defer
    preempt,                    \* ticks left to the current process
    sstate, scount, squeue,     \* semtab[s]
    nextsem,        \* where newsem starts to look
    cont,           \* what a process still has to do inside the kernel
    halted          \* xdone has stopped the processor

\* What resched may change.
schedVars == <<prstate, readylist, qkey, currpid, preempt, attempt>>
semVars   == <<sstate, scount, squeue, nextsem>>
msgVars   == <<prmsg, prhasmsg>>
tableVars == <<prprio, prparent, prstkbase, prcount, nextpid, freestks>>
vars == <<schedVars, semVars, msgVars, tableVars, prsem, sleepq, ndefers,
          cont, halted>>

-----------------------------------------------------------------------------
(* Who acts.                                                               *)

\* Interrupts are enabled and the process is in its own code.
Run == [op |-> "run", arg |-> 0, n |-> 0]

ContOps == {"run", "receive", "recvtime", "kill", "wakeup", "clktail",
            "signaln", "semdelete", "semreset"}

Cont == [op : ContOps, arg : Nat, n : Nat]

\* The current process enters system call op.  The null process calls none:
\* its code is an empty loop (initialize.c).
Calls(op) ==
    /\ op \in Ops
    /\ ~halted
    /\ currpid # NULLPROC
    /\ cont[currpid] = Run

\* The current process is inside the kernel, at the rest of call op.
Resumes(op) == ~halted /\ cont[currpid].op = op

ContinueWith(c) == cont' = [cont EXCEPT ![currpid] = c]

Live(p) == prstate[p] # "PR_FREE"

-----------------------------------------------------------------------------
(* resched, resched_cntl and ready.  st, rl, ky and pre are the process    *)
(* states, ready list, keys and preemption counter the caller has set when *)
(* it makes the call.                                                      *)

\* resched when rescheduling is not deferred.
Dispatch(st, rl, ky, pre) ==
    LET eligible == st[currpid] = "PR_CURR"
        prio == prprio[currpid]
        stays == eligible /\ (rl = <<>> \/ prio > ky[Head(rl)])
        ky1 == IF eligible THEN [ky EXCEPT ![currpid] = prio] ELSE ky
        rl1 == IF eligible THEN Insert(rl, currpid, ky, prio) ELSE rl
        st1 == IF eligible THEN [st EXCEPT ![currpid] = "PR_READY"] ELSE st
    IN  IF stays
        THEN /\ prstate' = st
             /\ readylist' = rl
             /\ qkey' = ky
             /\ preempt' = pre
             /\ UNCHANGED currpid
        ELSE /\ currpid' = Head(rl1)
             /\ prstate' = [st1 EXCEPT ![Head(rl1)] = "PR_CURR"]
             /\ readylist' = Tail(rl1)
             /\ qkey' = ky1
             /\ preempt' = QUANTUM

Resched(st, rl, ky, pre) ==
    \/ /\ ndefers > 0
       /\ attempt' = TRUE
       /\ prstate' = st
       /\ readylist' = rl
       /\ qkey' = ky
       /\ preempt' = pre
       /\ UNCHANGED currpid
    \/ /\ ndefers = 0
       /\ Dispatch(st, rl, ky, pre)
       /\ UNCHANGED attempt

\* ready(p), the keys being ky.
ReadyWith(p, ky) ==
    Resched([prstate EXCEPT ![p] = "PR_READY"],
            Insert(readylist, p, ky, prprio[p]),
            [ky EXCEPT ![p] = prprio[p]],
            preempt)

Ready(p) == ReadyWith(p, qkey)

\* The current process blocks: it enters state st, which is not eligible.
Block(st, ky) ==
    Resched([prstate EXCEPT ![currpid] = st], readylist, ky, preempt)

\* resched_cntl(DEFER_START)
DeferStart ==
    /\ ndefers' = ndefers + 1
    /\ attempt' = IF ndefers = 0 THEN FALSE ELSE attempt

\* A wrong DEFER_STOP, for comparison: it forgets the attempt.
DeferStopForgets ==
    /\ ndefers' = ndefers - 1
    /\ UNCHANGED schedVars

\* resched_cntl(DEFER_STOP)
DeferStop ==
    /\ ndefers' = ndefers - 1
    /\ \/ ndefers = 1 /\ attempt /\ Dispatch(prstate, readylist, qkey, preempt)
                      /\ UNCHANGED attempt
       \/ (ndefers # 1 \/ ~attempt) /\ UNCHANGED schedVars

=============================================================================
