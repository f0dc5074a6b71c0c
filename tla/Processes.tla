------------------------------ MODULE Processes ------------------------------
(***************************************************************************)
(* The life of a process: create, resume, suspend, yield, chprio and kill. *)
(* exit, and the return of a process from its top-level function, are      *)
(* kill(getpid()).                                                         *)
(*                                                                         *)
(* kill is not atomic.  It counts the process out, tells the parent with   *)
(* send, and only then takes the process apart; send makes a parent that   *)
(* waits for a message ready and so may give it the processor.             *)
(***************************************************************************)
EXTENDS Semaphores, Messages

FreePids == {p \in Pid : ~Live(p)}

-----------------------------------------------------------------------------
(* create, resume, suspend, yield, chprio                                  *)

\* A wrong newpid, for comparison: the next entry, free or not.
NextPid == nextpid

\* newpid's scan, from nextpid on.
NewPid == FirstFree(nextpid, FreePids)

\* A wrong getstk, for comparison: the block stays on the free list.
StackStaysFree == UNCHANGED freestks

\* getstk takes its piece of the last block that is large enough.
Getstk == freestks' = freestks \ {Max(freestks)}

Create(prio) ==
    LET p == NewPid IN
    /\ Calls("create")
    /\ prio >= 1
    /\ FreePids # {}
    /\ nextpid' = (p + 1) % NPROC
    /\ \/ /\ freestks = {}              \* getstk fails: SYSERR
          /\ UNCHANGED <<prstate, prprio, prstkbase, prsem, prparent, prhasmsg,
                         prcount, freestks>>
       \/ /\ freestks # {}
          /\ prcount' = prcount + 1
          /\ prstate' = [prstate EXCEPT ![p] = "PR_SUSP"]
          /\ prprio' = [prprio EXCEPT ![p] = prio]
          /\ prstkbase' = [prstkbase EXCEPT ![p] = Max(freestks)]
          /\ Getstk
          /\ prsem' = [prsem EXCEPT ![p] = EMPTY]
          /\ prparent' = [prparent EXCEPT ![p] = currpid]
          /\ prhasmsg' = [prhasmsg EXCEPT ![p] = FALSE]
    /\ UNCHANGED <<readylist, qkey, currpid, preempt, attempt, prmsg, semVars,
                   sleepq, ndefers, cont, halted>>

ProcUnchanged == UNCHANGED <<semVars, msgVars, sleepq, prsem, ndefers, halted>>

\* A wrong resume, for comparison: it takes a waiting receiver for suspended.
ResumeReceiver(p) ==
    /\ Calls("resume")
    /\ prstate[p] \in {"PR_SUSP", "PR_RECV"}
    /\ Ready(p)
    /\ UNCHANGED <<tableVars, cont>>
    /\ ProcUnchanged

Resume(p) ==
    /\ Calls("resume")
    /\ prstate[p] = "PR_SUSP"
    /\ Ready(p)
    /\ UNCHANGED <<tableVars, cont>>
    /\ ProcUnchanged

\* Wrong suspends, for comparison: one suspends the null process, one leaves
\* the process on the ready list.
SuspendAny(p) ==
    /\ Calls("suspend")
    /\ \/ /\ prstate[p] = "PR_READY"
          /\ readylist' = GetItem(readylist, p)
          /\ prstate' = [prstate EXCEPT ![p] = "PR_SUSP"]
          /\ UNCHANGED <<qkey, currpid, preempt, attempt>>
       \/ prstate[p] = "PR_CURR" /\ Block("PR_SUSP", qkey)
    /\ UNCHANGED <<tableVars, cont>>
    /\ ProcUnchanged

Suspend(p) ==
    /\ Calls("suspend")
    /\ p # NULLPROC
    /\ \/ /\ prstate[p] = "PR_READY"
          /\ readylist' = GetItem(readylist, p)
          /\ prstate' = [prstate EXCEPT ![p] = "PR_SUSP"]
          /\ UNCHANGED <<qkey, currpid, preempt, attempt>>
       \/ /\ prstate[p] = "PR_CURR"
          /\ Block("PR_SUSP", qkey)
    /\ UNCHANGED <<tableVars, cont>>
    /\ ProcUnchanged

\* yield, and sleepms(0), which calls it.
Yield ==
    /\ Calls("yield")
    /\ Resched(prstate, readylist, qkey, preempt)
    /\ UNCHANGED <<tableVars, cont>>
    /\ ProcUnchanged

\* chprio writes the priority and nothing else: the ready list keeps the old
\* key and resched is not called.
Chprio(p, newprio) ==
    /\ Calls("chprio")
    /\ Live(p)
    /\ prprio' = [prprio EXCEPT ![p] = newprio]
    /\ UNCHANGED <<schedVars, prstkbase, prparent, prcount, nextpid, freestks,
                   cont>>
    /\ ProcUnchanged

-----------------------------------------------------------------------------
(* kill                                                                    *)

\* A test that takes the last but one for the last, for comparison.
LastButOne == prcount - 1 <= 2

\* --prcount <= 1: only the null process is left.
LastProcess == prcount - 1 <= 1

\* Up to and including send(prparent, victim).
Kill(victim) ==
    LET parent == prparent[victim] IN
    /\ Calls("kill") \/ (Calls("exit") /\ victim = currpid)
    /\ victim # NULLPROC
    /\ Live(victim)
    /\ prcount' = prcount - 1
    /\ ContinueWith([op |-> "kill", arg |-> victim, n |-> 0])
    /\ \/ /\ LastProcess                \* xdone: halt never returns
          /\ halted' = TRUE
          /\ UNCHANGED <<schedVars, msgVars, sleepq>>
       \/ /\ ~LastProcess
          /\ \/ CanDeliver(parent) /\ Deliver(parent, victim)
             \/ ~CanDeliver(parent) /\ UNCHANGED <<schedVars, msgVars, sleepq>>
          /\ UNCHANGED halted
    /\ UNCHANGED <<semVars, prprio, prparent, prstkbase, nextpid, freestks,
                   prsem, ndefers>>

\* The victim is taken off whatever queue its state says it is on; keys are
\* the keys a sleeping victim leaves, counts the counts a waiting one leaves.
WithdrawLeaving(victim, keys, counts) ==
    LET free == [prstate EXCEPT ![victim] = "PR_FREE"] IN
    \/ /\ prstate[victim] = "PR_CURR"
       /\ Block("PR_FREE", qkey)
       /\ UNCHANGED <<sleepq, scount, squeue>>
    \/ /\ prstate' = free
       /\ \/ /\ prstate[victim] \in {"PR_SLEEP", "PR_RECTIM"}
             /\ qkey' = keys
             /\ sleepq' = GetItem(sleepq, victim)
             /\ UNCHANGED <<scount, squeue, readylist>>
          \/ /\ prstate[victim] = "PR_WAIT"
             /\ scount' = counts
             /\ squeue' = [squeue EXCEPT ![prsem[victim]] = GetItem(@, victim)]
             /\ UNCHANGED <<sleepq, qkey, readylist>>
          \/ /\ prstate[victim] = "PR_READY"
             /\ readylist' = GetItem(readylist, victim)
             /\ UNCHANGED <<sleepq, qkey, scount, squeue>>
          \/ /\ prstate[victim] \in {"PR_RECV", "PR_SUSP", "PR_FREE"}
             /\ UNCHANGED <<sleepq, qkey, scount, squeue, readylist>>
       /\ UNCHANGED <<currpid, preempt, attempt>>

Withdraw(victim) ==
    WithdrawLeaving(victim, UnsleepKeys(sleepq, victim, qkey),
                    [scount EXCEPT ![prsem[victim]] = @ + 1])

\* The rest of kill: freestk and the switch on the state the victim has now.
\* freemem refuses a stack that is free already.  What a process that does
\* not exist has to do is nothing.
KillDone ==
    LET victim == cont[currpid].arg IN
    /\ Resumes("kill")
    /\ freestks' = freestks \cup {prstkbase[victim]}
    /\ cont' = [cont EXCEPT ![currpid] = Run, ![victim] = Run]
    /\ Withdraw(victim)
    /\ UNCHANGED <<msgVars, prprio, prparent, prstkbase, prcount, nextpid,
                   prsem, sstate, nextsem, ndefers, halted>>

-----------------------------------------------------------------------------

ProcCalls ==
    \/ \E prio \in Prios : Create(prio)
    \/ \E p \in Pid : Resume(p) \/ Suspend(p) \/ Kill(p)
    \/ Yield
    \/ \E p \in Pid, newprio \in Prios : Chprio(p, newprio)

=============================================================================
