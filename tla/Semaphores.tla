------------------------------ MODULE Semaphores ------------------------------
(***************************************************************************)
(* The semaphore calls: wait, signal, signaln, semcreate, semdelete and    *)
(* semreset.  A semaphore with count -n has n processes on its queue.  The *)
(* calls that release several processes do it with rescheduling deferred,  *)
(* one process per step.                                                   *)
(***************************************************************************)
EXTENDS ProcTable

CONSTANT Counts     \* arguments of semcreate, signaln and semreset

ASSUME CountsAssumption == Counts \subseteq Nat

Used(s) == sstate[s] = "S_USED"

SemUnchanged == UNCHANGED <<msgVars, tableVars, sleepq, nextsem, halted>>

-----------------------------------------------------------------------------

\* A wrong wait, for comparison: it does not record the semaphore.
WaitUnrecorded(s) ==
    /\ Calls("wait")
    /\ Used(s)
    /\ scount' = [scount EXCEPT ![s] = @ - 1]
    /\ \/ scount[s] > 0 /\ UNCHANGED <<schedVars, squeue>>
       \/ /\ scount[s] <= 0
          /\ squeue' = [squeue EXCEPT ![s] = Append(@, currpid)]
          /\ Block("PR_WAIT", qkey)
    /\ UNCHANGED <<sstate, prsem, cont, ndefers>>
    /\ SemUnchanged

\* And one that pushes the caller in front of the processes that wait.
WaitInFront(s) ==
    /\ Calls("wait")
    /\ Used(s)
    /\ scount' = [scount EXCEPT ![s] = @ - 1]
    /\ \/ scount[s] > 0 /\ UNCHANGED <<schedVars, prsem, squeue>>
       \/ /\ scount[s] <= 0
          /\ prsem' = [prsem EXCEPT ![currpid] = s]
          /\ squeue' = [squeue EXCEPT ![s] = <<currpid>> \o @]
          /\ Block("PR_WAIT", qkey)
    /\ UNCHANGED <<sstate, cont, ndefers>>
    /\ SemUnchanged

Wait(s) ==
    /\ Calls("wait")
    /\ Used(s)
    /\ scount' = [scount EXCEPT ![s] = @ - 1]
    /\ \/ /\ scount[s] > 0
          /\ UNCHANGED <<schedVars, prsem, squeue>>
       \/ /\ scount[s] <= 0
          /\ prsem' = [prsem EXCEPT ![currpid] = s]
          /\ squeue' = [squeue EXCEPT ![s] = Append(@, currpid)]
          /\ Block("PR_WAIT", qkey)
    /\ UNCHANGED <<sstate, cont, ndefers>>
    /\ SemUnchanged

\* A wrong signal, for comparison: the last process that waits stays.
ReleaseButLast(s) ==
    /\ scount' = [scount EXCEPT ![s] = @ + 1]
    /\ \/ /\ scount[s] < -1
          /\ squeue' = [squeue EXCEPT ![s] = Tail(@)]
          /\ Ready(Head(squeue[s]))
       \/ /\ scount[s] >= -1
          /\ UNCHANGED <<schedVars, squeue>>

\* scount++ and, if it was negative, ready(dequeue(squeue)).
Release(s) ==
    /\ scount' = [scount EXCEPT ![s] = @ + 1]
    /\ \/ /\ scount[s] < 0
          /\ squeue' = [squeue EXCEPT ![s] = Tail(@)]
          /\ Ready(Head(squeue[s]))
       \/ /\ scount[s] >= 0
          /\ UNCHANGED <<schedVars, squeue>>

Signal(s) ==
    /\ Calls("signal")
    /\ Used(s)
    /\ scount[s] < MaxCount
    /\ Release(s)
    /\ UNCHANGED <<sstate, prsem, cont, ndefers>>
    /\ SemUnchanged

-----------------------------------------------------------------------------
(* Calls with a loop: DEFER_START, the iterations, DEFER_STOP.             *)

Signaln(s, count) ==
    /\ Calls("signaln")
    /\ Used(s)
    /\ scount[s] + count <= MaxCount
    /\ ContinueWith([op |-> "signaln", arg |-> s, n |-> count])
    /\ DeferStart
    /\ UNCHANGED <<prstate, readylist, qkey, currpid, preempt, prsem,
                   sstate, scount, squeue>>
    /\ SemUnchanged

SignalnStep ==
    LET c == cont[currpid] IN
    /\ Resumes("signaln")
    /\ c.n > 0
    /\ Release(c.arg)
    /\ ContinueWith([c EXCEPT !.n = @ - 1])
    /\ UNCHANGED <<sstate, prsem, ndefers>>
    /\ SemUnchanged

\* DEFER_STOP and the return, common to the calls of this module.
Finish ==
    /\ ContinueWith(Run)
    /\ DeferStop
    /\ UNCHANGED <<prsem, sstate, squeue>>
    /\ SemUnchanged

SignalnDone ==
    /\ Resumes("signaln")
    /\ cont[currpid].n = 0
    /\ UNCHANGED scount
    /\ Finish

\* Wrong deletions, for comparison: one that leaves the processes waiting...
SemDeleteStrands(s) ==
    /\ Calls("semdelete")
    /\ Used(s)
    /\ sstate' = [sstate EXCEPT ![s] = "S_FREE"]
    /\ UNCHANGED <<schedVars, prsem, scount, squeue, cont, ndefers>>
    /\ SemUnchanged

\* ... and one that returns with rescheduling still deferred.
SemDeleteReturns ==
    LET s == cont[currpid].arg IN
    /\ Resumes("semdelete")
    /\ scount[s] >= 0
    /\ scount' = [scount EXCEPT ![s] = @ + 1]
    /\ ContinueWith(Run)
    /\ UNCHANGED <<schedVars, ndefers, prsem, sstate, squeue>>
    /\ SemUnchanged

SemDelete(s) ==
    /\ Calls("semdelete")
    /\ Used(s)
    /\ sstate' = [sstate EXCEPT ![s] = "S_FREE"]
    /\ ContinueWith([op |-> "semdelete", arg |-> s, n |-> 0])
    /\ DeferStart
    /\ UNCHANGED <<prstate, readylist, qkey, currpid, preempt, prsem,
                   scount, squeue>>
    /\ SemUnchanged

\* while (scount++ < 0) ready(getfirst(squeue)): the test that ends the loop
\* increments the count too.
SemDeleteStep ==
    LET s == cont[currpid].arg IN
    /\ Resumes("semdelete")
    /\ scount[s] < 0
    /\ Release(s)
    /\ UNCHANGED <<sstate, prsem, cont, ndefers>>
    /\ SemUnchanged

SemDeleteDone ==
    LET s == cont[currpid].arg IN
    /\ Resumes("semdelete")
    /\ scount[s] >= 0
    /\ scount' = [scount EXCEPT ![s] = @ + 1]
    /\ Finish

SemReset(s, count) ==
    /\ Calls("semreset")
    /\ Used(s)
    /\ ContinueWith([op |-> "semreset", arg |-> s, n |-> count])
    /\ DeferStart
    /\ UNCHANGED <<prstate, readylist, qkey, currpid, preempt, prsem,
                   sstate, scount, squeue>>
    /\ SemUnchanged

\* while ((pid = getfirst(semqueue)) != EMPTY) ready(pid): the count is not
\* touched before the queue is empty.
SemResetStep ==
    LET s == cont[currpid].arg IN
    /\ Resumes("semreset")
    /\ squeue[s] # <<>>
    /\ squeue' = [squeue EXCEPT ![s] = Tail(@)]
    /\ Ready(Head(squeue[s]))
    /\ UNCHANGED <<sstate, scount, prsem, cont, ndefers>>
    /\ SemUnchanged

SemResetDone ==
    LET c == cont[currpid] IN
    /\ Resumes("semreset")
    /\ squeue[c.arg] = <<>>
    /\ scount' = [scount EXCEPT ![c.arg] = c.n]
    /\ Finish

-----------------------------------------------------------------------------
(* semcreate                                                               *)

\* The first free slot of a table that a scan from slot next on, around the
\* end of the table, finds.
FirstFree(next, free) ==
    LET later == {i \in free : i >= next}
    IN  IF later # {} THEN Min(later) ELSE Min(free)

FreeSems == {s \in Sem : sstate[s] = "S_FREE"}

\* A wrong newsem, for comparison: nextsem does not go around.
SemCreateNoWrap(count) ==
    LET s == FirstFree(nextsem, FreeSems) IN
    /\ Calls("semcreate")
    /\ FreeSems # {}
    /\ sstate' = [sstate EXCEPT ![s] = "S_USED"]
    /\ scount' = [scount EXCEPT ![s] = count]
    /\ nextsem' = s + 1
    /\ UNCHANGED <<schedVars, msgVars, tableVars, squeue, prsem, sleepq,
                   ndefers, cont, halted>>

\* newsem's scan, from nextsem on, and semcreate.
SemCreate(count) ==
    LET s == FirstFree(nextsem, FreeSems) IN
    /\ Calls("semcreate")
    /\ FreeSems # {}
    /\ sstate' = [sstate EXCEPT ![s] = "S_USED"]
    /\ scount' = [scount EXCEPT ![s] = count]
    /\ nextsem' = (s + 1) % NSEM
    /\ UNCHANGED <<schedVars, msgVars, tableVars, squeue, prsem, sleepq,
                   ndefers, cont, halted>>

-----------------------------------------------------------------------------

SemCalls ==
    \/ \E s \in Sem :
          \/ Wait(s)
          \/ Signal(s)
          \/ SemDelete(s)
          \/ \E count \in Counts : Signaln(s, count) \/ SemReset(s, count)
    \/ \E count \in Counts : SemCreate(count)

SemSteps ==
    \/ SignalnStep \/ SignalnDone
    \/ SemDeleteStep \/ SemDeleteDone
    \/ SemResetStep \/ SemResetDone

=============================================================================
