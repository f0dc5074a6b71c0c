------------------------------ MODULE SleepClock ------------------------------
(***************************************************************************)
(* Sleeping and the clock interrupt: sleepms, wakeup and clkhandler.       *)
(* sleepq is a delta list: the key of an entry is the ticks between the    *)
(* entry before it and its own time.                                       *)
(***************************************************************************)
EXTENDS ProcTable

CONSTANT Delays     \* arguments of sleepms and recvtime, in milliseconds

ASSUME DelaysAssumption == Delays \subseteq Nat

-----------------------------------------------------------------------------
(* sleepms; sleep is sleepms of whole seconds.                             *)

\* sleepms(0) is yield.
Sleepms(delay) ==
    /\ Calls("sleepms")
    /\ delay > 0
    /\ sleepq' = Insertd(sleepq, currpid, qkey, delay)
    /\ Block("PR_SLEEP", InsertdKeys(sleepq, currpid, qkey, delay))
    /\ UNCHANGED <<semVars, msgVars, tableVars, prsem, ndefers, cont, halted>>

-----------------------------------------------------------------------------
(* The clock interrupt runs on the stack of the process it interrupts.     *)

Tail1 == [op |-> "clktail", arg |-> 0, n |-> 0]
Wakeup1 == [op |-> "wakeup", arg |-> 0, n |-> 0]

\* if (--queuetab[firstid(sleepq)].qkey <= 0)
DueAtThisTick == sleepq # <<>> /\ qkey[Head(sleepq)] - 1 <= 0

\* clkhandler up to the call of wakeup, and wakeup up to its loop.
ClkHandler ==
    /\ ~halted
    /\ cont[currpid] = Run
    /\ qkey' = IF sleepq = <<>> THEN qkey ELSE [qkey EXCEPT ![Head(sleepq)] = @ - 1]
    /\ \/ DueAtThisTick /\ ContinueWith(Wakeup1) /\ DeferStart
       \/ ~DueAtThisTick /\ ContinueWith(Tail1) /\ UNCHANGED <<ndefers, attempt>>
    /\ UNCHANGED <<prstate, readylist, currpid, preempt, semVars, msgVars,
                   tableVars, prsem, sleepq, halted>>

\* nonempty(sleepq) && firstkey(sleepq) <= 0
FirstIsDue == sleepq # <<>> /\ qkey[Head(sleepq)] <= 0

\* Wrong iterations, for comparison: one starts the timer again, one empties
\* the mailbox of the process.
WakeupRearms ==
    /\ Resumes("wakeup")
    /\ FirstIsDue
    /\ qkey' = [qkey EXCEPT ![Head(sleepq)] = 1]
    /\ UNCHANGED <<prstate, readylist, currpid, preempt, attempt, sleepq, semVars,
                   msgVars, tableVars, prsem, ndefers, cont, halted>>

WakeupDropsMessage ==
    /\ Resumes("wakeup")
    /\ FirstIsDue
    /\ sleepq' = Tail(sleepq)
    /\ Ready(Head(sleepq))
    /\ prhasmsg' = [prhasmsg EXCEPT ![Head(sleepq)] = FALSE]
    /\ UNCHANGED <<semVars, prmsg, tableVars, prsem, ndefers, cont, halted>>

\* One iteration of wakeup: ready(dequeue(sleepq)).
WakeupStep ==
    /\ Resumes("wakeup")
    /\ FirstIsDue
    /\ sleepq' = Tail(sleepq)
    /\ Ready(Head(sleepq))
    /\ UNCHANGED <<semVars, msgVars, tableVars, prsem, ndefers, cont, halted>>

\* The end of wakeup.  DEFER_STOP may give the processor away: the rest of
\* clkhandler then waits until the interrupted process runs again.
WakeupDone ==
    /\ Resumes("wakeup")
    /\ ~FirstIsDue
    /\ ContinueWith(Tail1)
    /\ DeferStop
    /\ UNCHANGED <<semVars, msgVars, tableVars, prsem, sleepq, halted>>

\* The end of clkhandler: the time slice.
ClkTail ==
    /\ Resumes("clktail")
    /\ ContinueWith(Run)
    /\ \/ /\ preempt - 1 > 0
          /\ preempt' = preempt - 1
          /\ UNCHANGED <<prstate, readylist, qkey, currpid, attempt>>
       \/ /\ preempt - 1 <= 0
          /\ Resched(prstate, readylist, qkey, QUANTUM)
    /\ UNCHANGED <<semVars, msgVars, tableVars, prsem, sleepq, ndefers, halted>>

ClockSteps == ClkHandler \/ WakeupStep \/ WakeupDone \/ ClkTail

SleepCalls == \E delay \in Delays : Sleepms(delay)

=============================================================================
