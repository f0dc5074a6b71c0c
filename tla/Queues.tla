-------------------------------- MODULE Queues --------------------------------
(***************************************************************************)
(* The process queues of the kernel as sequences: what queuetab stands     *)
(* for.  A process is on at most one queue.  The ready list is kept with   *)
(* insert, the sleep queue with insertd, the semaphore queues first in,    *)
(* first out.                                                              *)
(***************************************************************************)
EXTENDS QueueOps

CONSTANTS Proc, ReadyQ, SleepQ, FifoQs, Keys, Delays

Queue == {ReadyQ, SleepQ} \cup FifoQs

VARIABLES
    list,       \* the processes of each queue, in order
    key         \* the key of each process

queueVars == <<list, key>>

Queued(p) == \E q \in Queue : p \in Range(list[q])

Init ==
    /\ list = [q \in Queue |-> <<>>]
    /\ key \in [Proc -> Int]

Put(q, s) == list' = [list EXCEPT ![q] = s]

Enter(p, k) ==
    /\ ~Queued(p)
    /\ key' = [key EXCEPT ![p] = k]
    /\ Put(ReadyQ, Insert(list[ReadyQ], p, key, k))

Sleep(p, d) ==
    /\ ~Queued(p)
    /\ key' = InsertdKeys(list[SleepQ], p, key, d)
    /\ Put(SleepQ, Insertd(list[SleepQ], p, key, d))

Join(p, q) ==
    /\ ~Queued(p)
    /\ UNCHANGED key
    /\ Put(q, Append(list[q], p))

TakeFirst(q) ==
    /\ list[q] # <<>>
    /\ UNCHANGED key
    /\ Put(q, Tail(list[q]))

TakeLast(q) ==
    /\ list[q] # <<>>
    /\ UNCHANGED key
    /\ Put(q, Front(list[q]))

Take(p, q) ==
    /\ p \in Range(list[q])
    /\ key' = IF q = SleepQ THEN UnsleepKeys(list[q], p, key) ELSE key
    /\ Put(q, GetItem(list[q], p))

TickFirst ==
    /\ list[SleepQ] # <<>>
    /\ key' = [key EXCEPT ![Head(list[SleepQ])] = @ - 1]
    /\ UNCHANGED list

Next ==
    \/ \E p \in Proc :
          \/ \E k \in Keys : Enter(p, k)
          \/ \E d \in Delays : Sleep(p, d)
          \/ \E q \in FifoQs : Join(p, q)
          \/ \E q \in Queue : Take(p, q)
    \/ \E q \in Queue : TakeFirst(q) \/ TakeLast(q)
    \/ TickFirst

Spec == Init /\ [][Next]_queueVars

=============================================================================
