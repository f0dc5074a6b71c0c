------------------------------- MODULE SemOps -------------------------------
(***************************************************************************)
(* A semaphore as the code above the kernel sees it: what wait, signal,    *)
(* semreset and semdelete do to its count and to the processes that wait.  *)
(* A process that signal takes off the queue returns from wait without     *)
(* looking at the count again.                                             *)
(*                                                                         *)
(* The modules that use these operators follow one rule of the kernel: a   *)
(* call runs with interrupts disabled, so another process gets the         *)
(* processor only where wait blocks or where a process is released (which  *)
(* may have the same priority or a higher one, and then resched switches). *)
(***************************************************************************)
EXTENDS Integers, Sequences

NoSem == [used |-> FALSE, count |-> 0, queue |-> <<>>]

SemCreated(n) == [used |-> TRUE, count |-> n, queue |-> <<>>]

Blocks(s) == s.count <= 0

Waited(s, p) ==
    [used |-> s.used, count |-> s.count - 1,
     queue |-> IF Blocks(s) THEN Append(s.queue, p) ELSE s.queue]

Releases(s) == s.count < 0

Signalled(s) ==
    [used |-> s.used, count |-> IF s.used THEN s.count + 1 ELSE s.count,
     queue |-> IF Releases(s) THEN Tail(s.queue) ELSE s.queue]

\* signaln: the first n of those who wait are released.
SignalledN(s, n) ==
    [s EXCEPT !.count = @ + n,
              !.queue = SubSeq(@, 1 + (IF n < Len(@) THEN n ELSE Len(@)), Len(@))]

\* semreset and semdelete release everybody.
WasReset(s, n) == IF s.used THEN SemCreated(n) ELSE s

Waits(s, p) == \E i \in DOMAIN s.queue : s.queue[i] = p

\* The count agrees with the queue, and nobody waits twice.
SemOK(s) ==
    /\ Len(s.queue) = IF s.count < 0 THEN -s.count ELSE 0
    /\ \A i, j \in DOMAIN s.queue : i # j => s.queue[i] # s.queue[j]

=============================================================================
