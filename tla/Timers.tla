-------------------------------- MODULE Timers --------------------------------
(***************************************************************************)
(* What the clock promises to a process that sleeps or waits for a message *)
(* with a limit: its own timer counts every tick, whatever the timers of   *)
(* the other processes do; it goes off when it has counted down to zero,   *)
(* before the next tick; and only a message or the end of the process      *)
(* stops it earlier.                                                       *)
(***************************************************************************)
EXTENDS Integers

CONSTANTS Proc, Off

VARIABLES
    timer,      \* the ticks left to each process, or Off
    open,       \* whether a message stops its timer
    mail,       \* whether a message waits for it
    alive       \* whether it exists

timerVars == <<timer, open, mail, alive>>

Running(p) == timer[p] # Off

Stop(p) ==
    /\ timer' = [timer EXCEPT ![p] = Off]
    /\ open' = [open EXCEPT ![p] = FALSE]

Init ==
    /\ timer = [p \in Proc |-> Off]
    /\ open = [p \in Proc |-> FALSE]
    /\ mail = [p \in Proc |-> FALSE]
    /\ alive \in [Proc -> BOOLEAN]

\* A process sleeps, or it waits for a message and none is there.
Start(p) ==
    /\ ~Running(p)
    /\ timer'[p] \in Nat \ {0}
    /\ open'[p] => ~mail[p]
    /\ \A q \in Proc \ {p} : timer'[q] = timer[q] /\ open'[q] = open[q]
    /\ UNCHANGED <<mail, alive>>

Tick ==
    /\ \A p \in Proc : Running(p) => timer[p] > 0
    /\ timer' = [p \in Proc |-> IF Running(p) THEN timer[p] - 1 ELSE Off]
    /\ UNCHANGED <<open, mail, alive>>

GoesOff(p) ==
    /\ Running(p) /\ timer[p] <= 0
    /\ Stop(p)
    /\ UNCHANGED <<mail, alive>>

Answered(p) ==
    /\ open[p]
    /\ Stop(p)
    /\ mail' = [mail EXCEPT ![p] = TRUE]
    /\ UNCHANGED alive

Dies(p) ==
    /\ alive[p]
    /\ Stop(p)
    /\ alive' = [alive EXCEPT ![p] = FALSE]
    /\ UNCHANGED mail

\* Mail for processes without an open timer, and processes that start.
Other ==
    /\ UNCHANGED <<timer, open>>
    /\ \A p \in Proc : (alive[p] => alive'[p]) /\ (open[p] => ~mail'[p])

Next ==
    \/ \E p \in Proc : Start(p) \/ GoesOff(p) \/ Answered(p) \/ Dies(p)
    \/ Tick
    \/ Other

Spec == Init /\ [][Next]_timerVars

=============================================================================
