------------------------------- MODULE Messages -------------------------------
(***************************************************************************)
(* One-word messages: send, receive, recvclr and recvtime.  A process has  *)
(* room for one message.                                                   *)
(***************************************************************************)
EXTENDS SleepClock

CONSTANT Msgs       \* messages processes send; kill sends process ids

ASSUME MsgsAssumption == Msgs \subseteq Nat

-----------------------------------------------------------------------------

\* A wrong test, for comparison: the mailbox may be full.
CanOverwrite(p) == Live(p)

\* The body of send(p, msg), which kill calls too.
CanDeliver(p) == Live(p) /\ ~prhasmsg[p]

Deliver(p, msg) ==
    /\ prmsg' = [prmsg EXCEPT ![p] = msg]
    /\ prhasmsg' = [prhasmsg EXCEPT ![p] = TRUE]
    /\ \/ /\ prstate[p] = "PR_RECV"
          /\ Ready(p)
          /\ UNCHANGED sleepq
       \/ /\ prstate[p] = "PR_RECTIM"
          /\ sleepq' = GetItem(sleepq, p)
          /\ ReadyWith(p, UnsleepKeys(sleepq, p, qkey))
       \/ /\ prstate[p] \notin {"PR_RECV", "PR_RECTIM"}
          /\ UNCHANGED <<schedVars, sleepq>>

\* When the message cannot be delivered send returns SYSERR.
Send(p, msg) ==
    /\ Calls("send")
    /\ CanDeliver(p)
    /\ Deliver(p, msg)
    /\ UNCHANGED <<semVars, tableVars, prsem, ndefers, cont, halted>>

-----------------------------------------------------------------------------

MsgUnchanged == UNCHANGED <<semVars, tableVars, prsem, ndefers, halted>>

\* The end of receive, recvtime and recvclr: take the message.
TakeMessage ==
    /\ prhasmsg' = [prhasmsg EXCEPT ![currpid] = FALSE]
    /\ UNCHANGED prmsg

\* receive with a message waiting, and recvtime and recvclr with one.
ReceiveNow ==
    /\ \/ Calls("receive") \/ Calls("recvclr") \/ Calls("recvtime")
    /\ prhasmsg[currpid]
    /\ TakeMessage
    /\ UNCHANGED <<schedVars, sleepq, cont>>
    /\ MsgUnchanged

ReceiveBlock ==
    /\ Calls("receive")
    /\ ~prhasmsg[currpid]
    /\ ContinueWith([op |-> "receive", arg |-> 0, n |-> 0])
    /\ Block("PR_RECV", qkey)
    /\ UNCHANGED <<msgVars, sleepq>>
    /\ MsgUnchanged

\* receive does not look at prhasmsg again when it is resumed.
ReceiveDone ==
    /\ Resumes("receive")
    /\ TakeMessage
    /\ ContinueWith(Run)
    /\ UNCHANGED <<schedVars, sleepq>>
    /\ MsgUnchanged

RecvtimeBlock(maxwait) ==
    /\ Calls("recvtime")
    /\ ~prhasmsg[currpid]
    /\ ContinueWith([op |-> "recvtime", arg |-> 0, n |-> 0])
    /\ sleepq' = Insertd(sleepq, currpid, qkey, maxwait)
    /\ Block("PR_RECTIM", InsertdKeys(sleepq, currpid, qkey, maxwait))
    /\ UNCHANGED msgVars
    /\ MsgUnchanged

\* Either a message arrived or the timer expired (TIMEOUT is returned).
RecvtimeDone ==
    /\ Resumes("recvtime")
    /\ \/ prhasmsg[currpid] /\ TakeMessage
       \/ ~prhasmsg[currpid] /\ UNCHANGED msgVars
    /\ ContinueWith(Run)
    /\ UNCHANGED <<schedVars, sleepq>>
    /\ MsgUnchanged

-----------------------------------------------------------------------------

MsgCalls ==
    \/ \E p \in Pid, msg \in Msgs : Send(p, msg)
    \/ ReceiveNow
    \/ ReceiveBlock
    \/ \E maxwait \in Delays : RecvtimeBlock(maxwait)

MsgSteps == ReceiveDone \/ RecvtimeDone

=============================================================================
