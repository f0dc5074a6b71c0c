------------------------------- MODULE Ethernet -------------------------------
(***************************************************************************)
(* The driver of the Ethernet controller (device/eth): two rings of        *)
(* descriptors in memory that the driver and the controller both write,    *)
(* the two pairs of registers that say which descriptors the controller    *)
(* owns, and the interrupt that tells the driver of descriptors it has     *)
(* done.                                                                   *)
(*                                                                         *)
(* read and write call ethread and ethwrite with interrupts disabled, so a *)
(* process gives the processor away only in wait.  The controller goes on  *)
(* at any time, also in the middle of the interrupt handler.               *)
(*                                                                         *)
(* The controller takes a ring whose two registers are equal for one that  *)
(* has nothing for it.  The semaphore of the transmit ring lets as many    *)
(* frames in as the ring has places, and then the registers are equal:     *)
(* ethspoilt tells that; nothing is explored behind it.                    *)
(***************************************************************************)
EXTENDS Integers, FiniteSetsExt, SequencesExt, SemOps

CONSTANTS
    EthProc,            \* processes that read and write frames
    E1000_RX_RING_SIZE, E1000_TX_RING_SIZE,
    E1000_RING_BOUNDARY,
    EthFrames           \* what a frame may hold

ASSUME EthAssumption ==
    /\ {E1000_RX_RING_SIZE, E1000_TX_RING_SIZE, E1000_RING_BOUNDARY} \subseteq Nat \ {0}
    /\ E1000_RX_RING_SIZE = 2 * E1000_RING_BOUNDARY
    /\ EthFrames \subseteq Nat \ {0}

VARIABLES
    rxring, rxhead, rxtail,     \* descriptors: the frame, 0 for status 0
    txring, txhead, txtail,     \* descriptors: the frame, and the DD bit
    isem, osem,
    rdh, rdt, tdh, tdt, icr,    \* registers of the controller
    ethirq,                     \* causes the handler has still to look after
    ethcall,                    \* what a process waits for
    ethspoilt,
    ethin, ethout, ethlast      \* observed: frames that came and are not read,
                                \* frames written and not yet sent, and whether
                                \* the last one read or sent was the first of them

rxVars == <<rxring, rxhead, rxtail, isem, rdh, rdt, ethin>>
txVars == <<txring, txhead, txtail, osem, tdh, tdt, ethout, ethspoilt>>
ethVars == <<rxVars, txVars, icr, ethirq, ethcall, ethlast>>

RxIndex == 0 .. E1000_RX_RING_SIZE - 1
TxIndex == 0 .. E1000_TX_RING_SIZE - 1
EthIdle == [op |-> "idle"]
TxFree == [frame |-> 0, done |-> FALSE]

\* A receive tail that leaves one descriptor, for comparison.
RdtAtStartHigh == E1000_RX_RING_SIZE - 1

\* The controller owns the first part of the receive ring at the start.
RdtAtStart == E1000_RX_RING_SIZE - E1000_RING_BOUNDARY

EthInit ==
    /\ rxring = [i \in RxIndex |-> 0] /\ txring = [i \in TxIndex |-> TxFree]
    /\ rxhead = 0 /\ rxtail = 0 /\ txhead = 0 /\ txtail = 0
    /\ isem = SemCreated(0) /\ osem = SemCreated(E1000_TX_RING_SIZE)
    /\ rdh = 0 /\ rdt = RdtAtStart /\ tdh = 0 /\ tdt = 0
    /\ icr = {} /\ ethirq = {}
    /\ ethcall = [p \in EthProc |-> EthIdle]
    /\ ethspoilt = FALSE
    /\ ethin = <<>> /\ ethout = <<>> /\ ethlast = "first"

-----------------------------------------------------------------------------
(* The controller.                                                         *)

RxAfter(i, n) == (i + n) % E1000_RX_RING_SIZE

\* Without the end of the ring, for comparison.
TxAfterPast(i, n) == i + n

TxAfter(i, n) == (i + n) % E1000_TX_RING_SIZE

\* A frame comes, and there is a descriptor for it.  (A frame that finds none
\* is dropped.)
NicStores(f) ==
    /\ rdh # rdt
    /\ rxring' = [rxring EXCEPT ![rdh] = f]
    /\ rdh' = RxAfter(rdh, 1)
    /\ icr' = icr \cup {"rx"}
    /\ ethin' = Append(ethin, f)
    /\ UNCHANGED <<rxhead, rxtail, isem, rdt, txVars, ethirq, ethcall, ethlast>>

NicSends ==
    /\ tdh # tdt
    /\ txring' = [txring EXCEPT ![tdh].done = TRUE]
    /\ tdh' = TxAfter(tdh, 1)
    /\ icr' = icr \cup {"tx"}
    /\ ethlast' = IF ethout # <<>> /\ txring[tdh].frame = Head(ethout) THEN ethlast ELSE "other"
    /\ ethout' = IF ethout = <<>> THEN <<>> ELSE Tail(ethout)
    /\ UNCHANGED <<txhead, txtail, osem, tdt, ethspoilt, rxVars, ethirq, ethcall>>

-----------------------------------------------------------------------------
(* The interrupt handler.                                                  *)

\* The processes that signaln takes off the queue of a semaphore.
EthReleased(sem, n) ==
    [p \in EthProc |->
        IF \E i \in DOMAIN sem.queue : i <= n /\ sem.queue[i] = p
          THEN [ethcall[p] EXCEPT !.op = IF @ = "reads" THEN "read" ELSE "write"]
          ELSE ethcall[p]]

\* Reading the register of causes clears it.
ethhandler ==
    /\ ethirq = {} /\ icr # {}
    /\ ethirq' = icr
    /\ icr' = {}
    /\ UNCHANGED <<rxVars, txVars, ethcall, ethlast>>

\* A handler that takes one interrupt for one frame, for comparison.
RxFilledOne == IF rxring[rxtail] # 0 THEN 1 ELSE 0

\* The descriptors with a status, from the tail on.
RxFilled ==
    Max({n \in 0 .. E1000_RX_RING_SIZE :
            \A j \in 0 .. n - 1 : rxring[RxAfter(rxtail, j)] # 0})

eth_rxPackets ==
    /\ "rx" \in ethirq
    /\ rxtail' = RxAfter(rxtail, RxFilled)
    /\ isem' = SignalledN(isem, RxFilled)
    /\ ethcall' = EthReleased(isem, RxFilled)
    /\ ethirq' = ethirq \ {"rx"}
    /\ UNCHANGED <<rxring, rxhead, rdh, rdt, ethin, txVars, icr, ethlast>>

\* The descriptors with the DD bit, from the head on.
TxDone ==
    Max({n \in 0 .. E1000_TX_RING_SIZE :
            \A j \in 0 .. n - 1 : txring[TxAfter(txhead, j)].done})

\* A handler that leaves the DD bit, for comparison.
TxClearedLate(i) == [txring[i] EXCEPT !.frame = 0]

TxCleared(i) == TxFree

eth_txPackets ==
    /\ ethirq = {"tx"}
    /\ txring' = [i \in TxIndex |->
          IF \E j \in 0 .. TxDone - 1 : i = TxAfter(txhead, j) THEN TxCleared(i) ELSE txring[i]]
    /\ txhead' = TxAfter(txhead, TxDone)
    /\ osem' = SignalledN(osem, TxDone)
    /\ ethcall' = EthReleased(osem, TxDone)
    /\ ethirq' = {}
    /\ UNCHANGED <<txtail, tdh, tdt, ethout, ethspoilt, rxVars, icr, ethlast>>

-----------------------------------------------------------------------------
(* read and write.                                                         *)

EthRuns == ethirq = {} /\ ~ethspoilt

\* The descriptors are given back half a ring at a time, when the first one of
\* a half is read.
GivesBack == rxhead % E1000_RING_BOUNDARY = 0

\* A descriptor without the DD bit is an error (packet error).
PickUp ==
    /\ rxring' = [rxring EXCEPT ![rxhead] = 0]
    /\ rdt' = IF GivesBack THEN RxAfter(rdt, E1000_RING_BOUNDARY) ELSE rdt
    /\ rxhead' = RxAfter(rxhead, 1)
    /\ ethin' = IF ethin = <<>> THEN <<>> ELSE Tail(ethin)
    /\ ethlast' = IF ethin # <<>> /\ rxring[rxhead] = Head(ethin) THEN ethlast ELSE "other"
    /\ UNCHANGED <<rxtail, rdh, txVars, icr, ethirq>>

ethread(p) ==
    /\ EthRuns /\ ethcall[p] = EthIdle
    /\ isem' = Waited(isem, p)
    /\ \/ /\ Blocks(isem)
          /\ ethcall' = [ethcall EXCEPT ![p] = [op |-> "reads"]]
          /\ UNCHANGED <<rxring, rxhead, rxtail, rdh, rdt, ethin, txVars, icr, ethirq, ethlast>>
       \/ /\ ~Blocks(isem)
          /\ PickUp
          /\ UNCHANGED ethcall

ethreadGoesOn(p) ==
    /\ EthRuns /\ ethcall[p].op = "read"
    /\ PickUp
    /\ ethcall' = [ethcall EXCEPT ![p] = EthIdle]
    /\ UNCHANGED isem

\* The descriptor that ethwrite fills; the wrong one, for comparison, is the
\* next to be reclaimed.
TxSlotAtHead == txhead

TxSlot == txtail

\* The frame goes to the tail of the ring, and the controller is told.
InsertFrame(f) ==
    /\ txring' = [txring EXCEPT ![TxSlot] = [frame |-> f, done |-> FALSE]]
    /\ tdt' = TxAfter(tdt, 1)
    /\ txtail' = TxAfter(txtail, 1)
    /\ ethout' = Append(ethout, f)
    /\ ethspoilt' = (tdt' = tdh)
    /\ UNCHANGED <<txhead, tdh, rxVars, icr, ethirq, ethlast>>

ethwrite(p, f) ==
    /\ EthRuns /\ ethcall[p] = EthIdle
    /\ osem' = Waited(osem, p)
    /\ \/ /\ Blocks(osem)
          /\ ethcall' = [ethcall EXCEPT ![p] = [op |-> "writes", frame |-> f]]
          /\ UNCHANGED <<txring, txhead, txtail, tdh, tdt, ethout, ethspoilt>>
          /\ UNCHANGED <<rxVars, icr, ethirq, ethlast>>
       \/ /\ ~Blocks(osem)
          /\ InsertFrame(f)
          /\ UNCHANGED ethcall

ethwriteGoesOn(p) ==
    /\ EthRuns /\ ethcall[p].op = "write"
    /\ InsertFrame(ethcall[p].frame)
    /\ ethcall' = [ethcall EXCEPT ![p] = EthIdle]
    /\ UNCHANGED osem

EthNext ==
    \/ (~ethspoilt /\ \E f \in EthFrames : NicStores(f)) \/ (~ethspoilt /\ NicSends)
    \/ ethhandler \/ eth_rxPackets \/ eth_txPackets
    \/ \E p \in EthProc :
          \/ ethread(p) \/ ethreadGoesOn(p)
          \/ (\E f \in EthFrames : ethwrite(p, f)) \/ ethwriteGoesOn(p)

EthSpec == EthInit /\ [][EthNext]_ethVars

-----------------------------------------------------------------------------
(* Properties.                                                             *)

EthTypeOK ==
    /\ rxring \in [RxIndex -> EthFrames \cup {0}]
    /\ {rxhead, rxtail, rdh, rdt} \subseteq RxIndex
    /\ txring \in [TxIndex -> [frame : EthFrames \cup {0}, done : BOOLEAN]]
    /\ {txhead, txtail, tdh, tdt} \subseteq TxIndex
    /\ SemOK(isem) /\ SemOK(osem)
    /\ icr \subseteq {"rx", "tx"} /\ ethirq \subseteq {"rx", "tx"}
    /\ \A p \in EthProc : ethcall[p].op \in {"idle", "reads", "read", "writes", "write"}

\* The receive ring holds the frames that came and nobody has read, in that
\* order, from the head on, and nothing else: the controller never writes to a
\* descriptor before it is read (ethread.c:63), and no read finds a descriptor
\* without a frame (ethread.c:43).
FramesReadInOrder ==
    /\ ethlast = "first"
    /\ Len(ethin) < E1000_RX_RING_SIZE
    /\ \A j \in 0 .. E1000_RX_RING_SIZE - 1 :
          rxring[RxAfter(rxhead, j)] = IF j < Len(ethin) THEN ethin[j + 1] ELSE 0

EthCalls(op) == Cardinality({p \in EthProc : ethcall[p].op = op})

\* The semaphores count the descriptors that the handler has told the
\* processes of and that they have not used, less those who wait
\* (ethhandler.c:34, 71), whoever is released and has not run yet.
DescriptorsCounted ==
    /\ isem.count + EthCalls("reads") + EthCalls("read") = RxAfter(rxtail, -rxhead)
    /\ osem.count + EthCalls("writes") + EthCalls("write")
         = Cardinality({i \in TxIndex : txring[i] = TxFree})

\* Whatever the controller has done and the handler has not seen is going to
\* be seen: a cause is pending, or the handler has it before it
\* (ethhandler.c:103).
NoInterruptLost ==
    /\ rxring[rxtail] # 0 /\ RxAfter(rxtail, -rxhead) < Len(ethin) => "rx" \in icr \cup ethirq
    /\ txring[txhead].done => "tx" \in icr \cup ethirq

\* The controller has the frames that were written and not sent, in that
\* order, between its two registers (ethwrite.c:66).
FramesSentInOrder ==
    ~ethspoilt =>
        /\ TxAfter(tdt, -tdh) = Len(ethout)
        /\ \A j \in 1 .. Len(ethout) :
              txring[TxAfter(tdh, j - 1)] = [frame |-> ethout[j], done |-> FALSE]

\* Driver and controller together: frames are read and sent in order, the
\* semaphores count the descriptors, and no interrupt is missed.
EthInv ==
    /\ EthTypeOK
    /\ FramesReadInOrder
    /\ DescriptorsCounted
    /\ NoInterruptLost
    /\ FramesSentInOrder

\* "Wait for a free ring slot" (ethwrite.c:38): while a frame is to be sent
\* the controller knows of one.  Not so when every place of the ring is taken.
OutputIsKnown == ethout # <<>> => tdh # tdt

=============================================================================
