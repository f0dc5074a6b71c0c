----------------------------- MODULE MCServices -----------------------------
(***************************************************************************)
(* Instances for TLC of the services that sit directly on the kernel.      *)
(* They share no state, so one of them moves in each behaviour: the one    *)
(* that part names.  The input and the output side of the terminal are     *)
(* explored one at a time.                                                 *)
(***************************************************************************)
EXTENDS Ports, Memory, BufPool, Marks, Tty

TtyKeys == {"a", "\n", "^H", "^U", "^S", "^Q", "^D"}
Stored == {"a", "\n", "^D"}

VARIABLE part

vars == <<part, ptVars, memVars, bpVars, mkVars, tyVars>>

CONSTANT Parts

Init ==
    /\ part \in Parts
    /\ PtInit /\ MemInit /\ BpInit /\ MkInit /\ TtyInit

\* Only one of the two ports is cleared as often as MaxPtSeq allows.
PortsMove ==
    /\ part = "ports" /\ PtNext
    /\ \E t \in Port : ptseq'[t] < MaxPtSeq
    /\ UNCHANGED <<part, memVars, bpVars, mkVars, tyVars>>

MemoryMoves ==
    /\ part = "memory" /\ MemNext
    /\ UNCHANGED <<part, ptVars, bpVars, mkVars, tyVars>>

BufPoolMoves ==
    /\ part = "bufpool" /\ BpNext
    /\ UNCHANGED <<part, ptVars, memVars, mkVars, tyVars>>

MarksMove ==
    /\ part = "marks" /\ MkNext
    /\ UNCHANGED <<part, ptVars, memVars, bpVars, tyVars>>

\* Keys, modes and readers; of the keys that edit nothing only three go into
\* the buffer.
TtyReads ==
    /\ part = "ttyin" /\ TtyNext
    /\ \A i \in DOMAIN tyibuff : tyibuff'[i] \in Stored
    /\ \A p \in TyWriter : tycall'[p] = TyIdle
    /\ UNCHANGED <<tyoutVars, tyoheld, tyiecho, tythre>>
    /\ UNCHANGED <<part, ptVars, memVars, bpVars, mkVars>>

\* Writers, echo and flow control.
TtyWrites ==
    /\ part = "ttyout" /\ TtyNext
    /\ \A p \in TyReader : tycall'[p] = TyIdle
    /\ UNCHANGED <<tyimode, tyihead, tyisem>>
    /\ UNCHANGED <<part, ptVars, memVars, bpVars, mkVars>>

Next ==
    \/ PortsMove \/ MemoryMoves \/ BufPoolMoves \/ MarksMove
    \/ TtyReads \/ TtyWrites

\* PtFairness, BpFairness and TtyFairness, each for the behaviours
\* in which its module moves.
Spec ==
    /\ Init
    /\ [][Next]_vars
    /\ \A p \in PtProc : WF_ptVars(part = "ports" /\ PtGoOn(p))
    /\ \A p \in BpProc : WF_bpVars(part = "bufpool" /\ getbufGoesOn(p))
    /\ \A i \in BpId : SF_bpVars(part = "bufpool" /\ freebufTo(i))
    /\ SF_tyVars(part = "ttyout" /\ ttyhandle_out)
    /\ \A p \in TyWriter : WF_tyVars(part = "ttyout" /\ TyGoOn(p))

\* Calls that wait go on in the end: those of a port that is cleared under them,
\* getbuf when buffers come back, and a writer while the terminal transmits.
CallsReturn ==
    /\ ClearedCallsReturn
    /\ GetbufReturns
    /\ OutputGoesOn

\* Every step is one that an allocator of bytes and a line editor with a queue
\* may take: getmem gives the first bytes that fit and getstk the last, and a key
\* changes the line as it should and nothing else.
StepsAsSpecified ==
    /\ HandedOutWasFree
    /\ LineEdited

-----------------------------------------------------------------------------
(* The invariants of the modules, each looked at in the behaviours in      *)
(* which its module moves; in the others it is as it was at the start.     *)
(* MkInv is in Marks, BpInv in BufPool, PtInv in Ports, TtyInv in Tty,     *)
(* MemInv in Memory.                                                       *)

=============================================================================
