------------------------------ MODULE MCKernel ------------------------------
(***************************************************************************)
(* Instances of Kernel for TLC: the priorities the processes start with    *)
(* and the system calls they make.                                         *)
(***************************************************************************)
EXTENDS Kernel

SemPrios == <<2, 1, 2>>
SemOps == {"resume", "suspend", "wait", "signal", "signaln", "semcreate",
           "semdelete", "semreset"}

LifePrios == <<2, 1>>
LifeOps == {"create", "resume", "suspend", "kill", "chprio", "send", "receive",
            "recvclr", "recvtime", "sleepms", "wait", "semcreate"}

ExitPrios == <<2, 1>>
ExitOps == {"create", "resume", "suspend", "receive", "recvclr", "exit"}

FairPrios == <<1, 1, 1>>
FairOps == {"resume", "yield", "send", "recvtime", "sleepms"}

=============================================================================
