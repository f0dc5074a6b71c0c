---------------------------------- MODULE MCVM ----------------------------------
(***************************************************************************)
(* Instances of VM for TLC.                                                *)
(***************************************************************************)
EXTENDS VM

UserCalls == {"vcreate", "vmalloc", "vfree", "touch", "exit"}

=============================================================================
