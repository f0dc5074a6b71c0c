------------------------------ MODULE MCQueueTab ------------------------------
(* An instance of QueueTab for TLC: three processes, so that an entry has   *)
(* neighbours of its own kind on both sides.                                *)
EXTENDS QueueTab
=============================================================================
