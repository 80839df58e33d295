-------------------------- MODULE MCSinglePCQueue --------------------------
(* Small instances of the single producer, single consumer queue for TLC.  *)
EXTENDS SinglePCQueue, TLC

CONSTANTS v1, v2
=============================================================================
