------------------------- MODULE MCScheduledMessages -------------------------
(* Small instances of ScheduledMessages for TLC: two processes that share    *)
(* two messages.  No symmetry, because the run checks liveness.              *)
EXTENDS ScheduledMessages
=============================================================================
