------------------------- MODULE MCCompletionTracker -------------------------
(* A small instance of CompletionTracker for TLC. *)
EXTENDS CompletionTracker
=============================================================================
