---------------------------- MODULE MCNetWorker ----------------------------
(* NetWorker for TLC. *)
EXTENDS NetWorker
=============================================================================
