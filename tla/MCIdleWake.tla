----------------------------- MODULE MCIdleWake -----------------------------
(* The idle path of one architecture against a few producers. *)
EXTENDS IdleWake
=============================================================================
