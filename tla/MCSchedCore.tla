---------------------------- MODULE MCSchedCore ----------------------------
(* Small instances of SchedCore for TLC. *)
EXTENDS SchedCore, TLC

\* Tasks that can neither exit nor stop themselves are interchangeable, so
\* are the remote contexts, and so are the CPUs that balance and those that
\* do not.
Symmetry ==
    Permutations(Task \ (Exits \cup SelfStops)) \cup Permutations(Remote)
        \cup Permutations(Balancers) \cup Permutations(CPU \ Balancers)
==============================================================================
