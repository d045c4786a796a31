-------------------------- MODULE MCSchedScenario --------------------------
(* SchedCore in one of two scenarios, chosen at the start: CPUs pull tasks   *)
(* from each other ("migrate"), or signals continue and kill stopped tasks   *)
(* ("signals").                                                              *)
EXTENDS MCSchedCore

VARIABLE scenario

\* A CPU pulls a task; a stopped task is continued or killed.
Pulls == \E c \in CPU : pc[c] = "run" /\ pc'[c] = "bal_begin"
Signals ==
    \E r \in Remote :
        rpc[r] = "idle" /\ rpc'[r] = "enter" /\ state[rtask'[r]] = "Stopped"

MCInit == Init /\ scenario \in {"migrate", "signals"}
MCNext ==
    /\ Next
    /\ UNCHANGED scenario
    /\ scenario = "migrate" => ~Signals
    /\ scenario = "signals" => ~Pulls
MCSpec == MCInit /\ [][MCNext]_<<vars, scenario>>

\* Without migration a task that was made runnable and has left its CPU is in
\* a run queue, or on its way into one (enqueue_task), whatever wake-ups,
\* stops, SIGCONTs, fatal signals and exits meet.
SignalledNotStranded == scenario = "signals" => NotStranded
=============================================================================
