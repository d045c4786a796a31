-------------------------- MODULE MCSleepMutexLive --------------------------
(***************************************************************************)
(* Progress in the sleeping mutex, for two mixes of tasks, one chosen      *)
(* initially: every task locks and unlocks and nothing else happens, or    *)
(* fewer of them do while signals and forced exits arrive.                 *)
(***************************************************************************)
EXTENDS SleepMutex

CONSTANT Bystander      \* the tasks that stay away while signals arrive

VARIABLE mix

Locking(t) == Call(t) \/ Step(t) \/ Unlock(t)

Signalling(t) ==
    SignalWakeup(t) \/ PublishForcedExit(t) \/ ForcedExitWakeup(t) \/ KickEnqueue(t)

LiveInit == mix \in {"locking", "signals"} /\ MutexInit

LiveNext ==
    \/ /\ mix = "locking" /\ \E t \in Task : Locking(t)
       /\ UNCHANGED mix
    \/ /\ mix = "signals" /\ \E t \in Task \ Bystander : Locking(t) \/ Signalling(t)
       /\ UNCHANGED mix

LiveSpec == LiveInit /\ [][LiveNext]_<<mix, mutexVars>> /\ Fairness

=============================================================================
