---------------------------- MODULE MCSleepLocks ----------------------------
(***************************************************************************)
(* The two locks that put their waiters to sleep one by one: the sleeping  *)
(* mutex of the kernel and the priority-inheritance futex of user code.    *)
(* They share no state, so a behaviour uses one of them, chosen initially. *)
(***************************************************************************)
EXTENDS SleepMutex, PiFutex, TLC

VARIABLE lock           \* the lock in use

\* The tasks that only lock and unlock the mutex are interchangeable.
Symmetry == Permutations(Task \ (Signalled \cup Exiting))

\* The urgent task uses the first word only, so that a chain of two words
\* exists between the other two.
MCPiUsers == [w \in PiWord |-> IF w = 10 THEN PiTask ELSE PiTask \ Urgent]

SleepLocksInit == lock \in {"mutex", "futex"} /\ MutexInit /\ PiInit

SleepLocksNext ==
    \/ lock = "mutex" /\ MutexNext /\ UNCHANGED <<lock, piVars>>
    \/ lock = "futex" /\ PiNext /\ UNCHANGED <<lock, mutexVars>>

SleepLocksSpec == SleepLocksInit /\ [][SleepLocksNext]_<<lock, mutexVars, piVars>>

=============================================================================
