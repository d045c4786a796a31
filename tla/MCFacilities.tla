---------------------------- MODULE MCFacilities ----------------------------
(***************************************************************************)
(* The two facilities through which processes block each other: record     *)
(* locks and System V semaphores.  They share no state, so a behaviour     *)
(* uses one of them, chosen initially, and the other stays as it is.       *)
(***************************************************************************)
EXTENDS RecordLock, SysVSem

VARIABLE facility       \* the facility in use

\* A semaphore, an operation, IPC_NOWAIT and SEM_UNDO.
Op(s, o, n, u) == [sem |-> s, op |-> o, nowait |-> n, undo |-> u]

\* A lock, an unlock, a test-and-set, and a batch whose second operation may
\* fail after the first was applied.
MCBatches ==
    { << Op(0, -1, FALSE, TRUE) >>,
      << Op(0,  1, FALSE, FALSE) >>,
      << Op(1,  0, FALSE, FALSE), Op(1,  1, FALSE, TRUE) >>,
      << Op(0,  1, FALSE, FALSE), Op(1, -1, TRUE,  FALSE) >> }

FacilityInit == facility \in {"locks", "semaphores"} /\ LockInit /\ SemInit

FacilityNext ==
    \/ facility = "locks" /\ LockNext /\ UNCHANGED <<facility, semVars>>
    \/ facility = "semaphores" /\ SemNext /\ UNCHANGED <<facility, lockVars>>

FacilitySpec == FacilityInit /\ [][FacilityNext]_<<facility, lockVars, semVars>>

=============================================================================
