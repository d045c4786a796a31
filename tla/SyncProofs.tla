----------------------------- MODULE SyncProofs -----------------------------
(***************************************************************************)
(* Two of the kernel's synchronisation structures, which share no state:   *)
(* the sleeping mutex and the bounded ring of the network workers.         *)
(*                                                                         *)
(* The sleeping mutex for any set of tasks: mutual exclusion, and the      *)
(* sleep protocol it uses.  For mutual exclusion the invariant ties the    *)
(* guard holders to the lock word: a holder implies locked, so the         *)
(* compare-and-swap that admits a task, at either place, finds no holder.  *)
(* SleepInv says what the sleep of a task is committed by, WaitQueueInv    *)
(* what the entries of the wait queue stand for, and Progress that while a *)
(* task sleeps somebody is bound to look at the lock word, or for a        *)
(* sleeper, again.                                                         *)
(*                                                                         *)
(* BoundedMpsc is safe for every capacity of at least two slots, every     *)
(* number of producers and every length of run: no two accesses to a       *)
(* slot's value meet, a push is refused only when the ring is full, and    *)
(* the ring implements the bounded queue of MpscQueue.                     *)
(*                                                                         *)
(* The argument is a window.  The Capacity positions from Released on name *)
(* every slot exactly once (IndexApart), and the sequence number of a slot *)
(* says in which of three states its position is: free, reserved or filled *)
(* (Window).  A producer that saw its slot free holds a position inside    *)
(* the window until its compare-and-swap (CasInWindow), because the window *)
(* only moves up.                                                          *)
(*                                                                         *)
(* The queue is the window read from Released to enqueue (Contents).  A    *)
(* reserved position has exactly one writer (Owned, with ReservedApart),   *)
(* so each entry is determined by one slot and one producer, and every     *)
(* step but four leaves all entries alone (SameContents).                  *)
(***************************************************************************)
EXTENDS NetRing, SleepMutex, ListProofs

-----------------------------------------------------------------------------
(* The sleeping mutex *)

\* The inductive strengthening of MutualExclusion.
LockInv ==
    /\ mpc \in [Task -> PC]
    /\ locked \in BOOLEAN
    /\ Holders # {} => locked
    /\ MutualExclusion

\* Mutex::new starts unlocked with no guard.
LEMMA LockInvInit == MutexInit => LockInv
<1> SUFFICES ASSUME MutexInit PROVE LockInv
  BY Zenon
<1>1. mpc \in [Task -> PC] /\ locked \in BOOLEAN
  BY Zenon DEF MutexInit, PC
<1>2. Holders = {}
  BY Zenon DEF MutexInit, Holders
<1> QED
  BY <1>1, <1>2, Zenon DEF LockInv, MutualExclusion

\* The places in lock() and drop() at which a task holds no guard.
Outside == PC \ {"held_finish", "held_finish2", "held"}

\* A step that leaves the lock word alone, and brings its task to a place
\* without a guard or no task anywhere, gives nobody a guard.
LEMMA OutsideStep ==
  ASSUME LockInv, UNCHANGED locked,
         \/ UNCHANGED mpc
         \/ \E t \in Task, l \in Outside : mpc' = [mpc EXCEPT ![t] = l]
  PROVE  LockInv'
<1>1. mpc' \in [Task -> PC] /\ Holders' \subseteq Holders
  BY Zenon DEF LockInv, Holders, Outside
<1> QED
  BY <1>1, Zenon DEF LockInv, MutualExclusion

\* Every step of lock(), drop(), the wake-up path and the signal and
\* forced-exit paths keeps the lock word and the guard holders in step.
LEMMA LockInvStep == LockInv /\ [MutexNext]_mutexVars => LockInv'
<1> USE DEF At, Goto
<1> SUFFICES ASSUME LockInv, [MutexNext]_mutexVars PROVE LockInv'
  BY Zenon
<1>1. CASE UNCHANGED mutexVars
  BY <1>1, OutsideStep, Zenon DEF mutexVars
<1>2. ASSUME NEW t \in Task, FastPath(t) PROVE LockInv'
  BY <1>2, Zenon DEF LockInv, Holders, MutualExclusion, PC, FastPath
<1>3. ASSUME NEW t \in Task, DoubleCheck(t) PROVE LockInv'
  BY <1>3, Zenon DEF LockInv, Holders, MutualExclusion, PC, DoubleCheck
<1>4. ASSUME NEW t \in Task, Unlock(t) PROVE LockInv'
  <2>1. t \in Holders /\ Holders' = Holders \ {t} /\ mpc' \in [Task -> PC]
    BY <1>4, Zenon DEF LockInv, Holders, MutualExclusion, PC, Unlock
  <2>2. Holders' = {}
    BY <2>1, Zenon DEF LockInv, MutualExclusion
  <2> QED
    BY <1>4, <2>1, <2>2, Zenon DEF LockInv, MutualExclusion, Unlock
<1>5. ASSUME NEW t \in Task, FinishWait(t) PROVE LockInv'
  BY <1>5 DEF LockInv, Holders, MutualExclusion, PC, FinishWait
<1>6. ASSUME NEW t \in Task, TransitionFromWait(t) PROVE LockInv'
  BY <1>6 DEF LockInv, Holders, MutualExclusion, PC, TransitionFromWait
<1>7. ASSUME NEW t \in Task, Call(t) PROVE LockInv'
  <2>1. /\ UNCHANGED locked
        /\ mpc' = [mpc EXCEPT ![t] = "lock"]
    BY <1>7, Zenon DEF Call
  <2>2. {"lock"} \subseteq Outside
    BY Zenon DEF Outside, PC
  <2> QED
    BY <2>1, <2>2, OutsideStep, Zenon
<1>8. ASSUME NEW t \in Task, PrepareToWait(t) PROVE LockInv'
  <2>1. /\ UNCHANGED locked
        /\ mpc' = [mpc EXCEPT ![t] = "load"]
    BY <1>8, Zenon DEF PrepareToWait
  <2>2. {"load"} \subseteq Outside
    BY Zenon DEF Outside, PC
  <2> QED
    BY <2>1, <2>2, OutsideStep, Zenon
<1>9. ASSUME NEW t \in Task, LoadWaitState(t) PROVE LockInv'
  <2>1. /\ UNCHANGED locked
        /\ \/ mpc' = [mpc EXCEPT ![t] = "commit"]
           \/ mpc' = [mpc EXCEPT ![t] = "relock"]
    BY <1>9, Zenon DEF LoadWaitState
  <2>2. {"commit", "relock"} \subseteq Outside
    BY Zenon DEF Outside, PC
  <2> QED
    BY <2>1, <2>2, OutsideStep, Zenon
<1>10. ASSUME NEW t \in Task, CommitWait(t) PROVE LockInv'
  <2>1. /\ UNCHANGED locked
        /\ \/ mpc' = [mpc EXCEPT ![t] = "recheck"]
           \/ mpc' = [mpc EXCEPT ![t] = "load"]
    BY <1>10, Zenon DEF CommitWait
  <2>2. {"recheck", "load"} \subseteq Outside
    BY Zenon DEF Outside, PC
  <2> QED
    BY <2>1, <2>2, OutsideStep, Zenon
<1>11. ASSUME NEW t \in Task, RecheckWait(t) PROVE LockInv'
  <2>1. /\ UNCHANGED locked
        /\ mpc' = [mpc EXCEPT ![t] = "relock"]
    BY <1>11, Zenon DEF RecheckWait
  <2>2. {"relock"} \subseteq Outside
    BY Zenon DEF Outside, PC
  <2> QED
    BY <2>1, <2>2, OutsideStep, Zenon
<1>12. ASSUME NEW t \in Task, AbortGroupExitSleep(t) PROVE LockInv'
  <2>1. /\ UNCHANGED locked
        /\ mpc' = [mpc EXCEPT ![t] = "pick"]
    BY <1>12, Zenon DEF AbortGroupExitSleep
  <2>2. {"pick"} \subseteq Outside
    BY Zenon DEF Outside, PC
  <2> QED
    BY <2>1, <2>2, OutsideStep, Zenon
<1>13. ASSUME NEW t \in Task, SwitchOut(t) PROVE LockInv'
  <2>1. /\ UNCHANGED locked
        /\ mpc' = [mpc EXCEPT ![t] = "finish"]
    BY <1>13, Zenon DEF SwitchOut
  <2>2. {"finish"} \subseteq Outside
    BY Zenon DEF Outside, PC
  <2> QED
    BY <2>1, <2>2, OutsideStep, Zenon
<1>14. ASSUME NEW t \in Task, WakeOne(t) PROVE LockInv'
  <2>1. /\ UNCHANGED locked
        /\ \/ mpc' = [mpc EXCEPT ![t] = "idle"]
           \/ mpc' = [mpc EXCEPT ![t] = "wake_cas"]
    BY <1>14, Zenon DEF WakeOne
  <2>2. {"idle", "wake_cas"} \subseteq Outside
    BY Zenon DEF Outside, PC
  <2> QED
    BY <2>1, <2>2, OutsideStep, Zenon
<1>15. ASSUME NEW t \in Task, WakeTransition(t) PROVE LockInv'
  <2>1. /\ UNCHANGED locked
        /\ mpc' = [mpc EXCEPT ![t] = "wake_check"]
    BY <1>15, Zenon DEF WakeTransition
  <2>2. {"wake_check"} \subseteq Outside
    BY Zenon DEF Outside, PC
  <2> QED
    BY <2>1, <2>2, OutsideStep, Zenon
<1>16. ASSUME NEW t \in Task, DefaultWake(t) PROVE LockInv'
  <2>1. /\ UNCHANGED locked
        /\ \/ mpc' = [mpc EXCEPT ![t] = "wake_enq"]
           \/ mpc' = [mpc EXCEPT ![t] = "idle"]
    BY <1>16, Zenon DEF DefaultWake
  <2>2. {"wake_enq", "idle"} \subseteq Outside
    BY Zenon DEF Outside, PC
  <2> QED
    BY <2>1, <2>2, OutsideStep, Zenon
<1>17. ASSUME NEW t \in Task, WakeEnqueue(t) PROVE LockInv'
  <2>1. /\ UNCHANGED locked
        /\ mpc' = [mpc EXCEPT ![t] = "idle"]
    BY <1>17, Zenon DEF WakeEnqueue
  <2>2. {"idle"} \subseteq Outside
    BY Zenon DEF Outside, PC
  <2> QED
    BY <2>1, <2>2, OutsideStep, Zenon
<1>18. ASSUME NEW t \in Task, Dispatch(t) PROVE LockInv'
  BY <1>18, OutsideStep, Zenon DEF Dispatch
<1>19. ASSUME NEW t \in Task, SignalWakeup(t) PROVE LockInv'
  BY <1>19, OutsideStep, Zenon DEF SignalWakeup
<1>20. ASSUME NEW t \in Task, PublishForcedExit(t) PROVE LockInv'
  BY <1>20, OutsideStep, Zenon DEF PublishForcedExit
<1>21. ASSUME NEW t \in Task, ForcedExitWakeup(t) PROVE LockInv'
  BY <1>21, OutsideStep, Zenon DEF ForcedExitWakeup
<1>22. ASSUME NEW t \in Task, KickEnqueue(t) PROVE LockInv'
  BY <1>22, OutsideStep, Zenon DEF KickEnqueue
<1> QED
  BY <1>1, <1>2, <1>3, <1>4, <1>5, <1>6, <1>7, <1>8, <1>9, <1>10, <1>11,
      <1>12, <1>13, <1>14, <1>15, <1>16, <1>17, <1>18, <1>19, <1>20, <1>21,
      <1>22, Zenon
      DEF MutexNext, Step

\* At most one task holds a MutexGuard, for any number of tasks, whatever
\* signals and forced exits arrive.
THEOREM MutexSafety == MutexSpec => []MutualExclusion
<1>1. LockInv => MutualExclusion
  BY Zenon DEF LockInv
<1> QED
  BY <1>1, LockInvInit, LockInvStep, PTL DEF MutexSpec

-----------------------------------------------------------------------------
(* Sleep and wake-up: RunnableIsReachable and ForcedExitNeverSleeps.        *)

\* The fields of the tasks have their types; what a waker has picked comes out
\* of the wait queue, and nothing here depends on it being a task.
FieldTypes ==
    /\ mpc \in [Task -> PC]
    /\ state \in [Task -> TaskState]
    /\ place \in [Task -> {"on", "queued", "off"}]
    /\ forced \in [Task -> BOOLEAN]
    /\ seen \in [Task -> {"Running", "Runnable"}]
    /\ kick \in [Task -> {"none", "cas", "enqueue"}]
    /\ DOMAIN picked = Task /\ picked = [t \in Task |-> picked[t]]

\* A queued task does not sleep, and the one place at which a task whose
\* forced exit has been delivered may still be Sleeping is between the two
\* halves of cas_state.
SleepCommit ==
    \A t \in Task :
        /\ place[t] = "queued" => state[t] # "Sleeping"
        /\ forced[t] /\ kick[t] = "none" /\ state[t] = "Sleeping" =>
               place[t] = "on" /\ mpc[t] = "recheck"

SleepInv == FieldTypes /\ SleepCommit /\ RunnableIsReachable

\* Tasks start in user code, running, with no forced exit under way.
LEMMA SleepInvInit == MutexInit => SleepInv
  BY DEF MutexInit, SleepInv, FieldTypes, SleepCommit, RunnableIsReachable, PC, TaskState

\* The two halves of cas_state, schedule_once, the wake-ups and the forced
\* exit keep the invariant, in any interleaving.
LEMMA SleepInvStep == SleepInv /\ [MutexNext]_mutexVars => SleepInv'
<1> USE DEF At, Goto, PC, TaskState
<1> SUFFICES ASSUME SleepInv, [MutexNext]_mutexVars PROVE SleepInv'
  BY Zenon
<1>1. CASE UNCHANGED mutexVars
  BY <1>1 DEF mutexVars, SleepInv, FieldTypes, SleepCommit, RunnableIsReachable
<1>2. ASSUME NEW t \in Task, FastPath(t) PROVE SleepInv'
  BY <1>2 DEF FastPath, SleepInv, FieldTypes, SleepCommit, RunnableIsReachable
<1>3. ASSUME NEW t \in Task, PrepareToWait(t) PROVE SleepInv'
  BY <1>3 DEF PrepareToWait, SleepInv, FieldTypes, SleepCommit, RunnableIsReachable
<1>4. ASSUME NEW t \in Task, LoadWaitState(t) PROVE SleepInv'
  BY <1>4 DEF LoadWaitState, SleepInv, FieldTypes, SleepCommit, RunnableIsReachable
<1>5. ASSUME NEW t \in Task, CommitWait(t) PROVE SleepInv'
  BY <1>5 DEF CommitWait, SleepInv, FieldTypes, SleepCommit, RunnableIsReachable
<1>6. ASSUME NEW t \in Task, RecheckWait(t) PROVE SleepInv'
  BY <1>6 DEF RecheckWait, SleepInv, FieldTypes, SleepCommit, RunnableIsReachable
<1>7. ASSUME NEW t \in Task, DoubleCheck(t) PROVE SleepInv'
  BY <1>7 DEF DoubleCheck, SleepInv, FieldTypes, SleepCommit, RunnableIsReachable
<1>8. ASSUME NEW t \in Task, AbortGroupExitSleep(t) PROVE SleepInv'
  BY <1>8 DEF AbortGroupExitSleep, SleepInv, FieldTypes, SleepCommit, RunnableIsReachable
<1>9. ASSUME NEW t \in Task, SwitchOut(t) PROVE SleepInv'
  BY <1>9 DEF SwitchOut, SleepInv, FieldTypes, SleepCommit, RunnableIsReachable
<1>10. ASSUME NEW t \in Task, Dispatch(t) PROVE SleepInv'
  BY <1>10 DEF Dispatch, SleepInv, FieldTypes, SleepCommit, RunnableIsReachable
<1>11. ASSUME NEW t \in Task, FinishWait(t) PROVE SleepInv'
  BY <1>11 DEF FinishWait, SleepInv, FieldTypes, SleepCommit, RunnableIsReachable
<1>12. ASSUME NEW t \in Task, TransitionFromWait(t) PROVE SleepInv'
  BY <1>12 DEF TransitionFromWait, SleepInv, FieldTypes, SleepCommit, RunnableIsReachable
<1>13. ASSUME NEW t \in Task, WakeOne(t) PROVE SleepInv'
  <2>1. /\ mpc[t] = "wake" /\ UNCHANGED <<state, place, forced, seen, kick>>
        /\ \/ mpc' = [mpc EXCEPT ![t] = "idle"] /\ UNCHANGED picked
           \/ /\ mpc' = [mpc EXCEPT ![t] = "wake_cas"]
              /\ \E u : picked' = [picked EXCEPT ![t] = u]
    BY <1>13, Zenon DEF WakeOne
  <2>2. FieldTypes'
    BY <2>1 DEF SleepInv, FieldTypes
  <2>3. SleepCommit'
    BY <2>1 DEF SleepInv, FieldTypes, SleepCommit
  <2>4. RunnableIsReachable'
    BY <2>1 DEF SleepInv, FieldTypes, RunnableIsReachable
  <2> QED BY <2>2, <2>3, <2>4, Zenon DEF SleepInv
<1>14. ASSUME NEW t \in Task, WakeTransition(t) PROVE SleepInv'
  <2>1. FieldTypes'
    BY <1>14, Zenon DEF WakeTransition, SleepInv, FieldTypes
  <2>2. SleepCommit'
    BY <1>14 DEF WakeTransition, SleepInv, FieldTypes, SleepCommit
  <2>3. RunnableIsReachable'
    BY <1>14 DEF WakeTransition, SleepInv, FieldTypes, RunnableIsReachable
  <2> QED BY <2>1, <2>2, <2>3, Zenon DEF SleepInv
<1>15. ASSUME NEW t \in Task, DefaultWake(t) PROVE SleepInv'
  BY <1>15 DEF DefaultWake, SleepInv, FieldTypes, SleepCommit, RunnableIsReachable
<1>16. ASSUME NEW t \in Task, WakeEnqueue(t) PROVE SleepInv'
  <2>1. FieldTypes'
    BY <1>16, Zenon DEF WakeEnqueue, Enqueue, SleepInv, FieldTypes
  <2>2. SleepCommit'
    BY <1>16 DEF WakeEnqueue, Enqueue, SleepInv, FieldTypes, SleepCommit
  <2>3. RunnableIsReachable'
    <3> SUFFICES ASSUME NEW v \in Task, place'[v] = "off", state'[v] = "Runnable"
                 PROVE  \/ kick'[v] = "enqueue"
                        \/ \E u \in Task : /\ picked'[u] = v
                                           /\ mpc'[u] \in {"wake_check", "wake_enq"}
      BY Zenon DEF RunnableIsReachable
    <3>1. v # picked[t]
      BY <1>16, Zenon DEF WakeEnqueue, Enqueue, SleepInv, FieldTypes
    <3>2. place[v] = "off" /\ state[v] = "Runnable" /\ kick'[v] = kick[v]
      BY <1>16, <3>1, Zenon DEF WakeEnqueue, Enqueue, SleepInv, FieldTypes
    <3>3. \A u \in Task : picked[u] = v => picked'[u] = v /\ mpc'[u] = mpc[u]
      BY <1>16, <3>1, Zenon DEF WakeEnqueue, SleepInv, FieldTypes
    <3> QED BY <3>2, <3>3, Zenon DEF SleepInv, RunnableIsReachable
  <2> QED BY <2>1, <2>2, <2>3, Zenon DEF SleepInv
<1>17. ASSUME NEW t \in Task, Call(t) PROVE SleepInv'
  BY <1>17 DEF Call, SleepInv, FieldTypes, SleepCommit, RunnableIsReachable
<1>18. ASSUME NEW t \in Task, Unlock(t) PROVE SleepInv'
  BY <1>18 DEF Unlock, SleepInv, FieldTypes, SleepCommit, RunnableIsReachable
<1>19. ASSUME NEW t \in Task, SignalWakeup(t) PROVE SleepInv'
  BY <1>19 DEF SignalWakeup, SleepInv, FieldTypes, SleepCommit, RunnableIsReachable
<1>20. ASSUME NEW t \in Task, PublishForcedExit(t) PROVE SleepInv'
  BY <1>20 DEF PublishForcedExit, SleepInv, FieldTypes, SleepCommit, RunnableIsReachable
<1>21. ASSUME NEW t \in Task, ForcedExitWakeup(t) PROVE SleepInv'
  BY <1>21 DEF ForcedExitWakeup, SleepInv, FieldTypes, SleepCommit, RunnableIsReachable
<1>22. ASSUME NEW t \in Task, KickEnqueue(t) PROVE SleepInv'
  <2>1. FieldTypes'
    BY <1>22, Zenon DEF KickEnqueue, Enqueue, SleepInv, FieldTypes
  <2>2. SleepCommit'
    BY <1>22 DEF KickEnqueue, Enqueue, SleepInv, FieldTypes, SleepCommit
  <2>3. RunnableIsReachable'
    BY <1>22 DEF KickEnqueue, Enqueue, SleepInv, FieldTypes, RunnableIsReachable
  <2> QED BY <2>1, <2>2, <2>3, Zenon DEF SleepInv
<1> QED
  BY <1>1, <1>2, <1>3, <1>4, <1>5, <1>6, <1>7, <1>8, <1>9, <1>10, <1>11,
      <1>12, <1>13, <1>14, <1>15, <1>16, <1>17, <1>18, <1>19, <1>20, <1>21,
      <1>22, Zenon
      DEF MutexNext, Step

\* A task that was made Runnable and has left its CPU is in a run queue, or in
\* the hands of a waker or a forced exit about to enqueue it: the race between
\* transition_to_runnable, schedule_once and enqueue_task strands nobody, for
\* any number of tasks.
THEOREM RunnableReached == MutexSpec => []RunnableIsReachable
<1>1. SleepInv => RunnableIsReachable
  BY Zenon DEF SleepInv
<1> QED
  BY <1>1, SleepInvInit, SleepInvStep, PTL DEF MutexSpec

\* A task whose forced exit has been published and delivered never leaves its
\* CPU asleep: the second look of cas_state and the last one of schedule_once
\* cover every point at which group_exit_wakeup may come in.
THEOREM ForcedExitWakes == MutexSpec => []ForcedExitNeverSleeps
<1>1. SleepInv => ForcedExitNeverSleeps
  BY Zenon DEF SleepInv, SleepCommit, ForcedExitNeverSleeps
<1> QED
  BY <1>1, SleepInvInit, SleepInvStep, PTL DEF MutexSpec

-----------------------------------------------------------------------------
(* The wait queue: no wake-up is lost.                                      *)

\* The places of lock() between prepare_to_wait and finish_wait, and those of
\* them at which the task may have committed its sleep.
InWait == {"load", "commit", "recheck", "relock", "schedule", "pick", "finish", "held_finish"}
Commits == {"recheck", "relock", "schedule", "pick", "finish"}
Waking == {"wake", "wake_cas", "wake_check", "wake_enq"}

\* A task whose second look at the lock word is behind it and that nobody has
\* woken yet.
Asleep(t) == state[t] = "Sleeping" /\ (mpc[t] \in {"schedule", "pick"} \/ place[t] = "off")

\* The wait queue and the tasks' fields have their types.
QueueTypes ==
    /\ waiters \in Seq(Task)
    /\ entry \in [Task -> {"waiting", "woken", "finished"}]
    /\ qlock \in Task \cup {NoTask}
    /\ picked \in [Task -> Task \cup {NoTask}]

\* An entry that waits is in the queue; prepare_to_wait holds the queue lock
\* until the sleep is committed; a committed sleeper's entry waits, or the one
\* who took it from the queue is about to wake the task.
QueueTask(t) ==
    /\ entry[t] = "waiting" => t \in Range(waiters) /\ mpc[t] \in InWait
    /\ mpc[t] \in {"load", "commit", "recheck"} => qlock = t /\ entry[t] = "waiting"
    /\ state[t] = "Sleeping" /\ mpc[t] \in Commits =>
           entry[t] = "waiting" \/ \E u \in Task : mpc[u] = "wake_cas" /\ picked[u] = t
    /\ place[t] # "on" => mpc[t] = "finish"
    /\ place[t] = "off" => state[t] # "Running"

\* While a task is asleep the lock is held, or a task is about to look for a
\* sleeper, or one is on its way through lock() and will look at the lock
\* word again, or a sleeper is about to be woken.
Progress ==
    (\E t \in Task : Asleep(t)) =>
        \/ locked
        \/ \E u \in Task : mpc[u] = "wake"
        \/ \E u \in Task : mpc[u] \notin Waking \cup {"idle"} /\ ~Asleep(u)
        \/ \E u, p \in Task : mpc[u] = "wake_cas" /\ picked[u] = p /\ Asleep(p)

WaitQueueInv == QueueTypes /\ \A t \in Task : QueueTask(t)

\* Runqueue::enqueue changes one task.
LEMMA EnqueueEffect ==
    ASSUME FieldTypes, NEW p, Enqueue(p), NEW v \in Task
    PROVE  /\ place'[v] = IF v = p /\ place[v] = "off" THEN "queued" ELSE place[v]
           /\ v # p => state'[v] = state[v]
           /\ v = p => state'[v] = CASE place[v] = "on" -> "Running"
                                     [] place[v] = "off" -> "Runnable"
                                     [] OTHER -> state[v]
  BY Zenon DEF FieldTypes, Enqueue

\* The entries wake_one leaves in the queue: those behind the one it stops at
\* and, at the back, those of tasks that are awake.
Rotated(s, n, S) == SubSeq(s, n + 1, Len(s)) \o Keep(SubSeq(s, 1, n), S)

\* What wake_one keeps of the queue: all entries behind the one it stops at, and
\* those before it whose tasks are awake.
LEMMA RotateElements ==
    ASSUME NEW T, NEW s \in Seq(T), NEW n \in 0 .. Len(s), NEW S,
           NEW r, r = Rotated(s, n, S)
    PROVE  /\ r \in Seq(T)
           /\ \A i \in 1 .. Len(s) : i > n \/ s[i] \in S => s[i] \in Range(r)
<1> DEFINE a == SubSeq(s, n + 1, Len(s))
           b == SubSeq(s, 1, n)
           k == Keep(b, S)
<1>1. /\ a \in Seq(T) /\ Len(a) = Len(s) - n /\ \A i \in 1 .. Len(a) : a[i] = s[n + i]
      /\ b \in Seq(T) /\ Len(b) = n /\ \A i \in 1 .. n : b[i] = s[i]
      /\ Len(s) \in Nat /\ n \in Nat
  OBVIOUS
<1> HIDE DEF a, b
<1>2. k \in Seq(T) /\ Range(k) = Range(b) \cap S
  BY <1>1, KeepFacts, Zenon
<1> HIDE DEF k
<1>3. r = a \o k
  BY Zenon DEF Rotated, a, b, k
<1>4. r \in Seq(T) /\ \A x : x \in Range(r) <=> x \in Range(a) \/ x \in Range(k)
  BY <1>1, <1>2, <1>3, ConcatFacts, Zenon
<1>5. ASSUME NEW i \in 1 .. Len(s), i > n PROVE s[i] \in Range(r)
  <2>1. i - n \in DOMAIN a /\ a[i - n] = s[i]
    BY <1>1, <1>5, SMTT(30)
  <2> QED BY <1>4, <2>1, Zenon DEF Range
<1>6. ASSUME NEW i \in 1 .. Len(s), s[i] \in S, ~(i > n) PROVE s[i] \in Range(r)
  <2>1. i \in DOMAIN b /\ b[i] = s[i]
    BY <1>1, <1>6
  <2>2. s[i] \in Range(b)
    BY <2>1, Zenon DEF Range
  <2> QED BY <1>2, <1>4, <1>6, <2>2, Zenon
<1> QED BY <1>4, <1>5, <1>6, Zenon

\* wake_one: nobody is found (h = NoTask), or h is taken; every entry that
\* still waits stays in the queue.
WakeEffect(t, r, h) ==
    /\ mpc[t] = "wake" /\ place[t] = "on" /\ qlock = NoTask
    /\ waiters' = r /\ r \in Seq(Task)
    /\ UNCHANGED <<locked, qlock, state, place>>
    /\ \A v \in Task \ {h} : entry[v] = "waiting" => v \in Range(r)
    /\ \/ /\ h = NoTask /\ UNCHANGED <<entry, picked>> /\ mpc' = [mpc EXCEPT ![t] = "idle"]
          /\ \A v \in Task : ~(entry[v] = "waiting" /\ state[v] = "Sleeping")
       \/ /\ h \in Task /\ entry[h] = "waiting" /\ state[h] = "Sleeping"
          /\ entry' = [entry EXCEPT ![h] = "woken"]
          /\ picked' = [picked EXCEPT ![t] = h]
          /\ mpc' = [mpc EXCEPT ![t] = "wake_cas"]

\* wake_one is such a step, whatever it finds.
LEMMA WakeOneEffect ==
    ASSUME WaitQueueInv, NEW t \in Task, WakeOne(t) PROVE \E r, h : WakeEffect(t, r, h)
<1> DEFINE asleep == {u \in Task : state[u] = "Sleeping"}
           hits == {u \in asleep : entry[u] = "waiting"} \cap Range(waiters)
           n == IF hits = {} THEN Len(waiters) ELSE FirstIn(waiters, hits)
           r == SubSeq(waiters, n + 1, Len(waiters)) \o Keep(SubSeq(waiters, 1, n), Task \ asleep)
<1>1. /\ mpc[t] = "wake" /\ place[t] = "on" /\ qlock = NoTask /\ waiters' = r
      /\ UNCHANGED <<locked, qlock, state, place>>
      /\ hits = {} => UNCHANGED <<entry, picked>> /\ mpc' = [mpc EXCEPT ![t] = "idle"]
      /\ hits # {} => /\ entry' = [entry EXCEPT ![waiters[n]] = "woken"]
                      /\ picked' = [picked EXCEPT ![t] = waiters[n]]
                      /\ mpc' = [mpc EXCEPT ![t] = "wake_cas"]
  BY Zenon DEF WakeOne, At, Goto
<1>2. waiters \in Seq(Task) /\ Len(waiters) \in Nat /\ DOMAIN waiters = 1 .. Len(waiters)
  BY DEF WaitQueueInv, QueueTypes
<1>3. \A v \in Task : entry[v] = "waiting" => \E i \in 1 .. Len(waiters) : waiters[i] = v
  BY <1>2, Zenon DEF WaitQueueInv, QueueTask, Range
<1>4. hits # {} => /\ n \in 1 .. Len(waiters) /\ waiters[n] \in hits
                   /\ \A j \in 1 .. Len(waiters) : waiters[j] \in hits => n <= j
  <2> SUFFICES ASSUME hits # {} PROVE /\ n \in 1 .. Len(waiters) /\ waiters[n] \in hits
                   /\ \A j \in 1 .. Len(waiters) : waiters[j] \in hits => n <= j
    BY Zenon
  <2>1. n = FirstIn(waiters, hits)
    BY Zenon
  <2>2. \E i \in 1 .. Len(waiters) : waiters[i] \in hits
    BY <1>2, Zenon DEF Range
  <2> HIDE DEF hits, n
  <2> QED BY <1>2, <2>1, <2>2, FirstInFacts, Zenon
<1>5. n \in 0 .. Len(waiters)
  <2>1. CASE hits = {}
    BY <1>2, <2>1
  <2>2. CASE hits # {}
    <3> HIDE DEF n, hits
    <3> QED BY <1>2, <1>4, <2>2
  <2> QED BY <2>1, <2>2, Zenon
<1> HIDE DEF n
<1>6. /\ r \in Seq(Task)
      /\ \A i \in 1 .. Len(waiters) : i > n \/ waiters[i] \in Task \ asleep => waiters[i] \in Range(r)
  <2>1. PICK q, k, S, s : q = r /\ k = n /\ S = Task \ asleep /\ s = waiters
    BY Zenon
  <2>2. q = Rotated(s, k, S)
    BY <2>1, Zenon DEF Rotated
  <2>3. s \in Seq(Task) /\ k \in 0 .. Len(s)
    BY <1>2, <1>5, <2>1, Zenon
  <2>4. /\ q \in Seq(Task)
        /\ \A i \in 1 .. Len(s) : i > k \/ s[i] \in S => s[i] \in Range(q)
    BY <2>2, <2>3, RotateElements, Zenon
  <2> QED BY <2>1, <2>4, Zenon
<1> HIDE DEF r
<1>7. \A v \in Task : entry[v] = "waiting" /\ state[v] = "Sleeping" => v \in hits
  BY Zenon DEF WaitQueueInv, QueueTask
<1>8. \A i \in 1 .. Len(waiters) :
        waiters[i] \notin hits /\ entry[waiters[i]] = "waiting" => waiters[i] \in Range(r)
  BY <1>2, <1>6, <1>7
<1>9. CASE hits = {}
  <2>1. WakeEffect(t, r, NoTask)
    BY <1>1, <1>3, <1>6, <1>7, <1>8, <1>9 DEF WakeEffect
  <2> QED BY <2>1, Zenon
<1>10. CASE hits # {}
  <2>1. PICK h : h = waiters[n]
    BY Zenon
  <2>2. h \in Task /\ entry[h] = "waiting" /\ state[h] = "Sleeping"
    BY <1>4, <1>10, <2>1, Zenon
  <2>3. \A v \in Task \ {h} : entry[v] = "waiting" => v \in Range(r)
    <3> SUFFICES ASSUME NEW v \in Task \ {h}, entry[v] = "waiting" PROVE v \in Range(r)
      BY Zenon
    <3>1. PICK i \in 1 .. Len(waiters) : waiters[i] = v
      BY <1>3, Zenon
    <3>2. CASE v \notin hits
      BY <1>8, <3>1, <3>2, Zenon
    <3>3. CASE v \in hits
      <4>1. n <= i /\ n # i
        BY <1>4, <1>10, <2>1, <3>1, <3>3, Zenon
      <4>2. i > n
        BY <1>2, <1>5, <4>1
      <4> QED BY <1>6, <3>1, <4>2, Zenon
    <3> QED BY <3>2, <3>3, Zenon
  <2>4. WakeEffect(t, r, h)
    BY <1>1, <1>6, <1>10, <2>1, <2>2, <2>3, Zenon DEF WakeEffect
  <2> QED BY <2>4, Zenon
<1> QED BY <1>9, <1>10, Zenon

\* Nobody waits at the start.
LEMMA QueueInit == MutexInit => WaitQueueInv /\ Progress
  BY DEF MutexInit, WaitQueueInv, QueueTypes, QueueTask, Progress, Asleep

\* Every step keeps what the entries of the wait queue stand for.
LEMMA QueueStep == SleepInv /\ WaitQueueInv /\ [MutexNext]_mutexVars => WaitQueueInv'
<1> USE DEF At, Goto
<1> SUFFICES ASSUME SleepInv, WaitQueueInv, [MutexNext]_mutexVars PROVE WaitQueueInv'
  BY Zenon
<1>0. FieldTypes
  BY Zenon DEF SleepInv
<1>1. CASE UNCHANGED mutexVars
  BY <1>1, Zenon DEF mutexVars, WaitQueueInv, QueueTypes, QueueTask
<1>2. ASSUME NEW t \in Task, FastPath(t) PROVE WaitQueueInv'
  <2>1. QueueTypes'
    BY <1>0, <1>2, Zenon DEF FastPath, FieldTypes, WaitQueueInv, QueueTypes
  <2>2. ASSUME NEW v \in Task PROVE QueueTask(v)'
    BY <1>0, <1>2, TaskAssumption DEF FastPath, FieldTypes, WaitQueueInv, QueueTypes, QueueTask, InWait, Commits
  <2> QED BY <2>1, <2>2, Zenon DEF WaitQueueInv
<1>3. ASSUME NEW t \in Task, PrepareToWait(t) PROVE WaitQueueInv'
  <2> DEFINE W == {u \in Task : entry[u] = "waiting"}
             live == Keep(waiters, W)
  <2>1. live \in Seq(Task) /\ Range(live) = Range(waiters) \cap W
    BY KeepFacts, Zenon DEF WaitQueueInv, QueueTypes
  <2> HIDE DEF live
  <2>2. /\ waiters' = live \/ waiters' = Append(live, t)
        /\ waiters' \in Seq(Task)
        /\ \A v : v \in Range(live) => v \in Range(waiters')
        /\ t \in Range(waiters') /\ entry'[t] = "waiting"
        /\ \A v \in Task \ {t} : entry'[v] = entry[v]
        /\ entry' \in [Task -> {"waiting", "woken", "finished"}]
    <3>1. CASE t \in Range(live)
      <4>1. waiters' = live /\ entry' = entry
        BY <1>3, <3>1, Zenon DEF PrepareToWait, live, W
      <4> QED BY <2>1, <3>1, <4>1, Zenon DEF WaitQueueInv, QueueTypes
    <3>2. CASE t \notin Range(live)
      <4>1. waiters' = Append(live, t) /\ entry' = [entry EXCEPT ![t] = "waiting"]
        BY <1>3, <3>2, Zenon DEF PrepareToWait, live, W
      <4>2. waiters' \in Seq(Task)
        BY <2>1, <4>1
      <4>3. PICK q, s : q = waiters' /\ s = live
        BY Zenon
      <4>4. q = Append(s, t) /\ s \in Seq(Task) /\ t \in Task
        BY <2>1, <4>1, <4>3, Zenon
      <4>5. \A v : v \in Range(q) <=> v \in Range(s) \/ v = t
        BY <4>4, AppendElements, Zenon
      <4>6. \A v : v \in Range(waiters') <=> v \in Range(live) \/ v = t
        BY <4>3, <4>5, Zenon
      <4> QED BY <4>1, <4>2, <4>6, Zenon DEF WaitQueueInv, QueueTypes
    <3> QED BY <3>1, <3>2, Zenon
  <2>3. /\ mpc[t] = "prepare" /\ mpc' = [mpc EXCEPT ![t] = "load"] /\ qlock = NoTask /\ qlock' = t
        /\ UNCHANGED <<state, place, picked>>
    BY <1>3, Zenon DEF PrepareToWait
  <2>4. \A v \in Task : entry[v] = "waiting" => v \in Range(waiters')
    BY <2>1, <2>2, Zenon DEF WaitQueueInv, QueueTask
  <2>5. QueueTypes'
    BY <2>2, <2>3, Zenon DEF WaitQueueInv, QueueTypes
  <2>6. ASSUME NEW v \in Task PROVE QueueTask(v)'
    BY <1>0, <2>2, <2>3, <2>4, TaskAssumption DEF FieldTypes, WaitQueueInv, QueueTask, InWait, Commits
  <2> QED BY <2>5, <2>6, Zenon DEF WaitQueueInv
<1>4. ASSUME NEW t \in Task, LoadWaitState(t) PROVE WaitQueueInv'
  <2>1. QueueTypes'
    BY <1>0, <1>4, Zenon DEF LoadWaitState, FieldTypes, WaitQueueInv, QueueTypes
  <2>2. ASSUME NEW v \in Task PROVE QueueTask(v)'
    BY <1>0, <1>4, TaskAssumption DEF LoadWaitState, FieldTypes, WaitQueueInv, QueueTypes, QueueTask, InWait, Commits
  <2> QED BY <2>1, <2>2, Zenon DEF WaitQueueInv
<1>5. ASSUME NEW t \in Task, CommitWait(t) PROVE WaitQueueInv'
  <2>1. QueueTypes'
    BY <1>0, <1>5, Zenon DEF CommitWait, FieldTypes, WaitQueueInv, QueueTypes
  <2>2. ASSUME NEW v \in Task PROVE QueueTask(v)'
    BY <1>0, <1>5, TaskAssumption DEF CommitWait, FieldTypes, WaitQueueInv, QueueTypes, QueueTask, InWait, Commits
  <2> QED BY <2>1, <2>2, Zenon DEF WaitQueueInv
<1>6. ASSUME NEW t \in Task, RecheckWait(t) PROVE WaitQueueInv'
  <2>1. QueueTypes'
    BY <1>0, <1>6, Zenon DEF RecheckWait, FieldTypes, WaitQueueInv, QueueTypes
  <2>2. ASSUME NEW v \in Task PROVE QueueTask(v)'
    BY <1>0, <1>6, TaskAssumption DEF RecheckWait, FieldTypes, WaitQueueInv, QueueTypes, QueueTask, InWait, Commits
  <2> QED BY <2>1, <2>2, Zenon DEF WaitQueueInv
<1>7. ASSUME NEW t \in Task, DoubleCheck(t) PROVE WaitQueueInv'
  <2>1. QueueTypes'
    BY <1>0, <1>7, Zenon DEF DoubleCheck, FieldTypes, WaitQueueInv, QueueTypes
  <2>2. ASSUME NEW v \in Task PROVE QueueTask(v)'
    BY <1>0, <1>7, TaskAssumption DEF DoubleCheck, FieldTypes, WaitQueueInv, QueueTypes, QueueTask, InWait, Commits
  <2> QED BY <2>1, <2>2, Zenon DEF WaitQueueInv
<1>8. ASSUME NEW t \in Task, AbortGroupExitSleep(t) PROVE WaitQueueInv'
  <2>1. QueueTypes'
    BY <1>0, <1>8, Zenon DEF AbortGroupExitSleep, FieldTypes, WaitQueueInv, QueueTypes
  <2>2. ASSUME NEW v \in Task PROVE QueueTask(v)'
    BY <1>0, <1>8, TaskAssumption DEF AbortGroupExitSleep, FieldTypes, WaitQueueInv, QueueTypes, QueueTask, InWait, Commits
  <2> QED BY <2>1, <2>2, Zenon DEF WaitQueueInv
<1>9. ASSUME NEW t \in Task, SwitchOut(t) PROVE WaitQueueInv'
  <2>1. QueueTypes'
    BY <1>0, <1>9, Zenon DEF SwitchOut, FieldTypes, WaitQueueInv, QueueTypes
  <2>2. ASSUME NEW v \in Task PROVE QueueTask(v)'
    BY <1>0, <1>9, TaskAssumption DEF SwitchOut, FieldTypes, WaitQueueInv, QueueTypes, QueueTask, InWait, Commits
  <2> QED BY <2>1, <2>2, Zenon DEF WaitQueueInv
<1>10. ASSUME NEW t \in Task, Dispatch(t) PROVE WaitQueueInv'
  <2>1. QueueTypes'
    BY <1>0, <1>10, Zenon DEF Dispatch, FieldTypes, WaitQueueInv, QueueTypes
  <2>2. ASSUME NEW v \in Task PROVE QueueTask(v)'
    BY <1>0, <1>10, TaskAssumption DEF Dispatch, FieldTypes, WaitQueueInv, QueueTypes, QueueTask, InWait, Commits
  <2> QED BY <2>1, <2>2, Zenon DEF WaitQueueInv
<1>11. ASSUME NEW t \in Task, FinishWait(t) PROVE WaitQueueInv'
  <2>1. /\ waiters' \in Seq(Task) /\ Range(waiters') = Range(waiters) \cap (Task \ {t})
    BY <1>11, KeepFacts, Zenon DEF FinishWait, WaitQueueInv, QueueTypes
  <2>2. \A v \in Task \ {t} : v \in Range(waiters) => v \in Range(waiters')
    BY <2>1, Zenon
  <2>3. /\ mpc[t] \in {"finish", "held_finish"} /\ place[t] = "on"
        /\ mpc' = [mpc EXCEPT ![t] = mpc'[t]] /\ mpc'[t] \in {"finish2", "held_finish2"}
        /\ entry' = [entry EXCEPT ![t] = "finished"] /\ qlock = NoTask
        /\ UNCHANGED <<qlock, state, place, picked>>
    BY <1>0, <1>11, Zenon DEF FinishWait, FieldTypes
  <2>4. QueueTypes'
    BY <2>1, <2>3, Zenon DEF WaitQueueInv, QueueTypes
  <2>5. ASSUME NEW v \in Task PROVE QueueTask(v)'
    BY <1>0, <2>2, <2>3, TaskAssumption DEF FieldTypes, WaitQueueInv, QueueTypes, QueueTask, InWait, Commits
  <2> QED BY <2>4, <2>5, Zenon DEF WaitQueueInv
<1>12. ASSUME NEW t \in Task, TransitionFromWait(t) PROVE WaitQueueInv'
  <2>1. QueueTypes'
    BY <1>0, <1>12, Zenon DEF TransitionFromWait, FieldTypes, WaitQueueInv, QueueTypes
  <2>2. ASSUME NEW v \in Task PROVE QueueTask(v)'
    BY <1>0, <1>12, TaskAssumption DEF TransitionFromWait, FieldTypes, WaitQueueInv, QueueTypes, QueueTask, InWait, Commits
  <2> QED BY <2>1, <2>2, Zenon DEF WaitQueueInv
<1>13. ASSUME NEW t \in Task, WakeOne(t) PROVE WaitQueueInv'
  <2>1. PICK r, h : WakeEffect(t, r, h)
    BY <1>13, WakeOneEffect, Zenon
  <2>2. /\ mpc[t] = "wake" /\ qlock = NoTask /\ waiters' = r /\ r \in Seq(Task)
        /\ qlock' = NoTask /\ state' = state /\ place' = place
        /\ \A v \in Task \ {h} : entry[v] = "waiting" => v \in Range(r)
    BY <2>1, Zenon DEF WakeEffect
  <2>3. CASE h = NoTask
    <3>0. entry' = entry /\ picked' = picked /\ mpc' = [mpc EXCEPT ![t] = "idle"]
      BY <2>1, <2>3, TaskAssumption, Zenon DEF WakeEffect
    <3>1. QueueTypes'
      BY <2>2, <3>0, Zenon DEF WaitQueueInv, QueueTypes
    <3>2. ASSUME NEW v \in Task PROVE QueueTask(v)'
      <4>1. v \in Task \ {h}
        BY <2>3, TaskAssumption, Zenon
      <4> QED BY <1>0, <2>2, <3>0, <4>1, TaskAssumption DEF FieldTypes, WaitQueueInv, QueueTask, InWait, Commits
    <3> QED BY <3>1, <3>2, Zenon DEF WaitQueueInv
  <2>4. CASE h # NoTask
    <3>0. /\ h \in Task /\ entry[h] = "waiting" /\ state[h] = "Sleeping"
          /\ entry' = [entry EXCEPT ![h] = "woken"] /\ picked' = [picked EXCEPT ![t] = h]
          /\ mpc' = [mpc EXCEPT ![t] = "wake_cas"]
      BY <2>1, <2>4, Zenon DEF WakeEffect
    <3>1. QueueTypes'
      BY <2>2, <3>0, Zenon DEF WaitQueueInv, QueueTypes
    <3>2. ASSUME NEW v \in Task PROVE QueueTask(v)'
      BY <1>0, <2>2, <3>0, TaskAssumption DEF FieldTypes, WaitQueueInv, QueueTypes, QueueTask, InWait, Commits
    <3> QED BY <3>1, <3>2, Zenon DEF WaitQueueInv
  <2> QED BY <2>3, <2>4, Zenon
<1>14. ASSUME NEW t \in Task, WakeTransition(t) PROVE WaitQueueInv'
  <2>1. QueueTypes'
    BY <1>0, <1>14, Zenon DEF WakeTransition, FieldTypes, WaitQueueInv, QueueTypes
  <2>2. ASSUME NEW v \in Task PROVE QueueTask(v)'
    BY <1>0, <1>14, TaskAssumption DEF WakeTransition, FieldTypes, WaitQueueInv, QueueTypes, QueueTask, InWait, Commits
  <2> QED BY <2>1, <2>2, Zenon DEF WaitQueueInv
<1>15. ASSUME NEW t \in Task, DefaultWake(t) PROVE WaitQueueInv'
  <2>1. QueueTypes'
    BY <1>0, <1>15, Zenon DEF DefaultWake, FieldTypes, WaitQueueInv, QueueTypes
  <2>2. ASSUME NEW v \in Task PROVE QueueTask(v)'
    BY <1>0, <1>15, TaskAssumption DEF DefaultWake, FieldTypes, WaitQueueInv, QueueTypes, QueueTask, InWait, Commits
  <2> QED BY <2>1, <2>2, Zenon DEF WaitQueueInv
<1>16. ASSUME NEW t \in Task, WakeEnqueue(t) PROVE WaitQueueInv'
  <2>1. QueueTypes'
    BY <1>0, <1>16, Zenon DEF WakeEnqueue, FieldTypes, WaitQueueInv, QueueTypes
  <2> PICK p : p = picked[t]
    BY Zenon
  <2>2. \A v \in Task :
           /\ place'[v] = IF v = p /\ place[v] = "off" THEN "queued" ELSE place[v]
           /\ state'[v] = "Sleeping" => state[v] = "Sleeping"
           /\ place'[v] = "off" => state'[v] = state[v]
    BY <1>0, <1>16, EnqueueEffect DEF WakeEnqueue
  <2>3. /\ mpc[t] = "wake_enq" /\ mpc' = [mpc EXCEPT ![t] = "idle"]
        /\ picked' = [picked EXCEPT ![t] = NoTask] /\ UNCHANGED <<waiters, entry, qlock>>
    BY <1>16, Zenon DEF WakeEnqueue
  <2>4. ASSUME NEW v \in Task PROVE QueueTask(v)'
    <3>1. entry'[v] = "waiting" => v \in Range(waiters') /\ mpc'[v] \in InWait
      BY <1>0, <2>2, <2>3, TaskAssumption DEF FieldTypes, WaitQueueInv, QueueTypes, QueueTask, InWait
    <3>2. mpc'[v] \in {"load", "commit", "recheck"} => qlock' = v /\ entry'[v] = "waiting"
      BY <1>0, <2>2, <2>3, TaskAssumption, Zenon DEF FieldTypes, WaitQueueInv, QueueTypes, QueueTask
    <3>3. state'[v] = "Sleeping" /\ mpc'[v] \in Commits =>
             entry'[v] = "waiting" \/ \E u \in Task : mpc'[u] = "wake_cas" /\ picked'[u] = v
      BY <1>0, <2>2, <2>3, TaskAssumption, Zenon DEF FieldTypes, WaitQueueInv, QueueTypes, QueueTask, Commits
    <3>4. place'[v] # "on" => mpc'[v] = "finish"
      BY <1>0, <2>2, <2>3, TaskAssumption DEF FieldTypes, WaitQueueInv, QueueTypes, QueueTask
    <3>5. place'[v] = "off" => state'[v] # "Running"
      BY <1>0, <2>2, <2>3, TaskAssumption DEF FieldTypes, WaitQueueInv, QueueTypes, QueueTask
    <3> QED BY <3>1, <3>2, <3>3, <3>4, <3>5, Zenon DEF QueueTask
  <2> QED BY <2>1, <2>4, Zenon DEF WaitQueueInv
<1>17. ASSUME NEW t \in Task, Call(t) PROVE WaitQueueInv'
  <2>1. QueueTypes'
    BY <1>0, <1>17, Zenon DEF Call, FieldTypes, WaitQueueInv, QueueTypes
  <2>2. ASSUME NEW v \in Task PROVE QueueTask(v)'
    BY <1>0, <1>17, TaskAssumption DEF Call, FieldTypes, WaitQueueInv, QueueTypes, QueueTask, InWait, Commits
  <2> QED BY <2>1, <2>2, Zenon DEF WaitQueueInv
<1>18. ASSUME NEW t \in Task, Unlock(t) PROVE WaitQueueInv'
  <2>1. QueueTypes'
    BY <1>0, <1>18, Zenon DEF Unlock, FieldTypes, WaitQueueInv, QueueTypes
  <2>2. ASSUME NEW v \in Task PROVE QueueTask(v)'
    BY <1>0, <1>18, TaskAssumption DEF Unlock, FieldTypes, WaitQueueInv, QueueTypes, QueueTask, InWait, Commits
  <2> QED BY <2>1, <2>2, Zenon DEF WaitQueueInv
<1>19. ASSUME NEW t \in Task, SignalWakeup(t) PROVE WaitQueueInv'
  <2>1. QueueTypes'
    BY <1>0, <1>19, Zenon DEF SignalWakeup, FieldTypes, WaitQueueInv, QueueTypes
  <2>2. ASSUME NEW v \in Task PROVE QueueTask(v)'
    BY <1>0, <1>19, TaskAssumption DEF SignalWakeup, FieldTypes, WaitQueueInv, QueueTypes, QueueTask, InWait, Commits
  <2> QED BY <2>1, <2>2, Zenon DEF WaitQueueInv
<1>20. ASSUME NEW t \in Task, PublishForcedExit(t) PROVE WaitQueueInv'
  <2>1. QueueTypes'
    BY <1>0, <1>20, Zenon DEF PublishForcedExit, FieldTypes, WaitQueueInv, QueueTypes
  <2>2. ASSUME NEW v \in Task PROVE QueueTask(v)'
    BY <1>0, <1>20, TaskAssumption DEF PublishForcedExit, FieldTypes, WaitQueueInv, QueueTypes, QueueTask, InWait, Commits
  <2> QED BY <2>1, <2>2, Zenon DEF WaitQueueInv
<1>21. ASSUME NEW t \in Task, ForcedExitWakeup(t) PROVE WaitQueueInv'
  <2>1. QueueTypes'
    BY <1>0, <1>21, Zenon DEF ForcedExitWakeup, FieldTypes, WaitQueueInv, QueueTypes
  <2>2. ASSUME NEW v \in Task PROVE QueueTask(v)'
    BY <1>0, <1>21, TaskAssumption DEF ForcedExitWakeup, FieldTypes, WaitQueueInv, QueueTypes, QueueTask, InWait, Commits
  <2> QED BY <2>1, <2>2, Zenon DEF WaitQueueInv
<1>22. ASSUME NEW t \in Task, KickEnqueue(t) PROVE WaitQueueInv'
  <2>1. QueueTypes'
    BY <1>0, <1>22, Zenon DEF KickEnqueue, Enqueue, FieldTypes, WaitQueueInv, QueueTypes
  <2>2. ASSUME NEW v \in Task PROVE QueueTask(v)'
    BY <1>0, <1>22, TaskAssumption DEF KickEnqueue, Enqueue, FieldTypes, WaitQueueInv, QueueTypes, QueueTask, InWait, Commits
  <2> QED BY <2>1, <2>2, Zenon DEF WaitQueueInv
<1> QED
  BY <1>1, <1>2, <1>3, <1>4, <1>5, <1>6, <1>7, <1>8, <1>9, <1>10, <1>11, <1>12, <1>13, <1>14, <1>15, <1>16, <1>17, <1>18, <1>19, <1>20, <1>21, <1>22, Zenon
      DEF MutexNext, Step

\* A step after which everyone who is asleep was asleep before, and which
\* leaves the reasons for progress in force.
LEMMA ProgressFrame ==
    ASSUME Progress, locked => locked', NEW t \in Task,
           \A u \in Task : Asleep(u)' => Asleep(u),
           \A u \in Task : u # t => mpc'[u] = mpc[u] /\ picked'[u] = picked[u],
           mpc[t] # "wake",
           mpc[t] \in Waking \cup {"idle"} \/ Asleep(t) \/ (mpc'[t] \notin Waking \cup {"idle"} /\ ~Asleep(t)'),
           \A u \in Task : Asleep(u) /\ ~Asleep(u)' => mpc'[u] \notin Waking \cup {"idle"},
           \A p \in Task : mpc[t] = "wake_cas" /\ picked[t] = p => ~Asleep(p)'
    PROVE  Progress'
<1> SUFFICES ASSUME NEW v \in Task, Asleep(v)'
             PROVE  \/ locked'
                    \/ \E u \in Task : mpc'[u] = "wake"
                    \/ \E u \in Task : mpc'[u] \notin Waking \cup {"idle"} /\ ~Asleep(u)'
                    \/ \E u, p \in Task : mpc'[u] = "wake_cas" /\ picked'[u] = p /\ Asleep(p)'
  BY Zenon DEF Progress
<1>1. CASE locked
  BY <1>1, Zenon
<1>2. ASSUME NEW u \in Task, mpc[u] = "wake" PROVE \E w \in Task : mpc'[w] = "wake"
  BY <1>2, Zenon
<1>3. ASSUME NEW u \in Task, mpc[u] \notin Waking \cup {"idle"}, ~Asleep(u)
      PROVE  \E w \in Task : mpc'[w] \notin Waking \cup {"idle"} /\ ~Asleep(w)'
  BY <1>3, Zenon
<1>4. ASSUME NEW u \in Task, NEW p \in Task, mpc[u] = "wake_cas", picked[u] = p, Asleep(p)
      PROVE  \/ \E w \in Task : mpc'[w] \notin Waking \cup {"idle"} /\ ~Asleep(w)'
             \/ \E w, q \in Task : mpc'[w] = "wake_cas" /\ picked'[w] = q /\ Asleep(q)'
  BY <1>4, Zenon
<1> QED BY <1>1, <1>2, <1>3, <1>4, Zenon DEF Progress

\* No step leaves a sleeper without anybody who will look for it.
LEMMA ProgressStep == SleepInv /\ WaitQueueInv /\ Progress /\ [MutexNext]_mutexVars => Progress'
<1> USE DEF At, Goto
<1> SUFFICES ASSUME SleepInv, WaitQueueInv, Progress, [MutexNext]_mutexVars PROVE Progress'
  BY Zenon
<1>0. FieldTypes
  BY Zenon DEF SleepInv
<1>1. CASE UNCHANGED mutexVars
  BY <1>1, Zenon DEF mutexVars, Progress, Asleep
<1>2. ASSUME NEW t \in Task, FastPath(t) PROVE Progress'
  BY <1>0, <1>2, Zenon DEF FastPath, FieldTypes, WaitQueueInv, QueueTypes, QueueTask, Progress, Asleep, Waking
<1>3. ASSUME NEW t \in Task, PrepareToWait(t) PROVE Progress'
  BY <1>0, <1>3 DEF PrepareToWait, FieldTypes, WaitQueueInv, QueueTypes, QueueTask, Progress, Asleep, Waking
<1>4. ASSUME NEW t \in Task, LoadWaitState(t) PROVE Progress'
  <2>1. /\ mpc[t] # "wake"
        /\ \A u \in Task : u # t => mpc'[u] = mpc[u] /\ picked'[u] = picked[u]
        /\ locked => locked'
    BY <1>0, <1>4, Zenon DEF LoadWaitState, FieldTypes
  <2>2. \A u \in Task : Asleep(u)' => Asleep(u)
    BY <1>0, <1>4 DEF LoadWaitState, FieldTypes, Asleep, WaitQueueInv, QueueTask
  <2>3. mpc[t] \in Waking \cup {"idle"} \/ Asleep(t) \/ (mpc'[t] \notin Waking \cup {"idle"} /\ ~Asleep(t)')
    BY <1>0, <1>4 DEF LoadWaitState, FieldTypes, Asleep, Waking
  <2>4. \A u \in Task : Asleep(u) /\ ~Asleep(u)' => mpc'[u] \notin Waking \cup {"idle"}
    BY <1>0, <1>4 DEF LoadWaitState, FieldTypes, Asleep, Waking, WaitQueueInv, QueueTask
  <2>5. \A p \in Task : mpc[t] = "wake_cas" /\ picked[t] = p => ~Asleep(p)'
    BY <1>0, <1>4, Zenon DEF LoadWaitState, FieldTypes, Asleep
  <2> QED BY <2>1, <2>2, <2>3, <2>4, <2>5, ProgressFrame, Zenon
<1>5. ASSUME NEW t \in Task, CommitWait(t) PROVE Progress'
  BY <1>0, <1>5 DEF CommitWait, FieldTypes, WaitQueueInv, QueueTypes, QueueTask, Progress, Asleep, Waking
<1>6. ASSUME NEW t \in Task, RecheckWait(t) PROVE Progress'
  BY <1>0, <1>6 DEF RecheckWait, FieldTypes, WaitQueueInv, QueueTypes, QueueTask, Progress, Asleep, Waking
<1>7. ASSUME NEW t \in Task, DoubleCheck(t) PROVE Progress'
  BY <1>0, <1>7, Zenon DEF DoubleCheck, FieldTypes, WaitQueueInv, QueueTypes, QueueTask, Progress, Asleep, Waking
<1>8. ASSUME NEW t \in Task, AbortGroupExitSleep(t) PROVE Progress'
  BY <1>0, <1>8 DEF AbortGroupExitSleep, FieldTypes, WaitQueueInv, QueueTypes, QueueTask, Progress, Asleep, Waking
<1>9. ASSUME NEW t \in Task, SwitchOut(t) PROVE Progress'
  BY <1>0, <1>9 DEF SwitchOut, FieldTypes, WaitQueueInv, QueueTypes, QueueTask, Progress, Asleep, Waking
<1>10. ASSUME NEW t \in Task, Dispatch(t) PROVE Progress'
  BY <1>0, <1>10 DEF Dispatch, FieldTypes, WaitQueueInv, QueueTypes, QueueTask, Progress, Asleep, Waking
<1>11. ASSUME NEW t \in Task, FinishWait(t) PROVE Progress'
  BY <1>0, <1>11 DEF FinishWait, FieldTypes, WaitQueueInv, QueueTypes, QueueTask, Progress, Asleep, Waking
<1>12. ASSUME NEW t \in Task, TransitionFromWait(t) PROVE Progress'
  BY <1>0, <1>12 DEF TransitionFromWait, FieldTypes, WaitQueueInv, QueueTypes, QueueTask, Progress, Asleep, Waking
<1>13. ASSUME NEW t \in Task, WakeOne(t) PROVE Progress'
  <2>1. PICK r, h : WakeEffect(t, r, h)
    BY <1>13, WakeOneEffect, Zenon
  <2>2. /\ mpc[t] = "wake" /\ locked' = locked /\ state' = state /\ place' = place
    BY <2>1, Zenon DEF WakeEffect
  <2>3. CASE h = NoTask
    <3>1. /\ picked' = picked /\ mpc' = [mpc EXCEPT ![t] = "idle"]
          /\ \A v \in Task : ~(entry[v] = "waiting" /\ state[v] = "Sleeping")
      BY <2>1, <2>3, TaskAssumption, Zenon DEF WakeEffect
    <3>2. \A v \in Task : Asleep(v)' => Asleep(v)
      BY <1>0, <2>2, <3>1, Zenon DEF FieldTypes, Asleep
    <3>3. ASSUME NEW v \in Task, Asleep(v)
          PROVE  \E u \in Task : mpc'[u] = "wake_cas" /\ picked'[u] = v /\ Asleep(v)'
      <4>1. PICK u \in Task : mpc[u] = "wake_cas" /\ picked[u] = v
        BY <3>1, <3>3, Zenon DEF WaitQueueInv, QueueTask, Asleep, Commits
      <4>2. u # t /\ v # t /\ Asleep(v)'
        BY <1>0, <2>2, <3>1, <3>3, <4>1, Zenon DEF FieldTypes, Asleep, WaitQueueInv, QueueTask
      <4> QED BY <1>0, <3>1, <4>1, <4>2, Zenon DEF FieldTypes
    <3> QED BY <3>2, <3>3, Zenon DEF Progress
  <2>4. CASE h # NoTask
    <3>1. /\ h \in Task /\ entry[h] = "waiting" /\ state[h] = "Sleeping"
          /\ picked' = [picked EXCEPT ![t] = h] /\ mpc' = [mpc EXCEPT ![t] = "wake_cas"]
      BY <2>1, <2>4, Zenon DEF WakeEffect
    <3>2. /\ mpc'[t] = "wake_cas" /\ picked'[t] = h /\ h # t /\ mpc'[h] = mpc[h] /\ mpc[h] \in InWait
          /\ (Asleep(h)' <=> Asleep(h))
      BY <1>0, <2>2, <3>1, Zenon DEF FieldTypes, Asleep, WaitQueueInv, QueueTypes, QueueTask, InWait
    <3>3. mpc'[h] \notin Waking \cup {"idle"}
      BY <3>2, Zenon DEF InWait, Waking
    <3>4. CASE Asleep(h)
      BY <3>1, <3>2, <3>4, Zenon DEF Progress
    <3>5. CASE ~Asleep(h)
      BY <3>1, <3>2, <3>3, <3>5, Zenon DEF Progress
    <3> QED BY <3>4, <3>5, Zenon
  <2> QED BY <2>3, <2>4, Zenon
<1>14. ASSUME NEW t \in Task, WakeTransition(t) PROVE Progress'
  BY <1>0, <1>14, SMTT(30) DEF WakeTransition, FieldTypes, WaitQueueInv, QueueTypes, QueueTask, Progress, Asleep, Waking
<1>15. ASSUME NEW t \in Task, DefaultWake(t) PROVE Progress'
  <2>1. /\ mpc[t] # "wake"
        /\ \A u \in Task : u # t => mpc'[u] = mpc[u] /\ picked'[u] = picked[u]
        /\ locked => locked'
    BY <1>0, <1>15, Zenon DEF DefaultWake, FieldTypes
  <2>2. \A u \in Task : Asleep(u)' => Asleep(u)
    BY <1>0, <1>15 DEF DefaultWake, FieldTypes, Asleep, WaitQueueInv, QueueTask
  <2>3. mpc[t] \in Waking \cup {"idle"} \/ Asleep(t) \/ (mpc'[t] \notin Waking \cup {"idle"} /\ ~Asleep(t)')
    BY <1>0, <1>15, Zenon DEF DefaultWake, FieldTypes, Asleep, Waking
  <2>4. \A u \in Task : Asleep(u) /\ ~Asleep(u)' => mpc'[u] \notin Waking \cup {"idle"}
    BY <1>0, <1>15 DEF DefaultWake, FieldTypes, Asleep, Waking, WaitQueueInv, QueueTask
  <2>5. \A p \in Task : mpc[t] = "wake_cas" /\ picked[t] = p => ~Asleep(p)'
    BY <1>0, <1>15, Zenon DEF DefaultWake, FieldTypes, Asleep
  <2> QED BY <2>1, <2>2, <2>3, <2>4, <2>5, ProgressFrame, Zenon
<1>16. ASSUME NEW t \in Task, WakeEnqueue(t) PROVE Progress'
  <2>1. /\ mpc[t] # "wake"
        /\ \A u \in Task : u # t => mpc'[u] = mpc[u] /\ picked'[u] = picked[u]
        /\ locked => locked'
    BY <1>0, <1>16, Zenon DEF WakeEnqueue, Enqueue, FieldTypes
  <2>2. \A u \in Task : Asleep(u)' => Asleep(u)
    BY <1>0, <1>16 DEF WakeEnqueue, Enqueue, FieldTypes, Asleep, WaitQueueInv, QueueTask
  <2>3. mpc[t] \in Waking \cup {"idle"} \/ Asleep(t) \/ (mpc'[t] \notin Waking \cup {"idle"} /\ ~Asleep(t)')
    BY <1>0, <1>16, Zenon DEF WakeEnqueue, Enqueue, FieldTypes, Asleep, Waking
  <2>4. \A u \in Task : Asleep(u) /\ ~Asleep(u)' => mpc'[u] \notin Waking \cup {"idle"}
    BY <1>0, <1>16 DEF WakeEnqueue, Enqueue, FieldTypes, Asleep, Waking, WaitQueueInv, QueueTask
  <2>5. \A p \in Task : mpc[t] = "wake_cas" /\ picked[t] = p => ~Asleep(p)'
    BY <1>0, <1>16, Zenon DEF WakeEnqueue, Enqueue, FieldTypes, Asleep
  <2> QED BY <2>1, <2>2, <2>3, <2>4, <2>5, ProgressFrame, Zenon
<1>17. ASSUME NEW t \in Task, Call(t) PROVE Progress'
  BY <1>0, <1>17 DEF Call, FieldTypes, WaitQueueInv, QueueTypes, QueueTask, Progress, Asleep, Waking
<1>18. ASSUME NEW t \in Task, Unlock(t) PROVE Progress'
  BY <1>0, <1>18 DEF Unlock, FieldTypes, WaitQueueInv, QueueTypes, QueueTask, Progress, Asleep, Waking
<1>19. ASSUME NEW t \in Task, SignalWakeup(t) PROVE Progress'
  BY <1>0, <1>19 DEF SignalWakeup, FieldTypes, WaitQueueInv, QueueTypes, QueueTask, Progress, Asleep, Waking
<1>20. ASSUME NEW t \in Task, PublishForcedExit(t) PROVE Progress'
  BY <1>0, <1>20 DEF PublishForcedExit, FieldTypes, WaitQueueInv, QueueTypes, QueueTask, Progress, Asleep, Waking
<1>21. ASSUME NEW t \in Task, ForcedExitWakeup(t) PROVE Progress'
  BY <1>0, <1>21 DEF ForcedExitWakeup, FieldTypes, WaitQueueInv, QueueTypes, QueueTask, Progress, Asleep, Waking
<1>22. ASSUME NEW t \in Task, KickEnqueue(t) PROVE Progress'
  BY <1>0, <1>22 DEF KickEnqueue, Enqueue, FieldTypes, WaitQueueInv, QueueTypes, QueueTask, Progress, Asleep, Waking
<1> QED
  BY <1>1, <1>2, <1>3, <1>4, <1>5, <1>6, <1>7, <1>8, <1>9, <1>10, <1>11, <1>12, <1>13, <1>14, <1>15, <1>16, <1>17, <1>18, <1>19, <1>20, <1>21, <1>22, Zenon
      DEF MutexNext, Step

\* The reasons Progress gives are the ones NoLostWakeup names.
LEMMA ProgressWakes == SleepInv /\ WaitQueueInv /\ Progress => NoLostWakeup
<1> SUFFICES ASSUME SleepInv, WaitQueueInv, Progress, NEW t \in Task, place[t] = "off"
             PROVE  \/ locked
                    \/ \E u \in Task : mpc[u] \in {"wake", "wake_cas", "wake_check", "wake_enq"}
                    \/ \E u \in Task : mpc[u] # "idle" /\ place[u] # "off"
                    \/ \E u \in Task : kick[u] = "enqueue"
  BY Zenon DEF NoLostWakeup
<1>1. ASSUME NEW u \in Task, place[u] = "off", state[u] # "Sleeping"
      PROVE  \/ kick[u] = "enqueue"
             \/ \E w \in Task : mpc[w] \in {"wake", "wake_cas", "wake_check", "wake_enq"}
  <2>1. state[u] = "Runnable"
    BY <1>1, Zenon DEF SleepInv, FieldTypes, TaskState, WaitQueueInv, QueueTask
  <2> QED BY <1>1, <2>1, Zenon DEF SleepInv, RunnableIsReachable
<1>2. CASE state[t] # "Sleeping"
  BY <1>1, <1>2, Zenon
<1>3. CASE state[t] = "Sleeping"
  <2>1. Asleep(t)
    BY <1>3, Zenon DEF Asleep
  <2>2. ASSUME NEW u \in Task, mpc[u] # "idle", ~Asleep(u), place[u] = "off"
        PROVE  state[u] # "Sleeping"
    BY <2>2, Zenon DEF Asleep
  <2> QED BY <1>1, <2>1, <2>2, Zenon DEF Progress
<1> QED BY <1>2, <1>3, Zenon

\* No wake-up is lost, for any number of tasks: while a task is descheduled in
\* lock() and the mutex is free, a task is on its way to wake, to retry or to
\* enqueue somebody.  prepare_to_wait queues the task and publishes its sleep
\* before the second look at the lock word; wake_one takes an entry that
\* waits, and keeps every other in the queue.
THEOREM MutexWakeups == MutexSpec => []NoLostWakeup
<1>1. MutexInit => SleepInv /\ WaitQueueInv /\ Progress
  BY SleepInvInit, QueueInit, Zenon
<1>2. SleepInv /\ WaitQueueInv /\ Progress /\ [MutexNext]_mutexVars => SleepInv' /\ WaitQueueInv' /\ Progress'
  BY SleepInvStep, QueueStep, ProgressStep, Zenon
<1> QED
  BY <1>1, <1>2, ProgressWakes, PTL DEF MutexSpec

-----------------------------------------------------------------------------
(* The ring *)

(* A position's slot, position & mask, is a slot. *)
LEMMA IndexType == \A k \in Nat : Index(k) \in Slot
  BY RingAssumption DEF Index, Slot

(* On the first lap a position is its own slot. *)
LEMMA IndexSmall == \A k \in Slot : Index(k) = k
  BY RingAssumption DEF Index, Slot

(* Quotient and remainder of a position. *)
LEMMA DivMod == \A k \in Nat : k = Capacity * (k \div Capacity) + (k % Capacity) /\ k \div Capacity \in Nat /\ k % Capacity \in 0..(Capacity-1)
  BY RingAssumption

(* A multiple of the capacity is 0 or at least a capacity away from 0. *)
LEMMA Multiple == \A d \in Int : Capacity * d \in Int /\ (d >= 1 => Capacity * d >= Capacity) /\ (d <= -1 => Capacity * d <= -Capacity)
  BY RingAssumption

(* Two positions differ by whole laps and by the difference of their slots. *)
LEMMA SameLap == \A i, j \in Nat : \E d \in Int : j - i = Capacity * d + (Index(j) - Index(i))
<1> TAKE i, j \in Nat
<1> DEFINE a == i \div Capacity
<1> DEFINE b == j \div Capacity
<1>1. /\ a \in Nat /\ Index(i) \in Int /\ i = Capacity * a + Index(i)
      /\ b \in Nat /\ Index(j) \in Int /\ j = Capacity * b + Index(j)
  BY DivMod DEF Index
<1> HIDE DEF a, b
<1>2. Capacity * (b - a) = Capacity * b - Capacity * a
  BY <1>1, RingAssumption
<1> DEFINE x == Capacity * a
<1> DEFINE y == Capacity * b
<1>3. x \in Int /\ y \in Int /\ i = x + Index(i) /\ j = y + Index(j)
  BY <1>1, RingAssumption
<1>4. Capacity * (b - a) = y - x
  BY <1>2, Zenon
<1> HIDE DEF x, y
<1>5. j - i = (y - x) + (Index(j) - Index(i))
  BY <1>1, <1>3
<1>6. b - a \in Int
  BY <1>1
<1> WITNESS b - a \in Int
<1> QED BY <1>4, <1>5, Zenon

(* Positions less than a lap apart have different slots: a window of         *)
(* Capacity positions names every slot once.                                 *)
LEMMA IndexApart == \A i, j \in Nat : i < j /\ j < i + Capacity => Index(i) # Index(j)
<1> SUFFICES ASSUME NEW i \in Nat, NEW j \in Nat, i < j, j < i + Capacity, Index(i) = Index(j) PROVE FALSE
  BY Zenon
<1>1. PICK d \in Int : j - i = Capacity * d + (Index(j) - Index(i))
  BY SameLap, Zenon
<1> DEFINE x == Capacity * d
<1>2. x \in Int /\ (d >= 1 => x >= Capacity) /\ (d <= -1 => x <= -Capacity) /\ (d = 0 => x = 0)
  BY Multiple, RingAssumption
<1>3. Index(i) \in Int /\ Index(j) \in Int
  BY IndexType DEF Slot
<1> HIDE DEF x
<1>4. j - i = x
  BY <1>1, <1>2, <1>3 DEF x
<1> QED BY <1>2, <1>4, RingAssumption

(* A position has the slot of the same position one lap later. *)
LEMMA IndexLap == \A k \in Nat : Index(k + Capacity) = Index(k)
<1> TAKE k \in Nat
<1>0. k + Capacity \in Nat
  BY RingAssumption
<1>1. PICK d \in Int : (k + Capacity) - k = Capacity * d + (Index(k + Capacity) - Index(k))
  BY <1>0, SameLap, Zenon
<1> DEFINE x == Capacity * (d - 1)
<1>2. x \in Int /\ (d - 1 >= 1 => x >= Capacity) /\ (d - 1 <= -1 => x <= -Capacity) /\ (d - 1 = 0 => x = 0)
  BY Multiple, RingAssumption
<1>3. Index(k + Capacity) \in 0..(Capacity-1) /\ Index(k) \in 0..(Capacity-1)
  BY <1>0, IndexType, Zenon DEF Slot
<1>4. Capacity * d = Capacity + x
  BY RingAssumption
<1> HIDE DEF x
<1>5. 0 = x + (Index(k + Capacity) - Index(k))
  BY <1>1, <1>2, <1>3, <1>4, RingAssumption
<1>6. d >= 2 \/ d = 1 \/ d <= 0
  OBVIOUS
<1>7. x = 0
  BY <1>2, <1>3, <1>5, <1>6, RingAssumption
<1> QED BY <1>3, <1>5, <1>7

-----------------------------------------------------------------------------
InWindow(k) == Released <= k /\ k < Released + Capacity

(* The positions reserved and not released fit into the slots. *)
Counters ==
    /\ popPc \in {"read", "release"} => dequeue >= 1
    /\ Released <= enqueue
    /\ enqueue <= Released + Capacity

(* The state of every position of the window, told by its slot. *)
Window ==
    \A k \in Nat : InWindow(k) =>
        /\ k >= enqueue => sequence[Index(k)] = k
        /\ k < enqueue => sequence[Index(k)] \in {k, k + 1}

(* No slot lags behind a position whose lap has begun. *)
NoSlotBehind ==
    \A k \in Nat : k < Released + Capacity => sequence[Index(k)] >= k

(* A filled slot holds a value until the consumer has read it. *)
FilledHasValue ==
    \A k \in Nat :
        /\ InWindow(k) /\ k < enqueue /\ sequence[Index(k)] = k + 1
        /\ ~(popPc = "release" /\ k = Released)
        => value[Index(k)] # NoValue

(* The producers between the load of a position and the publication. *)
CasInWindow ==
    \A p \in Producer :
        /\ position[p] <= enqueue
        /\ pc[p] = "cas" => position[p] < Released + Capacity
        /\ pc[p] \in {"start", "load", "cas", "write"} => item[p] # NoValue

Reserved ==
    \A p \in Producer : Writing(p) =>
        /\ Released <= position[p]
        /\ position[p] < enqueue
        /\ sequence[Index(position[p])] = position[p]
        /\ pc[p] = "publish" => value[Index(position[p])] # NoValue

ReservedApart ==
    \A p, q \in Producer : Writing(p) /\ Writing(q) /\ p # q => position[p] # position[q]

(* The consumer inside try_pop works on a filled head. *)
HeadFilled ==
    popPc # "idle" => Released < enqueue /\ sequence[Index(Released)] = Released + 1

RingInv ==
    /\ TypeOK /\ Counters /\ Window /\ NoSlotBehind /\ FilledHasValue
    /\ CasInWindow /\ Reserved /\ ReservedApart /\ HeadFilled

-----------------------------------------------------------------------------
(* The ring starts in the window of its first lap. *)
LEMMA RingInvInit == Init => RingInv
<1> SUFFICES ASSUME Init PROVE RingInv
  BY Zenon
<1> USE RingAssumption
<1>1. Released = 0
  BY Zenon DEF Init, Released
<1>2. \A k \in Nat : k < Capacity => Index(k) = k /\ sequence[Index(k)] = k
  BY IndexSmall DEF Init, Slot
<1>3. TypeOK
  BY DEF Init, TypeOK, Slot
<1>4. Counters
  BY <1>1 DEF Init, Counters
<1>5. Window /\ NoSlotBehind /\ FilledHasValue
  BY <1>1, <1>2 DEF Init, Window, NoSlotBehind, FilledHasValue, InWindow
<1>6. CasInWindow /\ Reserved /\ ReservedApart /\ HeadFilled
  BY <1>1 DEF Init, CasInWindow, Reserved, ReservedApart, HeadFilled, Writing
<1> QED BY <1>3, <1>4, <1>5, <1>6, Zenon DEF RingInv

(* The steps of try_push up to the compare-and-swap touch only the caller's *)
(* locals.                                                                  *)
LEMMA LocalStep ==
  ASSUME RingInv, NEW p \in Producer,
         NEW l \in {"idle", "start", "load", "cas"}, NEW n \in Nat,
         NEW w \in Value \cup {NoValue},
         UNCHANGED <<ringVars, popVars>>,
         pc' = [pc EXCEPT ![p] = l],
         position' = [position EXCEPT ![p] = n],
         item' = [item EXCEPT ![p] = w],
         n <= enqueue,
         l = "cas" => n < Released + Capacity,
         l # "idle" => w # NoValue
  PROVE  RingInv'
<1> USE RingAssumption
<1>1. /\ enqueue' = enqueue /\ dequeue' = dequeue /\ sequence' = sequence /\ value' = value
      /\ popPc' = popPc /\ held' = held /\ out' = out /\ Released' = Released
  BY Zenon DEF ringVars, popVars, Released
<1>2. TypeOK'
  BY <1>1, Zenon DEF RingInv, TypeOK
<1>3. (Counters /\ Window /\ NoSlotBehind /\ FilledHasValue /\ HeadFilled)'
  BY <1>1, Zenon DEF RingInv, Counters, Window, NoSlotBehind, FilledHasValue, HeadFilled, InWindow
<1>4. CasInWindow'
  BY <1>1, Zenon DEF RingInv, TypeOK, CasInWindow
<1>5. \A q \in Producer : Writing(q)' =>
         Writing(q) /\ q # p /\ position'[q] = position[q] /\ pc'[q] = pc[q]
  BY Zenon DEF RingInv, TypeOK, Writing
<1>6. Reserved' /\ ReservedApart'
  BY <1>1, <1>5 DEF RingInv, Reserved, ReservedApart
<1> QED BY <1>2, <1>3, <1>4, <1>6, Zenon DEF RingInv

(* compare_exchange_weak succeeds: the position enters the window as        *)
(* reserved.                                                                *)
LEMMA ReserveStep ==
  ASSUME RingInv, NEW p \in Producer, ReservePosition(p)
  PROVE  RingInv'
<1> USE RingAssumption
<1>1. /\ pc[p] = "cas" /\ enqueue = position[p] /\ enqueue' = enqueue + 1
      /\ pc' = [pc EXCEPT ![p] = "write"] /\ position' = position /\ item' = item
      /\ dequeue' = dequeue /\ sequence' = sequence /\ value' = value
      /\ popPc' = popPc /\ held' = held /\ out' = out /\ Released' = Released
  BY Zenon DEF ReservePosition, popVars, Released
<1>2. enqueue \in Nat /\ Released \in Int /\ Released <= enqueue /\ enqueue < Released + Capacity
  BY <1>1 DEF RingInv, TypeOK, Counters, CasInWindow, Released
<1>3. sequence[Index(enqueue)] = enqueue
  BY <1>2 DEF RingInv, Window, InWindow
<1>4. TypeOK'
  BY <1>1, <1>2 DEF RingInv, TypeOK
<1>5. Counters' /\ NoSlotBehind' /\ HeadFilled'
  BY <1>1, <1>2 DEF RingInv, Counters, NoSlotBehind, HeadFilled
<1>6. Window'
  BY <1>1, <1>2, <1>3 DEF RingInv, Window, InWindow
<1>7. FilledHasValue'
  BY <1>1, <1>2, <1>3 DEF RingInv, FilledHasValue, InWindow
<1>8. CasInWindow'
  BY <1>1, <1>2 DEF RingInv, TypeOK, CasInWindow
<1>9. Reserved'
  BY <1>1, <1>2, <1>3 DEF RingInv, TypeOK, Reserved, Writing
<1>10. ReservedApart'
  BY <1>1, <1>2 DEF RingInv, TypeOK, Reserved, ReservedApart, Writing
<1> QED BY <1>4, <1>5, <1>6, <1>7, <1>8, <1>9, <1>10, Zenon DEF RingInv

(* The holder of a reserved position writes into its slot and no other.     *)
LEMMA WriteStep ==
  ASSUME RingInv, NEW p \in Producer, WriteValue(p)
  PROVE  RingInv'
<1> USE RingAssumption
<1>1. /\ pc[p] = "write" /\ pc' = [pc EXCEPT ![p] = "publish"]
      /\ value' = [value EXCEPT ![Index(position[p])] = item[p]]
      /\ item' = [item EXCEPT ![p] = NoValue] /\ position' = position
      /\ enqueue' = enqueue /\ dequeue' = dequeue /\ sequence' = sequence
      /\ popPc' = popPc /\ held' = held /\ out' = out /\ Released' = Released
  BY Zenon DEF WriteValue, popVars, Released
<1>2. /\ position[p] \in Nat /\ InWindow(position[p]) /\ position[p] < enqueue
      /\ sequence[Index(position[p])] = position[p] /\ Index(position[p]) \in Slot
      /\ item[p] \in Value /\ enqueue \in Nat /\ Released \in Int
  BY <1>1, IndexType DEF RingInv, TypeOK, Counters, CasInWindow, Reserved, Writing, InWindow, Released
<1>3. TypeOK'
  BY <1>1, <1>2, Zenon DEF RingInv, TypeOK
<1>4. (Counters /\ Window /\ NoSlotBehind /\ HeadFilled)'
  BY <1>1, Zenon DEF RingInv, Counters, Window, NoSlotBehind, HeadFilled, InWindow
<1>5. FilledHasValue'
  BY <1>1, <1>2, IndexType, Zenon DEF RingInv, TypeOK, FilledHasValue, InWindow
<1>6. CasInWindow'
  BY <1>1, Zenon DEF RingInv, TypeOK, CasInWindow
<1>7. Reserved'
  BY <1>1, <1>2, IndexType, Zenon DEF RingInv, TypeOK, Reserved, Writing
<1>8. ReservedApart'
  BY <1>1 DEF RingInv, TypeOK, ReservedApart, Writing
<1> QED BY <1>3, <1>4, <1>5, <1>6, <1>7, <1>8, Zenon DEF RingInv

(* The sequence number becomes position + 1: the slot is filled.            *)
LEMMA PublishStep ==
  ASSUME RingInv, NEW p \in Producer, PublishSlot(p)
  PROVE  RingInv'
<1> USE RingAssumption
<1> DEFINE k0 == position[p]
<1>1. /\ pc[p] = "publish" /\ pc' = [pc EXCEPT ![p] = "idle"]
      /\ sequence' = [sequence EXCEPT ![Index(k0)] = k0 + 1]
      /\ item' = item /\ position' = position
      /\ enqueue' = enqueue /\ dequeue' = dequeue /\ value' = value
      /\ popPc' = popPc /\ held' = held /\ out' = out /\ Released' = Released
  BY Zenon DEF PublishSlot, popVars, Released
<1>2. /\ k0 \in Nat /\ InWindow(k0) /\ k0 < enqueue
      /\ sequence[Index(k0)] = k0 /\ Index(k0) \in Slot /\ value[Index(k0)] # NoValue
      /\ enqueue \in Nat /\ Released \in Int /\ enqueue <= Released + Capacity
  BY <1>1, IndexType DEF RingInv, TypeOK, Counters, Reserved, Writing, InWindow, Released
<1>3. \A k \in Nat : InWindow(k) /\ k # k0 => Index(k) # Index(k0)
  BY <1>2, IndexApart DEF InWindow
<1>4. sequence \in [Slot -> Nat] /\ \A k \in Nat : Index(k) \in Slot
  BY IndexType, Zenon DEF RingInv, TypeOK
<1> HIDE DEF k0
<1>5. TypeOK'
  BY <1>1, <1>2 DEF RingInv, TypeOK
<1>6. Counters'
  BY <1>1, Zenon DEF RingInv, Counters
<1>7. Window'
  BY <1>1, <1>2, <1>3, <1>4 DEF RingInv, Window, InWindow
<1>8. NoSlotBehind'
  BY <1>1, <1>2, <1>4 DEF RingInv, NoSlotBehind
<1>9. FilledHasValue'
  BY <1>1, <1>2, <1>3, <1>4, Zenon DEF RingInv, FilledHasValue, InWindow
<1>10. CasInWindow'
  BY <1>1, Zenon DEF RingInv, TypeOK, CasInWindow
<1>11. \A q \in Producer : Writing(q)' =>
          /\ Writing(q) /\ q # p /\ pc'[q] = pc[q]
          /\ position[q] \in Nat /\ InWindow(position[q]) /\ position[q] # k0
  BY <1>1, <1>2 DEF RingInv, TypeOK, Reserved, ReservedApart, Writing, InWindow, k0
<1>12. Reserved'
  BY <1>1, <1>2, <1>3, <1>4, <1>11, Zenon DEF RingInv, Reserved
<1>13. ReservedApart'
  BY <1>1, <1>11, Zenon DEF RingInv, ReservedApart
<1>14. HeadFilled'
  <2> SUFFICES ASSUME popPc # "idle" PROVE Released < enqueue /\ sequence'[Index(Released)] = Released + 1
    BY <1>1, Zenon DEF HeadFilled
  <2>1. Released < enqueue /\ sequence[Index(Released)] = Released + 1 /\ Released \in Nat
    BY DEF RingInv, HeadFilled, TypeOK, Counters, Released
  <2>2. InWindow(Released) /\ Released # k0
    BY <2>1, <1>2 DEF InWindow
  <2> QED BY <1>1, <1>2, <1>3, <1>4, <2>1, <2>2, Zenon
<1> QED BY <1>5, <1>6, <1>7, <1>8, <1>9, <1>10, <1>12, <1>13, <1>14, Zenon DEF RingInv

(* try_pop up to the read of the value: the window does not move.           *)
LEMMA PopStep ==
  ASSUME RingInv, PopFinds \/ PopFindsNothing \/ AdvanceDequeue
  PROVE  RingInv'
<1> USE RingAssumption
<1>1. /\ enqueue' = enqueue /\ sequence' = sequence /\ value' = value
      /\ pc' = pc /\ position' = position /\ item' = item /\ held' = held
      /\ dequeue' \in Nat /\ popPc' \in {"idle", "advance", "read"} /\ popPc # "release"
      /\ out' \in Value \cup {NoValue}
  BY DEF PopFinds, PopFindsNothing, AdvanceDequeue, ringVars, pushVars, RingInv, TypeOK
<1>2. Released' = Released
  BY DEF PopFinds, PopFindsNothing, AdvanceDequeue, ringVars, Released, RingInv, TypeOK
<1>3. (popPc' = "read" => dequeue' >= 1) /\ (popPc' # "idle" /\ popPc = "idle" => PopFinds)
  BY DEF PopFinds, PopFindsNothing, AdvanceDequeue, ringVars, RingInv, TypeOK
<1>4. PopFinds => Released < enqueue /\ sequence[Index(Released)] = Released + 1
  BY DEF PopFinds, RingInv, TypeOK, Counters, Window, InWindow, Released
<1>5. TypeOK'
  BY <1>1, Zenon DEF RingInv, TypeOK
<1>6. (Counters /\ Window /\ NoSlotBehind /\ FilledHasValue)'
  BY <1>1, <1>2, <1>3, Zenon DEF RingInv, Counters, Window, NoSlotBehind, FilledHasValue, InWindow
<1>7. (CasInWindow /\ Reserved /\ ReservedApart)'
  BY <1>1, <1>2, Zenon DEF RingInv, CasInWindow, Reserved, ReservedApart, Writing
<1>8. HeadFilled'
  BY <1>1, <1>2, <1>3, <1>4, Zenon DEF RingInv, HeadFilled
<1> QED BY <1>5, <1>6, <1>7, <1>8, Zenon DEF RingInv

(* The consumer moves the value out of the filled head. *)
LEMMA ReadStep ==
  ASSUME RingInv, ReadValue
  PROVE  RingInv'
<1> USE RingAssumption
<1>1. /\ popPc = "read" /\ popPc' = "release" /\ Released = dequeue - 1
      /\ held' = value[Index(Released)]
      /\ value' = [value EXCEPT ![Index(Released)] = NoValue]
      /\ enqueue' = enqueue /\ dequeue' = dequeue /\ sequence' = sequence /\ out' = out
      /\ pc' = pc /\ position' = position /\ item' = item /\ Released' = Released
  BY Zenon DEF ReadValue, pushVars, Released
<1>2. /\ Released \in Nat /\ Released < enqueue /\ enqueue \in Nat
      /\ sequence[Index(Released)] = Released + 1 /\ Index(Released) \in Slot
  BY <1>1, IndexType DEF RingInv, TypeOK, Counters, HeadFilled
<1>3. \A k \in Nat : InWindow(k) /\ k # Released => Index(k) # Index(Released)
  BY <1>2, IndexApart DEF InWindow
<1>4. value \in [Slot -> Value \cup {NoValue}] /\ \A k \in Nat : Index(k) \in Slot
  BY IndexType, Zenon DEF RingInv, TypeOK
<1>5. TypeOK'
  BY <1>1, <1>2, Zenon DEF RingInv, TypeOK
<1>6. (Counters /\ Window /\ NoSlotBehind /\ HeadFilled)'
  BY <1>1, Zenon DEF RingInv, Counters, Window, NoSlotBehind, HeadFilled, InWindow
<1>7. FilledHasValue'
  BY <1>1, <1>2, <1>3, <1>4, Zenon DEF RingInv, FilledHasValue, InWindow
<1>8. (CasInWindow /\ ReservedApart)'
  BY <1>1, Zenon DEF RingInv, CasInWindow, ReservedApart, Writing
<1>9. \A q \in Producer : Writing(q) => position[q] \in Nat /\ Index(position[q]) # Index(Released)
  BY <1>2, <1>3 DEF RingInv, TypeOK, Counters, Reserved, InWindow
<1>10. Reserved'
  BY <1>1, <1>2, <1>4, <1>9, Zenon DEF RingInv, Reserved, Writing
<1> QED BY <1>5, <1>6, <1>7, <1>8, <1>10, Zenon DEF RingInv

(* The head's slot is given to the next lap: the window moves up by one.    *)
LEMMA ReleaseStep ==
  ASSUME RingInv, ReleaseSlot
  PROVE  RingInv'
<1> USE RingAssumption
<1> DEFINE r == Released
<1>1. /\ popPc = "release" /\ popPc' = "idle" /\ r = dequeue - 1 /\ Released' = r + 1
      /\ sequence' = [sequence EXCEPT ![Index(r)] = r + Capacity]
      /\ held' = NoValue /\ out' = held /\ value' = value
      /\ enqueue' = enqueue /\ dequeue' = dequeue
      /\ pc' = pc /\ position' = position /\ item' = item
  BY DEF ReleaseSlot, pushVars, Released, RingInv, TypeOK
<1>2. /\ r \in Nat /\ r < enqueue /\ enqueue \in Nat /\ enqueue <= r + Capacity
      /\ sequence[Index(r)] = r + 1 /\ Index(r) \in Slot /\ Index(r + Capacity) = Index(r)
  BY <1>1, IndexType, IndexLap DEF RingInv, TypeOK, Counters, HeadFilled
<1>3. \A k \in Nat : InWindow(k) /\ k # r => Index(k) # Index(r)
  BY <1>2, IndexApart DEF InWindow
<1>4. sequence \in [Slot -> Nat] /\ \A k \in Nat : Index(k) \in Slot
  BY IndexType, Zenon DEF RingInv, TypeOK
<1>5. \A k \in Nat : InWindow(k)' => k = r + Capacity \/ (InWindow(k) /\ k # r)
  BY <1>1, <1>2 DEF InWindow
<1>6. TypeOK'
  BY <1>1, <1>2 DEF RingInv, TypeOK
<1>7. Counters' /\ HeadFilled'
  BY <1>1, <1>2 DEF RingInv, Counters, HeadFilled
<1>8. Window'
  BY <1>1, <1>2, <1>3, <1>4, <1>5, Zenon DEF RingInv, Window
<1>9. NoSlotBehind'
  BY <1>1, <1>2, <1>4 DEF RingInv, NoSlotBehind
<1>10. FilledHasValue'
  BY <1>1, <1>2, <1>3, <1>4, <1>5 DEF RingInv, FilledHasValue
<1>11. CasInWindow'
  BY <1>1, <1>2 DEF RingInv, TypeOK, CasInWindow
<1>12. \A q \in Producer : Writing(q) =>
          position[q] \in Nat /\ position[q] # r /\ Index(position[q]) # Index(r)
  BY <1>2, <1>3 DEF RingInv, TypeOK, Reserved, InWindow
<1>13. Reserved' /\ ReservedApart'
  BY <1>1, <1>2, <1>4, <1>12 DEF RingInv, TypeOK, Reserved, ReservedApart, Writing
<1> QED BY <1>6, <1>7, <1>8, <1>9, <1>10, <1>11, <1>13, Zenon DEF RingInv

(* Every step keeps the window. *)
LEMMA RingInvStep == RingInv /\ [Next]_vars => RingInv'
<1> SUFFICES ASSUME RingInv, [Next]_vars PROVE RingInv'
  BY Zenon
<1>0. RingInv => /\ position \in [Producer -> Nat] /\ item \in [Producer -> Value \cup {NoValue}]
                 /\ enqueue \in Nat /\ \A p \in Producer : position[p] <= enqueue
                 /\ sequence \in [Slot -> Nat] /\ dequeue \in Nat
  BY Zenon DEF RingInv, TypeOK, CasInWindow
<1>1. ASSUME NEW p \in Producer, NEW v \in Value, TryPush(p, v) PROVE RingInv'
  <2>1. position' = [position EXCEPT ![p] = position[p]]
    BY <1>0, <1>1, Zenon DEF TryPush
  <2>2. /\ pc' = [pc EXCEPT ![p] = "start"] /\ item' = [item EXCEPT ![p] = v]
        /\ UNCHANGED <<ringVars, popVars>> /\ v # NoValue
    BY <1>1, RingAssumption, Zenon DEF TryPush
  <2> QED BY <1>0, <2>1, <2>2, LocalStep, Zenon
<1>2. ASSUME NEW p \in Producer, LoadPosition(p) PROVE RingInv'
  <2>1. item' = [item EXCEPT ![p] = item[p]] /\ item[p] \in Value \cup {NoValue}
    BY <1>0, <1>2, Zenon DEF LoadPosition
  <2>2. item[p] # NoValue
    BY <1>2, Zenon DEF LoadPosition, RingInv, CasInWindow
  <2>3. /\ pc' = [pc EXCEPT ![p] = "load"] /\ position' = [position EXCEPT ![p] = enqueue]
        /\ UNCHANGED <<ringVars, popVars>>
    BY <1>2, Zenon DEF LoadPosition
  <2>4. enqueue \in Nat /\ enqueue <= enqueue
    BY <1>0
  <2> QED BY <2>1, <2>2, <2>3, <2>4, LocalStep, Zenon
<1>3. ASSUME NEW p \in Producer, SlotFree(p) PROVE RingInv'
  <2>1. /\ item' = [item EXCEPT ![p] = item[p]] /\ item[p] \in Value \cup {NoValue}
        /\ position' = [position EXCEPT ![p] = position[p]] /\ position[p] \in Nat
        /\ position[p] <= enqueue
    BY <1>0, <1>3, Zenon DEF SlotFree
  <2>2. item[p] # NoValue
    BY <1>3, Zenon DEF SlotFree, RingInv, CasInWindow
  <2>3. pc' = [pc EXCEPT ![p] = "cas"] /\ UNCHANGED <<ringVars, popVars>>
    BY <1>3, Zenon DEF SlotFree
  <2>4. position[p] < Released + Capacity
    <3> SUFFICES ASSUME ~(position[p] < Released + Capacity) PROVE FALSE
      BY Zenon
    <3>1. /\ position[p] = enqueue /\ enqueue = Released + Capacity
          /\ Released \in Nat /\ Capacity \in Nat /\ Capacity >= 2
      BY <2>1, <1>0, RingAssumption DEF RingInv, TypeOK, Counters, Released
    <3>2. sequence[Index(Released)] = Released + Capacity
      BY <1>3, <3>1, IndexLap, Zenon DEF SlotFree
    <3>3. sequence[Index(Released)] \in {Released, Released + 1}
      BY <3>1 DEF RingInv, Window, InWindow
    <3> QED BY <3>1, <3>2, <3>3
  <2> QED BY <2>1, <2>2, <2>3, <2>4, LocalStep, Zenon
<1>4. ASSUME NEW p \in Producer, RingFull(p) PROVE RingInv'
  <2>1. position' = [position EXCEPT ![p] = position[p]]
    BY <1>0, <1>4, Zenon DEF RingFull
  <2>2. /\ pc' = [pc EXCEPT ![p] = "idle"] /\ item' = [item EXCEPT ![p] = NoValue]
        /\ UNCHANGED <<ringVars, popVars>>
    BY <1>4, Zenon DEF RingFull
  <2> QED BY <1>0, <2>1, <2>2, LocalStep, Zenon
<1>5. ASSUME NEW p \in Producer, SlotTaken(p) PROVE RingInv'
  <2>1. /\ item' = [item EXCEPT ![p] = item[p]] /\ item[p] \in Value \cup {NoValue}
        /\ position' = [position EXCEPT ![p] = position[p]] /\ position[p] \in Nat
        /\ position[p] <= enqueue
    BY <1>0, <1>5, Zenon DEF SlotTaken
  <2>2. item[p] # NoValue
    BY <1>5, Zenon DEF SlotTaken, RingInv, CasInWindow
  <2>3. pc' = [pc EXCEPT ![p] = "start"] /\ UNCHANGED <<ringVars, popVars>>
    BY <1>5, Zenon DEF SlotTaken
  <2> QED BY <2>1, <2>2, <2>3, LocalStep, Zenon
<1>6. ASSUME NEW p \in Producer, ReserveFails(p) PROVE RingInv'
  <2>1. item' = [item EXCEPT ![p] = item[p]] /\ item[p] \in Value \cup {NoValue}
    BY <1>0, <1>6, Zenon DEF ReserveFails
  <2>2. item[p] # NoValue
    BY <1>6, Zenon DEF ReserveFails, RingInv, CasInWindow
  <2>3. /\ pc' = [pc EXCEPT ![p] = "load"] /\ position' = [position EXCEPT ![p] = enqueue]
        /\ UNCHANGED <<ringVars, popVars>>
    BY <1>6, Zenon DEF ReserveFails
  <2>4. enqueue \in Nat /\ enqueue <= enqueue
    BY <1>0
  <2> QED BY <2>1, <2>2, <2>3, <2>4, LocalStep, Zenon
<1>7. CASE UNCHANGED vars
  <2>1. Released' = Released
    BY <1>7, Zenon DEF vars, Released
  <2> QED BY <1>7, <2>1, Zenon DEF vars, RingInv, TypeOK, Counters, Window, NoSlotBehind,
             FilledHasValue, CasInWindow, Reserved, ReservedApart, HeadFilled, InWindow, Writing
<1> QED BY <1>1, <1>2, <1>3, <1>4, <1>5, <1>6, <1>7, ReserveStep, WriteStep, PublishStep,
           PopStep, ReadStep, ReleaseStep, Zenon DEF Next, Push, TryPop

(* The window tells the slots of concurrent accesses apart. *)
LEMMA RingInvExclusive == RingInv => SlotExclusive
<1> SUFFICES ASSUME RingInv PROVE SlotExclusive
  BY Zenon
<1> USE RingAssumption
<1>1. \A p \in Producer : Writing(p) =>
         position[p] \in Nat /\ InWindow(position[p]) /\ sequence[Index(position[p])] = position[p]
  BY DEF RingInv, TypeOK, Counters, Reserved, InWindow, Released
<1>2. Released \in Int
  BY DEF RingInv, TypeOK, Released
<1>3. ASSUME NEW p \in Producer, NEW q \in Producer, Writing(p), Writing(q), p # q
      PROVE  Index(position[p]) # Index(position[q])
  <2>1. position[p] # position[q]
    BY <1>3, Zenon DEF RingInv, ReservedApart
  <2> QED BY <1>1, <1>2, <1>3, <2>1, IndexApart, Zenon DEF InWindow
<1>4. ASSUME popPc \in {"advance", "read"}
      PROVE  /\ value[Index(Released)] # NoValue
             /\ \A p \in Producer : Writing(p) => Index(position[p]) # Index(Released)
  <2>1. /\ Released \in Nat /\ Released < enqueue /\ InWindow(Released)
        /\ sequence[Index(Released)] = Released + 1
    BY <1>4 DEF RingInv, TypeOK, Counters, HeadFilled, InWindow, Released
  <2>2. value[Index(Released)] # NoValue
    BY <1>4, <2>1, Zenon DEF RingInv, FilledHasValue
  <2>3. ASSUME NEW p \in Producer, Writing(p) PROVE Index(position[p]) # Index(Released)
    <3>1. position[p] # Released
      BY <1>1, <2>1, <2>3
    <3> QED BY <1>1, <2>1, <2>3, <3>1, IndexApart DEF InWindow
  <2> QED BY <2>2, <2>3, Zenon
<1> QED BY <1>3, <1>4, Zenon DEF SlotExclusive

(* THEOREM.  Whatever the capacity, the producers and the interleaving, the *)
(* unsynchronised accesses of try_push and try_pop to a slot never meet,    *)
(* and try_pop reads only slots that a producer has filled.                 *)
THEOREM RingExclusive == Spec => []SlotExclusive
<1>1. Spec => []RingInv
  BY RingInvInit, RingInvStep, PTL DEF Spec
<1> QED BY <1>1, RingInvExclusive, PTL

(* THEOREM.  try_push gives a value back only when Capacity positions are   *)
(* reserved and not released: it never refuses a ring with a free slot.     *)
THEOREM RingRefusal == Spec => RefusedOnlyWhenFull
<1>1. Spec => []RingInv
  BY RingInvInit, RingInvStep, PTL DEF Spec
<1>2. RingInv => \A p \in Producer : RingFull(p) => enqueue - Released = Capacity
  <2> SUFFICES ASSUME RingInv, NEW p \in Producer, RingFull(p) PROVE enqueue - Released = Capacity
    BY Zenon
  <2>1. /\ position[p] \in Nat /\ position[p] <= enqueue /\ enqueue \in Nat /\ Released \in Int
        /\ sequence[Index(position[p])] \in Nat /\ enqueue <= Released + Capacity
        /\ Capacity \in Nat
    BY RingAssumption, IndexType DEF RingInv, TypeOK, CasInWindow, Counters, Released
  <2>2. sequence[Index(position[p])] < position[p]
    BY Zenon DEF RingFull
  <2>3. ~(position[p] < Released + Capacity)
    BY <2>1, <2>2 DEF RingInv, NoSlotBehind
  <2> QED BY <2>1, <2>3
<1>3. RingInv /\ [Next]_vars =>
        [\A p \in Producer : RingFull(p) => enqueue - Released = Capacity]_vars
  BY <1>2, Zenon
<1> QED BY <1>1, <1>3, PTL DEF Spec, RefusedOnlyWhenFull

-----------------------------------------------------------------------------
(* The refinement.  First, what the steps do to a sequence. *)

(* A function that continues another one by one place is the sequence with  *)
(* that place appended.                                                     *)
LEMMA LongerIsAppend ==
  ASSUME NEW n \in Nat, NEW f, NEW g,
         f = [i \in 1 .. n |-> f[i]],
         g = [i \in 1 .. (n + 1) |-> g[i]],
         \A i \in 1 .. n : g[i] = f[i]
  PROVE  Len(f) = n /\ g = Append(f, g[n + 1])
<1> DEFINE S == {g[i] : i \in 1 .. (n + 1)}
<1>1. f \in [1 .. n -> S] /\ g \in [1 .. (n + 1) -> S] /\ g[n + 1] \in S
  OBVIOUS
<1> HIDE DEF S
<1>2. f \in Seq(S) /\ Len(f) = n /\ g \in Seq(S) /\ Len(g) = n + 1
  BY <1>1
<1> DEFINE a == Append(f, g[n + 1])
<1>3. /\ a \in Seq(S) /\ Len(a) = Len(f) + 1
      /\ \A i \in 1 .. Len(f) : a[i] = f[i]
      /\ a[Len(f) + 1] = g[n + 1]
  BY <1>1, <1>2
<1> HIDE DEF a
<1>4. ASSUME NEW i \in 1 .. (n + 1) PROVE g[i] = a[i]
  <2>1. CASE i = n + 1
    BY <2>1, <1>2, <1>3, Zenon
  <2>2. CASE i \in 1 .. n
    BY <2>2, <1>2, <1>3, Zenon
  <2> QED BY <2>1, <2>2
<1>5. Len(g) = Len(a)
  BY <1>2, <1>3, Zenon
<1>6. g = a
  BY <1>2, <1>3, <1>4, <1>5
<1> QED BY <1>2, <1>6, Zenon DEF a

(* A function shifted down by one place is the tail of the sequence. *)
LEMMA ShiftedIsTail ==
  ASSUME NEW n \in Nat, NEW f, NEW g,
         f = [i \in 1 .. (n + 1) |-> f[i]],
         g = [i \in 1 .. n |-> g[i]],
         \A i \in 1 .. n : g[i] = f[i + 1]
  PROVE  f # <<>> /\ g = Tail(f)
<1> DEFINE S == {f[i] : i \in 1 .. (n + 1)}
<1>1. \A i \in 1 .. n : i + 1 \in 1 .. (n + 1)
  OBVIOUS
<1>2. f \in [1 .. (n + 1) -> S] /\ g \in [1 .. n -> S]
  BY <1>1, Zenon
<1> HIDE DEF S
<1>3. f \in Seq(S) /\ Len(f) = n + 1 /\ g \in Seq(S) /\ Len(g) = n
  BY <1>2
<1>4. f # <<>>
  BY <1>3
<1> DEFINE t == Tail(f)
<1>5. t \in Seq(S) /\ Len(t) = Len(f) - 1 /\ \A i \in 1 .. Len(t) : t[i] = f[i + 1]
  BY <1>3, <1>4
<1> HIDE DEF t
<1>6. Len(t) = n
  BY <1>3, <1>5
<1>7. ASSUME NEW i \in 1 .. n PROVE g[i] = t[i]
  <2>1. t[i] = f[i + 1]
    BY <1>5, <1>6, Zenon
  <2> QED BY <2>1, Zenon
<1>8. g = t
  BY <1>3, <1>5, <1>6, <1>7
<1> QED BY <1>4, <1>8, Zenon DEF t

-----------------------------------------------------------------------------
(* Every position that is reserved and not filled has a producer that will  *)
(* fill it.                                                                 *)
Owned ==
    \A k \in Nat : Released <= k /\ k < enqueue /\ sequence[Index(k)] = k =>
        \E p \in Producer : Writing(p) /\ position[p] = k

(* The inductive invariant of the refinement. *)
QueueInv == RingInv /\ Owned

(* No position is reserved at the start. *)
LEMMA OwnedInit == Init => Owned
  BY DEF Init, Owned, Released

(* The compare-and-swap makes its caller the owner, and the publication,    *)
(* which ends the ownership, fills the slot.                                *)
LEMMA OwnedStep == QueueInv /\ [Next]_vars => Owned'
<1> SUFFICES ASSUME RingInv, Owned, [Next]_vars PROVE Owned'
  BY Zenon DEF QueueInv
<1> USE RingAssumption
<1>0. /\ pc \in [Producer -> {"idle", "start", "load", "cas", "write", "publish"}]
      /\ position \in [Producer -> Nat] /\ sequence \in [Slot -> Nat]
      /\ enqueue \in Nat /\ dequeue \in Nat /\ Released \in Int
      /\ \A k \in Nat : Index(k) \in Slot
  BY IndexType DEF RingInv, TypeOK, Released
<1>1. ASSUME NEW p \in Producer,
             \/ \E v \in Value : TryPush(p, v)
             \/ LoadPosition(p) \/ SlotFree(p) \/ RingFull(p) \/ SlotTaken(p) \/ ReserveFails(p)
      PROVE  Owned'
  <2>1. enqueue' = enqueue /\ sequence' = sequence /\ Released' = Released
    BY <1>1, Zenon DEF TryPush, LoadPosition, SlotFree, RingFull, SlotTaken, ReserveFails,
                ringVars, popVars, Released
  <2>2. \A q \in Producer : Writing(q) => pc'[q] = pc[q] /\ position'[q] = position[q]
    BY <1>0, <1>1, Zenon DEF TryPush, LoadPosition, SlotFree, RingFull, SlotTaken, ReserveFails, Writing
  <2> QED BY <2>1, <2>2, Zenon DEF Owned, Writing
<1>2. ASSUME NEW p \in Producer, ReservePosition(p) PROVE Owned'
  <2>1. /\ enqueue' = enqueue + 1 /\ sequence' = sequence /\ Released' = Released
        /\ position[p] = enqueue /\ position' = position /\ pc' = [pc EXCEPT ![p] = "write"]
    BY <1>2, Zenon DEF ReservePosition, popVars, Released
  <2>2. \A q \in Producer : Writing(q) => Writing(q)'
    BY <1>0, <2>1, Zenon DEF Writing
  <2>3. Writing(p)' /\ position'[p] = enqueue
    BY <1>0, <2>1, Zenon DEF Writing
  <2> QED BY <1>0, <2>1, <2>2, <2>3 DEF Owned
<1>3. ASSUME NEW p \in Producer, WriteValue(p) PROVE Owned'
  <2>1. /\ enqueue' = enqueue /\ sequence' = sequence /\ Released' = Released
        /\ position' = position /\ pc' = [pc EXCEPT ![p] = "publish"]
    BY <1>3, Zenon DEF WriteValue, popVars, Released
  <2>2. \A q \in Producer : Writing(q) => Writing(q)'
    BY <1>0, <2>1, Zenon DEF Writing
  <2> QED BY <2>1, <2>2, Zenon DEF Owned
<1>4. ASSUME NEW p \in Producer, PublishSlot(p) PROVE Owned'
  <2>1. /\ enqueue' = enqueue /\ Released' = Released /\ position' = position
        /\ sequence' = [sequence EXCEPT ![Index(position[p])] = position[p] + 1]
        /\ pc' = [pc EXCEPT ![p] = "idle"]
    BY <1>4, Zenon DEF PublishSlot, popVars, Released
  <2>2. \A q \in Producer : Writing(q) /\ q # p => Writing(q)'
    BY <1>0, <2>1, Zenon DEF Writing
  <2>3. sequence'[Index(position[p])] = position[p] + 1
    BY <1>0, <2>1, Zenon
  <2>4. \A k \in Nat : sequence'[Index(k)] = k => k # position[p]
    BY <1>0, <2>3
  <2>5. /\ Released <= position[p] /\ position[p] < enqueue /\ enqueue <= Released + Capacity
        /\ position[p] \in Nat
    BY <1>0, <1>4, Zenon DEF PublishSlot, RingInv, Reserved, Writing, Counters
  <2>6. \A k \in Nat : Released <= k /\ k < enqueue /\ k # position[p] => Index(k) # Index(position[p])
    BY <1>0, <2>5, IndexApart
  <2>7. \A k \in Nat : Released <= k /\ k < enqueue /\ sequence'[Index(k)] = k =>
           sequence[Index(k)] = k /\ k # position[p]
    BY <1>0, <2>1, <2>4, <2>6, Zenon
  <2> QED BY <2>1, <2>2, <2>7, Zenon DEF Owned
<1>5. CASE PopFinds \/ PopFindsNothing \/ AdvanceDequeue \/ ReadValue \/ UNCHANGED vars
  <2>1. /\ enqueue' = enqueue /\ sequence' = sequence /\ Released' = Released
        /\ pc' = pc /\ position' = position
    BY <1>0, <1>5 DEF PopFinds, PopFindsNothing, AdvanceDequeue, ReadValue, vars, ringVars,
                pushVars, Released
  <2> QED BY <2>1, Zenon DEF Owned, Writing
<1>6. CASE ReleaseSlot
  <2>1. /\ enqueue' = enqueue /\ Released' = Released + 1 /\ pc' = pc /\ position' = position
        /\ sequence' = [sequence EXCEPT ![Index(Released)] = Released + Capacity]
        /\ Released \in Nat /\ enqueue <= Released + Capacity
    BY <1>0, <1>6 DEF ReleaseSlot, pushVars, Released, RingInv, Counters
  <2>2. \A k \in Nat : Released + 1 <= k /\ k < enqueue => Index(k) # Index(Released)
    BY <1>0, <2>1, IndexApart
  <2>3. \A k \in Nat : Released' <= k /\ k < enqueue' /\ sequence'[Index(k)] = k =>
           Released <= k /\ k < enqueue /\ sequence[Index(k)] = k
    BY <1>0, <2>1, <2>2
  <2> QED BY <2>1, <2>3, Zenon DEF Owned, Writing
<1> QED BY <1>1, <1>2, <1>3, <1>4, <1>5, <1>6, Zenon DEF Next, Push, TryPop

-----------------------------------------------------------------------------
(* The queue the ring stands for. *)
Contents == [i \in 1 .. (enqueue - Released) |-> QueueEntry(Released + i - 1)]

(* The value of a reserved and of a filled position. *)
PendingValue(p) == IF pc[p] = "write" THEN item[p] ELSE value[Index(position[p])]

FilledValue(k) == IF popPc = "release" /\ k = Released THEN held ELSE value[Index(k)]

(* One producer writes into a position, so it is the position's writer. *)
WriterEntries ==
    \A p \in Producer : Writing(p) =>
        QueueEntry(position[p]) = [val |-> PendingValue(p), writer |-> p]

(* The invariant gives every writer its entry. *)
LEMMA WriterEntry == QueueInv => WriterEntries
<1> SUFFICES ASSUME QueueInv, NEW p \in Producer, Writing(p)
             PROVE  QueueEntry(position[p]) = [val |-> PendingValue(p), writer |-> p]
  BY Zenon DEF WriterEntries
<1>1. sequence[Index(position[p])] = position[p]
  BY Zenon DEF QueueInv, RingInv, Reserved
<1>2. WriterOf(position[p]) \in Producer /\ Writing(WriterOf(position[p]))
      /\ position[WriterOf(position[p])] = position[p]
  BY Zenon DEF WriterOf
<1>3. WriterOf(position[p]) = p
  BY <1>2, Zenon DEF QueueInv, RingInv, ReservedApart
<1> QED BY <1>1, <1>3, Zenon DEF QueueEntry, PendingValue

(* A position that is not reserved by a writer is filled. *)
LEMMA FilledEntry ==
  QueueInv => \A k \in Nat : sequence[Index(k)] # k =>
                 QueueEntry(k) = [val |-> FilledValue(k), writer |-> NoProducer]
  BY Zenon DEF QueueEntry, FilledValue

(* An entry's writer is a producer that writes, or none. *)
LEMMA WriterIsWriting ==
  ASSUME QueueInv, NEW k \in Nat, Released <= k, k < enqueue
  PROVE  \/ sequence[Index(k)] # k /\ QueueEntry(k).writer = NoProducer
         \/ \E p \in Producer :
               Writing(p) /\ position[p] = k /\ QueueEntry(k).writer = p
<1>1. CASE sequence[Index(k)] = k
  <2>1. PICK p \in Producer : Writing(p) /\ position[p] = k
    BY <1>1, Zenon DEF QueueInv, Owned
  <2>2. QueueEntry(k) = [val |-> PendingValue(p), writer |-> p]
    BY <2>1, WriterEntry, Zenon DEF WriterEntries
  <2> QED BY <2>1, <2>2
<1>2. CASE sequence[Index(k)] # k
  BY <1>2, FilledEntry
<1> QED BY <1>1, <1>2, Zenon

(* The same of the state after a step. *)
LEMMA WriterEntryNext == QueueInv' => WriterEntries'
  BY WriterEntry, PTL

(* A step that leaves a position's slot, writer and value alone leaves its  *)
(* entry alone.                                                             *)
LEMMA SameEntry ==
  ASSUME QueueInv, QueueInv', NEW k \in Nat, Released <= k, k < enqueue,
         sequence'[Index(k)] = sequence[Index(k)],
         \A p \in Producer : Writing(p) /\ position[p] = k =>
            Writing(p)' /\ position'[p] = k /\ PendingValue(p)' = PendingValue(p),
         sequence[Index(k)] # k => FilledValue(k)' = FilledValue(k)
  PROVE  QueueEntry(k)' = QueueEntry(k)
<1>1. CASE sequence[Index(k)] = k
  <2>1. PICK p \in Producer : Writing(p) /\ position[p] = k
    BY <1>1, Zenon DEF QueueInv, Owned
  <2>2. QueueEntry(k) = [val |-> PendingValue(p), writer |-> p]
    BY <2>1, WriterEntry, Zenon DEF WriterEntries
  <2>4. QueueEntry(k)' = [val |-> PendingValue(p)', writer |-> p]
    BY <2>1, WriterEntryNext, Zenon DEF WriterEntries
  <2> QED BY <2>1, <2>2, <2>4, Zenon
<1>2. CASE sequence[Index(k)] # k
  <2>1. QueueEntry(k) = [val |-> FilledValue(k), writer |-> NoProducer]
    BY <1>2, FilledEntry, Zenon
  <2>2. QueueEntry(k)' = [val |-> FilledValue(k)', writer |-> NoProducer]
    BY <1>2, Zenon DEF QueueEntry, FilledValue
  <2> QED BY <1>2, <2>1, <2>2, Zenon
<1> QED BY <1>1, <1>2, Zenon

-----------------------------------------------------------------------------
(* The window, as the steps use it. *)
LEMMA WindowFacts ==
  ASSUME QueueInv
  PROVE  /\ enqueue \in Nat /\ dequeue \in Nat /\ Released \in Nat
         /\ Released <= enqueue /\ enqueue <= Released + Capacity
         /\ \A k \in Nat : Index(k) \in Slot
         /\ pc \in [Producer -> {"idle", "start", "load", "cas", "write", "publish"}]
         /\ position \in [Producer -> Nat]
         /\ item \in [Producer -> Value \cup {NoValue}]
         /\ sequence \in [Slot -> Nat]
         /\ value \in [Slot -> Value \cup {NoValue}]
         /\ \A p \in Producer : Writing(p) => Released <= position[p] /\ position[p] < enqueue
         /\ \A i, j \in Nat : Released <= i /\ i < enqueue /\ Released <= j /\ j < enqueue
                                /\ i # j => Index(i) # Index(j)
<1> USE RingAssumption
<1>1. /\ enqueue \in Nat /\ dequeue \in Nat /\ Released \in Nat
      /\ Released <= enqueue /\ enqueue <= Released + Capacity
  BY DEF QueueInv, RingInv, TypeOK, Counters, Released
<1>2. \A i, j \in Nat : Released <= i /\ i < enqueue /\ Released <= j /\ j < enqueue
                          /\ i # j => Index(i) # Index(j)
  <2> SUFFICES ASSUME NEW i \in Nat, NEW j \in Nat, Released <= i, i < enqueue,
                      Released <= j, j < enqueue, i # j
               PROVE  Index(i) # Index(j)
    BY Zenon
  <2>1. CASE i < j
    BY <1>1, <2>1, IndexApart
  <2>2. CASE j < i
    BY <1>1, <2>2, IndexApart
  <2> QED BY <2>1, <2>2
<1> QED BY <1>1, <1>2, IndexType, Zenon DEF QueueInv, RingInv, TypeOK, Reserved

(* The steps that change no entry: try_push before it reserves, the write   *)
(* of the value, and try_pop before it releases.                            *)
Quiet ==
    \/ \E p \in Producer :
          \/ \E v \in Value : TryPush(p, v)
          \/ LoadPosition(p) \/ SlotFree(p) \/ RingFull(p) \/ SlotTaken(p) \/ ReserveFails(p)
          \/ WriteValue(p)
    \/ PopFinds \/ AdvanceDequeue \/ ReadValue
    \/ UNCHANGED vars

(* They move neither end of the window and store no sequence number. *)
LEMMA SameCounters ==
  ASSUME QueueInv, Quiet \/ PopFindsNothing
  PROVE  enqueue' = enqueue /\ Released' = Released /\ sequence' = sequence
  BY WindowFacts DEF Quiet, TryPush, LoadPosition, SlotFree, RingFull, SlotTaken, ReserveFails,
     WriteValue, PopFinds, PopFindsNothing, AdvanceDequeue, ReadValue, ringVars, pushVars,
     popVars, vars, Released

(* A producer that writes keeps its position and its value: another         *)
(* producer's write, and the consumer's read, are in other slots.           *)
LEMMA SamePending ==
  ASSUME QueueInv, Quiet \/ PopFindsNothing, NEW q \in Producer, Writing(q)
  PROVE  Writing(q)' /\ position'[q] = position[q] /\ PendingValue(q)' = PendingValue(q)
<1> USE WindowFacts
<1>1. ASSUME NEW p \in Producer,
             \/ \E v \in Value : TryPush(p, v)
             \/ LoadPosition(p) \/ SlotFree(p) \/ RingFull(p) \/ SlotTaken(p) \/ ReserveFails(p)
      PROVE  /\ pc'[q] = pc[q] /\ position'[q] = position[q] /\ item'[q] = item[q]
             /\ value' = value
  BY <1>1, Zenon DEF TryPush, LoadPosition, SlotFree, RingFull, SlotTaken, ReserveFails, Writing, ringVars
<1>2. ASSUME NEW p \in Producer, WriteValue(p)
      PROVE  Writing(q)' /\ position'[q] = position[q] /\ PendingValue(q)' = PendingValue(q)
  <2>1. /\ pc[p] = "write" /\ pc' = [pc EXCEPT ![p] = "publish"] /\ position' = position
        /\ item' = [item EXCEPT ![p] = NoValue]
        /\ value' = [value EXCEPT ![Index(position[p])] = item[p]]
    BY <1>2, Zenon DEF WriteValue
  <2>2. CASE q = p
    BY <2>1, <2>2, Zenon DEF Writing, PendingValue
  <2>3. CASE q # p
    <3>1. Writing(p) /\ position[p] # position[q]
      BY <2>1, <2>3, Zenon DEF Writing, QueueInv, RingInv, ReservedApart
    <3>2. Index(position[q]) # Index(position[p])
      BY <3>1, Zenon
    <3>3. pc'[q] = pc[q] /\ item'[q] = item[q] /\ value'[Index(position[q])] = value[Index(position[q])]
      BY <2>1, <2>3, <3>2, Zenon
    <3> QED BY <2>1, <3>3, Zenon DEF Writing, PendingValue
  <2> QED BY <2>2, <2>3, Zenon
<1>3. CASE ReadValue
  <2>1. /\ pc' = pc /\ position' = position /\ item' = item
        /\ value' = [value EXCEPT ![Index(Released)] = NoValue]
    BY <1>3, Zenon DEF ReadValue, pushVars, Released
  <2>2. Released < enqueue /\ sequence[Index(Released)] = Released + 1
    BY <1>3, Zenon DEF ReadValue, QueueInv, RingInv, HeadFilled
  <2>3. sequence[Index(position[q])] = position[q] /\ position[q] \in Nat
    BY Zenon DEF QueueInv, RingInv, Reserved
  <2>4. position[q] # Released
    BY <2>2, <2>3
  <2>5. Index(position[q]) # Index(Released)
    BY <2>2, <2>3, <2>4
  <2>6. value'[Index(position[q])] = value[Index(position[q])]
    BY <2>1, <2>3, <2>5, Zenon
  <2> QED BY <2>1, <2>6, Zenon DEF Writing, PendingValue
<1>4. CASE PopFinds \/ PopFindsNothing \/ AdvanceDequeue \/ UNCHANGED vars
  BY <1>4, Zenon DEF PopFinds, PopFindsNothing, AdvanceDequeue, vars, pushVars, ringVars, Writing, PendingValue
<1> QED BY <1>1, <1>2, <1>3, <1>4, Zenon DEF Quiet, Writing, PendingValue

(* A filled position keeps its value, which ReadValue moves from the slot   *)
(* to the consumer's hand.                                                  *)
LEMMA SameFilled ==
  ASSUME QueueInv, Quiet \/ PopFindsNothing, NEW k \in Nat, Released <= k, k < enqueue,
         sequence[Index(k)] # k
  PROVE  FilledValue(k)' = FilledValue(k)
<1> USE WindowFacts
<1>0. Released' = Released
  BY SameCounters, Zenon
<1>1. ASSUME NEW p \in Producer, WriteValue(p)
      PROVE  FilledValue(k)' = FilledValue(k)
  <2>1. /\ value' = [value EXCEPT ![Index(position[p])] = item[p]]
        /\ popPc' = popPc /\ held' = held /\ Writing(p)
    BY <1>1, Zenon DEF WriteValue, popVars, Writing
  <2>2. position[p] # k
    BY <2>1, Zenon DEF QueueInv, RingInv, Reserved
  <2>3. Index(k) # Index(position[p])
    BY <2>1, <2>2, Zenon
  <2>4. value'[Index(k)] = value[Index(k)]
    BY <2>1, <2>3, Zenon
  <2> QED BY <1>0, <2>1, <2>4, Zenon DEF FilledValue
<1>2. CASE ReadValue
  <2>1. /\ popPc = "read" /\ popPc' = "release" /\ held' = value[Index(Released)]
        /\ value' = [value EXCEPT ![Index(Released)] = NoValue]
    BY <1>2, Zenon DEF ReadValue, Released
  <2>2. CASE k = Released
    BY <1>0, <2>1, <2>2, Zenon DEF FilledValue
  <2>3. CASE k # Released
    <3>1. Index(k) # Index(Released)
      BY <2>3
    <3>2. value'[Index(k)] = value[Index(k)]
      BY <2>1, <3>1, Zenon
    <3> QED BY <1>0, <2>1, <2>3, <3>2, Zenon DEF FilledValue
  <2> QED BY <2>2, <2>3, Zenon
<1>3. CASE PopFinds \/ PopFindsNothing \/ AdvanceDequeue
  <2>1. value' = value /\ popPc # "release" /\ popPc' # "release"
    BY <1>3, Zenon DEF PopFinds, PopFindsNothing, AdvanceDequeue, ringVars
  <2> QED BY <2>1, Zenon DEF FilledValue
<1>4. CASE \/ UNCHANGED vars
           \/ \E p \in Producer :
                 \/ \E v \in Value : TryPush(p, v)
                 \/ LoadPosition(p) \/ SlotFree(p) \/ RingFull(p) \/ SlotTaken(p) \/ ReserveFails(p)
  <2>1. value' = value /\ popPc' = popPc /\ held' = held
    BY <1>4, Zenon DEF TryPush, LoadPosition, SlotFree, RingFull, SlotTaken, ReserveFails, ringVars,
                popVars, vars
  <2> QED BY <1>0, <2>1, Zenon DEF FilledValue
<1> QED BY <1>1, <1>2, <1>3, <1>4, Zenon DEF Quiet

(* So the queue stays as it is. *)
LEMMA SameContents ==
  ASSUME QueueInv, QueueInv', Quiet \/ PopFindsNothing
  PROVE  Contents' = Contents
<1>1. enqueue' = enqueue /\ Released' = Released /\ sequence' = sequence
  BY SameCounters, Zenon
<1>2. enqueue \in Nat /\ Released \in Nat
  BY WindowFacts, Zenon
<1>3. \A k \in Nat : Released <= k /\ k < enqueue => QueueEntry(k)' = QueueEntry(k)
  BY <1>1, SameEntry, SamePending, SameFilled, Zenon
<1>4. \A i \in 1 .. (enqueue - Released) : QueueEntry(Released + i - 1)' = QueueEntry(Released + i - 1)
  <2> TAKE i \in 1 .. (enqueue - Released)
  <2>1. /\ Released + i - 1 \in Nat /\ Released <= Released + i - 1
        /\ Released + i - 1 < enqueue
    BY <1>2
  <2> QED BY <1>1, <1>3, <2>1, Zenon
<1> QED BY <1>1, <1>4, Zenon DEF Contents

-----------------------------------------------------------------------------
(* compare_exchange_weak takes the next place of the queue. *)
LEMMA ReserveRefines ==
  ASSUME QueueInv, QueueInv', NEW p \in Producer, ReservePosition(p)
  PROVE  \E v \in Value : Queue!Reserve(p, v)
<1> USE WindowFacts
<1>0. PICK n \in Nat : n = enqueue - Released
  OBVIOUS
<1>1. /\ pc[p] = "cas" /\ enqueue = position[p] /\ enqueue' = enqueue + 1
      /\ pc' = [pc EXCEPT ![p] = "write"] /\ position' = position /\ item' = item
      /\ sequence' = sequence /\ value' = value /\ popPc' = popPc /\ held' = held
      /\ out' = out /\ Released' = Released
  BY Zenon DEF ReservePosition, popVars, Released
<1>2. item[p] \in Value /\ n \in Nat /\ n < Capacity /\ n + 1 = enqueue' - Released'
  BY <1>0, <1>1, RingAssumption DEF QueueInv, RingInv, CasInWindow
<1>3. \A q \in Producer : Writing(q) =>
         Writing(q)' /\ position'[q] = position[q] /\ PendingValue(q)' = PendingValue(q)
  BY <1>1, Zenon DEF Writing, PendingValue
<1>4. \A k \in Nat : Released <= k /\ k < enqueue => QueueEntry(k)' = QueueEntry(k)
  <2> SUFFICES ASSUME NEW k \in Nat, Released <= k, k < enqueue
               PROVE  QueueEntry(k)' = QueueEntry(k)
    BY Zenon
  <2>1. FilledValue(k)' = FilledValue(k)
    BY <1>1, Zenon DEF FilledValue
  <2> QED BY <1>1, <1>3, <2>1, SameEntry, Zenon
<1>5. \A k \in Nat : k = enqueue => QueueEntry(k)' = [val |-> item[p], writer |-> p]
  <2>1. Writing(p)' /\ PendingValue(p)' = item[p] /\ position'[p] = enqueue
    BY <1>1, Zenon DEF Writing, PendingValue
  <2> QED BY <2>1, WriterEntryNext, Zenon DEF WriterEntries
<1>6. /\ Contents = [i \in 1 .. n |-> QueueEntry(Released + i - 1)]
      /\ Contents' = [i \in 1 .. (n + 1) |-> QueueEntry(Released + i - 1)']
  BY <1>0, <1>1, <1>2, Zenon DEF Contents
<1>7. ASSUME NEW i \in 1 .. n PROVE Contents'[i] = Contents[i]
  <2>1. Released + i - 1 \in Nat /\ Released <= Released + i - 1 /\ Released + i - 1 < enqueue
    BY <1>0, <1>2
  <2>2. QueueEntry(Released + i - 1)' = QueueEntry(Released + i - 1)
    BY <1>1, <1>4, <2>1, Zenon
  <2> QED BY <1>2, <1>6, <2>2
<1>8. Contents'[n + 1] = [val |-> item[p], writer |-> p]
  <2>1. Released + (n + 1) - 1 = enqueue /\ n + 1 \in 1 .. (n + 1)
    BY <1>0, <1>2
  <2>2. Contents'[n + 1] = QueueEntry(Released + (n + 1) - 1)'
    BY <1>6, <2>1, Zenon
  <2> QED BY <1>1, <1>5, <2>1, <2>2, Zenon
<1>9. Len(Contents) = n /\ Contents' = Append(Contents, [val |-> item[p], writer |-> p])
  <2>1. Contents = [i \in 1 .. n |-> Contents[i]] /\ Contents' = [i \in 1 .. (n + 1) |-> Contents'[i]]
    BY <1>6, Zenon
  <2> QED BY <1>2, <1>7, <1>8, <2>1, LongerIsAppend
<1>10. \A i \in DOMAIN Contents : Contents[i].writer # p
  <2> SUFFICES ASSUME NEW i \in 1 .. n PROVE Contents[i].writer # p
    BY <1>6, Zenon
  <2>1. Released + i - 1 \in Nat /\ Released <= Released + i - 1 /\ Released + i - 1 < enqueue
    BY <1>0, <1>2
  <2>2. Contents[i] = QueueEntry(Released + i - 1)
    BY <1>6, Zenon
  <2> QED BY <1>1, <2>1, <2>2, WriterIsWriting, RingAssumption DEF Writing
<1> QED BY <1>1, <1>2, <1>9, <1>10, Zenon DEF Queue!Reserve, Contents

(* The store of position + 1 fills the caller's place of the queue. *)
LEMMA PublishRefines ==
  ASSUME QueueInv, QueueInv', NEW p \in Producer, PublishSlot(p)
  PROVE  Queue!Fill(p)
<1> USE WindowFacts
<1>0. PICK n \in Nat, k0 \in Nat : n = enqueue - Released /\ k0 = position[p]
  OBVIOUS
<1>1. /\ pc[p] = "publish" /\ pc' = [pc EXCEPT ![p] = "idle"]
      /\ sequence' = [sequence EXCEPT ![Index(k0)] = k0 + 1]
      /\ enqueue' = enqueue /\ position' = position /\ item' = item /\ value' = value
      /\ popPc' = popPc /\ held' = held /\ out' = out /\ Released' = Released
  BY <1>0, Zenon DEF PublishSlot, popVars, Released
<1>2. /\ Writing(p) /\ Released <= k0 /\ k0 < enqueue /\ sequence[Index(k0)] = k0
      /\ sequence'[Index(k0)] = k0 + 1
  BY <1>0, <1>1, Zenon DEF Writing, QueueInv, RingInv, Reserved
<1>3. QueueEntry(k0) = [val |-> value[Index(k0)], writer |-> p]
  BY <1>0, <1>1, <1>2, WriterEntry, Zenon DEF WriterEntries, PendingValue
<1>4. QueueEntry(k0)' = [val |-> value[Index(k0)], writer |-> NoProducer]
  <2>1. ~(popPc = "release" /\ k0 = Released)
    BY <1>2 DEF QueueInv, RingInv, HeadFilled
  <2> QED BY <1>1, <1>2, <2>1 DEF QueueEntry
<1>5. \A k \in Nat : Released <= k /\ k < enqueue /\ k # k0 => QueueEntry(k)' = QueueEntry(k)
  <2> SUFFICES ASSUME NEW k \in Nat, Released <= k, k < enqueue, k # k0
               PROVE  QueueEntry(k)' = QueueEntry(k)
    BY Zenon
  <2>1. Index(k) # Index(k0)
    BY <1>2, Zenon
  <2>2. sequence'[Index(k)] = sequence[Index(k)]
    BY <1>1, <2>1, Zenon
  <2>3. FilledValue(k)' = FilledValue(k)
    BY <1>1, Zenon DEF FilledValue
  <2>4. \A q \in Producer : Writing(q) /\ position[q] = k =>
           Writing(q)' /\ position'[q] = k /\ PendingValue(q)' = PendingValue(q)
    BY <1>0, <1>1, Zenon DEF Writing, PendingValue
  <2> QED BY <2>2, <2>3, <2>4, SameEntry, Zenon
<1>6. /\ Contents = [i \in 1 .. n |-> QueueEntry(Released + i - 1)]
      /\ Contents' = [i \in 1 .. n |-> QueueEntry(Released + i - 1)']
  BY <1>0, <1>1, Zenon DEF Contents
<1>7. PICK i0 \in 1 .. n : Released + i0 - 1 = k0
  <2>1. k0 - Released + 1 \in 1 .. n /\ Released + (k0 - Released + 1) - 1 = k0
    BY <1>0, <1>2
  <2> QED BY <2>1, Zenon
<1>8. Contents[i0] = [val |-> value[Index(k0)], writer |-> p]
      /\ Contents'[i0] = [val |-> value[Index(k0)], writer |-> NoProducer]
  BY <1>1, <1>3, <1>4, <1>6, <1>7, Zenon
<1>9. ASSUME NEW i \in 1 .. n, i # i0 PROVE Contents'[i] = Contents[i]
  <2>1. /\ Released + i - 1 \in Nat /\ Released <= Released + i - 1
        /\ Released + i - 1 < enqueue /\ Released + i - 1 # k0
    BY <1>0, <1>7, <1>9
  <2>2. QueueEntry(Released + i - 1)' = QueueEntry(Released + i - 1)
    BY <1>1, <1>5, <2>1, Zenon
  <2> QED BY <1>6, <2>2, Zenon
<1>10. DOMAIN Contents = 1 .. n /\ DOMAIN Contents' = 1 .. n
  BY <1>6, Zenon
<1>11. Contents' = [Contents EXCEPT ![i0].writer = NoProducer]
  <2>1. Contents' = [i \in 1 .. n |-> Contents'[i]] /\ Contents = [i \in 1 .. n |-> Contents[i]]
    BY <1>6, Zenon
  <2>2. [Contents[i0] EXCEPT !.writer = NoProducer] = Contents'[i0]
    BY <1>8
  <2> QED BY <1>9, <2>1, <2>2, Zenon
<1>12. \E i \in DOMAIN Contents :
          /\ Contents[i].writer = p
          /\ Contents' = [Contents EXCEPT ![i].writer = NoProducer]
          /\ UNCHANGED out
  <2>1. i0 \in DOMAIN Contents /\ Contents[i0].writer = p
    BY <1>7, <1>8, <1>10
  <2> QED BY <1>1, <1>11, <2>1, Zenon
<1> QED BY <1>12, Zenon DEF Queue!Fill, Contents

(* try_pop answers None: the queue has no filled head. *)
LEMMA PopNothingRefines ==
  ASSUME QueueInv, QueueInv', PopFindsNothing
  PROVE  Queue!PopNothing
<1> USE WindowFacts
<1>1. /\ popPc = "idle" /\ Released = dequeue /\ sequence[Index(Released)] # Released + 1
      /\ out' = NoValue
  BY Zenon DEF PopFindsNothing, Released
<1>2. Contents' = Contents
  BY SameContents, Zenon
<1>3. ~(Contents # <<>> /\ Contents[1].writer = NoProducer)
  <2> SUFFICES ASSUME Contents # <<>> PROVE Contents[1].writer # NoProducer
    BY Zenon
  <2>1. Released < enqueue
    <3> SUFFICES ASSUME enqueue = Released PROVE FALSE
      OBVIOUS
    <3>1. enqueue - Released = 0
      OBVIOUS
    <3> QED BY <3>1 DEF Contents
  <2>2. sequence[Index(Released)] = Released
    <3>0. \A x \in Nat : x <= x /\ x < x + Capacity
      BY RingAssumption
    <3>1. InWindow(Released)
      BY <3>0, Zenon DEF InWindow
    <3> QED BY <1>1, <2>1, <3>1, Zenon DEF QueueInv, RingInv, Window
  <2>3. QueueEntry(Released).writer \in Producer
    BY <2>1, <2>2, WriterIsWriting
  <2>4. 1 \in 1 .. (enqueue - Released) /\ Released + 1 - 1 = Released
    BY <2>1
  <2>5. Contents[1] = QueueEntry(Released)
    BY <2>4, Zenon DEF Contents
  <2> QED BY <2>3, <2>5, RingAssumption, Zenon
<1> QED BY <1>1, <1>2, <1>3, Zenon DEF Queue!PopNothing, Queue!HeadIsFilled, Contents

(* The release of the head's slot takes the head from the queue. *)
LEMMA ReleaseRefines ==
  ASSUME QueueInv, QueueInv', ReleaseSlot
  PROVE  Queue!Pop
<1> USE WindowFacts
<1>1. /\ popPc = "release" /\ popPc' = "idle" /\ Released' = Released + 1
      /\ sequence' = [sequence EXCEPT ![Index(Released)] = Released + Capacity]
      /\ out' = held /\ value' = value /\ enqueue' = enqueue
      /\ pc' = pc /\ position' = position /\ item' = item
  BY DEF ReleaseSlot, pushVars, Released
<1>2. Released < enqueue /\ sequence[Index(Released)] = Released + 1
  BY <1>1, Zenon DEF QueueInv, RingInv, HeadFilled
<1>0. PICK n \in Nat, r \in Nat : n + 1 = enqueue - Released /\ r = Released
  <2>1. (enqueue - Released) - 1 \in Nat /\ ((enqueue - Released) - 1) + 1 = enqueue - Released
    BY <1>2
  <2> QED BY <2>1, Zenon
<1>3. QueueEntry(Released) = [val |-> held, writer |-> NoProducer]
  BY <1>1, <1>2 DEF QueueEntry
<1>4. \A k \in Nat : r + 1 <= k /\ k < enqueue => QueueEntry(k)' = QueueEntry(k)
  <2> SUFFICES ASSUME NEW k \in Nat, r + 1 <= k, k < enqueue
               PROVE  QueueEntry(k)' = QueueEntry(k)
    BY Zenon
  <2>1. Index(k) # Index(Released) /\ Released <= k /\ k # Released
    BY <1>0, <1>2
  <2>2. sequence'[Index(k)] = sequence[Index(k)]
    BY <1>1, <2>1, Zenon
  <2>3. FilledValue(k)' = FilledValue(k)
    BY <1>1, <2>1, Zenon DEF FilledValue
  <2>4. \A q \in Producer : Writing(q) /\ position[q] = k =>
           Writing(q)' /\ position'[q] = k /\ PendingValue(q)' = PendingValue(q)
    BY <1>1, Zenon DEF Writing, PendingValue
  <2> QED BY <2>1, <2>2, <2>3, <2>4, SameEntry, Zenon
<1>5. /\ Contents = [i \in 1 .. (n + 1) |-> QueueEntry(r + i - 1)]
      /\ Contents' = [i \in 1 .. n |-> QueueEntry((r + 1) + i - 1)']
  <2>1. enqueue' - Released' = n
    BY <1>0, <1>1
  <2> QED BY <1>0, <1>1, <2>1, Zenon DEF Contents
<1>6. ASSUME NEW i \in 1 .. n PROVE Contents'[i] = Contents[i + 1]
  <2>1. /\ (r + 1) + i - 1 \in Nat /\ r + 1 <= (r + 1) + i - 1 /\ (r + 1) + i - 1 < enqueue
        /\ i + 1 \in 1 .. (n + 1) /\ r + (i + 1) - 1 = (r + 1) + i - 1
    BY <1>0
  <2>2. QueueEntry((r + 1) + i - 1)' = QueueEntry((r + 1) + i - 1)
    BY <1>4, <2>1, Zenon
  <2> QED BY <1>5, <2>1, <2>2, Zenon
<1>7. Contents[1] = [val |-> held, writer |-> NoProducer]
  <2>1. 1 \in 1 .. (n + 1) /\ r + 1 - 1 = r
    OBVIOUS
  <2> QED BY <1>0, <1>3, <1>5, <2>1, Zenon
<1>8. Contents # <<>> /\ Contents' = Tail(Contents)
  <2>1. Contents = [i \in 1 .. (n + 1) |-> Contents[i]] /\ Contents' = [i \in 1 .. n |-> Contents'[i]]
    BY <1>5, Zenon
  <2> QED BY <1>6, <2>1, ShiftedIsTail, Zenon
<1>9. /\ Contents # <<>> /\ Contents[1].writer = NoProducer
      /\ out' = Contents[1].val /\ Contents' = Tail(Contents)
  BY <1>1, <1>7, <1>8
<1> QED BY <1>9, Zenon DEF Queue!Pop, Queue!HeadIsFilled, Contents

(* THEOREM.  For every capacity, every set of producers and every            *)
(* interleaving of their accesses, the ring of try_push and try_pop is the  *)
(* bounded queue its users rely on: values leave in the order in which      *)
(* their places were reserved, each once, and None means no filled head.    *)
THEOREM RingImplementsQueue == Spec => ImplementsQueue
<1>1. Init => Queue!QueueInit
  <2> SUFFICES ASSUME Init PROVE Queue!QueueInit
    BY Zenon
  <2>0. enqueue = 0 /\ Released = 0 /\ out = NoValue
    BY Zenon DEF Init, Released
  <2>1. enqueue - Released = 0 /\ out = NoValue
    BY <2>0
  <2>2. Contents = <<>>
    BY <2>1 DEF Contents
  <2> QED BY <2>1, <2>2, Zenon DEF Queue!QueueInit, Contents
<1>2. QueueInv /\ QueueInv' /\ [Next]_vars => [Queue!QueueNext]_(Queue!queueVars)
  <2> SUFFICES ASSUME QueueInv, QueueInv', [Next]_vars
               PROVE  [Queue!QueueNext]_(Queue!queueVars)
    BY Zenon
  <2>1. CASE Quiet
    <3>1. out' = out
      BY <2>1, Zenon DEF Quiet, TryPush, LoadPosition, SlotFree, RingFull, SlotTaken, ReserveFails,
         WriteValue, PopFinds, AdvanceDequeue, ReadValue, popVars, vars
    <3>2. Contents' = Contents
      BY <2>1, SameContents, Zenon
    <3> QED BY <3>1, <3>2, Zenon DEF Queue!queueVars, Contents
  <2>2. ASSUME NEW p \in Producer, ReservePosition(p) PROVE Queue!QueueNext
    BY <2>2, ReserveRefines, Zenon DEF Queue!QueueNext
  <2>3. ASSUME NEW p \in Producer, PublishSlot(p) PROVE Queue!QueueNext
    BY <2>3, PublishRefines, Zenon DEF Queue!QueueNext
  <2>4. CASE PopFindsNothing
    BY <2>4, PopNothingRefines, Zenon DEF Queue!QueueNext
  <2>5. CASE ReleaseSlot
    BY <2>5, ReleaseRefines, Zenon DEF Queue!QueueNext
  <2> QED BY <2>1, <2>2, <2>3, <2>4, <2>5, Zenon DEF Next, Push, TryPop, Quiet
<1>3. Spec => []QueueInv
  <2>1. Init => QueueInv
    BY RingInvInit, OwnedInit, Zenon DEF QueueInv
  <2>2. QueueInv /\ [Next]_vars => QueueInv'
    BY RingInvStep, OwnedStep, Zenon DEF QueueInv
  <2> QED BY <2>1, <2>2, PTL DEF Spec
<1> QED BY <1>1, <1>2, <1>3, PTL DEF Spec, ImplementsQueue, Queue!QueueSpec

=============================================================================
