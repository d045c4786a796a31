----------------------------- MODULE SleepMutex -----------------------------
(***************************************************************************)
(* The sleeping mutex of libs/sched: the lock word and double check of     *)
(* mutex.rs, the wait-queue protocol of wait.rs it is built on, and the    *)
(* sleep-commit handshake of task.rs that lets a forced exit (exit_group,  *)
(* exec, native thread exit) and a signal break the sleep.                 *)
(*                                                                         *)
(* One action per atomic access or critical section.  The scheduler below  *)
(* is abstract here: a task executes ("on"), waits in a run queue          *)
(* ("queued") or is descheduled ("off"); module SchedCore models it.       *)
(***************************************************************************)
EXTENDS Naturals, Sequences, Lists

CONSTANTS
    Task,           \* the tasks that use the mutex
    NoTask,         \* "no task"
    Signalled,      \* the tasks that signals may arrive for
    Exiting         \* the tasks that a forced exit may be requested of

ASSUME TaskAssumption ==
    /\ NoTask \notin Task
    /\ Signalled \subseteq Task
    /\ Exiting \subseteq Task

VARIABLES
    locked,         \* Mutex.locked
    waiters,        \* WaitQueue.waiters: tasks in queue order
    qlock,          \* holder of the spinlock around waiters, or NoTask
    entry,          \* state of each task's WaitQueueEntry
    state,          \* Task.state
    place,          \* "on" a CPU, "queued" in a run queue, or "off"
    forced,         \* forced_exit_wakeup_pending
    mpc,             \* where each task is in lock() / MutexGuard::drop()
    seen,           \* prepare_wait_state: the state loaded before the CAS
    picked,         \* wake_one: the waiter taken from the queue
    kick            \* progress of a signal or forced-exit wake-up of a task

mutexVars == <<locked, waiters, qlock, entry, state, place, forced, mpc,
               seen, picked, kick>>

TaskState == {"Running", "Runnable", "Sleeping"}
PC == {"idle", "lock", "prepare", "load", "commit", "recheck", "relock",
       "schedule", "pick", "finish", "finish2", "held_finish",
       "held_finish2", "held", "wake", "wake_cas", "wake_check", "wake_enq"}

MutexInit ==
    /\ locked = FALSE
    /\ waiters = <<>>
    /\ qlock = NoTask
    /\ entry = [t \in Task |-> "finished"]
    /\ state = [t \in Task |-> "Running"]
    /\ place = [t \in Task |-> "on"]
    /\ forced = [t \in Task |-> FALSE]
    /\ mpc = [t \in Task |-> "idle"]
    /\ seen = [t \in Task |-> "Running"]
    /\ picked = [t \in Task |-> NoTask]
    /\ kick = [t \in Task |-> "none"]

At(t, l) == place[t] = "on" /\ mpc[t] = l
Goto(t, l) == mpc' = [mpc EXCEPT ![t] = l]

------------------------------------------------------------------------------
(* Mutex::lock *)

\* A task calls lock().
Call(t) ==
    /\ At(t, "idle")
    /\ Goto(t, "lock")
    /\ UNCHANGED <<locked, waiters, qlock, entry, state, place, forced, seen,
                   picked, kick>>

\* The first compare-and-swap, at the head of the retry loop.
FastPath(t) ==
    /\ At(t, "lock")
    /\ locked' = TRUE
    /\ Goto(t, IF locked THEN "prepare" ELSE "held")
    /\ UNCHANGED <<waiters, qlock, entry, state, place, forced, seen, picked,
                   kick>>

\* prepare_to_wait up to prepare_wait_state: drop the entries that no longer
\* wait, find or append this task's entry.  The queue lock stays held.
PrepareToWait(t) ==
    /\ At(t, "prepare")
    /\ qlock = NoTask
    /\ qlock' = t
    /\ LET live == Keep(waiters, {u \in Task : entry[u] = "waiting"})
       IN  IF t \in Range(live)
           THEN waiters' = live /\ UNCHANGED entry
           ELSE /\ waiters' = Append(live, t)
                /\ entry' = [entry EXCEPT ![t] = "waiting"]
    /\ Goto(t, "load")
    /\ UNCHANGED <<locked, state, place, forced, seen, picked, kick>>

\* prepare_wait_state, top of the loop: already asleep, refused because a
\* forced exit is pending, or on to the compare-and-swap.
LoadWaitState(t) ==
    /\ At(t, "load")
    /\ IF state[t] # "Sleeping" /\ ~forced[t]
       THEN /\ seen' = [seen EXCEPT ![t] = state[t]]
            /\ Goto(t, "commit")
            /\ UNCHANGED <<qlock, state>>
       ELSE /\ state' = [state EXCEPT ![t] =
                            IF @ = "Sleeping" /\ forced[t] THEN "Running" ELSE @]
            /\ qlock' = NoTask
            /\ Goto(t, "relock")
            /\ UNCHANGED seen
    /\ UNCHANGED <<locked, waiters, entry, place, forced, picked, kick>>

\* cas_state: publish the sleep if the state is still the one loaded.
CommitWait(t) ==
    /\ At(t, "commit")
    /\ IF state[t] = seen[t]
       THEN state' = [state EXCEPT ![t] = "Sleeping"] /\ Goto(t, "recheck")
       ELSE Goto(t, "load") /\ UNCHANGED state
    /\ UNCHANGED <<locked, waiters, qlock, entry, place, forced, seen, picked,
                   kick>>

\* cas_state, second half of the handshake: a forced exit published since the
\* first check withdraws the sleep.  The queue lock is released.
RecheckWait(t) ==
    /\ At(t, "recheck")
    /\ state' = [state EXCEPT ![t] =
                    IF forced[t] /\ @ = "Sleeping" THEN seen[t] ELSE @]
    /\ qlock' = NoTask
    /\ seen' = [seen EXCEPT ![t] = "Running"]
    /\ Goto(t, "relock")
    /\ UNCHANGED <<locked, waiters, entry, place, forced, picked, kick>>

\* Mutant: the lock word is stored without looking at its old value.
DoubleCheckBlindStore(t) ==
    /\ At(t, "relock")
    /\ locked' = TRUE
    /\ Goto(t, "held_finish")
    /\ UNCHANGED <<waiters, qlock, entry, state, place, forced, seen, picked,
                   kick>>

\* Mutant: no second look at the lock word before sleeping.
NoDoubleCheck(t) ==
    /\ At(t, "relock")
    /\ Goto(t, "schedule")
    /\ UNCHANGED <<locked, waiters, qlock, entry, state, place, forced, seen,
                   picked, kick>>

\* The second compare-and-swap, after the task is queued and Sleeping.
DoubleCheck(t) ==
    /\ At(t, "relock")
    /\ locked' = TRUE
    /\ Goto(t, IF locked THEN "schedule" ELSE "held_finish")
    /\ UNCHANGED <<waiters, qlock, entry, state, place, forced, seen, picked,
                   kick>>

\* schedule_once, entry: abort_group_exit_sleep.
AbortGroupExitSleep(t) ==
    /\ At(t, "schedule")
    /\ state' = [state EXCEPT ![t] =
                    IF forced[t] /\ @ = "Sleeping" THEN "Running" ELSE @]
    /\ Goto(t, "pick")
    /\ UNCHANGED <<locked, waiters, qlock, entry, place, forced, seen, picked,
                   kick>>

\* schedule_once, pick: a task that is not Sleeping goes back to the run queue.
SwitchOut(t) ==
    /\ At(t, "pick")
    /\ IF state[t] = "Sleeping"
       THEN place' = [place EXCEPT ![t] = "off"] /\ UNCHANGED state
       ELSE /\ place' = [place EXCEPT ![t] = "queued"]
            /\ state' = [state EXCEPT ![t] = "Runnable"]
    /\ Goto(t, "finish")
    /\ UNCHANGED <<locked, waiters, qlock, entry, forced, seen, picked, kick>>

\* A CPU picks the task: it continues after schedule_once.
Dispatch(t) ==
    /\ place[t] = "queued"
    /\ place' = [place EXCEPT ![t] = "on"]
    /\ state' = [state EXCEPT ![t] = "Running"]
    /\ UNCHANGED <<locked, waiters, qlock, entry, forced, mpc, seen, picked,
                   kick>>

\* finish_wait, under the queue lock: remove and finish the entry.
FinishWait(t) ==
    /\ \E l \in {"finish", "held_finish"} :
         /\ At(t, l)
         /\ Goto(t, IF l = "finish" THEN "finish2" ELSE "held_finish2")
    /\ qlock = NoTask
    /\ waiters' = Keep(waiters, Task \ {t})
    /\ entry' = [entry EXCEPT ![t] = "finished"]
    /\ UNCHANGED <<locked, qlock, state, place, forced, seen, picked, kick>>

\* transition_from_wait: the current task is Running again, whichever of
\* Sleeping and Runnable a concurrent waker left it in.
TransitionFromWait(t) ==
    /\ \E l \in {"finish2", "held_finish2"} :
         /\ At(t, l)
         /\ Goto(t, IF l = "finish2" THEN "lock" ELSE "held")
    /\ state' = [state EXCEPT ![t] = "Running"]
    /\ UNCHANGED <<locked, waiters, qlock, entry, place, forced, seen, picked,
                   kick>>

------------------------------------------------------------------------------
(* MutexGuard::drop and the wake-up *)

Unlock(t) ==
    /\ At(t, "held")
    /\ locked' = FALSE
    /\ Goto(t, "wake")
    /\ UNCHANGED <<waiters, qlock, entry, state, place, forced, seen, picked,
                   kick>>

\* wake_one, under the queue lock: entries of tasks that are not asleep rotate
\* to the back; the first asleep one whose entry is still waiting is taken.
WakeOne(t) ==
    /\ At(t, "wake")
    /\ qlock = NoTask
    /\ LET asleep == {u \in Task : state[u] = "Sleeping"}
           hits == {u \in asleep : entry[u] = "waiting"} \cap Range(waiters)
           n == IF hits = {} THEN Len(waiters) ELSE FirstIn(waiters, hits)
           awake == Keep(SubSeq(waiters, 1, n), Task \ asleep)
       IN  /\ waiters' = SubSeq(waiters, n + 1, Len(waiters)) \o awake
           /\ IF hits = {}
              THEN Goto(t, "idle") /\ UNCHANGED <<entry, picked>>
              ELSE /\ entry' = [entry EXCEPT ![waiters[n]] = "woken"]
                   /\ picked' = [picked EXCEPT ![t] = waiters[n]]
                   /\ Goto(t, "wake_cas")
    /\ UNCHANGED <<locked, qlock, state, place, forced, seen, kick>>

\* transition_to_runnable, outside the queue lock.
WakeTransition(t) ==
    /\ At(t, "wake_cas")
    /\ state' = [state EXCEPT ![picked[t]] =
                    IF @ = "Sleeping" THEN "Runnable" ELSE @]
    /\ Goto(t, "wake_check")
    /\ UNCHANGED <<locked, waiters, qlock, entry, place, forced, seen, picked,
                   kick>>

\* Mutant: the woken task is never handed to the run queue.
WakeWithoutEnqueue(t) ==
    /\ At(t, "wake_check")
    /\ Goto(t, "idle")
    /\ picked' = [picked EXCEPT ![t] = NoTask]
    /\ UNCHANGED <<locked, waiters, qlock, entry, state, place, forced, seen,
                   kick>>

\* default_wake: only a task that is Runnable now is handed to enqueue_task.
DefaultWake(t) ==
    /\ At(t, "wake_check")
    /\ IF state[picked[t]] = "Runnable"
       THEN Goto(t, "wake_enq") /\ UNCHANGED picked
       ELSE Goto(t, "idle") /\ picked' = [picked EXCEPT ![t] = NoTask]
    /\ UNCHANGED <<locked, waiters, qlock, entry, state, place, forced, seen,
                   kick>>

\* Runqueue::enqueue: the sleep of a task that is still current is cancelled
\* in place; a descheduled task is queued; a queued one is left alone.
Enqueue(u) ==
    /\ place' = [place EXCEPT ![u] = IF @ = "off" THEN "queued" ELSE @]
    /\ state' = [state EXCEPT ![u] = CASE place[u] = "on" -> "Running"
                                       [] place[u] = "off" -> "Runnable"
                                       [] OTHER -> @]

WakeEnqueue(t) ==
    /\ At(t, "wake_enq")
    /\ Enqueue(picked[t])
    /\ picked' = [picked EXCEPT ![t] = NoTask]
    /\ Goto(t, "idle")
    /\ UNCHANGED <<locked, waiters, qlock, entry, forced, seen, kick>>

------------------------------------------------------------------------------
(* Wake-ups that do not come from the mutex *)

\* signal_wakeup: a sleeper is made Runnable; the enqueue is a later step.
SignalWakeup(t) ==
    /\ t \in Signalled
    /\ kick[t] = "none"
    /\ state[t] = "Sleeping"
    /\ state' = [state EXCEPT ![t] = "Runnable"]
    /\ kick' = [kick EXCEPT ![t] = "enqueue"]
    /\ UNCHANGED <<locked, waiters, qlock, entry, place, forced, mpc, seen,
                   picked>>

\* group_exit_wakeup and its kin: the request is published first.
PublishForcedExit(t) ==
    /\ t \in Exiting
    /\ kick[t] = "none"
    /\ ~forced[t]
    /\ forced' = [forced EXCEPT ![t] = TRUE]
    /\ kick' = [kick EXCEPT ![t] = "cas"]
    /\ UNCHANGED <<locked, waiters, qlock, entry, state, place, mpc, seen,
                   picked>>

\* Mutant: the forced exit is published but a committed sleep is left alone.
ForcedExitPublishOnly(t) ==
    /\ kick[t] = "cas"
    /\ kick' = [kick EXCEPT ![t] = "none"]
    /\ UNCHANGED <<locked, waiters, qlock, entry, state, place, forced, mpc,
                   seen, picked>>

\* forced_exit_wakeup: then a committed sleep is turned into Runnable.
ForcedExitWakeup(t) ==
    /\ kick[t] = "cas"
    /\ IF state[t] = "Sleeping"
       THEN /\ state' = [state EXCEPT ![t] = "Runnable"]
            /\ kick' = [kick EXCEPT ![t] = "enqueue"]
       ELSE kick' = [kick EXCEPT ![t] = "none"] /\ UNCHANGED state
    /\ UNCHANGED <<locked, waiters, qlock, entry, place, forced, mpc, seen,
                   picked>>

KickEnqueue(t) ==
    /\ kick[t] = "enqueue"
    /\ Enqueue(t)
    /\ kick' = [kick EXCEPT ![t] = "none"]
    /\ UNCHANGED <<locked, waiters, qlock, entry, forced, mpc, seen, picked>>

------------------------------------------------------------------------------
\* A task on its way through lock() or through the wake-up of its drop().
Step(t) ==
    \/ FastPath(t) \/ PrepareToWait(t) \/ LoadWaitState(t) \/ CommitWait(t)
    \/ RecheckWait(t) \/ DoubleCheck(t) \/ AbortGroupExitSleep(t)
    \/ SwitchOut(t) \/ Dispatch(t) \/ FinishWait(t) \/ TransitionFromWait(t)
    \/ WakeOne(t) \/ WakeTransition(t) \/ DefaultWake(t) \/ WakeEnqueue(t)

MutexNext ==
    \E t \in Task : \/ Call(t) \/ Step(t) \/ Unlock(t)
                    \/ SignalWakeup(t) \/ PublishForcedExit(t)
                    \/ ForcedExitWakeup(t) \/ KickEnqueue(t)

\* A runnable task is eventually run and a wake-up under way is completed.  A
\* spinning task gets the queue's spinlock if it is free again and again:
\* the sections are short and never sleep.  Every holder drops its guard in
\* the end.  No task is obliged to call lock(), and no signal to arrive.
Fairness ==
    \A t \in Task :
        /\ WF_mutexVars(Step(t)) /\ WF_mutexVars(Unlock(t))
        /\ SF_mutexVars(PrepareToWait(t)) /\ SF_mutexVars(FinishWait(t)) /\ SF_mutexVars(WakeOne(t))
        /\ WF_mutexVars(ForcedExitWakeup(t)) /\ WF_mutexVars(KickEnqueue(t))

MutexSpec == MutexInit /\ [][MutexNext]_mutexVars
MutexFairSpec == MutexSpec /\ Fairness

------------------------------------------------------------------------------
(* Properties *)

Holders == {t \in Task : mpc[t] \in {"held_finish", "held_finish2", "held"}}

\* At most one task holds a MutexGuard, although the lock word is taken at two
\* different places and released before the next owner is chosen (Mutex::lock,
\* MutexGuard::drop).
MutualExclusion == \A t, u \in Holders : t = u

\* A wake-up is never lost: while some task is descheduled in lock() and
\* nobody holds the lock, some task is still on its way to release, wake or
\* retry (the double check of Mutex::lock with prepare_to_wait's order).
NoLostWakeup ==
    (\E t \in Task : place[t] = "off") =>
        \/ locked
        \/ \E u \in Task : mpc[u] \in {"wake", "wake_cas", "wake_check", "wake_enq"}
        \/ \E u \in Task : mpc[u] # "idle" /\ place[u] # "off"
        \/ \E u \in Task : kick[u] = "enqueue"

\* A descheduled task is asleep, or the one who made it Runnable is about to
\* enqueue it: no Runnable task is left outside every run queue.
RunnableIsReachable ==
    \A t \in Task : place[t] = "off" /\ state[t] = "Runnable" =>
        \/ kick[t] = "enqueue"
        \/ \E u \in Task : picked[u] = t /\ mpc[u] \in {"wake_check", "wake_enq"}

\* The two-phase handshake of cas_state and forced_exit_wakeup: once the
\* forced-exit wake-up of a task is complete the task is never descheduled
\* asleep again.
ForcedExitNeverSleeps ==
    \A t \in Task : forced[t] /\ kick[t] = "none" =>
        ~(place[t] = "off" /\ state[t] = "Sleeping")

\* Every task that sleeps in lock() runs again, whoever else takes the mutex
\* before it (wake_one's queue order and the rotation of awake entries).  It
\* need not get the mutex: barging is allowed.
SleeperRuns ==
    \A t \in Task : (place[t] = "off") ~> (place[t] = "on")
=============================================================================
