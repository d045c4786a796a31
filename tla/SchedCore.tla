------------------------------ MODULE SchedCore ------------------------------
(***************************************************************************)
(* The multi-CPU core of libs/sched: tasks that run, wait, stop and exit;  *)
(* CPUs that execute schedule_once (pick, claim, publish, switch) and pull *)
(* tasks from each other (balance_once); and remote contexts that wake,    *)
(* continue or stop a task.  One action per atomic access, except that a   *)
(* run-queue critical section is split only where it reads a task state    *)
(* that other CPUs write without the run-queue lock.                       *)
(*                                                                         *)
(* Every CPU is active and allowed for every task here, all tasks belong   *)
(* to one scheduling class, and the order in which a run queue offers its  *)
(* tasks is left open.                                                     *)
(***************************************************************************)
EXTENDS Naturals, FiniteSets

CONSTANTS
    Task,           \* schedulable tasks (the per-CPU idle tasks excluded)
    CPU,
    Remote,         \* contexts that call enqueue_task or mark_task_stopped
    None,           \* "no task", "no CPU", "nobody"
    Idle,           \* the idle task of a CPU
    RemoteOps,      \* what the remote contexts do
    Exits,          \* the tasks that may exit
    SelfStops,      \* the tasks that may stop themselves (a stop signal)
    Balancers       \* the CPUs that pull tasks

ASSUME SchedAssumption ==
    /\ None \notin Task \cup CPU \cup Remote
    /\ Idle \notin Task \cup {None}
    /\ CPU \cap Remote = {}
    /\ RemoteOps \subseteq {"wake", "continue", "kill", "stop"}
    /\ Exits \subseteq Task
    /\ SelfStops \subseteq Task
    /\ Balancers \subseteq CPU

VARIABLES
    state,          \* Task.state
    onrq,           \* SchedEntity.on_rq
    owner,          \* Task.rq_owner
    oncpu,          \* Task.on_cpu
    place,          \* Task.placement: the CPU and the placement state
    enq,            \* SchedEntity.enqueue_in_progress
    resume,         \* what a task does when it is switched in
    tree,           \* the ready tasks of each run queue
    rqcur,          \* RqInner.current (None also for the idle task)
    rqlock,         \* who holds the lock of each run queue
    cur,            \* the published current task of each CPU
    pc,             \* where each CPU is
    arg,            \* the task a CPU's step is about
    saw,            \* what a CPU read earlier in the same operation
    rpc,            \* where each remote context is
    rtask,          \* the task it works on
    rcpu            \* the CPU it chose

taskVars == <<state, onrq, owner, oncpu, place, enq, resume>>
rqVars == <<tree, rqcur, rqlock>>
cpuVars == <<cur, pc, arg, saw>>
remoteVars == <<rpc, rtask, rcpu>>
vars == <<taskVars, rqVars, cpuVars, remoteVars>>

TaskState == {"Runnable", "Running", "Sleeping", "Stopped", "Continued",
              "Zombie"}
OnRq == {"NONE", "QUEUED", "MIGRATING"}
Bound(c) == [st |-> "Bound", cpu |-> c]
Migrating(c) == [st |-> "Migrating", cpu |-> c]

\* All tasks have been activated: each waits in some run queue, and every CPU
\* executes its idle task.
Init ==
    /\ \E home \in [Task -> CPU] :
         /\ owner = home
         /\ place = [t \in Task |-> Bound(home[t])]
         /\ tree = [c \in CPU |-> {t \in Task : home[t] = c}]
    /\ state = [t \in Task |-> "Runnable"]
    /\ onrq = [t \in Task |-> "QUEUED"]
    /\ oncpu = [t \in Task |-> None]
    /\ enq = [t \in Task |-> FALSE]
    /\ resume = [t \in Task |-> "run"]
    /\ rqcur = [c \in CPU |-> None]
    /\ rqlock = [c \in CPU |-> None]
    /\ cur = [c \in CPU |-> Idle]
    /\ pc = [c \in CPU |-> "run"]
    /\ arg = [c \in CPU |-> None]
    /\ saw = [c \in CPU |-> None]
    /\ rpc = [r \in Remote |-> "idle"]
    /\ rtask = [r \in Remote |-> None]
    /\ rcpu = [r \in Remote |-> None]

------------------------------------------------------------------------------
(* Run-queue operations; the caller holds the lock of run queue c. *)

\* task_can_enter_runqueue
CanEnter(t) == state[t] # "Zombie"

\* Mutant: the pick does not look at who still executes the task.
PickableAnywhere(t, c, prev) == TRUE

\* task_pickable_on: a task another switch still owns is left alone, unless
\* it is the previous task of this very pick.
Pickable(t, c, prev) == oncpu[t] = None \/ (oncpu[t] = c /\ t = prev)

\* enqueue_queued_locked_at, with the state and on_rq writes before it.
Insert(t, c) ==
    /\ state' = [state EXCEPT ![t] = "Runnable"]
    /\ onrq' = [onrq EXCEPT ![t] = "QUEUED"]
    /\ owner' = [owner EXCEPT ![t] = c]
    /\ tree' = [tree EXCEPT ![c] = @ \cup {t}]

\* dequeue_locked of the local run queue: current or queued.
DequeueLocal(t, c) ==
    IF t \in tree[c] \/ rqcur[c] = t
    THEN /\ tree' = [tree EXCEPT ![c] = @ \ {t}]
         /\ rqcur' = [rqcur EXCEPT ![c] = IF @ = t THEN None ELSE @]
         /\ onrq' = [onrq EXCEPT ![t] = "NONE"]
         /\ owner' = [owner EXCEPT ![t] = None]
    ELSE UNCHANGED <<tree, rqcur, onrq, owner>>

Goto(c, l) == pc' = [pc EXCEPT ![c] = l]
RGoto(r, l) == rpc' = [rpc EXCEPT ![r] = l]
Lock(c, who) == rqlock[c] = None /\ rqlock' = [rqlock EXCEPT ![c] = who]
Unlock(c) == rqlock' = [rqlock EXCEPT ![c] = None]
Free(c) == rqlock[c] = None

------------------------------------------------------------------------------
(* What the task running on a CPU does, up to its call of schedule_once. *)

\* Preemption at the return to user mode, yield, and the idle loop.
Reschedule(c) ==
    /\ pc[c] = "run"
    /\ Goto(c, "sched")
    /\ resume' = IF cur[c] = Idle THEN resume
                 ELSE [resume EXCEPT ![cur[c]] = "run"]
    /\ UNCHANGED <<state, onrq, owner, oncpu, place, enq, rqVars, cur, arg,
                   saw, remoteVars>>

\* prepare_wait_state of a task about to block; it then calls schedule_once,
\* whether or not the sleep was refused.
PrepareWait(c) ==
    /\ pc[c] = "run" /\ cur[c] # Idle
    /\ state' = [state EXCEPT ![cur[c]] =
                    IF @ \in {"Running", "Runnable"} THEN "Sleeping" ELSE @]
    /\ resume' = [resume EXCEPT ![cur[c]] = "finish"]
    /\ Goto(c, "sched")
    /\ UNCHANGED <<onrq, owner, oncpu, place, enq, rqVars, cur, arg, saw,
                   remoteVars>>

\* finish_wait / transition_from_wait after schedule_once has returned.
FinishWait(c) ==
    /\ pc[c] = "finish"
    /\ state' = [state EXCEPT ![cur[c]] =
                    IF @ \in {"Sleeping", "Runnable"} THEN "Running" ELSE @]
    /\ Goto(c, "run")
    /\ UNCHANGED <<onrq, owner, oncpu, place, enq, resume, rqVars, cur, arg,
                   saw, remoteVars>>

\* mark_task_exited / mark_task_stopped of the current task, first half:
\* dequeue_for_state_change on the run queue the placement names.
DequeueSelf(c, then) ==
    /\ pc[c] = "run" /\ cur[c] # Idle
    /\ LET t == cur[c]
           home == place[t].cpu
       IN  /\ onrq[t] # "MIGRATING"
           /\ Free(home)
           /\ IF home = c
              THEN DequeueLocal(t, c)
              ELSE /\ IF t \in tree[home]
                      THEN DequeueLocal(t, home)
                      ELSE UNCHANGED <<tree, onrq, owner>>
                   /\ UNCHANGED rqcur
    /\ Goto(c, then)
    /\ UNCHANGED <<state, oncpu, place, enq, resume, rqlock, cur, arg, saw,
                   remoteVars>>

ExitDequeue(c) == cur[c] \in Exits /\ DequeueSelf(c, "exit")
StopDequeue(c) == cur[c] \in SelfStops /\ DequeueSelf(c, "stop")

\* Task::mark_exited, after which the task calls schedule_once for good.
MarkExited(c) ==
    /\ pc[c] = "exit"
    /\ state' = [state EXCEPT ![cur[c]] = "Zombie"]
    /\ resume' = [resume EXCEPT ![cur[c]] = "dead"]
    /\ Goto(c, "sched")
    /\ UNCHANGED <<onrq, owner, oncpu, place, enq, rqVars, cur, arg, saw,
                   remoteVars>>

\* Task::mark_stopped of the current task; on its way back to user mode a
\* stopped task calls schedule_once.
MarkStopped(c) ==
    /\ pc[c] = "stop"
    /\ state' = [state EXCEPT ![cur[c]] = "Stopped"]
    /\ resume' = [resume EXCEPT ![cur[c]] = "run"]
    /\ Goto(c, "sched")
    /\ UNCHANGED <<onrq, owner, oncpu, place, enq, rqVars, cur, arg, saw,
                   remoteVars>>

------------------------------------------------------------------------------
(* schedule_once *)

\* pick_next_on takes the lock and reads the state of the previous task.
PickLock(c) ==
    /\ pc[c] = "sched"
    /\ Lock(c, c)
    /\ LET prev == rqcur[c]
       IN  saw' = [saw EXCEPT ![c] =
                      IF prev # None /\ state[prev] \in {"Running", "Runnable"}
                      THEN "requeue" ELSE "drop"]
    /\ Goto(c, "requeue")
    /\ UNCHANGED <<taskVars, tree, rqcur, cur, arg, remoteVars>>

\* Mutant: letting go of the previous task forgets to clear its on_rq.
RequeuePrevKeepOnRq(c) ==
    /\ pc[c] = "requeue"
    /\ LET prev == rqcur[c]
       IN  /\ arg' = [arg EXCEPT ![c] = prev]
           /\ IF prev # None /\ saw[c] = "requeue"
              THEN /\ state' = [state EXCEPT ![prev] = "Runnable"]
                   /\ owner' = [owner EXCEPT ![prev] = c]
                   /\ tree' = [tree EXCEPT ![c] = @ \cup {prev}]
              ELSE UNCHANGED <<state, owner, tree>>
    /\ rqcur' = [rqcur EXCEPT ![c] = None]
    /\ saw' = [saw EXCEPT ![c] = None]
    /\ Goto(c, "pick")
    /\ UNCHANGED <<onrq, oncpu, place, enq, resume, rqlock, cur, remoteVars>>

\* pick_next_on puts the previous task back, or lets go of it.
RequeuePrev(c) ==
    /\ pc[c] = "requeue"
    /\ LET prev == rqcur[c]
       IN  /\ arg' = [arg EXCEPT ![c] = prev]
           /\ IF prev = None
              THEN UNCHANGED <<state, onrq, owner, tree>>
              ELSE IF saw[c] = "requeue"
              THEN /\ state' = [state EXCEPT ![prev] = "Runnable"]
                   /\ owner' = [owner EXCEPT ![prev] = c]
                   /\ tree' = [tree EXCEPT ![c] = @ \cup {prev}]
                   /\ UNCHANGED onrq
              ELSE /\ owner' = [owner EXCEPT ![prev] = None]
                   /\ onrq' = [onrq EXCEPT ![prev] = "NONE"]
                   /\ UNCHANGED <<state, tree>>
    /\ rqcur' = [rqcur EXCEPT ![c] = None]
    /\ saw' = [saw EXCEPT ![c] = None]
    /\ Goto(c, "pick")
    /\ UNCHANGED <<oncpu, place, enq, resume, rqlock, cur, remoteVars>>

\* pick_queued_locked, one round: a candidate that is not Runnable any more
\* is discarded.
DiscardCandidate(c) ==
    /\ pc[c] = "pick"
    /\ \E t \in tree[c] :
         /\ Pickable(t, c, arg[c])
         /\ state[t] # "Runnable"
         /\ tree' = [tree EXCEPT ![c] = @ \ {t}]
         /\ owner' = [owner EXCEPT ![t] = None]
         /\ onrq' = [onrq EXCEPT ![t] = "NONE"]
    /\ UNCHANGED <<state, oncpu, place, enq, resume, rqcur, rqlock, cpuVars,
                   remoteVars>>

\* The round that finds a Runnable candidate.
PickCandidate(c) ==
    /\ pc[c] = "pick"
    /\ \E t \in tree[c] :
         /\ Pickable(t, c, arg[c])
         /\ state[t] = "Runnable"
         /\ tree' = [tree EXCEPT ![c] = @ \ {t}]
         /\ arg' = [arg EXCEPT ![c] = t]
    /\ Goto(c, "prepare")
    /\ UNCHANGED <<taskVars, rqcur, rqlock, cur, saw, remoteVars>>

\* prepare_running_locked and the new current; schedule_once returns at once
\* when the previous task was picked again.
PrepareRunning(c) ==
    /\ pc[c] = "prepare"
    /\ LET t == arg[c]
       IN  /\ state' = [state EXCEPT ![t] = "Running"]
           /\ onrq' = [onrq EXCEPT ![t] = "QUEUED"]
           /\ owner' = [owner EXCEPT ![t] = c]
           /\ rqcur' = [rqcur EXCEPT ![c] = t]
           /\ IF t = cur[c]
              THEN /\ Goto(c, resume[t])
                   /\ arg' = [arg EXCEPT ![c] = None]
              ELSE Goto(c, "claim") /\ UNCHANGED arg
    /\ Unlock(c)
    /\ UNCHANGED <<oncpu, place, enq, resume, tree, cur, saw, remoteVars>>

\* Nothing to pick: fall back to the idle task, or stay in it.
PickIdle(c) ==
    /\ pc[c] = "pick"
    /\ \A t \in tree[c] : ~Pickable(t, c, arg[c])
    /\ IF cur[c] = Idle
       THEN Goto(c, "run") /\ arg' = [arg EXCEPT ![c] = None]
       ELSE Goto(c, "publish") /\ arg' = [arg EXCEPT ![c] = Idle]
    /\ Unlock(c)
    /\ UNCHANGED <<taskVars, tree, rqcur, cur, saw, remoteVars>>

\* Mutant: the next task is switched in without being claimed.
ClaimNothing(c) ==
    /\ pc[c] = "claim"
    /\ Goto(c, "publish")
    /\ UNCHANGED <<taskVars, rqVars, cur, arg, saw, remoteVars>>

\* try_claim_cpu of the next task, asserted to succeed.
Claim(c) ==
    /\ pc[c] = "claim"
    /\ oncpu[arg[c]] = None
    /\ oncpu' = [oncpu EXCEPT ![arg[c]] = c]
    /\ Goto(c, "publish")
    /\ UNCHANGED <<state, onrq, owner, place, enq, resume, rqVars, cur, arg,
                   saw, remoteVars>>

\* final_prev is read, the next task is bound to this CPU and published.
Publish(c) ==
    /\ pc[c] = "publish"
    /\ place' = IF arg[c] = Idle THEN place
                ELSE [place EXCEPT ![arg[c]] = Bound(c)]
    /\ cur' = [cur EXCEPT ![c] = arg[c]]
    /\ arg' = [arg EXCEPT ![c] = cur[c]]
    /\ saw' = [saw EXCEPT ![c] =
                  IF cur[c] # Idle /\ state[cur[c]] = "Zombie"
                  THEN "final" ELSE None]
    /\ Goto(c, "switch")
    /\ UNCHANGED <<state, onrq, owner, oncpu, enq, resume, rqVars, remoteVars>>

\* switch_context saves the previous context, releases it and resumes the
\* next task where it called schedule_once.  A final task is never resumed.
Switch(c) ==
    /\ pc[c] = "switch"
    /\ LET prev == arg[c]
       IN  /\ oncpu' = IF prev = Idle THEN oncpu
                       ELSE [oncpu EXCEPT ![prev] = None]
           /\ resume' = IF saw[c] # "final" THEN resume
                        ELSE [resume EXCEPT ![prev] = "retired"]
    /\ Goto(c, IF cur[c] = Idle THEN "run" ELSE resume[cur[c]])
    /\ arg' = [arg EXCEPT ![c] = None]
    /\ saw' = [saw EXCEPT ![c] = None]
    /\ UNCHANGED <<state, onrq, owner, place, enq, rqVars, cur, remoteVars>>

------------------------------------------------------------------------------
(* balance_once: pull a task from another run queue. *)

\* take_migratable_from_class on a source run queue.
BalanceTake(c) ==
    /\ pc[c] = "run" /\ c \in Balancers
    /\ Cardinality(tree[c]) + (IF rqcur[c] = None THEN 0 ELSE 1) <= 1
    /\ \E src \in CPU \ {c} : \E t \in tree[src] :
         /\ Free(src)
         /\ oncpu[t] = None
         /\ state[t] = "Runnable"
         /\ tree' = [tree EXCEPT ![src] = @ \ {t}]
         /\ owner' = [owner EXCEPT ![t] = None]
         /\ onrq' = [onrq EXCEPT ![t] = "MIGRATING"]
         /\ arg' = [arg EXCEPT ![c] = t]
         /\ saw' = [saw EXCEPT ![c] = src]
    /\ Goto(c, "bal_begin")
    /\ UNCHANGED <<state, oncpu, place, enq, resume, rqcur, rqlock, cur,
                   remoteVars>>

\* begin_migration; when the placement is in motion, the task goes back.
BalanceBegin(c) ==
    /\ pc[c] = "bal_begin"
    /\ LET t == arg[c]
       IN  IF place[t].st = "Bound"
           THEN /\ place' = [place EXCEPT ![t] = Migrating(@.cpu)]
                /\ saw' = [saw EXCEPT ![c] = place[t].cpu]
                /\ Goto(c, "bal_commit")
           ELSE Goto(c, "bal_back") /\ UNCHANGED <<place, saw>>
    /\ UNCHANGED <<state, onrq, owner, oncpu, enq, resume, rqVars, cur, arg,
                   remoteVars>>

\* attach_migrated_task runs under CPU_HOTPLUG_LOCK, from here to its return.
AttachPC == {"bal_enq", "bal_ins", "bal_rollback", "bal_undo", "bal_redo"}

\* commit_migration
BalanceCommit(c) ==
    /\ pc[c] = "bal_commit"
    /\ \A d \in CPU : pc[d] \notin AttachPC
    /\ place' = [place EXCEPT ![arg[c]] = Bound(c)]
    /\ Goto(c, "bal_enq")
    /\ UNCHANGED <<state, onrq, owner, oncpu, enq, resume, rqVars, cur, arg,
                   saw, remoteVars>>

\* rollback_migration after the target refused the task
BalanceRollback(c) ==
    /\ pc[c] = "bal_rollback"
    /\ place' = [place EXCEPT ![arg[c]] = Bound(saw[c])]
    /\ Goto(c, "bal_undo")
    /\ UNCHANGED <<state, onrq, owner, oncpu, enq, resume, rqVars, cur, arg,
                   saw, remoteVars>>

\* The run queue enqueue_migrated works on: the target, or the source again.
MigrationRq(c) == IF pc[c] \in {"bal_enq", "bal_ins"} THEN c ELSE saw[c]

\* Where an accepted task goes next: enqueue_migrated on the target, on the
\* source after a rollback, and on the source after a refused begin_migration
\* (requeue_balance_task_on).
InsertAt == [bal_enq |-> "bal_ins", bal_undo |-> "bal_redo",
             bal_back |-> "bal_reins"]

\* Mutant: a refusal does not end the migration transaction.
MigratedCheckNoFinish(c) ==
    /\ pc[c] \in DOMAIN InsertAt
    /\ IF state[arg[c]] \in {"Runnable", "Running"} /\ onrq[arg[c]] # "QUEUED"
       THEN /\ Lock(MigrationRq(c), c)
            /\ Goto(c, InsertAt[pc[c]])
            /\ UNCHANGED <<arg, saw>>
       ELSE /\ Free(MigrationRq(c))
            /\ Goto(c, "run")
            /\ arg' = [arg EXCEPT ![c] = None]
            /\ saw' = [saw EXCEPT ![c] = None]
            /\ UNCHANGED rqlock
    /\ UNCHANGED <<taskVars, tree, rqcur, cur, remoteVars>>

\* enqueue_migrated takes the lock and decides.
MigratedCheck(c) ==
    /\ pc[c] \in DOMAIN InsertAt
    /\ LET t == arg[c]
           accepted == /\ state[t] \in {"Runnable", "Running"}
                       /\ onrq[t] # "QUEUED"
       IN  IF accepted
           THEN /\ Lock(MigrationRq(c), c)
                /\ Goto(c, InsertAt[pc[c]])
                /\ UNCHANGED <<onrq, arg, saw>>
           ELSE /\ Free(MigrationRq(c))
                /\ onrq' = [onrq EXCEPT ![t] =
                               IF @ = "MIGRATING" THEN "NONE" ELSE @]
                /\ IF pc[c] = "bal_enq"
                   THEN Goto(c, "bal_rollback") /\ UNCHANGED <<arg, saw>>
                   ELSE /\ Goto(c, "run")
                        /\ arg' = [arg EXCEPT ![c] = None]
                        /\ saw' = [saw EXCEPT ![c] = None]
                /\ UNCHANGED rqlock
    /\ UNCHANGED <<state, owner, oncpu, place, enq, resume, tree, rqcur, cur,
                   remoteVars>>

\* enqueue_migrated inserts the task and ends the transaction.
MigratedInsert(c) ==
    /\ pc[c] \in {"bal_ins", "bal_redo", "bal_reins"}
    /\ Insert(arg[c], MigrationRq(c))
    /\ Unlock(MigrationRq(c))
    /\ Goto(c, "run")
    /\ arg' = [arg EXCEPT ![c] = None]
    /\ saw' = [saw EXCEPT ![c] = None]
    /\ UNCHANGED <<oncpu, place, enq, resume, rqcur, cur, remoteVars>>

------------------------------------------------------------------------------
(* Remote contexts: wake-ups, SIGCONT, fatal signals, and ptrace stops. *)

\* The compare-and-swap that makes a task runnable, before enqueue_task:
\* transition_to_runnable, mark_continued, resume_for_fatal_exit.
MakeRunnable(r, op, from, to) ==
    /\ rpc[r] = "idle" /\ op \in RemoteOps
    /\ \E t \in Task :
         /\ state[t] = from
         /\ state' = [state EXCEPT ![t] = to]
         /\ rtask' = [rtask EXCEPT ![r] = t]
    /\ RGoto(r, "enter")
    /\ UNCHANGED <<onrq, owner, oncpu, place, enq, resume, rqVars, cpuVars,
                   rcpu>>

Wake(r) == MakeRunnable(r, "wake", "Sleeping", "Runnable")
Continue(r) == MakeRunnable(r, "continue", "Stopped", "Continued")
Kill(r) == MakeRunnable(r, "kill", "Stopped", "Runnable")

Leave(r) ==
    /\ RGoto(r, "idle")
    /\ rtask' = [rtask EXCEPT ![r] = None]
    /\ rcpu' = [rcpu EXCEPT ![r] = None]

\* enqueue_task_on_scheduler: reject a dead task; give up when another
\* context is enqueueing the same task.
EnqueueEnter(r) ==
    /\ rpc[r] = "enter"
    /\ LET t == rtask[r]
       IN  \/ /\ ~CanEnter(t)
              /\ onrq' = [onrq EXCEPT ![t] = "NONE"]
              /\ Leave(r)
              /\ UNCHANGED enq
           \/ /\ CanEnter(t) /\ enq[t]
              /\ Leave(r)
              /\ UNCHANGED <<onrq, enq>>
           \/ /\ CanEnter(t) /\ ~enq[t]
              /\ enq' = [enq EXCEPT ![t] = TRUE]
              /\ RGoto(r, "place")
              /\ UNCHANGED <<onrq, rtask, rcpu>>
    /\ UNCHANGED <<state, owner, oncpu, place, resume, rqVars, cpuVars>>

\* The fast path when the placement is committed, else the slow path.
EnqueuePlace(r) ==
    /\ rpc[r] = "place"
    /\ LET p == place[rtask[r]]
       IN  IF p.st = "Bound"
           THEN RGoto(r, "check") /\ rcpu' = [rcpu EXCEPT ![r] = p.cpu]
           ELSE RGoto(r, "settle") /\ UNCHANGED rcpu
    /\ UNCHANGED <<taskVars, rqVars, cpuVars, rtask>>

\* wait_for_migration_to_settle, then the CPU the placement names.
EnqueueSettle(r) ==
    /\ rpc[r] = "settle"
    /\ onrq[rtask[r]] # "MIGRATING"
    /\ rcpu' = [rcpu EXCEPT ![r] = place[rtask[r]].cpu]
    /\ RGoto(r, "bind")
    /\ UNCHANGED <<taskVars, rqVars, cpuVars, rtask>>

\* bind_task_to_cpu_on
EnqueueBind(r) ==
    /\ rpc[r] = "bind"
    /\ place' = [place EXCEPT ![rtask[r]] = Bound(rcpu[r])]
    /\ RGoto(r, "check")
    /\ UNCHANGED <<state, onrq, owner, oncpu, enq, resume, rqVars, cpuVars,
                   rtask, rcpu>>

\* Mutant: a task in migration is inserted like one that is off every queue.
EnqueueCheckNoGate(r) ==
    /\ rpc[r] = "check"
    /\ onrq[rtask[r]] # "QUEUED"
    /\ Lock(rcpu[r], r)
    /\ RGoto(r, "insert")
    /\ UNCHANGED <<taskVars, tree, rqcur, cpuVars, rtask, rcpu>>

\* enqueue_with_preference takes the lock and decides: withdraw the sleep of
\* a task that is still current, refuse, or insert.
EnqueueCheck(r) ==
    /\ rpc[r] = "check"
    /\ LET t == rtask[r]
           c == rcpu[r]
           current == /\ rqcur[c] = t
                      /\ state[t] \in {"Running", "Runnable", "Sleeping"}
       IN  \/ /\ current
              /\ Lock(c, r)
              /\ RGoto(r, "withdraw")
              /\ UNCHANGED onrq
           \/ /\ ~current /\ CanEnter(t) /\ onrq[t] = "NONE"
              /\ Lock(c, r)
              /\ RGoto(r, "insert")
              /\ UNCHANGED onrq
           \/ /\ ~current /\ (~CanEnter(t) \/ onrq[t] # "NONE")
              /\ Free(c)
              /\ onrq' = [onrq EXCEPT ![t] =
                             IF ~CanEnter(t) /\ @ # "MIGRATING" THEN "NONE"
                             ELSE @]
              /\ RGoto(r, "drop")
              /\ UNCHANGED rqlock
    /\ UNCHANGED <<state, owner, oncpu, place, enq, resume, tree, rqcur,
                   cpuVars, rtask, rcpu>>

\* Mutant: a withdrawn sleep clears on_rq although the task stays current.
WithdrawOffQueue(r) ==
    /\ rpc[r] = "withdraw"
    /\ state' = [state EXCEPT ![rtask[r]] = "Running"]
    /\ onrq' = [onrq EXCEPT ![rtask[r]] = "NONE"]
    /\ Unlock(rcpu[r])
    /\ RGoto(r, "drop")
    /\ UNCHANGED <<owner, oncpu, place, enq, resume, tree, rqcur, cpuVars,
                   rtask, rcpu>>

\* A task that is still current stays so: its sleep is withdrawn.
EnqueueWithdraw(r) ==
    /\ rpc[r] = "withdraw"
    /\ state' = [state EXCEPT ![rtask[r]] = "Running"]
    /\ onrq' = [onrq EXCEPT ![rtask[r]] = "QUEUED"]
    /\ Unlock(rcpu[r])
    /\ RGoto(r, "drop")
    /\ UNCHANGED <<owner, oncpu, place, enq, resume, tree, rqcur, cpuVars,
                   rtask, rcpu>>

\* The task becomes Runnable and enters the ready tree.
EnqueueInsert(r) ==
    /\ rpc[r] = "insert"
    /\ Insert(rtask[r], rcpu[r])
    /\ Unlock(rcpu[r])
    /\ RGoto(r, "drop")
    /\ UNCHANGED <<oncpu, place, enq, resume, rqcur, cpuVars, rtask, rcpu>>

\* The drop of TaskEnqueueGuard.
EnqueueDrop(r) ==
    /\ rpc[r] = "drop"
    /\ enq' = [enq EXCEPT ![rtask[r]] = FALSE]
    /\ Leave(r)
    /\ UNCHANGED <<state, onrq, owner, oncpu, place, resume, rqVars, cpuVars>>

\* mark_task_stopped of another task (ptrace): wait for a migration, locate,
\* dequeue, then Task::mark_stopped.
StopLocate(r) ==
    /\ rpc[r] = "idle" /\ "stop" \in RemoteOps
    /\ \E t \in Task :
         /\ state[t] # "Zombie"
         /\ onrq[t] # "MIGRATING"
         /\ rtask' = [rtask EXCEPT ![r] = t]
         /\ rcpu' = [rcpu EXCEPT ![r] = place[t].cpu]
    /\ RGoto(r, "stop_dequeue")
    /\ UNCHANGED <<taskVars, rqVars, cpuVars>>

RemoteStopDequeue(r) ==
    /\ rpc[r] = "stop_dequeue"
    /\ LET t == rtask[r]
           c == rcpu[r]
       IN  /\ Free(c)
           /\ IF t \in tree[c]
              THEN DequeueLocal(t, c)
              ELSE UNCHANGED <<tree, rqcur, onrq, owner>>
    /\ RGoto(r, "stop_mark")
    /\ UNCHANGED <<state, oncpu, place, enq, resume, rqlock, cpuVars, rtask,
                   rcpu>>

RemoteStopMark(r) ==
    /\ rpc[r] = "stop_mark"
    /\ state' = [state EXCEPT ![rtask[r]] =
                    IF @ = "Zombie" THEN @ ELSE "Stopped"]
    /\ Leave(r)
    /\ UNCHANGED <<onrq, owner, oncpu, place, enq, resume, rqVars, cpuVars>>

------------------------------------------------------------------------------
CpuStep(c) ==
    \/ Reschedule(c) \/ PrepareWait(c) \/ FinishWait(c)
    \/ ExitDequeue(c) \/ MarkExited(c) \/ StopDequeue(c) \/ MarkStopped(c)
    \/ PickLock(c) \/ RequeuePrev(c) \/ DiscardCandidate(c)
    \/ PickCandidate(c) \/ PrepareRunning(c) \/ PickIdle(c)
    \/ Claim(c) \/ Publish(c) \/ Switch(c)
    \/ BalanceTake(c) \/ BalanceBegin(c) \/ BalanceCommit(c)
    \/ BalanceRollback(c) \/ MigratedCheck(c) \/ MigratedInsert(c)

RemoteStep(r) ==
    \/ Wake(r) \/ Continue(r) \/ Kill(r)
    \/ EnqueueEnter(r) \/ EnqueuePlace(r) \/ EnqueueSettle(r)
    \/ EnqueueBind(r) \/ EnqueueCheck(r) \/ EnqueueWithdraw(r)
    \/ EnqueueInsert(r) \/ EnqueueDrop(r)
    \/ StopLocate(r) \/ RemoteStopDequeue(r) \/ RemoteStopMark(r)

Next == (\E c \in CPU : CpuStep(c)) \/ (\E r \in Remote : RemoteStep(r))

Spec == Init /\ [][Next]_vars

------------------------------------------------------------------------------
(* Properties *)

CpuPC == {"run", "finish", "dead", "retired", "exit", "stop", "sched",
          "requeue", "pick", "prepare", "claim", "publish", "switch",
          "bal_begin", "bal_commit", "bal_enq", "bal_ins", "bal_rollback",
          "bal_undo", "bal_redo", "bal_back", "bal_reins"}
RemotePC == {"idle", "enter", "place", "settle", "bind", "check", "withdraw",
             "insert", "drop", "stop_dequeue", "stop_mark"}

\* Every variable holds a value of its type.
TypeOK ==
    /\ state \in [Task -> TaskState]
    /\ onrq \in [Task -> OnRq]
    /\ owner \in [Task -> CPU \cup {None}]
    /\ oncpu \in [Task -> CPU \cup {None}]
    /\ place \in [Task -> [st : {"Bound", "Migrating"}, cpu : CPU]]
    /\ enq \in [Task -> BOOLEAN]
    /\ resume \in [Task -> {"run", "finish", "dead", "retired"}]
    /\ tree \in [CPU -> SUBSET Task]
    /\ rqcur \in [CPU -> Task \cup {None}]
    /\ rqlock \in [CPU -> CPU \cup Remote \cup {None}]
    /\ cur \in [CPU -> Task \cup {Idle}]
    /\ pc \in [CPU -> CpuPC]
    /\ arg \in [CPU -> Task \cup {Idle, None}]
    /\ saw \in [CPU -> CPU \cup {None, "requeue", "drop", "final"}]
    /\ rpc \in [Remote -> RemotePC]
    /\ rtask \in [Remote -> Task \cup {None}]
    /\ rcpu \in [Remote -> CPU \cup {None}]

\* The context of task t is live on CPU c: c executes it, or has published
\* the next task but not yet saved this one.
Executing(t, c) ==
    IF pc[c] = "switch" THEN arg[c] = t ELSE cur[c] = t

\* A CPU executes only a task it has claimed, from the switch into it until
\* switch_context has saved it; so no context is ever live on two CPUs
\* (Task::running_cpu, try_claim_cpu).
ExecutionOwnership ==
    \A t \in Task, c \in CPU : Executing(t, c) => oncpu[t] = c

\* The task pick_next_on chose is free when schedule_once claims it (the
\* assertion "selected task is still owned by cpu").
ClaimNeverFails ==
    \A c \in CPU : pc[c] = "claim" => oncpu[arg[c]] = None

\* The tasks run queue c holds, in its tree or as its current task.
OnQueue(c) == {t \in Task : t \in tree[c] \/ rqcur[c] = t}

\* A task is registered with at most one run queue, and whoever is about to
\* register it finds no other owner (assert_rq_ownership_acquired).
SingleRunQueue ==
    /\ \A c, d \in CPU : c # d => OnQueue(c) \cap OnQueue(d) = {}
    /\ \A c \in CPU : \A t \in OnQueue(c) :
         owner[t] = c /\ (t = rqcur[c] => t \notin tree[c])
    /\ \A r \in Remote :
         rpc[r] = "insert" => owner[rtask[r]] \in {None, rcpu[r]}
    /\ \A c \in CPU :
         /\ pc[c] = "requeue" /\ rqcur[c] # None => owner[rqcur[c]] = c
         /\ pc[c] = "prepare" => owner[arg[c]] = c
         /\ pc[c] \in {"bal_ins", "bal_redo", "bal_reins"} =>
              owner[arg[c]] \in {None, MigrationRq(c)}

\* Where a CPU is while the task it took out of a run queue is MIGRATING.
MigrationPC == {"bal_begin", "bal_commit", "bal_enq", "bal_ins", "bal_undo",
                "bal_redo", "bal_back", "bal_reins"}

\* A task in MIGRATING is in the hands of a CPU that will finish the
\* transaction (eevdf.rs: every exit of a migration ends it, or every waker
\* would spin for ever).
MigrationHasOwner ==
    \A t \in Task : onrq[t] = "MIGRATING" =>
        \E c \in CPU : arg[c] = t /\ pc[c] \in MigrationPC

\* Somebody is about to give task t a place in a run queue, or to run it.
InHand(t) ==
    \/ \E r \in Remote : rtask[r] = t /\ rpc[r] \in
          {"enter", "place", "settle", "bind", "check", "withdraw", "insert",
           "stop_mark"}
    \/ \E c \in CPU : arg[c] = t /\ pc[c] \in
          {"prepare", "claim", "bal_begin", "bal_commit", "bal_enq",
           "bal_ins", "bal_rollback", "bal_undo", "bal_redo", "bal_back",
           "bal_reins"}

\* A task that was made runnable and has left its CPU is in a run queue, or
\* on its way into one (enqueue_task: "enter the target run queue, request
\* scheduling of that CPU").
NotStranded ==
    \A t \in Task :
        state[t] = "Runnable" /\ oncpu[t] = None =>
            InHand(t) \/ \E c \in CPU : t \in tree[c]

\* SIGCONT brings a stopped task back: once marked Continued and off its CPU
\* it is in a run queue or on its way (mark_continued: "the scheduler then
\* enqueues the Continued task again").
ContinuedIsRequeued ==
    \A t \in Task :
        state[t] = "Continued" /\ oncpu[t] = None =>
            InHand(t) \/ \E c \in CPU : t \in tree[c]

\* A task that has exited never executes again (kthread_finish, exit paths).
ExitIsFinal ==
    \A c \in CPU : pc[c] \notin {"dead", "retired"}
=============================================================================
