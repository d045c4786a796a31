---------------------------- MODULE SchedCoreProofs ----------------------------
(***************************************************************************)
(* What holds of the scheduler core for every number of tasks, CPUs and    *)
(* remote contexts, and whatever subset of the operations they use.        *)
(***************************************************************************)
EXTENDS SchedCore, TLAPS

\* What a CPU or a remote context carries between the steps of an operation.
CarryInv ==
    /\ \A c \in CPU :
         /\ pc[c] \in {"finish", "exit", "stop"} => cur[c] \in Task
         /\ pc[c] \in {"prepare", "claim"} => arg[c] \in Task
         /\ pc[c] \in {"publish", "switch"} => arg[c] \in Task \cup {Idle}
         /\ pc[c] \in {"bal_begin", "bal_commit", "bal_enq", "bal_ins",
                       "bal_rollback", "bal_undo", "bal_redo", "bal_back",
                       "bal_reins"} =>
              arg[c] \in Task /\ saw[c] \in CPU
    /\ \A r \in Remote :
         /\ rpc[r] # "idle" => rtask[r] \in Task
         /\ rpc[r] \in {"bind", "check", "withdraw", "insert",
                        "stop_dequeue"} => rcpu[r] \in CPU

TypeInv == TypeOK /\ CarryInv

\* The state activate_task and the idle tasks leave behind has the types.
LEMMA TypeInvInit == Init => TypeInv
  BY SchedAssumption DEF Init, TypeInv, TypeOK, CarryInv, TaskState, OnRq,
      Bound, CpuPC, RemotePC

\* Both branches of dequeue_for_state_change keep the types: the local queue,
\* and the one a placement names elsewhere.
LEMMA DequeueSelfType ==
  ASSUME TypeInv, NEW c \in CPU, NEW then \in {"exit", "stop"},
         DequeueSelf(c, then)
  PROVE  TypeInv'
<1> DEFINE home == place[cur[c]].cpu
<1> USE SchedAssumption
<1>1. /\ home \in CPU /\ cur[c] \in Task
      /\ pc' = [pc EXCEPT ![c] = then]
      /\ UNCHANGED <<state, oncpu, place, enq, resume, rqlock, cur, arg, saw,
                     remoteVars>>
  BY Zenon DEF DequeueSelf, Goto, TypeInv, TypeOK
<1>2. CASE home = c /\ (cur[c] \in tree[c] \/ rqcur[c] = cur[c])
  <2>1. /\ tree' = [tree EXCEPT ![c] = @ \ {cur[c]}]
        /\ rqcur' = [rqcur EXCEPT ![c] = IF @ = cur[c] THEN None ELSE @]
        /\ onrq' = [onrq EXCEPT ![cur[c]] = "NONE"]
        /\ owner' = [owner EXCEPT ![cur[c]] = None]
    BY <1>2, Zenon DEF DequeueSelf, DequeueLocal
  <2>2. QED
    BY <1>1, <2>1 DEF remoteVars, TypeInv, TypeOK, CarryInv, TaskState, OnRq,
        CpuPC, RemotePC
<1>3. CASE home = c /\ ~(cur[c] \in tree[c] \/ rqcur[c] = cur[c])
  <2>1. /\ UNCHANGED <<tree, rqcur, onrq, owner>>
    BY <1>3, Zenon DEF DequeueSelf, DequeueLocal
  <2>2. QED
    BY <1>1, <2>1 DEF remoteVars, TypeInv, TypeOK, CarryInv, TaskState, OnRq,
        CpuPC, RemotePC
<1>4. CASE home # c /\ cur[c] \in tree[home]
  <2>1. /\ tree' = [tree EXCEPT ![home] = @ \ {cur[c]}]
        /\ rqcur' = rqcur
        /\ onrq' = [onrq EXCEPT ![cur[c]] = "NONE"]
        /\ owner' = [owner EXCEPT ![cur[c]] = None]
    BY <1>4, Zenon DEF DequeueSelf, DequeueLocal
  <2>2. QED
    BY <1>1, <2>1 DEF remoteVars, TypeInv, TypeOK, CarryInv, TaskState, OnRq,
        CpuPC, RemotePC
<1>5. CASE home # c /\ cur[c] \notin tree[home]
  <2>1. /\ UNCHANGED <<tree, rqcur, onrq, owner>>
    BY <1>5, Zenon DEF DequeueSelf, DequeueLocal
  <2>2. QED
    BY <1>1, <2>1, ZenonT(60) DEF remoteVars, TypeInv, TypeOK, CarryInv, TaskState, OnRq,
        CpuPC, RemotePC
<1>q. QED
  BY <1>2, <1>3, <1>4, <1>5, Zenon

\* Every atomic access of schedule_once, balance_once, enqueue_task and the
\* stop, exit and signal paths keeps them.
LEMMA TypeInvStep == TypeInv /\ [Next]_vars => TypeInv'
<1> SUFFICES ASSUME TypeInv, [Next]_vars PROVE TypeInv'
  BY Zenon
<1> USE SchedAssumption
<1>1. ASSUME NEW c \in CPU, Reschedule(c) PROVE TypeInv'
  BY <1>1 DEF Reschedule, Goto, rqVars, remoteVars, TypeInv, TypeOK, CarryInv,
      TaskState, OnRq, CpuPC, RemotePC
<1>2. ASSUME NEW c \in CPU, PrepareWait(c) PROVE TypeInv'
  BY <1>2 DEF PrepareWait, Goto, rqVars, remoteVars, TypeInv, TypeOK,
      CarryInv, TaskState, OnRq, CpuPC, RemotePC
<1>3. ASSUME NEW c \in CPU, FinishWait(c) PROVE TypeInv'
  BY <1>3 DEF FinishWait, Goto, rqVars, remoteVars, TypeInv, TypeOK, CarryInv,
      TaskState, OnRq, CpuPC, RemotePC
<1>4. ASSUME NEW c \in CPU, ExitDequeue(c) PROVE TypeInv'
  BY <1>4, DequeueSelfType, Zenon DEF ExitDequeue
<1>5. ASSUME NEW c \in CPU, MarkExited(c) PROVE TypeInv'
  BY <1>5 DEF MarkExited, Goto, rqVars, remoteVars, TypeInv, TypeOK, CarryInv,
      TaskState, OnRq, CpuPC, RemotePC
<1>6. ASSUME NEW c \in CPU, StopDequeue(c) PROVE TypeInv'
  BY <1>6, DequeueSelfType, Zenon DEF StopDequeue
<1>7. ASSUME NEW c \in CPU, MarkStopped(c) PROVE TypeInv'
  BY <1>7 DEF MarkStopped, Goto, rqVars, remoteVars, TypeInv, TypeOK,
      CarryInv, TaskState, OnRq, CpuPC, RemotePC
<1>8. ASSUME NEW c \in CPU, PickLock(c) PROVE TypeInv'
  BY <1>8 DEF PickLock, Goto, Lock, taskVars, remoteVars, TypeInv, TypeOK,
      CarryInv, TaskState, OnRq, CpuPC, RemotePC
<1>9. ASSUME NEW c \in CPU, RequeuePrev(c) PROVE TypeInv'
  <2>1. CASE rqcur[c] = None
    <3>1. /\ pc[c] = "requeue"
          /\ arg' = [arg EXCEPT ![c] = None]
          /\ UNCHANGED <<state, onrq, owner, tree>>
          /\ rqcur' = [rqcur EXCEPT ![c] = None]
          /\ saw' = [saw EXCEPT ![c] = None]
          /\ pc' = [pc EXCEPT ![c] = "pick"]
          /\ UNCHANGED <<oncpu, place, enq, resume, rqlock, cur, remoteVars>>
      BY <1>9, <2>1, Zenon DEF RequeuePrev, Goto
    <3>2. QED
      BY <2>1, <3>1 DEF remoteVars, TypeInv, TypeOK, CarryInv, TaskState,
          OnRq, CpuPC, RemotePC
  <2>2. CASE rqcur[c] # None /\ saw[c] = "requeue"
    <3>1. /\ pc[c] = "requeue"
          /\ arg' = [arg EXCEPT ![c] = rqcur[c]]
          /\ state' = [state EXCEPT ![rqcur[c]] = "Runnable"]
          /\ owner' = [owner EXCEPT ![rqcur[c]] = c]
          /\ tree' = [tree EXCEPT ![c] = @ \cup {rqcur[c]}]
          /\ onrq' = onrq
          /\ rqcur' = [rqcur EXCEPT ![c] = None]
          /\ saw' = [saw EXCEPT ![c] = None]
          /\ pc' = [pc EXCEPT ![c] = "pick"]
          /\ UNCHANGED <<oncpu, place, enq, resume, rqlock, cur, remoteVars>>
      BY <1>9, <2>2, Zenon DEF RequeuePrev, Goto
    <3>2. QED
      BY <2>2, <3>1 DEF remoteVars, TypeInv, TypeOK, CarryInv, TaskState,
          OnRq, CpuPC, RemotePC
  <2>3. CASE rqcur[c] # None /\ saw[c] # "requeue"
    <3>1. /\ pc[c] = "requeue"
          /\ arg' = [arg EXCEPT ![c] = rqcur[c]]
          /\ owner' = [owner EXCEPT ![rqcur[c]] = None]
          /\ onrq' = [onrq EXCEPT ![rqcur[c]] = "NONE"]
          /\ UNCHANGED <<state, tree>>
          /\ rqcur' = [rqcur EXCEPT ![c] = None]
          /\ saw' = [saw EXCEPT ![c] = None]
          /\ pc' = [pc EXCEPT ![c] = "pick"]
          /\ UNCHANGED <<oncpu, place, enq, resume, rqlock, cur, remoteVars>>
      BY <1>9, <2>3, Zenon DEF RequeuePrev, Goto
    <3>2. QED
      BY <2>3, <3>1 DEF remoteVars, TypeInv, TypeOK, CarryInv, TaskState,
          OnRq, CpuPC, RemotePC
  <2>q. QED
    BY <1>9, <2>1, <2>2, <2>3, Zenon
<1>10. ASSUME NEW c \in CPU, DiscardCandidate(c) PROVE TypeInv'
  BY <1>10 DEF DiscardCandidate, Pickable, cpuVars, remoteVars, TypeInv,
      TypeOK, CarryInv, TaskState, OnRq, CpuPC, RemotePC
<1>11. ASSUME NEW c \in CPU, PickCandidate(c) PROVE TypeInv'
  BY <1>11 DEF PickCandidate, Goto, Pickable, taskVars, remoteVars, TypeInv,
      TypeOK, CarryInv, TaskState, OnRq, CpuPC, RemotePC
<1>12. ASSUME NEW c \in CPU, PrepareRunning(c) PROVE TypeInv'
  <2>1. CASE arg[c] = cur[c]
    <3>1. /\ pc[c] = "prepare"
          /\ state' = [state EXCEPT ![arg[c]] = "Running"]
          /\ onrq' = [onrq EXCEPT ![arg[c]] = "QUEUED"]
          /\ owner' = [owner EXCEPT ![arg[c]] = c]
          /\ rqcur' = [rqcur EXCEPT ![c] = arg[c]]
          /\ pc' = [pc EXCEPT ![c] = resume[cur[c]]]
          /\ arg' = [arg EXCEPT ![c] = None]
          /\ rqlock' = [rqlock EXCEPT ![c] = None]
          /\ UNCHANGED <<oncpu, place, enq, resume, tree, cur, saw, remoteVars>>
      BY <1>12, <2>1, Zenon DEF PrepareRunning, Goto, Unlock
    <3>2. QED
      BY <2>1, <3>1 DEF remoteVars, TypeInv, TypeOK, CarryInv, TaskState,
          OnRq, CpuPC, RemotePC
  <2>2. CASE arg[c] # cur[c]
    <3>1. /\ pc[c] = "prepare"
          /\ state' = [state EXCEPT ![arg[c]] = "Running"]
          /\ onrq' = [onrq EXCEPT ![arg[c]] = "QUEUED"]
          /\ owner' = [owner EXCEPT ![arg[c]] = c]
          /\ rqcur' = [rqcur EXCEPT ![c] = arg[c]]
          /\ pc' = [pc EXCEPT ![c] = "claim"]
          /\ arg' = arg
          /\ rqlock' = [rqlock EXCEPT ![c] = None]
          /\ UNCHANGED <<oncpu, place, enq, resume, tree, cur, saw, remoteVars>>
      BY <1>12, <2>2, Zenon DEF PrepareRunning, Goto, Unlock
    <3>2. QED
      BY <2>2, <3>1 DEF remoteVars, TypeInv, TypeOK, CarryInv, TaskState,
          OnRq, CpuPC, RemotePC
  <2>q. QED
    BY <1>12, <2>1, <2>2, Zenon
<1>13. ASSUME NEW c \in CPU, PickIdle(c) PROVE TypeInv'
  <2>1. CASE cur[c] = Idle
    <3>1. /\ pc[c] = "pick"
          /\ pc' = [pc EXCEPT ![c] = "run"]
          /\ arg' = [arg EXCEPT ![c] = None]
          /\ rqlock' = [rqlock EXCEPT ![c] = None]
          /\ UNCHANGED <<taskVars, tree, rqcur, cur, saw, remoteVars>>
      BY <1>13, <2>1, Zenon DEF PickIdle, Goto, Unlock, Pickable
    <3>2. QED
      BY <2>1, <3>1 DEF taskVars, remoteVars, TypeInv, TypeOK, CarryInv,
          TaskState, OnRq, CpuPC, RemotePC
  <2>2. CASE cur[c] # Idle
    <3>1. /\ pc[c] = "pick"
          /\ pc' = [pc EXCEPT ![c] = "publish"]
          /\ arg' = [arg EXCEPT ![c] = Idle]
          /\ rqlock' = [rqlock EXCEPT ![c] = None]
          /\ UNCHANGED <<taskVars, tree, rqcur, cur, saw, remoteVars>>
      BY <1>13, <2>2, Zenon DEF PickIdle, Goto, Unlock, Pickable
    <3>2. QED
      BY <2>2, <3>1 DEF taskVars, remoteVars, TypeInv, TypeOK, CarryInv,
          TaskState, OnRq, CpuPC, RemotePC
  <2>q. QED
    BY <1>13, <2>1, <2>2, Zenon
<1>14. ASSUME NEW c \in CPU, Claim(c) PROVE TypeInv'
  BY <1>14 DEF Claim, Goto, rqVars, remoteVars, TypeInv, TypeOK, CarryInv,
      TaskState, OnRq, CpuPC, RemotePC
<1>15. ASSUME NEW c \in CPU, Publish(c) PROVE TypeInv'
  BY <1>15 DEF Publish, Goto, Bound, rqVars, remoteVars, TypeInv, TypeOK,
      CarryInv, TaskState, OnRq, CpuPC, RemotePC
<1>16. ASSUME NEW c \in CPU, Switch(c) PROVE TypeInv'
  <2>1. CASE cur[c] = Idle
    <3>1. /\ pc[c] = "switch"
          /\ (oncpu' = oncpu \/ oncpu' = [oncpu EXCEPT ![arg[c]] = None])
          /\ (resume' = resume \/ resume' = [resume EXCEPT ![arg[c]] = "retired"])
          /\ pc' = [pc EXCEPT ![c] = "run"]
          /\ arg' = [arg EXCEPT ![c] = None]
          /\ saw' = [saw EXCEPT ![c] = None]
          /\ UNCHANGED <<state, onrq, owner, place, enq, rqVars, cur, remoteVars>>
      BY <1>16, <2>1, Zenon DEF Switch, Goto
    <3>2. /\ oncpu' \in [Task -> CPU \cup {None}]
          /\ resume' \in [Task -> {"run", "finish", "dead", "retired"}]
      BY <3>1, ZenonT(30) DEF TypeInv, TypeOK
    <3>3. QED
      BY <2>1, <3>1, <3>2 DEF rqVars, remoteVars, TypeInv, TypeOK, CarryInv,
          TaskState, OnRq, CpuPC, RemotePC
  <2>2. CASE cur[c] # Idle
    <3>1. /\ pc[c] = "switch"
          /\ (oncpu' = oncpu \/ oncpu' = [oncpu EXCEPT ![arg[c]] = None])
          /\ (resume' = resume \/ resume' = [resume EXCEPT ![arg[c]] = "retired"])
          /\ pc' = [pc EXCEPT ![c] = resume[cur[c]]]
          /\ arg' = [arg EXCEPT ![c] = None]
          /\ saw' = [saw EXCEPT ![c] = None]
          /\ UNCHANGED <<state, onrq, owner, place, enq, rqVars, cur, remoteVars>>
      BY <1>16, <2>2, Zenon DEF Switch, Goto
    <3>2. /\ cur[c] \in Task
          /\ resume[cur[c]] \in {"run", "finish", "dead", "retired"}
      BY <2>2, Zenon DEF TypeInv, TypeOK
    <3>3. /\ oncpu' \in [Task -> CPU \cup {None}]
          /\ resume' \in [Task -> {"run", "finish", "dead", "retired"}]
      BY <3>1, ZenonT(30) DEF TypeInv, TypeOK
    <3>4. pc' \in [CPU -> CpuPC]
      BY <3>1, <3>2, Zenon DEF TypeInv, TypeOK, CpuPC
    <3>5. QED
      BY <3>1, <3>2, <3>3, <3>4 DEF rqVars, remoteVars, TypeInv, TypeOK, CarryInv,
          TaskState, OnRq, CpuPC, RemotePC
  <2>q. QED
    BY <1>16, <2>1, <2>2, Zenon
<1>17. ASSUME NEW c \in CPU, BalanceTake(c) PROVE TypeInv'
  BY <1>17 DEF BalanceTake, Goto, Free, remoteVars, TypeInv, TypeOK, CarryInv,
      TaskState, OnRq, CpuPC, RemotePC
<1>18. ASSUME NEW c \in CPU, BalanceBegin(c) PROVE TypeInv'
  <2>1. CASE place[arg[c]].st = "Bound"
    <3>1. /\ pc[c] = "bal_begin"
          /\ place' = [place EXCEPT ![arg[c]] = Migrating(@.cpu)]
          /\ saw' = [saw EXCEPT ![c] = place[arg[c]].cpu]
          /\ pc' = [pc EXCEPT ![c] = "bal_commit"]
          /\ UNCHANGED <<state, onrq, owner, oncpu, enq, resume, rqVars, cur, arg,
                      remoteVars>>
      BY <1>18, <2>1, Zenon DEF BalanceBegin, Goto
    <3>2. QED
      BY <2>1, <3>1 DEF Migrating, rqVars, remoteVars, TypeInv, TypeOK,
          CarryInv, TaskState, OnRq, CpuPC, RemotePC
  <2>2. CASE place[arg[c]].st # "Bound"
    <3>1. /\ pc[c] = "bal_begin"
          /\ UNCHANGED <<place, saw>>
          /\ pc' = [pc EXCEPT ![c] = "bal_back"]
          /\ UNCHANGED <<state, onrq, owner, oncpu, enq, resume, rqVars, cur, arg,
                      remoteVars>>
      BY <1>18, <2>2, Zenon DEF BalanceBegin, Goto
    <3>2. QED
      BY <2>2, <3>1 DEF rqVars, remoteVars, TypeInv, TypeOK, CarryInv,
          TaskState, OnRq, CpuPC, RemotePC
  <2>q. QED
    BY <1>18, <2>1, <2>2, Zenon
<1>19. ASSUME NEW c \in CPU, BalanceCommit(c) PROVE TypeInv'
  BY <1>19 DEF BalanceCommit, Goto, Bound, rqVars, remoteVars, TypeInv,
      TypeOK, CarryInv, TaskState, OnRq, CpuPC, RemotePC
<1>20. ASSUME NEW c \in CPU, BalanceRollback(c) PROVE TypeInv'
  BY <1>20 DEF BalanceRollback, Goto, Bound, rqVars, remoteVars, TypeInv,
      TypeOK, CarryInv, TaskState, OnRq, CpuPC, RemotePC
<1>21. ASSUME NEW c \in CPU, MigratedCheck(c) PROVE TypeInv'
  <2>1. CASE /\ state[arg[c]] \in {"Runnable", "Running"} /\ onrq[arg[c]] # "QUEUED"
            /\ pc[c] = "bal_enq"
    <3>1. /\ pc[c] \in {"bal_enq", "bal_undo", "bal_back"}
          /\ UNCHANGED <<onrq, arg, saw>>
          /\ rqlock' = [rqlock EXCEPT ![MigrationRq(c)] = c]
          /\ pc' = [pc EXCEPT ![c] = "bal_ins"]
          /\ UNCHANGED <<state, owner, oncpu, place, enq, resume, tree, rqcur, cur,
                      remoteVars>>
      BY <1>21, <2>1 DEF MigratedCheck, InsertAt, Goto, Lock, Free
    <3>2. QED
      BY <2>1, <3>1 DEF MigrationRq, remoteVars, TypeInv, TypeOK, CarryInv,
          TaskState, OnRq, CpuPC, RemotePC
  <2>2. CASE /\ state[arg[c]] \in {"Runnable", "Running"} /\ onrq[arg[c]] # "QUEUED"
            /\ pc[c] # "bal_enq"
    <3>1. /\ pc[c] \in {"bal_enq", "bal_undo", "bal_back"}
          /\ UNCHANGED <<onrq, arg, saw>>
          /\ rqlock' = [rqlock EXCEPT ![MigrationRq(c)] = c]
          /\ pc' = [pc EXCEPT ![c] = "bal_redo"]
             \/ pc' = [pc EXCEPT ![c] = "bal_reins"]
          /\ UNCHANGED <<state, owner, oncpu, place, enq, resume, tree, rqcur, cur,
                      remoteVars>>
      BY <1>21, <2>2 DEF MigratedCheck, InsertAt, Goto, Lock, Free
    <3>2. MigrationRq(c) = saw[c] /\ arg[c] \in Task /\ saw[c] \in CPU
      BY <2>2, <3>1, Zenon DEF MigrationRq, TypeInv, CarryInv
    <3>3. /\ pc' \in [CPU -> CpuPC]
          /\ rqlock' \in [CPU -> CPU \cup Remote \cup {None}]
      BY <3>1, <3>2 DEF TypeInv, TypeOK, CpuPC
    <3>4. TypeOK'
      BY <3>1, <3>3, Zenon DEF remoteVars, TypeInv, TypeOK
    <3>5. CarryInv'
      BY <3>1, <3>2 DEF remoteVars, TypeInv, TypeOK, CarryInv
    <3>6. QED
      BY <3>4, <3>5, Zenon DEF TypeInv
  <2>3. CASE /\ ~(state[arg[c]] \in {"Runnable", "Running"} /\ onrq[arg[c]] # "QUEUED")
            /\ pc[c] = "bal_enq"
    <3>1. /\ pc[c] \in {"bal_enq", "bal_undo", "bal_back"}
          /\ onrq' = [onrq EXCEPT ![arg[c]] = IF @ = "MIGRATING" THEN "NONE" ELSE @]
          /\ UNCHANGED <<arg, saw, rqlock>>
          /\ pc' = [pc EXCEPT ![c] = "bal_rollback"]
          /\ UNCHANGED <<state, owner, oncpu, place, enq, resume, tree, rqcur, cur,
                      remoteVars>>
      BY <1>21, <2>3, SMTT(30) DEF MigratedCheck, InsertAt, Goto, Lock, Free
    <3>2. QED
      BY <2>3, <3>1 DEF remoteVars, TypeInv, TypeOK, CarryInv, TaskState,
          OnRq, CpuPC, RemotePC
  <2>4. CASE /\ ~(state[arg[c]] \in {"Runnable", "Running"} /\ onrq[arg[c]] # "QUEUED")
            /\ pc[c] # "bal_enq"
    <3>1. /\ pc[c] \in {"bal_enq", "bal_undo", "bal_back"}
          /\ onrq' = [onrq EXCEPT ![arg[c]] = IF @ = "MIGRATING" THEN "NONE" ELSE @]
          /\ arg' = [arg EXCEPT ![c] = None]
          /\ saw' = [saw EXCEPT ![c] = None]
          /\ rqlock' = rqlock
          /\ pc' = [pc EXCEPT ![c] = "run"]
          /\ UNCHANGED <<state, owner, oncpu, place, enq, resume, tree, rqcur, cur,
                      remoteVars>>
      BY <1>21, <2>4, SMTT(30) DEF MigratedCheck, InsertAt, Goto, Lock, Free
    <3>2. QED
      BY <2>4, <3>1 DEF remoteVars, TypeInv, TypeOK, CarryInv, TaskState,
          OnRq, CpuPC, RemotePC
  <2>q. QED
    BY <1>21, <2>1, <2>2, <2>3, <2>4, Zenon
<1>22. ASSUME NEW c \in CPU, MigratedInsert(c) PROVE TypeInv'
  BY <1>22 DEF MigratedInsert, Goto, Unlock, Insert, MigrationRq, remoteVars,
      TypeInv, TypeOK, CarryInv, TaskState, OnRq, CpuPC, RemotePC
<1>23. ASSUME NEW r \in Remote, Wake(r) PROVE TypeInv'
  BY <1>23 DEF Wake, MakeRunnable, RGoto, rqVars, cpuVars, TypeInv, TypeOK,
      CarryInv, TaskState, OnRq, CpuPC, RemotePC
<1>24. ASSUME NEW r \in Remote, Continue(r) PROVE TypeInv'
  BY <1>24 DEF Continue, MakeRunnable, RGoto, rqVars, cpuVars, TypeInv,
      TypeOK, CarryInv, TaskState, OnRq, CpuPC, RemotePC
<1>25. ASSUME NEW r \in Remote, Kill(r) PROVE TypeInv'
  BY <1>25 DEF Kill, MakeRunnable, RGoto, rqVars, cpuVars, TypeInv, TypeOK,
      CarryInv, TaskState, OnRq, CpuPC, RemotePC
<1>26. ASSUME NEW r \in Remote, EnqueueEnter(r) PROVE TypeInv'
  <2>1. CASE ~CanEnter(rtask[r])
    <3>1. /\ rpc[r] = "enter"
          /\ onrq' = [onrq EXCEPT ![rtask[r]] = "NONE"]
          /\ enq' = enq
          /\ rpc' = [rpc EXCEPT ![r] = "idle"]
          /\ rtask' = [rtask EXCEPT ![r] = None]
          /\ rcpu' = [rcpu EXCEPT ![r] = None]
          /\ UNCHANGED <<state, owner, oncpu, place, resume, rqVars, cpuVars>>
      BY <1>26, <2>1, Zenon DEF EnqueueEnter, RGoto, Leave
    <3>2. QED
      BY <2>1, <3>1 DEF rqVars, cpuVars, TypeInv, TypeOK, CarryInv, TaskState,
          OnRq, CpuPC, RemotePC
  <2>2. CASE CanEnter(rtask[r]) /\ enq[rtask[r]]
    <3>1. /\ rpc[r] = "enter"
          /\ UNCHANGED <<onrq, enq>>
          /\ rpc' = [rpc EXCEPT ![r] = "idle"]
          /\ rtask' = [rtask EXCEPT ![r] = None]
          /\ rcpu' = [rcpu EXCEPT ![r] = None]
          /\ UNCHANGED <<state, owner, oncpu, place, resume, rqVars, cpuVars>>
      BY <1>26, <2>2, Zenon DEF EnqueueEnter, RGoto, Leave
    <3>2. QED
      BY <2>2, <3>1 DEF rqVars, cpuVars, TypeInv, TypeOK, CarryInv, TaskState,
          OnRq, CpuPC, RemotePC
  <2>3. CASE CanEnter(rtask[r]) /\ ~enq[rtask[r]]
    <3>1. /\ rpc[r] = "enter"
          /\ UNCHANGED <<onrq, rtask, rcpu>>
          /\ enq' = [enq EXCEPT ![rtask[r]] = TRUE]
          /\ rpc' = [rpc EXCEPT ![r] = "place"]
          /\ UNCHANGED <<state, owner, oncpu, place, resume, rqVars, cpuVars>>
      BY <1>26, <2>3, Zenon DEF EnqueueEnter, RGoto, Leave
    <3>2. QED
      BY <2>3, <3>1 DEF rqVars, cpuVars, TypeInv, TypeOK, CarryInv, TaskState,
          OnRq, CpuPC, RemotePC
  <2>q. QED
    BY <1>26, <2>1, <2>2, <2>3, Zenon
<1>27. ASSUME NEW r \in Remote, EnqueuePlace(r) PROVE TypeInv'
  <2>1. CASE place[rtask[r]].st = "Bound"
    <3>1. /\ rpc[r] = "place"
          /\ rpc' = [rpc EXCEPT ![r] = "check"]
          /\ rcpu' = [rcpu EXCEPT ![r] = place[rtask[r]].cpu]
          /\ UNCHANGED <<taskVars, rqVars, cpuVars, rtask>>
      BY <1>27, <2>1, Zenon DEF EnqueuePlace, RGoto
    <3>2. QED
      BY <2>1, <3>1 DEF taskVars, rqVars, cpuVars, TypeInv, TypeOK, CarryInv,
          TaskState, OnRq, CpuPC, RemotePC
  <2>2. CASE place[rtask[r]].st # "Bound"
    <3>1. /\ rpc[r] = "place"
          /\ rpc' = [rpc EXCEPT ![r] = "settle"]
          /\ rcpu' = rcpu
          /\ UNCHANGED <<taskVars, rqVars, cpuVars, rtask>>
      BY <1>27, <2>2, Zenon DEF EnqueuePlace, RGoto
    <3>2. QED
      BY <2>2, <3>1 DEF taskVars, rqVars, cpuVars, TypeInv, TypeOK, CarryInv,
          TaskState, OnRq, CpuPC, RemotePC
  <2>q. QED
    BY <1>27, <2>1, <2>2, Zenon
<1>28. ASSUME NEW r \in Remote, EnqueueSettle(r) PROVE TypeInv'
  BY <1>28 DEF EnqueueSettle, RGoto, taskVars, rqVars, cpuVars, TypeInv,
      TypeOK, CarryInv, TaskState, OnRq, CpuPC, RemotePC
<1>29. ASSUME NEW r \in Remote, EnqueueBind(r) PROVE TypeInv'
  BY <1>29 DEF EnqueueBind, RGoto, Bound, rqVars, cpuVars, TypeInv, TypeOK,
      CarryInv, TaskState, OnRq, CpuPC, RemotePC
<1>30. ASSUME NEW r \in Remote, EnqueueCheck(r) PROVE TypeInv'
  <2>1. CASE /\ /\ rqcur[rcpu[r]] = rtask[r]
                /\ state[rtask[r]] \in {"Running", "Runnable", "Sleeping"}
    <3>1. /\ rpc[r] = "check"
          /\ rpc' = [rpc EXCEPT ![r] = "withdraw"]
          /\ rqlock' = [rqlock EXCEPT ![rcpu[r]] = r]
          /\ onrq' = onrq
          /\ UNCHANGED <<state, owner, oncpu, place, enq, resume, tree, rqcur, cpuVars,
                      rtask, rcpu>>
      BY <1>30, <2>1, SMTT(30) DEF EnqueueCheck, RGoto, Lock, Free
    <3>2. QED
      BY <2>1, <3>1 DEF cpuVars, TypeInv, TypeOK, CarryInv, TaskState, OnRq,
          CpuPC, RemotePC
  <2>2. CASE /\ /\ ~(/\ rqcur[rcpu[r]] = rtask[r]
                    /\ state[rtask[r]] \in {"Running", "Runnable", "Sleeping"})
             /\ CanEnter(rtask[r]) /\ onrq[rtask[r]] = "NONE"
    <3>1. /\ rpc[r] = "check"
          /\ rpc' = [rpc EXCEPT ![r] = "insert"]
          /\ rqlock' = [rqlock EXCEPT ![rcpu[r]] = r]
          /\ onrq' = onrq
          /\ UNCHANGED <<state, owner, oncpu, place, enq, resume, tree, rqcur, cpuVars,
                      rtask, rcpu>>
      BY <1>30, <2>2, SMTT(30) DEF EnqueueCheck, RGoto, Lock, Free
    <3>2. QED
      BY <2>2, <3>1 DEF cpuVars, TypeInv, TypeOK, CarryInv, TaskState, OnRq,
          CpuPC, RemotePC
  <2>3. CASE /\ /\ ~(/\ rqcur[rcpu[r]] = rtask[r]
                    /\ state[rtask[r]] \in {"Running", "Runnable", "Sleeping"})
             /\ ~(CanEnter(rtask[r]) /\ onrq[rtask[r]] = "NONE")
    <3>1. /\ rpc[r] = "check"
          /\ rpc' = [rpc EXCEPT ![r] = "drop"]
          /\ rqlock' = rqlock
          /\ onrq' = [onrq EXCEPT ![rtask[r]] = IF ~CanEnter(rtask[r]) /\ @ # "MIGRATING" THEN "NONE"
                                         ELSE @]
          /\ UNCHANGED <<state, owner, oncpu, place, enq, resume, tree, rqcur, cpuVars,
                      rtask, rcpu>>
      BY <1>30, <2>3, SMTT(30) DEF EnqueueCheck, RGoto, Lock, Free
    <3>2. QED
      BY <2>3, <3>1 DEF cpuVars, TypeInv, TypeOK, CarryInv, TaskState, OnRq,
          CpuPC, RemotePC
  <2>q. QED
    BY <1>30, <2>1, <2>2, <2>3, Zenon
<1>31. ASSUME NEW r \in Remote, EnqueueWithdraw(r) PROVE TypeInv'
  BY <1>31 DEF EnqueueWithdraw, RGoto, Unlock, cpuVars, TypeInv, TypeOK,
      CarryInv, TaskState, OnRq, CpuPC, RemotePC
<1>32. ASSUME NEW r \in Remote, EnqueueInsert(r) PROVE TypeInv'
  BY <1>32, SMTT(30) DEF EnqueueInsert, RGoto, Unlock, Insert, cpuVars, TypeInv, TypeOK,
      CarryInv, TaskState, OnRq, CpuPC, RemotePC
<1>33. ASSUME NEW r \in Remote, EnqueueDrop(r) PROVE TypeInv'
  BY <1>33 DEF EnqueueDrop, Leave, RGoto, rqVars, cpuVars, TypeInv, TypeOK,
      CarryInv, TaskState, OnRq, CpuPC, RemotePC
<1>34. ASSUME NEW r \in Remote, StopLocate(r) PROVE TypeInv'
  BY <1>34 DEF StopLocate, RGoto, taskVars, rqVars, cpuVars, TypeInv, TypeOK,
      CarryInv, TaskState, OnRq, CpuPC, RemotePC
<1>35. ASSUME NEW r \in Remote, RemoteStopDequeue(r) PROVE TypeInv'
  <2>1. CASE rtask[r] \in tree[rcpu[r]]
    <3>1. /\ rpc[r] = "stop_dequeue"
          /\ tree' = [tree EXCEPT ![rcpu[r]] = @ \ {rtask[r]}]
          /\ rqcur' = [rqcur EXCEPT ![rcpu[r]] = IF @ = rtask[r] THEN None ELSE @]
          /\ onrq' = [onrq EXCEPT ![rtask[r]] = "NONE"]
          /\ owner' = [owner EXCEPT ![rtask[r]] = None]
          /\ rpc' = [rpc EXCEPT ![r] = "stop_mark"]
          /\ UNCHANGED <<state, oncpu, place, enq, resume, rqlock, cpuVars, rtask,
                      rcpu>>
      BY <1>35, <2>1, Zenon DEF RemoteStopDequeue, RGoto, Free, DequeueLocal
    <3>2. QED
      BY <2>1, <3>1, SMTT(30) DEF cpuVars, TypeInv, TypeOK, CarryInv, TaskState, OnRq,
          CpuPC, RemotePC
  <2>2. CASE rtask[r] \notin tree[rcpu[r]]
    <3>1. /\ rpc[r] = "stop_dequeue"
          /\ UNCHANGED <<tree, rqcur, onrq, owner>>
          /\ rpc' = [rpc EXCEPT ![r] = "stop_mark"]
          /\ UNCHANGED <<state, oncpu, place, enq, resume, rqlock, cpuVars, rtask,
                      rcpu>>
      BY <1>35, <2>2, SMTT(30) DEF RemoteStopDequeue, RGoto, Free, DequeueLocal
    <3>2. QED
      BY <2>2, <3>1 DEF cpuVars, TypeInv, TypeOK, CarryInv, TaskState, OnRq,
          CpuPC, RemotePC
  <2>q. QED
    BY <1>35, <2>1, <2>2, Zenon
<1>36. ASSUME NEW r \in Remote, RemoteStopMark(r) PROVE TypeInv'
  BY <1>36 DEF RemoteStopMark, Leave, RGoto, rqVars, cpuVars, TypeInv, TypeOK,
      CarryInv, TaskState, OnRq, CpuPC, RemotePC
<1>37. CASE UNCHANGED vars
  BY <1>37, Zenon DEF vars, taskVars, rqVars, cpuVars, remoteVars, TypeInv, TypeOK,
      CarryInv, TaskState, OnRq, CpuPC, RemotePC
<1>q. QED
  BY <1>1, <1>2, <1>3, <1>4, <1>5, <1>6, <1>7, <1>8, <1>9, <1>10, <1>11,
     <1>12, <1>13, <1>14, <1>15, <1>16, <1>17, <1>18, <1>19, <1>20, <1>21,
     <1>22, <1>23, <1>24, <1>25, <1>26, <1>27, <1>28, <1>29, <1>30, <1>31,
     <1>32, <1>33, <1>34, <1>35, <1>36, <1>37, SMTT(30) DEF Next, CpuStep,
     RemoteStep

\* Every variable keeps its type, whatever the constants: the step from a
\* task, CPU or context chosen earlier to its use never goes astray
\* (schedule_once_inner, balance_once, enqueue_task_on_scheduler).
THEOREM TypeCorrect == Spec => []TypeOK
<1>1. TypeInv => TypeOK
  BY Zenon DEF TypeInv
<1>q. QED
  BY <1>1, TypeInvInit, TypeInvStep, PTL DEF Spec

------------------------------------------------------------------------------
\* A CPU owns the task it has published, and between the claim of the next
\* task and the end of the switch it owns both, which differ.
OwnInv ==
    \A c \in CPU :
        /\ cur[c] \in Task => oncpu[cur[c]] = c
        /\ pc[c] = "claim" => arg[c] # cur[c]
        /\ pc[c] \in {"publish", "switch"} =>
             arg[c] # cur[c] /\ (arg[c] \in Task => oncpu[arg[c]] = c)

\* Only try_claim_cpu and the end of switch_context write on_cpu: a claim
\* takes a free task, a release gives up the caller's own previous task.
LEMMA OwnInvStep == TypeInv /\ OwnInv /\ [Next]_vars => OwnInv'
<1> SUFFICES ASSUME TypeInv, OwnInv, [Next]_vars PROVE OwnInv'
  BY Zenon
<1> USE SchedAssumption
<1>0. /\ cur \in [CPU -> Task \cup {Idle}] /\ pc \in [CPU -> CpuPC]
      /\ arg \in [CPU -> Task \cup {Idle, None}] /\ oncpu \in [Task -> CPU \cup {None}]
      /\ \A c \in CPU : /\ pc[c] \in {"prepare", "claim"} => arg[c] \in Task
                        /\ pc[c] \in {"publish", "switch"} => arg[c] \in Task \cup {Idle}
  BY Zenon DEF TypeInv, TypeOK, CarryInv
<1>1. ASSUME NEW c \in CPU, Reschedule(c) PROVE OwnInv'
  BY <1>0, <1>1 DEF Reschedule, Goto, rqVars, remoteVars, OwnInv
<1>2. ASSUME NEW c \in CPU, PrepareWait(c) PROVE OwnInv'
  BY <1>0, <1>2 DEF PrepareWait, Goto, rqVars, remoteVars, OwnInv
<1>3. ASSUME NEW c \in CPU, FinishWait(c) PROVE OwnInv'
  BY <1>0, <1>3 DEF FinishWait, Goto, rqVars, remoteVars, OwnInv
<1>4. ASSUME NEW c \in CPU, ExitDequeue(c) PROVE OwnInv'
  BY <1>0, <1>4, Zenon DEF ExitDequeue, DequeueSelf, Goto, Free,
      DequeueLocal, remoteVars, OwnInv
<1>5. ASSUME NEW c \in CPU, MarkExited(c) PROVE OwnInv'
  BY <1>0, <1>5 DEF MarkExited, Goto, rqVars, remoteVars, OwnInv
<1>6. ASSUME NEW c \in CPU, StopDequeue(c) PROVE OwnInv'
  BY <1>0, <1>6, Zenon DEF StopDequeue, DequeueSelf, Goto, Free,
      DequeueLocal, remoteVars, OwnInv
<1>7. ASSUME NEW c \in CPU, MarkStopped(c) PROVE OwnInv'
  BY <1>0, <1>7 DEF MarkStopped, Goto, rqVars, remoteVars, OwnInv
<1>8. ASSUME NEW c \in CPU, PickLock(c) PROVE OwnInv'
  BY <1>0, <1>8, Zenon DEF PickLock, Goto, Lock, taskVars, remoteVars, OwnInv
<1>9. ASSUME NEW c \in CPU, RequeuePrev(c) PROVE OwnInv'
  BY <1>0, <1>9, Zenon DEF RequeuePrev, Goto, remoteVars, OwnInv
<1>10. ASSUME NEW c \in CPU, DiscardCandidate(c) PROVE OwnInv'
  BY <1>0, <1>10, Zenon DEF DiscardCandidate, Pickable, cpuVars, remoteVars,
      OwnInv
<1>11. ASSUME NEW c \in CPU, PickCandidate(c) PROVE OwnInv'
  BY <1>0, <1>11 DEF PickCandidate, Goto, Pickable, taskVars, remoteVars,
      OwnInv
<1>12. ASSUME NEW c \in CPU, PrepareRunning(c) PROVE OwnInv'
  BY <1>0, <1>12 DEF PrepareRunning, Goto, Unlock, remoteVars, OwnInv
<1>13. ASSUME NEW c \in CPU, PickIdle(c) PROVE OwnInv'
  <2>1. CASE cur[c] = Idle
    <3>1. /\ pc' = [pc EXCEPT ![c] = "run"]
          /\ UNCHANGED <<oncpu, cur>>
          /\ \A d \in CPU \ {c} : arg'[d] = arg[d]
      BY <1>0, <1>13, <2>1, Zenon DEF PickIdle, Goto, taskVars
    <3>2. QED
      BY <1>0, <3>1 DEF OwnInv
  <2>2. CASE cur[c] # Idle
    <3>1. /\ pc' = [pc EXCEPT ![c] = "publish"]
          /\ arg' = [arg EXCEPT ![c] = Idle]
          /\ UNCHANGED <<oncpu, cur>>
      BY <1>13, <2>2, Zenon DEF PickIdle, Goto, taskVars
    <3>2. QED
      BY <1>0, <2>2, <3>1, Zenon DEF OwnInv
  <2>q. QED
    BY <2>1, <2>2, Zenon
<1>14. ASSUME NEW c \in CPU, Claim(c) PROVE OwnInv'
  BY <1>0, <1>14 DEF Claim, Goto, rqVars, remoteVars, OwnInv
<1>15. ASSUME NEW c \in CPU, Publish(c) PROVE OwnInv'
  BY <1>0, <1>15, Zenon DEF Publish, Goto, Bound, rqVars, remoteVars, OwnInv
<1>16. ASSUME NEW c \in CPU, Switch(c) PROVE OwnInv'
  BY <1>0, <1>16 DEF Switch, Goto, rqVars, remoteVars, OwnInv
<1>17. ASSUME NEW c \in CPU, BalanceTake(c) PROVE OwnInv'
  BY <1>0, <1>17 DEF BalanceTake, Goto, Free, remoteVars, OwnInv
<1>18. ASSUME NEW c \in CPU, BalanceBegin(c) PROVE OwnInv'
  BY <1>0, <1>18 DEF BalanceBegin, Goto, Bound, Migrating, rqVars, remoteVars,
      OwnInv
<1>19. ASSUME NEW c \in CPU, BalanceCommit(c) PROVE OwnInv'
  BY <1>0, <1>19 DEF BalanceCommit, Goto, Bound, rqVars, remoteVars, OwnInv
<1>20. ASSUME NEW c \in CPU, BalanceRollback(c) PROVE OwnInv'
  BY <1>0, <1>20 DEF BalanceRollback, Goto, Bound, rqVars, remoteVars, OwnInv
<1>21. ASSUME NEW c \in CPU, MigratedCheck(c) PROVE OwnInv'
  BY <1>0, <1>21 DEF MigratedCheck, InsertAt, Goto, Lock, Free, MigrationRq,
      remoteVars, OwnInv
<1>22. ASSUME NEW c \in CPU, MigratedInsert(c) PROVE OwnInv'
  BY <1>0, <1>22, Zenon DEF MigratedInsert, Goto, Unlock, Insert, MigrationRq,
      remoteVars, OwnInv
<1>23. ASSUME NEW r \in Remote, Wake(r) PROVE OwnInv'
  BY <1>0, <1>23, Zenon DEF Wake, MakeRunnable, RGoto, rqVars, cpuVars, OwnInv
<1>24. ASSUME NEW r \in Remote, Continue(r) PROVE OwnInv'
  BY <1>0, <1>24, Zenon DEF Continue, MakeRunnable, RGoto, rqVars, cpuVars,
      OwnInv
<1>25. ASSUME NEW r \in Remote, Kill(r) PROVE OwnInv'
  BY <1>0, <1>25, Zenon DEF Kill, MakeRunnable, RGoto, rqVars, cpuVars, OwnInv
<1>26. ASSUME NEW r \in Remote, EnqueueEnter(r) PROVE OwnInv'
  BY <1>0, <1>26, Zenon DEF EnqueueEnter, RGoto, CanEnter, Leave, rqVars,
      cpuVars, OwnInv
<1>27. ASSUME NEW r \in Remote, EnqueuePlace(r) PROVE OwnInv'
  BY <1>0, <1>27, Zenon DEF EnqueuePlace, RGoto, Bound, taskVars, rqVars,
      cpuVars, OwnInv
<1>28. ASSUME NEW r \in Remote, EnqueueSettle(r) PROVE OwnInv'
  BY <1>0, <1>28, Zenon DEF EnqueueSettle, RGoto, taskVars, rqVars, cpuVars,
      OwnInv
<1>29. ASSUME NEW r \in Remote, EnqueueBind(r) PROVE OwnInv'
  BY <1>0, <1>29, Zenon DEF EnqueueBind, RGoto, Bound, rqVars, cpuVars, OwnInv
<1>30. ASSUME NEW r \in Remote, EnqueueCheck(r) PROVE OwnInv'
  BY <1>0, <1>30, Zenon DEF EnqueueCheck, RGoto, Lock, Free, CanEnter,
      cpuVars, OwnInv
<1>31. ASSUME NEW r \in Remote, EnqueueWithdraw(r) PROVE OwnInv'
  BY <1>0, <1>31, Zenon DEF EnqueueWithdraw, RGoto, Unlock, cpuVars, OwnInv
<1>32. ASSUME NEW r \in Remote, EnqueueInsert(r) PROVE OwnInv'
  BY <1>0, <1>32, Zenon DEF EnqueueInsert, RGoto, Unlock, Insert, cpuVars,
      OwnInv
<1>33. ASSUME NEW r \in Remote, EnqueueDrop(r) PROVE OwnInv'
  BY <1>0, <1>33, Zenon DEF EnqueueDrop, Leave, RGoto, rqVars, cpuVars, OwnInv
<1>34. ASSUME NEW r \in Remote, StopLocate(r) PROVE OwnInv'
  BY <1>0, <1>34, Zenon DEF StopLocate, RGoto, taskVars, rqVars, cpuVars,
      OwnInv
<1>35. ASSUME NEW r \in Remote, RemoteStopDequeue(r) PROVE OwnInv'
  BY <1>0, <1>35, Zenon DEF RemoteStopDequeue, RGoto, Free, DequeueLocal,
      cpuVars, OwnInv
<1>36. ASSUME NEW r \in Remote, RemoteStopMark(r) PROVE OwnInv'
  BY <1>0, <1>36, Zenon DEF RemoteStopMark, Leave, RGoto, rqVars, cpuVars,
      OwnInv
<1>37. CASE UNCHANGED vars
  BY <1>0, <1>37, Zenon DEF vars, taskVars, rqVars, cpuVars, remoteVars, OwnInv
<1>q. QED
  BY <1>1, <1>2, <1>3, <1>4, <1>5, <1>6, <1>7, <1>8, <1>9, <1>10, <1>11,
     <1>12, <1>13, <1>14, <1>15, <1>16, <1>17, <1>18, <1>19, <1>20, <1>21,
     <1>22, <1>23, <1>24, <1>25, <1>26, <1>27, <1>28, <1>29, <1>30, <1>31,
     <1>32, <1>33, <1>34, <1>35, <1>36, <1>37, Zenon DEF Next, CpuStep,
     RemoteStep

\* Every task a CPU executes is claimed by it (try_claim_cpu before the
\* switch, on_cpu released only after the context is saved), for any number of
\* tasks, CPUs and wakers, with migration, stops, signals and exits: no
\* context is ever live on two CPUs.
THEOREM OwnershipCorrect == Spec => []ExecutionOwnership
<1>1. Init => OwnInv
  BY SchedAssumption DEF Init, OwnInv
<1>2. OwnInv => ExecutionOwnership
  BY Zenon DEF OwnInv, ExecutionOwnership, Executing
<1>q. QED
  BY <1>1, <1>2, TypeInvInit, TypeInvStep, OwnInvStep, PTL DEF Spec

------------------------------------------------------------------------------
\* A step of CPU c that sets no task to MIGRATING keeps the property when c
\* had no migration in hand, keeps it in hand, or ends it.
LEMMA MigrationFrame ==
  ASSUME MigrationHasOwner, NEW c \in CPU,
         \A t \in Task : onrq'[t] = "MIGRATING" => onrq[t] = "MIGRATING",
         \A d \in CPU \ {c} : pc'[d] = pc[d] /\ arg'[d] = arg[d],
         \/ pc[c] \notin MigrationPC
         \/ pc'[c] \in MigrationPC /\ arg'[c] = arg[c]
         \/ onrq'[arg[c]] # "MIGRATING"
  PROVE  MigrationHasOwner'
  BY DEF MigrationHasOwner

\* Only take_migratable_from_class starts a migration, and enqueue_migrated
\* ends it on acceptance and on refusal.
LEMMA MigrationStep ==
  TypeInv /\ MigrationHasOwner /\ [Next]_vars => MigrationHasOwner'
<1> SUFFICES ASSUME TypeInv, MigrationHasOwner, [Next]_vars
             PROVE  MigrationHasOwner'
  BY Zenon
<1> USE SchedAssumption
<1>0. /\ onrq \in [Task -> OnRq] /\ pc \in [CPU -> CpuPC]
      /\ arg \in [CPU -> Task \cup {Idle, None}]
      /\ \A c \in CPU : /\ pc[c] \in {"prepare", "claim"} => arg[c] \in Task
                        /\ pc[c] \in {"bal_commit", "bal_enq", "bal_ins", "bal_undo", "bal_redo",
                                     "bal_back", "bal_reins"} => arg[c] \in Task
      /\ \A r \in Remote : rpc[r] # "idle" => rtask[r] \in Task
  BY Zenon DEF TypeInv, TypeOK, CarryInv
<1>1. ASSUME NEW c \in CPU, Reschedule(c) PROVE MigrationHasOwner'
  <2>1. pc[c] \notin MigrationPC
    BY <1>1, Zenon DEF Reschedule, MigrationPC
  <2>2. \A t \in Task : onrq'[t] = "MIGRATING" => onrq[t] = "MIGRATING"
    BY <1>0, <1>1, Zenon DEF Reschedule, Goto
  <2>3. \A d \in CPU \ {c} : pc'[d] = pc[d] /\ arg'[d] = arg[d]
    BY <1>0, <1>1, Zenon DEF Reschedule, Goto
  <2>q. QED
    BY <2>1, <2>2, <2>3, MigrationFrame, Zenon
<1>2. ASSUME NEW c \in CPU, PrepareWait(c) PROVE MigrationHasOwner'
  <2>1. /\ pc[c] \notin MigrationPC
        /\ \A t \in Task : onrq'[t] = "MIGRATING" => onrq[t] = "MIGRATING"
        /\ \A d \in CPU \ {c} : pc'[d] = pc[d] /\ arg'[d] = arg[d]
    BY <1>0, <1>2, Zenon DEF PrepareWait, Goto, MigrationPC
  <2>2. QED
    BY <2>1, MigrationFrame, Zenon
<1>3. ASSUME NEW c \in CPU, FinishWait(c) PROVE MigrationHasOwner'
  <2>1. /\ pc[c] \notin MigrationPC
        /\ \A t \in Task : onrq'[t] = "MIGRATING" => onrq[t] = "MIGRATING"
        /\ \A d \in CPU \ {c} : pc'[d] = pc[d] /\ arg'[d] = arg[d]
    BY <1>0, <1>3, Zenon DEF FinishWait, Goto, MigrationPC
  <2>2. QED
    BY <2>1, MigrationFrame, Zenon
<1>4. ASSUME NEW c \in CPU, ExitDequeue(c) PROVE MigrationHasOwner'
  <2>1. pc[c] \notin MigrationPC
    BY <1>4, Zenon DEF ExitDequeue, DequeueSelf, MigrationPC
  <2>2. \A t \in Task : onrq'[t] = "MIGRATING" => onrq[t] = "MIGRATING"
    BY <1>0, <1>4, Zenon DEF ExitDequeue, DequeueSelf, DequeueLocal, Goto
  <2>3. \A d \in CPU \ {c} : pc'[d] = pc[d] /\ arg'[d] = arg[d]
    BY <1>0, <1>4, Zenon DEF ExitDequeue, DequeueSelf, DequeueLocal, Goto
  <2>q. QED
    BY <2>1, <2>2, <2>3, MigrationFrame, Zenon
<1>5. ASSUME NEW c \in CPU, MarkExited(c) PROVE MigrationHasOwner'
  <2>1. pc[c] \notin MigrationPC
    BY <1>5, Zenon DEF MarkExited, MigrationPC
  <2>2. \A t \in Task : onrq'[t] = "MIGRATING" => onrq[t] = "MIGRATING"
    BY <1>0, <1>5, Zenon DEF MarkExited, Goto
  <2>3. \A d \in CPU \ {c} : pc'[d] = pc[d] /\ arg'[d] = arg[d]
    BY <1>0, <1>5, Zenon DEF MarkExited, Goto
  <2>q. QED
    BY <2>1, <2>2, <2>3, MigrationFrame, Zenon
<1>6. ASSUME NEW c \in CPU, StopDequeue(c) PROVE MigrationHasOwner'
  <2>1. pc[c] \notin MigrationPC
    BY <1>6, Zenon DEF StopDequeue, DequeueSelf, MigrationPC
  <2>2. \A t \in Task : onrq'[t] = "MIGRATING" => onrq[t] = "MIGRATING"
    BY <1>0, <1>6, Zenon DEF StopDequeue, DequeueSelf, DequeueLocal, Goto
  <2>3. \A d \in CPU \ {c} : pc'[d] = pc[d] /\ arg'[d] = arg[d]
    BY <1>0, <1>6, Zenon DEF StopDequeue, DequeueSelf, DequeueLocal, Goto
  <2>q. QED
    BY <2>1, <2>2, <2>3, MigrationFrame, Zenon
<1>7. ASSUME NEW c \in CPU, MarkStopped(c) PROVE MigrationHasOwner'
  <2>1. pc[c] \notin MigrationPC
    BY <1>7, Zenon DEF MarkStopped, MigrationPC
  <2>2. \A t \in Task : onrq'[t] = "MIGRATING" => onrq[t] = "MIGRATING"
    BY <1>0, <1>7, Zenon DEF MarkStopped, Goto
  <2>3. \A d \in CPU \ {c} : pc'[d] = pc[d] /\ arg'[d] = arg[d]
    BY <1>0, <1>7, Zenon DEF MarkStopped, Goto
  <2>q. QED
    BY <2>1, <2>2, <2>3, MigrationFrame, Zenon
<1>8. ASSUME NEW c \in CPU, PickLock(c) PROVE MigrationHasOwner'
  <2>1. pc[c] \notin MigrationPC
    BY <1>8, Zenon DEF PickLock, MigrationPC
  <2>2. \A t \in Task : onrq'[t] = "MIGRATING" => onrq[t] = "MIGRATING"
    BY <1>0, <1>8, Zenon DEF PickLock, Goto, taskVars
  <2>3. \A d \in CPU \ {c} : pc'[d] = pc[d] /\ arg'[d] = arg[d]
    BY <1>0, <1>8, Zenon DEF PickLock, Goto, taskVars
  <2>q. QED
    BY <2>1, <2>2, <2>3, MigrationFrame, Zenon
<1>9. ASSUME NEW c \in CPU, RequeuePrev(c) PROVE MigrationHasOwner'
  <2>1. pc[c] \notin MigrationPC
    BY <1>9, Zenon DEF RequeuePrev, MigrationPC
  <2>2. \A t \in Task : onrq'[t] = "MIGRATING" => onrq[t] = "MIGRATING"
    BY <1>0, <1>9, Zenon DEF RequeuePrev, Goto
  <2>3. \A d \in CPU \ {c} : pc'[d] = pc[d] /\ arg'[d] = arg[d]
    BY <1>0, <1>9, Zenon DEF RequeuePrev, Goto
  <2>q. QED
    BY <2>1, <2>2, <2>3, MigrationFrame, Zenon
<1>10. ASSUME NEW c \in CPU, DiscardCandidate(c) PROVE MigrationHasOwner'
  <2>1. pc[c] \notin MigrationPC
    BY <1>10, Zenon DEF DiscardCandidate, MigrationPC
  <2>2. \A t \in Task : onrq'[t] = "MIGRATING" => onrq[t] = "MIGRATING"
    BY <1>0, <1>10, Zenon DEF DiscardCandidate, cpuVars
  <2>3. \A d \in CPU \ {c} : pc'[d] = pc[d] /\ arg'[d] = arg[d]
    BY <1>0, <1>10, Zenon DEF DiscardCandidate, cpuVars
  <2>q. QED
    BY <2>1, <2>2, <2>3, MigrationFrame, Zenon
<1>11. ASSUME NEW c \in CPU, PickCandidate(c) PROVE MigrationHasOwner'
  <2>1. pc[c] \notin MigrationPC
    BY <1>11, Zenon DEF PickCandidate, MigrationPC
  <2>2. \A t \in Task : onrq'[t] = "MIGRATING" => onrq[t] = "MIGRATING"
    BY <1>0, <1>11, Zenon DEF PickCandidate, Goto, taskVars
  <2>3. \A d \in CPU \ {c} : pc'[d] = pc[d] /\ arg'[d] = arg[d]
    BY <1>0, <1>11, Zenon DEF PickCandidate, Goto, taskVars
  <2>q. QED
    BY <2>1, <2>2, <2>3, MigrationFrame, Zenon
<1>12. ASSUME NEW c \in CPU, PrepareRunning(c) PROVE MigrationHasOwner'
  <2>1. /\ pc[c] \notin MigrationPC
        /\ \A t \in Task : onrq'[t] = "MIGRATING" => onrq[t] = "MIGRATING"
        /\ \A d \in CPU \ {c} : pc'[d] = pc[d] /\ arg'[d] = arg[d]
    BY <1>0, <1>12, Zenon DEF PrepareRunning, Goto, MigrationPC
  <2>2. QED
    BY <2>1, MigrationFrame, Zenon
<1>13. ASSUME NEW c \in CPU, PickIdle(c) PROVE MigrationHasOwner'
  <2>1. /\ pc[c] \notin MigrationPC
        /\ \A t \in Task : onrq'[t] = "MIGRATING" => onrq[t] = "MIGRATING"
        /\ \A d \in CPU \ {c} : pc'[d] = pc[d] /\ arg'[d] = arg[d]
    BY <1>0, <1>13, Zenon DEF PickIdle, Goto, taskVars, MigrationPC
  <2>2. QED
    BY <2>1, MigrationFrame, Zenon
<1>14. ASSUME NEW c \in CPU, Claim(c) PROVE MigrationHasOwner'
  <2>1. pc[c] \notin MigrationPC
    BY <1>14, Zenon DEF Claim, MigrationPC
  <2>2. \A t \in Task : onrq'[t] = "MIGRATING" => onrq[t] = "MIGRATING"
    BY <1>0, <1>14, Zenon DEF Claim, Goto
  <2>3. \A d \in CPU \ {c} : pc'[d] = pc[d] /\ arg'[d] = arg[d]
    BY <1>0, <1>14, Zenon DEF Claim, Goto
  <2>q. QED
    BY <2>1, <2>2, <2>3, MigrationFrame, Zenon
<1>15. ASSUME NEW c \in CPU, Publish(c) PROVE MigrationHasOwner'
  <2>1. /\ pc[c] \notin MigrationPC
        /\ \A t \in Task : onrq'[t] = "MIGRATING" => onrq[t] = "MIGRATING"
        /\ \A d \in CPU \ {c} : pc'[d] = pc[d] /\ arg'[d] = arg[d]
    BY <1>0, <1>15, Zenon DEF Publish, Goto, MigrationPC
  <2>2. QED
    BY <2>1, MigrationFrame, Zenon
<1>16. ASSUME NEW c \in CPU, Switch(c) PROVE MigrationHasOwner'
  <2>1. pc[c] \notin MigrationPC
    BY <1>16, Zenon DEF Switch, MigrationPC
  <2>2. \A t \in Task : onrq'[t] = "MIGRATING" => onrq[t] = "MIGRATING"
    BY <1>0, <1>16, Zenon DEF Switch, Goto
  <2>3. \A d \in CPU \ {c} : pc'[d] = pc[d] /\ arg'[d] = arg[d]
    BY <1>0, <1>16, Zenon DEF Switch, Goto
  <2>q. QED
    BY <2>1, <2>2, <2>3, MigrationFrame, Zenon
<1>17. ASSUME NEW c \in CPU, BalanceTake(c) PROVE MigrationHasOwner'
  <2>1. PICK u \in Task :
          /\ onrq' = [onrq EXCEPT ![u] = "MIGRATING"]
          /\ arg' = [arg EXCEPT ![c] = u]
    BY <1>17, Zenon DEF BalanceTake, TypeInv, TypeOK
  <2>2. pc[c] = "run" /\ pc' = [pc EXCEPT ![c] = "bal_begin"]
    BY <1>17, Zenon DEF BalanceTake, Goto
  <2>3. SUFFICES ASSUME NEW t \in Task, onrq'[t] = "MIGRATING"
                 PROVE  \E d \in CPU : arg'[d] = t /\ pc'[d] \in MigrationPC
    BY Zenon DEF MigrationHasOwner
  <2>4. CASE t = u
    BY <1>0, <2>1, <2>2, <2>4, Zenon DEF MigrationPC
  <2>5. CASE t # u
    <3>1. onrq[t] = "MIGRATING"
      BY <1>0, <2>1, <2>3, <2>5, Zenon
    <3>2. PICK d \in CPU : arg[d] = t /\ pc[d] \in MigrationPC
      BY <3>1, Zenon DEF MigrationHasOwner
    <3>3. d # c
      BY <2>2, <3>2, Zenon DEF MigrationPC
    <3>4. QED
      BY <1>0, <2>1, <2>2, <3>2, <3>3, Zenon
  <2>q. QED
    BY <2>4, <2>5, Zenon
<1>18. ASSUME NEW c \in CPU, BalanceBegin(c) PROVE MigrationHasOwner'
  <2>1. /\ pc' = [pc EXCEPT ![c] = "bal_commit"]
           \/ pc' = [pc EXCEPT ![c] = "bal_back"]
        /\ UNCHANGED <<onrq, arg>>
    BY <1>18, Zenon DEF BalanceBegin, Goto
  <2>2. QED
    BY <1>0, <2>1, MigrationFrame, Zenon DEF MigrationPC
<1>19. ASSUME NEW c \in CPU, BalanceCommit(c) PROVE MigrationHasOwner'
  BY <1>0, <1>19, Zenon DEF BalanceCommit, Goto, Bound, rqVars, remoteVars,
      MigrationHasOwner, MigrationPC
<1>20. ASSUME NEW c \in CPU, BalanceRollback(c) PROVE MigrationHasOwner'
  <2>1. pc[c] \notin MigrationPC
    BY <1>20, Zenon DEF BalanceRollback, MigrationPC
  <2>2. \A t \in Task : onrq'[t] = "MIGRATING" => onrq[t] = "MIGRATING"
    BY <1>0, <1>20, Zenon DEF BalanceRollback, Goto
  <2>3. \A d \in CPU \ {c} : pc'[d] = pc[d] /\ arg'[d] = arg[d]
    BY <1>0, <1>20, Zenon DEF BalanceRollback, Goto
  <2>q. QED
    BY <2>1, <2>2, <2>3, MigrationFrame, Zenon
<1>21. ASSUME NEW c \in CPU, MigratedCheck(c) PROVE MigrationHasOwner'
  <2>1. /\ pc[c] \in {"bal_enq", "bal_undo", "bal_back"}
        /\ arg[c] \in Task
    BY <1>0, <1>21, Zenon DEF MigratedCheck, InsertAt
  <2>2. CASE state[arg[c]] \in {"Runnable", "Running"} /\ onrq[arg[c]] # "QUEUED"
    <3>1. /\ pc' = [pc EXCEPT ![c] = InsertAt[pc[c]]]
          /\ UNCHANGED <<onrq, arg>>
      BY <1>21, <2>2, Zenon DEF MigratedCheck, Goto
    <3>2. InsertAt[pc[c]] \in MigrationPC
      BY <2>1 DEF InsertAt, MigrationPC
    <3>3. /\ pc'[c] \in MigrationPC
          /\ \A d \in CPU \ {c} : pc'[d] = pc[d]
      BY <1>0, <3>1, <3>2, Zenon
    <3>4. QED
      BY <3>1, <3>3, MigrationFrame, Zenon
  <2>3. CASE ~(state[arg[c]] \in {"Runnable", "Running"} /\ onrq[arg[c]] # "QUEUED")
    <3>1. /\ onrq' = [onrq EXCEPT ![arg[c]] =
                         IF @ = "MIGRATING" THEN "NONE" ELSE @]
          /\ \A d \in CPU \ {c} : pc'[d] = pc[d] /\ arg'[d] = arg[d]
      BY <1>0, <1>21, <2>3 DEF MigratedCheck, InsertAt, Goto
    <3>2. /\ onrq'[arg[c]] # "MIGRATING"
          /\ \A t \in Task : onrq'[t] = "MIGRATING" => onrq[t] = "MIGRATING"
      BY <1>0, <2>1, <3>1, Zenon
    <3>3. QED
      BY <3>1, <3>2, MigrationFrame, Zenon
  <2>q. QED
    BY <2>2, <2>3, Zenon
<1>22. ASSUME NEW c \in CPU, MigratedInsert(c) PROVE MigrationHasOwner'
  BY <1>0, <1>22 DEF MigratedInsert, Goto, Unlock, Insert,
      MigrationRq, remoteVars, MigrationHasOwner, MigrationPC
<1>23. ASSUME NEW r \in Remote, Wake(r) PROVE MigrationHasOwner'
  BY <1>0, <1>23, Zenon DEF Wake, MakeRunnable, RGoto, rqVars, cpuVars,
      MigrationHasOwner, MigrationPC
<1>24. ASSUME NEW r \in Remote, Continue(r) PROVE MigrationHasOwner'
  BY <1>0, <1>24, Zenon DEF Continue, MakeRunnable, RGoto, rqVars, cpuVars,
      MigrationHasOwner, MigrationPC
<1>25. ASSUME NEW r \in Remote, Kill(r) PROVE MigrationHasOwner'
  BY <1>0, <1>25, Zenon DEF Kill, MakeRunnable, RGoto, rqVars, cpuVars,
      MigrationHasOwner, MigrationPC
<1>26. ASSUME NEW r \in Remote, EnqueueEnter(r) PROVE MigrationHasOwner'
  BY <1>0, <1>26 DEF EnqueueEnter, RGoto, CanEnter, Leave, rqVars,
      cpuVars, MigrationHasOwner, MigrationPC
<1>27. ASSUME NEW r \in Remote, EnqueuePlace(r) PROVE MigrationHasOwner'
  BY <1>0, <1>27, Zenon DEF EnqueuePlace, RGoto, Bound, taskVars, rqVars, cpuVars,
      MigrationHasOwner, MigrationPC
<1>28. ASSUME NEW r \in Remote, EnqueueSettle(r) PROVE MigrationHasOwner'
  BY <1>0, <1>28, Zenon DEF EnqueueSettle, RGoto, taskVars, rqVars, cpuVars,
      MigrationHasOwner, MigrationPC
<1>29. ASSUME NEW r \in Remote, EnqueueBind(r) PROVE MigrationHasOwner'
  BY <1>0, <1>29, Zenon DEF EnqueueBind, RGoto, Bound, rqVars, cpuVars,
      MigrationHasOwner, MigrationPC
<1>30. ASSUME NEW r \in Remote, EnqueueCheck(r) PROVE MigrationHasOwner'
  BY <1>0, <1>30 DEF EnqueueCheck, RGoto, Lock, Free, CanEnter,
      cpuVars, MigrationHasOwner, MigrationPC
<1>31. ASSUME NEW r \in Remote, EnqueueWithdraw(r) PROVE MigrationHasOwner'
  BY <1>0, <1>31 DEF EnqueueWithdraw, RGoto, Unlock, cpuVars,
      MigrationHasOwner, MigrationPC
<1>32. ASSUME NEW r \in Remote, EnqueueInsert(r) PROVE MigrationHasOwner'
  BY <1>0, <1>32 DEF EnqueueInsert, RGoto, Unlock, Insert, cpuVars,
      MigrationHasOwner, MigrationPC
<1>33. ASSUME NEW r \in Remote, EnqueueDrop(r) PROVE MigrationHasOwner'
  BY <1>0, <1>33, Zenon DEF EnqueueDrop, Leave, RGoto, rqVars, cpuVars,
      MigrationHasOwner, MigrationPC
<1>34. ASSUME NEW r \in Remote, StopLocate(r) PROVE MigrationHasOwner'
  BY <1>0, <1>34, Zenon DEF StopLocate, RGoto, taskVars, rqVars, cpuVars,
      MigrationHasOwner, MigrationPC
<1>35. ASSUME NEW r \in Remote, RemoteStopDequeue(r)
       PROVE  MigrationHasOwner'
  <2>1. onrq' = onrq \/ onrq' = [onrq EXCEPT ![rtask[r]] = "NONE"]
    BY <1>35, Zenon DEF RemoteStopDequeue, DequeueLocal
  <2>2. UNCHANGED <<pc, arg>>
    BY <1>35, Zenon DEF RemoteStopDequeue, cpuVars
  <2>3. QED
    BY <1>0, <2>1, <2>2 DEF MigrationHasOwner
<1>36. ASSUME NEW r \in Remote, RemoteStopMark(r) PROVE MigrationHasOwner'
  BY <1>0, <1>36, Zenon DEF RemoteStopMark, Leave, RGoto, rqVars, cpuVars,
      MigrationHasOwner, MigrationPC
<1>37. CASE UNCHANGED vars
  BY <1>0, <1>37, Zenon DEF vars, taskVars, rqVars, cpuVars, remoteVars,
      MigrationHasOwner, MigrationPC
<1>q. QED
  BY <1>1, <1>2, <1>3, <1>4, <1>5, <1>6, <1>7, <1>8, <1>9, <1>10, <1>11,
     <1>12, <1>13, <1>14, <1>15, <1>16, <1>17, <1>18, <1>19, <1>20, <1>21,
     <1>22, <1>23, <1>24, <1>25, <1>26, <1>27, <1>28, <1>29, <1>30, <1>31,
     <1>32, <1>33, <1>34, <1>35, <1>36, <1>37, Zenon DEF Next, CpuStep,
     RemoteStep

\* Whoever spins in wait_for_migration_to_settle waits for a CPU that is in
\* the middle of that migration, on every path: accepted, refused by the
\* target, rolled back to the source, or refused there as well.
THEOREM MigrationOwned == Spec => []MigrationHasOwner
<1>1. Init => MigrationHasOwner
  BY Zenon DEF Init, MigrationHasOwner
<1>q. QED
  BY <1>1, TypeInvInit, TypeInvStep, MigrationStep, PTL DEF Spec
================================================================================
