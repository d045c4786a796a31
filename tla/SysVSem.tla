------------------------------ MODULE SysVSem ------------------------------
(***************************************************************************)
(* One System V semaphore set (general/src/ipc/sem.rs), the SEM_UNDO       *)
(* tables of the processes that use it (general/src/ipc/sem_undo.rs) and   *)
(* the system calls that put a caller to sleep on it                       *)
(* (kernel/src/syscalls/ipc.rs).  SemSet.inner is a spinlock: what runs    *)
(* under it is one step.  Each process has an undo table of its own        *)
(* (no CLONE_SYSVSEM).  Permission checks always pass.                     *)
(***************************************************************************)
EXTENDS Integers, Sequences, FiniteSets, Lists

CONSTANTS
    NProcs,         \* how many processes use the set
    Exiters,        \* those that exit
    NSems,          \* how many semaphores it has
    SEMVMX,         \* largest value, also the largest i16 of an undo operation
    Batches,        \* the operation batches processes pass to semop
    SetValues,      \* the values SETVAL and SETALL write
    UndoBound       \* bound: the largest adjustment a process accumulates

SemProc == 1 .. NProcs
Sem == 0 .. NSems - 1

\* A sembuf: its flags are IPC_NOWAIT and SEM_UNDO.
Sembuf == [sem : Sem, op : Int, nowait : BOOLEAN, undo : BOOLEAN]

ASSUME SemAssumption ==
    /\ NProcs \in Nat /\ NSems \in Nat /\ Exiters \subseteq SemProc
    /\ SEMVMX \in Nat \ {0} /\ UndoBound \in Nat
    /\ SetValues \subseteq 0 .. SEMVMX
    /\ Batches \subseteq Seq(Sembuf)

VARIABLES
    semval,         \* SemValue.val
    ncnt, zcnt,     \* SemValue.semncnt, SemValue.semzcnt
    removed,        \* SemSetInner.removed
    semq,           \* the processes in SemSet.waiters
    semasleep,      \* the processes whose task state is Sleeping
    semstop,        \* those with an interrupting signal or a deadline passed
    spc,            \* where each process is
    batch,          \* the batch of its call, or of its exit
    registered,     \* what its call registered with register_blocked
    undo,           \* the entry of its SemUndoTable for this set
    account         \* history: changes of the values no undo entry covers

semVars == <<semval, ncnt, zcnt, removed, semq, semasleep, semstop, spc,
             batch, registered, undo, account>>

NoBlock == [sem |-> 0, kind |-> "none"]
NoUndo == [s \in Sem |-> 0]

SemInit ==
    /\ semval = NoUndo /\ ncnt = NoUndo /\ zcnt = NoUndo /\ account = NoUndo
    /\ removed = FALSE /\ semq = {} /\ semasleep = {} /\ semstop = {}
    /\ spc = [p \in SemProc |-> "user"]
    /\ batch = [p \in SemProc |-> <<>>]
    /\ registered = [p \in SemProc |-> NoBlock]
    /\ undo = [p \in SemProc |-> NoUndo]

-----------------------------------------------------------------------------
(* SemSet::try_apply.                                                      *)

\* One operation on the values the operations before it left.
ApplyOp(acc, o) ==
    LET v == acc.val[o.sem]
        to(n) == [acc EXCEPT !.val[o.sem] = n]
        block(kind) == IF o.nowait THEN [acc EXCEPT !.result = "error"]
                       ELSE [acc EXCEPT !.result = "block",
                                        !.at = [sem |-> o.sem, kind |-> kind]]
    IN  CASE acc.result # "applied" -> acc
          [] acc.result = "applied" /\ o.op > 0 ->
                 IF v + o.op > SEMVMX THEN [acc EXCEPT !.result = "error"]
                 ELSE to(v + o.op)
          [] acc.result = "applied" /\ o.op < 0 ->
                 IF v < -o.op THEN block("increment") ELSE to(v + o.op)
          [] acc.result = "applied" /\ o.op = 0 ->
                 IF v # 0 THEN block("zero") ELSE acc

\* The operations one after the other, on a copy of the values.
Tried(val, ops) ==
    LET acc[n \in 0 .. Len(ops)] ==
            IF n = 0 THEN [result |-> "applied", val |-> val, at |-> NoBlock]
            ELSE ApplyOp(acc[n - 1], ops[n])
    IN  acc[Len(ops)]

\* Mutant: the operations before the one that blocks are committed.
TryApplyPrefix(ops) ==
    IF removed THEN [result |-> "error", val |-> semval, at |-> NoBlock] ELSE Tried(semval, ops)

\* The outcome of a batch: applied with the new values, or nothing changes.
TryApply(ops) ==
    IF removed THEN [result |-> "error", val |-> semval, at |-> NoBlock]
    ELSE IF Tried(semval, ops).result = "applied" THEN Tried(semval, ops)
    ELSE [Tried(semval, ops) EXCEPT !.val = semval]

\* What the operations of a batch with one of these SEM_UNDO flags add to s.
Effect(ops, s, flags) ==
    Total([i \in 1 .. Len(ops) |->
              IF ops[i].sem = s /\ ops[i].undo \in flags THEN ops[i].op ELSE 0], Len(ops))

\* SemUndoTable::record: the entry after a batch.
Recorded(u, ops) == [s \in Sem |-> u[s] - Effect(ops, s, {TRUE})]

\* Bound: no process accumulates adjustments beyond UndoBound.
UndoInBound(p, ops) ==
    \A s \in Sem : Recorded(undo[p], ops)[s] \in -UndoBound .. UndoBound

\* The history of an applied batch: what its undo entry will not give back.
Charge(ops) ==
    [s \in Sem |-> account[s] + Effect(ops, s, {FALSE})]

SemGoto(p, l) == spc' = [spc EXCEPT ![p] = l]

\* register_blocked and unregister_blocked, by n = 1 and n = -1.
CountBlocked(at, n) ==
    /\ ncnt' = IF at.kind = "increment" THEN [ncnt EXCEPT ![at.sem] = @ + n] ELSE ncnt
    /\ zcnt' = IF at.kind = "zero" THEN [zcnt EXCEPT ![at.sem] = @ + n] ELSE zcnt

-----------------------------------------------------------------------------
(* semop and semtimedop.                                                   *)

\* The first try_apply of a call or of a turn of its loop.
TryOnce(p, ops) ==
    LET try == TryApply(ops)
    IN  /\ semval' = try.val
        /\ batch' = [batch EXCEPT ![p] = IF try.result = "error" THEN <<>> ELSE ops]
        /\ registered' = [registered EXCEPT ![p] = try.at]
        /\ account' = IF try.result = "applied" THEN Charge(ops) ELSE account
        /\ semstop' = IF try.result = "error" THEN semstop \ {p} ELSE semstop
        /\ SemGoto(p, CASE try.result = "applied" -> "record"
                        [] try.result = "block" -> "register"
                        [] try.result = "error" -> "user")
        /\ UNCHANGED <<ncnt, zcnt, removed, semq, semasleep, undo>>

SemOp(p) ==
    /\ spc[p] = "user"
    /\ \E ops \in Batches : UndoInBound(p, ops) /\ TryOnce(p, ops)

RetryOp(p) == spc[p] = "retry" /\ TryOnce(p, batch[p])

\* register_blocked, then the signal and deadline tests, which unregister.
Register(p) ==
    /\ spc[p] = "register"
    /\ IF removed
       THEN /\ SemGoto(p, "user")
            /\ registered' = [registered EXCEPT ![p] = NoBlock]
            /\ batch' = [batch EXCEPT ![p] = <<>>]
            /\ semstop' = semstop \ {p}
            /\ UNCHANGED <<ncnt, zcnt>>
       ELSE /\ CountBlocked(registered[p], 1)
            /\ SemGoto(p, IF p \in semstop THEN "fail" ELSE "prepare")
            /\ UNCHANGED <<registered, batch, semstop>>
    /\ UNCHANGED <<semval, removed, semq, semasleep, undo, account>>

\* prepare_to_wait; a deadline already passed at register_sleep_deadline
\* leaves the queue again, which LeaveWait does for the "fail" it leads to.
PrepareWait(p) ==
    /\ spc[p] \in {"prepare", "exit prepare"}
    /\ semq' = semq \cup {p} /\ semasleep' = semasleep \cup {p}
    /\ SemGoto(p, IF spc[p] = "prepare" THEN "recheck" ELSE "exit recheck")
    /\ UNCHANGED <<semval, ncnt, zcnt, removed, semstop, batch, registered, undo, account>>

\* Mutant: the batch is not tried again between prepare_to_wait and the switch.
RecheckSkipped(p) ==
    /\ spc[p] = "recheck"
    /\ SemGoto(p, IF p \in semstop THEN "fail" ELSE "switch")
    /\ UNCHANGED <<semval, account>>
    /\ UNCHANGED <<ncnt, zcnt, removed, semq, semasleep, semstop, batch, registered, undo>>

\* The second try_apply, then the signal and deadline tests.
RecheckOp(p) ==
    LET try == TryApply(batch[p])
    IN  /\ spc[p] = "recheck"
        /\ semval' = try.val
        /\ account' = IF try.result = "applied" THEN Charge(batch[p]) ELSE account
        /\ SemGoto(p, CASE try.result = "applied" -> "leave"
                        [] try.result = "error" -> "fail"
                        [] try.result = "block" -> IF p \in semstop THEN "fail" ELSE "switch")
        /\ UNCHANGED <<ncnt, zcnt, removed, semq, semasleep, semstop, batch, registered, undo>>

\* Mutant: unregister_sem_blocked is left out on the error paths.
LeaveWaitCounted(p) ==
    /\ spc[p] \in {"leave", "fail"} \/ (spc[p] = "switch" /\ p \notin semasleep)
    /\ semq' = semq \ {p} /\ semasleep' = semasleep \ {p}
    /\ IF spc[p] = "fail" THEN UNCHANGED <<ncnt, zcnt>> ELSE CountBlocked(registered[p], -1)
    /\ registered' = [registered EXCEPT ![p] = NoBlock]
    /\ LET failed == spc[p] = "fail" \/ (spc[p] = "switch" /\ p \in semstop)
       IN  /\ SemGoto(p, CASE failed -> "user"
                           [] ~failed /\ spc[p] = "leave" -> "record"
                           [] ~failed /\ spc[p] = "switch" -> "retry")
           /\ batch' = IF failed THEN [batch EXCEPT ![p] = <<>>] ELSE batch
           /\ semstop' = IF failed THEN semstop \ {p} ELSE semstop
    /\ UNCHANGED <<semval, removed, undo, account>>

\* finish_sem_wait and unregister_sem_blocked, on every way out of the wait;
\* the tests after schedule_once return EINTR or EAGAIN.
LeaveWait(p) ==
    /\ spc[p] \in {"leave", "fail"} \/ (spc[p] = "switch" /\ p \notin semasleep)
    /\ semq' = semq \ {p} /\ semasleep' = semasleep \ {p}
    /\ CountBlocked(registered[p], -1)
    /\ registered' = [registered EXCEPT ![p] = NoBlock]
    /\ LET failed == spc[p] = "fail" \/ (spc[p] = "switch" /\ p \in semstop)
       IN  /\ SemGoto(p, CASE failed -> "user"
                           [] ~failed /\ spc[p] = "leave" -> "record"
                           [] ~failed /\ spc[p] = "switch" -> "retry")
           /\ batch' = IF failed THEN [batch EXCEPT ![p] = <<>>] ELSE batch
           /\ semstop' = IF failed THEN semstop \ {p} ELSE semstop
    /\ UNCHANGED <<semval, removed, undo, account>>

\* record_sem_undo and wake_all: the end of a call that was applied.
RecordAndWake(p) ==
    /\ spc[p] = "record"
    /\ undo' = [undo EXCEPT ![p] = Recorded(@, batch[p])]
    /\ batch' = [batch EXCEPT ![p] = <<>>]
    /\ semasleep' = semasleep \ semq
    /\ semq' = {}
    /\ semstop' = semstop \ {p}
    /\ SemGoto(p, "user")
    /\ UNCHANGED <<semval, ncnt, zcnt, removed, registered, account>>

\* An interrupting signal arrives at a caller of semop, or its deadline passes.
InterruptOp(p) ==
    /\ spc[p] \in {"register", "prepare", "recheck", "switch"} /\ p \notin semstop
    /\ semstop' = semstop \cup {p}
    /\ semasleep' = semasleep \ {p}
    /\ UNCHANGED <<semval, ncnt, zcnt, removed, semq, spc, batch, registered, undo, account>>

-----------------------------------------------------------------------------
(* semctl: SETVAL, SETALL and IPC_RMID; semget.                            *)

\* SETVAL writes one value and SETALL every one.
SetVal(p) ==
    /\ spc[p] = "user" /\ ~removed
    /\ \E written \in {{s} : s \in Sem} \cup {Sem} : \E v \in [written -> SetValues] :
           /\ semval' = [s \in Sem |-> IF s \in written THEN v[s] ELSE semval[s]]
           /\ account' = [s \in Sem |-> account[s] + semval'[s] - semval[s]]
    /\ SemGoto(p, "clear")
    /\ UNCHANGED <<ncnt, zcnt, removed, semq, semasleep, semstop, batch, registered, undo>>

RemoveSet(p) ==
    /\ spc[p] = "user" /\ ~removed
    /\ removed' = TRUE
    /\ SemGoto(p, "clear")
    /\ UNCHANGED <<semval, ncnt, zcnt, semq, semasleep, semstop, batch, registered, undo, account>>

\* SemUndoTable::clear on the caller's table, then wake_all.
ClearAndWake(p) ==
    /\ spc[p] = "clear"
    /\ undo' = [undo EXCEPT ![p] = NoUndo]
    /\ account' = [s \in Sem |-> account[s] - undo[p][s]]
    /\ semasleep' = semasleep \ semq
    /\ semq' = {}
    /\ SemGoto(p, "user")
    /\ UNCHANGED <<semval, ncnt, zcnt, removed, semstop, batch, registered>>

\* semget makes a new set under a new id, for which no undo table has an
\* entry.  Bound: the calls on the removed set have returned.
SemGet ==
    /\ removed /\ \A p \in SemProc : spc[p] = "user"
    /\ removed' = FALSE
    /\ semval' = NoUndo /\ account' = NoUndo
    /\ ncnt' = NoUndo /\ zcnt' = NoUndo
    /\ undo' = [p \in SemProc |-> NoUndo]
    /\ UNCHANGED <<semq, semasleep, semstop, spc, batch, registered>>

-----------------------------------------------------------------------------
(* Exit: apply_sem_undo_on_exit and SemUndoTable::apply_on_exit.           *)

\* The entry as a batch, semaphore by semaphore, without the zeros.
ExitBatch(u) ==
    Keep([i \in 1 .. NSems |-> [sem |-> i - 1, op |-> u[i - 1], nowait |-> FALSE, undo |-> TRUE]],
         {o \in Sembuf : o.op # 0})

\* The table is taken whole; an adjustment that is no i16 or a set that is
\* gone gives it up.
ExitTake(p) ==
    LET u == undo[p]
        skip == removed \/ \E s \in Sem : u[s] \notin -SEMVMX - 1 .. SEMVMX
    IN  /\ p \in Exiters /\ spc[p] = "user" /\ u # NoUndo
        /\ undo' = [undo EXCEPT ![p] = NoUndo]
        /\ IF skip
           THEN /\ account' = [s \in Sem |-> account[s] - u[s]]
                /\ UNCHANGED <<batch, spc>>
           ELSE /\ batch' = [batch EXCEPT ![p] = ExitBatch(u)]
                /\ SemGoto(p, "exit")
                /\ UNCHANGED account
        /\ UNCHANGED <<semval, ncnt, zcnt, removed, semq, semasleep, semstop, registered>>

\* try_apply in the loop, where an error gives the adjustment up, and again
\* after prepare_to_wait, where every outcome but Applied goes to sleep.
ExitTry(p) ==
    LET try == TryApply(batch[p])
        done == try.result = "applied" \/ (try.result = "error" /\ spc[p] = "exit")
    IN  /\ spc[p] \in {"exit", "exit recheck"}
        /\ semval' = try.val
        /\ SemGoto(p, CASE done -> "exit wake"
                        [] ~done /\ spc[p] = "exit" -> "exit prepare"
                        [] ~done /\ spc[p] = "exit recheck" -> "exit switch")
        /\ account' = IF done /\ try.result = "error"
                      THEN [s \in Sem |-> account[s] - Effect(batch[p], s, BOOLEAN)]
                      ELSE account
        /\ semq' = IF done THEN semq \ {p} ELSE semq
        /\ semasleep' = IF done THEN semasleep \ {p} ELSE semasleep
        /\ UNCHANGED <<ncnt, zcnt, removed, semstop, batch, registered, undo>>

\* schedule_once returned: finish_wait and around the loop.
ExitResume(p) ==
    /\ spc[p] = "exit switch" /\ p \notin semasleep
    /\ semq' = semq \ {p}
    /\ SemGoto(p, "exit")
    /\ UNCHANGED <<semval, ncnt, zcnt, removed, semasleep, semstop, batch, registered, undo, account>>

\* wake_all ends the exit; a new process takes the place of the old one.
ExitWake(p) ==
    /\ spc[p] = "exit wake"
    /\ semasleep' = semasleep \ semq
    /\ semq' = {}
    /\ batch' = [batch EXCEPT ![p] = <<>>]
    /\ SemGoto(p, "user")
    /\ UNCHANGED <<semval, ncnt, zcnt, removed, semstop, registered, undo, account>>

SemStep(p) ==
    \/ SemOp(p) \/ RetryOp(p) \/ Register(p) \/ PrepareWait(p) \/ RecheckOp(p)
    \/ LeaveWait(p) \/ RecordAndWake(p) \/ InterruptOp(p)
    \/ SetVal(p) \/ RemoveSet(p) \/ ClearAndWake(p)
    \/ ExitTake(p) \/ ExitTry(p) \/ ExitResume(p) \/ ExitWake(p)

SemNext == SemGet \/ \E p \in SemProc : SemStep(p)

SemSpec == SemInit /\ [][SemNext]_semVars

-----------------------------------------------------------------------------
\* Type correctness: values stay in 0 .. SEMVMX, and a process is in the
\* wait queue or asleep only inside a wait (finish_wait runs on every path).
SemTypeOK ==
    /\ semval \in [Sem -> 0 .. SEMVMX]
    /\ ncnt \in [Sem -> Nat] /\ zcnt \in [Sem -> Nat]
    /\ removed \in BOOLEAN
    /\ \A p \in semq \cup semasleep :
           spc[p] \in {"recheck", "switch", "leave", "fail", "exit recheck", "exit switch"}
    /\ semstop \subseteq SemProc
    /\ undo \in [SemProc -> [Sem -> -UndoBound .. UndoBound]]

\* Adjustments of p that are in no table: applied and not yet recorded, or
\* taken by its exit and not yet applied.
InFlight(p, s) ==
    CASE spc[p] \in {"leave", "record"} -> -Effect(batch[p], s, {TRUE})
      [] spc[p] \in {"exit", "exit prepare", "exit recheck", "exit switch"} ->
             Effect(batch[p], s, BOOLEAN)
      [] OTHER -> 0

\* The undo tables account for the values: a value, with every adjustment
\* still owed to it, is what the operations without SEM_UNDO (and the
\* semctl writes and abandoned adjustments) made it.  A batch that is
\* committed in part, recorded on one path only or twice, or given back
\* twice at exit breaks it.
UndoConserves ==
    \A s \in Sem :
        semval[s] + Total([p \in SemProc |-> undo[p][s] + InFlight(p, s)], NProcs)
            = account[s]

\* semncnt and semzcnt count the calls that are waiting (sem.rs:11): every
\* way out of the loop, EINTR, EAGAIN and EIDRM too, takes its mark back.
CountsAreWaiters ==
    \A s \in Sem :
        LET waiting(kind) == {p \in SemProc :
                /\ spc[p] \in {"prepare", "recheck", "switch", "leave", "fail"}
                /\ registered[p] = [sem |-> s, kind |-> kind]}
        IN  /\ ncnt[s] = Cardinality(waiting("increment"))
            /\ zcnt[s] = Cardinality(waiting("zero"))

\* No lost wake-up: a process stays asleep only while its batch still
\* blocks, or while the process that made it possible has yet to wake it.
\* (An exit that meets EIDRM at its recheck is the exception the code makes.)
NoLostSemWakeup ==
    \A p \in semasleep : spc[p] \in {"switch", "exit switch"} =>
        \/ TryApply(batch[p]).result = "block"
        \/ \E q \in SemProc : spc[q] \in {"leave", "record", "clear", "exit wake"}
        \/ spc[p] = "exit switch" /\ TryApply(batch[p]).result = "error"

=============================================================================
