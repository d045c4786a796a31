------------------------------ MODULE PiFutex ------------------------------
(***************************************************************************)
(* Priority-inheritance futexes (kernel/src/syscalls/process.rs): the user *)
(* words, PI_FUTEX_TABLE, the hand-off of a lock to its best waiter, the   *)
(* sleep protocol of FutexWaitState, and the recovery of the locks of a    *)
(* task that exits (pi_release_owned_futexes and the robust list).         *)
(* PI_FUTEX_TABLE is a spinlock: what runs under it is one step.  User     *)
(* code takes and drops an uncontended word with a compare-exchange of its *)
(* own.  The priority donations (pi_owner_update) are left out.            *)
(***************************************************************************)
EXTENDS Naturals, Sequences, FiniteSets, Lists

CONSTANTS
    PiTask,         \* tasks, named by their tids
    PiWord,         \* futex words
    PiUsers,        \* PiUsers[w]: the tasks that lock w
    Urgent,         \* the tasks of the more urgent scheduling class
    Timed,          \* the tasks whose calls have a deadline, or are signalled
    Mortal,         \* the tasks that exit
    Robust          \* the tasks whose words are on a registered robust list

ASSUME PiAssumption ==
    /\ PiTask \subseteq Nat \ {0} /\ IsFiniteSet(PiTask)
    /\ PiUsers \in [PiWord -> SUBSET PiTask]
    /\ Urgent \cup Timed \cup Mortal \cup Robust \subseteq PiTask

VARIABLES
    word,           \* the user words: TID, FUTEX_WAITERS, FUTEX_OWNER_DIED
    ptable,         \* PI_FUTEX_TABLE: owner (0 when there is no entry), waiters
    wstate,         \* FutexWaitState of each task's wait
    prun,           \* task state: "running" or "sleeping"
    pstop,          \* tasks with an interrupting signal or a deadline passed
    ppc,            \* where each task is
    goal,           \* the word of its call
    held,           \* the words user code of the task has locked
    handing,        \* the task whose wake_futex_waiter is under way
    kicking,        \* the same after mark_woken
    dying           \* the words its exit has still to recover, and the value read

piVars == <<word, ptable, wstate, prun, pstop, ppc, goal, held, handing, kicking, dying>>

Nobody == 0
Free == [tid |-> Nobody, waiters |-> FALSE, died |-> FALSE]
NoEntry == [owner |-> Nobody, waiters |-> <<>>]
NoWord == 0
Waiting == {"wait", "mark", "check", "yield"}
Alive == {t \in PiTask : ppc[t] \notin {"zombie", "reaped"}}

PiInit ==
    /\ word = [w \in PiWord |-> Free]
    /\ ptable = [w \in PiWord |-> NoEntry]
    /\ wstate = [t \in PiTask |-> "armed"]
    /\ prun = [t \in PiTask |-> "running"]
    /\ pstop = {}
    /\ ppc = [t \in PiTask |-> "user"]
    /\ goal = [t \in PiTask |-> NoWord]
    /\ held = [t \in PiTask |-> {}]
    /\ handing = [t \in PiTask |-> Nobody]
    /\ kicking = [t \in PiTask |-> Nobody]
    /\ dying = [t \in PiTask |-> [owned |-> {}, robust |-> {}, seen |-> Free]]

PiGoto(t, l) == ppc' = [ppc EXCEPT ![t] = l]

\* A task runs its next step only when the wake-up it owes is out.
Ready(t, l) == ppc[t] = l /\ handing[t] = Nobody /\ kicking[t] = Nobody

Queued(w) == Range(ptable[w].waiters)

\* pi_best_waiter: the most urgent class, the longest waiter of it.
BestIndex(queue) ==
    IF Range(queue) \cap Urgent = {} THEN 1 ELSE FirstIn(queue, Urgent)
BestWaiter(queue) == queue[BestIndex(queue)]

-----------------------------------------------------------------------------
(* User code: the uncontended paths.                                       *)

UserLock(t, w) ==
    /\ Ready(t, "user") /\ t \in PiUsers[w]
    /\ word[w] = Free
    /\ word' = [word EXCEPT ![w].tid = t]
    /\ held' = [held EXCEPT ![t] = @ \cup {w}]
    /\ UNCHANGED <<ptable, wstate, prun, pstop, ppc, goal, handing, kicking, dying>>

UserUnlock(t, w) ==
    /\ Ready(t, "user") /\ w \in held[t]
    /\ word[w] = [Free EXCEPT !.tid = t]
    /\ word' = [word EXCEPT ![w] = Free]
    /\ held' = [held EXCEPT ![t] = @ \ {w}]
    /\ UNCHANGED <<ptable, wstate, prun, pstop, ppc, goal, handing, kicking, dying>>

-----------------------------------------------------------------------------
(* futex_lock_pi.                                                          *)

\* The system call on a word the user code found taken.
LockPi(t, w) ==
    /\ Ready(t, "user") /\ t \in PiUsers[w] /\ w \notin held[t]
    /\ word[w] # Free
    /\ goal' = [goal EXCEPT ![t] = w]
    /\ PiGoto(t, "lock")
    /\ UNCHANGED <<word, ptable, wstate, prun, pstop, held, handing, kicking, dying>>

\* A word without an owner is taken, keeping FUTEX_OWNER_DIED; otherwise the
\* task goes to wait.
TakeOrWait(t) ==
    LET w == goal[t]
    IN  /\ ppc[t] = "lock"
        /\ IF word[w].tid = Nobody
           THEN /\ word' = [word EXCEPT ![w] = [tid |-> t, waiters |-> FALSE, died |-> @.died]]
                /\ PiGoto(t, "register")
           ELSE PiGoto(t, "enqueue") /\ UNCHANGED word
        /\ UNCHANGED <<ptable, wstate, prun, pstop, goal, held, handing, kicking, dying>>

PiReturn(t) == PiGoto(t, "user") /\ goal' = [goal EXCEPT ![t] = NoWord]

\* pi_register_owner, and the return to user code with the lock.
RegisterOwner(t) ==
    /\ ppc[t] = "register"
    /\ ptable' = [ptable EXCEPT ![goal[t]].owner = t]
    /\ held' = [held EXCEPT ![t] = @ \cup {goal[t]}]
    /\ PiReturn(t)
    /\ UNCHANGED <<word, wstate, prun, pstop, handing, kicking, dying>>

\* pi_waiting_owner_locked: the owner of the futex t waits for.
WaitingOwner(t) ==
    IF \E w \in PiWord : t \in Queued(w)
    THEN ptable[CHOOSE w \in PiWord : t \in Queued(w)].owner
    ELSE Nobody

\* The owner a task waits for, the owner that one waits for, and so on; no
\* chain is longer than the number of tasks.
OwnerChain(start) ==
    LET at[n \in 0 .. Cardinality(PiTask)] ==
            IF n = 0 THEN start
            ELSE IF at[n - 1] = Nobody THEN Nobody ELSE WaitingOwner(at[n - 1])
    IN  at

\* Mutant: only the owner itself is looked at.
ChainReachesDirect(start, target) == start = target

\* pi_chain_reaches_locked.
ChainReaches(start, target) ==
    \E n \in 0 .. Cardinality(PiTask) : OwnerChain(start)[n] = target

\* pi_enqueue_waiter under the table lock: EAGAIN for a word that has become
\* free, ESRCH for an owner that is gone, EDEADLK for a ring of waiters.
EnqueueWaiter(t) ==
    LET w == goal[t]
        owner == word[w].tid
    IN  /\ ppc[t] = "enqueue"
        /\ IF owner = Nobody
           THEN PiGoto(t, "lock") /\ UNCHANGED <<word, ptable, wstate, goal>>
           ELSE IF ppc[owner] = "reaped" \/ ChainReaches(owner, t)
           THEN PiReturn(t) /\ UNCHANGED <<word, ptable, wstate>>
           ELSE /\ word' = [word EXCEPT ![w].waiters = TRUE]
                /\ ptable' = [ptable EXCEPT ![w] =
                                 [owner |-> owner, waiters |-> Append(@.waiters, t)]]
                /\ wstate' = [wstate EXCEPT ![t] = "armed"]
                /\ PiGoto(t, "wait")
                /\ UNCHANGED goal
        /\ UNCHANGED <<prun, pstop, held, handing, kicking, dying>>

-----------------------------------------------------------------------------
(* pi_wait_registered.                                                     *)

\* is_woken: the lock was handed over and the call returns with it.
WaitDone(t) ==
    /\ ppc[t] = "wait" /\ wstate[t] = "woken"
    /\ held' = [held EXCEPT ![t] = @ \cup {goal[t]}]
    /\ prun' = [prun EXCEPT ![t] = "running"]
    /\ pstop' = pstop \ {t}
    /\ PiReturn(t)
    /\ UNCHANGED <<word, ptable, wstate, handing, kicking, dying>>

\* A deadline or a signal ends the wait only if pi_remove_waiter still finds
\* the task in the queue; FUTEX_WAITERS goes with the last waiter.
WaitGivesUp(t) ==
    LET w == goal[t]
        rest == Without(ptable[w].waiters, t)
    IN  /\ ppc[t] = "wait" /\ wstate[t] # "woken" /\ t \in pstop
        /\ t \in Queued(w)
        /\ ptable' = [ptable EXCEPT ![w].waiters = rest]
        /\ word' = IF rest = <<>> THEN [word EXCEPT ![w].waiters = FALSE] ELSE word
        /\ prun' = [prun EXCEPT ![t] = "running"]
        /\ pstop' = pstop \ {t}
        /\ PiReturn(t)
        /\ UNCHANGED <<wstate, held, handing, kicking, dying>>

\* cas_state to Sleeping.
WaitSleeps(t) ==
    /\ ppc[t] = "wait" /\ wstate[t] # "woken"
    /\ t \in pstop => t \notin Queued(goal[t])
    /\ prun' = [prun EXCEPT ![t] = "sleeping"]
    /\ PiGoto(t, "mark")
    /\ UNCHANGED <<word, ptable, wstate, pstop, goal, held, handing, kicking, dying>>

\* mark_sleeping fails when the wake-up came first.
MarkSleeping(t) ==
    /\ ppc[t] = "mark"
    /\ IF wstate[t] = "armed"
       THEN /\ wstate' = [wstate EXCEPT ![t] = "sleeping"]
            /\ PiGoto(t, "check")
            /\ UNCHANGED prun
       ELSE /\ prun' = [prun EXCEPT ![t] = "running"]
            /\ PiGoto(t, "wait")
            /\ UNCHANGED wstate
    /\ UNCHANGED <<word, ptable, pstop, goal, held, handing, kicking, dying>>

\* The second is_woken test, right before sched_yield.
CheckWoken(t) ==
    /\ ppc[t] = "check"
    /\ IF wstate[t] = "woken"
       THEN PiGoto(t, "wait") /\ prun' = [prun EXCEPT ![t] = "running"]
       ELSE PiGoto(t, "yield") /\ UNCHANGED prun
    /\ UNCHANGED <<word, ptable, wstate, pstop, goal, held, handing, kicking, dying>>

\* sched_yield returns once something made the task runnable;
\* rearm_after_non_futex_wakeup.
WaitResumes(t) ==
    /\ ppc[t] = "yield" /\ prun[t] = "running"
    /\ wstate' = [wstate EXCEPT ![t] = IF @ = "sleeping" THEN "armed" ELSE @]
    /\ PiGoto(t, "wait")
    /\ UNCHANGED <<word, ptable, prun, pstop, goal, held, handing, kicking, dying>>

\* A signal arrives or the deadline passes during the wait.
InterruptPi(t) ==
    /\ t \in Timed \ pstop /\ ppc[t] \in Waiting
    /\ pstop' = pstop \cup {t}
    /\ prun' = [prun EXCEPT ![t] = "running"]
    /\ UNCHANGED <<word, ptable, wstate, ppc, goal, held, handing, kicking, dying>>

-----------------------------------------------------------------------------
(* The hand-off.                                                           *)

\* The word and the entry of w pass to the best waiter.
HandOver(w, died) ==
    LET next == BestWaiter(ptable[w].waiters)
        rest == RemoveIndex(ptable[w].waiters, BestIndex(ptable[w].waiters))
    IN  /\ word' = [word EXCEPT ![w] = [tid |-> next, waiters |-> rest # <<>>, died |-> died]]
        /\ ptable' = [ptable EXCEPT ![w] = [owner |-> next, waiters |-> rest]]

\* futex_unlock_pi by the owner.
UnlockPi(t, w) ==
    /\ Ready(t, "user") /\ w \in held[t]
    /\ word[w] # [Free EXCEPT !.tid = t]
    /\ held' = [held EXCEPT ![t] = @ \ {w}]
    /\ IF ptable[w].waiters = <<>>
       THEN /\ word' = [word EXCEPT ![w] = Free]
            /\ ptable' = [ptable EXCEPT ![w] = NoEntry]
            /\ UNCHANGED handing
       ELSE /\ HandOver(w, word[w].died)
            /\ handing' = [handing EXCEPT ![t] = BestWaiter(ptable[w].waiters)]
    /\ UNCHANGED <<wstate, prun, pstop, ppc, goal, kicking, dying>>

\* Mutant: a waiter that sleeps is marked and not made Runnable.
MarkWokenOnly(t) ==
    LET u == handing[t]
    IN  /\ u # Nobody
        /\ wstate' = [wstate EXCEPT ![u] = "woken"]
        /\ handing' = [handing EXCEPT ![t] = Nobody]
        /\ UNCHANGED <<word, ptable, prun, pstop, ppc, goal, held, kicking, dying>>

\* wake_futex_waiter: mark_woken.
MarkWoken(t) ==
    LET u == handing[t]
    IN  /\ u # Nobody
        /\ wstate' = [wstate EXCEPT ![u] = "woken"]
        /\ handing' = [handing EXCEPT ![t] = Nobody]
        /\ kicking' = [kicking EXCEPT ![t] = IF wstate[u] = "sleeping" THEN u ELSE Nobody]
        /\ UNCHANGED <<word, ptable, prun, pstop, ppc, goal, held, dying>>

\* and cas_state to Runnable for a waiter that was SLEEPING.
Kick(t) ==
    /\ kicking[t] # Nobody
    /\ prun' = [prun EXCEPT ![kicking[t]] = "running"]
    /\ kicking' = [kicking EXCEPT ![t] = Nobody]
    /\ UNCHANGED <<word, ptable, wstate, pstop, ppc, goal, held, handing, dying>>

-----------------------------------------------------------------------------
(* Exit.                                                                   *)

\* pi_release_owned_futexes lists the entries the task owns; the robust list
\* names the words its user code holds.
ExitPi(t) ==
    /\ Ready(t, "user") /\ t \in Mortal
    /\ dying' = [dying EXCEPT ![t].owned = {w \in PiWord : ptable[w].owner = t},
                              ![t].robust = IF t \in Robust THEN held[t] ELSE {}]
    /\ held' = [held EXCEPT ![t] = {}]
    /\ PiGoto(t, "exit")
    /\ UNCHANGED <<word, ptable, wstate, prun, pstop, goal, handing, kicking>>

\* pi_owner_died_key applies to an entry and a word that both name t.
OwnedByDying(t, w) == ptable[w].owner = t /\ word[w].tid = t

OwnerDied(t, w) ==
    IF ptable[w].waiters = <<>>
    THEN /\ word' = [word EXCEPT ![w] = [Free EXCEPT !.died = TRUE]]
         /\ ptable' = [ptable EXCEPT ![w] = NoEntry]
         /\ UNCHANGED handing
    ELSE /\ HandOver(w, TRUE)
         /\ handing' = [handing EXCEPT ![t] = BestWaiter(ptable[w].waiters)]

\* One key of pi_release_owned_futexes.
ReleaseOwned(t) ==
    /\ Ready(t, "exit")
    /\ \E w \in dying[t].owned :
           /\ dying' = [dying EXCEPT ![t].owned = @ \ {w}]
           /\ IF OwnedByDying(t, w) THEN OwnerDied(t, w)
              ELSE UNCHANGED <<word, ptable, handing>>
    /\ UNCHANGED <<wstate, prun, pstop, ppc, goal, held, kicking>>

\* Mutant: a word that names another task is recovered too.
RobustReadUnchecked(t) ==
    /\ Ready(t, "exit") /\ dying[t].owned = {}
    /\ \E w \in dying[t].robust :
           /\ dying' = [dying EXCEPT ![t].seen = word[w]]
           /\ goal' = [goal EXCEPT ![t] = w]
           /\ PiGoto(t, "robust")
    /\ UNCHANGED <<word, ptable, wstate, prun, pstop, held, handing, kicking>>

\* handle_robust_node reads the word, and leaves one it does not own alone.
RobustRead(t) ==
    /\ Ready(t, "exit") /\ dying[t].owned = {}
    /\ \E w \in dying[t].robust :
           IF word[w].tid # t
           THEN /\ dying' = [dying EXCEPT ![t].robust = @ \ {w}]
                /\ UNCHANGED <<ppc, goal>>
           ELSE /\ dying' = [dying EXCEPT ![t].seen = word[w]]
                /\ goal' = [goal EXCEPT ![t] = w]
                /\ PiGoto(t, "robust")
    /\ UNCHANGED <<word, ptable, wstate, prun, pstop, held, handing, kicking>>

\* pi_owner_died_key for the node; without an entry the word is left to the
\* compare-exchange.
RobustHandOff(t) ==
    LET w == goal[t]
    IN  /\ Ready(t, "robust")
        /\ IF OwnedByDying(t, w)
           THEN /\ OwnerDied(t, w)
                /\ dying' = [dying EXCEPT ![t].robust = @ \ {w}, ![t].seen = Free]
                /\ goal' = [goal EXCEPT ![t] = NoWord]
                /\ PiGoto(t, "exit")
           ELSE PiGoto(t, "robust cas") /\ UNCHANGED <<word, ptable, handing, dying, goal>>
        /\ UNCHANGED <<wstate, prun, pstop, held, kicking>>

\* The compare-exchange with the value read first; it is not tried again.
RobustCas(t) ==
    LET w == goal[t]
    IN  /\ ppc[t] = "robust cas"
        /\ word' = IF word[w] = dying[t].seen
                   THEN [word EXCEPT ![w].tid = Nobody, ![w].died = TRUE] ELSE word
        /\ dying' = [dying EXCEPT ![t].robust = @ \ {w}, ![t].seen = Free]
        /\ goal' = [goal EXCEPT ![t] = NoWord]
        /\ PiGoto(t, "exit")
        /\ UNCHANGED <<ptable, wstate, prun, pstop, held, handing, kicking>>

\* The end of the cleanup leaves a zombie, which the parent reaps.
ExitDone(t) ==
    /\ \/ Ready(t, "exit") /\ dying[t].owned = {} /\ dying[t].robust = {}
          /\ PiGoto(t, "zombie")
       \/ ppc[t] = "zombie" /\ PiGoto(t, "reaped")
    /\ UNCHANGED <<word, ptable, wstate, prun, pstop, goal, held, handing, kicking, dying>>

-----------------------------------------------------------------------------
PiStep(t) ==
    \/ \E w \in PiWord :
           UserLock(t, w) \/ UserUnlock(t, w) \/ LockPi(t, w) \/ UnlockPi(t, w)
    \/ TakeOrWait(t) \/ RegisterOwner(t) \/ EnqueueWaiter(t)
    \/ WaitDone(t) \/ WaitGivesUp(t) \/ WaitSleeps(t) \/ MarkSleeping(t)
    \/ CheckWoken(t) \/ WaitResumes(t) \/ InterruptPi(t)
    \/ MarkWoken(t) \/ Kick(t)
    \/ ExitPi(t) \/ ReleaseOwned(t) \/ RobustRead(t) \/ RobustHandOff(t)
    \/ RobustCas(t) \/ ExitDone(t)

PiNext == \E t \in PiTask : PiStep(t)

PiSpec == PiInit /\ [][PiNext]_piVars

-----------------------------------------------------------------------------
\* Type correctness: words name tasks, and no task waits for two futexes.
PiTypeOK ==
    /\ word \in [PiWord -> [tid : PiTask \cup {Nobody}, waiters : BOOLEAN, died : BOOLEAN]]
    /\ \A w \in PiWord : ptable[w].owner \in PiTask \cup {Nobody}
    /\ wstate \in [PiTask -> {"armed", "sleeping", "woken"}]
    /\ prun \in [PiTask -> {"running", "sleeping"}]
    /\ \A w \in PiWord : IsInjective(ptable[w].waiters)
    /\ \A w \in PiWord : \A t \in Queued(w) :
           goal[t] = w /\ ppc[t] \in Waiting

\* Mutual exclusion: user code that took a lock and has not dropped it is the
\* owner the word names, on the fast path, after futex_lock_pi, after a
\* hand-off that raced its deadline, and after the death of an owner.
HolderIsOwner ==
    \A t \in PiTask : \A w \in held[t] : word[w].tid = t

\* Ownership is never lost: a word that names a live task names one that
\* holds it, is about to return with it, or is (or will be) woken to.
OwnerKnows ==
    \A w \in PiWord, t \in Alive :
        word[w].tid = t /\ ppc[t] \notin {"exit", "robust", "robust cas"} =>
            \/ w \in held[t]
            \/ goal[t] = w /\ ppc[t] = "register"
            \/ /\ goal[t] = w /\ ppc[t] \in Waiting
               /\ wstate[t] = "woken" \/ \E u \in PiTask : handing[u] = t

\* Waiters are visible to the owner: while a futex has waiters, its word has
\* the owner the table has and FUTEX_WAITERS, so that no unlock bypasses the
\* kernel.
WaitersAreVisible ==
    \A w \in PiWord : ptable[w].waiters # <<>> =>
        word[w].waiters /\ word[w].tid = ptable[w].owner /\ word[w].tid # Nobody

\* The word, on which user code decides alone, always tells the truth about
\* the lock: to its holder, to the task that is to have it and, while tasks
\* wait in the kernel, to whoever unlocks it; whatever deadlines, signals,
\* hand-offs and deaths meet.
WordIsTrue == HolderIsOwner /\ OwnerKnows /\ WaitersAreVisible

\* No lost wake-up: a task asleep in pi_wait_registered is still queued, or
\* the task that handed it the lock has yet to mark or to kick it.
NoLostPiWakeup ==
    \A t \in PiTask : ppc[t] = "yield" /\ prun[t] = "sleeping" =>
        \/ t \in Queued(goal[t])
        \/ \E u \in PiTask : handing[u] = t \/ kicking[u] = t

\* pi_enqueue_waiter answers EDEADLK before a ring of waiters closes: no set
\* of tasks waits for words owned inside the set.
NoPiDeadlock ==
    \A S \in (SUBSET PiTask) \ {{}} :
        \E t \in S : \A w \in PiWord : t \in Queued(w) => word[w].tid \notin S

=============================================================================
