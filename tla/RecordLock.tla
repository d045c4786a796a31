----------------------------- MODULE RecordLock -----------------------------
(***************************************************************************)
(* POSIX and open-file-description (OFD) byte-range locks of one file      *)
(* (libs/vfs/src/record_lock.rs) and the closes that release them          *)
(* (libs/vfs/src/fdtable.rs).  Single-threaded processes share open file   *)
(* descriptions across fork.  RECORD_LOCKS is a spinlock: what runs under  *)
(* it is one step, and so is what runs under PENDING_LOCKS alone.          *)
(* Positions from Top on are treated alike by every request, and an end of *)
(* None (up to the end of the file) is the number above all others.        *)
(***************************************************************************)
EXTENDS Integers, Sequences, FiniteSets, Lists

CONSTANTS
    Proc,           \* processes, each the owner of its POSIX locks
    Ofd,            \* open file descriptions, each the owner of its OFD locks
    Top,            \* bound: the last position requests start or end at
    LockStart,      \* the starts of the requests
    LockLen,        \* their lengths; 0 is up to the end of the file
    PosixType,      \* the types of the requests for POSIX locks
    OfdType         \* and of those for OFD locks

Owner == Proc \cup Ofd
Eof == Top + 1
NoFile == 0
NoOwner == 0

\* RecordOwner is ordered: processes by pid before descriptions.
ASSUME LockAssumption ==
    /\ Owner \subseteq Nat \ {0} /\ IsFiniteSet(Owner)
    /\ \A p \in Proc, o \in Ofd : p < o
    /\ Top \in Nat
    /\ LockStart \subseteq Nat /\ LockLen \subseteq Nat
    /\ PosixType \cup OfdType \subseteq {"read", "write", "unlock"}

VARIABLES
    locks,          \* RecordLockState.locks
    pending,        \* PENDING_LOCKS: owner -> request
    queue,          \* the processes in RecordLockState.waiters
    asleep,         \* the processes whose task state is Sleeping
    signalled,      \* the processes with an interrupting signal
    lpc,            \* where each process is
    call,           \* the call it is in
    fds,            \* the descriptions its descriptors refer to
    closing         \* those it has removed from its table and still holds

lockVars == <<locks, pending, queue, asleep, signalled, lpc, call, fds, closing>>

Request == [start : 0 .. Top, end : 1 .. Eof, type : {"read", "write", "unlock"}]
NoRequest == [start |-> 0, end |-> 0, type |-> "none"]
NoCall == [owner |-> NoOwner, req |-> NoRequest, wake |-> FALSE]

LockInit ==
    /\ locks = {} /\ queue = {} /\ asleep = {} /\ signalled = {}
    /\ pending = [o \in Owner |-> NoRequest]
    /\ lpc = [p \in Proc |-> "user"]
    /\ call = [p \in Proc |-> NoCall]
    /\ fds = [p \in Proc |-> Ofd]
    /\ closing = [p \in Proc |-> {}]

-----------------------------------------------------------------------------
(* Ranges *)

\* request_from_parts, RecordLockRequest::new.
NewRequest(s, n, type) == [start |-> s, end |-> IF n = 0 THEN Eof ELSE s + n, type |-> type]

RangesOverlap(a, b) == a.start < b.end /\ b.start < a.end

Conflicts(l, o, r) ==
    /\ l.owner # o
    /\ r.type # "unlock"
    /\ l.type = "write" \/ r.type = "write"
    /\ RangesOverlap(l, r)

\* first_conflict_owner: the conflicting lock that starts first; locks are kept
\* sorted by start, and by owner where two start together.
FirstConflictOwner(o, r) ==
    LET found == {l \in locks : Conflicts(l, o, r)}
    IN  IF found = {} THEN NoOwner
        ELSE (CHOOSE l \in found : \A k \in found :
                 l.start < k.start \/ (l.start = k.start /\ l.owner <= k.owner)).owner

LeftPiece(l, r) ==
    IF l.start >= r.start THEN {} ELSE {[l EXCEPT !.end = r.start]}

\* Mutant: what is locked behind the request is dropped.
RightPieceLost(l, r) == {}

RightPiece(l, r) ==
    IF l.end <= r.end THEN {} ELSE {[l EXCEPT !.start = r.end]}

\* Mutant: ranges that only touch are kept apart.
OnlyOverlaps(end, start) == start < end

TouchesOrOverlaps(end, start) == start <= end

TypeOrder(l) == IF l.type = "read" THEN 0 ELSE 1

SortsBefore(l, k) ==
    \/ l.owner < k.owner
    \/ l.owner = k.owner /\ TypeOrder(l) < TypeOrder(k)
    \/ l.owner = k.owner /\ l.type = k.type /\ l.start < k.start

\* One turn of normalize's loop: the lock continues the last one or is added.
MergeInto(out, l) ==
    LET last == out[Len(out)]
    IN  IF /\ out # <<>>
           /\ last.owner = l.owner /\ last.type = l.type
           /\ TouchesOrOverlaps(last.end, l.start)
        THEN [out EXCEPT ![Len(out)].end = IF @ > l.end THEN @ ELSE l.end]
        ELSE Append(out, l)

\* The lock that is sorted before all others of a set.
FirstSorted(ls) == CHOOSE l \in ls : \A k \in ls \ {l} : SortsBefore(l, k)

\* A turn of the loop takes the next of the sorted locks.
Turn(t) == [todo |-> t.todo \ {FirstSorted(t.todo)}, out |-> MergeInto(t.out, FirstSorted(t.todo))]

Normalize(ls) ==
    LET kept == {l \in ls : l.start < l.end}
        turn[n \in 0 .. Cardinality(kept)] ==
            IF n = 0 THEN [todo |-> kept, out |-> <<>>] ELSE Turn(turn[n - 1])
    IN  Range(turn[Cardinality(kept)].out)

\* RecordLockState::apply.
Apply(o, r) ==
    LET hit == {l \in locks : l.owner = o /\ RangesOverlap(l, r)}
        pieces == UNION {LeftPiece(l, r) \cup RightPiece(l, r) : l \in hit}
        new == IF r.type = "unlock" THEN {}
               ELSE {[owner |-> o, start |-> r.start, end |-> r.end, type |-> r.type]}
    IN  Normalize((locks \ hit) \cup pieces \cup new)

\* The owner of the first conflict of the pending request of q.
NextBlocker(q) ==
    IF q = NoOwner \/ pending[q] = NoRequest THEN NoOwner ELSE FirstConflictOwner(q, pending[q])

\* Who blocks a request, who blocks that owner, and so on.
BlockChain(o, r) ==
    LET chain[n \in 0 .. Cardinality(Owner)] ==
            IF n = 0 THEN FirstConflictOwner(o, r) ELSE NextBlocker(chain[n - 1])
    IN  chain

\* Mutant: only the owner itself is looked at.
WouldDeadlockDirect(o, r) == FirstConflictOwner(o, r) = o

\* would_deadlock: follow the first conflict of each pending request.
WouldDeadlock(o, r) ==
    \E n \in 0 .. Cardinality(Owner) : BlockChain(o, r)[n] = o

-----------------------------------------------------------------------------
(* fcntl(F_SETLKW), fcntl(F_OFD_SETLKW); a call that does not wait ends with *)
(* EAGAIN instead of waiting and changes nothing.                            *)

Waking(o) == [owner |-> o, req |-> NoRequest, wake |-> TRUE]

LockGoto(p, l) == lpc' = [lpc EXCEPT ![p] = l]

\* Mutant: only an unlock wakes the waiters, not a write lock that becomes a
\* read lock.
AfterGrantUnlocks(p, o, r) ==
    IF queue = {} \/ r.type # "unlock"
    THEN LockGoto(p, "user") /\ call' = [call EXCEPT ![p] = NoCall]
    ELSE LockGoto(p, "wake") /\ call' = [call EXCEPT ![p] = Waking(o)]

\* Waiters are woken once the table is unlocked.
AfterGrant(p, o, r) ==
    IF queue = {}
    THEN LockGoto(p, "user") /\ call' = [call EXCEPT ![p] = NoCall]
    ELSE LockGoto(p, "wake") /\ call' = [call EXCEPT ![p] = Waking(o)]

\* The request is granted.
Grant(p, o, r) ==
    /\ FirstConflictOwner(o, r) = NoOwner
    /\ locks' = Apply(o, r)
    /\ AfterGrant(p, o, r)
    /\ UNCHANGED <<pending, queue, asleep>>

\* The request conflicts: it becomes pending and prepare_to_wait queues the
\* task as Sleeping.
Block(p, o, r) ==
    /\ FirstConflictOwner(o, r) # NoOwner
    /\ pending' = [pending EXCEPT ![o] = r]
    /\ queue' = queue \cup {p}
    /\ asleep' = asleep \cup {p}
    /\ call' = [call EXCEPT ![p] = [owner |-> o, req |-> r, wake |-> FALSE]]
    /\ LockGoto(p, "recheck")
    /\ UNCHANGED locks

\* The system call, on any descriptor of the file that the process has.
SetLk(p) ==
    /\ lpc[p] = "user" /\ fds[p] # {}
    /\ \E o \in {p} \cup fds[p], s \in LockStart, n \in LockLen :
       \E type \in IF o = p THEN PosixType ELSE OfdType :
         LET r == NewRequest(s, n, type)
         IN  s + n <= Top /\ (Grant(p, o, r) \/ Block(p, o, r))
    /\ UNCHANGED <<signalled, fds, closing>>

\* The loop goes round.
RetryLk(p) ==
    /\ lpc[p] = "retry"
    /\ Grant(p, call[p].owner, call[p].req) \/ Block(p, call[p].owner, call[p].req)
    /\ UNCHANGED <<signalled, fds, closing>>

\* Recheck, deadlock and signal tests; without any of them schedule_once.
Recheck(p) ==
    /\ lpc[p] = "recheck"
    /\ LET o == call[p].owner
           r == call[p].req
       IN  LockGoto(p, IF FirstConflictOwner(o, r) = NoOwner THEN "again"
                       ELSE IF WouldDeadlock(o, r) \/ p \in signalled THEN "error"
                       ELSE "switch")
    /\ UNCHANGED <<locks, pending, queue, asleep, signalled, call, fds, closing>>

\* finish_wait and the removal of the pending request: after the recheck found
\* no conflict, after an error (EDEADLK, EINTR), or after the sleep.
FinishLk(p) ==
    /\ lpc[p] \in {"again", "error"} \/ (lpc[p] = "switch" /\ p \notin asleep)
    /\ queue' = queue \ {p}
    /\ asleep' = asleep \ {p}
    /\ pending' = [pending EXCEPT ![call[p].owner] = NoRequest]
    /\ IF lpc[p] = "error"
       THEN /\ LockGoto(p, "user")
            /\ call' = [call EXCEPT ![p] = NoCall]
            /\ signalled' = signalled \ {p}
       ELSE LockGoto(p, "retry") /\ UNCHANGED <<call, signalled>>
    /\ UNCHANGED <<locks, fds, closing>>

\* wake_all, when the queue had waiters, and the end of the call: a granted
\* request returns, a close drops its description.
WakeLk(p) ==
    /\ lpc[p] = "wake"
    /\ IF call[p].wake THEN asleep' = asleep \ queue /\ queue' = {}
                       ELSE UNCHANGED <<asleep, queue>>
    /\ closing' = [closing EXCEPT ![p] = @ \ {call[p].owner}]
    /\ call' = [call EXCEPT ![p] = NoCall]
    /\ LockGoto(p, IF closing'[p] = {} THEN "user" ELSE "close")
    /\ UNCHANGED <<locks, pending, signalled, fds>>

\* A signal reaches a process in a call; a sleeping one wakes up.
SignalLk(p) ==
    /\ lpc[p] \in {"recheck", "switch"} /\ p \notin signalled
    /\ signalled' = signalled \cup {p}
    /\ asleep' = asleep \ {p}
    /\ UNCHANGED <<locks, pending, queue, lpc, call, fds, closing>>

-----------------------------------------------------------------------------
(* Descriptors *)

\* close, dup2 over a descriptor (one description), close-on-exec and exit
\* (several): they leave the table first.
CloseFds(p) ==
    /\ lpc[p] = "user" /\ fds[p] # {}
    /\ \E gone \in {{o} : o \in fds[p]} \cup {fds[p]} :
         /\ fds' = [fds EXCEPT ![p] = @ \ gone]
         /\ closing' = [closing EXCEPT ![p] = gone]
    /\ LockGoto(p, "close")
    /\ UNCHANGED <<locks, pending, queue, asleep, signalled, call>>

\* Mutant: a close releases the locks of its description only.
ReleaseOfdOnly(p) ==
    /\ lpc[p] = "close"
    /\ \E o \in closing[p] :
         /\ locks' = {l \in locks : l.owner # o}
         /\ call' = [call EXCEPT ![p] = [owner |-> o, req |-> NoRequest,
                                         wake |-> locks' # locks /\ queue # {}]]
    /\ LockGoto(p, "wake")
    /\ UNCHANGED <<pending, queue, asleep, signalled, fds, closing>>

\* release_process_locks_for_file: the process's locks, and with the last
\* reference those of the description.
ReleaseLocks(p) ==
    /\ lpc[p] = "close"
    /\ \E o \in closing[p] :
         LET lastReference == \A q \in Proc \ {p} : o \notin fds[q] \cup closing[q]
             gone == IF lastReference THEN {p, o} ELSE {p}
         IN  /\ locks' = {l \in locks : l.owner \notin gone}
             /\ call' = [call EXCEPT ![p] = [owner |-> o, req |-> NoRequest,
                                             wake |-> locks' # locks /\ queue # {}]]
    /\ LockGoto(p, "wake")
    /\ UNCHANGED <<pending, queue, asleep, signalled, fds, closing>>

\* The file is opened again: a new description, at an address no live
\* description has.
OpenFile(p) ==
    /\ lpc[p] = "user"
    /\ \E o \in Ofd :
         /\ \A q \in Proc : o \notin fds[q] \cup closing[q]
         /\ fds' = [fds EXCEPT ![p] = @ \cup {o}]
    /\ UNCHANGED <<locks, pending, queue, asleep, signalled, lpc, call, closing>>

LockNext ==
    \E p \in Proc : \/ SetLk(p) \/ RetryLk(p) \/ Recheck(p) \/ FinishLk(p)
                    \/ WakeLk(p) \/ SignalLk(p)
                    \/ CloseFds(p) \/ ReleaseLocks(p) \/ OpenFile(p)

LockSpec == LockInit /\ [][LockNext]_lockVars

-----------------------------------------------------------------------------
(* Properties *)

Lock == [owner : Owner, start : 0 .. Top, end : 1 .. Eof, type : {"read", "write"}]

\* normalize keeps the list in its shortest form: the ranges of an owner never
\* overlap, and two of the same type never touch, through any sequence of
\* partial unlocks, upgrades and re-locks.
ListIsNormal ==
    \A l, k \in locks :
        l # k /\ l.owner = k.owner =>
            /\ ~RangesOverlap(l, k)
            /\ l.type = k.type => l.end # k.start

\* Every variable holds a value of its type, the list is normal, and a process
\* that the wait queue or the scheduler holds is in a blocking call.
LockTypeOK ==
    /\ locks \subseteq Lock /\ ListIsNormal
    /\ pending \in [Owner -> Request \cup {NoRequest}]
    /\ lpc \in [Proc -> {"user", "recheck", "switch", "again", "error", "retry", "wake", "close"}]
    /\ \A p \in queue \cup asleep : lpc[p] \in {"recheck", "switch", "again", "error"}
    /\ signalled \subseteq Proc
    /\ \A p \in Proc : /\ call[p].owner \in Owner \cup {NoOwner}
                       /\ call[p].req \in Request \cup {NoRequest}
                       /\ call[p].wake \in BOOLEAN
    /\ fds \in [Proc -> SUBSET Ofd] /\ closing \in [Proc -> SUBSET Ofd]

\* How the list of locks says an owner holds a byte.
HeldBy(o, b) ==
    LET over == {l \in locks : l.owner = o /\ l.start <= b /\ b < l.end}
    IN  IF over = {} THEN "none" ELSE (CHOOSE l \in over : TRUE).type

Bytes == INSTANCE ByteLocks WITH
            Holder <- Owner,
            Byte <- 0 .. Top,
            held <- [o \in Owner |-> [b \in 0 .. Top |-> HeldBy(o, b)]]

\* The list of ranges that apply splits, replaces and merges, and the closes
\* that filter it, implement the byte-by-byte lock: a call changes the bytes it
\* names, of its owner, and nothing else, and only without a conflict.
ImplementsByteLocks == Bytes!ByteSpec

\* A caller on its way to wake the queue.
WakeComing == \E q \in Proc : lpc[q] = "wake" /\ call[q].wake

Sleeps(p) == lpc[p] = "switch" /\ p \in asleep

\* "prepare / recheck / sleep ... avoids losing the wake-up of a releaser that
\* arrives after the check" (setlk_inner): a process that sleeps on a lock that
\* nobody holds against it any more has a wake-up coming.
NoLostLockWakeup ==
    \A p \in Proc :
        Sleeps(p) /\ FirstConflictOwner(call[p].owner, call[p].req) = NoOwner =>
            p \in queue /\ WakeComing

\* would_deadlock sees every cycle of processes that wait for each other's
\* POSIX locks, whatever order they blocked, woke and retried in: no ring of
\* them, each blocked first by the next, is left asleep.
NoDeadlockAsleep ==
    \A ring \in SUBSET Proc :
        ring # {} /\ (\A p \in ring : /\ Sleeps(p) /\ call[p].owner = p
                                      /\ FirstConflictOwner(p, call[p].req) \in ring)
            => WakeComing

\* Closing any descriptor of a file releases the process's POSIX locks on it:
\* a process with no descriptor left, and none being closed, holds none.
PosixLocksNeedFd ==
    \A p \in Proc :
        fds[p] = {} /\ closing[p] = {} /\ call[p] = NoCall => \A l \in locks : l.owner # p
=============================================================================
