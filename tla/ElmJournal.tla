---------------------------- MODULE ElmJournal ----------------------------
(***************************************************************************)
(* The ELM journal and the trust store it protects                         *)
(* (kernel/src/elm/journal.rs, libs/elm/src/proof.rs and the loader of     *)
(* kernel/src/elm/core.rs).  Every signed module image carries a release   *)
(* epoch.  A load verifies it against the accepted epochs, runs for a      *)
(* while outside the locks, and commits: the acceptance is appended to a   *)
(* hash-chained journal, synced, and only then put into the trust store.   *)
(* A boot replays the journal to restore the accepted epochs.              *)
(*                                                                         *)
(* The backend (a platform driver) is external: append adds one record,    *)
(* sync makes what was appended durable, and every call may fail.  A       *)
(* failed append leaves an uncertain tail.  The machine may crash at any   *)
(* point, also between append and sync; what was not synced then survives, *)
(* disappears or is left torn.  JOURNAL and the core are spinlocks, so one *)
(* caller is inside append_record at a time.                               *)
(***************************************************************************)
EXTENDS Naturals, Sequences

CONSTANTS
    Module,         \* (rollback authority, module digest) pairs
    NoModule,       \* the identity of an ordinary record
    Loader,         \* the contexts that load images
    Nobody,         \* the caller of an ordinary append, no caller at all
    MaxEpoch,       \* bound: the release epochs of the images
    DiskCapacity,   \* the backend's capacity, in records
    RingLimit,      \* ELM_JOURNAL_RING_LIMIT
    SeqMax,         \* u64::MAX, the last sequence number
    MaxCrash        \* bound: the crashes of a behaviour

ASSUME JournalAssumption ==
    /\ NoModule \notin Module /\ Nobody \notin Loader
    /\ {MaxEpoch, DiskCapacity, RingLimit, SeqMax, MaxCrash} \subseteq Nat
    /\ MaxEpoch >= 1 /\ DiskCapacity >= 1 /\ RingLimit >= 1 /\ SeqMax >= 1

VARIABLES
    log,            \* the complete records the backend holds
    torn,           \* an incomplete record follows them
    synced,         \* how many of them are durable
    backend,        \* JournalRuntime.backend is Some
    required, initialized, failed, exhausted,
    next,           \* next_sequence; 0 when the numbers are used up
    last,           \* last_sequence
    diskUsed,       \* backend_bytes_used, in records
    lastHash,
    records,        \* the ring of retained records
    trust,          \* trust_epochs: module -> epoch, 0 for no entry
    replay,         \* replay_epochs
    writing,        \* the record between backend.append and backend.sync
    writer,         \* the loader that writes it
    ready,          \* the core has restored the trust store
    store,          \* ElmTrustStore.accepted_epochs
    load,           \* loader -> the verified image it is loading
    acked,          \* history: the records acknowledged with a live backend
    crashes

disk == <<log, torn, synced>>
mode == <<backend, required, initialized, failed, exhausted>>
cursor == <<next, last, diskUsed, lastHash, records, trust, replay>>
core == <<ready, store, load>>
vars == <<disk, mode, cursor, writing, writer, core, acked, crashes>>

Identity == Module \cup {NoModule}
NoImage == [mod |-> NoModule, epoch |-> 0]
Image == [mod : Module, epoch : 1 .. MaxEpoch] \cup {NoImage}

\* sha256 over the record without its own hash; taken to be injective, so the
\* whole chain that leads to the record stands for it.
Hash(r) == Append(r.prev, <<r.seq, r.mod, r.epoch>>)

NoHash == <<>>
NoRecord == [seq |-> 0, prev |-> NoHash, mod |-> NoModule, epoch |-> 0]

\* The hash the record after record n of the log must name.
HashAt(n) == IF n = 0 THEN NoHash ELSE Hash(log[n])

\* merge_trust_epoch: a record of an acceptance raises its module's epoch.
Merge(t, r) ==
    IF r.mod \in Module /\ r.epoch >= t[r.mod]
    THEN [t EXCEPT ![r.mod] = r.epoch]
    ELSE t

NoTrust == [m \in Module |-> 0]

Init ==
    /\ log = <<>> /\ torn = FALSE /\ synced = 0
    /\ backend = FALSE /\ required = FALSE
    /\ initialized = FALSE /\ failed = FALSE /\ exhausted = FALSE
    /\ next = 1 /\ last = 0 /\ diskUsed = 0 /\ lastHash = NoHash /\ records = <<>>
    /\ trust = NoTrust /\ replay = NoTrust
    /\ writing = NoRecord /\ writer = Nobody
    /\ ready = FALSE /\ store = NoTrust
    /\ load = [l \in Loader |-> NoImage]
    /\ acked = {} /\ crashes = 0

-----------------------------------------------------------------------------
(* Boot *)

\* register_backend; refused once a backend is there or after initialize.
RegisterBackend(req) ==
    /\ ~initialized /\ ~backend
    /\ backend' = TRUE
    /\ required' = req
    /\ UNCHANGED <<disk, initialized, failed, exhausted, cursor, writing,
                   writer, core, acked, crashes>>

\* fail, then handle_backend_failure: a required journal is sealed, an optional
\* one goes on in memory and never appends to the uncertain tail again.
\* Mutant: the optional journal keeps its backend.
KeepBackend == failed' = TRUE /\ UNCHANGED backend

HandleBackendFailure ==
    /\ failed' = TRUE
    /\ backend' = (backend /\ required)

\* push_record: the oldest record leaves a full ring.
PushRecord(ring, r) ==
    Append(IF Len(ring) >= RingLimit THEN Tail(ring) ELSE ring, r)

\* The checks of the replay loop: the record decodes, continues the sequence
\* and the hash chain, and its epoch is no rollback (reserve_trust_epoch).
ReplaysAt(i) ==
    /\ log[i].seq = i
    /\ log[i].prev = HashAt(i - 1)
    /\ log[i].mod \in Module =>
         \A j \in 1 .. (i - 1) :
             log[j].mod = log[i].mod => log[j].epoch <= log[i].epoch

\* The records the loop accepts before it stops at record n + 1.
Accepted(n) == \A i \in 1 .. n : ReplaysAt(i)

\* e is the epoch that merging the first n records one by one leaves of module
\* m; their epochs never go back.
Replayed(n, m, e) ==
    /\ \A i \in 1 .. n : log[i].mod = m => log[i].epoch <= e
    /\ e = 0 \/ \E i \in 1 .. n : log[i].mod = m /\ log[i].epoch = e

\* Mutant: the acceptances are not merged.
ReplayWithoutTrust(n) ==
    /\ next' = IF n = SeqMax THEN 0 ELSE n + 1
    /\ last' = n
    /\ diskUsed' = n
    /\ lastHash' = HashAt(n)
    /\ records' = SubSeq(log, IF n > RingLimit THEN n - RingLimit + 1 ELSE 1, n)
    /\ UNCHANGED <<trust, replay>>

\* The journal after the loop accepted n records (set_replay_cursor,
\* push_record and the two merges).
ReplayCursor(n) ==
    /\ next' = IF n = SeqMax THEN 0 ELSE n + 1
    /\ last' = n
    /\ diskUsed' = n
    /\ lastHash' = HashAt(n)
    /\ records' = SubSeq(log, IF n > RingLimit THEN n - RingLimit + 1 ELSE 1, n)
    /\ trust' \in [Module -> 0 .. MaxEpoch]
    /\ \A m \in Module : Replayed(n, m, trust'[m])
    /\ replay' = trust'

\* Where the loop stops: the sequence numbers are used up after record n; the
\* capacity or the tail is reached; or the next record cannot be read, is torn
\* or is rejected.
ReplayExhausts(n) == n = SeqMax
ReplayEnds(n) == n < SeqMax /\ (n = DiskCapacity \/ (n = Len(log) /\ ~torn))
ReplayBreaks(n, error) ==
    /\ n < SeqMax /\ n < DiskCapacity
    /\ \/ error
       \/ n = Len(log) /\ torn
       \/ n < Len(log) /\ ~ReplaysAt(n + 1)

\* initialize with a backend.
Initialize ==
    /\ ~initialized /\ backend
    /\ \E n \in 0 .. Len(log) :
         /\ Accepted(n)
         /\ ReplayCursor(n)
         /\ \/ ReplayExhausts(n) /\ HandleBackendFailure /\ exhausted' = TRUE
            \/ ReplayEnds(n) /\ UNCHANGED <<backend, failed, exhausted>>
            \/ /\ \E error \in BOOLEAN : ReplayBreaks(n, error)
               /\ HandleBackendFailure
               /\ UNCHANGED exhausted
    /\ initialized' = TRUE
    /\ UNCHANGED <<disk, required, writing, writer, core, acked, crashes>>

\* initialize without a backend: the journal is volatile.
InitializeVolatile ==
    /\ ~initialized /\ ~backend
    /\ initialized' = TRUE
    /\ UNCHANGED <<disk, backend, required, failed, exhausted, cursor, writing,
                   writer, core, acked, crashes>>

\* restore_persisted_trust_epochs: take_replayed_trust_epochs empties
\* replay_epochs into the trust store, which is then sealed.  When a replayed
\* authority has no anchor they are put back and the core stays down.
RestoreTrust ==
    /\ initialized /\ ~ready
    /\ store' = replay
    /\ replay' = NoTrust
    /\ ready' = TRUE
    /\ UNCHANGED <<disk, mode, next, last, diskUsed, lastHash, records, trust,
                   writing, writer, load, acked, crashes>>

-----------------------------------------------------------------------------
(* Appending *)

Free == writing = NoRecord

MutationAllowed == initialized /\ ~exhausted /\ (~required \/ ~failed)

\* Mutant: the hash of the new record is not kept.
FinishWithoutHash(r) ==
    /\ trust' = Merge(trust, r)
    /\ next' = IF r.seq = SeqMax THEN 0 ELSE r.seq + 1
    /\ last' = r.seq
    /\ records' = PushRecord(records, r)
    /\ UNCHANGED <<lastHash, replay>>

\* finish_append: the acceptance is merged, the cursor moves, and the last
\* number closes the journal.
FinishAppend(r) ==
    /\ trust' = Merge(trust, r)
    /\ next' = IF r.seq = SeqMax THEN 0 ELSE r.seq + 1
    /\ last' = r.seq
    /\ lastHash' = Hash(r)
    /\ records' = PushRecord(records, r)
    /\ UNCHANGED replay

\* The record of begin_append and JournalRecord::new.
NewRecord(m, e) == [seq |-> next, prev |-> lastHash, mod |-> m, epoch |-> e]

\* accept_reserved for the loader l of record r; the load is over.
AcceptReserved(l, r) ==
    /\ store' = Merge(store, r)
    /\ load' = [load EXCEPT ![l] = NoImage]

\* What an Ok(sequence) does for the caller: commit_image_trust_acceptance puts
\* the epoch into the trust store, other callers do nothing.
Acknowledge(l, r) ==
    /\ UNCHANGED ready
    /\ IF l \in Loader THEN AcceptReserved(l, r) ELSE UNCHANGED <<store, load>>

\* Mutant: the epoch is accepted although the journal refused it.
RefuseAccepts(l) ==
    /\ UNCHANGED ready
    /\ IF l \in Loader THEN AcceptReserved(l, load[l])
                       ELSE UNCHANGED <<store, load>>

\* What an error does: the load is rolled back and the cell quarantined.
Refuse(l) ==
    /\ UNCHANGED <<ready, store>>
    /\ load' = IF l \in Loader THEN [load EXCEPT ![l] = NoImage] ELSE load

\* begin_append refuses: not the first failure of a required journal, or no
\* sequence number left.
AppendRefused(l) ==
    /\ Free /\ initialized
    /\ \/ /\ required /\ failed
          /\ UNCHANGED <<failed, exhausted>>
       \/ /\ ~(required /\ failed) /\ next = 0
          /\ failed' = TRUE /\ exhausted' = TRUE
    /\ Refuse(l)
    /\ UNCHANGED <<disk, backend, required, initialized, cursor, writing,
                   writer, acked, crashes>>

\* Mutant: begin_append does not look at the failure.
CanAppendUnsealed == Free /\ initialized /\ next # 0

CanAppend == Free /\ initialized /\ ~(required /\ failed) /\ next # 0

\* finish_append's fail(SequenceExhausted) on top of what happened before.
LastNumber(r) ==
    /\ failed' = (failed \/ r.seq = SeqMax)
    /\ exhausted' = (exhausted \/ r.seq = SeqMax)

\* append_record without a backend: the record is kept in memory only.
AppendVolatile(l, r) ==
    /\ CanAppend /\ ~backend
    /\ FinishAppend(r)
    /\ LastNumber(r)
    /\ Acknowledge(l, r)
    /\ UNCHANGED <<disk, backend, required, initialized, diskUsed, writing, writer,
                   acked, crashes>>

\* What follows a backend failure: Err seals a required journal, and the
\* record of an optional one is kept in memory.
AfterFailure(l, r) ==
    /\ HandleBackendFailure
    /\ IF required
       THEN /\ UNCHANGED <<exhausted, cursor>>
            /\ Refuse(l)
       ELSE /\ FinishAppend(r)
            /\ exhausted' = (exhausted \/ r.seq = SeqMax)
            /\ Acknowledge(l, r)
            /\ UNCHANGED diskUsed
    /\ UNCHANGED <<required, initialized, acked, crashes>>

\* append_record when the backend is full.
AppendOverCapacity(l, r) ==
    /\ CanAppend /\ backend /\ diskUsed + 1 > DiskCapacity
    /\ AfterFailure(l, r)
    /\ UNCHANGED <<disk, writing, writer>>

\* backend.append fails: nothing, the whole record or a part of it is written.
AppendFails(l, r) ==
    /\ CanAppend /\ backend /\ diskUsed + 1 <= DiskCapacity
    /\ \/ UNCHANGED <<log, torn>>
       \/ /\ log' = IF torn THEN log ELSE Append(log, r)
          /\ UNCHANGED torn
       \/ torn' = TRUE /\ UNCHANGED log
    /\ UNCHANGED synced
    /\ AfterFailure(l, r)
    /\ UNCHANGED <<writing, writer>>

\* backend.append succeeds; bytes behind a torn record are unreadable.
BackendAppend(l, r) ==
    /\ CanAppend /\ backend /\ diskUsed + 1 <= DiskCapacity
    /\ log' = IF torn THEN log ELSE Append(log, r)
    /\ writing' = r
    /\ writer' = l
    /\ UNCHANGED <<torn, synced, mode, cursor, core, acked, crashes>>

\* Mutant: Ok is returned before the record is durable.
AcknowledgeUnsynced ==
    /\ ~Free
    /\ diskUsed' = diskUsed + 1
    /\ FinishAppend(writing)
    /\ LastNumber(writing)
    /\ Acknowledge(writer, writing)
    /\ acked' = acked \cup {writing}
    /\ writing' = NoRecord
    /\ writer' = Nobody
    /\ UNCHANGED <<disk, backend, required, initialized, crashes>>

\* backend.sync succeeds: the record is acknowledged.
BackendSync ==
    /\ ~Free
    /\ synced' = Len(log)
    /\ diskUsed' = diskUsed + 1
    /\ FinishAppend(writing)
    /\ LastNumber(writing)
    /\ Acknowledge(writer, writing)
    /\ acked' = acked \cup {writing}
    /\ writing' = NoRecord
    /\ writer' = Nobody
    /\ UNCHANGED <<log, torn, backend, required, initialized, crashes>>

SyncFails ==
    /\ ~Free
    /\ AfterFailure(writer, writing)
    /\ writing' = NoRecord
    /\ writer' = Nobody
    /\ UNCHANGED disk

AppendRecord(l, m, e) ==
    LET r == NewRecord(m, e)
    IN  \/ AppendVolatile(l, r) \/ AppendOverCapacity(l, r)
        \/ AppendFails(l, r) \/ BackendAppend(l, r)

\* append: the record of a management action.
AppendAction ==
    \/ AppendRecord(Nobody, NoModule, 0)
    \/ AppendRefused(Nobody)

-----------------------------------------------------------------------------
(* Loading an image *)

\* authorize_mgr_call asks mutation_allowed; prepare_image_trust verifies the
\* epoch against the trust store (ElmTrustStore::verify).
PrepareImage(l) ==
    /\ ready /\ MutationAllowed /\ Free
    /\ load[l] = NoImage
    /\ \E m \in Module, e \in 1 .. MaxEpoch :
         /\ e >= store[m]
         /\ load' = [load EXCEPT ![l] = [mod |-> m, epoch |-> e]]
    /\ UNCHANGED <<disk, mode, cursor, writing, writer, ready, store, acked,
                   crashes>>

\* abort_image_trust: the load failed before its commit.
AbortImage(l) ==
    /\ load[l] # NoImage /\ writer # l
    /\ load' = [load EXCEPT ![l] = NoImage]
    /\ UNCHANGED <<disk, mode, cursor, writing, writer, ready, store, acked,
                   crashes>>

\* reserve_trust_epoch refuses an epoch that was overtaken while the image was
\* being loaded.
CommitRollback(l) ==
    /\ Free /\ load[l] # NoImage
    /\ load[l].epoch < trust[load[l].mod]
    /\ Refuse(l)
    /\ UNCHANGED <<disk, mode, cursor, writing, writer, acked, crashes>>

\* append_trust_acceptance_at.
CommitImage(l) ==
    /\ Free /\ load[l] # NoImage
    /\ load[l].epoch >= trust[load[l].mod]
    /\ \/ AppendRefused(l)
       \/ AppendRecord(l, load[l].mod, load[l].epoch)

-----------------------------------------------------------------------------
\* The machine stops.  The unsynced tail survives, is lost or is torn; all of
\* the kernel's memory is gone.
Crash ==
    /\ crashes < MaxCrash
    /\ crashes' = crashes + 1
    /\ \E n \in synced .. Len(log), t \in BOOLEAN :
         /\ log' = SubSeq(log, 1, n)
         /\ synced' = n
         /\ torn' = IF n = Len(log) THEN torn ELSE t
    /\ backend' = FALSE /\ required' = FALSE
    /\ initialized' = FALSE /\ failed' = FALSE /\ exhausted' = FALSE
    /\ next' = 1 /\ last' = 0 /\ diskUsed' = 0 /\ lastHash' = NoHash
    /\ records' = <<>> /\ trust' = NoTrust /\ replay' = NoTrust
    /\ writing' = NoRecord /\ writer' = Nobody
    /\ ready' = FALSE /\ store' = NoTrust
    /\ load' = [l \in Loader |-> NoImage]
    /\ UNCHANGED acked

Next ==
    \/ \E req \in BOOLEAN : RegisterBackend(req)
    \/ Initialize \/ InitializeVolatile \/ RestoreTrust
    \/ AppendAction \/ BackendSync \/ SyncFails
    \/ \E l \in Loader : \/ PrepareImage(l) \/ AbortImage(l)
                         \/ CommitRollback(l) \/ CommitImage(l)
    \/ Crash

Spec == Init /\ [][Next]_vars

-----------------------------------------------------------------------------
(* Properties *)

Chain == Seq(Nat \X Identity \X (0 .. MaxEpoch))
Record == [seq : 1 .. SeqMax, prev : Chain, mod : Identity, epoch : 0 .. MaxEpoch]
Trust == [Module -> 0 .. MaxEpoch]

\* Every variable holds a value of its type, and the ring its bound.
TypeOK ==
    /\ log \in Seq(Record) /\ torn \in BOOLEAN /\ synced \in 0 .. Len(log)
    /\ {backend, required, initialized, failed, exhausted, ready} \subseteq BOOLEAN
    /\ next \in 0 .. SeqMax /\ last \in 0 .. SeqMax /\ diskUsed \in 0 .. DiskCapacity
    /\ lastHash \in Chain
    /\ records \in Seq(Record) /\ Len(records) <= RingLimit
    /\ trust \in Trust /\ replay \in Trust /\ store \in Trust
    /\ writing \in Record \cup {NoRecord}
    /\ writer \in Loader \cup {Nobody}
    /\ load \in [Loader -> Image]
    /\ acked \subseteq Record
    /\ crashes \in 0 .. MaxCrash

\* Whatever failed and wherever the machine stopped, the complete records the
\* backend holds pass every check of the replay loop (initialize): no sequence
\* of failures and restarts makes the journal reject its own records.
LogReplays == Accepted(Len(log))

\* A record acknowledged with a live backend survives every later crash
\* (append_record syncs before it returns Ok).
AckedIsDurable == \A r \in acked : \E i \in 1 .. Len(log) : log[i] = r

\* While a required journal allows changes it knows every acknowledged epoch:
\* what a boot restores is never behind what an earlier boot acknowledged.
NoForgottenEpoch ==
    required /\ MutationAllowed =>
        \A r \in acked : r.mod \in Module => trust[r.mod] >= r.epoch

\* Write-ahead: with a required journal an epoch the trust store enforces is
\* recorded durably first (commit_image_trust_acceptance appends, then
\* accepts).
StoreIsRecorded ==
    required => \A m \in Module : store[m] # 0 =>
        \E i \in 1 .. synced : log[i].mod = m /\ log[i].epoch >= store[m]

\* check_health_journal: the retained records are consecutive, chained and end
\* at last_sequence, through replays, degradations and dropped records.
RingIsHealthy ==
    /\ \A i \in 1 .. (Len(records) - 1) :
         /\ records[i + 1].seq = records[i].seq + 1
         /\ records[i + 1].prev = Hash(records[i])
    /\ IF records = <<>> THEN last = 0 ELSE records[Len(records)].seq = last

SealedStep ==
    initialized /\ required /\ failed =>
        \/ ~initialized'
        \/ UNCHANGED <<disk, trust, records>> /\ (ready => UNCHANGED store)

\* A required journal that failed is sealed: until the next boot nothing it
\* protects changes any more ("any integrity or write failure closes the
\* later changes", journal.rs:5).
SealedUntilReboot == [][SealedStep]_vars
=============================================================================
