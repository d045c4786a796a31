--------------------------- MODULE RuntimeProofs ----------------------------
(***************************************************************************)
(* Three services that run beside the tasks and share no state: the        *)
(* journal of the module loader, the idle loop of a CPU and the network    *)
(* worker.  Each has its own invariant.                                    *)
(*                                                                         *)
(* The journal is crash-safe for every capacity, every range of sequence   *)
(* numbers and epochs, any set of loaders and modules and any number of    *)
(* crashes.  The invariant follows the backend.  While a record may still  *)
(* reach it (Appending) the cursor is exactly at the end of an intact log  *)
(* and the trust epochs cover every record behind it (CursorAtEnd), so the *)
(* next record continues the log the way the replay loop asks.  Every      *)
(* failure ends Appending until the next boot, and a boot starts it again  *)
(* only after it has read the log to its end.                              *)
(*                                                                         *)
(* A CPU that sleeps in hardware misses no work, for any number of remote  *)
(* producers and on both architectures.  NoSleepWithWork is not inductive: *)
(* that a request which comes after the last test rings the CPU rests on   *)
(* who may have set the notification bit, and on where a nested interrupt  *)
(* handler can run.                                                        *)
(*                                                                         *)
(* A network worker misses no work while it goes to sleep, for any number  *)
(* of producers, any ring capacity, budget and set of deadlines, and with  *)
(* every combination of its sources of work.  NeverSleepsOnWork and        *)
(* DeadlineIsArmed are about the sleep alone; the invariant says how each  *)
(* step towards it is covered: what the worker has looked at already can   *)
(* change only together with the work bit, the latch or a wake-up.         *)
(***************************************************************************)
EXTENDS IdleWake, NetWorker, ElmJournal, TLAPS

-----------------------------------------------------------------------------
(* The journal *)

\* An append can still reach the backend.
Appending == initialized /\ backend /\ next # 0 /\ ~(required /\ failed)

\* Trust epochs that durable records account for.
Recorded(t) ==
    \A m \in Module : t[m] # 0 =>
        \E i \in 1 .. synced : log[i].mod = m /\ log[i].epoch >= t[m]

CursorAtEnd ==
    /\ ~torn /\ synced <= diskUsed
    /\ Len(log) = IF Free THEN diskUsed ELSE diskUsed + 1
    /\ next = diskUsed + 1 /\ lastHash = HashAt(diskUsed)
    /\ \A i \in 1 .. diskUsed : log[i].mod \in Module => log[i].epoch <= trust[log[i].mod]

\* What the safety of the journal rests on, besides the types.
JournalInv ==
    /\ LogReplays
    /\ Len(log) <= DiskCapacity /\ (torn => Len(log) < DiskCapacity)
    /\ Appending => CursorAtEnd
    /\ ~Free => Appending /\ diskUsed + 1 <= DiskCapacity /\ writing = log[Len(log)]
    /\ ~initialized => /\ synced = Len(log) /\ Free /\ ~ready /\ ~failed
                       /\ store = NoTrust /\ replay = NoTrust
    /\ \A r \in acked : \E i \in 1 .. synced : log[i] = r
    /\ required => backend /\ Recorded(store) /\ Recorded(replay)
    /\ next = 0 => exhausted

-----------------------------------------------------------------------------
(* Types *)

\* Epochs are compared as numbers.
LEMMA EpochIsNat == \A e \in 0 .. MaxEpoch : e \in Nat
  BY JournalAssumption

\* A record's hash is a chain.
LEMMA HashType == \A r \in Record : Hash(r) \in Chain
<1> TAKE r \in Record
<1>1. r.prev \in Chain /\ <<r.seq, r.mod, r.epoch>> \in Nat \X Identity \X (0 .. MaxEpoch)
  BY JournalAssumption DEF Record
<1> QED
  BY <1>1 DEF Hash, Chain

\* merge_trust_epoch keeps the trust epochs epochs and never lowers one.
LEMMA MergeType ==
  ASSUME NEW t \in Trust, NEW r \in Record
  PROVE  /\ Merge(t, r) \in Trust
         /\ \A m \in Module : Merge(t, r)[m] >= t[m]
         /\ r.mod \in Module => Merge(t, r)[r.mod] >= r.epoch
         /\ \A m \in Module : Merge(t, r)[m] = t[m] \/ (r.mod = m /\ Merge(t, r)[m] = r.epoch)
  BY JournalAssumption DEF Merge, Trust, Record

\* push_record keeps the ring within its bound.
LEMMA PushType ==
  ASSUME NEW ring \in Seq(Record), Len(ring) <= RingLimit, NEW r \in Record
  PROVE  PushRecord(ring, r) \in Seq(Record) /\ Len(PushRecord(ring, r)) <= RingLimit
<1>1. CASE Len(ring) >= RingLimit
  <2>1. ring # <<>> /\ Tail(ring) \in Seq(Record) /\ Len(Tail(ring)) = Len(ring) - 1
    BY <1>1, JournalAssumption
  <2> QED
    BY <1>1, <2>1, JournalAssumption DEF PushRecord
<1>2. CASE ~(Len(ring) >= RingLimit)
  BY <1>2, JournalAssumption DEF PushRecord
<1> QED
  BY <1>1, <1>2, Zenon

\* The record of begin_append is a record.
LEMMA NewRecordType ==
  ASSUME TypeOK, next # 0, NEW m \in Identity, NEW e \in 0 .. MaxEpoch
  PROVE  NewRecord(m, e) \in Record /\ NewRecord(m, e) # NoRecord
<1>1. next \in 1 .. SeqMax /\ lastHash \in Chain
  BY JournalAssumption DEF TypeOK
<1>2. NewRecord(m, e) \in Record
  BY <1>1, Zenon DEF Record, NewRecord
<1> QED
  BY <1>1, <1>2, JournalAssumption, Zenon DEF NewRecord, NoRecord

\* A written record is a record.
LEMMA WritingType == TypeOK /\ ~Free => writing \in Record
  BY Zenon DEF TypeOK, Free

\* The images loaders work on: a module and an epoch.
LEMMA LoadType ==
  ASSUME TypeOK, NEW l \in Loader, load[l] # NoImage
  PROVE  load[l].mod \in Module /\ load[l].epoch \in 0 .. MaxEpoch /\ load[l].mod \in Identity
<1>1. load[l] \in [mod : Module, epoch : 1 .. MaxEpoch]
  BY Zenon DEF TypeOK, Image
<1> QED
  BY <1>1, JournalAssumption DEF Identity

CursorType ==
    /\ next \in 0 .. SeqMax /\ last \in 0 .. SeqMax /\ lastHash \in Chain
    /\ records \in Seq(Record) /\ Len(records) <= RingLimit
    /\ trust \in Trust /\ replay \in Trust

\* finish_append keeps the types.
LEMMA FinishType ==
  ASSUME TypeOK, NEW r \in Record, FinishAppend(r)
  PROVE  CursorType'
<1>1. r.seq \in 1 .. SeqMax
  BY Zenon DEF Record
<1>2. next' \in 0 .. SeqMax /\ last' \in 0 .. SeqMax
  BY <1>1, JournalAssumption DEF FinishAppend
<1>3. lastHash' \in Chain
  BY HashType, Zenon DEF FinishAppend
<1>4. records' \in Seq(Record) /\ Len(records') <= RingLimit
  BY PushType, Zenon DEF FinishAppend, TypeOK
<1>5. trust' \in Trust /\ replay' \in Trust
  BY MergeType, Zenon DEF FinishAppend, TypeOK
<1> QED
  BY <1>2, <1>3, <1>4, <1>5, Zenon DEF CursorType

\* A loader without an image has the type of one with.
LEMMA NoImageType == NoImage \in Image
  BY Zenon DEF Image

CallerType == ready \in BOOLEAN /\ store \in Trust /\ load \in [Loader -> Image]

\* What the answer does to its caller keeps the types.
LEMMA CallerTypes ==
  ASSUME TypeOK, NEW l \in Loader \cup {Nobody}, NEW r \in Record,
         Acknowledge(l, r) \/ Refuse(l)
  PROVE  CallerType'
<1>1. store \in Trust /\ load \in [Loader -> Image] /\ ready \in BOOLEAN
  BY Zenon DEF TypeOK
<1>2. Merge(store, r) \in Trust
  BY <1>1, MergeType, Zenon
<1>3. CASE Acknowledge(l, r)
  BY <1>1, <1>2, <1>3, NoImageType, Zenon DEF Acknowledge, AcceptReserved, CallerType
<1>4. CASE Refuse(l)
  BY <1>1, <1>4, NoImageType, Zenon DEF Refuse, CallerType
<1> QED
  BY <1>3, <1>4, Zenon

DiskType == log \in Seq(Record) /\ torn \in BOOLEAN /\ synced \in 0 .. Len(log)

ModeType ==
    /\ backend \in BOOLEAN /\ required \in BOOLEAN /\ initialized \in BOOLEAN
    /\ failed \in BOOLEAN /\ exhausted \in BOOLEAN

WriteType ==
    /\ diskUsed \in 0 .. DiskCapacity
    /\ writing \in Record \cup {NoRecord} /\ writer \in Loader \cup {Nobody}
    /\ acked \subseteq Record /\ crashes \in 0 .. MaxCrash

\* TypeOK in the groups that the actions change together.
LEMMA TypeGroups == TypeOK <=> DiskType /\ ModeType /\ WriteType /\ CursorType /\ CallerType
  BY Zenon DEF TypeOK, DiskType, ModeType, WriteType, CursorType, CallerType

\* The same after a step.
LEMMA TypeGroupsNext ==
  TypeOK' <=> DiskType' /\ ModeType' /\ WriteType' /\ CursorType' /\ CallerType'
  BY TypeGroups, PTL

\* The log after backend.append wrote, or did not write, a record.
LEMMA DiskAppend ==
  ASSUME DiskType, NEW r \in Record, log' = log \/ log' = Append(log, r),
         torn' \in BOOLEAN, synced' = synced
  PROVE  DiskType'
  BY DEF DiskType

\* A failure of the backend keeps the types.
LEMMA AfterFailureType ==
  ASSUME TypeOK, NEW l \in Loader \cup {Nobody}, NEW r \in Record, AfterFailure(l, r)
  PROVE  /\ ModeType' /\ CursorType' /\ CallerType'
         /\ diskUsed' = diskUsed /\ acked' = acked /\ crashes' = crashes
<1>1. ModeType /\ CursorType
  BY TypeGroups, Zenon
<1>2. ModeType'
  BY <1>1, Zenon DEF AfterFailure, HandleBackendFailure, ModeType
<1>3. CASE required
  <2>1. CursorType' /\ diskUsed' = diskUsed
    BY <1>1, <1>3, Zenon DEF AfterFailure, CursorType, cursor
  <2>2. CallerType'
    BY <1>3, CallerTypes, Zenon DEF AfterFailure
  <2> QED
    BY <1>2, <2>1, <2>2, Zenon DEF AfterFailure
<1>4. CASE ~required
  <2>1. FinishAppend(r) /\ Acknowledge(l, r) /\ diskUsed' = diskUsed
    BY <1>4, Zenon DEF AfterFailure
  <2> QED
    BY <1>2, <2>1, CallerTypes, FinishType, Zenon DEF AfterFailure
<1> QED
  BY <1>3, <1>4, Zenon

\* append_record keeps the types.
LEMMA AppendType ==
  ASSUME TypeOK, NEW l \in Loader \cup {Nobody}, NEW m \in Identity,
         NEW e \in 0 .. MaxEpoch, AppendRecord(l, m, e)
  PROVE  TypeOK'
<1> DEFINE r == NewRecord(m, e)
<1>1. DiskType /\ ModeType /\ WriteType /\ CursorType /\ CallerType
  BY TypeGroups, Zenon
<1>2. r \in Record
  BY NewRecordType, Zenon DEF AppendRecord, AppendVolatile, AppendOverCapacity,
                       AppendFails, BackendAppend, CanAppend
<1> HIDE DEF r
<1>3. CASE AppendVolatile(l, r)
  <2>1. DiskType' /\ WriteType'
    BY <1>1, <1>3, Zenon DEF AppendVolatile, DiskType, WriteType, disk
  <2>2. ModeType'
    BY <1>1, <1>3, Zenon DEF AppendVolatile, LastNumber, ModeType
  <2>3. CursorType' /\ CallerType'
    BY <1>2, <1>3, FinishType, CallerTypes, Zenon DEF AppendVolatile
  <2> QED
    BY <2>1, <2>2, <2>3, TypeGroupsNext, Zenon
<1>4. CASE AppendOverCapacity(l, r)
  <2>1. ModeType' /\ CursorType' /\ CallerType' /\ diskUsed' = diskUsed /\ acked' = acked /\ crashes' = crashes
    BY <1>2, <1>4, AfterFailureType, Zenon DEF AppendOverCapacity
  <2>2. DiskType' /\ WriteType'
    BY <1>1, <1>4, <2>1, Zenon DEF AppendOverCapacity, DiskType, WriteType, disk
  <2> QED
    BY <2>1, <2>2, TypeGroupsNext, Zenon
<1>5. CASE AppendFails(l, r)
  <2>1. ModeType' /\ CursorType' /\ CallerType' /\ diskUsed' = diskUsed /\ acked' = acked /\ crashes' = crashes
    BY <1>2, <1>5, AfterFailureType, Zenon DEF AppendFails
  <2>2. WriteType'
    BY <1>1, <1>5, <2>1, Zenon DEF AppendFails, WriteType
  <2>3. /\ log' = log \/ log' = Append(log, r)
        /\ torn' \in BOOLEAN /\ synced' = synced
    BY <1>1, <1>5, Zenon DEF AppendFails, DiskType
  <2>4. DiskType'
    BY <1>1, <1>2, <2>3, DiskAppend, Zenon
  <2> QED
    BY <2>1, <2>2, <2>4, TypeGroupsNext, Zenon
<1>6. CASE BackendAppend(l, r)
  <2>1. ModeType' /\ CursorType' /\ CallerType'
    BY <1>1, <1>6, Zenon DEF BackendAppend, ModeType, CursorType, CallerType, mode, cursor, core
  <2>2. WriteType'
    BY <1>1, <1>2, <1>6, Zenon DEF BackendAppend, WriteType, cursor
  <2>3. /\ log' = log \/ log' = Append(log, r)
        /\ torn' \in BOOLEAN /\ synced' = synced
    BY <1>1, <1>6, Zenon DEF BackendAppend, DiskType
  <2>4. DiskType'
    BY <1>1, <1>2, <2>3, DiskAppend, Zenon
  <2> QED
    BY <2>1, <2>2, <2>4, TypeGroupsNext, Zenon
<1> QED
  BY <1>3, <1>4, <1>5, <1>6, Zenon DEF AppendRecord, r

\* A step of the journal or its callers keeps the types.
LEMMA TypeStep == TypeOK /\ JournalInv /\ [Next]_vars => TypeOK'
<1> SUFFICES ASSUME TypeOK, JournalInv, [Next]_vars PROVE TypeOK'
  BY Zenon
<1>0. DiskType /\ ModeType /\ WriteType /\ CursorType /\ CallerType
  BY TypeGroups, Zenon
<1>1. CASE UNCHANGED vars
  BY <1>0, <1>1, TypeGroupsNext, Zenon
     DEF vars, disk, mode, cursor, core, DiskType, ModeType, WriteType, CursorType, CallerType
<1>2. ASSUME NEW req \in BOOLEAN, RegisterBackend(req) PROVE TypeOK'
  <2>1. DiskType' /\ WriteType' /\ CursorType' /\ CallerType'
    BY <1>0, <1>2, Zenon DEF RegisterBackend, disk, cursor, core, DiskType, WriteType, CursorType, CallerType
  <2>2. ModeType'
    BY <1>0, <1>2, Zenon DEF RegisterBackend, ModeType
  <2> QED
    BY <2>1, <2>2, TypeGroupsNext, Zenon
<1>3. CASE Initialize
  <2> PICK n \in 0 .. Len(log) :
         /\ Accepted(n)
         /\ ReplayCursor(n)
         /\ \/ ReplayExhausts(n) /\ HandleBackendFailure /\ exhausted' = TRUE
            \/ ReplayEnds(n) /\ UNCHANGED <<backend, failed, exhausted>>
            \/ /\ \E error \in BOOLEAN : ReplayBreaks(n, error)
               /\ HandleBackendFailure
               /\ UNCHANGED exhausted
    BY <1>3, Zenon DEF Initialize
  <2>1. ModeType' /\ DiskType' /\ CallerType'
    BY <1>0, <1>3, Zenon DEF Initialize, HandleBackendFailure, ModeType, disk, DiskType, core, CallerType
  <2>2. n \in Nat /\ Len(log) <= DiskCapacity /\ n <= Len(log) /\ Len(log) \in Nat
    BY <1>0 DEF JournalInv, DiskType
  <2>3. n <= SeqMax
    <3>1. CASE n = 0
      BY <3>1, JournalAssumption
    <3>2. CASE n # 0
      <4>1. n \in 1 .. Len(log) /\ log[n].seq = n
        BY <2>2, <3>2 DEF Accepted, ReplaysAt
      <4>2. log[n] \in Record
        BY <1>0, <4>1 DEF DiskType
      <4> QED
        BY <4>1, <4>2, JournalAssumption DEF Record
    <3> QED
      BY <3>1, <3>2, Zenon
  <2>4. next' \in 0 .. SeqMax /\ last' \in 0 .. SeqMax /\ diskUsed' \in 0 .. DiskCapacity
    BY <2>2, <2>3, JournalAssumption DEF ReplayCursor
  <2>5. lastHash' \in Chain
    <3>1. n # 0 => log[n] \in Record
      BY <1>0, <2>2 DEF DiskType
    <3>2. NoHash \in Chain
      BY DEF NoHash, Chain
    <3> QED
      BY <3>1, <3>2, HashType, Zenon DEF ReplayCursor, HashAt
  <2>6. records' \in Seq(Record) /\ Len(records') <= RingLimit
    <3> DEFINE a == IF n > RingLimit THEN n - RingLimit + 1 ELSE 1
    <3>1. a \in 1 .. (n + 1) /\ n - a + 1 <= RingLimit /\ RingLimit \in Nat
      BY <2>2, JournalAssumption
    <3>2. records' = SubSeq(log, a, n)
      BY Zenon DEF ReplayCursor
    <3> HIDE DEF a
    <3>3. \A i \in a .. n : log[i] \in Record
      BY <1>0, <2>2, <3>1 DEF DiskType
    <3> QED
      BY <1>0, <2>2, <3>1, <3>2, <3>3 DEF DiskType
  <2>7. WriteType' /\ CursorType'
    BY <1>0, <1>3, <2>4, <2>5, <2>6, Zenon DEF Initialize, ReplayCursor, WriteType, CursorType, Trust
  <2> QED
    BY <2>1, <2>7, TypeGroupsNext, Zenon
<1>4. CASE InitializeVolatile
  <2>1. DiskType' /\ WriteType' /\ CursorType' /\ CallerType'
    BY <1>0, <1>4, Zenon DEF InitializeVolatile, disk, cursor, core, DiskType, WriteType, CursorType, CallerType
  <2>2. ModeType'
    BY <1>0, <1>4, Zenon DEF InitializeVolatile, ModeType
  <2> QED
    BY <2>1, <2>2, TypeGroupsNext, Zenon
<1>5. CASE RestoreTrust
  <2>1. NoTrust \in Trust
    BY JournalAssumption DEF NoTrust, Trust
  <2>2. CursorType' /\ CallerType'
    BY <1>0, <1>5, <2>1, Zenon DEF RestoreTrust, CursorType, CallerType
  <2>3. DiskType' /\ WriteType' /\ ModeType'
    BY <1>0, <1>5, Zenon DEF RestoreTrust, disk, mode, DiskType, WriteType, ModeType
  <2> QED
    BY <2>2, <2>3, TypeGroupsNext, Zenon
<1>6. ASSUME NEW l \in Loader \cup {Nobody}, AppendRefused(l) PROVE TypeOK'
  <2>1. ModeType'
    BY <1>0, <1>6, Zenon DEF AppendRefused, ModeType
  <2>2. CallerType'
    BY <1>0, <1>6, NoImageType, Zenon DEF AppendRefused, Refuse, CallerType
  <2>3. DiskType' /\ WriteType' /\ CursorType'
    BY <1>0, <1>6, Zenon DEF AppendRefused, disk, cursor, DiskType, WriteType, CursorType
  <2> QED
    BY <2>1, <2>2, <2>3, TypeGroupsNext, Zenon
<1>7. CASE AppendAction
  <2>1. 0 \in 0 .. MaxEpoch /\ NoModule \in Identity /\ Nobody \in Loader \cup {Nobody}
    BY JournalAssumption DEF Identity
  <2> QED
    BY <1>6, <1>7, <2>1, AppendType, Zenon DEF AppendAction
<1>8. CASE BackendSync
  <2>1. writing \in Record /\ diskUsed + 1 <= DiskCapacity
    BY <1>8, WritingType, Zenon DEF BackendSync, JournalInv
  <2>2. CursorType'
    BY <1>8, <2>1, FinishType, Zenon DEF BackendSync
  <2>3. CallerType'
    BY <1>0, <1>8, <2>1, CallerTypes, Zenon DEF BackendSync, WriteType
  <2>4. ModeType'
    BY <1>0, <1>8, Zenon DEF BackendSync, LastNumber, ModeType
  <2>5. DiskType' /\ WriteType'
    BY <1>0, <1>8, <2>1, JournalAssumption DEF BackendSync, DiskType, WriteType
  <2> QED
    BY <2>2, <2>3, <2>4, <2>5, TypeGroupsNext, Zenon
<1>9. CASE SyncFails
  <2>1. writing \in Record /\ writer \in Loader \cup {Nobody}
    BY <1>0, <1>9, WritingType, Zenon DEF SyncFails, WriteType
  <2>2. ModeType' /\ CursorType' /\ CallerType' /\ diskUsed' = diskUsed /\ acked' = acked /\ crashes' = crashes
    BY <1>9, <2>1, AfterFailureType, Zenon DEF SyncFails
  <2>3. DiskType' /\ WriteType'
    BY <1>0, <1>9, <2>2, Zenon DEF SyncFails, disk, DiskType, WriteType
  <2> QED
    BY <2>2, <2>3, TypeGroupsNext, Zenon
<1>10. ASSUME NEW l \in Loader, PrepareImage(l) \/ AbortImage(l) \/ CommitRollback(l) PROVE TypeOK'
  <2>1. load' \in [Loader -> Image] /\ ready' = ready /\ store' = store
    BY <1>0, <1>10, NoImageType DEF PrepareImage, AbortImage, CommitRollback, Refuse, CallerType, Image
  <2>2. DiskType' /\ WriteType' /\ ModeType' /\ CursorType'
    BY <1>0, <1>10, Zenon DEF PrepareImage, AbortImage, CommitRollback, disk, mode, cursor,
                              DiskType, WriteType, ModeType, CursorType
  <2> QED
    BY <1>0, <2>1, <2>2, TypeGroupsNext, Zenon DEF CallerType
<1>11. ASSUME NEW l \in Loader, CommitImage(l) PROVE TypeOK'
  <2>1. load[l].mod \in Identity /\ load[l].epoch \in 0 .. MaxEpoch /\ l \in Loader \cup {Nobody}
    BY <1>11, LoadType, Zenon DEF CommitImage
  <2> QED
    BY <1>6, <1>11, <2>1, AppendType, Zenon DEF CommitImage
<1>12. CASE Crash
  <2>1. NoTrust \in Trust /\ NoHash \in Chain /\ <<>> \in Seq(Record)
    BY JournalAssumption DEF NoTrust, Trust, NoHash, Chain
  <2>2. CursorType'
    BY <1>12, <2>1, JournalAssumption DEF Crash, CursorType
  <2>3. CallerType' /\ ModeType'
    BY <1>12, <2>1, NoImageType, Zenon DEF Crash, CallerType, ModeType
  <2>4. WriteType'
    BY <1>0, <1>12, JournalAssumption DEF Crash, WriteType
  <2>5. DiskType'
    BY <1>0, <1>12 DEF Crash, DiskType
  <2> QED
    BY <2>2, <2>3, <2>4, <2>5, TypeGroupsNext, Zenon
<1> QED
  BY <1>1, <1>2, <1>3, <1>4, <1>5, <1>7, <1>8, <1>9, <1>10, <1>11, <1>12, Zenon DEF Next

-----------------------------------------------------------------------------
(* The log and the cursor *)

\* Records that stay where they are still pass the checks of the replay loop.
LEMMA LogKept ==
  ASSUME NEW n \in Nat, \A i \in 1 .. n : log'[i] = log[i]
  PROVE  /\ Accepted(n) => Accepted(n)'
         /\ HashAt(n)' = HashAt(n)
<1>1. \A k \in 0 .. n : HashAt(k)' = HashAt(k)
  BY DEF HashAt
<1>2. \A i \in 1 .. n : ReplaysAt(i) => ReplaysAt(i)'
  <2> TAKE i \in 1 .. n
  <2>1. i - 1 \in 0 .. n /\ i \in 1 .. n /\ \A j \in 1 .. (i - 1) : j \in 1 .. n
    OBVIOUS
  <2>2. HashAt(i - 1)' = HashAt(i - 1)
    BY <1>1, <2>1, Zenon
  <2> QED
    BY <2>1, <2>2, Zenon DEF ReplaysAt
<1> QED
  BY <1>1, <1>2 DEF Accepted

\* The record that begin_append builds at the end of an intact log continues
\* the sequence, the hash chain and the epochs.
LEMMA LogExtended ==
  ASSUME TypeOK, LogReplays, CursorAtEnd, Free, NEW m \in Identity, NEW e \in 0 .. MaxEpoch,
         m \in Module => e >= trust[m],
         log' = Append(log, NewRecord(m, e))
  PROVE  LogReplays' /\ Len(log') = diskUsed + 1 /\ log'[diskUsed + 1] = NewRecord(m, e)
         /\ \A i \in 1 .. diskUsed : log'[i] = log[i]
<1> PICK u \in Nat : u = diskUsed
  BY JournalAssumption DEF TypeOK
<1>1. /\ u = diskUsed /\ Len(log) = u /\ log \in Seq(Record)
      /\ next = u + 1 /\ lastHash = HashAt(u)
      /\ \A i \in 1 .. u : log[i].mod \in Module => log[i].epoch <= trust[log[i].mod]
  BY JournalAssumption, Zenon DEF CursorAtEnd, TypeOK
<1>2. NewRecord(m, e) \in Record
  BY <1>1, NewRecordType
<1>3. Len(log') = u + 1 /\ log'[u + 1] = NewRecord(m, e) /\ \A i \in 1 .. u : log'[i] = log[i]
  BY <1>1, <1>2
<1>4. Accepted(u)' /\ HashAt(u)' = HashAt(u)
  BY <1>1, <1>3, LogKept, Zenon DEF LogReplays
<1>5. (ReplaysAt(u + 1))'
  <2>1. log'[u + 1].seq = u + 1 /\ log'[u + 1].prev = HashAt(u)' /\ u + 1 - 1 = u
    BY <1>1, <1>3, <1>4 DEF NewRecord
  <2>2. log'[u + 1].mod = m /\ log'[u + 1].epoch = e
    BY <1>3 DEF NewRecord
  <2>3. m \in Module => \A j \in 1 .. u : log'[j].mod = m => log'[j].epoch <= e
    <3> SUFFICES ASSUME m \in Module, NEW j \in 1 .. u, log'[j].mod = m
                 PROVE  log'[j].epoch <= e
      BY Zenon
    <3>1. log[j].epoch <= trust[m] /\ e >= trust[m]
      BY <1>1, <1>3, Zenon
    <3>2. log[j] \in Record
      BY <1>1
    <3>3. trust[m] \in Nat /\ e \in Nat
      BY EpochIsNat, Zenon DEF TypeOK, Trust
    <3>4. log[j].epoch \in Nat /\ log'[j] = log[j]
      BY <1>3, <3>2, EpochIsNat, Zenon DEF Record
    <3> QED
      BY <3>1, <3>3, <3>4
  <2> QED
    BY <1>1, <2>1, <2>2, <2>3 DEF ReplaysAt
<1>6. \A i \in 1 .. (u + 1) : i \in 1 .. u \/ i = u + 1
  OBVIOUS
<1> QED
  BY <1>3, <1>4, <1>5, <1>6, Zenon DEF LogReplays, Accepted

\* Durable records account for what they did as long as they stay.
LEMMA RecordedKept ==
  ASSUME synced' = synced, \A i \in 1 .. synced : log'[i] = log[i]
  PROVE  /\ (\A r \in acked : \E i \in 1 .. synced : log[i] = r) /\ acked' = acked
               => (\A r \in acked : \E i \in 1 .. synced : log[i] = r)'
         /\ Recorded(store) /\ store' = store => Recorded(store)'
         /\ Recorded(replay) /\ replay' = replay => Recorded(replay)'
  BY DEF Recorded

\* A step that touches neither the log nor the journal keeps the invariant.
LEMMA QuietStep ==
  ASSUME JournalInv, UNCHANGED <<log, torn, synced, backend, required, initialized, failed, exhausted,
                                 next, diskUsed, lastHash, trust, replay, writing, ready, store, acked>>
  PROVE  JournalInv'
  BY Zenon DEF JournalInv, LogReplays, Accepted, ReplaysAt, HashAt, Appending, CursorAtEnd, Free, Recorded

\* A backend failure, and an append that the backend does not see, end in a
\* state in which nothing can reach the backend.
LEMMA DetachStep ==
  ASSUME TypeOK, JournalInv, initialized', UNCHANGED <<synced, required, acked>>,
         LogReplays', Len(log') <= DiskCapacity, torn' => Len(log') < DiskCapacity,
         \A i \in 1 .. synced : log'[i] = log[i],
         ~Appending', Free', required => backend' /\ UNCHANGED <<store, replay>>,
         next' = 0 => exhausted'
  PROVE  JournalInv'
<1>1. (\A r \in acked : \E i \in 1 .. synced : log[i] = r)'
  BY RecordedKept, Zenon DEF JournalInv
<1>2. required' => Recorded(store)' /\ Recorded(replay)' /\ backend'
  BY RecordedKept, Zenon DEF JournalInv
<1> QED
  BY <1>1, <1>2, Zenon DEF JournalInv

\* finish_append closes the journal with its last number.
LEMMA FinishNumber ==
  ASSUME NEW r \in Record, FinishAppend(r)
  PROVE  (next' = 0 <=> r.seq = SeqMax) /\ (next' # 0 => next' = r.seq + 1)
  BY JournalAssumption DEF FinishAppend, Record

\* What AfterFailure leaves behind.
LEMMA AfterFailureMode ==
  ASSUME TypeOK, JournalInv, initialized, NEW l, NEW r \in Record, AfterFailure(l, r)
  PROVE  /\ initialized' /\ UNCHANGED <<required, acked>> /\ ~Appending'
         /\ required => backend' /\ UNCHANGED <<store, replay>>
         /\ next' = 0 => exhausted'
<1>1. CASE required
  <2>1. backend' /\ failed' /\ UNCHANGED <<exhausted, next, replay, store, required, acked, initialized>>
    BY <1>1, Zenon DEF AfterFailure, HandleBackendFailure, JournalInv, cursor, Refuse
  <2> QED
    BY <1>1, <2>1, Zenon DEF Appending, JournalInv
<1>2. CASE ~required
  <2>1. ~backend' /\ UNCHANGED <<required, acked, initialized>>
    BY <1>2, Zenon DEF AfterFailure, HandleBackendFailure
  <2>2. FinishAppend(r) /\ exhausted' = (exhausted \/ r.seq = SeqMax)
    BY <1>2, Zenon DEF AfterFailure
  <2>3. next' = 0 => exhausted'
    BY <2>2, FinishNumber, Zenon
  <2> QED
    BY <1>2, <2>1, <2>3, Zenon DEF Appending
<1> QED
  BY <1>1, <1>2, Zenon

\* append_record keeps the invariant, when the epoch is no rollback.
LEMMA AppendStep ==
  ASSUME TypeOK, JournalInv, NEW l \in Loader \cup {Nobody}, NEW m \in Identity,
         NEW e \in 0 .. MaxEpoch, m \in Module => e >= trust[m], AppendRecord(l, m, e)
  PROVE  JournalInv'
<1> DEFINE r == NewRecord(m, e)
<1>1. CanAppend /\ initialized /\ next # 0 /\ Free
  BY Zenon DEF AppendRecord, AppendVolatile, AppendOverCapacity, AppendFails, BackendAppend, CanAppend
<1>2. r \in Record /\ r # NoRecord
  BY <1>1, NewRecordType, Zenon
<1>3. backend => CursorAtEnd /\ Len(log) = diskUsed /\ ~torn /\ synced <= diskUsed
  BY <1>1, Zenon DEF CanAppend, Appending, JournalInv, CursorAtEnd
<1>4. /\ diskUsed \in Nat /\ synced \in Nat /\ DiskCapacity \in Nat /\ Len(log) \in Nat
      /\ log \in Seq(Record) /\ synced <= Len(log)
  BY JournalAssumption DEF TypeOK
<1>5. \A i \in 1 .. synced : log' = log => log'[i] = log[i]
  BY Zenon
<1>6. log' = Append(log, r) /\ backend =>
        LogReplays' /\ Len(log') = diskUsed + 1 /\ log'[diskUsed + 1] = r /\ \A i \in 1 .. diskUsed : log'[i] = log[i]
  BY <1>1, <1>3, LogExtended, Zenon DEF JournalInv
<1>7. log' = log => LogReplays'
  BY Zenon DEF JournalInv, LogReplays, Accepted, ReplaysAt, HashAt
<1> HIDE DEF r
<1>8. CASE AppendVolatile(l, r)
  <2>1. ~backend /\ ~required
    BY <1>8, Zenon DEF AppendVolatile, JournalInv
  <2>2. /\ UNCHANGED <<log, torn, synced, backend, required, initialized, writing, acked>>
        /\ FinishAppend(r) /\ exhausted' = (exhausted \/ r.seq = SeqMax)
    BY <1>8, Zenon DEF AppendVolatile, disk, LastNumber
  <2>3. next' = 0 => exhausted'
    BY <1>2, <2>2, FinishNumber, Zenon
  <2>4. ~Appending' /\ Free' /\ initialized'
    BY <1>1, <2>1, <2>2, Zenon DEF Appending, Free
  <2> QED
    BY <1>5, <1>7, <2>1, <2>2, <2>3, <2>4, DetachStep, Zenon DEF JournalInv
<1>9. CASE AppendOverCapacity(l, r)
  <2>1. UNCHANGED <<log, torn, synced, writing>> /\ AfterFailure(l, r)
    BY <1>9, Zenon DEF AppendOverCapacity, disk
  <2>2. Free'
    BY <1>1, <2>1, Zenon DEF Free
  <2> QED
    BY <1>1, <1>2, <1>5, <1>7, <2>1, <2>2, AfterFailureMode, DetachStep, Zenon DEF JournalInv
<1>10. CASE AppendFails(l, r)
  <2>1. /\ synced' = synced /\ writing' = writing /\ AfterFailure(l, r) /\ backend /\ diskUsed + 1 <= DiskCapacity
        /\ \/ log' = log /\ torn' = torn
           \/ log' = Append(log, r) /\ torn' = torn
           \/ log' = log /\ torn' = TRUE
    BY <1>3, <1>10, Zenon DEF AppendFails
  <2>2. LogReplays' /\ \A i \in 1 .. synced : log'[i] = log[i]
    BY <1>3, <1>4, <1>6, <1>7, <2>1
  <2>3. Len(log') <= DiskCapacity /\ (torn' => Len(log') < DiskCapacity)
    BY <1>3, <1>4, <1>6, <2>1
  <2>4. Free'
    BY <1>1, <2>1, Zenon DEF Free
  <2> QED
    BY <1>1, <1>2, <2>1, <2>2, <2>3, <2>4, AfterFailureMode, DetachStep, Zenon
<1>11. CASE BackendAppend(l, r)
  <2>1. /\ log' = Append(log, r) /\ backend /\ diskUsed + 1 <= DiskCapacity /\ writing' = r
        /\ UNCHANGED <<torn, synced, backend, required, initialized, failed, exhausted, next, diskUsed,
                       lastHash, trust, replay, ready, store, acked>>
    BY <1>3, <1>11, Zenon DEF BackendAppend, mode, cursor, core
  <2>2. LogReplays' /\ Len(log') = diskUsed + 1 /\ log'[diskUsed + 1] = r /\ \A i \in 1 .. diskUsed : log'[i] = log[i]
    BY <1>6, <2>1, Zenon
  <2>3. Appending' /\ ~Free'
    BY <1>1, <1>2, <2>1, Zenon DEF Appending, CanAppend, Free
  <2>4. CursorAtEnd'
    <3> PICK u \in Nat : u = diskUsed
      BY <1>4, Zenon
    <3>1. HashAt(u)' = HashAt(u) /\ diskUsed' = u
      BY <2>1, <2>2, LogKept, Zenon
    <3> QED
      BY <1>3, <2>1, <2>2, <2>3, <3>1, Zenon DEF CursorAtEnd
  <2>5. \A i \in 1 .. synced : log'[i] = log[i]
    BY <1>3, <1>4, <2>1, <2>2, SMTT(30)
  <2>6. (\A q \in acked : \E i \in 1 .. synced : log[i] = q)'
    BY <2>1, <2>5, RecordedKept, Zenon DEF JournalInv
  <2>7. required' => Recorded(store)' /\ Recorded(replay)' /\ backend'
    BY <2>1, <2>5, RecordedKept, Zenon DEF JournalInv
  <2>8. Len(log') <= DiskCapacity /\ ~torn' /\ diskUsed' + 1 <= DiskCapacity /\ writing' = log'[Len(log')]
        /\ next' # 0 /\ initialized'
    BY <1>1, <1>3, <2>1, <2>2, Zenon
  <2> QED
    BY <2>2, <2>3, <2>4, <2>6, <2>7, <2>8, Zenon DEF JournalInv
<1> QED
  BY <1>8, <1>9, <1>10, <1>11, Zenon DEF AppendRecord, r

\* A boot that reads the log to its end puts the cursor there.
LEMMA InitializeStep == TypeOK /\ JournalInv /\ Initialize => JournalInv'
<1> SUFFICES ASSUME TypeOK, JournalInv, Initialize PROVE JournalInv'
  BY Zenon
<1> PICK n \in 0 .. Len(log) :
       /\ Accepted(n)
       /\ ReplayCursor(n)
       /\ \/ ReplayExhausts(n) /\ HandleBackendFailure /\ exhausted' = TRUE
          \/ ReplayEnds(n) /\ UNCHANGED <<backend, failed, exhausted>>
          \/ /\ \E error \in BOOLEAN : ReplayBreaks(n, error)
             /\ HandleBackendFailure
             /\ UNCHANGED exhausted
  BY Zenon DEF Initialize
<1>1. /\ ~initialized /\ backend /\ initialized' /\ synced = Len(log) /\ Free /\ ~failed
      /\ UNCHANGED <<log, torn, synced, required, writing, ready, store, acked>>
      /\ store = NoTrust
  BY Zenon DEF Initialize, JournalInv, disk, core
<1>2. n \in Nat /\ n <= Len(log) /\ Len(log) \in Nat /\ log \in Seq(Record)
  BY DEF TypeOK
<1>3. LogReplays' /\ Free' /\ (\A r \in acked : \E i \in 1 .. synced : log[i] = r)'
  BY <1>1, Zenon DEF JournalInv, LogReplays, Accepted, ReplaysAt, HashAt, Free
<1>4. required' => backend' /\ Recorded(store)' /\ Recorded(replay)'
  <2>1. required => backend'
    BY <1>1, Zenon DEF HandleBackendFailure
  <2>2. Recorded(store)'
    BY <1>1, Zenon DEF Recorded, NoTrust
  <2>3. Recorded(replay)'
    <3> SUFFICES ASSUME NEW m \in Module, replay'[m] # 0
                 PROVE  \E i \in 1 .. synced' : log'[i].mod = m /\ log'[i].epoch >= replay'[m]
      BY Zenon DEF Recorded
    <3>1. Replayed(n, m, replay'[m]) /\ replay'[m] \in Nat
      BY EpochIsNat, Zenon DEF ReplayCursor
    <3>2. PICK i \in 1 .. n : log[i].mod = m /\ log[i].epoch = replay'[m]
      BY <3>1, Zenon DEF Replayed
    <3> QED
      BY <1>1, <1>2, <3>1, <3>2
  <2> QED
    BY <1>1, <2>1, <2>2, <2>3, Zenon
<1>5. next' = 0 => exhausted'
  BY <1>2, JournalAssumption DEF ReplayCursor, ReplayEnds, ReplayBreaks
<1>6. Appending' => CursorAtEnd'
  <2> SUFFICES ASSUME Appending' PROVE CursorAtEnd'
    BY Zenon
  <2>1. ReplayEnds(n) /\ n < SeqMax
    <3>1. ~HandleBackendFailure
      BY <1>1, Zenon DEF HandleBackendFailure, Appending
    <3> QED
      BY <3>1, Zenon DEF ReplayEnds
  <2>2. n = Len(log) /\ ~torn
    BY <1>2, <2>1, JournalAssumption DEF ReplayEnds, JournalInv
  <2>3. diskUsed' = n /\ next' = n + 1 /\ lastHash' = HashAt(n)
    <3>1. n # SeqMax
      BY <1>2, <2>1, JournalAssumption
    <3> QED BY <3>1, Zenon DEF ReplayCursor
  <2>4. lastHash' = HashAt(diskUsed)'
    BY <1>1, <2>3, Zenon DEF HashAt
  <2>5. \A i \in 1 .. n : log[i].mod \in Module => log[i].epoch <= trust'[log[i].mod]
    BY Zenon DEF ReplayCursor, Replayed
  <2> QED
    BY <1>1, <1>2, <1>3, <2>2, <2>3, <2>4, <2>5, Zenon DEF CursorAtEnd
<1> QED
  BY <1>1, <1>3, <1>4, <1>5, <1>6, Zenon DEF JournalInv

\* backend.sync makes the written record durable before it is acknowledged.
LEMMA SyncStep == TypeOK /\ JournalInv /\ BackendSync => JournalInv'
<1> SUFFICES ASSUME TypeOK, JournalInv, BackendSync PROVE JournalInv'
  BY Zenon
<1> PICK u \in Nat : u = diskUsed
  BY JournalAssumption DEF TypeOK
<1>1. /\ ~Free /\ Appending /\ CursorAtEnd /\ writing = log[u + 1] /\ Len(log) = u + 1 /\ u + 1 <= DiskCapacity
      /\ next = u + 1 /\ ~torn /\ initialized /\ backend
  BY Zenon DEF BackendSync, JournalInv, CursorAtEnd, Appending
<1>2. /\ synced' = u + 1 /\ diskUsed' = u + 1 /\ FinishAppend(writing) /\ LastNumber(writing) /\ Free'
      /\ acked' = acked \cup {writing}
      /\ UNCHANGED <<log, torn, backend, required, initialized>>
  BY <1>1, Zenon DEF BackendSync, Free
<1>3. writing \in Record
  BY <1>1, WritingType, Zenon
<1>4. LogReplays' /\ Len(log') <= DiskCapacity /\ ~torn'
  BY <1>1, <1>2, Zenon DEF JournalInv, LogReplays, Accepted, ReplaysAt, HashAt
<1>5. writing.seq = u + 1 /\ trust \in Trust /\ store \in Trust /\ synced \in 0 .. (u + 1)
  BY <1>1 DEF JournalInv, LogReplays, Accepted, ReplaysAt, TypeOK
<1>6. Appending' => CursorAtEnd'
  <2> SUFFICES ASSUME Appending' PROVE CursorAtEnd'
    BY Zenon
  <2>1. next' = u + 2
    BY <1>2, <1>3, <1>5, FinishNumber DEF Appending
  <2>2. HashAt(diskUsed)' = Hash(writing) /\ lastHash' = Hash(writing)
    BY <1>1, <1>2 DEF HashAt, FinishAppend
  <2>3. \A i \in 1 .. (u + 1) : log[i].mod \in Module => log[i].epoch <= trust'[log[i].mod]
    <3> SUFFICES ASSUME NEW i \in 1 .. (u + 1), log[i].mod \in Module
                 PROVE  log[i].epoch <= trust'[log[i].mod]
      BY Zenon
    <3>1. /\ trust' = Merge(trust, writing) /\ trust' \in Trust
          /\ \A m \in Module : trust'[m] >= trust[m]
          /\ writing.mod \in Module => trust'[writing.mod] >= writing.epoch
      BY <1>2, <1>3, <1>5, MergeType, Zenon DEF FinishAppend
    <3>2. log[i] \in Record
      BY <1>1 DEF TypeOK
    <3>3. /\ log[i].epoch \in Nat /\ trust[log[i].mod] \in Nat /\ trust'[log[i].mod] \in Nat
          /\ trust'[log[i].mod] >= trust[log[i].mod]
      BY <1>5, <3>1, <3>2, JournalAssumption DEF Record, Trust
    <3>4. CASE i = u + 1
      BY <1>1, <3>1, <3>3, <3>4, Zenon
    <3>5. CASE i # u + 1
      <4>1. i \in 1 .. u
        BY <3>5
      <4>2. log[i].epoch <= trust[log[i].mod]
        BY <1>1, <4>1, Zenon DEF CursorAtEnd
      <4> QED
        BY <3>3, <4>2
    <3> QED
      BY <3>4, <3>5, Zenon
  <2> QED
    BY <1>1, <1>2, <2>1, <2>2, <2>3 DEF CursorAtEnd
<1>7. (\A r \in acked : \E i \in 1 .. synced : log[i] = r)'
  <2>1. \A r \in acked : \E i \in 1 .. (u + 1) : log[i] = r
    BY <1>5 DEF JournalInv
  <2>2. u + 1 \in 1 .. (u + 1) /\ log[u + 1] = writing
    BY <1>1
  <2> QED
    BY <1>2, <2>1, <2>2, Zenon
<1>8. required' => backend' /\ Recorded(store)' /\ Recorded(replay)'
  <2> SUFFICES ASSUME required PROVE Recorded(store)' /\ Recorded(replay)'
    BY <1>1, <1>2, Zenon
  <2>1. Recorded(replay)'
    BY <1>2, <1>5 DEF JournalInv, Recorded, FinishAppend
  <2>2. \A m \in Module : store'[m] = store[m] \/ (writing.mod = m /\ store'[m] = writing.epoch)
    <3>1. store' = store \/ store' = Merge(store, writing)
      BY Zenon DEF BackendSync, Acknowledge, AcceptReserved
    <3> QED
      BY <1>3, <1>5, <3>1, MergeType
  <2>3. writing.epoch \in Nat
    BY <1>3, JournalAssumption DEF Record
  <2>4. ASSUME NEW m \in Module, store'[m] # 0
        PROVE  \E i \in 1 .. (u + 1) : log[i].mod = m /\ log[i].epoch >= store'[m]
    <3>1. CASE store'[m] = store[m]
      BY <1>5, <2>4, <3>1 DEF JournalInv, Recorded
    <3>2. CASE writing.mod = m /\ store'[m] = writing.epoch
      BY <1>1, <2>3, <3>2
    <3> QED
      BY <2>2, <3>1, <3>2, Zenon
  <2> QED
    BY <1>2, <2>1, <2>4, Zenon DEF Recorded
<1>9. next' = 0 => exhausted'
  BY <1>2, <1>3, FinishNumber, Zenon DEF LastNumber
<1> QED
  BY <1>1, <1>2, <1>4, <1>6, <1>7, <1>8, <1>9, Zenon DEF JournalInv

\* A crash loses at most records that were not synced.
LEMMA CrashStep == TypeOK /\ JournalInv /\ Crash => JournalInv'
<1> SUFFICES ASSUME TypeOK, JournalInv, Crash PROVE JournalInv'
  BY Zenon
<1> PICK n \in synced .. Len(log), t \in BOOLEAN :
         /\ log' = SubSeq(log, 1, n)
         /\ synced' = n
         /\ torn' = IF n = Len(log) THEN torn ELSE t
  BY Zenon DEF Crash
<1>1. n \in Nat /\ n <= Len(log) /\ synced <= n /\ synced \in Nat /\ log \in Seq(Record)
      /\ Len(log) \in Nat /\ DiskCapacity \in Nat
  BY JournalAssumption DEF TypeOK
<1>2. Len(log') = n /\ \A i \in 1 .. n : log'[i] = log[i]
  BY <1>1
<1>3. Accepted(n)
  BY <1>1 DEF JournalInv, LogReplays, Accepted
<1>4. LogReplays'
  <2>1. Accepted(n)'
    BY <1>1, <1>2, <1>3, LogKept, Zenon
  <2> QED
    BY <1>2, <2>1, Zenon DEF LogReplays
<1>5. Len(log') <= DiskCapacity /\ (torn' => Len(log') < DiskCapacity)
  BY <1>1, <1>2 DEF JournalInv
<1>6. (\A r \in acked : \E i \in 1 .. synced : log[i] = r)'
  BY <1>1, <1>2, SMTT(30) DEF JournalInv, Crash
<1>7. /\ ~initialized' /\ ~failed' /\ ~required' /\ Free' /\ ~ready' /\ next' # 0
      /\ store' = NoTrust /\ replay' = NoTrust /\ synced' = Len(log')
  BY <1>2 DEF Crash, Free
<1> QED
  BY <1>4, <1>5, <1>6, <1>7, Zenon DEF JournalInv, Appending, NoTrust

\* Every step keeps the journal's invariant.
LEMMA JournalStep == TypeOK /\ JournalInv /\ [Next]_vars => JournalInv'
<1> SUFFICES ASSUME TypeOK, JournalInv, [Next]_vars PROVE JournalInv'
  BY Zenon
<1>1. CASE UNCHANGED vars
  BY <1>1, QuietStep, Zenon DEF vars, disk, mode, cursor, core
<1>2. ASSUME NEW req \in BOOLEAN, RegisterBackend(req) PROVE JournalInv'
  <2>1. /\ ~initialized /\ backend'
        /\ UNCHANGED <<log, torn, synced, initialized, failed, exhausted, next, diskUsed, lastHash, trust,
                       replay, writing, ready, store, acked>>
    BY <1>2, Zenon DEF RegisterBackend, disk, cursor, core
  <2>2. LogReplays' /\ (\A r \in acked : \E i \in 1 .. synced : log[i] = r)' /\ Free'
    BY <2>1, Zenon DEF JournalInv, LogReplays, Accepted, ReplaysAt, HashAt, Free
  <2>3. Recorded(store)' /\ Recorded(replay)'
    BY <2>1, Zenon DEF JournalInv, Recorded, NoTrust
  <2>4. ~Appending'
    BY <2>1, Zenon DEF Appending
  <2>5. (~initialized)' /\ (synced = Len(log))' /\ (~ready)' /\ (~failed)' /\ (store = NoTrust)' /\ (replay = NoTrust)'
        /\ (next = 0 => exhausted)' /\ (Len(log) <= DiskCapacity)' /\ (torn => Len(log) < DiskCapacity)'
    BY <2>1, Zenon DEF JournalInv, NoTrust
  <2> QED
    BY <2>1, <2>2, <2>3, <2>4, <2>5, Zenon DEF JournalInv
<1>3. CASE Initialize
  BY <1>3, InitializeStep, Zenon
<1>4. CASE InitializeVolatile
  <2>1. /\ ~backend /\ ~required /\ initialized' /\ Free /\ synced = Len(log)
        /\ UNCHANGED <<log, torn, synced, backend, required, failed, exhausted, next, diskUsed, lastHash, trust,
                       replay, writing, ready, store, acked>>
    BY <1>4, Zenon DEF InitializeVolatile, JournalInv, disk, cursor, core
  <2>2. LogReplays' /\ ~Appending' /\ Free' /\ \A i \in 1 .. synced : log'[i] = log[i]
    BY <2>1, Zenon DEF JournalInv, LogReplays, Accepted, ReplaysAt, HashAt, Appending, Free
  <2> QED
    BY <2>1, <2>2, DetachStep, Zenon DEF JournalInv
<1>5. CASE RestoreTrust
  <2>1. /\ store' = replay /\ replay' = NoTrust /\ initialized
        /\ UNCHANGED <<log, torn, synced, backend, required, initialized, failed, exhausted, next, diskUsed,
                       lastHash, trust, writing, acked>>
    BY <1>5, Zenon DEF RestoreTrust, disk, mode
  <2>2. Recorded(replay)'
    BY <2>1, Zenon DEF Recorded, NoTrust
  <2>3. Recorded(replay) => Recorded(store)'
    BY <2>1, Zenon DEF Recorded
  <2>4. LogReplays' /\ (Appending <=> Appending') /\ (Free <=> Free') /\ (CursorAtEnd => CursorAtEnd')
    BY <2>1, Zenon DEF JournalInv, LogReplays, Accepted, ReplaysAt, HashAt, Appending, CursorAtEnd, Free
  <2> QED
    BY <2>1, <2>2, <2>3, <2>4, Zenon DEF JournalInv
<1>6. ASSUME NEW l, AppendRefused(l) PROVE JournalInv'
  <2>1. /\ initialized /\ Free
        /\ UNCHANGED <<log, torn, synced, backend, required, initialized, next, replay, writing, store, acked>>
    BY <1>6, Zenon DEF AppendRefused, disk, cursor, Refuse
  <2>2. ~Appending' /\ (next' = 0 => exhausted')
    BY <1>6, <2>1 DEF AppendRefused, Appending, JournalInv
  <2>3. LogReplays' /\ Free' /\ \A i \in 1 .. synced : log'[i] = log[i]
    BY <2>1, Zenon DEF JournalInv, LogReplays, Accepted, ReplaysAt, HashAt, Free
  <2> QED
    BY <2>1, <2>2, <2>3, DetachStep, Zenon DEF JournalInv
<1>7. CASE AppendAction
  <2>1. 0 \in 0 .. MaxEpoch /\ NoModule \in Identity /\ Nobody \in Loader \cup {Nobody} /\ NoModule \notin Module
    BY JournalAssumption DEF Identity
  <2> QED
    BY <1>6, <1>7, <2>1, AppendStep, Zenon DEF AppendAction
<1>8. CASE BackendSync
  BY <1>8, SyncStep, Zenon
<1>9. CASE SyncFails
  <2>1. /\ UNCHANGED <<log, torn, synced>> /\ AfterFailure(writer, writing) /\ Free' /\ ~Free
    BY <1>9, Zenon DEF SyncFails, disk, Free
  <2>2. initialized /\ writing \in Record
    BY <2>1, WritingType, Zenon DEF JournalInv, Appending
  <2>3. LogReplays' /\ \A i \in 1 .. synced : log'[i] = log[i]
    BY <2>1, Zenon DEF JournalInv, LogReplays, Accepted, ReplaysAt, HashAt
  <2> QED
    BY <2>1, <2>2, <2>3, AfterFailureMode, DetachStep, Zenon DEF JournalInv
<1>10. ASSUME NEW l \in Loader, PrepareImage(l) \/ AbortImage(l) \/ CommitRollback(l) PROVE JournalInv'
  BY <1>10, QuietStep, Zenon DEF PrepareImage, AbortImage, CommitRollback, Refuse, disk, mode, cursor
<1>11. ASSUME NEW l \in Loader, CommitImage(l) PROVE JournalInv'
  <2>1. load[l].mod \in Identity /\ load[l].epoch \in 0 .. MaxEpoch /\ l \in Loader \cup {Nobody}
    BY <1>11, LoadType, Zenon DEF CommitImage
  <2> QED
    BY <1>6, <1>11, <2>1, AppendStep, Zenon DEF CommitImage
<1>12. CASE Crash
  BY <1>12, CrashStep, Zenon
<1> QED
  BY <1>1, <1>2, <1>3, <1>4, <1>5, <1>7, <1>8, <1>9, <1>10, <1>11, <1>12, Zenon DEF Next

\* The empty journal of a new machine.
LEMMA JournalInit == Init => TypeOK /\ JournalInv
<1> SUFFICES ASSUME Init PROVE TypeOK /\ JournalInv
  BY Zenon
<1>1. NoTrust \in Trust /\ NoHash \in Chain
  BY JournalAssumption DEF NoTrust, Trust, NoHash, Chain
<1>2. log = <<>> /\ Len(log) = 0 /\ log \in Seq(Record) /\ records \in Seq(Record) /\ Len(records) = 0
  BY DEF Init
<1>3. ModeType /\ torn \in BOOLEAN /\ ready \in BOOLEAN
  BY Zenon DEF Init, ModeType
<1>4. /\ synced = 0 /\ next = 1 /\ last = 0 /\ diskUsed = 0 /\ crashes = 0 /\ lastHash = NoHash
      /\ trust = NoTrust /\ replay = NoTrust /\ store = NoTrust /\ acked = {}
      /\ writing = NoRecord /\ writer = Nobody /\ load \in [Loader -> Image]
  BY NoImageType, Zenon DEF Init
<1>5. DiskType /\ CursorType /\ CallerType /\ WriteType
  BY <1>1, <1>2, <1>3, <1>4, JournalAssumption DEF DiskType, CursorType, CallerType, WriteType
<1>6. LogReplays
  BY <1>2 DEF LogReplays, Accepted
<1>7. ~Appending /\ Free
  BY Zenon DEF Init, Appending, Free
<1>8. Len(log) <= DiskCapacity /\ ~torn /\ synced = Len(log) /\ ~ready /\ ~failed /\ ~required /\ next # 0
      /\ store = NoTrust /\ replay = NoTrust /\ acked = {}
  BY <1>2, JournalAssumption DEF Init
<1>9. JournalInv
  BY <1>6, <1>7, <1>8, Zenon DEF JournalInv
<1> QED
  BY <1>3, <1>9, <1>5, TypeGroups, Zenon

\* The invariant holds throughout.
LEMMA JournalInvariant == Spec => [](TypeOK /\ JournalInv)
<1>1. TypeOK /\ JournalInv /\ [Next]_vars => (TypeOK /\ JournalInv)'
  BY TypeStep, JournalStep, Zenon
<1> QED
  BY <1>1, JournalInit, PTL DEF Spec

-----------------------------------------------------------------------------
(* The theorems *)

\* Every variable of the journal, its disk and its callers keeps its type, and
\* push_record keeps the ring within ELM_JOURNAL_RING_LIMIT.
THEOREM JournalTypes == Spec => []TypeOK
  BY JournalInvariant, PTL

\* Whatever fails and wherever the machine stops, the complete records of the
\* backend pass every check of initialize's replay loop.
THEOREM JournalReplays == Spec => []LogReplays
<1>1. JournalInv => LogReplays
  BY Zenon DEF JournalInv
<1> QED
  BY <1>1, JournalInvariant, PTL

\* What append_record acknowledged with a live backend outlives every crash.
THEOREM AcknowledgedSurvives == Spec => []AckedIsDurable
<1>1. TypeOK /\ JournalInv => AckedIsDurable
  BY DEF TypeOK, JournalInv, AckedIsDurable
<1> QED
  BY <1>1, JournalInvariant, PTL

\* A required journal that allows changes knows every acknowledged epoch, also
\* those of earlier boots.
THEOREM EpochsRemembered == Spec => []NoForgottenEpoch
<1>1. TypeOK /\ JournalInv => NoForgottenEpoch
  <2> SUFFICES ASSUME TypeOK, JournalInv, required, MutationAllowed, NEW r \in acked, r.mod \in Module
               PROVE  trust[r.mod] >= r.epoch
    BY Zenon DEF NoForgottenEpoch
  <2>1. CursorAtEnd
    BY Zenon DEF JournalInv, MutationAllowed, Appending
  <2>2. PICK i \in 1 .. synced : log[i] = r
    BY Zenon DEF JournalInv
  <2>3. i \in 1 .. diskUsed
    BY <2>1, JournalAssumption DEF CursorAtEnd, TypeOK
  <2>4. r.epoch <= trust[r.mod]
    BY <2>1, <2>2, <2>3, Zenon DEF CursorAtEnd
  <2>5. r.epoch \in Nat /\ trust[r.mod] \in Nat
    <3>1. r \in Record /\ trust \in Trust
      BY Zenon DEF TypeOK
    <3> QED BY <3>1, EpochIsNat, Zenon DEF Record, Trust
  <2> QED
    BY <2>4, <2>5, Zenon
<1> QED
  BY <1>1, JournalInvariant, PTL

\* With a required journal commit_image_trust_acceptance is write-ahead: an
\* epoch the trust store enforces has a durable record.
THEOREM TrustIsWriteAhead == Spec => []StoreIsRecorded
<1>1. JournalInv => StoreIsRecorded
  BY Zenon DEF JournalInv, StoreIsRecorded, Recorded
<1> QED
  BY <1>1, JournalInvariant, PTL

\* A required journal that failed is sealed until the next boot: no operation
\* changes its log, its trust epochs, its ring or the restored trust store.
THEOREM SealHolds == Spec => SealedUntilReboot
<1>1. TypeOK /\ JournalInv /\ [Next]_vars => [SealedStep]_vars
  <2> SUFFICES ASSUME TypeOK, JournalInv, Next, initialized, required, failed
               PROVE  SealedStep
    BY Zenon DEF SealedStep
  <2>1. ~CanAppend /\ Free
    BY Zenon DEF CanAppend, JournalInv, Appending
  <2>2. \A l, m, e : ~AppendRecord(l, m, e)
    BY <2>1, Zenon DEF AppendRecord, AppendVolatile, AppendOverCapacity, AppendFails, BackendAppend
  <2>3. ~BackendSync /\ ~SyncFails
    BY <2>1, Zenon DEF BackendSync, SyncFails
  <2>4. \A l : AppendRefused(l) => UNCHANGED <<disk, trust, records, store>>
    BY Zenon DEF AppendRefused, disk, cursor, Refuse
  <2>5. \A l : PrepareImage(l) \/ AbortImage(l) \/ CommitRollback(l) => UNCHANGED <<disk, trust, records, store>>
    BY Zenon DEF PrepareImage, AbortImage, CommitRollback, disk, cursor, Refuse
  <2>6. \A l : CommitImage(l) => UNCHANGED <<disk, trust, records, store>>
    BY <2>2, <2>4, Zenon DEF CommitImage
  <2>7. AppendAction => UNCHANGED <<disk, trust, records, store>>
    BY <2>2, <2>4, Zenon DEF AppendAction
  <2>8. RestoreTrust => UNCHANGED <<disk, trust, records>> /\ ~ready
    BY Zenon DEF RestoreTrust
  <2>9. ~Initialize /\ ~InitializeVolatile /\ (\A req : ~RegisterBackend(req)) /\ (Crash => ~initialized')
    BY Zenon DEF Initialize, InitializeVolatile, RegisterBackend, Crash
  <2> QED
    BY <2>3, <2>5, <2>6, <2>7, <2>8, <2>9, Zenon DEF Next, SealedStep
<1> QED
  BY <1>1, JournalInvariant, PTL DEF Spec, SealedUntilReboot

-----------------------------------------------------------------------------
(* The ring of retained records *)

\* RingIsHealthy with what the next record is checked against.
RingInv ==
    /\ RingIsHealthy
    /\ next = 0 \/ next = last + 1
    /\ records # <<>> => lastHash = Hash(records[Len(records)])

\* A record added at the end leaves the others where they were.
LEMMA AppendedTo ==
  ASSUME NEW t \in Seq(Record), NEW r \in Record
  PROVE  /\ Append(t, r) \in Seq(Record) /\ Len(Append(t, r)) = Len(t) + 1
         /\ Append(t, r)[Len(t) + 1] = r
         /\ \A i \in 1 .. Len(t) : Append(t, r)[i] = t[i]
OBVIOUS

\* push_record adds one record behind a suffix of the ring.
LEMMA PushKeeps ==
  ASSUME NEW ring \in Seq(Record), Len(ring) <= RingLimit, NEW r \in Record
  PROVE  /\ PushRecord(ring, r) \in Seq(Record) /\ PushRecord(ring, r)[Len(PushRecord(ring, r))] = r
         /\ Len(PushRecord(ring, r)) \in 1 .. (Len(ring) + 1)
         /\ \A i \in 1 .. (Len(PushRecord(ring, r)) - 1) :
                PushRecord(ring, r)[i] = ring[i + Len(ring) + 1 - Len(PushRecord(ring, r))]
<1>1. CASE Len(ring) >= RingLimit
  <2>1. /\ ring # <<>> /\ Tail(ring) \in Seq(Record) /\ Len(Tail(ring)) = Len(ring) - 1
        /\ \A i \in 1 .. (Len(ring) - 1) : Tail(ring)[i] = ring[i + 1]
    BY <1>1, JournalAssumption
  <2> DEFINE t == Tail(ring)
  <2> HIDE DEF t
  <2>2. t \in Seq(Record) /\ Len(t) = Len(ring) - 1 /\ PushRecord(ring, r) = Append(t, r) /\ Len(ring) \in Nat
        /\ \A i \in 1 .. Len(t) : t[i] = ring[i + 1]
    BY <1>1, <2>1 DEF PushRecord, t
  <2>3. Len(t) + 1 = Len(ring) /\ Len(t) = Len(ring) - 1 /\ Len(ring) >= 1
    BY <1>1, <2>2, JournalAssumption
  <2> DEFINE p == Append(t, r)
  <2>4. /\ p \in Seq(Record) /\ Len(p) = Len(t) + 1 /\ p[Len(t) + 1] = r
        /\ \A i \in 1 .. Len(t) : p[i] = t[i]
    BY <2>2, AppendedTo, Zenon
  <2>5. /\ PushRecord(ring, r) = p /\ p \in Seq(Record) /\ Len(p) = Len(ring) /\ p[Len(p)] = r
        /\ \A i \in 1 .. Len(t) : p[i] = ring[i + 1]
    BY <2>2, <2>3, <2>4, Zenon
  <2> HIDE DEF p
  <2>6. \A i \in 1 .. (Len(p) - 1) : i + Len(ring) + 1 - Len(p) = i + 1
    BY <2>2, <2>5
  <2>7. Len(p) \in 1 .. (Len(ring) + 1)
    BY <2>2, <2>3, <2>5
  <2>8. \A i \in 1 .. (Len(p) - 1) : p[i] = ring[i + Len(ring) + 1 - Len(p)]
    BY <2>3, <2>5, <2>6, Zenon
  <2> QED BY <2>5, <2>7, <2>8, Zenon
<1>2. CASE ~(Len(ring) >= RingLimit)
  <2>1. PushRecord(ring, r) = Append(ring, r) /\ Len(ring) \in Nat
    BY <1>2 DEF PushRecord
  <2>2. /\ Append(ring, r) \in Seq(Record) /\ Len(Append(ring, r)) = Len(ring) + 1
        /\ Append(ring, r)[Len(ring) + 1] = r
        /\ \A i \in 1 .. Len(ring) : Append(ring, r)[i] = ring[i]
    BY AppendedTo, Zenon
  <2> DEFINE p == Append(ring, r)
  <2> HIDE DEF p
  <2>3. /\ PushRecord(ring, r) = p /\ p \in Seq(Record) /\ Len(p) = Len(ring) + 1 /\ p[Len(ring) + 1] = r
        /\ \A i \in 1 .. Len(ring) : p[i] = ring[i]
    BY <2>1, <2>2, Zenon DEF p
  <2> QED
    BY <2>1, <2>3
<1> QED
  BY <1>1, <1>2, Zenon

\* The place in the old ring of the i-th record of the new one, which push_record has shifted.
LEMMA ShiftedIndex ==
  ASSUME NEW n \in Nat, NEW q \in 1 .. (n + 1), NEW i \in 1 .. (q - 1)
  PROVE  /\ i + n + 1 - q \in 1 .. n
         /\ i + 1 = q => i + n + 1 - q = n
         /\ i + 1 # q => /\ i + n + 1 - q \in 1 .. (n - 1) /\ i + 1 \in 1 .. (q - 1)
                         /\ i + 1 + n + 1 - q = (i + n + 1 - q) + 1
  OBVIOUS

\* finish_append of the record that continues the ring.
LEMMA FinishRing ==
  ASSUME TypeOK, RingInv, NEW r \in Record, next # 0, r.seq = next, r.prev = lastHash, FinishAppend(r)
  PROVE  RingInv'
<1> DEFINE p == PushRecord(records, r)
<1>1. /\ records \in Seq(Record) /\ Len(records) <= RingLimit /\ Len(records) \in Nat
      /\ last \in Nat /\ next = last + 1
  BY JournalAssumption DEF TypeOK, RingInv
<1>2. /\ p \in Seq(Record) /\ p[Len(p)] = r /\ Len(p) \in 1 .. (Len(records) + 1)
      /\ \A i \in 1 .. (Len(p) - 1) : p[i] = records[i + Len(records) + 1 - Len(p)]
  BY <1>1, PushKeeps, Zenon
<1> HIDE DEF p
<1>3. records' = p /\ last' = r.seq /\ lastHash' = Hash(r) /\ next' = IF r.seq = SeqMax THEN 0 ELSE r.seq + 1
  BY Zenon DEF FinishAppend, p
<1>4. /\ records # <<>> => records[Len(records)].seq = last /\ lastHash = Hash(records[Len(records)])
      /\ \A i \in 1 .. (Len(records) - 1) :
           records[i + 1].seq = records[i].seq + 1 /\ records[i + 1].prev = Hash(records[i])
  BY Zenon DEF RingInv, RingIsHealthy
<1>5. ASSUME NEW i \in 1 .. (Len(p) - 1)
      PROVE  p[i + 1].seq = p[i].seq + 1 /\ p[i + 1].prev = Hash(p[i])
  <2> DEFINE k == i + Len(records) + 1 - Len(p)
  <2>1. /\ k \in 1 .. Len(records)
        /\ i + 1 = Len(p) => k = Len(records)
        /\ i + 1 # Len(p) => /\ k \in 1 .. (Len(records) - 1) /\ i + 1 \in 1 .. (Len(p) - 1)
                             /\ i + 1 + Len(records) + 1 - Len(p) = k + 1
    BY <1>1, <1>2, ShiftedIndex, Zenon DEF k
  <2>2. p[i] = records[k]
    BY <1>2, Zenon
  <2> HIDE DEF k
  <2>3. CASE i + 1 = Len(p)
    <3>1. records # <<>>
      BY <2>1
    <3>2. p[i + 1] = r /\ records[k].seq = last /\ lastHash = Hash(records[k])
      BY <1>2, <1>4, <2>1, <2>3, <3>1, Zenon
    <3> QED
      BY <1>1, <2>2, <3>2, Zenon
  <2>4. CASE i + 1 # Len(p)
    <3>1. p[i + 1] = records[k + 1]
      BY <1>2, <2>1, <2>4, Zenon
    <3> QED
      BY <1>4, <2>1, <2>2, <2>4, <3>1, Zenon
  <2> QED
    BY <2>3, <2>4, Zenon
<1>6. p # <<>>
  BY <1>2
<1> QED
  BY <1>2, <1>3, <1>5, <1>6, JournalAssumption, Zenon DEF RingInv, RingIsHealthy

\* Every step keeps the ring healthy.
LEMMA RingStep == TypeOK /\ JournalInv /\ RingInv /\ [Next]_vars => RingInv'
<1> SUFFICES ASSUME TypeOK, JournalInv, RingInv, [Next]_vars PROVE RingInv'
  BY Zenon
<1>1. ASSUME UNCHANGED <<next, last, lastHash, records>> PROVE RingInv'
  BY <1>1, Zenon DEF RingInv, RingIsHealthy
<1>2. ASSUME NEW l \in Loader \cup {Nobody}, NEW m \in Identity, NEW e \in 0 .. MaxEpoch, AppendRecord(l, m, e)
      PROVE  RingInv'
  <2> DEFINE r == NewRecord(m, e)
  <2>1. next # 0
    BY <1>2, Zenon DEF AppendRecord, AppendVolatile, AppendOverCapacity, AppendFails, BackendAppend, CanAppend
  <2>2. r \in Record /\ r.seq = next /\ r.prev = lastHash
    BY <2>1, NewRecordType, Zenon DEF NewRecord
  <2> HIDE DEF r
  <2>3. FinishAppend(r) \/ UNCHANGED <<next, last, lastHash, records>>
    BY <1>2, Zenon DEF AppendRecord, AppendVolatile, AppendOverCapacity, AppendFails, BackendAppend, AfterFailure, cursor, r
  <2> QED
    BY <1>1, <2>1, <2>2, <2>3, FinishRing, Zenon
<1>3. CASE BackendSync \/ SyncFails
  <2>1. ~Free /\ (FinishAppend(writing) \/ UNCHANGED <<next, last, lastHash, records>>)
    BY <1>3, Zenon DEF BackendSync, SyncFails, AfterFailure, cursor
  <2> PICK u \in Nat : u = diskUsed
    BY JournalAssumption DEF TypeOK
  <2>2. writing \in Record /\ writing = log[u + 1] /\ Len(log) = u + 1 /\ next = u + 1 /\ lastHash = HashAt(u)
    BY <2>1, WritingType, Zenon DEF JournalInv, CursorAtEnd
  <2>3. ReplaysAt(u + 1) /\ u + 1 - 1 = u
    BY <2>2 DEF JournalInv, LogReplays, Accepted
  <2>4. writing.seq = next /\ writing.prev = lastHash /\ next # 0
    BY <2>2, <2>3 DEF ReplaysAt
  <2> QED
    BY <1>1, <2>1, <2>2, <2>4, FinishRing, Zenon
<1>4. CASE Initialize
  <2> PICK n \in 0 .. Len(log) : Accepted(n) /\ ReplayCursor(n)
    BY <1>4, Zenon DEF Initialize
  <2>1. n \in Nat /\ n <= Len(log) /\ log \in Seq(Record)
    BY DEF TypeOK
  <2> DEFINE a == IF n > RingLimit THEN n - RingLimit + 1 ELSE 1
  <2>2. a \in 1 .. (n + 1) /\ (n # 0 => a <= n)
    BY <2>1, JournalAssumption
  <2>3. /\ records' = SubSeq(log, a, n) /\ last' = n /\ lastHash' = HashAt(n)
        /\ next' = IF n = SeqMax THEN 0 ELSE n + 1
    BY Zenon DEF ReplayCursor
  <2> HIDE DEF a
  <2>4. Len(records') = n - a + 1 /\ \A i \in 1 .. (n - a + 1) : records'[i] = log[a + i - 1]
    BY <2>1, <2>2, <2>3
  <2>5. \A i \in 1 .. n : log[i].seq = i /\ log[i].prev = HashAt(i - 1)
    BY Zenon DEF Accepted, ReplaysAt
  <2>6. ASSUME NEW i \in 1 .. (Len(records') - 1)
        PROVE  records'[i + 1].seq = records'[i].seq + 1 /\ records'[i + 1].prev = Hash(records'[i])
    <3> DEFINE k == a + i - 1
    <3>1. k \in 1 .. n /\ k + 1 \in 1 .. n /\ records'[i] = log[k] /\ records'[i + 1] = log[k + 1]
      BY <2>1, <2>2, <2>4
    <3>2. k + 1 - 1 = k /\ k # 0
      BY <2>1, <3>1
    <3> HIDE DEF k
    <3>3. log[k + 1].seq = k + 1 /\ log[k].seq = k /\ log[k + 1].prev = HashAt(k + 1 - 1)
      BY <2>5, <3>1
    <3> QED
      BY <3>1, <3>2, <3>3, Zenon DEF HashAt
  <2>7. CASE n = 0
    <3>1. Len(records') = 0 /\ records' \in Seq(Record)
      BY <2>1, <2>2, <2>3, <2>4, <2>7
    <3>2. records' = <<>>
      BY <3>1
    <3> QED
      BY <2>3, <2>6, <2>7, <3>1, <3>2, JournalAssumption, Zenon DEF RingInv, RingIsHealthy
  <2>8. CASE n # 0
    <3>1. Len(records') # 0 /\ records'[Len(records')] = log[n] /\ n \in 1 .. n
      BY <2>1, <2>2, <2>4, <2>8
    <3>2. records' # <<>> /\ log[n].seq = n
      BY <2>5, <3>1
    <3> QED
      BY <2>3, <2>6, <2>8, <3>1, <3>2, JournalAssumption, Zenon DEF RingInv, RingIsHealthy, HashAt
  <2> QED
    BY <2>7, <2>8, Zenon
<1>5. CASE Crash
  BY <1>5 DEF Crash, RingInv, RingIsHealthy
<1>6. CASE AppendAction
  <2>1. 0 \in 0 .. MaxEpoch /\ NoModule \in Identity /\ Nobody \in Loader \cup {Nobody}
    BY JournalAssumption DEF Identity
  <2>2. AppendRefused(Nobody) => UNCHANGED <<next, last, lastHash, records>>
    BY Zenon DEF AppendRefused, cursor
  <2> QED
    BY <1>1, <1>2, <1>6, <2>1, <2>2, Zenon DEF AppendAction
<1>7. ASSUME NEW l \in Loader, CommitImage(l) PROVE RingInv'
  <2>1. load[l].mod \in Identity /\ load[l].epoch \in 0 .. MaxEpoch /\ l \in Loader \cup {Nobody}
    BY <1>7, LoadType, Zenon DEF CommitImage
  <2>2. AppendRefused(l) => UNCHANGED <<next, last, lastHash, records>>
    BY Zenon DEF AppendRefused, cursor
  <2> QED
    BY <1>1, <1>2, <1>7, <2>1, <2>2, Zenon DEF CommitImage
<1>8. ASSUME \/ UNCHANGED vars \/ \E req \in BOOLEAN : RegisterBackend(req)
             \/ InitializeVolatile \/ RestoreTrust
             \/ \E l \in Loader : PrepareImage(l) \/ AbortImage(l) \/ CommitRollback(l)
      PROVE  RingInv'
  <2>1. UNCHANGED <<next, last, lastHash, records>>
    BY <1>8, Zenon DEF vars, cursor, RegisterBackend, InitializeVolatile, RestoreTrust, PrepareImage,
                       AbortImage, CommitRollback
  <2> QED
    BY <1>1, <2>1, Zenon
<1> QED
  BY <1>3, <1>4, <1>5, <1>6, <1>7, <1>8, Zenon DEF Next

\* check_health_journal finds the retained records consecutive, chained and
\* ending at last_sequence, through replays, degradations and dropped records.
THEOREM RingStaysHealthy == Spec => []RingIsHealthy
<1>1. Init => RingInv
  BY DEF Init, RingInv, RingIsHealthy
<1>2. RingInv => RingIsHealthy
  BY Zenon DEF RingInv
<1> QED
  BY <1>1, <1>2, RingStep, JournalInvariant, PTL DEF Spec

-----------------------------------------------------------------------------
(* The idle CPU. *)

\* Where the program is decides what it may be in the middle of: a nested
\* handler runs only where kernel traps are taken, a task is switched in or
\* being preempted, and the handler of the idle window knows where to return
\* to and finds the idle mark.
Control ==
    /\ nested => cpc \in {"take", "sched_clear", "skip_clear", "relax", "preempt", "remark"}
    /\ running # {} => cpc \in {"task", "task_ack", "preempt", "skip_clear",
                               "sched_clear", "sched", "pick"}
    /\ cpc \in {"task", "task_ack"} => running # {}
    /\ cpc \in {"preempt", "skip_clear"} => running # {} \/ back # "none"
    /\ cpc \in {"trap_ack", "remark", "retest"} => back # "none"
    /\ cpc \in {"test", "idle0", "irq_off", "trap_ack", "retest"} => waiting

\* A set notification bit has a sender, a pending interrupt, or a step that
\* clears it behind it.
Backed ==
    notified =>
        \/ \E p \in Sender : ppc[p] = "send"
        \/ ipi \/ nested
        \/ cpc \in {"sched_clear", "skip_clear", "sched", "task_ack", "wfi_ack",
                   "trap_ack", "relax_ack"}

\* A queued task is about to be asked for, asked for, behind the task that
\* runs, or before the next pick.
Asked ==
    runq # {} =>
        \/ \E p \in Sender : ppc[p] = "request"
        \/ need \/ running # {}
        \/ cpc \in {"sched_clear", "sched", "pick"}

\* A request that reaches a CPU after its last test comes with an interrupt.
Rung ==
    cpc \in {"wfi", "idle0"} /\ need =>
        ipi \/ \E p \in Sender : ppc[p] \in {"claim", "send"}

IdleInv == IdleTypeOK /\ Control /\ Backed /\ Asked /\ Rung

\* The CPU starts in its idle loop with nothing queued and nothing requested.
LEMMA IdleInvInit == IdleInit => IdleInv
  BY Zenon DEF IdleInit, IdleInv, IdleTypeOK, Control, Backed, Asked, Rung

\* Every step of the idle loop, of schedule_once, of the handlers and of the
\* producers keeps the invariant.
LEMMA IdleInvStep == IdleInv /\ [IdleNext]_idleVars => IdleInv'
<1> SUFFICES ASSUME IdleInv, [IdleNext]_idleVars PROVE IdleInv'
  BY Zenon
<1> USE DEF hints, PGoto
<1>1. ASSUME ~nested, TakeResched, UNCHANGED <<arch, nested>> PROVE IdleInv'
  BY <1>1, Zenon DEF TakeResched, IdleInv, IdleTypeOK, Control, Backed, Asked, Rung
<1>2. ASSUME ~nested, TakeClear, UNCHANGED <<arch, nested>> PROVE IdleInv'
  BY <1>2, Zenon DEF TakeClear, IdleInv, IdleTypeOK, Control, Backed, Asked, Rung
<1>3. ASSUME ~nested, Preempt, UNCHANGED <<arch, nested>> PROVE IdleInv'
  BY <1>3, Zenon DEF Preempt, IdleInv, IdleTypeOK, Control, Backed, Asked, Rung
<1>4. ASSUME ~nested, Schedule, UNCHANGED <<arch, nested>> PROVE IdleInv'
  BY <1>4, Zenon DEF Schedule, IdleInv, IdleTypeOK, Control, Backed, Asked, Rung
<1>5. ASSUME ~nested, Pick, UNCHANGED <<arch, nested>> PROVE IdleInv'
  <2>1. IdleTypeOK'
    BY <1>5, Zenon DEF Pick, IdleInv, IdleTypeOK
  <2>2. Control'
    BY <1>5, Zenon DEF Pick, IdleInv, IdleTypeOK, Control
  <2>3. Backed'
    BY <1>5, Zenon DEF Pick, IdleInv, IdleTypeOK, Control, Backed
  <2>4. Asked'
    BY <1>5, Zenon DEF Pick, IdleInv, IdleTypeOK, Control, Asked
  <2>5. Rung'
    BY <1>5, Zenon DEF Pick, IdleInv, IdleTypeOK, Control, Asked, Rung
  <2> QED BY <2>1, <2>2, <2>3, <2>4, <2>5, Zenon DEF IdleInv
<1>6. ASSUME ~nested, TaskInterrupt, UNCHANGED <<arch, nested>> PROVE IdleInv'
  BY <1>6, Zenon DEF TaskInterrupt, IdleInv, IdleTypeOK, Control, Backed, Asked, Rung
<1>7. ASSUME ~nested, TaskAcknowledge, UNCHANGED <<arch, nested>> PROVE IdleInv'
  BY <1>7, Zenon DEF TaskAcknowledge, IdleInv, IdleTypeOK, Control, Backed, Asked, Rung
<1>8. ASSUME ~nested, Relax, UNCHANGED <<arch, nested>> PROVE IdleInv'
  BY <1>8, Zenon DEF Relax, IdleInv, IdleTypeOK, Control, Backed, Asked, Rung
<1>9. ASSUME ~nested, WfiReturns, UNCHANGED <<arch, nested>> PROVE IdleInv'
  BY <1>9, Zenon DEF WfiReturns, IdleInv, IdleTypeOK, Control, Backed, Asked, Rung
<1>10. ASSUME ~nested, WfiAcknowledge, UNCHANGED <<arch, nested>> PROVE IdleInv'
  BY <1>10, Zenon DEF WfiAcknowledge, IdleInv, IdleTypeOK, Control, Backed, Asked, Rung
<1>11. ASSUME ~nested, MarkIdleWaiting, UNCHANGED <<arch, nested>> PROVE IdleInv'
  BY <1>11, Zenon DEF MarkIdleWaiting, IdleInv, IdleTypeOK, Control, Backed, Asked, Rung
<1>12. ASSUME ~nested, TestNeed, UNCHANGED <<arch, nested>> PROVE IdleInv'
  BY <1>12, Zenon DEF TestNeed, IdleInv, IdleTypeOK, Control, Backed, Asked, Rung
<1>13. ASSUME ~nested, IdleReturns, UNCHANGED <<arch, nested>> PROVE IdleInv'
  BY <1>13, Zenon DEF IdleReturns, IdleInv, IdleTypeOK, Control, Backed, Asked, Rung
<1>14. ASSUME ~nested, IdleInterrupt, UNCHANGED <<arch, nested>> PROVE IdleInv'
  BY <1>14, Zenon DEF IdleInterrupt, IdleInv, IdleTypeOK, Control, Backed, Asked, Rung
<1>15. ASSUME ~nested, TrapAcknowledge, UNCHANGED <<arch, nested>> PROVE IdleInv'
  BY <1>15, Zenon DEF TrapAcknowledge, IdleInv, IdleTypeOK, Control, Backed, Asked, Rung
<1>16. ASSUME ~nested, Remark, UNCHANGED <<arch, nested>> PROVE IdleInv'
  BY <1>16, Zenon DEF Remark, IdleInv, IdleTypeOK, Control, Backed, Asked, Rung
<1>17. ASSUME ~nested, Retest, UNCHANGED <<arch, nested>> PROVE IdleInv'
  BY <1>17, Zenon DEF Retest, IdleInv, IdleTypeOK, Control, Backed, Asked, Rung
<1>18. ASSUME ~nested, IrqOff, UNCHANGED <<arch, nested>> PROVE IdleInv'
  BY <1>18, Zenon DEF IrqOff, IdleInv, IdleTypeOK, Control, Backed, Asked, Rung
<1>19. ASSUME ~nested, RelaxAcknowledge, UNCHANGED <<arch, nested>> PROVE IdleInv'
  BY <1>19, Zenon DEF RelaxAcknowledge, IdleInv, IdleTypeOK, Control, Backed, Asked, Rung
<1>20. ASSUME Block, UNCHANGED <<arch, nested>> PROVE IdleInv'
  BY <1>20, Zenon DEF Block, IdleInv, IdleTypeOK, Control, Backed, Asked, Rung
<1>21. ASSUME KernelInterrupt PROVE IdleInv'
  <2>1. IdleTypeOK'
    BY <1>21, Zenon DEF KernelInterrupt, IdleInv, IdleTypeOK
  <2>2. Control'
    BY <1>21, Zenon DEF KernelInterrupt, IdleInv, IdleTypeOK, Control
  <2>3. Backed'
    BY <1>21, Zenon DEF KernelInterrupt, IdleInv, IdleTypeOK, Control, Backed
  <2>4. Asked'
    BY <1>21, Zenon DEF KernelInterrupt, IdleInv, IdleTypeOK, Control, Asked
  <2>5. Rung'
    BY <1>21, Zenon DEF KernelInterrupt, IdleInv, IdleTypeOK, Control, Asked, Rung
  <2> QED BY <2>1, <2>2, <2>3, <2>4, <2>5, Zenon DEF IdleInv
<1>22. ASSUME KernelAcknowledge PROVE IdleInv'
  <2>1. IdleTypeOK'
    BY <1>22, Zenon DEF KernelAcknowledge, IdleInv, IdleTypeOK
  <2>2. Control'
    BY <1>22, Zenon DEF KernelAcknowledge, IdleInv, IdleTypeOK, Control
  <2>3. Backed'
    BY <1>22, Zenon DEF KernelAcknowledge, IdleInv, IdleTypeOK, Control, Backed
  <2>4. Asked'
    BY <1>22, Zenon DEF KernelAcknowledge, IdleInv, IdleTypeOK, Control, Asked
  <2>5. Rung'
    BY <1>22, Zenon DEF KernelAcknowledge, IdleInv, IdleTypeOK, Control, Asked, Rung
  <2> QED BY <2>1, <2>2, <2>3, <2>4, <2>5, Zenon DEF IdleInv
<1>23. ASSUME NEW p \in Sender, Enqueue(p), UNCHANGED <<arch, nested>> PROVE IdleInv'
  <2>1. IdleTypeOK'
    BY <1>23, Zenon DEF Enqueue, IdleInv, IdleTypeOK
  <2>2. Control'
    BY <1>23, Zenon DEF Enqueue, IdleInv, IdleTypeOK, Control
  <2>3. Backed'
    BY <1>23, Zenon DEF Enqueue, IdleInv, IdleTypeOK, Control, Backed
  <2>4. Asked'
    BY <1>23, Zenon DEF Enqueue, IdleInv, IdleTypeOK, Control, Asked
  <2>5. Rung'
    BY <1>23, Zenon DEF Enqueue, IdleInv, IdleTypeOK, Control, Asked, Rung
  <2> QED BY <2>1, <2>2, <2>3, <2>4, <2>5, Zenon DEF IdleInv
<1>24. ASSUME NEW p \in Sender, Kick(p), UNCHANGED <<arch, nested>> PROVE IdleInv'
  <2>1. IdleTypeOK'
    BY <1>24, Zenon DEF Kick, IdleInv, IdleTypeOK
  <2>2. Control'
    BY <1>24, Zenon DEF Kick, IdleInv, IdleTypeOK, Control
  <2>3. Backed'
    BY <1>24, Zenon DEF Kick, IdleInv, IdleTypeOK, Control, Backed
  <2>4. Asked'
    BY <1>24, Zenon DEF Kick, IdleInv, IdleTypeOK, Control, Asked
  <2>5. Rung'
    BY <1>24, Zenon DEF Kick, IdleInv, IdleTypeOK, Control, Asked, Rung
  <2> QED BY <2>1, <2>2, <2>3, <2>4, <2>5, Zenon DEF IdleInv
<1>25. ASSUME NEW p \in Sender, RequestResched(p), UNCHANGED <<arch, nested>> PROVE IdleInv'
  <2>1. IdleTypeOK'
    BY <1>25, Zenon DEF RequestResched, IdleInv, IdleTypeOK
  <2>2. Control'
    BY <1>25, Zenon DEF RequestResched, IdleInv, IdleTypeOK, Control
  <2>3. Backed'
    BY <1>25, Zenon DEF RequestResched, IdleInv, IdleTypeOK, Control, Backed
  <2>4. Asked'
    BY <1>25, Zenon DEF RequestResched, IdleInv, IdleTypeOK, Control, Asked
  <2>5. Rung'
    BY <1>25, Zenon DEF RequestResched, IdleInv, IdleTypeOK, Control, Asked, Rung
  <2> QED BY <2>1, <2>2, <2>3, <2>4, <2>5, Zenon DEF IdleInv
<1>26. ASSUME NEW p \in Sender, ClaimNotification(p), UNCHANGED <<arch, nested>> PROVE IdleInv'
  <2>1. IdleTypeOK'
    BY <1>26, Zenon DEF ClaimNotification, IdleInv, IdleTypeOK
  <2>2. Control'
    BY <1>26, Zenon DEF ClaimNotification, IdleInv, IdleTypeOK, Control
  <2>3. Backed'
    BY <1>26, Zenon DEF ClaimNotification, IdleInv, IdleTypeOK, Control, Backed
  <2>4. Asked'
    BY <1>26, Zenon DEF ClaimNotification, IdleInv, IdleTypeOK, Control, Asked
  <2>5. Rung'
    <3>1. ASSUME cpc \in {"wfi", "idle0"}, notified
          PROVE  ipi \/ \E q \in Sender : ppc[q] = "send"
      BY <3>1, Zenon DEF IdleInv, Control, Backed
    <3> QED
      BY <1>26, <3>1, Zenon DEF ClaimNotification, IdleInv, IdleTypeOK, Rung
  <2> QED BY <2>1, <2>2, <2>3, <2>4, <2>5, Zenon DEF IdleInv
<1>27. ASSUME NEW p \in Sender, SendResched(p), UNCHANGED <<arch, nested>> PROVE IdleInv'
  <2>1. IdleTypeOK'
    BY <1>27, Zenon DEF SendResched, IdleInv, IdleTypeOK
  <2>2. Control'
    BY <1>27, Zenon DEF SendResched, IdleInv, IdleTypeOK, Control
  <2>3. Backed'
    BY <1>27, Zenon DEF SendResched, IdleInv, IdleTypeOK, Control, Backed
  <2>4. Asked'
    BY <1>27, Zenon DEF SendResched, IdleInv, IdleTypeOK, Control, Asked
  <2>5. Rung'
    BY <1>27, Zenon DEF SendResched, IdleInv, IdleTypeOK, Control, Asked, Rung
  <2> QED BY <2>1, <2>2, <2>3, <2>4, <2>5, Zenon DEF IdleInv
<1>28. CASE UNCHANGED idleVars
  <2>1. IdleTypeOK' /\ Control'
    BY <1>28, Zenon DEF idleVars, IdleInv, IdleTypeOK, Control
  <2>2. Backed' /\ Asked' /\ Rung'
    BY <1>28, Zenon DEF idleVars, IdleInv, Backed, Asked, Rung
  <2> QED BY <2>1, <2>2, Zenon DEF IdleInv
<1> QED
  BY <1>1, <1>2, <1>3, <1>4, <1>5, <1>6, <1>7, <1>8, <1>9, <1>10, <1>11,
      <1>12, <1>13, <1>14, <1>15, <1>16, <1>17, <1>18, <1>19, <1>20, <1>21,
      <1>22, <1>23, <1>24, <1>25, <1>26, <1>27, <1>28, Zenon
      DEF IdleNext, IdleCpuStep, RiscvStep, LoongStep, SenderStep

\* The invariant holds throughout.
LEMMA IdleInvHolds == IdleSpec => []IdleInv
  BY IdleInvInit, IdleInvStep, PTL DEF IdleSpec

\* The hints, the run queue and the places of the idle loop keep their types,
\* and at most one task runs.
THEOREM IdleTypes == IdleSpec => []IdleTypeOK
  BY IdleInvHolds, PTL DEF IdleInv

\* wfi and the idle instruction are never entered for good with a task in the
\* run queue: the interrupt that ends the sleep is pending or on its way, even
\* when request_resched and the last look at need_resched cross.
THEOREM SleepsWithoutWork == IdleSpec => []NoSleepWithWork
<1>1. IdleInv => NoSleepWithWork
  BY Zenon DEF IdleInv, IdleTypeOK, Control, Asked, Rung, NoSleepWithWork, CpuAsleep
<1> QED
  BY <1>1, IdleInvHolds, PTL

\* The bit that lets later wakers skip their interrupt never stands on a CPU
\* that sleeps unless an interrupt is pending or about to be sent.
THEOREM NotificationBacked == IdleSpec => []NotificationIsBacked
<1>1. IdleInv => NotificationIsBacked
  BY Zenon DEF IdleInv, Control, Backed, NotificationIsBacked, CpuAsleep
<1> QED
  BY <1>1, IdleInvHolds, PTL

-----------------------------------------------------------------------------
(* The network worker. *)

\* How far the worker has come on its way to sleep: past a look at the ring or
\* at the timer flag after the work bit was cleared; past the unmasking of the
\* device; and past the last look at the work bit.
PastSignal == {"recheck_timer", "recheck_ring", "recheck_queue", "switch", "parked"}
PastLatch == PastSignal \cup {"recheck_signal"}
PastUnmask == PastLatch \cup {"unmask_latch"}
PastTimer == PastUnmask \cup {"visible_queue", "begin_sleep", "set_sleeping", "unmask"}
PastRing == PastTimer \cup {"visible_timer"}

\* The types of the fields the argument is about.
FieldTypes ==
    /\ workerState \in {"Running", "Sleeping", "Runnable"} /\ current = (npc # "parked")
    /\ wpc \in [Waker -> {"idle", "fill", "publish", "test", "enqueue", "done", "claim",
                          "clear_ns", "set_fired"}]
    /\ lastId \in Nat /\ registration \in 0 .. lastId /\ firing \in 0 .. lastId
    /\ DOMAIN observers \subseteq 1 .. lastId

\* The task state and the announced sleep follow from where the worker is.
Places ==
    /\ workerState = "Runnable" => npc = "parked"
    /\ workerState = "Sleeping" =>
           npc \in PastUnmask \cup {"unmask", "mask", "mask_ack", "mask_latch", "call_off"}
    /\ npc \in PastUnmask \cup {"set_sleeping", "unmask"} => sleeping

\* Somebody has decided to enqueue the worker, or is about to decide and will
\* find it asleep.
Coming == deferred \/ hpc = "wake" \/ \E w \in Waker : wpc[w] \in {"test", "enqueue"}

\* What arrives after the look that should have seen it sets the work bit.
Signalled ==
    /\ npc \in PastRing /\ queue # <<>> =>
           work \/ \E p \in Producer : wpc[p] \in {"fill", "publish"}
    /\ npc \in PastTimer /\ timerFired => work \/ wpc[Timer] = "publish"

\* A work bit that is set after the last look at it, by whoever, comes with a
\* wake-up.
WorkWakes == npc \in PastSignal /\ workerState = "Sleeping" /\ work => Coming

\* A device that may not interrupt an unmasked worker has been masked by a
\* handler that has latched, or will; and a latch comes with a wake-up.
DeviceWakes ==
    /\ npc \in PastUnmask /\ workerState = "Sleeping" /\ noInterrupt =>
           hpc = "latch" \/ latch \/ Coming
    /\ npc \in PastLatch /\ workerState = "Sleeping" /\ latch => Coming
    /\ npc \in {"switch", "parked"} /\ workerState = "Sleeping" /\ used =>
           isr \/ hpc # "idle" \/ Coming

\* Where the timer is in force: the registration names an observer for the
\* deadline that deadline_ns holds, unless arm_timer is replacing it or the
\* interrupt has cleared deadline_ns.
Registered ==
    /\ wpc[Timer] # "idle" => firing # 0
    /\ wpc[Timer] \notin {"idle", "claim"} => registration # firing
    /\ npc \in {"arm_store", "arm_reserve"} => registration = 0
    /\ npc \in {"arm_reserve", "arm_register"} =>
           deadline # 0 /\ deadlineNs \in {0, deadline}
    /\ npc = "arm_register" =>
           registration = lastId /\ lastId \notin DOMAIN observers /\ firing # lastId
    /\ registration # 0 /\ npc \notin {"arm_clear", "arm_register"} =>
           /\ registration \in DOMAIN observers
           /\ deadlineNs \in {0, observers[registration]}
    /\ npc = "arm_compare" /\ registration = 0 /\ deadlineNs # 0 => wpc[Timer] = "clear_ns"

\* Outside execute_protocol_turn and arm_timer a deadline is in force, or is
\* being turned into timer_fired.
Armed ==
    npc \notin {"pump_again", "arm", "arm_compare", "arm_cancel", "arm_clear", "arm_store",
               "arm_reserve", "arm_register"} /\ deadline # 0 =>
        \/ registration \in DOMAIN observers /\ observers[registration] = deadline
        \/ wpc[Timer] \in {"clear_ns", "set_fired"} \/ timerFired

WorkerInv ==
    FieldTypes /\ Places /\ Signalled /\ WorkWakes /\ DeviceWakes /\ Registered /\ Armed

\* The worker starts awake with nothing to do and its device masked.
LEMMA WorkerInvInit == WorkerInit => WorkerInv
<1> SUFFICES ASSUME WorkerInit PROVE WorkerInv
  BY Zenon
<1>1. FieldTypes
  <2>1. DOMAIN observers = {}
    BY DEF WorkerInit
  <2>2. wpc \in [Waker -> {"idle"}]
    BY Zenon DEF WorkerInit
  <2>3. workerState = "Running" /\ current = (npc # "parked")
    BY Zenon DEF WorkerInit
  <2>4. lastId = 0 /\ registration = 0 /\ firing = 0
    BY Zenon DEF WorkerInit
  <2> QED BY <2>1, <2>2, <2>3, <2>4 DEF FieldTypes
<1>2. Places /\ Signalled /\ WorkWakes /\ DeviceWakes
  BY Zenon DEF WorkerInit, Places, Signalled, WorkWakes, DeviceWakes, PastSignal, PastLatch, PastUnmask,
      PastTimer, PastRing
<1>3. Registered /\ Armed
  BY Zenon DEF WorkerInit, Registered, Armed, Waker
<1> QED BY <1>1, <1>2, <1>3, Zenon DEF WorkerInv

\* Every step of the worker, the producers, the timer interrupt, the device and
\* its handler, and the deferred wakes keeps the invariant.
LEMMA WorkerInvStep == WorkerInv /\ [WorkerNext]_workerVars => WorkerInv'
<1> SUFFICES ASSUME WorkerInv, [WorkerNext]_workerVars PROVE WorkerInv'
  BY Zenon
<1> USE WorkerAssumption
    DEF Step, Done, Timer, Deferred, Device, Waker, queueVars, ownerVars, signalVars,
        turnVars, timerVars, deviceVars, PastSignal, PastLatch, PastUnmask, PastTimer,
        PastRing
<1>1. ASSUME Pump, UNCHANGED sources PROVE WorkerInv'
  <2>1. FieldTypes'
    BY <1>1, Zenon DEF Pump, WorkerInv, FieldTypes
  <2>2. Places'
    BY <1>1, Zenon DEF Pump, WorkerInv, FieldTypes, Places
  <2>3. Signalled'
    BY <1>1, Zenon DEF Pump, WorkerInv, FieldTypes, Signalled
  <2>4. WorkWakes'
    BY <1>1, Zenon DEF Pump, WorkerInv, FieldTypes, WorkWakes, Places, Coming
  <2>5. DeviceWakes'
    BY <1>1, Zenon DEF Pump, WorkerInv, FieldTypes, DeviceWakes, Places, Coming
  <2>6. Registered'
    BY <1>1, Zenon DEF Pump, WorkerInv, FieldTypes, Registered
  <2>7. Armed'
    BY <1>1, Zenon DEF Pump, WorkerInv, FieldTypes, Armed
  <2> QED BY <2>1, <2>2, <2>3, <2>4, <2>5, <2>6, <2>7, Zenon DEF WorkerInv
<1>2. ASSUME DrainOne, UNCHANGED sources PROVE WorkerInv'
  <2>1. FieldTypes'
    BY <1>2, Zenon DEF DrainOne, Pop, WorkerInv, FieldTypes
  <2>2. Places'
    BY <1>2, Zenon DEF DrainOne, Pop, WorkerInv, FieldTypes, Places
  <2>3. Signalled'
    BY <1>2, Zenon DEF DrainOne, Pop, WorkerInv, FieldTypes, Signalled
  <2>4. WorkWakes'
    BY <1>2, Zenon DEF DrainOne, Pop, WorkerInv, FieldTypes, WorkWakes, Places, Coming
  <2>5. DeviceWakes'
    BY <1>2, Zenon DEF DrainOne, Pop, WorkerInv, FieldTypes, DeviceWakes, Places, Coming
  <2>6. Registered'
    BY <1>2, Zenon DEF DrainOne, Pop, WorkerInv, FieldTypes, Registered
  <2>7. Armed'
    BY <1>2, Zenon DEF DrainOne, Pop, WorkerInv, FieldTypes, Armed
  <2> QED BY <2>1, <2>2, <2>3, <2>4, <2>5, <2>6, <2>7, Zenon DEF WorkerInv
<1>3. ASSUME DrainEnds, UNCHANGED sources PROVE WorkerInv'
  BY <1>3, Zenon DEF DrainEnds, PopNothing,
      WorkerInv, FieldTypes, Places, Signalled, WorkWakes, DeviceWakes, Coming,
      Registered, Armed
<1>4. ASSUME ProtocolTurn, UNCHANGED sources PROVE WorkerInv'
  BY <1>4, Zenon DEF ProtocolTurn,
      WorkerInv, FieldTypes, Places, Signalled, WorkWakes, DeviceWakes, Coming,
      Registered, Armed
<1>5. ASSUME ArmLoad, UNCHANGED sources PROVE WorkerInv'
  BY <1>5, Zenon DEF ArmLoad,
      WorkerInv, FieldTypes, Places, Signalled, WorkWakes, DeviceWakes, Coming,
      Registered, Armed
<1>6. ASSUME ArmCompare, UNCHANGED sources PROVE WorkerInv'
  BY <1>6, Zenon DEF ArmCompare,
      WorkerInv, FieldTypes, Places, Signalled, WorkWakes, DeviceWakes, Coming,
      Registered, Armed
<1>7. ASSUME ArmCancel, UNCHANGED sources PROVE WorkerInv'
  BY <1>7, Zenon DEF ArmCancel, Without,
      WorkerInv, FieldTypes, Places, Signalled, WorkWakes, DeviceWakes, Coming,
      Registered, Armed
<1>8. ASSUME ArmClear, UNCHANGED sources PROVE WorkerInv'
  <2>1. FieldTypes'
    BY <1>8 DEF ArmClear, WorkerInv, FieldTypes
  <2>2. Places'
    BY <1>8, Zenon DEF ArmClear, WorkerInv, FieldTypes, Places
  <2>3. Signalled'
    BY <1>8, Zenon DEF ArmClear, WorkerInv, FieldTypes, Signalled
  <2>4. WorkWakes'
    BY <1>8, Zenon DEF ArmClear, WorkerInv, FieldTypes, WorkWakes, Places, Coming
  <2>5. DeviceWakes'
    BY <1>8, Zenon DEF ArmClear, WorkerInv, FieldTypes, DeviceWakes, Places, Coming
  <2>6. Registered'
    BY <1>8, Zenon DEF ArmClear, WorkerInv, FieldTypes, Registered
  <2>7. Armed'
    BY <1>8, Zenon DEF ArmClear, WorkerInv, FieldTypes, Armed
  <2> QED BY <2>1, <2>2, <2>3, <2>4, <2>5, <2>6, <2>7, Zenon DEF WorkerInv
<1>9. ASSUME ArmStore, UNCHANGED sources PROVE WorkerInv'
  BY <1>9, Zenon DEF ArmStore,
      WorkerInv, FieldTypes, Places, Signalled, WorkWakes, DeviceWakes, Coming,
      Registered, Armed
<1>10. ASSUME ArmReserve, UNCHANGED sources PROVE WorkerInv'
  <2>1. FieldTypes'
    BY <1>10 DEF ArmReserve, WorkerInv, FieldTypes
  <2>2. Places'
    BY <1>10, Zenon DEF ArmReserve, WorkerInv, FieldTypes, Places
  <2>3. Signalled'
    BY <1>10, Zenon DEF ArmReserve, WorkerInv, FieldTypes, Signalled
  <2>4. WorkWakes'
    BY <1>10, Zenon DEF ArmReserve, WorkerInv, FieldTypes, WorkWakes, Places, Coming
  <2>5. DeviceWakes'
    BY <1>10, Zenon DEF ArmReserve, WorkerInv, FieldTypes, DeviceWakes, Places, Coming
  <2>6. Registered'
    BY <1>10 DEF ArmReserve, WorkerInv, FieldTypes, Registered
  <2>7. Armed'
    BY <1>10, Zenon DEF ArmReserve, WorkerInv, FieldTypes, Armed
  <2> QED BY <2>1, <2>2, <2>3, <2>4, <2>5, <2>6, <2>7, Zenon DEF WorkerInv
<1>11. ASSUME ArmRegister, UNCHANGED sources PROVE WorkerInv'
  <2>1. FieldTypes'
    <3>1. lastId \in 1 .. lastId
      BY <1>11 DEF ArmRegister, WorkerInv, FieldTypes, Registered
    <3>2. /\ DOMAIN observers' = DOMAIN observers \cup {lastId} /\ npc = "arm_register" /\ npc' = "keep_running"
          /\ UNCHANGED <<workerState, current, wpc, lastId, registration, firing>>
      BY <1>11, Zenon DEF ArmRegister
    <3> QED BY <3>1, <3>2, Zenon DEF WorkerInv, FieldTypes
  <2>2. Places'
    BY <1>11, Zenon DEF ArmRegister, WorkerInv, FieldTypes, Places
  <2>3. Signalled'
    BY <1>11, Zenon DEF ArmRegister, WorkerInv, FieldTypes, Signalled
  <2>4. WorkWakes'
    BY <1>11, Zenon DEF ArmRegister, WorkerInv, FieldTypes, WorkWakes, Places, Coming
  <2>5. DeviceWakes'
    BY <1>11, Zenon DEF ArmRegister, WorkerInv, FieldTypes, DeviceWakes, Places, Coming
  <2>6. Registered'
    BY <1>11, Zenon DEF ArmRegister, WorkerInv, FieldTypes, Registered
  <2>7. Armed'
    BY <1>11, Zenon DEF ArmRegister, WorkerInv, FieldTypes, Registered, Armed
  <2> QED BY <2>1, <2>2, <2>3, <2>4, <2>5, <2>6, <2>7, Zenon DEF WorkerInv
<1>12. ASSUME ArmLate, UNCHANGED sources PROVE WorkerInv'
  <2>1. FieldTypes'
    BY <1>12 DEF ArmLate, WorkerInv, FieldTypes
  <2>2. Places'
    BY <1>12, Zenon DEF ArmLate, WorkerInv, FieldTypes, Places
  <2>3. Signalled'
    BY <1>12, Zenon DEF ArmLate, WorkerInv, FieldTypes, Signalled
  <2>4. WorkWakes'
    BY <1>12, Zenon DEF ArmLate, WorkerInv, FieldTypes, WorkWakes, Places, Coming
  <2>5. DeviceWakes'
    BY <1>12, Zenon DEF ArmLate, WorkerInv, FieldTypes, DeviceWakes, Places, Coming
  <2>6. Registered'
    BY <1>12, Zenon DEF ArmLate, WorkerInv, FieldTypes, Registered
  <2>7. Armed'
    BY <1>12, Zenon DEF ArmLate, WorkerInv, FieldTypes, Armed
  <2> QED BY <2>1, <2>2, <2>3, <2>4, <2>5, <2>6, <2>7, Zenon DEF WorkerInv
<1>13. ASSUME KeepRunning, UNCHANGED sources PROVE WorkerInv'
  <2>1. FieldTypes'
    BY <1>13, Zenon DEF KeepRunning, WorkerInv, FieldTypes
  <2>2. Places'
    BY <1>13, Zenon DEF KeepRunning, WorkerInv, FieldTypes, Places
  <2>3. Signalled'
    BY <1>13, Zenon DEF KeepRunning, WorkerInv, FieldTypes, Signalled
  <2>4. WorkWakes'
    BY <1>13, Zenon DEF KeepRunning, WorkerInv, FieldTypes, WorkWakes, Places, Coming
  <2>5. DeviceWakes'
    BY <1>13, Zenon DEF KeepRunning, WorkerInv, FieldTypes, DeviceWakes, Places, Coming
  <2>6. Registered'
    BY <1>13, Zenon DEF KeepRunning, WorkerInv, FieldTypes, Registered
  <2>7. Armed'
    BY <1>13, Zenon DEF KeepRunning, WorkerInv, FieldTypes, Armed
  <2> QED BY <2>1, <2>2, <2>3, <2>4, <2>5, <2>6, <2>7, Zenon DEF WorkerInv
<1>14. ASSUME WorkVisible, UNCHANGED sources PROVE WorkerInv'
  <2>1. FieldTypes'
    BY <1>14, Zenon DEF WorkVisible, Look, WorkerInv, FieldTypes
  <2>2. Places'
    BY <1>14, Zenon DEF WorkVisible, Look, WorkerInv, FieldTypes, Places
  <2>3. Signalled'
    <3>1. /\ UNCHANGED <<queue, work, wpc, timerFired>>
          /\ npc' \in PastRing => npc \in PastRing \/ queue = <<>>
          /\ npc' \in PastTimer => npc \in PastTimer \/ ~timerFired
      BY <1>14, Zenon DEF WorkVisible, Look
    <3> QED BY <3>1, Zenon DEF WorkerInv, Signalled
  <2>4. WorkWakes'
    BY <1>14, Zenon DEF WorkVisible, Look, WorkerInv, FieldTypes, WorkWakes, Places, Coming
  <2>5. DeviceWakes'
    BY <1>14, Zenon DEF WorkVisible, Look, WorkerInv, FieldTypes, DeviceWakes, Places, Coming
  <2>6. Registered'
    BY <1>14, Zenon DEF WorkVisible, Look, WorkerInv, FieldTypes, Registered
  <2>7. Armed'
    BY <1>14, Zenon DEF WorkVisible, Look, WorkerInv, FieldTypes, Armed
  <2> QED BY <2>1, <2>2, <2>3, <2>4, <2>5, <2>6, <2>7, Zenon DEF WorkerInv
<1>15. ASSUME SetWork, UNCHANGED sources PROVE WorkerInv'
  BY <1>15, Zenon DEF SetWork,
      WorkerInv, FieldTypes, Places, Signalled, WorkWakes, DeviceWakes, Coming,
      Registered, Armed
<1>16. ASSUME BeginSleep, UNCHANGED sources PROVE WorkerInv'
  <2>1. FieldTypes'
    BY <1>16, Zenon DEF BeginSleep, WorkerInv, FieldTypes
  <2>2. Places'
    BY <1>16, Zenon DEF BeginSleep, WorkerInv, FieldTypes, Places
  <2>3. Signalled'
    BY <1>16, Zenon DEF BeginSleep, WorkerInv, FieldTypes, Signalled
  <2>4. WorkWakes'
    BY <1>16, Zenon DEF BeginSleep, WorkerInv, FieldTypes, WorkWakes, Places, Coming
  <2>5. DeviceWakes'
    BY <1>16, Zenon DEF BeginSleep, WorkerInv, FieldTypes, DeviceWakes, Places, Coming
  <2>6. Registered'
    BY <1>16, Zenon DEF BeginSleep, WorkerInv, FieldTypes, Registered
  <2>7. Armed'
    BY <1>16, Zenon DEF BeginSleep, WorkerInv, FieldTypes, Armed
  <2> QED BY <2>1, <2>2, <2>3, <2>4, <2>5, <2>6, <2>7, Zenon DEF WorkerInv
<1>17. ASSUME SetSleeping, UNCHANGED sources PROVE WorkerInv'
  <2>1. FieldTypes'
    BY <1>17, Zenon DEF SetSleeping, WorkerInv, FieldTypes
  <2>2. Places'
    BY <1>17, Zenon DEF SetSleeping, WorkerInv, FieldTypes, Places
  <2>3. Signalled'
    BY <1>17, Zenon DEF SetSleeping, WorkerInv, FieldTypes, Signalled
  <2>4. WorkWakes'
    BY <1>17, Zenon DEF SetSleeping, WorkerInv, FieldTypes, WorkWakes, Places, Coming
  <2>5. DeviceWakes'
    BY <1>17, Zenon DEF SetSleeping, WorkerInv, FieldTypes, DeviceWakes, Places, Coming
  <2>6. Registered'
    BY <1>17, Zenon DEF SetSleeping, WorkerInv, FieldTypes, Registered
  <2>7. Armed'
    BY <1>17, Zenon DEF SetSleeping, WorkerInv, FieldTypes, Armed
  <2> QED BY <2>1, <2>2, <2>3, <2>4, <2>5, <2>6, <2>7, Zenon DEF WorkerInv
<1>18. ASSUME UnmaskRings, UNCHANGED sources PROVE WorkerInv'
  <2>1. FieldTypes'
    BY <1>18, Zenon DEF UnmaskRings, WorkerInv, FieldTypes
  <2>2. Places'
    BY <1>18, Zenon DEF UnmaskRings, WorkerInv, FieldTypes, Places
  <2>3. Signalled'
    BY <1>18, Zenon DEF UnmaskRings, WorkerInv, FieldTypes, Signalled
  <2>4. WorkWakes'
    BY <1>18, Zenon DEF UnmaskRings, WorkerInv, FieldTypes, WorkWakes, Places, Coming
  <2>5. DeviceWakes'
    BY <1>18, Zenon DEF UnmaskRings, WorkerInv, FieldTypes, DeviceWakes, Places, Coming
  <2>6. Registered'
    BY <1>18, Zenon DEF UnmaskRings, WorkerInv, FieldTypes, Registered
  <2>7. Armed'
    BY <1>18, Zenon DEF UnmaskRings, WorkerInv, FieldTypes, Armed
  <2> QED BY <2>1, <2>2, <2>3, <2>4, <2>5, <2>6, <2>7, Zenon DEF WorkerInv
<1>19. ASSUME UnmaskLatch, UNCHANGED sources PROVE WorkerInv'
  <2>1. FieldTypes'
    BY <1>19, Zenon DEF UnmaskLatch, WorkerInv, FieldTypes
  <2>2. Places'
    BY <1>19, Zenon DEF UnmaskLatch, WorkerInv, FieldTypes, Places
  <2>3. Signalled'
    BY <1>19, Zenon DEF UnmaskLatch, WorkerInv, FieldTypes, Signalled
  <2>4. WorkWakes'
    BY <1>19, Zenon DEF UnmaskLatch, WorkerInv, FieldTypes, WorkWakes, Places, Coming
  <2>5. DeviceWakes'
    BY <1>19, Zenon DEF UnmaskLatch, WorkerInv, FieldTypes, DeviceWakes, Places, Coming
  <2>6. Registered'
    BY <1>19, Zenon DEF UnmaskLatch, WorkerInv, FieldTypes, Registered
  <2>7. Armed'
    BY <1>19, Zenon DEF UnmaskLatch, WorkerInv, FieldTypes, Armed
  <2> QED BY <2>1, <2>2, <2>3, <2>4, <2>5, <2>6, <2>7, Zenon DEF WorkerInv
<1>20. ASSUME Recheck, UNCHANGED sources PROVE WorkerInv'
  <2>1. FieldTypes'
    BY <1>20, Zenon DEF Recheck, Look, WorkerInv, FieldTypes
  <2>2. Places'
    BY <1>20, Zenon DEF Recheck, Look, WorkerInv, FieldTypes, Places
  <2>3. Signalled'
    <3>1. UNCHANGED <<queue, work, wpc, timerFired>> /\ npc \in PastTimer /\ npc \in PastRing
      BY <1>20, Zenon DEF Recheck, Look
    <3> QED BY <3>1, Zenon DEF WorkerInv, Signalled
  <2>4. WorkWakes'
    BY <1>20, Zenon DEF Recheck, Look, WorkerInv, FieldTypes, WorkWakes, Places, Coming
  <2>5. DeviceWakes'
    <3>1. /\ UNCHANGED <<workerState, noInterrupt, latch, used, isr, hpc, deferred, wpc>>
          /\ npc \in PastLatch /\ (npc' \in {"switch", "parked"} => ~used)
      BY <1>20, Zenon DEF Recheck, Look
    <3> QED BY <3>1, Zenon DEF WorkerInv, DeviceWakes, Coming
  <2>6. Registered'
    BY <1>20, Zenon DEF Recheck, Look, WorkerInv, FieldTypes, Registered
  <2>7. Armed'
    BY <1>20, Zenon DEF Recheck, Look, WorkerInv, FieldTypes, Armed
  <2> QED BY <2>1, <2>2, <2>3, <2>4, <2>5, <2>6, <2>7, Zenon DEF WorkerInv
<1>21. ASSUME MaskRings, UNCHANGED sources PROVE WorkerInv'
  BY <1>21, Zenon DEF MaskRings,
      WorkerInv, FieldTypes, Places, Signalled, WorkWakes, DeviceWakes, Coming,
      Registered, Armed
<1>22. ASSUME MaskAcknowledge, UNCHANGED sources PROVE WorkerInv'
  BY <1>22, Zenon DEF MaskAcknowledge,
      WorkerInv, FieldTypes, Places, Signalled, WorkWakes, DeviceWakes, Coming,
      Registered, Armed
<1>23. ASSUME MaskLatch, UNCHANGED sources PROVE WorkerInv'
  <2>1. FieldTypes'
    BY <1>23, Zenon DEF MaskLatch, WorkerInv, FieldTypes
  <2>2. Places'
    BY <1>23, Zenon DEF MaskLatch, WorkerInv, FieldTypes, Places
  <2>3. Signalled'
    BY <1>23, Zenon DEF MaskLatch, WorkerInv, FieldTypes, Signalled
  <2>4. WorkWakes'
    BY <1>23, Zenon DEF MaskLatch, WorkerInv, FieldTypes, WorkWakes, Places, Coming
  <2>5. DeviceWakes'
    BY <1>23, Zenon DEF MaskLatch, WorkerInv, FieldTypes, DeviceWakes, Places, Coming
  <2>6. Registered'
    BY <1>23, Zenon DEF MaskLatch, WorkerInv, FieldTypes, Registered
  <2>7. Armed'
    BY <1>23, Zenon DEF MaskLatch, WorkerInv, FieldTypes, Armed
  <2> QED BY <2>1, <2>2, <2>3, <2>4, <2>5, <2>6, <2>7, Zenon DEF WorkerInv
<1>24. ASSUME CallOff, UNCHANGED sources PROVE WorkerInv'
  BY <1>24, Zenon DEF CallOff,
      WorkerInv, FieldTypes, Places, Signalled, WorkWakes, DeviceWakes, Coming,
      Registered, Armed
<1>25. ASSUME SwitchOut, UNCHANGED sources PROVE WorkerInv'
  <2>1. FieldTypes'
    BY <1>25, Zenon DEF SwitchOut, WorkerInv, FieldTypes
  <2>2. Places'
    BY <1>25, Zenon DEF SwitchOut, WorkerInv, FieldTypes, Places
  <2>3. Signalled'
    BY <1>25, Zenon DEF SwitchOut, WorkerInv, FieldTypes, Signalled
  <2>4. WorkWakes'
    BY <1>25, Zenon DEF SwitchOut, WorkerInv, FieldTypes, WorkWakes, Places, Coming
  <2>5. DeviceWakes'
    BY <1>25, Zenon DEF SwitchOut, WorkerInv, FieldTypes, DeviceWakes, Places, Coming
  <2>6. Registered'
    BY <1>25, Zenon DEF SwitchOut, WorkerInv, FieldTypes, Registered
  <2>7. Armed'
    BY <1>25, Zenon DEF SwitchOut, WorkerInv, FieldTypes, Armed
  <2> QED BY <2>1, <2>2, <2>3, <2>4, <2>5, <2>6, <2>7, Zenon DEF WorkerInv
<1>26. ASSUME Dispatch, UNCHANGED sources PROVE WorkerInv'
  BY <1>26, Zenon DEF Dispatch,
      WorkerInv, FieldTypes, Places, Signalled, WorkWakes, DeviceWakes, Coming,
      Registered, Armed
<1>27. ASSUME EndSleep, UNCHANGED sources PROVE WorkerInv'
  BY <1>27, Zenon DEF EndSleep,
      WorkerInv, FieldTypes, Places, Signalled, WorkWakes, DeviceWakes, Coming,
      Registered, Armed
<1>28. ASSUME FireExpired, UNCHANGED sources PROVE WorkerInv'
  <2>1. FieldTypes'
    BY <1>28 DEF FireExpired, Waking, WorkerInv, FieldTypes
  <2>2. Places'
    BY <1>28, Zenon DEF FireExpired, Waking, WorkerInv, FieldTypes, Places
  <2>3. Signalled'
    BY <1>28, Zenon DEF FireExpired, Waking, WorkerInv, FieldTypes, Signalled
  <2>4. WorkWakes'
    BY <1>28, Zenon DEF FireExpired, Waking, WorkerInv, FieldTypes, WorkWakes, Places, Coming
  <2>5. DeviceWakes'
    BY <1>28, Zenon DEF FireExpired, Waking, WorkerInv, FieldTypes, DeviceWakes, Places, Coming
  <2>6. Registered'
    BY <1>28 DEF FireExpired, Waking, WorkerInv, FieldTypes, Registered
  <2>7. Armed'
    BY <1>28, Zenon DEF FireExpired, Waking, WorkerInv, FieldTypes, Armed
  <2> QED BY <2>1, <2>2, <2>3, <2>4, <2>5, <2>6, <2>7, Zenon DEF WorkerInv
<1>29. ASSUME ClaimRegistration, UNCHANGED sources PROVE WorkerInv'
  <2>1. FieldTypes'
    BY <1>29 DEF ClaimRegistration, Waking, WorkerInv, FieldTypes
  <2>2. Places'
    BY <1>29, Zenon DEF ClaimRegistration, Waking, WorkerInv, FieldTypes, Places
  <2>3. Signalled'
    BY <1>29, Zenon DEF ClaimRegistration, Waking, WorkerInv, FieldTypes, Signalled
  <2>4. WorkWakes'
    BY <1>29, Zenon DEF ClaimRegistration, Waking, WorkerInv, FieldTypes, WorkWakes, Places, Coming
  <2>5. DeviceWakes'
    BY <1>29, Zenon DEF ClaimRegistration, Waking, WorkerInv, FieldTypes, DeviceWakes, Places, Coming
  <2>6. Registered'
    BY <1>29, Zenon DEF ClaimRegistration, Waking, WorkerInv, FieldTypes, Registered
  <2>7. Armed'
    BY <1>29, Zenon DEF ClaimRegistration, Waking, WorkerInv, FieldTypes, Armed
  <2> QED BY <2>1, <2>2, <2>3, <2>4, <2>5, <2>6, <2>7, Zenon DEF WorkerInv
<1>30. ASSUME ClearDeadlineNs, UNCHANGED sources PROVE WorkerInv'
  <2>1. FieldTypes'
    BY <1>30, Zenon DEF ClearDeadlineNs, Waking, WorkerInv, FieldTypes
  <2>2. Places'
    BY <1>30, Zenon DEF ClearDeadlineNs, Waking, WorkerInv, FieldTypes, Places
  <2>3. Signalled'
    BY <1>30, Zenon DEF ClearDeadlineNs, Waking, WorkerInv, FieldTypes, Signalled
  <2>4. WorkWakes'
    BY <1>30, Zenon DEF ClearDeadlineNs, Waking, WorkerInv, FieldTypes, WorkWakes, Places, Coming
  <2>5. DeviceWakes'
    BY <1>30, Zenon DEF ClearDeadlineNs, Waking, WorkerInv, FieldTypes, DeviceWakes, Places, Coming
  <2>6. Registered'
    BY <1>30, Zenon DEF ClearDeadlineNs, Waking, WorkerInv, FieldTypes, Registered
  <2>7. Armed'
    BY <1>30, Zenon DEF ClearDeadlineNs, Waking, WorkerInv, FieldTypes, Armed
  <2> QED BY <2>1, <2>2, <2>3, <2>4, <2>5, <2>6, <2>7, Zenon DEF WorkerInv
<1>31. ASSUME SetTimerFired, UNCHANGED sources PROVE WorkerInv'
  <2>1. FieldTypes'
    BY <1>31, Zenon DEF SetTimerFired, Waking, WorkerInv, FieldTypes
  <2>2. Places'
    BY <1>31, Zenon DEF SetTimerFired, Waking, WorkerInv, FieldTypes, Places
  <2>3. Signalled'
    BY <1>31, Zenon DEF SetTimerFired, Waking, WorkerInv, FieldTypes, Signalled
  <2>4. WorkWakes'
    BY <1>31, Zenon DEF SetTimerFired, Waking, WorkerInv, FieldTypes, WorkWakes, Places, Coming
  <2>5. DeviceWakes'
    BY <1>31, Zenon DEF SetTimerFired, Waking, WorkerInv, FieldTypes, DeviceWakes, Places, Coming
  <2>6. Registered'
    BY <1>31, Zenon DEF SetTimerFired, Waking, WorkerInv, FieldTypes, Registered
  <2>7. Armed'
    BY <1>31, Zenon DEF SetTimerFired, Waking, WorkerInv, FieldTypes, Armed
  <2> QED BY <2>1, <2>2, <2>3, <2>4, <2>5, <2>6, <2>7, Zenon DEF WorkerInv
<1>32. ASSUME RemoveFired, UNCHANGED sources PROVE WorkerInv'
  <2>1. FieldTypes'
    BY <1>32 DEF RemoveFired, Waking, Without, WorkerInv, FieldTypes
  <2>2. Places'
    BY <1>32, Zenon DEF RemoveFired, Waking, Without, WorkerInv, FieldTypes, Places
  <2>3. Signalled'
    BY <1>32, Zenon DEF RemoveFired, Waking, Without, WorkerInv, FieldTypes, Signalled
  <2>4. WorkWakes'
    BY <1>32, Zenon DEF RemoveFired, Waking, Without, WorkerInv, FieldTypes, WorkWakes, Places, Coming
  <2>5. DeviceWakes'
    BY <1>32, Zenon DEF RemoveFired, Waking, Without, WorkerInv, FieldTypes, DeviceWakes, Places, Coming
  <2>6. Registered'
    BY <1>32 DEF RemoveFired, Waking, Without, WorkerInv, FieldTypes, Registered
  <2>7. Armed'
    <3>1. registration # firing /\ wpc[Timer] = "done"
      BY <1>32, Zenon DEF RemoveFired, Waking, WorkerInv, Registered
    <3> QED BY <1>32, <3>1, Zenon DEF RemoveFired, Waking, Without, WorkerInv, FieldTypes, Armed
  <2> QED BY <2>1, <2>2, <2>3, <2>4, <2>5, <2>6, <2>7, Zenon DEF WorkerInv
<1>33. ASSUME IrqAcknowledge, UNCHANGED sources PROVE WorkerInv'
  <2>1. FieldTypes'
    BY <1>33, Zenon DEF IrqAcknowledge, WorkerInv, FieldTypes
  <2>2. Places'
    BY <1>33, Zenon DEF IrqAcknowledge, WorkerInv, FieldTypes, Places
  <2>3. Signalled'
    BY <1>33, Zenon DEF IrqAcknowledge, WorkerInv, FieldTypes, Signalled
  <2>4. WorkWakes'
    BY <1>33, Zenon DEF IrqAcknowledge, WorkerInv, FieldTypes, WorkWakes, Places, Coming
  <2>5. DeviceWakes'
    BY <1>33, Zenon DEF IrqAcknowledge, WorkerInv, FieldTypes, DeviceWakes, Places, Coming
  <2>6. Registered'
    BY <1>33, Zenon DEF IrqAcknowledge, WorkerInv, FieldTypes, Registered
  <2>7. Armed'
    BY <1>33, Zenon DEF IrqAcknowledge, WorkerInv, FieldTypes, Armed
  <2> QED BY <2>1, <2>2, <2>3, <2>4, <2>5, <2>6, <2>7, Zenon DEF WorkerInv
<1>34. ASSUME IrqMask, UNCHANGED sources PROVE WorkerInv'
  <2>1. FieldTypes'
    BY <1>34, Zenon DEF IrqMask, WorkerInv, FieldTypes
  <2>2. Places'
    BY <1>34, Zenon DEF IrqMask, WorkerInv, FieldTypes, Places
  <2>3. Signalled'
    BY <1>34, Zenon DEF IrqMask, WorkerInv, FieldTypes, Signalled
  <2>4. WorkWakes'
    BY <1>34, Zenon DEF IrqMask, WorkerInv, FieldTypes, WorkWakes, Places, Coming
  <2>5. DeviceWakes'
    BY <1>34, Zenon DEF IrqMask, WorkerInv, FieldTypes, DeviceWakes, Places, Coming
  <2>6. Registered'
    BY <1>34, Zenon DEF IrqMask, WorkerInv, FieldTypes, Registered
  <2>7. Armed'
    BY <1>34, Zenon DEF IrqMask, WorkerInv, FieldTypes, Armed
  <2> QED BY <2>1, <2>2, <2>3, <2>4, <2>5, <2>6, <2>7, Zenon DEF WorkerInv
<1>35. ASSUME IrqLatch, UNCHANGED sources PROVE WorkerInv'
  <2>1. FieldTypes'
    BY <1>35, Zenon DEF IrqLatch, WorkerInv, FieldTypes
  <2>2. Places'
    BY <1>35, Zenon DEF IrqLatch, WorkerInv, FieldTypes, Places
  <2>3. Signalled'
    BY <1>35, Zenon DEF IrqLatch, WorkerInv, FieldTypes, Signalled
  <2>4. WorkWakes'
    BY <1>35, Zenon DEF IrqLatch, WorkerInv, FieldTypes, WorkWakes, Places, Coming
  <2>5. DeviceWakes'
    BY <1>35, Zenon DEF IrqLatch, WorkerInv, FieldTypes, DeviceWakes, Places, Coming
  <2>6. Registered'
    BY <1>35, Zenon DEF IrqLatch, WorkerInv, FieldTypes, Registered
  <2>7. Armed'
    BY <1>35, Zenon DEF IrqLatch, WorkerInv, FieldTypes, Armed
  <2> QED BY <2>1, <2>2, <2>3, <2>4, <2>5, <2>6, <2>7, Zenon DEF WorkerInv
<1>36. ASSUME IrqWake, UNCHANGED sources PROVE WorkerInv'
  <2>1. FieldTypes'
    BY <1>36, Zenon DEF IrqWake, WorkerInv, FieldTypes
  <2>2. Places'
    BY <1>36, Zenon DEF IrqWake, WorkerInv, FieldTypes, Places
  <2>3. Signalled'
    BY <1>36, Zenon DEF IrqWake, WorkerInv, FieldTypes, Signalled
  <2>4. WorkWakes'
    BY <1>36, Zenon DEF IrqWake, WorkerInv, FieldTypes, WorkWakes, Places, Coming
  <2>5. DeviceWakes'
    BY <1>36, Zenon DEF IrqWake, WorkerInv, FieldTypes, DeviceWakes, Places, Coming
  <2>6. Registered'
    BY <1>36, Zenon DEF IrqWake, WorkerInv, FieldTypes, Registered
  <2>7. Armed'
    BY <1>36, Zenon DEF IrqWake, WorkerInv, FieldTypes, Armed
  <2> QED BY <2>1, <2>2, <2>3, <2>4, <2>5, <2>6, <2>7, Zenon DEF WorkerInv
<1>37. ASSUME DrainDeferred, UNCHANGED sources PROVE WorkerInv'
  <2>1. FieldTypes'
    BY <1>37, Zenon DEF DrainDeferred, Waking, WorkerInv, FieldTypes
  <2>2. Places'
    BY <1>37, Zenon DEF DrainDeferred, Waking, WorkerInv, FieldTypes, Places
  <2>3. Signalled'
    BY <1>37, Zenon DEF DrainDeferred, Waking, WorkerInv, FieldTypes, Signalled
  <2>4. WorkWakes'
    BY <1>37, Zenon DEF DrainDeferred, Waking, WorkerInv, FieldTypes, WorkWakes, Places, Coming
  <2>5. DeviceWakes'
    BY <1>37, Zenon DEF DrainDeferred, Waking, WorkerInv, FieldTypes, DeviceWakes, Places, Coming
  <2>6. Registered'
    BY <1>37, Zenon DEF DrainDeferred, Waking, WorkerInv, FieldTypes, Registered
  <2>7. Armed'
    BY <1>37, Zenon DEF DrainDeferred, Waking, WorkerInv, FieldTypes, Armed
  <2> QED BY <2>1, <2>2, <2>3, <2>4, <2>5, <2>6, <2>7, Zenon DEF WorkerInv
<1>38. ASSUME DeviceCompletes, UNCHANGED sources PROVE WorkerInv'
  <2>1. FieldTypes'
    BY <1>38, Zenon DEF DeviceCompletes, WorkerInv, FieldTypes
  <2>2. Places'
    BY <1>38, Zenon DEF DeviceCompletes, WorkerInv, FieldTypes, Places
  <2>3. Signalled'
    BY <1>38, Zenon DEF DeviceCompletes, WorkerInv, FieldTypes, Signalled
  <2>4. WorkWakes'
    BY <1>38, Zenon DEF DeviceCompletes, WorkerInv, FieldTypes, WorkWakes, Places, Coming
  <2>5. DeviceWakes'
    BY <1>38, Zenon DEF DeviceCompletes, WorkerInv, FieldTypes, DeviceWakes, Places, Coming
  <2>6. Registered'
    BY <1>38, Zenon DEF DeviceCompletes, WorkerInv, FieldTypes, Registered
  <2>7. Armed'
    BY <1>38, Zenon DEF DeviceCompletes, WorkerInv, FieldTypes, Armed
  <2> QED BY <2>1, <2>2, <2>3, <2>4, <2>5, <2>6, <2>7, Zenon DEF WorkerInv
<1>39. ASSUME NEW w \in Waker, PublishWork(w), UNCHANGED sources PROVE WorkerInv'
  <2>1. FieldTypes'
    BY <1>39, Zenon DEF PublishWork, Waking, WorkerInv, FieldTypes
  <2>2. Places'
    BY <1>39, Zenon DEF PublishWork, Waking, WorkerInv, FieldTypes, Places
  <2>3. Signalled'
    BY <1>39, Zenon DEF PublishWork, Waking, WorkerInv, FieldTypes, Signalled
  <2>4. WorkWakes'
    BY <1>39, Zenon DEF PublishWork, Waking, WorkerInv, FieldTypes, WorkWakes, Places, Coming
  <2>5. DeviceWakes'
    BY <1>39, Zenon DEF PublishWork, Waking, WorkerInv, FieldTypes, DeviceWakes, Places, Coming
  <2>6. Registered'
    BY <1>39, Zenon DEF PublishWork, Waking, WorkerInv, FieldTypes, Registered
  <2>7. Armed'
    BY <1>39, Zenon DEF PublishWork, Waking, WorkerInv, FieldTypes, Armed
  <2> QED BY <2>1, <2>2, <2>3, <2>4, <2>5, <2>6, <2>7, Zenon DEF WorkerInv
<1>40. ASSUME NEW w \in Waker, TestState(w), UNCHANGED sources PROVE WorkerInv'
  <2>1. FieldTypes'
    BY <1>40, Zenon DEF TestState, Waking, WorkerInv, FieldTypes
  <2>2. Places'
    BY <1>40, Zenon DEF TestState, Waking, WorkerInv, FieldTypes, Places
  <2>3. Signalled'
    BY <1>40, Zenon DEF TestState, Waking, WorkerInv, FieldTypes, Signalled
  <2>4. WorkWakes'
    BY <1>40, Zenon DEF TestState, Waking, WorkerInv, FieldTypes, WorkWakes, Places, Coming
  <2>5. DeviceWakes'
    BY <1>40, Zenon DEF TestState, Waking, WorkerInv, FieldTypes, DeviceWakes, Places, Coming
  <2>6. Registered'
    BY <1>40, Zenon DEF TestState, Waking, WorkerInv, FieldTypes, Registered
  <2>7. Armed'
    BY <1>40, Zenon DEF TestState, Waking, WorkerInv, FieldTypes, Armed
  <2> QED BY <2>1, <2>2, <2>3, <2>4, <2>5, <2>6, <2>7, Zenon DEF WorkerInv
<1>41. ASSUME NEW w \in Waker, EnqueueOwner(w), UNCHANGED sources PROVE WorkerInv'
  <2>1. FieldTypes'
    BY <1>41, Zenon DEF EnqueueOwner, Waking, WorkerInv, FieldTypes
  <2>2. Places'
    BY <1>41, Zenon DEF EnqueueOwner, Waking, WorkerInv, FieldTypes, Places
  <2>3. Signalled'
    BY <1>41, Zenon DEF EnqueueOwner, Waking, WorkerInv, FieldTypes, Signalled
  <2>4. WorkWakes'
    BY <1>41, Zenon DEF EnqueueOwner, Waking, WorkerInv, FieldTypes, WorkWakes, Places, Coming
  <2>5. DeviceWakes'
    BY <1>41, Zenon DEF EnqueueOwner, Waking, WorkerInv, FieldTypes, DeviceWakes, Places, Coming
  <2>6. Registered'
    BY <1>41, Zenon DEF EnqueueOwner, Waking, WorkerInv, FieldTypes, Registered
  <2>7. Armed'
    BY <1>41, Zenon DEF EnqueueOwner, Waking, WorkerInv, FieldTypes, Armed
  <2> QED BY <2>1, <2>2, <2>3, <2>4, <2>5, <2>6, <2>7, Zenon DEF WorkerInv
<1>42. ASSUME NEW p \in Producer, PushReserve(p), UNCHANGED sources PROVE WorkerInv'
  <2>1. FieldTypes'
    BY <1>42, Zenon DEF PushReserve, Waking, Reserve, WorkerInv, FieldTypes
  <2>2. Places'
    BY <1>42, Zenon DEF PushReserve, Waking, Reserve, WorkerInv, FieldTypes, Places
  <2>3. Signalled'
    BY <1>42, Zenon DEF PushReserve, Waking, Reserve, WorkerInv, FieldTypes, Signalled
  <2>4. WorkWakes'
    BY <1>42, Zenon DEF PushReserve, Waking, Reserve, WorkerInv, FieldTypes, WorkWakes, Places, Coming
  <2>5. DeviceWakes'
    BY <1>42, Zenon DEF PushReserve, Waking, Reserve, WorkerInv, FieldTypes, DeviceWakes, Places, Coming
  <2>6. Registered'
    BY <1>42, Zenon DEF PushReserve, Waking, Reserve, WorkerInv, FieldTypes, Registered
  <2>7. Armed'
    BY <1>42, Zenon DEF PushReserve, Waking, Reserve, WorkerInv, FieldTypes, Armed
  <2> QED BY <2>1, <2>2, <2>3, <2>4, <2>5, <2>6, <2>7, Zenon DEF WorkerInv
<1>43. ASSUME NEW p \in Producer, PushRefused(p), UNCHANGED sources PROVE WorkerInv'
  <2>1. FieldTypes'
    BY <1>43, Zenon DEF PushRefused, Waking, WorkerInv, FieldTypes
  <2>2. Places'
    BY <1>43, Zenon DEF PushRefused, Waking, WorkerInv, FieldTypes, Places
  <2>3. Signalled'
    BY <1>43, Zenon DEF PushRefused, Waking, WorkerInv, FieldTypes, Signalled
  <2>4. WorkWakes'
    BY <1>43, Zenon DEF PushRefused, Waking, WorkerInv, FieldTypes, WorkWakes, Places, Coming
  <2>5. DeviceWakes'
    BY <1>43, Zenon DEF PushRefused, Waking, WorkerInv, FieldTypes, DeviceWakes, Places, Coming
  <2>6. Registered'
    BY <1>43, Zenon DEF PushRefused, Waking, WorkerInv, FieldTypes, Registered
  <2>7. Armed'
    BY <1>43, Zenon DEF PushRefused, Waking, WorkerInv, FieldTypes, Armed
  <2> QED BY <2>1, <2>2, <2>3, <2>4, <2>5, <2>6, <2>7, Zenon DEF WorkerInv
<1>44. ASSUME NEW p \in Producer, PushFill(p), UNCHANGED sources PROVE WorkerInv'
  <2>1. FieldTypes'
    BY <1>44, Zenon DEF PushFill, Waking, Fill, WorkerInv, FieldTypes
  <2>2. Places'
    BY <1>44, Zenon DEF PushFill, Waking, Fill, WorkerInv, FieldTypes, Places
  <2>3. Signalled'
    BY <1>44, Zenon DEF PushFill, Waking, Fill, WorkerInv, FieldTypes, Signalled
  <2>4. WorkWakes'
    BY <1>44, Zenon DEF PushFill, Waking, Fill, WorkerInv, FieldTypes, WorkWakes, Places, Coming
  <2>5. DeviceWakes'
    BY <1>44, Zenon DEF PushFill, Waking, Fill, WorkerInv, FieldTypes, DeviceWakes, Places, Coming
  <2>6. Registered'
    BY <1>44, Zenon DEF PushFill, Waking, Fill, WorkerInv, FieldTypes, Registered
  <2>7. Armed'
    BY <1>44, Zenon DEF PushFill, Waking, Fill, WorkerInv, FieldTypes, Armed
  <2> QED BY <2>1, <2>2, <2>3, <2>4, <2>5, <2>6, <2>7, Zenon DEF WorkerInv
<1>45. CASE UNCHANGED workerVars
  <2>1. FieldTypes' /\ Places'
    BY <1>45, Zenon DEF workerVars, WorkerInv, FieldTypes, Places
  <2>2. Signalled' /\ WorkWakes'
    BY <1>45, Zenon DEF workerVars, WorkerInv, Signalled, WorkWakes, Coming
  <2>3. DeviceWakes'
    BY <1>45, Zenon DEF workerVars, WorkerInv, DeviceWakes, Coming
  <2>4. Registered' /\ Armed'
    BY <1>45, Zenon DEF workerVars, WorkerInv, Registered, Armed
  <2> QED BY <2>1, <2>2, <2>3, <2>4, Zenon DEF WorkerInv
<1> QED
  BY <1>1, <1>2, <1>3, <1>4, <1>5, <1>6, <1>7, <1>8, <1>9, <1>10, <1>11, <1>12, <1>13,
      <1>14, <1>15, <1>16, <1>17, <1>18, <1>19, <1>20, <1>21, <1>22, <1>23, <1>24,
      <1>25, <1>26, <1>27, <1>28, <1>29, <1>30, <1>31, <1>32, <1>33, <1>34, <1>35,
      <1>36, <1>37, <1>38, <1>39, <1>40, <1>41, <1>42, <1>43, <1>44, <1>45, Zenon
      DEF WorkerNext, Worker, Turn, Sleep, TimerInterrupt, DeviceInterrupt, DeferredWakes, WakeOwner,
          Push, FinishPush, Waker

\* The invariant holds throughout.
LEMMA WorkerInvHolds == WorkerSpec => []WorkerInv
  BY WorkerInvInit, WorkerInvStep, PTL DEF WorkerSpec

\* sleep_until_work never leaves the worker asleep beside an entry in its ring,
\* a fired timer or a completion of its device queue without a wake-up on the
\* way, whatever arrives between its last look and the switch.
THEOREM WorkerSleepsWithoutWork == WorkerSpec => []NeverSleepsOnWork
<1>1. WorkerInv => NeverSleepsOnWork
  BY Zenon DEF WorkerInv, Signalled, WorkWakes, DeviceWakes, Coming, PastSignal, PastLatch,
      PastUnmask, PastTimer, PastRing, NeverSleepsOnWork, Asleep, WakeComing, Waker
<1> QED
  BY <1>1, WorkerInvHolds, PTL

\* A worker that sleeps with a deadline outstanding has an observer for it, or
\* its timer is firing: arm_timer and deadline_expired lose no deadline in
\* their race over deadline_registration and deadline_ns.
THEOREM DeadlineArmed == WorkerSpec => []DeadlineIsArmed
<1>1. WorkerInv => DeadlineIsArmed
  BY Zenon DEF WorkerInv, Signalled, WorkWakes, Armed, Coming, PastSignal, PastLatch,
      PastUnmask, PastTimer, DeadlineIsArmed, Asleep, WakeComing, Waker
<1> QED
  BY <1>1, WorkerInvHolds, PTL

=============================================================================
