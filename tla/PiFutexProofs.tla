--------------------------- MODULE PiFutexProofs ---------------------------
(***************************************************************************)
(* The PI futexes keep their word truthful and lose no wake-up, for every  *)
(* number of tasks and words, every assignment of words to tasks, every    *)
(* choice of urgent, timed, mortal and robust tasks.                       *)
(*                                                                         *)
(* The inductive invariant PiInv says, word by word, what the word and the *)
(* table's entry agree on (WordInv), and task by task what its call, its   *)
(* wait, its exit and its locks rest on (CallInv, WaitInv, ExitInv,        *)
(* HoldInv).  WaitInv is the heart: a waiter is queued, or handed the      *)
(* lock and about to be marked woken, or marked woken, and exactly one     *)
(* of these.  A step of one task on one word leaves the predicates of the  *)
(* others alone (TaskFrame, WordFrame), so each action is proved for the   *)
(* task and the word it is about.                                          *)
(*                                                                         *)
(* That no ring of waiters closes is proved on top of PiInv.  Only         *)
(* pi_enqueue_waiter adds an edge from a waiter to an owner; every other   *)
(* step is Calm.  A walk through a ring that does not come to the new      *)
(* waiter comes back on itself by the pigeonhole principle, so that a ring *)
(* was there before.                                                       *)
(***************************************************************************)
EXTENDS PiFutex, ListProofs, FiniteSetTheorems

WordType == [tid : PiTask \cup {Nobody}, waiters : BOOLEAN, died : BOOLEAN]
PiPc == {"user", "lock", "register", "enqueue", "wait", "mark", "check", "yield",
         "exit", "robust", "robust cas", "zombie", "reaped"}

\* The values of the variables.
PiTypes ==
    /\ word \in [PiWord -> WordType]
    /\ ptable \in [PiWord -> [owner : PiTask \cup {Nobody}, waiters : Seq(PiTask)]]
    /\ wstate \in [PiTask -> {"armed", "sleeping", "woken"}]
    /\ prun \in [PiTask -> {"running", "sleeping"}]
    /\ pstop \subseteq PiTask
    /\ ppc \in [PiTask -> PiPc]
    /\ goal \in [PiTask -> PiWord \cup {NoWord}]
    /\ held \in [PiTask -> SUBSET PiWord]
    /\ handing \in [PiTask -> PiTask \cup {Nobody}]
    /\ kicking \in [PiTask -> PiTask \cup {Nobody}]
    /\ dying \in [PiTask -> [owned : SUBSET PiWord, robust : SUBSET PiWord, seen : WordType]]

Exited == {"exit", "robust", "robust cas", "zombie", "reaped"}
InQueue(t) == \E w \in PiWord : t \in Queued(w)
Handed(t) == \E u \in PiTask : handing[u] = t
Kicked(t) == \E u \in PiTask : kicking[u] = t

\* Waiters of w: its queue holds each once, its word says whether there are
\* any and then names the owner the table has.
WordInv(w) ==
    /\ IsInjective(ptable[w].waiters)
    /\ \A t \in Queued(w) : goal[t] = w /\ ppc[t] \in Waiting /\ word[w].tid # t
    /\ word[w].waiters = (Queued(w) # {})
    /\ Queued(w) # {} => word[w].tid = ptable[w].owner /\ word[w].tid # Nobody

\* The call of t: the word it is about is not one its user code holds.
CallInv(t) ==
    /\ ppc[t] \in Waiting \cup {"lock", "register", "enqueue"}
           => goal[t] \in PiWord /\ goal[t] \notin held[t]
    /\ ppc[t] = "register" => word[goal[t]].tid = t

\* The wait of t: it is queued; or the word names it, and a hand-off has yet to
\* mark it woken, or has.  Switched out, it has a wake-up coming in each case.
WaitInv(t) ==
    /\ ppc[t] \in Waiting =>
           \/ InQueue(t) /\ ~Handed(t) /\ wstate[t] # "woken"
           \/ ~InQueue(t) /\ word[goal[t]].tid = t /\ Handed(t) /\ wstate[t] # "woken"
           \/ ~InQueue(t) /\ word[goal[t]].tid = t /\ ~Handed(t) /\ wstate[t] = "woken"
    /\ ppc[t] \in {"check", "yield"} => wstate[t] # "armed"
    /\ ppc[t] = "yield" /\ prun[t] = "sleeping" => InQueue(t) \/ Handed(t) \/ Kicked(t)

\* The exit of t: the word it recovers still names it, and if it goes on to the
\* compare-exchange it has read no FUTEX_WAITERS.
ExitInv(t) ==
    /\ ppc[t] \in Exited => held[t] = {}
    /\ ppc[t] \in {"robust", "robust cas"} => goal[t] \in PiWord /\ word[goal[t]].tid = t
    /\ ppc[t] = "robust" /\ dying[t].seen.waiters = TRUE => ptable[goal[t]].owner = t
    /\ ppc[t] = "robust cas" => dying[t].seen.waiters = FALSE

\* What t holds names it, and what names it t knows of.
HoldInv(t) ==
    \A w \in PiWord :
        /\ w \in held[t] => word[w].tid = t
        /\ word[w].tid = t /\ ppc[t] \notin Exited =>
               \/ w \in held[t]
               \/ goal[t] = w /\ ppc[t] \in {"register"} \cup Waiting

TaskInv(t) == CallInv(t) /\ WaitInv(t) /\ ExitInv(t) /\ HoldInv(t)

\* A hand-off under way is to one task, which waits for it.
HandInv ==
    /\ \A u \in PiTask : handing[u] # Nobody =>
           kicking[u] = Nobody /\ ppc[handing[u]] \in Waiting
    /\ \A u, v \in PiTask : handing[u] # Nobody /\ handing[u] = handing[v] => u = v

PiInv ==
    /\ PiTypes
    /\ \A w \in PiWord : WordInv(w)
    /\ \A t \in PiTask : TaskInv(t)
    /\ HandInv

\* A queue with nobody in it is a queue.
LEMMA EmptyIsSeq ==
    <<>> \in Seq(PiTask)
OBVIOUS

\* pop_best_waiter picks a position of the queue.
LEMMA BestIndexIn ==
    ASSUME NEW q \in Seq(PiTask), q # <<>>
    PROVE  BestIndex(q) \in 1 .. Len(q)
<1>1. CASE Range(q) \cap Urgent = {}
  BY <1>1 DEF BestIndex
<1>2. CASE Range(q) \cap Urgent # {}
  <2>1. \E i \in 1 .. Len(q) : q[i] \in Urgent
    BY <1>2 DEF Range
  <2>2. FirstIn(q, Urgent) \in 1 .. Len(q)
    BY <2>1, FirstInFacts, Zenon
  <2> QED BY <1>2, <2>2, Zenon DEF BestIndex
<1> QED BY <1>1, <1>2, Zenon

\* No task is queued exactly when the list of waiters is empty.
LEMMA EmptyQueue ==
    ASSUME NEW q \in Seq(PiTask)
    PROVE  q = <<>> <=> Range(q) = {}
<1>1. q # <<>> => q[1] \in Range(q)
  BY DEF Range
<1>2. Range(<<>>) = {}
  BY DEF Range
<1> QED BY <1>1, <1>2, Zenon

\* The hand-over passes w to a waiter of its queue.
LEMMA HandOverFacts ==
    ASSUME NEW w \in PiWord, NEW died \in BOOLEAN, PiTypes, WordInv(w),
           ptable[w].waiters # <<>>, HandOver(w, died)
    PROVE  \E next \in PiTask, rest \in Seq(PiTask) :
              /\ next = BestWaiter(ptable[w].waiters)
              /\ next \in Queued(w)
              /\ IsInjective(rest) /\ Range(rest) = Queued(w) \ {next}
              /\ word' = [word EXCEPT ![w] = [tid |-> next, waiters |-> rest # <<>>, died |-> died]]
              /\ ptable' = [ptable EXCEPT ![w] = [owner |-> next, waiters |-> rest]]
<1> DEFINE q == ptable[w].waiters
           k == BestIndex(q)
           rest == RemoveIndex(q, k)
<1>1. q \in Seq(PiTask) /\ IsInjective(q)
  BY Zenon DEF PiTypes, WordInv
<1>2. k \in 1 .. Len(q)
  <2> HIDE DEF q
  <2> QED BY <1>1, BestIndexIn, Zenon DEF q
<1>3. /\ rest \in Seq(PiTask) /\ IsInjective(rest)
      /\ Range(rest) = Range(q) \ {q[k]}
  <2> HIDE DEF q, k
  <2> QED BY <1>1, <1>2, RemoveIndexFacts
<1>4. q[k] \in PiTask /\ q[k] \in Range(q)
  <2> HIDE DEF q, k
  <2> QED BY <1>1, <1>2 DEF Range
<1>5. /\ word' = [word EXCEPT ![w] = [tid |-> q[k], waiters |-> rest # <<>>, died |-> died]]
      /\ ptable' = [ptable EXCEPT ![w] = [owner |-> q[k], waiters |-> rest]]
  BY Zenon DEF HandOver, BestWaiter
<1> HIDE DEF k, rest
<1> QED BY <1>3, <1>4, <1>5, Zenon DEF BestWaiter, Queued, k


\* The queue of a word holds tasks.
LEMMA QueuedTasks == PiTypes => \A w \in PiWord : Queued(w) \subseteq PiTask
  BY DEF PiTypes, Queued, Range

\* The initial state: no word is locked and no task waits.
LEMMA PiInitInv == PiInit => PiInv
<1> SUFFICES ASSUME PiInit PROVE PiInv
  BY Zenon
<1>1. PiTypes
  BY DEF PiInit, PiTypes, PiPc, WordType, Free, NoEntry, Nobody
<1>2. \A w \in PiWord : Queued(w) = {} /\ IsInjective(ptable[w].waiters)
  BY DEF PiInit, Queued, NoEntry, Range, IsInjective
<1>3. \A w \in PiWord : WordInv(w)
  BY <1>2, Zenon DEF PiInit, WordInv, Free
<1>4. \A t \in PiTask : TaskInv(t)
  BY PiAssumption, Zenon DEF PiInit, TaskInv, CallInv, WaitInv, ExitInv, HoldInv, Waiting, Exited, Free, Nobody
<1>5. HandInv
  BY Zenon DEF PiInit, HandInv
<1> QED BY <1>1, <1>3, <1>4, <1>5, Zenon DEF PiInv

\* The properties follow.
LEMMA PiInvImplies == PiInv => WordIsTrue /\ NoLostPiWakeup /\ PiTypeOK
<1> SUFFICES ASSUME PiInv PROVE WordIsTrue /\ NoLostPiWakeup /\ PiTypeOK
  BY Zenon
<1>0. \A t \in PiTask : TaskInv(t) /\ (InQueue(t) => t \in Queued(goal[t]) /\ word[goal[t]].tid # t)
  BY DEF PiInv, WordInv, InQueue
<1>1. OwnerKnows
  <2>0. SUFFICES ASSUME NEW w \in PiWord, NEW t \in Alive, word[w].tid = t,
                        ppc[t] \notin {"exit", "robust", "robust cas"}
                 PROVE  \/ w \in held[t]
                        \/ goal[t] = w /\ ppc[t] = "register"
                        \/ /\ goal[t] = w /\ ppc[t] \in Waiting
                           /\ wstate[t] = "woken" \/ \E u \in PiTask : handing[u] = t
    BY Zenon DEF OwnerKnows
  <2>1. t \in PiTask /\ ppc[t] \notin Exited
    BY <2>0, Zenon DEF Alive, Exited
  <2>2. w \in held[t] \/ (goal[t] = w /\ ppc[t] \in {"register"} \cup Waiting)
    BY <1>0, <2>0, <2>1, Zenon DEF TaskInv, HoldInv
  <2>3. goal[t] = w => ~InQueue(t)
    BY <1>0, <2>0, <2>1, Zenon
  <2> QED BY <1>0, <2>1, <2>2, <2>3, Zenon DEF TaskInv, WaitInv, Handed
<1>2. NoLostPiWakeup
  BY <1>0, Zenon DEF NoLostPiWakeup, TaskInv, WaitInv, Handed, Kicked
<1>3. HolderIsOwner
  BY <1>0, Zenon DEF HolderIsOwner, TaskInv, HoldInv, PiInv, PiTypes
<1>4. WaitersAreVisible
  <2> SUFFICES ASSUME NEW w \in PiWord, ptable[w].waiters # <<>>
               PROVE  word[w].waiters /\ word[w].tid = ptable[w].owner /\ word[w].tid # Nobody
    BY Zenon DEF WaitersAreVisible
  <2>1. Queued(w) # {}
    BY EmptyQueue, Zenon DEF PiInv, PiTypes, Queued
  <2> QED BY <2>1, Zenon DEF PiInv, WordInv
<1>5. PiTypeOK
  <2>1. \A w \in PiWord : ptable[w].owner \in PiTask \cup {Nobody}
    BY Zenon DEF PiInv, PiTypes
  <2> QED BY <2>1, Zenon DEF PiInv, PiTypes, WordType, PiTypeOK, WordInv
<1> QED BY <1>1, <1>2, <1>3, <1>4, <1>5, Zenon DEF WordIsTrue

-----------------------------------------------------------------------------
\* Nothing that TaskInv says of u changes.
SameTask(u) ==
    /\ ppc'[u] = ppc[u] /\ goal'[u] = goal[u] /\ held'[u] = held[u]
    /\ wstate'[u] = wstate[u] /\ prun'[u] = prun[u] /\ dying'[u] = dying[u]

\* What a task's predicates rest on: a step that leaves all of it alone keeps them.
LEMMA TaskFrame ==
    ASSUME NEW u \in PiTask, TaskInv(u), SameTask(u),
           \A w \in PiWord : word'[w].tid = u <=> word[w].tid = u,
           \A w \in PiWord : word[w].tid = u /\ ptable[w].owner = u => ptable'[w].owner = u,
           InQueue(u)' <=> InQueue(u), Handed(u)' <=> Handed(u), Kicked(u) => Kicked(u)'
    PROVE  TaskInv(u)'
<1> USE DEF SameTask
<1>1. CallInv(u)'
  BY Zenon DEF TaskInv, CallInv
<1>2. WaitInv(u)'
  <2>1. ppc[u] \in Waiting => goal[u] \in PiWord
    BY Zenon DEF TaskInv, CallInv
  <2> QED BY <2>1, Zenon DEF TaskInv, WaitInv
<1>3. ExitInv(u)'
  BY Zenon DEF TaskInv, ExitInv
<1>4. HoldInv(u)'
  BY Zenon DEF TaskInv, HoldInv
<1> QED BY <1>1, <1>2, <1>3, <1>4, Zenon DEF TaskInv

\* The same for a word.
LEMMA WordFrame ==
    ASSUME NEW w \in PiWord, WordInv(w),
           ptable'[w] = ptable[w], word'[w] = word[w],
           \A u \in Queued(w) : goal'[u] = goal[u] /\ ppc'[u] \in Waiting
    PROVE  WordInv(w)'
<1>1. Queued(w)' = Queued(w)
  BY Zenon DEF Queued
<1> QED BY <1>1, Zenon DEF WordInv

\* A step of t that leaves words, table and hand-offs alone.
LEMMA LocalStep ==
    ASSUME PiInv, NEW t \in PiTask, PiTypes',
           UNCHANGED <<word, ptable, handing, kicking>>,
           \A u \in PiTask \ {t} : SameTask(u),
           TaskInv(t)',
           InQueue(t) \/ Handed(t) => goal'[t] = goal[t] /\ ppc'[t] \in Waiting
    PROVE  PiInv'
<1>1. /\ \A u : InQueue(u)' <=> InQueue(u)
      /\ \A u : Handed(u)' <=> Handed(u)
      /\ \A u : Kicked(u)' <=> Kicked(u)
  BY Zenon DEF InQueue, Queued, Handed, Kicked
<1>2. \A u \in PiTask : TaskInv(u)'
  BY <1>1, TaskFrame, Zenon DEF PiInv
<1>3. ASSUME NEW w \in PiWord PROVE WordInv(w)'
  <2>1. Queued(w) \subseteq PiTask
    BY QueuedTasks, Zenon DEF PiInv
  <2>2. \A u \in Queued(w) : goal'[u] = goal[u] /\ ppc'[u] \in Waiting
    BY <2>1 DEF PiInv, WordInv, InQueue, SameTask
  <2> QED BY <2>2, WordFrame, Zenon DEF PiInv
<1>4. HandInv'
  <2>1. \A u \in PiTask : handing[u] # Nobody => handing[u] \in PiTask
    BY Zenon DEF PiInv, PiTypes
  <2>2. \A u \in PiTask : handing[u] # Nobody => ppc'[handing[u]] \in Waiting
    BY <2>1, Zenon DEF PiInv, HandInv, SameTask, Handed
  <2> QED BY <2>2, Zenon DEF PiInv, HandInv
<1> QED BY <1>2, <1>3, <1>4, Zenon DEF PiInv

\* A step of t on the word w, which names t or nobody before and after it.
LEMMA OwnStep ==
    ASSUME PiInv, NEW t \in PiTask, NEW w \in PiWord, PiTypes',
           UNCHANGED <<handing, kicking>>,
           \A v \in PiWord \ {w} : word'[v] = word[v] /\ ptable'[v] = ptable[v],
           ptable'[w].waiters = ptable[w].waiters,
           word[w].tid \in {t, Nobody}, word'[w].tid \in {t, Nobody},
           \A u \in PiTask \ {t} : SameTask(u),
           ~InQueue(t), ~Handed(t),
           TaskInv(t)', WordInv(w)'
    PROVE  PiInv'
<1>1. /\ \A u : InQueue(u)' <=> InQueue(u)
      /\ \A u : Handed(u)' <=> Handed(u)
      /\ \A u : Kicked(u)' <=> Kicked(u)
  BY Zenon DEF InQueue, Queued, Handed, Kicked
<1>2. ASSUME NEW u \in PiTask \ {t} PROVE TaskInv(u)'
  <2>1. word[w].tid # u /\ word'[w].tid # u
    BY PiAssumption DEF Nobody
  <2> QED BY <1>1, <2>1, TaskFrame, Zenon DEF PiInv
<1>3. ASSUME NEW v \in PiWord \ {w} PROVE WordInv(v)'
  <2>1. Queued(v) \subseteq PiTask
    BY QueuedTasks, Zenon DEF PiInv
  <2>2. \A u \in Queued(v) : goal'[u] = goal[u] /\ ppc'[u] \in Waiting
    BY <2>1 DEF PiInv, WordInv, InQueue, SameTask
  <2> QED BY <2>2, WordFrame, Zenon DEF PiInv
<1>4. HandInv'
  <2>1. \A u \in PiTask : handing[u] # Nobody => handing[u] \in PiTask
    BY Zenon DEF PiInv, PiTypes
  <2>2. \A u \in PiTask : handing[u] # Nobody => ppc'[handing[u]] \in Waiting
    BY <2>1, Zenon DEF PiInv, HandInv, SameTask, Handed
  <2> QED BY <2>2, Zenon DEF PiInv, HandInv
<1> QED BY <1>2, <1>3, <1>4, Zenon DEF PiInv

\* The queues are those of the table.
LEMMA SameQueues ==
    ASSUME UNCHANGED <<ptable, handing, kicking>>
    PROVE  \A u : (InQueue(u)' <=> InQueue(u)) /\ (Handed(u)' <=> Handed(u)) /\ (Kicked(u)' <=> Kicked(u))
  BY Zenon DEF InQueue, Queued, Handed, Kicked

\* Only a waiting task is queued or handed a lock.
LEMMA WaitersWait ==
    ASSUME PiInv, NEW t \in PiTask, InQueue(t) \/ Handed(t)
    PROVE  ppc[t] \in Waiting
  BY PiAssumption, Zenon DEF PiInv, WordInv, HandInv, InQueue, Handed, Nobody

\* The system call starts.
LEMMA LockPiStep == ASSUME PiInv, NEW t \in PiTask, NEW w \in PiWord, LockPi(t, w) PROVE PiInv'
<1> USE DEF PiGoto, PiReturn, Ready
<1>1. PiTypes /\ CallInv(t) /\ WaitInv(t) /\ ExitInv(t) /\ HoldInv(t)
  BY Zenon DEF PiInv, TaskInv
<1>2. UNCHANGED <<word, ptable, handing, kicking>>
  BY Zenon DEF LockPi
<1>3. \A u \in PiTask \ {t} : SameTask(u)
  BY <1>1, Zenon DEF LockPi, SameTask, PiTypes
<1>4. /\ ppc[t] = "user" /\ w \notin held[t]
      /\ ppc'[t] = "lock" /\ goal'[t] = w
      /\ held'[t] = held[t] /\ wstate'[t] = wstate[t] /\ prun'[t] = prun[t] /\ dying'[t] = dying[t]
  BY <1>1, Zenon DEF LockPi, PiTypes
<1>5. PiTypes'
  <2>1. ppc' \in [PiTask -> PiPc]
    <3>1. \E l \in PiPc : ppc' = [ppc EXCEPT ![t] = l]
      BY Zenon DEF LockPi, PiPc
    <3> QED BY <1>1, <3>1, Zenon DEF PiTypes
  <2>2. goal' \in [PiTask -> PiWord \cup {NoWord}]
    BY <1>1, Zenon DEF LockPi, PiTypes
  <2>3. pstop' \subseteq PiTask
    BY <1>1, Zenon DEF LockPi, PiTypes
  <2> QED BY <1>1, <1>2, <2>1, <2>2, <2>3, Zenon DEF LockPi, PiTypes
<1>6. TaskInv(t)'
  <2>1. CallInv(t)'
    BY <1>1, <1>2, <1>4, Zenon DEF CallInv, Waiting
  <2>2. WaitInv(t)'
    BY <1>1, <1>2, <1>4, SameQueues, Zenon DEF WaitInv, Waiting
  <2>3. ExitInv(t)'
    BY <1>1, <1>2, <1>4, Zenon DEF ExitInv, Exited
  <2>4. HoldInv(t)'
    BY <1>1, <1>2, <1>4, Zenon DEF HoldInv, Exited, Waiting
  <2> QED BY <2>1, <2>2, <2>3, <2>4, Zenon DEF TaskInv
<1>7. InQueue(t) \/ Handed(t) => goal'[t] = goal[t] /\ ppc'[t] \in Waiting
  BY <1>1, <1>4, WaitersWait, Zenon DEF Waiting, WaitInv
<1> QED BY <1>2, <1>3, <1>5, <1>6, <1>7, LocalStep, Zenon

\* The wait ends with the lock: the word names the task, by the second and third case of WaitInv.
LEMMA WaitDoneStep == ASSUME PiInv, NEW t \in PiTask, WaitDone(t) PROVE PiInv'
<1> USE DEF PiGoto, PiReturn, Ready
<1>1. PiTypes /\ CallInv(t) /\ WaitInv(t) /\ ExitInv(t) /\ HoldInv(t)
  BY Zenon DEF PiInv, TaskInv
<1>2. UNCHANGED <<word, ptable, handing, kicking>>
  BY Zenon DEF WaitDone
<1>3. \A u \in PiTask \ {t} : SameTask(u)
  BY <1>1, Zenon DEF WaitDone, SameTask, PiTypes
<1>4. /\ ppc[t] = "wait" /\ wstate[t] = "woken"
      /\ ppc'[t] = "user" /\ held'[t] = held[t] \cup {goal[t]} /\ prun'[t] = "running"
      /\ wstate'[t] = wstate[t] /\ dying'[t] = dying[t]
  BY <1>1, Zenon DEF WaitDone, PiTypes
<1>5. PiTypes'
  <2>1. ppc' \in [PiTask -> PiPc]
    <3>1. \E l \in PiPc : ppc' = [ppc EXCEPT ![t] = l]
      BY Zenon DEF WaitDone, PiPc
    <3> QED BY <1>1, <3>1, Zenon DEF PiTypes
  <2>2. goal' \in [PiTask -> PiWord \cup {NoWord}]
    BY <1>1, Zenon DEF WaitDone, PiTypes
  <2>3. held' \in [PiTask -> SUBSET PiWord]
    BY <1>1, Zenon DEF WaitDone, PiTypes, CallInv, Waiting
  <2>4. prun' \in [PiTask -> {"running", "sleeping"}]
    BY <1>1, Zenon DEF WaitDone, PiTypes
  <2>5. pstop' \subseteq PiTask
    BY <1>1, Zenon DEF WaitDone, PiTypes
  <2> QED BY <1>1, <1>2, <2>1, <2>2, <2>3, <2>4, <2>5, Zenon DEF WaitDone, PiTypes
<1>6. TaskInv(t)'
  <2>1. CallInv(t)'
    BY <1>1, <1>2, <1>4, Zenon DEF CallInv, Waiting
  <2>2. WaitInv(t)'
    BY <1>1, <1>2, <1>4, SameQueues, Zenon DEF WaitInv, Waiting
  <2>3. ExitInv(t)'
    BY <1>1, <1>2, <1>4, Zenon DEF ExitInv, Exited
  <2>4. HoldInv(t)'
    BY <1>1, <1>2, <1>4, Zenon DEF HoldInv, WaitInv, CallInv, Waiting, Exited
  <2> QED BY <2>1, <2>2, <2>3, <2>4, Zenon DEF TaskInv
<1>7. InQueue(t) \/ Handed(t) => goal'[t] = goal[t] /\ ppc'[t] \in Waiting
  BY <1>1, <1>4, WaitersWait, Zenon DEF Waiting, WaitInv
<1> QED BY <1>2, <1>3, <1>5, <1>6, <1>7, LocalStep, Zenon

\* The task state becomes Sleeping.
LEMMA WaitSleepsStep == ASSUME PiInv, NEW t \in PiTask, WaitSleeps(t) PROVE PiInv'
<1> USE DEF PiGoto, PiReturn, Ready
<1>1. PiTypes /\ CallInv(t) /\ WaitInv(t) /\ ExitInv(t) /\ HoldInv(t)
  BY Zenon DEF PiInv, TaskInv
<1>2. UNCHANGED <<word, ptable, handing, kicking>>
  BY Zenon DEF WaitSleeps
<1>3. \A u \in PiTask \ {t} : SameTask(u)
  BY <1>1, Zenon DEF WaitSleeps, SameTask, PiTypes
<1>4. /\ ppc[t] = "wait" /\ ppc'[t] = "mark"
      /\ goal'[t] = goal[t] /\ held'[t] = held[t] /\ wstate'[t] = wstate[t] /\ dying'[t] = dying[t]
  BY <1>1, Zenon DEF WaitSleeps, PiTypes
<1>5. PiTypes'
  <2>1. ppc' \in [PiTask -> PiPc]
    <3>1. \E l \in PiPc : ppc' = [ppc EXCEPT ![t] = l]
      BY Zenon DEF WaitSleeps, PiPc
    <3> QED BY <1>1, <3>1, Zenon DEF PiTypes
  <2>2. prun' \in [PiTask -> {"running", "sleeping"}]
    BY <1>1, Zenon DEF WaitSleeps, PiTypes
  <2>3. pstop' \subseteq PiTask
    BY <1>1, Zenon DEF WaitSleeps, PiTypes
  <2> QED BY <1>1, <1>2, <2>1, <2>2, <2>3, Zenon DEF WaitSleeps, PiTypes
<1>6. TaskInv(t)'
  <2>1. CallInv(t)'
    BY <1>1, <1>2, <1>4, Zenon DEF CallInv, Waiting
  <2>2. WaitInv(t)'
    BY <1>1, <1>2, <1>4, SameQueues, Zenon DEF WaitInv, Waiting
  <2>3. ExitInv(t)'
    BY <1>1, <1>2, <1>4, Zenon DEF ExitInv, Exited
  <2>4. HoldInv(t)'
    BY <1>1, <1>2, <1>4, Zenon DEF HoldInv, Exited, Waiting
  <2> QED BY <2>1, <2>2, <2>3, <2>4, Zenon DEF TaskInv
<1>7. InQueue(t) \/ Handed(t) => goal'[t] = goal[t] /\ ppc'[t] \in Waiting
  BY <1>1, <1>4, WaitersWait, Zenon DEF Waiting, WaitInv
<1> QED BY <1>2, <1>3, <1>5, <1>6, <1>7, LocalStep, Zenon

\* mark_sleeping, or back to the test.
LEMMA MarkSleepingStep == ASSUME PiInv, NEW t \in PiTask, MarkSleeping(t) PROVE PiInv'
<1> USE DEF PiGoto, PiReturn, Ready
<1>1. PiTypes /\ CallInv(t) /\ WaitInv(t) /\ ExitInv(t) /\ HoldInv(t)
  BY Zenon DEF PiInv, TaskInv
<1>2. UNCHANGED <<word, ptable, handing, kicking>>
  BY Zenon DEF MarkSleeping
<1>3. \A u \in PiTask \ {t} : SameTask(u)
  BY <1>1, Zenon DEF MarkSleeping, SameTask, PiTypes
<1>4. /\ ppc[t] = "mark"
      /\ \/ ppc'[t] = "check" /\ wstate[t] = "armed" /\ wstate'[t] = "sleeping"
         \/ ppc'[t] = "wait" /\ wstate'[t] = wstate[t]
      /\ goal'[t] = goal[t] /\ held'[t] = held[t] /\ dying'[t] = dying[t]
  BY <1>1, Zenon DEF MarkSleeping, PiTypes
<1>5. PiTypes'
  <2>1. ppc' \in [PiTask -> PiPc]
    <3>1. \E l \in PiPc : ppc' = [ppc EXCEPT ![t] = l]
      BY Zenon DEF MarkSleeping, PiPc
    <3> QED BY <1>1, <3>1, Zenon DEF PiTypes
  <2>2. wstate' \in [PiTask -> {"armed", "sleeping", "woken"}]
    BY <1>1 DEF MarkSleeping, PiTypes
  <2>3. prun' \in [PiTask -> {"running", "sleeping"}]
    BY <1>1, Zenon DEF MarkSleeping, PiTypes
  <2>4. pstop' \subseteq PiTask
    BY <1>1, Zenon DEF MarkSleeping, PiTypes
  <2> QED BY <1>1, <1>2, <2>1, <2>2, <2>3, <2>4, Zenon DEF MarkSleeping, PiTypes
<1>6. TaskInv(t)'
  <2>1. CallInv(t)'
    BY <1>1, <1>2, <1>4, Zenon DEF CallInv, Waiting
  <2>2. WaitInv(t)'
    BY <1>1, <1>2, <1>4, SameQueues, Zenon DEF WaitInv, Waiting
  <2>3. ExitInv(t)'
    BY <1>1, <1>2, <1>4, Zenon DEF ExitInv, Exited
  <2>4. HoldInv(t)'
    BY <1>1, <1>2, <1>4, Zenon DEF HoldInv, Exited, Waiting
  <2> QED BY <2>1, <2>2, <2>3, <2>4, Zenon DEF TaskInv
<1>7. InQueue(t) \/ Handed(t) => goal'[t] = goal[t] /\ ppc'[t] \in Waiting
  BY <1>1, <1>4, WaitersWait, Zenon DEF Waiting, WaitInv
<1> QED BY <1>2, <1>3, <1>5, <1>6, <1>7, LocalStep, Zenon

\* A task that goes on to sched_yield was not woken, so it is queued or about to be woken.
LEMMA CheckWokenStep == ASSUME PiInv, NEW t \in PiTask, CheckWoken(t) PROVE PiInv'
<1> USE DEF PiGoto, PiReturn, Ready
<1>1. PiTypes /\ CallInv(t) /\ WaitInv(t) /\ ExitInv(t) /\ HoldInv(t)
  BY Zenon DEF PiInv, TaskInv
<1>2. UNCHANGED <<word, ptable, handing, kicking>>
  BY Zenon DEF CheckWoken
<1>3. \A u \in PiTask \ {t} : SameTask(u)
  BY <1>1, Zenon DEF CheckWoken, SameTask, PiTypes
<1>4. /\ ppc[t] = "check"
      /\ \/ ppc'[t] = "wait"
         \/ ppc'[t] = "yield" /\ wstate[t] # "woken"
      /\ goal'[t] = goal[t] /\ held'[t] = held[t] /\ wstate'[t] = wstate[t] /\ dying'[t] = dying[t]
  BY <1>1, Zenon DEF CheckWoken, PiTypes
<1>5. PiTypes'
  <2>1. ppc' \in [PiTask -> PiPc]
    <3>1. \E l \in PiPc : ppc' = [ppc EXCEPT ![t] = l]
      BY Zenon DEF CheckWoken, PiPc
    <3> QED BY <1>1, <3>1, Zenon DEF PiTypes
  <2>2. prun' \in [PiTask -> {"running", "sleeping"}]
    BY <1>1, Zenon DEF CheckWoken, PiTypes
  <2>3. pstop' \subseteq PiTask
    BY <1>1, Zenon DEF CheckWoken, PiTypes
  <2> QED BY <1>1, <1>2, <2>1, <2>2, <2>3, Zenon DEF CheckWoken, PiTypes
<1>6. TaskInv(t)'
  <2>1. CallInv(t)'
    BY <1>1, <1>2, <1>4, Zenon DEF CallInv, Waiting
  <2>2. WaitInv(t)'
    BY <1>1, <1>2, <1>4, SameQueues, Zenon DEF WaitInv, Waiting
  <2>3. ExitInv(t)'
    BY <1>1, <1>2, <1>4, Zenon DEF ExitInv, Exited
  <2>4. HoldInv(t)'
    BY <1>1, <1>2, <1>4, Zenon DEF HoldInv, Exited, Waiting
  <2> QED BY <2>1, <2>2, <2>3, <2>4, Zenon DEF TaskInv
<1>7. InQueue(t) \/ Handed(t) => goal'[t] = goal[t] /\ ppc'[t] \in Waiting
  BY <1>1, <1>4, WaitersWait, Zenon DEF Waiting, WaitInv
<1> QED BY <1>2, <1>3, <1>5, <1>6, <1>7, LocalStep, Zenon

\* Around the loop.
LEMMA WaitResumesStep == ASSUME PiInv, NEW t \in PiTask, WaitResumes(t) PROVE PiInv'
<1> USE DEF PiGoto, PiReturn, Ready
<1>1. PiTypes /\ CallInv(t) /\ WaitInv(t) /\ ExitInv(t) /\ HoldInv(t)
  BY Zenon DEF PiInv, TaskInv
<1>2. UNCHANGED <<word, ptable, handing, kicking>>
  BY Zenon DEF WaitResumes
<1>3. \A u \in PiTask \ {t} : SameTask(u)
  BY <1>1, Zenon DEF WaitResumes, SameTask, PiTypes
<1>4. /\ ppc[t] = "yield" /\ ppc'[t] = "wait"
      /\ wstate'[t] = "woken" <=> wstate[t] = "woken"
      /\ goal'[t] = goal[t] /\ held'[t] = held[t] /\ prun'[t] = prun[t] /\ dying'[t] = dying[t]
  BY <1>1, Zenon DEF WaitResumes, PiTypes
<1>5. PiTypes'
  <2>1. ppc' \in [PiTask -> PiPc]
    <3>1. \E l \in PiPc : ppc' = [ppc EXCEPT ![t] = l]
      BY Zenon DEF WaitResumes, PiPc
    <3> QED BY <1>1, <3>1, Zenon DEF PiTypes
  <2>2. wstate' \in [PiTask -> {"armed", "sleeping", "woken"}]
    BY <1>1, Zenon DEF WaitResumes, PiTypes
  <2>3. pstop' \subseteq PiTask
    BY <1>1, Zenon DEF WaitResumes, PiTypes
  <2> QED BY <1>1, <1>2, <2>1, <2>2, <2>3, Zenon DEF WaitResumes, PiTypes
<1>6. TaskInv(t)'
  <2>1. CallInv(t)'
    BY <1>1, <1>2, <1>4, Zenon DEF CallInv, Waiting
  <2>2. WaitInv(t)'
    BY <1>1, <1>2, <1>4, SameQueues, Zenon DEF WaitInv, Waiting
  <2>3. ExitInv(t)'
    BY <1>1, <1>2, <1>4, Zenon DEF ExitInv, Exited
  <2>4. HoldInv(t)'
    BY <1>1, <1>2, <1>4, Zenon DEF HoldInv, Exited, Waiting
  <2> QED BY <2>1, <2>2, <2>3, <2>4, Zenon DEF TaskInv
<1>7. InQueue(t) \/ Handed(t) => goal'[t] = goal[t] /\ ppc'[t] \in Waiting
  BY <1>1, <1>4, WaitersWait, Zenon DEF Waiting, WaitInv
<1> QED BY <1>2, <1>3, <1>5, <1>6, <1>7, LocalStep, Zenon

\* A signal or the deadline.
LEMMA InterruptPiStep == ASSUME PiInv, NEW t \in PiTask, InterruptPi(t) PROVE PiInv'
<1> USE DEF PiGoto, PiReturn, Ready
<1>1. PiTypes /\ CallInv(t) /\ WaitInv(t) /\ ExitInv(t) /\ HoldInv(t)
  BY Zenon DEF PiInv, TaskInv
<1>2. UNCHANGED <<word, ptable, handing, kicking>>
  BY Zenon DEF InterruptPi
<1>3. \A u \in PiTask \ {t} : SameTask(u)
  BY <1>1, Zenon DEF InterruptPi, SameTask, PiTypes
<1>4. /\ ppc[t] \in Waiting /\ prun'[t] = "running"
      /\ ppc'[t] = ppc[t] /\ goal'[t] = goal[t] /\ held'[t] = held[t] /\ wstate'[t] = wstate[t] /\ dying'[t] = dying[t]
  BY <1>1, Zenon DEF InterruptPi, PiTypes
<1>5. PiTypes'
  <2>1. prun' \in [PiTask -> {"running", "sleeping"}]
    BY <1>1, Zenon DEF InterruptPi, PiTypes
  <2>2. pstop' \subseteq PiTask
    BY <1>1, Zenon DEF InterruptPi, PiTypes
  <2> QED BY <1>1, <1>2, <2>1, <2>2, Zenon DEF InterruptPi, PiTypes
<1>6. TaskInv(t)'
  <2>1. CallInv(t)'
    BY <1>1, <1>2, <1>4, Zenon DEF CallInv, Waiting
  <2>2. WaitInv(t)'
    BY <1>1, <1>2, <1>4, SameQueues, Zenon DEF WaitInv, Waiting
  <2>3. ExitInv(t)'
    BY <1>1, <1>2, <1>4, Zenon DEF ExitInv, Exited
  <2>4. HoldInv(t)'
    BY <1>1, <1>2, <1>4, Zenon DEF HoldInv, Exited, Waiting
  <2> QED BY <2>1, <2>2, <2>3, <2>4, Zenon DEF TaskInv
<1>7. InQueue(t) \/ Handed(t) => goal'[t] = goal[t] /\ ppc'[t] \in Waiting
  BY <1>1, <1>4, WaitersWait, Zenon DEF Waiting, WaitInv
<1> QED BY <1>2, <1>3, <1>5, <1>6, <1>7, LocalStep, Zenon

\* The exit drops what user code held.
LEMMA ExitPiStep == ASSUME PiInv, NEW t \in PiTask, ExitPi(t) PROVE PiInv'
<1> USE DEF PiGoto, PiReturn, Ready
<1>1. PiTypes /\ CallInv(t) /\ WaitInv(t) /\ ExitInv(t) /\ HoldInv(t)
  BY Zenon DEF PiInv, TaskInv
<1>2. UNCHANGED <<word, ptable, handing, kicking>>
  BY Zenon DEF ExitPi
<1>3. \A u \in PiTask \ {t} : SameTask(u)
  BY <1>1, Zenon DEF ExitPi, SameTask, PiTypes
<1>4. /\ ppc[t] = "user" /\ ppc'[t] = "exit" /\ held'[t] = {}
      /\ goal'[t] = goal[t] /\ wstate'[t] = wstate[t] /\ prun'[t] = prun[t]
  BY <1>1, Zenon DEF ExitPi, PiTypes
<1>5. PiTypes'
  <2>1. ppc' \in [PiTask -> PiPc]
    <3>1. \E l \in PiPc : ppc' = [ppc EXCEPT ![t] = l]
      BY Zenon DEF ExitPi, PiPc
    <3> QED BY <1>1, <3>1, Zenon DEF PiTypes
  <2>2. held' \in [PiTask -> SUBSET PiWord]
    BY <1>1, Zenon DEF ExitPi, PiTypes, CallInv, Waiting
  <2>3. dying' \in [PiTask -> [owned : SUBSET PiWord, robust : SUBSET PiWord, seen : WordType]]
    <3>1. \E d \in [owned : SUBSET PiWord, robust : SUBSET PiWord, seen : WordType] :
              dying' = [dying EXCEPT ![t] = d]
      <4> DEFINE d == [dying[t] EXCEPT !.owned = {w \in PiWord : ptable[w].owner = t},
                                       !.robust = IF t \in Robust THEN held[t] ELSE {}]
      <4>1. d \in [owned : SUBSET PiWord, robust : SUBSET PiWord, seen : WordType]
        BY <1>1, Zenon DEF PiTypes
      <4>2. dying' = [dying EXCEPT ![t] = d]
        BY <1>1, Zenon DEF ExitPi, PiTypes
      <4> QED BY <4>1, <4>2, Zenon
    <3> QED BY <1>1, <3>1, Zenon DEF PiTypes
  <2>4. pstop' \subseteq PiTask
    BY <1>1, Zenon DEF ExitPi, PiTypes
  <2> QED BY <1>1, <1>2, <2>1, <2>2, <2>3, <2>4, Zenon DEF ExitPi, PiTypes
<1>6. TaskInv(t)'
  <2>1. CallInv(t)'
    BY <1>1, <1>2, <1>4, Zenon DEF CallInv, Waiting
  <2>2. WaitInv(t)'
    BY <1>1, <1>2, <1>4, SameQueues, Zenon DEF WaitInv, Waiting
  <2>3. ExitInv(t)'
    BY <1>1, <1>2, <1>4, Zenon DEF ExitInv, Exited
  <2>4. HoldInv(t)'
    BY <1>1, <1>2, <1>4, Zenon DEF HoldInv, Exited, Waiting
  <2> QED BY <2>1, <2>2, <2>3, <2>4, Zenon DEF TaskInv
<1>7. InQueue(t) \/ Handed(t) => goal'[t] = goal[t] /\ ppc'[t] \in Waiting
  BY <1>1, <1>4, WaitersWait, Zenon DEF Waiting, WaitInv
<1> QED BY <1>2, <1>3, <1>5, <1>6, <1>7, LocalStep, Zenon

\* Zombie, and reaped.
LEMMA ExitDoneStep == ASSUME PiInv, NEW t \in PiTask, ExitDone(t) PROVE PiInv'
<1> USE DEF PiGoto, PiReturn, Ready
<1>1. PiTypes /\ CallInv(t) /\ WaitInv(t) /\ ExitInv(t) /\ HoldInv(t)
  BY Zenon DEF PiInv, TaskInv
<1>2. UNCHANGED <<word, ptable, handing, kicking>>
  BY Zenon DEF ExitDone
<1>3. \A u \in PiTask \ {t} : SameTask(u)
  BY <1>1, Zenon DEF ExitDone, SameTask, PiTypes
<1>4. /\ ppc[t] \in {"exit", "zombie"} /\ ppc'[t] \in {"zombie", "reaped"}
      /\ goal'[t] = goal[t] /\ held'[t] = held[t] /\ wstate'[t] = wstate[t] /\ prun'[t] = prun[t] /\ dying'[t] = dying[t]
  BY <1>1, Zenon DEF ExitDone, PiTypes
<1>5. PiTypes'
  <2>1. ppc' \in [PiTask -> PiPc]
    <3>1. \E l \in PiPc : ppc' = [ppc EXCEPT ![t] = l]
      BY Zenon DEF ExitDone, PiPc
    <3> QED BY <1>1, <3>1, Zenon DEF PiTypes
  <2>2. pstop' \subseteq PiTask
    BY <1>1, Zenon DEF ExitDone, PiTypes
  <2> QED BY <1>1, <1>2, <2>1, <2>2, Zenon DEF ExitDone, PiTypes
<1>6. TaskInv(t)'
  <2>1. CallInv(t)'
    BY <1>1, <1>2, <1>4, Zenon DEF CallInv, Waiting
  <2>2. WaitInv(t)'
    BY <1>1, <1>2, <1>4, SameQueues, Zenon DEF WaitInv, Waiting
  <2>3. ExitInv(t)'
    BY <1>1, <1>2, <1>4, Zenon DEF ExitInv, Exited
  <2>4. HoldInv(t)'
    BY <1>1, <1>2, <1>4, Zenon DEF HoldInv, Exited, Waiting
  <2> QED BY <2>1, <2>2, <2>3, <2>4, Zenon DEF TaskInv
<1>7. InQueue(t) \/ Handed(t) => goal'[t] = goal[t] /\ ppc'[t] \in Waiting
  BY <1>1, <1>4, WaitersWait, Zenon DEF Waiting, WaitInv
<1> QED BY <1>2, <1>3, <1>5, <1>6, <1>7, LocalStep, Zenon

\* A task outside a wait is in no queue and no hand-off.
LEMMA NotWaiting ==
    ASSUME PiInv, NEW t \in PiTask, ppc[t] \notin Waiting
    PROVE  ~InQueue(t) /\ ~Handed(t)
  BY WaitersWait, Zenon

\* User code takes a free word.
LEMMA UserLockStep == ASSUME PiInv, NEW t \in PiTask, NEW w \in PiWord, UserLock(t, w) PROVE PiInv'
<1>1. PiTypes /\ TaskInv(t) /\ WordInv(w)
  BY Zenon DEF PiInv
<1>2. ppc[t] = "user" /\ word[w].tid = Nobody /\ word[w].waiters = FALSE
  BY DEF UserLock, Ready, Free
<1>3. ~InQueue(t) /\ ~Handed(t)
  BY <1>2, NotWaiting, Zenon DEF Waiting
<1>4. \A u \in PiTask \ {t} : SameTask(u)
  BY <1>1, Zenon DEF UserLock, SameTask, PiTypes
<1>5. /\ word'[w].tid = t /\ word'[w].waiters = FALSE
      /\ \A v \in PiWord \ {w} : word'[v] = word[v]
  BY <1>1, <1>2 DEF UserLock, PiTypes, WordType
<1>6. PiTypes'
  <2>1. word' \in [PiWord -> WordType]
    <3>1. [Free EXCEPT !.tid = t] \in WordType
      BY Zenon DEF WordType, Free
    <3>2. word' = [word EXCEPT ![w] = [Free EXCEPT !.tid = t]]
      BY <1>1, Zenon DEF UserLock, PiTypes
    <3> QED BY <1>1, <3>1, <3>2, Zenon DEF PiTypes
  <2>2. held' \in [PiTask -> SUBSET PiWord]
    BY <1>1, Zenon DEF UserLock, PiTypes
  <2> QED BY <1>1, <2>1, <2>2, Zenon DEF UserLock, PiTypes
<1>7. TaskInv(t)'
  <2>1. ppc'[t] = "user" /\ held'[t] = held[t] \cup {w}
    BY <1>1, <1>2, Zenon DEF UserLock, PiTypes
  <2>2. HoldInv(t)'
    BY <1>1, <1>2, <1>5, <2>1, Zenon DEF TaskInv, HoldInv, Exited, Waiting
  <2> QED BY <2>1, <2>2, Zenon DEF TaskInv, CallInv, WaitInv, ExitInv, Waiting, Exited
<1>8. WordInv(w)'
  <2>1. ptable' = ptable
    BY Zenon DEF UserLock
  <2>2. Queued(w) = {} /\ Queued(w)' = {}
    BY <1>1, <1>2, <2>1, Zenon DEF WordInv, Queued
  <2> QED BY <1>1, <1>5, <2>1, <2>2, Zenon DEF WordInv
<1> QED BY <1>2, <1>3, <1>4, <1>5, <1>6, <1>7, <1>8, OwnStep, Zenon DEF UserLock

\* User code drops a word without waiters.
LEMMA UserUnlockStep == ASSUME PiInv, NEW t \in PiTask, NEW w \in PiWord, UserUnlock(t, w) PROVE PiInv'
<1>1. PiTypes /\ TaskInv(t) /\ WordInv(w)
  BY Zenon DEF PiInv
<1>2. ppc[t] = "user" /\ word[w].tid = t /\ word[w].waiters = FALSE
  BY Zenon DEF UserUnlock, Ready, Free
<1>3. ~InQueue(t) /\ ~Handed(t)
  BY <1>2, NotWaiting, Zenon DEF Waiting
<1>4. \A u \in PiTask \ {t} : SameTask(u)
  BY <1>1, Zenon DEF UserUnlock, SameTask, PiTypes
<1>5. /\ word'[w].tid = Nobody /\ word'[w].waiters = FALSE
      /\ \A v \in PiWord \ {w} : word'[v] = word[v]
  BY <1>1, <1>2, Zenon DEF UserUnlock, PiTypes, Free
<1>6. PiTypes'
  <2>1. word' \in [PiWord -> WordType]
    <3>1. Free \in WordType
      BY Zenon DEF WordType, Free
    <3> QED BY <1>1, <3>1, Zenon DEF PiTypes, UserUnlock
  <2>2. held' \in [PiTask -> SUBSET PiWord]
    BY <1>1, Zenon DEF UserUnlock, PiTypes
  <2> QED BY <1>1, <2>1, <2>2, Zenon DEF UserUnlock, PiTypes
<1>7. TaskInv(t)'
  <2>1. ppc'[t] = "user" /\ held'[t] = held[t] \ {w}
    BY <1>1, <1>2, Zenon DEF UserUnlock, PiTypes
  <2>2. t # Nobody
    BY PiAssumption, Zenon DEF Nobody
  <2>3. HoldInv(t)'
    BY <1>1, <1>2, <1>5, <2>1, <2>2, Zenon DEF TaskInv, HoldInv, Exited, Waiting
  <2> QED BY <2>1, <2>3, Zenon DEF TaskInv, CallInv, WaitInv, ExitInv, Waiting, Exited
<1>8. WordInv(w)'
  <2>1. ptable' = ptable
    BY Zenon DEF UserUnlock
  <2>2. Queued(w) = {} /\ Queued(w)' = {}
    BY <1>1, <1>2, <2>1, Zenon DEF WordInv, Queued
  <2> QED BY <1>1, <1>5, <2>1, <2>2, Zenon DEF WordInv
<1> QED BY <1>2, <1>3, <1>4, <1>5, <1>6, <1>7, <1>8, OwnStep, Zenon DEF UserUnlock

\* futex_lock_pi takes the word or goes on to wait.
LEMMA TakeOrWaitStep == ASSUME PiInv, NEW t \in PiTask, TakeOrWait(t) PROVE PiInv'
<1>1. PiTypes /\ TaskInv(t)
  BY Zenon DEF PiInv
<1>2. ppc[t] = "lock"
  BY Zenon DEF TakeOrWait
<1>3. ~InQueue(t) /\ ~Handed(t)
  BY <1>2, NotWaiting, Zenon DEF Waiting
<1>4. PICK w \in PiWord : goal[t] = w /\ w \notin held[t]
  BY <1>1, <1>2, Zenon DEF TaskInv, CallInv
<1>5. \A u \in PiTask \ {t} : SameTask(u)
  BY <1>1, Zenon DEF TakeOrWait, SameTask, PiTypes, PiGoto
<1>6. goal'[t] = w /\ held'[t] = held[t] /\ ptable' = ptable
  BY <1>4, Zenon DEF TakeOrWait
<1>7. WordInv(w)
  BY Zenon DEF PiInv
<1>8. CASE word[w].tid = Nobody
  <2>1. Queued(w) = {} /\ word[w].waiters = FALSE
    BY <1>1, <1>7, <1>8, Zenon DEF WordInv
  <2>2. /\ ppc' = [ppc EXCEPT ![t] = "register"]
        /\ word' = [word EXCEPT ![w] = [tid |-> t, waiters |-> FALSE, died |-> word[w].died]]
    BY <1>1, <1>4, <1>8, Zenon DEF TakeOrWait, PiGoto, PiTypes
  <2>3. /\ ppc'[t] = "register" /\ word'[w].tid = t /\ word'[w].waiters = FALSE
        /\ \A v \in PiWord \ {w} : word'[v] = word[v]
    BY <1>1, <2>2, Zenon DEF PiTypes
  <2>4. PiTypes'
    <3>1. [tid |-> t, waiters |-> FALSE, died |-> word[w].died] \in WordType
      BY <1>1, Zenon DEF PiTypes, WordType
    <3>2. word' \in [PiWord -> WordType] /\ ppc' \in [PiTask -> PiPc]
      BY <1>1, <2>2, <3>1, Zenon DEF PiTypes, PiPc
    <3> QED BY <1>1, <3>2, Zenon DEF TakeOrWait, PiTypes
  <2>5. TaskInv(t)'
    <3>1. HoldInv(t)'
      BY <1>1, <1>2, <1>6, <2>3, Zenon DEF TaskInv, HoldInv, Exited, Waiting
    <3> QED BY <1>4, <1>6, <2>3, <3>1, Zenon DEF TaskInv, CallInv, WaitInv, ExitInv, Waiting, Exited
  <2>6. WordInv(w)'
    <3>1. Queued(w)' = {}
      BY <1>6, <2>1, Zenon DEF Queued
    <3> QED BY <1>6, <1>7, <2>3, <3>1, Zenon DEF WordInv
  <2> QED BY <1>3, <1>5, <1>6, <1>8, <2>3, <2>4, <2>5, <2>6, OwnStep, Zenon DEF TakeOrWait
<1>9. CASE word[w].tid # Nobody
  <2>1. ppc' = [ppc EXCEPT ![t] = "enqueue"] /\ word' = word
    BY <1>4, <1>9, Zenon DEF TakeOrWait, PiGoto
  <2>2. ppc'[t] = "enqueue"
    BY <1>1, <2>1, Zenon DEF PiTypes
  <2>3. PiTypes'
    <3>1. ppc' \in [PiTask -> PiPc]
      BY <1>1, <2>1, Zenon DEF PiTypes, PiPc
    <3> QED BY <1>1, <2>1, <3>1, Zenon DEF TakeOrWait, PiTypes
  <2>4. TaskInv(t)'
    <3>1. HoldInv(t)'
      BY <1>1, <1>2, <1>6, <2>1, <2>2, Zenon DEF TaskInv, HoldInv, Exited, Waiting
    <3> QED BY <1>4, <1>6, <2>2, <3>1, Zenon DEF TaskInv, CallInv, WaitInv, ExitInv, Waiting, Exited
  <2> QED BY <1>3, <1>5, <2>1, <2>3, <2>4, LocalStep, Zenon DEF TakeOrWait
<1> QED BY <1>8, <1>9, Zenon

\* pi_register_owner.
LEMMA RegisterOwnerStep == ASSUME PiInv, NEW t \in PiTask, RegisterOwner(t) PROVE PiInv'
<1>1. PiTypes /\ TaskInv(t)
  BY Zenon DEF PiInv
<1>2. ppc[t] = "register"
  BY Zenon DEF RegisterOwner
<1>3. ~InQueue(t) /\ ~Handed(t)
  BY <1>2, NotWaiting, Zenon DEF Waiting
<1>4. PICK w \in PiWord : goal[t] = w /\ word[w].tid = t
  BY <1>1, <1>2, Zenon DEF TaskInv, CallInv
<1>5. \A u \in PiTask \ {t} : SameTask(u)
  BY <1>1, Zenon DEF RegisterOwner, SameTask, PiTypes, PiGoto, PiReturn
<1>6. /\ ppc' = [ppc EXCEPT ![t] = "user"] /\ goal' = [goal EXCEPT ![t] = NoWord]
      /\ held' = [held EXCEPT ![t] = held[t] \cup {w}] /\ word' = word
      /\ ptable' = [ptable EXCEPT ![w] = [owner |-> t, waiters |-> ptable[w].waiters]]
  <2>1. ptable[w] \in [owner : PiTask \cup {Nobody}, waiters : Seq(PiTask)]
    BY <1>1, Zenon DEF PiTypes
  <2>2. [ptable[w] EXCEPT !.owner = t] = [owner |-> t, waiters |-> ptable[w].waiters]
    BY <2>1
  <2> QED BY <1>4, <2>2, Zenon DEF RegisterOwner, PiReturn, PiGoto
<1>7. /\ ppc'[t] = "user" /\ held'[t] = held[t] \cup {w}
      /\ ptable'[w].owner = t /\ ptable'[w].waiters = ptable[w].waiters
      /\ \A v \in PiWord \ {w} : ptable'[v] = ptable[v]
  BY <1>1, <1>6, Zenon DEF PiTypes
<1>8. PiTypes'
  <2>1. ptable' \in [PiWord -> [owner : PiTask \cup {Nobody}, waiters : Seq(PiTask)]]
    BY <1>1, <1>6, Zenon DEF PiTypes
  <2>2. ppc' \in [PiTask -> PiPc] /\ held' \in [PiTask -> SUBSET PiWord]
    BY <1>1, <1>6, Zenon DEF PiTypes, PiPc
  <2>3. goal' \in [PiTask -> PiWord \cup {NoWord}]
    BY <1>1, <1>6, Zenon DEF PiTypes
  <2> QED BY <1>1, <2>1, <2>2, <2>3, Zenon DEF RegisterOwner, PiTypes
<1>9. TaskInv(t)'
  <2>1. HoldInv(t)'
    BY <1>1, <1>2, <1>4, <1>6, <1>7, Zenon DEF TaskInv, HoldInv, Exited, Waiting
  <2> QED BY <1>7, <2>1, Zenon DEF TaskInv, CallInv, WaitInv, ExitInv, Waiting, Exited
<1>10. WordInv(w)'
  <2>1. Queued(w)' = Queued(w) /\ Queued(w) \subseteq PiTask
    BY <1>1, <1>7, QueuedTasks, Zenon DEF Queued
  <2>2. WordInv(w)
    BY Zenon DEF PiInv
  <2>3. \A u \in Queued(w) : u # t /\ goal'[u] = goal[u] /\ ppc'[u] = ppc[u]
    BY <1>3, <1>5, <2>1, Zenon DEF InQueue, SameTask
  <2> QED BY <1>4, <1>6, <1>7, <2>1, <2>2, <2>3, PiAssumption DEF WordInv, Nobody
<1> QED BY <1>3, <1>4, <1>5, <1>6, <1>7, <1>8, <1>9, <1>10, OwnStep, Zenon DEF RegisterOwner

\* A word that names a living task is one its user code holds, or the one its
\* call is about.
LEMMA HoldsWord ==
    ASSUME NEW u \in PiTask, NEW v \in PiWord, HoldInv(u), word[v].tid = u, ppc[u] \notin Exited
    PROVE  v \in held[u] \/ (goal[u] = v /\ ppc[u] \in {"register"} \cup Waiting)
  BY Zenon DEF HoldInv

\* A hand-off: t, which owned w, passes it to a waiter.
LEMMA HandStep ==
    ASSUME PiInv, NEW t \in PiTask, NEW w \in PiWord, PiTypes',
           handing[t] = Nobody, kicking[t] = Nobody, ppc[t] \notin Waiting,
           word[w].tid = t,
           NEW next \in PiTask, NEW rest \in Seq(PiTask), NEW d \in BOOLEAN,
           next \in Queued(w), IsInjective(rest), Range(rest) = Queued(w) \ {next},
           word' = [word EXCEPT ![w] = [tid |-> next, waiters |-> rest # <<>>, died |-> d]],
           ptable' = [ptable EXCEPT ![w] = [owner |-> next, waiters |-> rest]],
           handing' = [handing EXCEPT ![t] = next], kicking' = kicking,
           \A u \in PiTask \ {t} : SameTask(u),
           TaskInv(t)'
    PROVE  PiInv'
<1>1. PiTypes /\ WordInv(w)
  BY Zenon DEF PiInv
<1>2. next # t /\ goal[next] = w /\ ppc[next] \in Waiting /\ ~InQueue(t)
  BY <1>1, NotWaiting, Zenon DEF WordInv
<1>3. /\ word'[w].tid = next /\ word'[w].waiters = (rest # <<>>)
      /\ ptable'[w].owner = next /\ ptable'[w].waiters = rest
      /\ \A v \in PiWord \ {w} : word'[v] = word[v] /\ ptable'[v] = ptable[v]
  BY <1>1, Zenon DEF PiTypes
<1>4. /\ Queued(w)' = Queued(w) \ {next}
      /\ \A v \in PiWord \ {w} : Queued(v)' = Queued(v)
  BY <1>3, Zenon DEF Queued
<1>5. InQueue(next) /\ ~InQueue(next)' /\ \A u : u # next => (InQueue(u)' <=> InQueue(u))
  <2>1. \A v \in PiWord \ {w} : next \notin Queued(v)
    BY <1>2, Zenon DEF PiInv, WordInv
  <2> QED BY <1>4, <2>1, Zenon DEF InQueue
<1>6. TaskInv(next) /\ ~Handed(next) /\ wstate[next] # "woken"
  BY <1>2, <1>5, Zenon DEF PiInv, TaskInv, WaitInv
<1>7. /\ handing'[t] = next
      /\ \A u \in PiTask \ {t} : handing'[u] = handing[u]
  BY <1>1, Zenon DEF PiTypes
<1>8. Handed(next)' /\ \A u \in PiTask : u # next => (Handed(u)' <=> Handed(u))
  BY <1>7, PiAssumption, Zenon DEF Handed, Nobody
<1>9. \A u \in PiTask : Kicked(u)' <=> Kicked(u)
  BY Zenon DEF Kicked
<1>10. ASSUME NEW u \in PiTask \ {t, next} PROVE TaskInv(u)'
  <2>1. /\ \A v \in PiWord : word'[v].tid = u <=> word[v].tid = u
        /\ \A v \in PiWord : word[v].tid = u /\ ptable[v].owner = u => ptable'[v].owner = u
    BY <1>3, Zenon
  <2>2. TaskInv(u) /\ SameTask(u)
    BY Zenon DEF PiInv
  <2> QED BY <1>5, <1>8, <1>9, <2>1, <2>2, TaskFrame, Zenon
<1>11. TaskInv(next)'
  <2>1. SameTask(next)
    BY <1>2, Zenon
  <2>2. CallInv(next)'
    BY <1>2, <1>6, <2>1, Zenon DEF TaskInv, CallInv, SameTask, Waiting
  <2>3. WaitInv(next)'
    BY <1>2, <1>3, <1>5, <1>6, <1>8, <2>1, Zenon DEF TaskInv, WaitInv, SameTask
  <2>4. ExitInv(next)'
    BY <1>2, <2>1, Zenon DEF ExitInv, SameTask, Waiting, Exited
  <2>5. HoldInv(next)'
    <3>1. HoldInv(next) /\ ppc'[next] = ppc[next] /\ held'[next] = held[next] /\ goal'[next] = goal[next]
      BY <1>6, <2>1, Zenon DEF TaskInv, SameTask
    <3>2. ASSUME NEW v \in PiWord, v \in held'[next] PROVE word'[v].tid = next
      BY <1>3, <3>1, <3>2, Zenon DEF HoldInv
    <3>3. ASSUME NEW v \in PiWord, word'[v].tid = next, ppc'[next] \notin Exited
          PROVE  v \in held'[next] \/ (goal'[next] = v /\ ppc'[next] \in {"register"} \cup Waiting)
      <4>1. CASE v = w
        BY <1>2, <3>1, <4>1, Zenon
      <4>2. CASE v # w
        <5>1. word[v].tid = next /\ ppc[next] \notin Exited
          BY <1>3, <3>1, <3>3, <4>2, Zenon
        <5>2. v \in held[next] \/ (goal[next] = v /\ ppc[next] \in {"register"} \cup Waiting)
          BY <3>1, <5>1, HoldsWord, Zenon
        <5> QED BY <3>1, <5>2, Zenon
      <4> QED BY <4>1, <4>2, Zenon
    <3> QED BY <3>2, <3>3, Zenon DEF HoldInv
  <2> QED BY <2>2, <2>3, <2>4, <2>5, Zenon DEF TaskInv
<1>12. ASSUME NEW v \in PiWord PROVE WordInv(v)'
  <2>1. Queued(v) \subseteq PiTask \ {t}
    BY <1>1, <1>2, QueuedTasks, Zenon DEF InQueue
  <2>2. \A u \in Queued(v) : goal'[u] = goal[u] /\ ppc'[u] = ppc[u]
    BY <2>1, Zenon DEF SameTask
  <2>3. WordInv(v)
    BY Zenon DEF PiInv
  <2>4. CASE v # w
    <3>1. \A u \in Queued(v) : goal'[u] = goal[u] /\ ppc'[u] \in Waiting
      BY <2>2, <2>3, Zenon DEF WordInv
    <3> QED BY <1>3, <2>3, <2>4, <3>1, WordFrame, Zenon
  <2>5. CASE v = w
    <3>1. (rest # <<>>) = (Queued(w)' # {})
      BY <1>4, EmptyQueue, Zenon
    <3>2. next # Nobody
      BY PiAssumption, Zenon DEF Nobody
    <3>3. IsInjective(ptable'[w].waiters)
      BY <1>2, <1>3, Zenon
    <3>4. word'[w].tid = next /\ ptable'[w].owner = next
      BY <1>3, Zenon
    <3>5. word'[w].waiters = (Queued(w)' # {})
      <4>1. word'[w].waiters = (rest # <<>>)
        BY <1>3, Zenon
      <4> QED BY <3>1, <4>1
    <3>6. \A u \in Queued(w)' : u \in Queued(w) /\ u # next
      BY <1>4, Zenon
    <3>7. \A u \in Queued(w)' : goal'[u] = w /\ ppc'[u] \in Waiting /\ word'[w].tid # u
      <4>1. \A u \in Queued(w) : goal[u] = w /\ ppc[u] \in Waiting
        BY <2>3, <2>5, Zenon DEF WordInv
      <4>2. \A u \in Queued(w) : goal'[u] = w /\ ppc'[u] \in Waiting
        BY <2>2, <2>5, <4>1, Zenon
      <4> QED BY <3>4, <3>6, <4>2, Zenon
    <3>8. WordInv(w)'
      BY <3>2, <3>3, <3>4, <3>5, <3>7, Zenon DEF WordInv
    <3> QED BY <2>5, <3>8, Zenon
  <2> QED BY <2>4, <2>5, Zenon
<1>13. HandInv'
  <2>1. \A u \in PiTask : handing[u] # Nobody => handing[u] \in PiTask
    BY <1>1, Zenon DEF PiTypes
  <2>2. \A u \in PiTask : handing[u] # Nobody => handing[u] # t /\ ppc'[handing[u]] \in Waiting
    BY <2>1, Zenon DEF PiInv, HandInv, SameTask
  <2>3. ppc'[next] \in Waiting
    BY <1>2, Zenon DEF SameTask
  <2>4. \A u \in PiTask : handing[u] # next
    BY <1>6, Zenon DEF Handed
  <2>5. \A u, v \in PiTask : handing[u] # Nobody /\ handing[u] = handing[v] => u = v
    BY Zenon DEF PiInv, HandInv
  <2>6. \A u \in PiTask : handing[u] # Nobody => kicking[u] = Nobody
    BY Zenon DEF PiInv, HandInv
  <2>7. ASSUME NEW u \in PiTask, handing'[u] # Nobody
        PROVE  kicking'[u] = Nobody /\ ppc'[handing'[u]] \in Waiting
    <3>1. CASE u = t
      BY <1>7, <2>3, <3>1, Zenon
    <3>2. CASE u # t
      BY <1>7, <2>2, <2>6, <2>7, <3>2, Zenon
    <3> QED BY <3>1, <3>2, Zenon
  <2>8. ASSUME NEW u \in PiTask, NEW v \in PiTask, handing'[u] # Nobody, handing'[u] = handing'[v]
        PROVE  u = v
    <3>1. CASE u = t
      BY <1>7, <2>4, <2>8, <3>1, Zenon
    <3>2. CASE v = t
      BY <1>7, <2>4, <2>8, <3>2, Zenon
    <3>3. CASE u # t /\ v # t
      BY <1>7, <2>5, <2>8, <3>3, Zenon
    <3> QED BY <3>1, <3>2, <3>3, Zenon
  <2> QED BY <2>7, <2>8, Zenon DEF HandInv
<1> QED BY <1>10, <1>11, <1>12, <1>13, Zenon DEF PiInv

\* pi_remove_waiter: a signal or the deadline takes t out of the queue.
LEMMA WaitGivesUpStep == ASSUME PiInv, NEW t \in PiTask, WaitGivesUp(t) PROVE PiInv'
<1>1. PiTypes /\ TaskInv(t) /\ ppc[t] = "wait"
  BY Zenon DEF PiInv, WaitGivesUp
<1>2. PICK w \in PiWord : goal[t] = w
  BY <1>1, Zenon DEF TaskInv, CallInv, Waiting
<1>3. WordInv(w) /\ t \in Queued(w) /\ InQueue(t) /\ ~Handed(t)
  BY <1>1, <1>2, Zenon DEF PiInv, WaitGivesUp, InQueue, TaskInv, WaitInv, Waiting
<1>4. PICK rest \in Seq(PiTask) :
          /\ rest = Without(ptable[w].waiters, t)
          /\ IsInjective(rest) /\ Range(rest) = Queued(w) \ {t}
  BY <1>1, <1>3, WithoutFacts DEF PiTypes, WordInv, Queued
<1>5. /\ ptable' = [ptable EXCEPT ![w] = [owner |-> ptable[w].owner, waiters |-> rest]]
      /\ \/ rest = <<>> /\ word' = [word EXCEPT ![w] = [word[w] EXCEPT !.waiters = FALSE]]
         \/ rest # <<>> /\ word' = word
  <2>1. ptable[w] \in [owner : PiTask \cup {Nobody}, waiters : Seq(PiTask)]
    BY <1>1, Zenon DEF PiTypes
  <2>2. [ptable[w] EXCEPT !.waiters = rest] = [owner |-> ptable[w].owner, waiters |-> rest]
    BY <2>1
  <2> QED BY <1>2, <1>4, <2>2, Zenon DEF WaitGivesUp
<1>6. /\ word'[w].tid = word[w].tid /\ word'[w].waiters = (rest # <<>>)
      /\ word' \in [PiWord -> WordType]
      /\ ptable'[w].owner = ptable[w].owner /\ ptable'[w].waiters = rest
      /\ \A v \in PiWord \ {w} : word'[v] = word[v] /\ ptable'[v] = ptable[v]
  <2>1. word[w] \in WordType /\ word[w].waiters = TRUE
    BY <1>1, <1>3, Zenon DEF PiTypes, WordInv
  <2>2. /\ [word[w] EXCEPT !.waiters = FALSE] \in WordType
        /\ [word[w] EXCEPT !.waiters = FALSE].tid = word[w].tid
        /\ [word[w] EXCEPT !.waiters = FALSE].waiters = FALSE
    BY <2>1, Zenon DEF WordType
  <2>3. CASE rest = <<>>
    BY <1>1, <1>5, <2>2, <2>3, ZenonT(60) DEF PiTypes
  <2>4. CASE rest # <<>>
    BY <1>1, <1>5, <2>1, <2>4, Zenon DEF PiTypes
  <2> QED BY <2>3, <2>4, Zenon
<1>7. /\ Queued(w)' = Queued(w) \ {t}
      /\ \A v \in PiWord \ {w} : Queued(v)' = Queued(v)
  BY <1>4, <1>6, Zenon DEF Queued
<1>8. \A u : u # t => (InQueue(u)' <=> InQueue(u))
  BY <1>7, Zenon DEF InQueue
<1>9. (\A u : Handed(u)' <=> Handed(u)) /\ (\A u : Kicked(u)' <=> Kicked(u))
  BY Zenon DEF WaitGivesUp, Handed, Kicked
<1>10. \A u \in PiTask \ {t} : SameTask(u)
  BY <1>1, Zenon DEF WaitGivesUp, SameTask, PiTypes, PiGoto, PiReturn
<1>11. ASSUME NEW u \in PiTask \ {t} PROVE TaskInv(u)'
  <2>1. /\ \A v \in PiWord : word'[v].tid = u <=> word[v].tid = u
        /\ \A v \in PiWord : word[v].tid = u /\ ptable[v].owner = u => ptable'[v].owner = u
    BY <1>6, Zenon
  <2> QED BY <1>8, <1>9, <1>10, <2>1, TaskFrame, Zenon DEF PiInv
<1>12. TaskInv(t)'
  <2>1. ppc'[t] = "user" /\ held'[t] = held[t]
    BY <1>1, Zenon DEF WaitGivesUp, PiTypes, PiReturn, PiGoto
  <2>2. word[w].tid # t
    BY <1>3, Zenon DEF WordInv
  <2>3. HoldInv(t)'
    BY <1>1, <1>2, <1>6, <2>1, <2>2 DEF TaskInv, HoldInv, Exited, Waiting
  <2> QED BY <2>1, <2>3, Zenon DEF TaskInv, CallInv, WaitInv, ExitInv, Waiting, Exited
<1>13. ASSUME NEW v \in PiWord PROVE WordInv(v)'
  <2>1. WordInv(v) /\ Queued(v) \subseteq PiTask
    BY <1>1, QueuedTasks, Zenon DEF PiInv
  <2>2. CASE v # w
    <3>1. t \notin Queued(v)
      BY <1>2, <2>1, <2>2, Zenon DEF WordInv
    <3>2. \A u \in Queued(v) : goal'[u] = goal[u] /\ ppc'[u] \in Waiting
      BY <1>10, <2>1, <3>1, Zenon DEF WordInv, SameTask
    <3> QED BY <1>6, <2>1, <2>2, <3>2, WordFrame, Zenon
  <2>3. CASE v = w
    <3>1. (rest # <<>>) = (Queued(w)' # {})
      BY <1>4, <1>7, EmptyQueue, Zenon
    <3>2. \A u \in Queued(w)' : u \in Queued(w) /\ goal'[u] = goal[u] /\ ppc'[u] = ppc[u]
      BY <1>7, <1>10, <2>1, <2>3, Zenon DEF SameTask
    <3> QED BY <1>3, <1>4, <1>6, <1>7, <2>1, <2>3, <3>1, <3>2, Zenon DEF WordInv
  <2> QED BY <2>2, <2>3, Zenon
<1>14. PiTypes'
  <2>1. ptable' \in [PiWord -> [owner : PiTask \cup {Nobody}, waiters : Seq(PiTask)]]
    BY <1>1, <1>5, Zenon DEF PiTypes
  <2>2. word' \in [PiWord -> WordType]
    BY <1>6, Zenon
  <2>3. ppc' \in [PiTask -> PiPc] /\ goal' \in [PiTask -> PiWord \cup {NoWord}]
    BY <1>1, Zenon DEF PiTypes, PiPc, WaitGivesUp, PiReturn, PiGoto
  <2>4. prun' \in [PiTask -> {"running", "sleeping"}] /\ pstop' \subseteq PiTask
    BY <1>1, Zenon DEF PiTypes, WaitGivesUp
  <2> QED BY <1>1, <2>1, <2>2, <2>3, <2>4, Zenon DEF WaitGivesUp, PiTypes
<1>15. HandInv'
  <2>1. \A u \in PiTask : handing[u] # Nobody => handing[u] \in PiTask \ {t}
    BY <1>1, <1>3, Zenon DEF PiTypes, Handed
  <2>2. \A u \in PiTask : handing[u] # Nobody => ppc'[handing[u]] \in Waiting
    BY <1>10, <2>1, Zenon DEF PiInv, HandInv, SameTask
  <2> QED BY <2>2, Zenon DEF PiInv, HandInv, WaitGivesUp
<1> QED BY <1>11, <1>12, <1>13, <1>14, <1>15, Zenon DEF PiInv

\* mark_woken by t: the waiter it names has its wake-up.
LEMMA MarkWokenStep == ASSUME PiInv, NEW t \in PiTask, MarkWoken(t) PROVE PiInv'
<1>1. PiTypes /\ HandInv
  BY Zenon DEF PiInv
<1>2. PICK x \in PiTask : handing[t] = x /\ x # Nobody
  BY <1>1, PiAssumption, Zenon DEF MarkWoken, PiTypes, Nobody
<1>3. /\ ppc[x] \in Waiting /\ kicking[t] = Nobody /\ Handed(x) /\ TaskInv(x)
      /\ \A u \in PiTask : handing[u] = x => u = t
  BY <1>1, <1>2, Zenon DEF HandInv, Handed, PiInv
<1>4. ~InQueue(x) /\ word[goal[x]].tid = x
  BY <1>3, Zenon DEF TaskInv, WaitInv
<1>5. /\ UNCHANGED <<word, ptable, prun, pstop, ppc, goal, held, dying>>
      /\ wstate' = [wstate EXCEPT ![x] = "woken"]
      /\ handing' = [handing EXCEPT ![t] = Nobody]
      /\ kicking' = [kicking EXCEPT ![t] = IF wstate[x] = "sleeping" THEN x ELSE Nobody]
  BY <1>2, Zenon DEF MarkWoken
<1>6. /\ wstate'[x] = "woken" /\ \A u \in PiTask \ {x} : wstate'[u] = wstate[u]
      /\ handing'[t] = Nobody /\ \A u \in PiTask \ {t} : handing'[u] = handing[u]
      /\ wstate[x] = "sleeping" => kicking'[t] = x
      /\ \A u \in PiTask \ {t} : kicking'[u] = kicking[u]
  BY <1>1, <1>5, Zenon DEF PiTypes
<1>7. PiTypes'
  <2>1. wstate' \in [PiTask -> {"armed", "sleeping", "woken"}]
    BY <1>1, <1>5, Zenon DEF PiTypes
  <2>2. handing' \in [PiTask -> PiTask \cup {Nobody}]
    BY <1>1, <1>5, Zenon DEF PiTypes
  <2>3. kicking' \in [PiTask -> PiTask \cup {Nobody}]
    BY <1>1, <1>5, Zenon DEF PiTypes
  <2> QED BY <1>1, <1>5, <2>1, <2>2, <2>3, Zenon DEF PiTypes
<1>8. /\ \A u : InQueue(u)' <=> InQueue(u)
      /\ ~Handed(x)'
      /\ \A u \in PiTask \ {x} : Handed(u)' <=> Handed(u)
      /\ \A u \in PiTask : Kicked(u) => Kicked(u)'
  <2>1. \A u : InQueue(u)' <=> InQueue(u)
    BY <1>5, Zenon DEF InQueue, Queued
  <2>2. ~Handed(x)'
    BY <1>2, <1>3, <1>6, Zenon DEF Handed
  <2>3. \A u \in PiTask \ {x} : Handed(u)' <=> Handed(u)
    BY <1>2, <1>6, PiAssumption DEF Handed, Nobody
  <2>4. \A u \in PiTask : Kicked(u) => Kicked(u)'
    BY <1>3, <1>6, PiAssumption, Zenon DEF Kicked, Nobody
  <2> QED BY <2>1, <2>2, <2>3, <2>4, Zenon
<1>9. ASSUME NEW u \in PiTask \ {x} PROVE TaskInv(u)'
  <2>1. SameTask(u) /\ TaskInv(u)
    BY <1>5, <1>6, Zenon DEF SameTask, PiInv
  <2> QED BY <1>5, <1>8, <2>1, TaskFrame, Zenon
<1>10. TaskInv(x)'
  <2>1. CallInv(x)'
    BY <1>3, <1>5, Zenon DEF TaskInv, CallInv
  <2>2. WaitInv(x)'
    <3>1. ppc[x] = "yield" /\ prun[x] = "sleeping" => Kicked(x)'
      BY <1>1, <1>3, <1>6, Zenon DEF TaskInv, WaitInv, Kicked, PiTypes, Waiting
    <3> QED BY <1>4, <1>5, <1>6, <1>8, <3>1, Zenon DEF WaitInv
  <2>3. ExitInv(x)' /\ HoldInv(x)'
    BY <1>3, <1>5, Zenon DEF TaskInv, ExitInv, HoldInv
  <2> QED BY <2>1, <2>2, <2>3, Zenon DEF TaskInv
<1>11. ASSUME NEW v \in PiWord PROVE WordInv(v)'
  BY <1>5, WordFrame, Zenon DEF PiInv, WordInv
<1>12. HandInv'
  BY <1>1, <1>5, <1>6 DEF HandInv
<1> QED BY <1>7, <1>9, <1>10, <1>11, <1>12, Zenon DEF PiInv

\* cas_state to Runnable.
LEMMA KickStep == ASSUME PiInv, NEW t \in PiTask, Kick(t) PROVE PiInv'
<1>1. PiTypes /\ HandInv
  BY Zenon DEF PiInv
<1>2. PICK x \in PiTask : kicking[t] = x
  BY <1>1, Zenon DEF Kick, PiTypes
<1>3. /\ UNCHANGED <<word, ptable, wstate, pstop, ppc, goal, held, handing, dying>>
      /\ prun' = [prun EXCEPT ![x] = "running"]
      /\ kicking' = [kicking EXCEPT ![t] = Nobody]
  BY <1>2, Zenon DEF Kick
<1>4. /\ prun'[x] = "running" /\ \A u \in PiTask \ {x} : prun'[u] = prun[u]
      /\ kicking'[t] = Nobody /\ \A u \in PiTask \ {t} : kicking'[u] = kicking[u]
  BY <1>1, <1>3, Zenon DEF PiTypes
<1>5. PiTypes'
  <2>1. prun' \in [PiTask -> {"running", "sleeping"}]
    BY <1>1, <1>3, Zenon DEF PiTypes
  <2>2. kicking' \in [PiTask -> PiTask \cup {Nobody}]
    BY <1>1, <1>3, Zenon DEF PiTypes
  <2> QED BY <1>1, <1>3, <2>1, <2>2, Zenon DEF PiTypes
<1>6. (\A u : InQueue(u)' <=> InQueue(u)) /\ (\A u : Handed(u)' <=> Handed(u))
  BY <1>3, Zenon DEF InQueue, Queued, Handed
<1>7. \A u \in PiTask \ {x} : Kicked(u) => Kicked(u)'
  BY <1>2, <1>4, Zenon DEF Kicked
<1>8. ASSUME NEW u \in PiTask \ {x} PROVE TaskInv(u)'
  <2>1. SameTask(u) /\ TaskInv(u)
    BY <1>3, <1>4, Zenon DEF SameTask, PiInv
  <2> QED BY <1>3, <1>6, <1>7, <2>1, TaskFrame, Zenon
<1>9. TaskInv(x)'
  <2>1. TaskInv(x)
    BY Zenon DEF PiInv
  <2>2. WaitInv(x)'
    BY <1>3, <1>4, <1>6, <2>1, Zenon DEF TaskInv, WaitInv
  <2>3. CallInv(x)' /\ ExitInv(x)' /\ HoldInv(x)'
    BY <1>3, <2>1, Zenon DEF TaskInv, CallInv, ExitInv, HoldInv
  <2> QED BY <2>2, <2>3, Zenon DEF TaskInv
<1>10. ASSUME NEW v \in PiWord PROVE WordInv(v)'
  BY <1>3, WordFrame, Zenon DEF PiInv, WordInv
<1>11. HandInv'
  BY <1>1, <1>3, <1>4, Zenon DEF HandInv
<1> QED BY <1>5, <1>8, <1>9, <1>10, <1>11, Zenon DEF PiInv

\* pi_enqueue_waiter: t joins the queue of a word another task owns.
LEMMA EnqueueStep ==
    ASSUME PiInv, NEW t \in PiTask, NEW w \in PiWord, ppc[t] = "enqueue", goal[t] = w,
           word[w].tid # Nobody,
           word' = [word EXCEPT ![w].waiters = TRUE],
           ptable' = [ptable EXCEPT ![w] = [owner |-> word[w].tid, waiters |-> Append(@.waiters, t)]],
           wstate' = [wstate EXCEPT ![t] = "armed"],
           ppc' = [ppc EXCEPT ![t] = "wait"],
           UNCHANGED <<goal, prun, pstop, held, handing, kicking, dying>>
    PROVE  PiInv'
<1>1. PiTypes /\ TaskInv(t) /\ WordInv(w) /\ HandInv
  BY Zenon DEF PiInv
<1>2. ~InQueue(t) /\ ~Handed(t)
  BY NotWaiting, Zenon DEF Waiting
<1>3. w \notin held[t] /\ word[w].tid # t
  BY <1>1, Zenon DEF TaskInv, CallInv, HoldInv, Waiting, Exited
<1>4. PICK q \in Seq(PiTask) : ptable[w].waiters = q /\ IsInjective(q)
  BY <1>1, Zenon DEF PiTypes, WordInv
<1>5. PICK rest \in Seq(PiTask) :
          rest = Append(q, t) /\ IsInjective(rest) /\ Range(rest) = Queued(w) \cup {t}
  <2>1. t \notin Range(q)
    BY <1>2, <1>4, Zenon DEF InQueue, Queued
  <2>2. PICK rest : rest = Append(q, t)
    BY Zenon
  <2>3. rest \in Seq(PiTask) /\ IsInjective(rest)
    BY <1>4, <2>1, <2>2, AppendFacts, Zenon
  <2>4. Range(rest) = Range(q) \cup {t}
    <3>1. \A x : x \in Range(rest) <=> x \in Range(q) \/ x = t
      BY <2>2, AppendElements, ZenonT(60)
    <3> QED BY <3>1, Zenon
  <2> QED BY <1>4, <2>2, <2>3, <2>4, Zenon DEF Queued
<1>6. /\ word'[w].tid = word[w].tid /\ word'[w].waiters = TRUE
      /\ word' \in [PiWord -> WordType]
      /\ ptable'[w].owner = word[w].tid /\ ptable'[w].waiters = rest
      /\ ptable' \in [PiWord -> [owner : PiTask \cup {Nobody}, waiters : Seq(PiTask)]]
      /\ \A v \in PiWord \ {w} : word'[v] = word[v] /\ ptable'[v] = ptable[v]
  <2>1. word[w] \in WordType
    BY <1>1, Zenon DEF PiTypes
  <2>2. /\ [word[w] EXCEPT !.waiters = TRUE] \in WordType
        /\ [word[w] EXCEPT !.waiters = TRUE].tid = word[w].tid
        /\ [word[w] EXCEPT !.waiters = TRUE].waiters = TRUE
    BY <2>1, Zenon DEF WordType
  <2>3. word[w].tid \in PiTask \cup {Nobody}
    BY <2>1, Zenon DEF WordType
  <2>4. ptable' = [ptable EXCEPT ![w] = [owner |-> word[w].tid, waiters |-> rest]]
    BY <1>1, <1>4, <1>5, Zenon DEF PiTypes
  <2>5. word' = [word EXCEPT ![w] = [word[w] EXCEPT !.waiters = TRUE]]
    BY Zenon
  <2>6. word' \in [PiWord -> WordType] /\ word'[w] = [word[w] EXCEPT !.waiters = TRUE]
        /\ \A v \in PiWord \ {w} : word'[v] = word[v]
    BY <1>1, <2>2, <2>5 DEF PiTypes
  <2> QED BY <1>1, <2>2, <2>3, <2>4, <2>6 DEF PiTypes
<1>7. /\ ppc'[t] = "wait" /\ wstate'[t] = "armed"
      /\ goal'[t] = w /\ held'[t] = held[t]
      /\ \A u \in PiTask \ {t} : SameTask(u)
  BY <1>1, Zenon DEF PiTypes, SameTask
<1>8. /\ Queued(w)' = Queued(w) \cup {t}
      /\ \A v \in PiWord \ {w} : Queued(v)' = Queued(v)
  BY <1>5, <1>6, Zenon DEF Queued
<1>9. InQueue(t)' /\ \A u : u # t => (InQueue(u)' <=> InQueue(u))
  BY <1>8, Zenon DEF InQueue
<1>10. (\A u : Handed(u)' <=> Handed(u)) /\ (\A u : Kicked(u)' <=> Kicked(u))
  BY Zenon DEF Handed, Kicked
<1>11. ASSUME NEW u \in PiTask \ {t} PROVE TaskInv(u)'
  <2>1. /\ \A v \in PiWord : word'[v].tid = u <=> word[v].tid = u
        /\ \A v \in PiWord : word[v].tid = u /\ ptable[v].owner = u => ptable'[v].owner = u
    BY <1>6
  <2> QED BY <1>7, <1>9, <1>10, <2>1, TaskFrame, Zenon DEF PiInv
<1>12. TaskInv(t)'
  <2>1. HoldInv(t)'
    BY <1>1, <1>3, <1>6, <1>7, Zenon DEF TaskInv, HoldInv, Exited, Waiting
  <2>2. WaitInv(t)'
    BY <1>2, <1>7, <1>9, <1>10, Zenon DEF WaitInv
  <2> QED BY <1>3, <1>7, <2>1, <2>2, Zenon DEF TaskInv, CallInv, ExitInv, Waiting, Exited
<1>13. ASSUME NEW v \in PiWord
       PROVE  /\ Queued(v) \subseteq PiTask \ {t}
              /\ \A u \in Queued(v) : goal'[u] = v /\ ppc'[u] \in Waiting /\ word[v].tid # u
  <2>1. WordInv(v) /\ Queued(v) \subseteq PiTask \ {t}
    BY <1>1, <1>2, QueuedTasks, Zenon DEF PiInv, InQueue
  <2> QED BY <1>7, <2>1, Zenon DEF WordInv, SameTask
<1>16. ASSUME NEW v \in PiWord \ {w} PROVE WordInv(v)'
  <2>1. \A u \in Queued(v) : goal'[u] = goal[u] /\ ppc'[u] \in Waiting
    BY <1>13, Zenon
  <2> QED BY <1>6, <2>1, WordFrame, Zenon DEF PiInv
<1>17. WordInv(w)'
  <2>1. \A u \in Queued(w)' : goal'[u] = w /\ ppc'[u] \in Waiting /\ word'[w].tid # u
    BY <1>3, <1>6, <1>7, <1>8, <1>13 DEF Waiting
  <2>2. Queued(w)' # {}
    BY <1>8, Zenon
  <2>3. word'[w].waiters = (Queued(w)' # {})
    BY <1>6, <2>2, Zenon
  <2>4. IsInjective(ptable'[w].waiters) /\ word'[w].tid = ptable'[w].owner /\ word'[w].tid # Nobody
    BY <1>5, <1>6, Zenon
  <2> QED BY <2>1, <2>3, <2>4, Zenon DEF WordInv
<1>14. PiTypes'
  BY <1>1, <1>6, Zenon DEF PiTypes, PiPc
<1>15. HandInv'
  <2>1. \A u \in PiTask : handing[u] # Nobody => handing[u] \in PiTask \ {t}
    BY <1>1, <1>2, Zenon DEF PiTypes, Handed
  <2>2. \A u \in PiTask : handing[u] # Nobody => ppc'[handing[u]] \in Waiting
    BY <1>1, <1>7, <2>1, Zenon DEF HandInv, SameTask
  <2> QED BY <1>1, <2>2, Zenon DEF HandInv
<1> QED BY <1>11, <1>12, <1>14, <1>15, <1>16, <1>17, Zenon DEF PiInv

\* The other outcomes of pi_enqueue_waiter leave the table alone.
LEMMA EnqueueWaiterStep == ASSUME PiInv, NEW t \in PiTask, EnqueueWaiter(t) PROVE PiInv'
<1>1. PiTypes /\ TaskInv(t) /\ ppc[t] = "enqueue"
  BY Zenon DEF PiInv, EnqueueWaiter
<1>2. PICK w \in PiWord : goal[t] = w /\ w \notin held[t]
  BY <1>1, Zenon DEF TaskInv, CallInv
<1>3. \/ /\ UNCHANGED <<word, ptable, wstate>>
         /\ \E l \in {"lock", "user"} : ppc' = [ppc EXCEPT ![t] = l]
         /\ ppc'[t] = "lock" => goal' = goal
         /\ goal' = goal \/ goal' = [goal EXCEPT ![t] = NoWord]
      \/ /\ word[w].tid # Nobody
         /\ word' = [word EXCEPT ![w].waiters = TRUE]
         /\ ptable' = [ptable EXCEPT ![w] =
                          [owner |-> word[w].tid, waiters |-> Append(@.waiters, t)]]
         /\ wstate' = [wstate EXCEPT ![t] = "armed"]
         /\ ppc' = [ppc EXCEPT ![t] = "wait"] /\ goal' = goal
  <2> DEFINE Refused == ppc[word[w].tid] = "reaped" \/ ChainReaches(word[w].tid, t)
  <2>1. CASE word[w].tid = Nobody
    BY <1>1, <1>2, <2>1, Zenon DEF EnqueueWaiter, PiGoto, PiTypes
  <2>2. CASE word[w].tid # Nobody /\ Refused
    <3>1. ppc' = [ppc EXCEPT ![t] = "user"] /\ goal' = [goal EXCEPT ![t] = NoWord]
          /\ UNCHANGED <<word, ptable, wstate>>
      <4> HIDE DEF Refused
      <4> QED BY <1>2, <2>2, Zenon DEF EnqueueWaiter, PiGoto, PiReturn, Refused
    <3> QED BY <1>1, <3>1, Zenon DEF PiTypes
  <2>3. CASE word[w].tid # Nobody /\ ~Refused
    BY <1>2, <2>3, Zenon DEF EnqueueWaiter, PiGoto
  <2> QED BY <2>1, <2>2, <2>3, Zenon
<1>4. UNCHANGED <<prun, pstop, held, handing, kicking, dying>>
  BY Zenon DEF EnqueueWaiter
<1>5. CASE /\ UNCHANGED <<word, ptable, wstate>>
           /\ \E l \in {"lock", "user"} : ppc' = [ppc EXCEPT ![t] = l]
           /\ ppc'[t] = "lock" => goal' = goal
           /\ goal' = goal \/ goal' = [goal EXCEPT ![t] = NoWord]
  <2>1. ~InQueue(t) /\ ~Handed(t)
    BY <1>1, NotWaiting, Zenon DEF Waiting
  <2>2. /\ ppc'[t] \in {"lock", "user"} /\ \A u \in PiTask \ {t} : SameTask(u)
    BY <1>1, <1>4, <1>5, Zenon DEF PiTypes, SameTask
  <2>3. PiTypes'
    <3>1. ppc' \in [PiTask -> PiPc]
      BY <1>1, <1>5, ZenonT(60) DEF PiTypes, PiPc
    <3>2. goal' \in [PiTask -> PiWord \cup {NoWord}]
      BY <1>1, <1>5, Zenon DEF PiTypes
    <3> QED BY <1>1, <1>4, <1>5, <3>1, <3>2, Zenon DEF PiTypes
  <2>4. TaskInv(t)'
    <3>1. HoldInv(t)'
      BY <1>1, <1>4, <1>5, <2>2, Zenon DEF TaskInv, HoldInv, Exited, Waiting
    <3> QED BY <1>2, <1>4, <1>5, <2>2, <3>1, Zenon DEF TaskInv, CallInv, WaitInv, ExitInv, Waiting, Exited
  <2> QED BY <1>4, <1>5, <2>1, <2>2, <2>3, <2>4, LocalStep, Zenon
<1>6. CASE /\ word[w].tid # Nobody
           /\ word' = [word EXCEPT ![w].waiters = TRUE]
           /\ ptable' = [ptable EXCEPT ![w] =
                            [owner |-> word[w].tid, waiters |-> Append(@.waiters, t)]]
           /\ wstate' = [wstate EXCEPT ![t] = "armed"]
           /\ ppc' = [ppc EXCEPT ![t] = "wait"] /\ goal' = goal
  BY <1>1, <1>2, <1>4, <1>6, EnqueueStep, Zenon
<1> QED BY <1>3, <1>5, <1>6, Zenon

\* A word without waiters becomes free and its entry goes: futex_unlock_pi, and
\* pi_owner_died_key with FUTEX_OWNER_DIED.
LEMMA FreeStep ==
    ASSUME PiInv, NEW t \in PiTask, NEW w \in PiWord, NEW f \in WordType, PiTypes',
           ppc[t] \notin Waiting, word[w].tid = t, ptable[w].waiters = <<>>,
           f.tid = Nobody, f.waiters = FALSE,
           word' = [word EXCEPT ![w] = f], ptable' = [ptable EXCEPT ![w] = NoEntry],
           UNCHANGED <<handing, kicking>>,
           \A u \in PiTask \ {t} : SameTask(u), TaskInv(t)'
    PROVE  PiInv'
<1>1. /\ word'[w] = f /\ ptable'[w] = NoEntry
      /\ \A v \in PiWord \ {w} : word'[v] = word[v] /\ ptable'[v] = ptable[v]
  BY Zenon DEF PiInv, PiTypes
<1>2. ptable'[w].waiters = <<>>
  <2>1. NoEntry.waiters = <<>>
    BY Zenon DEF NoEntry
  <2> QED BY <1>1, <2>1, Zenon
<1>3. Queued(w)' = {} /\ IsInjective(ptable'[w].waiters)
  BY <1>2 DEF Queued, Range, IsInjective
<1>4. WordInv(w)'
  <2>1. word'[w].waiters = (Queued(w)' # {})
    BY <1>1, <1>3, Zenon
  <2> QED BY <1>3, <2>1, Zenon DEF WordInv
<1>5. ~InQueue(t) /\ ~Handed(t)
  BY NotWaiting, Zenon
<1> QED BY <1>1, <1>2, <1>4, <1>5, OwnStep, Zenon

\* The word, the entry and the hand-off keep their types.
LEMMA ReleaseTypes ==
    ASSUME PiTypes, NEW t \in PiTask, NEW w \in PiWord, NEW f \in WordType,
           NEW q \in Seq(PiTask), NEW o \in PiTask \cup {Nobody}
    PROVE  /\ [word EXCEPT ![w] = f] \in [PiWord -> WordType]
           /\ [ptable EXCEPT ![w] = [owner |-> o, waiters |-> q]] \in
                  [PiWord -> [owner : PiTask \cup {Nobody}, waiters : Seq(PiTask)]]
           /\ [handing EXCEPT ![t] = o] \in [PiTask -> PiTask \cup {Nobody}]
<1>1. [owner |-> o, waiters |-> q] \in [owner : PiTask \cup {Nobody}, waiters : Seq(PiTask)]
  BY Zenon
<1>2. [word EXCEPT ![w] = f] \in [PiWord -> WordType]
  BY Zenon DEF PiTypes
<1>3. [handing EXCEPT ![t] = o] \in [PiTask -> PiTask \cup {Nobody}]
  BY Zenon DEF PiTypes
<1>4. [ptable EXCEPT ![w] = [owner |-> o, waiters |-> q]] \in
          [PiWord -> [owner : PiTask \cup {Nobody}, waiters : Seq(PiTask)]]
  BY <1>1, Zenon DEF PiTypes
<1> QED BY <1>2, <1>3, <1>4, Zenon

\* The end of an ownership of t, with or without waiters.
LEMMA ReleaseStep ==
    ASSUME PiInv, NEW t \in PiTask, NEW w \in PiWord, NEW d \in BOOLEAN,
           handing[t] = Nobody, kicking[t] = Nobody, ppc[t] \in {"user"} \cup Exited,
           word[w].tid = t,
           IF ptable[w].waiters = <<>>
           THEN /\ word' = [word EXCEPT ![w] = [tid |-> Nobody, waiters |-> FALSE, died |-> d]]
                /\ ptable' = [ptable EXCEPT ![w] = NoEntry]
                /\ UNCHANGED handing
           ELSE /\ \E e \in BOOLEAN : HandOver(w, e)
                /\ handing' = [handing EXCEPT ![t] = BestWaiter(ptable[w].waiters)],
           kicking' = kicking, wstate' = wstate, prun' = prun, pstop' = pstop,
           ppc' \in [PiTask -> PiPc], goal' \in [PiTask -> PiWord \cup {NoWord}],
           held' \in [PiTask -> SUBSET PiWord],
           dying' \in [PiTask -> [owned : SUBSET PiWord, robust : SUBSET PiWord, seen : WordType]],
           \A u \in PiTask \ {t} : SameTask(u),
           ppc'[t] \in {"user", "exit"}, ppc[t] \in Exited => ppc'[t] = "exit",
           ppc'[t] = "exit" => ppc[t] \in Exited /\ held'[t] = held[t],
           held'[t] = held[t] \ {w}
    PROVE  PiInv'
<1>1. PiTypes /\ WordInv(w) /\ HoldInv(t) /\ ExitInv(t)
  BY Zenon DEF PiInv, TaskInv
<1>2. t # Nobody /\ ppc[t] \notin Waiting
  BY PiAssumption, Zenon DEF Nobody, Waiting, Exited
<1>3. ASSUME word'[w].tid # t, \A v \in PiWord \ {w} : word'[v] = word[v]
      PROVE  TaskInv(t)'
  <2>1. HoldInv(t)'
    BY <1>1, <1>2, <1>3, Zenon DEF HoldInv, Exited, Waiting
  <2>2. ExitInv(t)'
    BY <1>1, Zenon DEF ExitInv, Exited
  <2> QED BY <2>1, <2>2, Zenon DEF TaskInv, CallInv, WaitInv, Waiting
<1>4. CASE ptable[w].waiters = <<>>
  <2>1. PICK f \in WordType : f = [tid |-> Nobody, waiters |-> FALSE, died |-> d]
    BY Zenon DEF WordType
  <2>2. word' = [word EXCEPT ![w] = f] /\ f.tid = Nobody /\ f.waiters = FALSE
    BY <1>4, <2>1, Zenon
  <2>3. word'[w].tid # t /\ \A v \in PiWord \ {w} : word'[v] = word[v]
    BY <1>1, <1>2, <2>2, Zenon DEF PiTypes
  <2>4. ptable' = [ptable EXCEPT ![w] = NoEntry] /\ UNCHANGED <<handing, kicking>>
    BY <1>4, Zenon
  <2>5. PiTypes'
    <3>1. <<>> \in Seq(PiTask) /\ NoEntry = [owner |-> Nobody, waiters |-> <<>>]
      BY EmptyIsSeq, Zenon DEF NoEntry
    <3>2. /\ word' \in [PiWord -> WordType]
          /\ ptable' \in [PiWord -> [owner : PiTask \cup {Nobody}, waiters : Seq(PiTask)]]
      BY <1>1, <2>2, <2>4, <3>1, ReleaseTypes, Zenon
    <3> QED BY <1>1, <2>4, <3>2, Zenon DEF PiTypes
  <2> QED BY <1>2, <1>3, <1>4, <2>2, <2>3, <2>4, <2>5, FreeStep, Zenon
<1>5. CASE ptable[w].waiters # <<>>
  <2>1. PICK e \in BOOLEAN : HandOver(w, e)
    BY <1>5, Zenon
  <2>2. PICK next \in PiTask, rest \in Seq(PiTask) :
              /\ next = BestWaiter(ptable[w].waiters)
              /\ next \in Queued(w)
              /\ IsInjective(rest) /\ Range(rest) = Queued(w) \ {next}
              /\ word' = [word EXCEPT ![w] = [tid |-> next, waiters |-> rest # <<>>, died |-> e]]
              /\ ptable' = [ptable EXCEPT ![w] = [owner |-> next, waiters |-> rest]]
    BY <1>1, <1>5, <2>1, HandOverFacts, Zenon
  <2>3. handing' = [handing EXCEPT ![t] = next]
    BY <1>5, <2>2, Zenon
  <2>4. next # t
    BY <1>1, <2>2, Zenon DEF WordInv
  <2>5. word'[w].tid # t /\ \A v \in PiWord \ {w} : word'[v] = word[v]
    BY <1>1, <2>2, <2>4, Zenon DEF PiTypes
  <2>6. PiTypes'
    <3>1. [tid |-> next, waiters |-> rest # <<>>, died |-> e] \in WordType
      BY Zenon DEF WordType
    <3>2. /\ word' \in [PiWord -> WordType]
          /\ ptable' \in [PiWord -> [owner : PiTask \cup {Nobody}, waiters : Seq(PiTask)]]
          /\ handing' \in [PiTask -> PiTask \cup {Nobody}]
      BY <1>1, <2>2, <2>3, <3>1, ReleaseTypes, ZenonT(60)
    <3> QED BY <1>1, <3>2, Zenon DEF PiTypes
  <2> QED BY <1>2, <1>3, <2>2, <2>3, <2>5, <2>6, HandStep, Zenon
<1> QED BY <1>4, <1>5, Zenon

\* futex_unlock_pi.
LEMMA UnlockPiStep == ASSUME PiInv, NEW t \in PiTask, NEW w \in PiWord, UnlockPi(t, w) PROVE PiInv'
<1>1. PiTypes /\ HoldInv(t)
  BY Zenon DEF PiInv, TaskInv
<1>2. /\ ppc[t] = "user" /\ handing[t] = Nobody /\ kicking[t] = Nobody
      /\ UNCHANGED <<wstate, prun, pstop, ppc, goal, kicking, dying>>
      /\ held' = [held EXCEPT ![t] = held[t] \ {w}]
  BY Zenon DEF UnlockPi, Ready
<1>3. word[w].tid = t
  BY <1>1, Zenon DEF UnlockPi, HoldInv
<1>4. /\ held' \in [PiTask -> SUBSET PiWord] /\ held'[t] = held[t] \ {w}
      /\ ppc[t] \notin Exited /\ ppc'[t] = "user"
      /\ \A u \in PiTask \ {t} : SameTask(u)
  BY <1>1, <1>2, Zenon DEF PiTypes, SameTask, Exited
<1>5. IF ptable[w].waiters = <<>>
      THEN /\ word' = [word EXCEPT ![w] = [tid |-> Nobody, waiters |-> FALSE, died |-> FALSE]]
           /\ ptable' = [ptable EXCEPT ![w] = NoEntry]
           /\ UNCHANGED handing
      ELSE /\ \E e \in BOOLEAN : HandOver(w, e)
           /\ handing' = [handing EXCEPT ![t] = BestWaiter(ptable[w].waiters)]
  <2>1. word[w].died \in BOOLEAN
    BY <1>1, Zenon DEF PiTypes, WordType
  <2> QED BY <2>1, Zenon DEF UnlockPi, Free
<1>6. dying' \in [PiTask -> [owned : SUBSET PiWord, robust : SUBSET PiWord, seen : WordType]]
      /\ ppc' \in [PiTask -> PiPc] /\ goal' \in [PiTask -> PiWord \cup {NoWord}]
  BY <1>1, <1>2, Zenon DEF PiTypes
<1> QED BY <1>2, <1>3, <1>4, <1>5, <1>6, ReleaseStep, Zenon

DyingType == [owned : SUBSET PiWord, robust : SUBSET PiWord, seen : WordType]

\* The exit's lists of words stay lists of words.
LEMMA DyingTypes ==
    ASSUME PiTypes, NEW t \in PiTask, NEW w \in PiWord, NEW x \in WordType
    PROVE  /\ [dying EXCEPT ![t].owned = @ \ {w}] \in [PiTask -> DyingType]
           /\ [dying EXCEPT ![t].robust = @ \ {w}] \in [PiTask -> DyingType]
           /\ [dying EXCEPT ![t].seen = x] \in [PiTask -> DyingType]
           /\ [dying EXCEPT ![t].robust = @ \ {w}, ![t].seen = x] \in [PiTask -> DyingType]
<1>1. dying \in [PiTask -> DyingType] /\ dying[t] \in DyingType
  BY Zenon DEF PiTypes, DyingType
<1>2. \A d \in DyingType : [dying EXCEPT ![t] = d] \in [PiTask -> DyingType]
  BY <1>1, Zenon
<1>3. [dying[t] EXCEPT !.owned = @ \ {w}] \in DyingType
  BY <1>1, Zenon DEF DyingType
<1>4. [dying[t] EXCEPT !.robust = @ \ {w}] \in DyingType
  BY <1>1, Zenon DEF DyingType
<1>5. [dying[t] EXCEPT !.seen = x] \in DyingType
  BY <1>1, Zenon DEF DyingType
<1>6. [dying[t] EXCEPT !.robust = @ \ {w}, !.seen = x] \in DyingType
  BY <1>1, Zenon DEF DyingType
<1>7. [dying EXCEPT ![t].robust = @ \ {w}, ![t].seen = x]
        = [dying EXCEPT ![t] = [dying[t] EXCEPT !.robust = @ \ {w}, !.seen = x]]
  BY <1>1, Zenon
<1> QED BY <1>2, <1>3, <1>4, <1>5, <1>6, <1>7, Zenon

\* A step of the exit that only shortens its lists, or goes on.
LEMMA ExitLocal ==
    ASSUME PiInv, NEW t \in PiTask, ppc[t] \in Exited,
           UNCHANGED <<word, ptable, wstate, prun, pstop, held, handing, kicking>>,
           dying' \in [PiTask -> DyingType], ppc' \in [PiTask -> PiPc],
           goal' \in [PiTask -> PiWord \cup {NoWord}],
           \A u \in PiTask \ {t} : SameTask(u),
           ppc'[t] \in Exited, ExitInv(t)'
    PROVE  PiInv'
<1>1. PiTypes /\ HoldInv(t)
  BY Zenon DEF PiInv, TaskInv
<1>2. PiTypes'
  BY <1>1, Zenon DEF PiTypes, DyingType
<1>3. HoldInv(t)'
  BY <1>1, Zenon DEF HoldInv
<1>4. TaskInv(t)'
  BY <1>3, Zenon DEF TaskInv, CallInv, WaitInv, Waiting, Exited
<1>5. ~InQueue(t) /\ ~Handed(t)
  BY NotWaiting, Zenon DEF Waiting, Exited
<1> QED BY <1>2, <1>4, <1>5, LocalStep, Zenon

\* One key of pi_release_owned_futexes.
LEMMA ReleaseOwnedStep == ASSUME PiInv, NEW t \in PiTask, ReleaseOwned(t) PROVE PiInv'
<1>1. PiTypes /\ ExitInv(t)
  BY Zenon DEF PiInv, TaskInv
<1>2. /\ ppc[t] = "exit" /\ handing[t] = Nobody /\ kicking[t] = Nobody
      /\ UNCHANGED <<wstate, prun, pstop, ppc, goal, held, kicking>>
  BY Zenon DEF ReleaseOwned, Ready
<1>3. PICK w \in dying[t].owned :
           /\ dying' = [dying EXCEPT ![t].owned = @ \ {w}]
           /\ IF OwnedByDying(t, w) THEN OwnerDied(t, w)
              ELSE UNCHANGED <<word, ptable, handing>>
  BY Zenon DEF ReleaseOwned
<1>4. w \in PiWord /\ held[t] = {}
  BY <1>1, <1>2, Zenon DEF PiTypes, ExitInv, Exited
<1>5. dying' \in [PiTask -> DyingType]
  <2>1. Free \in WordType
    BY Zenon DEF Free, WordType
  <2> QED BY <1>1, <1>3, <1>4, <2>1, DyingTypes, Zenon
<1>6. /\ ppc'[t] = "exit" /\ held'[t] = held[t] \ {w}
      /\ \A u \in PiTask \ {t} : SameTask(u)
  BY <1>1, <1>2, <1>3, <1>4, Zenon DEF PiTypes, SameTask
<1>7. /\ ppc' \in [PiTask -> PiPc] /\ goal' \in [PiTask -> PiWord \cup {NoWord}]
      /\ held' \in [PiTask -> SUBSET PiWord]
  BY <1>1, <1>2, Zenon DEF PiTypes
<1>8. CASE OwnedByDying(t, w)
  <2>1. word[w].tid = t
    BY <1>8, Zenon DEF OwnedByDying
  <2>2. IF ptable[w].waiters = <<>>
        THEN /\ word' = [word EXCEPT ![w] = [tid |-> Nobody, waiters |-> FALSE, died |-> TRUE]]
             /\ ptable' = [ptable EXCEPT ![w] = NoEntry]
             /\ UNCHANGED handing
        ELSE /\ \E e \in BOOLEAN : HandOver(w, e)
             /\ handing' = [handing EXCEPT ![t] = BestWaiter(ptable[w].waiters)]
    BY <1>3, <1>8, Zenon DEF OwnerDied, Free
  <2>3. ppc[t] \in Exited
    BY <1>2, Zenon DEF Exited
  <2> QED BY <1>2, <1>4, <1>5, <1>6, <1>7, <2>1, <2>2, <2>3, ReleaseStep, Zenon DEF DyingType
<1>9. CASE ~OwnedByDying(t, w)
  <2>1. UNCHANGED <<word, ptable, handing>>
    BY <1>3, <1>9, Zenon
  <2>2. ExitInv(t)'
    BY <1>2, <1>4, Zenon DEF ExitInv
  <2> QED BY <1>2, <1>5, <1>6, <1>7, <2>1, <2>2, ExitLocal, Zenon DEF Exited
<1> QED BY <1>8, <1>9, Zenon

\* handle_robust_node reads the word.
LEMMA RobustReadStep == ASSUME PiInv, NEW t \in PiTask, RobustRead(t) PROVE PiInv'
<1>1. PiTypes /\ ExitInv(t)
  BY Zenon DEF PiInv, TaskInv
<1>2. /\ ppc[t] = "exit"
      /\ UNCHANGED <<word, ptable, wstate, prun, pstop, held, handing, kicking>>
  BY Zenon DEF RobustRead, Ready
<1>3. PICK w \in dying[t].robust :
          \/ /\ dying' = [dying EXCEPT ![t].robust = @ \ {w}]
             /\ UNCHANGED <<ppc, goal>>
          \/ /\ word[w].tid = t
             /\ dying' = [dying EXCEPT ![t].seen = word[w]]
             /\ goal' = [goal EXCEPT ![t] = w]
             /\ ppc' = [ppc EXCEPT ![t] = "robust"]
  BY Zenon DEF RobustRead, PiGoto
<1>4. w \in PiWord /\ word[w] \in WordType /\ held[t] = {}
  BY <1>1, <1>2, Zenon DEF PiTypes, ExitInv, Exited
<1>5. dying' \in [PiTask -> DyingType]
  <2>1. PICK x \in WordType : x = word[w]
    BY <1>4, Zenon
  <2>2. /\ [dying EXCEPT ![t].robust = @ \ {w}] \in [PiTask -> DyingType]
        /\ [dying EXCEPT ![t].seen = x] \in [PiTask -> DyingType]
    BY <1>1, <1>4, DyingTypes, Zenon
  <2> QED BY <1>3, <2>1, <2>2, Zenon
<1>6. ppc' \in [PiTask -> PiPc]
  BY <1>1, <1>3, Zenon DEF PiTypes, PiPc
<1>7. goal' \in [PiTask -> PiWord \cup {NoWord}]
  BY <1>1, <1>3, <1>4, Zenon DEF PiTypes
<1>8. \A u \in PiTask \ {t} : SameTask(u)
  BY <1>1, <1>2, <1>3, Zenon DEF PiTypes, SameTask
<1>9. ppc'[t] \in Exited /\ ExitInv(t)'
  <2>1. CASE UNCHANGED <<ppc, goal>>
    BY <1>2, <1>4, <2>1, Zenon DEF ExitInv, Exited
  <2>2. CASE /\ word[w].tid = t
             /\ dying' = [dying EXCEPT ![t].seen = word[w]]
             /\ goal' = [goal EXCEPT ![t] = w]
             /\ ppc' = [ppc EXCEPT ![t] = "robust"]
    <3>1. ppc'[t] = "robust" /\ goal'[t] = w /\ dying'[t].seen = word[w]
      BY <1>1, <2>2 DEF PiTypes
    <3>2. word[w].waiters = TRUE => ptable[w].owner = t
      BY <1>4, <2>2, Zenon DEF PiInv, WordInv
    <3> QED BY <1>2, <1>4, <2>2, <3>1, <3>2, Zenon DEF ExitInv, Exited
  <2> QED BY <1>3, <2>1, <2>2, Zenon
<1> QED BY <1>2, <1>5, <1>6, <1>7, <1>8, <1>9, ExitLocal, Zenon DEF Exited

\* pi_owner_died_key for a node of the robust list.
LEMMA RobustHandOffStep == ASSUME PiInv, NEW t \in PiTask, RobustHandOff(t) PROVE PiInv'
<1>1. PiTypes /\ ExitInv(t)
  BY Zenon DEF PiInv, TaskInv
<1>2. /\ ppc[t] = "robust" /\ handing[t] = Nobody /\ kicking[t] = Nobody
      /\ UNCHANGED <<wstate, prun, pstop, held, kicking>>
  BY Zenon DEF RobustHandOff, Ready
<1>3. PICK w \in PiWord : goal[t] = w /\ word[w].tid = t
  BY <1>1, <1>2, Zenon DEF ExitInv
<1>4. ppc[t] \in Exited /\ held[t] = {}
  BY <1>1, <1>2, Zenon DEF ExitInv, Exited
<1>5. CASE OwnedByDying(t, w)
  <2>1. /\ dying' = [dying EXCEPT ![t].robust = @ \ {w}, ![t].seen = Free]
        /\ goal' = [goal EXCEPT ![t] = NoWord] /\ ppc' = [ppc EXCEPT ![t] = "exit"]
        /\ OwnerDied(t, w)
    BY <1>3, <1>5, Zenon DEF RobustHandOff, PiGoto
  <2>2. IF ptable[w].waiters = <<>>
        THEN /\ word' = [word EXCEPT ![w] = [tid |-> Nobody, waiters |-> FALSE, died |-> TRUE]]
             /\ ptable' = [ptable EXCEPT ![w] = NoEntry]
             /\ UNCHANGED handing
        ELSE /\ \E e \in BOOLEAN : HandOver(w, e)
             /\ handing' = [handing EXCEPT ![t] = BestWaiter(ptable[w].waiters)]
    BY <2>1, Zenon DEF OwnerDied, Free
  <2>3. dying' \in [PiTask -> DyingType]
    <3>1. Free \in WordType
      BY Zenon DEF Free, WordType
    <3> QED BY <1>1, <2>1, <3>1, DyingTypes, Zenon
  <2>4. ppc' \in [PiTask -> PiPc] /\ goal' \in [PiTask -> PiWord \cup {NoWord}]
    BY <1>1, <2>1, Zenon DEF PiTypes, PiPc
  <2>5. /\ ppc'[t] = "exit" /\ held'[t] = held[t] \ {w} /\ held'[t] = held[t]
        /\ \A u \in PiTask \ {t} : SameTask(u)
    BY <1>1, <1>2, <1>4, <2>1, Zenon DEF PiTypes, SameTask
  <2>6. held' \in [PiTask -> SUBSET PiWord]
    BY <1>1, <1>2, Zenon DEF PiTypes
  <2> QED BY <1>2, <1>3, <1>4, <2>2, <2>3, <2>4, <2>5, <2>6, ReleaseStep, Zenon DEF DyingType
<1>6. CASE ~OwnedByDying(t, w)
  <2>1. ppc' = [ppc EXCEPT ![t] = "robust cas"] /\ UNCHANGED <<word, ptable, handing, dying, goal>>
    BY <1>3, <1>6, Zenon DEF RobustHandOff, PiGoto
  <2>2. ppc'[t] = "robust cas" /\ \A u \in PiTask \ {t} : SameTask(u)
    BY <1>1, <1>2, <2>1, Zenon DEF PiTypes, SameTask
  <2>3. dying[t].seen.waiters \in BOOLEAN /\ ptable[w].owner # t
    BY <1>1, <1>3, <1>6, Zenon DEF PiTypes, WordType, OwnedByDying
  <2>4. dying[t].seen.waiters = FALSE
    BY <1>1, <1>2, <1>3, <2>3, Zenon DEF ExitInv
  <2>5. ExitInv(t)'
    BY <1>2, <1>3, <1>4, <2>1, <2>2, <2>4, Zenon DEF ExitInv
  <2>6. /\ ppc' \in [PiTask -> PiPc] /\ goal' \in [PiTask -> PiWord \cup {NoWord}]
        /\ dying' \in [PiTask -> DyingType]
    BY <1>1, <2>1, Zenon DEF PiTypes, PiPc, DyingType
  <2> QED BY <1>2, <1>4, <2>1, <2>2, <2>5, <2>6, ExitLocal, Zenon DEF Exited
<1> QED BY <1>5, <1>6, Zenon

\* The compare-exchange: if it succeeds nobody waits.
LEMMA RobustCasStep == ASSUME PiInv, NEW t \in PiTask, RobustCas(t) PROVE PiInv'
<1>1. PiTypes /\ ExitInv(t) /\ HoldInv(t) /\ ppc[t] = "robust cas"
  BY Zenon DEF PiInv, TaskInv, RobustCas
<1>2. PICK w \in PiWord : goal[t] = w /\ word[w].tid = t /\ dying[t].seen.waiters = FALSE
  BY <1>1, Zenon DEF ExitInv
<1>3. /\ UNCHANGED <<ptable, wstate, prun, pstop, held, handing, kicking>>
      /\ dying' = [dying EXCEPT ![t].robust = @ \ {w}, ![t].seen = Free]
      /\ goal' = [goal EXCEPT ![t] = NoWord] /\ ppc' = [ppc EXCEPT ![t] = "exit"]
      /\ \/ word' = word
         \/ word[w] = dying[t].seen /\ word' = [word EXCEPT ![w].tid = Nobody, ![w].died = TRUE]
  BY <1>2, Zenon DEF RobustCas, PiGoto
<1>4. ppc[t] \in Exited /\ held[t] = {}
  BY <1>1, Zenon DEF ExitInv, Exited
<1>5. dying' \in [PiTask -> DyingType]
  <2>1. Free \in WordType
    BY Zenon DEF Free, WordType
  <2> QED BY <1>1, <1>3, <2>1, DyingTypes, Zenon
<1>6. ppc' \in [PiTask -> PiPc] /\ goal' \in [PiTask -> PiWord \cup {NoWord}]
  BY <1>1, <1>3, Zenon DEF PiTypes, PiPc
<1>7. ppc'[t] = "exit" /\ \A u \in PiTask \ {t} : SameTask(u)
  BY <1>1, <1>3, Zenon DEF PiTypes, SameTask
<1>8. ExitInv(t)'
  BY <1>3, <1>4, <1>7, Zenon DEF ExitInv
<1>9. CASE word' = word
  BY <1>3, <1>4, <1>5, <1>6, <1>7, <1>8, <1>9, ExitLocal, Zenon DEF Exited
<1>10. CASE word[w] = dying[t].seen /\ word' = [word EXCEPT ![w].tid = Nobody, ![w].died = TRUE]
  <2>1. word[w].waiters = FALSE /\ word[w] \in WordType
    BY <1>1, <1>2, <1>10, Zenon DEF PiTypes
  <2>2. PICK f \in WordType : f = [word[w] EXCEPT !.tid = Nobody, !.died = TRUE]
                              /\ f.tid = Nobody /\ f.waiters = FALSE
    <3> DEFINE f == [word[w] EXCEPT !.tid = Nobody, !.died = TRUE]
    <3>1. f \in WordType
      BY <2>1, Zenon DEF WordType
    <3>2. f.tid = Nobody /\ f.waiters = FALSE
      BY <2>1, Zenon DEF WordType
    <3> QED BY <3>1, <3>2, Zenon
  <2>3. word' = [word EXCEPT ![w] = f]
    BY <1>1, <1>10, <2>2, Zenon DEF PiTypes
  <2>4. /\ word'[w] = f
        /\ \A v \in PiWord \ {w} : word'[v] = word[v]
    BY <1>1, <2>3, Zenon DEF PiTypes
  <2>5. PiTypes'
    <3>1. word' \in [PiWord -> WordType]
      BY <1>1, <2>3, Zenon DEF PiTypes
    <3> QED BY <1>1, <1>3, <1>5, <1>6, <3>1, Zenon DEF PiTypes, DyingType
  <2>6. TaskInv(t)'
    <3>1. HoldInv(t)'
      BY <1>3, <1>4, <1>7, Zenon DEF HoldInv, Exited
    <3> QED BY <1>7, <1>8, <3>1, Zenon DEF TaskInv, CallInv, WaitInv, Waiting
  <2>7. WordInv(w)'
    <3>1. WordInv(w)
      BY Zenon DEF PiInv
    <3>2. Queued(w)' = {}
      BY <1>3, <2>1, <3>1, Zenon DEF WordInv, Queued
    <3>3. word'[w].waiters = (Queued(w)' # {})
      BY <2>2, <2>4, <3>2, Zenon
    <3>4. IsInjective(ptable'[w].waiters)
      BY <1>3, <3>1, Zenon DEF WordInv
    <3> QED BY <3>2, <3>3, <3>4, Zenon DEF WordInv
  <2>8. ~InQueue(t) /\ ~Handed(t)
    BY <1>1, NotWaiting, Zenon DEF Waiting
  <2> QED BY <1>2, <1>3, <1>7, <2>2, <2>4, <2>5, <2>6, <2>7, <2>8, OwnStep, Zenon
<1> QED BY <1>3, <1>9, <1>10, Zenon

-----------------------------------------------------------------------------
\* Every step keeps the invariant.
LEMMA PiNextInv == PiInv /\ [PiNext]_piVars => PiInv'
<1> SUFFICES ASSUME PiInv, [PiNext]_piVars PROVE PiInv'
  BY Zenon
<1>1. ASSUME NEW t \in PiTask, PiStep(t) PROVE PiInv'
  <2>1. CASE \E w \in PiWord : UserLock(t, w) \/ UserUnlock(t, w) \/ LockPi(t, w) \/ UnlockPi(t, w)
    BY <2>1, UserLockStep, UserUnlockStep, LockPiStep, UnlockPiStep, Zenon
  <2>2. CASE TakeOrWait(t) \/ RegisterOwner(t) \/ EnqueueWaiter(t)
    BY <2>2, TakeOrWaitStep, RegisterOwnerStep, EnqueueWaiterStep, Zenon
  <2>3. CASE WaitDone(t) \/ WaitGivesUp(t) \/ WaitSleeps(t) \/ MarkSleeping(t)
    BY <2>3, WaitDoneStep, WaitGivesUpStep, WaitSleepsStep, MarkSleepingStep, Zenon
  <2>4. CASE CheckWoken(t) \/ WaitResumes(t) \/ InterruptPi(t) \/ MarkWoken(t) \/ Kick(t)
    BY <2>4, CheckWokenStep, WaitResumesStep, InterruptPiStep, MarkWokenStep, KickStep, Zenon
  <2>5. CASE ExitPi(t) \/ ReleaseOwned(t) \/ RobustRead(t)
    BY <2>5, ExitPiStep, ReleaseOwnedStep, RobustReadStep, Zenon
  <2>6. CASE RobustHandOff(t) \/ RobustCas(t) \/ ExitDone(t)
    BY <2>6, RobustHandOffStep, RobustCasStep, ExitDoneStep, Zenon
  <2> QED BY <1>1, <2>1, <2>2, <2>3, <2>4, <2>5, <2>6, Zenon DEF PiStep
<1>2. CASE UNCHANGED piVars
  <2>1. UNCHANGED <<word, ptable, wstate, prun, pstop, ppc, goal, held, handing, kicking, dying>>
    BY <1>2, Zenon DEF piVars
  <2>2. \A u \in PiTask : SameTask(u) /\ TaskInv(u)
    BY <2>1, Zenon DEF SameTask, PiInv
  <2>3. \A u \in PiTask : TaskInv(u)'
    BY <2>1, <2>2, SameQueues, TaskFrame, Zenon
  <2>4. \A w \in PiWord : WordInv(w)'
    BY <2>1, WordFrame, Zenon DEF PiInv, WordInv
  <2> QED BY <2>1, <2>3, <2>4, Zenon DEF PiInv, PiTypes, HandInv
<1> QED BY <1>1, <1>2, Zenon DEF PiNext

\* The words of PI futexes tell the truth, whatever the tasks, the words, the
\* deadlines, the hand-offs and the exits.
THEOREM PiWordIsTrue == PiSpec => []WordIsTrue
<1>1. PiSpec => []PiInv
  BY PiInitInv, PiNextInv, PTL DEF PiSpec
<1> QED BY <1>1, PiInvImplies, PTL

\* No waiter of a PI futex sleeps without a wake-up to come.
THEOREM PiWakeups == PiSpec => []NoLostPiWakeup
<1>1. PiSpec => []PiInv
  BY PiInitInv, PiNextInv, PTL DEF PiSpec
<1> QED BY <1>1, PiInvImplies, PTL

\* Type correctness; no task waits for two futexes.
THEOREM PiTypeCorrect == PiSpec => []PiTypeOK
<1>1. PiSpec => []PiInv
  BY PiInitInv, PiNextInv, PTL DEF PiSpec
<1> QED BY <1>1, PiInvImplies, PTL

-----------------------------------------------------------------------------
(* No ring of waiters *)

\* Tasks that wait for words owned among them.
PiRing(S) ==
    /\ S # {}
    /\ \A t \in S : \E w \in PiWord : t \in Queued(w) /\ word[w].tid \in S

\* A step that queues nobody, and in which a word with waiters only passes to
\* a task that waits for nothing.
Calm ==
    \A w \in PiWord :
        /\ Queued(w)' \subseteq Queued(w)
        /\ Queued(w)' # {} => word'[w].tid = word[w].tid \/ ~InQueue(word[w].tid)'

\* What the property says of rings.
LEMMA RingFree == NoPiDeadlock <=> \A S \in SUBSET PiTask : ~PiRing(S)
  BY Zenon DEF NoPiDeadlock, PiRing

\* A calm step closes no ring.
LEMMA CalmKeeps ==
    ASSUME NoPiDeadlock, Calm
    PROVE  NoPiDeadlock'
<1>1. SUFFICES ASSUME NEW S \in SUBSET PiTask, PiRing(S)' PROVE FALSE
  BY Zenon DEF NoPiDeadlock, PiRing
<1>2. ASSUME NEW t \in S PROVE \E w \in PiWord : t \in Queued(w) /\ word[w].tid \in S
  <2>1. PICK w \in PiWord : t \in Queued(w)' /\ word'[w].tid \in S
    BY <1>1, Zenon DEF PiRing
  <2>2. InQueue(word[w].tid)'
    BY <1>1, <2>1, Zenon DEF PiRing, InQueue
  <2> QED BY <2>1, <2>2, Zenon DEF Calm
<1>3. PiRing(S)
  BY <1>1, <1>2, Zenon DEF PiRing
<1> QED BY <1>3, RingFree, Zenon

\* The words and the queues stay as they are.
LEMMA CalmSame ==
    ASSUME word' = word, \A w \in PiWord : ptable'[w].waiters = ptable[w].waiters
    PROVE  Calm
<1>1. \A w \in PiWord : Queued(w)' = Queued(w)
  BY Zenon DEF Queued
<1> QED BY <1>1, Zenon DEF Calm

\* The word that changes hands has no waiters after the step.
LEMMA CalmFree ==
    ASSUME NEW w \in PiWord, ptable'[w].waiters = <<>>,
           \A v \in PiWord \ {w} : ptable'[v] = ptable[v] /\ word'[v] = word[v]
    PROVE  Calm
<1>1. Queued(w)' = {}
  BY DEF Queued, Range
<1>2. \A v \in PiWord \ {w} : Queued(v)' = Queued(v)
  BY Zenon DEF Queued
<1> QED BY <1>1, <1>2, Zenon DEF Calm

\* A word passes to its best waiter, which then waits for nothing.
LEMMA CalmHand ==
    ASSUME PiInv, NEW w \in PiWord, NEW d \in BOOLEAN, ptable[w].waiters # <<>>, HandOver(w, d)
    PROVE  Calm
<1>1. PiTypes /\ WordInv(w)
  BY Zenon DEF PiInv
<1>2. PICK next \in PiTask, rest \in Seq(PiTask) :
          /\ next = BestWaiter(ptable[w].waiters)
          /\ next \in Queued(w)
          /\ IsInjective(rest) /\ Range(rest) = Queued(w) \ {next}
          /\ word' = [word EXCEPT ![w] = [tid |-> next, waiters |-> rest # <<>>, died |-> d]]
          /\ ptable' = [ptable EXCEPT ![w] = [owner |-> next, waiters |-> rest]]
  BY <1>1, HandOverFacts, Zenon
<1>3. /\ word'[w].tid = next /\ ptable'[w].waiters = rest
      /\ \A v \in PiWord \ {w} : word'[v] = word[v] /\ ptable'[v] = ptable[v]
  BY <1>1, <1>2, Zenon DEF PiTypes
<1>4. /\ Queued(w)' = Queued(w) \ {next}
      /\ \A v \in PiWord \ {w} : Queued(v)' = Queued(v)
  BY <1>2, <1>3, Zenon DEF Queued
<1>5. \A v \in PiWord \ {w} : next \notin Queued(v)
  BY <1>2 DEF PiInv, WordInv
<1>6. ~InQueue(word[w].tid)'
  BY <1>3, <1>4, <1>5, Zenon DEF InQueue
<1> QED BY <1>3, <1>4, <1>6, Zenon DEF Calm

\* pi_owner_died_key and futex_unlock_pi.
LEMMA CalmRelease ==
    ASSUME PiInv, NEW w \in PiWord, NEW d \in BOOLEAN, NEW x,
           \/ /\ ptable[w].waiters = <<>>
              /\ word' = [word EXCEPT ![w] = x] /\ ptable' = [ptable EXCEPT ![w] = NoEntry]
           \/ ptable[w].waiters # <<>> /\ HandOver(w, d)
    PROVE  Calm
<1>1. CASE /\ word' = [word EXCEPT ![w] = x] /\ ptable' = [ptable EXCEPT ![w] = NoEntry]
  <2>1. ptable'[w].waiters = <<>> /\ \A v \in PiWord \ {w} : ptable'[v] = ptable[v] /\ word'[v] = word[v]
    BY <1>1, Zenon DEF PiInv, PiTypes, NoEntry
  <2> QED BY <2>1, CalmFree, Zenon
<1>2. CASE ptable[w].waiters # <<>> /\ HandOver(w, d)
  BY <1>2, CalmHand, Zenon
<1> QED BY <1>1, <1>2, Zenon

\* The fast paths of user code, the entry of futex_lock_pi, and futex_unlock_pi.
LEMMA CalmWords ==
    ASSUME PiInv, NEW t \in PiTask, NEW w \in PiWord,
           UserLock(t, w) \/ UserUnlock(t, w) \/ LockPi(t, w) \/ UnlockPi(t, w)
    PROVE  Calm
<1>0. PiTypes /\ WordInv(w) /\ TaskInv(t)
  BY Zenon DEF PiInv
<1>1. ASSUME word[w].waiters = FALSE, ptable' = ptable, \A v \in PiWord \ {w} : word'[v] = word[v]
      PROVE  Calm
  <2>1. ptable[w].waiters \in Seq(PiTask) /\ Queued(w) = {}
    BY <1>0, <1>1, Zenon DEF PiTypes, WordInv
  <2>2. ptable'[w].waiters = <<>>
    BY <1>1, <2>1, EmptyQueue, Zenon DEF Queued
  <2> QED BY <1>1, <2>2, CalmFree, Zenon
<1>2. CASE UserLock(t, w)
  <2>1. word[w].waiters = FALSE /\ ptable' = ptable /\ \A v \in PiWord \ {w} : word'[v] = word[v]
    BY <1>0, <1>2 DEF UserLock, Free, PiTypes
  <2> QED BY <1>1, <2>1, Zenon
<1>3. CASE UserUnlock(t, w)
  <2>1. word[w].waiters = FALSE /\ ptable' = ptable /\ \A v \in PiWord \ {w} : word'[v] = word[v]
    BY <1>0, <1>3, Zenon DEF UserUnlock, Free, PiTypes
  <2> QED BY <1>1, <2>1, Zenon
<1>4. CASE LockPi(t, w)
  BY <1>4, CalmSame, Zenon DEF LockPi
<1>5. CASE UnlockPi(t, w)
  <2>1. word[w].died \in BOOLEAN
    BY <1>0, Zenon DEF PiTypes, WordType
  <2> QED BY <1>5, <2>1, CalmRelease, Zenon DEF UnlockPi
<1> QED BY <1>2, <1>3, <1>4, <1>5, Zenon

\* futex_lock_pi on a free word, pi_remove_waiter and the compare-exchange of the
\* robust list change words nobody waits for, or take a waiter away.
LEMMA CalmTake ==
    ASSUME PiInv, NEW t \in PiTask, TakeOrWait(t) \/ RegisterOwner(t) \/ WaitGivesUp(t) \/ RobustCas(t)
    PROVE  Calm
<1>0. PiTypes /\ TaskInv(t) /\ \A w \in PiWord : WordInv(w)
  BY Zenon DEF PiInv
<1>1. PICK w : goal[t] = w
  BY Zenon
<1>2. w \in PiWord
  BY <1>0, <1>1, Zenon DEF TakeOrWait, RegisterOwner, WaitGivesUp, RobustCas, TaskInv, CallInv, ExitInv, Waiting
<1>3. ASSUME Queued(w) = {}, ptable' = ptable, \A v \in PiWord \ {w} : word'[v] = word[v]
      PROVE  Calm
  <2>1. ptable[w].waiters \in Seq(PiTask)
    BY <1>0, <1>2, Zenon DEF PiTypes
  <2>2. ptable'[w].waiters = <<>>
    BY <1>3, <2>1, EmptyQueue, Zenon DEF Queued
  <2> QED BY <1>2, <1>3, <2>2, CalmFree, Zenon
<1>4. CASE TakeOrWait(t)
  <2>1. CASE word[w].tid = Nobody
    <3>1. Queued(w) = {}
      BY <1>0, <1>2, <2>1, Zenon DEF WordInv
    <3>2. ptable' = ptable /\ \A v \in PiWord \ {w} : word'[v] = word[v]
      BY <1>0, <1>1, <1>4, <2>1, Zenon DEF TakeOrWait, PiTypes
    <3> QED BY <1>3, <3>1, <3>2, Zenon
  <2>2. CASE word[w].tid # Nobody
    BY <1>1, <1>4, <2>2, CalmSame, Zenon DEF TakeOrWait
  <2> QED BY <2>1, <2>2, Zenon
<1>5. CASE RegisterOwner(t)
  <2>1. word' = word /\ \A v \in PiWord : ptable'[v].waiters = ptable[v].waiters
    BY <1>0, <1>1, <1>2, <1>5 DEF RegisterOwner, PiTypes
  <2> QED BY <2>1, CalmSame, Zenon
<1>6. CASE WaitGivesUp(t)
  <2> DEFINE q == ptable[w].waiters
  <2>1. q \in Seq(PiTask) /\ IsInjective(q)
    BY <1>0, <1>2, Zenon DEF PiTypes, WordInv
  <2>2. PICK rest : rest = Without(q, t)
    BY Zenon
  <2>3. Range(rest) = Range(q) \ {t}
    <3> HIDE DEF q
    <3> QED BY <2>1, <2>2, WithoutFacts, Zenon
  <2>4. ptable' = [ptable EXCEPT ![w].waiters = rest]
    BY <1>1, <1>6, <2>2, Zenon DEF WaitGivesUp
  <2>5. ptable'[w].waiters = rest /\ \A v \in PiWord \ {w} : ptable'[v] = ptable[v]
    BY <1>0, <1>2, <2>4 DEF PiTypes
  <2>6. \A v \in PiWord : word'[v].tid = word[v].tid
    <3>1. word' = [word EXCEPT ![w].waiters = FALSE] \/ word' = word
      BY <1>1, <1>6, Zenon DEF WaitGivesUp
    <3>2. word \in [PiWord -> WordType] /\ word[w] \in WordType
      BY <1>0, <1>2, Zenon DEF PiTypes
    <3>3. [word[w] EXCEPT !.waiters = FALSE].tid = word[w].tid
      BY <3>2, Zenon DEF WordType
    <3> QED BY <1>2, <3>1, <3>2, <3>3, Zenon
  <2>7. \A v \in PiWord : Queued(v)' \subseteq Queued(v)
    BY <2>3, <2>5, Zenon DEF Queued
  <2> QED BY <2>6, <2>7, Zenon DEF Calm
<1>7. CASE RobustCas(t)
  <2>1. CASE word[w] = dying[t].seen
    <3>1. dying[t].seen.waiters = FALSE
      BY <1>0, <1>7, Zenon DEF RobustCas, TaskInv, ExitInv
    <3>2. Queued(w) = {}
      BY <1>0, <1>2, <2>1, <3>1, Zenon DEF WordInv
    <3>3. ptable' = ptable /\ \A v \in PiWord \ {w} : word'[v] = word[v]
      BY <1>0, <1>1, <1>2, <1>7, <2>1, Zenon DEF RobustCas, PiTypes
    <3> QED BY <1>3, <3>2, <3>3, Zenon
  <2>2. CASE word[w] # dying[t].seen
    BY <1>1, <1>7, <2>2, CalmSame, Zenon DEF RobustCas
  <2> QED BY <2>1, <2>2, Zenon
<1> QED BY <1>4, <1>5, <1>6, <1>7, Zenon

\* The steps of a wait, a wake-up and an exit that leave words and table alone.
LEMMA CalmWait ==
    ASSUME NEW t \in PiTask,
           \/ WaitDone(t) \/ WaitSleeps(t) \/ MarkSleeping(t) \/ CheckWoken(t) \/ WaitResumes(t)
           \/ InterruptPi(t) \/ MarkWoken(t) \/ Kick(t) \/ ExitPi(t) \/ RobustRead(t) \/ ExitDone(t)
    PROVE  Calm
<1>1. word' = word /\ ptable' = ptable
  BY Zenon DEF WaitDone, WaitSleeps, MarkSleeping, CheckWoken, WaitResumes, InterruptPi, MarkWoken,
     Kick, ExitPi, RobustRead, ExitDone
<1> QED BY <1>1, CalmSame, Zenon

\* The recovery of what a dying task owned.
LEMMA CalmExit ==
    ASSUME PiInv, NEW t \in PiTask, ReleaseOwned(t) \/ RobustHandOff(t)
    PROVE  Calm
<1>0. PiTypes /\ TaskInv(t)
  BY Zenon DEF PiInv
<1>1. ASSUME NEW w \in PiWord, OwnerDied(t, w) PROVE Calm
  BY <1>1, CalmRelease, Zenon DEF OwnerDied
<1>2. CASE ReleaseOwned(t)
  <2>1. PICK w \in dying[t].owned : OwnerDied(t, w) \/ UNCHANGED <<word, ptable>>
    BY <1>2, Zenon DEF ReleaseOwned
  <2>2. w \in PiWord
    BY <1>0, <2>1, Zenon DEF PiTypes
  <2> QED BY <1>1, <2>1, <2>2, CalmSame, Zenon
<1>3. CASE RobustHandOff(t)
  <2>1. goal[t] \in PiWord
    BY <1>0, <1>3, Zenon DEF RobustHandOff, Ready, TaskInv, ExitInv
  <2>2. OwnerDied(t, goal[t]) \/ UNCHANGED <<word, ptable>>
    BY <1>3, Zenon DEF RobustHandOff
  <2> QED BY <1>1, <2>1, <2>2, CalmSame, Zenon
<1> QED BY <1>2, <1>3, Zenon

\* pi_waiting_owner_locked finds the word a queued task waits for.
LEMMA WaitingOwnerIs ==
    ASSUME PiInv
    PROVE  /\ \A t : WaitingOwner(t) \in PiTask \cup {Nobody}
           /\ \A w \in PiWord : \A t \in Queued(w) : WaitingOwner(t) = word[w].tid
<1>1. \A w \in PiWord : ptable[w].owner \in PiTask \cup {Nobody} /\ WordInv(w)
  BY Zenon DEF PiInv, PiTypes
<1>2. ASSUME NEW t PROVE WaitingOwner(t) \in PiTask \cup {Nobody}
  <2>1. CASE \E w \in PiWord : t \in Queued(w)
    <3>1. PICK v \in PiWord : v = CHOOSE w \in PiWord : t \in Queued(w)
      BY <2>1, Zenon
    <3>2. WaitingOwner(t) = ptable[v].owner
      BY <2>1, <3>1, Zenon DEF WaitingOwner
    <3> QED BY <1>1, <3>2, Zenon
  <2>2. CASE ~\E w \in PiWord : t \in Queued(w)
    BY <2>2, Zenon DEF WaitingOwner
  <2> QED BY <2>1, <2>2, Zenon
<1>3. ASSUME NEW w \in PiWord, NEW t \in Queued(w) PROVE WaitingOwner(t) = word[w].tid
  <2>1. PICK v \in PiWord : (v = CHOOSE u \in PiWord : t \in Queued(u)) /\ t \in Queued(v)
    BY <1>3, Zenon
  <2>2. v = w
    <3>1. goal[t] = w /\ goal[t] = v
      BY <1>1, <1>3, <2>1, Zenon DEF WordInv
    <3> QED BY <3>1, Zenon
  <2>3. WaitingOwner(t) = ptable[v].owner
    BY <1>3, <2>1, Zenon DEF WaitingOwner
  <2> QED BY <1>1, <2>1, <2>2, <2>3, Zenon DEF WordInv
<1> QED BY <1>2, <1>3, Zenon

\* One step along the chain.
NextOwner(t) == IF t = Nobody THEN Nobody ELSE WaitingOwner(t)

\* The chain starts at its first owner and goes from each to the next.
LEMMA OwnerChainIs ==
    ASSUME PiInv, NEW start \in PiTask, NEW n \in Nat, n = Cardinality(PiTask)
    PROVE  /\ OwnerChain(start)[0] = start
           /\ \A i \in 1 .. n : OwnerChain(start)[i] = NextOwner(OwnerChain(start)[i - 1])
<1> DEFINE X == PiTask \cup {Nobody}
           step == [a \in (1 .. n) \X X |-> NextOwner(a[2])]
           chain == CHOOSE k : k = [i \in 0 .. n |-> IF i = 0 THEN start
                                                     ELSE IF k[i - 1] = Nobody THEN Nobody ELSE WaitingOwner(k[i - 1])]
<1>1. step \in StepFuns(X, n)
  <2>1. ASSUME NEW a \in (1 .. n) \X X PROVE NextOwner(a[2]) \in X
    BY WaitingOwnerIs, Zenon DEF NextOwner
  <2> HIDE DEF X
  <2> QED BY <2>1, Zenon DEF StepFuns
<1>2. \E g : Iterates(g, X, start, n, step)
  <2>1. start \in X
    BY Zenon
  <2> HIDE DEF step, X
  <2> QED BY <1>1, <2>1, Recursion, Zenon
<1>3. PICK g \in [0 .. n -> X] : g[0] = start /\ \A i \in 1 .. n : g[i] = step[<<i, g[i - 1]>>]
  <2> HIDE DEF step, X
  <2> QED BY <1>2, Zenon DEF Iterates
<1>4. ASSUME NEW i \in 1 .. n PROVE g[i] = NextOwner(g[i - 1])
  <2> HIDE DEF X
  <2>1. <<i, g[i - 1]>> \in (1 .. n) \X X
    <3>1. i - 1 \in 0 .. n
      OBVIOUS
    <3> QED BY <3>1, Zenon
  <2>2. step[<<i, g[i - 1]>>] = NextOwner(g[i - 1])
    BY <2>1, Zenon
  <2> QED BY <1>3, <2>2, Zenon
<1>5. g = [i \in 0 .. n |-> IF i = 0 THEN start
                            ELSE IF g[i - 1] = Nobody THEN Nobody ELSE WaitingOwner(g[i - 1])]
  <2> HIDE DEF step, X
  <2>1. ASSUME NEW i \in 0 .. n
        PROVE  g[i] = IF i = 0 THEN start ELSE IF g[i - 1] = Nobody THEN Nobody ELSE WaitingOwner(g[i - 1])
    <3>1. i = 0 \/ (i # 0 /\ i \in 1 .. n)
      OBVIOUS
    <3>2. CASE i = 0
      BY <1>3, <3>2, Zenon
    <3>3. CASE i # 0 /\ i \in 1 .. n
      BY <1>4, <3>3, Zenon DEF NextOwner
    <3> QED BY <3>1, <3>2, <3>3, Zenon
  <2> QED BY <2>1, Zenon
<1>6. chain = [i \in 0 .. n |-> IF i = 0 THEN start
                                ELSE IF chain[i - 1] = Nobody THEN Nobody ELSE WaitingOwner(chain[i - 1])]
  <2> HIDE DEF step
  <2> QED BY <1>5, Zenon
<1>7. OwnerChain(start) = chain
  BY Zenon DEF OwnerChain
<1> HIDE DEF chain, step
<1>8. \A i \in 0 .. n : chain[i] = IF i = 0 THEN start
                                   ELSE IF chain[i - 1] = Nobody THEN Nobody ELSE WaitingOwner(chain[i - 1])
  BY <1>6, Zenon
<1>9. 0 \in 0 .. n /\ \A i \in 1 .. n : i \in 0 .. n /\ i # 0
  OBVIOUS
<1>10. chain[0] = start /\ \A i \in 1 .. n : chain[i] = NextOwner(chain[i - 1])
  BY <1>8, <1>9, Zenon DEF NextOwner
<1> QED BY <1>7, <1>10, Zenon

\* The walk of pi_chain_reaches_locked through a ring that t would close, if it
\* does not come to t, comes back to where it was.
LEMMA OwnerChainCloses ==
    ASSUME PiInv, NEW ring \in SUBSET PiTask, NEW t \in ring, NEW start \in ring,
           \A u \in ring \ {t} : \E w \in PiWord : u \in Queued(w) /\ word[w].tid \in ring,
           ~ChainReaches(start, t)
    PROVE  \E sub \in SUBSET PiTask : PiRing(sub)
<1> DEFINE n == Cardinality(PiTask)
           c == OwnerChain(start)
<1>0. IsFiniteSet(PiTask) /\ n \in Nat
  BY PiAssumption, FS_CardinalityType, Zenon
<1>1. c[0] = start /\ \A i \in 1 .. n : c[i] = NextOwner(c[i - 1])
  BY <1>0, OwnerChainIs, Zenon
<1>2. \A i \in 0 .. n : c[i] # t
  BY Zenon DEF ChainReaches
<1> HIDE DEF n, c
<1>3. ASSUME NEW u \in ring \ {t}
      PROVE  /\ NextOwner(u) \in ring
             /\ \E w \in PiWord : u \in Queued(w) /\ word[w].tid = NextOwner(u)
  <2>1. PICK w \in PiWord : u \in Queued(w) /\ word[w].tid \in ring
    BY <1>3, Zenon
  <2>2. u # Nobody
    BY PiAssumption, Zenon DEF Nobody
  <2>3. NextOwner(u) = word[w].tid
    BY <2>1, <2>2, WaitingOwnerIs, Zenon DEF NextOwner
  <2> QED BY <2>1, <2>3, Zenon
<1>4. \A i \in 0 .. n : c[i] \in ring \ {t}
  <2> DEFINE M == {i \in Nat : i <= n => c[i] \in ring \ {t}}
  <2>1. 0 \in M
    BY <1>0, <1>1, <1>2
  <2>2. ASSUME NEW i \in Nat, i \in M PROVE i + 1 \in M
    <3>1. SUFFICES ASSUME i + 1 <= n PROVE c[i + 1] \in ring \ {t}
      OBVIOUS
    <3>2. c[i] \in ring \ {t} /\ i + 1 \in 1 .. n /\ i + 1 \in 0 .. n /\ (i + 1) - 1 = i
      BY <1>0, <2>2, <3>1
    <3>3. c[i + 1] = NextOwner(c[i]) /\ c[i + 1] # t
      BY <1>1, <1>2, <3>2, Zenon
    <3> QED BY <1>3, <3>2, <3>3, Zenon
  <2>3. \A i \in Nat : i \in M
    <3> HIDE DEF M
    <3> QED BY <2>1, <2>2, SetInduction, Zenon
  <2> QED BY <1>0, <2>3
<1>5. PICK x \in 0 .. n, y \in 0 .. n : x # y /\ c[x] = c[y]
  <2> DEFINE f == [i \in 0 .. n |-> c[i]]
  <2>1. f \in [0 .. n -> PiTask]
    BY <1>4, Zenon
  <2>2. IsFiniteSet(0 .. n) /\ Cardinality(0 .. n) = n + 1
    BY <1>0, FS_Interval
  <2>3. Cardinality(PiTask) < Cardinality(0 .. n)
    BY <1>0, <2>2 DEF n
  <2>4. \E x, y \in 0 .. n : x # y /\ f[x] = f[y]
    <3> HIDE DEF f
    <3> QED BY <1>0, <2>1, <2>2, <2>3, FS_PigeonHole, Zenon
  <2> QED BY <2>4, Zenon
<1>6. PICK a \in 0 .. n, b \in 0 .. n : a < b /\ c[a] = c[b]
  <2>1. CASE x < y
    BY <1>5, <2>1, Zenon
  <2>2. CASE y < x
    BY <1>5, <2>2, Zenon
  <2> QED BY <1>0, <1>5, <2>1, <2>2
<1> DEFINE sub == {c[i] : i \in a .. b - 1}
<1>7. ASSUME NEW u \in sub PROVE \E w \in PiWord : u \in Queued(w) /\ word[w].tid \in sub
  <2>1. PICK i \in a .. b - 1 : u = c[i]
    BY Zenon
  <2>2. i \in 0 .. n /\ i + 1 \in 1 .. n /\ (i + 1) - 1 = i /\ i + 1 \in a .. b
    BY <1>0, <1>6
  <2>3. u \in ring \ {t}
    BY <1>4, <2>1, <2>2, Zenon
  <2>4. NextOwner(u) = c[i + 1]
    BY <1>1, <2>1, <2>2, Zenon
  <2>5. c[i + 1] \in sub
    <3>1. CASE i + 1 = b
      <4>1. a \in a .. b - 1
        BY <1>0, <1>6
      <4> QED BY <1>6, <3>1, <4>1, Zenon
    <3>2. CASE i + 1 # b
      <4>1. i + 1 \in a .. b - 1
        BY <1>0, <1>6, <2>2, <3>2
      <4> QED BY <4>1, Zenon
    <3> QED BY <3>1, <3>2, Zenon
  <2> HIDE DEF sub
  <2> QED BY <1>3, <2>3, <2>4, <2>5, Zenon
<1>8. sub # {} /\ sub \subseteq PiTask
  <2>1. a \in a .. b - 1 /\ \A i \in a .. b - 1 : i \in 0 .. n
    BY <1>0, <1>6
  <2> QED BY <1>4, <2>1, Zenon
<1> HIDE DEF sub
<1>9. PiRing(sub)
  BY <1>7, <1>8, Zenon DEF PiRing
<1> QED BY <1>8, <1>9, Zenon

\* pi_enqueue_waiter closes no ring.
LEMMA EnqueueOpen ==
    ASSUME PiInv, NoPiDeadlock, NEW t \in PiTask, EnqueueWaiter(t)
    PROVE  NoPiDeadlock'
<1>0. PiTypes /\ TaskInv(t)
  BY Zenon DEF PiInv
<1>1. PICK w \in PiWord : goal[t] = w /\ ppc[t] = "enqueue"
  BY <1>0, Zenon DEF EnqueueWaiter, TaskInv, CallInv
<1>2. CASE UNCHANGED <<word, ptable>>
  BY <1>2, CalmSame, CalmKeeps, Zenon
<1>3. CASE ~UNCHANGED <<word, ptable>>
  <2> DEFINE Refused == ppc[word[w].tid] = "reaped" \/ ChainReaches(word[w].tid, t)
  <2>1. /\ word[w].tid # Nobody /\ ~ChainReaches(word[w].tid, t)
        /\ word' = [word EXCEPT ![w].waiters = TRUE]
        /\ ptable' = [ptable EXCEPT ![w] = [owner |-> word[w].tid, waiters |-> Append(@.waiters, t)]]
    <3>1. CASE word[w].tid = Nobody
      BY <1>1, <1>3, <3>1, Zenon DEF EnqueueWaiter
    <3>2. CASE word[w].tid # Nobody /\ Refused
      BY <1>1, <1>3, <3>2, Zenon DEF EnqueueWaiter
    <3>3. CASE word[w].tid # Nobody /\ ~Refused
      BY <1>1, <3>3, Zenon DEF EnqueueWaiter
    <3> QED BY <3>1, <3>2, <3>3, Zenon
  <2>2. PICK owner \in PiTask : owner = word[w].tid
    BY <1>0, <2>1, Zenon DEF PiTypes, WordType
  <2>3. PICK q \in Seq(PiTask) : ptable[w].waiters = q
    BY <1>0, Zenon DEF PiTypes
  <2>4. PICK rest : rest = Append(q, t)
    BY Zenon
  <2>5. \A x : x \in Range(rest) <=> x \in Range(q) \/ x = t
    BY <2>4, AppendElements, Zenon
  <2>6. /\ \A v \in PiWord : word'[v].tid = word[v].tid
        /\ ptable'[w].waiters = rest
        /\ \A v \in PiWord \ {w} : ptable'[v] = ptable[v]
    <3>1. word \in [PiWord -> WordType] /\ word[w] \in WordType
      BY <1>0, Zenon DEF PiTypes
    <3>2. [word[w] EXCEPT !.waiters = TRUE].tid = word[w].tid
      BY <3>1, Zenon DEF WordType
    <3>3. \A v \in PiWord : word'[v].tid = word[v].tid
      BY <2>1, <3>1, <3>2, Zenon
    <3>4. ptable' = [ptable EXCEPT ![w] = [owner |-> owner, waiters |-> rest]]
      BY <1>0, <2>1, <2>2, <2>3, <2>4, Zenon DEF PiTypes
    <3> QED BY <1>0, <3>3, <3>4, Zenon DEF PiTypes
  <2>7. ASSUME NEW v \in PiWord, NEW u \in Queued(v)', u # t PROVE u \in Queued(v)
    BY <2>3, <2>5, <2>6, <2>7, Zenon DEF Queued
  <2>8. ASSUME NEW v \in PiWord, t \in Queued(v)' PROVE v = w
    <3>1. ~InQueue(t)
      BY <1>1, NotWaiting, Zenon DEF Waiting
    <3> QED BY <2>6, <2>8, <3>1, Zenon DEF InQueue, Queued
  <2>9. SUFFICES ASSUME NEW S \in SUBSET PiTask, PiRing(S)' PROVE FALSE
    BY Zenon DEF NoPiDeadlock, PiRing
  <2>10. \A u \in S \ {t} : \E v \in PiWord : u \in Queued(v) /\ word[v].tid \in S
    BY <2>6, <2>7, <2>9, Zenon DEF PiRing
  <2>11. CASE t \notin S
    <3>1. PiRing(S)
      BY <2>9, <2>10, <2>11, Zenon DEF PiRing
    <3> QED BY <3>1, RingFree, Zenon
  <2>12. CASE t \in S
    <3>1. word[w].tid \in S
      BY <2>6, <2>8, <2>9, <2>12, Zenon DEF PiRing
    <3>2. ~ChainReaches(owner, t) /\ owner \in S
      BY <2>1, <2>2, <3>1, Zenon
    <3> QED BY <2>10, <2>12, <3>2, OwnerChainCloses, RingFree, Zenon
  <2> QED BY <2>11, <2>12, Zenon
<1> QED BY <1>2, <1>3, Zenon

\* Every step keeps the waiters free of rings.
LEMMA NoPiDeadlockStep == PiInv /\ NoPiDeadlock /\ [PiNext]_piVars => NoPiDeadlock'
<1> SUFFICES ASSUME PiInv, NoPiDeadlock, [PiNext]_piVars PROVE NoPiDeadlock'
  BY Zenon
<1>1. CASE UNCHANGED piVars
  BY <1>1, CalmSame, CalmKeeps, Zenon DEF piVars
<1>2. ASSUME NEW t \in PiTask, PiStep(t) PROVE NoPiDeadlock'
  <2>1. CASE EnqueueWaiter(t)
    BY <2>1, EnqueueOpen, Zenon
  <2>2. CASE ~EnqueueWaiter(t)
    <3>1. Calm
      BY <1>2, <2>2, CalmWords, CalmTake, CalmWait, CalmExit, Zenon DEF PiStep
    <3> QED BY <3>1, CalmKeeps, Zenon
  <2> QED BY <2>1, <2>2, Zenon
<1> QED BY <1>1, <1>2, Zenon DEF PiNext

\* No deadlock: whatever locks tasks take, give up and inherit, no set of them
\* waits in the kernel for words owned inside the set.
THEOREM NoPiRing == PiSpec => []NoPiDeadlock
<1>1. PiInit => NoPiDeadlock
  <2> SUFFICES ASSUME PiInit PROVE NoPiDeadlock
    BY Zenon
  <2>1. \A w \in PiWord : Queued(w) = {}
    BY DEF PiInit, Queued, NoEntry, Range
  <2> QED BY <2>1, Zenon DEF NoPiDeadlock
<1>2. PiSpec => []PiInv
  BY PiInitInv, PiNextInv, PTL DEF PiSpec
<1> QED BY <1>1, <1>2, NoPiDeadlockStep, PTL DEF PiSpec

=============================================================================
