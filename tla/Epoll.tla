------------------------------- MODULE Epoll -------------------------------
(***************************************************************************)
(* An eventfd (libs/vfs/src/eventfd.rs), the PollSource that publishes its *)
(* readiness (libs/vfs/src/poll_source.rs) and an epoll instance with a    *)
(* level-triggered watch on it (libs/vfs/src/epoll.rs).  Tasks write and   *)
(* read the eventfd, one adds, modifies and deletes the watch, and waiters *)
(* collect one event at a time and sleep.  Every spinlock section and      *)
(* every atomic access that others can observe is a step of its own.       *)
(***************************************************************************)
EXTENDS Naturals, Sequences, FiniteSets, Lists

CONSTANTS
    EvTask,         \* tasks that write and read the eventfd
    EpWaiter,       \* tasks that call epoll_wait
    Controller,     \* the task that calls epoll_ctl
    EvMax,          \* EVENTFD_COUNTER_MAX
    EvInit,         \* the initval of eventfd
    AddOneshot,     \* whether ADD ...
    ModOneshot,     \* ... and MOD ask for EPOLLONESHOT
    MaxVersion,     \* bound: operations on the eventfd
    MaxCtl          \* bound: epoll_ctl calls

ASSUME EpollAssumption ==
    /\ EvMax \in Nat \ {0} /\ EvInit \in 0 .. EvMax
    /\ {AddOneshot, ModOneshot} \subseteq SUBSET BOOLEAN
    /\ {MaxVersion, MaxCtl} \subseteq Nat
    /\ Controller \notin EvTask \cup EpWaiter /\ EvTask \cap EpWaiter = {}

VARIABLES
    counter,        \* EventfdState.counter
    nextver,        \* PollSource.next_version
    source,         \* PollState: readiness, generation, published_version
    subscribed,     \* the watch subscribed to the source, 0 for none
    watch,          \* EpollWatch objects, in the order of the ADDs
    watching,       \* EpollState.watches: the watch, 0 for none
    eready,         \* EpollState.ready
    epq,            \* EpollCore.waiters
    epasleep,       \* the waiters whose task state is Sleeping
    epstop,         \* the waiters with an interrupting signal
    raced,          \* history: the watches modified during a delivery or collection
    epc,            \* where each task is
    eloc            \* its local variables

epollVars == <<counter, nextver, source, subscribed, watch, watching, eready, epq,
               epasleep, epstop, raced, epc, eloc>>

Actor == EvTask \cup EpWaiter \cup {Controller}
NoWatch == 0

\* The locals: the watch at hand, a readiness and its version or generation,
\* and the watch generation an enqueue was started for.
NoLocals == [on |-> NoWatch, ready |-> {}, ver |-> 0, gen |-> 0]

\* EventfdFileOps::readiness.
Readiness(n) == (IF n > 0 THEN {"in"} ELSE {}) \cup (IF n < EvMax THEN {"out"} ELSE {})

EpollInit ==
    /\ counter = EvInit /\ nextver = 1
    /\ source = [ready |-> Readiness(EvInit), gen |-> 1, pub |-> 0]
    /\ subscribed = NoWatch /\ watch = <<>> /\ watching = NoWatch
    /\ eready = <<>> /\ epq = <<>> /\ epasleep = {} /\ epstop = {} /\ raced = {}
    /\ epc = [a \in Actor |-> "user"]
    /\ eloc = [a \in Actor |-> NoLocals]

EpGoto(a, l) == epc' = [epc EXCEPT ![a] = l]

\* Where a task goes when the delivery or the enqueue it runs is over.
Over(a) == EpGoto(a, "user") /\ eloc' = [eloc EXCEPT ![a] = NoLocals]

-----------------------------------------------------------------------------
(* The eventfd.                                                            *)

\* The new count, its readiness and a version, under the eventfd's lock.
Eventfd(a, n) ==
    /\ epc[a] = "user" /\ nextver <= MaxVersion
    /\ counter' = n
    /\ nextver' = nextver + 1
    /\ eloc' = [eloc EXCEPT ![a].ready = Readiness(n), ![a].ver = nextver]
    /\ EpGoto(a, "publish")
    /\ UNCHANGED <<source, subscribed, watch, watching, eready, epq, epasleep, epstop, raced>>

\* write adds, or answers EAGAIN; read takes the whole count.
EventfdWrite(a) == \E v \in 1 .. EvMax : counter + v <= EvMax /\ Eventfd(a, counter + v)
EventfdRead(a) == counter > 0 /\ Eventfd(a, 0)

\* Mutant: a late version overwrites a newer one.
PublishAnyVersion(a) ==
    LET l == eloc[a]
    IN  /\ epc[a] = "publish"
        /\ IF source.ready = l.ready
           THEN source' = [source EXCEPT !.pub = l.ver] /\ Over(a)
           ELSE /\ source' = [ready |-> l.ready, gen |-> source.gen + 1, pub |-> l.ver]
                /\ eloc' = [eloc EXCEPT ![a].ver = source.gen + 1]
                /\ EpGoto(a, "deliver")
        /\ UNCHANGED <<counter, nextver, subscribed, watch, watching, eready, epq, epasleep, epstop, raced>>

\* publish_versioned under the source's lock: a late version and an unchanged
\* readiness go no further.
Publish(a) ==
    LET l == eloc[a]
        late == l.ver <= source.pub
    IN  /\ epc[a] = "publish"
        /\ IF late \/ source.ready = l.ready
           THEN source' = [source EXCEPT !.pub = IF late THEN @ ELSE l.ver] /\ Over(a)
           ELSE /\ source' = [ready |-> l.ready, gen |-> source.gen + 1, pub |-> l.ver]
                /\ eloc' = [eloc EXCEPT ![a].ver = source.gen + 1]
                /\ EpGoto(a, "deliver")
        /\ UNCHANGED <<counter, nextver, subscribed, watch, watching, eready, epq, epasleep, epstop, raced>>

\* The subscription is looked up after the source's lock is dropped.
Deliver(a) ==
    /\ epc[a] = "deliver"
    /\ IF subscribed = NoWatch THEN Over(a)
       ELSE EpGoto(a, "notice") /\ eloc' = [eloc EXCEPT ![a].on = subscribed]
    /\ UNCHANGED <<counter, nextver, source, subscribed, watch, watching, eready, epq, epasleep, epstop, raced>>

-----------------------------------------------------------------------------
(* EpollWatch: readiness_changed and enqueue.                              *)

\* readiness_changed drops a disabled watch and an older source generation.
Notice(a) ==
    LET l == eloc[a]
        w == watch[l.on]
    IN  /\ epc[a] = "notice"
        /\ IF w.disabled \/ l.ver <= w.sgen
           THEN Over(a) /\ UNCHANGED watch
           ELSE /\ watch' = [watch EXCEPT ![l.on].sgen = l.ver]
                /\ eloc' = [eloc EXCEPT ![a].ready = @ \cap {"in"}, ![a].ver = 0, ![a].gen = w.gen]
                /\ EpGoto(a, "enqueue")
        /\ UNCHANGED <<counter, nextver, source, subscribed, watching, eready, epq, epasleep, epstop, raced>>

\* enqueue up to the epoll lock: the compare-exchange on queued, and the store
\* of queued_generation, which only the task that won it looks at.
Enqueue(a) ==
    LET l == eloc[a]
        w == watch[l.on]
    IN  /\ epc[a] = "enqueue"
        /\ IF l.ready = {} \/ w.disabled \/ w.gen # l.gen \/ w.queued
           THEN Over(a) /\ UNCHANGED watch
           ELSE /\ watch' = [watch EXCEPT ![l.on].queued = TRUE, ![l.on].qgen = l.gen]
                /\ EpGoto(a, "push") /\ eloc' = [eloc EXCEPT ![a].ready = {}]
        /\ UNCHANGED <<counter, nextver, source, subscribed, watching, eready, epq, epasleep, epstop, raced>>

\* Mutant: disabled and generation are not tested again under the lock.
PushUnchecked(a) ==
    /\ epc[a] = "push"
    /\ eready' = Append(eready, eloc[a].on)
    /\ IF eready = <<>> THEN EpGoto(a, "wake") /\ eloc' = [eloc EXCEPT ![a] = NoLocals]
       ELSE Over(a)
    /\ UNCHANGED <<counter, nextver, source, subscribed, watch, watching, epq, epasleep, epstop, raced>>

\* Under the epoll lock: a watch disabled or modified meanwhile is not
\* pushed; the first watch of the ready list wakes a waiter.
PushReady(a) ==
    LET l == eloc[a]
        w == watch[l.on]
    IN  /\ epc[a] = "push"
        /\ IF w.disabled \/ w.gen # l.gen
           THEN EpGoto(a, "unqueue") /\ UNCHANGED <<eready, eloc>>
           ELSE /\ eready' = Append(eready, l.on)
                /\ IF eready = <<>> THEN EpGoto(a, "wake") /\ eloc' = [eloc EXCEPT ![a] = NoLocals]
                   ELSE Over(a)
        /\ UNCHANGED <<counter, nextver, source, subscribed, watch, watching, epq, epasleep, epstop, raced>>

\* clear_queued.
Unqueue(a) ==
    LET l == eloc[a]
    IN  /\ epc[a] = "unqueue"
        /\ watch' = IF watch[l.on].qgen = l.gen
                    THEN [watch EXCEPT ![l.on].qgen = 0, ![l.on].queued = FALSE] ELSE watch
        /\ Over(a)
        /\ UNCHANGED <<counter, nextver, source, subscribed, watching, eready, epq, epasleep, epstop, raced>>

\* wake_one_default: the first waiter of the queue that sleeps.
WakeOne(a) ==
    LET first == epq[FirstIn(epq, epasleep)]
    IN  /\ epc[a] = "wake"
        /\ IF Range(epq) \cap epasleep = {} THEN UNCHANGED <<epq, epasleep>>
           ELSE /\ epq' = Keep(epq, EpWaiter \ {first})
                /\ epasleep' = epasleep \ {first}
        /\ Over(a)
        /\ UNCHANGED <<counter, nextver, source, subscribed, watch, watching, eready, epstop, raced>>

-----------------------------------------------------------------------------
(* epoll_ctl.                                                              *)

\* The epoll_ctl calls so far: each starts or advances a generation.
Calls == SumFunction([w \in DOMAIN watch |-> watch[w].gen])

\* The new watch joins the list and subscribes to the source, still disabled.
CtlAdd(a) ==
    /\ epc[a] = "user" /\ watching = NoWatch /\ Calls < MaxCtl
    /\ \E o \in AddOneshot :
           watch' = Append(watch, [disabled |-> TRUE, queued |-> FALSE, qgen |-> 0,
                                   gen |-> 1, sgen |-> 0, oneshot |-> o])
    /\ watching' = Len(watch') /\ subscribed' = Len(watch')
    /\ eloc' = [eloc EXCEPT ![a].on = Len(watch')]
    /\ EpGoto(a, "enable")
    /\ UNCHANGED <<counter, nextver, source, eready, epq, epasleep, epstop, raced>>

Enable(a) ==
    /\ epc[a] = "enable"
    /\ watch' = [watch EXCEPT ![eloc[a].on].disabled = FALSE]
    /\ EpGoto(a, "snapshot")
    /\ UNCHANGED <<counter, nextver, source, subscribed, watching, eready, epq, epasleep, epstop, eloc, raced>>

\* The snapshot that ADD and MOD deliver themselves.
Snapshot(a) ==
    /\ epc[a] = "snapshot"
    /\ eloc' = [eloc EXCEPT ![a].ready = source.ready, ![a].ver = source.gen]
    /\ EpGoto(a, "notice")
    /\ UNCHANGED <<counter, nextver, source, subscribed, watch, watching, eready, epq, epasleep, epstop, raced>>

\* The tasks that run readiness_changed, an enqueue or a collection of w.
Touching(w) == {a \in Actor : eloc[a].on = w}

\* A MOD during a delivery or a collection of the watch.
Races(a, w) == IF Touching(w) \ {a} = {} THEN {} ELSE {w}

\* MOD disables the watch and gives it a new generation.
CtlMod(a) ==
    /\ epc[a] = "user" /\ watching # NoWatch /\ Calls < MaxCtl
    /\ watch' = [watch EXCEPT ![watching].disabled = TRUE, ![watching].gen = @ + 1]
    /\ eloc' = [eloc EXCEPT ![a].on = watching]
    /\ EpGoto(a, "modify")
    /\ raced' = raced \cup Races(a, watching)
    /\ UNCHANGED <<counter, nextver, source, subscribed, watching, eready, epq, epasleep, epstop>>

\* The watch leaves the ready list, takes its new mode, and forgets what it was
\* queued for and which source generation it has seen.
Modify(a) ==
    LET w == eloc[a].on
    IN  /\ epc[a] = "modify"
        /\ eready' = Keep(eready, DOMAIN watch \ {w})
        /\ \E o \in ModOneshot :
               watch' = [watch EXCEPT ![w].queued = FALSE, ![w].qgen = 0, ![w].sgen = 0,
                                      ![w].oneshot = o]
        /\ EpGoto(a, "enable")
        /\ raced' = raced \cup Races(a, w)
        /\ UNCHANGED <<counter, nextver, source, subscribed, watching, epq, epasleep, epstop, eloc>>

\* DEL disables the watch ...
CtlDel(a) ==
    /\ epc[a] = "user" /\ watching # NoWatch /\ Calls < MaxCtl
    /\ watch' = [watch EXCEPT ![watching].disabled = TRUE, ![watching].gen = @ + 1]
    /\ eloc' = [eloc EXCEPT ![a].on = watching]
    /\ EpGoto(a, "delete")
    /\ UNCHANGED <<counter, nextver, source, subscribed, watching, eready, epq, epasleep, epstop, raced>>

\* ... unsubscribes it and removes it from both lists.
Delete(a) ==
    LET w == eloc[a].on
    IN  /\ epc[a] = "delete"
        /\ subscribed' = NoWatch /\ watching' = NoWatch
        /\ eready' = Keep(eready, DOMAIN watch \ {w})
        /\ watch' = [watch EXCEPT ![w].queued = FALSE, ![w].qgen = 0]
        /\ Over(a)
        /\ UNCHANGED <<counter, nextver, source, epq, epasleep, epstop, raced>>

-----------------------------------------------------------------------------
(* epoll_wait: wait_until and collect_ready for one event.                 *)

\* pop_front; an empty list leads to the wait.
Collect(a) ==
    /\ epc[a] \in {"user", "collect"}
    /\ IF eready = <<>>
       THEN EpGoto(a, "prepare") /\ UNCHANGED <<eready, eloc>>
       ELSE /\ eready' = Tail(eready)
            /\ eloc' = [eloc EXCEPT ![a].on = Head(eready)]
            /\ EpGoto(a, "popped")
    /\ UNCHANGED <<counter, nextver, source, subscribed, watch, watching, epq, epasleep, epstop, raced>>

\* queued_generation.swap(0) and queued.store(false).
Popped(a) ==
    LET w == eloc[a].on
    IN  /\ epc[a] = "popped"
        /\ eloc' = [eloc EXCEPT ![a].gen = watch[w].qgen]
        /\ watch' = [watch EXCEPT ![w].qgen = 0, ![w].queued = FALSE]
        /\ EpGoto(a, "report")
        /\ UNCHANGED <<counter, nextver, source, subscribed, watching, eready, epq, epasleep, epstop, raced>>

\* A disabled watch, one queued for an earlier generation and one that is not
\* ready any more are skipped; any other is reported.
Report(a) ==
    LET l == eloc[a]
        w == watch[l.on]
    IN  /\ epc[a] = "report"
        /\ IF w.disabled \/ l.gen # w.gen \/ "in" \notin source.ready
           THEN /\ eloc' = [eloc EXCEPT ![a] = NoLocals] /\ EpGoto(a, "collect")
           ELSE EpGoto(a, "rearm") /\ UNCHANGED eloc
        /\ UNCHANGED <<counter, nextver, source, subscribed, watch, watching, eready, epq, epasleep, epstop, raced>>

\* Mutant: a reported level-triggered watch is not put back.
RearmNothing(a) ==
    LET w == eloc[a].on
    IN  /\ epc[a] = "rearm"
        /\ watch' = IF watch[w].oneshot THEN [watch EXCEPT ![w].disabled = TRUE] ELSE watch
        /\ Over(a)
        /\ UNCHANGED <<counter, nextver, source, subscribed, watching, eready, epq, epasleep, epstop, raced>>

\* EPOLLONESHOT disables the reported watch; a level-triggered one goes through
\* enqueue again, with the readiness it has now.
Rearm(a) ==
    LET w == eloc[a].on
    IN  /\ epc[a] = "rearm"
        /\ IF watch[w].oneshot
           THEN watch' = [watch EXCEPT ![w].disabled = TRUE] /\ Over(a)
           ELSE /\ eloc' = [eloc EXCEPT ![a].ready = source.ready \cap {"in"},
                                         ![a].gen = watch[w].gen]
                /\ EpGoto(a, "enqueue") /\ UNCHANGED watch
        /\ UNCHANGED <<counter, nextver, source, subscribed, watching, eready, epq, epasleep, epstop, raced>>

\* The signal test and prepare_to_wait.
PrepareEpoll(a) ==
    /\ epc[a] = "prepare"
    /\ IF a \in epstop
       THEN Over(a) /\ epstop' = epstop \ {a} /\ UNCHANGED <<epq, epasleep>>
       ELSE /\ epq' = Append(epq, a) /\ epasleep' = epasleep \cup {a}
            /\ EpGoto(a, "recheck") /\ UNCHANGED <<epstop, eloc>>
    /\ UNCHANGED <<counter, nextver, source, subscribed, watch, watching, eready, raced>>

\* Mutant: any_ready is not asked again after prepare_to_wait.
RecheckAsleep(a) ==
    /\ epc[a] = "recheck"
    /\ EpGoto(a, "asleep") /\ UNCHANGED <<epq, epasleep>>
    /\ UNCHANGED <<counter, nextver, source, subscribed, watch, watching, eready, epstop, eloc, raced>>

\* any_ready after prepare_to_wait.
RecheckEpoll(a) ==
    /\ epc[a] = "recheck"
    /\ IF eready # <<>>
       THEN /\ epq' = Keep(epq, EpWaiter \ {a}) /\ epasleep' = epasleep \ {a}
            /\ EpGoto(a, "collect")
       ELSE EpGoto(a, "asleep") /\ UNCHANGED <<epq, epasleep>>
    /\ UNCHANGED <<counter, nextver, source, subscribed, watch, watching, eready, epstop, eloc, raced>>

\* schedule_once returned: finish_wait, then EINTR or around the loop.
ResumeEpoll(a) ==
    /\ epc[a] = "asleep" /\ a \notin epasleep
    /\ epq' = Keep(epq, EpWaiter \ {a})
    /\ IF a \in epstop THEN Over(a) ELSE EpGoto(a, "collect") /\ UNCHANGED eloc
    /\ epstop' = epstop \ {a}
    /\ UNCHANGED <<counter, nextver, source, subscribed, watch, watching, eready, epasleep, raced>>

SignalEpoll(a) ==
    /\ epc[a] \in {"prepare", "recheck", "asleep"} /\ a \notin epstop
    /\ epstop' = epstop \cup {a} /\ epasleep' = epasleep \ {a}
    /\ UNCHANGED <<counter, nextver, source, subscribed, watch, watching, eready, epq, epc, eloc, raced>>

-----------------------------------------------------------------------------
EpollNext ==
    \/ \E a \in EvTask :
           EventfdWrite(a) \/ EventfdRead(a) \/ Publish(a) \/ Deliver(a)
    \/ \E a \in Actor :
           Notice(a) \/ Enqueue(a) \/ PushReady(a) \/ Unqueue(a) \/ WakeOne(a)
    \/ CtlAdd(Controller) \/ Enable(Controller)
    \/ Snapshot(Controller) \/ CtlMod(Controller) \/ Modify(Controller)
    \/ CtlDel(Controller) \/ Delete(Controller)
    \/ \E a \in EpWaiter :
           \/ Collect(a) \/ Popped(a) \/ Report(a) \/ Rearm(a)
           \/ PrepareEpoll(a) \/ RecheckEpoll(a) \/ ResumeEpoll(a) \/ SignalEpoll(a)

EpollSpec == EpollInit /\ [][EpollNext]_epollVars

-----------------------------------------------------------------------------
\* Type correctness: the waiters queued are in epoll_wait, and the ready list
\* holds a watch once, unless a MOD raced with its delivery.
EpollTypeOK ==
    /\ counter \in 0 .. EvMax
    /\ source.ready \subseteq {"in", "out"}
    /\ {subscribed, watching} \subseteq 0 .. Len(watch)
    /\ Range(eready) \subseteq DOMAIN watch
    /\ raced = {} => IsInjective(eready)
    /\ IsInjective(epq) /\ epasleep \subseteq EpWaiter
    /\ \A a \in Range(epq) \cup epasleep : epc[a] \in {"recheck", "asleep"}

\* The published readiness catches up with the count: with no publication
\* under way it is the readiness of the current count, however the
\* publications of concurrent writes and reads overtook each other.
PublishedIsCurrent ==
    (\A a \in EvTask : epc[a] # "publish") => source.ready = Readiness(counter)

\* A level-triggered watch is never forgotten: while the eventfd is readable
\* and nothing touches the watch, the enabled watch is in the ready list, for
\* its current generation; a MOD that raced with its delivery is the exception.
ReadyIsQueued ==
    \A w \in DOMAIN watch \ raced :
        /\ w = subscribed /\ ~watch[w].disabled /\ "in" \in source.ready
        /\ Touching(w) = {} /\ \A a \in EvTask : epc[a] # "deliver"
        => w \in Range(eready) /\ watch[w].qgen = watch[w].gen

\* No lost wake-up: not every waiter sleeps on a ready list that is not
\* empty, unless the enqueue that filled it has yet to wake one.
SomeoneCollects ==
    eready # <<>> /\ EpWaiter # {} =>
        \/ \E a \in EpWaiter : a \notin epasleep
        \/ \E a \in Actor : epc[a] = "wake"
        \/ \E a \in EpWaiter : epc[a] = "recheck"

\* A watch that EPOLL_CTL_DEL has removed is not in the ready list.
DeletedIsGone ==
    \A w \in Range(eready) : w = watching

=============================================================================
