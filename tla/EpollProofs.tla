---------------------------- MODULE EpollProofs ----------------------------
(***************************************************************************)
(* An eventfd, its PollSource and an epoll with a level-triggered watch    *)
(* lose neither the newest readiness, nor the watch, nor a waiter, for     *)
(* every number of tasks and waiters, every counter limit and every order  *)
(* of their steps.                                                         *)
(*                                                                         *)
(* Publication.  The argument follows the newest version.  A write or a    *)
(* read draws it under the eventfd's lock, with the readiness of the count *)
(* it leaves, and until a newer one is drawn either a task is about to     *)
(* publish it or the source holds it (Newest).  A late version cannot      *)
(* displace it, because versions are drawn once each (Versions).           *)
(*                                                                         *)
(* The watch.  While the eventfd is readable and the watch enabled, the    *)
(* watch is in the ready list or some task carries it there: a delivery of *)
(* the newest generation, a snapshot, an enqueue, or a collection that has *)
(* still to test and rearm it (CarriedInv).  An enqueue that loses the     *)
(* compare-exchange on queued may stop, because the flag has exactly one   *)
(* owner or the watch is in the list exactly once (FlagInv).               *)
(*                                                                         *)
(* The waiters.  Whoever fills the empty list wakes a waiter, and a waiter *)
(* that sleeps has asked any_ready after it joined the queue (WaitInv).    *)
(***************************************************************************)
EXTENDS Epoll, ListProofs, TLAPS

-----------------------------------------------------------------------------
(* The publication of the eventfd's readiness. *)

(* The functions the steps update, as far as the argument needs them. *)
FieldTypes ==
    /\ nextver \in Nat \ {0}
    /\ source \in [ready : SUBSET {"in", "out"}, gen : Nat, pub : Nat]
    /\ epc = [a \in Actor |-> epc[a]]
    /\ eloc = [a \in Actor |-> eloc[a]]

(* A task outside of every operation has no locals. *)
Idle == \A a \in Actor : epc[a] = "user" => eloc[a] = NoLocals

(* The versions under way are old, differ from the published one and from   *)
(* each other.                                                              *)
Versions ==
    /\ source.pub < nextver
    /\ \A a \in EvTask : epc[a] = "publish" =>
          /\ eloc[a].ver \in Nat /\ eloc[a].ver < nextver
          /\ eloc[a].ver # source.pub
          /\ eloc[a].ready \subseteq {"in", "out"}
    /\ \A a, b \in EvTask :
          epc[a] = "publish" /\ epc[b] = "publish" /\ a # b => eloc[a].ver # eloc[b].ver

(* The newest version carries the readiness of the count, and is published  *)
(* or about to be.                                                          *)
Newest ==
    \/ source.pub + 1 = nextver /\ source.ready = Readiness(counter)
    \/ \E a \in EvTask :
          epc[a] = "publish" /\ eloc[a].ver + 1 = nextver /\ eloc[a].ready = Readiness(counter)

PublishInv == FieldTypes /\ Idle /\ Versions /\ Newest

-----------------------------------------------------------------------------
(* The source starts with the readiness of the initial count. *)
LEMMA PublishInvInit == EpollInit => PublishInv
<1> SUFFICES ASSUME EpollInit PROVE PublishInv
  BY Zenon
<1>1. FieldTypes
  BY DEF EpollInit, FieldTypes, Readiness
<1>2. Idle
  BY Zenon DEF EpollInit, Idle
<1>3. Versions
  BY DEF EpollInit, Versions, Actor
<1>4. Newest
  BY DEF EpollInit, Newest
<1> QED BY <1>1, <1>2, <1>3, <1>4, Zenon DEF PublishInv

(* A step of one actor that neither draws nor publishes a version. *)
Aside(a) ==
    /\ UNCHANGED <<counter, nextver, source>>
    /\ epc[a] # "publish" /\ epc'[a] # "publish"
    /\ epc'[a] = "user" => eloc'[a] = NoLocals
    /\ epc' = [epc EXCEPT ![a] = epc'[a]]
    /\ eloc' = [eloc EXCEPT ![a] = eloc'[a]]

\* A step of no write, read or publication keeps the versions.
LEMMA AsideStep ==
  ASSUME PublishInv, NEW a \in Actor, Aside(a)
  PROVE  PublishInv'
<1>1. FieldTypes'
  BY Zenon DEF PublishInv, FieldTypes, Aside
<1>2. \A b \in Actor : b # a => epc'[b] = epc[b] /\ eloc'[b] = eloc[b]
  BY Zenon DEF PublishInv, FieldTypes, Aside
<1>3. Idle'
  BY <1>2, Zenon DEF PublishInv, Idle, Aside
<1>4. \A b \in EvTask : (epc'[b] = "publish" <=> epc[b] = "publish")
                        /\ (epc[b] = "publish" => eloc'[b] = eloc[b])
  BY <1>2, Zenon DEF Aside, Actor
<1>5. Versions'
  BY <1>4 DEF PublishInv, Versions, Aside
<1>6. Newest'
  BY <1>4, Zenon DEF PublishInv, Newest, Aside
<1> QED BY <1>1, <1>3, <1>5, <1>6, Zenon DEF PublishInv

(* An eventfd write or read draws the newest version. *)
LEMMA EventfdStep ==
  ASSUME PublishInv, NEW a \in EvTask, NEW n, Eventfd(a, n)
  PROVE  PublishInv'
<1>1. /\ epc[a] = "user" /\ counter' = n /\ nextver' = nextver + 1 /\ source' = source
      /\ epc' = [epc EXCEPT ![a] = "publish"]
      /\ eloc' = [eloc EXCEPT ![a].ready = Readiness(n), ![a].ver = nextver]
  BY Zenon DEF Eventfd, EpGoto
<1>2. a \in Actor /\ eloc[a] = NoLocals
  BY <1>1, Zenon DEF PublishInv, Idle, Actor
<1>3. epc'[a] = "publish" /\ eloc'[a].ready = Readiness(n) /\ eloc'[a].ver = nextver
  BY <1>1, <1>2, Zenon DEF PublishInv, FieldTypes, NoLocals
<1>4. \A b \in Actor : b # a => epc'[b] = epc[b] /\ eloc'[b] = eloc[b]
  BY <1>1, Zenon DEF PublishInv, FieldTypes
<1>5. FieldTypes'
  <2>1. nextver' \in Nat \ {0}
    BY <1>1 DEF PublishInv, FieldTypes
  <2>2. epc' = [b \in Actor |-> epc'[b]] /\ eloc' = [b \in Actor |-> eloc'[b]]
    BY <1>1, Zenon DEF PublishInv, FieldTypes
  <2> QED BY <1>1, <2>1, <2>2, Zenon DEF PublishInv, FieldTypes
<1>6. Idle'
  BY <1>3, <1>4, Zenon DEF PublishInv, Idle
<1>7. nextver \in Nat /\ source.pub \in Nat /\ source.pub < nextver
  BY Zenon DEF PublishInv, FieldTypes, Versions
<1>8. Readiness(n) \subseteq {"in", "out"}
  BY Zenon DEF Readiness
<1>9. Versions'
  <2>1. \A b \in EvTask : b # a /\ epc'[b] = "publish" =>
           /\ epc[b] = "publish" /\ eloc'[b] = eloc[b] /\ eloc[b].ver \in Nat
           /\ eloc[b].ver < nextver
    BY <1>4, Zenon DEF PublishInv, Versions, Actor
  <2>2. \A b \in EvTask : epc'[b] = "publish" =>
           /\ eloc'[b].ver \in Nat /\ eloc'[b].ver < nextver + 1
           /\ eloc'[b].ver # source.pub /\ eloc'[b].ready \subseteq {"in", "out"}
    BY <1>3, <1>7, <1>8, <2>1 DEF PublishInv, Versions
  <2>3. \A b, c \in EvTask : epc'[b] = "publish" /\ epc'[c] = "publish" /\ b # c =>
           eloc'[b].ver # eloc'[c].ver
    BY <1>3, <1>7, <2>1 DEF PublishInv, Versions
  <2>4. source.pub < nextver + 1
    BY <1>7
  <2> QED BY <1>1, <2>2, <2>3, <2>4, Zenon DEF Versions
<1>10. Newest'
  BY <1>1, <1>3, Zenon DEF Newest
<1> QED BY <1>5, <1>6, <1>9, <1>10, Zenon DEF PublishInv

(* publish_versioned leaves the newest version where it was, or stores it.  *)
LEMMA PublishStep ==
  ASSUME PublishInv, NEW a \in EvTask, Publish(a)
  PROVE  PublishInv'
<1> DEFINE v == eloc[a].ver
<1> DEFINE late == v <= source.pub
<1>1. /\ epc[a] = "publish" /\ counter' = counter /\ nextver' = nextver
      /\ v \in Nat /\ v < nextver /\ v # source.pub /\ a \in Actor
      /\ eloc[a].ready \subseteq {"in", "out"}
  BY Zenon DEF Publish, PublishInv, Versions, Actor
<1>2. /\ nextver \in Nat \ {0} /\ source.pub \in Nat /\ source.pub < nextver /\ source.gen \in Nat
      /\ source \in [ready : SUBSET {"in", "out"}, gen : Nat, pub : Nat]
  BY Zenon DEF PublishInv, FieldTypes, Versions
<1>3. /\ source' \in [ready : SUBSET {"in", "out"}, gen : Nat, pub : Nat]
      /\ late => source'.pub = source.pub /\ source'.ready = source.ready
      /\ ~late => source'.pub = v /\ source'.ready = eloc[a].ready
  BY <1>1, <1>2 DEF Publish
<1>4. /\ epc' = [epc EXCEPT ![a] = epc'[a]] /\ eloc' = [eloc EXCEPT ![a] = eloc'[a]]
      /\ epc'[a] \in {"user", "deliver"} /\ (epc'[a] = "user" => eloc'[a] = NoLocals)
  BY <1>1, Zenon DEF Publish, Over, EpGoto, PublishInv, FieldTypes
<1>5. \A b \in Actor : b # a => epc'[b] = epc[b] /\ eloc'[b] = eloc[b]
  BY <1>4, Zenon DEF PublishInv, FieldTypes
<1>6. FieldTypes'
  BY <1>1, <1>2, <1>3, <1>4, Zenon DEF PublishInv, FieldTypes
<1>7. Idle'
  BY <1>4, <1>5, Zenon DEF PublishInv, Idle
<1>8. Versions'
  BY <1>1, <1>2, <1>3, <1>4, <1>5 DEF PublishInv, Versions, Actor
<1>9. Newest'
  <2>1. CASE v + 1 = nextver
    <3>1. ~late
      BY <1>1, <1>2, <2>1
    <3>2. eloc[a].ready = Readiness(counter)
      BY <1>1, <1>2, <2>1 DEF PublishInv, Newest, Versions
    <3> QED BY <1>1, <1>3, <2>1, <3>1, <3>2, Zenon DEF Newest
  <2>2. CASE v + 1 # nextver
    <3>1. CASE source.pub + 1 = nextver /\ source.ready = Readiness(counter)
      <4>1. late
        BY <1>1, <1>2, <3>1, <2>2
      <4> QED BY <1>1, <1>3, <3>1, <4>1, Zenon DEF Newest
    <3>2. CASE \E b \in EvTask :
          epc[b] = "publish" /\ eloc[b].ver + 1 = nextver /\ eloc[b].ready = Readiness(counter)
      BY <1>1, <1>5, <2>2, <3>2, Zenon DEF Newest, Actor
    <3> QED BY <3>1, <3>2, Zenon DEF PublishInv, Newest
  <2> QED BY <2>1, <2>2, Zenon
<1> QED BY <1>6, <1>7, <1>8, <1>9, Zenon DEF PublishInv

(* Every step keeps the newest version in sight. *)
LEMMA PublishInvStep == PublishInv /\ [EpollNext]_epollVars => PublishInv'
<1> SUFFICES ASSUME PublishInv, [EpollNext]_epollVars PROVE PublishInv'
  BY Zenon
<1>0. epc = [a \in Actor |-> epc[a]] /\ eloc = [a \in Actor |-> eloc[a]]
  BY Zenon DEF PublishInv, FieldTypes
<1>1. ASSUME NEW a \in EvTask, EventfdWrite(a) \/ EventfdRead(a) PROVE PublishInv'
  BY <1>1, EventfdStep, Zenon DEF EventfdWrite, EventfdRead
<1>2. ASSUME NEW a \in Actor,
             Notice(a) \/ Enqueue(a) \/ PushReady(a) \/ Unqueue(a) \/ WakeOne(a) \/ Deliver(a)
      PROVE  Aside(a)
  BY <1>0, <1>2, Zenon DEF Notice, Enqueue, PushReady, Unqueue, WakeOne, Deliver, Over, EpGoto, Aside
<1>3. ASSUME NEW a \in Actor,
             CtlAdd(a) \/ Enable(a) \/ Snapshot(a) \/ CtlMod(a) \/ Modify(a) \/ CtlDel(a) \/ Delete(a)
      PROVE  Aside(a)
  BY <1>0, <1>3, Zenon DEF CtlAdd, Enable, Snapshot, CtlMod, Modify, CtlDel, Delete, Over, EpGoto, Aside
<1>4. ASSUME NEW a \in Actor, Collect(a) \/ Popped(a) \/ Report(a) \/ Rearm(a)
      PROVE  Aside(a)
  BY <1>0, <1>4, Zenon DEF Collect, Popped, Report, Rearm, Over, EpGoto, Aside
<1>5. ASSUME NEW a \in Actor,
             PrepareEpoll(a) \/ RecheckEpoll(a) \/ ResumeEpoll(a) \/ SignalEpoll(a)
      PROVE  Aside(a)
  BY <1>0, <1>5, Zenon DEF PrepareEpoll, RecheckEpoll, ResumeEpoll, SignalEpoll, Over, EpGoto, Aside
<1>6. CASE UNCHANGED epollVars
  BY <1>6, Zenon DEF epollVars, PublishInv, FieldTypes, Idle, Versions, Newest
<1>7. EvTask \subseteq Actor /\ EpWaiter \subseteq Actor /\ Controller \in Actor
  BY Zenon DEF Actor
<1> QED BY <1>1, <1>2, <1>3, <1>4, <1>5, <1>6, <1>7, PublishStep, AsideStep, Zenon DEF EpollNext

(* THEOREM.  Whatever the number of tasks that write and read the eventfd   *)
(* and however their publications overtake each other, when none is under   *)
(* way the readiness that poll and epoll see is the one of the count.       *)
THEOREM ReadinessCatchesUp == EpollSpec => []PublishedIsCurrent
<1>1. PublishInv => PublishedIsCurrent
  BY Zenon DEF PublishInv, Newest, PublishedIsCurrent
<1>2. EpollSpec => []PublishInv
  BY PublishInvInit, PublishInvStep, PTL DEF EpollSpec
<1> QED BY <1>1, <1>2, PTL

-----------------------------------------------------------------------------
(* The watch on its way to the ready list. *)

WatchType == [disabled : BOOLEAN, queued : BOOLEAN, qgen : Nat, gen : Nat, sgen : Nat, oneshot : BOOLEAN]
LocalType == [on : Nat, ready : SUBSET {"in", "out"}, ver : Nat, gen : Nat]

\* Where a task has a watch at hand, by whose code it is.
AnyOn == {"notice", "enqueue", "push", "unqueue"}
CtlOn == {"enable", "snapshot", "modify", "delete"}
\* The controller while the watch is disabled.
Closing == {"enable", "modify", "delete"}
WaitOn == {"popped", "report", "rearm"}
WaitOff == {"collect", "prepare", "recheck", "asleep"}
EvOff == {"publish", "deliver"}
EpPC == {"user", "wake"} \cup AnyOn \cup CtlOn \cup WaitOn \cup WaitOff \cup EvOff

EpTypes ==
    /\ counter \in 0 .. EvMax
    /\ source \in [ready : SUBSET {"in", "out"}, gen : Nat, pub : Nat] /\ source.gen >= 1
    /\ watch \in Seq(WatchType)
    /\ watching \in 0 .. Len(watch) /\ subscribed = watching
    /\ eready \in Seq(Nat) /\ epq \in Seq(EpWaiter) /\ epasleep \subseteq EpWaiter
    /\ raced \subseteq DOMAIN watch
    /\ epc \in [Actor -> EpPC] /\ eloc \in [Actor -> LocalType]

\* A task has a watch at hand exactly while it works on it; the controller's
\* is the one the epoll has.
ActorInv(a) ==
    /\ eloc[a].on \in 0 .. Len(watch)
    /\ eloc[a].on # 0 <=> epc[a] \in AnyOn \cup CtlOn \cup WaitOn
    /\ epc[a] \in CtlOn => a = Controller
    /\ epc[a] \in WaitOn \cup WaitOff => a \in EpWaiter
    /\ a = Controller /\ eloc[a].on # 0 => eloc[a].on = watching

\* The waiters: who sleeps is queued, and who is queued is in epoll_wait.
WaitersInv ==
    /\ IsInjective(epq)
    /\ epasleep \subseteq Range(epq)
    /\ \A a \in Range(epq) : epc[a] \in {"recheck", "asleep"}

\* Only the watch that epoll_ctl has left in place is enabled, or ready.
WatchInv ==
    /\ \A w \in DOMAIN watch : w # watching => watch[w].disabled = TRUE
    /\ Range(eready) \subseteq {watching} \ {NoWatch}
    /\ epc[Controller] \in Closing => watch[watching].disabled = TRUE

\* The generations of the source that are on their way.
GenInv ==
    /\ \A w \in DOMAIN watch : watch[w].sgen <= source.gen
    /\ \A a \in Actor : epc[a] \in {"deliver", "notice"} =>
           /\ eloc[a].ver <= source.gen
           /\ eloc[a].ver = source.gen => eloc[a].ready = source.ready

\* The task that holds the queued flag of the watch.
OwnerAt(p, l) == l.on = watching /\ p \in {"push", "unqueue", "popped"}
Owner(a) == OwnerAt(epc[a], eloc[a])

OneOwner ==
    /\ \A a, b \in Actor : Owner(a) /\ Owner(b) => a = b
    /\ Len(eready) <= 1
    /\ \A a \in Actor : Owner(a) => eready = <<>>

\* The queued flag is set while the watch has an owner or is in the list.
FlagSet(w) ==
    /\ \A a \in Actor : Owner(a) => w.queued = TRUE
    /\ eready # <<>> => w.queued = TRUE
    /\ w.queued = TRUE => eready # <<>> \/ \E a \in Actor : Owner(a)

\* The generation it was queued for.
FlagGen(w) ==
    /\ \A a \in Actor : Owner(a) /\ epc[a] # "popped" => eloc[a].gen = w.qgen
    /\ \A a \in Actor : Owner(a) /\ epc[a] = "unqueue" => w.disabled = TRUE
    /\ w.queued = TRUE /\ w.disabled = FALSE => w.qgen = w.gen
    /\ epc[Controller] = "enable" => w.queued = FALSE /\ w.sgen = 0

FlagInv ==
    watching # NoWatch /\ watching \notin raced =>
        OneOwner /\ FlagSet(watch[watching]) /\ FlagGen(watch[watching])

\* What leads to a report of the readable eventfd.
CarriesAt(p, l) ==
    \/ p = "deliver" /\ l.ver = source.gen /\ watch[watching].sgen < source.gen
    \/ /\ l.on = watching
       /\ \/ p = "notice" /\ l.ver = source.gen /\ watch[watching].sgen < source.gen
          \/ p = "snapshot" /\ watch[watching].sgen < source.gen
          \/ p = "enqueue" /\ "in" \in l.ready /\ l.gen = watch[watching].gen
          \/ p \in {"push", "popped", "rearm"}
          \/ p = "report" /\ l.gen = watch[watching].gen
Carries(a) == CarriesAt(epc[a], eloc[a])

Live == watching # NoWatch /\ watching \notin raced /\ watch[watching].disabled = FALSE /\ "in" \in source.ready

CarriedInv == Live => eready # <<>> \/ \E a \in Actor : Carries(a)

CoreInv == EpTypes /\ (\A a \in Actor : ActorInv(a)) /\ WatchInv /\ GenInv /\ FlagInv /\ CarriedInv

\* A step of a that changes where it is and its locals.
Moves(a, p, l) == epc' = [epc EXCEPT ![a] = p] /\ eloc' = [eloc EXCEPT ![a] = l]

\* Such a step leaves the other tasks where they are.
LEMMA MovesOne ==
    ASSUME EpTypes, NEW a \in Actor, NEW p \in EpPC, NEW l \in LocalType, Moves(a, p, l)
    PROVE  /\ epc' \in [Actor -> EpPC] /\ eloc' \in [Actor -> LocalType]
           /\ epc'[a] = p /\ eloc'[a] = l
           /\ \A b \in Actor : b # a => epc'[b] = epc[b] /\ eloc'[b] = eloc[b]
  BY Zenon DEF EpTypes, Moves

\* The watch a task has at hand exists, and so does the epoll's.
LEMMA AtHand ==
    ASSUME CoreInv
    PROVE  /\ \A a \in Actor : epc[a] \in AnyOn \cup CtlOn \cup WaitOn =>
                  eloc[a].on \in DOMAIN watch /\ eloc[a].on # 0
           /\ watching # 0 => watching \in DOMAIN watch
           /\ DOMAIN watch = 1 .. Len(watch) /\ Len(watch) \in Nat
           /\ \A w \in DOMAIN watch : watch[w] \in WatchType
           /\ source.gen \in Nat /\ source.ready \subseteq {"in", "out"} /\ source.gen >= 1
<1>1. /\ watch \in Seq(WatchType) /\ watching \in 0 .. Len(watch)
      /\ source.gen \in Nat /\ source.ready \subseteq {"in", "out"} /\ source.gen >= 1
  BY Zenon DEF CoreInv, EpTypes
<1>2. DOMAIN watch = 1 .. Len(watch) /\ Len(watch) \in Nat /\ \A w \in DOMAIN watch : watch[w] \in WatchType
  BY <1>1
<1>3. \A a \in Actor : epc[a] \in AnyOn \cup CtlOn \cup WaitOn =>
                  eloc[a].on \in DOMAIN watch /\ eloc[a].on # 0
  BY <1>2 DEF CoreInv, ActorInv
<1> QED BY <1>1, <1>2, <1>3

\* A step in which one task moves and nothing else changes that the watch, its
\* flags and the ready list depend on.
LEMMA LocalStep ==
    ASSUME CoreInv, NEW a \in Actor, NEW p \in EpPC, NEW l \in LocalType, Moves(a, p, l),
           counter' \in 0 .. EvMax, epq' \in Seq(EpWaiter), epasleep' \subseteq EpWaiter,
           UNCHANGED <<watch, watching, subscribed, eready, raced>>,
           source' \in [ready : SUBSET {"in", "out"}, gen : Nat, pub : Nat],
           source'.gen = source.gen, source'.ready = source.ready,
           l.on \in 0 .. Len(watch),
           l.on # 0 <=> p \in AnyOn \cup CtlOn \cup WaitOn,
           p \in CtlOn => a = Controller,
           p \in WaitOn \cup WaitOff => a \in EpWaiter,
           a = Controller /\ l.on # 0 => l.on = watching,
           p \in {"deliver", "notice"} =>
               l.ver <= source.gen /\ (l.ver = source.gen => l.ready = source.ready),
           ~Owner(a), ~OwnerAt(p, l), p \notin Closing,
           Live /\ Carries(a) => \/ eready # <<>> \/ CarriesAt(p, l)
                                 \/ \E b \in Actor : b # a /\ Carries(b)
    PROVE  CoreInv'
<1>1. /\ epc' \in [Actor -> EpPC] /\ eloc' \in [Actor -> LocalType]
      /\ epc'[a] = p /\ eloc'[a] = l
      /\ \A b \in Actor : b # a => epc'[b] = epc[b] /\ eloc'[b] = eloc[b]
  BY MovesOne, Zenon DEF CoreInv
<1>2. EpTypes'
  BY <1>1, Zenon DEF CoreInv, EpTypes
<1>3. ASSUME NEW b \in Actor PROVE ActorInv(b)'
  <2>1. CASE b = a
    BY <1>1, <2>1, Zenon DEF ActorInv
  <2>2. CASE b # a
    BY <1>1, <2>2, Zenon DEF CoreInv, ActorInv
  <2> QED BY <2>1, <2>2, Zenon
<1>4. WatchInv'
  <2>1. Controller \in Actor /\ (epc'[Controller] \in Closing => epc[Controller] \in Closing)
    BY <1>1, Zenon DEF Actor
  <2> QED BY <2>1, Zenon DEF CoreInv, WatchInv
<1>5. GenInv'
  BY <1>1 DEF CoreInv, GenInv
<1>6. \A b \in Actor : Owner(b)' <=> Owner(b)
  BY <1>1, Zenon DEF Owner, OwnerAt
<1>7. OneOwner => OneOwner'
  BY <1>6, Zenon DEF OneOwner
<1>8. ASSUME NEW w, FlagSet(w) PROVE FlagSet(w)'
  BY <1>6, <1>8, Zenon DEF FlagSet
<1>9. ASSUME NEW w, FlagGen(w) PROVE FlagGen(w)'
  <2>1. \A b \in Actor : Owner(b) => epc'[b] = epc[b] /\ eloc'[b] = eloc[b]
    BY <1>1, Zenon
  <2>2. Controller \in Actor /\ (epc'[Controller] = "enable" => epc[Controller] = "enable")
    BY <1>1, Zenon DEF Actor, Closing
  <2> QED BY <1>6, <1>9, <2>1, <2>2 DEF FlagGen
<1>10. FlagInv'
  <2>1. PICK w : w = watch[watching]
    BY Zenon
  <2> QED BY <1>7, <1>8, <1>9, <2>1, Zenon DEF CoreInv, FlagInv
<1>11. CarriedInv'
  <2>1. \A b \in Actor : b # a => (Carries(b)' <=> Carries(b))
    BY <1>1 DEF Carries, CarriesAt
  <2>2. Carries(a)' <=> CarriesAt(p, l)
    BY <1>1, Zenon DEF Carries, CarriesAt
  <2>3. Live' <=> Live
    BY Zenon DEF Live
  <2> QED BY <2>1, <2>2, <2>3, Zenon DEF CoreInv, CarriedInv
<1> QED BY <1>2, <1>3, <1>4, <1>5, <1>10, <1>11, Zenon DEF CoreInv

\* What a task's place says about its locals and the rest of the state.
LEMMA AtTask ==
    ASSUME CoreInv, NEW a \in Actor
    PROVE  /\ epc[a] \in EpPC /\ eloc[a] \in LocalType /\ eloc[a].on \in 0 .. Len(watch)
           /\ eloc[a].on # 0 <=> epc[a] \in AnyOn \cup CtlOn \cup WaitOn
           /\ epc[a] \in CtlOn => a = Controller
           /\ epc[a] \in WaitOn \cup WaitOff => a \in EpWaiter
           /\ a = Controller /\ eloc[a].on # 0 => eloc[a].on = watching
           /\ epc[a] \in {"deliver", "notice"} =>
               eloc[a].ver <= source.gen /\ (eloc[a].ver = source.gen => eloc[a].ready = source.ready)
           /\ counter \in 0 .. EvMax /\ epq \in Seq(EpWaiter) /\ epasleep \subseteq EpWaiter
           /\ watching \in 0 .. Len(watch) /\ subscribed = watching /\ NoLocals \in LocalType
           /\ source \in [ready : SUBSET {"in", "out"}, gen : Nat, pub : Nat]
<1>1. NoLocals \in LocalType
  BY Zenon DEF NoLocals, LocalType, NoWatch
<1>2. /\ epc[a] \in EpPC /\ eloc[a] \in LocalType
      /\ counter \in 0 .. EvMax /\ epq \in Seq(EpWaiter) /\ epasleep \subseteq EpWaiter
      /\ watching \in 0 .. Len(watch) /\ subscribed = watching
      /\ source \in [ready : SUBSET {"in", "out"}, gen : Nat, pub : Nat]
  BY Zenon DEF CoreInv, EpTypes
<1>3. ActorInv(a) /\ GenInv
  BY Zenon DEF CoreInv
<1> QED BY <1>1, <1>2, <1>3, Zenon DEF ActorInv, GenInv

\* A task whose operation is over, without having been the one that carried
\* the watch to its report.
LEMMA OverStep ==
    ASSUME CoreInv, NEW a \in Actor, NEW p \in {"user", "collect"}, Moves(a, p, NoLocals),
           p = "collect" => a \in EpWaiter,
           counter' \in 0 .. EvMax, epq' \in Seq(EpWaiter), epasleep' \subseteq EpWaiter,
           UNCHANGED <<watch, watching, subscribed, eready, raced>>, ~Owner(a),
           source' \in [ready : SUBSET {"in", "out"}, gen : Nat, pub : Nat],
           source'.gen = source.gen, source'.ready = source.ready,
           Live /\ Carries(a) => eready # <<>> \/ \E b \in Actor : b # a /\ Carries(b)
    PROVE  CoreInv'
<1>1. NoLocals \in LocalType /\ NoLocals.on = 0 /\ p \in EpPC /\ NoLocals.on \in 0 .. Len(watch)
  BY AtTask, AtHand DEF NoLocals, NoWatch, EpPC, WaitOff
<1>2. ~OwnerAt(p, NoLocals)
  BY Zenon DEF OwnerAt
<1>3. p \notin AnyOn \cup CtlOn \cup WaitOn \cup {"enable", "deliver", "notice"}
  BY Zenon DEF AnyOn, CtlOn, WaitOn
<1>4. p \in WaitOn \cup WaitOff => a \in EpWaiter
  BY Zenon DEF WaitOff, WaitOn
<1>5. p \notin CtlOn /\ p \notin Closing
  BY <1>3, Zenon DEF Closing
<1> QED BY <1>1, <1>2, <1>3, <1>4, <1>5, LocalStep, Zenon

\* An eventfd write or read only draws a version.
LEMMA EventfdCore ==
    ASSUME CoreInv, NEW a \in EvTask, NEW n \in 0 .. EvMax, nextver \in Nat, Eventfd(a, n)
    PROVE  CoreInv'
<1>1. a \in Actor /\ epc[a] = "user"
  BY Zenon DEF Actor, Eventfd
<1>2. eloc[a] \in LocalType /\ eloc[a].on = 0
  BY <1>1, AtTask, Zenon DEF AnyOn, CtlOn, WaitOn
<1>3. PICK l : l = [eloc[a] EXCEPT !.ready = Readiness(n), !.ver = nextver]
  BY Zenon
<1>4. l \in LocalType /\ l.on = 0
  BY <1>2, <1>3, Zenon DEF LocalType, Readiness
<1>5. Moves(a, "publish", l) /\ counter' \in 0 .. EvMax /\ UNCHANGED <<epq, epasleep>>
      /\ UNCHANGED <<source, watch, watching, subscribed, eready, raced>>
  BY <1>1, <1>3, Zenon DEF Eventfd, EpGoto, Moves, CoreInv, EpTypes
<1>6. ~Owner(a) /\ ~OwnerAt("publish", l) /\ ~Carries(a)
  BY <1>1, Zenon DEF Owner, OwnerAt, Carries, CarriesAt
<1>7. "publish" \in EpPC /\ "publish" \notin AnyOn \cup CtlOn \cup WaitOn \cup WaitOff \cup Closing
  BY Zenon DEF Closing, EpPC, EvOff, AnyOn, CtlOn, WaitOn, WaitOff
<1>8. 0 \in 0 .. Len(watch)
  BY AtHand
<1> QED BY <1>1, <1>4, <1>5, <1>6, <1>7, <1>8, AtTask, LocalStep, Zenon

\* A delivery takes the subscribed watch at hand.
LEMMA DeliverCore ==
    ASSUME CoreInv, NEW a \in EvTask, Deliver(a)
    PROVE  CoreInv'
<1>1. a \in Actor /\ epc[a] = "deliver" /\ a # Controller
  BY EpollAssumption, Zenon DEF Actor, Deliver
<1>2. /\ eloc[a] \in LocalType /\ eloc[a].on = 0 /\ subscribed = watching /\ watching \in 0 .. Len(watch)
      /\ eloc[a].ver <= source.gen /\ (eloc[a].ver = source.gen => eloc[a].ready = source.ready)
  BY <1>1, AtTask, Zenon DEF AnyOn, CtlOn, WaitOn
<1>3. ~Owner(a)
  BY <1>1, Zenon DEF Owner, OwnerAt
<1>4. UNCHANGED <<counter, epq, epasleep, source, watch, watching, subscribed, eready, raced>>
  BY Zenon DEF Deliver
<1>5. CASE subscribed = NoWatch
  <2>1. Moves(a, "user", NoLocals)
    BY <1>5, Zenon DEF Deliver, Over, EpGoto, Moves
  <2>2. ~Live
    BY <1>2, <1>5, Zenon DEF Live
  <2> QED BY <1>1, <1>3, <1>4, <2>1, <2>2, AtTask, OverStep, Zenon
<1>6. CASE subscribed # NoWatch
  <2>1. PICK l : l = [eloc[a] EXCEPT !.on = subscribed]
    BY Zenon
  <2>2. l \in LocalType /\ l.on = watching /\ l.ver = eloc[a].ver /\ l.ready = eloc[a].ready /\ l.on # 0
    BY <1>2, <1>6, <2>1 DEF LocalType, NoWatch
  <2>3. Moves(a, "notice", l)
    BY <1>1, <1>6, <2>1, Zenon DEF Deliver, EpGoto, Moves, CoreInv, EpTypes
  <2>4. ~OwnerAt("notice", l) /\ (Carries(a) => CarriesAt("notice", l))
    BY <1>1, <2>2, Zenon DEF OwnerAt, Carries, CarriesAt
  <2>5. "notice" \in EpPC /\ "notice" \in AnyOn /\ "notice" \notin CtlOn /\ "notice" \notin WaitOn \cup WaitOff \cup Closing
    BY Zenon DEF Closing, EpPC, AnyOn, CtlOn, WaitOn, WaitOff
  <2> QED BY <1>1, <1>2, <1>3, <1>4, <2>2, <2>3, <2>4, <2>5, AtTask, LocalStep, Zenon
<1> QED BY <1>5, <1>6, Zenon

\* The snapshot of ADD and MOD is a delivery of the newest generation.
LEMMA SnapshotCore ==
    ASSUME CoreInv, Snapshot(Controller)
    PROVE  CoreInv'
<1> DEFINE a == Controller
<1>1. a \in Actor /\ epc[a] = "snapshot"
  BY Zenon DEF Actor, Snapshot
<1>2. eloc[a] \in LocalType /\ eloc[a].on = watching /\ eloc[a].on # 0 /\ watching \in 0 .. Len(watch)
  BY <1>1, AtTask, Zenon DEF AnyOn, CtlOn, WaitOn
<1>3. ~Owner(a)
  BY <1>1, Zenon DEF Owner, OwnerAt
<1>4. UNCHANGED <<counter, epq, epasleep, source, watch, watching, subscribed, eready, raced>>
  BY Zenon DEF Snapshot
<1>5. PICK l : l = [eloc[a] EXCEPT !.ready = source.ready, !.ver = source.gen]
  BY Zenon
<1>6. l \in LocalType /\ l.on = watching /\ l.ver = source.gen /\ l.ready = source.ready /\ source.gen \in Nat
  BY <1>2, <1>5, AtHand, Zenon DEF LocalType
<1>7. Moves(a, "notice", l)
  BY <1>1, <1>5, Zenon DEF Snapshot, EpGoto, Moves, CoreInv, EpTypes
<1>8. ~OwnerAt("notice", l) /\ (Carries(a) => CarriesAt("notice", l))
  BY <1>1, <1>6, Zenon DEF OwnerAt, Carries, CarriesAt
<1>9. "notice" \in EpPC /\ "notice" \in AnyOn /\ "notice" \notin CtlOn /\ "notice" \notin WaitOn \cup WaitOff \cup Closing
  BY Zenon DEF Closing, EpPC, AnyOn, CtlOn, WaitOn, WaitOff
<1> HIDE DEF a
<1> QED BY <1>1, <1>2, <1>3, <1>4, <1>6, <1>7, <1>8, <1>9, AtTask, LocalStep

\* A skipped watch needs no report; a reported one goes on to its rearm.
LEMMA ReportCore ==
    ASSUME CoreInv, NEW a \in EpWaiter, Report(a)
    PROVE  CoreInv'
<1>1. a \in Actor /\ epc[a] = "report" /\ a # Controller
  BY EpollAssumption, Zenon DEF Actor, Report
<1>2. eloc[a] \in LocalType /\ eloc[a].on # 0 /\ eloc[a].on \in 0 .. Len(watch) /\ eloc[a].on \in DOMAIN watch
  BY <1>1, AtTask, AtHand, Zenon DEF AnyOn, CtlOn, WaitOn
<1>3. ~Owner(a)
  BY <1>1, Zenon DEF Owner, OwnerAt
<1>4. UNCHANGED <<counter, epq, epasleep, source, watch, watching, subscribed, eready, raced>>
  BY Zenon DEF Report
<1>5. CASE watch[eloc[a].on].disabled \/ eloc[a].gen # watch[eloc[a].on].gen \/ "in" \notin source.ready
  <2>1. Moves(a, "collect", NoLocals)
    BY <1>5, Zenon DEF Report, EpGoto, Moves
  <2>2. ~(Live /\ Carries(a))
    BY <1>1, <1>5, Zenon DEF Live, Carries, CarriesAt
  <2> QED BY <1>1, <1>3, <1>4, <2>1, <2>2, AtTask, OverStep, Zenon
<1>6. CASE ~(watch[eloc[a].on].disabled \/ eloc[a].gen # watch[eloc[a].on].gen \/ "in" \notin source.ready)
  <2>1. PICK l : l = eloc[a]
    BY Zenon
  <2>2. Moves(a, "rearm", l)
    BY <1>1, <1>6, <2>1, Zenon DEF Report, EpGoto, Moves, CoreInv, EpTypes
  <2>3. ~OwnerAt("rearm", l) /\ (Carries(a) => CarriesAt("rearm", l))
    BY <1>1, <2>1, Zenon DEF OwnerAt, Carries, CarriesAt
  <2>5. "rearm" \in EpPC /\ "rearm" \in WaitOn /\ "rearm" \notin CtlOn \cup Closing
    BY Zenon DEF Closing, EpPC, AnyOn, CtlOn, WaitOn, WaitOff
  <2> QED BY <1>1, <1>2, <1>3, <1>4, <2>1, <2>2, <2>3, <2>5, AtTask, LocalStep, Zenon
<1> QED BY <1>5, <1>6, Zenon

\* The steps of the wait: no task of them has a watch at hand.
LEMMA WaitCore ==
    ASSUME CoreInv, NEW a \in Actor, NEW p \in {"user"} \cup WaitOff, Moves(a, p, NoLocals) \/ Moves(a, p, eloc[a]),
           p \in WaitOff => a \in EpWaiter, epc[a] \in {"user", "wake"} \cup WaitOff,
           epq' \in Seq(EpWaiter), epasleep' \subseteq EpWaiter,
           UNCHANGED <<counter, source, watch, watching, subscribed, eready, raced>>
    PROVE  CoreInv'
<1>1. eloc[a].on = 0 /\ eloc[a] \in LocalType /\ NoLocals \in LocalType /\ NoLocals.on = 0
  BY AtTask, Zenon DEF AnyOn, CtlOn, WaitOn, WaitOff, NoLocals, NoWatch
<1>2. PICK l : l \in {NoLocals, eloc[a]} /\ Moves(a, p, l)
  BY Zenon
<1>3. l \in LocalType /\ l.on = 0 /\ 0 \in 0 .. Len(watch)
  BY <1>1, <1>2, AtHand
<1>4. ~Owner(a) /\ ~Carries(a)
  BY Zenon DEF Owner, OwnerAt, Carries, CarriesAt, WaitOff
<1>5. /\ p \in EpPC /\ p \notin AnyOn \cup CtlOn \cup WaitOn /\ p \notin {"enable", "deliver", "notice"} \cup Closing
      /\ ~OwnerAt(p, l)
  BY Zenon DEF Closing, EpPC, AnyOn, CtlOn, WaitOn, WaitOff, OwnerAt
<1>6. p \in WaitOn \cup WaitOff => a \in EpWaiter
  BY <1>5, Zenon
<1> QED BY <1>2, <1>3, <1>4, <1>5, <1>6, AtTask, LocalStep, Zenon

\* One watch changes, the others stay.
LEMMA SetWatch ==
    ASSUME CoreInv, NEW w \in DOMAIN watch, NEW x \in WatchType, watch' = [watch EXCEPT ![w] = x]
    PROVE  /\ watch' \in Seq(WatchType) /\ Len(watch') = Len(watch) /\ DOMAIN watch' = DOMAIN watch
           /\ watch'[w] = x /\ \A v \in DOMAIN watch : v # w => watch'[v] = watch[v]
  BY DEF CoreInv, EpTypes

\* A step of a that changes the watch w: what does not depend on the flags.
LEMMA WatchStep ==
    ASSUME CoreInv, NEW a \in Actor, NEW p \in EpPC, NEW l \in LocalType, Moves(a, p, l),
           NEW w \in DOMAIN watch, NEW x \in WatchType, watch' = [watch EXCEPT ![w] = x],
           UNCHANGED <<counter, source, watching, subscribed, epq, epasleep>>,
           raced' \subseteq DOMAIN watch, eready' \in Seq(Nat), Range(eready') \subseteq Range(eready) \cup ({watching} \ {NoWatch}),
           x.sgen <= source.gen, w # watching => x.disabled = TRUE,
           p \in Closing => w = watching /\ x.disabled = TRUE,
           epc[Controller] \in Closing /\ a # Controller /\ w = watching => x.disabled = TRUE,
           l.on \in 0 .. Len(watch),
           l.on # 0 <=> p \in AnyOn \cup CtlOn \cup WaitOn,
           p \in CtlOn => a = Controller,
           p \in WaitOn \cup WaitOff => a \in EpWaiter,
           a = Controller /\ l.on # 0 => l.on = watching,
           p \notin {"deliver", "notice"}
    PROVE  EpTypes' /\ (\A b \in Actor : ActorInv(b)') /\ WatchInv' /\ GenInv'
<1>1. /\ epc' \in [Actor -> EpPC] /\ eloc' \in [Actor -> LocalType]
      /\ epc'[a] = p /\ eloc'[a] = l
      /\ \A b \in Actor : b # a => epc'[b] = epc[b] /\ eloc'[b] = eloc[b]
  BY MovesOne, Zenon DEF CoreInv
<1>2. /\ watch' \in Seq(WatchType) /\ Len(watch') = Len(watch) /\ DOMAIN watch' = DOMAIN watch
      /\ watch'[w] = x /\ \A v \in DOMAIN watch : v # w => watch'[v] = watch[v]
  BY SetWatch, Zenon
<1>3. EpTypes'
  BY <1>1, <1>2, Zenon DEF CoreInv, EpTypes
<1>4. ASSUME NEW b \in Actor PROVE ActorInv(b)'
  <2>1. CASE b = a
    BY <1>1, <1>2, <2>1, Zenon DEF ActorInv
  <2>2. CASE b # a
    BY <1>1, <1>2, <2>2 DEF CoreInv, ActorInv
  <2> QED BY <2>1, <2>2, Zenon
<1>5. WatchInv'
  <2>1. Controller \in Actor
    BY Zenon DEF Actor
  <2>2. \A v \in DOMAIN watch' : v # watching' => watch'[v].disabled = TRUE
    BY <1>2, Zenon DEF CoreInv, WatchInv
  <2>3. Range(eready') \subseteq {watching'} \ {NoWatch}
    BY Zenon DEF CoreInv, WatchInv
  <2>4. ASSUME epc'[Controller] \in Closing PROVE watch'[watching'].disabled = TRUE
    <3>1. CASE a = Controller
      BY <1>1, <1>2, <2>4, <3>1, Zenon
    <3>2. CASE a # Controller
      <4>1. epc[Controller] \in Closing
        BY <1>1, <2>1, <2>4, <3>2, Zenon
      <4>2. eloc[Controller].on # 0 /\ eloc[Controller].on = watching
        BY <2>1, <4>1, AtTask, Zenon DEF Closing, CtlOn
      <4>3. watching \in DOMAIN watch
        BY <2>1, <4>1, <4>2, AtHand, Zenon DEF Closing, CtlOn
      <4>4. watch[watching].disabled = TRUE
        BY <4>1, Zenon DEF CoreInv, WatchInv
      <4>5. CASE w = watching
        BY <1>2, <3>2, <4>1, <4>5, Zenon
      <4>6. CASE w # watching
        BY <1>2, <4>3, <4>4, <4>6, Zenon
      <4> QED BY <4>5, <4>6, Zenon
    <3> QED BY <3>1, <3>2, Zenon
  <2> QED BY <2>2, <2>3, <2>4, Zenon DEF WatchInv
<1>6. GenInv'
  <2>1. \A v \in DOMAIN watch' : watch'[v].sgen <= source'.gen
    BY <1>2, Zenon DEF CoreInv, GenInv
  <2>2. \A b \in Actor : epc'[b] \in {"deliver", "notice"} => b # a
    BY <1>1, Zenon
  <2>3. \A b \in Actor : epc'[b] \in {"deliver", "notice"} =>
           /\ eloc'[b].ver <= source'.gen
           /\ eloc'[b].ver = source'.gen => eloc'[b].ready = source'.ready
    BY <1>1, <2>2 DEF CoreInv, GenInv
  <2> QED BY <2>1, <2>3, Zenon DEF GenInv
<1> QED BY <1>3, <1>4, <1>5, <1>6, Zenon

\* A late step on a watch that EPOLL_CTL_DEL has removed touches nothing that
\* the watch of today depends on.
LEMMA StaleStep ==
    ASSUME CoreInv, NEW a \in Actor, NEW p \in EpPC, NEW l \in LocalType, Moves(a, p, l),
           NEW w \in DOMAIN watch, NEW x \in WatchType, watch' = [watch EXCEPT ![w] = x],
           UNCHANGED <<source, watching, eready, raced>>, w # watching,
           eloc[a].on = w, epc[a] # "deliver", l.on \in {0, w}, p \notin Closing
    PROVE  FlagInv' /\ CarriedInv'
<1>1. /\ epc'[a] = p /\ eloc'[a] = l
      /\ \A b \in Actor : b # a => epc'[b] = epc[b] /\ eloc'[b] = eloc[b]
  BY MovesOne DEF CoreInv
<1>2. \A v \in DOMAIN watch : v # w => watch'[v] = watch[v]
  BY SetWatch, Zenon
<1> SUFFICES ASSUME watching # 0 PROVE FlagInv' /\ CarriedInv'
  BY Zenon DEF FlagInv, CarriedInv, Live, NoWatch
<1>3. watching \in DOMAIN watch /\ watch'[watching] = watch[watching]
  BY <1>2, AtHand, Zenon
<1>4. ~Owner(a) /\ ~Owner(a)' /\ ~Carries(a)
  BY <1>1, Zenon DEF Owner, OwnerAt, Carries, CarriesAt
<1>6. \A b \in Actor : Owner(b)' <=> Owner(b)
  BY <1>1, <1>4, Zenon DEF Owner, OwnerAt
<1>7. OneOwner => OneOwner'
  BY <1>6, Zenon DEF OneOwner
<1>8. ASSUME NEW v, FlagSet(v) PROVE FlagSet(v)'
  BY <1>6, <1>8, Zenon DEF FlagSet
<1>9. ASSUME NEW v, FlagGen(v) PROVE FlagGen(v)'
  <2>1. \A b \in Actor : Owner(b) => epc'[b] = epc[b] /\ eloc'[b] = eloc[b]
    BY <1>1, <1>4, Zenon
  <2>2. Controller \in Actor /\ (epc'[Controller] = "enable" => epc[Controller] = "enable")
    BY <1>1, Zenon DEF Actor, Closing
  <2> QED BY <1>6, <1>9, <2>1, <2>2, Zenon DEF FlagGen
<1>10. FlagInv'
  <2>1. PICK v : v = watch[watching]
    BY Zenon
  <2> QED BY <1>3, <1>7, <1>8, <1>9, <2>1, Zenon DEF CoreInv, FlagInv
<1>11. CarriedInv'
  <2>1. \A b \in Actor : Carries(b) => Carries(b)'
    BY <1>1, <1>3, <1>4, Zenon DEF Carries, CarriesAt
  <2>3. Live' <=> Live
    BY <1>3, Zenon DEF Live
  <2> QED BY <2>1, <2>3, Zenon DEF CoreInv, CarriedInv
<1> QED BY <1>10, <1>11, Zenon

\* readiness_changed: a dropped delivery is of a disabled watch or of a
\* generation the watch has seen.
LEMMA NoticeCore ==
    ASSUME CoreInv, NEW a \in Actor, Notice(a)
    PROVE  CoreInv'
<1> DEFINE w == eloc[a].on
<1>1. epc[a] = "notice"
  BY Zenon DEF Notice
<1>2. /\ eloc[a] \in LocalType /\ w # 0 /\ w \in 0 .. Len(watch) /\ w \in DOMAIN watch
      /\ eloc[a].ver <= source.gen /\ (eloc[a].ver = source.gen => eloc[a].ready = source.ready)
      /\ a = Controller => w = watching
  BY <1>1, AtTask, AtHand, Zenon DEF AnyOn, CtlOn, WaitOn
<1>3. ~Owner(a)
  BY <1>1, Zenon DEF Owner, OwnerAt
<1>4. UNCHANGED <<counter, epq, epasleep, source, watching, subscribed, eready, raced>>
  BY Zenon DEF Notice
<1>5. CASE watch[w].disabled \/ eloc[a].ver <= watch[w].sgen
  <2>1. Moves(a, "user", NoLocals) /\ UNCHANGED watch
    BY <1>5, Zenon DEF Notice, Over, EpGoto, Moves
  <2>2. watch[w].sgen \in Nat
    BY <1>2, AtHand, Zenon DEF WatchType
  <2>3. ~(Live /\ Carries(a))
    BY <1>1, <1>2, <1>5, <2>2, AtHand DEF Live, Carries, CarriesAt
  <2> QED BY <1>1, <1>3, <1>4, <2>1, <2>3, AtTask, OverStep, Zenon
<1>6. CASE ~(watch[w].disabled \/ eloc[a].ver <= watch[w].sgen)
  <2>1. PICK l, x, o : /\ l = [eloc[a] EXCEPT !.ready = @ \cap {"in"}, !.ver = 0, !.gen = watch[w].gen]
                    /\ x = [watch[w] EXCEPT !.sgen = eloc[a].ver] /\ o = watch[w]
    BY Zenon
  <2>2. o \in WatchType /\ eloc[a].ver \in Nat
    BY <1>2, <2>1, AtHand, Zenon DEF LocalType
  <2>3. l \in LocalType /\ l.on = w /\ l.ready = eloc[a].ready \cap {"in"} /\ l.gen = o.gen
    BY <1>2, <2>1, <2>2, Zenon DEF LocalType, WatchType
  <2>4. x \in WatchType /\ x.sgen = eloc[a].ver /\ x.gen = o.gen /\ x.qgen = o.qgen
    BY <2>1, <2>2, Zenon DEF WatchType
  <2>5. x.disabled = o.disabled /\ x.queued = o.queued
    BY <2>1, <2>2, Zenon DEF WatchType
  <2>6. o.disabled = FALSE
    BY <1>6, <2>1, <2>2, Zenon DEF WatchType
  <2>7. Moves(a, "enqueue", l)
    BY <1>1, <1>6, <2>1, Zenon DEF Notice, EpGoto, Moves, CoreInv, EpTypes
  <2>8. watch' = [watch EXCEPT ![w] = x]
    BY <1>2, <1>6, <2>1, Zenon DEF Notice
  <2>9. w = watching
    BY <1>2, <2>1, <2>6, Zenon DEF CoreInv, WatchInv
  <2>10. "enqueue" \in EpPC /\ "enqueue" \in AnyOn /\ "enqueue" \notin CtlOn \cup WaitOn \cup WaitOff \cup Closing
    BY Zenon DEF EpPC, AnyOn, CtlOn, WaitOn, WaitOff, Closing
  <2>11. epc[Controller] \notin Closing
    BY <2>1, <2>6, <2>9, Zenon DEF CoreInv, WatchInv
  <2>12. raced \subseteq DOMAIN watch /\ eready \in Seq(Nat)
    BY Zenon DEF CoreInv, EpTypes
  <2>13. EpTypes' /\ (\A b \in Actor : ActorInv(b)') /\ WatchInv' /\ GenInv'
    BY <1>2, <1>4, <2>3, <2>4, <2>7, <2>8, <2>9, <2>10, <2>11, <2>12, WatchStep, ZenonT(60)
  <2>14. /\ epc'[a] = "enqueue" /\ eloc'[a] = l
         /\ \A b \in Actor : b # a => epc'[b] = epc[b] /\ eloc'[b] = eloc[b]
    BY <2>3, <2>7, <2>10, MovesOne DEF CoreInv
  <2>15. watch'[watching'] = x
    BY <1>2, <1>4, <2>4, <2>8, <2>9, SetWatch, Zenon
  <2>16. \A b \in Actor : Owner(b)' <=> Owner(b)
    BY <1>3, <1>4, <2>14, Zenon DEF Owner, OwnerAt
  <2>17. FlagInv'
    <3>1. OneOwner => OneOwner'
      BY <1>4, <2>16, Zenon DEF OneOwner
    <3>2. FlagSet(o) => FlagSet(x)'
      BY <1>4, <2>5, <2>16, Zenon DEF FlagSet
    <3>3. FlagGen(o) => FlagGen(x)'
      <4>1. \A b \in Actor : Owner(b) => epc'[b] = epc[b] /\ eloc'[b] = eloc[b]
        BY <1>3, <2>14, Zenon
      <4>2. Controller \in Actor /\ epc'[Controller] # "enable"
        BY <2>11, <2>14, Zenon DEF Actor, Closing
      <4> QED BY <2>4, <2>5, <2>16, <4>1, <4>2 DEF FlagGen
    <3> QED BY <1>4, <2>1, <2>9, <2>15, <3>1, <3>2, <3>3, Zenon DEF CoreInv, FlagInv
  <2>18. CarriedInv'
    <3>1. SUFFICES ASSUME Live' PROVE eready' # <<>> \/ \E b \in Actor : Carries(b)'
      BY Zenon DEF CarriedInv
    <3>2. Live
      BY <1>4, <2>1, <2>5, <2>9, <2>15, <3>1, Zenon DEF Live
    <3>3. CASE eloc[a].ver = source.gen
      <4>1. "in" \in l.ready
        BY <1>2, <2>3, <3>2, <3>3, Zenon DEF Live
      <4>2. Carries(a)'
        BY <1>4, <2>3, <2>4, <2>9, <2>14, <2>15, <4>1, Zenon DEF Carries, CarriesAt
      <4> QED BY <4>2, Zenon
    <3>4. CASE eloc[a].ver # source.gen
      <4>1. ~Carries(a)
        BY <1>1, <3>4, Zenon DEF Carries, CarriesAt
      <4>2. x.sgen < source.gen
        BY <1>2, <2>2, <2>4, <3>4, AtHand
      <4>3. \A b \in Actor : Carries(b) => Carries(b)'
        BY <1>4, <2>1, <2>4, <2>9, <2>14, <2>15, <4>1, <4>2 DEF Carries, CarriesAt
      <4> QED BY <1>4, <3>2, <4>3, Zenon DEF CoreInv, CarriedInv
    <3> QED BY <3>3, <3>4, Zenon
  <2> QED BY <2>13, <2>17, <2>18, Zenon DEF CoreInv
<1> QED BY <1>5, <1>6, Zenon

\* enqueue: whoever loses the compare-exchange leaves the watch to the winner.
LEMMA EnqueueCore ==
    ASSUME CoreInv, NEW a \in Actor, Enqueue(a)
    PROVE  CoreInv'
<1> DEFINE w == eloc[a].on
<1>1. epc[a] = "enqueue"
  BY Zenon DEF Enqueue
<1>2. /\ eloc[a] \in LocalType /\ w # 0 /\ w \in 0 .. Len(watch) /\ w \in DOMAIN watch
      /\ a = Controller => w = watching
  BY <1>1, AtTask, AtHand, Zenon DEF AnyOn, CtlOn, WaitOn
<1>3. ~Owner(a)
  BY <1>1, Zenon DEF Owner, OwnerAt
<1>4. UNCHANGED <<counter, epq, epasleep, source, watching, subscribed, eready, raced>>
  BY Zenon DEF Enqueue
<1>0. PICK o : o = watch[w] /\ o \in WatchType
  BY <1>2, AtHand, Zenon
<1>5. CASE eloc[a].ready = {} \/ watch[w].disabled \/ watch[w].gen # eloc[a].gen \/ watch[w].queued
  <2>1. Moves(a, "user", NoLocals) /\ UNCHANGED watch
    BY <1>5, Zenon DEF Enqueue, Over, EpGoto, Moves
  <2>2. ASSUME Live, Carries(a) PROVE eready # <<>> \/ \E b \in Actor : b # a /\ Carries(b)
    <3>1. w = watching /\ "in" \in eloc[a].ready /\ eloc[a].gen = o.gen
      BY <1>0, <1>1, <2>2, Zenon DEF Carries, CarriesAt
    <3>2. o.disabled = FALSE /\ watching # NoWatch /\ watching \notin raced
      BY <1>0, <2>2, <3>1, Zenon DEF Live
    <3>3. o.queued = TRUE
      BY <1>0, <1>5, <3>1, <3>2, Zenon DEF WatchType
    <3>4. FlagSet(o) /\ FlagGen(o)
      BY <1>0, <3>1, <3>2, Zenon DEF CoreInv, FlagInv
    <3>5. eready # <<>> \/ \E b \in Actor : Owner(b)
      BY <3>3, <3>4, Zenon DEF FlagSet
    <3>6. ASSUME NEW b \in Actor, Owner(b) PROVE b # a /\ Carries(b)
      <4>1. b # a
        BY <1>3, <3>6, Zenon
      <4>2. epc[b] \in {"push", "popped"} /\ eloc[b].on = watching
        BY <3>2, <3>4, <3>6, Zenon DEF FlagGen, Owner, OwnerAt
      <4> QED BY <4>1, <4>2, Zenon DEF Carries, CarriesAt
    <3> QED BY <3>5, <3>6, Zenon
  <2> QED BY <1>3, <1>4, <2>1, <2>2, AtTask, OverStep, Zenon
<1>6. CASE ~(eloc[a].ready = {} \/ watch[w].disabled \/ watch[w].gen # eloc[a].gen \/ watch[w].queued)
  <2>1. PICK l, x : /\ l = [eloc[a] EXCEPT !.ready = {}]
                    /\ x = [watch[w] EXCEPT !.queued = TRUE, !.qgen = eloc[a].gen]
    BY Zenon
  <2>2. o.disabled = FALSE /\ o.queued = FALSE /\ o.gen = eloc[a].gen
    BY <1>0, <1>6, Zenon DEF WatchType
  <2>3. l \in LocalType /\ l.on = w /\ l.gen = eloc[a].gen /\ eloc[a].gen \in Nat
    BY <1>2, <2>1, Zenon DEF LocalType
  <2>4. x \in WatchType /\ x.sgen = o.sgen /\ x.gen = o.gen /\ x.qgen = eloc[a].gen
    BY <1>0, <2>1, <2>3, Zenon DEF WatchType
  <2>5. x.disabled = FALSE /\ x.queued = TRUE
    BY <1>0, <2>1, <2>2, Zenon DEF WatchType
  <2>7. Moves(a, "push", l)
    BY <1>1, <1>6, <2>1, Zenon DEF Enqueue, EpGoto, Moves, CoreInv, EpTypes
  <2>8. watch' = [watch EXCEPT ![w] = x]
    BY <1>2, <1>6, <2>1, Zenon DEF Enqueue
  <2>9. w = watching
    BY <1>0, <1>2, <2>2, Zenon DEF CoreInv, WatchInv
  <2>10. "push" \in EpPC /\ "push" \in AnyOn /\ "push" \notin CtlOn \cup WaitOn \cup WaitOff \cup Closing
    BY Zenon DEF EpPC, AnyOn, CtlOn, WaitOn, WaitOff, Closing
  <2>11. epc[Controller] \notin Closing
    BY <1>0, <2>2, <2>9, Zenon DEF CoreInv, WatchInv
  <2>12. raced \subseteq DOMAIN watch /\ eready \in Seq(Nat) /\ o.sgen <= source.gen
    BY <1>0, <1>2, Zenon DEF CoreInv, EpTypes, GenInv
  <2>13. EpTypes' /\ (\A b \in Actor : ActorInv(b)') /\ WatchInv' /\ GenInv'
    BY <1>2, <1>4, <2>3, <2>4, <2>7, <2>8, <2>9, <2>10, <2>11, <2>12, WatchStep, Zenon
  <2>14. /\ epc'[a] = "push" /\ eloc'[a] = l
         /\ \A b \in Actor : b # a => epc'[b] = epc[b] /\ eloc'[b] = eloc[b]
    BY <2>3, <2>7, <2>10, MovesOne DEF CoreInv
  <2>15. watch'[watching'] = x
    BY <1>2, <1>4, <2>4, <2>8, <2>9, SetWatch, Zenon
  <2>16. \A b \in Actor : Owner(b)' <=> Owner(b) \/ b = a
    BY <1>4, <2>3, <2>9, <2>14, Zenon DEF Owner, OwnerAt
  <2>17. FlagInv'
    <3>1. SUFFICES ASSUME watching # NoWatch, watching \notin raced
                   PROVE  OneOwner' /\ FlagSet(x)' /\ FlagGen(x)'
      BY <1>4, <2>15, Zenon DEF FlagInv
    <3>2. OneOwner /\ FlagSet(o)
      BY <1>0, <2>9, <3>1, Zenon DEF CoreInv, FlagInv
    <3>3. eready = <<>> /\ \A b \in Actor : ~Owner(b)
      BY <2>2, <3>2, Zenon DEF FlagSet
    <3>4. eready' = <<>> /\ \A b \in Actor : Owner(b)' <=> b = a
      BY <1>4, <2>16, <3>3, Zenon
    <3>5. OneOwner' /\ FlagSet(x)'
      BY <2>5, <3>4 DEF OneOwner, FlagSet
    <3>6. Controller \in Actor /\ epc'[Controller] # "enable"
      BY <2>11, <2>14, Zenon DEF Actor, Closing
    <3>7. FlagGen(x)'
      BY <2>2, <2>3, <2>4, <2>5, <2>14, <3>4, <3>6, Zenon DEF FlagGen
    <3> QED BY <3>5, <3>7, Zenon
  <2>18. Carries(a)'
    BY <1>4, <2>3, <2>9, <2>14, Zenon DEF Carries, CarriesAt
  <2> QED BY <2>13, <2>17, <2>18, Zenon DEF CoreInv, CarriedInv
<1> QED BY <1>5, <1>6, Zenon

\* clear_queued: only a watch that was disabled meanwhile is given up.
LEMMA UnqueueCore ==
    ASSUME CoreInv, NEW a \in Actor, Unqueue(a)
    PROVE  CoreInv'
<1> DEFINE w == eloc[a].on
<1>1. epc[a] = "unqueue"
  BY Zenon DEF Unqueue
<1>2. /\ eloc[a] \in LocalType /\ w # 0 /\ w \in 0 .. Len(watch) /\ w \in DOMAIN watch
      /\ a = Controller => w = watching
  BY <1>1, AtTask, AtHand, Zenon DEF AnyOn, CtlOn, WaitOn
<1>4. UNCHANGED <<counter, epq, epasleep, source, watching, subscribed, eready, raced>>
  BY Zenon DEF Unqueue
<1>0. PICK o : o = watch[w] /\ o \in WatchType
  BY <1>2, AtHand, Zenon
<1>5. PICK x : x = IF o.qgen = eloc[a].gen THEN [o EXCEPT !.qgen = 0, !.queued = FALSE] ELSE o
  BY Zenon
<1>6. x \in WatchType /\ x.sgen = o.sgen /\ x.gen = o.gen
  BY <1>0, <1>5, Zenon DEF WatchType
<1>7. x.disabled = o.disabled /\ (o.qgen = eloc[a].gen => x.queued = FALSE)
  BY <1>0, <1>5, Zenon DEF WatchType
<1>8. watch' = [watch EXCEPT ![w] = x]
  <2>1. CASE o.qgen = eloc[a].gen
    BY <1>0, <1>2, <1>5, <2>1, Zenon DEF Unqueue
  <2>2. CASE o.qgen # eloc[a].gen
    <3>1. watch' = watch /\ x = watch[w]
      BY <1>0, <1>5, <2>2, Zenon DEF Unqueue
    <3>2. watch \in Seq(WatchType)
      BY Zenon DEF CoreInv, EpTypes
    <3> QED BY <1>2, <3>1, <3>2
  <2> QED BY <2>1, <2>2, Zenon
<1>9. Moves(a, "user", NoLocals) /\ NoLocals \in LocalType /\ NoLocals.on = 0
  BY AtTask, Zenon DEF Unqueue, Over, EpGoto, Moves, NoLocals, NoWatch
<1>10. "user" \in EpPC /\ "user" \notin AnyOn \cup CtlOn \cup WaitOn \cup WaitOff \cup Closing
  BY Zenon DEF EpPC, AnyOn, CtlOn, WaitOn, WaitOff, Closing
<1>11. w # watching => x.disabled = TRUE
  BY <1>0, <1>2, <1>7, Zenon DEF CoreInv, WatchInv
<1>12. epc[Controller] \in Closing /\ w = watching => x.disabled = TRUE
  BY <1>0, <1>7, Zenon DEF CoreInv, WatchInv
<1>13. raced \subseteq DOMAIN watch /\ eready \in Seq(Nat) /\ o.sgen <= source.gen /\ 0 \in 0 .. Len(watch)
  BY <1>0, <1>2, AtHand DEF CoreInv, EpTypes, GenInv
<1>14. EpTypes' /\ (\A b \in Actor : ActorInv(b)') /\ WatchInv' /\ GenInv'
  BY <1>2, <1>4, <1>6, <1>8, <1>9, <1>10, <1>11, <1>12, <1>13, WatchStep, ZenonT(60)
<1>15. CASE w # watching
  <2>1. FlagInv' /\ CarriedInv'
    BY <1>1, <1>2, <1>4, <1>6, <1>8, <1>9, <1>10, <1>15, StaleStep, Zenon
  <2> QED BY <1>14, <2>1, Zenon DEF CoreInv
<1>16. CASE w = watching
  <2>1. /\ epc'[a] = "user" /\ eloc'[a] = NoLocals
        /\ \A b \in Actor : b # a => epc'[b] = epc[b] /\ eloc'[b] = eloc[b]
    BY <1>9, <1>10, MovesOne, Zenon DEF CoreInv
  <2>2. watch'[watching'] = x
    BY <1>2, <1>4, <1>6, <1>8, <1>16, SetWatch, Zenon
  <2>3. Owner(a) /\ \A b \in Actor : Owner(b)' <=> Owner(b) /\ b # a
    BY <1>1, <1>4, <1>16, <2>1, Zenon DEF Owner, OwnerAt
  <2>4. CASE watching = NoWatch \/ watching \in raced
    BY <1>4, <1>14, <2>4, Zenon DEF CoreInv, FlagInv, CarriedInv, Live
  <2>5. CASE ~(watching = NoWatch \/ watching \in raced)
    <3>1. OneOwner /\ FlagSet(o) /\ FlagGen(o)
      BY <1>0, <1>16, <2>5, Zenon DEF CoreInv, FlagInv
    <3>2. eready' = <<>> /\ o.qgen = eloc[a].gen /\ o.disabled = TRUE
      BY <1>1, <1>4, <2>3, <3>1, Zenon DEF OneOwner, FlagGen
    <3>3. x.disabled = TRUE /\ x.queued = FALSE /\ \A b \in Actor : ~Owner(b)'
      BY <1>7, <2>3, <3>1, <3>2, Zenon DEF OneOwner
    <3>4. OneOwner' /\ FlagSet(x)'
      BY <3>2, <3>3 DEF OneOwner, FlagSet
    <3>5. Controller \in Actor /\ (epc'[Controller] = "enable" => epc[Controller] = "enable")
      BY <2>1, Zenon DEF Actor
    <3>6. FlagGen(x)'
      BY <1>6, <3>1, <3>3, <3>5, Zenon DEF FlagGen
    <3>7. FlagInv' /\ CarriedInv'
      BY <2>2, <3>3, <3>4, <3>6, Zenon DEF FlagInv, CarriedInv, Live
    <3> QED BY <1>14, <3>7, Zenon DEF CoreInv
  <2> QED BY <2>4, <2>5, Zenon
<1> QED BY <1>15, <1>16, Zenon

\* The collector that took the watch off the list clears its flag.
LEMMA PoppedCore ==
    ASSUME CoreInv, NEW a \in EpWaiter, Popped(a)
    PROVE  CoreInv'
<1> DEFINE w == eloc[a].on
<1>1. epc[a] = "popped" /\ a \in Actor /\ a # Controller
  BY EpollAssumption, Zenon DEF Popped, Actor
<1>2. eloc[a] \in LocalType /\ w # 0 /\ w \in 0 .. Len(watch) /\ w \in DOMAIN watch
  BY <1>1, AtTask, AtHand, Zenon DEF AnyOn, CtlOn, WaitOn
<1>4. UNCHANGED <<counter, epq, epasleep, source, watching, subscribed, eready, raced>>
  BY Zenon DEF Popped
<1>0. PICK o : o = watch[w] /\ o \in WatchType
  BY <1>2, AtHand, Zenon
<1>5. PICK x, l : x = [o EXCEPT !.qgen = 0, !.queued = FALSE] /\ l = [eloc[a] EXCEPT !.gen = o.qgen]
  BY Zenon
<1>6. x \in WatchType /\ x.sgen = o.sgen /\ x.gen = o.gen
  BY <1>0, <1>5, Zenon DEF WatchType
<1>7. x.disabled = o.disabled /\ x.queued = FALSE
  BY <1>0, <1>5, Zenon DEF WatchType
<1>8. watch' = [watch EXCEPT ![w] = x]
  BY <1>0, <1>2, <1>5, Zenon DEF Popped
<1>9. Moves(a, "report", l)
  BY <1>0, <1>5, Zenon DEF Popped, EpGoto, Moves, CoreInv, EpTypes
<1>9a. l \in LocalType /\ l.on = w /\ l.gen = o.qgen
  BY <1>0, <1>2, <1>5, Zenon DEF LocalType, WatchType
<1>10. "report" \in EpPC /\ "report" \in WaitOn /\ "report" \notin CtlOn \cup Closing
  BY Zenon DEF EpPC, AnyOn, CtlOn, WaitOn, WaitOff, Closing
<1>11. w # watching => x.disabled = TRUE
  BY <1>0, <1>2, <1>7, Zenon DEF CoreInv, WatchInv
<1>12. epc[Controller] \in Closing /\ w = watching => x.disabled = TRUE
  BY <1>0, <1>7, Zenon DEF CoreInv, WatchInv
<1>13. raced \subseteq DOMAIN watch /\ eready \in Seq(Nat) /\ o.sgen <= source.gen
  BY <1>0, <1>2, Zenon DEF CoreInv, EpTypes, GenInv
<1>14. EpTypes' /\ (\A b \in Actor : ActorInv(b)') /\ WatchInv' /\ GenInv'
  <2>1. x.sgen <= source.gen /\ Range(eready') \subseteq Range(eready) \cup ({watching} \ {NoWatch}) /\ raced' \subseteq DOMAIN watch /\ eready' \in Seq(Nat)
    BY <1>4, <1>6, <1>13, Zenon
  <2>2. l.on \in 0 .. Len(watch) /\ (l.on # 0 <=> "report" \in AnyOn \cup CtlOn \cup WaitOn)
    BY <1>2, <1>9a, <1>10, Zenon
  <2>3. UNCHANGED <<counter, source, watching, subscribed, epq, epasleep>>
    BY <1>4, Zenon
  <2> HIDE DEF w
  <2> QED BY <1>1, <1>2, <1>6, <1>8, <1>9, <1>9a, <1>10, <1>11, <1>12, <2>1, <2>2, <2>3, WatchStep, Zenon
<1>15. CASE w # watching
  <2>1. FlagInv' /\ CarriedInv'
    BY <1>1, <1>2, <1>4, <1>6, <1>8, <1>9, <1>9a, <1>10, <1>15, StaleStep, Zenon
  <2> QED BY <1>14, <2>1, Zenon DEF CoreInv
<1>16. CASE w = watching
  <2>1. /\ epc'[a] = "report" /\ eloc'[a] = l
        /\ \A b \in Actor : b # a => epc'[b] = epc[b] /\ eloc'[b] = eloc[b]
    BY <1>1, <1>9, <1>9a, <1>10, MovesOne, Zenon DEF CoreInv
  <2>2. watch'[watching'] = x
    BY <1>2, <1>4, <1>6, <1>8, <1>16, SetWatch, Zenon
  <2>3. Owner(a) /\ \A b \in Actor : Owner(b)' <=> Owner(b) /\ b # a
    BY <1>1, <1>4, <1>16, <2>1, Zenon DEF Owner, OwnerAt
  <2>4. CASE watching = NoWatch \/ watching \in raced
    BY <1>4, <1>14, <2>4, Zenon DEF CoreInv, FlagInv, CarriedInv, Live
  <2>5. CASE ~(watching = NoWatch \/ watching \in raced)
    <3>1. OneOwner /\ FlagSet(o) /\ FlagGen(o)
      BY <1>0, <1>16, <2>5, Zenon DEF CoreInv, FlagInv
    <3>2. eready' = <<>> /\ o.queued = TRUE
      BY <1>1, <1>4, <2>3, <3>1, Zenon DEF OneOwner, FlagSet
    <3>3. \A b \in Actor : ~Owner(b)'
      BY <1>1, <2>3, <3>1, Zenon DEF OneOwner
    <3>4. OneOwner' /\ FlagSet(x)'
      BY <1>7, <3>2, <3>3 DEF OneOwner, FlagSet
    <3>5. Controller \in Actor /\ (epc'[Controller] = "enable" => epc[Controller] = "enable")
      BY <1>1, <2>1, Zenon DEF Actor
    <3>6. FlagGen(x)'
      BY <1>6, <1>7, <3>1, <3>3, <3>5, Zenon DEF FlagGen
    <3>7. FlagInv'
      BY <2>2, <3>4, <3>6, Zenon DEF FlagInv
    <3>8. Live' => Carries(a)'
      <4>1. SUFFICES ASSUME Live' PROVE Carries(a)'
        BY Zenon
      <4>2. o.disabled = FALSE
        BY <1>7, <2>2, <4>1, Zenon DEF Live
      <4>3. l.gen = x.gen
        BY <1>6, <1>9a, <3>1, <3>2, <4>2, Zenon DEF FlagGen
      <4> QED BY <1>4, <1>9a, <1>16, <2>1, <2>2, <4>3, Zenon DEF Carries, CarriesAt
    <3> QED BY <1>1, <1>14, <3>7, <3>8, Zenon DEF CoreInv, CarriedInv
  <2> QED BY <2>4, <2>5, Zenon
<1> QED BY <1>15, <1>16, Zenon

\* A reported watch is disabled (EPOLLONESHOT) or enqueued again.
LEMMA RearmCore ==
    ASSUME CoreInv, NEW a \in EpWaiter, Rearm(a)
    PROVE  CoreInv'
<1> DEFINE w == eloc[a].on
<1>1. epc[a] = "rearm" /\ a \in Actor /\ a # Controller
  BY EpollAssumption, Zenon DEF Rearm, Actor
<1>2. eloc[a] \in LocalType /\ w # 0 /\ w \in 0 .. Len(watch) /\ w \in DOMAIN watch
  BY <1>1, AtTask, AtHand, Zenon DEF AnyOn, CtlOn, WaitOn
<1>3. ~Owner(a)
  BY <1>1, Zenon DEF Owner, OwnerAt
<1>4. UNCHANGED <<counter, epq, epasleep, source, watching, subscribed, eready, raced>>
  BY Zenon DEF Rearm
<1>0. PICK o : o = watch[w] /\ o \in WatchType
  BY <1>2, AtHand, Zenon
<1>5. CASE watch[w].oneshot
  <2>1. PICK x : x = [o EXCEPT !.disabled = TRUE]
    BY Zenon
  <2>2. x \in WatchType /\ x.sgen = o.sgen /\ x.gen = o.gen /\ x.qgen = o.qgen
    BY <1>0, <2>1, Zenon DEF WatchType
  <2>3. x.disabled = TRUE /\ x.queued = o.queued
    BY <1>0, <2>1, Zenon DEF WatchType
  <2>4. watch' = [watch EXCEPT ![w] = x]
    BY <1>0, <1>2, <1>5, <2>1, Zenon DEF Rearm
  <2>5. Moves(a, "user", NoLocals) /\ NoLocals \in LocalType /\ NoLocals.on = 0
    BY <1>1, <1>5, AtTask, Zenon DEF Rearm, Over, EpGoto, Moves, NoLocals, NoWatch
  <2>6. "user" \in EpPC /\ "user" \notin AnyOn \cup CtlOn \cup WaitOn \cup WaitOff \cup Closing
    BY Zenon DEF EpPC, AnyOn, CtlOn, WaitOn, WaitOff, Closing
  <2>7. raced \subseteq DOMAIN watch /\ eready \in Seq(Nat) /\ o.sgen <= source.gen /\ 0 \in 0 .. Len(watch)
    BY <1>0, <1>2, AtHand DEF CoreInv, EpTypes, GenInv
  <2>8. EpTypes' /\ (\A b \in Actor : ActorInv(b)') /\ WatchInv' /\ GenInv'
    BY <1>1, <1>2, <1>4, <2>2, <2>3, <2>4, <2>5, <2>6, <2>7, WatchStep, Zenon
  <2>9. CASE w # watching
    <3>1. FlagInv' /\ CarriedInv'
      BY <1>1, <1>2, <1>4, <2>2, <2>4, <2>5, <2>6, <2>9, StaleStep, Zenon
    <3> QED BY <2>8, <3>1, Zenon DEF CoreInv
  <2>10. CASE w = watching
    <3>1. /\ epc'[a] = "user" /\ eloc'[a] = NoLocals
          /\ \A b \in Actor : b # a => epc'[b] = epc[b] /\ eloc'[b] = eloc[b]
      BY <1>1, <2>5, <2>6, MovesOne, Zenon DEF CoreInv
    <3>2. watch'[watching'] = x
      BY <1>2, <1>4, <2>2, <2>4, <2>10, SetWatch, Zenon
    <3>3. \A b \in Actor : Owner(b)' <=> Owner(b)
      BY <1>3, <1>4, <3>1, Zenon DEF Owner, OwnerAt
    <3>4. OneOwner => OneOwner'
      BY <1>4, <3>3, Zenon DEF OneOwner
    <3>5. FlagSet(o) => FlagSet(x)'
      BY <1>4, <2>3, <3>3, Zenon DEF FlagSet
    <3>6. FlagGen(o) => FlagGen(x)'
      <4>1. \A b \in Actor : Owner(b) => epc'[b] = epc[b] /\ eloc'[b] = eloc[b]
        BY <1>3, <3>1, Zenon
      <4>2. Controller \in Actor /\ (epc'[Controller] = "enable" => epc[Controller] = "enable")
        BY <3>1, Zenon DEF Actor
      <4> QED BY <2>2, <2>3, <3>3, <4>1, <4>2, Zenon DEF FlagGen
    <3>7. FlagInv'
      BY <1>0, <1>4, <2>10, <3>2, <3>4, <3>5, <3>6, Zenon DEF CoreInv, FlagInv
    <3>8. CarriedInv'
      BY <2>3, <3>2, Zenon DEF CarriedInv, Live
    <3> QED BY <2>8, <3>7, <3>8, Zenon DEF CoreInv
  <2> QED BY <2>9, <2>10, Zenon
<1>6. CASE ~watch[w].oneshot
  <2>1. PICK l : l = [eloc[a] EXCEPT !.ready = source.ready \cap {"in"}, !.gen = o.gen]
    BY Zenon
  <2>2. l \in LocalType /\ l.on = w /\ l.ready = source.ready \cap {"in"} /\ l.gen = o.gen
    BY <1>0, <1>2, <2>1, Zenon DEF LocalType, WatchType
  <2>3. Moves(a, "enqueue", l) /\ UNCHANGED watch
    BY <1>0, <1>1, <1>6, <2>1, Zenon DEF Rearm, EpGoto, Moves, CoreInv, EpTypes
  <2>4. ~OwnerAt("enqueue", l)
    BY Zenon DEF OwnerAt
  <2>5. Live /\ Carries(a) => CarriesAt("enqueue", l)
    BY <1>0, <1>1, <2>2, Zenon DEF Live, Carries, CarriesAt
  <2>6. "enqueue" \in EpPC /\ "enqueue" \in AnyOn /\ "enqueue" \notin CtlOn \cup WaitOn \cup WaitOff \cup Closing
    BY Zenon DEF EpPC, AnyOn, CtlOn, WaitOn, WaitOff, Closing
  <2> QED BY <1>1, <1>2, <1>3, <1>4, <2>2, <2>3, <2>4, <2>5, <2>6, AtTask, LocalStep, Zenon
<1> QED BY <1>5, <1>6, Zenon

\* ADD and MOD enable the watch, and then deliver a snapshot to it.
LEMMA EnableCore ==
    ASSUME CoreInv, Enable(Controller)
    PROVE  CoreInv'
<1>0. PICK a : a = Controller
  BY Zenon
<1>1. epc[a] = "enable" /\ a \in Actor
  BY <1>0, Zenon DEF Enable, Actor
<1>2. eloc[a] \in LocalType /\ eloc[a].on = watching /\ watching # 0 /\ watching \in 0 .. Len(watch) /\ watching \in DOMAIN watch
  BY <1>0, <1>1, AtTask, AtHand, Zenon DEF AnyOn, CtlOn, WaitOn
<1>3. ~Owner(a)
  BY <1>1, Zenon DEF Owner, OwnerAt
<1>4. UNCHANGED <<counter, epq, epasleep, source, watching, subscribed, eready, raced>>
  BY Zenon DEF Enable
<1>5. PICK o, x, l : o = watch[watching] /\ x = [o EXCEPT !.disabled = FALSE] /\ l = eloc[a]
  BY Zenon
<1>6. o \in WatchType /\ x \in WatchType /\ x.sgen = o.sgen /\ x.gen = o.gen /\ x.qgen = o.qgen
  BY <1>2, <1>5, AtHand, Zenon DEF WatchType
<1>7. x.queued = o.queued
  BY <1>5, <1>6, Zenon DEF WatchType
<1>8. watch' = [watch EXCEPT ![watching] = x]
  BY <1>0, <1>2, <1>5, Zenon DEF Enable
<1>9. Moves(a, "snapshot", l)
  BY <1>0, <1>5, Zenon DEF Enable, EpGoto, Moves, CoreInv, EpTypes
<1>10. "snapshot" \in EpPC /\ "snapshot" \in CtlOn /\ "snapshot" \notin WaitOn \cup WaitOff \cup Closing
  BY Zenon DEF EpPC, AnyOn, CtlOn, WaitOn, WaitOff, Closing
<1>11. raced' \subseteq DOMAIN watch /\ eready' \in Seq(Nat) /\ x.sgen <= source.gen
  BY <1>2, <1>4, <1>5, <1>6, Zenon DEF CoreInv, EpTypes, GenInv
<1>12. EpTypes' /\ (\A b \in Actor : ActorInv(b)') /\ WatchInv' /\ GenInv'
  <2>1. l \in LocalType /\ l.on = watching /\ l.on # 0 /\ "snapshot" \notin {"deliver", "notice"}
    BY <1>2, <1>5, Zenon
  <2>2. PICK w : w = watching
    BY Zenon
  <2>3. Range(eready') \subseteq Range(eready) \cup ({watching} \ {NoWatch})
    BY <1>4, Zenon
  <2>4. w \in DOMAIN watch /\ watch' = [watch EXCEPT ![w] = x]
    BY <1>2, <1>8, <2>2, Zenon
  <2>5. PICK p : p = "snapshot"
    BY Zenon
  <2>6. p \in EpPC /\ p \in CtlOn /\ p \notin WaitOn \cup WaitOff \cup Closing \cup {"deliver", "notice"} /\ Moves(a, p, l)
    BY <1>9, <1>10, <2>5, Zenon
  <2>7. UNCHANGED <<counter, source, watching, subscribed, epq, epasleep>> /\ x \in WatchType
    BY <1>4, <1>6, Zenon
  <2>8. a \in Actor /\ l.on \in 0 .. Len(watch) /\ a = Controller
    BY <1>0, <1>1, <1>2, <2>1, Zenon
  <2>9. /\ l.on # 0 <=> p \in AnyOn \cup CtlOn \cup WaitOn
        /\ p \in CtlOn => a = Controller
        /\ p \in WaitOn \cup WaitOff => a \in EpWaiter
        /\ a = Controller /\ l.on # 0 => l.on = watching
        /\ p \notin {"deliver", "notice"}
    BY <2>1, <2>6, <2>8, Zenon
  <2>10. /\ w # watching => x.disabled = TRUE
         /\ p \in Closing => w = watching /\ x.disabled = TRUE
         /\ epc[Controller] \in Closing /\ a # Controller /\ w = watching => x.disabled = TRUE
    BY <2>2, <2>6, <2>8, Zenon
  <2> QED BY <1>11, <2>1, <2>3, <2>4, <2>6, <2>7, <2>8, <2>9, <2>10, WatchStep, Zenon
<1>13. /\ epc'[a] = "snapshot" /\ eloc'[a] = l
       /\ \A b \in Actor : b # a => epc'[b] = epc[b] /\ eloc'[b] = eloc[b]
  BY <1>1, <1>2, <1>5, <1>9, <1>10, MovesOne, Zenon DEF CoreInv
<1>14. watch'[watching'] = x
  BY <1>2, <1>4, <1>6, <1>8, SetWatch, Zenon
<1>15. CASE watching \in raced
  BY <1>4, <1>12, <1>15, Zenon DEF CoreInv, FlagInv, CarriedInv, Live
<1>16. CASE watching \notin raced
  <2>1. OneOwner /\ FlagSet(o) /\ FlagGen(o)
    BY <1>2, <1>5, <1>16, Zenon DEF CoreInv, FlagInv, NoWatch
  <2>2. o.queued = FALSE /\ o.sgen = 0
    BY <1>0, <1>1, <2>1, Zenon DEF FlagGen
  <2>3. eready = <<>> /\ \A b \in Actor : ~Owner(b)
    BY <2>1, <2>2, Zenon DEF FlagSet
  <2>4. \A b \in Actor : ~Owner(b)'
    BY <1>4, <1>13, <2>3, Zenon DEF Owner, OwnerAt
  <2>5. OneOwner' /\ FlagSet(x)'
    BY <1>4, <1>7, <2>2, <2>3, <2>4 DEF OneOwner, FlagSet
  <2>6. FlagGen(x)'
    BY <1>0, <1>7, <1>13, <2>2, <2>4, Zenon DEF FlagGen
  <2>7. FlagInv'
    BY <1>14, <2>5, <2>6, Zenon DEF FlagInv
  <2>8. Carries(a)'
    BY <1>2, <1>4, <1>5, <1>6, <1>13, <1>14, <2>2, AtHand DEF Carries, CarriesAt
  <2> QED BY <1>1, <1>12, <2>7, <2>8, Zenon DEF CoreInv, CarriedInv
<1> QED BY <1>15, <1>16, Zenon

\* MOD and DEL begin by disabling the watch.
LEMMA CloseStep ==
    ASSUME CoreInv, epc[Controller] = "user", watching # 0, NEW p \in {"modify", "delete"},
           watch' = [watch EXCEPT ![watching].disabled = TRUE, ![watching].gen = @ + 1],
           eloc' = [eloc EXCEPT ![Controller].on = watching], EpGoto(Controller, p),
           raced \subseteq raced', raced' \subseteq raced \cup {watching},
           UNCHANGED <<counter, source, subscribed, watching, eready, epq, epasleep>>
    PROVE  CoreInv'
<1>0. PICK a : a = Controller
  BY Zenon
<1>1. epc[a] = "user" /\ a \in Actor
  BY <1>0, Zenon DEF Actor
<1>2. eloc[a] \in LocalType /\ watching \in 0 .. Len(watch) /\ watching \in DOMAIN watch
  BY <1>0, <1>1, AtTask, AtHand, Zenon
<1>3. ~Owner(a)
  BY <1>1, Zenon DEF Owner, OwnerAt
<1>5. PICK o, x, l : o = watch[watching] /\ x = [o EXCEPT !.disabled = TRUE, !.gen = o.gen + 1] /\ l = [eloc[a] EXCEPT !.on = watching]
  BY Zenon
<1>6. o \in WatchType
  BY <1>2, <1>5, AtHand, Zenon
<1>6a. x \in WatchType /\ x.sgen = o.sgen /\ x.qgen = o.qgen
  <2>1. PICK n : n = o.gen + 1
    BY Zenon
  <2>2. n \in Nat
    BY <1>6, <2>1 DEF WatchType
  <2>3. x = [o EXCEPT !.disabled = TRUE, !.gen = n]
    BY <1>5, <2>1, Zenon
  <2>4. x.sgen = o.sgen /\ x.qgen = o.qgen
    BY <1>6, <2>3, Zenon DEF WatchType
  <2>5. x \in WatchType
    BY Zenon, <1>6, <2>2, <2>3 DEF WatchType
  <2> QED BY <2>4, <2>5, Zenon
<1>7. x.queued = o.queued /\ x.disabled = TRUE
  BY <1>5, <1>6, Zenon DEF WatchType
<1>7a. l \in LocalType /\ l.on = watching
  BY <1>2, <1>5 DEF LocalType
<1>8. watch' = [watch EXCEPT ![watching] = x]
  BY <1>2, <1>5, Zenon
<1>9. Moves(a, p, l)
  BY <1>0, <1>1, <1>5, Zenon DEF EpGoto, Moves, CoreInv, EpTypes
<1>10. p \in EpPC /\ p \in CtlOn /\ p \notin WaitOn \cup WaitOff \cup {"enable"}
  BY Zenon DEF EpPC, AnyOn, CtlOn, WaitOn, WaitOff
<1>11. raced' \subseteq DOMAIN watch /\ eready' \in Seq(Nat) /\ x.sgen <= source.gen
  BY <1>2, <1>5, <1>6a, Zenon DEF CoreInv, EpTypes, GenInv
<1>12. EpTypes' /\ (\A b \in Actor : ActorInv(b)') /\ WatchInv' /\ GenInv'
  <2>1. l.on # 0 /\ p \notin {"deliver", "notice"}
    BY <1>7a, Zenon
  <2>2. PICK w : w = watching
    BY Zenon
  <2>3. Range(eready') \subseteq Range(eready) \cup ({watching} \ {NoWatch})
    BY Zenon
  <2>4. w \in DOMAIN watch /\ watch' = [watch EXCEPT ![w] = x]
    BY <1>2, <1>8, <2>2, Zenon
  <2> QED BY <1>0, <1>1, <1>2, <1>6a, <1>7, <1>7a, <1>9, <1>10, <1>11, <2>1, <2>2, <2>3, <2>4, WatchStep, ZenonT(60)
<1>13. /\ epc'[a] = p /\ eloc'[a] = l
       /\ \A b \in Actor : b # a => epc'[b] = epc[b] /\ eloc'[b] = eloc[b]
  BY <1>1, <1>7a, <1>9, <1>10, MovesOne, Zenon DEF CoreInv
<1>14. watch'[watching'] = x
  BY <1>2, <1>6a, <1>8, SetWatch, Zenon
<1>15. \A b \in Actor : Owner(b)' <=> Owner(b)
  BY <1>3, <1>13, Zenon DEF Owner, OwnerAt
<1>16. OneOwner => OneOwner'
  BY <1>15, Zenon DEF OneOwner
<1>17. FlagSet(o) => FlagSet(x)'
  BY <1>7, <1>15, Zenon DEF FlagSet
<1>18. FlagGen(o) => FlagGen(x)'
  <2>1. \A b \in Actor : Owner(b) => epc'[b] = epc[b] /\ eloc'[b] = eloc[b]
    BY <1>3, <1>13, Zenon
  <2> QED BY <1>0, <1>6a, <1>7, <1>10, <1>13, <1>15, <2>1 DEF FlagGen
<1>19. FlagInv'
  BY <1>5, <1>14, <1>16, <1>17, <1>18, Zenon DEF CoreInv, FlagInv
<1>20. CarriedInv'
  BY <1>7, <1>14, Zenon DEF CarriedInv, Live
<1> QED BY <1>12, <1>19, <1>20, Zenon DEF CoreInv

\* MOD.
LEMMA CtlModCore == ASSUME CoreInv, CtlMod(Controller) PROVE CoreInv'
  BY CloseStep, Zenon DEF CtlMod, Races, NoWatch

\* DEL.
LEMMA CtlDelCore == ASSUME CoreInv, CtlDel(Controller) PROVE CoreInv'
  BY CloseStep, Zenon DEF CtlDel, NoWatch

\* A list without elements is empty.
LEMMA EmptyRange ==
    ASSUME NEW T, NEW s \in Seq(T), Range(s) = {}
    PROVE  s = <<>>
<1>1. Len(s) \in Nat /\ DOMAIN s = 1 .. Len(s)
  OBVIOUS
<1>2. \A i \in 1 .. Len(s) : s[i] \in Range(s)
  BY <1>1, Zenon DEF Range
<1>3. Len(s) = 0
  BY <1>1, <1>2
<1> QED BY <1>3

\* MOD and DEL take the watch out of the ready list.
LEMMA TakenOut ==
    ASSUME CoreInv, eready' = Keep(eready, DOMAIN watch \ {watching})
    PROVE  eready' = <<>>
<1>1. eready \in Seq(Nat) /\ Range(eready) \subseteq {watching}
  BY Zenon DEF CoreInv, EpTypes, WatchInv
<1>2. PICK S : S = DOMAIN watch \ {watching}
  BY Zenon
<1>3. Keep(eready, S) \in Seq(Nat) /\ Range(Keep(eready, S)) = Range(eready) \cap S
  BY <1>1, KeepFacts, Zenon
<1>4. PICK s : s = Keep(eready, S)
  BY Zenon
<1>5. s \in Seq(Nat) /\ Range(s) = {}
  BY <1>1, <1>2, <1>3, <1>4, Zenon
<1>6. s = <<>>
  BY <1>5, EmptyRange, Zenon
<1> QED BY <1>2, <1>4, <1>6, Zenon

\* MOD while the watch is disabled: nobody owns its flag any more, or the
\* watch has raced.
LEMMA ModifyCore ==
    ASSUME CoreInv, Modify(Controller)
    PROVE  CoreInv' /\ eready' = <<>>
<1>0. PICK a : a = Controller
  BY Zenon
<1>1. epc[a] = "modify" /\ a \in Actor
  BY <1>0, Zenon DEF Modify, Actor
<1>2. eloc[a] \in LocalType /\ eloc[a].on = watching /\ watching # 0 /\ watching \in 0 .. Len(watch) /\ watching \in DOMAIN watch
  BY <1>0, <1>1, AtTask, AtHand, Zenon DEF AnyOn, CtlOn, WaitOn
<1>4. UNCHANGED <<counter, epq, epasleep, source, watching, subscribed>>
  BY Zenon DEF Modify
<1>5. PICK w, o, l : w = watching /\ o = watch[watching] /\ l = eloc[a]
  BY Zenon
<1>5a. PICK m \in ModOneshot :
           watch' = [watch EXCEPT ![w].queued = FALSE, ![w].qgen = 0, ![w].sgen = 0, ![w].oneshot = m]
  BY <1>0, <1>2, <1>5, Zenon DEF Modify
<1>5b. m \in BOOLEAN
  BY EpollAssumption, Zenon
<1>5c. PICK x : x = [o EXCEPT !.queued = FALSE, !.qgen = 0, !.sgen = 0, !.oneshot = m]
  BY Zenon
<1>6. o \in WatchType /\ o.disabled = TRUE
  BY <1>0, <1>1, <1>2, <1>5, AtHand, Zenon DEF CoreInv, WatchInv, Closing
<1>6a. x.sgen = 0 /\ x.qgen = 0
  BY <1>6, <1>5c, Zenon DEF WatchType
<1>6b. x \in WatchType
  BY Zenon, <1>6, <1>5b, <1>5c, 0 \in Nat DEF WatchType
<1>7. x.queued = FALSE /\ x.disabled = TRUE
  BY <1>5c, <1>6, Zenon DEF WatchType
<1>8. watch' = [watch EXCEPT ![w] = x]
  BY <1>2, <1>5, <1>5a, <1>5c, Zenon
<1>9. Moves(a, "enable", l)
  BY <1>0, <1>5, Zenon DEF Modify, EpGoto, Moves, CoreInv, EpTypes
<1>3. eready' = <<>>
  BY <1>0, <1>2, TakenOut, Zenon DEF Modify
<1>3a. raced' = raced \cup Races(a, w)
  BY <1>0, <1>2, <1>5, Zenon DEF Modify
<1>10. PICK p : p = "enable"
  BY Zenon
<1>11. raced' \subseteq DOMAIN watch /\ eready' \in Seq(Nat) /\ x.sgen <= source.gen
  BY <1>2, <1>3, <1>3a, <1>5, <1>6a, AtHand DEF CoreInv, EpTypes, Races
<1>12. EpTypes' /\ (\A b \in Actor : ActorInv(b)') /\ WatchInv' /\ GenInv'
  <2>1. l \in LocalType /\ l.on = watching /\ l.on # 0 /\ l.on \in 0 .. Len(watch)
    BY <1>2, <1>5, Zenon
  <2>2. Range(eready') \subseteq Range(eready) \cup ({watching} \ {NoWatch})
    BY <1>3 DEF Range
  <2>3. w \in DOMAIN watch /\ w = watching
    BY <1>2, <1>5, Zenon
  <2>4. /\ p \in EpPC /\ p \in CtlOn /\ p \notin WaitOn \cup WaitOff \cup {"deliver", "notice"}
    BY <1>10, Zenon DEF EpPC, CtlOn, WaitOn, WaitOff
  <2>5. /\ l.on # 0 <=> p \in AnyOn \cup CtlOn \cup WaitOn
        /\ p \in CtlOn => a = Controller
        /\ p \in WaitOn \cup WaitOff => a \in EpWaiter
        /\ a = Controller /\ l.on # 0 => l.on = watching
        /\ p \notin {"deliver", "notice"}
        /\ Moves(a, p, l)
    BY <1>0, <1>9, <1>10, <2>1, <2>4, Zenon
  <2>6. /\ w # watching => x.disabled = TRUE
        /\ p \in Closing => w = watching /\ x.disabled = TRUE
        /\ epc[Controller] \in Closing /\ a # Controller /\ w = watching => x.disabled = TRUE
    BY <1>7, <2>3, Zenon
  <2> QED BY <1>1, <1>4, <1>6b, <1>8, <1>11, <2>1, <2>2, <2>3, <2>4, <2>5, <2>6, WatchStep, Zenon
<1>13. /\ epc'[a] = "enable" /\ eloc'[a] = l
       /\ \A b \in Actor : b # a => epc'[b] = epc[b] /\ eloc'[b] = eloc[b]
  <2>1. l \in LocalType /\ "enable" \in EpPC
    BY <1>2, <1>5, Zenon DEF EpPC, CtlOn
  <2> QED BY <1>1, <1>9, <2>1, MovesOne, Zenon DEF CoreInv
<1>14. watch'[watching'] = x
  BY <1>2, <1>4, <1>5, <1>6b, <1>8, SetWatch, Zenon
<1>15. FlagInv'
  <2>1. SUFFICES ASSUME watching \notin raced' PROVE OneOwner' /\ FlagSet(x)' /\ FlagGen(x)'
    BY <1>4, <1>14, Zenon DEF FlagInv
  <2>2. Touching(w) \ {a} = {}
    BY <1>3a, <1>5, <2>1, Zenon DEF Races
  <2>3. \A b \in Actor : b # a => eloc'[b].on # watching
    BY <1>5, <1>13, <2>2, Zenon DEF Touching
  <2>4. \A b \in Actor : ~Owner(b)'
    BY <1>4, <1>13, <2>3, Zenon DEF Owner, OwnerAt
  <2>5. OneOwner'
    BY <1>3, <2>4 DEF OneOwner
  <2>6. FlagSet(x)'
    BY <1>3, <1>7, <2>4, Zenon DEF FlagSet
  <2>7. FlagGen(x)'
    BY <1>6a, <1>7, <2>4, Zenon DEF FlagGen
  <2> QED BY <2>5, <2>6, <2>7, Zenon
<1>16. CarriedInv'
  BY <1>7, <1>14, Zenon DEF CarriedInv, Live
<1> QED BY <1>3, <1>12, <1>15, <1>16, Zenon DEF CoreInv

\* DEL leaves the epoll without a watch.
LEMMA DeleteCore ==
    ASSUME CoreInv, Delete(Controller)
    PROVE  CoreInv' /\ eready' = <<>>
<1>0. PICK a : a = Controller
  BY Zenon
<1>1. epc[a] = "delete" /\ a \in Actor
  BY <1>0, Zenon DEF Delete, Actor
<1>2. eloc[a] \in LocalType /\ eloc[a].on = watching /\ watching # 0 /\ watching \in 0 .. Len(watch) /\ watching \in DOMAIN watch
  BY <1>0, <1>1, AtTask, AtHand, Zenon DEF AnyOn, CtlOn, WaitOn
<1>3. eready' = <<>>
  BY <1>0, <1>2, TakenOut, Zenon DEF Delete
<1>4. UNCHANGED <<counter, epq, epasleep, source, raced>> /\ watching' = 0 /\ subscribed' = 0
  BY Zenon DEF Delete, NoWatch
<1>5. PICK w, o : w = watching /\ o = watch[watching]
  BY Zenon
<1>5c. PICK x : x = [o EXCEPT !.queued = FALSE, !.qgen = 0]
  BY Zenon
<1>6. o \in WatchType /\ o.disabled = TRUE /\ o.sgen <= source.gen
  BY <1>0, <1>1, <1>2, <1>5, AtHand, Zenon DEF CoreInv, WatchInv, GenInv, Closing
<1>6a. x.sgen = o.sgen
  BY <1>6, <1>5c, Zenon DEF WatchType
<1>6b. x \in WatchType
  BY Zenon, <1>6, <1>5c, 0 \in Nat DEF WatchType
<1>7. x.disabled = TRUE
  BY <1>5c, <1>6, Zenon DEF WatchType
<1>8. watch' = [watch EXCEPT ![w] = x]
  BY <1>0, <1>2, <1>5, <1>5c, Zenon DEF Delete
<1>9. Moves(a, "user", NoLocals)
  BY <1>0, Zenon DEF Delete, Over, EpGoto, Moves
<1>10. NoLocals \in LocalType /\ NoLocals.on = 0 /\ "user" \in EpPC
  BY <1>1, AtTask, Zenon DEF NoLocals, NoWatch, EpPC
<1>11. /\ epc' \in [Actor -> EpPC] /\ eloc' \in [Actor -> LocalType]
       /\ epc'[a] = "user" /\ eloc'[a] = NoLocals
       /\ \A b \in Actor : b # a => epc'[b] = epc[b] /\ eloc'[b] = eloc[b]
  BY <1>1, <1>9, <1>10, MovesOne, Zenon DEF CoreInv
<1>12. /\ watch' \in Seq(WatchType) /\ Len(watch') = Len(watch) /\ DOMAIN watch' = DOMAIN watch
       /\ watch'[w] = x /\ \A v \in DOMAIN watch : v # w => watch'[v] = watch[v]
  BY <1>2, <1>5, <1>6b, <1>8, SetWatch, Zenon
<1>13. EpTypes'
  <2>1. 0 \in 0 .. Len(watch') /\ eready' \in Seq(Nat)
    BY <1>3, <1>12, AtHand
  <2> QED BY <1>4, <1>11, <1>12, <2>1, Zenon DEF CoreInv, EpTypes
<1>14. ASSUME NEW b \in Actor PROVE ActorInv(b)'
  <2>1. CASE b = a
    <3>1. "user" \notin AnyOn \cup CtlOn \cup WaitOn \cup WaitOff
      BY Zenon DEF AnyOn, CtlOn, WaitOn, WaitOff
    <3>2. 0 \in 0 .. Len(watch')
      BY <1>12, AtHand
    <3> QED BY <1>10, <1>11, <2>1, <3>1, <3>2, Zenon DEF ActorInv
  <2>2. CASE b # a
    BY <1>0, <1>11, <1>12, <2>2, Zenon DEF CoreInv, ActorInv
  <2> QED BY <2>1, <2>2, Zenon
<1>15. WatchInv'
  <2>1. \A v \in DOMAIN watch' : watch'[v].disabled = TRUE
    BY <1>5, <1>7, <1>12, Zenon DEF CoreInv, WatchInv
  <2>2. Range(eready') \subseteq {watching'} \ {NoWatch}
    BY <1>3 DEF Range
  <2>3. epc'[Controller] \notin Closing
    BY <1>0, <1>11, Zenon DEF Closing
  <2> QED BY <2>1, <2>2, <2>3, Zenon DEF WatchInv
<1>16. GenInv'
  <2>1. \A v \in DOMAIN watch' : watch'[v].sgen <= source'.gen
    BY <1>4, <1>6, <1>6a, <1>12, Zenon DEF CoreInv, GenInv
  <2>2. \A b \in Actor : epc'[b] \in {"deliver", "notice"} => b # a
    BY <1>11, Zenon
  <2> QED BY <1>4, <1>11, <2>1, <2>2, Zenon DEF CoreInv, GenInv
<1>17. FlagInv' /\ CarriedInv'
  BY <1>4, Zenon DEF FlagInv, CarriedInv, Live, NoWatch
<1> QED BY <1>3, <1>13, <1>14, <1>15, <1>16, <1>17, Zenon DEF CoreInv

\* ADD gives the epoll a new watch, disabled and owned by nobody.
LEMMA CtlAddCore ==
    ASSUME CoreInv, CtlAdd(Controller)
    PROVE  CoreInv' /\ eready' = <<>>
<1>0. PICK a, n : a = Controller /\ n = Len(watch) + 1
  BY Zenon
<1>1. epc[a] = "user" /\ a \in Actor /\ watching = 0 /\ subscribed = 0
  BY <1>0, Zenon DEF CtlAdd, Actor, NoWatch, CoreInv, EpTypes
<1>2. /\ eloc[a] \in LocalType /\ watch \in Seq(WatchType) /\ Len(watch) \in Nat /\ DOMAIN watch = 1 .. Len(watch)
      /\ n \in Nat /\ n # 0
  BY <1>0, <1>1, AtTask, AtHand DEF CoreInv, EpTypes
<1>3. eready = <<>> /\ eready' = eready
  <2>1. eready \in Seq(Nat) /\ Range(eready) = {}
    BY <1>1, Zenon DEF CoreInv, EpTypes, WatchInv, NoWatch
  <2> QED BY <2>1, EmptyRange, Zenon DEF CtlAdd
<1>4. PICK m \in AddOneshot :
          watch' = Append(watch, [disabled |-> TRUE, queued |-> FALSE, qgen |-> 0,
                                  gen |-> 1, sgen |-> 0, oneshot |-> m])
  BY Zenon DEF CtlAdd
<1>5. PICK x, l : /\ x = [disabled |-> TRUE, queued |-> FALSE, qgen |-> 0, gen |-> 1, sgen |-> 0, oneshot |-> m]
                  /\ l = [eloc[a] EXCEPT !.on = n]
  BY Zenon
<1>5a. m \in BOOLEAN
  BY EpollAssumption, Zenon
<1>6. x \in WatchType
  BY <1>5, <1>5a, Zenon DEF WatchType
<1>6a. x.disabled = TRUE /\ x.queued = FALSE
  BY <1>5, Zenon
<1>6b. x.sgen = 0
  BY <1>5, Zenon
<1>7. l \in LocalType /\ l.on = n
  BY <1>2, <1>5, Zenon DEF LocalType
<1>8. /\ watch' \in Seq(WatchType) /\ Len(watch') = n /\ DOMAIN watch' = 1 .. n /\ watch'[n] = x
      /\ \A v \in 1 .. Len(watch) : watch'[v] = watch[v]
  BY <1>0, <1>2, <1>4, <1>5, <1>6
<1>9. watching' = n /\ subscribed' = n /\ UNCHANGED <<counter, epq, epasleep, source, raced>>
  BY <1>8, Zenon DEF CtlAdd
<1>10. Moves(a, "enable", l)
  BY <1>0, <1>5, <1>8, Zenon DEF CtlAdd, EpGoto, Moves
<1>11. /\ epc' \in [Actor -> EpPC] /\ eloc' \in [Actor -> LocalType]
       /\ epc'[a] = "enable" /\ eloc'[a] = l
       /\ \A b \in Actor : b # a => epc'[b] = epc[b] /\ eloc'[b] = eloc[b]
  <2>1. "enable" \in EpPC
    BY Zenon DEF EpPC, CtlOn
  <2> QED BY <1>1, <1>7, <1>10, <2>1, MovesOne, Zenon DEF CoreInv
<1>12. EpTypes'
  <2>1. n \in 0 .. Len(watch') /\ raced' \subseteq DOMAIN watch'
    BY <1>0, <1>2, <1>8, <1>9 DEF CoreInv, EpTypes
  <2> QED BY <1>3, <1>8, <1>9, <1>11, <2>1, Zenon DEF CoreInv, EpTypes
<1>13. ASSUME NEW b \in Actor PROVE ActorInv(b)'
  <2>1. CASE b = a
    <3>1. "enable" \in CtlOn /\ "enable" \notin WaitOn \cup WaitOff
      BY Zenon DEF CtlOn, WaitOn, WaitOff
    <3>2. n \in 0 .. Len(watch')
      BY <1>2, <1>8
    <3> QED BY <1>0, <1>2, <1>7, <1>9, <1>11, <2>1, <3>1, <3>2, Zenon DEF ActorInv
  <2>2. CASE b # a
    <3>1. eloc[b].on \in 0 .. Len(watch')
      BY <1>0, <1>2, <1>8 DEF CoreInv, ActorInv
    <3> QED BY <1>0, <1>11, <2>2, <3>1, Zenon DEF CoreInv, ActorInv
  <2> QED BY <2>1, <2>2, Zenon
<1>14. WatchInv'
  <2>1. \A v \in 1 .. Len(watch) : watch[v].disabled = TRUE
    BY <1>1, <1>2 DEF CoreInv, WatchInv
  <2>2. \A v \in DOMAIN watch' : watch'[v].disabled = TRUE
    BY <1>0, <1>2, <1>6a, <1>8, <2>1
  <2>3. Range(eready') = {}
    BY <1>3 DEF Range
  <2>4. n \in DOMAIN watch'
    BY <1>2, <1>8
  <2> QED BY <1>9, <2>2, <2>3, <2>4, Zenon DEF WatchInv
<1>15. GenInv'
  <2>1. \A v \in 1 .. Len(watch) : watch[v].sgen <= source.gen
    BY <1>2, Zenon DEF CoreInv, GenInv
  <2>2. \A v \in DOMAIN watch' : watch'[v].sgen <= source'.gen
    BY <1>0, <1>2, <1>6b, <1>8, <1>9, <2>1, AtHand
  <2>3. \A b \in Actor : epc'[b] \in {"deliver", "notice"} => b # a
    BY <1>11, Zenon
  <2> QED BY <1>9, <1>11, <2>2, <2>3, Zenon DEF CoreInv, GenInv
<1>16. FlagInv'
  <2>1. \A b \in Actor : b # a => eloc'[b].on # n
    BY <1>0, <1>2, <1>11 DEF CoreInv, ActorInv
  <2>2. \A b \in Actor : ~Owner(b)'
    BY <1>9, <1>11, <2>1, Zenon DEF Owner, OwnerAt
  <2>3. OneOwner' /\ FlagSet(x)'
    BY <1>3, <1>6a, <2>2 DEF OneOwner, FlagSet
  <2>4. FlagGen(x)'
    BY <1>6a, <1>6b, <2>2, Zenon DEF FlagGen
  <2> QED BY <1>8, <1>9, <2>3, <2>4, Zenon DEF FlagInv
<1>17. CarriedInv'
  BY <1>6a, <1>8, <1>9, Zenon DEF CarriedInv, Live
<1> QED BY <1>3, <1>12, <1>13, <1>14, <1>15, <1>16, <1>17, Zenon DEF CoreInv

\* publish_versioned: a new generation of the source is on its way to the watch.
LEMMA PublishCore ==
    ASSUME CoreInv, NEW a \in EvTask, Publish(a)
    PROVE  CoreInv'
<1>1. a \in Actor /\ epc[a] = "publish" /\ a # Controller
  BY EpollAssumption, Zenon DEF Actor, Publish
<1>2. eloc[a] \in LocalType /\ eloc[a].on = 0 /\ source \in [ready : SUBSET {"in", "out"}, gen : Nat, pub : Nat]
  BY <1>1, AtTask, Zenon DEF AnyOn, CtlOn, WaitOn
<1>3. ~Owner(a) /\ ~Carries(a)
  BY <1>1, <1>2, Zenon DEF Owner, OwnerAt, Carries, CarriesAt
<1>4. UNCHANGED <<counter, epq, epasleep, watch, watching, subscribed, eready, raced>>
  BY Zenon DEF Publish
<1>5. CASE eloc[a].ver <= source.pub \/ source.ready = eloc[a].ready
  <2>1. PICK v : v = IF eloc[a].ver <= source.pub THEN source.pub ELSE eloc[a].ver
    BY Zenon
  <2>2. v \in Nat
    BY <1>2, <2>1, Zenon DEF LocalType
  <2>3. source' = [source EXCEPT !.pub = v] /\ Moves(a, "user", NoLocals)
    BY <1>5, <2>1, Zenon DEF Publish, Over, EpGoto, Moves
  <2>4. /\ source' \in [ready : SUBSET {"in", "out"}, gen : Nat, pub : Nat]
        /\ source'.gen = source.gen /\ source'.ready = source.ready
    BY <1>2, <2>2, <2>3, Zenon
  <2> QED BY <1>1, <1>3, <1>4, <2>3, <2>4, AtTask, OverStep, Zenon
<1>6. CASE ~(eloc[a].ver <= source.pub \/ source.ready = eloc[a].ready)
  <2>1. PICK n : n = source.gen + 1
    BY Zenon
  <2>2. PICK l : l = [eloc[a] EXCEPT !.ver = n]
    BY Zenon
  <2>3. n \in Nat /\ n > source.gen /\ source.gen \in Nat /\ n >= 1
    BY <1>2, <2>1
  <2>4. l \in LocalType /\ l.on = 0 /\ l.ver = n /\ l.ready = eloc[a].ready
    BY <1>2, <2>2, <2>3, Zenon DEF LocalType
  <2>5. source' = [ready |-> eloc[a].ready, gen |-> n, pub |-> eloc[a].ver] /\ Moves(a, "deliver", l)
    BY <1>6, <2>1, <2>2, Zenon DEF Publish, EpGoto, Moves
  <2>6. /\ source' \in [ready : SUBSET {"in", "out"}, gen : Nat, pub : Nat]
        /\ source'.gen = n /\ source'.ready = l.ready
    BY <1>2, <2>3, <2>4, <2>5, Zenon DEF LocalType
  <2>7. /\ epc' \in [Actor -> EpPC] /\ eloc' \in [Actor -> LocalType]
        /\ epc'[a] = "deliver" /\ eloc'[a] = l
        /\ \A b \in Actor : b # a => epc'[b] = epc[b] /\ eloc'[b] = eloc[b]
    <3>1. "deliver" \in EpPC
      BY Zenon DEF EpPC, EvOff
    <3> QED BY <1>1, <2>4, <2>5, <3>1, MovesOne, Zenon DEF CoreInv
  <2>8. EpTypes'
    BY <1>4, <2>3, <2>6, <2>7, Zenon DEF CoreInv, EpTypes
  <2>9. ASSUME NEW b \in Actor PROVE ActorInv(b)'
    <3>1. CASE b = a
      <4>1. "deliver" \notin AnyOn \cup CtlOn \cup WaitOn \cup WaitOff
        BY Zenon DEF AnyOn, CtlOn, WaitOn, WaitOff
      <4>2. 0 \in 0 .. Len(watch')
        BY <1>4, AtHand
      <4> QED BY <2>4, <2>7, <3>1, <4>1, <4>2, Zenon DEF ActorInv
    <3>2. CASE b # a
      BY <1>4, <2>7, <3>2, Zenon DEF CoreInv, ActorInv
    <3> QED BY <3>1, <3>2, Zenon
  <2>10. WatchInv'
    <3>1. Controller \in Actor /\ epc'[Controller] = epc[Controller]
      BY <1>1, <2>7, Zenon DEF Actor
    <3> QED BY <1>4, <3>1, Zenon DEF CoreInv, WatchInv
  <2>11. GenInv'
    <3>1. \A w \in DOMAIN watch : watch[w].sgen \in Nat /\ watch[w].sgen <= source.gen
      BY AtHand, Zenon DEF CoreInv, GenInv, WatchType
    <3>2. \A w \in DOMAIN watch' : watch'[w].sgen <= source'.gen
      BY <1>4, <2>3, <2>6, <3>1
    <3>3. ASSUME NEW b \in Actor, b # a, epc'[b] \in {"deliver", "notice"}
          PROVE  eloc'[b].ver <= source'.gen /\ eloc'[b].ver # source'.gen
      <4>1. eloc[b].ver <= source.gen /\ eloc[b].ver \in Nat
        BY <2>7, <3>3, AtTask, Zenon DEF LocalType
      <4> QED BY <2>3, <2>6, <2>7, <3>3, <4>1
    <3> QED BY <2>3, <2>4, <2>6, <2>7, <3>2, <3>3 DEF GenInv
  <2>12. FlagInv'
    <3>1. \A b \in Actor : Owner(b)' <=> Owner(b)
      BY <1>3, <1>4, <2>7, Zenon DEF Owner, OwnerAt
    <3>2. \A b \in Actor : Owner(b) => epc'[b] = epc[b] /\ eloc'[b] = eloc[b]
      BY <1>3, <2>7, Zenon
    <3>3. Controller \in Actor /\ epc'[Controller] = epc[Controller]
      BY <1>1, <2>7, Zenon DEF Actor
    <3>4. OneOwner => OneOwner'
      BY <1>4, <3>1, Zenon DEF OneOwner
    <3>5. PICK o : o = watch[watching]
      BY Zenon
    <3>6. FlagSet(o) => FlagSet(o)'
      BY <1>4, <3>1, Zenon DEF FlagSet
    <3>7. FlagGen(o) => FlagGen(o)'
      BY <3>1, <3>2, <3>3, Zenon DEF FlagGen
    <3> QED BY <1>4, <3>4, <3>5, <3>6, <3>7, Zenon DEF CoreInv, FlagInv
  <2>13. CarriedInv'
    <3>1. SUFFICES ASSUME watching # 0 PROVE Carries(a)'
      BY <1>1, <1>4, Zenon DEF CarriedInv, Live, NoWatch
    <3>2. watch[watching].sgen < n
      <4>1. watch[watching].sgen \in Nat /\ watch[watching].sgen <= source.gen
        BY <3>1, AtHand, Zenon DEF CoreInv, GenInv, WatchType
      <4> QED BY <2>3, <4>1
    <3> QED BY <1>4, <2>4, <2>6, <2>7, <3>2, Zenon DEF Carries, CarriesAt
  <2> QED BY <2>8, <2>9, <2>10, <2>11, <2>12, <2>13, Zenon DEF CoreInv
<1> QED BY <1>5, <1>6, Zenon

\* A step of a that leaves the watches alone and may change the ready list.
LEMMA ListStep ==
    ASSUME CoreInv, NEW a \in Actor, NEW p \in EpPC, NEW l \in LocalType, Moves(a, p, l),
           NEW w \in DOMAIN watch,
           UNCHANGED <<counter, source, watch, watching, subscribed, epq, epasleep, raced>>,
           eready' \in Seq(Nat), Range(eready') \subseteq Range(eready) \cup ({watching} \ {NoWatch}),
           l.on \in 0 .. Len(watch),
           l.on # 0 <=> p \in AnyOn \cup WaitOn,
           p \notin CtlOn \cup Closing \cup {"deliver", "notice"},
           p \in WaitOn \cup WaitOff => a \in EpWaiter,
           a = Controller /\ l.on # 0 => l.on = watching
    PROVE  EpTypes' /\ (\A b \in Actor : ActorInv(b)') /\ WatchInv' /\ GenInv'
<1>1. PICK x : x = watch[w]
  BY Zenon
<1>2. x \in WatchType /\ x.sgen <= source.gen
  BY <1>1, AtHand, Zenon DEF CoreInv, GenInv
<1>3. watch' = [watch EXCEPT ![w] = x] /\ raced' \subseteq DOMAIN watch
  BY <1>1 DEF CoreInv, EpTypes
<1>4. /\ w # watching => x.disabled = TRUE
      /\ p \in Closing => w = watching /\ x.disabled = TRUE
      /\ epc[Controller] \in Closing /\ a # Controller /\ w = watching => x.disabled = TRUE
  BY <1>1, Zenon DEF CoreInv, WatchInv
<1>5. /\ l.on # 0 <=> p \in AnyOn \cup CtlOn \cup WaitOn
      /\ p \in CtlOn => a = Controller
      /\ p \notin {"deliver", "notice"}
  BY Zenon
<1> QED BY <1>2, <1>3, <1>4, <1>5, WatchStep, Zenon

\* pop_front makes the collector the owner of the flag.
LEMMA CollectCore ==
    ASSUME CoreInv, NEW a \in EpWaiter, Collect(a)
    PROVE  CoreInv'
<1>1. a \in Actor /\ a # Controller /\ epc[a] \in {"user", "collect"}
  BY EpollAssumption, Zenon DEF Actor, Collect
<1>2. eloc[a] \in LocalType /\ eloc[a].on = 0
  BY <1>1, AtTask, Zenon DEF AnyOn, CtlOn, WaitOn
<1>3. UNCHANGED <<counter, source, watch, watching, subscribed, epq, epasleep, raced>>
  BY Zenon DEF Collect
<1>4. CASE eready = <<>>
  <2>1. Moves(a, "prepare", eloc[a]) /\ UNCHANGED eready
    BY <1>1, <1>4, Zenon DEF Collect, EpGoto, Moves, CoreInv, EpTypes
  <2>2. "prepare" \in {"user"} \cup WaitOff /\ epc[a] \in {"user", "wake"} \cup WaitOff
    BY <1>1, Zenon DEF WaitOff
  <2>3. epq' \in Seq(EpWaiter) /\ epasleep' \subseteq EpWaiter
    BY <1>3, Zenon DEF CoreInv, EpTypes
  <2> QED BY <1>1, <1>3, <2>1, <2>2, <2>3, WaitCore, Zenon
<1>5. CASE eready # <<>>
  <2>1. eready \in Seq(Nat) /\ Range(eready) \subseteq {watching} \ {NoWatch}
    BY Zenon DEF CoreInv, EpTypes, WatchInv
  <2>2. /\ Len(eready) \in Nat /\ Len(eready) # 0 /\ DOMAIN eready = 1 .. Len(eready)
        /\ Tail(eready) \in Seq(Nat) /\ Len(Tail(eready)) = Len(eready) - 1
        /\ \A i \in 1 .. Len(eready) - 1 : Tail(eready)[i] = eready[i + 1]
        /\ Head(eready) = eready[1]
    BY <1>5, <2>1
  <2>3. Head(eready) = watching /\ watching # 0
    <3>1. 1 \in DOMAIN eready
      BY <2>2
    <3>2. eready[1] \in Range(eready)
      BY <3>1, Zenon DEF Range
    <3>3. eready[1] = watching /\ watching # 0
      BY <2>1, <3>2, Zenon DEF NoWatch
    <3> QED BY <2>2, <3>3, Zenon
  <2>4. watching \in DOMAIN watch /\ watching \in 0 .. Len(watch)
    BY <2>3, AtHand, Zenon DEF CoreInv, EpTypes
  <2>5. PICK w, l : w = watching /\ l = [eloc[a] EXCEPT !.on = watching]
    BY Zenon
  <2>6. l \in LocalType /\ l.on = watching
    BY <1>2, <2>4, <2>5, AtHand DEF LocalType
  <2>7. eready' = Tail(eready) /\ Moves(a, "popped", l)
    BY <1>5, <2>3, <2>5, Zenon DEF Collect, EpGoto, Moves
  <2>8. eready' \in Seq(Nat) /\ Range(eready') \subseteq Range(eready)
    <3>1. \A i \in 1 .. Len(eready) - 1 : i + 1 \in 1 .. Len(eready)
      BY <2>2
    <3> QED BY <2>2, <2>7, <3>1 DEF Range
  <2>9. /\ "popped" \in EpPC /\ "popped" \in WaitOn
        /\ "popped" \notin CtlOn \cup Closing \cup {"deliver", "notice"}
    BY Zenon DEF EpPC, WaitOn, CtlOn, Closing
  <2>10. EpTypes' /\ (\A b \in Actor : ActorInv(b)') /\ WatchInv' /\ GenInv'
    <3>1. PICK p : p = "popped"
      BY Zenon
    <3>2. /\ p \in EpPC /\ p \in WaitOn /\ p \notin CtlOn \cup Closing \cup {"deliver", "notice"}
          /\ Moves(a, p, l)
      BY <2>7, <2>9, <3>1, Zenon
    <3>3. w \in DOMAIN watch /\ l.on # 0 /\ l.on \in 0 .. Len(watch)
      BY <2>3, <2>4, <2>5, <2>6, Zenon
    <3> QED BY <1>1, <1>3, <2>6, <2>8, <3>2, <3>3, ListStep, Zenon
  <2>11. /\ epc'[a] = "popped" /\ eloc'[a] = l
         /\ \A b \in Actor : b # a => epc'[b] = epc[b] /\ eloc'[b] = eloc[b]
    BY <1>1, <2>6, <2>7, <2>9, MovesOne, Zenon DEF CoreInv
  <2>12. FlagInv'
    <3>1. SUFFICES ASSUME watching \notin raced
                   PROVE  OneOwner' /\ FlagSet(watch[watching])' /\ FlagGen(watch[watching])'
      BY <1>3, Zenon DEF FlagInv
    <3>2. PICK o : o = watch[watching]
      BY Zenon
    <3>3. OneOwner /\ FlagSet(o) /\ FlagGen(o)
      BY <2>3, <3>1, <3>2, Zenon DEF CoreInv, FlagInv, NoWatch
    <3>4. eready' = <<>>
      BY <2>2, <2>7, <3>3 DEF OneOwner
    <3>5. o.queued = TRUE /\ \A b \in Actor : ~Owner(b)
      BY <1>5, <3>3, Zenon DEF FlagSet, OneOwner
    <3>6. \A b \in Actor : Owner(b)' => b = a
      BY <1>3, <2>11, <3>5, Zenon DEF Owner, OwnerAt
    <3>7. Owner(a)'
      BY <1>3, <2>6, <2>11, Zenon DEF Owner, OwnerAt
    <3>8. OneOwner'
      BY <3>4, <3>6 DEF OneOwner
    <3>9. FlagSet(o)'
      BY <1>1, <3>5, <3>7, Zenon DEF FlagSet
    <3>10. FlagGen(o)'
      <4>1. Controller \in Actor /\ epc'[Controller] = epc[Controller]
        BY <1>1, <2>11, Zenon DEF Actor
      <4> QED BY <2>11, <3>3, <3>6, <4>1, Zenon DEF FlagGen
    <3> QED BY <1>3, <3>2, <3>8, <3>9, <3>10, Zenon
  <2>13. CarriedInv'
    <3>1. Carries(a)'
      BY <1>3, <2>6, <2>11, Zenon DEF Carries, CarriesAt
    <3> QED BY <1>1, <3>1, Zenon DEF CarriedInv
  <2> QED BY <2>10, <2>12, <2>13, Zenon DEF CoreInv
<1> QED BY <1>4, <1>5, Zenon

\* The owner of the flag puts the watch in the list.
LEMMA PushReadyCore ==
    ASSUME CoreInv, NEW a \in Actor, PushReady(a)
    PROVE  CoreInv'
<1>1. epc[a] = "push"
  BY Zenon DEF PushReady
<1>2. PICK w : w = eloc[a].on
  BY Zenon
<1>3. /\ eloc[a] \in LocalType /\ w # 0 /\ w \in 0 .. Len(watch) /\ w \in DOMAIN watch
      /\ a = Controller => w = watching
  BY <1>1, <1>2, AtTask, AtHand, Zenon DEF AnyOn, CtlOn, WaitOn
<1>4. UNCHANGED <<counter, source, watch, watching, subscribed, epq, epasleep, raced>>
  BY Zenon DEF PushReady
<1>5. watch[w] \in WatchType
  BY <1>3, AtHand, Zenon
<1>6. ASSUME w = watching, watching \notin raced
      PROVE  /\ Owner(a) /\ OneOwner /\ FlagSet(watch[watching]) /\ FlagGen(watch[watching])
             /\ watch[watching].disabled = FALSE => watch[watching].gen = eloc[a].gen
  <2>1. Owner(a)
    BY <1>1, <1>2, <1>6, Zenon DEF Owner, OwnerAt
  <2>2. PICK o : o = watch[watching]
    BY Zenon
  <2>3. OneOwner /\ FlagSet(o) /\ FlagGen(o)
    BY <1>3, <1>6, <2>2, Zenon DEF CoreInv, FlagInv, NoWatch
  <2>4. o.queued = TRUE
    BY <2>1, <2>3, Zenon DEF FlagSet
  <2>5. eloc[a].gen = o.qgen
    BY <1>1, <2>1, <2>3, Zenon DEF FlagGen
  <2>6. o.disabled = FALSE => o.qgen = o.gen
    BY <2>3, <2>4, Zenon DEF FlagGen
  <2> QED BY <2>1, <2>2, <2>3, <2>5, <2>6, Zenon
<1>7. CASE watch[w].disabled \/ watch[w].gen # eloc[a].gen
  <2>1. Moves(a, "unqueue", eloc[a]) /\ UNCHANGED eready
    BY <1>2, <1>7, Zenon DEF PushReady, EpGoto, Moves, CoreInv, EpTypes
  <2>2. PICK l : l = eloc[a]
    BY Zenon
  <2>3. /\ "unqueue" \in EpPC /\ "unqueue" \in AnyOn
        /\ "unqueue" \notin CtlOn \cup Closing \cup WaitOn \cup WaitOff \cup {"deliver", "notice"}
    BY Zenon DEF EpPC, AnyOn, WaitOn, WaitOff, CtlOn, Closing
  <2>4. EpTypes' /\ (\A b \in Actor : ActorInv(b)') /\ WatchInv' /\ GenInv'
    <3>1. PICK p : p = "unqueue"
      BY Zenon
    <3>2. /\ p \in EpPC /\ p \in AnyOn /\ p \notin CtlOn \cup Closing \cup {"deliver", "notice"}
          /\ p \notin WaitOn \cup WaitOff /\ Moves(a, p, l)
      BY <2>1, <2>2, <2>3, <3>1, Zenon
    <3>3. l \in LocalType /\ l.on # 0 /\ l.on \in 0 .. Len(watch) /\ (a = Controller => l.on = watching)
      BY <1>2, <1>3, <2>2, Zenon
    <3>4. eready' \in Seq(Nat) /\ Range(eready') \subseteq Range(eready)
      BY <2>1, Zenon DEF CoreInv, EpTypes
    <3> QED BY <1>3, <1>4, <3>2, <3>3, <3>4, ListStep, Zenon
  <2>5. /\ epc'[a] = "unqueue" /\ eloc'[a] = eloc[a]
        /\ \A b \in Actor : b # a => epc'[b] = epc[b] /\ eloc'[b] = eloc[b]
    BY <1>3, <2>1, <2>2, <2>3, MovesOne, Zenon DEF CoreInv
  <2>6. FlagInv'
    <3>1. SUFFICES ASSUME watching # 0, watching \notin raced
                   PROVE  OneOwner' /\ FlagSet(watch[watching])' /\ FlagGen(watch[watching])'
      BY <1>4, Zenon DEF FlagInv, NoWatch
    <3>2. PICK o : o = watch[watching]
      BY Zenon
    <3>3. OneOwner /\ FlagSet(o) /\ FlagGen(o)
      BY <3>1, <3>2, Zenon DEF CoreInv, FlagInv, NoWatch
    <3>4. \A b \in Actor : Owner(b)' <=> Owner(b)
      BY <1>1, <1>4, <2>5, Zenon DEF Owner, OwnerAt
    <3>5. Owner(a) => o.disabled = TRUE
      <4>1. SUFFICES ASSUME w = watching PROVE o.disabled = TRUE
        BY <1>2, Zenon DEF Owner, OwnerAt
      <4>2. o \in WatchType /\ (o.disabled \/ o.gen # eloc[a].gen)
        BY <1>5, <1>7, <3>2, <4>1, Zenon
      <4>3. o.disabled \in BOOLEAN
        BY <4>2, Zenon DEF WatchType
      <4>4. o.disabled = FALSE => o.gen = eloc[a].gen
        BY <1>6, <3>1, <3>2, <4>1, Zenon
      <4> QED BY <4>2, <4>3, <4>4, Zenon
    <3>6. OneOwner'
      BY <2>1, <3>3, <3>4, Zenon DEF OneOwner
    <3>7. FlagSet(o)'
      BY <2>1, <3>3, <3>4, Zenon DEF FlagSet
    <3>8. FlagGen(o)'
      <4>1. Controller \in Actor /\ (epc'[Controller] = "enable" => epc[Controller] = "enable")
        BY <2>5, Zenon DEF Actor
      <4>2. \A b \in Actor : Owner(b)' /\ epc'[b] # "popped" => eloc'[b].gen = o.qgen
        BY <1>1, <2>5, <3>3, <3>4, Zenon DEF FlagGen
      <4>3. \A b \in Actor : Owner(b)' /\ epc'[b] = "unqueue" => o.disabled = TRUE
        BY <2>5, <3>3, <3>4, <3>5, Zenon DEF FlagGen
      <4> QED BY <3>3, <4>1, <4>2, <4>3, Zenon DEF FlagGen
    <3> QED BY <1>4, <3>2, <3>6, <3>7, <3>8, Zenon
  <2>7. CarriedInv'
    <3>1. SUFFICES ASSUME Live', eready' = <<>> PROVE \E b \in Actor : Carries(b)'
      BY Zenon DEF CarriedInv
    <3>2. Live /\ eready = <<>>
      BY <1>4, <2>1, <3>1, Zenon DEF Live
    <3>3. PICK b \in Actor : Carries(b)
      BY <3>2, Zenon DEF CoreInv, CarriedInv
    <3>4. w # watching
      <4>1. SUFFICES ASSUME w = watching PROVE FALSE
        BY Zenon
      <4>2. watch[w].disabled = FALSE /\ watching \notin raced
        BY <3>2, <4>1, Zenon DEF Live
      <4>3. watch[w].gen = eloc[a].gen
        BY <1>6, <4>1, <4>2, Zenon
      <4> QED BY <1>7, <4>2, <4>3, Zenon
    <3>5. b # a
      BY <1>1, <1>2, <3>3, <3>4, Zenon DEF Carries, CarriesAt
    <3>6. Carries(b)'
      BY <1>4, <2>5, <3>3, <3>5, Zenon DEF Carries, CarriesAt
    <3> QED BY <3>6, Zenon
  <2> QED BY <2>4, <2>6, <2>7, Zenon DEF CoreInv
<1>8. CASE ~(watch[w].disabled \/ watch[w].gen # eloc[a].gen)
  <2>1. w = watching
    <3>1. watch[w].disabled # TRUE
      BY <1>8, Zenon
    <3> QED BY <1>3, <3>1, Zenon DEF CoreInv, WatchInv
  <2>2. PICK p \in {"wake", "user"} : Moves(a, p, NoLocals)
    BY <1>2, <1>8, Zenon DEF PushReady, Over, EpGoto, Moves
  <2>3. eready' = Append(eready, w)
    BY <1>2, <1>8, Zenon DEF PushReady
  <2>4. eready \in Seq(Nat) /\ w \in Nat
    BY <1>3, AtHand DEF CoreInv, EpTypes
  <2>5. eready' \in Seq(Nat) /\ Range(eready') \subseteq Range(eready) \cup ({watching} \ {NoWatch}) /\ eready' # <<>>
    <3>1. PICK s : s = Append(eready, w)
      BY Zenon
    <3>2. s \in Seq(Nat) /\ s # <<>>
      BY <2>4, <3>1
    <3>3. \A v : v \in Range(s) <=> v \in Range(eready) \/ v = w
      BY <2>4, <3>1, AppendElements, Zenon
    <3> QED BY <1>3, <2>1, <2>3, <3>1, <3>2, <3>3, Zenon DEF NoWatch
  <2>6. /\ p \in EpPC /\ NoLocals \in LocalType /\ NoLocals.on = 0 /\ 0 \in 0 .. Len(watch)
        /\ p \notin AnyOn \cup CtlOn \cup Closing \cup WaitOn \cup WaitOff \cup {"deliver", "notice"}
    BY AtTask, AtHand DEF EpPC, AnyOn, WaitOn, WaitOff, CtlOn, Closing, NoLocals, NoWatch
  <2>7. EpTypes' /\ (\A b \in Actor : ActorInv(b)') /\ WatchInv' /\ GenInv'
    BY <1>3, <1>4, <2>2, <2>5, <2>6, ListStep, Zenon
  <2>8. /\ epc'[a] = p /\ eloc'[a] = NoLocals
        /\ \A b \in Actor : b # a => epc'[b] = epc[b] /\ eloc'[b] = eloc[b]
    BY <2>2, <2>6, MovesOne, Zenon DEF CoreInv
  <2>9. FlagInv'
    <3>1. SUFFICES ASSUME watching \notin raced
                   PROVE  OneOwner' /\ FlagSet(watch[watching])' /\ FlagGen(watch[watching])'
      BY <1>4, Zenon DEF FlagInv
    <3>2. PICK o : o = watch[watching]
      BY Zenon
    <3>3. Owner(a) /\ OneOwner /\ FlagSet(o) /\ FlagGen(o)
      BY <1>6, <2>1, <3>1, <3>2, Zenon
    <3>4. o.queued = TRUE /\ eready = <<>>
      BY <3>3, Zenon DEF FlagSet, OneOwner
    <3>5. \A b \in Actor : ~Owner(b)'
      <4>1. \A b \in Actor : b # a => ~Owner(b)
        BY <3>3, Zenon DEF OneOwner
      <4> QED BY <1>4, <2>8, <4>1, Zenon DEF Owner, OwnerAt
    <3>6. OneOwner'
      <4>1. Len(eready') = 1
        BY <2>3, <3>4
      <4> QED BY <3>5, <4>1 DEF OneOwner
    <3>7. FlagSet(o)'
      BY <2>5, <3>4, Zenon DEF FlagSet
    <3>8. FlagGen(o)'
      <4>1. Controller \in Actor /\ (epc'[Controller] = "enable" => epc[Controller] = "enable")
        BY <2>8, Zenon DEF Actor
      <4> QED BY <3>3, <3>5, <4>1, Zenon DEF FlagGen
    <3> QED BY <1>4, <3>2, <3>6, <3>7, <3>8, Zenon
  <2>10. CarriedInv'
    BY <2>5, Zenon DEF CarriedInv
  <2> QED BY <2>7, <2>9, <2>10, Zenon DEF CoreInv
<1> QED BY <1>7, <1>8, Zenon

-----------------------------------------------------------------------------
(* The waiters. *)

\* Only the users of the eventfd publish and deliver.
Publishers == \A a \in Actor : epc[a] \in EvOff => a \in EvTask

WaitInv == WaitersInv /\ SomeoneCollects /\ Publishers

\* A step that neither wakes nor sleeps.
Quiet(a, p) ==
    /\ epc' = [epc EXCEPT ![a] = p]
    /\ p \in EvOff => a \in EvTask
    /\ epc[a] \notin {"wake", "recheck", "asleep"}
    /\ UNCHANGED <<epq, epasleep>>
    /\ eready' = <<>> \/ eready # <<>> \/ p = "wake"

\* Such a step keeps what the waiters rely on.
LEMMA QuietStep ==
    ASSUME CoreInv, WaitInv, NEW a \in Actor, NEW p \in EpPC, Quiet(a, p)
    PROVE  WaitInv'
<1>1. epc'[a] = p /\ \A b \in Actor : b # a => epc'[b] = epc[b]
  BY Zenon DEF Quiet, CoreInv, EpTypes
<1>2. UNCHANGED <<epq, epasleep>> /\ epc[a] \notin {"wake", "recheck", "asleep"}
  BY Zenon DEF Quiet
<1>3. WaitersInv'
  <2>1. epq \in Seq(EpWaiter)
    BY Zenon DEF CoreInv, EpTypes
  <2>2. Range(epq) \subseteq Actor
    BY <2>1 DEF Range, Actor
  <2> QED BY <1>1, <1>2, <2>2, Zenon DEF WaitInv, WaitersInv
<1>4. SomeoneCollects'
  <2>1. CASE p = "wake"
    BY <1>1, <2>1, Zenon DEF SomeoneCollects
  <2>2. CASE eready' = <<>>
    BY <2>2, Zenon DEF SomeoneCollects
  <2>3. CASE eready # <<>>
    <3>1. EpWaiter \subseteq Actor
      BY Zenon DEF Actor
    <3> QED BY <1>1, <1>2, <2>3, <3>1, Zenon DEF WaitInv, SomeoneCollects
  <2> QED BY <2>1, <2>2, <2>3, Zenon DEF Quiet
<1>5. Publishers'
  BY <1>1, Zenon DEF WaitInv, Publishers, Quiet
<1> QED BY <1>3, <1>4, <1>5, Zenon DEF WaitInv

\* wake_one_default takes a sleeper out of the queue, if there is one.
LEMMA WakeOneWaits ==
    ASSUME CoreInv, WaitInv, NEW a \in Actor, WakeOne(a)
    PROVE  CoreInv' /\ WaitInv'
<1>1. epc[a] = "wake" /\ Moves(a, "user", NoLocals)
  BY Zenon DEF WakeOne, Over, EpGoto, Moves
<1>2. UNCHANGED <<counter, source, watch, watching, subscribed, eready, raced>>
  BY Zenon DEF WakeOne
<1>3. epq \in Seq(EpWaiter) /\ epasleep \subseteq Range(epq) /\ IsInjective(epq) /\ epasleep \subseteq EpWaiter
  BY Zenon DEF CoreInv, EpTypes, WaitInv, WaitersInv
<1>4. /\ epc'[a] = "user" /\ \A b \in Actor : b # a => epc'[b] = epc[b]
  BY <1>1, Zenon DEF Moves, CoreInv, EpTypes
<1>5. Range(epq) \subseteq Actor /\ a \notin Range(epq) /\ Range(epq) \subseteq EpWaiter
  BY <1>1, <1>3 DEF Range, Actor, WaitInv, WaitersInv
<1>6. /\ epq' \in Seq(EpWaiter) /\ IsInjective(epq') /\ Range(epq') \subseteq Range(epq)
      /\ epasleep' \subseteq Range(epq') /\ epasleep' \subseteq epasleep
      /\ EpWaiter # {} => \E b \in EpWaiter : b \notin epasleep'
  <2>1. CASE Range(epq) \cap epasleep = {}
    <3>1. epasleep = {} /\ UNCHANGED <<epq, epasleep>>
      BY <1>3, <2>1, Zenon DEF WakeOne
    <3> QED BY <1>3, <3>1, Zenon
  <2>2. CASE Range(epq) \cap epasleep # {}
    <3>1. \E i \in 1 .. Len(epq) : epq[i] \in epasleep
      BY <1>3, <2>2 DEF Range
    <3>2. PICK first : first = epq[FirstIn(epq, epasleep)]
      BY Zenon
    <3>3. first \in epasleep
      BY <1>3, <3>1, <3>2, FirstInFacts, Zenon
    <3>4. epq' = Keep(epq, EpWaiter \ {first}) /\ epasleep' = epasleep \ {first}
      BY <2>2, <3>2, Zenon DEF WakeOne
    <3>5. /\ epq' \in Seq(EpWaiter) /\ IsInjective(epq')
          /\ Range(epq') = Range(epq) \cap (EpWaiter \ {first})
      BY <1>3, <3>4, KeepFacts, Zenon
    <3> QED BY <1>3, <3>3, <3>4, <3>5, Zenon
  <2> QED BY <2>1, <2>2, Zenon
<1>7. CoreInv'
  <2>1. epasleep' \subseteq EpWaiter
    BY <1>3, <1>6, Zenon
  <2> QED BY <1>1, <1>2, <1>6, <2>1, WaitCore, Zenon DEF WaitOff
<1>8. WaitersInv'
  BY <1>4, <1>5, <1>6, Zenon DEF WaitInv, WaitersInv
<1>9. SomeoneCollects'
  BY <1>6, Zenon DEF SomeoneCollects
<1>10. Publishers'
  BY <1>4, Zenon DEF WaitInv, Publishers, EvOff
<1> QED BY <1>7, <1>8, <1>9, <1>10, Zenon DEF WaitInv

\* prepare_to_wait: the waiter still has to ask any_ready.
LEMMA PrepareWaits ==
    ASSUME CoreInv, WaitInv, NEW a \in EpWaiter, PrepareEpoll(a)
    PROVE  CoreInv' /\ WaitInv'
<1>1. epc[a] = "prepare" /\ a \in Actor
  BY Zenon DEF PrepareEpoll, Actor
<1>2. UNCHANGED <<counter, source, watch, watching, subscribed, eready, raced>>
  BY Zenon DEF PrepareEpoll
<1>3. epq \in Seq(EpWaiter) /\ epasleep \subseteq Range(epq) /\ IsInjective(epq) /\ epasleep \subseteq EpWaiter
  BY Zenon DEF CoreInv, EpTypes, WaitInv, WaitersInv
<1>4. "prepare" \in WaitOff /\ "recheck" \in WaitOff
  BY Zenon DEF WaitOff
<1>5. CASE a \in epstop
  <2>1. Moves(a, "user", NoLocals) /\ UNCHANGED <<epq, epasleep>>
    BY <1>5, Zenon DEF PrepareEpoll, Over, EpGoto, Moves
  <2>2. CoreInv'
    BY <1>1, <1>2, <1>3, <1>4, <2>1, WaitCore, Zenon
  <2>3. "user" \in EpPC /\ Quiet(a, "user")
    <3>1. eready' = <<>> \/ eready # <<>>
      BY <1>2, Zenon
    <3> QED BY <1>1, <2>1, <3>1, Zenon DEF Quiet, EpPC, Moves, EvOff
  <2> QED BY <1>1, <2>2, <2>3, QuietStep, Zenon
<1>6. CASE a \notin epstop
  <2>1. Moves(a, "recheck", eloc[a]) /\ epq' = Append(epq, a) /\ epasleep' = epasleep \cup {a}
    BY <1>1, <1>6, Zenon DEF PrepareEpoll, EpGoto, Moves, CoreInv, EpTypes
  <2>2. a \notin Range(epq)
    BY <1>1, Zenon DEF WaitInv, WaitersInv
  <2>3. epq' \in Seq(EpWaiter) /\ IsInjective(epq')
    BY <1>3, <2>1, <2>2, AppendFacts, Zenon
  <2>4. PICK s : s = Append(epq, a)
    BY Zenon
  <2>5. \A b : b \in Range(s) <=> b \in Range(epq) \/ b = a
    BY <1>3, <2>4, AppendElements, Zenon
  <2>6. Range(epq') = Range(epq) \cup {a}
    BY <2>1, <2>4, <2>5, Zenon
  <2>7. CoreInv'
    BY <1>1, <1>2, <1>3, <1>4, <2>1, <2>3, WaitCore, Zenon
  <2>8. epc'[a] = "recheck" /\ \A b \in Actor : b # a => epc'[b] = epc[b]
    BY <1>1, <2>1, Zenon DEF Moves, CoreInv, EpTypes
  <2>9. Range(epq) \subseteq Actor
    BY <1>3 DEF Range, Actor
  <2>10. WaitersInv'
    BY <1>3, <2>1, <2>3, <2>6, <2>8, <2>9, Zenon DEF WaitInv, WaitersInv
  <2>11. SomeoneCollects'
    BY <2>8, Zenon DEF SomeoneCollects
  <2>12. Publishers'
    BY <2>8, Zenon DEF WaitInv, Publishers, EvOff
  <2> QED BY <2>7, <2>10, <2>11, <2>12, Zenon DEF WaitInv
<1> QED BY <1>5, <1>6, Zenon

\* A waiter leaves the queue and the sleep.
LEMMA LeaveWaits ==
    ASSUME CoreInv, WaitInv, NEW a \in EpWaiter, NEW p \in {"user", "collect"},
           Moves(a, p, NoLocals) \/ Moves(a, p, eloc[a]), epc[a] \in {"recheck", "asleep"},
           epq' = Keep(epq, EpWaiter \ {a}), epasleep' = epasleep \ {a},
           UNCHANGED <<counter, source, watch, watching, subscribed, eready, raced>>
    PROVE  CoreInv' /\ WaitInv'
<1>1. epq \in Seq(EpWaiter) /\ epasleep \subseteq Range(epq) /\ IsInjective(epq) /\ epasleep \subseteq EpWaiter
  BY Zenon DEF CoreInv, EpTypes, WaitInv, WaitersInv
<1>2. epq' \in Seq(EpWaiter) /\ IsInjective(epq') /\ Range(epq') = Range(epq) \cap (EpWaiter \ {a})
  BY <1>1, KeepFacts, Zenon
<1>3. a \in Actor /\ p \in {"user"} \cup WaitOff /\ epc[a] \in {"user", "wake"} \cup WaitOff
  BY Zenon DEF Actor, WaitOff
<1>4. CoreInv'
  <2>1. epasleep' \subseteq EpWaiter
    BY <1>1, Zenon
  <2> QED BY <1>2, <1>3, <2>1, WaitCore, Zenon
<1>5. epc'[a] = p /\ \A b \in Actor : b # a => epc'[b] = epc[b]
  BY <1>3, Zenon DEF Moves, CoreInv, EpTypes
<1>6. Range(epq) \subseteq Actor
  BY <1>1 DEF Range, Actor
<1>7. WaitersInv'
  BY <1>1, <1>2, <1>5, <1>6, Zenon DEF WaitInv, WaitersInv
<1>8. SomeoneCollects'
  BY Zenon DEF SomeoneCollects
<1>9. Publishers'
  BY <1>5, Zenon DEF WaitInv, Publishers, EvOff
<1> QED BY <1>4, <1>7, <1>8, <1>9, Zenon DEF WaitInv

\* any_ready after prepare_to_wait.
LEMMA RecheckWaits ==
    ASSUME CoreInv, WaitInv, NEW a \in EpWaiter, RecheckEpoll(a)
    PROVE  CoreInv' /\ WaitInv'
<1>1. epc[a] = "recheck" /\ a \in Actor
  BY Zenon DEF RecheckEpoll, Actor
<1>2. UNCHANGED <<counter, source, watch, watching, subscribed, eready, raced>>
  BY Zenon DEF RecheckEpoll
<1>3. CASE eready # <<>>
  <2>1. Moves(a, "collect", eloc[a]) /\ epq' = Keep(epq, EpWaiter \ {a}) /\ epasleep' = epasleep \ {a}
    BY <1>1, <1>3, Zenon DEF RecheckEpoll, EpGoto, Moves, CoreInv, EpTypes
  <2> QED BY <1>1, <1>2, <2>1, LeaveWaits, Zenon
<1>4. CASE eready = <<>>
  <2>1. Moves(a, "asleep", eloc[a]) /\ UNCHANGED <<epq, epasleep>>
    BY <1>1, <1>4, Zenon DEF RecheckEpoll, EpGoto, Moves, CoreInv, EpTypes
  <2>2. "asleep" \in WaitOff /\ "recheck" \in WaitOff /\ epq \in Seq(EpWaiter) /\ epasleep \subseteq EpWaiter
    BY Zenon DEF WaitOff, CoreInv, EpTypes
  <2>3. CoreInv'
    BY <1>1, <1>2, <2>1, <2>2, WaitCore, Zenon
  <2>4. epc'[a] = "asleep" /\ \A b \in Actor : b # a => epc'[b] = epc[b]
    BY <1>1, <2>1, Zenon DEF Moves, CoreInv, EpTypes
  <2>5. Range(epq) \subseteq Actor
    BY <2>2 DEF Range, Actor
  <2>6. WaitersInv'
    BY <2>1, <2>4, <2>5, Zenon DEF WaitInv, WaitersInv
  <2>7. SomeoneCollects'
    BY <1>2, <1>4, Zenon DEF SomeoneCollects
  <2>8. Publishers'
    BY <2>4, Zenon DEF WaitInv, Publishers, EvOff
  <2> QED BY <2>3, <2>6, <2>7, <2>8, Zenon DEF WaitInv
<1> QED BY <1>3, <1>4, Zenon

\* finish_wait.
LEMMA ResumeWaits ==
    ASSUME CoreInv, WaitInv, NEW a \in EpWaiter, ResumeEpoll(a)
    PROVE  CoreInv' /\ WaitInv'
<1>1. epc[a] = "asleep" /\ a \in Actor
  BY Zenon DEF ResumeEpoll, Actor
<1>2. /\ UNCHANGED <<counter, source, watch, watching, subscribed, eready, raced>>
      /\ epq' = Keep(epq, EpWaiter \ {a}) /\ epasleep' = epasleep \ {a}
  BY Zenon DEF ResumeEpoll
<1>3. CASE a \in epstop
  <2>1. Moves(a, "user", NoLocals)
    BY <1>3, Zenon DEF ResumeEpoll, Over, EpGoto, Moves
  <2> QED BY <1>1, <1>2, <2>1, LeaveWaits, Zenon
<1>4. CASE a \notin epstop
  <2>1. Moves(a, "collect", eloc[a])
    BY <1>1, <1>4, Zenon DEF ResumeEpoll, EpGoto, Moves, CoreInv, EpTypes
  <2> QED BY <1>1, <1>2, <2>1, LeaveWaits, Zenon
<1> QED BY <1>3, <1>4, Zenon

\* A signal ends the sleep.
LEMMA SignalWaits ==
    ASSUME CoreInv, WaitInv, NEW a \in EpWaiter, SignalEpoll(a)
    PROVE  CoreInv' /\ WaitInv'
<1>1. epc[a] \in {"prepare", "recheck", "asleep"} /\ a \in Actor
  BY Zenon DEF SignalEpoll, Actor
<1>2. UNCHANGED <<counter, source, watch, watching, subscribed, eready, raced, epq, epc, eloc>> /\ epasleep' = epasleep \ {a}
  BY Zenon DEF SignalEpoll
<1>3. PICK p : p = epc[a]
  BY Zenon
<1>4. Moves(a, p, eloc[a])
  BY <1>1, <1>2, <1>3, Zenon DEF Moves, CoreInv, EpTypes
<1>5. p \in WaitOff
  BY <1>1, <1>3, Zenon DEF WaitOff
<1>6. epq' \in Seq(EpWaiter) /\ epasleep' \subseteq EpWaiter
  BY <1>2, Zenon DEF CoreInv, EpTypes
<1>7. CoreInv'
  BY <1>1, <1>2, <1>3, <1>4, <1>5, <1>6, WaitCore, Zenon
<1>8. WaitersInv' /\ SomeoneCollects' /\ Publishers'
  BY <1>2, Zenon DEF WaitInv, WaitersInv, SomeoneCollects, Publishers
<1> QED BY <1>7, <1>8, Zenon DEF WaitInv

\* The steps of the eventfd, the watch and epoll_ctl neither wake nor sleep.
LEMMA EventfdQuiet ==
    ASSUME CoreInv, NEW a \in EvTask, EventfdWrite(a) \/ EventfdRead(a) \/ Publish(a) \/ Deliver(a)
    PROVE  \E p \in EpPC : Quiet(a, p)
<1>1. {"user", "publish", "deliver", "notice"} \subseteq EpPC
  BY Zenon DEF EpPC, AnyOn, EvOff
<1>2. /\ UNCHANGED <<epq, epasleep, eready>> /\ epc[a] \in {"user", "publish", "deliver"}
      /\ \E p \in {"user", "publish", "deliver", "notice"} : epc' = [epc EXCEPT ![a] = p]
  BY Zenon DEF EventfdWrite, EventfdRead, Eventfd, Publish, Deliver, Over, EpGoto
<1> QED BY <1>1, <1>2, Zenon DEF Quiet

\* readiness_changed and enqueue: whoever fills the empty list wakes next.
LEMMA WatchQuiet ==
    ASSUME CoreInv, NEW a \in Actor, Notice(a) \/ Enqueue(a) \/ PushReady(a) \/ Unqueue(a)
    PROVE  \E p \in EpPC : Quiet(a, p)
<1>1. /\ {"user", "enqueue", "push", "unqueue", "wake"} \subseteq EpPC
      /\ {"user", "enqueue", "push", "unqueue", "wake"} \cap EvOff = {}
  BY Zenon DEF EpPC, AnyOn, EvOff
<1>2. CASE Notice(a) \/ Enqueue(a) \/ Unqueue(a)
  <2>1. /\ UNCHANGED <<epq, epasleep, eready>> /\ epc[a] \in {"notice", "enqueue", "unqueue"}
        /\ \E p \in {"user", "enqueue", "push"} : epc' = [epc EXCEPT ![a] = p]
    BY <1>2, Zenon DEF Notice, Enqueue, Unqueue, Over, EpGoto
  <2> QED BY <1>1, <2>1, Zenon DEF Quiet
<1>3. CASE PushReady(a)
  <2>1. /\ UNCHANGED <<epq, epasleep>> /\ epc[a] = "push"
        /\ \E p \in {"user", "unqueue", "wake"} :
               /\ epc' = [epc EXCEPT ![a] = p]
               /\ UNCHANGED eready \/ p = "wake" \/ eready # <<>>
    BY <1>3, Zenon DEF PushReady, Over, EpGoto
  <2> QED BY <1>1, <2>1, Zenon DEF Quiet
<1> QED BY <1>2, <1>3, Zenon

\* epoll_ctl.
LEMMA ControlQuiet ==
    ASSUME CoreInv, NEW a \in Actor, eready' = <<>> \/ UNCHANGED eready,
           CtlAdd(a) \/ Enable(a) \/ Snapshot(a) \/ CtlMod(a) \/ Modify(a) \/ CtlDel(a) \/ Delete(a)
    PROVE  \E p \in EpPC : Quiet(a, p)
<1>1. /\ {"user", "enable", "snapshot", "notice", "modify", "delete"} \subseteq EpPC
      /\ {"user", "enable", "snapshot", "notice", "modify", "delete"} \cap EvOff = {}
  BY Zenon DEF EpPC, AnyOn, CtlOn, EvOff
<1>2. /\ UNCHANGED <<epq, epasleep>> /\ epc[a] \in {"user", "enable", "snapshot", "modify", "delete"}
      /\ \E p \in {"user", "enable", "snapshot", "notice", "modify", "delete"} : epc' = [epc EXCEPT ![a] = p]
  BY Zenon DEF CtlAdd, Enable, Snapshot, CtlMod, Modify, CtlDel, Delete, Over, EpGoto
<1> QED BY <1>1, <1>2, Zenon DEF Quiet

\* collect_ready.
LEMMA CollectQuiet ==
    ASSUME CoreInv, NEW a \in EpWaiter, Collect(a) \/ Popped(a) \/ Report(a) \/ Rearm(a)
    PROVE  \E p \in EpPC : Quiet(a, p)
<1>1. /\ {"user", "prepare", "popped", "report", "collect", "rearm", "enqueue"} \subseteq EpPC
      /\ {"user", "prepare", "popped", "report", "collect", "rearm", "enqueue"} \cap EvOff = {}
  BY Zenon DEF EpPC, AnyOn, WaitOn, WaitOff, EvOff
<1>2. CASE Collect(a)
  <2>1. /\ UNCHANGED <<epq, epasleep>> /\ epc[a] \in {"user", "collect"}
        /\ UNCHANGED eready \/ eready # <<>>
        /\ \E p \in {"prepare", "popped"} : epc' = [epc EXCEPT ![a] = p]
    BY <1>2, Zenon DEF Collect, EpGoto
  <2> QED BY <1>1, <2>1, Zenon DEF Quiet
<1>3. CASE Popped(a) \/ Report(a) \/ Rearm(a)
  <2>1. /\ UNCHANGED <<epq, epasleep, eready>> /\ epc[a] \in {"popped", "report", "rearm"}
        /\ \E p \in {"user", "report", "collect", "rearm", "enqueue"} : epc' = [epc EXCEPT ![a] = p]
    BY <1>3, Zenon DEF Popped, Report, Rearm, Over, EpGoto
  <2> QED BY <1>1, <2>1, Zenon DEF Quiet
<1> QED BY <1>2, <1>3, Zenon

\* Before the first call there is no watch, and nobody waits.
LEMMA EpollInvInit == EpollInit => CoreInv /\ WaitInv
<1> SUFFICES ASSUME EpollInit PROVE CoreInv /\ WaitInv
  BY Zenon
<1>1. EpTypes
  <2>1. NoLocals \in LocalType /\ "user" \in EpPC
    BY Zenon DEF NoLocals, LocalType, NoWatch, EpPC
  <2>2. source \in [ready : SUBSET {"in", "out"}, gen : Nat, pub : Nat] /\ source.gen >= 1
    BY DEF EpollInit, Readiness
  <2>3. counter \in 0 .. EvMax
    BY EpollAssumption, Zenon DEF EpollInit
  <2>4. /\ watch \in Seq(WatchType) /\ watching \in 0 .. Len(watch) /\ subscribed = watching
        /\ eready \in Seq(Nat) /\ epq \in Seq(EpWaiter) /\ epasleep \subseteq EpWaiter /\ raced \subseteq DOMAIN watch
    BY DEF EpollInit, NoWatch
  <2>5. epc \in [Actor -> EpPC] /\ eloc \in [Actor -> LocalType]
    BY <2>1, Zenon DEF EpollInit
  <2> QED BY <2>2, <2>3, <2>4, <2>5, Zenon DEF EpTypes
<1>2. \A a \in Actor : epc[a] = "user" /\ eloc[a].on = 0
  BY Zenon DEF EpollInit, NoLocals, NoWatch
<1>3. \A a \in Actor : ActorInv(a)
  <2>1. "user" \notin AnyOn \cup CtlOn \cup WaitOn \cup WaitOff /\ 0 \in 0 .. Len(watch)
    BY DEF AnyOn, CtlOn, WaitOn, WaitOff, EpollInit
  <2> QED BY <1>2, <2>1, Zenon DEF ActorInv
<1>4. DOMAIN watch = {} /\ watching = 0 /\ Range(eready) = {} /\ Range(epq) = {} /\ IsInjective(epq) /\ epasleep = {} /\ eready = <<>>
  BY DEF EpollInit, Range, IsInjective, NoWatch
<1>5. Controller \in Actor /\ "user" \notin Closing \cup EvOff
  BY Zenon DEF Actor, Closing, EvOff
<1>6. WatchInv
  BY <1>2, <1>4, <1>5, Zenon DEF WatchInv
<1>7. GenInv
  BY <1>2, <1>4, Zenon DEF GenInv
<1>8. FlagInv /\ CarriedInv
  BY <1>4, Zenon DEF FlagInv, CarriedInv, Live, NoWatch
<1>9. WaitersInv /\ SomeoneCollects /\ Publishers
  BY <1>2, <1>4, <1>5, Zenon DEF WaitersInv, SomeoneCollects, Publishers
<1> QED BY <1>1, <1>3, <1>6, <1>7, <1>8, <1>9, Zenon DEF CoreInv, WaitInv

\* Every step keeps the watch on its way and the waiters in sight.
LEMMA EpollInvStep ==
    ASSUME PublishInv, CoreInv, WaitInv, [EpollNext]_epollVars
    PROVE  CoreInv' /\ WaitInv'
<1>0. EvTask \subseteq Actor /\ EpWaiter \subseteq Actor /\ Controller \in Actor
  BY Zenon DEF Actor
<1>1. ASSUME NEW a \in EvTask, EventfdWrite(a) \/ EventfdRead(a) \/ Publish(a) \/ Deliver(a)
      PROVE  CoreInv' /\ WaitInv'
  <2>1. PICK p \in EpPC : Quiet(a, p)
    BY <1>1, EventfdQuiet, Zenon
  <2>2. WaitInv'
    BY <1>0, <2>1, QuietStep, Zenon
  <2>3. nextver \in Nat /\ counter \in 0 .. EvMax /\ EvMax \in Nat
    BY EpollAssumption, Zenon DEF PublishInv, FieldTypes, CoreInv, EpTypes
  <2>4. CASE EventfdWrite(a)
    <3>1. PICK v \in 1 .. EvMax : counter + v <= EvMax /\ Eventfd(a, counter + v)
      BY <2>4, Zenon DEF EventfdWrite
    <3>2. PICK n : n = counter + v
      BY Zenon
    <3>3. n \in 0 .. EvMax /\ Eventfd(a, n)
      BY <2>3, <3>1, <3>2
    <3> QED BY <2>2, <2>3, <3>3, EventfdCore, Zenon
  <2>5. CASE EventfdRead(a)
    <3>1. Eventfd(a, 0) /\ 0 \in 0 .. EvMax
      BY <2>3, <2>5 DEF EventfdRead
    <3> QED BY <2>2, <2>3, <3>1, EventfdCore, Zenon
  <2> QED BY <1>1, <2>2, <2>4, <2>5, PublishCore, DeliverCore, Zenon
<1>2. ASSUME NEW a \in Actor, Notice(a) \/ Enqueue(a) \/ PushReady(a) \/ Unqueue(a)
      PROVE  CoreInv' /\ WaitInv'
  <2>1. PICK p \in EpPC : Quiet(a, p)
    BY <1>2, WatchQuiet, Zenon
  <2>2. WaitInv'
    BY <2>1, QuietStep, Zenon
  <2> QED BY <1>2, <2>2, NoticeCore, EnqueueCore, PushReadyCore, UnqueueCore, Zenon
<1>3. ASSUME CtlAdd(Controller) \/ Modify(Controller) \/ Delete(Controller)
      PROVE  CoreInv' /\ WaitInv'
  <2>1. CoreInv' /\ eready' = <<>>
    BY <1>3, CtlAddCore, ModifyCore, DeleteCore, Zenon
  <2>2. PICK p \in EpPC : Quiet(Controller, p)
    BY <1>0, <1>3, <2>1, ControlQuiet, Zenon
  <2> QED BY <1>0, <2>1, <2>2, QuietStep, Zenon
<1>4. ASSUME Enable(Controller) \/ Snapshot(Controller) \/ CtlMod(Controller) \/ CtlDel(Controller)
      PROVE  CoreInv' /\ WaitInv'
  <2>1. UNCHANGED eready
    BY <1>4, Zenon DEF Enable, Snapshot, CtlMod, CtlDel
  <2>2. PICK p \in EpPC : Quiet(Controller, p)
    BY <1>0, <1>4, <2>1, ControlQuiet, Zenon
  <2>3. WaitInv'
    BY <1>0, <2>2, QuietStep, Zenon
  <2> QED BY <1>4, <2>3, EnableCore, SnapshotCore, CtlModCore, CtlDelCore, Zenon
<1>5. ASSUME NEW a \in EpWaiter, Collect(a) \/ Popped(a) \/ Report(a) \/ Rearm(a)
      PROVE  CoreInv' /\ WaitInv'
  <2>1. PICK p \in EpPC : Quiet(a, p)
    BY <1>5, CollectQuiet, Zenon
  <2>2. WaitInv'
    BY <1>0, <2>1, QuietStep, Zenon
  <2> QED BY <1>5, <2>2, CollectCore, PoppedCore, ReportCore, RearmCore, Zenon
<1>6. CASE UNCHANGED epollVars
  <2>1. UNCHANGED <<counter, nextver, source, subscribed, watch, watching, eready, epq, epasleep, epstop, raced, epc, eloc>>
    BY <1>6, Zenon DEF epollVars
  <2>2. EpTypes' /\ (\A a \in Actor : ActorInv(a)') /\ WatchInv' /\ GenInv'
    BY <2>1, Zenon DEF CoreInv, EpTypes, ActorInv, WatchInv, GenInv
  <2>3. FlagInv'
    BY <2>1, Zenon DEF CoreInv, FlagInv, OneOwner, FlagSet, FlagGen, Owner, OwnerAt
  <2>4. CarriedInv'
    BY <2>1, Zenon DEF CoreInv, CarriedInv, Live, Carries, CarriesAt
  <2>5. WaitInv'
    BY <2>1, Zenon DEF WaitInv, WaitersInv, SomeoneCollects, Publishers
  <2> QED BY <2>2, <2>3, <2>4, <2>5, Zenon DEF CoreInv
<1> QED BY <1>1, <1>2, <1>3, <1>4, <1>5, <1>6, WakeOneWaits, PrepareWaits, RecheckWaits, ResumeWaits, SignalWaits, Zenon DEF EpollNext

\* The inductive invariant of the epoll.
LEMMA EpollInvHolds == EpollSpec => [](CoreInv /\ WaitInv)
<1>1. EpollInit => PublishInv /\ CoreInv /\ WaitInv
  BY PublishInvInit, EpollInvInit, Zenon
<1>2. PublishInv /\ CoreInv /\ WaitInv /\ [EpollNext]_epollVars => (PublishInv /\ CoreInv /\ WaitInv)'
  BY PublishInvStep, EpollInvStep, Zenon
<1> QED BY <1>1, <1>2, PTL DEF EpollSpec

(* THEOREM.  Whatever the number of waiters, not all of them sleep beside a *)
(* ready list that is not empty, unless the enqueue that filled it has yet  *)
(* to wake one: the any_ready that follows prepare_to_wait closes the gap.  *)
THEOREM WaitersCollect == EpollSpec => []SomeoneCollects
<1>1. CoreInv /\ WaitInv => SomeoneCollects
  BY Zenon DEF WaitInv
<1> QED BY <1>1, EpollInvHolds, PTL

(* THEOREM.  A watch that EPOLL_CTL_DEL removed is never in the ready list, *)
(* whatever deliveries and collections of it were under way.                *)
THEOREM DeletedStaysOut == EpollSpec => []DeletedIsGone
<1>1. CoreInv /\ WaitInv => DeletedIsGone
  BY Zenon DEF CoreInv, WatchInv, DeletedIsGone
<1> QED BY <1>1, EpollInvHolds, PTL

(* THEOREM.  While the eventfd is readable and nothing touches its enabled  *)
(* level-triggered watch, the watch is in the ready list for its current    *)
(* generation, unless a MOD raced with a delivery or collection of it: of   *)
(* all the tasks that drop a delivery because another is to enqueue the     *)
(* watch, one does.                                                         *)
THEOREM WatchNotForgotten == EpollSpec => []ReadyIsQueued
<1>1. ASSUME CoreInv, WaitInv PROVE ReadyIsQueued
  <2>1. SUFFICES ASSUME NEW w \in DOMAIN watch \ raced,
                        w = subscribed, ~watch[w].disabled, "in" \in source.ready,
                        Touching(w) = {}, \A a \in EvTask : epc[a] # "deliver"
                 PROVE  w \in Range(eready) /\ watch[w].qgen = watch[w].gen
    BY Zenon DEF ReadyIsQueued
  <2>2. w = watching /\ watching # 0 /\ watch[watching] \in WatchType
    BY <1>1, <2>1, AtHand DEF CoreInv, EpTypes
  <2>3. PICK o : o = watch[watching]
    BY Zenon
  <2>4. o.disabled = FALSE
    BY <2>1, <2>2, <2>3, Zenon DEF WatchType
  <2>5. Live
    BY <2>1, <2>2, <2>3, <2>4, Zenon DEF Live, NoWatch
  <2>6. \A a \in Actor : ~Carries(a)
    <3>1. \A a \in Actor : eloc[a].on # watching
      BY <2>1, <2>2, Zenon DEF Touching
    <3>2. \A a \in Actor : epc[a] # "deliver"
      BY <1>1, <2>1, Zenon DEF WaitInv, Publishers, EvOff
    <3> QED BY <3>1, <3>2, Zenon DEF Carries, CarriesAt
  <2>7. eready # <<>>
    BY <1>1, <2>5, <2>6, Zenon DEF CoreInv, CarriedInv
  <2>8. w \in Range(eready)
    <3>1. Range(eready) # {}
      BY <1>1, <2>7, EmptyRange, Zenon DEF CoreInv, EpTypes
    <3> QED BY <1>1, <2>2, <3>1, Zenon DEF CoreInv, WatchInv
  <2>9. FlagSet(o) /\ FlagGen(o)
    BY <1>1, <2>1, <2>2, <2>3, Zenon DEF CoreInv, FlagInv, NoWatch
  <2>10. o.queued = TRUE
    BY <2>7, <2>9, Zenon DEF FlagSet
  <2>11. o.qgen = o.gen
    BY <2>4, <2>9, <2>10, Zenon DEF FlagGen
  <2> QED BY <2>2, <2>3, <2>8, <2>11, Zenon
<1> QED BY <1>1, EpollInvHolds, PTL

(* THEOREM.  Types: the watches named exist, the ready list holds a watch   *)
(* once unless a MOD raced, and the waiters queued are in epoll_wait.       *)
THEOREM EpollTypes == EpollSpec => []EpollTypeOK
<1>1. ASSUME CoreInv, WaitInv PROVE EpollTypeOK
  <2>1. counter \in 0 .. EvMax /\ source.ready \subseteq {"in", "out"} /\ {subscribed, watching} \subseteq 0 .. Len(watch)
    BY <1>1, Zenon DEF CoreInv, EpTypes
  <2>2. Range(eready) \subseteq DOMAIN watch
    BY <1>1, AtHand, Zenon DEF CoreInv, WatchInv, NoWatch
  <2>3. ASSUME raced = {} PROVE IsInjective(eready)
    <3>1. eready \in Seq(Nat) /\ (watching = 0 => Range(eready) = {})
      BY <1>1, Zenon DEF CoreInv, EpTypes, WatchInv, NoWatch
    <3>2. watching = 0 => eready = <<>>
      BY <3>1, EmptyRange, Zenon
    <3>3. watching # 0 => Len(eready) <= 1
      BY <1>1, <2>3, Zenon DEF CoreInv, FlagInv, OneOwner, NoWatch
    <3>4. Len(eready) <= 1 /\ Len(eready) \in Nat /\ DOMAIN eready = 1 .. Len(eready)
      BY <3>1, <3>2, <3>3
    <3>5. \A i, j \in DOMAIN eready : i = j
      BY <3>4
    <3> QED BY <3>5, Zenon DEF IsInjective
  <2>4. IsInjective(epq) /\ epasleep \subseteq EpWaiter /\ \A a \in Range(epq) \cup epasleep : epc[a] \in {"recheck", "asleep"}
    BY <1>1, Zenon DEF CoreInv, EpTypes, WaitInv, WaitersInv
  <2> QED BY <2>1, <2>2, <2>3, <2>4, Zenon DEF EpollTypeOK
<1> QED BY <1>1, EpollInvHolds, PTL

=============================================================================
