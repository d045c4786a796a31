----------------------------- MODULE NetWorker -----------------------------
(***************************************************************************)
(* A network worker going to sleep while work arrives from everywhere      *)
(* (kernel/src/net_runtime.rs).  The worker drains its rings, serves the   *)
(* device queue and the protocol timer, and sleeps when it finds nothing.  *)
(* Work reaches it through                                                 *)
(*   - a ring: push, then WorkSignal::publish_work, whose result says      *)
(*     whether the owner has announced its sleep and must be woken;        *)
(*   - the protocol timer: deadline_expired sets timer_fired and publishes;*)
(*   - the device: an interrupt, a latch and a deferred wake.              *)
(* The five rings of a ProtocolRuntime are one ring here, an MpscQueue,    *)
(* and its device queues one queue.  A behaviour has the sources of work   *)
(* that one member of SourceSets names.                                    *)
(*                                                                         *)
(* The scheduler is taken at the word of enqueue_task, "set the owner CPU, *)
(* enter the run queue, request a reschedule", in one step; module         *)
(* SchedCore looks inside it.                                              *)
(***************************************************************************)
EXTENDS MpscQueue

CONSTANTS
    SourceSets,     \* the combinations of sources of work considered
    Budget,         \* entries taken from the ring in one turn
    Deadline,       \* the deadlines the protocol may ask for
    MaxRegistration \* bound: deadline observers registered

VARIABLES
    npc,            \* where the worker is
    workerState,    \* Task::state of the worker
    current,        \* is the worker executing, in the eyes of its run queue?
    work,           \* WORK_PENDING of the WorkSignal
    sleeping,       \* OWNER_SLEEPING of the WorkSignal
    popped,         \* entries taken in this turn
    busy,           \* did this turn serve the device queue?
    wpc,            \* waker -> where it is
    sources,        \* where work comes from in this behaviour
    deadline,       \* the protocol's next deadline, 0 for none (a local)
    registration,   \* deadline_registration
    deadlineNs,     \* deadline_ns
    timerFired,     \* timer_fired
    observers,      \* DEADLINE_OBSERVERS: registration -> deadline
    lastId,         \* the last registration given out
    loaded,         \* the registration arm_timer has read (a local)
    firing,         \* the registration the timer interrupt is firing
    used,           \* has the device completed work the worker has not seen?
    noInterrupt,    \* VIRTQ_AVAIL_F_NO_INTERRUPT: the device may not interrupt
    isr,            \* the interrupt status register
    latch,          \* ResidentQueueIrq::pending
    hpc,            \* where the interrupt handler is
    deferred        \* is the worker in a list of deferred wakes?

ownerVars == <<workerState, current>>
signalVars == <<work, sleeping>>
turnVars == <<popped, busy>>
timerVars == <<deadline, registration, deadlineNs, timerFired, observers, lastId, loaded,
              firing>>
deviceVars == <<used, noInterrupt, isr, latch, hpc>>
workerVars == <<queue, out, npc, workerState, current, work, sleeping, popped, busy, wpc, sources,
          deadline, registration, deadlineNs, timerFired, observers, lastId, loaded, firing,
          used, noInterrupt, isr, latch, hpc, deferred>>

Timer == "timer"            \* the timer interrupt, as a source and as a waker
Device == "device"          \* the device queue, as a source
Deferred == "deferred"      \* schedule_once draining deferred wakes, as a waker
Waker == Producer \cup {Timer, Deferred}

ASSUME WorkerAssumption ==
    /\ {Timer, Device, Deferred} \cap Producer = {}
    /\ \A mix \in SourceSets : mix \subseteq Producer \cup {Timer, Device}
    /\ Budget \in Nat \ {0}
    /\ Deadline \subseteq Nat \ {0}
    /\ MaxRegistration \in Nat

WorkerInit ==
    /\ QueueInit
    /\ npc = "pump" /\ workerState = "Running" /\ current = TRUE
    /\ work = FALSE /\ sleeping = FALSE
    /\ popped = 0 /\ busy = FALSE
    /\ wpc = [w \in Waker |-> "idle"]
    /\ sources \in SourceSets
    /\ deadline = 0 /\ registration = 0 /\ deadlineNs = 0
    /\ timerFired = FALSE /\ observers = <<>> /\ lastId = 0 /\ loaded = 0 /\ firing = 0
    /\ used = FALSE /\ noInterrupt = TRUE /\ isr = FALSE /\ latch = FALSE /\ hpc = "idle"
    /\ deferred = FALSE

-----------------------------------------------------------------------------
(* Producers: push, publish, and wake the owner if it has announced sleep.  *)

(* A waker that is through; the timer interrupt has its observer to remove. *)
Done(w) == IF w = Timer THEN "done" ELSE "idle"

Waking(w, from, to) == wpc[w] = from /\ wpc' = [wpc EXCEPT ![w] = to]

PushReserve(p) ==
    /\ p \in sources
    /\ Waking(p, "idle", "fill")
    /\ \E v \in Value : Reserve(p, v)
    /\ UNCHANGED <<npc, ownerVars, signalVars, turnVars, timerVars, deviceVars, deferred>>

PushFill(p) ==
    /\ Waking(p, "fill", "publish")
    /\ Fill(p)
    /\ UNCHANGED <<npc, ownerVars, signalVars, turnVars, timerVars, deviceVars, deferred>>

(* A full ring: the producer publishes, yields and tries again. *)
PushRefused(p) ==
    /\ p \in sources /\ Len(queue) = Capacity
    /\ Waking(p, "idle", "publish")
    /\ UNCHANGED <<queueVars, npc, ownerVars, signalVars, turnVars, timerVars, deviceVars, deferred>>

(* WorkSignal::publish_work: one fetch_or, which also reads the sleep bit. *)
PublishWork(w) ==
    /\ Waking(w, "publish", IF sleeping THEN "test" ELSE Done(w))
    /\ work' = TRUE
    /\ UNCHANGED <<queueVars, npc, ownerVars, sleeping, turnVars, timerVars, deviceVars, deferred>>

(* wake_owner: activate_task refuses a task that runs. *)
TestState(w) ==
    /\ Waking(w, "test", IF workerState = "Running" THEN Done(w) ELSE "enqueue")
    /\ UNCHANGED <<queueVars, npc, ownerVars, signalVars, turnVars, timerVars, deviceVars, deferred>>

(* enqueue_task: a current task is set Running where it is; one that has    *)
(* left its CPU enters a run queue.                                         *)
EnqueueOwner(w) ==
    /\ Waking(w, "enqueue", Done(w))
    /\ workerState' = IF current THEN "Running" ELSE "Runnable"
    /\ UNCHANGED <<queueVars, npc, current, signalVars, turnVars, timerVars, deviceVars, deferred>>

-----------------------------------------------------------------------------
(* The timer interrupt: fire_expired_deadline_observers, deadline_expired.  *)

Without(id) == [i \in DOMAIN observers \ {id} |-> observers[i]]

(* Time is not kept: any registered deadline may have been reached by now.  *)
FireExpired ==
    /\ Waking(Timer, "idle", "claim")
    /\ \E id \in DOMAIN observers : firing' = id
    /\ UNCHANGED <<queueVars, npc, ownerVars, signalVars, turnVars, deadline, registration,
                   deadlineNs, timerFired, observers, lastId, loaded, deviceVars, deferred>>

(* deadline_expired: only the registration in force may fire. *)
ClaimRegistration ==
    /\ Waking(Timer, "claim", IF registration = firing THEN "clear_ns" ELSE "done")
    /\ registration' = IF registration = firing THEN 0 ELSE registration
    /\ UNCHANGED <<queueVars, npc, ownerVars, signalVars, turnVars, deadline, deadlineNs,
                   timerFired, observers, lastId, loaded, firing, deviceVars, deferred>>

ClearDeadlineNs ==
    /\ Waking(Timer, "clear_ns", "set_fired")
    /\ deadlineNs' = 0
    /\ UNCHANGED <<queueVars, npc, ownerVars, signalVars, turnVars, deadline, registration,
                   timerFired, observers, lastId, loaded, firing, deviceVars, deferred>>

SetTimerFired ==
    /\ Waking(Timer, "set_fired", "publish")
    /\ timerFired' = TRUE
    /\ UNCHANGED <<queueVars, npc, ownerVars, signalVars, turnVars, deadline, registration,
                   deadlineNs, observers, lastId, loaded, firing, deviceVars, deferred>>

RemoveFired ==
    /\ Waking(Timer, "done", "idle")
    /\ observers' = Without(firing)
    /\ firing' = 0
    /\ UNCHANGED <<queueVars, npc, ownerVars, signalVars, turnVars, deadline, registration,
                   deadlineNs, timerFired, lastId, loaded, deviceVars, deferred>>

-----------------------------------------------------------------------------
(* The device and its interrupt handler (ResidentQueueIrq::handle_irq).     *)

DeviceCompletes ==
    /\ Device \in sources
    /\ used' = TRUE
    /\ isr' = (isr \/ ~noInterrupt)
    /\ UNCHANGED <<queueVars, npc, ownerVars, signalVars, turnVars, wpc, timerVars, noInterrupt,
                   latch, hpc, deferred>>

IrqAcknowledge ==
    /\ hpc = "idle" /\ isr
    /\ isr' = FALSE
    /\ hpc' = "mask"
    /\ UNCHANGED <<queueVars, npc, ownerVars, signalVars, turnVars, wpc, timerVars, used,
                   noInterrupt, latch, deferred>>

IrqMask ==
    /\ hpc = "mask"
    /\ noInterrupt' = TRUE
    /\ hpc' = "latch"
    /\ UNCHANGED <<queueVars, npc, ownerVars, signalVars, turnVars, wpc, timerVars, used, isr,
                   latch, deferred>>

(* Only the handler that sets the latch wakes. *)
IrqLatch ==
    /\ hpc = "latch"
    /\ latch' = TRUE
    /\ hpc' = IF latch THEN "idle" ELSE "wake"
    /\ UNCHANGED <<queueVars, npc, ownerVars, signalVars, turnVars, wpc, timerVars, used,
                   noInterrupt, isr, deferred>>

IrqWake ==
    /\ hpc = "wake"
    /\ deferred' = TRUE
    /\ hpc' = "idle"
    /\ UNCHANGED <<queueVars, npc, ownerVars, signalVars, turnVars, wpc, timerVars, used,
                   noInterrupt, isr, latch>>

(* schedule_once takes the worker off the list, then tests and enqueues it. *)
DrainDeferred ==
    /\ deferred
    /\ Waking(Deferred, "idle", "test")
    /\ deferred' = FALSE
    /\ UNCHANGED <<queueVars, npc, ownerVars, signalVars, turnVars, timerVars, deviceVars>>

-----------------------------------------------------------------------------
(* The worker's turn. *)

Step(from, to) == npc = from /\ npc' = to

(* pump_local_queues, before and after the protocol has run. *)
Pump ==
    /\ Step("pump", "drain") \/ Step("pump_again", "arm")
    /\ busy' = (busy \/ used)
    /\ used' = FALSE
    /\ UNCHANGED <<queueVars, ownerVars, signalVars, popped, wpc, timerVars, noInterrupt, isr, latch, hpc,
                   deferred>>

(* Take up to Budget entries, fewer when the ring runs dry. *)
DrainOne ==
    /\ Step("drain", IF popped + 1 = Budget THEN "protocol" ELSE "drain")
    /\ Pop
    /\ popped' = popped + 1
    /\ UNCHANGED <<ownerVars, signalVars, busy, wpc, timerVars, deviceVars, deferred>>

DrainEnds ==
    /\ Step("drain", "protocol")
    /\ PopNothing
    /\ UNCHANGED <<ownerVars, signalVars, turnVars, wpc, timerVars, deviceVars, deferred>>

(* The timer flag is cleared, then execute_protocol_turn serves what is due *)
(* and returns the next deadline, which nobody else sees.                   *)
ProtocolTurn ==
    /\ Step("protocol", "pump_again")
    /\ timerFired' = FALSE
    /\ \/ deadline' = 0
       \/ Timer \in sources /\ lastId < MaxRegistration /\ deadline' \in Deadline
    /\ UNCHANGED <<queueVars, ownerVars, signalVars, turnVars, wpc, registration, deadlineNs,
                   observers, lastId, loaded, firing, deviceVars, deferred>>

(* arm_timer: leave a registration for the same deadline alone, cancel any  *)
(* other, and register anew.                                                *)
ArmLoad ==
    /\ Step("arm", IF registration = 0 THEN "arm_store" ELSE "arm_compare")
    /\ loaded' = registration
    /\ UNCHANGED <<queueVars, ownerVars, signalVars, turnVars, wpc, deadline, registration,
                   deadlineNs, timerFired, observers, lastId, firing, deviceVars, deferred>>

(* Mutant: a registration for any deadline is good enough. *)
ArmCompareAnyDeadline ==
    /\ Step("arm_compare", "keep_running")
    /\ loaded' = 0
    /\ UNCHANGED <<queueVars, ownerVars, signalVars, turnVars, wpc, deadline, registration,
                   deadlineNs, timerFired, observers, lastId, firing, deviceVars, deferred>>

ArmCompare ==
    /\ npc = "arm_compare"
    /\ \/ deadlineNs = deadline /\ npc' = "keep_running" /\ loaded' = 0
       \/ deadlineNs # deadline /\ npc' = "arm_cancel" /\ UNCHANGED loaded
    /\ UNCHANGED <<queueVars, ownerVars, signalVars, turnVars, wpc, deadline, registration,
                   deadlineNs, timerFired, observers, lastId, firing, deviceVars, deferred>>

ArmCancel ==
    /\ Step("arm_cancel", "arm_clear")
    /\ observers' = Without(loaded)
    /\ loaded' = 0
    /\ UNCHANGED <<queueVars, ownerVars, signalVars, turnVars, wpc, deadline, registration,
                   deadlineNs, timerFired, lastId, firing, deviceVars, deferred>>

ArmClear ==
    /\ Step("arm_clear", "arm_store")
    /\ registration' = 0
    /\ UNCHANGED <<queueVars, ownerVars, signalVars, turnVars, wpc, deadline, deadlineNs,
                   timerFired, observers, lastId, loaded, firing, deviceVars, deferred>>

ArmStore ==
    /\ Step("arm_store", IF deadline = 0 THEN "keep_running" ELSE "arm_reserve")
    /\ deadlineNs' = deadline
    /\ UNCHANGED <<queueVars, ownerVars, signalVars, turnVars, wpc, deadline, registration,
                   timerFired, observers, lastId, loaded, firing, deviceVars, deferred>>

ArmReserve ==
    /\ Step("arm_reserve", "arm_register")
    /\ lastId' = lastId + 1
    /\ registration' = lastId + 1
    /\ UNCHANGED <<queueVars, ownerVars, signalVars, turnVars, wpc, deadline, deadlineNs,
                   timerFired, observers, loaded, firing, deviceVars, deferred>>

(* register_deadline_observer enters the table, or refuses a deadline that  *)
(* has passed (ArmLate).                                                    *)
ArmRegister ==
    /\ Step("arm_register", "keep_running")
    /\ observers' = [i \in DOMAIN observers \cup {lastId} |->
                       IF i = lastId THEN deadline ELSE observers[i]]
    /\ UNCHANGED <<queueVars, ownerVars, signalVars, turnVars, wpc, deadline, registration,
                   deadlineNs, timerFired, lastId, loaded, firing, deviceVars, deferred>>

(* A late deadline is a timer that has fired.  The registration was never   *)
(* in the table and the owner is awake, so nobody sees these steps apart.   *)
ArmLate ==
    /\ Step("arm_register", "keep_running")
    /\ registration' = 0
    /\ deadlineNs' = 0
    /\ timerFired' = TRUE
    /\ work' = TRUE
    /\ UNCHANGED <<queueVars, ownerVars, sleeping, turnVars, wpc, deadline, observers, lastId,
                   loaded, firing, deviceVars, deferred>>

-----------------------------------------------------------------------------
(* keep_running, with WorkSignal::finish_drain: clear the work bit, look at *)
(* every source again, and set it back when one has work.                   *)

Look(from, found, next, there) ==
    /\ Step(from, IF there THEN found ELSE next)
    /\ UNCHANGED <<queueVars, ownerVars, signalVars, turnVars, wpc, timerVars, deviceVars, deferred>>

(* A turn that used up its budget or served the device goes on to another;  *)
(* only one that did neither clears the bit.                                *)
KeepRunning ==
    /\ \/ Step("keep_running", "pump") /\ (popped = Budget \/ busy) /\ work' = work
       \/ Step("keep_running", "visible_ring") /\ popped < Budget /\ ~busy /\ work' = FALSE
    /\ popped' = 0 /\ busy' = FALSE
    /\ UNCHANGED <<queueVars, ownerVars, sleeping, wpc, timerVars, deviceVars, deferred>>

WorkVisible ==
    \/ Look("visible_ring", "set_work", "visible_timer", queue # <<>>)
    \/ Look("visible_timer", "set_work", "visible_queue", timerFired)
    \/ Look("visible_queue", "pump", "begin_sleep", used)

SetWork ==
    /\ Step("set_work", "pump")
    /\ work' = TRUE
    /\ UNCHANGED <<queueVars, ownerVars, sleeping, turnVars, wpc, timerVars, deviceVars, deferred>>

-----------------------------------------------------------------------------
(* sleep_until_work. *)

BeginSleep ==
    /\ Step("begin_sleep", IF work THEN "end_sleep" ELSE "set_sleeping")
    /\ sleeping' = TRUE
    /\ UNCHANGED <<queueVars, ownerVars, work, turnVars, wpc, timerVars, deviceVars, deferred>>

SetSleeping ==
    /\ Step("set_sleeping", "unmask")
    /\ workerState = "Running"
    /\ workerState' = "Sleeping"
    /\ UNCHANGED <<queueVars, current, signalVars, turnVars, wpc, timerVars, deviceVars, deferred>>

(* ResidentQueueIrq::unmask: arm first, consume the latch afterwards. *)
UnmaskRings ==
    /\ Step("unmask", "unmask_latch")
    /\ noInterrupt' = FALSE
    /\ UNCHANGED <<queueVars, ownerVars, signalVars, turnVars, wpc, timerVars, used, isr, latch, hpc,
                   deferred>>

UnmaskLatch ==
    /\ Step("unmask_latch", "recheck_signal")
    /\ latch' = FALSE
    /\ deferred' = (deferred \/ latch)
    /\ UNCHANGED <<queueVars, ownerVars, signalVars, turnVars, wpc, timerVars, used, noInterrupt, isr,
                   hpc>>

(* Mutant: the last look leaves the device queue out. *)
RecheckWithoutQueue ==
    \/ Look("recheck_signal", "mask", "recheck_timer", work)
    \/ Look("recheck_timer", "mask", "recheck_ring", timerFired)
    \/ Look("recheck_ring", "mask", "recheck_queue", queue # <<>>)
    \/ Look("recheck_queue", "mask", "switch", FALSE)

Recheck ==
    \/ Look("recheck_signal", "mask", "recheck_timer", work)
    \/ Look("recheck_timer", "mask", "recheck_ring", timerFired)
    \/ Look("recheck_ring", "mask", "recheck_queue", queue # <<>>)
    \/ Look("recheck_queue", "mask", "switch", used)

(* ResidentQueueIrq::ack_and_mask, when a recheck calls the sleep off. *)
MaskRings ==
    /\ Step("mask", "mask_ack")
    /\ noInterrupt' = TRUE
    /\ UNCHANGED <<queueVars, ownerVars, signalVars, turnVars, wpc, timerVars, used, isr, latch, hpc,
                   deferred>>

MaskAcknowledge ==
    /\ Step("mask_ack", "mask_latch")
    /\ isr' = FALSE
    /\ UNCHANGED <<queueVars, ownerVars, signalVars, turnVars, wpc, timerVars, used, noInterrupt,
                   latch, hpc, deferred>>

MaskLatch ==
    /\ Step("mask_latch", "call_off")
    /\ latch' = FALSE
    /\ UNCHANGED <<queueVars, ownerVars, signalVars, turnVars, wpc, timerVars, used, noInterrupt, isr,
                   hpc, deferred>>

CallOff ==
    /\ Step("call_off", "end_sleep")
    /\ workerState' = "Running"
    /\ UNCHANGED <<queueVars, current, signalVars, turnVars, wpc, timerVars, deviceVars, deferred>>

(* Mutant: a wake-up between the recheck and the switch is not noticed. *)
SwitchOutRegardless ==
    /\ Step("switch", "parked")
    /\ current' = FALSE
    /\ UNCHANGED <<queueVars, workerState, signalVars, turnVars, wpc, timerVars, deviceVars, deferred>>

(* schedule_once leaves the CPU unless the sleep was withdrawn meanwhile. *)
SwitchOut ==
    /\ Step("switch", IF workerState = "Running" THEN "end_sleep" ELSE "parked")
    /\ current' = (workerState = "Running")
    /\ UNCHANGED <<queueVars, workerState, signalVars, turnVars, wpc, timerVars, deviceVars, deferred>>

Dispatch ==
    /\ Step("parked", "end_sleep")
    /\ workerState = "Runnable"
    /\ workerState' = "Running"
    /\ current' = TRUE
    /\ UNCHANGED <<queueVars, signalVars, turnVars, wpc, timerVars, deviceVars, deferred>>

EndSleep ==
    /\ Step("end_sleep", "pump")
    /\ sleeping' = FALSE
    /\ UNCHANGED <<queueVars, ownerVars, work, turnVars, wpc, timerVars, deviceVars, deferred>>

-----------------------------------------------------------------------------
Turn ==
    \/ Pump \/ DrainOne \/ DrainEnds \/ ProtocolTurn
    \/ ArmLoad \/ ArmCompare \/ ArmCancel \/ ArmClear \/ ArmStore \/ ArmReserve \/ ArmRegister
    \/ ArmLate \/ KeepRunning \/ WorkVisible \/ SetWork

Sleep ==
    \/ BeginSleep \/ SetSleeping \/ UnmaskRings \/ UnmaskLatch \/ Recheck
    \/ MaskRings \/ MaskAcknowledge \/ MaskLatch \/ CallOff \/ SwitchOut \/ Dispatch \/ EndSleep

Worker == Turn \/ Sleep

WakeOwner(w) == PublishWork(w) \/ TestState(w) \/ EnqueueOwner(w)

TimerInterrupt ==
    \/ FireExpired \/ ClaimRegistration \/ ClearDeadlineNs \/ SetTimerFired \/ RemoveFired
    \/ WakeOwner(Timer)

DeviceInterrupt == IrqAcknowledge \/ IrqMask \/ IrqLatch \/ IrqWake

DeferredWakes == DrainDeferred \/ WakeOwner(Deferred)

Push(p) == PushReserve(p) \/ PushRefused(p)

FinishPush(p) == PushFill(p) \/ WakeOwner(p)

WorkerNext ==
    /\ \/ Worker \/ TimerInterrupt \/ DeviceInterrupt \/ DeferredWakes
       \/ \E p \in Producer : Push(p) \/ FinishPush(p)
       \/ DeviceCompletes
    /\ UNCHANGED sources

WorkerSpec == WorkerInit /\ [][WorkerNext]_workerVars

(* Whoever has begun goes on: the worker when it is on its CPU or in a run  *)
(* queue, the interrupts, the deferred wakes, and a producer inside a push. *)
(* Time passes, so a registered deadline comes.  Nobody is obliged to push, *)
(* and the device is not obliged to complete anything.                      *)
Fairness ==
    /\ WF_workerVars(Worker /\ UNCHANGED sources)
    /\ WF_workerVars(TimerInterrupt /\ UNCHANGED sources)
    /\ WF_workerVars(DeviceInterrupt /\ UNCHANGED sources)
    /\ WF_workerVars(DeferredWakes /\ UNCHANGED sources)
    /\ \A p \in Producer : WF_workerVars(FinishPush(p) /\ UNCHANGED sources)

WorkerFairSpec == WorkerSpec /\ Fairness

-----------------------------------------------------------------------------
Asleep == npc = "parked" /\ workerState = "Sleeping"

(* Somebody is on the way to enqueue the worker. *)
WakeComing ==
    \/ deferred \/ hpc = "wake"
    \/ \E w \in Waker : wpc[w] \in {"publish", "test", "enqueue"}

(* The worker never sleeps on work: if it is off its CPU and not in a run   *)
(* queue, then whatever is in its ring, its timer flag or its device queue  *)
(* still has a wake-up on the way.  sleep_until_work may miss none of them  *)
(* between its last look and the switch.                                    *)
NeverSleepsOnWork ==
    Asleep =>
        /\ queue # <<>> => WakeComing \/ \E p \in Producer : wpc[p] = "fill"
        /\ timerFired => WakeComing
        /\ used => WakeComing \/ isr \/ hpc # "idle"

(* A deadline the protocol asked for is not forgotten: while the worker     *)
(* sleeps there is an observer registered for it, or its timer is already   *)
(* firing.  arm_timer and deadline_expired race over deadline_registration  *)
(* and deadline_ns.                                                         *)
DeadlineIsArmed ==
    Asleep /\ deadline # 0 =>
        \/ registration \in DOMAIN observers /\ observers[registration] = deadline
        \/ wpc[Timer] \in {"clear_ns", "set_fired"} \/ WakeComing

(* The worker serves every source that wakes it, at whatever point of the   *)
(* way to sleep the work arrives: an entry in its ring, a completion of its *)
(* device queue, and a deadline outstanding while it sleeps all lead to a   *)
(* new turn, which polls the device, drains the ring and runs the protocol. *)
EverySourceIsServed ==
    (queue # <<>> \/ used \/ (Asleep /\ deadline # 0)) ~> (npc = "drain")
=============================================================================
