------------------------------ MODULE IdleWake ------------------------------
(***************************************************************************)
(* How a CPU that has nothing to run goes to sleep in hardware without     *)
(* missing a remote enqueue: the idle loop of libs/sched, the resched      *)
(* request and its coalesced notification (scheduler_state.rs), and the    *)
(* idle_relax and IPI entry of riscv64 and loongarch64.  x86_64 is left    *)
(* out: its idle_relax is a pause that never sleeps.                       *)
(*                                                                         *)
(* One CPU, and producers on other CPUs that each wake a task of their own *)
(* or only ask the CPU to schedule.  There is no timer tick: a missed      *)
(* wake-up may not be hidden by it.                                        *)
(***************************************************************************)
EXTENDS Naturals

CONSTANTS
    Sender,         \* remote CPUs, each with a task it wakes
    Archs           \* the architectures the kernel may be built for

ASSUME IdleAssumption == Archs \subseteq {"riscv64", "loongarch64"}

VARIABLES
    arch,           \* the architecture of this kernel
    runq,           \* the tasks in the CPU's run queue, by producer
    need,           \* CpuSchedState.need_resched
    notified,       \* CpuSchedState.resched_notification_pending
    ipi,            \* the interrupt is pending in hardware (SSIP, IPI_STATUS)
    waiting,        \* IDLE_WAITING (loongarch64)
    cpc,            \* where the CPU is
    back,           \* where the interrupted idle task resumes, or "none"
    nested,         \* a kernel-mode trap has yet to acknowledge
    running,        \* the task that runs, as a set
    ppc             \* where each producer is

idleVars == <<arch, runq, need, notified, ipi, waiting, cpc, back, nested,
              running, ppc>>
hints == <<need, notified, ipi>>

IdleInit ==
    /\ arch \in Archs
    /\ runq = {} /\ running = {}
    /\ need = FALSE /\ notified = FALSE /\ ipi = FALSE /\ waiting = FALSE
    /\ cpc = "take" /\ back = "none" /\ nested = FALSE
    /\ ppc = [p \in Sender |-> "idle"]

------------------------------------------------------------------------------
(* A producer: enqueue_task, request_resched, notify_resched. *)

PGoto(p, l) == ppc' = [ppc EXCEPT ![p] = l]

Enqueue(p) ==
    /\ ppc[p] = "idle" /\ p \notin runq \cup running
    /\ runq' = runq \cup {p}
    /\ PGoto(p, "request")
    /\ UNCHANGED <<hints, waiting, cpc, back, running>>

\* A request without a task: signal_wakeup and forced_exit_wakeup of a task
\* that is running, request_balance.
Kick(p) ==
    /\ ppc[p] = "idle"
    /\ PGoto(p, "request")
    /\ UNCHANGED <<runq, hints, waiting, cpc, back, running>>

RequestResched(p) ==
    /\ ppc[p] = "request"
    /\ need' = TRUE
    /\ PGoto(p, "claim")
    /\ UNCHANGED <<runq, notified, ipi, waiting, cpc, back, running>>

\* claim_resched_notification: whoever finds the bit clear sends.
ClaimNotification(p) ==
    /\ ppc[p] = "claim"
    /\ notified' = TRUE
    /\ PGoto(p, IF notified THEN "idle" ELSE "send")
    /\ UNCHANGED <<runq, need, ipi, waiting, cpc, back, running>>

SendResched(p) ==
    /\ ppc[p] = "send"
    /\ ipi' = TRUE
    /\ PGoto(p, "idle")
    /\ UNCHANGED <<runq, need, notified, waiting, cpc, back, running>>

------------------------------------------------------------------------------
(* The idle loop: service_idle_scheduler_requests, schedule_once,          *)
(* idle_relax; interrupts are off outside idle_relax.                      *)

\* take_resched swaps need_resched first ...
TakeResched ==
    /\ cpc = "take"
    /\ need' = FALSE
    /\ cpc' = "sched_clear"
    /\ UNCHANGED <<runq, notified, ipi, waiting, back, running, ppc>>

\* ... and then clears the notification.
TakeClear ==
    /\ cpc \in {"sched_clear", "skip_clear"}
    /\ notified' = FALSE
    /\ cpc' = IF cpc = "sched_clear" THEN "sched"
              ELSE IF running # {} THEN "task" ELSE "remark"
    /\ UNCHANGED <<runq, need, ipi, waiting, back, running, ppc>>

\* preempt_if_needed of a trap: take_resched, then schedule_once if it was
\* requested.
Preempt ==
    /\ cpc = "preempt"
    /\ need' = FALSE
    /\ cpc' = IF need THEN "sched_clear" ELSE "skip_clear"
    /\ UNCHANGED <<runq, notified, ipi, waiting, back, running, ppc>>

\* schedule_once clears the notification before it picks.
Schedule ==
    /\ cpc = "sched"
    /\ notified' = FALSE
    /\ cpc' = "pick"
    /\ UNCHANGED <<runq, need, ipi, waiting, back, running, ppc>>

\* A task is switched in (a preempted one goes back to the queue first), or
\* the idle task goes on: to idle_relax, or back into the IPI handler it was
\* switched out from.
Pick ==
    /\ cpc = "pick"
    /\ \/ \E p \in runq \cup running :
            /\ runq' = (runq \cup running) \ {p}
            /\ running' = {p}
            /\ cpc' = "task"
       \/ /\ runq \cup running = {}
          /\ cpc' = IF back = "none" THEN "relax" ELSE "remark"
          /\ UNCHANGED <<runq, running>>
    /\ UNCHANGED <<hints, waiting, back, ppc>>

\* The running task blocks and calls schedule_once.
Block ==
    /\ cpc = "task"
    /\ running' = {}
    /\ cpc' = "sched"
    /\ UNCHANGED <<runq, hints, waiting, back, ppc>>

\* An IPI in user mode: the handler clears the interrupt, then acknowledges
\* the notification, then preempt_if_needed.
TaskInterrupt ==
    /\ cpc = "task" /\ ipi
    /\ ipi' = FALSE
    /\ cpc' = "task_ack"
    /\ UNCHANGED <<runq, need, notified, waiting, back, running, ppc>>

TaskAcknowledge ==
    /\ cpc = "task_ack"
    /\ notified' = FALSE
    /\ cpc' = "preempt"
    /\ UNCHANGED <<runq, need, ipi, waiting, back, running, ppc>>

\* A trap from kernel mode outside the window of idle_relax, where interrupts
\* may be on: it clears the interrupt and acknowledges, nothing more.
KernelInterrupt ==
    /\ cpc \in {"take", "sched_clear", "skip_clear", "relax", "preempt", "remark"}
    /\ ~nested /\ ipi
    /\ ipi' = FALSE
    /\ nested' = TRUE
    /\ UNCHANGED <<arch, runq, need, notified, waiting, cpc, back, running, ppc>>

\* Mutant: the handler does not acknowledge the notification.
KernelNoAcknowledge ==
    /\ nested
    /\ nested' = FALSE
    /\ UNCHANGED <<arch, runq, hints, waiting, cpc, back, running, ppc>>

\* acknowledge_resched_notification
KernelAcknowledge ==
    /\ nested
    /\ notified' = FALSE
    /\ nested' = FALSE
    /\ UNCHANGED <<arch, runq, need, ipi, waiting, cpc, back, running, ppc>>

------------------------------------------------------------------------------
(* riscv64_idle_relax: test and wfi with interrupts off. *)

\* Mutant: idle_relax waits for the request to go away by itself.
RelaxSpins ==
    /\ cpc = "relax" /\ arch = "riscv64"
    /\ cpc' = IF need THEN "relax" ELSE "wfi"
    /\ UNCHANGED <<runq, hints, waiting, back, running, ppc>>

Relax ==
    /\ cpc = "relax" /\ arch = "riscv64"
    /\ cpc' = IF need THEN "take" ELSE "wfi"
    /\ UNCHANGED <<runq, hints, waiting, back, running, ppc>>

\* wfi returns when the interrupt is pending, masked or not; the trap taken
\* once interrupts are on clears it (ack_ipi) ...
WfiReturns ==
    /\ cpc = "wfi" /\ ipi
    /\ ipi' = FALSE
    /\ cpc' = "wfi_ack"
    /\ UNCHANGED <<runq, need, notified, waiting, back, running, ppc>>

\* ... and acknowledges the notification; a trap from the kernel does not
\* schedule, the idle loop does.
WfiAcknowledge ==
    /\ cpc = "wfi_ack"
    /\ notified' = FALSE
    /\ cpc' = "take"
    /\ UNCHANGED <<runq, need, ipi, waiting, back, running, ppc>>

------------------------------------------------------------------------------
(* loongarch64_idle_relax: interrupts on, mark, test, idle 0. *)

\* mark_idle_waiting, then interrupts on.
MarkIdleWaiting ==
    /\ cpc = "relax" /\ arch = "loongarch64"
    /\ waiting' = TRUE
    /\ cpc' = "test"
    /\ UNCHANGED <<runq, hints, back, running, ppc>>

TestNeed ==
    /\ cpc = "test"
    /\ cpc' = IF need THEN "irq_off" ELSE "idle0"
    /\ UNCHANGED <<runq, hints, waiting, back, running, ppc>>

\* idle 0 is woken by the interrupt; the CPU may go on with the next
\* instruction before it traps.
IdleReturns ==
    /\ cpc = "idle0" /\ ipi
    /\ cpc' = "irq_off"
    /\ UNCHANGED <<runq, hints, waiting, back, running, ppc>>

\* The trap in the window: handle_ipi clears the interrupt ...
IdleInterrupt ==
    /\ cpc \in {"test", "idle0", "irq_off"} /\ ipi
    /\ ipi' = FALSE
    /\ back' = cpc
    /\ cpc' = "trap_ack"
    /\ UNCHANGED <<runq, need, notified, waiting, running, ppc>>

\* ... and acknowledges the notification; the idle task, marked as waiting,
\* takes its mark and goes on to preempt_if_needed.
TrapAcknowledge ==
    /\ cpc = "trap_ack"
    /\ notified' = FALSE
    /\ IF waiting
       THEN waiting' = FALSE /\ cpc' = "preempt" /\ UNCHANGED back
       ELSE cpc' = back /\ back' = "none" /\ UNCHANGED waiting
    /\ UNCHANGED <<runq, need, ipi, running, ppc>>

\* The handler marks the CPU again and tests once more before it returns.
Remark ==
    /\ cpc = "remark"
    /\ waiting' = TRUE
    /\ cpc' = "retest"
    /\ UNCHANGED <<runq, hints, back, running, ppc>>

\* Mutant: the handler returns without the second test.
RetestSkipped ==
    /\ cpc = "retest"
    /\ cpc' = back
    /\ back' = "none"
    /\ UNCHANGED <<runq, hints, waiting, running, ppc>>

Retest ==
    /\ cpc = "retest"
    /\ IF need
       THEN waiting' = FALSE /\ cpc' = "preempt" /\ UNCHANGED back
       ELSE cpc' = back /\ back' = "none" /\ UNCHANGED waiting
    /\ UNCHANGED <<runq, hints, running, ppc>>

\* Interrupts off, a pending interrupt is cleared, ...
IrqOff ==
    /\ cpc = "irq_off"
    /\ ipi' = FALSE
    /\ cpc' = "relax_ack"
    /\ UNCHANGED <<runq, need, notified, waiting, back, running, ppc>>

\* ... the notification acknowledged, and the mark withdrawn.
RelaxAcknowledge ==
    /\ cpc = "relax_ack"
    /\ notified' = FALSE
    /\ waiting' = FALSE
    /\ cpc' = "take"
    /\ UNCHANGED <<runq, need, ipi, back, running, ppc>>

------------------------------------------------------------------------------
RiscvStep == Relax \/ WfiReturns \/ WfiAcknowledge

LoongStep ==
    \/ MarkIdleWaiting \/ TestNeed \/ IdleReturns \/ IdleInterrupt
    \/ TrapAcknowledge \/ Remark \/ Retest
    \/ IrqOff \/ RelaxAcknowledge

IdleCpuStep ==
    /\ ~nested /\ UNCHANGED <<arch, nested>>
    /\ \/ TakeResched \/ TakeClear \/ Preempt \/ Schedule \/ Pick
       \/ TaskInterrupt \/ TaskAcknowledge
       \/ RiscvStep \/ LoongStep

SenderStep(p) ==
    RequestResched(p) \/ ClaimNotification(p) \/ SendResched(p)

IdleNext ==
    \/ IdleCpuStep \/ KernelInterrupt \/ KernelAcknowledge
    \/ /\ UNCHANGED <<arch, nested>>
       /\ \/ Block
          \/ \E p \in Sender : Enqueue(p) \/ Kick(p) \/ SenderStep(p)

IdleSpec == IdleInit /\ [][IdleNext]_idleVars

\* The CPU executes, and interrupts do not keep it from its program for ever;
\* a handler and a producer finish what they have begun.  Nobody has to
\* enqueue or to kick, and no task has to block.
IdleFairSpec ==
    /\ IdleSpec
    /\ SF_idleVars(IdleCpuStep)
    /\ WF_idleVars(KernelAcknowledge)
    /\ \A p \in Sender : WF_idleVars(SenderStep(p) /\ UNCHANGED <<arch, nested>>)

------------------------------------------------------------------------------
(* Properties *)

\* Every variable holds a value of its type.
IdleTypeOK ==
    /\ arch \in Archs
    /\ runq \subseteq Sender
    /\ running = {} \/ \E p \in Sender : running = {p}
    /\ runq \cap running = {}
    /\ {need, notified, ipi, waiting, nested} \subseteq BOOLEAN
    /\ cpc \in {"take", "sched_clear", "skip_clear", "sched", "pick", "task",
               "task_ack", "preempt", "relax", "wfi", "wfi_ack", "test",
               "idle0", "trap_ack", "remark", "retest", "irq_off", "relax_ack"}
    /\ back \in {"none", "test", "idle0", "irq_off"}
    /\ ppc \in [Sender -> {"idle", "request", "claim", "send"}]

\* The CPU waits in hardware, and nothing wakes it any more.
CpuAsleep == cpc \in {"wfi", "idle0"} /\ ~ipi

\* A CPU never sleeps in hardware beside a task in its run queue, unless the
\* producer of one of its tasks has yet to ask for the interrupt (riscv64 and
\* loongarch64 idle_relax: "the task would wait for the next timer").
NoSleepWithWork ==
    CpuAsleep /\ runq # {} => \E p \in Sender : ppc[p] # "idle"

\* While a CPU sleeps, a set notification bit stands for an interrupt that is
\* still to come: a bit left over would swallow every later wake-up
\* (acknowledge_resched_notification: "or the wake-up is lost for ever").
NotificationIsBacked ==
    CpuAsleep /\ notified => \E p \in Sender : ppc[p] = "send"

\* Work queued for a CPU gets it to run a task, whether it sleeps, is about to
\* or is in the middle of handling an earlier request (notify_resched,
\* idle_entry, idle_relax).
WorkWakesCpu ==
    (runq # {}) ~> (cpc = "task")
=============================================================================
