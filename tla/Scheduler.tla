----------------------------- MODULE Scheduler -----------------------------
(***************************************************************************)
(* The task API of tasks.c: tasks that create, delete, suspend, resume and *)
(* delay each other, change priorities and suspend the scheduler, the idle *)
(* task, the tick and an interrupt that resumes tasks.                     *)
(*                                                                         *)
(* A task calls any function at any time, within what task.h allows: the   *)
(* handle of a deleted task is not used again, and functions that block    *)
(* the caller are not called while the scheduler is suspended.             *)
(***************************************************************************)
EXTENDS Kernel

CONSTANTS
    Delays,                 \* the arguments of vTaskDelay
    MaxMissedTicks,         \* bound on the ticks during one suspension
    MaxSuspendNesting       \* bound on nested vTaskSuspendAll

ASSUME SchedulerAssumption ==
    /\ Delays \subseteq Ticks
    /\ MaxMissedTicks \in Nat
    /\ MaxSuspendNesting \in Nat

VARIABLES uxTasksDeleted, uxCurrentNumberOfTasks

counts == <<uxTasksDeleted, uxCurrentNumberOfTasks>>
vars == <<kernelVars, counts>>

(* The scheduler has just been started on one application task and the idle *)
(* task, created in this order: the later of two equals is the current one. *)
Init ==
    \E main \in Tasks \ {Idle}, p \in Priorities :
        /\ xLists = [l \in GenericLists |->
                        IF l = p /\ p = 0 THEN <<main, Idle>>
                        ELSE IF l = p THEN <<main>>
                        ELSE IF l = 0 THEN <<Idle>> ELSE <<>>]
        /\ xEventLists = [e \in ItemLists |-> <<>>]
        /\ uxPriority = [t \in Tasks |-> IF t = main THEN p ELSE 0]
        /\ uxBasePriority = uxPriority
        /\ xEventValue = [t \in Tasks |-> configMAX_PRIORITIES - uxPriority[t]]
        /\ uxTopReadyPriority = p
        /\ xTimeToWake = [t \in Tasks |-> 0]
        /\ due = [t \in Tasks |-> 0]
        /\ xTickCount = 0 /\ uxMissedTicks = 0 /\ xNextTaskUnblockTime = portMAX_DELAY
        /\ uxSchedulerSuspended = 0 /\ xMissedYield = FALSE
        /\ pxCurrentTCB = IF p = 0 THEN Idle ELSE main
        /\ pc = [t \in Tasks |-> IF t \in {main, Idle} THEN "user" ELSE "free"]
        /\ ret = [t \in Tasks |-> "user"]
        /\ yieldAfter = [t \in Tasks |-> FALSE]
        /\ xYieldRequired = FALSE
        /\ inISR = FALSE /\ checkingDelayed = FALSE
        /\ uxTasksDeleted = 0 /\ uxCurrentNumberOfTasks = 2

-----------------------------------------------------------------------------
(* xTaskGenericCreate: the critical section and the yield after it.  With   *)
(* no memory for a control block the call changes nothing.                  *)
xTaskGenericCreate(t, new, p) ==
    /\ Caller(t)
    /\ pc[new] = "free"
    /\ prvAddTaskToReadyQueue(xLists, new, p)
    /\ uxPriority' = [uxPriority EXCEPT ![new] = p]
    /\ uxBasePriority' = [uxBasePriority EXCEPT ![new] = p]
    /\ xEventValue' = [xEventValue EXCEPT ![new] = configMAX_PRIORITIES - p]
    /\ pc' = [pc EXCEPT ![new] = "user", ![t] = IF uxPriority[t] < p THEN "yield" ELSE "user"]
    /\ ret' = [ret EXCEPT ![t] = "user"]
    /\ uxCurrentNumberOfTasks' = uxCurrentNumberOfTasks + 1
    /\ UNCHANGED <<xEventLists, items, clock, suspension, pxCurrentTCB, callFrame,
                   interrupt, uxTasksDeleted>>

vTaskDelete(t, x) ==
    /\ Caller(t)
    /\ x # Idle /\ ValidHandle(x)
    /\ x = t => uxSchedulerSuspended = 0
    /\ xLists' = [GenericRemoved(x) EXCEPT ![TasksWaitingTermination] = Append(@, x)]
    /\ xEventLists' = EventRemoved(x)
    /\ uxTasksDeleted' = uxTasksDeleted + 1
    /\ YieldIf(t, x = t)
    /\ UNCHANGED <<uxTopReadyPriority, items, priorities, clock, suspension,
                   pxCurrentTCB, callFrame, interrupt, uxCurrentNumberOfTasks>>

(* From an interrupt; what it returns decides whether the interrupt ends    *)
(* with portYIELD_FROM_ISR.                                                 *)
xTaskResumeFromISR(x) ==
    /\ InterruptsEnabled
    /\ ValidHandle(x)
    /\ xTaskIsTaskSuspended(x)
    /\ IF uxSchedulerSuspended = 0
       THEN /\ prvAddTaskToReadyQueue(GenericRemoved(x), x, uxPriority[x])
            /\ inISR' = (uxPriority[x] >= uxPriority[pxCurrentTCB])
            /\ UNCHANGED xEventLists
       ELSE /\ xEventLists' = [xEventLists EXCEPT ![PendingReadyList] = Append(@, x)]
            /\ UNCHANGED <<xLists, uxTopReadyPriority, inISR>>
    /\ UNCHANGED <<items, priorities, clock, suspension, pxCurrentTCB, calls,
                   checkingDelayed, counts>>

(* A task holds the scheduler suspended over code of its own.               *)
UserSuspendAll(t) ==
    /\ Caller(t)
    /\ uxSchedulerSuspended < MaxSuspendNesting
    /\ vTaskSuspendAll
    /\ UNCHANGED <<lists, items, priorities, clock, xMissedYield, pxCurrentTCB,
                   calls, interrupt, counts>>

UserResumeAll(t) ==
    /\ Caller(t)
    /\ uxSchedulerSuspended > 0
    /\ CallResumeAll(t, "user", FALSE)
    /\ UNCHANGED <<lists, items, priorities, clock, suspension, pxCurrentTCB,
                   interrupt, counts>>

-----------------------------------------------------------------------------
(* prvIdleTask: prvCheckTasksWaitingTermination looks at the list with the  *)
(* scheduler suspended, then frees its head; then the idle task yields if   *)
(* it shares its priority.                                                  *)
IdleCheck ==
    /\ Running(Idle, "user")
    /\ IF uxTasksDeleted > 0
       THEN /\ vTaskSuspendAll
            /\ CallResumeAll(Idle, IF xLists[TasksWaitingTermination] = <<>>
                                   THEN "idleYield" ELSE "reap", FALSE)
       ELSE /\ GoTo(Idle, "idleYield")
            /\ UNCHANGED <<uxSchedulerSuspended, ret, callFrame>>
    /\ UNCHANGED <<lists, items, priorities, clock, xMissedYield, pxCurrentTCB,
                   interrupt, counts>>

IdleReap ==
    LET x == Head(xLists[TasksWaitingTermination])
    IN  /\ Running(Idle, "reap")
        /\ xLists' = GenericRemoved(x)
        /\ uxCurrentNumberOfTasks' = uxCurrentNumberOfTasks - 1
        /\ uxTasksDeleted' = uxTasksDeleted - 1
        /\ pc' = [pc EXCEPT ![x] = "free", ![Idle] = "idleYield"]
        /\ UNCHANGED <<xEventLists, uxTopReadyPriority, items, priorities, clock,
                       suspension, pxCurrentTCB, ret, callFrame, interrupt>>

IdleYield ==
    /\ Running(Idle, "idleYield")
    /\ YieldIf(Idle, Len(xLists[0]) > 1)
    /\ UNCHANGED <<lists, items, priorities, clock, suspension, pxCurrentTCB,
                   callFrame, interrupt, counts>>

-----------------------------------------------------------------------------
Tick == /\ uxMissedTicks < MaxMissedTicks \/ uxSchedulerSuspended = 0
        /\ vTickISR
        /\ UNCHANGED counts

API(t) ==
    \/ /\ \/ DelayStart(t)
          \/ \E n \in Delays : vTaskDelay(t, n)
          \/ \E previous \in Ticks, n \in Delays \ {0} : vTaskDelayUntil(t, previous, n)
          \/ \E x \in Tasks \ {Idle}, p \in Priorities : vTaskPrioritySet(t, x, p)
          \/ \E x \in Tasks : vTaskSuspend(t, x)
          \/ \E x \in Tasks : vTaskResume(t, x)
       /\ UNCHANGED counts
    \/ \E x \in Tasks, p \in Priorities : xTaskGenericCreate(t, x, p)
    \/ \E x \in Tasks : vTaskDelete(t, x)
    \/ UserSuspendAll(t)
    \/ UserResumeAll(t)

Next ==
    \/ KernelStep /\ UNCHANGED counts
    \/ Tick
    \/ \E x \in Tasks : xTaskResumeFromISR(x)
    \/ \E t \in Tasks : API(t)
    \/ IdleCheck \/ IdleReap \/ IdleYield

Spec == Init /\ [][Next]_vars

-----------------------------------------------------------------------------
Lists(t) == {l \in GenericLists : In(t, xLists[l])}

(* Tick values, priorities and counters stay within their types, whatever   *)
(* the wraps of the tick count do to wake times.                            *)
TypeOK ==
    /\ KernelTypeOK
    /\ pc \in [Tasks -> {"user", "delay", "resumeAll", "drain", "yield", "yieldMasked",
                         "reap", "idleYield", "free"}]
    /\ ret \in [Tasks -> {"user", "reap", "idleYield"}]
    /\ uxTasksDeleted \in Nat /\ uxCurrentNumberOfTasks \in Nat

(* No task is lost and none is in two places: whatever tasks and interrupts *)
(* do to each other, the generic item of every task is in exactly one list, *)
(* once; a ready task is in the list of its priority; a task whose event    *)
(* item is pending is not yet ready; and the counters the idle task and     *)
(* xTaskResumeAll rely on agree with the lists.                             *)
EveryTaskInOneList ==
    /\ \A t \in Tasks : Cardinality(Lists(t)) = (IF Exists(t) THEN 1 ELSE 0)
    /\ \A l \in GenericLists : \A m, n \in DOMAIN xLists[l] :
          xLists[l][m] = xLists[l][n] => m = n
    /\ \A p \in Priorities : \A n \in DOMAIN xLists[p] : uxPriority[xLists[p][n]] = p
    /\ \A t \in Tasks : In(t, xEventLists[PendingReadyList]) => Lists(t) \subseteq
           {SuspendedTaskList, DelayedTaskList, OverflowDelayedTaskList}
    /\ uxTasksDeleted = Len(xLists[TasksWaitingTermination])
    /\ uxCurrentNumberOfTasks = Cardinality({t \in Tasks : Exists(t)})

(* Application code of the current task is running and nothing is pending.  *)
Settled == /\ ~inISR
           /\ pc[pxCurrentTCB] \in {"user", "idleYield"}
           /\ uxSchedulerSuspended = 0

(* The promise of a preemptive priority scheduler: whenever a task runs its *)
(* own code with the scheduler active, it is ready and no ready task has a  *)
(* higher priority.  It rests on every path that readies a task: the tick,  *)
(* ticks and yields missed while suspended, the pending ready list, resume, *)
(* priority changes and uxTopReadyPriority never being too low.             *)
HighestPriorityRuns ==
    Settled => /\ IsReady(pxCurrentTCB)
               /\ \A t \in Tasks : IsReady(t) => uxPriority[t] <= uxPriority[pxCurrentTCB]

(* Nothing that happened while the scheduler was suspended is forgotten:    *)
(* once xTaskResumeAll has ended no task is pending, no tick is unprocessed *)
(* and no yield is owed.                                                    *)
ResumeAllSettlesEverything ==
    uxSchedulerSuspended = 0 /\ pc[pxCurrentTCB] # "drain" =>
        xEventLists[PendingReadyList] = <<>> /\ uxMissedTicks = 0 /\ ~xMissedYield

(* Delays survive the wrap of the tick count and suspended schedulers: a    *)
(* delayed task's wake time is exactly its remaining tick interrupts ahead  *)
(* of the count, in the overflow list if and only if the count wraps first; *)
(* no task stays delayed past its time, and the early-out on                *)
(* xNextTaskUnblockTime never hides a due task.                             *)
DelaysExact ==
    \A t \in Tasks : IsDelayed(t) =>
        LET left == due[t] + uxMissedTicks
        IN  /\ left \in (IF checkingDelayed THEN 0 ELSE 1)..portMAX_DELAY
            /\ xTimeToWake[t] = (xTickCount + left) % TickMod
            /\ In(t, xLists[OverflowDelayedTaskList]) <=> xTickCount + left >= TickMod
            /\ In(t, xLists[DelayedTaskList]) /\ ~checkingDelayed =>
                   xNextTaskUnblockTime <= xTimeToWake[t]

(* Whatever tasks and interrupts do to each other, the lists tell where     *)
(* each task is, and when the delayed ones wake.                            *)
ListsTrue == EveryTaskInOneList /\ DelaysExact

(* The tick does its work: it wakes a task when no tick of its delay is     *)
(* left, never earlier (tasks.c:274-318); and when the count wraps, the      *)
(* list that becomes the overflow list is empty (tasks.c:1518-1520: "If     *)
(* there are any items in pxDelayedTaskList here then there is an error!"). *)
TicksDoTheirWork ==
    [][/\ \A t \in Tasks :
             checkingDelayed /\ IsDelayed(t) /\ ~IsDelayed(t)' => due[t] + uxMissedTicks = 0
       /\ xTickCount' < xTickCount => xLists[DelayedTaskList] = <<>>]_vars
=============================================================================
