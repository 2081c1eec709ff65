------------------------------- MODULE Kernel -------------------------------
(***************************************************************************)
(* The state of tasks.c and the functions of it that the rest of the       *)
(* kernel is built from: ready and delayed lists, the tick, the context    *)
(* switch, scheduler suspension.  Scheduler adds the public task API,      *)
(* Queue the queues; each of them is a specification, this module is not.  *)
(*                                                                         *)
(* One processor.  A step is a piece of code no interrupt can divide: a    *)
(* critical section, one round of a loop inside one, or code that touches  *)
(* only what interrupts leave alone.  The code between two calls of a task *)
(* is its pc; only pxCurrentTCB moves, and interrupts come between two     *)
(* steps unless the pc is inside a critical section.                       *)
(*                                                                         *)
(* A list is the sequence of the tasks owning its items, in the order in   *)
(* which they will be taken (List shows the pointers implement that).      *)
(***************************************************************************)
EXTENDS Integers, Sequences, FiniteSets

CONSTANTS
    Tasks,                  \* task control blocks, the idle task's included
    Idle,
    configMAX_PRIORITIES,
    TickMod,                \* portTickType counts modulo this
    EventLists              \* the event lists of the kernel's clients

ASSUME KernelAssumption ==
    /\ IsFiniteSet(Tasks)
    /\ Idle \in Tasks
    /\ configMAX_PRIORITIES \in Nat \ {0}
    /\ TickMod \in Nat /\ TickMod > 1
    /\ EventLists \subseteq STRING /\ "pendingReady" \notin EventLists

portMAX_DELAY == TickMod - 1
Ticks == 0..portMAX_DELAY
Priorities == 0..(configMAX_PRIORITIES - 1)

(* The lists an xGenericListItem can be in: a ready list per priority, and  *)
(* the ones tasks.c names.                                                  *)
DelayedTaskList == -1
OverflowDelayedTaskList == -2
SuspendedTaskList == -3
TasksWaitingTermination == -4
OtherLists == {DelayedTaskList, OverflowDelayedTaskList, SuspendedTaskList, TasksWaitingTermination}
GenericLists == Priorities \cup OtherLists

(* The lists an xEventListItem can be in.                                   *)
PendingReadyList == "pendingReady"
ItemLists == EventLists \cup {PendingReadyList}

VARIABLES
    xLists,                 \* GenericLists -> Seq(Tasks)
    xEventLists,            \* ItemLists -> Seq(Tasks)
    xTimeToWake,            \* Tasks -> Ticks, the value of the generic item
    xEventValue,            \* Tasks -> 1..configMAX_PRIORITIES, of the event item
    uxPriority, uxBasePriority,
    uxTopReadyPriority,
    xTickCount, uxMissedTicks, xNextTaskUnblockTime,
    uxSchedulerSuspended, xMissedYield, pxCurrentTCB,
    pc,                     \* Tasks -> where the task is in its code
    ret,                    \* Tasks -> the pc a kernel call returns to
    yieldAfter,             \* Tasks -> yield if xTaskResumeAll has not done so
    xYieldRequired,         \* the local of xTaskResumeAll
    inISR,                  \* an interrupt ends with a context switch
    checkingDelayed,        \* prvCheckDelayedTasks is in its loop
    due                     \* history: Tasks -> tick interrupts until the wake time

lists == <<xLists, xEventLists, uxTopReadyPriority>>
items == <<xTimeToWake, due>>
priorities == <<uxPriority, uxBasePriority, xEventValue>>
clock == <<xTickCount, uxMissedTicks, xNextTaskUnblockTime>>
suspension == <<uxSchedulerSuspended, xMissedYield>>
calls == <<pc, ret, yieldAfter, xYieldRequired>>
interrupt == <<inISR, checkingDelayed>>
kernelVars == <<lists, items, priorities, clock, suspension, pxCurrentTCB, calls, interrupt>>

-----------------------------------------------------------------------------
(* list.c on sequences.                                                     *)
In(t, s) == \E n \in DOMAIN s : s[n] = t

Without(s, t) ==
    IF ~In(t, s) THEN s
    ELSE LET k == CHOOSE n \in DOMAIN s : s[n] = t
         IN  [n \in 1..(Len(s) - 1) |-> IF n < k THEN s[n] ELSE s[n + 1]]

(* vListInsert: before the first item with a greater value.                 *)
InsertByValue(s, t, value) ==
    LET k == CHOOSE n \in 1..(Len(s) + 1) :
                 /\ \A m \in 1..(n - 1) : value[s[m]] <= value[t]
                 /\ n <= Len(s) => value[s[n]] > value[t]
    IN  [n \in 1..(Len(s) + 1) |-> IF n < k THEN s[n] ELSE IF n = k THEN t ELSE s[n - 1]]

(* vListRemove on the generic item and on the event item of a task.         *)
GenericRemoved(t) == [l \in GenericLists |-> Without(xLists[l], t)]
EventRemoved(t) == [e \in ItemLists |-> Without(xEventLists[e], t)]

IsReady(t) == \E p \in Priorities : In(t, xLists[p])
IsDelayed(t) == In(t, xLists[DelayedTaskList]) \/ In(t, xLists[OverflowDelayedTaskList])
HasEvent(t) == \E e \in ItemLists : In(t, xEventLists[e])

-----------------------------------------------------------------------------
(* Where a task can be: "user" is its own code, the rest is inside a call.  *)
Masked == {"drain", "yieldMasked", "wakeReceiver", "wakeSender"}
InterruptsEnabled == ~inISR /\ pc[pxCurrentTCB] \notin Masked
Running(t, at) == pxCurrentTCB = t /\ ~inISR /\ pc[t] = at

GoTo(t, at) == pc' = [pc EXCEPT ![t] = at]

prvAddTaskToReadyQueue_KeepsTop(generic, t, p) ==   \* mutant: the top priority is not noted
    /\ xLists' = [generic EXCEPT ![p] = Append(@, t)]
    /\ uxTopReadyPriority' = uxTopReadyPriority

(* prvAddTaskToReadyQueue, on the lists left by a removal.                  *)
prvAddTaskToReadyQueue(generic, t, p) ==
    /\ xLists' = [generic EXCEPT ![p] = Append(@, t)]
    /\ uxTopReadyPriority' = IF p > uxTopReadyPriority THEN p ELSE uxTopReadyPriority

(* The list for a wake time, and what it does to xNextTaskUnblockTime.      *)
DelayedListFor(wake) ==
    IF wake < xTickCount THEN OverflowDelayedTaskList ELSE DelayedTaskList

UnblockTimeWith_Kept(l, wake) == xNextTaskUnblockTime       \* mutant: it is not lowered
UnblockTimeWith(l, wake) ==
    IF l = DelayedTaskList /\ wake < xNextTaskUnblockTime THEN wake ELSE xNextTaskUnblockTime

(* The tick count n ticks from now.                                         *)
WakeTime(n) == (xTickCount + n) % TickMod

(* prvAddCurrentTaskToDelayedList, after the task has left its ready list.  *)
prvAddCurrentTaskToDelayedList(t, wake) ==
    LET l == DelayedListFor(wake)
    IN  /\ xTimeToWake' = [xTimeToWake EXCEPT ![t] = wake]
        /\ xLists' = [GenericRemoved(t) EXCEPT ![l] = InsertByValue(@, t, xTimeToWake')]
        /\ xNextTaskUnblockTime' = UnblockTimeWith(l, wake)
        /\ due' = [due EXCEPT ![t] = ((wake - xTickCount) % TickMod) - uxMissedTicks]

(* vTaskPlaceOnEventList: the event item in the order of its value, the     *)
(* generic item where a timeout finds it, or nothing does.                  *)
vTaskPlaceOnEventList(t, e, xTicksToWait) ==
    /\ xEventLists' = [xEventLists EXCEPT ![e] = InsertByValue(@, t, xEventValue)]
    /\ IF xTicksToWait = portMAX_DELAY
       THEN /\ xLists' = [GenericRemoved(t) EXCEPT ![SuspendedTaskList] = Append(@, t)]
            /\ UNCHANGED <<items, xNextTaskUnblockTime>>
       ELSE prvAddCurrentTaskToDelayedList(t, WakeTime(xTicksToWait))

(* xTaskRemoveFromEventList on a list that is not empty, and what it        *)
(* returns.  With the scheduler suspended the task is only noted.           *)
xTaskRemoveFromEventList(e) ==
    LET u == Head(xEventLists[e])
    IN  IF uxSchedulerSuspended = 0
        THEN /\ xEventLists' = EventRemoved(u)
             /\ prvAddTaskToReadyQueue(GenericRemoved(u), u, uxPriority[u])
        ELSE /\ xEventLists' = [EventRemoved(u) EXCEPT ![PendingReadyList] = Append(@, u)]
             /\ UNCHANGED <<xLists, uxTopReadyPriority>>
HeadOutranksCurrent(e) == uxPriority[Head(xEventLists[e])] >= uxPriority[pxCurrentTCB]

vTaskPriorityInherit_IfReady(h) ==          \* mutant: only for a holder that is ready
    LET p == uxPriority[pxCurrentTCB]
    IN  IF uxPriority[h] < p /\ In(h, xLists[uxPriority[h]])
        THEN /\ uxPriority' = [uxPriority EXCEPT ![h] = p]
             /\ xEventValue' = [xEventValue EXCEPT ![h] = configMAX_PRIORITIES - p]
             /\ prvAddTaskToReadyQueue(GenericRemoved(h), h, p)
        ELSE UNCHANGED <<uxPriority, xEventValue, xLists, uxTopReadyPriority>>

(* vTaskPriorityInherit: the holder h gets the priority of the current task *)
(* if that is higher.                                                       *)
vTaskPriorityInherit(h) ==
    LET p == uxPriority[pxCurrentTCB]
    IN  IF uxPriority[h] < p
        THEN /\ uxPriority' = [uxPriority EXCEPT ![h] = p]
             /\ xEventValue' = [xEventValue EXCEPT ![h] = configMAX_PRIORITIES - p]
             /\ IF In(h, xLists[uxPriority[h]])
                THEN prvAddTaskToReadyQueue(GenericRemoved(h), h, p)
                ELSE UNCHANGED <<xLists, uxTopReadyPriority>>
        ELSE UNCHANGED <<uxPriority, xEventValue, xLists, uxTopReadyPriority>>

(* vTaskPriorityDisinherit: the holder h goes back to its own priority.     *)
vTaskPriorityDisinherit(h) ==
    LET p == uxBasePriority[h]
    IN  IF uxPriority[h] # p
        THEN /\ uxPriority' = [uxPriority EXCEPT ![h] = p]
             /\ xEventValue' = [xEventValue EXCEPT ![h] = configMAX_PRIORITIES - p]
             /\ prvAddTaskToReadyQueue(GenericRemoved(h), h, p)
        ELSE UNCHANGED <<uxPriority, xEventValue, xLists, uxTopReadyPriority>>

(* The highest ready list with a task in it, searched from                  *)
(* uxTopReadyPriority down.                                                 *)
TopReady == CHOOSE p \in 0..uxTopReadyPriority :
                /\ xLists[p] # <<>>
                /\ \A q \in (p + 1)..uxTopReadyPriority : xLists[q] = <<>>

vTaskSwitchContext ==
    IF uxSchedulerSuspended # 0
    THEN /\ xMissedYield' = TRUE
         /\ UNCHANGED <<xLists, uxTopReadyPriority, pxCurrentTCB>>
    ELSE /\ uxTopReadyPriority' = TopReady
         /\ xLists' = [xLists EXCEPT ![TopReady] = Append(Tail(@), Head(@))]
         /\ pxCurrentTCB' = Head(xLists[TopReady])
         /\ UNCHANGED xMissedYield

(* vTaskIncrementTick with the scheduler running, up to the loop of         *)
(* prvCheckDelayedTasks.  When the count wraps the delayed lists swap.      *)
vTaskIncrementTick ==
    LET wraps == xTickCount = portMAX_DELAY
        overflow == xLists[OverflowDelayedTaskList]
    IN  /\ xTickCount' = (xTickCount + 1) % TickMod
        /\ xLists' = IF wraps
                     THEN [xLists EXCEPT ![DelayedTaskList] = overflow,
                                         ![OverflowDelayedTaskList] = xLists[DelayedTaskList]]
                     ELSE xLists
        /\ xNextTaskUnblockTime' =
               IF ~wraps THEN xNextTaskUnblockTime
               ELSE IF overflow = <<>> THEN portMAX_DELAY ELSE xTimeToWake[Head(overflow)]
        /\ checkingDelayed' = (xTickCount' >= xNextTaskUnblockTime')

(* A delayed task whose time has not come; a task that times out leaves the *)
(* event list it was waiting in.                                            *)
StillAhead_OffByOne(t) == xTickCount + 1 < xTimeToWake[t]       \* mutant
StillAhead(t) == xTickCount < xTimeToWake[t]

LeaveEventList_Stays(t) == xEventLists' = xEventLists           \* mutant
LeaveEventList(t) == xEventLists' = EventRemoved(t)

(* One round of the loop of prvCheckDelayedTasks.                           *)
prvCheckDelayedTasks ==
    LET delayed == xLists[DelayedTaskList]
        t == Head(delayed)
    IN  /\ checkingDelayed
        /\ IF delayed = <<>> \/ StillAhead(t)
           THEN /\ xNextTaskUnblockTime' = IF delayed = <<>> THEN portMAX_DELAY ELSE xTimeToWake[t]
                /\ checkingDelayed' = FALSE
                /\ UNCHANGED lists
           ELSE /\ LeaveEventList(t)
                /\ prvAddTaskToReadyQueue(GenericRemoved(t), t, uxPriority[t])
                /\ UNCHANGED <<xNextTaskUnblockTime, checkingDelayed>>
        /\ UNCHANGED <<items, priorities, xTickCount, uxMissedTicks, suspension,
                       pxCurrentTCB, calls, inISR>>

-----------------------------------------------------------------------------
(* vTickISR: vTaskIncrementTick, then vTaskSwitchContext.  With the         *)
(* scheduler suspended both only leave a note for xTaskResumeAll.           *)
vTickISR ==
    /\ InterruptsEnabled
    /\ due' = [t \in Tasks |-> IF IsDelayed(t) THEN due[t] - 1 ELSE due[t]]
    /\ IF uxSchedulerSuspended # 0
       THEN /\ uxMissedTicks' = uxMissedTicks + 1
            /\ xMissedYield' = TRUE
            /\ UNCHANGED <<xLists, xTickCount, xNextTaskUnblockTime, interrupt>>
       ELSE /\ vTaskIncrementTick
            /\ inISR' = TRUE
            /\ UNCHANGED <<uxMissedTicks, xMissedYield>>
    /\ UNCHANGED <<xEventLists, uxTopReadyPriority, xTimeToWake, priorities,
                   uxSchedulerSuspended, pxCurrentTCB, calls>>

(* The switch at the end of vTickISR, and portYIELD_FROM_ISR.               *)
SwitchContextInISR ==
    /\ inISR /\ ~checkingDelayed
    /\ vTaskSwitchContext
    /\ inISR' = FALSE
    /\ UNCHANGED <<xEventLists, items, priorities, clock, uxSchedulerSuspended,
                   calls, checkingDelayed>>

(* portYIELD: vPortYieldProcessor runs vTaskSwitchContext; t goes on from   *)
(* where it returns to when it is scheduled again.                          *)
vPortYieldProcessor(t) ==
    /\ Running(t, "yield") \/ Running(t, "yieldMasked")
    /\ vTaskSwitchContext
    /\ GoTo(t, ret[t])
    /\ UNCHANGED <<xEventLists, items, priorities, clock, uxSchedulerSuspended,
                   ret, yieldAfter, xYieldRequired, interrupt>>

-----------------------------------------------------------------------------
vTaskSuspendAll == uxSchedulerSuspended' = uxSchedulerSuspended + 1

(* A call of xTaskResumeAll that returns to pc `at'; with andYield the      *)
(* caller yields when xTaskResumeAll reports that it has not done so.       *)
CallResumeAll(t, at, andYield) ==
    /\ GoTo(t, "resumeAll")
    /\ ret' = [ret EXCEPT ![t] = at]
    /\ yieldAfter' = [yieldAfter EXCEPT ![t] = andYield]
    /\ UNCHANGED xYieldRequired

ReturnNotYielded(t) == GoTo(t, IF yieldAfter[t] THEN "yield" ELSE ret[t])

xTaskResumeAll(t) ==
    /\ Running(t, "resumeAll")
    /\ uxSchedulerSuspended' = uxSchedulerSuspended - 1
    /\ IF uxSchedulerSuspended' = 0 THEN GoTo(t, "drain") ELSE ReturnNotYielded(t)
    /\ xYieldRequired' = FALSE
    /\ UNCHANGED <<lists, items, priorities, clock, xMissedYield, pxCurrentTCB,
                   ret, yieldAfter, interrupt>>

(* A round of the first loop: the pending ready list.                       *)
DrainPendingReady(t) ==
    LET r == Head(xEventLists[PendingReadyList])
    IN  /\ Running(t, "drain") /\ ~checkingDelayed
        /\ xEventLists[PendingReadyList] # <<>>
        /\ xEventLists' = EventRemoved(r)
        /\ prvAddTaskToReadyQueue(GenericRemoved(r), r, uxPriority[r])
        /\ xYieldRequired' = (xYieldRequired \/ uxPriority[r] >= uxPriority[t])
        /\ UNCHANGED <<items, priorities, clock, suspension, pxCurrentTCB,
                       pc, ret, yieldAfter, interrupt>>

(* A round of the second loop: the ticks missed while suspended.            *)
ReplayMissedTick(t) ==
    /\ Running(t, "drain") /\ ~checkingDelayed
    /\ xEventLists[PendingReadyList] = <<>>
    /\ uxMissedTicks > 0
    /\ vTaskIncrementTick
    /\ uxMissedTicks' = uxMissedTicks - 1
    /\ xYieldRequired' = TRUE
    /\ UNCHANGED <<xEventLists, uxTopReadyPriority, items, priorities, suspension,
                   pxCurrentTCB, pc, ret, yieldAfter, inISR>>

ResumeAllEnd_StillMissed(t) ==              \* mutant: xMissedYield is not cleared
    /\ Running(t, "drain") /\ ~checkingDelayed
    /\ xEventLists[PendingReadyList] = <<>>
    /\ uxMissedTicks = 0
    /\ IF xYieldRequired \/ xMissedYield THEN GoTo(t, "yieldMasked") ELSE ReturnNotYielded(t)
    /\ UNCHANGED <<lists, items, priorities, clock, suspension,
                   pxCurrentTCB, ret, yieldAfter, xYieldRequired, interrupt>>

ResumeAllEnd(t) ==
    /\ Running(t, "drain") /\ ~checkingDelayed
    /\ xEventLists[PendingReadyList] = <<>>
    /\ uxMissedTicks = 0
    /\ IF xYieldRequired \/ xMissedYield
       THEN xMissedYield' = FALSE /\ GoTo(t, "yieldMasked")
       ELSE UNCHANGED xMissedYield /\ ReturnNotYielded(t)
    /\ UNCHANGED <<lists, items, priorities, clock, uxSchedulerSuspended,
                   pxCurrentTCB, ret, yieldAfter, xYieldRequired, interrupt>>

KernelStep ==
    \/ prvCheckDelayedTasks
    \/ SwitchContextInISR
    \/ \E t \in Tasks :
          \/ vPortYieldProcessor(t)
          \/ xTaskResumeAll(t)
          \/ DrainPendingReady(t)
          \/ ReplayMissedTick(t)
          \/ ResumeAllEnd(t)

-----------------------------------------------------------------------------
(* The part of the task API that changes only this state.                   *)
Exists(t) == pc[t] # "free"
Deleted(t) == In(t, xLists[TasksWaitingTermination])
ValidHandle(t) == Exists(t) /\ ~Deleted(t)

(* The caller of an API function: an application task in its own code.      *)
Caller(t) == t # Idle /\ Running(t, "user")

(* The caller yields, at once and with interrupts masked (portYIELD in a    *)
(* critical section), after the critical section, or not at all.            *)
ReturnVia(t, at) == GoTo(t, at) /\ ret' = [ret EXCEPT ![t] = "user"]
YieldMaskedIf(t, c) == ReturnVia(t, IF c THEN "yieldMasked" ELSE "user")
YieldIf(t, c) == ReturnVia(t, IF c THEN "yield" ELSE "user")
callFrame == <<yieldAfter, xYieldRequired>>

(* vTaskDelay and vTaskDelayUntil suspend the scheduler first; vTaskDelay(0)*)
(* only yields.                                                             *)
DelayStart(t) ==
    /\ Caller(t)
    /\ uxSchedulerSuspended = 0
    /\ vTaskSuspendAll
    /\ GoTo(t, "delay")
    /\ UNCHANGED <<lists, items, priorities, clock, xMissedYield, pxCurrentTCB,
                   ret, callFrame, interrupt>>

vTaskDelay(t, n) ==
    \/ /\ n = 0
       /\ Caller(t)
       /\ uxSchedulerSuspended = 0
       /\ YieldIf(t, TRUE)
       /\ UNCHANGED <<lists, items, priorities, clock, suspension, pxCurrentTCB,
                      callFrame, interrupt>>
    \/ /\ n > 0
       /\ Running(t, "delay")
       /\ prvAddCurrentTaskToDelayedList(t, WakeTime(n))
       /\ CallResumeAll(t, "user", TRUE)
       /\ UNCHANGED <<xEventLists, uxTopReadyPriority, priorities, xTickCount,
                      uxMissedTicks, suspension, pxCurrentTCB, interrupt>>

(* The decision of vTaskDelayUntil: whether the wake time is still ahead.   *)
ShouldDelay(previous, wake, now) ==
    IF now < previous THEN wake < previous /\ wake > now
    ELSE wake < previous \/ wake > now

vTaskDelayUntil(t, previous, increment) ==
    LET wake == (previous + increment) % TickMod
    IN  /\ Running(t, "delay")
        /\ IF ShouldDelay(previous, wake, xTickCount)
           THEN prvAddCurrentTaskToDelayedList(t, wake)
           ELSE UNCHANGED <<xLists, items, xNextTaskUnblockTime>>
        /\ CallResumeAll(t, "user", TRUE)
        /\ UNCHANGED <<xEventLists, uxTopReadyPriority, priorities, xTickCount,
                       uxMissedTicks, suspension, pxCurrentTCB, interrupt>>

(* vTaskPrioritySet: the base priority always, the priority in use unless   *)
(* it is inherited; a ready task moves to its new list.                     *)
vTaskPrioritySet(t, x, new) ==
    LET old == uxBasePriority[x]
        own == uxBasePriority[x] = uxPriority[x]
    IN  /\ Caller(t)
        /\ ValidHandle(x)
        /\ old # new
        /\ uxPriority' = [uxPriority EXCEPT ![x] = IF own THEN new ELSE @]
        /\ uxBasePriority' = [uxBasePriority EXCEPT ![x] = new]
        /\ xEventValue' = [xEventValue EXCEPT ![x] = configMAX_PRIORITIES - new]
        /\ IF In(x, xLists[old])
           THEN prvAddTaskToReadyQueue(GenericRemoved(x), x, uxPriority'[x])
           ELSE UNCHANGED <<xLists, uxTopReadyPriority>>
        /\ YieldMaskedIf(t, IF new > old THEN x # t ELSE x = t)
        /\ UNCHANGED <<xEventLists, items, clock, suspension, pxCurrentTCB,
                       callFrame, interrupt>>

vTaskSuspend(t, x) ==
    /\ Caller(t)
    /\ x # Idle /\ ValidHandle(x)
    /\ x = t => uxSchedulerSuspended = 0
    /\ xLists' = [GenericRemoved(x) EXCEPT ![SuspendedTaskList] = Append(@, x)]
    /\ xEventLists' = EventRemoved(x)
    /\ YieldIf(t, x = t)
    /\ UNCHANGED <<uxTopReadyPriority, items, priorities, clock, suspension,
                   pxCurrentTCB, callFrame, interrupt>>

(* In the suspended list, and neither waiting for an event without a        *)
(* timeout nor already resumed by an interrupt.                             *)
xTaskIsTaskSuspended(x) == In(x, xLists[SuspendedTaskList]) /\ ~HasEvent(x)

vTaskResume(t, x) ==
    /\ Caller(t)
    /\ x # t /\ ValidHandle(x)
    /\ xTaskIsTaskSuspended(x)
    /\ prvAddTaskToReadyQueue(GenericRemoved(x), x, uxPriority[x])
    /\ YieldMaskedIf(t, uxPriority[x] >= uxPriority[t])
    /\ UNCHANGED <<xEventLists, items, priorities, clock, suspension, pxCurrentTCB,
                   callFrame, interrupt>>

-----------------------------------------------------------------------------
KernelTypeOK ==
    /\ xLists \in [GenericLists -> Seq(Tasks)]
    /\ xEventLists \in [ItemLists -> Seq(Tasks)]
    /\ xTimeToWake \in [Tasks -> Ticks]
    /\ xEventValue \in [Tasks -> 1..configMAX_PRIORITIES]
    /\ uxPriority \in [Tasks -> Priorities]
    /\ uxBasePriority \in [Tasks -> Priorities]
    /\ uxTopReadyPriority \in Priorities
    /\ xTickCount \in Ticks /\ uxMissedTicks \in Nat /\ xNextTaskUnblockTime \in Ticks
    /\ uxSchedulerSuspended \in Nat /\ xMissedYield \in BOOLEAN
    /\ pxCurrentTCB \in Tasks
    /\ yieldAfter \in [Tasks -> BOOLEAN] /\ xYieldRequired \in BOOLEAN
    /\ inISR \in BOOLEAN /\ checkingDelayed \in BOOLEAN
    /\ due \in [Tasks -> Int]
=============================================================================
