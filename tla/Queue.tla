-------------------------------- MODULE Queue --------------------------------
(***************************************************************************)
(* queue.c: one queue, semaphore or mutex between tasks and interrupts, on *)
(* top of Kernel.  The storage is QueueStorage's, the event lists of the   *)
(* queue are event lists of the kernel.                                    *)
(*                                                                         *)
(* xQueueGenericSend and xQueueGenericReceive share their structure: a     *)
(* critical section that succeeds or gives up ("top"), and otherwise, with *)
(* the scheduler suspended and the queue locked, a timeout check and a     *)
(* second look before the task blocks.  Interrupts may come between any    *)
(* two of these steps; while the queue is locked they only count what they *)
(* moved, and prvUnlockQueue wakes tasks for it.                           *)
(***************************************************************************)
EXTENDS Kernel, QueueStorage

CONSTANTS
    QueueIsMutex,           \* uxQueueType = queueQUEUE_IS_MUTEX, used recursively
    Operations,             \* what tasks do: a subset of SendOps and ReceiveOps
    ISROperations,          \* what interrupts do
    BlockTimes,             \* task |-> the values of xTicksToWait in its calls
    Delays,                 \* the arguments of vTaskDelay
    SettablePriorities,     \* the arguments of vTaskPrioritySet
    MaxMissedTicks,         \* bound on the ticks during one suspension
    MaxLockCount,           \* bound on what interrupts move during one lock
    MaxRecursion,           \* bound on nested takes of the mutex
    NULL

SendOps == {"sendToBack", "sendToFront"}
ReceiveOps == {"receive", "peek"}
Waiting == [send |-> "xTasksWaitingToSend", receive |-> "xTasksWaitingToReceive"]

ASSUME QueueAssumption ==
    /\ EventLists = {Waiting.send, Waiting.receive}
    /\ QueueIsMutex \in BOOLEAN
    /\ Operations \subseteq SendOps \cup ReceiveOps
    /\ ISROperations \subseteq SendOps \cup {"receive"}
    /\ BlockTimes \in [Tasks -> SUBSET Ticks] /\ Delays \subseteq Ticks
    /\ SettablePriorities \subseteq Priorities
    /\ MaxMissedTicks \in Nat /\ MaxLockCount \in Nat /\ MaxRecursion \in Nat \ {0}
    /\ NULL \notin Tasks

queueUNLOCKED == -1
queueLOCKED_UNMODIFIED == 0

VARIABLES
    xRxLock, xTxLock,       \* -1 unlocked, else what interrupts moved meanwhile
    pxMutexHolder, uxRecursiveCallCount,
    frame                   \* Tasks -> the locals of the call in progress, or NULL

queueVars == <<storage, xRxLock, xTxLock, pxMutexHolder, uxRecursiveCallCount, frame>>
vars == <<kernelVars, queueVars>>

(* xTimeOut is the pair xTimeOnEntering, wrapped: the latter says that      *)
(* xNumOfOverflows has moved on from the saved xOverflowCount.  `left' is a *)
(* history: the tick interrupts until the time asked for has passed.        *)
Frames == [op : SendOps \cup ReceiveOps, msg : Messages, xTicksToWait : Ticks,
           xEntryTimeSet : BOOLEAN, xTimeOnEntering : Ticks, wrapped : BOOLEAN, left : Nat]
ASSUME FrameAssumption == NULL \notin Frames

(* The tasks were created one after another, and the last one of the       *)
(* highest priority is the current task (tasks.c:520-550).                  *)
Init ==
    \E prio \in [Tasks -> Priorities], first \in Tasks :
        LET Created(p) == {t \in Tasks : prio[t] = p}
        IN
        /\ \A t \in Tasks : prio[t] <= prio[first]
        /\ prio[Idle] = 0
        /\ \A t \in Tasks \ {Idle} : prio[t] > 0
        /\ xLists = [l \in GenericLists |->
                        CHOOSE s \in [1..Cardinality(Created(l)) -> Created(l)] :
                            /\ \A m, n \in DOMAIN s : s[m] = s[n] => m = n
                            /\ first \in Created(l) => s[Cardinality(Created(l))] = first]
        /\ xEventLists = [e \in ItemLists |-> <<>>]
        /\ uxPriority = prio /\ uxBasePriority = prio
        /\ xEventValue = [t \in Tasks |-> configMAX_PRIORITIES - prio[t]]
        /\ uxTopReadyPriority = prio[first]
        /\ xTimeToWake = [t \in Tasks |-> 0]
        /\ due = [t \in Tasks |-> 0]
        /\ xTickCount = 0 /\ uxMissedTicks = 0 /\ xNextTaskUnblockTime = portMAX_DELAY
        /\ uxSchedulerSuspended = 0 /\ xMissedYield = FALSE
        /\ pxCurrentTCB = first
        /\ pc = [t \in Tasks |-> "user"]
        /\ ret = [t \in Tasks |-> "user"]
        /\ yieldAfter = [t \in Tasks |-> FALSE]
        /\ xYieldRequired = FALSE
        /\ inISR = FALSE /\ checkingDelayed = FALSE
        /\ IF QueueIsMutex
           THEN /\ pcSlots \in [Slots -> Messages] /\ pcWriteTo = 0 /\ pcReadFrom = 0
                /\ uxMessagesWaiting = 1
           ELSE StorageInit
        /\ xRxLock = queueUNLOCKED /\ xTxLock = queueUNLOCKED
        /\ pxMutexHolder = NULL /\ uxRecursiveCallCount = 0
        /\ frame = [t \in Tasks |-> NULL]

-----------------------------------------------------------------------------
IsSend(t) == frame[t].op \in SendOps
SetFrame(t, f) == frame' = [frame EXCEPT ![t] = f]
locks == <<xRxLock, xTxLock>>
mutex == <<pxMutexHolder, uxRecursiveCallCount>>
calm == <<items, clock, suspension, pxCurrentTCB, yieldAfter, xYieldRequired, interrupt>>

(* A task calls a queue function.  The handle of a mutex is given only by   *)
(* the task that holds it, without waiting (xSemaphoreGive).                *)
CallQueue(t, op, m, ticks) ==
    /\ Caller(t)
    /\ QueueIsMutex => op = "receive" /\ pxMutexHolder # t
    /\ GoTo(t, "top")
    /\ SetFrame(t, [op |-> op, msg |-> m, xTicksToWait |-> ticks, xEntryTimeSet |-> FALSE,
                    xTimeOnEntering |-> 0, wrapped |-> FALSE, left |-> 0])
    /\ UNCHANGED <<lists, priorities, ret, calm, storage, locks, mutex>>

(* xQueueTakeMutexRecursive by the holder, and the end of one that has just *)
(* become the holder.                                                       *)
TakeAgain(t) ==
    /\ QueueIsMutex
    /\ \/ Caller(t) /\ pxMutexHolder = t /\ uxRecursiveCallCount < MaxRecursion
       \/ Running(t, "taken")
    /\ GoTo(t, "user")
    /\ uxRecursiveCallCount' = uxRecursiveCallCount + 1
    /\ UNCHANGED <<lists, priorities, ret, calm, storage, locks, pxMutexHolder, frame>>

(* xQueueGiveMutexRecursive: the last give sends.                           *)
xQueueGiveMutexRecursive(t, m) ==
    /\ QueueIsMutex /\ Caller(t)
    /\ pxMutexHolder = t
    /\ uxRecursiveCallCount' = uxRecursiveCallCount - 1
    /\ IF uxRecursiveCallCount' = 0
       THEN /\ GoTo(t, "top")
            /\ SetFrame(t, [op |-> "sendToBack", msg |-> m, xTicksToWait |-> 0,
                            xEntryTimeSet |-> FALSE, xTimeOnEntering |-> 0,
                            wrapped |-> FALSE, left |-> 0])
       ELSE UNCHANGED <<pc, frame>>
    /\ UNCHANGED <<lists, priorities, ret, calm, storage, locks, pxMutexHolder>>

(* The holder of a mutex that is given: it is released and goes back to its *)
(* own priority.                                                            *)
ReleaseHolder_StaysRaised ==                \* mutant: no vTaskPriorityDisinherit
    /\ pxMutexHolder' = NULL
    /\ UNCHANGED <<uxPriority, xEventValue, xLists, uxTopReadyPriority>>
ReleaseHolder ==
    /\ pxMutexHolder' = NULL
    /\ IF pxMutexHolder # NULL THEN vTaskPriorityDisinherit(pxMutexHolder)
       ELSE UNCHANGED <<uxPriority, xEventValue, xLists, uxTopReadyPriority>>

(* prvCopyDataToQueue.  A mutex has no data.                                *)
prvCopyDataToQueue(op, m) ==
    IF QueueIsMutex
    THEN /\ uxMessagesWaiting' = uxMessagesWaiting + 1
         /\ ReleaseHolder
         /\ UNCHANGED <<pcSlots, pcWriteTo, pcReadFrom>>
    ELSE /\ IF op = "sendToBack" THEN CopyToBack(m) ELSE CopyToFront(m)
         /\ UNCHANGED <<pxMutexHolder, uxPriority, xEventValue, xLists, uxTopReadyPriority>>

(* The successful critical section of xQueueGenericSend: the data goes in,  *)
(* then, still masked, a waiting receiver is woken.                         *)
SendNow(t) ==
    /\ Running(t, "top") /\ IsSend(t)
    /\ ~IsQueueFull
    /\ prvCopyDataToQueue(frame[t].op, frame[t].msg)
    /\ SetFrame(t, NULL)
    /\ ReturnVia(t, IF xEventLists[Waiting.receive] # <<>> THEN "wakeReceiver" ELSE "user")
    /\ UNCHANGED <<xEventLists, uxBasePriority, calm, locks, uxRecursiveCallCount>>

(* The successful critical section of xQueueGenericReceive: a message is    *)
(* taken and a waiting sender woken, or it is left and the next receiver    *)
(* woken to see it.                                                         *)
ReceiveNow(t) ==
    LET peek == frame[t].op = "peek"
        next == IF peek THEN Waiting.receive ELSE Waiting.send
        done == IF QueueIsMutex THEN "taken" ELSE "user"
    IN  /\ Running(t, "top") /\ ~IsSend(t)
        /\ ~IsQueueEmpty
        /\ IF QueueIsMutex
           THEN /\ uxMessagesWaiting' = uxMessagesWaiting - 1
                /\ pxMutexHolder' = t
                /\ UNCHANGED <<pcSlots, pcWriteTo, pcReadFrom>>
           ELSE /\ IF peek THEN UNCHANGED storage ELSE CopyFrom
                /\ UNCHANGED pxMutexHolder
        /\ SetFrame(t, NULL)
        /\ ReturnVia(t, IF xEventLists[next] = <<>> THEN done
                        ELSE IF peek THEN "wakeReceiver" ELSE "wakeSender")
        /\ UNCHANGED <<lists, priorities, calm, locks, uxRecursiveCallCount>>

(* Still in that critical section: xTaskRemoveFromEventList, and a yield if *)
(* the task woken is at least as important.                                 *)
WakeWaiter(t) ==
    \E e \in {Waiting.send, Waiting.receive} :
        /\ Running(t, IF e = Waiting.receive THEN "wakeReceiver" ELSE "wakeSender")
        /\ xTaskRemoveFromEventList(e)
        /\ YieldMaskedIf(t, HeadOutranksCurrent(e))
        /\ UNCHANGED <<priorities, calm, queueVars>>

(* The queue is full, or empty, and the task will not wait.                 *)
GiveUp(t) ==
    /\ Running(t, "top")
    /\ IF IsSend(t) THEN IsQueueFull ELSE IsQueueEmpty
    /\ frame[t].xTicksToWait = 0
    /\ SetFrame(t, NULL)
    /\ GoTo(t, "user")
    /\ UNCHANGED <<lists, priorities, ret, calm, storage, locks, mutex>>

(* It will wait: vTaskSetTimeOutState the first time round.                 *)
WillWait(t) ==
    /\ Running(t, "top")
    /\ IF IsSend(t) THEN IsQueueFull ELSE IsQueueEmpty
    /\ frame[t].xTicksToWait > 0
    /\ IF frame[t].xEntryTimeSet THEN UNCHANGED frame
       ELSE SetFrame(t, [frame[t] EXCEPT !.xEntryTimeSet = TRUE, !.xTimeOnEntering = xTickCount,
                                         !.wrapped = FALSE, !.left = frame[t].xTicksToWait])
    /\ GoTo(t, "suspend")
    /\ UNCHANGED <<lists, priorities, ret, calm, storage, locks, mutex>>

SuspendToBlock(t) ==
    /\ Running(t, "suspend")
    /\ vTaskSuspendAll
    /\ GoTo(t, "lock")
    /\ UNCHANGED <<lists, priorities, items, clock, xMissedYield, pxCurrentTCB, ret,
                   callFrame, interrupt, queueVars>>

(* xTaskCheckForTimeOut: whether the time is up, and what is left of it.    *)
Elapsed(f) == (xTickCount - f.xTimeOnEntering) % TickMod
TimedOut(f) ==
    /\ f.xTicksToWait # portMAX_DELAY
    /\ \/ f.wrapped /\ xTickCount >= f.xTimeOnEntering
       \/ Elapsed(f) >= f.xTicksToWait
Adjusted_SameEntry(f) ==                    \* mutant: the entry time stays
    IF f.xTicksToWait = portMAX_DELAY THEN f ELSE [f EXCEPT !.xTicksToWait = @ - Elapsed(f)]
Adjusted(f) ==
    IF f.xTicksToWait = portMAX_DELAY THEN f
    ELSE [f EXCEPT !.xTicksToWait = @ - Elapsed(f), !.xTimeOnEntering = xTickCount,
                   !.wrapped = FALSE]

(* prvLockQueue, then xTaskCheckForTimeOut (the tick count stands still).   *)
prvLockQueue(t) ==
    /\ Running(t, "lock")
    /\ xRxLock' = IF xRxLock = queueUNLOCKED THEN queueLOCKED_UNMODIFIED ELSE xRxLock
    /\ xTxLock' = IF xTxLock = queueUNLOCKED THEN queueLOCKED_UNMODIFIED ELSE xTxLock
    /\ IF TimedOut(frame[t])
       THEN /\ SetFrame(t, NULL)
            /\ GoTo(t, "unlockTx")
            /\ ret' = [ret EXCEPT ![t] = "user"]
            /\ yieldAfter' = [yieldAfter EXCEPT ![t] = FALSE]
       ELSE /\ SetFrame(t, Adjusted(frame[t]))
            /\ GoTo(t, "look")
            /\ UNCHANGED <<ret, yieldAfter>>
    /\ UNCHANGED <<lists, items, priorities, clock, suspension, pxCurrentTCB, xYieldRequired,
                   interrupt, storage, mutex>>

(* prvIsQueueFull or prvIsQueueEmpty; a task that will wait for a mutex     *)
(* first lends its priority.                                                *)
StillBlocked_NotChecked(t) == TRUE          \* mutant: no second look
StillBlocked(t) == IF IsSend(t) THEN IsQueueFull ELSE IsQueueEmpty

LookAgain(t) ==
    LET blocked == StillBlocked(t)
    IN  /\ Running(t, "look")
        /\ GoTo(t, IF ~blocked THEN "unlockTx" ELSE IF QueueIsMutex THEN "inherit" ELSE "place")
        /\ ret' = [ret EXCEPT ![t] = "top"]
        /\ yieldAfter' = [yieldAfter EXCEPT ![t] = blocked]
        /\ UNCHANGED <<lists, items, priorities, clock, suspension, pxCurrentTCB,
                       xYieldRequired, interrupt, queueVars>>

Inherit(t) ==
    /\ Running(t, "inherit")
    /\ vTaskPriorityInherit(pxMutexHolder)
    /\ GoTo(t, "place")
    /\ UNCHANGED <<xEventLists, uxBasePriority, ret, calm, queueVars>>

Block(t) ==
    /\ Running(t, "place")
    /\ vTaskPlaceOnEventList(t, IF IsSend(t) THEN Waiting.send ELSE Waiting.receive,
                             frame[t].xTicksToWait)
    /\ GoTo(t, "unlockTx")
    /\ UNCHANGED <<uxTopReadyPriority, priorities, xTickCount, uxMissedTicks, suspension,
                   pxCurrentTCB, ret, yieldAfter, xYieldRequired, interrupt, queueVars>>

(* One of the two critical sections of prvUnlockQueue: for every message    *)
(* moved while locked one waiting task, from the head of e, goes to the     *)
(* pending ready list, for the scheduler is suspended.                      *)
WakeForLocked(e, lock) ==
    LET waiting == xEventLists[e]
        n == IF lock > Len(waiting) THEN Len(waiting) ELSE lock
    IN  IF n > 0
        THEN /\ xEventLists' = [xEventLists EXCEPT
                    ![e] = SubSeq(waiting, n + 1, Len(waiting)),
                    ![PendingReadyList] = @ \o SubSeq(waiting, 1, n)]
             /\ xMissedYield' = (xMissedYield \/ \E m \in 1..n :
                                     uxPriority[waiting[m]] >= uxPriority[pxCurrentTCB])
        ELSE UNCHANGED <<xEventLists, xMissedYield>>

prvUnlockQueue(t) ==
    \/ /\ Running(t, "unlockTx")
       /\ WakeForLocked(Waiting.receive, xTxLock)
       /\ xTxLock' = queueUNLOCKED
       /\ GoTo(t, "unlockRx")
       /\ UNCHANGED <<xLists, uxTopReadyPriority, items, priorities, clock, uxSchedulerSuspended,
                      pxCurrentTCB, ret, yieldAfter, xYieldRequired, interrupt,
                      storage, xRxLock, mutex, frame>>
    \/ /\ Running(t, "unlockRx")
       /\ WakeForLocked(Waiting.send, xRxLock)
       /\ xRxLock' = queueUNLOCKED
       /\ GoTo(t, "resumeAll")
       /\ UNCHANGED <<xLists, uxTopReadyPriority, items, priorities, clock, uxSchedulerSuspended,
                      pxCurrentTCB, ret, yieldAfter, xYieldRequired, interrupt,
                      storage, xTxLock, mutex, frame>>

-----------------------------------------------------------------------------

(* What an interrupt does to the other side of the queue: it wakes a task,  *)
(* or counts for the task that holds the lock.  It ends with a context      *)
(* switch if it woke a task at least as important as the current one.       *)
AfterISR(e, lock) ==
    IF lock = queueUNLOCKED /\ xEventLists[e] # <<>>
    THEN xTaskRemoveFromEventList(e) /\ inISR' = HeadOutranksCurrent(e)
    ELSE UNCHANGED <<lists, inISR>>

xQueueGenericSendFromISR(op, m) ==
    /\ InterruptsEnabled /\ ~QueueIsMutex
    /\ xTxLock < MaxLockCount
    /\ ~IsQueueFull
    /\ IF op = "sendToBack" THEN CopyToBack(m) ELSE CopyToFront(m)
    /\ AfterISR(Waiting.receive, xTxLock)
    /\ xTxLock' = IF xTxLock = queueUNLOCKED THEN xTxLock ELSE xTxLock + 1
    /\ UNCHANGED <<items, priorities, clock, suspension, pxCurrentTCB, calls, checkingDelayed,
                   xRxLock, mutex, frame>>

xQueueReceiveFromISR ==
    /\ InterruptsEnabled /\ ~QueueIsMutex
    /\ xRxLock < MaxLockCount
    /\ ~IsQueueEmpty
    /\ CopyFrom
    /\ AfterISR(Waiting.send, xRxLock)
    /\ xRxLock' = IF xRxLock = queueUNLOCKED THEN xRxLock ELSE xRxLock + 1
    /\ UNCHANGED <<items, priorities, clock, suspension, pxCurrentTCB, calls, checkingDelayed,
                   xTxLock, mutex, frame>>

(* The kernel's steps under a queue: ticks run down what is left of every   *)
(* waiting time, and a wrap of the count (xNumOfOverflows) is seen by all.  *)
Aged(f, ticked) ==
    IF f = NULL THEN f
    ELSE [f EXCEPT !.left = IF ticked /\ @ > 0 THEN @ - 1 ELSE @,
                   !.wrapped = f.xEntryTimeSet /\ (@ \/ xTickCount' < xTickCount)]

Tick ==
    /\ uxMissedTicks < MaxMissedTicks \/ uxSchedulerSuspended = 0
    /\ vTickISR
    /\ frame' = [t \in Tasks |-> Aged(frame[t], TRUE)]
    /\ UNCHANGED <<storage, locks, mutex>>

KernelOnly ==
    /\ KernelStep
    /\ frame' = [t \in Tasks |-> Aged(frame[t], FALSE)]
    /\ UNCHANGED <<storage, locks, mutex>>

TaskAPI(t) ==
    /\ \/ Delays # {} /\ DelayStart(t)
       \/ \E n \in Delays : vTaskDelay(t, n)
       \/ \E x \in Tasks \ {Idle}, p \in SettablePriorities : vTaskPrioritySet(t, x, p)
    /\ UNCHANGED queueVars

QueueStep(t) ==
    \/ \E op \in Operations, m \in Messages, n \in BlockTimes[t] : CallQueue(t, op, m, n)
    \/ TakeAgain(t)
    \/ \E m \in Messages : xQueueGiveMutexRecursive(t, m)
    \/ SendNow(t) \/ ReceiveNow(t) \/ WakeWaiter(t) \/ GiveUp(t)
    \/ WillWait(t) \/ SuspendToBlock(t) \/ prvLockQueue(t) \/ LookAgain(t)
    \/ Inherit(t) \/ Block(t) \/ prvUnlockQueue(t)

FromISR ==
    \/ \E op \in ISROperations \cap SendOps, m \in Messages : xQueueGenericSendFromISR(op, m)
    \/ "receive" \in ISROperations /\ xQueueReceiveFromISR

Next ==
    \/ KernelOnly
    \/ Tick
    \/ FromISR
    \/ \E t \in Tasks : TaskAPI(t) \/ QueueStep(t)

Spec == Init /\ [][Next]_vars

-----------------------------------------------------------------------------
(* The kernel's and the queue's state stay within their types: wait times   *)
(* that were adjusted never fall below zero, locks are -1 or a count.       *)
TypeOK ==
    /\ KernelTypeOK
    /\ pc \in [Tasks -> {"user", "delay", "resumeAll", "drain", "yield", "yieldMasked", "top",
                         "taken", "wakeReceiver", "wakeSender", "suspend", "lock", "look",
                         "inherit", "place", "unlockTx", "unlockRx"}]
    /\ ret \in [Tasks -> {"user", "top", "taken"}]
    /\ StorageTypeOK
    /\ xRxLock \in Nat \cup {queueUNLOCKED} /\ xTxLock \in Nat \cup {queueUNLOCKED}
    /\ pxMutexHolder \in Tasks \cup {NULL} /\ uxRecursiveCallCount \in 0..MaxRecursion
    /\ frame \in [Tasks -> Frames \cup {NULL}]

(* Tasks on their way back to the start of the loop: woken by the other     *)
(* side, by the tick, or sent round again by the second look.               *)
Retrying(ops) ==
    {t \in Tasks : /\ frame[t] # NULL /\ frame[t].op \in ops
                   /\ pc[t] = "top" \/ (ret[t] = "top" /\ pc[t] \notin {"inherit", "place"})
                   /\ \A e \in EventLists : ~In(t, xEventLists[e])}
Counted(lock) == IF lock = queueUNLOCKED THEN 0 ELSE lock
Waking(at) == IF \E t \in Tasks : pc[t] = at THEN 1 ELSE 0

(* No wakeup is lost: while a task waits to receive, every message in the   *)
(* queue has a task coming for it, woken already, about to be woken in the  *)
(* critical section in progress, or owed by the lock count; and the same    *)
(* for free slots and tasks that wait to send.  Messages can come and go    *)
(* through interrupts at every point of a task's path into blocking.        *)
NoLostWakeup ==
    /\ xEventLists[Waiting.receive] # <<>> =>
           uxMessagesWaiting <= Cardinality(Retrying(ReceiveOps)) + Counted(xTxLock)
                                + Waking("wakeReceiver")
    /\ xEventLists[Waiting.send] # <<>> =>
           uxLength - uxMessagesWaiting <= Cardinality(Retrying(SendOps)) + Counted(xRxLock)
                                + Waking("wakeSender")

(* xTaskCheckForTimeOut never ends a wait early: a call that fails after    *)
(* waiting has seen at least the tick interrupts it asked for, across wraps *)
(* of the tick count and any number of wakings that came to nothing.        *)
NoEarlyTimeout ==
    [][\A t \in Tasks :
          pc[t] = "lock" /\ pc'[t] = "unlockTx" =>
              frame[t].left = 0 /\ frame[t].xTicksToWait # portMAX_DELAY]_vars

(* A task is in an event list exactly while its call is blocked, with its   *)
(* generic item where its timeout needs it; a lock is held only by a task   *)
(* that has the scheduler suspended.                                        *)
WaitersAreBlocked ==
    /\ \A t \in Tasks, e \in EventLists : In(t, xEventLists[e]) =>
          /\ frame[t] # NULL /\ IsSend(t) = (e = Waiting.send)
          /\ IF frame[t].xTicksToWait = portMAX_DELAY THEN In(t, xLists[SuspendedTaskList])
             ELSE IsDelayed(t)
    /\ xTxLock # queueUNLOCKED => uxSchedulerSuspended > 0
    /\ xRxLock # queueUNLOCKED => uxSchedulerSuspended > 0

(* A task runs code outside critical sections with the scheduler active.    *)
Preemptible == ~inISR /\ uxSchedulerSuspended = 0
               /\ pc[pxCurrentTCB] \in {"user", "top", "suspend", "taken"}

(* Every wakeup through a queue switches tasks when it should: a task runs  *)
(* only while no ready task has a higher priority, whoever sent, received,  *)
(* unlocked the queue or interrupted before.                                *)
HighestPriorityRuns ==
    Preemptible => /\ IsReady(pxCurrentTCB)
                   /\ \A t \in Tasks : IsReady(t) => uxPriority[t] <= uxPriority[pxCurrentTCB]

(* Who has to wait is blocked, and of the others the most important runs,   *)
(* whatever wakes, times out or changes priority between (queue.c:490-1000, *)
(* tasks.c:1807-1878).                                                      *)
WaitersBlockedOthersRun == WaitersAreBlocked /\ HighestPriorityRuns

(* queue.c:479-480: "To be running we must be the highest priority task     *)
(* wanting to access the queue."                                            *)
RunningWantsItMost ==
    \A t, u \in Tasks :
        Running(t, "top") /\ IsReady(u) /\ frame[u] # NULL => uxPriority[u] <= uxPriority[t]

(* tasks.c:1807: "The event list is sorted in priority order, so we can     *)
(* remove the first in the list".                                           *)
EventListsInPriorityOrder ==
    \A e \in EventLists : \A m, n \in DOMAIN xEventLists[e] :
        m < n => uxPriority[xEventLists[e][m]] >= uxPriority[xEventLists[e][n]]

(* Priority inheritance at work: whoever holds the mutex is at least as     *)
(* important as every task that waits for it.                               *)
NoPriorityInversion ==
    pxMutexHolder # NULL => \A n \in DOMAIN xEventLists[Waiting.receive] :
        uxPriority[pxMutexHolder] >= uxPriority[xEventLists[Waiting.receive][n]]

(* And only for that long: a task above its own priority holds the mutex.   *)
InheritedOnlyByHolder ==
    \A t \in Tasks : uxPriority[t] # uxBasePriority[t] => t = pxMutexHolder

(* queue.c:357-371, the reasons given for using pxMutexHolder and the call  *)
(* count without a critical section: a mutex has a holder exactly while it  *)
(* is taken, and a holder that is not just entering or leaving has taken it *)
(* at least once.                                                           *)
HolderCountsTrue ==
    /\ pxMutexHolder = NULL <=> uxMessagesWaiting = 1
    /\ pxMutexHolder # NULL /\ pc[pxMutexHolder] # "taken" /\ frame[pxMutexHolder] = NULL =>
           uxRecursiveCallCount > 0
    /\ \A t \in Tasks : pc[t] = "taken" => t = pxMutexHolder /\ uxRecursiveCallCount = 0

(* The record of who holds the mutex is true, although parts of it change   *)
(* outside of critical sections, and so is what follows from it: whose      *)
(* priority is raised (queue.c:357-420, tasks.c:2409-2490).                 *)
HoldersTrue == HolderCountsTrue /\ InheritedOnlyByHolder
=============================================================================
