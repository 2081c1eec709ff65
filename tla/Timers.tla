------------------------------- MODULE Timers -------------------------------
(***************************************************************************)
(* timers.c: software timers.  Tasks and interrupts send commands through  *)
(* xTimerQueue to the timer service task, which keeps the active timers in *)
(* two lists, one on each side of the next wrap of the tick count.         *)
(*                                                                         *)
(* The queue is the bounded sequence that QueueStorage implements, and the *)
(* service task blocks on it as Queue describes; here it is woken by a     *)
(* command or by the tick at which its wait ends.  A step of the service   *)
(* task is what it does between two points at which a tick or a command    *)
(* makes a difference to it.                                               *)
(***************************************************************************)
EXTENDS Integers, Sequences, FiniteSets

CONSTANTS
    Timers,                 \* timer structures
    AutoReload,             \* those created with uxAutoReload
    Deletable,              \* those that clients may delete
    Periods,                \* the periods asked for
    TickMod,                \* portTickType counts modulo this
    configTIMER_QUEUE_LENGTH,
    Preempts,               \* commands arrive while the service task runs:
                            \* from interrupts, or tasks of a higher priority
    MaxLag,                 \* bound: ticks the service task can be behind
    NULL

ASSUME TimersAssumption ==
    /\ IsFiniteSet(Timers) /\ AutoReload \cup Deletable \subseteq Timers /\ NULL \notin Timers
    /\ TickMod \in Nat \ {0} /\ Periods \subseteq 1..(TickMod - 1)
    /\ configTIMER_QUEUE_LENGTH \in Nat \ {0}
    /\ Preempts \in BOOLEAN
    /\ MaxLag \in Nat /\ MaxLag < TickMod /\ \A p \in Periods : p + MaxLag < TickMod

Ticks == 0..(TickMod - 1)
tmrCOMMAND_START == "start"
tmrCOMMAND_STOP == "stop"
tmrCOMMAND_CHANGE_PERIOD == "changePeriod"
tmrCOMMAND_DELETE == "delete"

VARIABLES
    xTickCount,
    pxCurrentTimerList, pxOverflowTimerList,    \* sequences of timers
    xTimerListItem,         \* Timers -> Ticks, the value of the list item
    xTimerPeriodInTicks,    \* Timers -> Periods
    allocated,              \* the timers that have not been freed
    xTimerQueue,            \* sequence of messages
    xLastTime,              \* the static of prvSampleTimeNow
    pc,                     \* where the service task is
    xNextExpireTime, xListWasEmpty, xTimeNow,   \* its locals
    wait,                   \* ticks until its wait on the queue ends
    client,                 \* a message whose sender has read the tick count
    handles,                \* the timers that clients may still name
    \* Histories: ticks until each active timer is due, ticks since xTimeNow
    \* was sampled, the timers that should be active, a callback came early.
    due, lag, started, early

timerLists == <<pxCurrentTimerList, pxOverflowTimerList, xTimerListItem>>
timers == <<timerLists, xTimerPeriodInTicks, allocated>>
locals == <<pc, xNextExpireTime, xListWasEmpty, xTimeNow, wait>>
clients == <<client, handles>>
histories == <<due, lag, started, early>>
vars == <<xTickCount, timers, xTimerQueue, xLastTime, locals, clients, histories>>

(* Histories: `age' is the ticks since xMessageValue was the tick count,    *)
(* `reload' says that the service task sent the message to itself.          *)
Message(id, value, t) ==
    [xMessageID |-> id, xMessageValue |-> value, pxTimer |-> t, age |-> 0, reload |-> FALSE]
Reload(value, t, age) ==
    [xMessageID |-> tmrCOMMAND_START, xMessageValue |-> value, pxTimer |-> t, age |-> age,
     reload |-> TRUE]

Init ==
    /\ xTickCount = 0 /\ xLastTime = 0
    /\ pxCurrentTimerList = <<>> /\ pxOverflowTimerList = <<>>
    /\ xTimerListItem = [t \in Timers |-> 0]
    /\ xTimerPeriodInTicks \in [Timers -> Periods]
    /\ allocated = Timers /\ handles = Timers
    /\ xTimerQueue = <<>>
    /\ pc = "getNext" /\ xNextExpireTime = 0 /\ xListWasEmpty = TRUE
    /\ xTimeNow = 0 /\ wait = 0
    /\ client = NULL
    /\ due = [t \in Timers |-> 0] /\ lag = 0 /\ started = {} /\ early = FALSE

-----------------------------------------------------------------------------
In(t, s) == \E n \in DOMAIN s : s[n] = t
Without(s, t) ==
    IF ~In(t, s) THEN s
    ELSE LET k == CHOOSE n \in DOMAIN s : s[n] = t
         IN  [n \in 1..(Len(s) - 1) |-> IF n < k THEN s[n] ELSE s[n + 1]]

(* vListInsert: behind the items with the same or a lower value.            *)
Inserted(s, t, value) ==
    LET k == Cardinality({n \in DOMAIN s : value[s[n]] <= value[t]}) + 1
    IN  [n \in 1..(Len(s) + 1) |-> IF n < k THEN s[n] ELSE IF n = k THEN t ELSE s[n - 1]]

xTimerIsTimerActive(t) == In(t, pxCurrentTimerList) \/ In(t, pxOverflowTimerList)

(* Where a command finds room: the queue after a send without waiting.      *)
Posted(queue, m) ==
    IF Len(queue) < configTIMER_QUEUE_LENGTH THEN Append(queue, m) ELSE queue

(* A period after a tick value.                                             *)
ExpiryAfter(value, period) == (value + period) % TickMod

ActiveListFor_AnyWrap(period, xNextExpiryTime, now, xCommandTime) ==    \* mutant
    IF xNextExpiryTime <= now
    THEN IF (now - xCommandTime) % TickMod >= period THEN "now" ELSE "overflow"
    ELSE IF now < xCommandTime THEN "now" ELSE "current"

(* prvInsertTimerInActiveList: which list, or "now" if it has expired.      *)
ActiveListFor(period, xNextExpiryTime, now, xCommandTime) ==
    IF xNextExpiryTime <= now
    THEN IF (now - xCommandTime) % TickMod >= period THEN "now" ELSE "overflow"
    ELSE IF now < xCommandTime /\ xNextExpiryTime >= xCommandTime THEN "now" ELSE "current"

prvInsertTimerInActiveList(t, current, overflow, expiry, list) ==
    /\ xTimerListItem' = [xTimerListItem EXCEPT ![t] = expiry]
    /\ pxCurrentTimerList' =
           IF list = "current" THEN Inserted(current, t, xTimerListItem') ELSE current
    /\ pxOverflowTimerList' =
           IF list = "overflow" THEN Inserted(overflow, t, xTimerListItem') ELSE overflow

(* An auto-reload timer that has expired once more restarts by a command.   *)
ReloadByCommand_Never(t, list) == FALSE     \* mutant: the command is not sent
ReloadByCommand(t, list) == list = "now" /\ t \in AutoReload

(* The callback of t, with `left' ticks to go until it is due.              *)
Callback(t, left) ==
    /\ early' = (early \/ left > 0)
    /\ started' = IF t \in AutoReload THEN started ELSE started \ {t}

-----------------------------------------------------------------------------
(* prvGetNextExpireTime.                                                    *)
prvGetNextExpireTime ==
    /\ pc = "getNext"
    /\ xListWasEmpty' = (pxCurrentTimerList = <<>>)
    /\ xNextExpireTime' = IF pxCurrentTimerList = <<>> THEN 0
                          ELSE xTimerListItem[Head(pxCurrentTimerList)]
    /\ pc' = "processOrBlock"
    /\ UNCHANGED <<xTickCount, timers, xTimerQueue, xLastTime, xTimeNow, wait, clients,
                   histories>>

(* prvSampleTimeNow, when the count has not wrapped since the last sample   *)
(* and when it has.                                                         *)
SampledSameLap ==
    /\ xTickCount >= xLastTime
    /\ xTimeNow' = xTickCount /\ xLastTime' = xTickCount /\ lag' = 0
SampledNextLap ==
    /\ xTickCount < xLastTime
    /\ xTimeNow' = xTickCount /\ lag' = 0

(* prvProcessTimerOrBlockTask, with the scheduler suspended: the tick count *)
(* stands still from the sample to the wait.                                *)
prvProcessTimerOrBlockTask ==
    /\ pc = "processOrBlock"
    /\ \/ SampledNextLap /\ pc' = "switchSuspended" /\ UNCHANGED <<wait, xLastTime>>
       \/ /\ SampledSameLap
          /\ IF ~xListWasEmpty /\ xNextExpireTime <= xTimeNow'
             THEN pc' = "expired" /\ UNCHANGED wait
             ELSE /\ pc' = IF xTimerQueue = <<>> THEN "blocked" ELSE "commands"
                  /\ wait' = (xNextExpireTime - xTimeNow') % TickMod
    /\ UNCHANGED <<xTickCount, timers, xTimerQueue, xNextExpireTime, xListWasEmpty, clients,
                   due, started, early>>

(* prvProcessExpiredTimer: the head of the list that was looked at.         *)
prvProcessExpiredTimer ==
    LET t == Head(pxCurrentTimerList)
        period == xTimerPeriodInTicks[t]
        next == ExpiryAfter(xNextExpireTime, period)
        list == ActiveListFor(period, next, xTimeNow, xNextExpireTime)
    IN  /\ pc = "expired"
        /\ IF t \in AutoReload
           THEN /\ prvInsertTimerInActiveList(t, Tail(pxCurrentTimerList), pxOverflowTimerList,
                                              next, list)
                /\ xTimerQueue' = IF ReloadByCommand(t, list)
                                  THEN Posted(xTimerQueue, Reload(xNextExpireTime, t, -due[t]))
                                  ELSE xTimerQueue
                /\ due' = [due EXCEPT ![t] = IF list = "now" THEN 0 ELSE @ + period]
           ELSE /\ pxCurrentTimerList' = Tail(pxCurrentTimerList)
                /\ due' = [due EXCEPT ![t] = 0]
                /\ UNCHANGED <<pxOverflowTimerList, xTimerListItem, xTimerQueue>>
        /\ Callback(t, due[t])
        /\ pc' = "commands"
        /\ UNCHANGED <<xTickCount, xTimerPeriodInTicks, allocated, xLastTime, xNextExpireTime,
                       xListWasEmpty, xTimeNow, wait, clients, lag>>

(* prvSwitchTimerLists: a round of the loop over the timers left from       *)
(* before the wrap, then the exchange of the lists.                         *)
AfterSwitch == IF pc = "switchSuspended" THEN "commands" ELSE "receive"

prvSwitchTimerLists ==
    /\ pc \in {"switchSuspended", "switch"}
    /\ IF pxCurrentTimerList # <<>>
       THEN LET t == Head(pxCurrentTimerList)
                expiry == xTimerListItem[t]
                xReloadTime == ExpiryAfter(expiry, xTimerPeriodInTicks[t])
                again == t \in AutoReload /\ xReloadTime > expiry
            IN  /\ prvInsertTimerInActiveList(t, Tail(pxCurrentTimerList), pxOverflowTimerList,
                        IF again THEN xReloadTime ELSE expiry, IF again THEN "current" ELSE "none")
                /\ xTimerQueue' = IF again \/ t \notin AutoReload THEN xTimerQueue
                                  ELSE Posted(xTimerQueue, Reload(expiry, t, -due[t]))
                /\ due' = [due EXCEPT ![t] = IF again THEN @ + xTimerPeriodInTicks[t] ELSE 0]
                /\ Callback(t, due[t])
                /\ UNCHANGED <<pc, xLastTime>>
       ELSE /\ pxCurrentTimerList' = pxOverflowTimerList
            /\ pxOverflowTimerList' = pxCurrentTimerList
            /\ xLastTime' = xTimeNow
            /\ pc' = AfterSwitch
            /\ UNCHANGED <<xTimerListItem, xTimerQueue, due, started, early>>
    /\ UNCHANGED <<xTickCount, xTimerPeriodInTicks, allocated, xNextExpireTime, xListWasEmpty,
                   xTimeNow, wait, clients, lag>>

(* The start of prvProcessReceivedCommands: one sample for all of them.     *)
SampleForCommands ==
    /\ pc = "commands"
    /\ \/ SampledNextLap /\ pc' = "switch" /\ UNCHANGED xLastTime
       \/ SampledSameLap /\ pc' = "receive"
    /\ UNCHANGED <<xTickCount, timers, xTimerQueue, xNextExpireTime, xListWasEmpty, wait,
                   clients, due, started, early>>

(* The cases of prvProcessReceivedCommands, on the timer removed from its   *)
(* list and the queue without the message.                                  *)
StartCommand(m, current, overflow, queue) ==
    LET t == m.pxTimer
        period == xTimerPeriodInTicks[t]
        next == ExpiryAfter(m.xMessageValue, period)
        list == ActiveListFor(period, next, xTimeNow, m.xMessageValue)
    IN  /\ prvInsertTimerInActiveList(t, current, overflow, next, list)
        /\ xTimerQueue' = IF ReloadByCommand(t, list)
                          THEN Posted(queue, Reload(next, t, m.age - period))
                          ELSE queue
        /\ due' = [due EXCEPT ![t] = IF list = "now" THEN 0 ELSE period - m.age]
        /\ early' = (early \/ (list = "now" /\ m.age < period))
        /\ started' = IF list = "now" /\ t \notin AutoReload THEN started \ {t}
                      ELSE IF m.reload THEN started ELSE started \cup {t}
        /\ UNCHANGED <<xTimerPeriodInTicks, allocated>>

StopCommand(m, current, overflow, queue) ==
    /\ pxCurrentTimerList' = current /\ pxOverflowTimerList' = overflow
    /\ xTimerQueue' = queue
    /\ due' = [due EXCEPT ![m.pxTimer] = 0]
    /\ started' = started \ {m.pxTimer}
    /\ UNCHANGED <<xTimerListItem, xTimerPeriodInTicks, allocated, early>>

ChangePeriodCommand(m, current, overflow, queue) ==
    LET t == m.pxTimer
        period == m.xMessageValue
        next == ExpiryAfter(xTimeNow, period)
    IN  /\ xTimerPeriodInTicks' = [xTimerPeriodInTicks EXCEPT ![t] = period]
        /\ prvInsertTimerInActiveList(t, current, overflow, next,
                                      ActiveListFor(period, next, xTimeNow, xTimeNow))
        /\ xTimerQueue' = queue
        /\ due' = [due EXCEPT ![t] = period - lag]
        /\ started' = started \cup {t}
        /\ UNCHANGED <<allocated, early>>

DeleteCommand(m, current, overflow, queue) ==
    /\ pxCurrentTimerList' = current /\ pxOverflowTimerList' = overflow
    /\ xTimerQueue' = queue
    /\ allocated' = allocated \ {m.pxTimer}
    /\ due' = [due EXCEPT ![m.pxTimer] = 0]
    /\ started' = started \ {m.pxTimer}
    /\ UNCHANGED <<xTimerListItem, xTimerPeriodInTicks, early>>

(* A round of the loop of prvProcessReceivedCommands.                       *)
prvProcessReceivedCommands ==
    /\ pc = "receive"
    /\ xTimerQueue # <<>>
    /\ LET m == Head(xTimerQueue)
           current == Without(pxCurrentTimerList, m.pxTimer)
           overflow == Without(pxOverflowTimerList, m.pxTimer)
           queue == Tail(xTimerQueue)
       IN  \/ m.xMessageID = tmrCOMMAND_START /\ StartCommand(m, current, overflow, queue)
           \/ m.xMessageID = tmrCOMMAND_STOP /\ StopCommand(m, current, overflow, queue)
           \/ /\ m.xMessageID = tmrCOMMAND_CHANGE_PERIOD
              /\ ChangePeriodCommand(m, current, overflow, queue)
           \/ m.xMessageID = tmrCOMMAND_DELETE /\ DeleteCommand(m, current, overflow, queue)
    /\ UNCHANGED <<xTickCount, xLastTime, locals, clients, lag>>

CommandsDone ==
    /\ pc = "receive"
    /\ xTimerQueue = <<>>
    /\ pc' = "getNext"
    /\ UNCHANGED <<xTickCount, timers, xTimerQueue, xLastTime, xNextExpireTime, xListWasEmpty,
                   xTimeNow, wait, clients, histories>>

ServiceTask ==
    \/ prvGetNextExpireTime
    \/ prvProcessTimerOrBlockTask
    \/ prvProcessExpiredTimer
    \/ prvSwitchTimerLists
    \/ SampleForCommands
    \/ prvProcessReceivedCommands
    \/ CommandsDone

-----------------------------------------------------------------------------
(* A client evaluates the arguments of xTimerStart, xTimerReset, xTimerStop,*)
(* xTimerChangePeriod or xTimerDelete; it may be preempted or wait for room *)
(* before the message is in the queue.  It forgets a timer it deletes.      *)
ClientRuns == Preempts \/ pc = "blocked"

Command(t) ==
    /\ ClientRuns
    /\ client = NULL
    /\ t \in handles
    /\ \/ client' = Message(tmrCOMMAND_START, xTickCount, t) /\ UNCHANGED handles
       \/ client' = Message(tmrCOMMAND_STOP, 0, t) /\ UNCHANGED handles
       \/ \E p \in Periods : /\ client' = Message(tmrCOMMAND_CHANGE_PERIOD, p, t)
                              /\ UNCHANGED handles
       \/ /\ t \in Deletable
          /\ client' = Message(tmrCOMMAND_DELETE, 0, t)
          /\ handles' = handles \ {t}
    /\ UNCHANGED <<xTickCount, timers, xTimerQueue, xLastTime, locals, histories>>

(* xTimerGenericCommand: the message goes in, and wakes the service task.   *)
(* Without room the client waits, or gives up and keeps its handle.         *)
xTimerGenericCommand ==
    /\ ClientRuns
    /\ client # NULL
    /\ client' = NULL
    /\ IF Len(xTimerQueue) < configTIMER_QUEUE_LENGTH
       THEN /\ xTimerQueue' = Append(xTimerQueue, client)
            /\ pc' = IF pc = "blocked" THEN "commands" ELSE pc
            /\ UNCHANGED handles
       ELSE /\ handles' = handles \cup {client.pxTimer}
            /\ UNCHANGED <<xTimerQueue, pc>>
    /\ UNCHANGED <<xTickCount, timers, xLastTime, xNextExpireTime, xListWasEmpty, xTimeNow,
                   wait, histories>>

(* xTimerCreate, in memory that has been freed.                             *)
xTimerCreate(t, p) ==
    /\ ClientRuns
    /\ t \notin allocated
    /\ allocated' = allocated \cup {t}
    /\ handles' = handles \cup {t}
    /\ xTimerPeriodInTicks' = [xTimerPeriodInTicks EXCEPT ![t] = p]
    /\ UNCHANGED <<xTickCount, timerLists, xTimerQueue, xLastTime, locals, client, histories>>

(* A tick.  It ends the wait of the service task when its time has come.    *)
(* Assumed: the service task is at most MaxLag ticks behind the tick count, *)
(* and so are the timers it should have served.                             *)
Active == {t \in Timers : xTimerIsTimerActive(t)}
Older(m) == [m EXCEPT !.age = IF m.xMessageID = tmrCOMMAND_START THEN @ + 1 ELSE @]
InTime(m) == m.xMessageID = tmrCOMMAND_START => m.age < MaxLag + xTimerPeriodInTicks[m.pxTimer]

WaitEnds_NotIfEmpty == wait <= 1 /\ ~xListWasEmpty  \* mutant: no wait for the wrap
WaitEnds == wait <= 1

Tick ==
    /\ pc # "switchSuspended"
    /\ pc = "blocked" \/ lag < MaxLag
    /\ \A t \in Active : due[t] > -MaxLag
    /\ \A n \in DOMAIN xTimerQueue : InTime(xTimerQueue[n])
    /\ client # NULL => InTime(client)
    /\ xTickCount' = (xTickCount + 1) % TickMod
    /\ due' = [t \in Timers |-> IF t \in Active THEN due[t] - 1 ELSE due[t]]
    /\ xTimerQueue' = [n \in DOMAIN xTimerQueue |-> Older(xTimerQueue[n])]
    /\ client' = IF client = NULL THEN NULL ELSE Older(client)
    /\ IF pc = "blocked"
       THEN /\ wait' = IF wait > 0 THEN wait - 1 ELSE 0
            /\ pc' = IF WaitEnds THEN "commands" ELSE "blocked"
            /\ UNCHANGED lag
       ELSE lag' = lag + 1 /\ UNCHANGED <<wait, pc>>
    /\ UNCHANGED <<timers, xLastTime, xNextExpireTime, xListWasEmpty, xTimeNow, handles,
                   started, early>>

Next ==
    \/ ServiceTask
    \/ Tick
    \/ \E t \in Timers : Command(t) \/ \E p \in Periods : xTimerCreate(t, p)
    \/ xTimerGenericCommand

Spec == Init /\ [][Next]_vars

(* The service task is scheduled again and again, and time passes.  Clients *)
(* promise nothing.                                                         *)
FairSpec == Spec /\ WF_vars(ServiceTask) /\ WF_vars(Tick)

-----------------------------------------------------------------------------
(* Tick values stay within portTickType, a timer is in a list once, and the *)
(* service task's own state within what its code allows.                    *)
TypeOK ==
    /\ {xTickCount, xLastTime, xNextExpireTime, xTimeNow, wait} \subseteq Ticks
    /\ \A l \in {pxCurrentTimerList, pxOverflowTimerList} :
          l \in Seq(Timers) /\ \A m, n \in DOMAIN l : l[m] = l[n] => m = n
    /\ xTimerListItem \in [Timers -> Ticks]
    /\ xTimerPeriodInTicks \in [Timers -> Periods]
    /\ allocated \subseteq Timers /\ handles \subseteq Timers /\ started \subseteq Timers
    /\ Len(xTimerQueue) <= configTIMER_QUEUE_LENGTH
    /\ pc \in {"getNext", "processOrBlock", "switchSuspended", "expired", "blocked",
               "commands", "switch", "receive"}
    /\ xListWasEmpty \in BOOLEAN /\ early \in BOOLEAN
    /\ due \in [Timers -> Int] /\ lag \in 0..MaxLag

(* timers.h:331: "the timers expiry time is relative to when xTimerStart()  *)
(* is actually called".  No callback comes before the period has passed.    *)
NoEarlyExpiry == ~early

(* The two lists are on the two sides of the wrap, as the service task will *)
(* see it: every active timer is in the list, and at the value, that makes  *)
(* it expire when it is due, also while the count has wrapped and the task  *)
(* has not noticed yet.  Auto-reload timers therefore never drift.          *)
ListsInPhase ==
    LET lap == IF xTickCount < xLastTime THEN TickMod ELSE 0
    IN  /\ \A n \in DOMAIN pxCurrentTimerList :
              LET t == pxCurrentTimerList[n] IN due[t] = xTimerListItem[t] - xTickCount - lap
        /\ \A n \in DOMAIN pxOverflowTimerList :
              LET t == pxOverflowTimerList[n]
              IN  due[t] = xTimerListItem[t] - xTickCount + TickMod - lap

(* timers.c:320: configASSERT( xResult ), the reload is never refused.  So  *)
(* a timer that should run is in a list or on its way there.                *)
NoTimerLost ==
    \A t \in started :
        \/ xTimerIsTimerActive(t)
        \/ \E n \in DOMAIN xTimerQueue : xTimerQueue[n].pxTimer = t

(* Every timer comes to its callback: once the clients are quiet, a started *)
(* one-shot timer expires, and an auto-reload timer is served and reloaded  *)
(* again and again.                                                         *)
TimersExpire ==
    <>[](client = NULL) =>
        \A t \in Timers :
            /\ t \notin AutoReload => []<>(t \notin started)
            /\ <>[](t \in AutoReload \cap started) => []<><<due'[t] > due[t]>>_vars

(* A command never reaches a timer after it was freed.                      *)
NoUseAfterFree ==
    /\ Active \subseteq allocated
    /\ \A n \in DOMAIN xTimerQueue : xTimerQueue[n].pxTimer \in allocated

(* The lists tell when timers are due, no timer is lost on its way to them  *)
(* and none is used after it was freed.                                     *)
TimersKept == ListsInPhase /\ NoTimerLost /\ NoUseAfterFree
=============================================================================
