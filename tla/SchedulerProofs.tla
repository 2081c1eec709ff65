--------------------------- MODULE SchedulerProofs ---------------------------
(***************************************************************************)
(* The scheduler is correct for any tasks, any number of priorities, any   *)
(* width of the tick count and any sequence of calls, ticks and            *)
(* interrupts.                                                             *)
(*                                                                         *)
(* One inductive invariant, SchedInv, carries the theorems. Its parts need *)
(* each other. Between the moment a task is readied and the context switch *)
(* the current task need not be the highest, but a switch is owed          *)
(* (Ruling). That it stays owed until it happens rests on xMissedYield,    *)
(* xYieldRequired and the yield of the caller (SwitchOwed); that the       *)
(* current task is ready when none is owed, on Present. The switch finds   *)
(* the highest ready task because uxTopReadyPriority is never too low      *)
(* (TopKnown) and the idle task is always ready (IdleIsReady). The delays  *)
(* (DelaysExact) rest on the order of the delayed lists (Ordered): the     *)
(* loop of prvCheckDelayedTasks stops at the first task whose time has not *)
(* come.                                                                   *)
(*                                                                         *)
(* A step of the system is one case of StepGood, and each case has a lemma *)
(* here.                                                                   *)
(***************************************************************************)
EXTENDS Scheduler, KernelProofs

(* A task that exists is in exactly one list.                               *)
Listed ==
    /\ IsLists(xLists)
    /\ \A t \in Tasks : pc[t] # "free" <=> \E l \in GenericLists : In(t, xLists[l])

(* A ready task is in the list of its priority (tasks.c:258-263).           *)
ReadyByPriority ==
    \A p \in Priorities : \A t \in Tasks : In(t, xLists[p]) => uxPriority[t] = p

(* What is in the pending ready list is still in the list it waits in, so   *)
(* that xTaskResumeAll can move it (tasks.c:1198-1210).                     *)
PendingIsBlocked ==
    /\ \A e \in ItemLists : Once(xEventLists[e])
    /\ \A t \in Tasks : In(t, xEventLists[PendingReadyList]) =>
          \/ In(t, xLists[SuspendedTaskList])
          \/ In(t, xLists[DelayedTaskList]) \/ In(t, xLists[OverflowDelayedTaskList])

(* The tasks with a control block.                                          *)
Existing == {t \in Tasks : pc[t] # "free"}

(* The counters agree with the lists: prvCheckTasksWaitingTermination       *)
(* trusts uxTasksDeleted.                                                   *)
Counted ==
    /\ uxTasksDeleted = Len(xLists[TasksWaitingTermination])
    /\ uxCurrentNumberOfTasks = Cardinality(Existing)

(* The idle task never blocks, and no task inherits a priority.             *)
IdleIsReady == In(Idle, xLists[0]) /\ uxBasePriority = uxPriority

(* Where tasks can be in their code.                                        *)
BetweenSteps == {"user", "yield", "reap", "idleYield", "free"}

(* Tasks that do not run stand at a place where a task can be switched out; *)
(* a task is in the middle of a kernel call only with the scheduler as that *)
(* call leaves it.                                                          *)
Control ==
    /\ \A t \in Tasks \ {pxCurrentTCB} : pc[t] \in BetweenSteps
    /\ pc[pxCurrentTCB] = "delay" => uxSchedulerSuspended = 1
    /\ pc[pxCurrentTCB] = "resumeAll" => uxSchedulerSuspended > 0
    /\ pc[pxCurrentTCB] = "drain" => uxSchedulerSuspended = 0
    /\ inISR => uxSchedulerSuspended = 0 /\ pc[pxCurrentTCB] \notin Masked
    /\ checkingDelayed => /\ uxSchedulerSuspended = 0
                          /\ inISR \/ (pc[pxCurrentTCB] = "drain" /\ xYieldRequired)

(* The current task is ready, or in the call by which it left its ready     *)
(* list and which ends with a context switch that cannot be put off.        *)
Present ==
    \/ IsReady(pxCurrentTCB)
    \/ uxSchedulerSuspended = 0 /\ pc[pxCurrentTCB] \in {"yield", "yieldMasked"}
    \/ uxSchedulerSuspended = 0 /\ pc[pxCurrentTCB] = "drain" /\ yieldAfter[pxCurrentTCB]
    \/ uxSchedulerSuspended = 1 /\ pc[pxCurrentTCB] = "resumeAll" /\ yieldAfter[pxCurrentTCB]

(* The idle task goes to free a control block only when one waits.          *)
Reaping ==
  /\ pc[Idle] # "delay"
  /\ pc[Idle] = "reap" \/ (pc[Idle] \in {"resumeAll", "drain", "yield", "yieldMasked"} /\ ret[Idle] = "reap")
        => xLists[TasksWaitingTermination] # <<>>

(* A context switch is certain to come before any task runs its own code    *)
(* with the scheduler active.                                               *)
SwitchOwed ==
    \/ inISR \/ xMissedYield
    \/ pc[pxCurrentTCB] \in {"yield", "yieldMasked"}
    \/ pc[pxCurrentTCB] = "drain" /\ xYieldRequired
    \/ pc[pxCurrentTCB] \in {"resumeAll", "drain"} /\ yieldAfter[pxCurrentTCB]

(* uxTopReadyPriority is never too low; it may be too high.                 *)
TopKnown == \A p \in Priorities : xLists[p] # <<>> => p <= uxTopReadyPriority

(* The current task is ready and no ready task is above it.                 *)
CurrentRules ==
    /\ \E p \in Priorities : In(pxCurrentTCB, xLists[p])
    /\ \A t \in Tasks : \A p \in Priorities : In(t, xLists[p]) => p <= uxPriority[pxCurrentTCB]

(* Either that, or a switch that will make it so is owed.                   *)
Ruling == SwitchOwed \/ CurrentRules

(* prvCheckDelayedTasks may stop at the first task still ahead.             *)
Ordered == InOrder(xLists, xTimeToWake)

(* What the lists, the counters and the priorities say of each other.       *)
Structure == Listed /\ ReadyByPriority /\ PendingIsBlocked /\ Counted /\ IdleIsReady /\ TopKnown /\ Ordered

(* The inductive invariant.                                                 *)
SchedInv ==
    /\ TypeOK /\ Structure
    /\ Control /\ Present /\ Reaping /\ Ruling /\ ResumeAllSettlesEverything
    /\ DelaysExact

(* The places in the code.                                                  *)
PcNames == {"user", "delay", "resumeAll", "drain", "yield", "yieldMasked",
            "reap", "idleYield", "free"}

(* A step that only moves tasks about in their code keeps the lists.        *)
LEMMA FrameKeeps ==
    ASSUME Structure, DelaysExact, pc' \in [Tasks -> PcNames],
           UNCHANGED <<lists, items, priorities, clock, checkingDelayed, counts>>,
           \A t \in Tasks : pc'[t] = "free" <=> pc[t] = "free"
    PROVE  Structure' /\ DelaysExact'
<1>1. Listed' /\ ReadyByPriority' /\ PendingIsBlocked' /\ IdleIsReady' /\ TopKnown' /\ Ordered'
    BY DEF Structure, Listed, ReadyByPriority, PendingIsBlocked, IdleIsReady, TopKnown, Ordered,
           lists, items, priorities, clock, counts
<1>2. Counted'
    <2>1. Existing' = Existing
        BY DEF Existing
    <2> QED BY <2>1 DEF Structure, Counted, counts, lists
<1>3. DelaysExact'
    BY DEF DelaysExact, IsDelayed, lists, items, clock
<1> QED BY <1>1, <1>2, <1>3 DEF Structure

(* A task that exists is in one list, and the idle task is ready.           *)
LEMMA ListedFacts ==
    ASSUME TypeOK, Structure
    PROVE  /\ IsLists(xLists) /\ xLists \in [GenericLists -> Seq(Tasks)]
           /\ xLists[0] # <<>> /\ In(Idle, xLists[0]) /\ uxPriority[Idle] = 0 /\ pc[Idle] # "free"
           /\ \A l, k \in GenericLists : \A t \in Tasks : In(t, xLists[l]) /\ In(t, xLists[k]) => l = k
           /\ \A l \in GenericLists : \A t \in Tasks : In(t, xLists[l]) => pc[t] # "free"
           /\ Idle \in Tasks
<1>1. IsLists(xLists) /\ In(Idle, xLists[0]) /\ Idle \in Tasks
    BY KernelAssumption DEF Structure, Listed, IdleIsReady, KernelAssumption
<1>2. uxPriority[Idle] = 0
    BY <1>1, ListNames DEF Structure, ReadyByPriority
<1>3. xLists[0] # <<>>
    BY <1>1, ListNames, HeadIn DEF IsLists
<1>4. \A l \in GenericLists : \A t \in Tasks : In(t, xLists[l]) => pc[t] # "free"
    BY DEF Structure, Listed
<1>5. pc[Idle] # "free"
    BY <1>1, <1>4, ListNames
<1> QED BY <1>1, <1>2, <1>3, <1>4, <1>5 DEF IsLists, OncePlaced

(* A step that takes one task from list to list.                            *)
LEMMA TakesKeeps ==
    ASSUME TypeOK, Structure, NEW x \in Tasks, NEW l \in GenericLists \cup {NoList},
           TakesTo(xLists, xLists', x, l), x = Idle => l = 0,
           pc' \in [Tasks -> PcNames],
           \A t \in Tasks \ {x} : pc'[t] = "free" <=> pc[t] = "free",
           pc'[x] = "free" <=> l = NoList,
           \A t \in Tasks \ {x} : uxPriority'[t] = uxPriority[t],
           l \in Priorities => uxPriority'[x] = l
    PROVE  /\ Listed' /\ ReadyByPriority' /\ In(Idle, xLists'[0])
           /\ (\A t \in Tasks : pc'[t] = "free" <=> pc[t] = "free") => Existing' = Existing
<1>1. IsLists(xLists) /\ In(Idle, xLists[0]) /\ Idle \in Tasks
    BY ListedFacts
<1>2. IsLists(xLists') /\ \A u \in Tasks : \A k \in GenericLists :
          In(u, xLists'[k]) <=> IF u = x THEN k = l ELSE In(u, xLists[k])
    BY DEF TakesTo
<1>3. Listed'
    <2>1. \A t \in Tasks \ {x} : pc'[t] # "free" <=> \E k \in GenericLists : In(t, xLists'[k])
        BY <1>2 DEF Structure, Listed
    <2>2. pc'[x] # "free" <=> \E k \in GenericLists : In(x, xLists'[k])
        BY <1>2, ListNames
    <2> QED BY <1>2, <2>1, <2>2 DEF Listed
<1>4. ReadyByPriority'
    BY <1>2, ListNames DEF Structure, ReadyByPriority
<1>5. In(Idle, xLists'[0])
    BY <1>1, <1>2, ListNames
<1>6. (\A t \in Tasks : pc'[t] = "free" <=> pc[t] = "free") => Existing' = Existing
    BY DEF Existing
<1> QED BY <1>3, <1>4, <1>5, <1>6

(* What remains of the delays when one task is taken from list to list.     *)
LEMMA TakesKeepsDelays ==
    ASSUME DelaysExact, NEW x \in Tasks, NEW l \in GenericLists \cup {NoList},
           TakesTo(xLists, xLists', x, l),
           xTickCount' = xTickCount, uxMissedTicks' = uxMissedTicks, checkingDelayed' = checkingDelayed,
           xNextTaskUnblockTime' \in Nat, xNextTaskUnblockTime \in Nat, xTimeToWake \in [Tasks -> Ticks],
           xNextTaskUnblockTime' <= xNextTaskUnblockTime,
           \A t \in Tasks \ {x} : xTimeToWake'[t] = xTimeToWake[t] /\ due'[t] = due[t],
           l \in {DelayedTaskList, OverflowDelayedTaskList} =>
               LET left == due'[x] + uxMissedTicks
               IN  /\ left \in 1..portMAX_DELAY
                   /\ xTimeToWake'[x] = (xTickCount + left) % TickMod
                   /\ l = OverflowDelayedTaskList <=> xTickCount + left >= TickMod
                   /\ l = DelayedTaskList => xNextTaskUnblockTime' <= xTimeToWake'[x]
    PROVE  DelaysExact'
<1>1. \A u \in Tasks : \A k \in GenericLists :
          In(u, xLists'[k]) <=> IF u = x THEN k = l ELSE In(u, xLists[k])
    BY DEF TakesTo
<1>2. ASSUME NEW t \in Tasks \ {x},
             In(t, xLists'[DelayedTaskList]) \/ In(t, xLists'[OverflowDelayedTaskList])
      PROVE  LET left == due'[t] + uxMissedTicks'
             IN  /\ left \in (IF checkingDelayed' THEN 0 ELSE 1)..portMAX_DELAY
                 /\ xTimeToWake'[t] = (xTickCount' + left) % TickMod
                 /\ In(t, xLists'[OverflowDelayedTaskList]) <=> xTickCount' + left >= TickMod
                 /\ In(t, xLists'[DelayedTaskList]) /\ ~checkingDelayed' =>
                        xNextTaskUnblockTime' <= xTimeToWake'[t]
    <2>1. /\ In(t, xLists'[DelayedTaskList]) <=> In(t, xLists[DelayedTaskList])
          /\ In(t, xLists'[OverflowDelayedTaskList]) <=> In(t, xLists[OverflowDelayedTaskList])
          /\ xTimeToWake[t] \in Nat
        BY <1>1, ListNames, TickFacts
    <2> QED BY <1>2, <2>1 DEF DelaysExact, IsDelayed
<1>3. ASSUME In(x, xLists'[DelayedTaskList]) \/ In(x, xLists'[OverflowDelayedTaskList])
      PROVE  LET left == due'[x] + uxMissedTicks'
             IN  /\ left \in (IF checkingDelayed' THEN 0 ELSE 1)..portMAX_DELAY
                 /\ xTimeToWake'[x] = (xTickCount' + left) % TickMod
                 /\ In(x, xLists'[OverflowDelayedTaskList]) <=> xTickCount' + left >= TickMod
                 /\ In(x, xLists'[DelayedTaskList]) /\ ~checkingDelayed' =>
                        xNextTaskUnblockTime' <= xTimeToWake'[x]
    <2>1. /\ In(x, xLists'[DelayedTaskList]) <=> l = DelayedTaskList
          /\ In(x, xLists'[OverflowDelayedTaskList]) <=> l = OverflowDelayedTaskList
        BY <1>1, ListNames
    <2> QED BY <1>3, <2>1
<1> QED BY <1>2, <1>3 DEF DelaysExact, IsDelayed

(* The steps that only move tasks about in their code.                      *)
FrameVars == <<lists, items, priorities, clock, pxCurrentTCB, interrupt, counts>>

(* Such a step by the current task.                                         *)
LEMMA FrameStep ==
    ASSUME SchedInv, NEW t \in Tasks, pxCurrentTCB = t, NEW at \in PcNames \ {"free"}, pc[t] # "free",
           pc' = [pc EXCEPT ![t] = at], UNCHANGED FrameVars,
           ret' \in [Tasks -> {"user", "reap", "idleYield"}],
           uxSchedulerSuspended' \in Nat, xMissedYield' \in BOOLEAN,
           yieldAfter' \in [Tasks -> BOOLEAN], xYieldRequired' \in BOOLEAN
    PROVE  /\ TypeOK' /\ Structure' /\ DelaysExact'
           /\ \A u \in Tasks \ {pxCurrentTCB'} : pc'[u] \in BetweenSteps
           /\ CurrentRules => CurrentRules'
           /\ pc'[t] = at
<1>1. pc \in [Tasks -> PcNames]
    BY DEF SchedInv, TypeOK, PcNames
<1>2. pc' \in [Tasks -> PcNames] /\ pc'[t] = at /\ \A u \in Tasks \ {t} : pc'[u] = pc[u]
    BY <1>1
<1>3. TypeOK'
    BY <1>2 DEF SchedInv, TypeOK, KernelTypeOK, FrameVars, lists, items, priorities, clock,
       interrupt, counts, PcNames
<1>4. Structure' /\ DelaysExact'
    <2>1. \A u \in Tasks : pc'[u] = "free" <=> pc[u] = "free"
        BY <1>2
    <2> QED BY <1>2, <2>1, FrameKeeps DEF SchedInv, FrameVars, interrupt
<1>5. \A u \in Tasks \ {pxCurrentTCB'} : pc'[u] \in BetweenSteps
    BY <1>2 DEF SchedInv, Control, FrameVars
<1>6. CurrentRules => CurrentRules'
    BY DEF CurrentRules, FrameVars, lists, priorities
<1> QED BY <1>2, <1>3, <1>4, <1>5, <1>6

(* xTaskResumeAll, up to its loops: the nesting count goes down, and with   *)
(* the last level the pending tasks and ticks come up.                      *)
LEMMA ResumeAllStep ==
    ASSUME SchedInv, NEW t \in Tasks, xTaskResumeAll(t), UNCHANGED counts
    PROVE  SchedInv'
<1> DEFINE at == IF uxSchedulerSuspended - 1 = 0 THEN "drain"
                 ELSE IF yieldAfter[t] THEN "yield" ELSE ret[t]
<1>1. /\ pxCurrentTCB = t /\ ~inISR /\ pc[t] = "resumeAll" /\ UNCHANGED FrameVars
      /\ uxSchedulerSuspended' = uxSchedulerSuspended - 1 /\ pc' = [pc EXCEPT ![t] = at]
      /\ xYieldRequired' = FALSE /\ UNCHANGED <<xMissedYield, ret, yieldAfter>>
    BY DEF xTaskResumeAll, Running, GoTo, ReturnNotYielded, FrameVars
<1>2. uxSchedulerSuspended \in Nat /\ uxSchedulerSuspended > 0 /\ uxSchedulerSuspended' \in Nat
    BY <1>1 DEF SchedInv, TypeOK, KernelTypeOK, Control
<1>3. at \in PcNames \ {"free"} /\ (at \in {"drain", "yield", "user", "reap", "idleYield"})
    BY DEF SchedInv, TypeOK, PcNames
<1>4. /\ TypeOK' /\ Structure' /\ DelaysExact'
      /\ \A u \in Tasks \ {pxCurrentTCB'} : pc'[u] \in BetweenSteps
      /\ CurrentRules => CurrentRules'
      /\ pc'[t] = at
    <2>1. /\ ret' \in [Tasks -> {"user", "reap", "idleYield"}] /\ xMissedYield' \in BOOLEAN
          /\ yieldAfter' \in [Tasks -> BOOLEAN] /\ xYieldRequired' \in BOOLEAN
        BY <1>1 DEF SchedInv, TypeOK, KernelTypeOK
    <2> HIDE DEF at
    <2> QED BY <1>1, <1>2, <1>3, <2>1, FrameStep
<1>5. Control'
    <2>1. at = "drain" => uxSchedulerSuspended' = 0
        BY <1>1, <1>2 DEF SchedInv, TypeOK
    <2> HIDE DEF at
    <2>2. ~checkingDelayed /\ UNCHANGED <<inISR, checkingDelayed, pxCurrentTCB>>
        BY <1>1, <1>2 DEF SchedInv, Control, FrameVars, interrupt
    <2> QED BY <1>1, <1>3, <1>4, <2>1, <2>2 DEF Control
<1>6. Reaping'
    BY <1>1, <1>3, <1>4 DEF SchedInv, Reaping, FrameVars, lists, TypeOK
<1>7. Ruling'
    BY <1>1, <1>3, <1>4 DEF SchedInv, Ruling, SwitchOwed, FrameVars, interrupt
<1>8. ResumeAllSettlesEverything'
    BY <1>1, <1>2, <1>4 DEF SchedInv, ResumeAllSettlesEverything, FrameVars, lists, clock
<1>9. Present'
    BY <1>1, <1>2, <1>4 DEF SchedInv, Present, IsReady, FrameVars, lists
<1> QED BY <1>9, <1>4, <1>5, <1>6, <1>7, <1>8 DEF SchedInv

(* The end of xTaskResumeAll: a yield owed is done at once, else the caller *)
(* goes on.                                                                 *)
LEMMA ResumeAllEndStep ==
    ASSUME SchedInv, NEW t \in Tasks, ResumeAllEnd(t), UNCHANGED counts
    PROVE  SchedInv'
<1> DEFINE at == IF xYieldRequired \/ xMissedYield THEN "yieldMasked"
                 ELSE IF yieldAfter[t] THEN "yield" ELSE ret[t]
<1>1. /\ pxCurrentTCB = t /\ ~inISR /\ ~checkingDelayed /\ pc[t] = "drain" /\ UNCHANGED FrameVars
      /\ xEventLists[PendingReadyList] = <<>> /\ uxMissedTicks = 0
      /\ pc' = [pc EXCEPT ![t] = at] /\ xMissedYield' = FALSE
      /\ UNCHANGED <<uxSchedulerSuspended, xYieldRequired, ret, yieldAfter>>
    <2>1. xMissedYield \in BOOLEAN
        BY DEF SchedInv, TypeOK, KernelTypeOK
    <2> QED BY <2>1 DEF ResumeAllEnd, Running, GoTo, ReturnNotYielded, FrameVars, clock
<1>2. uxSchedulerSuspended = 0 /\ uxSchedulerSuspended' = 0
    BY <1>1 DEF SchedInv, Control
<1>3. at \in {"yieldMasked", "yield", "user", "reap", "idleYield"}
    BY DEF SchedInv, TypeOK
<1>4. /\ TypeOK' /\ Structure' /\ DelaysExact'
      /\ \A u \in Tasks \ {pxCurrentTCB'} : pc'[u] \in BetweenSteps
      /\ CurrentRules => CurrentRules'
      /\ pc'[t] = at
    <2>1. /\ ret' \in [Tasks -> {"user", "reap", "idleYield"}] /\ xMissedYield' \in BOOLEAN
          /\ yieldAfter' \in [Tasks -> BOOLEAN] /\ xYieldRequired' \in BOOLEAN
          /\ uxSchedulerSuspended' \in Nat
        BY <1>1 DEF SchedInv, TypeOK, KernelTypeOK
    <2>2. at \in PcNames \ {"free"}
        BY <1>3 DEF PcNames
    <2> HIDE DEF at
    <2> QED BY <1>1, <1>2, <2>1, <2>2, FrameStep
<1>5. UNCHANGED <<inISR, checkingDelayed, pxCurrentTCB, xLists, xEventLists, uxMissedTicks>>
    BY <1>1 DEF FrameVars, interrupt, lists, clock
<1>6. Control'
    <2> HIDE DEF at
    <2> QED BY <1>1, <1>2, <1>3, <1>4, <1>5 DEF SchedInv, Control
<1>7. Reaping'
    BY <1>1, <1>3, <1>4, <1>5 DEF SchedInv, Reaping, TypeOK
<1>8. Ruling'
    BY <1>1, <1>3, <1>4, <1>5 DEF SchedInv, Ruling, SwitchOwed
<1>9. ResumeAllSettlesEverything'
    BY <1>1, <1>2, <1>4, <1>5 DEF SchedInv, ResumeAllSettlesEverything
<1>10. Present'
    BY <1>1, <1>2, <1>4, <1>5 DEF SchedInv, Present, IsReady
<1> QED BY <1>10, <1>4, <1>6, <1>7, <1>8, <1>9 DEF SchedInv

(* A call that only moves its caller on: what it leaves of the rest.        *)
LEMMA CallStep ==
    ASSUME SchedInv, NEW t \in Tasks, pxCurrentTCB = t, ~inISR, pc[t] \in {"user", "idleYield", "delay"},
           NEW at \in PcNames \ {"free", "drain"}, pc' = [pc EXCEPT ![t] = at], UNCHANGED FrameVars,
           ret' \in [Tasks -> {"user", "reap", "idleYield"}],
           yieldAfter' \in [Tasks -> BOOLEAN], xYieldRequired' = xYieldRequired,
           uxSchedulerSuspended' \in Nat, uxSchedulerSuspended' >= uxSchedulerSuspended,
           at = "delay" => uxSchedulerSuspended' = 1,
           at = "resumeAll" => uxSchedulerSuspended' > 0,
           xMissedYield' = xMissedYield,
           t = Idle => at \notin {"reap", "delay"},
           t = Idle /\ at \in {"resumeAll", "yield", "yieldMasked"} /\ ret'[Idle] = "reap"
                => xLists[TasksWaitingTermination] # <<>>,
           \A u \in Tasks \ {t} : ret'[u] = ret[u]
    PROVE  SchedInv'
<1>1. /\ TypeOK' /\ Structure' /\ DelaysExact'
      /\ \A u \in Tasks \ {pxCurrentTCB'} : pc'[u] \in BetweenSteps
      /\ CurrentRules => CurrentRules'
      /\ pc'[t] = at
    <2>1. xMissedYield' \in BOOLEAN /\ xYieldRequired' \in BOOLEAN
        BY DEF SchedInv, TypeOK, KernelTypeOK
    <2> QED BY <2>1, FrameStep
<1>2. UNCHANGED <<inISR, checkingDelayed, pxCurrentTCB, xLists, xEventLists, uxMissedTicks>>
    BY DEF FrameVars, interrupt, lists, clock
<1>3. ~checkingDelayed
    BY DEF SchedInv, Control
<1>4. Control'
    BY <1>1, <1>2, <1>3 DEF SchedInv, Control
<1>5. Reaping'
    <2>1. \A u \in Tasks \ {t} : pc'[u] = pc[u]
        BY DEF SchedInv, TypeOK
    <2>2. Idle \in Tasks
        BY KernelAssumption DEF KernelAssumption
    <2>3. CASE t = Idle
        BY <1>1, <1>2, <2>3 DEF Reaping
    <2>4. CASE t # Idle
        BY <1>2, <2>1, <2>2, <2>4 DEF SchedInv, Reaping
    <2> QED BY <2>3, <2>4
<1>6. Ruling'
    BY <1>1, <1>2 DEF SchedInv, Ruling, SwitchOwed
<1>7. ResumeAllSettlesEverything'
    <2>1. uxSchedulerSuspended \in Nat
        BY DEF SchedInv, TypeOK, KernelTypeOK
    <2>2. uxSchedulerSuspended' = 0 => uxSchedulerSuspended = 0
        BY <2>1
    <2> QED BY <1>1, <1>2, <2>2 DEF SchedInv, ResumeAllSettlesEverything
<1>8. Present'
    BY <1>1, <1>2 DEF SchedInv, Present, IsReady
<1> QED BY <1>8, <1>1, <1>4, <1>5, <1>6, <1>7 DEF SchedInv

(* The parts of the type invariant the steps need.                          *)
LEMMA Typed ==
    ASSUME SchedInv
    PROVE  /\ pc \in [Tasks -> PcNames] /\ ret \in [Tasks -> {"user", "reap", "idleYield"}]
           /\ yieldAfter \in [Tasks -> BOOLEAN] /\ xYieldRequired \in BOOLEAN
           /\ uxSchedulerSuspended \in Nat /\ xMissedYield \in BOOLEAN /\ pxCurrentTCB \in Tasks
           /\ uxPriority \in [Tasks -> Priorities] /\ uxTopReadyPriority \in Priorities
           /\ xTickCount \in Ticks /\ uxMissedTicks \in Nat /\ xNextTaskUnblockTime \in Ticks
           /\ xTimeToWake \in [Tasks -> Ticks] /\ due \in [Tasks -> Int]
           /\ uxTasksDeleted \in Nat /\ uxCurrentNumberOfTasks \in Nat
           /\ inISR \in BOOLEAN /\ checkingDelayed \in BOOLEAN
           /\ xEventLists \in [ItemLists -> Seq(Tasks)] /\ PendingReadyList \in ItemLists
           /\ Idle \in Tasks
BY KernelAssumption DEF SchedInv, TypeOK, KernelTypeOK, PcNames, KernelAssumption, ItemLists

(* vTaskDelay and vTaskDelayUntil suspend the scheduler.                    *)
LEMMA DelayStarts ==
    ASSUME SchedInv, NEW t \in Tasks, DelayStart(t), UNCHANGED counts
    PROVE  SchedInv'
<1>1. /\ t # Idle /\ pxCurrentTCB = t /\ ~inISR /\ pc[t] = "user" /\ pc' = [pc EXCEPT ![t] = "delay"]
      /\ uxSchedulerSuspended' = uxSchedulerSuspended + 1 /\ uxSchedulerSuspended = 0
      /\ UNCHANGED <<ret, yieldAfter, xYieldRequired, xMissedYield>> /\ UNCHANGED FrameVars
    BY DEF DelayStart, Caller, Running, GoTo, vTaskSuspendAll, callFrame, FrameVars
<1>2. "delay" \in PcNames \ {"free", "drain"}
    BY DEF PcNames
<1>3. /\ uxSchedulerSuspended' \in Nat /\ uxSchedulerSuspended' >= uxSchedulerSuspended
      /\ uxSchedulerSuspended' = 1
    BY <1>1, Typed
<1> QED BY <1>1, <1>2, <1>3, Typed, CallStep

(* vTaskDelay(0) only yields.                                               *)
LEMMA DelayZero ==
    ASSUME SchedInv, NEW t \in Tasks, Caller(t), YieldIf(t, TRUE),
           UNCHANGED <<lists, items, priorities, clock, suspension, pxCurrentTCB, callFrame, interrupt, counts>>
    PROVE  SchedInv'
<1>1. /\ t # Idle /\ pxCurrentTCB = t /\ ~inISR /\ pc[t] = "user" /\ pc' = [pc EXCEPT ![t] = "yield"]
      /\ ret' = [ret EXCEPT ![t] = "user"]
      /\ UNCHANGED <<yieldAfter, xYieldRequired, xMissedYield, uxSchedulerSuspended>> /\ UNCHANGED FrameVars
    BY DEF YieldIf, ReturnVia, Caller, Running, GoTo, callFrame, suspension, FrameVars
<1>2. "yield" \in PcNames \ {"free", "drain"}
    BY DEF PcNames
<1>3. uxSchedulerSuspended' >= uxSchedulerSuspended
    BY <1>1, Typed
<1> QED BY <1>1, <1>2, <1>3, Typed, CallStep

(* The call of xTaskResumeAll at the end of a delay or of a suspension.     *)
LEMMA Resumes ==
    ASSUME SchedInv, NEW t \in Tasks, pxCurrentTCB = t, ~inISR, pc[t] \in {"user", "delay"}, t # Idle,
           NEW c \in BOOLEAN, CallResumeAll(t, "user", c), uxSchedulerSuspended > 0,
           UNCHANGED suspension, UNCHANGED FrameVars
    PROVE  SchedInv'
<1>1. /\ pc' = [pc EXCEPT ![t] = "resumeAll"] /\ ret' = [ret EXCEPT ![t] = "user"]
      /\ yieldAfter' = [yieldAfter EXCEPT ![t] = c]
      /\ UNCHANGED <<xYieldRequired, xMissedYield, uxSchedulerSuspended>>
    BY DEF CallResumeAll, GoTo, suspension
<1>2. "resumeAll" \in PcNames \ {"free", "drain"}
    BY DEF PcNames
<1>3. uxSchedulerSuspended' >= uxSchedulerSuspended /\ uxSchedulerSuspended' > 0
    BY <1>1, Typed
<1> QED BY <1>1, <1>2, <1>3, Typed, CallStep

(* A task ends its own suspension of the scheduler.                         *)
LEMMA UserResumes ==
    ASSUME SchedInv, NEW t \in Tasks, UserResumeAll(t)
    PROVE  SchedInv'
BY Resumes DEF UserResumeAll, Caller, Running, FrameVars

(* A task suspends the scheduler over its own code.                         *)
LEMMA UserSuspends ==
    ASSUME SchedInv, NEW t \in Tasks, UserSuspendAll(t)
    PROVE  SchedInv'
<1>1. /\ t # Idle /\ pxCurrentTCB = t /\ ~inISR /\ pc[t] = "user"
      /\ uxSchedulerSuspended' = uxSchedulerSuspended + 1
      /\ UNCHANGED <<pc, ret, yieldAfter, xYieldRequired, xMissedYield>> /\ UNCHANGED FrameVars
    BY DEF UserSuspendAll, Caller, Running, vTaskSuspendAll, calls, FrameVars
<1>2. "user" \in PcNames \ {"free", "drain"}
    BY DEF PcNames
<1>3. pc' = [pc EXCEPT ![t] = "user"]
    BY <1>1, Typed
<1>4. uxSchedulerSuspended' >= uxSchedulerSuspended /\ uxSchedulerSuspended' \in Nat
    BY <1>1, Typed
<1> QED BY <1>1, <1>2, <1>3, <1>4, Typed, CallStep

(* The idle task looks for deleted tasks.                                   *)
LEMMA IdleChecks ==
    ASSUME SchedInv, IdleCheck
    PROVE  SchedInv'
<1>1. pxCurrentTCB = Idle /\ ~inISR /\ pc[Idle] = "user" /\ UNCHANGED xMissedYield /\ UNCHANGED FrameVars
    BY DEF IdleCheck, Running, FrameVars
<1>2. {"resumeAll", "idleYield"} \subseteq PcNames \ {"free", "drain"}
    BY DEF PcNames
<1>3. CASE uxTasksDeleted > 0
    <2> DEFINE at == IF xLists[TasksWaitingTermination] = <<>> THEN "idleYield" ELSE "reap"
    <2>1. /\ uxSchedulerSuspended' = uxSchedulerSuspended + 1
          /\ pc' = [pc EXCEPT ![Idle] = "resumeAll"] /\ ret' = [ret EXCEPT ![Idle] = at]
          /\ yieldAfter' = [yieldAfter EXCEPT ![Idle] = FALSE] /\ UNCHANGED xYieldRequired
        BY <1>3 DEF IdleCheck, vTaskSuspendAll, CallResumeAll, GoTo
    <2>2. /\ uxSchedulerSuspended' \in Nat /\ uxSchedulerSuspended' >= uxSchedulerSuspended
          /\ uxSchedulerSuspended' > 0
        BY <2>1, Typed
    <2>3. at \in {"reap", "idleYield"} /\ (at = "reap" => xLists[TasksWaitingTermination] # <<>>)
        OBVIOUS
    <2> HIDE DEF at
    <2>4. ret' \in [Tasks -> {"user", "reap", "idleYield"}] /\ yieldAfter' \in [Tasks -> BOOLEAN]
          /\ ret'[Idle] = at /\ \A u \in Tasks \ {Idle} : ret'[u] = ret[u]
        BY <2>1, <2>3, Typed
    <2> QED BY <1>1, <1>2, <2>1, <2>2, <2>3, <2>4, Typed, CallStep
<1>4. CASE ~(uxTasksDeleted > 0)
    <2>1. /\ pc' = [pc EXCEPT ![Idle] = "idleYield"]
          /\ UNCHANGED <<uxSchedulerSuspended, ret, yieldAfter, xYieldRequired>>
        BY <1>4 DEF IdleCheck, GoTo, callFrame
    <2>2. uxSchedulerSuspended' >= uxSchedulerSuspended
        BY <2>1, Typed
    <2> QED BY <1>1, <1>2, <2>1, <2>2, Typed, CallStep
<1> QED BY <1>3, <1>4

(* The idle task gives way to tasks of its own priority.                    *)
LEMMA IdleYields ==
    ASSUME SchedInv, IdleYield
    PROVE  SchedInv'
<1> DEFINE at == IF Len(xLists[0]) > 1 THEN "yield" ELSE "user"
<1>1. /\ pxCurrentTCB = Idle /\ ~inISR /\ pc[Idle] = "idleYield" /\ pc' = [pc EXCEPT ![Idle] = at]
      /\ ret' = [ret EXCEPT ![Idle] = "user"]
      /\ UNCHANGED <<uxSchedulerSuspended, xMissedYield, yieldAfter, xYieldRequired>> /\ UNCHANGED FrameVars
    BY DEF IdleYield, Running, YieldIf, ReturnVia, GoTo, callFrame, suspension, FrameVars
<1>2. at \in PcNames \ {"free", "drain"} /\ at \in {"yield", "user"}
    BY DEF PcNames
<1> HIDE DEF at
<1>3. uxSchedulerSuspended' >= uxSchedulerSuspended
    BY <1>1, Typed
<1>4. ret' \in [Tasks -> {"user", "reap", "idleYield"}] /\ ret'[Idle] = "user"
      /\ \A u \in Tasks \ {Idle} : ret'[u] = ret[u]
    BY <1>1, Typed
<1> QED BY <1>1, <1>2, <1>3, <1>4, Typed, CallStep

(* A task that exists is made ready.                                        *)
LEMMA ReadiedLists ==
    ASSUME SchedInv, NEW x \in Tasks, NEW p \in Priorities,
           prvAddTaskToReadyQueue(GenericRemoved(x), x, p),
           ~In(x, xLists[TasksWaitingTermination]), x = Idle => p = 0,
           pc' \in [Tasks -> PcNames], pc'[x] # "free",
           \A t \in Tasks \ {x} : pc'[t] = "free" <=> pc[t] = "free",
           uxPriority'[x] = p, \A t \in Tasks \ {x} : uxPriority'[t] = uxPriority[t],
           uxBasePriority' = uxPriority',
           UNCHANGED <<items, xTickCount, uxMissedTicks, xNextTaskUnblockTime, checkingDelayed>>,
           \A e \in ItemLists : Once(xEventLists'[e]),
           \A t \in Tasks : In(t, xEventLists'[PendingReadyList]) =>
               t # x /\ In(t, xEventLists[PendingReadyList])
    PROVE  /\ Listed' /\ ReadyByPriority' /\ PendingIsBlocked' /\ IdleIsReady' /\ TopKnown' /\ Ordered'
           /\ DelaysExact' /\ Len(xLists'[TasksWaitingTermination]) = Len(xLists[TasksWaitingTermination])
           /\ TakesTo(xLists, xLists', x, p) /\ xLists' \in [GenericLists -> Seq(Tasks)]
           /\ uxTopReadyPriority' \in Priorities
<1>1. TakesTo(xLists, xLists', x, p)
    BY ListNames, AppendedIt DEF SchedInv, Structure, Listed, prvAddTaskToReadyQueue
<1>2. \A u \in Tasks : \A k \in GenericLists :
          In(u, xLists'[k]) <=> IF u = x THEN k = p ELSE In(u, xLists[k])
    BY <1>1 DEF TakesTo
<1>3. p \in GenericLists /\ p # NoList /\ p \notin OtherLists /\ p \in Nat
    BY ReadyListNames
<1>4. Listed' /\ ReadyByPriority' /\ In(Idle, xLists'[0])
    BY <1>1, <1>3, TakesKeeps DEF SchedInv
<1>5. /\ uxTopReadyPriority <= uxTopReadyPriority' /\ p <= uxTopReadyPriority'
      /\ uxTopReadyPriority' \in Priorities /\ uxTopReadyPriority' \in Nat
      /\ uxTopReadyPriority \in Nat
    <2>1. uxTopReadyPriority \in Priorities /\ uxTopReadyPriority \in Nat
        BY Typed, ListNames
    <2>2. uxTopReadyPriority' = IF p > uxTopReadyPriority THEN p ELSE uxTopReadyPriority
        BY DEF prvAddTaskToReadyQueue
    <2> QED BY <1>3, <2>1, <2>2
<1>6. TopKnown'
    <2> SUFFICES ASSUME NEW q \in Priorities, xLists'[q] # <<>>
                 PROVE  q <= uxTopReadyPriority'
        BY DEF TopKnown
    <2>1. q \in GenericLists /\ xLists'[q] \in Seq(Tasks) /\ xLists[q] \in Seq(Tasks)
        BY <1>1, ListNames DEF TakesTo, IsLists, SchedInv, Structure, Listed
    <2>2. PICK u \in Tasks : In(u, xLists'[q])
        BY <2>1, HeadIn
    <2>3. CASE u = x
        <3>1. q = p
            BY <1>2, <2>1, <2>2, <2>3
        <3> QED BY <1>5, <3>1, ListNames
    <2>4. CASE u # x
        <3>1. xLists[q] # <<>>
            BY <1>2, <2>1, <2>2, <2>4, HeadIn
        <3>2. q <= uxTopReadyPriority
            BY <3>1 DEF SchedInv, Structure, TopKnown
        <3>3. q \in Nat
            BY ReadyListNames
        <3> QED BY <1>5, <3>2, <3>3
    <2> QED BY <2>3, <2>4
<1>7. Ordered'
    <2>1. \A k \in {DelayedTaskList, OverflowDelayedTaskList} : k # p /\ k \in GenericLists
        BY <1>3, ListNames
    <2>2. xTimeToWake' = xTimeToWake
        BY DEF items
    <2> QED BY <1>1, <2>1, <2>2 DEF SchedInv, Structure, Ordered, InOrder, TakesTo
<1>8. Len(xLists'[TasksWaitingTermination]) = Len(xLists[TasksWaitingTermination])
    BY <1>1, <1>3, OtherListKept, ListNames DEF SchedInv, Structure, Listed
<1>9. PendingIsBlocked'
    BY <1>2, ListNames DEF SchedInv, Structure, PendingIsBlocked
<1>10. DelaysExact'
    <2>1. xNextTaskUnblockTime \in Nat /\ xNextTaskUnblockTime' <= xNextTaskUnblockTime
          /\ UNCHANGED <<xTimeToWake, due>>
        BY Typed, TickFacts DEF items
    <2>2. p \notin {DelayedTaskList, OverflowDelayedTaskList}
        BY <1>3, ListNames
    <2> HIDE DEF prvAddTaskToReadyQueue
    <2> QED BY <1>1, <1>3, <2>1, <2>2, Typed, TakesKeepsDelays DEF SchedInv
<1>11. IdleIsReady'
    BY <1>4 DEF IdleIsReady
<1>12. xLists' \in [GenericLists -> Seq(Tasks)]
    BY <1>1 DEF TakesTo, IsLists
<1> QED BY <1>1, <1>4, <1>5, <1>6, <1>7, <1>8, <1>9, <1>10, <1>11, <1>12

(* The same, with what Structure says of the result.                        *)
LEMMA Readied ==
    ASSUME SchedInv, NEW x \in Tasks, NEW p \in Priorities,
           prvAddTaskToReadyQueue(GenericRemoved(x), x, p),
           pc[x] # "free", ~In(x, xLists[TasksWaitingTermination]), x = Idle => p = 0,
           pc' \in [Tasks -> PcNames], \A t \in Tasks : pc'[t] = "free" <=> pc[t] = "free",
           uxPriority'[x] = p, \A t \in Tasks \ {x} : uxPriority'[t] = uxPriority[t],
           uxBasePriority' = uxPriority',
           UNCHANGED <<items, xTickCount, uxMissedTicks, xNextTaskUnblockTime, checkingDelayed, counts>>,
           \A e \in ItemLists : Once(xEventLists'[e]),
           \A t \in Tasks : In(t, xEventLists'[PendingReadyList]) =>
               t # x /\ In(t, xEventLists[PendingReadyList])
    PROVE  /\ Structure' /\ DelaysExact'
           /\ TakesTo(xLists, xLists', x, p) /\ xLists' \in [GenericLists -> Seq(Tasks)]
           /\ uxTopReadyPriority' \in Priorities
<1>1. /\ Listed' /\ ReadyByPriority' /\ PendingIsBlocked' /\ IdleIsReady' /\ TopKnown' /\ Ordered'
      /\ DelaysExact' /\ Len(xLists'[TasksWaitingTermination]) = Len(xLists[TasksWaitingTermination])
      /\ TakesTo(xLists, xLists', x, p) /\ xLists' \in [GenericLists -> Seq(Tasks)]
      /\ uxTopReadyPriority' \in Priorities
    BY ReadiedLists
<1>2. Existing' = Existing
    BY DEF Existing
<1>3. Counted'
    BY <1>1, <1>2 DEF SchedInv, Structure, Counted, counts
<1> QED BY <1>1, <1>3 DEF Structure

-----------------------------------------------------------------------------
(* The loop of prvCheckDelayedTasks.                                        *)

(* The head of a delayed list has the earliest wake time in it.             *)
LEMMA HeadLeast ==
    ASSUME NEW s \in Seq(Tasks), NEW v \in [Tasks -> Nat], Sorted(s, v), NEW t \in Tasks, In(t, s)
    PROVE  v[Head(s)] <= v[t]
<1>1. PICK n \in DOMAIN s : s[n] = t
    BY DEF In
<1>2. n \in Nat /\ n >= 1 /\ s # <<>> /\ 1 \in DOMAIN s /\ s[1] = Head(s)
    BY HeadIn
<1>3. CASE n = 1
    BY <1>1, <1>2, <1>3
<1>4. CASE n # 1
    <2>1. 1 < n
        BY <1>2, <1>4
    <2> QED BY <1>1, <1>2, <2>1 DEF Sorted
<1> QED BY <1>3, <1>4

(* The wake time of a delayed task without the wrap of the count.           *)
LEMMA WakeIt ==
    ASSUME SchedInv, NEW t \in Tasks,
           In(t, xLists[DelayedTaskList]) \/ In(t, xLists[OverflowDelayedTaskList])
    PROVE  LET left == due[t] + uxMissedTicks
           IN  /\ left \in Nat /\ left <= TickMod - 1 /\ (left = 0 => checkingDelayed)
               /\ xTickCount \in Nat /\ xTickCount <= TickMod - 1 /\ xTimeToWake[t] \in Nat
               /\ In(t, xLists[DelayedTaskList]) =>
                    /\ xTickCount + left < TickMod /\ xTimeToWake[t] = xTickCount + left
                    /\ (~checkingDelayed => xNextTaskUnblockTime <= xTimeToWake[t])
               /\ In(t, xLists[OverflowDelayedTaskList]) =>
                    xTickCount + left >= TickMod /\ xTimeToWake[t] = xTickCount + left - TickMod
<1> DEFINE left == due[t] + uxMissedTicks
<1>1. /\ left \in (IF checkingDelayed THEN 0 ELSE 1)..portMAX_DELAY
      /\ xTimeToWake[t] = (xTickCount + left) % TickMod
      /\ In(t, xLists[OverflowDelayedTaskList]) <=> xTickCount + left >= TickMod
      /\ In(t, xLists[DelayedTaskList]) /\ ~checkingDelayed => xNextTaskUnblockTime <= xTimeToWake[t]
    BY DEF SchedInv, DelaysExact, IsDelayed
<1>2. xTickCount \in Nat /\ xTickCount <= TickMod - 1 /\ xTimeToWake[t] \in Nat
      /\ TickMod \in Nat /\ portMAX_DELAY = TickMod - 1
    BY Typed, TickFacts
<1>3. left \in Nat /\ left <= TickMod - 1 /\ (left = 0 => checkingDelayed)
    BY <1>1, <1>2
<1>4. In(t, xLists[DelayedTaskList]) => ~In(t, xLists[OverflowDelayedTaskList])
    BY ListNames, ListedFacts DEF SchedInv
<1> HIDE DEF left
<1>5. xTickCount + left < TickMod => xTimeToWake[t] = xTickCount + left
    BY <1>1, <1>2, <1>3, ModTick
<1>6. xTickCount + left >= TickMod => xTimeToWake[t] = xTickCount + left - TickMod
    BY <1>1, <1>2, <1>3, ModTick
<1>7. xTickCount + left < TickMod \/ xTickCount + left >= TickMod
    BY <1>2, <1>3
<1> QED BY <1>1, <1>2, <1>3, <1>4, <1>5, <1>6, <1>7 DEF left

(* The loop of prvCheckDelayedTasks ends: xNextTaskUnblockTime becomes the  *)
(* wake time of the head, which hides no earlier task (HeadLeast).          *)
LEMMA CheckEnds ==
    ASSUME SchedInv, prvCheckDelayedTasks, UNCHANGED counts,
           xLists[DelayedTaskList] = <<>> \/ StillAhead(Head(xLists[DelayedTaskList]))
    PROVE  SchedInv'
<1> DEFINE s == xLists[DelayedTaskList]
<1>1. /\ checkingDelayed /\ checkingDelayed' = FALSE
      /\ xNextTaskUnblockTime' = IF s = <<>> THEN portMAX_DELAY ELSE xTimeToWake[Head(s)]
      /\ UNCHANGED <<lists, items, priorities, xTickCount, uxMissedTicks, suspension,
                     pxCurrentTCB, calls, inISR, counts>>
    BY DEF prvCheckDelayedTasks
<1>2. s \in Seq(Tasks) /\ (s # <<>> => Head(s) \in Tasks /\ In(Head(s), s))
    BY ListedFacts, ListNames, HeadIn DEF SchedInv
<1>3. TypeOK'
    <2>1. xNextTaskUnblockTime' \in Ticks
        BY <1>1, <1>2, Typed, TickFacts
    <2> QED BY <1>1, <2>1 DEF SchedInv, TypeOK, KernelTypeOK, lists, items, priorities, suspension,
               calls, counts
<1>4. Structure'
    <2>1. Listed' /\ ReadyByPriority' /\ PendingIsBlocked' /\ IdleIsReady' /\ TopKnown' /\ Ordered'
        BY <1>1 DEF SchedInv, Structure, Listed, ReadyByPriority, PendingIsBlocked, IdleIsReady, TopKnown,
               Ordered, lists, items, priorities, calls
    <2>2. Counted'
        BY <1>1 DEF SchedInv, Structure, Counted, Existing, lists, calls, counts
    <2> QED BY <2>1, <2>2 DEF Structure
<1>5. DelaysExact'
    <2> SUFFICES ASSUME NEW t \in Tasks,
                        In(t, xLists[DelayedTaskList]) \/ In(t, xLists[OverflowDelayedTaskList])
                 PROVE  LET left == due[t] + uxMissedTicks
                        IN  /\ left \in 1..portMAX_DELAY
                            /\ xTimeToWake[t] = (xTickCount + left) % TickMod
                            /\ In(t, xLists[OverflowDelayedTaskList]) <=> xTickCount + left >= TickMod
                            /\ In(t, xLists[DelayedTaskList]) => xNextTaskUnblockTime' <= xTimeToWake[t]
        BY <1>1 DEF DelaysExact, IsDelayed, lists, items
    <2> DEFINE left == due[t] + uxMissedTicks
    <2>1. /\ left \in Nat /\ left <= TickMod - 1
          /\ xTickCount \in Nat /\ xTickCount <= TickMod - 1
          /\ In(t, s) => xTimeToWake[t] = xTickCount + left
          /\ In(t, xLists[OverflowDelayedTaskList]) => xTickCount + left >= TickMod
        BY WakeIt
    <2>2. In(t, s) => s # <<>> /\ xTimeToWake[Head(s)] <= xTimeToWake[t]
        <3>1. xTimeToWake \in [Tasks -> Nat] /\ Sorted(s, xTimeToWake)
            BY Typed, TickFacts DEF SchedInv, Structure, Ordered, InOrder
        <3> HIDE DEF s
        <3> QED BY <1>2, <3>1, HeadIn, HeadLeast
    <2>3. In(t, s) => xTickCount < xTimeToWake[t] /\ xNextTaskUnblockTime' <= xTimeToWake[t]
        <3>1. ASSUME In(t, s) PROVE xTickCount < xTimeToWake[t] /\ xNextTaskUnblockTime' <= xTimeToWake[t]
            <4>1. xTickCount < xTimeToWake[Head(s)] /\ xNextTaskUnblockTime' = xTimeToWake[Head(s)]
                BY <1>1, <2>2, <3>1 DEF StillAhead
            <4>2. xTickCount \in Nat /\ xTimeToWake[Head(s)] \in Nat /\ xTimeToWake[t] \in Nat
                BY <1>2, <2>2, <3>1, Typed, TickFacts
            <4> QED BY <2>2, <3>1, <4>1, <4>2
        <3> QED BY <3>1
    <2>4. left >= 1
        <3>1. CASE In(t, s)
            BY <2>1, <2>3, <3>1
        <3>2. CASE In(t, xLists[OverflowDelayedTaskList])
            BY <2>1, <3>2, TickFacts
        <3> QED BY <3>1, <3>2
    <2>5. left \in 1..portMAX_DELAY
        BY <2>1, <2>4, TickFacts
    <2> QED BY <2>3, <2>5 DEF SchedInv, DelaysExact, IsDelayed
<1>6. Control' /\ Reaping'
    BY <1>1 DEF SchedInv, Control, Reaping, suspension, calls, lists
<1>7. Ruling' /\ ResumeAllSettlesEverything'
    BY <1>1 DEF SchedInv, Ruling, SwitchOwed, CurrentRules, ResumeAllSettlesEverything, suspension,
           calls, lists, priorities
<1>8. Present'
    BY <1>1 DEF SchedInv, Present, IsReady, suspension, calls, lists
<1> QED BY <1>8, <1>3, <1>4, <1>5, <1>6, <1>7 DEF SchedInv

(* Types after a task was made ready with nothing else of the types moved.  *)
LEMMA ReadiedTypes ==
    ASSUME SchedInv, xLists' \in [GenericLists -> Seq(Tasks)], uxTopReadyPriority' \in Priorities,
           xEventLists' \in [ItemLists -> Seq(Tasks)], pc' \in [Tasks -> PcNames],
           ret' \in [Tasks -> {"user", "reap", "idleYield"}], xYieldRequired' \in BOOLEAN,
           inISR' \in BOOLEAN,
           UNCHANGED <<items, priorities, clock, suspension, pxCurrentTCB, yieldAfter, checkingDelayed, counts>>
    PROVE  TypeOK'
BY DEF SchedInv, TypeOK, KernelTypeOK, items, priorities, clock, suspension, counts, PcNames

(* A task that is not idle can be taken from where it waits.                *)
LEMMA Blocked ==
    ASSUME SchedInv, NEW x \in Tasks,
           NEW l \in {SuspendedTaskList, DelayedTaskList, OverflowDelayedTaskList}, In(x, xLists[l])
    PROVE  x # Idle /\ pc[x] # "free" /\ ~In(x, xLists[TasksWaitingTermination])
<1>1. l \in GenericLists /\ l # 0 /\ l # TasksWaitingTermination
    BY ListNames
<1> QED BY <1>1, ListNames, ListedFacts DEF SchedInv

(* A task readied below the current one changes nothing for it.             *)
LEMMA RulesKept ==
    ASSUME SchedInv, CurrentRules, NEW x \in Tasks, NEW p \in Priorities, TakesTo(xLists, xLists', x, p),
           uxPriority' = uxPriority, pxCurrentTCB' = pxCurrentTCB, p <= uxPriority[pxCurrentTCB]
    PROVE  CurrentRules'
<1>1. \A u \in Tasks : \A k \in GenericLists :
          In(u, xLists'[k]) <=> IF u = x THEN k = p ELSE In(u, xLists[k])
    BY DEF TakesTo
<1> QED BY <1>1, ListNames, Typed DEF CurrentRules

(* Readying another task leaves the current one ready.                      *)
LEMMA ReadyKept ==
    ASSUME NEW x \in Tasks, NEW p \in Priorities, TakesTo(xLists, xLists', x, p),
           pxCurrentTCB \in Tasks, pxCurrentTCB' = pxCurrentTCB
    PROVE  IsReady(pxCurrentTCB) => IsReady(pxCurrentTCB)'
<1>1. \A u \in Tasks : \A k \in GenericLists :
          In(u, xLists'[k]) <=> IF u = x THEN k = p ELSE In(u, xLists[k])
    BY DEF TakesTo
<1> QED BY <1>1, ListNames DEF IsReady

(* xEventLists without x: what PendingIsBlocked asks for.                   *)
LEMMA NotPending ==
    ASSUME SchedInv, NEW x \in Tasks, xEventLists' = EventRemoved(x)
    PROVE  /\ xEventLists' \in [ItemLists -> Seq(Tasks)]
           /\ \A e \in ItemLists : Once(xEventLists'[e])
           /\ \A t \in Tasks : In(t, xEventLists'[PendingReadyList]) =>
                  t # x /\ In(t, xEventLists[PendingReadyList])
           /\ xEventLists[PendingReadyList] = <<>> => xEventLists'[PendingReadyList] = <<>>
BY Typed, EventRemovedIt DEF SchedInv, Structure, PendingIsBlocked

(* A blocked task is made ready at its priority.                            *)
LEMMA ReadiedStep ==
    ASSUME SchedInv, NEW x \in Tasks,
           NEW l \in {SuspendedTaskList, DelayedTaskList, OverflowDelayedTaskList}, In(x, xLists[l]),
           prvAddTaskToReadyQueue(GenericRemoved(x), x, uxPriority[x]),
           UNCHANGED <<items, priorities, clock, suspension, pxCurrentTCB, yieldAfter, checkingDelayed, counts>>,
           pc' \in [Tasks -> PcNames], \A t \in Tasks : pc'[t] = "free" <=> pc[t] = "free",
           ret' \in [Tasks -> {"user", "reap", "idleYield"}], xYieldRequired' \in BOOLEAN,
           inISR' \in BOOLEAN, xEventLists' \in [ItemLists -> Seq(Tasks)],
           \A e \in ItemLists : Once(xEventLists'[e]),
           \A t \in Tasks : In(t, xEventLists'[PendingReadyList]) =>
               t # x /\ In(t, xEventLists[PendingReadyList])
    PROVE  /\ TypeOK' /\ Structure' /\ DelaysExact'
           /\ xLists'[TasksWaitingTermination] # <<>> <=> xLists[TasksWaitingTermination] # <<>>
           /\ CurrentRules /\ uxPriority[x] <= uxPriority[pxCurrentTCB] => CurrentRules'
           /\ IsReady(pxCurrentTCB) => IsReady(pxCurrentTCB)'
<1>1. x # Idle /\ pc[x] # "free" /\ ~In(x, xLists[TasksWaitingTermination])
    BY Blocked
<1>2. /\ Structure' /\ DelaysExact' /\ xLists' \in [GenericLists -> Seq(Tasks)]
      /\ uxTopReadyPriority' \in Priorities /\ TakesTo(xLists, xLists', x, uxPriority[x])
    <2>1. uxPriority[x] \in Priorities /\ UNCHANGED <<uxPriority, uxBasePriority>>
        BY Typed DEF priorities
    <2>2. UNCHANGED <<xTickCount, uxMissedTicks, xNextTaskUnblockTime>>
        BY DEF clock
    <2>3. uxBasePriority' = uxPriority'
        BY <2>1 DEF SchedInv, Structure, IdleIsReady
    <2> QED BY <1>1, <2>1, <2>2, <2>3, Readied
<1>3. TypeOK'
    BY <1>2, Typed, ReadiedTypes
<1>4. uxPriority[x] \in Priorities /\ IsLists(xLists)
    BY Typed, ListedFacts DEF SchedInv
<1>5. xLists'[TasksWaitingTermination] # <<>> <=> xLists[TasksWaitingTermination] # <<>>
    BY <1>1, <1>2, <1>4, OtherListKept, ListNames
<1>6. CurrentRules /\ uxPriority[x] <= uxPriority[pxCurrentTCB] => CurrentRules'
    BY <1>2, <1>4, RulesKept DEF priorities
<1>7. IsReady(pxCurrentTCB) => IsReady(pxCurrentTCB)'
    BY <1>2, <1>4, ReadyKept, Typed
<1> QED BY <1>2, <1>3, <1>5, <1>6, <1>7

(* A round of the loop of prvCheckDelayedTasks readies the head of the      *)
(* delayed list, and takes it off the event list it waited in.              *)
LEMMA CheckReadies ==
    ASSUME SchedInv, prvCheckDelayedTasks, UNCHANGED counts,
           ~(xLists[DelayedTaskList] = <<>> \/ StillAhead(Head(xLists[DelayedTaskList])))
    PROVE  SchedInv'
<1> DEFINE x == Head(xLists[DelayedTaskList])
<1>1. /\ checkingDelayed /\ xEventLists' = EventRemoved(x)
      /\ prvAddTaskToReadyQueue(GenericRemoved(x), x, uxPriority[x])
      /\ UNCHANGED <<items, priorities, clock, suspension, pxCurrentTCB, calls, interrupt, counts>>
    BY DEF prvCheckDelayedTasks, LeaveEventList, clock, interrupt
<1>2. x \in Tasks /\ In(x, xLists[DelayedTaskList])
    BY ListedFacts, ListNames, HeadIn DEF SchedInv
<1> HIDE DEF x
<1>3. /\ xEventLists' \in [ItemLists -> Seq(Tasks)]
      /\ \A e \in ItemLists : Once(xEventLists'[e])
      /\ \A t \in Tasks : In(t, xEventLists'[PendingReadyList]) =>
             t # x /\ In(t, xEventLists[PendingReadyList])
      /\ xEventLists[PendingReadyList] = <<>> => xEventLists'[PendingReadyList] = <<>>
    BY <1>1, <1>2, NotPending
<1>4. UNCHANGED <<pc, ret, yieldAfter, xYieldRequired, inISR, checkingDelayed>>
    BY <1>1 DEF calls, interrupt
<1>5. /\ TypeOK' /\ Structure' /\ DelaysExact'
      /\ xLists'[TasksWaitingTermination] # <<>> <=> xLists[TasksWaitingTermination] # <<>>
      /\ IsReady(pxCurrentTCB) => IsReady(pxCurrentTCB)'
    BY <1>1, <1>2, <1>3, <1>4, Typed, ReadiedStep
<1>6. Control'
    BY <1>1, <1>4 DEF SchedInv, Control, suspension
<1>7. Reaping'
    BY <1>4, <1>5 DEF SchedInv, Reaping
<1>8. Ruling'
    BY <1>1, <1>4 DEF SchedInv, Control, Ruling, SwitchOwed, suspension
<1>9. ResumeAllSettlesEverything'
    BY <1>1, <1>3, <1>4 DEF SchedInv, ResumeAllSettlesEverything, suspension, clock
<1>10. Present'
    BY <1>1, <1>4, <1>5 DEF SchedInv, Present, suspension
<1> QED BY <1>10, <1>5, <1>6, <1>7, <1>8, <1>9 DEF SchedInv

(* A round of the first loop of xTaskResumeAll: a pending task is ready.    *)
LEMMA DrainStep ==
    ASSUME SchedInv, NEW t \in Tasks, DrainPendingReady(t), UNCHANGED counts
    PROVE  SchedInv'
<1> DEFINE x == Head(xEventLists[PendingReadyList])
<1>1. /\ pxCurrentTCB = t /\ ~inISR /\ pc[t] = "drain" /\ ~checkingDelayed
      /\ xEventLists[PendingReadyList] # <<>> /\ xEventLists' = EventRemoved(x)
      /\ prvAddTaskToReadyQueue(GenericRemoved(x), x, uxPriority[x])
      /\ xYieldRequired' = (xYieldRequired \/ uxPriority[x] >= uxPriority[t])
      /\ UNCHANGED <<items, priorities, clock, suspension, pxCurrentTCB, pc, ret, yieldAfter, interrupt, counts>>
    BY DEF DrainPendingReady, Running
<1>2. x \in Tasks /\ In(x, xEventLists[PendingReadyList])
    BY <1>1, Typed, HeadIn
<1> HIDE DEF x
<1>3. PICK l \in {SuspendedTaskList, DelayedTaskList, OverflowDelayedTaskList} : In(x, xLists[l])
    BY <1>2 DEF SchedInv, Structure, PendingIsBlocked
<1>4. /\ xEventLists' \in [ItemLists -> Seq(Tasks)]
      /\ \A e \in ItemLists : Once(xEventLists'[e])
      /\ \A u \in Tasks : In(u, xEventLists'[PendingReadyList]) =>
             u # x /\ In(u, xEventLists[PendingReadyList])
    BY <1>1, <1>2, NotPending
<1>5. UNCHANGED <<inISR, checkingDelayed>> /\ xYieldRequired' \in BOOLEAN
    BY <1>1, Typed DEF interrupt
<1>6. /\ TypeOK' /\ Structure' /\ DelaysExact'
      /\ xLists'[TasksWaitingTermination] # <<>> <=> xLists[TasksWaitingTermination] # <<>>
      /\ CurrentRules /\ uxPriority[x] <= uxPriority[pxCurrentTCB] => CurrentRules'
      /\ IsReady(pxCurrentTCB) => IsReady(pxCurrentTCB)'
    BY <1>1, <1>2, <1>3, <1>4, <1>5, Typed, ReadiedStep
<1>7. Control'
    BY <1>1, <1>5 DEF SchedInv, Control, suspension
<1>8. Reaping'
    BY <1>1, <1>6 DEF SchedInv, Reaping
<1>9. Ruling'
    <2>1. uxPriority[x] \in Nat /\ uxPriority[t] \in Nat
        BY <1>2, Typed, ListNames
    <2>2. xYieldRequired' \/ uxPriority[x] <= uxPriority[pxCurrentTCB]
        <3>1. uxPriority[x] >= uxPriority[t] => xYieldRequired'
            BY <1>1
        <3>2. uxPriority[x] >= uxPriority[t] \/ uxPriority[x] <= uxPriority[t]
            BY <2>1
        <3> QED BY <1>1, <3>1, <3>2
    <2>3. SwitchOwed => SwitchOwed'
        BY <1>1, <1>5 DEF SwitchOwed, suspension
    <2>4. xYieldRequired' => SwitchOwed'
        BY <1>1 DEF SwitchOwed
    <2> QED BY <1>6, <2>2, <2>3, <2>4 DEF SchedInv, Ruling
<1>10. ResumeAllSettlesEverything'
    BY <1>1 DEF ResumeAllSettlesEverything
<1>11. Present'
    BY <1>1, <1>6 DEF SchedInv, Present, suspension
<1> QED BY <1>11, <1>6, <1>7, <1>8, <1>9, <1>10 DEF SchedInv

(* xTaskResumeFromISR: the task is ready, or pending while the scheduler is *)
(* suspended.                                                               *)
LEMMA ResumedFromISR ==
    ASSUME SchedInv, NEW x \in Tasks, xTaskResumeFromISR(x)
    PROVE  SchedInv'
<1>1. /\ ~inISR /\ pc[pxCurrentTCB] \notin Masked /\ In(x, xLists[SuspendedTaskList])
      /\ \A e \in ItemLists : ~In(x, xEventLists[e])
      /\ UNCHANGED <<items, priorities, clock, suspension, pxCurrentTCB, calls, checkingDelayed, counts>>
    BY DEF xTaskResumeFromISR, InterruptsEnabled, xTaskIsTaskSuspended, HasEvent
<1>2. UNCHANGED <<pc, ret, yieldAfter, xYieldRequired>>
    BY <1>1 DEF calls
<1>3. PendingReadyList \in ItemLists /\ \A e \in ItemLists : Once(xEventLists[e])
    BY Typed DEF SchedInv, Structure, PendingIsBlocked
<1>4. CASE uxSchedulerSuspended = 0
    <2>1. /\ prvAddTaskToReadyQueue(GenericRemoved(x), x, uxPriority[x])
          /\ inISR' = (uxPriority[x] >= uxPriority[pxCurrentTCB]) /\ xEventLists' = xEventLists
        BY <1>4 DEF xTaskResumeFromISR
    <2>2. /\ TypeOK' /\ Structure' /\ DelaysExact'
          /\ xLists'[TasksWaitingTermination] # <<>> <=> xLists[TasksWaitingTermination] # <<>>
          /\ CurrentRules /\ uxPriority[x] <= uxPriority[pxCurrentTCB] => CurrentRules'
          /\ IsReady(pxCurrentTCB) => IsReady(pxCurrentTCB)'
        <3>1. inISR' \in BOOLEAN /\ xYieldRequired' \in BOOLEAN
            BY <1>2, <2>1, Typed
        <3>2. \A u \in Tasks : In(u, xEventLists'[PendingReadyList]) =>
                 u # x /\ In(u, xEventLists[PendingReadyList])
            BY <1>1, <1>3, <2>1
        <3> QED BY <1>1, <1>2, <1>3, <2>1, <3>1, <3>2, Typed, ReadiedStep
    <2>3. Control'
        BY <1>1, <1>2, <1>4 DEF SchedInv, Control, suspension
    <2>4. Reaping'
        BY <1>2, <2>2 DEF SchedInv, Reaping
    <2>5. Ruling'
        <3>1. uxPriority[x] \in Nat /\ uxPriority[pxCurrentTCB] \in Nat
            BY Typed, ListNames
        <3>2. inISR' \/ uxPriority[x] <= uxPriority[pxCurrentTCB]
            <4>1. uxPriority[x] >= uxPriority[pxCurrentTCB] => inISR'
                BY <2>1
            <4>2. uxPriority[x] >= uxPriority[pxCurrentTCB] \/ uxPriority[x] <= uxPriority[pxCurrentTCB]
                BY <3>1
            <4> QED BY <4>1, <4>2
        <3>3. SwitchOwed => SwitchOwed'
            BY <1>1, <1>2 DEF SwitchOwed, suspension
        <3> QED BY <2>2, <3>2, <3>3 DEF SchedInv, Ruling, SwitchOwed
    <2>6. ResumeAllSettlesEverything'
        BY <1>1, <1>2, <2>1 DEF SchedInv, ResumeAllSettlesEverything, suspension, clock
    <2>7. Present'
        BY <1>1, <1>2, <2>2 DEF SchedInv, Present, suspension
    <2> QED BY <2>7, <2>2, <2>3, <2>4, <2>5, <2>6 DEF SchedInv
<1>5. CASE uxSchedulerSuspended # 0
    <2>1. /\ xEventLists' = [xEventLists EXCEPT ![PendingReadyList] = Append(@, x)]
          /\ UNCHANGED <<xLists, uxTopReadyPriority, inISR>>
        BY <1>5 DEF xTaskResumeFromISR
    <2> DEFINE s == xEventLists[PendingReadyList]
    <2>2. s \in Seq(Tasks) /\ Once(s) /\ ~In(x, s)
        BY <1>1, <1>3, Typed
    <2> HIDE DEF s
    <2>3. /\ Append(s, x) \in Seq(Tasks) /\ Once(Append(s, x))
          /\ \A u \in Tasks : In(u, Append(s, x)) <=> u = x \/ In(u, s)
        BY <2>2, AppendIt
    <2>4. /\ xEventLists' \in [ItemLists -> Seq(Tasks)] /\ \A e \in ItemLists : Once(xEventLists'[e])
          /\ \A u \in Tasks : In(u, xEventLists'[PendingReadyList]) <=>
                u = x \/ In(u, xEventLists[PendingReadyList])
        BY <1>3, <2>1, <2>3, Typed DEF s
    <2>5. TypeOK'
        BY <1>1, <2>1, <2>4 DEF SchedInv, TypeOK, KernelTypeOK, items, priorities, clock, suspension,
           calls, counts
    <2>6. Structure'
        <3>1. Listed' /\ ReadyByPriority' /\ IdleIsReady' /\ TopKnown' /\ Ordered'
            BY <1>1, <2>1 DEF SchedInv, Structure, Listed, ReadyByPriority, IdleIsReady, TopKnown,
                   Ordered, items, priorities, calls
        <3>2. Counted'
            BY <1>1, <2>1 DEF SchedInv, Structure, Counted, Existing, calls, counts
        <3>3. PendingIsBlocked'
            BY <1>1, <2>1, <2>4 DEF SchedInv, Structure, PendingIsBlocked
        <3> QED BY <3>1, <3>2, <3>3 DEF Structure
    <2>7. DelaysExact'
        BY <1>1, <2>1 DEF SchedInv, DelaysExact, IsDelayed, items, clock
    <2>8. Control' /\ Reaping'
        BY <1>1, <1>2, <2>1 DEF SchedInv, Control, Reaping, suspension
    <2>9. Ruling'
        BY <1>1, <1>2, <2>1 DEF SchedInv, Ruling, SwitchOwed, CurrentRules, suspension, priorities
    <2>10. ResumeAllSettlesEverything'
        BY <1>1, <1>5 DEF ResumeAllSettlesEverything, suspension
    <2>11. Present'
        BY <1>1, <1>2, <2>1 DEF SchedInv, Present, IsReady, suspension
    <2> QED BY <2>11, <2>5, <2>6, <2>7, <2>8, <2>9, <2>10 DEF SchedInv
<1> QED BY <1>4, <1>5

(* The caller of an operation that readies a task, yielding or not.         *)
LEMMA ResumedStep ==
    ASSUME SchedInv, NEW t \in Tasks, NEW x \in Tasks, vTaskResume(t, x), UNCHANGED counts
    PROVE  SchedInv'
<1> DEFINE at == IF uxPriority[x] >= uxPriority[t] THEN "yieldMasked" ELSE "user"
<1>1. /\ t # Idle /\ pxCurrentTCB = t /\ ~inISR /\ pc[t] = "user" /\ In(x, xLists[SuspendedTaskList])
      /\ \A e \in ItemLists : ~In(x, xEventLists[e])
      /\ prvAddTaskToReadyQueue(GenericRemoved(x), x, uxPriority[x])
      /\ pc' = [pc EXCEPT ![t] = at] /\ ret' = [ret EXCEPT ![t] = "user"]
      /\ UNCHANGED <<xEventLists, items, priorities, clock, suspension, pxCurrentTCB,
                     yieldAfter, xYieldRequired, inISR, checkingDelayed, counts>>
    BY DEF vTaskResume, Caller, Running, xTaskIsTaskSuspended, HasEvent, YieldMaskedIf, ReturnVia,
           GoTo, callFrame, interrupt
<1>2. at \in {"yieldMasked", "user"} /\ at \in PcNames
    BY DEF PcNames
<1>3. /\ pc' \in [Tasks -> PcNames] /\ pc'[t] = at /\ \A u \in Tasks \ {t} : pc'[u] = pc[u]
      /\ ret' \in [Tasks -> {"user", "reap", "idleYield"}] /\ \A u \in Tasks \ {t} : ret'[u] = ret[u]
    <2> HIDE DEF at
    <2> QED BY <1>1, <1>2, Typed
<1>4. \A u \in Tasks : pc'[u] = "free" <=> pc[u] = "free"
    BY <1>1, <1>2, <1>3
<1>5. PendingReadyList \in ItemLists /\ \A e \in ItemLists : Once(xEventLists[e])
    BY Typed DEF SchedInv, Structure, PendingIsBlocked
<1>6. /\ TypeOK' /\ Structure' /\ DelaysExact'
      /\ xLists'[TasksWaitingTermination] # <<>> <=> xLists[TasksWaitingTermination] # <<>>
      /\ CurrentRules /\ uxPriority[x] <= uxPriority[pxCurrentTCB] => CurrentRules'
      /\ IsReady(pxCurrentTCB) => IsReady(pxCurrentTCB)'
    <2>1. \A u \in Tasks : In(u, xEventLists'[PendingReadyList]) =>
             u # x /\ In(u, xEventLists[PendingReadyList])
        BY <1>1, <1>5
    <2>2. /\ xYieldRequired' \in BOOLEAN /\ inISR' \in BOOLEAN
          /\ xEventLists' \in [ItemLists -> Seq(Tasks)] /\ \A e \in ItemLists : Once(xEventLists'[e])
        BY <1>1, <1>5, Typed
    <2> HIDE DEF at
    <2> QED BY <1>1, <1>3, <1>4, <2>1, <2>2, ReadiedStep
<1>7. uxPriority[x] \in Nat /\ uxPriority[t] \in Nat
    BY Typed, ListNames
<1>8. at = "yieldMasked" \/ uxPriority[x] <= uxPriority[t]
    BY <1>7
<1> HIDE DEF at
<1>9. Control'
    BY <1>1, <1>2, <1>3 DEF SchedInv, Control, suspension
<1>10. Reaping'
    BY <1>1, <1>3, <1>6, Typed DEF SchedInv, Reaping
<1>11. Ruling'
    BY <1>1, <1>3, <1>6, <1>8 DEF SchedInv, Ruling, SwitchOwed, suspension
<1>12. ResumeAllSettlesEverything'
    BY <1>1, <1>2, <1>3 DEF SchedInv, ResumeAllSettlesEverything, suspension, clock
<1>13. Present'
    BY <1>1, <1>3, <1>6 DEF SchedInv, Present, suspension
<1> QED BY <1>13, <1>6, <1>9, <1>10, <1>11, <1>12 DEF SchedInv

-----------------------------------------------------------------------------
(* The tick.                                                                *)

(* vTaskIncrementTick moves the count; when it wraps the delayed list is    *)
(* empty and the lists swap.  Both the tick and the replay of a missed one  *)
(* do it.                                                                   *)
LEMMA TickMoves ==
    ASSUME SchedInv, ~checkingDelayed, vTaskIncrementTick, uxMissedTicks' \in Nat,
           UNCHANGED <<xTimeToWake, xEventLists, priorities, uxTopReadyPriority, pc, counts>>,
           due' \in [Tasks -> Int],
           \A t \in Tasks :
              In(t, xLists[DelayedTaskList]) \/ In(t, xLists[OverflowDelayedTaskList]) =>
                  due'[t] + uxMissedTicks' = due[t] + uxMissedTicks - 1
    PROVE  /\ Structure' /\ DelaysExact' /\ xLists' \in [GenericLists -> Seq(Tasks)]
           /\ xTickCount' \in Ticks /\ xNextTaskUnblockTime' \in Ticks /\ checkingDelayed' \in BOOLEAN
           /\ \A k \in GenericLists \ {DelayedTaskList, OverflowDelayedTaskList} : xLists'[k] = xLists[k]
           /\ xTickCount' < xTickCount => xLists[DelayedTaskList] = <<>>
<1> DEFINE d == xLists[DelayedTaskList]
           o == xLists[OverflowDelayedTaskList]
           left(t) == due[t] + uxMissedTicks
           wraps == xTickCount = portMAX_DELAY
<1>1. /\ xTickCount' = (xTickCount + 1) % TickMod
      /\ xLists' = IF wraps THEN [xLists EXCEPT ![DelayedTaskList] = o, ![OverflowDelayedTaskList] = d]
                   ELSE xLists
      /\ xNextTaskUnblockTime' = IF ~wraps THEN xNextTaskUnblockTime
                                 ELSE IF o = <<>> THEN portMAX_DELAY ELSE xTimeToWake[Head(o)]
      /\ checkingDelayed' = (xTickCount' >= xNextTaskUnblockTime')
    BY DEF vTaskIncrementTick
<1>2. /\ xLists \in [GenericLists -> Seq(Tasks)] /\ OncePlaced(xLists)
      /\ d \in Seq(Tasks) /\ o \in Seq(Tasks)
      /\ DelayedTaskList \in GenericLists /\ OverflowDelayedTaskList \in GenericLists
      /\ DelayedTaskList # OverflowDelayedTaskList
    BY ListedFacts, ListNames DEF SchedInv, IsLists
<1>3. /\ xTickCount \in Nat /\ xTickCount <= TickMod - 1 /\ TickMod \in Nat /\ TickMod > 1
      /\ portMAX_DELAY = TickMod - 1 /\ xNextTaskUnblockTime \in Nat /\ xTimeToWake \in [Tasks -> Nat]
    BY Typed, TickFacts
<1>4. ASSUME NEW t \in Tasks, In(t, d) \/ In(t, o)
      PROVE  /\ left(t) \in Nat /\ left(t) <= TickMod - 1 /\ left(t) # 0 /\ xTimeToWake[t] \in Nat
             /\ In(t, d) => /\ xTickCount + left(t) < TickMod /\ xTimeToWake[t] = xTickCount + left(t)
                            /\ xNextTaskUnblockTime <= xTimeToWake[t]
             /\ In(t, o) => /\ xTickCount + left(t) >= TickMod
                            /\ xTimeToWake[t] = xTickCount + left(t) - TickMod
    BY <1>4, WakeIt
<1>5. xTickCount' = IF wraps THEN 0 ELSE xTickCount + 1
    <2>1. -TickMod < xTickCount + 1 /\ xTickCount + 1 < 2 * TickMod /\ xTickCount + 1 \in Int
        BY <1>3
    <2> QED BY <1>1, <1>3, <2>1, ModTick
<1>17. \A t \in Tasks : left(t) = due[t] + uxMissedTicks
    OBVIOUS
<1> HIDE DEF left
<1>6. wraps => d = <<>>
    <2> SUFFICES ASSUME wraps, d # <<>> PROVE FALSE
        OBVIOUS
    <2>1. PICK t \in Tasks : In(t, d)
        BY <1>2, HeadIn
    <2>2. left(t) \in Nat /\ left(t) # 0 /\ xTickCount + left(t) < TickMod
        BY <1>4, <2>1
    <2> QED BY <1>3, <2>2
<1>7. /\ xLists' \in [GenericLists -> Seq(Tasks)]
      /\ wraps => xLists'[DelayedTaskList] = o /\ xLists'[OverflowDelayedTaskList] = <<>>
      /\ ~wraps => xLists'[DelayedTaskList] = d /\ xLists'[OverflowDelayedTaskList] = o
      /\ \A k \in GenericLists \ {DelayedTaskList, OverflowDelayedTaskList} : xLists'[k] = xLists[k]
    <2> HIDE DEF wraps
    <2>1. CASE wraps
        <3>1. d = <<>>
            BY <1>6, <2>1
        <3> HIDE DEF d, o
        <3> QED BY <1>1, <1>2, <2>1, <3>1
    <2>2. CASE ~wraps
        BY <1>1, <1>2, <2>2
    <2> QED BY <2>1, <2>2
<1>8. xNextTaskUnblockTime' \in Ticks
    <2>1. o # <<>> => Head(o) \in Tasks
        BY <1>2, HeadIn
    <2> QED BY <1>1, <2>1, Typed, TickFacts
<1> HIDE DEF wraps
<1>9. Sorted(o, xTimeToWake) /\ Sorted(d, xTimeToWake)
    BY DEF SchedInv, Structure, Ordered, InOrder
<1>10. ASSUME NEW t \in Tasks, In(t, xLists'[DelayedTaskList]) \/ In(t, xLists'[OverflowDelayedTaskList])
       PROVE  LET rest == due'[t] + uxMissedTicks'
              IN  /\ rest \in (IF checkingDelayed' THEN 0 ELSE 1)..portMAX_DELAY
                  /\ xTimeToWake'[t] = (xTickCount' + rest) % TickMod
                  /\ In(t, xLists'[OverflowDelayedTaskList]) <=> xTickCount' + rest >= TickMod
                  /\ In(t, xLists'[DelayedTaskList]) /\ ~checkingDelayed' =>
                         xNextTaskUnblockTime' <= xTimeToWake'[t]
    <2> DEFINE rest == due'[t] + uxMissedTicks'
    <2>1. ~In(t, <<>>)
        BY DEF In
    <2>2. In(t, d) \/ In(t, o)
        BY <1>7, <1>10, <2>1
    <2>3. rest = left(t) - 1 /\ xTimeToWake' = xTimeToWake
        <3>1. In(t, xLists[DelayedTaskList]) \/ In(t, xLists[OverflowDelayedTaskList])
            BY <2>2
        <3>2. due'[t] + uxMissedTicks' = due[t] + uxMissedTicks - 1
            BY <3>1
        <3>3. left(t) - 1 = due[t] + uxMissedTicks - 1
            <4>1. due[t] \in Int /\ uxMissedTicks \in Int
                BY Typed
            <4> QED BY <1>17, <4>1
        <3>4. xTimeToWake' = xTimeToWake
            OBVIOUS
        <3>5. rest = left(t) - 1
            BY <3>2, <3>3
        <3> QED BY <3>4, <3>5
    <2> HIDE DEF rest, d, o
    <2>4. checkingDelayed' <=> xTickCount' >= xNextTaskUnblockTime'
        BY <1>1
    <2>5. CASE ~wraps
        <3>1. /\ xTickCount' = xTickCount + 1 /\ xNextTaskUnblockTime' = xNextTaskUnblockTime
              /\ xTickCount < TickMod - 1
              /\ xLists'[DelayedTaskList] = d /\ xLists'[OverflowDelayedTaskList] = o
            BY <1>1, <1>3, <1>5, <1>7, <2>5 DEF wraps
        <3>2. rest \in Nat /\ rest <= TickMod - 1 /\ xTickCount' + rest = xTickCount + left(t)
            BY <1>3, <1>4, <2>2, <2>3, <3>1
        <3>3. rest = 0 => checkingDelayed'
            BY <1>3, <1>4, <2>2, <2>3, <2>4, <3>1
        <3>4. xTimeToWake'[t] = (xTickCount' + rest) % TickMod
            <4>1. xTimeToWake[t] = (xTickCount + left(t)) % TickMod
                BY <1>10, <1>17, <2>2 DEF SchedInv, DelaysExact, IsDelayed, d, o
            <4> QED BY <2>3, <3>2, <4>1
        <3>5. In(t, o) <=> xTickCount' + rest >= TickMod
            BY <1>3, <1>4, <2>2, <3>2
        <3>6. rest \in (IF checkingDelayed' THEN 0 ELSE 1)..portMAX_DELAY
            BY <1>3, <3>2, <3>3
        <3> QED BY <1>4, <2>3, <3>1, <3>4, <3>5, <3>6 DEF rest
    <2>6. CASE wraps
        <3>1. /\ xTickCount' = 0 /\ xLists'[DelayedTaskList] = o /\ xLists'[OverflowDelayedTaskList] = <<>>
              /\ xTickCount = TickMod - 1
            BY <1>3, <1>5, <1>7, <2>6 DEF wraps
        <3>2. In(t, o) /\ o # <<>>
            BY <1>2, <1>10, <2>1, <3>1, HeadIn DEF o
        <3>3. xNextTaskUnblockTime' = xTimeToWake[Head(o)] /\ Head(o) \in Tasks
            BY <1>1, <1>2, <2>6, <3>2, HeadIn
        <3>4. xTimeToWake[Head(o)] <= xTimeToWake[t]
            BY <1>2, <1>3, <1>9, <3>2, HeadLeast
        <3>5. rest \in Nat /\ rest <= TickMod - 1 /\ xTimeToWake[t] = rest
            BY <1>3, <1>4, <2>3, <3>1, <3>2
        <3>6. rest = 0 => checkingDelayed'
            <4>1. xTimeToWake[Head(o)] \in Nat
                BY <1>3, <3>3
            <4> QED BY <2>4, <3>1, <3>3, <3>4, <3>5, <4>1
        <3>7. (xTickCount' + rest) % TickMod = rest /\ ~(xTickCount' + rest >= TickMod)
            BY <1>3, <3>1, <3>5, ModTick
        <3>8. rest \in (IF checkingDelayed' THEN 0 ELSE 1)..portMAX_DELAY
            BY <1>3, <3>5, <3>6
        <3> QED BY <2>1, <2>3, <3>1, <3>3, <3>4, <3>5, <3>7, <3>8 DEF rest
    <2> QED BY <2>5, <2>6
<1>11. DelaysExact'
    BY <1>10 DEF DelaysExact, IsDelayed
<1>12. Ordered'
    <2>1. Sorted(<<>>, xTimeToWake)
        BY DEF Sorted
    <2> QED BY <1>7, <1>9, <2>1 DEF Ordered, InOrder
<1>13. Listed' /\ ReadyByPriority' /\ PendingIsBlocked' /\ IdleIsReady' /\ TopKnown'
    <2> DEFINE swap(k) == IF ~wraps THEN k ELSE IF k = DelayedTaskList THEN OverflowDelayedTaskList
                          ELSE IF k = OverflowDelayedTaskList THEN DelayedTaskList ELSE k
    <2>1. \A k \in GenericLists : swap(k) \in GenericLists /\ xLists'[k] = xLists[swap(k)]
          /\ swap(swap(k)) = k
        BY <1>2, <1>6, <1>7
    <2> HIDE DEF swap
    <2>2. OncePlaced(xLists')
        BY <1>2, <2>1 DEF OncePlaced
    <2>3. \A t \in Tasks : (\E l \in GenericLists : In(t, xLists'[l])) <=>
                           (\E l \in GenericLists : In(t, xLists[l]))
        BY <2>1
    <2>4. Listed'
        BY <1>7, <2>2, <2>3 DEF SchedInv, Structure, Listed, IsLists
    <2>5. \A p \in Priorities : xLists'[p] = xLists[p]
        <3>1. \A p \in Priorities : p \in GenericLists \ {DelayedTaskList, OverflowDelayedTaskList}
            BY ListNames
        <3> QED BY <1>7, <3>1
    <2>6. ReadyByPriority' /\ IdleIsReady' /\ TopKnown'
        BY <2>5, ListNames DEF SchedInv, Structure, ReadyByPriority, IdleIsReady, TopKnown, priorities
    <2>7. PendingIsBlocked'
        <3>1. xLists'[SuspendedTaskList] = xLists[SuspendedTaskList]
            BY <1>7, ListNames
        <3>2. ASSUME NEW t \in Tasks, In(t, d) \/ In(t, o)
              PROVE  In(t, xLists'[DelayedTaskList]) \/ In(t, xLists'[OverflowDelayedTaskList])
            <4>1. ~In(t, <<>>)
                BY DEF In
            <4> QED BY <1>6, <1>7, <3>2, <4>1
        <3> QED BY <3>1, <3>2 DEF SchedInv, Structure, PendingIsBlocked
    <2> QED BY <2>4, <2>6, <2>7
<1>14. Counted'
    <2>1. xLists'[TasksWaitingTermination] = xLists[TasksWaitingTermination]
        BY <1>7, ListNames
    <2> QED BY <2>1 DEF SchedInv, Structure, Counted, Existing, counts
<1>15. xTickCount' \in Ticks
    BY <1>3, <1>5, TickFacts DEF wraps
<1>16. xTickCount' < xTickCount => d = <<>>
    BY <1>3, <1>5, <1>6
<1> QED BY <1>1, <1>7, <1>8, <1>11, <1>12, <1>13, <1>14, <1>15, <1>16 DEF Structure

(* The tick interrupt, with the scheduler active and suspended.             *)
LEMMA TickStep ==
    ASSUME SchedInv, Tick
    PROVE  SchedInv'
<1>1. /\ InterruptsEnabled
      /\ due' = [t \in Tasks |-> IF IsDelayed(t) THEN due[t] - 1 ELSE due[t]]
      /\ UNCHANGED <<xEventLists, uxTopReadyPriority, xTimeToWake, priorities, uxSchedulerSuspended,
                     pxCurrentTCB, calls, counts>>
    BY DEF Tick, vTickISR
<1>2. UNCHANGED <<pc, ret, yieldAfter, xYieldRequired>>
    BY <1>1 DEF calls
<1>3. ~inISR /\ pc[pxCurrentTCB] \notin Masked /\ "drain" \in Masked /\ ~checkingDelayed
    BY <1>1 DEF SchedInv, Control, InterruptsEnabled, Masked
<1>4. due' \in [Tasks -> Int] /\ \A t \in Tasks : IsDelayed(t) => due'[t] = due[t] - 1
    BY <1>1, Typed
<1>5. CASE uxSchedulerSuspended # 0
    <2>1. uxMissedTicks' = uxMissedTicks + 1 /\ xMissedYield' = TRUE
          /\ UNCHANGED <<xLists, xTickCount, xNextTaskUnblockTime, inISR, checkingDelayed>>
        BY <1>5 DEF Tick, vTickISR, interrupt
    <2>2. TypeOK'
        BY <1>1, <1>2, <1>4, <2>1 DEF SchedInv, TypeOK, KernelTypeOK, priorities, counts
    <2>3. Structure'
        <3>1. Listed' /\ ReadyByPriority' /\ PendingIsBlocked' /\ IdleIsReady' /\ TopKnown' /\ Ordered'
            BY <1>1, <1>2, <2>1 DEF SchedInv, Structure, Listed, ReadyByPriority, PendingIsBlocked,
               IdleIsReady, TopKnown, Ordered, priorities
        <3>2. Counted'
            BY <1>1, <1>2, <2>1 DEF SchedInv, Structure, Counted, Existing, counts
        <3> QED BY <3>1, <3>2 DEF Structure
    <2>4. DelaysExact'
        <3>1. \A t \in Tasks : IsDelayed(t) => due'[t] + uxMissedTicks' = due[t] + uxMissedTicks
            <4>1. \A t \in Tasks : due[t] \in Int /\ uxMissedTicks \in Int
                BY Typed
            <4> QED BY <1>4, <2>1, <4>1
        <3> QED BY <1>1, <2>1, <3>1 DEF SchedInv, DelaysExact, IsDelayed
    <2>5. Control' /\ Reaping' /\ Ruling' /\ ResumeAllSettlesEverything'
        BY <1>1, <1>2, <1>5, <2>1 DEF SchedInv, Control, Reaping, Ruling, SwitchOwed,
           ResumeAllSettlesEverything
    <2>6. Present'
        BY <1>1, <1>2, <2>1 DEF SchedInv, Present, IsReady
    <2> QED BY <2>6, <2>2, <2>3, <2>4, <2>5 DEF SchedInv
<1>6. CASE uxSchedulerSuspended = 0
    <2>1. vTaskIncrementTick /\ inISR' = TRUE /\ UNCHANGED <<uxMissedTicks, xMissedYield>>
        BY <1>6 DEF Tick, vTickISR
    <2>2. /\ Structure' /\ DelaysExact' /\ xLists' \in [GenericLists -> Seq(Tasks)]
          /\ xTickCount' \in Ticks /\ xNextTaskUnblockTime' \in Ticks /\ checkingDelayed' \in BOOLEAN
          /\ xLists'[TasksWaitingTermination] = xLists[TasksWaitingTermination]
          /\ \A p \in Priorities : xLists'[p] = xLists[p]
        <3>1. \A t \in Tasks :
                 In(t, xLists[DelayedTaskList]) \/ In(t, xLists[OverflowDelayedTaskList]) =>
                     due'[t] + uxMissedTicks' = due[t] + uxMissedTicks - 1
            <4>1. \A t \in Tasks : due[t] \in Int /\ uxMissedTicks \in Int
                BY Typed
            <4> QED BY <1>4, <2>1, <4>1 DEF IsDelayed
        <3>2. uxMissedTicks' \in Nat
            BY <2>1, Typed
        <3> QED BY <1>1, <1>2, <1>3, <1>4, <2>1, <3>1, <3>2, TickMoves, ListNames, ReadyListNames
    <2>3. TypeOK'
        BY <1>1, <1>2, <1>4, <2>1, <2>2 DEF SchedInv, TypeOK, KernelTypeOK, priorities, counts
    <2>4. Control' /\ Reaping' /\ Ruling'
        BY <1>1, <1>2, <1>3, <1>6, <2>1, <2>2 DEF SchedInv, Control, Reaping, Ruling, SwitchOwed
    <2>5. ResumeAllSettlesEverything'
        BY <1>1, <1>2, <2>1 DEF SchedInv, ResumeAllSettlesEverything
    <2>6. Present'
        BY <1>1, <1>2, <2>2 DEF SchedInv, Present, IsReady
    <2> QED BY <2>6, <2>2, <2>3, <2>4, <2>5 DEF SchedInv
<1> QED BY <1>5, <1>6

(* xTaskResumeAll works off a missed tick.                                  *)
LEMMA ReplayStep ==
    ASSUME SchedInv, NEW t \in Tasks, ReplayMissedTick(t), UNCHANGED counts
    PROVE  SchedInv'
<1>1. /\ pxCurrentTCB = t /\ ~inISR /\ pc[t] = "drain" /\ ~checkingDelayed /\ uxMissedTicks > 0
      /\ vTaskIncrementTick /\ uxMissedTicks' = uxMissedTicks - 1 /\ xYieldRequired' = TRUE
      /\ UNCHANGED <<xEventLists, uxTopReadyPriority, items, priorities, suspension,
                     pxCurrentTCB, pc, ret, yieldAfter, inISR>>
    BY DEF ReplayMissedTick, Running
<1>2. uxSchedulerSuspended = 0 /\ uxSchedulerSuspended' = 0
    BY <1>1 DEF SchedInv, Control, suspension
<1>3. /\ Structure' /\ DelaysExact' /\ xLists' \in [GenericLists -> Seq(Tasks)]
      /\ xTickCount' \in Ticks /\ xNextTaskUnblockTime' \in Ticks /\ checkingDelayed' \in BOOLEAN
      /\ xLists'[TasksWaitingTermination] = xLists[TasksWaitingTermination]
      /\ \A p \in Priorities : xLists'[p] = xLists[p]
    <2>1. due' = due /\ xTimeToWake' = xTimeToWake /\ due' \in [Tasks -> Int]
        BY <1>1, Typed DEF items
    <2>2. \A u \in Tasks : due'[u] + uxMissedTicks' = due[u] + uxMissedTicks - 1
        <3>1. \A u \in Tasks : due[u] \in Int /\ uxMissedTicks \in Int
            BY Typed
        <3> QED BY <1>1, <2>1, <3>1
    <2>3. uxMissedTicks' \in Nat
        BY <1>1, Typed
    <2> QED BY <1>1, <2>1, <2>2, <2>3, TickMoves, ListNames, ReadyListNames
<1>4. TypeOK'
    <2>1. uxMissedTicks' \in Nat
        BY <1>1, Typed
    <2> QED BY <1>1, <1>3, <2>1 DEF SchedInv, TypeOK, KernelTypeOK, items, priorities, suspension, counts
<1>5. Control' /\ Reaping' /\ Ruling' /\ ResumeAllSettlesEverything'
    BY <1>1, <1>2, <1>3 DEF SchedInv, Control, Reaping, Ruling, SwitchOwed,
       ResumeAllSettlesEverything, suspension
<1>6. Present'
    BY <1>1, <1>2, <1>3 DEF SchedInv, Present, IsReady, suspension
<1> QED BY <1>6, <1>3, <1>4, <1>5 DEF SchedInv

-----------------------------------------------------------------------------
(* The context switch.                                                      *)

(* vTaskSwitchContext with the scheduler active: the new current task is    *)
(* the first of the highest ready list that is not empty.                   *)
LEMMA Switched ==
    ASSUME SchedInv, uxSchedulerSuspended = 0, vTaskSwitchContext,
           pc' \in [Tasks -> PcNames], \A t \in Tasks : pc'[t] = "free" <=> pc[t] = "free",
           UNCHANGED <<xEventLists, items, priorities, clock, checkingDelayed, counts>>
    PROVE  /\ Structure' /\ DelaysExact' /\ CurrentRules' /\ pxCurrentTCB' \in Tasks
           /\ xLists' \in [GenericLists -> Seq(Tasks)] /\ uxTopReadyPriority' \in Priorities
           /\ xLists'[TasksWaitingTermination] # <<>> <=> xLists[TasksWaitingTermination] # <<>>
           /\ xMissedYield' = xMissedYield
<1> DEFINE l == TopReady
           h == Head(xLists[l])
<1>1. /\ uxTopReadyPriority' = l /\ xLists' = [xLists EXCEPT ![l] = Append(Tail(@), Head(@))]
      /\ pxCurrentTCB' = h /\ xMissedYield' = xMissedYield
    BY DEF vTaskSwitchContext
<1>2. /\ IsLists(xLists) /\ xLists[0] # <<>> /\ uxTopReadyPriority \in Priorities
      /\ \A i, k \in GenericLists : \A t \in Tasks : In(t, xLists[i]) /\ In(t, xLists[k]) => i = k
      /\ xLists \in [GenericLists -> Seq(Tasks)]
    BY ListedFacts, Typed DEF SchedInv
<1>3. /\ l \in 0..uxTopReadyPriority /\ xLists[l] # <<>>
      /\ \A q \in (l + 1)..uxTopReadyPriority : xLists[q] = <<>>
    BY <1>2, TopReadyIt
<1> HIDE DEF l
<1>4. l \in Priorities /\ l \in GenericLists /\ l \in Nat /\ l \notin OtherLists /\ l # NoList
    <2>1. l \in Priorities
        BY <1>2, <1>3, KernelAssumption DEF Priorities, KernelAssumption
    <2> QED BY <2>1, ReadyListNames
<1>5. h \in Tasks /\ In(h, xLists[l])
    BY <1>2, <1>3, <1>4, HeadIn
<1>6. TakesTo(xLists, xLists', h, l)
    BY <1>1, <1>2, <1>3, <1>4, RotatedIt
<1> HIDE DEF h
<1>7. \A u \in Tasks : \A k \in GenericLists : In(u, xLists'[k]) <=> In(u, xLists[k])
    BY <1>2, <1>4, <1>5, <1>6 DEF TakesTo
<1>8. uxPriority[h] = l
    BY <1>4, <1>5 DEF SchedInv, Structure, ReadyByPriority
<1>9. h = Idle => l = 0
    BY <1>8, ListedFacts DEF SchedInv
<1>10. UNCHANGED <<uxPriority, uxBasePriority, xTimeToWake, due, xTickCount, uxMissedTicks, xNextTaskUnblockTime>>
    BY DEF items, priorities, clock
<1>11. Listed' /\ ReadyByPriority' /\ In(Idle, xLists'[0]) /\ Existing' = Existing
    <2>1. pc[h] # "free" /\ uxPriority'[h] = l
        BY <1>4, <1>5, <1>8, <1>10, ListedFacts DEF SchedInv
    <2> QED BY <1>4, <1>5, <1>6, <1>9, <1>10, <2>1, TakesKeeps DEF SchedInv
<1>12. IdleIsReady'
    BY <1>10, <1>11 DEF SchedInv, Structure, IdleIsReady
<1>13. xLists' \in [GenericLists -> Seq(Tasks)]
    BY <1>6 DEF TakesTo, IsLists
<1>14. \A q \in Priorities : xLists'[q] # <<>> => q <= l
    <2> SUFFICES ASSUME NEW q \in Priorities, xLists'[q] # <<>> PROVE q <= l
        OBVIOUS
    <2>1. q \in GenericLists /\ q \in Nat
        BY ReadyListNames
    <2>2. xLists[q] # <<>>
        BY <1>2, <1>7, <1>13, <2>1, HeadIn
    <2>3. q <= uxTopReadyPriority
        BY <2>2 DEF SchedInv, Structure, TopKnown
    <2>4. uxTopReadyPriority \in Nat
        BY Typed, ListNames
    <2> QED BY <1>3, <1>4, <2>1, <2>2, <2>3, <2>4
<1>15. TopKnown'
    BY <1>1, <1>14 DEF TopKnown
<1>16. CurrentRules'
    <2>1. \A t \in Tasks : \A q \in Priorities : In(t, xLists'[q]) => q <= l
        BY <1>13, <1>14, HeadIn, ListNames
    <2> QED BY <1>1, <1>4, <1>5, <1>7, <1>8, <1>10, <2>1 DEF CurrentRules
<1>17. Ordered'
    <2>1. \A k \in {DelayedTaskList, OverflowDelayedTaskList} : k # l /\ k \in GenericLists
        BY <1>4, ListNames
    <2> QED BY <1>6, <1>10, <2>1 DEF SchedInv, Structure, Ordered, InOrder, TakesTo
<1>18. ~In(h, xLists[TasksWaitingTermination]) /\ TasksWaitingTermination # l
    BY <1>2, <1>4, <1>5, ListNames
<1>19. /\ Len(xLists'[TasksWaitingTermination]) = Len(xLists[TasksWaitingTermination])
       /\ xLists'[TasksWaitingTermination] # <<>> <=> xLists[TasksWaitingTermination] # <<>>
    <2>1. TasksWaitingTermination \in GenericLists
        BY ListNames
    <2>2. IsLists(xLists) /\ h \in Tasks
        BY <1>2, <1>5
    <2>3. TakesTo(xLists, xLists', h, l)
        BY <1>6
    <2> HIDE DEF h
    <2> QED BY <1>18, <2>1, <2>2, <2>3, OtherListKept
<1>20. Counted'
    BY <1>11, <1>19 DEF SchedInv, Structure, Counted, counts
<1>21. PendingIsBlocked'
    BY <1>7, ListNames DEF SchedInv, Structure, PendingIsBlocked
<1>22. DelaysExact'
    BY <1>7, <1>10, ListNames DEF SchedInv, DelaysExact, IsDelayed
<1> QED BY <1>1, <1>4, <1>5, <1>11, <1>12, <1>13, <1>15, <1>16, <1>17, <1>19, <1>20, <1>21, <1>22 DEF Structure

(* The switch at the end of an interrupt.                                   *)
LEMMA SwitchInISRStep ==
    ASSUME SchedInv, SwitchContextInISR, UNCHANGED counts
    PROVE  SchedInv'
<1>1. /\ inISR /\ ~checkingDelayed /\ inISR' = FALSE /\ vTaskSwitchContext
      /\ UNCHANGED <<xEventLists, items, priorities, clock, uxSchedulerSuspended, calls, checkingDelayed, counts>>
    BY DEF SwitchContextInISR
<1>2. UNCHANGED <<pc, ret, yieldAfter, xYieldRequired>>
    BY <1>1 DEF calls
<1>3. uxSchedulerSuspended = 0 /\ pc[pxCurrentTCB] \notin Masked
    BY <1>1 DEF SchedInv, Control
<1>4. pc[pxCurrentTCB] \in BetweenSteps
    <2>1. pc[pxCurrentTCB] \in PcNames /\ uxSchedulerSuspended \in Nat
        BY Typed
    <2>2. pc[pxCurrentTCB] \notin {"delay", "resumeAll"}
        BY <1>3, <2>1 DEF SchedInv, Control
    <2> QED BY <1>3, <2>1, <2>2 DEF PcNames, BetweenSteps, Masked
<1>5. /\ Structure' /\ DelaysExact' /\ CurrentRules' /\ pxCurrentTCB' \in Tasks
      /\ xLists' \in [GenericLists -> Seq(Tasks)] /\ uxTopReadyPriority' \in Priorities
      /\ xLists'[TasksWaitingTermination] # <<>> <=> xLists[TasksWaitingTermination] # <<>>
      /\ xMissedYield' = xMissedYield
    BY <1>1, <1>2, <1>3, Switched, Typed
<1>6. TypeOK'
    BY <1>1, <1>2, <1>5 DEF SchedInv, TypeOK, KernelTypeOK, items, priorities, clock, counts
<1>7. \A t \in Tasks : pc[t] \in BetweenSteps
    BY <1>4 DEF SchedInv, Control
<1>8. Control'
    BY <1>1, <1>2, <1>3, <1>5, <1>7 DEF Control, BetweenSteps
<1>9. Reaping'
    BY <1>2, <1>5 DEF SchedInv, Reaping
<1>10. Ruling'
    BY <1>5 DEF Ruling
<1>11. ResumeAllSettlesEverything'
    <2>1. pc[pxCurrentTCB] # "drain"
        BY <1>4 DEF BetweenSteps
    <2> QED BY <1>1, <1>3, <1>5, <2>1 DEF SchedInv, ResumeAllSettlesEverything, clock
<1>12. Present'
    BY <1>5 DEF Present, CurrentRules, IsReady
<1> QED BY <1>12, <1>5, <1>6, <1>8, <1>9, <1>10, <1>11 DEF SchedInv

(* A task's own yield; with the scheduler suspended it is only noted.       *)
LEMMA YieldStep ==
    ASSUME SchedInv, NEW t \in Tasks, vPortYieldProcessor(t), UNCHANGED counts
    PROVE  SchedInv'
<1>1. /\ pxCurrentTCB = t /\ ~inISR /\ pc[t] \in {"yield", "yieldMasked"} /\ vTaskSwitchContext
      /\ pc' = [pc EXCEPT ![t] = ret[t]]
      /\ UNCHANGED <<xEventLists, items, priorities, clock, uxSchedulerSuspended,
                     ret, yieldAfter, xYieldRequired, inISR, checkingDelayed, counts>>
    BY DEF vPortYieldProcessor, Running, GoTo, interrupt
<1>2. ret[t] \in {"user", "reap", "idleYield"}
    BY Typed
<1>3. /\ pc' \in [Tasks -> PcNames] /\ pc'[t] = ret[t] /\ \A u \in Tasks \ {t} : pc'[u] = pc[u]
      /\ \A u \in Tasks : pc'[u] = "free" <=> pc[u] = "free"
    BY <1>1, <1>2, Typed DEF PcNames
<1>4. \A u \in Tasks : pc'[u] \in BetweenSteps
    BY <1>1, <1>2, <1>3 DEF SchedInv, Control, BetweenSteps
<1>5. ~checkingDelayed /\ ~checkingDelayed'
    BY <1>1 DEF SchedInv, Control
<1>6. (pc'[Idle] = "reap" => xLists[TasksWaitingTermination] # <<>>)
      /\ pc'[Idle] \notin {"delay", "resumeAll", "drain", "yieldMasked"}
      /\ (pc'[Idle] = "yield" => pc[Idle] = "yield")
    <2>1. Idle \in Tasks
        BY Typed
    <2>2. CASE t = Idle
        BY <1>1, <1>2, <1>3, <2>2 DEF SchedInv, Reaping
    <2>3. CASE t # Idle
        BY <1>1, <1>3, <2>1, <2>3 DEF SchedInv, Reaping, Control, BetweenSteps
    <2> QED BY <2>2, <2>3
<1>7. CASE uxSchedulerSuspended = 0
    <2>1. /\ Structure' /\ DelaysExact' /\ CurrentRules' /\ pxCurrentTCB' \in Tasks
          /\ xLists' \in [GenericLists -> Seq(Tasks)] /\ uxTopReadyPriority' \in Priorities
          /\ xLists'[TasksWaitingTermination] # <<>> <=> xLists[TasksWaitingTermination] # <<>>
          /\ xMissedYield' = xMissedYield
        BY <1>1, <1>3, <1>7, Switched
    <2>2. TypeOK'
        BY <1>1, <1>3, <2>1 DEF SchedInv, TypeOK, KernelTypeOK, items, priorities, clock, counts, PcNames
    <2>3. Control'
        BY <1>1, <1>4, <1>5, <2>1 DEF Control, BetweenSteps
    <2>4. Reaping'
        BY <1>1, <1>6, <2>1 DEF SchedInv, Reaping
    <2>5. Ruling'
        BY <2>1 DEF Ruling
    <2>6. ResumeAllSettlesEverything'
        BY <1>1, <1>7, <2>1 DEF SchedInv, ResumeAllSettlesEverything, clock
    <2>7. Present'
        BY <2>1 DEF Present, CurrentRules, IsReady
    <2> QED BY <2>7, <2>1, <2>2, <2>3, <2>4, <2>5, <2>6 DEF SchedInv
<1>8. CASE uxSchedulerSuspended # 0
    <2>1. xMissedYield' = TRUE /\ UNCHANGED <<xLists, uxTopReadyPriority, pxCurrentTCB>>
        BY <1>1, <1>8 DEF vTaskSwitchContext
    <2>2. Structure' /\ DelaysExact'
        BY <1>1, <1>3, <2>1, FrameKeeps DEF SchedInv, lists
    <2>3. TypeOK'
        BY <1>1, <1>3, <2>1 DEF SchedInv, TypeOK, KernelTypeOK, items, priorities, clock, counts, PcNames
    <2>4. Control'
        BY <1>1, <1>4, <1>5, <2>1 DEF Control, BetweenSteps
    <2>5. Reaping'
        BY <1>1, <1>6, <2>1 DEF SchedInv, Reaping
    <2>6. Ruling' /\ ResumeAllSettlesEverything'
        BY <1>1, <1>8, <2>1 DEF Ruling, SwitchOwed, ResumeAllSettlesEverything
    <2>7. Present'
        BY <1>1, <1>3, <1>8, <2>1 DEF SchedInv, Present, IsReady
    <2> QED BY <2>7, <2>2, <2>3, <2>4, <2>5, <2>6 DEF SchedInv
<1> QED BY <1>7, <1>8

-----------------------------------------------------------------------------
(* Delays.                                                                  *)

(* The wake time a call computes is less than a turn of the count ahead.    *)
LEMMA WakeAhead ==
    ASSUME NEW now \in Ticks, NEW wake \in Ticks, wake # now
    PROVE  LET left == (wake - now) % TickMod
           IN  /\ left \in 1..portMAX_DELAY
               /\ wake = (now + left) % TickMod
               /\ wake < now <=> now + left >= TickMod
<1> DEFINE left == (wake - now) % TickMod
           m == TickMod
<1>1. /\ now \in Nat /\ wake \in Nat /\ now <= m - 1 /\ wake <= m - 1 /\ m \in Nat /\ m > 1
      /\ portMAX_DELAY = m - 1
    BY TickFacts
<1>2. wake - now \in Int /\ -m < wake - now /\ wake - now < 2 * m
    BY <1>1
<1>3. left = IF wake - now < 0 THEN wake - now + m ELSE wake - now
    <2> HIDE DEF m
    <2>1. m = TickMod
        BY DEF m
    <2> QED BY <1>1, <1>2, <2>1, ModTick
<1> HIDE DEF left
<1>4. CASE wake < now
    <2>1. left = wake - now + m
        BY <1>1, <1>3, <1>4
    <2>2. now + left = wake + m /\ left \in 1..(m - 1)
        BY <1>1, <1>4, <2>1
    <2>3. (now + left) % TickMod = wake
        <3>1. now + left \in Int /\ -TickMod < now + left /\ now + left < 2 * TickMod
              /\ now + left >= TickMod
            BY <1>1, <2>2
        <3> QED BY <1>1, <2>2, <3>1, ModTick
    <2> QED BY <1>1, <1>4, <2>2, <2>3 DEF left
<1>5. CASE wake > now
    <2>1. left = wake - now
        BY <1>1, <1>3, <1>5
    <2>2. now + left = wake /\ left \in 1..(m - 1)
        BY <1>1, <1>5, <2>1
    <2>3. (now + left) % TickMod = wake
        <3>1. now + left \in Int /\ -TickMod < now + left /\ now + left < 2 * TickMod
              /\ now + left < TickMod /\ ~(now + left < 0)
            BY <1>1, <2>2
        <3> QED BY <1>1, <2>2, <3>1, ModTick
    <2> QED BY <1>1, <1>5, <2>2, <2>3 DEF left
<1> QED BY <1>1, <1>4, <1>5

(* The current task leaves its ready list for a delayed list.               *)
LEMMA DelayedStep ==
    ASSUME SchedInv, NEW t \in Tasks, Running(t, "delay"), NEW wake \in Ticks, wake # xTickCount,
           prvAddCurrentTaskToDelayedList(t, wake), CallResumeAll(t, "user", TRUE),
           UNCHANGED <<xEventLists, uxTopReadyPriority, priorities, xTickCount, uxMissedTicks,
                       suspension, pxCurrentTCB, interrupt, counts>>
    PROVE  SchedInv'
<1> DEFINE l == DelayedListFor(wake)
           left == (wake - xTickCount) % TickMod
<1>1. /\ pxCurrentTCB = t /\ ~inISR /\ pc[t] = "delay" /\ t # Idle
      /\ pc' = [pc EXCEPT ![t] = "resumeAll"] /\ ret' = [ret EXCEPT ![t] = "user"]
      /\ yieldAfter' = [yieldAfter EXCEPT ![t] = TRUE] /\ xYieldRequired' = xYieldRequired
      /\ UNCHANGED <<inISR, checkingDelayed, uxSchedulerSuspended, xMissedYield>>
    BY DEF Running, CallResumeAll, GoTo, SchedInv, Reaping, interrupt, suspension
<1>2. /\ pc' \in [Tasks -> PcNames] /\ pc'[t] = "resumeAll" /\ \A u \in Tasks \ {t} : pc'[u] = pc[u]
      /\ ret' \in [Tasks -> {"user", "reap", "idleYield"}] /\ \A u \in Tasks \ {t} : ret'[u] = ret[u]
      /\ yieldAfter' \in [Tasks -> BOOLEAN] /\ yieldAfter'[t] = TRUE
      /\ Idle \in Tasks
    BY <1>1, Typed DEF PcNames
<1>3. uxSchedulerSuspended = 1 /\ ~checkingDelayed
    BY <1>1 DEF SchedInv, Control
<1>4. IsReady(t)
    BY <1>1, <1>3 DEF SchedInv, Present
<1>5. /\ TakesTo(xLists, xLists', t, l) /\ InOrder(xLists', xTimeToWake')
      /\ xTimeToWake' \in [Tasks -> Ticks]
    BY Typed, ListedFacts, DelayedIt DEF SchedInv, Structure, Ordered
<1>6. /\ xTimeToWake'[t] = wake /\ \A u \in Tasks \ {t} : xTimeToWake'[u] = xTimeToWake[u]
      /\ due' \in [Tasks -> Int] /\ due'[t] = left - uxMissedTicks /\ \A u \in Tasks \ {t} : due'[u] = due[u]
      /\ xNextTaskUnblockTime' = UnblockTimeWith(l, wake)
      /\ left \in 1..portMAX_DELAY /\ wake = (xTickCount + left) % TickMod
      /\ wake < xTickCount <=> xTickCount + left >= TickMod
    <2>1. /\ left \in 1..portMAX_DELAY /\ wake = (xTickCount + left) % TickMod
          /\ wake < xTickCount <=> xTickCount + left >= TickMod
        BY Typed, WakeAhead
    <2>2. /\ xTimeToWake' = [xTimeToWake EXCEPT ![t] = wake]
          /\ due' = [due EXCEPT ![t] = left - uxMissedTicks]
          /\ xNextTaskUnblockTime' = UnblockTimeWith(l, wake)
        BY DEF prvAddCurrentTaskToDelayedList
    <2> HIDE DEF left
    <2>3. left - uxMissedTicks \in Int
        BY <2>1, Typed, TickFacts
    <2> QED BY <2>1, <2>2, <2>3, Typed
<1>7. l \in {DelayedTaskList, OverflowDelayedTaskList} /\ (l = OverflowDelayedTaskList <=> wake < xTickCount)
      /\ l \in GenericLists
    BY ListNames DEF DelayedListFor
<1> HIDE DEF l, left
<1>8. /\ \A u \in Tasks : \A k \in GenericLists : In(u, xLists'[k]) <=> IF u = t THEN k = l ELSE In(u, xLists[k])
      /\ xLists' \in [GenericLists -> Seq(Tasks)] /\ IsLists(xLists)
    BY <1>5, ListedFacts DEF TakesTo, IsLists, SchedInv
<1>9. /\ xNextTaskUnblockTime' \in Ticks /\ xNextTaskUnblockTime' <= xNextTaskUnblockTime
      /\ xNextTaskUnblockTime \in Nat /\ xNextTaskUnblockTime' \in Nat
      /\ l = DelayedTaskList => xNextTaskUnblockTime' <= wake
    <2>1. xNextTaskUnblockTime \in Ticks /\ wake \in Nat /\ xNextTaskUnblockTime \in Nat
        BY Typed, TickFacts
    <2> QED BY <1>6, <2>1 DEF UnblockTimeWith
<1>10. TypeOK'
    BY <1>1, <1>2, <1>5, <1>6, <1>8, <1>9 DEF SchedInv, TypeOK, KernelTypeOK, PcNames, priorities, counts
<1>11. Listed' /\ ReadyByPriority' /\ In(Idle, xLists'[0]) /\ Existing' = Existing
    <2>1. \A u \in Tasks : pc'[u] = "free" <=> pc[u] = "free"
        BY <1>1, <1>2
    <2>2. l \notin Priorities /\ l # NoList /\ pc'[t] # "free"
        BY <1>2, <1>7, ListNames
    <2>3. uxPriority' = uxPriority
        BY DEF priorities
    <2> QED BY <1>1, <1>2, <1>5, <1>7, <2>1, <2>2, <2>3, TakesKeeps DEF SchedInv
<1>12. IdleIsReady'
    BY <1>11 DEF SchedInv, Structure, IdleIsReady, priorities
<1>13. PendingIsBlocked'
    BY <1>7, <1>8, ListNames DEF SchedInv, Structure, PendingIsBlocked
<1>14. Counted' /\ (xLists'[TasksWaitingTermination] # <<>> <=> xLists[TasksWaitingTermination] # <<>>)
    <2>1. ~In(t, xLists[TasksWaitingTermination])
        BY <1>4, <1>8, ListNames, ReadyListNames DEF IsReady, IsLists, OncePlaced
    <2>2. /\ Len(xLists'[TasksWaitingTermination]) = Len(xLists[TasksWaitingTermination])
          /\ xLists'[TasksWaitingTermination] # <<>> <=> xLists[TasksWaitingTermination] # <<>>
        BY <1>5, <1>7, <1>8, <2>1, OtherListKept, ListNames
    <2> QED BY <1>11, <2>2 DEF SchedInv, Structure, Counted, counts
<1>15. TopKnown'
    <2>1. \A p \in Priorities : xLists'[p] # <<>> => xLists[p] # <<>>
        <3> SUFFICES ASSUME NEW p \in Priorities, xLists'[p] # <<>> PROVE xLists[p] # <<>>
            OBVIOUS
        <3>1. p \in GenericLists /\ p # l /\ xLists[p] \in Seq(Tasks) /\ xLists'[p] \in Seq(Tasks)
            BY <1>7, <1>8, ListNames DEF IsLists
        <3> QED BY <1>8, <3>1, HeadIn
    <2> QED BY <2>1 DEF SchedInv, Structure, TopKnown
<1>16. Structure'
    BY <1>5, <1>11, <1>12, <1>13, <1>14, <1>15 DEF Structure, Ordered
<1>17. DelaysExact'
    <2>1. due'[t] + uxMissedTicks = left
        BY <1>6, Typed, TickFacts
    <2>2. /\ UNCHANGED <<xTickCount, uxMissedTicks>> /\ checkingDelayed' = checkingDelayed
          /\ l \in GenericLists \cup {NoList} /\ xTimeToWake \in [Tasks -> Ticks]
        BY <1>1, <1>7, Typed
    <2> HIDE DEF prvAddCurrentTaskToDelayedList, CallResumeAll
    <2> QED BY <1>5, <1>6, <1>7, <1>9, <2>1, <2>2, TakesKeepsDelays DEF SchedInv
<1>18. Control' /\ Reaping'
    BY <1>1, <1>2, <1>3, <1>14 DEF SchedInv, Control, Reaping
<1>19. Present' /\ Ruling' /\ ResumeAllSettlesEverything'
    BY <1>1, <1>2, <1>3 DEF Present, Ruling, SwitchOwed, ResumeAllSettlesEverything
<1> QED BY <1>10, <1>16, <1>17, <1>18, <1>19 DEF SchedInv

(* vTaskDelay.                                                              *)
LEMMA DelayStep ==
    ASSUME SchedInv, NEW t \in Tasks, NEW n \in Delays, vTaskDelay(t, n), UNCHANGED counts
    PROVE  SchedInv'
<1>1. CASE n = 0
    <2>1. n \in Nat
        BY SchedulerAssumption, TickFacts DEF SchedulerAssumption
    <2>2. /\ Caller(t) /\ YieldIf(t, TRUE)
          /\ UNCHANGED <<lists, items, priorities, clock, suspension, pxCurrentTCB, callFrame, interrupt>>
        <3>1. ~(n > 0)
            BY <1>1
        <3> QED BY <3>1 DEF vTaskDelay
    <2> QED BY <2>2, DelayZero
<1>2. CASE n # 0
    <2>1. n \in Nat /\ n > 0 /\ n <= TickMod - 1 /\ xTickCount \in Nat /\ xTickCount <= TickMod - 1
          /\ TickMod \in Nat
        BY <1>2, Typed, SchedulerAssumption, TickFacts DEF SchedulerAssumption
    <2>2. /\ Running(t, "delay") /\ prvAddCurrentTaskToDelayedList(t, WakeTime(n))
          /\ CallResumeAll(t, "user", TRUE)
          /\ UNCHANGED <<xEventLists, uxTopReadyPriority, priorities, xTickCount,
                         uxMissedTicks, suspension, pxCurrentTCB, interrupt>>
        BY <1>2 DEF vTaskDelay
    <2>3. WakeTime(n) \in Ticks /\ WakeTime(n) # xTickCount
        <3> DEFINE a == xTickCount + n
        <3>1. a \in Int /\ -TickMod < a /\ a < 2 * TickMod
            BY <2>1
        <3>2. a = xTickCount + n /\ WakeTime(n) = a % TickMod
            BY DEF WakeTime
        <3> HIDE DEF a
        <3>3. /\ a % TickMod \in Ticks
              /\ a % TickMod = IF a < 0 THEN a + TickMod ELSE IF a < TickMod THEN a ELSE a - TickMod
            BY <3>1, ModTick
        <3> QED BY <2>1, <3>2, <3>3
    <2> QED BY <2>2, <2>3, DelayedStep
<1> QED BY <1>1, <1>2

(* vTaskDelayUntil, which may find its time already past.                   *)
LEMMA DelayUntilStep ==
    ASSUME SchedInv, NEW t \in Tasks, NEW previous \in Ticks, NEW n \in Delays \ {0},
           vTaskDelayUntil(t, previous, n), UNCHANGED counts
    PROVE  SchedInv'
<1> DEFINE wake == (previous + n) % TickMod
<1>1. /\ Running(t, "delay") /\ CallResumeAll(t, "user", TRUE)
      /\ IF ShouldDelay(previous, wake, xTickCount)
         THEN prvAddCurrentTaskToDelayedList(t, wake)
         ELSE UNCHANGED <<xLists, items, xNextTaskUnblockTime>>
      /\ UNCHANGED <<xEventLists, uxTopReadyPriority, priorities, xTickCount,
                     uxMissedTicks, suspension, pxCurrentTCB, interrupt>>
    BY DEF vTaskDelayUntil
<1>2. /\ n \in Nat /\ previous \in Nat /\ n <= TickMod - 1 /\ previous <= TickMod - 1
      /\ xTickCount \in Nat /\ TickMod \in Nat
    BY Typed, SchedulerAssumption, TickFacts DEF SchedulerAssumption
<1>3. wake \in Ticks /\ wake \in Nat
    <2>1. previous + n \in Int /\ -TickMod < previous + n /\ previous + n < 2 * TickMod
        BY <1>2
    <2> QED BY <2>1, ModTick, TickFacts
<1> HIDE DEF wake
<1>4. CASE ShouldDelay(previous, wake, xTickCount)
    <2>1. wake # xTickCount
        BY <1>2, <1>3, <1>4 DEF ShouldDelay
    <2>2. prvAddCurrentTaskToDelayedList(t, wake)
        BY <1>1, <1>4
    <2> QED BY <1>1, <1>3, <2>1, <2>2, DelayedStep
<1>5. CASE ~ShouldDelay(previous, wake, xTickCount)
    <2>1. UNCHANGED FrameVars
        BY <1>1, <1>5 DEF FrameVars, lists, clock
    <2>2. pxCurrentTCB = t /\ ~inISR /\ pc[t] = "delay" /\ t # Idle /\ uxSchedulerSuspended > 0
        BY <1>1, Typed DEF Running, SchedInv, Reaping, Control
    <2> QED BY <1>1, <2>1, <2>2, Resumes
<1> QED BY <1>4, <1>5

-----------------------------------------------------------------------------
(* Tasks that suspend and delete.                                           *)

(* A task leaves its list for the suspended list or for the list of tasks   *)
(* to be freed.                                                             *)
LEMMA SetAside ==
    ASSUME SchedInv, NEW x \in Tasks, x # Idle, pc[x] # "free", ~In(x, xLists[TasksWaitingTermination]),
           NEW l \in {SuspendedTaskList, TasksWaitingTermination},
           xLists' = [GenericRemoved(x) EXCEPT ![l] = Append(@, x)],
           xEventLists' = EventRemoved(x),
           pc' \in [Tasks -> PcNames], \A t \in Tasks : pc'[t] = "free" <=> pc[t] = "free",
           UNCHANGED <<uxTopReadyPriority, items, priorities, clock, pxCurrentTCB, checkingDelayed>>
    PROVE  /\ Listed' /\ ReadyByPriority' /\ PendingIsBlocked' /\ IdleIsReady' /\ TopKnown' /\ Ordered'
           /\ DelaysExact' /\ Existing' = Existing
           /\ xLists' \in [GenericLists -> Seq(Tasks)] /\ xEventLists' \in [ItemLists -> Seq(Tasks)]
           /\ Len(xLists'[TasksWaitingTermination]) =
                  Len(xLists[TasksWaitingTermination]) + (IF l = TasksWaitingTermination THEN 1 ELSE 0)
           /\ xLists[TasksWaitingTermination] # <<>> => xLists'[TasksWaitingTermination] # <<>>
           /\ x # pxCurrentTCB /\ CurrentRules => CurrentRules'
           /\ x # pxCurrentTCB /\ IsReady(pxCurrentTCB) => IsReady(pxCurrentTCB)'
           /\ xEventLists[PendingReadyList] = <<>> => xEventLists'[PendingReadyList] = <<>>
<1>1. l \in GenericLists /\ l \notin Priorities /\ l # NoList /\ l # DelayedTaskList /\ l # OverflowDelayedTaskList
    BY ListNames
<1>2. IsLists(xLists) /\ pxCurrentTCB \in Tasks /\ Idle \in Tasks
    BY ListedFacts, Typed DEF SchedInv
<1>3. TakesTo(xLists, xLists', x, l)
    BY <1>1, <1>2, AppendedIt
<1>4. UNCHANGED <<uxPriority, uxBasePriority, xTimeToWake, due, xTickCount, uxMissedTicks, xNextTaskUnblockTime>>
    BY DEF items, priorities, clock
<1>5. Listed' /\ ReadyByPriority' /\ In(Idle, xLists'[0]) /\ Existing' = Existing
    <2>1. /\ \A t \in Tasks \ {x} : pc'[t] = "free" <=> pc[t] = "free"
          /\ pc'[x] = "free" <=> l = NoList
        BY <1>1
    <2> QED BY <1>1, <1>3, <1>4, <2>1, TakesKeeps DEF SchedInv
<1>6. /\ \A u \in Tasks : \A k \in GenericLists : In(u, xLists'[k]) <=> IF u = x THEN k = l ELSE In(u, xLists[k])
      /\ xLists' \in [GenericLists -> Seq(Tasks)]
    BY <1>3 DEF TakesTo, IsLists
<1>7. /\ xEventLists' \in [ItemLists -> Seq(Tasks)]
      /\ \A e \in ItemLists : Once(xEventLists'[e])
      /\ \A t \in Tasks : In(t, xEventLists'[PendingReadyList]) =>
             t # x /\ In(t, xEventLists[PendingReadyList])
      /\ xEventLists[PendingReadyList] = <<>> => xEventLists'[PendingReadyList] = <<>>
    BY NotPending
<1>8. PendingIsBlocked'
    BY <1>6, <1>7, ListNames DEF SchedInv, Structure, PendingIsBlocked
<1>9. IdleIsReady'
    BY <1>4, <1>5 DEF SchedInv, Structure, IdleIsReady
<1>10. TopKnown'
    <2>1. \A p \in Priorities : xLists'[p] # <<>> => xLists[p] # <<>>
        <3> SUFFICES ASSUME NEW p \in Priorities, xLists'[p] # <<>> PROVE xLists[p] # <<>>
            OBVIOUS
        <3>1. p \in GenericLists /\ p # l /\ xLists[p] \in Seq(Tasks) /\ xLists'[p] \in Seq(Tasks)
            BY <1>1, <1>2, <1>6, ListNames DEF IsLists
        <3> QED BY <1>6, <3>1, HeadIn
    <2> QED BY <2>1 DEF SchedInv, Structure, TopKnown
<1>11. Ordered'
    <2>1. \A k \in {DelayedTaskList, OverflowDelayedTaskList} : k # l /\ k \in GenericLists
        BY <1>1, ListNames
    <2> QED BY <1>3, <1>4, <2>1 DEF SchedInv, Structure, Ordered, InOrder, TakesTo
<1>12. DelaysExact'
    <2>1. /\ xNextTaskUnblockTime \in Nat /\ xNextTaskUnblockTime' <= xNextTaskUnblockTime
          /\ l \notin {DelayedTaskList, OverflowDelayedTaskList} /\ l \in GenericLists \cup {NoList}
        BY <1>1, <1>4, Typed, TickFacts
    <2> QED BY <1>3, <1>4, <2>1, Typed, TakesKeepsDelays DEF SchedInv
<1>13. Len(xLists'[TasksWaitingTermination]) =
           Len(xLists[TasksWaitingTermination]) + (IF l = TasksWaitingTermination THEN 1 ELSE 0)
    <2> DEFINE w == TasksWaitingTermination
    <2>1. w \in GenericLists /\ Len(xLists[w]) \in Nat
        BY <1>2, ListNames DEF IsLists
    <2>2. Len(xLists'[w]) = Len(xLists[w]) + (IF w = l THEN 1 ELSE 0) - (IF In(x, xLists[w]) THEN 1 ELSE 0)
        BY <1>3, <2>1 DEF TakesTo
    <2>3. ~In(x, xLists[w])
        OBVIOUS
    <2> HIDE DEF w
    <2>4. Len(xLists'[w]) = Len(xLists[w]) + (IF l = w THEN 1 ELSE 0)
        <3>1. CASE l = w
            BY <2>1, <2>2, <2>3, <3>1
        <3>2. CASE l # w
            <4> DEFINE n == Len(xLists[w])
            <4>1. n \in Nat /\ Len(xLists'[w]) = n + 0 - 0
                BY <2>1, <2>2, <2>3, <3>2
            <4> HIDE DEF n
            <4>2. Len(xLists'[w]) = n + 0
                BY <4>1
            <4> QED BY <3>2, <4>2 DEF n
        <3> QED BY <3>1, <3>2
    <2> QED BY <2>4 DEF w
<1>14. xLists[TasksWaitingTermination] # <<>> => xLists'[TasksWaitingTermination] # <<>>
    <2> DEFINE w == TasksWaitingTermination
    <2>1. w \in GenericLists /\ xLists[w] \in Seq(Tasks) /\ xLists'[w] \in Seq(Tasks)
        BY <1>2, <1>6, ListNames DEF IsLists
    <2> SUFFICES ASSUME xLists[w] # <<>> PROVE xLists'[w] # <<>>
        OBVIOUS
    <2>2. PICK u \in Tasks : In(u, xLists[w])
        BY <2>1, HeadIn
    <2>3. In(u, xLists'[w])
        BY <1>6, <2>1, <2>2
    <2> QED BY <2>1, <2>3, HeadIn
<1>15. x # pxCurrentTCB /\ CurrentRules => CurrentRules'
    BY <1>1, <1>2, <1>4, <1>6, ListNames DEF CurrentRules
<1>16. x # pxCurrentTCB /\ IsReady(pxCurrentTCB) => IsReady(pxCurrentTCB)'
    BY <1>1, <1>2, <1>6, ListNames DEF IsReady
<1> QED BY <1>5, <1>6, <1>7, <1>8, <1>9, <1>10, <1>11, <1>12, <1>13, <1>14, <1>15, <1>16

(* The caller goes on to yield, or in its own code.                         *)
LEMMA CallerGoes ==
    ASSUME SchedInv, NEW t \in Tasks, Caller(t), NEW at \in {"user", "yield", "yieldMasked"},
           pc' = [pc EXCEPT ![t] = at], ret' = [ret EXCEPT ![t] = "user"]
    PROVE  /\ t # Idle /\ pxCurrentTCB = t /\ ~inISR /\ pc[t] = "user" /\ ~checkingDelayed
           /\ IsReady(t) /\ Idle \in Tasks
           /\ pc' \in [Tasks -> PcNames] /\ pc'[t] = at /\ \A u \in Tasks \ {t} : pc'[u] = pc[u]
           /\ ret' \in [Tasks -> {"user", "reap", "idleYield"}] /\ \A u \in Tasks \ {t} : ret'[u] = ret[u]
           /\ \A u \in Tasks : pc'[u] = "free" <=> pc[u] = "free"
<1>1. t # Idle /\ pxCurrentTCB = t /\ ~inISR /\ pc[t] = "user"
    BY DEF Caller, Running
<1>2. ~checkingDelayed /\ IsReady(t)
    BY <1>1 DEF SchedInv, Control, Present
<1>3. /\ pc' \in [Tasks -> PcNames] /\ pc'[t] = at /\ \A u \in Tasks \ {t} : pc'[u] = pc[u]
      /\ ret' \in [Tasks -> {"user", "reap", "idleYield"}] /\ \A u \in Tasks \ {t} : ret'[u] = ret[u]
    BY Typed DEF PcNames
<1> QED BY <1>1, <1>2, <1>3, Typed

(* vTaskSuspend, of the caller or of another task.                          *)
LEMMA SuspendStep ==
    ASSUME SchedInv, NEW t \in Tasks, NEW x \in Tasks, vTaskSuspend(t, x), UNCHANGED counts
    PROVE  SchedInv'
<1> DEFINE at == IF x = t THEN "yield" ELSE "user"
<1>1. /\ Caller(t) /\ x # Idle /\ pc[x] # "free" /\ ~In(x, xLists[TasksWaitingTermination])
      /\ x = t => uxSchedulerSuspended = 0
      /\ xLists' = [GenericRemoved(x) EXCEPT ![SuspendedTaskList] = Append(@, x)]
      /\ xEventLists' = EventRemoved(x)
      /\ pc' = [pc EXCEPT ![t] = at] /\ ret' = [ret EXCEPT ![t] = "user"]
      /\ UNCHANGED <<uxTopReadyPriority, items, priorities, clock, suspension,
                     pxCurrentTCB, yieldAfter, xYieldRequired, inISR, checkingDelayed, counts>>
    BY DEF vTaskSuspend, ValidHandle, Exists, Deleted, YieldIf, ReturnVia, GoTo, callFrame, interrupt
<1>2. at \in {"user", "yield", "yieldMasked"} /\ (at = "yield" <=> x = t) /\ at # "yieldMasked"
    OBVIOUS
<1> HIDE DEF at
<1>3. /\ t # Idle /\ pxCurrentTCB = t /\ ~inISR /\ pc[t] = "user" /\ ~checkingDelayed
      /\ IsReady(t) /\ Idle \in Tasks
      /\ pc' \in [Tasks -> PcNames] /\ pc'[t] = at /\ \A u \in Tasks \ {t} : pc'[u] = pc[u]
      /\ ret' \in [Tasks -> {"user", "reap", "idleYield"}] /\ \A u \in Tasks \ {t} : ret'[u] = ret[u]
      /\ \A u \in Tasks : pc'[u] = "free" <=> pc[u] = "free"
    BY <1>1, <1>2, CallerGoes
<1> DEFINE w == TasksWaitingTermination
<1>4. /\ Listed' /\ ReadyByPriority' /\ PendingIsBlocked' /\ IdleIsReady' /\ TopKnown' /\ Ordered'
      /\ DelaysExact' /\ Existing' = Existing
      /\ xLists' \in [GenericLists -> Seq(Tasks)] /\ xEventLists' \in [ItemLists -> Seq(Tasks)]
      /\ Len(xLists'[w]) = Len(xLists[w]) + (IF SuspendedTaskList = w THEN 1 ELSE 0)
      /\ xLists[w] # <<>> => xLists'[w] # <<>>
      /\ x # pxCurrentTCB /\ CurrentRules => CurrentRules'
      /\ x # pxCurrentTCB /\ IsReady(pxCurrentTCB) => IsReady(pxCurrentTCB)'
      /\ xEventLists[PendingReadyList] = <<>> => xEventLists'[PendingReadyList] = <<>>
    BY <1>1, <1>3, SetAside
<1>5. Structure'
    <2>1. SuspendedTaskList # w /\ Len(xLists[w]) \in Nat
        BY ListedFacts, ListNames DEF SchedInv
    <2>2. Len(xLists'[w]) = Len(xLists[w])
        BY <1>4, <2>1
    <2> QED BY <1>1, <1>4, <2>2 DEF SchedInv, Structure, Counted, counts
<1>6. TypeOK'
    BY <1>1, <1>3, <1>4 DEF SchedInv, TypeOK, KernelTypeOK, PcNames, items, priorities, clock, suspension, counts
<1>7. Control' /\ Reaping'
    BY <1>1, <1>2, <1>3, <1>4 DEF SchedInv, Control, Reaping, suspension
<1>8. Present'
    BY <1>1, <1>2, <1>3, <1>4 DEF Present, suspension
<1>9. Ruling'
    BY <1>1, <1>2, <1>3, <1>4 DEF SchedInv, Ruling, SwitchOwed, suspension
<1>10. ResumeAllSettlesEverything'
    BY <1>1, <1>2, <1>3, <1>4 DEF SchedInv, ResumeAllSettlesEverything, suspension, clock
<1> QED BY <1>4, <1>5, <1>6, <1>7, <1>8, <1>9, <1>10 DEF SchedInv

(* vTaskDelete, of the caller or of another task.                           *)
LEMMA DeleteStep ==
    ASSUME SchedInv, NEW t \in Tasks, NEW x \in Tasks, vTaskDelete(t, x)
    PROVE  SchedInv'
<1> DEFINE at == IF x = t THEN "yield" ELSE "user"
<1>1. /\ Caller(t) /\ x # Idle /\ pc[x] # "free" /\ ~In(x, xLists[TasksWaitingTermination])
      /\ x = t => uxSchedulerSuspended = 0
      /\ xLists' = [GenericRemoved(x) EXCEPT ![TasksWaitingTermination] = Append(@, x)]
      /\ xEventLists' = EventRemoved(x)
      /\ pc' = [pc EXCEPT ![t] = at] /\ ret' = [ret EXCEPT ![t] = "user"]
      /\ uxTasksDeleted' = uxTasksDeleted + 1
      /\ UNCHANGED <<uxTopReadyPriority, items, priorities, clock, suspension, uxCurrentNumberOfTasks,
                     pxCurrentTCB, yieldAfter, xYieldRequired, inISR, checkingDelayed>>
    BY DEF vTaskDelete, ValidHandle, Exists, Deleted, YieldIf, ReturnVia, GoTo, callFrame, interrupt
<1>2. at \in {"user", "yield", "yieldMasked"} /\ (at = "yield" <=> x = t) /\ at # "yieldMasked"
    OBVIOUS
<1> HIDE DEF at
<1>3. /\ t # Idle /\ pxCurrentTCB = t /\ ~inISR /\ pc[t] = "user" /\ ~checkingDelayed
      /\ IsReady(t) /\ Idle \in Tasks
      /\ pc' \in [Tasks -> PcNames] /\ pc'[t] = at /\ \A u \in Tasks \ {t} : pc'[u] = pc[u]
      /\ ret' \in [Tasks -> {"user", "reap", "idleYield"}] /\ \A u \in Tasks \ {t} : ret'[u] = ret[u]
      /\ \A u \in Tasks : pc'[u] = "free" <=> pc[u] = "free"
    BY <1>1, <1>2, CallerGoes
<1> DEFINE w == TasksWaitingTermination
<1>4. /\ Listed' /\ ReadyByPriority' /\ PendingIsBlocked' /\ IdleIsReady' /\ TopKnown' /\ Ordered'
      /\ DelaysExact' /\ Existing' = Existing
      /\ xLists' \in [GenericLists -> Seq(Tasks)] /\ xEventLists' \in [ItemLists -> Seq(Tasks)]
      /\ Len(xLists'[w]) = Len(xLists[w]) + (IF w = w THEN 1 ELSE 0)
      /\ xLists[w] # <<>> => xLists'[w] # <<>>
      /\ x # pxCurrentTCB /\ CurrentRules => CurrentRules'
      /\ x # pxCurrentTCB /\ IsReady(pxCurrentTCB) => IsReady(pxCurrentTCB)'
      /\ xEventLists[PendingReadyList] = <<>> => xEventLists'[PendingReadyList] = <<>>
    BY <1>1, <1>3, SetAside
<1>5. uxTasksDeleted' = Len(xLists'[w]) /\ uxTasksDeleted' \in Nat
    <2>1. uxTasksDeleted = Len(xLists[w]) /\ uxTasksDeleted \in Nat
        BY Typed DEF SchedInv, Structure, Counted
    <2> QED BY <1>1, <1>4, <2>1
<1>6. Structure'
    BY <1>1, <1>4, <1>5 DEF SchedInv, Structure, Counted
<1>7. TypeOK'
    BY <1>1, <1>3, <1>4, <1>5 DEF SchedInv, TypeOK, KernelTypeOK, PcNames, items, priorities, clock, suspension
<1>8. Control' /\ Reaping'
    BY <1>1, <1>2, <1>3, <1>4 DEF SchedInv, Control, Reaping, suspension
<1>9. Present'
    BY <1>1, <1>2, <1>3, <1>4 DEF Present, suspension
<1>10. Ruling'
    BY <1>1, <1>2, <1>3, <1>4 DEF SchedInv, Ruling, SwitchOwed, suspension
<1>11. ResumeAllSettlesEverything'
    BY <1>1, <1>2, <1>3, <1>4 DEF SchedInv, ResumeAllSettlesEverything, suspension, clock
<1> QED BY <1>4, <1>6, <1>7, <1>8, <1>9, <1>10, <1>11 DEF SchedInv

-----------------------------------------------------------------------------
(* Priorities and new tasks.                                                *)

(* The value of an event item stays in its range.                           *)
LEMMA EventValues ==
    ASSUME NEW p \in Priorities
    PROVE  configMAX_PRIORITIES - p \in 1..configMAX_PRIORITIES
BY KernelAssumption DEF KernelAssumption, Priorities

(* vTaskPrioritySet: a ready task moves to its new list, and the caller     *)
(* yields when another task may now be above it.                            *)
LEMMA PrioritySetStep ==
    ASSUME SchedInv, NEW t \in Tasks, NEW x \in Tasks \ {Idle}, NEW new \in Priorities,
           vTaskPrioritySet(t, x, new), UNCHANGED counts
    PROVE  SchedInv'
<1> DEFINE old == uxPriority[x]
           at == IF (IF new > old THEN x # t ELSE x = t) THEN "yieldMasked" ELSE "user"
<1>1. uxBasePriority = uxPriority /\ uxBasePriority \in [Tasks -> Priorities]
    BY DEF SchedInv, Structure, IdleIsReady, TypeOK, KernelTypeOK
<1>2. /\ Caller(t) /\ pc[x] # "free" /\ ~In(x, xLists[TasksWaitingTermination]) /\ old # new
      /\ uxPriority' = [uxPriority EXCEPT ![x] = new] /\ uxBasePriority' = [uxBasePriority EXCEPT ![x] = new]
      /\ xEventValue' = [xEventValue EXCEPT ![x] = configMAX_PRIORITIES - new]
      /\ IF In(x, xLists[old]) THEN prvAddTaskToReadyQueue(GenericRemoved(x), x, uxPriority'[x])
         ELSE UNCHANGED <<xLists, uxTopReadyPriority>>
      /\ pc' = [pc EXCEPT ![t] = at] /\ ret' = [ret EXCEPT ![t] = "user"]
      /\ UNCHANGED <<xEventLists, items, clock, suspension, pxCurrentTCB, counts,
                     yieldAfter, xYieldRequired, inISR, checkingDelayed>>
    BY <1>1 DEF vTaskPrioritySet, ValidHandle, Exists, Deleted, YieldMaskedIf, ReturnVia, GoTo,
       callFrame, interrupt
<1>3. /\ uxPriority' \in [Tasks -> Priorities] /\ uxPriority'[x] = new
      /\ \A u \in Tasks \ {x} : uxPriority'[u] = uxPriority[u]
      /\ uxBasePriority' = uxPriority' /\ xEventValue' \in [Tasks -> 1..configMAX_PRIORITIES]
      /\ old \in Priorities /\ old \in Nat /\ new \in Nat /\ uxPriority \in [Tasks -> Priorities]
    <2>1. xEventValue \in [Tasks -> 1..configMAX_PRIORITIES] /\ uxPriority \in [Tasks -> Priorities]
        BY DEF SchedInv, TypeOK, KernelTypeOK
    <2> QED BY <1>1, <1>2, <2>1, EventValues, ListNames
<1>4. /\ at \in {"user", "yield", "yieldMasked"} /\ at # "yield"
      /\ at = "user" => (new > old /\ x = t) \/ (new < old /\ x # t)
    BY <1>2, <1>3
<1> HIDE DEF at
<1>5. /\ t # Idle /\ pxCurrentTCB = t /\ ~inISR /\ pc[t] = "user" /\ ~checkingDelayed
      /\ IsReady(t) /\ Idle \in Tasks
      /\ pc' \in [Tasks -> PcNames] /\ pc'[t] = at /\ \A u \in Tasks \ {t} : pc'[u] = pc[u]
      /\ ret' \in [Tasks -> {"user", "reap", "idleYield"}] /\ \A u \in Tasks \ {t} : ret'[u] = ret[u]
      /\ \A u \in Tasks : pc'[u] = "free" <=> pc[u] = "free"
    BY <1>2, <1>4, CallerGoes
<1>6. IsLists(xLists) /\ xLists \in [GenericLists -> Seq(Tasks)]
    BY ListedFacts DEF SchedInv
<1>7. /\ Structure' /\ DelaysExact'
      /\ \A u \in Tasks : \A p \in Priorities : In(u, xLists'[p]) <=>
             IF u = x /\ In(x, xLists[old]) THEN p = new ELSE In(u, xLists[p])
      /\ xLists' \in [GenericLists -> Seq(Tasks)] /\ uxTopReadyPriority' \in Priorities
      /\ xLists'[TasksWaitingTermination] # <<>> <=> xLists[TasksWaitingTermination] # <<>>
    <2>1. CASE In(x, xLists[old])
        <3>1. prvAddTaskToReadyQueue(GenericRemoved(x), x, new)
            BY <1>2, <1>3, <2>1
        <3>2. /\ \A e \in ItemLists : Once(xEventLists'[e])
              /\ \A u \in Tasks : In(u, xEventLists'[PendingReadyList]) =>
                     u # x /\ In(u, xEventLists[PendingReadyList])
            <4>1. ~In(x, xEventLists[PendingReadyList])
                BY <1>3, <1>6, <2>1, ListNames, ReadyListNames
                   DEF SchedInv, Structure, PendingIsBlocked, IsLists, OncePlaced
            <4> QED BY <1>2, <4>1 DEF SchedInv, Structure, PendingIsBlocked
        <3>3. UNCHANGED <<xTickCount, uxMissedTicks, xNextTaskUnblockTime>>
            BY <1>2 DEF clock
        <3>4. /\ Structure' /\ DelaysExact'
              /\ TakesTo(xLists, xLists', x, new) /\ xLists' \in [GenericLists -> Seq(Tasks)]
              /\ uxTopReadyPriority' \in Priorities
            BY <1>2, <1>3, <1>5, <3>1, <3>2, <3>3, Readied
        <3>5. xLists'[TasksWaitingTermination] # <<>> <=> xLists[TasksWaitingTermination] # <<>>
            <4>1. TasksWaitingTermination \in GenericLists /\ TasksWaitingTermination # new
                BY ListNames
            <4> QED BY <1>2, <1>6, <3>4, <4>1, OtherListKept
        <3>6. \A u \in Tasks : \A k \in GenericLists :
                  In(u, xLists'[k]) <=> IF u = x THEN k = new ELSE In(u, xLists[k])
            BY <3>4 DEF TakesTo
        <3> QED BY <2>1, <3>4, <3>5, <3>6, ReadyListNames
    <2>2. CASE ~In(x, xLists[old])
        <3>1. UNCHANGED <<xLists, uxTopReadyPriority>>
            BY <1>2, <2>2
        <3>2. \A p \in Priorities : ~In(x, xLists[p])
            BY <2>2 DEF SchedInv, Structure, ReadyByPriority
        <3>3. Listed' /\ PendingIsBlocked' /\ TopKnown' /\ Ordered'
            BY <1>2, <1>5, <3>1 DEF SchedInv, Structure, Listed, PendingIsBlocked, TopKnown, Ordered, items
        <3>4. ReadyByPriority'
            BY <1>3, <3>1, <3>2 DEF SchedInv, Structure, ReadyByPriority
        <3>5. IdleIsReady'
            BY <1>3, <3>1 DEF SchedInv, Structure, IdleIsReady
        <3>6. Counted'
            <4>1. Existing' = Existing
                BY <1>5 DEF Existing
            <4> QED BY <1>2, <3>1, <4>1 DEF SchedInv, Structure, Counted, counts
        <3>7. DelaysExact'
            BY <1>2, <3>1 DEF SchedInv, DelaysExact, IsDelayed, items, clock
        <3> QED BY <1>6, <2>2, <3>1, <3>3, <3>4, <3>5, <3>6, <3>7, Typed DEF Structure
    <2> QED BY <2>1, <2>2
<1>8. TypeOK'
    <2>1. KernelTypeOK'
        BY <1>2, <1>3, <1>7 DEF SchedInv, TypeOK, KernelTypeOK, items, clock, suspension
    <2> QED BY <1>2, <1>5, <2>1 DEF SchedInv, TypeOK, PcNames, counts
<1>9. Control' /\ Reaping'
    BY <1>2, <1>4, <1>5, <1>7 DEF SchedInv, Control, Reaping, suspension
<1>10. Present'
    BY <1>2, <1>5, <1>7 DEF Present, IsReady
<1>11. Ruling'
    <2>1. CASE SwitchOwed
        BY <1>2, <1>5, <2>1 DEF Ruling, SwitchOwed, suspension
    <2>2. CASE at = "yieldMasked"
        BY <1>2, <1>5, <2>2 DEF Ruling, SwitchOwed
    <2>3. CASE CurrentRules /\ at = "user"
        <3>1. \A p \in Priorities : p \in Nat
            BY ListNames
        <3>2. uxPriority[t] \in Nat /\ uxPriority'[t] \in Nat /\ uxPriority'[t] >= uxPriority[t]
            <4>1. uxPriority[t] \in Nat /\ uxPriority'[t] \in Nat
                BY <1>3, <3>1
            <4>2. CASE x = t
                BY <1>3, <1>4, <2>3, <4>1, <4>2
            <4>3. CASE x # t
                BY <1>3, <4>1, <4>3
            <4> QED BY <4>1, <4>2, <4>3
        <3>3. \A u \in Tasks : \A p \in Priorities : In(u, xLists[p]) => p <= uxPriority[t]
            BY <1>5, <2>3 DEF CurrentRules
        <3>4. ASSUME NEW u \in Tasks, NEW p \in Priorities, In(u, xLists'[p])
              PROVE  p <= uxPriority'[t]
            <4>1. CASE u = x /\ In(x, xLists[old])
                <5>1. p = new /\ old <= uxPriority[t]
                    BY <1>3, <1>7, <3>3, <3>4, <4>1
                <5>2. CASE x = t
                    BY <1>3, <5>1, <5>2
                <5>3. CASE new < old
                    BY <1>3, <3>2, <5>1, <5>3
                <5> QED BY <1>4, <2>3, <5>2, <5>3
            <4>2. CASE ~(u = x /\ In(x, xLists[old]))
                <5>1. p <= uxPriority[t]
                    BY <1>7, <3>3, <3>4, <4>2
                <5> QED BY <3>1, <3>2, <5>1
            <4> QED BY <4>1, <4>2
        <3>5. IsReady(t)'
            BY <1>5, <1>7 DEF IsReady
        <3> QED BY <1>2, <1>5, <3>4, <3>5 DEF Ruling, CurrentRules, IsReady
    <2> QED BY <1>4, <2>1, <2>2, <2>3 DEF SchedInv, Ruling
<1>12. ResumeAllSettlesEverything'
    BY <1>2, <1>4, <1>5 DEF SchedInv, ResumeAllSettlesEverything, suspension, clock
<1> QED BY <1>7, <1>8, <1>9, <1>10, <1>11, <1>12 DEF SchedInv

(* xTaskGenericCreate: the new task is ready, and runs if it is above.      *)
LEMMA CreateStep ==
    ASSUME SchedInv, NEW t \in Tasks, NEW new \in Tasks, NEW p \in Priorities, xTaskGenericCreate(t, new, p)
    PROVE  SchedInv'
<1> DEFINE at == IF uxPriority[t] < p THEN "yield" ELSE "user"
<1>1. /\ t # Idle /\ pxCurrentTCB = t /\ ~inISR /\ pc[t] = "user" /\ pc[new] = "free"
      /\ prvAddTaskToReadyQueue(xLists, new, p)
      /\ uxPriority' = [uxPriority EXCEPT ![new] = p] /\ uxBasePriority' = [uxBasePriority EXCEPT ![new] = p]
      /\ xEventValue' = [xEventValue EXCEPT ![new] = configMAX_PRIORITIES - p]
      /\ pc' = [pc EXCEPT ![new] = "user", ![t] = at]
      /\ ret' = [ret EXCEPT ![t] = "user"]
      /\ uxCurrentNumberOfTasks' = uxCurrentNumberOfTasks + 1
      /\ UNCHANGED <<xEventLists, items, clock, suspension, pxCurrentTCB,
                     yieldAfter, xYieldRequired, inISR, checkingDelayed, uxTasksDeleted>>
    BY DEF xTaskGenericCreate, Caller, Running, callFrame, interrupt
<1>2. at \in {"user", "yield"} /\ (at = "user" => ~(uxPriority[t] < p))
    OBVIOUS
<1> HIDE DEF at
<1>3. /\ new # t /\ pc' \in [Tasks -> PcNames] /\ pc'[t] = at /\ pc'[new] = "user"
      /\ \A u \in Tasks \ {t, new} : pc'[u] = pc[u]
      /\ ret' \in [Tasks -> {"user", "reap", "idleYield"}] /\ \A u \in Tasks \ {t} : ret'[u] = ret[u]
    BY <1>1, <1>2, Typed DEF PcNames
<1>4. ~checkingDelayed /\ IsReady(t)
    BY <1>1 DEF SchedInv, Control, Present
<1>5. /\ IsLists(xLists) /\ xLists \in [GenericLists -> Seq(Tasks)]
      /\ \A k \in GenericLists : ~In(new, xLists[k])
      /\ new # Idle /\ Idle \in Tasks
    BY <1>1, ListedFacts DEF SchedInv
<1>6. prvAddTaskToReadyQueue(GenericRemoved(new), new, p)
    <2>1. GenericRemoved(new) = xLists
        BY <1>5 DEF GenericRemoved, Without
    <2> QED BY <1>1, <2>1
<1>7. /\ uxPriority' \in [Tasks -> Priorities] /\ uxPriority'[new] = p
      /\ \A u \in Tasks \ {new} : uxPriority'[u] = uxPriority[u]
      /\ uxBasePriority' = uxPriority' /\ uxBasePriority' \in [Tasks -> Priorities]
      /\ xEventValue' \in [Tasks -> 1..configMAX_PRIORITIES]
      /\ uxPriority[t] \in Nat /\ p \in Nat
    <2>1. /\ xEventValue \in [Tasks -> 1..configMAX_PRIORITIES] /\ uxPriority \in [Tasks -> Priorities]
          /\ uxBasePriority = uxPriority
        BY DEF SchedInv, TypeOK, KernelTypeOK, Structure, IdleIsReady
    <2> QED BY <1>1, <2>1, EventValues, ListNames
<1>8. /\ \A e \in ItemLists : Once(xEventLists'[e])
      /\ \A u \in Tasks : In(u, xEventLists'[PendingReadyList]) =>
             u # new /\ In(u, xEventLists[PendingReadyList])
    BY <1>1, <1>5, ListNames DEF SchedInv, Structure, PendingIsBlocked
<1>9. UNCHANGED <<xTickCount, uxMissedTicks, xNextTaskUnblockTime>>
    BY <1>1 DEF clock
<1>10. /\ Listed' /\ ReadyByPriority' /\ PendingIsBlocked' /\ IdleIsReady' /\ TopKnown' /\ Ordered'
       /\ DelaysExact' /\ Len(xLists'[TasksWaitingTermination]) = Len(xLists[TasksWaitingTermination])
       /\ TakesTo(xLists, xLists', new, p) /\ xLists' \in [GenericLists -> Seq(Tasks)]
       /\ uxTopReadyPriority' \in Priorities
    <2>1. /\ ~In(new, xLists[TasksWaitingTermination]) /\ pc'[new] # "free"
          /\ \A u \in Tasks \ {new} : pc'[u] = "free" <=> pc[u] = "free"
        BY <1>1, <1>2, <1>3, <1>5, ListNames
    <2> QED BY <1>1, <1>3, <1>5, <1>6, <1>7, <1>8, <1>9, <2>1, ReadiedLists
<1>11. /\ \A u \in Tasks : \A k \in GenericLists :
              In(u, xLists'[k]) <=> IF u = new THEN k = p ELSE In(u, xLists[k])
    BY <1>10 DEF TakesTo
<1>12. Counted' /\ uxCurrentNumberOfTasks' \in Nat
    <2>1. Existing' = Existing \cup {new} /\ new \notin Existing
        BY <1>1, <1>2, <1>3 DEF Existing
    <2>2. IsFiniteSet(Existing)
        BY FS_Subset, KernelAssumption DEF Existing, KernelAssumption
    <2>3. Cardinality(Existing') = Cardinality(Existing) + 1
        BY <2>1, <2>2, FS_AddElement
    <2> QED BY <1>1, <1>10, <2>3, Typed DEF SchedInv, Structure, Counted
<1>13. Structure'
    BY <1>10, <1>12 DEF Structure
<1>14. TypeOK'
    BY <1>1, <1>3, <1>7, <1>10, <1>12 DEF SchedInv, TypeOK, KernelTypeOK, PcNames, items, clock, suspension
<1>15. Control' /\ Reaping'
    <2>1. xLists'[TasksWaitingTermination] # <<>> <=> xLists[TasksWaitingTermination] # <<>>
        <3>1. TasksWaitingTermination \in GenericLists /\ TasksWaitingTermination # p
            BY ListNames
        <3> QED BY <1>5, <1>10, <3>1, OtherListKept
    <2>2. \A u \in Tasks \ {t} : pc'[u] \in BetweenSteps
        BY <1>1, <1>3 DEF SchedInv, Control, BetweenSteps
    <2> QED BY <1>1, <1>2, <1>3, <1>4, <1>5, <2>1, <2>2 DEF SchedInv, Control, Reaping, suspension
<1>16. Present'
    <2>1. IsReady(t)'
        BY <1>3, <1>4, <1>11, ListNames DEF IsReady
    <2> QED BY <1>1, <2>1 DEF Present
<1>17. Ruling'
    <2>1. CASE SwitchOwed
        BY <1>1, <1>2, <1>3, <2>1 DEF Ruling, SwitchOwed, suspension
    <2>2. CASE at = "yield"
        BY <1>1, <1>3, <2>2 DEF Ruling, SwitchOwed
    <2>3. CASE CurrentRules /\ at = "user"
        <3>1. p <= uxPriority[t]
            BY <1>2, <1>7, <2>3
        <3> QED BY <1>1, <1>3, <1>7, <1>11, <2>3, <3>1, ListNames DEF Ruling, CurrentRules
    <2> QED BY <1>2, <2>1, <2>2, <2>3 DEF SchedInv, Ruling
<1>18. ResumeAllSettlesEverything'
    BY <1>1, <1>2, <1>3 DEF SchedInv, ResumeAllSettlesEverything, suspension, clock
<1> QED BY <1>10, <1>13, <1>14, <1>15, <1>16, <1>17, <1>18 DEF SchedInv

-----------------------------------------------------------------------------
(* The idle task frees what a deleted task used.                            *)

(* prvCheckTasksWaitingTermination frees a control block.                   *)
LEMMA ReapStep ==
    ASSUME SchedInv, IdleReap
    PROVE  SchedInv'
<1> DEFINE w == TasksWaitingTermination
           x == Head(xLists[w])
<1>1. /\ pxCurrentTCB = Idle /\ ~inISR /\ pc[Idle] = "reap" /\ xLists' = GenericRemoved(x)
      /\ uxCurrentNumberOfTasks' = uxCurrentNumberOfTasks - 1 /\ uxTasksDeleted' = uxTasksDeleted - 1
      /\ pc' = [pc EXCEPT ![x] = "free", ![Idle] = "idleYield"]
      /\ UNCHANGED <<xEventLists, uxTopReadyPriority, items, priorities, clock,
                     suspension, pxCurrentTCB, ret, yieldAfter, xYieldRequired, inISR, checkingDelayed>>
    BY DEF IdleReap, Running, callFrame, interrupt
<1>2. /\ IsLists(xLists) /\ xLists \in [GenericLists -> Seq(Tasks)] /\ In(Idle, xLists[0]) /\ Idle \in Tasks
      /\ \A l, k \in GenericLists : \A u \in Tasks : In(u, xLists[l]) /\ In(u, xLists[k]) => l = k
      /\ \A l \in GenericLists : \A u \in Tasks : In(u, xLists[l]) => pc[u] # "free"
      /\ w \in GenericLists /\ 0 \in GenericLists /\ w # 0
    BY ListedFacts, ListNames DEF SchedInv
<1>3. x \in Tasks /\ In(x, xLists[w])
    <2>1. xLists[w] # <<>>
        BY <1>1 DEF SchedInv, Reaping
    <2> QED BY <1>2, <2>1, HeadIn
<1> HIDE DEF x
<1>4. x # Idle /\ pc[x] # "free"
    BY <1>2, <1>3
<1>5. TakesTo(xLists, xLists', x, NoList)
    BY <1>1, <1>2, <1>3, RemovedIt
<1>6. /\ pc' \in [Tasks -> PcNames] /\ pc'[x] = "free" /\ pc'[Idle] = "idleYield"
      /\ \A u \in Tasks \ {x, Idle} : pc'[u] = pc[u]
    BY <1>1, <1>2, <1>3, <1>4, Typed DEF PcNames
<1>7. UNCHANGED <<uxPriority, uxBasePriority, xTimeToWake, due, xTickCount, uxMissedTicks, xNextTaskUnblockTime>>
    BY <1>1 DEF items, priorities, clock
<1>8. /\ \A u \in Tasks : \A k \in GenericLists : In(u, xLists'[k]) <=> u # x /\ In(u, xLists[k])
      /\ xLists' \in [GenericLists -> Seq(Tasks)]
    <2>1. \A k \in GenericLists : k # NoList
        BY ListNames
    <2> QED BY <1>5, <2>1 DEF TakesTo, IsLists
<1>9. Listed' /\ ReadyByPriority' /\ In(Idle, xLists'[0])
    <2>1. /\ \A u \in Tasks \ {x} : pc'[u] = "free" <=> pc[u] = "free"
          /\ pc'[x] = "free"
        BY <1>1, <1>6
    <2>2. NoList \notin Priorities
        BY ListNames
    <2> QED BY <1>3, <1>4, <1>5, <1>6, <1>7, <2>1, <2>2, TakesKeeps DEF SchedInv
<1>10. PendingIsBlocked'
    <2>1. ~In(x, xEventLists[PendingReadyList])
        BY <1>2, <1>3, ListNames DEF SchedInv, Structure, PendingIsBlocked
    <2> QED BY <1>1, <1>8, <2>1, ListNames DEF SchedInv, Structure, PendingIsBlocked
<1>11. IdleIsReady'
    BY <1>7, <1>9 DEF SchedInv, Structure, IdleIsReady
<1>12. TopKnown'
    <2>1. \A p \in Priorities : xLists'[p] # <<>> => xLists[p] # <<>>
        <3> SUFFICES ASSUME NEW p \in Priorities, xLists'[p] # <<>> PROVE xLists[p] # <<>>
            OBVIOUS
        <3>1. p \in GenericLists /\ xLists[p] \in Seq(Tasks) /\ xLists'[p] \in Seq(Tasks)
            BY <1>2, <1>8, ListNames
        <3> QED BY <1>8, <3>1, HeadIn
    <2> QED BY <1>1, <2>1 DEF SchedInv, Structure, TopKnown
<1>13. Ordered'
    <2>1. \A k \in {DelayedTaskList, OverflowDelayedTaskList} : k # NoList /\ k \in GenericLists
        BY ListNames
    <2> QED BY <1>5, <1>7, <2>1 DEF SchedInv, Structure, Ordered, InOrder, TakesTo
<1>14. Counted' /\ uxCurrentNumberOfTasks' \in Nat /\ uxTasksDeleted' \in Nat
    <2>1. Existing' = Existing \ {x} /\ x \in Existing
        BY <1>1, <1>2, <1>3, <1>4, <1>6 DEF Existing
    <2>2. IsFiniteSet(Existing)
        BY FS_Subset, KernelAssumption DEF Existing, KernelAssumption
    <2>3. Cardinality(Existing') = Cardinality(Existing) - 1 /\ IsFiniteSet(Existing')
        BY <2>1, <2>2, FS_RemoveElement
    <2>4. Len(xLists'[w]) = Len(xLists[w]) - 1 /\ Len(xLists'[w]) \in Nat
        <3>1. Len(xLists'[w]) = Len(xLists[w]) + (IF w = NoList THEN 1 ELSE 0) - (IF In(x, xLists[w]) THEN 1 ELSE 0)
            BY <1>2, <1>5 DEF TakesTo
        <3>2. w # NoList /\ Len(xLists[w]) \in Nat /\ Len(xLists'[w]) \in Nat
            BY <1>2, <1>8, ListNames
        <3> DEFINE n == Len(xLists[w])
        <3>3. Len(xLists'[w]) = n + 0 - 1
            BY <1>3, <3>1, <3>2
        <3>4. n \in Nat
            BY <3>2
        <3> HIDE DEF n
        <3>5. Len(xLists'[w]) = n - 1
            BY <3>3, <3>4
        <3> QED BY <3>2, <3>5 DEF n
    <2>5. Cardinality(Existing') \in Nat
        BY <2>3, FS_CardinalityType
    <2>6. uxTasksDeleted = Len(xLists[w]) /\ uxCurrentNumberOfTasks = Cardinality(Existing)
        BY DEF SchedInv, Structure, Counted
    <2>7. uxTasksDeleted' = Len(xLists'[w]) /\ uxCurrentNumberOfTasks' = Cardinality(Existing')
        BY <1>1, <2>3, <2>4, <2>6
    <2> QED BY <2>4, <2>5, <2>7 DEF Counted
<1>15. Structure'
    BY <1>9, <1>10, <1>11, <1>12, <1>13, <1>14 DEF Structure
<1>16. DelaysExact'
    <2>1. /\ xNextTaskUnblockTime \in Nat /\ xNextTaskUnblockTime' <= xNextTaskUnblockTime
          /\ NoList \notin {DelayedTaskList, OverflowDelayedTaskList} /\ NoList \in GenericLists \cup {NoList}
        BY <1>7, Typed, TickFacts, ListNames
    <2> QED BY <1>1, <1>3, <1>5, <1>7, <2>1, Typed, TakesKeepsDelays DEF SchedInv
<1>17. TypeOK'
    BY <1>1, <1>6, <1>8, <1>14 DEF SchedInv, TypeOK, KernelTypeOK, PcNames, items, priorities, clock, suspension
<1>18. Control' /\ Reaping'
    BY <1>1, <1>2, <1>6 DEF SchedInv, Control, Reaping, BetweenSteps, suspension
<1>19. Present' /\ ResumeAllSettlesEverything'
    BY <1>1, <1>2, <1>4, <1>6, <1>8, <1>9, ListNames DEF SchedInv, Present, IsReady,
       ResumeAllSettlesEverything, suspension, clock
<1>20. Ruling'
    <2>1. SwitchOwed => SwitchOwed'
        BY <1>1, <1>6 DEF SwitchOwed, suspension
    <2>2. CurrentRules => CurrentRules'
        BY <1>1, <1>2, <1>4, <1>7, <1>8, ListNames DEF CurrentRules
    <2> QED BY <2>1, <2>2 DEF SchedInv, Ruling
<1> QED BY <1>15, <1>16, <1>17, <1>18, <1>19, <1>20 DEF SchedInv

-----------------------------------------------------------------------------
(* The start.                                                               *)

(* The scheduler starts on one application task and the idle task.          *)
LEMMA InitGood == Init => SchedInv
<1> SUFFICES ASSUME Init PROVE SchedInv
    OBVIOUS
<1>1. PICK main \in Tasks \ {Idle}, p \in Priorities :
        /\ xLists = [l \in GenericLists |->
                        IF l = p /\ p = 0 THEN <<main, Idle>>
                        ELSE IF l = p THEN <<main>>
                        ELSE IF l = 0 THEN <<Idle>> ELSE <<>>]
        /\ xEventLists = [e \in ItemLists |-> <<>>]
        /\ uxPriority = [t \in Tasks |-> IF t = main THEN p ELSE 0]
        /\ uxBasePriority = uxPriority
        /\ xEventValue = [t \in Tasks |-> configMAX_PRIORITIES - uxPriority[t]]
        /\ uxTopReadyPriority = p
        /\ xTimeToWake = [t \in Tasks |-> 0]
        /\ due = [t \in Tasks |-> 0]
        /\ xTickCount = 0 /\ uxMissedTicks = 0 /\ xNextTaskUnblockTime = portMAX_DELAY
        /\ uxSchedulerSuspended = 0 /\ xMissedYield = FALSE
        /\ pxCurrentTCB = IF p = 0 THEN Idle ELSE main
        /\ pc = [t \in Tasks |-> IF t \in {main, Idle} THEN "user" ELSE "free"]
        /\ ret = [t \in Tasks |-> "user"]
        /\ yieldAfter = [t \in Tasks |-> FALSE]
        /\ xYieldRequired = FALSE
        /\ inISR = FALSE /\ checkingDelayed = FALSE
        /\ uxTasksDeleted = 0 /\ uxCurrentNumberOfTasks = 2
    BY DEF Init
<1>2. /\ main \in Tasks /\ main # Idle /\ Idle \in Tasks /\ p \in GenericLists /\ p \in Nat
      /\ 0 \in GenericLists /\ 0 \in Priorities
    BY <1>1, ListNames, Typed, KernelAssumption DEF KernelAssumption
<1>3. \A u \in Tasks : /\ ~In(u, <<>>) /\ (In(u, <<main>>) <=> u = main) /\ (In(u, <<Idle>>) <=> u = Idle)
                       /\ (In(u, <<main, Idle>>) <=> u = main \/ u = Idle)
    BY DEF In
<1>4. Once(<<>>) /\ Once(<<main>>) /\ Once(<<Idle>>) /\ Once(<<main, Idle>>)
    BY <1>2 DEF Once
<1>5. /\ \A k \in GenericLists : xLists[k] \in Seq(Tasks) /\ Once(xLists[k])
      /\ \A k \in GenericLists : \A u \in Tasks :
             In(u, xLists[k]) <=> (u = main /\ k = p) \/ (u = Idle /\ k = 0)
      /\ \A k \in GenericLists : xLists[k] # <<>> => k = p \/ k = 0
    <2>1. <<>> \in Seq(Tasks) /\ <<main>> \in Seq(Tasks) /\ <<Idle>> \in Seq(Tasks) /\ <<main, Idle>> \in Seq(Tasks)
        BY <1>2
    <2>2. ASSUME NEW k \in GenericLists
          PROVE  xLists[k] = IF k = p /\ p = 0 THEN <<main, Idle>> ELSE IF k = p THEN <<main>>
                             ELSE IF k = 0 THEN <<Idle>> ELSE <<>>
        BY <1>1
    <2> QED BY <1>2, <1>3, <1>4, <2>1, <2>2
<1>6. xLists \in [GenericLists -> Seq(Tasks)]
    BY <1>1, <1>5
<1>7. IsLists(xLists)
    BY <1>2, <1>5, <1>6 DEF IsLists, OncePlaced
<1>8. /\ uxPriority \in [Tasks -> Priorities] /\ uxPriority[main] = p /\ uxPriority[Idle] = 0
      /\ xEventValue \in [Tasks -> 1..configMAX_PRIORITIES]
    <2>1. uxPriority \in [Tasks -> Priorities] /\ uxPriority[main] = p /\ uxPriority[Idle] = 0
        BY <1>1, <1>2
    <2>2. \A t \in Tasks : configMAX_PRIORITIES - uxPriority[t] \in 1..configMAX_PRIORITIES
        BY <2>1, EventValues
    <2> QED BY <1>1, <2>1, <2>2
<1>9. xEventLists \in [ItemLists -> Seq(Tasks)] /\ (\A e \in ItemLists : xEventLists[e] = <<>>)
      /\ PendingReadyList \in ItemLists
    BY <1>1 DEF ItemLists
<1>10. TypeOK
    <2>1. 0 \in Ticks /\ portMAX_DELAY \in Ticks
        BY TickFacts
    <2>2. xTimeToWake \in [Tasks -> Ticks] /\ due \in [Tasks -> Int]
        BY <1>1, <2>1
    <2>3. pxCurrentTCB \in Tasks
        BY <1>1, <1>2
    <2> QED BY <1>1, <1>6, <1>8, <1>9, <2>1, <2>2, <2>3 DEF TypeOK, KernelTypeOK
<1>11. Listed /\ ReadyByPriority
    <2>1. \A t \in Tasks : pc[t] # "free" <=> t = main \/ t = Idle
        BY <1>1
    <2> QED BY <1>2, <1>5, <1>7, <1>8, <2>1, ListNames DEF Listed, ReadyByPriority
<1>12. PendingIsBlocked /\ IdleIsReady /\ TopKnown
    BY <1>1, <1>2, <1>3, <1>4, <1>5, <1>9, ListNames DEF PendingIsBlocked, IdleIsReady, TopKnown
<1>13. Counted
    <2>1. Existing = {main} \cup {Idle}
        BY <1>1, <1>2 DEF Existing
    <2>2. Cardinality({main}) = 1 /\ IsFiniteSet({main}) /\ Idle \notin {main}
        BY <1>2, FS_Singleton
    <2>3. Cardinality(Existing) = 2
        BY <2>1, <2>2, FS_AddElement
    <2>4. xLists[TasksWaitingTermination] = <<>>
        BY <1>2, <1>5, ListNames
    <2> QED BY <1>1, <2>3, <2>4 DEF Counted
<1>14. /\ \A t \in Tasks : ~In(t, xLists[DelayedTaskList]) /\ ~In(t, xLists[OverflowDelayedTaskList])
       /\ xLists[DelayedTaskList] = <<>> /\ xLists[OverflowDelayedTaskList] = <<>>
    BY <1>2, <1>5, ListNames
<1>15. Ordered
    <2>1. Sorted(<<>>, xTimeToWake)
        BY DEF Sorted
    <2> QED BY <1>14, <2>1 DEF Ordered, InOrder
<1>16. DelaysExact
    BY <1>14 DEF DelaysExact, IsDelayed
<1>17. Control /\ Reaping /\ ResumeAllSettlesEverything
    BY <1>1, <1>2, <1>9 DEF Control, Reaping, ResumeAllSettlesEverything, BetweenSteps, Masked
<1>18. CurrentRules
    <2>1. \A t \in Tasks : \A q \in Priorities : In(t, xLists[q]) => q = p \/ q = 0
        BY <1>2, <1>5, ListNames
    <2>2. pxCurrentTCB \in Tasks /\ uxPriority[pxCurrentTCB] = p /\ In(pxCurrentTCB, xLists[p])
        <3>1. CASE p = 0
            BY <1>1, <1>2, <1>5, <1>8, <3>1
        <3>2. CASE p # 0
            BY <1>1, <1>2, <1>5, <1>8, <3>2
        <3> QED BY <3>1, <3>2
    <2>3. \A q \in Priorities : q = p \/ q = 0 => q <= p
        BY <1>2
    <2> QED BY <2>1, <2>2, <2>3 DEF CurrentRules
<1>19. Present /\ Ruling
    BY <1>18 DEF Present, Ruling, CurrentRules, IsReady
<1> QED BY <1>10, <1>11, <1>12, <1>13, <1>15, <1>16, <1>17, <1>19 DEF SchedInv, Structure

-----------------------------------------------------------------------------
(* Every step.                                                              *)

(* Nothing happens.                                                         *)
LEMMA StutterStep ==
    ASSUME SchedInv, UNCHANGED vars
    PROVE  SchedInv'
<1>1. UNCHANGED <<lists, items, priorities, clock, suspension, pxCurrentTCB, calls, interrupt, counts>>
    BY DEF vars, kernelVars
<1>2. pc' = pc /\ checkingDelayed' = checkingDelayed
    BY <1>1 DEF calls, interrupt
<1>3. Structure' /\ DelaysExact'
    BY <1>1, <1>2, Typed, FrameKeeps DEF SchedInv
<1>4. TypeOK'
    BY <1>1 DEF SchedInv, TypeOK, KernelTypeOK, lists, items, priorities, clock, suspension, calls,
       interrupt, counts
<1>5. Control' /\ Present' /\ Reaping'
    BY <1>1 DEF SchedInv, Control, Present, IsReady, Reaping, lists, suspension, calls, interrupt
<1>6. Ruling' /\ ResumeAllSettlesEverything'
    BY <1>1 DEF SchedInv, Ruling, SwitchOwed, CurrentRules, ResumeAllSettlesEverything, lists,
       priorities, clock, suspension, calls, interrupt
<1> QED BY <1>3, <1>4, <1>5, <1>6 DEF SchedInv

(* Every step keeps the invariant.                                          *)
LEMMA StepGood == SchedInv /\ [Next]_vars => SchedInv'
<1> SUFFICES ASSUME SchedInv, [Next]_vars PROVE SchedInv'
    OBVIOUS
<1>1. ASSUME KernelStep, UNCHANGED counts PROVE SchedInv'
    <2>1. CASE prvCheckDelayedTasks
        BY <1>1, <2>1, CheckEnds, CheckReadies
    <2>2. CASE SwitchContextInISR
        BY <1>1, <2>2, SwitchInISRStep
    <2>3. ASSUME NEW t \in Tasks, vPortYieldProcessor(t) PROVE SchedInv'
        BY <1>1, <2>3, YieldStep
    <2>4. ASSUME NEW t \in Tasks, xTaskResumeAll(t) PROVE SchedInv'
        BY <1>1, <2>4, ResumeAllStep
    <2>5. ASSUME NEW t \in Tasks, DrainPendingReady(t) PROVE SchedInv'
        BY <1>1, <2>5, DrainStep
    <2>6. ASSUME NEW t \in Tasks, ReplayMissedTick(t) PROVE SchedInv'
        BY <1>1, <2>6, ReplayStep
    <2>7. ASSUME NEW t \in Tasks, ResumeAllEnd(t) PROVE SchedInv'
        BY <1>1, <2>7, ResumeAllEndStep
    <2> QED BY <1>1, <2>1, <2>2, <2>3, <2>4, <2>5, <2>6, <2>7 DEF KernelStep
<1>2. ASSUME NEW t \in Tasks, API(t) PROVE SchedInv'
    <2>1. CASE DelayStart(t) /\ UNCHANGED counts
        BY <2>1, DelayStarts
    <2>2. ASSUME NEW n \in Delays, vTaskDelay(t, n), UNCHANGED counts PROVE SchedInv'
        BY <2>2, DelayStep
    <2>3. ASSUME NEW previous \in Ticks, NEW n \in Delays \ {0}, vTaskDelayUntil(t, previous, n),
                 UNCHANGED counts
          PROVE  SchedInv'
        BY <2>3, DelayUntilStep
    <2>4. ASSUME NEW x \in Tasks \ {Idle}, NEW p \in Priorities, vTaskPrioritySet(t, x, p), UNCHANGED counts
          PROVE  SchedInv'
        BY <2>4, PrioritySetStep
    <2>5. ASSUME NEW x \in Tasks, vTaskSuspend(t, x), UNCHANGED counts PROVE SchedInv'
        BY <2>5, SuspendStep
    <2>6. ASSUME NEW x \in Tasks, vTaskResume(t, x), UNCHANGED counts PROVE SchedInv'
        BY <2>6, ResumedStep
    <2>7. ASSUME NEW x \in Tasks, NEW p \in Priorities, xTaskGenericCreate(t, x, p) PROVE SchedInv'
        BY <2>7, CreateStep
    <2>8. ASSUME NEW x \in Tasks, vTaskDelete(t, x) PROVE SchedInv'
        BY <2>8, DeleteStep
    <2>9. CASE UserSuspendAll(t)
        BY <2>9, UserSuspends
    <2>10. CASE UserResumeAll(t)
        BY <2>10, UserResumes
    <2> QED BY <1>2, <2>1, <2>2, <2>3, <2>4, <2>5, <2>6, <2>7, <2>8, <2>9, <2>10 DEF API
<1>3. CASE Tick
    BY <1>3, TickStep
<1>4. ASSUME NEW x \in Tasks, xTaskResumeFromISR(x) PROVE SchedInv'
    BY <1>4, ResumedFromISR
<1>5. CASE IdleCheck \/ IdleReap \/ IdleYield
    BY <1>5, IdleChecks, ReapStep, IdleYields
<1>6. CASE UNCHANGED vars
    BY <1>6, StutterStep
<1> QED BY <1>1, <1>2, <1>3, <1>4, <1>5, <1>6 DEF Next

-----------------------------------------------------------------------------
(* The theorems.                                                            *)

(* The invariant holds whatever tasks and interrupts do.                    *)
LEMMA Invariant == Spec => []SchedInv
<1>1. Init => SchedInv
    BY InitGood
<1>2. SchedInv /\ [Next]_vars => SchedInv'
    BY StepGood
<1> QED BY <1>1, <1>2, PTL DEF Spec

(* Every variable keeps its type: tick counts do not leave portTickType's   *)
(* range, priorities stay below configMAX_PRIORITIES, and no counter goes   *)
(* below 0 (tasks.c:1172-1246, 2103-2135).                                  *)
THEOREM SchedulerTypes == Spec => []TypeOK
<1>1. SchedInv => TypeOK
    BY DEF SchedInv
<1> QED BY <1>1, Invariant, PTL

(* No task is lost, duplicated or put in the wrong list by any sequence of  *)
(* create, delete, suspend, resume, delay, priority and interrupt calls,    *)
(* and every delayed task's wake time is exactly its remaining ticks ahead  *)
(* (tasks.c:433-1105, 2103-2161).                                           *)
THEOREM TasksNeverLost == Spec => []ListsTrue
<1>1. SchedInv => ListsTrue
    <2> SUFFICES ASSUME SchedInv PROVE EveryTaskInOneList
        BY DEF SchedInv, ListsTrue
    <2>1. /\ IsLists(xLists) /\ xLists \in [GenericLists -> Seq(Tasks)]
          /\ \A l, k \in GenericLists : \A t \in Tasks : In(t, xLists[l]) /\ In(t, xLists[k]) => l = k
        BY ListedFacts DEF SchedInv
    <2>2. ASSUME NEW t \in Tasks PROVE Cardinality(Lists(t)) = (IF Exists(t) THEN 1 ELSE 0)
        <3>1. CASE pc[t] = "free"
            <4>1. Lists(t) = {}
                BY <3>1 DEF SchedInv, Structure, Listed, Lists
            <4> QED BY <3>1, <4>1, FS_EmptySet DEF Exists
        <3>2. CASE pc[t] # "free"
            <4>1. PICK l \in GenericLists : In(t, xLists[l])
                BY <3>2 DEF SchedInv, Structure, Listed
            <4>2. Lists(t) = {l}
                BY <2>1, <4>1 DEF Lists
            <4> QED BY <3>2, <4>2, FS_Singleton DEF Exists
        <3> QED BY <3>1, <3>2
    <2>3. \A l \in GenericLists : \A m, n \in DOMAIN xLists[l] : xLists[l][m] = xLists[l][n] => m = n
        BY <2>1 DEF IsLists, OncePlaced, Once
    <2>4. ASSUME NEW p \in Priorities, NEW n \in DOMAIN xLists[p] PROVE uxPriority[xLists[p][n]] = p
        <3>1. In(xLists[p][n], xLists[p]) /\ xLists[p][n] \in Tasks
            BY <2>1, ListNames DEF In
        <3> QED BY <3>1 DEF SchedInv, Structure, ReadyByPriority
    <2>5. ASSUME NEW t \in Tasks, In(t, xEventLists[PendingReadyList])
          PROVE  Lists(t) \subseteq {SuspendedTaskList, DelayedTaskList, OverflowDelayedTaskList}
        BY <2>1, <2>5, ListNames DEF SchedInv, Structure, PendingIsBlocked, Lists
    <2>6. /\ uxTasksDeleted = Len(xLists[TasksWaitingTermination])
          /\ uxCurrentNumberOfTasks = Cardinality({t \in Tasks : Exists(t)})
        BY DEF SchedInv, Structure, Counted, Existing, Exists
    <2> QED BY <2>2, <2>3, <2>4, <2>5, <2>6 DEF EveryTaskInOneList
<1> QED BY <1>1, Invariant, PTL

(* The promise of the preemptive scheduler: a task runs its own code with   *)
(* the scheduler active only if it is ready and no ready task has a higher  *)
(* priority (tasks.c:1665-1714).                                            *)
THEOREM TheHighestPriorityRuns == Spec => []HighestPriorityRuns
<1>1. SchedInv => HighestPriorityRuns
    <2> SUFFICES ASSUME SchedInv, Settled
                 PROVE  IsReady(pxCurrentTCB)
                        /\ \A t \in Tasks : IsReady(t) => uxPriority[t] <= uxPriority[pxCurrentTCB]
        BY DEF HighestPriorityRuns
    <2>1. ~inISR /\ pc[pxCurrentTCB] \in {"user", "idleYield"} /\ ~xMissedYield
        BY DEF Settled, SchedInv, ResumeAllSettlesEverything
    <2>2. CurrentRules
        BY <2>1 DEF SchedInv, Ruling, SwitchOwed
    <2> QED BY <2>2 DEF CurrentRules, IsReady, SchedInv, Structure, ReadyByPriority
<1> QED BY <1>1, Invariant, PTL

(* xTaskResumeAll leaves no pending task, no missed tick and no missed      *)
(* yield behind (tasks.c:1172-1246).                                        *)
THEOREM ResumeAllForgetsNothing == Spec => []ResumeAllSettlesEverything
<1>1. SchedInv => ResumeAllSettlesEverything
    BY DEF SchedInv
<1> QED BY <1>1, Invariant, PTL

-----------------------------------------------------------------------------
(* The tick's work.                                                         *)

(* Only the tick and its replay by xTaskResumeAll move the count, and it    *)
(* wraps only over an empty delayed list.                                   *)
LEMMA WrapsOverEmpty ==
    ASSUME SchedInv, Next
    PROVE  xTickCount' < xTickCount => xLists[DelayedTaskList] = <<>>
<1>1. CASE Tick
    <2>1. /\ InterruptsEnabled
          /\ due' = [t \in Tasks |-> IF IsDelayed(t) THEN due[t] - 1 ELSE due[t]]
          /\ UNCHANGED <<xTimeToWake, xEventLists, priorities, uxTopReadyPriority, calls, counts>>
        BY <1>1 DEF Tick, vTickISR
    <2>2. CASE uxSchedulerSuspended # 0
        BY <1>1, <2>2, Typed, TickFacts DEF Tick, vTickISR
    <2>3. CASE uxSchedulerSuspended = 0
        <3>1. vTaskIncrementTick /\ uxMissedTicks' = uxMissedTicks /\ pc' = pc
            BY <1>1, <2>1, <2>3 DEF Tick, vTickISR, calls
        <3>2. ~checkingDelayed
            BY <2>1 DEF SchedInv, Control, InterruptsEnabled, Masked
        <3>3. due' \in [Tasks -> Int] /\ \A t \in Tasks : IsDelayed(t) => due'[t] = due[t] - 1
            BY <2>1, Typed
        <3>4. \A t \in Tasks :
                 In(t, xLists[DelayedTaskList]) \/ In(t, xLists[OverflowDelayedTaskList]) =>
                     due'[t] + uxMissedTicks' = due[t] + uxMissedTicks - 1
            <4>1. \A t \in Tasks : due[t] \in Int /\ uxMissedTicks \in Int
                BY Typed
            <4> QED BY <3>1, <3>3, <4>1 DEF IsDelayed
        <3>5. uxMissedTicks' \in Nat
            BY <3>1, Typed
        <3> QED BY <2>1, <3>1, <3>2, <3>3, <3>4, <3>5, TickMoves
    <2> QED BY <2>2, <2>3
<1>2. ASSUME NEW t \in Tasks, ReplayMissedTick(t), UNCHANGED counts
      PROVE  xTickCount' < xTickCount => xLists[DelayedTaskList] = <<>>
    <2>1. /\ ~checkingDelayed /\ uxMissedTicks > 0 /\ uxMissedTicks' = uxMissedTicks - 1
          /\ vTaskIncrementTick
          /\ UNCHANGED <<xTimeToWake, due, xEventLists, priorities, uxTopReadyPriority, pc, counts>>
        BY <1>2 DEF ReplayMissedTick, items
    <2>2. uxMissedTicks' \in Nat /\ due' \in [Tasks -> Int]
        BY <2>1, Typed
    <2>3. \A u \in Tasks : due'[u] + uxMissedTicks' = due[u] + uxMissedTicks - 1
        <3>1. \A u \in Tasks : due[u] \in Int /\ uxMissedTicks \in Int
            BY Typed
        <3> QED BY <2>1, <3>1
    <2> QED BY <2>1, <2>2, <2>3, TickMoves
<1>3. CASE xTickCount' = xTickCount
    BY <1>3, Typed, TickFacts
<1>4. Tick \/ (\E t \in Tasks : ReplayMissedTick(t) /\ UNCHANGED counts) \/ xTickCount' = xTickCount
    <2>1. CASE KernelStep /\ UNCHANGED counts
        BY <2>1 DEF KernelStep, prvCheckDelayedTasks, SwitchContextInISR, vPortYieldProcessor,
           xTaskResumeAll, DrainPendingReady, ResumeAllEnd, clock
    <2>2. ASSUME NEW t \in Tasks, API(t) PROVE xTickCount' = xTickCount
        BY <2>2 DEF API, DelayStart, vTaskDelay, vTaskDelayUntil, vTaskPrioritySet, vTaskSuspend,
           vTaskResume, xTaskGenericCreate, vTaskDelete, UserSuspendAll, UserResumeAll, clock
    <2>3. CASE IdleCheck \/ IdleReap \/ IdleYield
        BY <2>3 DEF IdleCheck, IdleReap, IdleYield, clock
    <2>4. ASSUME NEW x \in Tasks, xTaskResumeFromISR(x) PROVE xTickCount' = xTickCount
        BY <2>4 DEF xTaskResumeFromISR, clock
    <2> QED BY <2>1, <2>2, <2>3, <2>4 DEF Next
<1> QED BY <1>1, <1>2, <1>3, <1>4

(* While prvCheckDelayedTasks is in its loop only that loop moves a delayed *)
(* task, and it takes the head of the list when no tick of it is left.      *)
LEMMA WokenInTime ==
    ASSUME SchedInv, Next, checkingDelayed, NEW t \in Tasks, IsDelayed(t), ~IsDelayed(t)'
    PROVE  due[t] + uxMissedTicks = 0
<1>1. ~InterruptsEnabled /\ (inISR \/ pc[pxCurrentTCB] = "drain")
    BY DEF SchedInv, Control, InterruptsEnabled, Masked
<1>2. xLists' # xLists
    BY DEF IsDelayed
<1>3. prvCheckDelayedTasks
    <2>1. \A u \in Tasks : \A at \in {"user", "delay", "reap", "idleYield", "resumeAll", "yield", "yieldMasked"} :
             ~Running(u, at)
        BY <1>1 DEF Running
    <2>2. \A u \in Tasks : ~API(u)
        <3> TAKE u \in Tasks
        <3>1. ~Caller(u) /\ ~Running(u, "delay")
            BY <2>1 DEF Caller
        <3>2. ~DelayStart(u) /\ ~UserSuspendAll(u) /\ ~UserResumeAll(u)
            BY <3>1 DEF DelayStart, UserSuspendAll, UserResumeAll
        <3>3. \A n : ~vTaskDelay(u, n)
            BY <3>1 DEF vTaskDelay
        <3>4. \A previous, n : ~vTaskDelayUntil(u, previous, n)
            BY <3>1 DEF vTaskDelayUntil
        <3>5. \A x, p : ~vTaskPrioritySet(u, x, p) /\ ~xTaskGenericCreate(u, x, p)
            BY <3>1 DEF vTaskPrioritySet, xTaskGenericCreate
        <3>6. \A x : ~vTaskSuspend(u, x) /\ ~vTaskResume(u, x) /\ ~vTaskDelete(u, x)
            BY <3>1 DEF vTaskSuspend, vTaskResume, vTaskDelete
        <3> QED BY <3>2, <3>3, <3>4, <3>5, <3>6 DEF API
    <2>3. ~Tick /\ (\A u \in Tasks : ~xTaskResumeFromISR(u))
        BY <1>1 DEF Tick, vTickISR, xTaskResumeFromISR
    <2>4. ~IdleCheck /\ ~IdleReap /\ ~IdleYield
        BY <2>1, Typed DEF IdleCheck, IdleReap, IdleYield
    <2> QED BY <2>1, <2>2, <2>3, <2>4
            DEF Next, KernelStep, SwitchContextInISR, vPortYieldProcessor, xTaskResumeAll,
                DrainPendingReady, ReplayMissedTick, ResumeAllEnd
<1> DEFINE d == xLists[DelayedTaskList]
           h == Head(xLists[DelayedTaskList])
<1>4. /\ d # <<>> /\ ~StillAhead(h) /\ xLists' = [GenericRemoved(h) EXCEPT ![uxPriority[h]] = Append(@, h)]
    BY <1>2, <1>3 DEF prvCheckDelayedTasks, prvAddTaskToReadyQueue, lists
<1>5. h \in Tasks /\ In(h, xLists[DelayedTaskList]) /\ IsLists(xLists)
    BY <1>4, ListedFacts, ListNames, HeadIn DEF SchedInv
<1>6. t = h
    <2>1. uxPriority[h] \in Priorities
        BY <1>5, Typed
    <2> HIDE DEF h
    <2>2. TakesTo(xLists, xLists', h, uxPriority[h])
        BY <1>4, <1>5, <2>1, AppendedIt, ListNames
    <2>3. \A k \in {DelayedTaskList, OverflowDelayedTaskList} : t # h /\ In(t, xLists[k]) => In(t, xLists'[k])
        BY <2>2, ListNames DEF TakesTo
    <2> QED BY <2>3 DEF IsDelayed
<1> DEFINE left == due[h] + uxMissedTicks
<1>7. /\ left \in Nat /\ left <= TickMod - 1 /\ xTickCount \in Nat
      /\ xTimeToWake[h] = xTickCount + left
    BY <1>5, WakeIt
<1>8. xTimeToWake[h] <= xTickCount
    <2>1. xTimeToWake[h] \in Nat /\ xTickCount \in Nat
        BY <1>5, WakeIt
    <2> QED BY <1>4, <2>1 DEF StillAhead
<1>9. left = 0
    <2> HIDE DEF left
    <2> QED BY <1>7, <1>8
<1> QED BY <1>6, <1>9

(* The tick wakes a task when no tick of its delay is left, never earlier,  *)
(* and the count wraps only over an empty delayed list (tasks.c:274-318 and *)
(* 1503-1575).                                                              *)
THEOREM DelaysEndInTime == Spec => TicksDoTheirWork
<1>1. SchedInv /\ [Next]_vars =>
        [/\ \A t \in Tasks :
               checkingDelayed /\ IsDelayed(t) /\ ~IsDelayed(t)' => due[t] + uxMissedTicks = 0
         /\ xTickCount' < xTickCount => xLists[DelayedTaskList] = <<>>]_vars
    BY WrapsOverEmpty, WokenInTime
<1> QED BY <1>1, Invariant, PTL DEF Spec, TicksDoTheirWork
=============================================================================
