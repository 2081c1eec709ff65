----------------------------- MODULE QueueProofs -----------------------------
(***************************************************************************)
(* For any number of tasks, priorities, queue lengths and messages:        *)
(*  - the ring of queue.c stores messages as the sequence of Deque does;   *)
(*  - QueueInv is inductive for Queue: where the current task can be with  *)
(*    the scheduler, the locks and the interrupts as they are, what its    *)
(*    call has on its stack, and which lists a waiting task is in;         *)
(*  - from it, beside the type invariant: what is true of a holder of a    *)
(*    mutex, that waiters are blocked, that the most important ready task  *)
(*    runs unless a switch is owed (Ruling), that no time-out is early     *)
(*    (Timing) and that no wake-up is lost (Wakeups).                      *)
(* A step of the kernel alone is KernelOnly, whose lemmas are those of     *)
(* KernelProofs.                                                           *)
(***************************************************************************)
EXTENDS Queue, KernelProofs

-----------------------------------------------------------------------------
(* The ring: pointers and count agree, and the slots from the read pointer *)
(* on hold the messages of a bounded sequence.                              *)
StorageInv == StorageTypeOK /\ PointersAgree

(* xQueueCreate sets the pointers so that the invariant holds.              *)
LEMMA StorageInitInv == StorageInit => StorageInv
BY StorageAssumption DEF StorageInit, StorageInv, StorageTypeOK, PointersAgree, Slots

(* Every copy into or out of the ring keeps the pointers in agreement.      *)
LEMMA StorageNextInv == StorageInv /\ [StorageNext]_storage => StorageInv'
<1> SUFFICES ASSUME StorageInv, [StorageNext]_storage PROVE StorageInv'
    OBVIOUS
<1> USE StorageAssumption DEF StorageInv, StorageTypeOK, PointersAgree, Slots
<1>1. ASSUME NEW m \in Messages, ~IsQueueFull, CopyToBack(m) PROVE StorageInv'
    BY <1>1 DEF CopyToBack, Advance, IsQueueFull
<1>2. ASSUME NEW m \in Messages, ~IsQueueFull, CopyToFront(m) PROVE StorageInv'
    BY <1>2 DEF CopyToFront, Retreat, IsQueueFull
<1>3. CASE Receive
    BY <1>3 DEF Receive, CopyFrom, Advance, IsQueueEmpty
<1>4. CASE UNCHANGED storage
    BY <1>4 DEF storage
<1> QED BY <1>1, <1>2, <1>3, <1>4 DEF StorageNext, Send

(* The pointers and the count of a queue of any length agree for ever.      *)
THEOREM StorageCorrect == StorageSpec => []StorageInv
<1>1. StorageInit => StorageInv BY StorageInitInv
<1>2. StorageInv /\ [StorageNext]_storage => StorageInv' BY StorageNextInv
<1> QED BY <1>1, <1>2, PTL DEF StorageSpec

(* A send to the back appends its message to the messages waiting.          *)
LEMMA BackAppends ==
    ASSUME StorageInv, NEW m \in Messages, ~IsQueueFull, CopyToBack(m)
    PROVE  Contents' = Append(Contents, m)
<1> USE StorageAssumption DEF StorageInv, StorageTypeOK, PointersAgree, Slots
<1>1. uxMessagesWaiting' = uxMessagesWaiting + 1 /\ pcReadFrom' = pcReadFrom
    BY DEF CopyToBack
<1>2. \A n \in 1..uxMessagesWaiting : SlotOf(n) \in Slots /\ SlotOf(n) # pcWriteTo
    BY DEF SlotOf, IsQueueFull
<1>3. SlotOf(uxMessagesWaiting + 1) = pcWriteTo
    BY DEF SlotOf, IsQueueFull
<1>4. \A n : SlotOf(n)' = SlotOf(n)
    BY <1>1 DEF SlotOf
<1>5. \A n \in 1..uxMessagesWaiting : pcSlots'[SlotOf(n)] = pcSlots[SlotOf(n)]
    BY <1>2 DEF CopyToBack
<1>6. pcSlots'[SlotOf(uxMessagesWaiting + 1)] = m
    BY <1>3 DEF CopyToBack
<1>7. Contents' = [n \in 1..(uxMessagesWaiting + 1) |-> pcSlots'[SlotOf(n)]]
    BY <1>1, <1>4 DEF Contents
<1>8. Contents \in Seq(Messages) /\ Len(Contents) = uxMessagesWaiting
    BY <1>2 DEF Contents
<1>9. Append(Contents, m) =
        [n \in 1..(uxMessagesWaiting + 1) |->
            IF n <= uxMessagesWaiting THEN Contents[n] ELSE m]
    BY <1>8
<1>10. uxMessagesWaiting \in Nat
    OBVIOUS
<1>11. \A n \in 1..uxMessagesWaiting : Contents[n] = pcSlots[SlotOf(n)]
    BY DEF Contents
<1> HIDE DEF StorageInv, StorageTypeOK, PointersAgree, Slots
<1>12. \A n \in 1..(uxMessagesWaiting + 1) :
          pcSlots'[SlotOf(n)] = IF n <= uxMessagesWaiting THEN Contents[n] ELSE m
    BY <1>5, <1>6, <1>10, <1>11
<1> QED BY <1>7, <1>9, <1>12

(* A send to the front puts its message before the ones waiting.            *)
LEMMA FrontPrepends ==
    ASSUME StorageInv, NEW m \in Messages, ~IsQueueFull, CopyToFront(m)
    PROVE  Contents' = <<m>> \o Contents
<1> USE StorageAssumption DEF StorageInv, StorageTypeOK, PointersAgree, Slots
<1>1. uxMessagesWaiting' = uxMessagesWaiting + 1 /\ pcReadFrom' = Retreat(pcReadFrom)
    BY DEF CopyToFront
<1>2. \A n \in 1..uxMessagesWaiting : SlotOf(n) \in Slots /\ SlotOf(n) # pcReadFrom
    BY DEF SlotOf, IsQueueFull
<1>3. SlotOf(1)' = pcReadFrom
    BY <1>1 DEF SlotOf, Retreat
<1>4. \A n \in 1..uxMessagesWaiting : SlotOf(n + 1)' = SlotOf(n)
    BY <1>1 DEF SlotOf, Retreat, IsQueueFull
<1>5. \A n \in 1..uxMessagesWaiting : pcSlots'[SlotOf(n)] = pcSlots[SlotOf(n)]
    BY <1>2 DEF CopyToFront
<1>6. pcSlots'[SlotOf(1)'] = m
    BY <1>3 DEF CopyToFront
<1>7. Contents' = [n \in 1..(uxMessagesWaiting + 1) |-> pcSlots'[SlotOf(n)']]
    BY <1>1 DEF Contents
<1>8. Contents \in Seq(Messages) /\ Len(Contents) = uxMessagesWaiting
    BY <1>2 DEF Contents
<1>9. <<m>> \o Contents =
        [n \in 1..(uxMessagesWaiting + 1) |-> IF n = 1 THEN m ELSE Contents[n - 1]]
    BY <1>8
<1>10. uxMessagesWaiting \in Nat
    OBVIOUS
<1>11. \A n \in 1..uxMessagesWaiting : Contents[n] = pcSlots[SlotOf(n)]
    BY DEF Contents
<1> HIDE DEF StorageInv, StorageTypeOK, PointersAgree, Slots
<1>12. ASSUME NEW n \in 1..(uxMessagesWaiting + 1)
       PROVE  pcSlots'[SlotOf(n)'] = IF n = 1 THEN m ELSE Contents[n - 1]
    <2>1. CASE n = 1
        BY <2>1, <1>6
    <2>2. CASE n # 1
        <3>1. n - 1 \in 1..uxMessagesWaiting /\ n = (n - 1) + 1
            BY <2>2, <1>10
        <3>2. SlotOf(n)' = SlotOf(n - 1)
            BY <3>1, <1>4
        <3> QED BY <2>2, <3>1, <3>2, <1>5, <1>11
    <2> QED BY <2>1, <2>2
<1> QED BY <1>7, <1>9, <1>12

(* A receive takes the oldest message at the front and returns it.          *)
LEMMA ReceivePops ==
    ASSUME StorageInv, Receive
    PROVE  /\ Contents # <<>>
           /\ Contents' = Tail(Contents)
           /\ NextMessage = Head(Contents)
<1> USE StorageAssumption DEF StorageInv, StorageTypeOK, PointersAgree, Slots
<1>1. /\ uxMessagesWaiting > 0 /\ uxMessagesWaiting' = uxMessagesWaiting - 1
      /\ pcReadFrom' = Advance(pcReadFrom) /\ pcSlots' = pcSlots
    BY DEF Receive, CopyFrom, IsQueueEmpty
<1>2. \A n \in 1..uxMessagesWaiting : SlotOf(n) \in Slots
    BY DEF SlotOf
<1>3. \A n \in 1..(uxMessagesWaiting - 1) : SlotOf(n)' = SlotOf(n + 1)
    BY <1>1 DEF SlotOf, Advance
<1>4. SlotOf(1) = Advance(pcReadFrom)
    BY DEF SlotOf, Advance
<1>5. Contents \in Seq(Messages) /\ Len(Contents) = uxMessagesWaiting
    BY <1>2 DEF Contents
<1>6. \A n \in 1..uxMessagesWaiting : Contents[n] = pcSlots[SlotOf(n)]
    BY DEF Contents
<1>7. Contents' = [n \in 1..(uxMessagesWaiting - 1) |-> pcSlots[SlotOf(n)']]
    BY <1>1 DEF Contents
<1>8. Tail(Contents) = [n \in 1..(uxMessagesWaiting - 1) |-> Contents[n + 1]]
    BY <1>1, <1>5
<1>9. uxMessagesWaiting \in Nat
    OBVIOUS
<1>10. Head(Contents) = pcSlots[SlotOf(1)]
    BY <1>1, <1>5, <1>6
<1> HIDE DEF StorageInv, StorageTypeOK, PointersAgree, Slots
<1>11. \A n \in 1..(uxMessagesWaiting - 1) : pcSlots[SlotOf(n)'] = Contents[n + 1]
    BY <1>1, <1>3, <1>6, <1>9
<1>12. Contents' = Tail(Contents)
    BY <1>7, <1>8, <1>11
<1>13. Contents # <<>>
    BY <1>1, <1>5
<1> QED BY <1>4, <1>10, <1>12, <1>13 DEF NextMessage

(* queue.c stores messages the way Deque does, for every length of queue:   *)
(* nothing is lost, overwritten, invented or reordered.                     *)
THEOREM StorageImplementsDeque == StorageSpec => ImplementsDeque
<1>1. StorageInit => D!Init
    BY StorageAssumption DEF StorageInit, D!Init, Contents
<1>2. StorageInv /\ [StorageNext]_storage => [D!Next]_Contents
    <2> SUFFICES ASSUME StorageInv, [StorageNext]_storage PROVE [D!Next]_Contents
        OBVIOUS
    <2>1. ~IsQueueFull => Len(Contents) < uxLength
        BY StorageAssumption DEF StorageInv, StorageTypeOK, IsQueueFull, Contents
    <2>2. ASSUME NEW m \in Messages, ~IsQueueFull, CopyToBack(m) PROVE D!Next
        BY <2>1, <2>2, BackAppends DEF D!Next, D!PushBack
    <2>3. ASSUME NEW m \in Messages, ~IsQueueFull, CopyToFront(m) PROVE D!Next
        BY <2>1, <2>3, FrontPrepends DEF D!Next, D!PushFront
    <2>4. CASE Receive
        BY <2>4, ReceivePops DEF D!Next, D!Pop
    <2>5. CASE UNCHANGED storage
        BY <2>5 DEF storage, Contents, SlotOf
    <2> QED BY <2>2, <2>3, <2>4, <2>5 DEF StorageNext, Send
<1>3. StorageInit /\ [][StorageNext]_storage => []StorageInv
    BY StorageCorrect DEF StorageSpec
<1> QED BY <1>1, <1>2, <1>3, PTL DEF StorageSpec, ImplementsDeque, D!Spec

(* The write pointer of a queue of any length never falls out of step with  *)
(* its read pointer and its count.                                          *)
THEOREM PointersAlwaysAgree == StorageSpec => []PointersAgree
<1>1. StorageInv => PointersAgree
    BY DEF StorageInv
<1> QED BY <1>1, StorageCorrect, PTL

-----------------------------------------------------------------------------
(* A ready task is in the list of its priority (tasks.c:258-263).           *)
ReadyByPriority ==
    \A p \in Priorities : \A t \in Tasks : In(t, xLists[p]) => uxPriority[t] = p

(* uxTopReadyPriority is never too low; it may be too high.                 *)
TopKnown == \A p \in Priorities : xLists[p] # <<>> => p <= uxTopReadyPriority

(* A task is in one list at most, and the idle task is always ready.        *)
ListsGood ==
    /\ IsLists(xLists) /\ ReadyByPriority /\ TopKnown
    /\ In(Idle, xLists[0]) /\ uxPriority[Idle] = 0 /\ uxBasePriority[Idle] = 0

(* A task waits for one event at a time, and is then in no ready list.      *)
Blocked(t) == In(t, xLists[SuspendedTaskList]) \/ IsDelayed(t)

EventsGood ==
    /\ \A e \in ItemLists : Once(xEventLists[e])
    /\ \A e, f \in ItemLists : \A t \in Tasks :
          In(t, xEventLists[e]) /\ In(t, xEventLists[f]) => e = f
    /\ \A e \in ItemLists : \A t \in Tasks : In(t, xEventLists[e]) => Blocked(t)

(* The places of the code.                                                  *)
PcNames == {"user", "delay", "resumeAll", "drain", "yield", "yieldMasked", "top",
            "taken", "wakeReceiver", "wakeSender", "suspend", "lock", "look",
            "inherit", "place", "unlockTx", "unlockRx"}
Suspending == {"delay", "lock", "look", "inherit", "place", "unlockTx", "unlockRx", "resumeAll"}
GoingToWait == {"suspend", "lock", "look", "inherit", "place"}
Leaving == {"unlockTx", "unlockRx", "resumeAll", "drain", "yield", "yieldMasked"}
SwitchedOut == {"user", "top", "taken", "suspend", "yield"}

(* A task is in the loop of xQueueGenericSend or xQueueGenericReceive.      *)
InLoop(t) == pc[t] = "top" \/ pc[t] \in GoingToWait \/ (pc[t] \in Leaving /\ ret[t] = "top")

(* Where the current task can be with the scheduler, the locks and the      *)
(* interrupts as they are.  A task that does not run stands at a place      *)
(* where it can be switched out.                                            *)
Control ==
    /\ \A t \in Tasks \ {pxCurrentTCB} : pc[t] \in SwitchedOut
    /\ uxSchedulerSuspended = IF pc[pxCurrentTCB] \in Suspending THEN 1 ELSE 0
    /\ inISR => pc[pxCurrentTCB] \notin Masked
    /\ checkingDelayed => /\ uxSchedulerSuspended = 0
                          /\ inISR \/ (pc[pxCurrentTCB] = "drain" /\ xYieldRequired)
    /\ pc[Idle] = "user"
    /\ \A t \in Tasks : ret[t] # "taken"
    /\ pc[pxCurrentTCB] \in {"inherit", "place"} => yieldAfter[pxCurrentTCB] /\ ret[pxCurrentTCB] = "top"

(* The queue is locked exactly in between, and a task about to wake another *)
(* finds one.                                                               *)
Locking ==
    /\ xTxLock # queueUNLOCKED <=> pc[pxCurrentTCB] \in {"look", "inherit", "place", "unlockTx"}
    /\ xRxLock # queueUNLOCKED <=> pc[pxCurrentTCB] \in {"look", "inherit", "place", "unlockTx", "unlockRx"}
    /\ pc[pxCurrentTCB] = "wakeReceiver" => xEventLists[Waiting.receive] # <<>>
    /\ pc[pxCurrentTCB] = "wakeSender" => xEventLists[Waiting.send] # <<>>

(* A task has a frame exactly while it is in a call, and a task on its way  *)
(* to wait has time left.                                                   *)
Framed ==
    /\ \A t \in Tasks : frame[t] # NULL <=> InLoop(t)
    /\ \A t \in Tasks : pc[t] \in GoingToWait => frame[t].xEntryTimeSet /\ frame[t].xTicksToWait > 0

(* A task in an event list of the queue is in a call that will come back to *)
(* its loop.                                                                *)
Waiters ==
    \A t \in Tasks : \A e \in EventLists : In(t, xEventLists[e]) =>
        /\ frame[t] # NULL /\ IsSend(t) = (e = Waiting.send)
        /\ ret[t] = "top" /\ pc[t] \in Leaving \cup {"top"}
        /\ IF frame[t].xTicksToWait = portMAX_DELAY THEN In(t, xLists[SuspendedTaskList])
           ELSE IsDelayed(t)

(* The current task is ready, or on its way to a context switch.            *)
Present ==
    \/ IsReady(pxCurrentTCB)
    \/ pc[pxCurrentTCB] \in {"yield", "yieldMasked"}
    \/ pc[pxCurrentTCB] \in {"unlockTx", "unlockRx", "resumeAll", "drain"} /\ yieldAfter[pxCurrentTCB]

(* What is true of a mutex and its holder.                                  *)
MutexTrue ==
    /\ uxMessagesWaiting \in {0, 1}
    /\ HolderCountsTrue /\ InheritedOnlyByHolder
    /\ pxMutexHolder = NULL => uxRecursiveCallCount = 0
    /\ \A t \in Tasks : frame[t] # NULL =>
          IF t = pxMutexHolder
          THEN /\ IsSend(t) /\ frame[t].xTicksToWait = 0 /\ pc[t] = "top"
               /\ uxRecursiveCallCount = 0
          ELSE frame[t].op = "receive"
    /\ xEventLists[Waiting.send] = <<>>
    /\ pc[pxCurrentTCB] \in {"inherit", "place"} => uxMessagesWaiting = 0

(* Any other queue has no holder and raises no priority.                    *)
NoMutex ==
    /\ pxMutexHolder = NULL /\ uxPriority = uxBasePriority
    /\ pc[pxCurrentTCB] # "inherit" /\ uxRecursiveCallCount = 0
    /\ \A t \in Tasks : pc[t] # "taken"

MutexFacts == pxMutexHolder # Idle /\ IF QueueIsMutex THEN MutexTrue ELSE NoMutex

(* The inductive invariant.                                                 *)
QueueInv ==
    /\ TypeOK /\ ListsGood /\ EventsGood /\ Control /\ Locking
    /\ Framed /\ Waiters /\ Present /\ MutexFacts

(* The event lists.                                                         *)
LEMMA EventNames ==
    /\ Waiting.send \in EventLists /\ Waiting.receive \in EventLists
    /\ Waiting.send # Waiting.receive
    /\ \A e \in EventLists : e = Waiting.send \/ e = Waiting.receive
    /\ \A e \in EventLists : e \in ItemLists /\ e # PendingReadyList
    /\ PendingReadyList \in ItemLists
    /\ \A e \in ItemLists : e \in EventLists \/ e = PendingReadyList
BY QueueAssumption, KernelAssumption
   DEF QueueAssumption, KernelAssumption, Waiting, ItemLists, PendingReadyList

(* What the type invariant and the assumptions say of each variable.        *)
LEMMA Typed ==
    ASSUME TypeOK
    PROVE  /\ pc \in [Tasks -> PcNames] /\ ret \in [Tasks -> {"user", "top", "taken"}]
           /\ yieldAfter \in [Tasks -> BOOLEAN] /\ xYieldRequired \in BOOLEAN
           /\ uxSchedulerSuspended \in Nat /\ xMissedYield \in BOOLEAN /\ pxCurrentTCB \in Tasks
           /\ uxPriority \in [Tasks -> Priorities] /\ uxBasePriority \in [Tasks -> Priorities]
           /\ xEventValue \in [Tasks -> 1..configMAX_PRIORITIES]
           /\ uxTopReadyPriority \in Priorities
           /\ xTickCount \in Ticks /\ uxMissedTicks \in Nat /\ xNextTaskUnblockTime \in Ticks
           /\ xTimeToWake \in [Tasks -> Ticks] /\ due \in [Tasks -> Int]
           /\ inISR \in BOOLEAN /\ checkingDelayed \in BOOLEAN
           /\ xLists \in [GenericLists -> Seq(Tasks)] /\ xEventLists \in [ItemLists -> Seq(Tasks)]
           /\ xRxLock \in Nat \cup {-1} /\ xTxLock \in Nat \cup {-1}
           /\ pxMutexHolder \in Tasks \cup {NULL} /\ uxRecursiveCallCount \in 0..MaxRecursion
           /\ frame \in [Tasks -> Frames \cup {NULL}]
           /\ uxMessagesWaiting \in 0..uxLength /\ uxLength \in Nat \ {0}
           /\ Idle \in Tasks /\ NULL \notin Tasks /\ NULL \notin Frames /\ QueueIsMutex \in BOOLEAN
           /\ MaxRecursion \in Nat \ {0}
BY KernelAssumption, QueueAssumption, FrameAssumption, StorageAssumption
   DEF TypeOK, KernelTypeOK, PcNames, KernelAssumption, QueueAssumption, StorageAssumption,
       StorageTypeOK, queueUNLOCKED

(* A task is in one list only.                                              *)
LEMMA ListedFacts ==
    ASSUME TypeOK, ListsGood
    PROVE  /\ IsLists(xLists) /\ xLists[0] # <<>> /\ Idle \in Tasks
           /\ \A l, k \in GenericLists : \A t \in Tasks : In(t, xLists[l]) /\ In(t, xLists[k]) => l = k
           /\ \A t \in Tasks : IsReady(t) => ~Blocked(t)
           /\ IsReady(Idle)
<1>1. IsLists(xLists) /\ In(Idle, xLists[0]) /\ Idle \in Tasks
    BY Typed DEF ListsGood
<1>2. xLists[0] # <<>>
    BY <1>1, ListNames, HeadIn DEF IsLists
<1>3. \A l, k \in GenericLists : \A t \in Tasks : In(t, xLists[l]) /\ In(t, xLists[k]) => l = k
    BY <1>1 DEF IsLists, OncePlaced
<1>4. ASSUME NEW t \in Tasks, IsReady(t) PROVE ~Blocked(t)
    <2>1. PICK p \in Priorities : In(t, xLists[p])
        BY <1>4 DEF IsReady
    <2>2. p \in GenericLists /\ p \notin OtherLists
        BY ReadyListNames
    <2>3. /\ p # SuspendedTaskList /\ p # DelayedTaskList /\ p # OverflowDelayedTaskList
        BY <2>2 DEF OtherLists
    <2> QED BY <1>3, <2>1, <2>2, <2>3, ListNames DEF Blocked, IsDelayed
<1>5. IsReady(Idle)
    BY <1>1, ListNames DEF IsReady
<1> QED BY <1>1, <1>2, <1>3, <1>4, <1>5

(* The task that stands at a place before a wait, or at a place of its own, *)
(* is ready, and so in no event list.                                       *)
LEMMA CurrentReady ==
    ASSUME QueueInv, NEW t \in Tasks, pxCurrentTCB = t, pc[t] \notin Leaving
    PROVE  IsReady(t) /\ ~Blocked(t) /\ \A e \in ItemLists : ~In(t, xEventLists[e])
<1>1. IsReady(t)
    BY DEF QueueInv, Present, Leaving
<1>2. ~Blocked(t)
    BY <1>1, ListedFacts DEF QueueInv
<1> QED BY <1>1, <1>2 DEF QueueInv, EventsGood

-----------------------------------------------------------------------------
(* What a step leaves of the lists that touches no list and no priority.    *)
LEMMA FrameKeeps ==
    ASSUME ListsGood, EventsGood, UNCHANGED <<lists, priorities>>
    PROVE  /\ ListsGood' /\ EventsGood'
           /\ \A t \in Tasks : (IsReady(t)' <=> IsReady(t)) /\ (Blocked(t)' <=> Blocked(t))
                               /\ (IsDelayed(t)' <=> IsDelayed(t))
<1>1. UNCHANGED <<xLists, xEventLists, uxTopReadyPriority, uxPriority, uxBasePriority>>
    BY DEF lists, priorities
<1>2. ListsGood'
    BY <1>1 DEF ListsGood, ReadyByPriority, TopKnown
<1>3. \A t \in Tasks : (IsReady(t)' <=> IsReady(t)) /\ (Blocked(t)' <=> Blocked(t))
                       /\ (IsDelayed(t)' <=> IsDelayed(t))
    BY <1>1 DEF IsReady, Blocked, IsDelayed
<1>4. EventsGood'
    BY <1>1, <1>3 DEF EventsGood
<1> QED BY <1>2, <1>3, <1>4

(* The steps of a task that move only the task itself on in its code, from  *)
(* one place to the next, with whatever that does to the locals.            *)
StillVars == <<lists, priorities, items, clock, pxCurrentTCB, interrupt>>

LocalsTyped ==
    /\ ret' \in [Tasks -> {"user", "top"}] /\ yieldAfter' \in [Tasks -> BOOLEAN]
    /\ xYieldRequired' \in BOOLEAN /\ uxSchedulerSuspended' \in Nat /\ xMissedYield' \in BOOLEAN
    /\ frame' \in [Tasks -> Frames \cup {NULL}]
    /\ StorageTypeOK' /\ xRxLock' \in Nat \cup {-1} /\ xTxLock' \in Nat \cup {-1}
    /\ pxMutexHolder' \in Tasks \cup {NULL} /\ uxRecursiveCallCount' \in 0..MaxRecursion

(* The frame g is the frame f, but for what the clock did to it meanwhile.  *)
SameCall(f, g) ==
    /\ f = NULL <=> g = NULL
    /\ f # NULL => g.op = f.op /\ g.xTicksToWait = f.xTicksToWait /\ g.xEntryTimeSet = f.xEntryTimeSet

(* Task t goes to place `at', which agrees with what else the step does.    *)
Moves(t, at) ==
    /\ pxCurrentTCB = t /\ t # Idle /\ ~inISR /\ ~checkingDelayed
    /\ pc' = [pc EXCEPT ![t] = at]
    /\ \A u \in Tasks \ {t} : ret'[u] = ret[u] /\ SameCall(frame[u], frame'[u])
    /\ uxSchedulerSuspended' = IF at \in Suspending THEN 1 ELSE 0
    /\ at \in {"inherit", "place"} => yieldAfter'[t] /\ ret'[t] = "top"
    /\ xTxLock' # -1 <=> at \in {"look", "inherit", "place", "unlockTx"}
    /\ xRxLock' # -1 <=> at \in {"look", "inherit", "place", "unlockTx", "unlockRx"}
    /\ at = "wakeReceiver" => xEventLists[Waiting.receive] # <<>>
    /\ at = "wakeSender" => xEventLists[Waiting.send] # <<>>
    /\ frame'[t] # NULL <=> at = "top" \/ at \in GoingToWait \/ (at \in Leaving /\ ret'[t] = "top")
    /\ at \in GoingToWait => frame'[t].xEntryTimeSet /\ frame'[t].xTicksToWait > 0
    /\ \/ IsReady(t)
       \/ SameCall(frame[t], frame'[t]) /\ ret'[t] = ret[t] /\ at \in Leaving \cup {"top"}
    /\ \/ IsReady(t) \/ at \in {"yield", "yieldMasked"}
       \/ at \in {"unlockTx", "unlockRx", "resumeAll", "drain"} /\ yieldAfter'[t]

(* The current task goes on from one place to another: the scheduler, the   *)
(* locks and the call it is in are then as the new place asks.              *)
LEMMA MovesOn ==
    ASSUME QueueInv, NEW t \in Tasks, NEW at \in PcNames, LocalsTyped, Moves(t, at),
           UNCHANGED <<pxCurrentTCB, interrupt>>,
           \/ IsReady(t) => IsReady(t)'
           \/ at \in {"unlockTx", "resumeAll"} /\ yieldAfter'[t],
           UNCHANGED xEventLists \/ at \notin {"wakeReceiver", "wakeSender"}
    PROVE  /\ Control' /\ Locking' /\ Framed' /\ Present'
           /\ pc' \in [Tasks -> PcNames] /\ pc'[t] = at /\ \A u \in Tasks \ {t} : pc'[u] = pc[u]
<1> USE DEF LocalsTyped, Moves
<1>1. UNCHANGED <<pxCurrentTCB, inISR, checkingDelayed>>
    BY DEF interrupt
<1>2. pc' \in [Tasks -> PcNames] /\ pc'[t] = at /\ \A u \in Tasks \ {t} : pc'[u] = pc[u]
    BY Typed DEF QueueInv
<1>3. \A u \in Tasks \ {pxCurrentTCB'} : pc'[u] \in SwitchedOut
    BY <1>1, <1>2 DEF QueueInv, Control
<1>4. Control'
    <2>1. \A u \in Tasks : ret'[u] # "taken"
        OBVIOUS
    <2>2. pc'[Idle] = "user"
        BY <1>2, Typed DEF QueueInv, Control
    <2> QED BY <1>1, <1>2, <1>3, <2>1, <2>2 DEF Control
<1>5. Locking'
    BY <1>1, <1>2 DEF Locking, queueUNLOCKED
<1>6. Framed'
    <2>1. \A u \in Tasks \ {t} : frame'[u] # NULL <=> InLoop(u)'
        BY <1>2 DEF QueueInv, Framed, InLoop, SameCall
    <2>2. frame'[t] # NULL <=> InLoop(t)'
        BY <1>2 DEF InLoop
    <2>3. \A u \in Tasks : pc'[u] \in GoingToWait => frame'[u].xEntryTimeSet /\ frame'[u].xTicksToWait > 0
        <3>1. \A u \in Tasks \ {t} : pc'[u] = pc[u] /\ SameCall(frame[u], frame'[u])
            BY <1>2
        <3>2. \A u \in Tasks : pc[u] \in GoingToWait => frame[u] # NULL
            BY DEF QueueInv, Framed, InLoop
        <3> QED BY <1>2, <3>1, <3>2 DEF QueueInv, Framed, SameCall
    <2> QED BY <2>1, <2>2, <2>3 DEF Framed
<1>7. Present'
    BY <1>1, <1>2 DEF Present
<1> QED BY <1>2, <1>4, <1>5, <1>6, <1>7

(* And the lists with that, when the step touches no list and no priority.  *)
LEMMA CallStep ==
    ASSUME QueueInv, NEW t \in Tasks, NEW at \in PcNames, UNCHANGED StillVars, LocalsTyped, Moves(t, at)
    PROVE  /\ TypeOK' /\ ListsGood' /\ EventsGood' /\ Waiters' /\ Control' /\ Locking' /\ Framed'
           /\ Present'
           /\ pc' \in [Tasks -> PcNames] /\ pc'[t] = at /\ \A u \in Tasks \ {t} : pc'[u] = pc[u]
           /\ \A u \in Tasks : IsReady(u)' <=> IsReady(u)
           /\ UNCHANGED <<xLists, xEventLists, uxPriority, uxBasePriority, pxCurrentTCB>>
<1>1. UNCHANGED <<xLists, xEventLists, uxPriority, uxBasePriority, pxCurrentTCB>>
    BY DEF StillVars, lists, priorities
<1>2. ListsGood' /\ EventsGood' /\ \A u \in Tasks : IsReady(u)' <=> IsReady(u)
    BY FrameKeeps DEF QueueInv, StillVars
<1>3. /\ Control' /\ Locking' /\ Framed' /\ Present'
      /\ pc' \in [Tasks -> PcNames] /\ pc'[t] = at /\ \A u \in Tasks \ {t} : pc'[u] = pc[u]
    BY <1>1, <1>2, MovesOn DEF StillVars
<1>4. TypeOK'
    <2>1. KernelTypeOK'
        BY DEF QueueInv, TypeOK, KernelTypeOK, StillVars, lists, priorities, items, clock, interrupt,
           LocalsTyped
    <2> QED BY <1>3, <2>1 DEF TypeOK, PcNames, queueUNLOCKED, LocalsTyped
<1>5. Waiters'
    <2> SUFFICES ASSUME NEW u \in Tasks, NEW e \in EventLists, In(u, xEventLists[e])
                 PROVE  /\ frame'[u] # NULL /\ IsSend(u)' = (e = Waiting.send)
                        /\ ret'[u] = "top" /\ pc'[u] \in Leaving \cup {"top"}
                        /\ IF frame'[u].xTicksToWait = portMAX_DELAY
                           THEN In(u, xLists[SuspendedTaskList]) ELSE IsDelayed(u)
        BY <1>1 DEF Waiters, IsDelayed
    <2>1. /\ frame[u] # NULL /\ IsSend(u) = (e = Waiting.send)
          /\ ret[u] = "top" /\ pc[u] \in Leaving \cup {"top"}
          /\ IF frame[u].xTicksToWait = portMAX_DELAY
             THEN In(u, xLists[SuspendedTaskList]) ELSE IsDelayed(u)
        BY DEF QueueInv, Waiters
    <2>2. CASE u # t
        BY <1>3, <2>1, <2>2 DEF IsSend, Moves, SameCall
    <2>3. CASE u = t
        <3>1. ~IsReady(t)
            BY <2>3, EventNames, ListedFacts DEF QueueInv, EventsGood
        <3> QED BY <1>3, <2>1, <2>3, <3>1 DEF IsSend, Moves, SameCall
    <2> QED BY <2>2, <2>3
<1> QED BY <1>1, <1>2, <1>3, <1>4, <1>5

(* A frame set for a task.                                                  *)
LEMMA FrameSet ==
    ASSUME TypeOK, NEW t \in Tasks, NEW f \in Frames \cup {NULL}, SetFrame(t, f)
    PROVE  /\ frame' \in [Tasks -> Frames \cup {NULL}] /\ frame'[t] = f
           /\ \A u \in Tasks \ {t} : frame'[u] = frame[u]
BY Typed DEF SetFrame

(* The return values and the locals that stay.                              *)
LEMMA Kept ==
    ASSUME QueueInv
    PROVE  /\ ret \in [Tasks -> {"user", "top"}] /\ yieldAfter \in [Tasks -> BOOLEAN]
           /\ xYieldRequired \in BOOLEAN /\ xMissedYield \in BOOLEAN /\ uxSchedulerSuspended \in Nat
           /\ frame \in [Tasks -> Frames \cup {NULL}] /\ StorageTypeOK
           /\ xRxLock \in Nat \cup {-1} /\ xTxLock \in Nat \cup {-1}
           /\ pxMutexHolder \in Tasks \cup {NULL} /\ uxRecursiveCallCount \in 0..MaxRecursion
           /\ pxCurrentTCB \in Tasks /\ pc \in [Tasks -> PcNames]
<1>1. ret \in [Tasks -> {"user", "top"}]
    <2>1. ret \in [Tasks -> {"user", "top", "taken"}] /\ \A t \in Tasks : ret[t] # "taken"
        BY Typed DEF QueueInv, Control
    <2> QED BY <2>1
<1> QED BY <1>1, Typed DEF QueueInv, TypeOK

(* A step that leaves the mutex and the storage alone and moves one task,   *)
(* and raises no priority, or only the holder's.                            *)
LEMMA MutexMoved ==
    ASSUME QueueInv, NEW t \in Tasks, pxCurrentTCB = t, pxCurrentTCB' = t,
           \A u \in Tasks \ {t} : pc'[u] = pc[u], \A u \in Tasks \ {t} : SameCall(frame[u], frame'[u]),
           UNCHANGED <<uxMessagesWaiting, pxMutexHolder, uxRecursiveCallCount>>,
           IF QueueIsMutex THEN InheritedOnlyByHolder' ELSE uxPriority' = uxBasePriority',
           xEventLists[Waiting.send] = <<>> => xEventLists'[Waiting.send] = <<>>,
           pc'[t] # "taken", pc[t] # "taken", pc'[t] = "inherit" => QueueIsMutex,
           QueueIsMutex /\ pc'[t] \in {"inherit", "place"} => uxMessagesWaiting = 0,
           QueueIsMutex /\ pxMutexHolder = t /\ frame'[t] = NULL => uxRecursiveCallCount > 0,
           QueueIsMutex /\ frame'[t] # NULL =>
               IF pxMutexHolder = t
               THEN SameCall(frame[t], frame'[t]) /\ frame[t] # NULL /\ pc'[t] = "top"
               ELSE frame'[t].op = "receive"
    PROVE  MutexFacts'
<1>1. CASE QueueIsMutex
    <2>1. MutexTrue
        BY <1>1 DEF QueueInv, MutexFacts
    <2>2. HolderCountsTrue'
        <3>1. \A u \in Tasks : pc'[u] = "taken" <=> pc[u] = "taken"
            OBVIOUS
        <3>2. ASSUME pxMutexHolder # NULL, pc'[pxMutexHolder] # "taken", frame'[pxMutexHolder] = NULL
              PROVE  uxRecursiveCallCount > 0
            <4>1. CASE pxMutexHolder = t
                BY <1>1, <3>2, <4>1
            <4>2. CASE pxMutexHolder # t
                BY <2>1, <3>2, <4>2, Typed DEF MutexTrue, HolderCountsTrue, QueueInv, SameCall
            <4> QED BY <4>1, <4>2
        <3> QED BY <2>1, <3>1, <3>2 DEF MutexTrue, HolderCountsTrue
    <2>3. ASSUME NEW u \in Tasks, frame'[u] # NULL
          PROVE  IF u = pxMutexHolder
                 THEN /\ frame'[u].op \in SendOps /\ frame'[u].xTicksToWait = 0 /\ pc'[u] = "top"
                      /\ uxRecursiveCallCount = 0
                 ELSE frame'[u].op = "receive"
        BY <1>1, <2>1, <2>3 DEF MutexTrue, IsSend, SameCall
    <2>4. InheritedOnlyByHolder'
        BY <1>1
    <2> QED BY <1>1, <2>1, <2>2, <2>3, <2>4 DEF MutexFacts, MutexTrue, QueueInv, IsSend
<1>2. CASE ~QueueIsMutex
    BY <1>2 DEF QueueInv, MutexFacts, NoMutex
<1> QED BY <1>1, <1>2

(* And one that changes no priority at all.                                 *)
LEMMA MutexKept ==
    ASSUME QueueInv, NEW t \in Tasks, pxCurrentTCB = t, pxCurrentTCB' = t,
           \A u \in Tasks \ {t} : pc'[u] = pc[u], \A u \in Tasks \ {t} : SameCall(frame[u], frame'[u]),
           UNCHANGED <<uxMessagesWaiting, pxMutexHolder, uxRecursiveCallCount, uxPriority,
                       uxBasePriority>>,
           xEventLists[Waiting.send] = <<>> => xEventLists'[Waiting.send] = <<>>,
           pc'[t] # "taken", pc[t] # "taken", pc'[t] = "inherit" => QueueIsMutex,
           QueueIsMutex /\ pc'[t] \in {"inherit", "place"} => uxMessagesWaiting = 0,
           QueueIsMutex /\ pxMutexHolder = t /\ frame'[t] = NULL => uxRecursiveCallCount > 0,
           QueueIsMutex /\ frame'[t] # NULL =>
               IF pxMutexHolder = t
               THEN SameCall(frame[t], frame'[t]) /\ frame[t] # NULL /\ pc'[t] = "top"
               ELSE frame'[t].op = "receive"
    PROVE  MutexFacts'
<1>1. IF QueueIsMutex THEN InheritedOnlyByHolder' ELSE uxPriority' = uxBasePriority'
    BY DEF QueueInv, MutexFacts, MutexTrue, NoMutex, InheritedOnlyByHolder
<1> QED BY <1>1, MutexMoved

(* A task calls xQueueGenericSend or xQueueGenericReceive.                  *)
LEMMA CallQueueStep ==
    ASSUME QueueInv, NEW t \in Tasks, NEW op \in Operations, NEW m \in Messages,
           NEW n \in BlockTimes[t], CallQueue(t, op, m, n)
    PROVE  QueueInv'
<1> DEFINE f == [op |-> op, msg |-> m, xTicksToWait |-> n, xEntryTimeSet |-> FALSE,
                 xTimeOnEntering |-> 0, wrapped |-> FALSE, left |-> 0]
<1>1. /\ t # Idle /\ pxCurrentTCB = t /\ ~inISR /\ pc[t] = "user" /\ pc' = [pc EXCEPT ![t] = "top"]
      /\ QueueIsMutex => op = "receive" /\ pxMutexHolder # t
      /\ SetFrame(t, f) /\ UNCHANGED StillVars
      /\ UNCHANGED <<ret, yieldAfter, xYieldRequired, uxSchedulerSuspended, xMissedYield,
                     storage, xRxLock, xTxLock, pxMutexHolder, uxRecursiveCallCount>>
    BY DEF CallQueue, Caller, Running, GoTo, calm, suspension, StillVars, locks, mutex
<1>2. f \in Frames /\ f.op = op /\ f # NULL
    <2>1. op \in SendOps \cup ReceiveOps /\ n \in Ticks /\ 0 \in Ticks
        BY QueueAssumption, TickFacts DEF QueueAssumption
    <2>2. f \in Frames
        BY <2>1 DEF Frames
    <2> QED BY <2>2, FrameAssumption
<1> HIDE DEF f
<1>3. /\ frame' \in [Tasks -> Frames \cup {NULL}] /\ frame'[t] = f
      /\ \A u \in Tasks \ {t} : frame'[u] = frame[u]
    BY <1>1, <1>2, FrameSet DEF QueueInv
<1>4. IsReady(t) /\ ~checkingDelayed /\ uxSchedulerSuspended = 0 /\ xTxLock = -1 /\ xRxLock = -1
    BY <1>1, CurrentReady DEF QueueInv, Control, Leaving, Locking, Suspending, queueUNLOCKED
<1>5. /\ TypeOK' /\ ListsGood' /\ EventsGood' /\ Waiters' /\ Control' /\ Locking' /\ Framed' /\ Present'
      /\ pc'[t] = "top" /\ \A u \in Tasks \ {t} : pc'[u] = pc[u]
      /\ UNCHANGED <<xLists, xEventLists, uxPriority, uxBasePriority, pxCurrentTCB>>
    <2>1. StorageTypeOK'
        BY <1>1, Kept DEF storage, StorageTypeOK
    <2>2. "top" \in PcNames /\ "top" \notin Suspending /\ "top" \notin GoingToWait
        BY DEF PcNames, Suspending, GoingToWait
    <2>3. LocalsTyped
        BY <1>1, <1>3, <2>1, Kept DEF LocalsTyped
    <2>4. Moves(t, "top")
        BY <1>1, <1>2, <1>3, <1>4, <2>2 DEF Moves, SameCall
    <2> QED BY <1>1, <2>2, <2>3, <2>4, CallStep
<1>6. MutexFacts'
    BY <1>1, <1>2, <1>3, <1>5, MutexKept DEF storage, SameCall
<1> QED BY <1>5, <1>6 DEF QueueInv

(* xQueueTakeMutexRecursive counts one more.                                *)
LEMMA TakeAgainStep ==
    ASSUME QueueInv, NEW t \in Tasks, TakeAgain(t)
    PROVE  QueueInv'
<1>1. /\ QueueIsMutex /\ pxCurrentTCB = t /\ ~inISR /\ pc' = [pc EXCEPT ![t] = "user"]
      /\ \/ t # Idle /\ pc[t] = "user" /\ pxMutexHolder = t /\ uxRecursiveCallCount < MaxRecursion
         \/ pc[t] = "taken"
      /\ uxRecursiveCallCount' = uxRecursiveCallCount + 1
      /\ UNCHANGED StillVars
      /\ UNCHANGED <<ret, yieldAfter, xYieldRequired, uxSchedulerSuspended, xMissedYield,
                     storage, xRxLock, xTxLock, pxMutexHolder, frame>>
    BY DEF TakeAgain, Caller, Running, GoTo, calm, suspension, StillVars, locks
<1>2. MutexTrue
    BY <1>1 DEF QueueInv, MutexFacts
<1>3. pxMutexHolder = t /\ t # Idle /\ uxRecursiveCallCount < MaxRecursion
    <2>1. MaxRecursion > 0
        BY Typed DEF QueueInv
    <2> QED BY <1>1, <1>2, <2>1 DEF MutexTrue, HolderCountsTrue, QueueInv, MutexFacts
<1>4. IsReady(t) /\ ~checkingDelayed /\ uxSchedulerSuspended = 0 /\ xTxLock = -1 /\ xRxLock = -1
    BY <1>1, CurrentReady DEF QueueInv, Control, Leaving, Locking, Suspending, queueUNLOCKED
<1>5. frame[t] = NULL
    BY <1>1 DEF QueueInv, Framed, InLoop, GoingToWait, Leaving
<1>6. /\ TypeOK' /\ ListsGood' /\ EventsGood' /\ Waiters' /\ Control' /\ Locking' /\ Framed' /\ Present'
      /\ pc'[t] = "user" /\ \A u \in Tasks \ {t} : pc'[u] = pc[u]
      /\ UNCHANGED <<xLists, xEventLists, uxPriority, uxBasePriority, pxCurrentTCB>>
    <2>1. StorageTypeOK'
        BY <1>1, Kept DEF storage, StorageTypeOK
    <2>2. "user" \in PcNames /\ "user" \notin Suspending /\ "user" \notin GoingToWait /\ "user" \notin Leaving
        BY DEF PcNames, Suspending, GoingToWait, Leaving
    <2>3. uxRecursiveCallCount' \in 0..MaxRecursion
        BY <1>1, <1>3, Typed DEF QueueInv
    <2>4. LocalsTyped
        BY <1>1, <1>3, <2>1, <2>3, Kept DEF LocalsTyped
    <2>5. Moves(t, "user")
        BY <1>1, <1>3, <1>4, <1>5, <2>2 DEF Moves, SameCall
    <2> QED BY <1>1, <2>2, <2>4, <2>5, CallStep
<1>7. MutexFacts'
    <2>1. HolderCountsTrue'
        <3>1. uxRecursiveCallCount' > 0
            BY <1>1, Typed DEF QueueInv
        <3>2. \A u \in Tasks : pc'[u] # "taken"
            BY <1>2, <1>3, <1>6 DEF MutexTrue, HolderCountsTrue
        <3> QED BY <1>1, <1>2, <3>1, <3>2 DEF MutexTrue, HolderCountsTrue, storage
    <2>2. InheritedOnlyByHolder'
        BY <1>1, <1>2, <1>6 DEF MutexTrue, InheritedOnlyByHolder
    <2>3. \A u \in Tasks : frame'[u] # NULL => u # pxMutexHolder' /\ frame'[u].op = "receive"
        BY <1>1, <1>2, <1>3, <1>5 DEF MutexTrue
    <2>4. MutexTrue'
        <3>1. UNCHANGED <<uxMessagesWaiting, pxMutexHolder, xEventLists, pxCurrentTCB>>
            BY <1>1, <1>6 DEF storage
        <3>2. pc'[pxCurrentTCB'] \notin {"inherit", "place"} /\ pxMutexHolder' # NULL
            BY <1>1, <1>3, <1>6, Typed DEF QueueInv
        <3> QED BY <1>2, <2>1, <2>2, <2>3, <3>1, <3>2 DEF MutexTrue
    <2> QED BY <1>1, <2>4 DEF QueueInv, MutexFacts
<1> QED BY <1>6, <1>7 DEF QueueInv

(* xQueueGiveMutexRecursive counts one less and, with the last, sends.      *)
LEMMA GiveStep ==
    ASSUME QueueInv, NEW t \in Tasks, NEW m \in Messages, xQueueGiveMutexRecursive(t, m)
    PROVE  QueueInv'
<1> DEFINE f == [op |-> "sendToBack", msg |-> m, xTicksToWait |-> 0, xEntryTimeSet |-> FALSE,
                 xTimeOnEntering |-> 0, wrapped |-> FALSE, left |-> 0]
           last == uxRecursiveCallCount' = 0
           at == IF last THEN "top" ELSE "user"
<1>1. /\ t # Idle /\ pxCurrentTCB = t /\ ~inISR /\ pc[t] = "user"
      /\ QueueIsMutex /\ pxMutexHolder = t
      /\ uxRecursiveCallCount' = uxRecursiveCallCount - 1
      /\ IF last THEN pc' = [pc EXCEPT ![t] = "top"] /\ SetFrame(t, f) ELSE UNCHANGED <<pc, frame>>
      /\ UNCHANGED StillVars
      /\ UNCHANGED <<ret, yieldAfter, xYieldRequired, uxSchedulerSuspended, xMissedYield,
                     storage, xRxLock, xTxLock, pxMutexHolder>>
    BY DEF xQueueGiveMutexRecursive, Caller, Running, GoTo, calm, suspension, StillVars, locks
<1>2. MutexTrue
    BY <1>1 DEF QueueInv, MutexFacts
<1>3. f \in Frames /\ f.op = "sendToBack" /\ f.xTicksToWait = 0 /\ f # NULL
    <2>1. 0 \in Ticks
        BY TickFacts
    <2>2. f \in Frames
        BY <2>1 DEF Frames, SendOps
    <2> QED BY <2>2, FrameAssumption
<1> HIDE DEF f
<1>4. frame[t] = NULL /\ uxRecursiveCallCount > 0 /\ pc[t] # "taken"
    <2>1. frame[t] = NULL
        BY <1>1 DEF QueueInv, Framed, InLoop, GoingToWait, Leaving
    <2> QED BY <1>1, <1>2, <2>1, Typed DEF MutexTrue, HolderCountsTrue, QueueInv
<1>5. pc' = [pc EXCEPT ![t] = at] /\ frame' \in [Tasks -> Frames \cup {NULL}]
      /\ frame'[t] = (IF last THEN f ELSE NULL) /\ \A u \in Tasks \ {t} : frame'[u] = frame[u]
    <2>1. CASE last
        BY <1>1, <1>3, <2>1, FrameSet DEF QueueInv
    <2>2. CASE ~last
        <3>1. pc = [pc EXCEPT ![t] = "user"]
            BY <1>1, Kept
        <3> QED BY <1>1, <1>4, <2>2, <3>1, Kept
    <2> QED BY <2>1, <2>2
<1>6. IsReady(t) /\ ~checkingDelayed /\ uxSchedulerSuspended = 0 /\ xTxLock = -1 /\ xRxLock = -1
    BY <1>1, CurrentReady DEF QueueInv, Control, Leaving, Locking, Suspending, queueUNLOCKED
<1>7. uxRecursiveCallCount' \in 0..MaxRecursion /\ (~last => uxRecursiveCallCount' > 0)
    BY <1>1, <1>4, Typed DEF QueueInv
<1> HIDE DEF last
<1>8. /\ TypeOK' /\ ListsGood' /\ EventsGood' /\ Waiters' /\ Control' /\ Locking' /\ Framed' /\ Present'
      /\ pc'[t] = at /\ \A u \in Tasks \ {t} : pc'[u] = pc[u]
      /\ UNCHANGED <<xLists, xEventLists, uxPriority, uxBasePriority, pxCurrentTCB>>
    <2>1. StorageTypeOK'
        BY <1>1, Kept DEF storage, StorageTypeOK
    <2>2. /\ at \in PcNames /\ at \notin Suspending /\ at \notin GoingToWait /\ at \notin Leaving
          /\ at \in {"top", "user"} /\ (at = "top" <=> last)
        BY DEF PcNames, Suspending, GoingToWait, Leaving
    <2> HIDE DEF at
    <2>3. LocalsTyped
        BY <1>1, <1>5, <1>7, <2>1, Kept DEF LocalsTyped
    <2>4. Moves(t, at)
        BY <1>1, <1>3, <1>5, <1>6, <2>2 DEF Moves, SameCall
    <2> QED BY <1>1, <2>2, <2>3, <2>4, CallStep
<1>9. MutexFacts'
    <2>1. HolderCountsTrue'
        <3>1. \A u \in Tasks : pc'[u] # "taken"
            BY <1>2, <1>4, <1>8 DEF MutexTrue, HolderCountsTrue
        <3>2. frame'[t] = NULL => uxRecursiveCallCount' > 0
            BY <1>3, <1>5, <1>7
        <3> QED BY <1>1, <1>2, <3>1, <3>2 DEF MutexTrue, HolderCountsTrue, storage
    <2>2. InheritedOnlyByHolder'
        BY <1>1, <1>2, <1>8 DEF MutexTrue, InheritedOnlyByHolder
    <2>3. ASSUME NEW u \in Tasks, frame'[u] # NULL
          PROVE  IF u = pxMutexHolder'
                 THEN /\ frame'[u].op \in SendOps /\ frame'[u].xTicksToWait = 0 /\ pc'[u] = "top"
                      /\ uxRecursiveCallCount' = 0
                 ELSE frame'[u].op = "receive"
        <3>1. CASE u = t
            BY <1>1, <1>3, <1>5, <1>8, <2>3, <3>1 DEF last, SendOps
        <3>2. CASE u # t
            BY <1>1, <1>2, <1>5, <2>3, <3>2 DEF MutexTrue
        <3> QED BY <3>1, <3>2
    <2>4. at \notin {"inherit", "place"}
        OBVIOUS
    <2> HIDE DEF at
    <2>5. MutexTrue'
        <3>1. UNCHANGED <<uxMessagesWaiting, pxMutexHolder, xEventLists, pxCurrentTCB>>
            BY <1>1, <1>8 DEF storage
        <3>2. pc'[pxCurrentTCB'] \notin {"inherit", "place"} /\ pxMutexHolder' # NULL
            BY <1>1, <1>8, <2>4, <3>1, Typed DEF QueueInv
        <3> QED BY <1>2, <2>1, <2>2, <2>3, <3>1, <3>2 DEF MutexTrue, IsSend
    <2> QED BY <1>1, <2>5 DEF QueueInv, MutexFacts
<1> QED BY <1>8, <1>9 DEF QueueInv

(* What is common to the places of a call that is not leaving.              *)
LEMMA Outside ==
    ASSUME QueueInv, NEW t \in Tasks, pxCurrentTCB = t, ~inISR,
           pc[t] \in {"user", "top", "taken", "suspend"}
    PROVE  /\ IsReady(t) /\ ~checkingDelayed /\ uxSchedulerSuspended = 0 /\ xTxLock = -1 /\ xRxLock = -1
           /\ (pc[t] # "user" => t # Idle)
BY CurrentReady DEF QueueInv, Control, Leaving, Locking, Suspending, queueUNLOCKED

(* At a place where the scheduler is suspended the current task is ready,   *)
(* and the place says whether the queue is locked.                          *)
LEMMA Inside ==
    ASSUME QueueInv, NEW t \in Tasks, pxCurrentTCB = t, ~inISR,
           pc[t] \in {"delay", "lock", "look", "inherit", "place"}
    PROVE  /\ IsReady(t) /\ ~checkingDelayed /\ uxSchedulerSuspended = 1 /\ t # Idle
           /\ pc[t] \in {"delay", "lock"} => xTxLock = -1 /\ xRxLock = -1
           /\ pc[t] \notin {"delay", "lock"} => xTxLock # -1 /\ xRxLock # -1
BY CurrentReady DEF QueueInv, Control, Leaving, Locking, Suspending, queueUNLOCKED

(* The call ends without success.                                           *)
LEMMA GiveUpStep ==
    ASSUME QueueInv, NEW t \in Tasks, GiveUp(t)
    PROVE  QueueInv'
<1>1. /\ pxCurrentTCB = t /\ ~inISR /\ pc[t] = "top" /\ pc' = [pc EXCEPT ![t] = "user"]
      /\ SetFrame(t, NULL) /\ UNCHANGED StillVars
      /\ (IF IsSend(t) THEN IsQueueFull ELSE IsQueueEmpty)
      /\ UNCHANGED <<ret, yieldAfter, xYieldRequired, uxSchedulerSuspended, xMissedYield,
                     storage, xRxLock, xTxLock, pxMutexHolder, uxRecursiveCallCount>>
    BY DEF GiveUp, Running, GoTo, calm, suspension, StillVars, locks, mutex
<1>2. /\ IsReady(t) /\ ~checkingDelayed /\ uxSchedulerSuspended = 0 /\ xTxLock = -1 /\ xRxLock = -1
      /\ t # Idle
    BY <1>1, Outside
<1>3. /\ frame' \in [Tasks -> Frames \cup {NULL}] /\ frame'[t] = NULL
      /\ \A u \in Tasks \ {t} : frame'[u] = frame[u]
    BY <1>1, FrameSet DEF QueueInv
<1>4. /\ TypeOK' /\ ListsGood' /\ EventsGood' /\ Waiters' /\ Control' /\ Locking' /\ Framed' /\ Present'
      /\ pc'[t] = "user" /\ \A u \in Tasks \ {t} : pc'[u] = pc[u]
      /\ UNCHANGED <<xLists, xEventLists, uxPriority, uxBasePriority, pxCurrentTCB>>
    <2>1. StorageTypeOK'
        BY <1>1, Kept DEF storage, StorageTypeOK
    <2>2. "user" \in PcNames /\ "user" \notin Suspending /\ "user" \notin GoingToWait /\ "user" \notin Leaving
        BY DEF PcNames, Suspending, GoingToWait, Leaving
    <2>3. LocalsTyped
        BY <1>1, <1>3, <2>1, Kept DEF LocalsTyped
    <2>4. Moves(t, "user")
        BY <1>1, <1>2, <1>3, <2>2 DEF Moves, SameCall
    <2> QED BY <1>1, <2>2, <2>3, <2>4, CallStep
<1>5. frame[t] # NULL
    BY <1>1 DEF QueueInv, Framed, InLoop
<1>6. ASSUME QueueIsMutex PROVE pxMutexHolder # t
    <2>1. MutexTrue /\ 0 # uxLength
        BY <1>6, Typed DEF QueueInv, MutexFacts
    <2>2. t # NULL
        BY Typed DEF QueueInv
    <2> QED BY <1>1, <1>5, <2>1, <2>2 DEF MutexTrue, HolderCountsTrue, IsQueueFull, IsQueueEmpty
<1>7. MutexFacts'
    BY <1>1, <1>3, <1>4, <1>6, MutexKept DEF storage, SameCall
<1> QED BY <1>4, <1>7 DEF QueueInv

(* The fields of a frame.                                                   *)
LEMMA FrameFields ==
    ASSUME NEW f \in Frames
    PROVE  /\ f.op \in SendOps \cup ReceiveOps /\ f.msg \in Messages /\ f.xTicksToWait \in Ticks
           /\ f.xEntryTimeSet \in BOOLEAN /\ f.xTimeOnEntering \in Ticks /\ f.wrapped \in BOOLEAN
           /\ f.left \in Nat /\ f # NULL
BY FrameAssumption DEF Frames

(* xTaskCheckForTimeOut takes from the time to wait no more than there is.  *)
LEMMA AdjustedIt ==
    ASSUME xTickCount \in Ticks, NEW f \in Frames, ~TimedOut(f), f.xTicksToWait > 0
    PROVE  /\ Adjusted(f) \in Frames /\ Adjusted(f).op = f.op /\ Adjusted(f).xTicksToWait > 0
           /\ Adjusted(f).xEntryTimeSet = f.xEntryTimeSet
<1>1. /\ f.xTicksToWait \in Ticks /\ f.xTimeOnEntering \in Ticks /\ TickMod \in Nat \ {0}
      /\ Ticks = 0..(TickMod - 1)
    BY FrameFields, TickFacts
<1>2. CASE f.xTicksToWait = portMAX_DELAY
    BY <1>2 DEF Adjusted
<1>3. CASE f.xTicksToWait # portMAX_DELAY
    <2> DEFINE e == Elapsed(f)
               n == f.xTicksToWait - e
    <2>1. e \in 0..(TickMod - 1)
        BY <1>1 DEF Elapsed
    <2>2. e < f.xTicksToWait
        BY <1>1, <1>3, <2>1 DEF TimedOut
    <2> HIDE DEF e
    <2>3. n \in Ticks /\ n > 0
        BY <1>1, <2>1, <2>2
    <2>4. Adjusted(f) = [f EXCEPT !.xTicksToWait = n, !.xTimeOnEntering = xTickCount, !.wrapped = FALSE]
        BY <1>3 DEF Adjusted, e
    <2> HIDE DEF n
    <2> QED BY <2>3, <2>4 DEF Frames
<1> QED BY <1>2, <1>3

(* The call will wait, and notes when it began to.                          *)
LEMMA WillWaitStep ==
    ASSUME QueueInv, NEW t \in Tasks, WillWait(t)
    PROVE  QueueInv'
<1> DEFINE f == [frame[t] EXCEPT !.xEntryTimeSet = TRUE, !.xTimeOnEntering = xTickCount,
                                 !.wrapped = FALSE, !.left = frame[t].xTicksToWait]
<1>1. /\ pxCurrentTCB = t /\ ~inISR /\ pc[t] = "top" /\ pc' = [pc EXCEPT ![t] = "suspend"]
      /\ UNCHANGED StillVars /\ frame[t].xTicksToWait > 0
      /\ (IF frame[t].xEntryTimeSet THEN UNCHANGED frame ELSE SetFrame(t, f))
      /\ UNCHANGED <<ret, yieldAfter, xYieldRequired, uxSchedulerSuspended, xMissedYield,
                     storage, xRxLock, xTxLock, pxMutexHolder, uxRecursiveCallCount>>
    BY DEF WillWait, Running, GoTo, calm, suspension, StillVars, locks, mutex
<1>2. /\ IsReady(t) /\ ~checkingDelayed /\ uxSchedulerSuspended = 0 /\ xTxLock = -1 /\ xRxLock = -1
      /\ t # Idle
    BY <1>1, Outside
<1>3. frame[t] # NULL /\ frame[t] \in Frames
    <2>1. frame[t] # NULL
        BY <1>1 DEF QueueInv, Framed, InLoop
    <2> QED BY <2>1, Kept
<1>4. f \in Frames /\ f.op = frame[t].op /\ f.xEntryTimeSet /\ f.xTicksToWait = frame[t].xTicksToWait
    <2>1. xTickCount \in Ticks /\ frame[t].xTicksToWait \in Nat
        BY <1>3, FrameFields, TickFacts, Typed DEF QueueInv
    <2> QED BY <1>3, <2>1 DEF Frames
<1> HIDE DEF f
<1>5. /\ frame' \in [Tasks -> Frames \cup {NULL}] /\ frame'[t] \in Frames
      /\ frame'[t].op = frame[t].op /\ frame'[t].xEntryTimeSet /\ frame'[t].xTicksToWait > 0
      /\ \A u \in Tasks \ {t} : frame'[u] = frame[u]
    <2>1. CASE frame[t].xEntryTimeSet
        BY <1>1, <1>3, <2>1, Kept
    <2>2. CASE ~frame[t].xEntryTimeSet
        BY <1>1, <1>3, <1>4, <2>2, FrameSet DEF QueueInv
    <2> QED BY <2>1, <2>2
<1>6. /\ TypeOK' /\ ListsGood' /\ EventsGood' /\ Waiters' /\ Control' /\ Locking' /\ Framed' /\ Present'
      /\ pc'[t] = "suspend" /\ \A u \in Tasks \ {t} : pc'[u] = pc[u]
      /\ UNCHANGED <<xLists, xEventLists, uxPriority, uxBasePriority, pxCurrentTCB>>
    <2>1. StorageTypeOK'
        BY <1>1, Kept DEF storage, StorageTypeOK
    <2>2. "suspend" \in PcNames /\ "suspend" \notin Suspending /\ "suspend" \in GoingToWait
        BY DEF PcNames, Suspending, GoingToWait
    <2>3. LocalsTyped
        BY <1>1, <1>5, <2>1, Kept DEF LocalsTyped
    <2>4. Moves(t, "suspend")
        BY <1>1, <1>2, <1>5, <2>2, FrameAssumption DEF Moves, SameCall
    <2> QED BY <1>1, <2>2, <2>3, <2>4, CallStep
<1>7. ASSUME QueueIsMutex PROVE pxMutexHolder # t /\ frame[t].op = "receive"
    <2>1. MutexTrue
        BY <1>7 DEF QueueInv, MutexFacts
    <2> QED BY <1>1, <1>3, <2>1 DEF MutexTrue
<1>8. MutexFacts'
    BY <1>1, <1>5, <1>6, <1>7, MutexKept, FrameAssumption DEF storage, SameCall
<1> QED BY <1>6, <1>8 DEF QueueInv

(* In a mutex who waits does not hold it.                                   *)
LEMMA MutexWaiters ==
    ASSUME QueueInv, QueueIsMutex, NEW t \in Tasks, frame[t] # NULL, pc[t] # "top"
    PROVE  pxMutexHolder # t /\ frame[t].op = "receive" /\ ~IsSend(t)
<1>1. pxMutexHolder # t /\ frame[t].op = "receive"
    BY DEF QueueInv, MutexFacts, MutexTrue
<1> QED BY <1>1 DEF IsSend, SendOps

(* vTaskSuspendAll before the queue is locked.                              *)
LEMMA SuspendToBlockStep ==
    ASSUME QueueInv, NEW t \in Tasks, SuspendToBlock(t)
    PROVE  QueueInv'
<1>1. /\ pxCurrentTCB = t /\ ~inISR /\ pc[t] = "suspend" /\ pc' = [pc EXCEPT ![t] = "lock"]
      /\ UNCHANGED StillVars /\ uxSchedulerSuspended' = uxSchedulerSuspended + 1
      /\ UNCHANGED <<ret, yieldAfter, xYieldRequired, xMissedYield, storage, xRxLock, xTxLock,
                     pxMutexHolder, uxRecursiveCallCount, frame>>
    BY DEF SuspendToBlock, Running, GoTo, vTaskSuspendAll, callFrame, queueVars, StillVars
<1>2. /\ IsReady(t) /\ ~checkingDelayed /\ uxSchedulerSuspended = 0 /\ xTxLock = -1 /\ xRxLock = -1
      /\ t # Idle
    BY <1>1, Outside
<1>3. frame[t] # NULL /\ frame[t].xEntryTimeSet /\ frame[t].xTicksToWait > 0
    BY <1>1 DEF QueueInv, Framed, InLoop, GoingToWait
<1>4. /\ TypeOK' /\ ListsGood' /\ EventsGood' /\ Waiters' /\ Control' /\ Locking' /\ Framed' /\ Present'
      /\ pc'[t] = "lock" /\ \A u \in Tasks \ {t} : pc'[u] = pc[u]
      /\ UNCHANGED <<xLists, xEventLists, uxPriority, uxBasePriority, pxCurrentTCB>>
    <2>1. StorageTypeOK'
        BY <1>1, Kept DEF storage, StorageTypeOK
    <2>2. "lock" \in PcNames /\ "lock" \in Suspending /\ "lock" \in GoingToWait
        BY DEF PcNames, Suspending, GoingToWait
    <2>3. LocalsTyped
        BY <1>1, <1>2, <2>1, Kept DEF LocalsTyped
    <2>4. Moves(t, "lock")
        BY <1>1, <1>2, <1>3, <2>2 DEF Moves, SameCall
    <2> QED BY <1>1, <2>2, <2>3, <2>4, CallStep
<1>5. MutexFacts'
    BY <1>1, <1>3, <1>4, MutexWaiters, MutexKept DEF storage, SameCall
<1> QED BY <1>4, <1>5 DEF QueueInv

(* prvLockQueue and xTaskCheckForTimeOut.                                   *)
LEMMA LockQueueStep ==
    ASSUME QueueInv, NEW t \in Tasks, prvLockQueue(t)
    PROVE  QueueInv'
<1> DEFINE out == TimedOut(frame[t])
           f == IF out THEN NULL ELSE Adjusted(frame[t])
           at == IF out THEN "unlockTx" ELSE "look"
<1>1. /\ pxCurrentTCB = t /\ ~inISR /\ pc[t] = "lock" /\ pc' = [pc EXCEPT ![t] = at]
      /\ UNCHANGED StillVars
      /\ xRxLock' = (IF xRxLock = -1 THEN 0 ELSE xRxLock) /\ xTxLock' = (IF xTxLock = -1 THEN 0 ELSE xTxLock)
      /\ IF out THEN /\ SetFrame(t, NULL) /\ ret' = [ret EXCEPT ![t] = "user"]
                     /\ yieldAfter' = [yieldAfter EXCEPT ![t] = FALSE]
         ELSE SetFrame(t, Adjusted(frame[t])) /\ UNCHANGED <<ret, yieldAfter>>
      /\ UNCHANGED <<xYieldRequired, uxSchedulerSuspended, xMissedYield, storage,
                     pxMutexHolder, uxRecursiveCallCount>>
    BY DEF prvLockQueue, Running, GoTo, suspension, mutex, StillVars, queueUNLOCKED, queueLOCKED_UNMODIFIED
<1>2. /\ IsReady(t) /\ ~checkingDelayed /\ uxSchedulerSuspended = 1 /\ t # Idle
      /\ xTxLock' = 0 /\ xRxLock' = 0
    BY <1>1, Inside
<1>3. /\ frame[t] # NULL /\ frame[t].xEntryTimeSet /\ frame[t].xTicksToWait > 0 /\ frame[t] \in Frames
      /\ xTickCount \in Ticks
    <2>1. frame[t] # NULL /\ frame[t].xEntryTimeSet /\ frame[t].xTicksToWait > 0
        BY <1>1 DEF QueueInv, Framed, InLoop, GoingToWait
    <2> QED BY <2>1, Kept, Typed DEF QueueInv
<1> HIDE DEF out
<1>4. /\ f \in Frames \cup {NULL} /\ (out => f = NULL)
      /\ ~out => f \in Frames /\ f # NULL /\ f.op = frame[t].op /\ f.xEntryTimeSet /\ f.xTicksToWait > 0
    BY <1>3, AdjustedIt, FrameAssumption DEF out
<1>5. SetFrame(t, f)
    BY <1>1
<1> HIDE DEF f
<1>6. /\ frame' \in [Tasks -> Frames \cup {NULL}] /\ frame'[t] = f
      /\ \A u \in Tasks \ {t} : frame'[u] = frame[u]
    BY <1>4, <1>5, FrameSet DEF QueueInv
<1>7. /\ ret' \in [Tasks -> {"user", "top"}] /\ \A u \in Tasks \ {t} : ret'[u] = ret[u]
      /\ yieldAfter' \in [Tasks -> BOOLEAN] /\ (out => ret'[t] = "user")
    BY <1>1, Kept
<1>8. /\ TypeOK' /\ ListsGood' /\ EventsGood' /\ Waiters' /\ Control' /\ Locking' /\ Framed' /\ Present'
      /\ pc'[t] = at /\ \A u \in Tasks \ {t} : pc'[u] = pc[u]
      /\ UNCHANGED <<xLists, xEventLists, uxPriority, uxBasePriority, pxCurrentTCB>>
    <2>1. StorageTypeOK'
        BY <1>1, Kept DEF storage, StorageTypeOK
    <2>2. /\ at \in PcNames /\ at \in Suspending /\ (at \in GoingToWait <=> ~out)
          /\ at \in {"look", "unlockTx"} /\ (at = "unlockTx" <=> out)
        BY DEF PcNames, Suspending, GoingToWait
    <2> HIDE DEF at
    <2>3. LocalsTyped
        BY <1>1, <1>2, <1>6, <1>7, <2>1, Kept DEF LocalsTyped
    <2>4. Moves(t, at)
        BY <1>1, <1>2, <1>4, <1>6, <1>7, <2>2 DEF Moves, SameCall
    <2> QED BY <1>1, <2>2, <2>3, <2>4, CallStep
<1>9. MutexFacts'
    <2>1. at # "taken" /\ at # "inherit" /\ at # "place"
        OBVIOUS
    <2> HIDE DEF at
    <2>2. QueueIsMutex => pxMutexHolder # t /\ frame[t].op = "receive"
        BY <1>1, <1>3, MutexWaiters
    <2> QED BY <1>1, <1>4, <1>6, <1>8, <2>1, <2>2, MutexKept DEF storage, SameCall
<1> QED BY <1>8, <1>9 DEF QueueInv

(* The second look.                                                         *)
LEMMA LookAgainStep ==
    ASSUME QueueInv, NEW t \in Tasks, LookAgain(t)
    PROVE  QueueInv'
<1> DEFINE blocked == StillBlocked(t)
           at == IF ~blocked THEN "unlockTx" ELSE IF QueueIsMutex THEN "inherit" ELSE "place"
<1>1. /\ pxCurrentTCB = t /\ ~inISR /\ pc[t] = "look" /\ pc' = [pc EXCEPT ![t] = at]
      /\ UNCHANGED StillVars
      /\ ret' = [ret EXCEPT ![t] = "top"] /\ yieldAfter' = [yieldAfter EXCEPT ![t] = blocked]
      /\ UNCHANGED <<xYieldRequired, uxSchedulerSuspended, xMissedYield, storage, xRxLock, xTxLock,
                     pxMutexHolder, uxRecursiveCallCount, frame>>
    BY DEF LookAgain, Running, GoTo, suspension, queueVars, StillVars
<1>2. /\ IsReady(t) /\ ~checkingDelayed /\ uxSchedulerSuspended = 1 /\ t # Idle
      /\ xTxLock # -1 /\ xRxLock # -1
    BY <1>1, Inside
<1>3. frame[t] # NULL /\ frame[t].xEntryTimeSet /\ frame[t].xTicksToWait > 0
    BY <1>1 DEF QueueInv, Framed, InLoop, GoingToWait
<1>4. QueueIsMutex => pxMutexHolder # t /\ frame[t].op = "receive" /\ (blocked => uxMessagesWaiting = 0)
    BY <1>1, <1>3, MutexWaiters DEF StillBlocked, IsQueueEmpty
<1>5. blocked \in BOOLEAN
    BY DEF StillBlocked, IsQueueEmpty, IsQueueFull
<1> HIDE DEF blocked
<1>6. /\ ret' \in [Tasks -> {"user", "top"}] /\ \A u \in Tasks \ {t} : ret'[u] = ret[u]
      /\ ret'[t] = "top" /\ yieldAfter' \in [Tasks -> BOOLEAN] /\ yieldAfter'[t] = blocked
    BY <1>1, <1>5, Kept
<1>7. /\ at \in PcNames /\ at \in Suspending /\ at \in {"inherit", "place", "unlockTx"}
      /\ (at \in GoingToWait \/ at \in Leaving)
      /\ (at \in {"inherit", "place"} <=> blocked) /\ (at = "inherit" => QueueIsMutex)
    BY DEF PcNames, Suspending, GoingToWait, Leaving
<1> HIDE DEF at
<1>8. /\ TypeOK' /\ ListsGood' /\ EventsGood' /\ Waiters' /\ Control' /\ Locking' /\ Framed' /\ Present'
      /\ pc'[t] = at /\ \A u \in Tasks \ {t} : pc'[u] = pc[u]
      /\ UNCHANGED <<xLists, xEventLists, uxPriority, uxBasePriority, pxCurrentTCB>>
    <2>1. StorageTypeOK'
        BY <1>1, Kept DEF storage, StorageTypeOK
    <2>2. LocalsTyped
        BY <1>1, <1>2, <1>6, <2>1, Kept DEF LocalsTyped
    <2>3. Moves(t, at)
        BY <1>1, <1>2, <1>3, <1>6, <1>7 DEF Moves, SameCall
    <2> QED BY <1>1, <1>7, <2>2, <2>3, CallStep
<1>9. MutexFacts'
    BY <1>1, <1>3, <1>4, <1>7, <1>8, MutexKept DEF storage, SameCall
<1> QED BY <1>8, <1>9 DEF QueueInv

(* A task on its way out of a call with the mutex as it is.                 *)
LEMMA MutexLeaving ==
    ASSUME QueueInv, QueueIsMutex, NEW t \in Tasks, pc[t] \notin {"top", "taken"}
    PROVE  /\ pxMutexHolder = t /\ frame[t] = NULL => uxRecursiveCallCount > 0
           /\ frame[t] # NULL => pxMutexHolder # t /\ frame[t].op = "receive"
<1>1. MutexTrue /\ t # NULL
    BY Typed DEF QueueInv, MutexFacts
<1>2. frame[t] # NULL => pxMutexHolder # t /\ frame[t].op = "receive"
    BY MutexWaiters
<1> QED BY <1>1, <1>2 DEF MutexTrue, HolderCountsTrue

(* A task on its way out of a call is ready or will yield, and has a frame  *)
(* if it will come back to the loop.                                        *)
LEMMA LeavingFacts ==
    ASSUME QueueInv, NEW t \in Tasks, pxCurrentTCB = t, pc[t] \in Leaving
    PROVE  /\ t # Idle /\ (frame[t] # NULL <=> ret[t] = "top") /\ ret[t] \in {"user", "top"}
           /\ IsReady(t) \/ yieldAfter[t] \/ pc[t] \in {"yield", "yieldMasked"}
           /\ uxSchedulerSuspended = IF pc[t] \in {"unlockTx", "unlockRx", "resumeAll"} THEN 1 ELSE 0
           /\ pc[t] \notin {"top", "taken", "inherit"}
<1>1. ret[t] \in {"user", "top"}
    BY Kept
<1>2. frame[t] # NULL <=> ret[t] = "top"
    BY DEF QueueInv, Framed, InLoop, Leaving, GoingToWait
<1> QED BY <1>1, <1>2 DEF QueueInv, Present, Control, Leaving, Suspending

(* xTaskResumeAll, up to its loops.                                         *)
LEMMA ResumeAllStep ==
    ASSUME QueueInv, NEW t \in Tasks, xTaskResumeAll(t),
           UNCHANGED <<storage, xRxLock, xTxLock, pxMutexHolder, uxRecursiveCallCount>>,
           frame' \in [Tasks -> Frames \cup {NULL}], \A u \in Tasks : SameCall(frame[u], frame'[u])
    PROVE  QueueInv'
<1>1. /\ pxCurrentTCB = t /\ ~inISR /\ pc[t] = "resumeAll" /\ UNCHANGED StillVars
      /\ uxSchedulerSuspended' = uxSchedulerSuspended - 1
      /\ (IF uxSchedulerSuspended' = 0 THEN pc' = [pc EXCEPT ![t] = "drain"] ELSE ReturnNotYielded(t))
      /\ xYieldRequired' = FALSE /\ UNCHANGED <<xMissedYield, ret, yieldAfter>>
    BY DEF xTaskResumeAll, Running, GoTo, StillVars
<1>2. /\ t # Idle /\ (frame[t] # NULL <=> ret[t] = "top") /\ uxSchedulerSuspended = 1
      /\ IsReady(t) \/ yieldAfter[t]
    BY <1>1, LeavingFacts DEF Leaving
<1>3. ~checkingDelayed /\ xTxLock = -1 /\ xRxLock = -1
    BY <1>1, <1>2 DEF QueueInv, Control, Locking, queueUNLOCKED
<1>4. /\ TypeOK' /\ ListsGood' /\ EventsGood' /\ Waiters' /\ Control' /\ Locking' /\ Framed' /\ Present'
      /\ pc'[t] = "drain" /\ \A u \in Tasks \ {t} : pc'[u] = pc[u]
      /\ UNCHANGED <<xLists, xEventLists, uxPriority, uxBasePriority, pxCurrentTCB>>
    <2>1. StorageTypeOK'
        BY Kept DEF storage, StorageTypeOK
    <2>2. "drain" \in PcNames /\ "drain" \notin Suspending /\ "drain" \notin GoingToWait /\ "drain" \in Leaving
        BY DEF PcNames, Suspending, GoingToWait, Leaving
    <2>3. LocalsTyped
        <3>1. xYieldRequired' \in BOOLEAN
            BY <1>1
        <3>2. uxSchedulerSuspended' \in Nat
            BY <1>1, <1>2
        <3> QED BY <1>1, <2>1, <3>1, <3>2, Kept DEF LocalsTyped
    <2>4. Moves(t, "drain")
        BY <1>1, <1>2, <1>3, <2>2 DEF Moves, SameCall
    <2> QED BY <1>1, <2>2, <2>3, <2>4, CallStep
<1>5. MutexFacts'
    BY <1>1, <1>4, MutexLeaving, MutexKept DEF storage, SameCall
<1> QED BY <1>4, <1>5 DEF QueueInv

(* The end of xTaskResumeAll.                                               *)
LEMMA ResumeAllEndStep ==
    ASSUME QueueInv, NEW t \in Tasks, ResumeAllEnd(t),
           UNCHANGED <<storage, xRxLock, xTxLock, pxMutexHolder, uxRecursiveCallCount>>,
           frame' \in [Tasks -> Frames \cup {NULL}], \A u \in Tasks : SameCall(frame[u], frame'[u])
    PROVE  QueueInv'
<1> DEFINE at == IF xYieldRequired \/ xMissedYield THEN "yieldMasked"
                 ELSE IF yieldAfter[t] THEN "yield" ELSE ret[t]
<1>1. /\ pxCurrentTCB = t /\ ~inISR /\ ~checkingDelayed /\ pc[t] = "drain" /\ UNCHANGED StillVars
      /\ pc' = [pc EXCEPT ![t] = at] /\ xMissedYield' = FALSE
      /\ UNCHANGED <<uxSchedulerSuspended, xYieldRequired, ret, yieldAfter>>
    <2>1. xMissedYield \in BOOLEAN
        BY Kept
    <2> QED BY <2>1 DEF ResumeAllEnd, Running, GoTo, ReturnNotYielded, StillVars
<1>2. /\ t # Idle /\ (frame[t] # NULL <=> ret[t] = "top") /\ uxSchedulerSuspended = 0
      /\ IsReady(t) \/ (yieldAfter[t] /\ ret[t] \in {"user", "top"})
    BY <1>1, LeavingFacts DEF Leaving
<1>3. xTxLock = -1 /\ xRxLock = -1
    BY <1>1, <1>2 DEF QueueInv, Locking, queueUNLOCKED
<1>4. /\ at \in {"user", "top", "yield", "yieldMasked"} /\ at \in PcNames /\ at \notin Suspending
      /\ at \notin GoingToWait /\ (at \in Leaving <=> at \in {"yield", "yieldMasked"})
      /\ at \in {"user", "top"} => at = ret[t] /\ ~yieldAfter[t]
    BY Kept DEF PcNames, Suspending, GoingToWait, Leaving
<1> HIDE DEF at
<1>5. /\ TypeOK' /\ ListsGood' /\ EventsGood' /\ Waiters' /\ Control' /\ Locking' /\ Framed' /\ Present'
      /\ pc'[t] = at /\ \A u \in Tasks \ {t} : pc'[u] = pc[u]
      /\ UNCHANGED <<xLists, xEventLists, uxPriority, uxBasePriority, pxCurrentTCB>>
    <2>1. StorageTypeOK'
        BY Kept DEF storage, StorageTypeOK
    <2>2. LocalsTyped
        BY <1>1, <1>2, <2>1, Kept DEF LocalsTyped
    <2>3. Moves(t, at)
        BY <1>1, <1>2, <1>3, <1>4 DEF Moves, SameCall
    <2> QED BY <1>1, <1>4, <2>2, <2>3, CallStep
<1>6. MutexFacts'
    BY <1>1, <1>4, <1>5, MutexLeaving, MutexKept DEF storage, SameCall
<1> QED BY <1>5, <1>6 DEF QueueInv

(* vTaskDelay suspends the scheduler; vTaskDelay(0) only yields.            *)
LEMMA DelayStartStep ==
    ASSUME QueueInv, NEW t \in Tasks,
           \/ DelayStart(t)
           \/ /\ Caller(t) /\ uxSchedulerSuspended = 0 /\ YieldIf(t, TRUE)
              /\ UNCHANGED <<lists, items, priorities, clock, suspension, pxCurrentTCB, callFrame, interrupt>>,
           UNCHANGED queueVars
    PROVE  QueueInv'
<1> DEFINE at == IF pc'[t] = "delay" THEN "delay" ELSE "yield"
<1>1. /\ pxCurrentTCB = t /\ t # Idle /\ ~inISR /\ pc[t] = "user" /\ UNCHANGED StillVars
      /\ at \in {"delay", "yield"} /\ pc' = [pc EXCEPT ![t] = at]
      /\ uxSchedulerSuspended' = (IF at = "delay" THEN 1 ELSE 0)
      /\ ret' \in [Tasks -> {"user", "top"}] /\ \A u \in Tasks \ {t} : ret'[u] = ret[u]
      /\ (at = "yield" => ret'[t] = "user")
      /\ UNCHANGED <<yieldAfter, xYieldRequired, xMissedYield, storage, xRxLock, xTxLock,
                     pxMutexHolder, uxRecursiveCallCount, frame>>
    <2>1. CASE DelayStart(t)
        <3>1. pc' = [pc EXCEPT ![t] = "delay"]
            BY <2>1 DEF DelayStart, GoTo
        <3>2. at = "delay"
            BY <3>1, Kept
        <3> QED BY <2>1, <3>1, <3>2, Kept
                DEF DelayStart, Caller, Running, vTaskSuspendAll, callFrame, queueVars, StillVars
    <2>2. CASE YieldIf(t, TRUE) /\ ~DelayStart(t)
        <3>1. pc' = [pc EXCEPT ![t] = "yield"] /\ ret' = [ret EXCEPT ![t] = "user"]
            BY <2>2 DEF YieldIf, ReturnVia, GoTo
        <3>2. at = "yield" /\ ret' \in [Tasks -> {"user", "top"}] /\ ret'[t] = "user"
              /\ \A u \in Tasks \ {t} : ret'[u] = ret[u]
            BY <3>1, Kept
        <3> HIDE DEF at
        <3>3. Caller(t) /\ uxSchedulerSuspended = 0
              /\ UNCHANGED <<lists, items, priorities, clock, suspension, pxCurrentTCB, callFrame, interrupt>>
            BY <2>2
        <3> QED BY <3>1, <3>2, <3>3 DEF Caller, Running, callFrame, suspension, queueVars, StillVars
    <2> QED BY <2>1, <2>2
<1> HIDE DEF at
<1>2. /\ IsReady(t) /\ ~checkingDelayed /\ xTxLock = -1 /\ xRxLock = -1 /\ frame[t] = NULL
    BY <1>1, Outside DEF QueueInv, Framed, InLoop, GoingToWait, Leaving
<1>3. /\ at \in PcNames /\ (at \in Suspending <=> at = "delay") /\ at \notin GoingToWait
      /\ (at \in Leaving <=> at = "yield")
    BY <1>1 DEF PcNames, Suspending, GoingToWait, Leaving
<1>4. /\ TypeOK' /\ ListsGood' /\ EventsGood' /\ Waiters' /\ Control' /\ Locking' /\ Framed' /\ Present'
      /\ pc'[t] = at /\ \A u \in Tasks \ {t} : pc'[u] = pc[u]
      /\ UNCHANGED <<xLists, xEventLists, uxPriority, uxBasePriority, pxCurrentTCB>>
    <2>1. StorageTypeOK'
        BY <1>1, Kept DEF storage, StorageTypeOK
    <2>2. LocalsTyped
        BY <1>1, <2>1, Kept DEF LocalsTyped
    <2>3. Moves(t, at)
        BY <1>1, <1>2, <1>3 DEF Moves, SameCall
    <2> QED BY <1>1, <1>3, <2>2, <2>3, CallStep
<1>5. MutexFacts'
    BY <1>1, <1>2, <1>4, MutexLeaving, MutexKept DEF storage, SameCall
<1> QED BY <1>4, <1>5 DEF QueueInv

(* A task taken from list to list keeps the lists good.                     *)
LEMMA ListsTaken ==
    ASSUME ListsGood, NEW x \in Tasks, NEW l \in GenericLists, TakesTo(xLists, xLists', x, l),
           x = Idle => l = 0,
           \A t \in Tasks \ {x} : uxPriority'[t] = uxPriority[t],
           uxPriority'[Idle] = 0, uxBasePriority'[Idle] = 0,
           l \in Priorities => uxPriority'[x] = l /\ l <= uxTopReadyPriority',
           uxTopReadyPriority \in Nat, uxTopReadyPriority' \in Nat, uxTopReadyPriority <= uxTopReadyPriority'
    PROVE  /\ ListsGood' /\ xLists' \in [GenericLists -> Seq(Tasks)]
           /\ \A t \in Tasks \ {x} : /\ IsReady(t)' <=> IsReady(t)
                                     /\ IsDelayed(t)' <=> IsDelayed(t)
                                     /\ Blocked(t)' <=> Blocked(t)
                                     /\ In(t, xLists'[SuspendedTaskList]) <=> In(t, xLists[SuspendedTaskList])
           /\ IsReady(x)' <=> l \in Priorities
           /\ IsDelayed(x)' <=> l \in {DelayedTaskList, OverflowDelayedTaskList}
           /\ In(x, xLists'[SuspendedTaskList]) <=> l = SuspendedTaskList
<1>1. IsLists(xLists') /\ \A u \in Tasks : \A k \in GenericLists :
          In(u, xLists'[k]) <=> IF u = x THEN k = l ELSE In(u, xLists[k])
    BY DEF TakesTo
<1>2. ReadyByPriority'
    BY <1>1, ListNames DEF ListsGood, ReadyByPriority
<1>3. TopKnown'
    <2> SUFFICES ASSUME NEW p \in Priorities, xLists'[p] # <<>> PROVE p <= uxTopReadyPriority'
        BY DEF TopKnown
    <2>1. p \in GenericLists /\ p \in Nat
        BY ReadyListNames
    <2>2. PICK u \in Tasks : In(u, xLists'[p])
        BY <1>1, <2>1, HeadIn DEF IsLists
    <2>3. CASE u = x
        BY <1>1, <2>1, <2>2, <2>3
    <2>4. CASE u # x
        <3>1. In(u, xLists[p])
            BY <1>1, <2>1, <2>2, <2>4
        <3>2. xLists[p] # <<>>
            BY <2>1, <3>1, HeadIn DEF ListsGood, IsLists
        <3> QED BY <2>1, <3>2 DEF ListsGood, TopKnown
    <2> QED BY <2>3, <2>4
<1>4. In(Idle, xLists'[0])
    BY <1>1, ListNames, KernelAssumption DEF ListsGood, KernelAssumption
<1>5. \A t \in Tasks \ {x} : /\ IsReady(t)' <=> IsReady(t)
                             /\ IsDelayed(t)' <=> IsDelayed(t)
                             /\ Blocked(t)' <=> Blocked(t)
                             /\ In(t, xLists'[SuspendedTaskList]) <=> In(t, xLists[SuspendedTaskList])
    BY <1>1, ListNames DEF IsReady, IsDelayed, Blocked
<1>6. IsReady(x)' <=> l \in Priorities
    BY <1>1, ListNames DEF IsReady
<1>7. /\ IsDelayed(x)' <=> l \in {DelayedTaskList, OverflowDelayedTaskList}
      /\ In(x, xLists'[SuspendedTaskList]) <=> l = SuspendedTaskList
    BY <1>1, ListNames DEF IsDelayed
<1> QED BY <1>1, <1>2, <1>3, <1>4, <1>5, <1>6, <1>7 DEF ListsGood, IsLists

(* prvAddTaskToReadyQueue after a removal, for the priority the task has    *)
(* then.                                                                    *)
LEMMA ReadiedIt ==
    ASSUME TypeOK, ListsGood, NEW x \in Tasks, NEW p \in Priorities,
           prvAddTaskToReadyQueue(GenericRemoved(x), x, p),
           \A t \in Tasks \ {x} : uxPriority'[t] = uxPriority[t], uxPriority'[x] = p,
           x = Idle => p = 0, UNCHANGED uxBasePriority \/ (x # Idle /\ uxBasePriority'[Idle] = uxBasePriority[Idle])
    PROVE  /\ ListsGood' /\ xLists' \in [GenericLists -> Seq(Tasks)] /\ uxTopReadyPriority' \in Priorities
           /\ \A t \in Tasks \ {x} : /\ IsReady(t)' <=> IsReady(t)
                                     /\ IsDelayed(t)' <=> IsDelayed(t)
                                     /\ Blocked(t)' <=> Blocked(t)
                                     /\ In(t, xLists'[SuspendedTaskList]) <=> In(t, xLists[SuspendedTaskList])
           /\ IsReady(x)' /\ ~Blocked(x)'
<1>1. p \in GenericLists /\ p \in Nat /\ p \notin OtherLists /\ Idle \in Tasks
    BY ReadyListNames, Typed
<1>2. TakesTo(xLists, xLists', x, p)
    BY <1>1, AppendedIt DEF ListsGood, prvAddTaskToReadyQueue
<1>3. /\ uxTopReadyPriority \in Nat /\ uxTopReadyPriority' \in Nat /\ uxTopReadyPriority' \in Priorities
      /\ uxTopReadyPriority <= uxTopReadyPriority' /\ p <= uxTopReadyPriority'
    <2>1. uxTopReadyPriority' = IF p > uxTopReadyPriority THEN p ELSE uxTopReadyPriority
        BY DEF prvAddTaskToReadyQueue
    <2>2. uxTopReadyPriority \in Priorities /\ uxTopReadyPriority \in Nat
        BY Typed, ReadyListNames
    <2> QED BY <1>1, <2>1, <2>2
<1>4. uxPriority'[Idle] = 0 /\ uxBasePriority'[Idle] = 0
    BY <1>1 DEF ListsGood
<1>5. /\ ListsGood' /\ xLists' \in [GenericLists -> Seq(Tasks)]
      /\ \A t \in Tasks \ {x} : /\ IsReady(t)' <=> IsReady(t)
                                /\ IsDelayed(t)' <=> IsDelayed(t)
                                /\ Blocked(t)' <=> Blocked(t)
                                /\ In(t, xLists'[SuspendedTaskList]) <=> In(t, xLists[SuspendedTaskList])
      /\ IsReady(x)' <=> p \in Priorities
      /\ IsDelayed(x)' <=> p \in {DelayedTaskList, OverflowDelayedTaskList}
      /\ In(x, xLists'[SuspendedTaskList]) <=> p = SuspendedTaskList
    BY <1>1, <1>2, <1>3, <1>4, ListsTaken
<1>6. p # SuspendedTaskList /\ p \notin {DelayedTaskList, OverflowDelayedTaskList}
    BY <1>1 DEF OtherLists
<1> QED BY <1>3, <1>5, <1>6 DEF Blocked

(* xTaskRemoveFromEventList with the scheduler running, a round of          *)
(* prvCheckDelayedTasks and one of the first loop of xTaskResumeAll: a task *)
(* leaves the events and becomes ready.                                     *)
LEMMA Awoken ==
    ASSUME TypeOK, ListsGood, EventsGood, NEW x \in Tasks,
           prvAddTaskToReadyQueue(GenericRemoved(x), x, uxPriority[x]),
           xEventLists' = EventRemoved(x), UNCHANGED priorities
    PROVE  /\ ListsGood' /\ EventsGood' /\ uxTopReadyPriority' \in Priorities
           /\ xLists' \in [GenericLists -> Seq(Tasks)] /\ xEventLists' \in [ItemLists -> Seq(Tasks)]
           /\ \A t \in Tasks \ {x} : /\ IsReady(t)' <=> IsReady(t)
                                     /\ IsDelayed(t)' <=> IsDelayed(t)
                                     /\ In(t, xLists'[SuspendedTaskList]) <=> In(t, xLists[SuspendedTaskList])
           /\ IsReady(x)' /\ ~Blocked(x)'
           /\ \A t \in Tasks : \A e \in ItemLists : In(t, xEventLists'[e]) <=> t # x /\ In(t, xEventLists[e])
           /\ \A e \in ItemLists : xEventLists[e] = <<>> => xEventLists'[e] = <<>>
<1>1. uxPriority[x] \in Priorities /\ UNCHANGED <<uxPriority, uxBasePriority>>
    BY Typed DEF priorities
<1>2. x = Idle => uxPriority[x] = 0
    BY DEF ListsGood
<1>3. /\ ListsGood' /\ xLists' \in [GenericLists -> Seq(Tasks)] /\ uxTopReadyPriority' \in Priorities
      /\ \A t \in Tasks \ {x} : /\ IsReady(t)' <=> IsReady(t)
                                /\ IsDelayed(t)' <=> IsDelayed(t)
                                /\ Blocked(t)' <=> Blocked(t)
                                /\ In(t, xLists'[SuspendedTaskList]) <=> In(t, xLists[SuspendedTaskList])
      /\ IsReady(x)' /\ ~Blocked(x)'
    BY <1>1, <1>2, ReadiedIt
<1>4. /\ xEventLists' \in [ItemLists -> Seq(Tasks)]
      /\ \A e \in ItemLists :
           /\ Once(xEventLists'[e])
           /\ \A u \in Tasks : In(u, xEventLists'[e]) <=> u # x /\ In(u, xEventLists[e])
           /\ xEventLists[e] = <<>> => xEventLists'[e] = <<>>
    BY Typed, EventRemovedIt DEF EventsGood
<1>5. EventsGood'
    BY <1>3, <1>4 DEF EventsGood
<1> QED BY <1>3, <1>4, <1>5

(* Who still waits after a step that only wakes tasks waits as before.      *)
LEMMA WaitersKept ==
    ASSUME Waiters,
           \A t \in Tasks : \A e \in EventLists : In(t, xEventLists'[e]) =>
               /\ In(t, xEventLists[e])
               /\ frame'[t] # NULL /\ frame'[t].op = frame[t].op
               /\ frame'[t].xTicksToWait = frame[t].xTicksToWait
               /\ ret'[t] = ret[t] /\ pc'[t] \in Leaving \cup {"top"}
               /\ In(t, xLists[SuspendedTaskList]) => In(t, xLists'[SuspendedTaskList])
               /\ IsDelayed(t) => IsDelayed(t)'
    PROVE  Waiters'
BY DEF Waiters, IsSend

(* prvCopyDataToQueue and prvCopyDataFromQueue keep to the storage.         *)
LEMMA CopiesTyped ==
    ASSUME StorageTypeOK
    PROVE  /\ \A m \in Messages : ~IsQueueFull /\ (CopyToBack(m) \/ CopyToFront(m)) => StorageTypeOK'
           /\ ~IsQueueEmpty /\ CopyFrom => StorageTypeOK'
<1> USE StorageAssumption DEF StorageTypeOK, Slots
<1>1. ASSUME NEW m \in Messages, ~IsQueueFull, CopyToBack(m) PROVE StorageTypeOK'
    BY <1>1 DEF CopyToBack, Advance, IsQueueFull
<1>2. ASSUME NEW m \in Messages, ~IsQueueFull, CopyToFront(m) PROVE StorageTypeOK'
    BY <1>2 DEF CopyToFront, Retreat, IsQueueFull
<1>3. ASSUME ~IsQueueEmpty, CopyFrom PROVE StorageTypeOK'
    BY <1>3 DEF CopyFrom, Advance, IsQueueEmpty
<1> QED BY <1>1, <1>2, <1>3

(* A message is taken, or seen.                                             *)
LEMMA ReceiveNowStep ==
    ASSUME QueueInv, NEW t \in Tasks, ReceiveNow(t)
    PROVE  QueueInv'
<1> DEFINE peek == frame[t].op = "peek"
           next == IF peek THEN Waiting.receive ELSE Waiting.send
           done == IF QueueIsMutex THEN "taken" ELSE "user"
           at == IF xEventLists[next] = <<>> THEN done
                 ELSE IF peek THEN "wakeReceiver" ELSE "wakeSender"
<1>1. /\ pxCurrentTCB = t /\ ~inISR /\ pc[t] = "top" /\ pc' = [pc EXCEPT ![t] = at]
      /\ ~IsSend(t) /\ ~IsQueueEmpty
      /\ ret' = [ret EXCEPT ![t] = "user"]
      /\ SetFrame(t, NULL) /\ UNCHANGED StillVars
      /\ UNCHANGED <<yieldAfter, xYieldRequired, uxSchedulerSuspended, xMissedYield,
                     xRxLock, xTxLock, uxRecursiveCallCount>>
    BY DEF ReceiveNow, Running, ReturnVia, GoTo, calm, suspension, StillVars, locks
<1>2. /\ QueueIsMutex => /\ uxMessagesWaiting' = uxMessagesWaiting - 1 /\ pxMutexHolder' = t
                         /\ UNCHANGED <<pcSlots, pcWriteTo, pcReadFrom>>
      /\ ~QueueIsMutex => /\ (IF peek THEN UNCHANGED storage ELSE CopyFrom)
                          /\ UNCHANGED pxMutexHolder
    BY DEF ReceiveNow
<1>3. /\ IsReady(t) /\ ~checkingDelayed /\ uxSchedulerSuspended = 0 /\ xTxLock = -1 /\ xRxLock = -1
      /\ t # Idle
    BY <1>1, Outside
<1>4. frame[t] # NULL
    BY <1>1 DEF QueueInv, Framed, InLoop
<1>5. /\ frame' \in [Tasks -> Frames \cup {NULL}] /\ frame'[t] = NULL
      /\ \A u \in Tasks \ {t} : frame'[u] = frame[u]
    BY <1>1, FrameSet DEF QueueInv
<1>6. /\ ret' \in [Tasks -> {"user", "top"}] /\ \A u \in Tasks \ {t} : ret'[u] = ret[u]
    BY <1>1, Kept
<1>7. StorageTypeOK'
    <2>1. CASE QueueIsMutex
        BY <1>1, <1>2, <2>1, Kept, Typed DEF QueueInv, StorageTypeOK, IsQueueEmpty
    <2>2. CASE ~QueueIsMutex /\ peek
        BY <1>2, <2>2, Kept DEF StorageTypeOK, storage
    <2>3. CASE ~QueueIsMutex /\ ~peek
        BY <1>1, <1>2, <2>3, Kept, CopiesTyped
    <2> QED BY <2>1, <2>2, <2>3
<1>8. QueueIsMutex =>
          /\ MutexTrue /\ frame[t].op = "receive" /\ pxMutexHolder = NULL /\ uxRecursiveCallCount = 0
          /\ at = "taken" /\ uxMessagesWaiting = 1
    <2> SUFFICES ASSUME QueueIsMutex
                 PROVE  /\ MutexTrue /\ frame[t].op = "receive" /\ pxMutexHolder = NULL
                        /\ uxRecursiveCallCount = 0 /\ at = "taken" /\ uxMessagesWaiting = 1
        OBVIOUS
    <2>1. MutexTrue
        BY DEF QueueInv, MutexFacts
    <2>2. frame[t].op = "receive"
        BY <1>1, <1>4, <2>1 DEF MutexTrue
    <2>3. at = "taken"
        BY <2>1, <2>2 DEF MutexTrue
    <2> QED BY <1>1, <2>1, <2>2, <2>3 DEF MutexTrue, HolderCountsTrue, IsQueueEmpty
<1>9. /\ at \in PcNames /\ at \notin Suspending /\ at \notin GoingToWait /\ at \notin Leaving
      /\ at \in {"user", "taken", "wakeReceiver", "wakeSender"}
      /\ (at = "wakeReceiver" => xEventLists[Waiting.receive] # <<>>)
      /\ (at = "wakeSender" => xEventLists[Waiting.send] # <<>>)
      /\ (at = "taken" => QueueIsMutex)
    BY DEF PcNames, Suspending, GoingToWait, Leaving
<1> HIDE DEF at, peek, next, done
<1>10. /\ TypeOK' /\ ListsGood' /\ EventsGood' /\ Waiters' /\ Control' /\ Locking' /\ Framed' /\ Present'
       /\ pc'[t] = at /\ \A u \in Tasks \ {t} : pc'[u] = pc[u]
       /\ UNCHANGED <<xLists, xEventLists, uxPriority, uxBasePriority, pxCurrentTCB>>
    <2>1. pxMutexHolder' \in Tasks \cup {NULL}
        BY <1>2, Kept
    <2>2. LocalsTyped
        BY <1>1, <1>5, <1>6, <1>7, <2>1, Kept DEF LocalsTyped
    <2>3. Moves(t, at)
        BY <1>1, <1>3, <1>5, <1>6, <1>9 DEF Moves, SameCall
    <2> QED BY <1>1, <1>9, <2>2, <2>3, CallStep
<1>11. MutexFacts'
    <2>1. CASE QueueIsMutex
        <3>1. HolderCountsTrue'
            <4>1. uxMessagesWaiting' = 0 /\ pxMutexHolder' = t /\ t # NULL /\ pc'[t] = "taken"
                BY <1>2, <1>8, <1>10, <2>1, Typed DEF QueueInv
            <4>2. \A u \in Tasks \ {t} : pc'[u] # "taken"
                BY <1>8, <1>10, <2>1, Typed DEF MutexTrue, HolderCountsTrue, QueueInv
            <4> QED BY <1>1, <1>8, <2>1, <4>1, <4>2 DEF HolderCountsTrue
        <3>2. InheritedOnlyByHolder'
            BY <1>8, <1>10, <2>1, Typed DEF MutexTrue, InheritedOnlyByHolder, QueueInv
        <3>3. \A u \in Tasks : frame'[u] # NULL => u # pxMutexHolder' /\ frame'[u].op = "receive"
            BY <1>2, <1>5, <1>8, <2>1, Typed DEF MutexTrue, QueueInv
        <3>4. MutexTrue'
            <4>1. /\ uxMessagesWaiting' \in {0, 1} /\ pxMutexHolder' # NULL /\ xEventLists'[Waiting.send] = <<>>
                  /\ pc'[pxCurrentTCB'] \notin {"inherit", "place"}
                BY <1>2, <1>8, <1>9, <1>10, <1>1, <2>1, Typed DEF MutexTrue, QueueInv
            <4> QED BY <3>1, <3>2, <3>3, <4>1 DEF MutexTrue
        <3> QED BY <1>2, <1>3, <2>1, <3>4 DEF MutexFacts
    <2>2. CASE ~QueueIsMutex
        <3>1. pxMutexHolder' = NULL /\ uxPriority' = uxBasePriority' /\ uxRecursiveCallCount' = 0
              /\ pc'[pxCurrentTCB'] # "inherit" /\ pxMutexHolder' # Idle
            BY <1>1, <1>2, <1>9, <1>10, <2>2 DEF QueueInv, MutexFacts, NoMutex
        <3>2. \A u \in Tasks : pc'[u] # "taken"
            BY <1>9, <1>10, <2>2 DEF QueueInv, MutexFacts, NoMutex
        <3> QED BY <2>2, <3>1, <3>2 DEF MutexFacts, NoMutex
    <2> QED BY <2>1, <2>2
<1> QED BY <1>10, <1>11 DEF QueueInv

(* The types of what the calls and the clock leave.                         *)
LEMMA TypesKept ==
    ASSUME TypeOK, LocalsTyped, pc' \in [Tasks -> PcNames],
           xLists' \in [GenericLists -> Seq(Tasks)], xEventLists' \in [ItemLists -> Seq(Tasks)],
           xTimeToWake' \in [Tasks -> Ticks], due' \in [Tasks -> Int],
           xEventValue' \in [Tasks -> 1..configMAX_PRIORITIES],
           uxPriority' \in [Tasks -> Priorities], uxBasePriority' \in [Tasks -> Priorities],
           uxTopReadyPriority' \in Priorities,
           xTickCount' \in Ticks, uxMissedTicks' \in Nat, xNextTaskUnblockTime' \in Ticks,
           pxCurrentTCB' \in Tasks, inISR' \in BOOLEAN, checkingDelayed' \in BOOLEAN
    PROVE  TypeOK'
<1>1. KernelTypeOK'
    BY DEF KernelTypeOK, LocalsTyped
<1> QED BY <1>1 DEF TypeOK, PcNames, queueUNLOCKED, LocalsTyped

(* The event value of a priority.                                           *)
LEMMA EventValueTyped ==
    ASSUME NEW p \in Priorities
    PROVE  configMAX_PRIORITIES - p \in 1..configMAX_PRIORITIES
BY KernelAssumption DEF KernelAssumption, Priorities

(* A message, or the mutex, is given.                                       *)
LEMMA SendNowStep ==
    ASSUME QueueInv, NEW t \in Tasks, SendNow(t)
    PROVE  QueueInv'
<1> DEFINE at == IF xEventLists[Waiting.receive] # <<>> THEN "wakeReceiver" ELSE "user"
<1>1. /\ pxCurrentTCB = t /\ ~inISR /\ pc[t] = "top" /\ pc' = [pc EXCEPT ![t] = at]
      /\ IsSend(t) /\ ~IsQueueFull /\ prvCopyDataToQueue(frame[t].op, frame[t].msg)
      /\ ret' = [ret EXCEPT ![t] = "user"]
      /\ SetFrame(t, NULL)
      /\ UNCHANGED <<xEventLists, uxBasePriority, items, clock, pxCurrentTCB, interrupt>>
      /\ UNCHANGED <<yieldAfter, xYieldRequired, uxSchedulerSuspended, xMissedYield,
                     xRxLock, xTxLock, uxRecursiveCallCount>>
    BY DEF SendNow, Running, ReturnVia, GoTo, calm, suspension, locks
<1>2. /\ IsReady(t) /\ ~checkingDelayed /\ uxSchedulerSuspended = 0 /\ xTxLock = -1 /\ xRxLock = -1
      /\ t # Idle
    BY <1>1, Outside
<1>3. frame[t] # NULL /\ frame[t] \in Frames
    <2>1. frame[t] # NULL
        BY <1>1 DEF QueueInv, Framed, InLoop
    <2> QED BY <2>1, Kept
<1>4. /\ frame' \in [Tasks -> Frames \cup {NULL}] /\ frame'[t] = NULL
      /\ \A u \in Tasks \ {t} : frame'[u] = frame[u]
    BY <1>1, FrameSet DEF QueueInv
<1>5. /\ ret' \in [Tasks -> {"user", "top"}] /\ \A u \in Tasks \ {t} : ret'[u] = ret[u]
    BY <1>1, Kept
<1>6. /\ at \in PcNames /\ at \notin Suspending /\ at \notin GoingToWait /\ at \notin Leaving
      /\ at \in {"user", "wakeReceiver"}
      /\ (at = "wakeReceiver" => xEventLists[Waiting.receive] # <<>>)
    BY DEF PcNames, Suspending, GoingToWait, Leaving
<1> HIDE DEF at
<1>7. CASE ~QueueIsMutex
    <2>1. /\ UNCHANGED StillVars /\ UNCHANGED pxMutexHolder
          /\ CopyToBack(frame[t].msg) \/ CopyToFront(frame[t].msg)
        BY <1>1, <1>7 DEF prvCopyDataToQueue, StillVars, lists, priorities
    <2>2. StorageTypeOK'
        BY <1>1, <1>3, <2>1, FrameFields, Kept, CopiesTyped
    <2>3. /\ TypeOK' /\ ListsGood' /\ EventsGood' /\ Waiters' /\ Control' /\ Locking' /\ Framed' /\ Present'
          /\ pc'[t] = at /\ \A u \in Tasks \ {t} : pc'[u] = pc[u]
          /\ UNCHANGED <<xLists, xEventLists, uxPriority, uxBasePriority, pxCurrentTCB>>
        <3>1. LocalsTyped
            BY <1>1, <1>4, <1>5, <2>1, <2>2, Kept DEF LocalsTyped
        <3>2. Moves(t, at)
            BY <1>1, <1>2, <1>4, <1>5, <1>6 DEF Moves, SameCall
        <3> QED BY <1>6, <2>1, <3>1, <3>2, CallStep
    <2>4. MutexFacts'
        <3>1. pxMutexHolder' = NULL /\ uxPriority' = uxBasePriority' /\ uxRecursiveCallCount' = 0
              /\ pc'[pxCurrentTCB'] # "inherit" /\ pxMutexHolder' # Idle
            BY <1>1, <1>6, <1>7, <2>1, <2>3 DEF QueueInv, MutexFacts, NoMutex
        <3>2. \A u \in Tasks : pc'[u] # "taken"
            BY <1>6, <1>7, <2>3 DEF QueueInv, MutexFacts, NoMutex
        <3> QED BY <1>7, <3>1, <3>2 DEF MutexFacts, NoMutex
    <2> QED BY <2>3, <2>4 DEF QueueInv
<1>8. CASE QueueIsMutex
    <2>1. MutexTrue /\ t = pxMutexHolder /\ uxMessagesWaiting = 0 /\ uxRecursiveCallCount = 0
        <3>1. MutexTrue
            BY <1>8 DEF QueueInv, MutexFacts
        <3>2. t = pxMutexHolder
            BY <1>1, <1>3, <3>1 DEF MutexTrue, IsSend, SendOps
        <3> QED BY <1>3, <3>1, <3>2, Typed DEF MutexTrue, HolderCountsTrue, QueueInv
    <2>2. /\ uxMessagesWaiting' = 1 /\ pxMutexHolder' = NULL /\ vTaskPriorityDisinherit(t)
          /\ UNCHANGED <<pcSlots, pcWriteTo, pcReadFrom>>
        BY <1>1, <1>8, <2>1, Typed DEF prvCopyDataToQueue, ReleaseHolder, QueueInv
    <2>3. StorageTypeOK'
        BY <1>1, <2>1, <2>2, Kept, Typed DEF QueueInv, StorageTypeOK, IsQueueFull
    <2>4. LocalsTyped
        BY <1>1, <1>4, <1>5, <2>2, <2>3, Kept DEF LocalsTyped
    <2>5. Moves(t, at)
        BY <1>1, <1>2, <1>4, <1>5, <1>6 DEF Moves, SameCall
    <2>6. /\ ListsGood' /\ xLists' \in [GenericLists -> Seq(Tasks)] /\ uxTopReadyPriority' \in Priorities
          /\ \A u \in Tasks \ {t} : /\ IsReady(u)' <=> IsReady(u)
                                    /\ IsDelayed(u)' <=> IsDelayed(u)
                                    /\ Blocked(u)' <=> Blocked(u)
                                    /\ In(u, xLists'[SuspendedTaskList]) <=> In(u, xLists[SuspendedTaskList])
          /\ IsReady(t)'
          /\ uxPriority' \in [Tasks -> Priorities] /\ xEventValue' \in [Tasks -> 1..configMAX_PRIORITIES]
          /\ uxPriority'[t] = uxBasePriority[t] /\ \A u \in Tasks \ {t} : uxPriority'[u] = uxPriority[u]
        <3>1. CASE uxPriority[t] = uxBasePriority[t]
            <4>1. UNCHANGED <<xLists, xEventLists, uxTopReadyPriority, uxPriority, uxBasePriority, xEventValue>>
                BY <1>1, <2>2, <3>1 DEF vTaskPriorityDisinherit
            <4>2. /\ ListsGood' /\ \A u \in Tasks : (IsReady(u)' <=> IsReady(u)) /\ (Blocked(u)' <=> Blocked(u))
                                                   /\ (IsDelayed(u)' <=> IsDelayed(u))
                BY <4>1, FrameKeeps DEF QueueInv, lists, priorities
            <4> QED BY <1>2, <3>1, <4>1, <4>2, Typed DEF QueueInv
        <3>2. CASE uxPriority[t] # uxBasePriority[t]
            <4> DEFINE p == uxBasePriority[t]
            <4>1. /\ uxPriority' = [uxPriority EXCEPT ![t] = p]
                  /\ xEventValue' = [xEventValue EXCEPT ![t] = configMAX_PRIORITIES - p]
                  /\ prvAddTaskToReadyQueue(GenericRemoved(t), t, p)
                BY <2>2, <3>2 DEF vTaskPriorityDisinherit
            <4>2. p \in Priorities
                BY Typed DEF QueueInv
            <4> HIDE DEF p
            <4>3. /\ uxPriority' \in [Tasks -> Priorities] /\ uxPriority'[t] = p
                  /\ \A u \in Tasks \ {t} : uxPriority'[u] = uxPriority[u]
                  /\ xEventValue' \in [Tasks -> 1..configMAX_PRIORITIES]
                BY <4>1, <4>2, EventValueTyped, Typed DEF QueueInv
            <4>4. /\ ListsGood' /\ xLists' \in [GenericLists -> Seq(Tasks)] /\ uxTopReadyPriority' \in Priorities
                  /\ \A u \in Tasks \ {t} : /\ IsReady(u)' <=> IsReady(u)
                                            /\ IsDelayed(u)' <=> IsDelayed(u)
                                            /\ Blocked(u)' <=> Blocked(u)
                                            /\ In(u, xLists'[SuspendedTaskList]) <=> In(u, xLists[SuspendedTaskList])
                  /\ IsReady(t)' /\ ~Blocked(t)'
                BY <1>1, <1>2, <4>1, <4>2, <4>3, ReadiedIt DEF QueueInv
            <4> QED BY <4>3, <4>4 DEF p
        <3> QED BY <3>1, <3>2
    <2>7. \A e \in ItemLists : ~In(t, xEventLists[e])
        BY <1>1, CurrentReady DEF Leaving
    <2>8. EventsGood'
        BY <1>1, <2>6, <2>7 DEF QueueInv, EventsGood
    <2>9. /\ Control' /\ Locking' /\ Framed' /\ Present'
          /\ pc' \in [Tasks -> PcNames] /\ pc'[t] = at /\ \A u \in Tasks \ {t} : pc'[u] = pc[u]
        BY <1>1, <1>6, <2>4, <2>5, <2>6, MovesOn
    <2>10. Waiters'
        <3> SUFFICES ASSUME NEW u \in Tasks, NEW e \in EventLists, In(u, xEventLists[e])
                     PROVE  /\ frame'[u] # NULL /\ frame'[u].op = frame[u].op
                            /\ frame'[u].xTicksToWait = frame[u].xTicksToWait
                            /\ ret'[u] = ret[u] /\ pc'[u] \in Leaving \cup {"top"}
                            /\ In(u, xLists[SuspendedTaskList]) => In(u, xLists'[SuspendedTaskList])
                            /\ IsDelayed(u) => IsDelayed(u)'
            BY <1>1, WaitersKept DEF QueueInv
        <3>1. u # t
            BY <2>7, EventNames
        <3> QED BY <1>4, <1>5, <2>6, <2>9, <3>1 DEF QueueInv, Waiters
    <2>11. TypeOK'
        BY <1>1, <2>4, <2>6, <2>9, TypesKept, Typed DEF QueueInv, items, clock, interrupt
    <2>12. MutexFacts'
        <3>1. \A u \in Tasks : pc'[u] # "taken"
            BY <1>1, <1>6, <2>1, <2>9 DEF MutexTrue, HolderCountsTrue
        <3>2. HolderCountsTrue'
            BY <2>2, <3>1 DEF HolderCountsTrue
        <3>3. InheritedOnlyByHolder'
            BY <1>1, <2>1, <2>6 DEF MutexTrue, InheritedOnlyByHolder
        <3>4. \A u \in Tasks : frame'[u] # NULL => u # pxMutexHolder' /\ frame'[u].op = "receive"
            BY <1>4, <2>1, <2>2, Typed DEF MutexTrue, QueueInv
        <3>5. /\ uxRecursiveCallCount' = 0 /\ xEventLists'[Waiting.send] = <<>>
              /\ pc'[pxCurrentTCB'] \notin {"inherit", "place"}
            BY <1>1, <1>6, <2>1, <2>9 DEF MutexTrue
        <3>6. MutexTrue'
            BY <2>2, <3>2, <3>3, <3>4, <3>5 DEF MutexTrue
        <3>7. NULL # Idle
            BY Typed DEF QueueInv
        <3> QED BY <1>8, <2>2, <3>6, <3>7 DEF MutexFacts
    <2> QED BY <2>6, <2>8, <2>9, <2>10, <2>11, <2>12 DEF QueueInv
<1> QED BY <1>7, <1>8

(* The steps that move no task in its code: those of interrupts, of the     *)
(* clock, and of the loops of xTaskResumeAll and prvCheckDelayedTasks.      *)
StaysTyped ==
    /\ xLists' \in [GenericLists -> Seq(Tasks)] /\ xEventLists' \in [ItemLists -> Seq(Tasks)]
    /\ due' \in [Tasks -> Int] /\ uxTopReadyPriority' \in Priorities
    /\ xTickCount' \in Ticks /\ uxMissedTicks' \in Nat /\ xNextTaskUnblockTime' \in Ticks
    /\ xYieldRequired' \in BOOLEAN /\ xMissedYield' \in BOOLEAN
    /\ inISR' \in BOOLEAN /\ checkingDelayed' \in BOOLEAN
    /\ StorageTypeOK' /\ frame' \in [Tasks -> Frames \cup {NULL}]
    /\ xTxLock' \in Nat \cup {-1} /\ xRxLock' \in Nat \cup {-1}

StaysVars == <<pc, ret, yieldAfter, pxCurrentTCB, priorities, uxSchedulerSuspended, xTimeToWake,
               pxMutexHolder, uxRecursiveCallCount>>

Stays ==
    /\ UNCHANGED StaysVars /\ ListsGood' /\ EventsGood'
    /\ \A t \in Tasks : SameCall(frame[t], frame'[t])
    /\ \A t \in Tasks : IsReady(t) => IsReady(t)'
    /\ \A t \in Tasks : \A e \in EventLists : In(t, xEventLists'[e]) =>
          /\ In(t, xEventLists[e])
          /\ In(t, xLists[SuspendedTaskList]) => In(t, xLists'[SuspendedTaskList])
          /\ IsDelayed(t) => IsDelayed(t)'
    /\ pc[pxCurrentTCB] \in {"wakeReceiver", "wakeSender"} => UNCHANGED xEventLists
    /\ xEventLists[Waiting.send] = <<>> => xEventLists'[Waiting.send] = <<>>
    /\ xTxLock' = -1 <=> xTxLock = -1
    /\ xRxLock' = -1 <=> xRxLock = -1
    /\ inISR' => pc[pxCurrentTCB] \notin Masked
    /\ checkingDelayed' => /\ uxSchedulerSuspended = 0
                           /\ inISR' \/ (pc[pxCurrentTCB] = "drain" /\ xYieldRequired')
    /\ QueueIsMutex => UNCHANGED uxMessagesWaiting

(* A step of an interrupt that moves no task to another place of its code   *)
(* keeps the invariant.                                                     *)
LEMMA StaysStep ==
    ASSUME QueueInv, StaysTyped, Stays
    PROVE  QueueInv'
<1> USE DEF Stays
<1>1. /\ UNCHANGED <<pc, ret, yieldAfter, pxCurrentTCB, uxPriority, uxBasePriority, xEventValue,
                     uxSchedulerSuspended, xTimeToWake, pxMutexHolder, uxRecursiveCallCount>>
    BY DEF StaysVars, priorities
<1>2. TypeOK'
    <2>1. LocalsTyped
        BY <1>1, Kept DEF LocalsTyped, StaysTyped
    <2> QED BY <1>1, <2>1, Kept, Typed, TypesKept DEF QueueInv, StaysTyped
<1>3. Control'
    BY <1>1 DEF QueueInv, Control
<1>4. Locking'
    BY <1>1 DEF QueueInv, Locking, queueUNLOCKED
<1>5. Framed'
    <2>1. \A t \in Tasks : pc[t] \in GoingToWait => frame[t] # NULL
        BY DEF QueueInv, Framed, InLoop
    <2>2. \A t \in Tasks : InLoop(t)' <=> InLoop(t)
        BY <1>1 DEF InLoop
    <2> QED BY <1>1, <2>1, <2>2 DEF QueueInv, Framed, SameCall
<1>6. Waiters'
    <2> SUFFICES ASSUME NEW t \in Tasks, NEW e \in EventLists, In(t, xEventLists'[e])
                 PROVE  /\ frame'[t] # NULL /\ IsSend(t)' = (e = Waiting.send)
                        /\ ret'[t] = "top" /\ pc'[t] \in Leaving \cup {"top"}
                        /\ IF frame'[t].xTicksToWait = portMAX_DELAY
                           THEN In(t, xLists'[SuspendedTaskList]) ELSE IsDelayed(t)'
        BY DEF Waiters
    <2>1. /\ frame[t] # NULL /\ IsSend(t) = (e = Waiting.send)
          /\ ret[t] = "top" /\ pc[t] \in Leaving \cup {"top"}
          /\ IF frame[t].xTicksToWait = portMAX_DELAY
             THEN In(t, xLists[SuspendedTaskList]) ELSE IsDelayed(t)
        BY DEF QueueInv, Waiters
    <2> QED BY <1>1, <2>1 DEF IsSend, SameCall
<1>7. Present'
    <2>1. pxCurrentTCB \in Tasks
        BY Kept
    <2> QED BY <1>1, <2>1 DEF QueueInv, Present
<1>8. MutexFacts'
    <2>1. CASE QueueIsMutex
        <3>1. MutexTrue /\ UNCHANGED uxMessagesWaiting
            BY <2>1 DEF QueueInv, MutexFacts
        <3>2. HolderCountsTrue'
            <4>1. pxMutexHolder # NULL => (frame'[pxMutexHolder] = NULL <=> frame[pxMutexHolder] = NULL)
                BY Kept DEF SameCall
            <4> QED BY <1>1, <3>1, <4>1 DEF MutexTrue, HolderCountsTrue
        <3>3. InheritedOnlyByHolder'
            BY <1>1, <3>1 DEF MutexTrue, InheritedOnlyByHolder
        <3>4. \A t \in Tasks : frame'[t] # NULL =>
                  IF t = pxMutexHolder
                  THEN /\ frame'[t].op \in SendOps /\ frame'[t].xTicksToWait = 0 /\ pc[t] = "top"
                       /\ uxRecursiveCallCount = 0
                  ELSE frame'[t].op = "receive"
            BY <3>1 DEF MutexTrue, SameCall, IsSend
        <3>5. MutexTrue'
            BY <1>1, <3>1, <3>2, <3>3, <3>4 DEF MutexTrue, IsSend
        <3> QED BY <1>1, <2>1, <3>5 DEF QueueInv, MutexFacts
    <2>2. CASE ~QueueIsMutex
        BY <1>1, <2>2 DEF QueueInv, MutexFacts, NoMutex
    <2> QED BY <2>1, <2>2
<1> QED BY <1>2, <1>3, <1>4, <1>5, <1>6, <1>7, <1>8 DEF QueueInv

(* A task becomes ready in such a step.                                     *)
LEMMA WokenStep ==
    ASSUME QueueInv, NEW x \in Tasks,
           prvAddTaskToReadyQueue(GenericRemoved(x), x, uxPriority[x]), xEventLists' = EventRemoved(x),
           UNCHANGED StaysVars,
           \A t \in Tasks : SameCall(frame[t], frame'[t]), frame' \in [Tasks -> Frames \cup {NULL}],
           pc[pxCurrentTCB] \notin {"wakeReceiver", "wakeSender"},
           xTxLock' \in Nat \cup {-1}, xRxLock' \in Nat \cup {-1},
           xTxLock' = -1 <=> xTxLock = -1, xRxLock' = -1 <=> xRxLock = -1,
           inISR' \in BOOLEAN, inISR' => pc[pxCurrentTCB] \notin Masked,
           checkingDelayed' \in BOOLEAN,
           checkingDelayed' => /\ uxSchedulerSuspended = 0
                               /\ inISR' \/ (pc[pxCurrentTCB] = "drain" /\ xYieldRequired'),
           QueueIsMutex => UNCHANGED uxMessagesWaiting, StorageTypeOK',
           UNCHANGED <<due, clock, xMissedYield>>, xYieldRequired' \in BOOLEAN
    PROVE  QueueInv'
<1>1. TypeOK /\ ListsGood /\ EventsGood /\ UNCHANGED priorities
    BY DEF QueueInv, StaysVars
<1>2. /\ ListsGood' /\ EventsGood' /\ uxTopReadyPriority' \in Priorities
      /\ xLists' \in [GenericLists -> Seq(Tasks)] /\ xEventLists' \in [ItemLists -> Seq(Tasks)]
      /\ \A t \in Tasks \ {x} : /\ IsReady(t)' <=> IsReady(t)
                                /\ IsDelayed(t)' <=> IsDelayed(t)
                                /\ In(t, xLists'[SuspendedTaskList]) <=> In(t, xLists[SuspendedTaskList])
      /\ IsReady(x)' /\ ~Blocked(x)'
      /\ \A t \in Tasks : \A e \in ItemLists : In(t, xEventLists'[e]) <=> t # x /\ In(t, xEventLists[e])
      /\ \A e \in ItemLists : xEventLists[e] = <<>> => xEventLists'[e] = <<>>
    BY <1>1, Awoken
<1>3. StaysTyped
    BY <1>2, Typed DEF StaysTyped, QueueInv, clock
<1>4. Stays
    BY <1>2, EventNames DEF Stays
<1> QED BY <1>3, <1>4, StaysStep
(* What a tick interrupt or the clock does to a frame leaves the call as it *)
(* is.                                                                      *)
LEMMA AgedIt ==
    ASSUME frame \in [Tasks -> Frames \cup {NULL}], NEW ticked \in BOOLEAN,
           frame' = [t \in Tasks |-> Aged(frame[t], ticked)]
    PROVE  /\ frame' \in [Tasks -> Frames \cup {NULL}]
           /\ \A t \in Tasks : SameCall(frame[t], frame'[t])
<1>1. ASSUME NEW f \in Frames
      PROVE  Aged(f, ticked) \in Frames /\ SameCall(f, Aged(f, ticked))
    <2> DEFINE n == IF ticked /\ f.left > 0 THEN f.left - 1 ELSE f.left
               w == f.xEntryTimeSet /\ (f.wrapped \/ xTickCount' < xTickCount)
    <2>1. f # NULL /\ f.left \in Nat
        BY FrameFields
    <2>2. Aged(f, ticked) = [f EXCEPT !.left = n, !.wrapped = w]
        BY <2>1 DEF Aged
    <2>3. n \in Nat
        BY <2>1
    <2>4. w \in BOOLEAN
        BY FrameFields
    <2> HIDE DEF n, w
    <2>5. Aged(f, ticked) \in Frames
        BY <2>2, <2>3, <2>4 DEF Frames
    <2> QED BY <2>1, <2>2, <2>5, FrameAssumption DEF SameCall, Frames
<1>2. Aged(NULL, ticked) = NULL /\ SameCall(NULL, NULL)
    BY DEF Aged, SameCall
<1> QED BY <1>1, <1>2

(* A waiting task is woken in the critical section of its waker.            *)
LEMMA WakeWaiterStep ==
    ASSUME QueueInv, NEW t \in Tasks, WakeWaiter(t)
    PROVE  QueueInv'
<1>1. PICK e \in {Waiting.send, Waiting.receive} :
          /\ Running(t, IF e = Waiting.receive THEN "wakeReceiver" ELSE "wakeSender")
          /\ xTaskRemoveFromEventList(e)
          /\ YieldMaskedIf(t, HeadOutranksCurrent(e))
          /\ UNCHANGED <<priorities, calm, queueVars>>
    BY DEF WakeWaiter
<1> DEFINE at == IF HeadOutranksCurrent(e) THEN "yieldMasked" ELSE "user"
<1>2. /\ pxCurrentTCB = t /\ ~inISR /\ pc[t] \in {"wakeReceiver", "wakeSender"}
      /\ pc' = [pc EXCEPT ![t] = at] /\ ret' = [ret EXCEPT ![t] = "user"]
      /\ e \in EventLists /\ e \in ItemLists
      /\ UNCHANGED <<items, clock, pxCurrentTCB, interrupt, yieldAfter, xYieldRequired, xMissedYield,
                     uxSchedulerSuspended, storage, xRxLock, xTxLock, pxMutexHolder,
                     uxRecursiveCallCount, frame, priorities>>
    BY <1>1, EventNames
       DEF Running, YieldMaskedIf, ReturnVia, GoTo, calm, suspension, queueVars
<1>3. /\ IsReady(t) /\ ~checkingDelayed /\ uxSchedulerSuspended = 0 /\ xTxLock = -1 /\ xRxLock = -1
      /\ t # Idle /\ frame[t] = NULL /\ xEventLists[e] # <<>>
      /\ \A f \in ItemLists : ~In(t, xEventLists[f])
    <2>1. pc[t] = IF e = Waiting.receive THEN "wakeReceiver" ELSE "wakeSender"
        BY <1>1 DEF Running
    <2>2. xEventLists[e] # <<>>
        BY <1>1, <1>2, <2>1, EventNames DEF QueueInv, Locking
    <2> QED BY <1>2, <2>2, CurrentReady
            DEF QueueInv, Control, Leaving, Locking, Suspending, queueUNLOCKED, Masked, Framed,
                InLoop, GoingToWait
<1>4. PICK x \in Tasks : x = Head(xEventLists[e]) /\ In(x, xEventLists[e])
    BY <1>2, <1>3, Typed, HeadIn DEF QueueInv
<1>5. xEventLists' = EventRemoved(x) /\ prvAddTaskToReadyQueue(GenericRemoved(x), x, uxPriority[x])
    BY <1>1, <1>3, <1>4 DEF xTaskRemoveFromEventList
<1>6. /\ ListsGood' /\ EventsGood' /\ uxTopReadyPriority' \in Priorities
      /\ xLists' \in [GenericLists -> Seq(Tasks)] /\ xEventLists' \in [ItemLists -> Seq(Tasks)]
      /\ \A u \in Tasks \ {x} : /\ IsReady(u)' <=> IsReady(u)
                                /\ IsDelayed(u)' <=> IsDelayed(u)
                                /\ In(u, xLists'[SuspendedTaskList]) <=> In(u, xLists[SuspendedTaskList])
      /\ IsReady(x)' /\ ~Blocked(x)'
      /\ \A u \in Tasks : \A f \in ItemLists : In(u, xEventLists'[f]) <=> u # x /\ In(u, xEventLists[f])
      /\ \A f \in ItemLists : xEventLists[f] = <<>> => xEventLists'[f] = <<>>
    <2>1. TypeOK /\ ListsGood /\ EventsGood /\ UNCHANGED priorities
        BY <1>2 DEF QueueInv
    <2> QED BY <1>4, <1>5, <2>1, Awoken
<1>7. /\ at \in {"user", "yieldMasked"} /\ at \in PcNames /\ at \notin Suspending
      /\ at \notin GoingToWait /\ (at \in Leaving <=> at = "yieldMasked")
    BY DEF PcNames, Suspending, GoingToWait, Leaving
<1> HIDE DEF at
<1>8. /\ ret' \in [Tasks -> {"user", "top"}] /\ ret'[t] = "user"
      /\ \A u \in Tasks \ {t} : ret'[u] = ret[u]
    BY <1>2, Kept
<1>9. LocalsTyped
    <2>1. StorageTypeOK'
        BY <1>2, Kept DEF storage, StorageTypeOK
    <2> QED BY <1>2, <1>8, <2>1, Kept DEF LocalsTyped
<1>10. Moves(t, at)
    BY <1>2, <1>3, <1>7, <1>8 DEF Moves, SameCall
<1>11. /\ Control' /\ Locking' /\ Framed' /\ Present'
       /\ pc' \in [Tasks -> PcNames] /\ pc'[t] = at /\ \A u \in Tasks \ {t} : pc'[u] = pc[u]
    <2>1. UNCHANGED <<pxCurrentTCB, interrupt>> /\ at \notin {"wakeReceiver", "wakeSender"}
        BY <1>2, <1>7
    <2>2. IsReady(t)'
        BY <1>3, <1>6
    <2> QED BY <1>7, <1>9, <1>10, <2>1, <2>2, MovesOn
<1>12. Waiters'
    <2> SUFFICES ASSUME NEW u \in Tasks, NEW f \in EventLists, In(u, xEventLists'[f])
                 PROVE  /\ In(u, xEventLists[f]) /\ frame'[u] # NULL /\ frame'[u].op = frame[u].op
                        /\ frame'[u].xTicksToWait = frame[u].xTicksToWait
                        /\ ret'[u] = ret[u] /\ pc'[u] \in Leaving \cup {"top"}
                        /\ In(u, xLists[SuspendedTaskList]) => In(u, xLists'[SuspendedTaskList])
                        /\ IsDelayed(u) => IsDelayed(u)'
        BY WaitersKept DEF QueueInv
    <2>1. u # x /\ In(u, xEventLists[f]) /\ u # t
        BY <1>3, <1>6, EventNames
    <2> QED BY <1>2, <1>6, <1>8, <1>11, <2>1 DEF QueueInv, Waiters
<1>13. TypeOK'
    BY <1>2, <1>6, <1>9, <1>11, TypesKept, Typed DEF QueueInv, items, clock, interrupt, priorities
<1>14. MutexFacts'
    <2>1. UNCHANGED <<uxMessagesWaiting, uxPriority, uxBasePriority>>
        BY <1>2 DEF storage, priorities
    <2>2. pc'[t] \notin {"taken", "inherit", "place"} /\ pc[t] \notin {"top", "taken"}
        BY <1>2, <1>7, <1>11
    <2> QED BY <1>2, <1>3, <1>6, <1>11, <2>1, <2>2, EventNames, MutexLeaving, MutexKept DEF SameCall
<1> QED BY <1>6, <1>11, <1>12, <1>13, <1>14 DEF QueueInv

(* A round of prvCheckDelayedTasks.                                         *)
LEMMA CheckDelayedStep ==
    ASSUME QueueInv, prvCheckDelayedTasks,
           frame' \in [Tasks -> Frames \cup {NULL}], \A t \in Tasks : SameCall(frame[t], frame'[t]),
           UNCHANGED <<storage, xRxLock, xTxLock, pxMutexHolder, uxRecursiveCallCount>>
    PROVE  QueueInv'
<1> DEFINE d == xLists[DelayedTaskList]
           x == Head(d)
<1>1. /\ checkingDelayed
      /\ UNCHANGED <<xTimeToWake, due, priorities, xTickCount, uxMissedTicks, uxSchedulerSuspended,
                     xMissedYield, pxCurrentTCB, pc, ret, yieldAfter, xYieldRequired, inISR>>
    BY DEF prvCheckDelayedTasks, items, suspension, calls
<1>2. UNCHANGED StaysVars /\ UNCHANGED uxMessagesWaiting
    BY <1>1 DEF StaysVars, storage
<1>3. /\ uxSchedulerSuspended = 0 /\ pc[pxCurrentTCB] \notin {"wakeReceiver", "wakeSender"}
      /\ (inISR => pc[pxCurrentTCB] \notin Masked)
      /\ (inISR \/ (pc[pxCurrentTCB] = "drain" /\ xYieldRequired))
    BY <1>1 DEF QueueInv, Control, Masked
<1>4. StorageTypeOK'
    BY Kept DEF storage, StorageTypeOK
<1>5. d \in Seq(Tasks)
    BY ListNames, Typed DEF QueueInv
<1>6. CASE d = <<>> \/ StillAhead(x)
    <2>1. /\ xNextTaskUnblockTime' = IF d = <<>> THEN portMAX_DELAY ELSE xTimeToWake[x]
          /\ checkingDelayed' = FALSE /\ UNCHANGED lists
        BY <1>6 DEF prvCheckDelayedTasks
    <2>2. xNextTaskUnblockTime' \in Ticks
        <3>1. d # <<>> => x \in Tasks
            BY <1>5, HeadIn
        <3> HIDE DEF d, x
        <3> QED BY <2>1, <3>1, Typed, TickFacts DEF QueueInv
    <2>3. ListsGood' /\ EventsGood' /\ UNCHANGED <<xLists, xEventLists, uxTopReadyPriority>>
        BY <1>1, <2>1, FrameKeeps DEF QueueInv, lists
    <2>4. StaysTyped
        BY <1>1, <1>4, <2>1, <2>2, <2>3, Typed DEF StaysTyped, QueueInv
    <2>5. Stays
        BY <1>2, <1>3, <1>1, <2>1, <2>3 DEF Stays, IsReady, IsDelayed
    <2> QED BY <2>4, <2>5, StaysStep
<1>7. CASE d # <<>> /\ ~StillAhead(x)
    <2>1. /\ xEventLists' = EventRemoved(x)
          /\ prvAddTaskToReadyQueue(GenericRemoved(x), x, uxPriority[x])
          /\ UNCHANGED <<xNextTaskUnblockTime, checkingDelayed>>
        BY <1>7 DEF prvCheckDelayedTasks, LeaveEventList
    <2>2. x \in Tasks
        BY <1>5, <1>7, HeadIn
    <2> HIDE DEF d, x
    <2>3. UNCHANGED clock
        BY <1>1, <2>1 DEF clock
    <2>4. xTxLock' \in Nat \cup {-1} /\ xRxLock' \in Nat \cup {-1}
        BY Kept
    <2>5. inISR' \in BOOLEAN /\ checkingDelayed' \in BOOLEAN /\ xYieldRequired' \in BOOLEAN
        BY <1>1, <2>1, Typed DEF QueueInv
    <2> QED BY <1>1, <1>2, <1>3, <1>4, <2>1, <2>2, <2>3, <2>4, <2>5, WokenStep
<1> QED BY <1>6, <1>7

(* A round of the first loop of xTaskResumeAll.                             *)
LEMMA DrainStep ==
    ASSUME QueueInv, NEW t \in Tasks, DrainPendingReady(t),
           frame' \in [Tasks -> Frames \cup {NULL}], \A u \in Tasks : SameCall(frame[u], frame'[u]),
           UNCHANGED <<storage, xRxLock, xTxLock, pxMutexHolder, uxRecursiveCallCount>>
    PROVE  QueueInv'
<1> DEFINE x == Head(xEventLists[PendingReadyList])
<1>1. /\ pxCurrentTCB = t /\ ~inISR /\ pc[t] = "drain" /\ ~checkingDelayed
      /\ xEventLists[PendingReadyList] # <<>>
      /\ xEventLists' = EventRemoved(x) /\ prvAddTaskToReadyQueue(GenericRemoved(x), x, uxPriority[x])
      /\ xYieldRequired' = (xYieldRequired \/ uxPriority[x] >= uxPriority[t])
      /\ UNCHANGED <<xTimeToWake, due, priorities, clock, uxSchedulerSuspended, xMissedYield,
                     pxCurrentTCB, pc, ret, yieldAfter, inISR, checkingDelayed>>
    BY DEF DrainPendingReady, Running, items, suspension, interrupt
<1>2. x \in Tasks
    BY <1>1, Typed, HeadIn, EventNames DEF QueueInv
<1>3. xYieldRequired' \in BOOLEAN
    BY <1>1
<1> HIDE DEF x
<1>4. UNCHANGED StaysVars /\ UNCHANGED uxMessagesWaiting
    BY <1>1 DEF StaysVars, storage
<1>5. StorageTypeOK' /\ xTxLock' \in Nat \cup {-1} /\ xRxLock' \in Nat \cup {-1}
    BY Kept DEF storage, StorageTypeOK
<1>6. inISR' \in BOOLEAN /\ checkingDelayed' \in BOOLEAN
    BY <1>1, Typed DEF QueueInv
<1> QED BY <1>1, <1>2, <1>3, <1>4, <1>5, <1>6, WokenStep
(* vTaskIncrementTick: when the count wraps, the delayed lists swap.        *)
LEMMA TickLists ==
    ASSUME TypeOK, ListsGood, EventsGood, vTaskIncrementTick,
           UNCHANGED <<xEventLists, uxTopReadyPriority, priorities>>
    PROVE  /\ ListsGood' /\ EventsGood' /\ xLists' \in [GenericLists -> Seq(Tasks)]
           /\ xTickCount' \in Ticks /\ xNextTaskUnblockTime' \in Ticks /\ checkingDelayed' \in BOOLEAN
           /\ \A t \in Tasks : /\ IsReady(t)' <=> IsReady(t)
                               /\ IsDelayed(t)' <=> IsDelayed(t)
                               /\ In(t, xLists'[SuspendedTaskList]) <=> In(t, xLists[SuspendedTaskList])
<1> DEFINE d == xLists[DelayedTaskList]
           o == xLists[OverflowDelayedTaskList]
           wraps == xTickCount = portMAX_DELAY
<1>1. /\ xTickCount' = (xTickCount + 1) % TickMod
      /\ xLists' = IF wraps THEN [xLists EXCEPT ![DelayedTaskList] = o, ![OverflowDelayedTaskList] = d]
                   ELSE xLists
      /\ xNextTaskUnblockTime' = IF ~wraps THEN xNextTaskUnblockTime
                                 ELSE IF o = <<>> THEN portMAX_DELAY ELSE xTimeToWake[Head(o)]
      /\ checkingDelayed' = (xTickCount' >= xNextTaskUnblockTime')
      /\ UNCHANGED <<xEventLists, uxTopReadyPriority, uxPriority, uxBasePriority>>
    BY DEF vTaskIncrementTick, priorities
<1>2. /\ IsLists(xLists) /\ xLists \in [GenericLists -> Seq(Tasks)] /\ OncePlaced(xLists)
      /\ d \in Seq(Tasks) /\ o \in Seq(Tasks)
      /\ DelayedTaskList \in GenericLists /\ OverflowDelayedTaskList \in GenericLists
      /\ DelayedTaskList # OverflowDelayedTaskList
    BY ListedFacts, ListNames DEF IsLists
<1>3. xTickCount' \in Ticks
    <2>1. xTickCount \in Nat /\ xTickCount <= TickMod - 1 /\ TickMod \in Nat /\ TickMod > 1
        BY Typed, TickFacts
    <2>2. -TickMod < xTickCount + 1 /\ xTickCount + 1 < 2 * TickMod /\ xTickCount + 1 \in Int
        BY <2>1
    <2> QED BY <1>1, <2>2, ModTick
<1>4. xNextTaskUnblockTime' \in Ticks
    <2>1. o # <<>> => Head(o) \in Tasks
        BY <1>2, HeadIn
    <2> HIDE DEF o, wraps
    <2> QED BY <1>1, <2>1, Typed, TickFacts
<1>5. checkingDelayed' \in BOOLEAN
    BY <1>1
<1> HIDE DEF wraps
<1>6. /\ xLists' \in [GenericLists -> Seq(Tasks)]
      /\ \A k \in GenericLists \ {DelayedTaskList, OverflowDelayedTaskList} : xLists'[k] = xLists[k]
      /\ \/ xLists'[DelayedTaskList] = o /\ xLists'[OverflowDelayedTaskList] = d
         \/ xLists'[DelayedTaskList] = d /\ xLists'[OverflowDelayedTaskList] = o
    <2>1. CASE wraps
        BY <1>1, <1>2, <2>1
    <2>2. CASE ~wraps
        BY <1>1, <1>2, <2>2
    <2> QED BY <2>1, <2>2
<1>7. OncePlaced(xLists')
    <2>1. \A l \in GenericLists : Once(xLists'[l])
        BY <1>2, <1>6 DEF OncePlaced
    <2>2. ASSUME NEW l \in GenericLists, NEW k \in GenericLists, NEW t \in Tasks,
                 In(t, xLists'[l]), In(t, xLists'[k])
          PROVE  l = k
        <3>1. \A i, j \in GenericLists : In(t, xLists[i]) /\ In(t, xLists[j]) => i = j
            BY <1>2 DEF OncePlaced
        <3>2. CASE xLists'[DelayedTaskList] = o /\ xLists'[OverflowDelayedTaskList] = d
            BY <1>2, <1>6, <2>2, <3>1, <3>2
        <3>3. CASE xLists'[DelayedTaskList] = d /\ xLists'[OverflowDelayedTaskList] = o
            BY <1>2, <1>6, <2>2, <3>1, <3>3
        <3> QED BY <1>6, <3>2, <3>3
    <2> QED BY <2>1, <2>2 DEF OncePlaced
<1>8. \A p \in Priorities : xLists'[p] = xLists[p] /\ p \in GenericLists
    BY <1>6, ReadyListNames DEF OtherLists
<1>9. \A t \in Tasks : /\ IsReady(t)' <=> IsReady(t)
                       /\ IsDelayed(t)' <=> IsDelayed(t)
                       /\ In(t, xLists'[SuspendedTaskList]) <=> In(t, xLists[SuspendedTaskList])
    BY <1>6, <1>8, ListNames DEF IsReady, IsDelayed
<1>10. ListsGood'
    <2>1. 0 \in Priorities
        BY ListNames
    <2> QED BY <1>1, <1>6, <1>7, <1>8, <2>1 DEF ListsGood, IsLists, ReadyByPriority, TopKnown
<1>11. EventsGood'
    BY <1>1, <1>9 DEF EventsGood, Blocked
<1> QED BY <1>3, <1>4, <1>5, <1>6, <1>9, <1>10, <1>11

(* The tick interrupt.                                                      *)
LEMMA TickStep ==
    ASSUME QueueInv, Tick
    PROVE  QueueInv'
<1>1. /\ InterruptsEnabled /\ due' = [t \in Tasks |-> IF IsDelayed(t) THEN due[t] - 1 ELSE due[t]]
      /\ frame' = [t \in Tasks |-> Aged(frame[t], TRUE)]
      /\ UNCHANGED <<xEventLists, uxTopReadyPriority, xTimeToWake, priorities, uxSchedulerSuspended,
                     pxCurrentTCB, pc, ret, yieldAfter, xYieldRequired, storage, xRxLock, xTxLock,
                     pxMutexHolder, uxRecursiveCallCount>>
    BY DEF Tick, vTickISR, calls, locks, mutex
<1>2. /\ ~inISR /\ pc[pxCurrentTCB] \notin Masked /\ ~checkingDelayed
    BY <1>1 DEF InterruptsEnabled, QueueInv, Control, Masked
<1>3. /\ frame' \in [Tasks -> Frames \cup {NULL}] /\ \A t \in Tasks : SameCall(frame[t], frame'[t])
    BY <1>1, AgedIt, Kept
<1>4. UNCHANGED StaysVars /\ UNCHANGED uxMessagesWaiting
    BY <1>1 DEF StaysVars, storage
<1>5. StorageTypeOK' /\ due' \in [Tasks -> Int]
    BY <1>1, Kept, Typed DEF storage, StorageTypeOK, QueueInv
<1>6. CASE uxSchedulerSuspended # 0
    <2>1. /\ uxMissedTicks' = uxMissedTicks + 1 /\ xMissedYield' = TRUE
          /\ UNCHANGED <<xLists, xTickCount, xNextTaskUnblockTime, inISR, checkingDelayed>>
        BY <1>6 DEF Tick, vTickISR, interrupt
    <2>2. ListsGood' /\ EventsGood'
        BY <1>1, <2>1, FrameKeeps DEF QueueInv, lists
    <2>3. StaysTyped
        <3>1. uxMissedTicks' \in Nat /\ xMissedYield' \in BOOLEAN
            BY <2>1, Typed DEF QueueInv
        <3> QED BY <1>1, <1>3, <1>5, <2>1, <3>1, Typed DEF StaysTyped, QueueInv
    <2>4. Stays
        BY <1>1, <1>2, <1>3, <1>4, <2>1, <2>2 DEF Stays, IsReady, IsDelayed
    <2> QED BY <2>3, <2>4, StaysStep
<1>7. CASE uxSchedulerSuspended = 0
    <2>1. vTaskIncrementTick /\ inISR' = TRUE /\ UNCHANGED <<uxMissedTicks, xMissedYield>>
        BY <1>7 DEF Tick, vTickISR
    <2>2. /\ ListsGood' /\ EventsGood' /\ xLists' \in [GenericLists -> Seq(Tasks)]
          /\ xTickCount' \in Ticks /\ xNextTaskUnblockTime' \in Ticks /\ checkingDelayed' \in BOOLEAN
          /\ \A t \in Tasks : /\ IsReady(t)' <=> IsReady(t)
                              /\ IsDelayed(t)' <=> IsDelayed(t)
                              /\ In(t, xLists'[SuspendedTaskList]) <=> In(t, xLists[SuspendedTaskList])
        BY <1>1, <2>1, TickLists DEF QueueInv
    <2>3. StaysTyped
        <3>1. inISR' \in BOOLEAN
            BY <2>1
        <3> QED BY <1>1, <1>3, <1>5, <2>1, <2>2, <3>1, Typed DEF StaysTyped, QueueInv
    <2>4. Stays
        BY <1>1, <1>2, <1>3, <1>4, <1>7, <2>1, <2>2 DEF Stays
    <2> QED BY <2>3, <2>4, StaysStep
<1> QED BY <1>6, <1>7

(* A round of the second loop of xTaskResumeAll.                            *)
LEMMA ReplayStep ==
    ASSUME QueueInv, NEW t \in Tasks, ReplayMissedTick(t),
           frame' \in [Tasks -> Frames \cup {NULL}], \A u \in Tasks : SameCall(frame[u], frame'[u]),
           UNCHANGED <<storage, xRxLock, xTxLock, pxMutexHolder, uxRecursiveCallCount>>
    PROVE  QueueInv'
<1>1. /\ pxCurrentTCB = t /\ ~inISR /\ pc[t] = "drain" /\ vTaskIncrementTick
      /\ uxMissedTicks > 0 /\ uxMissedTicks' = uxMissedTicks - 1 /\ xYieldRequired' = TRUE
      /\ UNCHANGED <<xEventLists, uxTopReadyPriority, xTimeToWake, due, priorities,
                     uxSchedulerSuspended, xMissedYield, pxCurrentTCB, pc, ret, yieldAfter, inISR>>
    BY DEF ReplayMissedTick, Running, items, suspension
<1>2. /\ ListsGood' /\ EventsGood' /\ xLists' \in [GenericLists -> Seq(Tasks)]
      /\ xTickCount' \in Ticks /\ xNextTaskUnblockTime' \in Ticks /\ checkingDelayed' \in BOOLEAN
      /\ \A u \in Tasks : /\ IsReady(u)' <=> IsReady(u)
                          /\ IsDelayed(u)' <=> IsDelayed(u)
                          /\ In(u, xLists'[SuspendedTaskList]) <=> In(u, xLists[SuspendedTaskList])
    BY <1>1, TickLists DEF QueueInv
<1>3. uxSchedulerSuspended = 0
    BY <1>1 DEF QueueInv, Control, Suspending
<1>4. StaysTyped
    <2>1. uxMissedTicks' \in Nat /\ xYieldRequired' \in BOOLEAN
        BY <1>1, Typed DEF QueueInv
    <2>2. StorageTypeOK'
        BY Kept DEF storage, StorageTypeOK
    <2> QED BY <1>1, <1>2, <2>1, <2>2, Typed DEF StaysTyped, QueueInv
<1>5. Stays
    BY <1>1, <1>2, <1>3 DEF Stays, StaysVars, storage
<1> QED BY <1>4, <1>5, StaysStep

(* An interrupt sends or receives: with the queue unlocked it wakes a task, *)
(* or notes it while the scheduler is suspended.                            *)
LEMMA InterruptStep ==
    ASSUME QueueInv, NEW e \in EventLists, NEW lock, InterruptsEnabled, ~QueueIsMutex,
           AfterISR(e, lock), StorageTypeOK',
           xTxLock' \in Nat \cup {-1}, xRxLock' \in Nat \cup {-1},
           xTxLock' = -1 <=> xTxLock = -1, xRxLock' = -1 <=> xRxLock = -1,
           UNCHANGED <<items, priorities, clock, suspension, pxCurrentTCB, calls, checkingDelayed,
                       mutex, frame>>
    PROVE  QueueInv'
<1>1. /\ UNCHANGED <<xTimeToWake, due, priorities, clock, uxSchedulerSuspended, xMissedYield,
                     pxCurrentTCB, pc, ret, yieldAfter, xYieldRequired, checkingDelayed,
                     pxMutexHolder, uxRecursiveCallCount, frame>>
    BY DEF items, suspension, calls, mutex
<1>2. UNCHANGED StaysVars
    BY <1>1 DEF StaysVars
<1>3. /\ pc[pxCurrentTCB] \notin Masked /\ ~checkingDelayed /\ ~inISR
      /\ pc[pxCurrentTCB] \notin {"wakeReceiver", "wakeSender"}
    BY DEF InterruptsEnabled, QueueInv, Control, Masked
<1>4. /\ frame' \in [Tasks -> Frames \cup {NULL}] /\ \A t \in Tasks : SameCall(frame[t], frame'[t])
      /\ e \in ItemLists /\ e # PendingReadyList
    BY <1>1, Kept, EventNames DEF SameCall
<1>5. CASE lock = queueUNLOCKED /\ xEventLists[e] # <<>>
    <2>1. xTaskRemoveFromEventList(e) /\ inISR' = HeadOutranksCurrent(e)
        BY <1>5 DEF AfterISR
    <2>2. PICK x \in Tasks : x = Head(xEventLists[e]) /\ In(x, xEventLists[e])
        BY <1>4, <1>5, Typed, HeadIn DEF QueueInv
    <2>3. inISR' \in BOOLEAN /\ checkingDelayed' \in BOOLEAN /\ xYieldRequired' \in BOOLEAN
        <3>1. inISR' \in BOOLEAN
            BY <2>1 DEF HeadOutranksCurrent
        <3> QED BY <1>1, <3>1, Typed DEF QueueInv
    <2>4. CASE uxSchedulerSuspended = 0
        <3>1. /\ xEventLists' = EventRemoved(x)
              /\ prvAddTaskToReadyQueue(GenericRemoved(x), x, uxPriority[x])
            BY <2>1, <2>2, <2>4 DEF xTaskRemoveFromEventList
        <3> QED BY <1>1, <1>2, <1>3, <1>4, <2>3, <3>1, WokenStep
    <2>5. CASE uxSchedulerSuspended # 0
        <3>1. /\ xEventLists' = [EventRemoved(x) EXCEPT ![PendingReadyList] = Append(@, x)]
              /\ UNCHANGED <<xLists, uxTopReadyPriority>>
            BY <2>1, <2>2, <2>5 DEF xTaskRemoveFromEventList
        <3>2. /\ EventRemoved(x) \in [ItemLists -> Seq(Tasks)]
              /\ \A f \in ItemLists :
                   /\ Once(EventRemoved(x)[f])
                   /\ \A u \in Tasks : In(u, EventRemoved(x)[f]) <=> u # x /\ In(u, xEventLists[f])
                   /\ xEventLists[f] = <<>> => EventRemoved(x)[f] = <<>>
            BY Typed, EventRemovedIt DEF QueueInv, EventsGood
        <3> DEFINE r == EventRemoved(x)
        <3>3. /\ Append(r[PendingReadyList], x) \in Seq(Tasks) /\ Once(Append(r[PendingReadyList], x))
              /\ \A u \in Tasks : In(u, Append(r[PendingReadyList], x)) <=>
                                      u = x \/ In(u, r[PendingReadyList])
            BY <3>2, AppendIt, EventNames
        <3> HIDE DEF r
        <3>4. /\ xEventLists' \in [ItemLists -> Seq(Tasks)]
              /\ \A f \in ItemLists \ {PendingReadyList} : xEventLists'[f] = r[f]
              /\ xEventLists'[PendingReadyList] = Append(r[PendingReadyList], x)
            BY <3>1, <3>2, <3>3, EventNames DEF r
        <3>5. \A f \in ItemLists : \A u \in Tasks :
                  In(u, xEventLists'[f]) <=> IF u = x THEN f = PendingReadyList ELSE In(u, xEventLists[f])
            BY <3>2, <3>3, <3>4 DEF r
        <3>6. \A u \in Tasks : Blocked(u)' <=> Blocked(u)
            BY <3>1 DEF Blocked, IsDelayed
        <3>7. EventsGood'
            <4>1. \A f \in ItemLists : Once(xEventLists'[f])
                BY <3>2, <3>3, <3>4 DEF r
            <4>2. \A f \in ItemLists : \A u \in Tasks : In(u, xEventLists'[f]) => Blocked(u)
                BY <1>4, <2>2, <3>5 DEF QueueInv, EventsGood
            <4>3. \A f, g \in ItemLists : \A u \in Tasks :
                      In(u, xEventLists'[f]) /\ In(u, xEventLists'[g]) => f = g
                BY <3>5 DEF QueueInv, EventsGood
            <4> QED BY <3>6, <4>1, <4>2, <4>3 DEF EventsGood
        <3>8. ListsGood'
            BY <1>1, <3>1 DEF QueueInv, ListsGood, ReadyByPriority, TopKnown, priorities
        <3>9. StaysTyped
            BY <1>1, <1>4, <2>3, <3>1, <3>4, Typed DEF StaysTyped, QueueInv, clock
        <3>10. Stays
            <4>1. \A u \in Tasks : \A f \in EventLists : In(u, xEventLists'[f]) => In(u, xEventLists[f])
                BY <3>5, EventNames
            <4>2. xEventLists[Waiting.send] = <<>> => xEventLists'[Waiting.send] = <<>>
                BY <3>2, <3>4, EventNames DEF r
            <4> QED BY <1>1, <1>2, <1>3, <1>4, <3>1, <3>7, <3>8, <4>1, <4>2 DEF Stays, IsReady, IsDelayed
        <3> QED BY <3>9, <3>10, StaysStep
    <2> QED BY <2>4, <2>5
<1>6. CASE ~(lock = queueUNLOCKED /\ xEventLists[e] # <<>>)
    <2>1. UNCHANGED <<xLists, xEventLists, uxTopReadyPriority, inISR>>
        BY <1>6 DEF AfterISR, lists
    <2>2. ListsGood' /\ EventsGood'
        BY <1>1, <2>1, FrameKeeps DEF QueueInv, lists
    <2>3. StaysTyped
        BY <1>1, <1>4, <2>1, Typed DEF StaysTyped, QueueInv, clock
    <2>4. Stays
        BY <1>1, <1>2, <1>3, <1>4, <2>1, <2>2 DEF Stays, IsReady, IsDelayed
    <2> QED BY <2>3, <2>4, StaysStep
<1> QED BY <1>5, <1>6

(* A send or a receive from an interrupt (queue.c:789-843, 996-1048).      *)
LEMMA FromISRStep ==
    ASSUME QueueInv, FromISR
    PROVE  QueueInv'
<1>1. /\ xTxLock \in Nat \cup {-1} /\ xRxLock \in Nat \cup {-1} /\ StorageTypeOK
      /\ Waiting.send \in EventLists /\ Waiting.receive \in EventLists
    BY Kept, EventNames
<1>2. ASSUME NEW op \in ISROperations \cap SendOps, NEW m \in Messages, xQueueGenericSendFromISR(op, m)
      PROVE  QueueInv'
    <2>1. /\ InterruptsEnabled /\ ~QueueIsMutex /\ ~IsQueueFull /\ AfterISR(Waiting.receive, xTxLock)
          /\ CopyToBack(m) \/ CopyToFront(m)
          /\ xTxLock' = (IF xTxLock = queueUNLOCKED THEN xTxLock ELSE xTxLock + 1)
          /\ UNCHANGED <<items, priorities, clock, suspension, pxCurrentTCB, calls, checkingDelayed,
                         xRxLock, mutex, frame>>
        BY <1>2 DEF xQueueGenericSendFromISR
    <2>2. StorageTypeOK'
        BY <1>1, <2>1, CopiesTyped
    <2>3. /\ xTxLock' \in Nat \cup {-1} /\ (xTxLock' = -1 <=> xTxLock = -1)
          /\ xRxLock' \in Nat \cup {-1} /\ (xRxLock' = -1 <=> xRxLock = -1)
        BY <1>1, <2>1 DEF queueUNLOCKED
    <2> QED BY <1>1, <2>1, <2>2, <2>3, InterruptStep
<1>3. ASSUME xQueueReceiveFromISR
      PROVE  QueueInv'
    <2>1. /\ InterruptsEnabled /\ ~QueueIsMutex /\ ~IsQueueEmpty /\ AfterISR(Waiting.send, xRxLock)
          /\ CopyFrom
          /\ xRxLock' = (IF xRxLock = queueUNLOCKED THEN xRxLock ELSE xRxLock + 1)
          /\ UNCHANGED <<items, priorities, clock, suspension, pxCurrentTCB, calls, checkingDelayed,
                         xTxLock, mutex, frame>>
        BY <1>3 DEF xQueueReceiveFromISR
    <2>2. StorageTypeOK'
        BY <1>1, <2>1, CopiesTyped
    <2>3. /\ xTxLock' \in Nat \cup {-1} /\ (xTxLock' = -1 <=> xTxLock = -1)
          /\ xRxLock' \in Nat \cup {-1} /\ (xRxLock' = -1 <=> xRxLock = -1)
        BY <1>1, <2>1 DEF queueUNLOCKED
    <2> QED BY <1>1, <2>1, <2>2, <2>3, InterruptStep
<1> QED BY <1>2, <1>3 DEF FromISR
(* The first n of a sequence go to the end of another.                      *)
LEMMA SplitIt ==
    ASSUME NEW s \in Seq(Tasks), NEW p \in Seq(Tasks), NEW n \in Nat, n > 0, n <= Len(s),
           Once(s), Once(p), \A u \in Tasks : ~(In(u, s) /\ In(u, p))
    PROVE  LET a == SubSeq(s, n + 1, Len(s))
               b == p \o SubSeq(s, 1, n)
           IN  /\ a \in Seq(Tasks) /\ b \in Seq(Tasks) /\ Once(a) /\ Once(b)
               /\ \A u \in Tasks : /\ In(u, a) \/ In(u, b) <=> In(u, s) \/ In(u, p)
                                   /\ ~(In(u, a) /\ In(u, b))
                                   /\ In(u, a) => In(u, s)
                                   /\ In(u, p) => In(u, b)
               /\ a = <<>> <=> n = Len(s)
<1> DEFINE a == SubSeq(s, n + 1, Len(s))
           h == SubSeq(s, 1, n)
           b == p \o h
<1>1. /\ a \in Seq(Tasks) /\ Len(a) = Len(s) - n
      /\ \A m \in 1..(Len(s) - n) : a[m] = s[m + n]
    OBVIOUS
<1>2. /\ h \in Seq(Tasks) /\ Len(h) = n
      /\ \A m \in 1..n : h[m] = s[m]
    OBVIOUS
<1>3. DOMAIN s = 1..Len(s) /\ DOMAIN p = 1..Len(p) /\ Len(s) \in Nat /\ Len(p) \in Nat
    OBVIOUS
<1> HIDE DEF h
<1>4. /\ b \in Seq(Tasks) /\ Len(b) = Len(p) + n
      /\ \A m \in 1..Len(p) : b[m] = p[m]
      /\ \A m \in (Len(p) + 1)..(Len(p) + n) : b[m] = h[m - Len(p)]
    <2>1. b \in Seq(Tasks) /\ Len(b) = Len(p) + n
        BY <1>2
    <2>2. \A m \in 1..Len(p) : b[m] = p[m]
        BY <1>2
    <2>3. \A m \in (Len(p) + 1)..(Len(p) + n) : b[m] = h[m - Len(p)]
        BY <1>2
    <2> QED BY <2>1, <2>2, <2>3
<1> HIDE DEF a, b
<1>5. DOMAIN a = 1..(Len(s) - n) /\ DOMAIN b = 1..(Len(p) + n)
    BY <1>1, <1>4
<1>6. \A m \in (Len(p) + 1)..(Len(p) + n) : m - Len(p) \in 1..n /\ b[m] = s[m - Len(p)]
    BY <1>2, <1>3, <1>4
<1>7. Once(a)
    <2> SUFFICES ASSUME NEW m \in 1..(Len(s) - n), NEW k \in 1..(Len(s) - n), a[m] = a[k] PROVE m = k
        BY <1>5 DEF Once
    <2>1. m + n \in DOMAIN s /\ k + n \in DOMAIN s
        BY <1>3
    <2>2. s[m + n] = s[k + n]
        BY <1>1
    <2>3. m + n = k + n
        BY <2>1, <2>2 DEF Once
    <2> QED BY <1>3, <2>3
<1>8. Once(b)
    <2> SUFFICES ASSUME NEW m \in 1..(Len(p) + n), NEW k \in 1..(Len(p) + n), b[m] = b[k] PROVE m = k
        BY <1>5 DEF Once
    <2>1. CASE m <= Len(p) /\ k <= Len(p)
        <3>1. m \in DOMAIN p /\ k \in DOMAIN p
            BY <1>3, <2>1
        <3>2. p[m] = p[k]
            BY <1>3, <1>4, <3>1
        <3> QED BY <3>1, <3>2 DEF Once
    <2>2. CASE m > Len(p) /\ k > Len(p)
        <3>1. m - Len(p) \in DOMAIN s /\ k - Len(p) \in DOMAIN s /\ s[m - Len(p)] = s[k - Len(p)]
            BY <1>3, <1>6, <2>2
        <3>2. m - Len(p) = k - Len(p)
            BY <3>1 DEF Once
        <3> QED BY <1>3, <3>2
    <2>3. ASSUME NEW i \in 1..(Len(p) + n), NEW j \in 1..(Len(p) + n), i <= Len(p), j > Len(p), b[i] = b[j]
          PROVE  FALSE
        <3>1. i \in DOMAIN p /\ b[i] = p[i] /\ p[i] \in Tasks
            BY <1>3, <1>4, <2>3
        <3>2. j - Len(p) \in DOMAIN s /\ b[j] = s[j - Len(p)]
            BY <1>3, <1>6, <2>3
        <3>3. In(p[i], p) /\ In(p[i], s)
            BY <2>3, <3>1, <3>2 DEF In
        <3> QED BY <3>1, <3>3
    <2> QED BY <1>3, <2>1, <2>2, <2>3
<1>9. ASSUME NEW u \in Tasks
      PROVE  /\ In(u, a) <=> \E m \in (n + 1)..Len(s) : s[m] = u
             /\ In(u, b) <=> In(u, p) \/ \E m \in 1..n : s[m] = u
             /\ In(u, s) <=> (\E m \in 1..n : s[m] = u) \/ (\E m \in (n + 1)..Len(s) : s[m] = u)
    <2>1. In(u, a) => \E m \in (n + 1)..Len(s) : s[m] = u
        <3> SUFFICES ASSUME NEW m \in 1..(Len(s) - n), a[m] = u PROVE \E k \in (n + 1)..Len(s) : s[k] = u
            BY <1>5 DEF In
        <3>1. m + n \in (n + 1)..Len(s) /\ s[m + n] = u
            BY <1>1, <1>3
        <3> QED BY <3>1
    <2>2. ASSUME NEW m \in (n + 1)..Len(s), s[m] = u PROVE In(u, a)
        <3>1. m - n \in DOMAIN a /\ a[m - n] = u
            BY <1>1, <1>3, <1>5, <2>2
        <3> QED BY <3>1 DEF In
    <2>3. In(u, b) => In(u, p) \/ \E m \in 1..n : s[m] = u
        <3> SUFFICES ASSUME NEW m \in 1..(Len(p) + n), b[m] = u
                     PROVE  In(u, p) \/ \E k \in 1..n : s[k] = u
            BY <1>5 DEF In
        <3>1. CASE m <= Len(p)
            BY <1>3, <1>4, <3>1 DEF In
        <3>2. CASE m > Len(p)
            <4>1. m - Len(p) \in 1..n /\ s[m - Len(p)] = u
                BY <1>3, <1>6, <3>2
            <4> QED BY <4>1
        <3> QED BY <1>3, <3>1, <3>2
    <2>4. In(u, p) => In(u, b)
        BY <1>3, <1>4, <1>5 DEF In
    <2>5. ASSUME NEW m \in 1..n, s[m] = u PROVE In(u, b)
        <3>1. m + Len(p) \in (Len(p) + 1)..(Len(p) + n) /\ (m + Len(p)) - Len(p) = m
            BY <1>3
        <3>2. m + Len(p) \in DOMAIN b /\ b[m + Len(p)] = u
            BY <1>3, <1>5, <1>6, <2>5, <3>1
        <3> QED BY <3>2 DEF In
    <2>6. In(u, s) <=> (\E m \in 1..n : s[m] = u) \/ (\E m \in (n + 1)..Len(s) : s[m] = u)
        BY <1>3 DEF In
    <2> QED BY <2>1, <2>2, <2>3, <2>4, <2>5, <2>6
<1>10. ASSUME NEW u \in Tasks PROVE ~(In(u, a) /\ In(u, b))
    <2>1. \A m \in 1..n : \A k \in (n + 1)..Len(s) : s[m] # s[k]
        BY <1>3 DEF Once
    <2>2. In(u, a) => In(u, s)
        BY <1>9
    <2> QED BY <1>9, <2>1, <2>2
<1>11. a = <<>> <=> n = Len(s)
    BY <1>1, <1>3
<1>12. \A u \in Tasks : /\ In(u, a) \/ In(u, b) <=> In(u, s) \/ In(u, p)
                        /\ In(u, a) => In(u, s)
                        /\ In(u, p) => In(u, b)
    BY <1>9
<1> QED BY <1>1, <1>4, <1>7, <1>8, <1>10, <1>11, <1>12 DEF a, b, h

(* prvUnlockQueue notes waiting tasks for what was moved while locked: they *)
(* go from the event list e to the pending ready list.                      *)
LEMMA WokenForLocked ==
    ASSUME QueueInv, NEW e \in EventLists, NEW lock \in Nat, WakeForLocked(e, lock)
    PROVE  /\ xEventLists' \in [ItemLists -> Seq(Tasks)] /\ xMissedYield' \in BOOLEAN
           /\ \A f \in ItemLists : Once(xEventLists'[f])
           /\ \A f \in ItemLists \ {e, PendingReadyList} : xEventLists'[f] = xEventLists[f]
           /\ \A u \in Tasks : \A f \in EventLists : In(u, xEventLists'[f]) => In(u, xEventLists[f])
           /\ \A u \in Tasks : \A f, g \in ItemLists :
                  In(u, xEventLists'[f]) /\ In(u, xEventLists'[g]) => f = g
           /\ \A u \in Tasks : HasEvent(u)' <=> HasEvent(u)
           /\ xEventLists[e] = <<>> => xEventLists'[e] = <<>>
<1> DEFINE s == xEventLists[e]
           p == xEventLists[PendingReadyList]
           n == IF lock > Len(s) THEN Len(s) ELSE lock
           a == SubSeq(s, n + 1, Len(s))
           b == p \o SubSeq(s, 1, n)
<1>1. /\ e \in ItemLists /\ e # PendingReadyList /\ PendingReadyList \in ItemLists
      /\ s \in Seq(Tasks) /\ p \in Seq(Tasks) /\ Once(s) /\ Once(p) /\ Len(s) \in Nat
      /\ \A u \in Tasks : ~(In(u, s) /\ In(u, p))
      /\ xMissedYield \in BOOLEAN
    BY EventNames, Typed DEF QueueInv, EventsGood
<1>2. n \in Nat /\ n <= Len(s) /\ (s = <<>> => n = 0)
    BY <1>1
<1>3. CASE n = 0
    <2>1. UNCHANGED <<xEventLists, xMissedYield>>
        BY <1>3 DEF WakeForLocked
    <2> QED BY <1>1, <2>1, Typed DEF QueueInv, EventsGood, HasEvent
<1>4. CASE n > 0
    <2>1. /\ xEventLists' = [xEventLists EXCEPT ![e] = a, ![PendingReadyList] = b]
          /\ xMissedYield' = (xMissedYield \/ \E m \in 1..n : uxPriority[s[m]] >= uxPriority[pxCurrentTCB])
        BY <1>4 DEF WakeForLocked
    <2>2. xMissedYield' \in BOOLEAN
        BY <2>1
    <2>3. n # 0 => s # <<>>
        BY <1>2
    <2> HIDE DEF n
    <2>4. /\ a \in Seq(Tasks) /\ b \in Seq(Tasks) /\ Once(a) /\ Once(b)
          /\ \A u \in Tasks : /\ In(u, a) \/ In(u, b) <=> In(u, s) \/ In(u, p)
                              /\ ~(In(u, a) /\ In(u, b))
                              /\ In(u, a) => In(u, s)
                              /\ In(u, p) => In(u, b)
        <3> HIDE DEF s, p
        <3> QED BY <1>1, <1>2, <1>4, SplitIt
    <2> HIDE DEF a, b
    <2>5. /\ xEventLists' \in [ItemLists -> Seq(Tasks)]
          /\ xEventLists'[e] = a /\ xEventLists'[PendingReadyList] = b
          /\ \A f \in ItemLists \ {e, PendingReadyList} : xEventLists'[f] = xEventLists[f]
        BY <1>1, <2>1, <2>4, Typed DEF QueueInv
    <2>6. \A f \in ItemLists : Once(xEventLists'[f])
        BY <2>4, <2>5 DEF QueueInv, EventsGood
    <2>7. \A u \in Tasks : \A f \in EventLists : In(u, xEventLists'[f]) => In(u, xEventLists[f])
        BY <2>4, <2>5, EventNames
    <2>8. \A u \in Tasks : \A f, g \in ItemLists : In(u, xEventLists[f]) /\ In(u, xEventLists[g]) => f = g
        BY DEF QueueInv, EventsGood
    <2>9. ASSUME NEW u \in Tasks, NEW f \in ItemLists, NEW g \in ItemLists,
                 In(u, xEventLists'[f]), In(u, xEventLists'[g])
          PROVE  f = g
        <3>1. ASSUME NEW k \in ItemLists, k \in {e, PendingReadyList}, In(u, xEventLists'[k])
              PROVE  In(u, s) \/ In(u, p)
            BY <2>4, <2>5, <3>1
        <3>2. CASE f \in {e, PendingReadyList} /\ g \in {e, PendingReadyList}
            BY <2>4, <2>5, <2>9, <3>2
        <3>3. CASE f \notin {e, PendingReadyList} /\ g \in {e, PendingReadyList}
            <4>1. In(u, xEventLists[f])
                BY <2>5, <2>9, <3>3
            <4> QED BY <1>1, <2>8, <2>9, <3>1, <3>3, <4>1
        <3>4. CASE f \in {e, PendingReadyList} /\ g \notin {e, PendingReadyList}
            <4>1. In(u, xEventLists[g])
                BY <2>5, <2>9, <3>4
            <4> QED BY <1>1, <2>8, <2>9, <3>1, <3>4, <4>1
        <3>5. CASE f \notin {e, PendingReadyList} /\ g \notin {e, PendingReadyList}
            BY <2>5, <2>8, <2>9, <3>5
        <3> QED BY <3>2, <3>3, <3>4, <3>5
    <2>10. ASSUME NEW u \in Tasks PROVE HasEvent(u)' <=> HasEvent(u)
        <3>1. In(u, a) \/ In(u, b) <=> In(u, s) \/ In(u, p)
            BY <2>4
        <3>2. ASSUME NEW f \in ItemLists, In(u, xEventLists'[f]) PROVE HasEvent(u)
            BY <1>1, <2>5, <3>1, <3>2 DEF HasEvent
        <3>3. ASSUME NEW f \in ItemLists, In(u, xEventLists[f]) PROVE HasEvent(u)'
            BY <1>1, <2>5, <3>1, <3>3 DEF HasEvent
        <3> QED BY <3>2, <3>3 DEF HasEvent
    <2> QED BY <1>4, <2>2, <2>3, <2>5, <2>6, <2>7, <2>9, <2>10
<1> QED BY <1>2, <1>3, <1>4
(* The two critical sections of prvUnlockQueue.                             *)
LEMMA UnlockStep ==
    ASSUME QueueInv, NEW t \in Tasks, prvUnlockQueue(t)
    PROVE  QueueInv'
<1>1. PICK at \in {"unlockRx", "resumeAll"} : pc' = [pc EXCEPT ![t] = at]
    BY DEF prvUnlockQueue, GoTo
<1>2. PICK e \in EventLists, lock \in Nat :
          /\ WakeForLocked(e, lock) /\ pxCurrentTCB = t /\ ~inISR
          /\ pc[t] = (IF at = "unlockRx" THEN "unlockTx" ELSE "unlockRx")
          /\ xTxLock' = -1 /\ xRxLock' = (IF at = "unlockRx" THEN xRxLock ELSE -1)
          /\ UNCHANGED <<xLists, uxTopReadyPriority, items, priorities, clock, uxSchedulerSuspended,
                         pxCurrentTCB, ret, yieldAfter, xYieldRequired, interrupt, storage,
                         pxMutexHolder, uxRecursiveCallCount, frame>>
    <2>1. CASE Running(t, "unlockTx")
        <3>1. /\ WakeForLocked(Waiting.receive, xTxLock) /\ xTxLock' = -1 /\ pc' = [pc EXCEPT ![t] = "unlockRx"]
              /\ UNCHANGED <<xLists, uxTopReadyPriority, items, priorities, clock, uxSchedulerSuspended,
                             pxCurrentTCB, ret, yieldAfter, xYieldRequired, interrupt, storage,
                             xRxLock, pxMutexHolder, uxRecursiveCallCount, frame>>
            BY <2>1 DEF prvUnlockQueue, Running, GoTo, queueUNLOCKED, mutex
        <3>2. xTxLock \in Nat /\ Waiting.receive \in EventLists
            BY <2>1, EventNames, Kept DEF QueueInv, Locking, Running, queueUNLOCKED
        <3>3. at = "unlockRx"
            BY <1>1, <3>1, Kept
        <3> QED BY <2>1, <3>1, <3>2, <3>3 DEF Running
    <2>2. CASE Running(t, "unlockRx")
        <3>1. /\ WakeForLocked(Waiting.send, xRxLock) /\ xRxLock' = -1 /\ pc' = [pc EXCEPT ![t] = "resumeAll"]
              /\ UNCHANGED <<xLists, uxTopReadyPriority, items, priorities, clock, uxSchedulerSuspended,
                             pxCurrentTCB, ret, yieldAfter, xYieldRequired, interrupt, storage,
                             xTxLock, pxMutexHolder, uxRecursiveCallCount, frame>>
            BY <2>2 DEF prvUnlockQueue, Running, GoTo, queueUNLOCKED, mutex
        <3>2. xRxLock \in Nat /\ xTxLock = -1 /\ Waiting.send \in EventLists
            BY <2>2, EventNames, Kept DEF QueueInv, Locking, Running, queueUNLOCKED
        <3>3. at = "resumeAll"
            BY <1>1, <3>1, Kept
        <3> QED BY <2>2, <3>1, <3>2, <3>3 DEF Running
    <2> QED BY <2>1, <2>2 DEF prvUnlockQueue
<1>3. /\ t # Idle /\ (frame[t] # NULL <=> ret[t] = "top") /\ uxSchedulerSuspended = 1
      /\ IsReady(t) \/ yieldAfter[t]
      /\ pc[t] \in {"unlockTx", "unlockRx"} /\ ~checkingDelayed /\ (at = "unlockRx" => xRxLock # -1)
    <2>1. pc[t] \in {"unlockTx", "unlockRx"}
        BY <1>2
    <2>2. /\ t # Idle /\ (frame[t] # NULL <=> ret[t] = "top") /\ uxSchedulerSuspended = 1
          /\ IsReady(t) \/ yieldAfter[t]
        BY <1>2, <2>1, LeavingFacts DEF Leaving
    <2> QED BY <1>2, <2>1, <2>2 DEF QueueInv, Control, Locking, queueUNLOCKED
<1>4. /\ xEventLists' \in [ItemLists -> Seq(Tasks)] /\ xMissedYield' \in BOOLEAN
      /\ \A f \in ItemLists : Once(xEventLists'[f])
      /\ \A f \in ItemLists \ {e, PendingReadyList} : xEventLists'[f] = xEventLists[f]
      /\ \A u \in Tasks : \A f \in EventLists : In(u, xEventLists'[f]) => In(u, xEventLists[f])
      /\ \A u \in Tasks : \A f, g \in ItemLists : In(u, xEventLists'[f]) /\ In(u, xEventLists'[g]) => f = g
      /\ \A u \in Tasks : HasEvent(u)' <=> HasEvent(u)
      /\ xEventLists[e] = <<>> => xEventLists'[e] = <<>>
    BY <1>2, WokenForLocked
<1>5. /\ UNCHANGED <<uxPriority, uxBasePriority>>
      /\ \A u \in Tasks : (IsReady(u)' <=> IsReady(u)) /\ (IsDelayed(u)' <=> IsDelayed(u))
                          /\ (Blocked(u)' <=> Blocked(u))
    BY <1>2 DEF IsReady, IsDelayed, Blocked, priorities
<1>6. ListsGood'
    BY <1>2, <1>5 DEF QueueInv, ListsGood, ReadyByPriority, TopKnown
<1>7. EventsGood'
    BY <1>4, <1>5 DEF QueueInv, EventsGood, HasEvent
<1>8. LocalsTyped
    <2>1. StorageTypeOK'
        BY <1>2, Kept DEF storage, StorageTypeOK
    <2> QED BY <1>2, <1>4, <2>1, Kept DEF LocalsTyped
<1>9. at \in PcNames /\ at \in Suspending /\ at \notin GoingToWait /\ at \in Leaving
    BY DEF PcNames, Suspending, GoingToWait, Leaving
<1>10. Moves(t, at)
    <2>1. xRxLock' # -1 <=> at = "unlockRx"
        BY <1>2, <1>3
    <2> QED BY <1>1, <1>2, <1>3, <1>9, <2>1 DEF Moves, SameCall
<1>11. /\ Control' /\ Locking' /\ Framed' /\ Present'
       /\ pc' \in [Tasks -> PcNames] /\ pc'[t] = at /\ \A u \in Tasks \ {t} : pc'[u] = pc[u]
    <2>1. UNCHANGED <<pxCurrentTCB, interrupt>> /\ at \notin {"wakeReceiver", "wakeSender"}
        BY <1>2
    <2> QED BY <1>5, <1>8, <1>9, <1>10, <2>1, MovesOn
<1>12. Waiters'
    <2> SUFFICES ASSUME NEW u \in Tasks, NEW f \in EventLists, In(u, xEventLists'[f])
                 PROVE  /\ In(u, xEventLists[f]) /\ frame'[u] # NULL /\ frame'[u].op = frame[u].op
                        /\ frame'[u].xTicksToWait = frame[u].xTicksToWait
                        /\ ret'[u] = ret[u] /\ pc'[u] \in Leaving \cup {"top"}
                        /\ In(u, xLists[SuspendedTaskList]) => In(u, xLists'[SuspendedTaskList])
                        /\ IsDelayed(u) => IsDelayed(u)'
        BY WaitersKept DEF QueueInv
    <2>1. In(u, xEventLists[f])
        BY <1>4
    <2>2. frame[u] # NULL /\ pc[u] \in Leaving \cup {"top"}
        BY <2>1 DEF QueueInv, Waiters
    <2> QED BY <1>2, <1>5, <1>9, <1>11, <2>1, <2>2
<1>13. TypeOK'
    BY <1>2, <1>4, <1>8, <1>11, TypesKept, Typed DEF QueueInv, items, clock, interrupt, priorities
<1>14. MutexFacts'
    <2>1. UNCHANGED uxMessagesWaiting
        BY <1>2 DEF storage
    <2>2. xEventLists[Waiting.send] = <<>> => xEventLists'[Waiting.send] = <<>>
        BY <1>4, EventNames
    <2>3. pc'[t] \notin {"taken", "inherit", "place", "top"} /\ pc[t] \notin {"top", "taken"}
        BY <1>3, <1>11
    <2> QED BY <1>2, <1>5, <1>11, <2>1, <2>2, <2>3, MutexLeaving, MutexKept DEF SameCall
<1> QED BY <1>6, <1>7, <1>11, <1>12, <1>13, <1>14 DEF QueueInv

(* vTaskSwitchContext with the scheduler running: the head of the highest   *)
(* ready list becomes the current task.                                     *)
LEMMA Switched ==
    ASSUME TypeOK, ListsGood, EventsGood, uxSchedulerSuspended = 0, vTaskSwitchContext,
           UNCHANGED <<xEventLists, priorities>>
    PROVE  /\ ListsGood' /\ EventsGood' /\ xLists' \in [GenericLists -> Seq(Tasks)]
           /\ uxTopReadyPriority' \in Priorities /\ pxCurrentTCB' \in Tasks /\ UNCHANGED xMissedYield
           /\ \A u \in Tasks : \A k \in GenericLists : In(u, xLists'[k]) <=> In(u, xLists[k])
           /\ IsReady(pxCurrentTCB')
           /\ \A u \in Tasks : IsReady(u) => uxPriority[u] <= uxPriority[pxCurrentTCB']
<1>1. PICK l : l = TopReady
    OBVIOUS
<1>2. PICK h : h = Head(xLists[l])
    OBVIOUS
<1>3. /\ uxTopReadyPriority' = l /\ xLists' = [xLists EXCEPT ![l] = Append(Tail(@), Head(@))]
      /\ pxCurrentTCB' = h /\ xMissedYield' = xMissedYield
    BY <1>1, <1>2 DEF vTaskSwitchContext
<1>4. /\ IsLists(xLists) /\ xLists[0] # <<>> /\ uxTopReadyPriority \in Priorities
      /\ \A i, k \in GenericLists : \A u \in Tasks : In(u, xLists[i]) /\ In(u, xLists[k]) => i = k
      /\ xLists \in [GenericLists -> Seq(Tasks)]
    BY ListedFacts, Typed
<1>5. /\ l \in 0..uxTopReadyPriority /\ xLists[l] # <<>>
      /\ \A q \in (l + 1)..uxTopReadyPriority : xLists[q] = <<>>
    BY <1>1, <1>4, TopReadyIt
<1>6. l \in Priorities /\ l \in GenericLists /\ l \in Nat
    <2>1. l \in Priorities
        BY <1>4, <1>5, KernelAssumption DEF Priorities, KernelAssumption
    <2> QED BY <2>1, ReadyListNames
<1>7. h \in Tasks /\ In(h, xLists[l]) /\ uxPriority[h] = l
    <2>1. h \in Tasks /\ In(h, xLists[l])
        BY <1>2, <1>4, <1>5, <1>6, HeadIn
    <2> QED BY <1>6, <2>1 DEF ListsGood, ReadyByPriority
<1>8. TakesTo(xLists, xLists', h, l)
    BY <1>2, <1>3, <1>4, <1>5, <1>6, RotatedIt
<1>9. \A u \in Tasks : \A k \in GenericLists : In(u, xLists'[k]) <=> In(u, xLists[k])
    BY <1>4, <1>6, <1>7, <1>8 DEF TakesTo
<1>10. IsLists(xLists') /\ xLists' \in [GenericLists -> Seq(Tasks)]
    BY <1>8 DEF TakesTo, IsLists
<1>11. \A q \in Priorities : xLists[q] # <<>> => q <= l
    <2> SUFFICES ASSUME NEW q \in Priorities, xLists[q] # <<>> PROVE q <= l
        OBVIOUS
    <2>1. q \in Nat /\ uxTopReadyPriority \in Nat
        BY <1>4, ReadyListNames
    <2>2. q <= uxTopReadyPriority
        BY DEF ListsGood, TopKnown
    <2> QED BY <1>5, <1>6, <2>1, <2>2
<1>12. \A q \in Priorities : xLists'[q] # <<>> <=> xLists[q] # <<>>
    <2> SUFFICES ASSUME NEW q \in Priorities PROVE xLists'[q] # <<>> <=> xLists[q] # <<>>
        OBVIOUS
    <2>1. q \in GenericLists
        BY ReadyListNames
    <2> QED BY <1>4, <1>9, <1>10, <2>1, HeadIn
<1>13. UNCHANGED <<uxPriority, uxBasePriority>>
    BY DEF priorities
<1>14. ListsGood'
    <2>1. ReadyByPriority'
        BY <1>9, <1>13, ReadyListNames DEF ListsGood, ReadyByPriority
    <2>2. TopKnown'
        BY <1>3, <1>11, <1>12 DEF TopKnown
    <2>3. In(Idle, xLists'[0])
        BY <1>9, ListNames, Typed DEF ListsGood
    <2> QED BY <1>10, <1>13, <2>1, <2>2, <2>3 DEF ListsGood
<1>15. EventsGood'
    BY <1>9, ListNames DEF EventsGood, Blocked, IsDelayed
<1>16. IsReady(h) /\ \A u \in Tasks : IsReady(u) => uxPriority[u] <= uxPriority[h]
    <2>1. IsReady(h)
        BY <1>6, <1>7 DEF IsReady
    <2>2. ASSUME NEW u \in Tasks, NEW q \in Priorities, In(u, xLists[q]) PROVE uxPriority[u] <= l
        <3>1. uxPriority[u] = q
            BY <2>2 DEF ListsGood, ReadyByPriority
        <3>2. xLists[q] # <<>>
            BY <1>4, <2>2, HeadIn, ReadyListNames
        <3> QED BY <1>11, <3>1, <3>2
    <2> QED BY <1>7, <2>1, <2>2 DEF IsReady
<1> QED BY <1>3, <1>6, <1>7, <1>9, <1>10, <1>14, <1>15, <1>16
(* A context switch with the scheduler running, in an interrupt or by a     *)
(* task that yields.                                                        *)
LEMMA SwitchedStep ==
    ASSUME QueueInv, uxSchedulerSuspended = 0, vTaskSwitchContext,
           xTxLock = -1, xRxLock = -1, inISR' = FALSE, checkingDelayed' = FALSE,
           pc' \in [Tasks -> PcNames], \A t \in Tasks : pc'[t] \in SwitchedOut,
           \A t \in Tasks : \/ pc'[t] = pc[t]
                            \/ pc[t] \in {"yield", "yieldMasked"} /\ pc'[t] = ret[t],
           frame' \in [Tasks -> Frames \cup {NULL}], \A t \in Tasks : SameCall(frame[t], frame'[t]),
           UNCHANGED <<xEventLists, items, priorities, clock, uxSchedulerSuspended, ret, yieldAfter,
                       xYieldRequired, storage, xRxLock, xTxLock, pxMutexHolder, uxRecursiveCallCount>>
    PROVE  QueueInv'
<1>1. UNCHANGED <<xEventLists, xTimeToWake, due, uxPriority, uxBasePriority, xEventValue, xTickCount,
                  uxMissedTicks, xNextTaskUnblockTime, uxSchedulerSuspended, ret, yieldAfter,
                  xYieldRequired, uxMessagesWaiting, xRxLock, xTxLock, pxMutexHolder,
                  uxRecursiveCallCount>>
    BY DEF items, priorities, clock, storage
<1>2. /\ ListsGood' /\ EventsGood' /\ xLists' \in [GenericLists -> Seq(Tasks)]
      /\ uxTopReadyPriority' \in Priorities /\ pxCurrentTCB' \in Tasks /\ UNCHANGED xMissedYield
      /\ \A u \in Tasks : \A k \in GenericLists : In(u, xLists'[k]) <=> In(u, xLists[k])
      /\ IsReady(pxCurrentTCB')
    BY Switched DEF QueueInv
<1>3. \A t \in Tasks : /\ ret[t] \in {"user", "top"}
                       /\ InLoop(t)' <=> InLoop(t)
                       /\ pc'[t] = "taken" <=> pc[t] = "taken"
                       /\ pc'[t] \in GoingToWait => pc[t] \in GoingToWait
                       /\ pc[t] = "top" => pc'[t] = "top"
                       /\ pc[t] \in Leaving \cup {"top"} /\ ret[t] = "top" => pc'[t] \in Leaving \cup {"top"}
    <2> SUFFICES ASSUME NEW t \in Tasks
                 PROVE  /\ ret[t] \in {"user", "top"}
                        /\ InLoop(t)' <=> InLoop(t)
                        /\ pc'[t] = "taken" <=> pc[t] = "taken"
                        /\ pc'[t] \in GoingToWait => pc[t] \in GoingToWait
                        /\ pc[t] = "top" => pc'[t] = "top"
                        /\ pc[t] \in Leaving \cup {"top"} /\ ret[t] = "top" => pc'[t] \in Leaving \cup {"top"}
        OBVIOUS
    <2>1. ret[t] \in {"user", "top"}
        BY Kept
    <2>2. CASE pc'[t] = pc[t]
        BY <1>1, <2>1, <2>2 DEF InLoop
    <2>3. CASE pc[t] \in {"yield", "yieldMasked"} /\ pc'[t] = ret[t]
        BY <1>1, <2>1, <2>3 DEF InLoop, GoingToWait, Leaving
    <2> QED BY <2>1, <2>2, <2>3
<1>4. TypeOK'
    <2>1. StorageTypeOK'
        BY Kept DEF storage, StorageTypeOK
    <2>2. inISR' \in BOOLEAN /\ checkingDelayed' \in BOOLEAN
        OBVIOUS
    <2>3. LocalsTyped
        BY <1>1, <1>2, <2>1, Kept DEF LocalsTyped
    <2> QED BY <1>1, <1>2, <2>2, <2>3, TypesKept, Typed DEF QueueInv
<1>5. pc'[pxCurrentTCB'] \in SwitchedOut
    BY <1>2
<1>6. Control'
    <2>1. pc'[Idle] = "user"
        BY Typed DEF QueueInv, Control
    <2> QED BY <1>1, <1>2, <1>3, <1>5, <2>1 DEF Control, SwitchedOut, Suspending
<1>7. Locking'
    BY <1>1, <1>5 DEF Locking, SwitchedOut, queueUNLOCKED
<1>8. Framed'
    <2>1. \A t \in Tasks : pc[t] \in GoingToWait => frame[t] # NULL
        BY DEF QueueInv, Framed, InLoop
    <2> QED BY <1>3, <2>1 DEF QueueInv, Framed, SameCall
<1>9. Waiters'
    <2> SUFFICES ASSUME NEW u \in Tasks, NEW f \in EventLists, In(u, xEventLists'[f])
                 PROVE  /\ In(u, xEventLists[f]) /\ frame'[u] # NULL /\ frame'[u].op = frame[u].op
                        /\ frame'[u].xTicksToWait = frame[u].xTicksToWait
                        /\ ret'[u] = ret[u] /\ pc'[u] \in Leaving \cup {"top"}
                        /\ In(u, xLists[SuspendedTaskList]) => In(u, xLists'[SuspendedTaskList])
                        /\ IsDelayed(u) => IsDelayed(u)'
        BY WaitersKept DEF QueueInv
    <2>1. In(u, xEventLists[f])
        BY <1>1
    <2>2. frame[u] # NULL /\ pc[u] \in Leaving \cup {"top"} /\ ret[u] = "top"
        BY <2>1 DEF QueueInv, Waiters
    <2> QED BY <1>1, <1>2, <1>3, <2>1, <2>2, ListNames DEF SameCall, IsDelayed
<1>10. Present'
    <2>1. PICK p \in Priorities : In(pxCurrentTCB', xLists[p])
        BY <1>2 DEF IsReady
    <2>2. In(pxCurrentTCB', xLists'[p])
        BY <1>2, <2>1, ReadyListNames
    <2> QED BY <2>1, <2>2 DEF Present, IsReady
<1>11. MutexFacts'
    <2>1. CASE QueueIsMutex
        <3>1. MutexTrue
            BY <2>1 DEF QueueInv, MutexFacts
        <3>2. HolderCountsTrue'
            <4>1. pxMutexHolder # NULL => (frame'[pxMutexHolder] = NULL <=> frame[pxMutexHolder] = NULL)
                                          /\ (pc'[pxMutexHolder] = "taken" <=> pc[pxMutexHolder] = "taken")
                BY <1>3, Kept DEF SameCall
            <4> QED BY <1>1, <1>3, <3>1, <4>1 DEF MutexTrue, HolderCountsTrue
        <3>3. InheritedOnlyByHolder'
            BY <1>1, <3>1 DEF MutexTrue, InheritedOnlyByHolder
        <3>4. \A t \in Tasks : frame'[t] # NULL =>
                  IF t = pxMutexHolder
                  THEN /\ frame'[t].op \in SendOps /\ frame'[t].xTicksToWait = 0 /\ pc'[t] = "top"
                       /\ uxRecursiveCallCount = 0
                  ELSE frame'[t].op = "receive"
            BY <1>3, <3>1 DEF MutexTrue, SameCall, IsSend
        <3>5. pc'[pxCurrentTCB'] \notin {"inherit", "place"}
            BY <1>5 DEF SwitchedOut
        <3>6. MutexTrue'
            BY <1>1, <3>1, <3>2, <3>3, <3>4, <3>5 DEF MutexTrue, IsSend
        <3> QED BY <1>1, <2>1, <3>6 DEF QueueInv, MutexFacts
    <2>2. CASE ~QueueIsMutex
        BY <1>1, <1>3, <1>5, <2>2 DEF QueueInv, MutexFacts, NoMutex, SwitchedOut
    <2> QED BY <2>1, <2>2
<1> QED BY <1>2, <1>4, <1>6, <1>7, <1>8, <1>9, <1>10, <1>11 DEF QueueInv

(* The switch at the end of an interrupt.                                   *)
LEMMA SwitchInISRStep ==
    ASSUME QueueInv, SwitchContextInISR,
           frame' \in [Tasks -> Frames \cup {NULL}], \A t \in Tasks : SameCall(frame[t], frame'[t]),
           UNCHANGED <<storage, xRxLock, xTxLock, pxMutexHolder, uxRecursiveCallCount>>
    PROVE  QueueInv'
<1>1. /\ inISR /\ ~checkingDelayed /\ inISR' = FALSE /\ checkingDelayed' = FALSE /\ vTaskSwitchContext
      /\ UNCHANGED <<xEventLists, items, priorities, clock, uxSchedulerSuspended, pc, ret, yieldAfter,
                     xYieldRequired>>
    <2>1. checkingDelayed \in BOOLEAN
        BY Typed DEF QueueInv
    <2> QED BY <2>1 DEF SwitchContextInISR, calls
<1>2. CASE uxSchedulerSuspended = 0
    <2>1. pc[pxCurrentTCB] \in SwitchedOut /\ xTxLock = -1 /\ xRxLock = -1
        <3>1. pc[pxCurrentTCB] \in PcNames /\ pc[pxCurrentTCB] \notin Masked
            BY <1>1, Kept DEF QueueInv, Control
        <3>2. pc[pxCurrentTCB] \notin Suspending
            BY <1>2 DEF QueueInv, Control
        <3> QED BY <3>1, <3>2 DEF PcNames, Masked, Suspending, SwitchedOut, QueueInv, Locking, queueUNLOCKED
    <2>2. \A t \in Tasks : pc'[t] \in SwitchedOut
        BY <1>1, <2>1 DEF QueueInv, Control
    <2>3. pc' \in [Tasks -> PcNames]
        BY <1>1, Kept
    <2> QED BY <1>1, <1>2, <2>1, <2>2, <2>3, SwitchedStep
<1>3. CASE uxSchedulerSuspended # 0
    <2>1. xMissedYield' = TRUE /\ UNCHANGED <<xLists, uxTopReadyPriority, pxCurrentTCB>>
        BY <1>1, <1>3 DEF vTaskSwitchContext
    <2>2. ListsGood' /\ EventsGood'
        BY <1>1, <2>1, FrameKeeps DEF QueueInv, lists
    <2>3. StaysTyped
        <3>1. inISR' \in BOOLEAN /\ checkingDelayed' \in BOOLEAN /\ xMissedYield' \in BOOLEAN
            BY <1>1, <2>1
        <3>2. StorageTypeOK'
            BY Kept DEF storage, StorageTypeOK
        <3> QED BY <1>1, <2>1, <3>1, <3>2, Typed DEF StaysTyped, QueueInv, items, clock
    <2>4. Stays
        BY <1>1, <2>1, <2>2 DEF Stays, StaysVars, storage, items, IsReady, IsDelayed
    <2> QED BY <2>3, <2>4, StaysStep
<1> QED BY <1>2, <1>3

(* A task's own yield.                                                      *)
LEMMA YieldStep ==
    ASSUME QueueInv, NEW t \in Tasks, vPortYieldProcessor(t),
           frame' \in [Tasks -> Frames \cup {NULL}], \A u \in Tasks : SameCall(frame[u], frame'[u]),
           UNCHANGED <<storage, xRxLock, xTxLock, pxMutexHolder, uxRecursiveCallCount>>
    PROVE  QueueInv'
<1>1. /\ pxCurrentTCB = t /\ ~inISR /\ pc[t] \in {"yield", "yieldMasked"}
      /\ vTaskSwitchContext /\ pc' = [pc EXCEPT ![t] = ret[t]]
      /\ UNCHANGED <<xEventLists, items, priorities, clock, uxSchedulerSuspended, ret, yieldAfter,
                     xYieldRequired, inISR, checkingDelayed>>
    BY DEF vPortYieldProcessor, Running, GoTo, interrupt
<1>2. /\ uxSchedulerSuspended = 0 /\ xTxLock = -1 /\ xRxLock = -1
      /\ inISR' = FALSE /\ checkingDelayed' = FALSE
    <2>1. uxSchedulerSuspended = 0 /\ xTxLock = -1 /\ xRxLock = -1 /\ ~checkingDelayed
        BY <1>1 DEF QueueInv, Control, Locking, Suspending, queueUNLOCKED
    <2>2. inISR \in BOOLEAN /\ checkingDelayed \in BOOLEAN
        BY Typed DEF QueueInv
    <2> QED BY <1>1, <2>1, <2>2
<1>3. pc' \in [Tasks -> PcNames] /\ pc'[t] = ret[t] /\ ret[t] \in {"user", "top"}
      /\ \A u \in Tasks \ {t} : pc'[u] = pc[u]
    <2>1. ret[t] \in {"user", "top"}
        BY Kept
    <2>2. ret[t] \in PcNames
        BY <2>1 DEF PcNames
    <2> QED BY <1>1, <2>1, <2>2, Kept
<1>4. \A u \in Tasks : pc'[u] \in SwitchedOut
    BY <1>1, <1>3 DEF QueueInv, Control, SwitchedOut
<1>5. \A u \in Tasks : \/ pc'[u] = pc[u]
                       \/ pc[u] \in {"yield", "yieldMasked"} /\ pc'[u] = ret[u]
    BY <1>1, <1>3
<1> QED BY <1>1, <1>2, <1>3, <1>4, <1>5, SwitchedStep
(* The priority of a task changes, and a ready task moves to its new list.  *)
LEMMA RaisedLists ==
    ASSUME TypeOK, ListsGood, EventsGood, NEW x \in Tasks \ {Idle}, NEW p \in Priorities,
           uxPriority' = [uxPriority EXCEPT ![x] = p],
           uxBasePriority'[Idle] = uxBasePriority[Idle], UNCHANGED xEventLists,
           \/ IsReady(x) /\ prvAddTaskToReadyQueue(GenericRemoved(x), x, p)
           \/ (IsReady(x) => p = uxPriority[x]) /\ UNCHANGED <<xLists, uxTopReadyPriority>>
    PROVE  /\ ListsGood' /\ EventsGood' /\ xLists' \in [GenericLists -> Seq(Tasks)]
           /\ uxTopReadyPriority' \in Priorities /\ uxPriority' \in [Tasks -> Priorities]
           /\ uxPriority'[x] = p /\ \A u \in Tasks \ {x} : uxPriority'[u] = uxPriority[u]
           /\ \A u \in Tasks : /\ IsReady(u)' <=> IsReady(u)
                               /\ IsDelayed(u) => IsDelayed(u)'
                               /\ In(u, xLists[SuspendedTaskList]) => In(u, xLists'[SuspendedTaskList])
<1>1. /\ uxPriority' \in [Tasks -> Priorities] /\ uxPriority'[x] = p
      /\ \A u \in Tasks \ {x} : uxPriority'[u] = uxPriority[u]
    BY Typed
<1>2. CASE IsReady(x) /\ prvAddTaskToReadyQueue(GenericRemoved(x), x, p)
    <2>1. /\ ListsGood' /\ xLists' \in [GenericLists -> Seq(Tasks)] /\ uxTopReadyPriority' \in Priorities
          /\ \A u \in Tasks \ {x} : /\ IsReady(u)' <=> IsReady(u)
                                    /\ IsDelayed(u)' <=> IsDelayed(u)
                                    /\ Blocked(u)' <=> Blocked(u)
                                    /\ In(u, xLists'[SuspendedTaskList]) <=> In(u, xLists[SuspendedTaskList])
          /\ IsReady(x)' /\ ~Blocked(x)'
        BY <1>1, <1>2, ReadiedIt
    <2>2. ~Blocked(x) /\ \A e \in ItemLists : ~In(x, xEventLists[e])
        BY <1>2, ListedFacts DEF EventsGood
    <2>3. EventsGood'
        BY <2>1, <2>2 DEF EventsGood
    <2> QED BY <1>1, <1>2, <2>1, <2>2, <2>3 DEF Blocked
<1>3. CASE (IsReady(x) => p = uxPriority[x]) /\ UNCHANGED <<xLists, uxTopReadyPriority>>
    <2>1. \A u \in Tasks : /\ IsReady(u)' <=> IsReady(u)
                           /\ IsDelayed(u)' <=> IsDelayed(u)
                           /\ Blocked(u)' <=> Blocked(u)
        BY <1>3 DEF IsReady, IsDelayed, Blocked
    <2>2. ReadyByPriority'
        BY <1>1, <1>3 DEF ListsGood, ReadyByPriority, IsReady
    <2>3. ListsGood'
        BY <1>1, <1>3, <2>2, Typed DEF ListsGood, TopKnown
    <2>4. EventsGood'
        BY <2>1 DEF EventsGood
    <2> QED BY <1>1, <1>3, <2>1, <2>3, <2>4, Typed
<1> QED BY <1>2, <1>3

(* The waiting task lends the holder of the mutex its priority.             *)
LEMMA InheritStep ==
    ASSUME QueueInv, NEW t \in Tasks, Inherit(t)
    PROVE  QueueInv'
<1>1. /\ pxCurrentTCB = t /\ ~inISR /\ pc[t] = "inherit" /\ vTaskPriorityInherit(pxMutexHolder)
      /\ pc' = [pc EXCEPT ![t] = "place"]
      /\ UNCHANGED <<xEventLists, uxBasePriority, ret, items, clock, pxCurrentTCB, interrupt, yieldAfter,
                     xYieldRequired, uxSchedulerSuspended, xMissedYield, storage, xRxLock, xTxLock,
                     pxMutexHolder, uxRecursiveCallCount, frame>>
    BY DEF Inherit, Running, GoTo, calm, suspension, queueVars
<1>2. QueueIsMutex /\ MutexTrue /\ uxMessagesWaiting = 0
    <2>1. QueueIsMutex
        BY <1>1 DEF QueueInv, MutexFacts, NoMutex
    <2> QED BY <1>1, <2>1 DEF QueueInv, MutexFacts, MutexTrue
<1>3. pxMutexHolder \in Tasks \ {Idle} /\ pxMutexHolder # NULL
    BY <1>2, Typed DEF QueueInv, MutexFacts, MutexTrue, HolderCountsTrue
<1>4. PICK h \in Tasks \ {Idle} : h = pxMutexHolder
    BY <1>3
<1>5. /\ IsReady(t) /\ ~checkingDelayed /\ uxSchedulerSuspended = 1 /\ t # Idle
      /\ xTxLock # -1 /\ xRxLock # -1
    BY <1>1, Inside
<1>6. /\ frame[t] # NULL /\ frame[t].xEntryTimeSet /\ frame[t].xTicksToWait > 0
      /\ yieldAfter[t] /\ ret[t] = "top"
    BY <1>1 DEF QueueInv, Control, Framed, InLoop, GoingToWait
<1>7. pxMutexHolder # t /\ frame[t].op = "receive"
    BY <1>1, <1>2, <1>6, MutexWaiters
<1>8. /\ ListsGood' /\ EventsGood' /\ xLists' \in [GenericLists -> Seq(Tasks)]
      /\ uxTopReadyPriority' \in Priorities /\ uxPriority' \in [Tasks -> Priorities]
      /\ \A u \in Tasks \ {h} : uxPriority'[u] = uxPriority[u]
      /\ \A u \in Tasks : /\ IsReady(u)' <=> IsReady(u)
                          /\ IsDelayed(u) => IsDelayed(u)'
                          /\ In(u, xLists[SuspendedTaskList]) => In(u, xLists'[SuspendedTaskList])
      /\ xEventValue' \in [Tasks -> 1..configMAX_PRIORITIES]
    <2> DEFINE p == uxPriority[t]
    <2>1. p \in Priorities
        BY Typed DEF QueueInv
    <2>2. CASE uxPriority[h] < p
        <3>1. /\ uxPriority' = [uxPriority EXCEPT ![h] = p]
              /\ xEventValue' = [xEventValue EXCEPT ![h] = configMAX_PRIORITIES - p]
              /\ IF In(h, xLists[uxPriority[h]]) THEN prvAddTaskToReadyQueue(GenericRemoved(h), h, p)
                 ELSE UNCHANGED <<xLists, uxTopReadyPriority>>
            BY <1>1, <1>4, <2>2 DEF vTaskPriorityInherit
        <3>2. IsReady(h) <=> In(h, xLists[uxPriority[h]])
            BY Typed DEF QueueInv, ListsGood, ReadyByPriority, IsReady
        <3>3. xEventValue' \in [Tasks -> 1..configMAX_PRIORITIES]
            BY <2>1, <3>1, EventValueTyped, Typed DEF QueueInv
        <3> HIDE DEF p
        <3>4. TypeOK /\ ListsGood /\ EventsGood /\ uxBasePriority'[Idle] = uxBasePriority[Idle]
              /\ UNCHANGED xEventLists
            BY <1>1 DEF QueueInv
        <3> QED BY <2>1, <3>1, <3>2, <3>3, <3>4, RaisedLists
    <2>3. CASE ~(uxPriority[h] < p)
        <3>1. UNCHANGED <<uxPriority, xEventValue, xLists, uxTopReadyPriority>>
            BY <1>1, <1>4, <2>3 DEF vTaskPriorityInherit
        <3>2. ListsGood' /\ EventsGood'
            BY <1>1, <3>1, FrameKeeps DEF QueueInv, lists, priorities
        <3> QED BY <3>1, <3>2, Typed DEF QueueInv, IsReady, IsDelayed
    <2> QED BY <2>2, <2>3
<1>9. "place" \in PcNames /\ "place" \in Suspending /\ "place" \in GoingToWait
    BY DEF PcNames, Suspending, GoingToWait
<1>10. LocalsTyped
    <2>1. StorageTypeOK'
        BY <1>1, Kept DEF storage, StorageTypeOK
    <2> QED BY <1>1, <2>1, Kept DEF LocalsTyped
<1>11. Moves(t, "place")
    BY <1>1, <1>5, <1>6, <1>9 DEF Moves, SameCall
<1>12. /\ Control' /\ Locking' /\ Framed' /\ Present'
       /\ pc' \in [Tasks -> PcNames] /\ pc'[t] = "place" /\ \A u \in Tasks \ {t} : pc'[u] = pc[u]
    <2>1. UNCHANGED <<pxCurrentTCB, interrupt>> /\ IsReady(t)'
        BY <1>1, <1>5, <1>8
    <2> QED BY <1>9, <1>10, <1>11, <2>1, MovesOn
<1>13. Waiters'
    <2> SUFFICES ASSUME NEW u \in Tasks, NEW f \in EventLists, In(u, xEventLists'[f])
                 PROVE  /\ In(u, xEventLists[f]) /\ frame'[u] # NULL /\ frame'[u].op = frame[u].op
                        /\ frame'[u].xTicksToWait = frame[u].xTicksToWait
                        /\ ret'[u] = ret[u] /\ pc'[u] \in Leaving \cup {"top"}
                        /\ In(u, xLists[SuspendedTaskList]) => In(u, xLists'[SuspendedTaskList])
                        /\ IsDelayed(u) => IsDelayed(u)'
        BY WaitersKept DEF QueueInv
    <2>1. In(u, xEventLists[f])
        BY <1>1
    <2>2. frame[u] # NULL /\ pc[u] \in Leaving \cup {"top"} /\ u # t
        BY <1>1, <2>1 DEF QueueInv, Waiters, Leaving
    <2> QED BY <1>1, <1>8, <1>12, <2>1, <2>2
<1>14. TypeOK'
    BY <1>1, <1>8, <1>10, <1>12, TypesKept, Typed DEF QueueInv, items, clock, interrupt
<1>15. MutexFacts'
    <2>1. InheritedOnlyByHolder'
        BY <1>1, <1>2, <1>4, <1>8 DEF MutexTrue, InheritedOnlyByHolder
    <2>2. UNCHANGED uxMessagesWaiting
        BY <1>1 DEF storage
    <2> QED BY <1>1, <1>2, <1>6, <1>7, <1>12, <2>1, <2>2, MutexMoved DEF SameCall
<1> QED BY <1>8, <1>12, <1>13, <1>14, <1>15 DEF QueueInv

(* vTaskPrioritySet by a task, of any task but the idle one.                *)
LEMMA PrioritySetStep ==
    ASSUME QueueInv, NEW t \in Tasks, NEW x \in Tasks \ {Idle}, NEW new \in SettablePriorities,
           vTaskPrioritySet(t, x, new), UNCHANGED queueVars
    PROVE  QueueInv'
<1> DEFINE old == uxBasePriority[x]
           own == uxBasePriority[x] = uxPriority[x]
           p == IF own THEN new ELSE uxPriority[x]
           at == IF (IF new > old THEN x # t ELSE x = t) THEN "yieldMasked" ELSE "user"
<1>1. /\ pxCurrentTCB = t /\ t # Idle /\ ~inISR /\ pc[t] = "user"
      /\ pc' = [pc EXCEPT ![t] = at] /\ ret' = [ret EXCEPT ![t] = "user"]
      /\ uxPriority' = [uxPriority EXCEPT ![x] = p] /\ uxBasePriority' = [uxBasePriority EXCEPT ![x] = new]
      /\ xEventValue' = [xEventValue EXCEPT ![x] = configMAX_PRIORITIES - new]
      /\ IF In(x, xLists[old]) THEN prvAddTaskToReadyQueue(GenericRemoved(x), x, uxPriority'[x])
         ELSE UNCHANGED <<xLists, uxTopReadyPriority>>
      /\ UNCHANGED <<xEventLists, items, clock, pxCurrentTCB, interrupt, yieldAfter,
                     xYieldRequired, uxSchedulerSuspended, xMissedYield, storage, xRxLock, xTxLock,
                     pxMutexHolder, uxRecursiveCallCount, frame>>
    BY DEF vTaskPrioritySet, Caller, Running, YieldMaskedIf, ReturnVia, GoTo, callFrame, suspension, queueVars
<1>2. new \in Priorities /\ old \in Priorities /\ uxPriority[x] \in Priorities
    BY QueueAssumption, Typed DEF QueueAssumption, QueueInv
<1>3. p \in Priorities /\ uxPriority'[x] = p
    BY <1>1, <1>2, Typed DEF QueueInv
<1>4. \A q \in Priorities : In(x, xLists[q]) => uxPriority[x] = q
    BY DEF QueueInv, ListsGood, ReadyByPriority
<1>5. /\ uxBasePriority' \in [Tasks -> Priorities] /\ uxBasePriority'[x] = new
      /\ \A u \in Tasks \ {x} : uxBasePriority'[u] = uxBasePriority[u]
      /\ uxBasePriority'[Idle] = uxBasePriority[Idle]
      /\ xEventValue' \in [Tasks -> 1..configMAX_PRIORITIES]
    BY <1>1, <1>2, EventValueTyped, Typed DEF QueueInv
<1>6. \/ IsReady(x) /\ prvAddTaskToReadyQueue(GenericRemoved(x), x, p)
      \/ (IsReady(x) => p = uxPriority[x]) /\ UNCHANGED <<xLists, uxTopReadyPriority>>
    <2>1. CASE In(x, xLists[old])
        <3>1. IsReady(x)
            BY <1>2, <2>1 DEF IsReady
        <3> QED BY <1>1, <1>3, <2>1, <3>1
    <2>2. CASE ~In(x, xLists[old])
        <3>1. IsReady(x) => ~own
            BY <1>4, <2>2 DEF IsReady
        <3> QED BY <1>1, <2>2, <3>1
    <2> QED BY <2>1, <2>2
<1>7. /\ at \in {"user", "yieldMasked"} /\ at \in PcNames /\ at \notin Suspending
      /\ at \notin GoingToWait /\ (at \in Leaving <=> at = "yieldMasked")
    BY DEF PcNames, Suspending, GoingToWait, Leaving
<1>8. \A u \in Tasks : uxPriority'[u] = uxBasePriority'[u] \/ uxPriority[u] # uxBasePriority[u]
    BY <1>1, <1>3, <1>5, Typed DEF QueueInv
<1> HIDE DEF at, p, own, old
<1>9. /\ ListsGood' /\ EventsGood' /\ xLists' \in [GenericLists -> Seq(Tasks)]
      /\ uxTopReadyPriority' \in Priorities /\ uxPriority' \in [Tasks -> Priorities]
      /\ \A u \in Tasks : /\ IsReady(u)' <=> IsReady(u)
                          /\ IsDelayed(u) => IsDelayed(u)'
                          /\ In(u, xLists[SuspendedTaskList]) => In(u, xLists'[SuspendedTaskList])
    <2>1. TypeOK /\ ListsGood /\ EventsGood /\ UNCHANGED xEventLists
        BY <1>1 DEF QueueInv
    <2> QED BY <1>1, <1>3, <1>5, <1>6, <2>1, RaisedLists
<1>10. /\ IsReady(t) /\ ~checkingDelayed /\ uxSchedulerSuspended = 0 /\ xTxLock = -1 /\ xRxLock = -1
       /\ frame[t] = NULL
    BY <1>1, Outside DEF QueueInv, Framed, InLoop, GoingToWait, Leaving
<1>11. /\ ret' \in [Tasks -> {"user", "top"}] /\ ret'[t] = "user"
       /\ \A u \in Tasks \ {t} : ret'[u] = ret[u]
    BY <1>1, Kept
<1>12. LocalsTyped
    <2>1. StorageTypeOK'
        BY <1>1, Kept DEF storage, StorageTypeOK
    <2> QED BY <1>1, <1>11, <2>1, Kept DEF LocalsTyped
<1>13. Moves(t, at)
    BY <1>1, <1>7, <1>10, <1>11 DEF Moves, SameCall
<1>14. /\ Control' /\ Locking' /\ Framed' /\ Present'
       /\ pc' \in [Tasks -> PcNames] /\ pc'[t] = at /\ \A u \in Tasks \ {t} : pc'[u] = pc[u]
    <2>1. UNCHANGED <<pxCurrentTCB, interrupt>> /\ IsReady(t)'
        BY <1>1, <1>9, <1>10
    <2>2. at \notin {"wakeReceiver", "wakeSender"}
        BY <1>7
    <2> QED BY <1>7, <1>12, <1>13, <2>1, <2>2, MovesOn
<1>15. Waiters'
    <2> SUFFICES ASSUME NEW u \in Tasks, NEW f \in EventLists, In(u, xEventLists'[f])
                 PROVE  /\ In(u, xEventLists[f]) /\ frame'[u] # NULL /\ frame'[u].op = frame[u].op
                        /\ frame'[u].xTicksToWait = frame[u].xTicksToWait
                        /\ ret'[u] = ret[u] /\ pc'[u] \in Leaving \cup {"top"}
                        /\ In(u, xLists[SuspendedTaskList]) => In(u, xLists'[SuspendedTaskList])
                        /\ IsDelayed(u) => IsDelayed(u)'
        BY WaitersKept DEF QueueInv
    <2>1. In(u, xEventLists[f])
        BY <1>1
    <2>2. frame[u] # NULL /\ pc[u] \in Leaving \cup {"top"} /\ u # t
        BY <1>10, <2>1 DEF QueueInv, Waiters
    <2> QED BY <1>1, <1>9, <1>11, <1>14, <2>1, <2>2
<1>16. TypeOK'
    BY <1>1, <1>5, <1>9, <1>12, <1>14, TypesKept, Typed DEF QueueInv, items, clock, interrupt
<1>17. MutexFacts'
    <2>1. IF QueueIsMutex THEN InheritedOnlyByHolder' ELSE uxPriority' = uxBasePriority'
        <3>1. CASE QueueIsMutex
            BY <1>1, <1>8, <3>1 DEF QueueInv, MutexFacts, MutexTrue, InheritedOnlyByHolder
        <3>2. CASE ~QueueIsMutex
            BY <1>5, <1>8, <1>9, <3>2 DEF QueueInv, MutexFacts, NoMutex
        <3> QED BY <3>1, <3>2
    <2>2. UNCHANGED uxMessagesWaiting
        BY <1>1 DEF storage
    <2>3. pc'[t] \notin {"taken", "inherit", "place", "top"} /\ pc[t] \notin {"top", "taken"}
        BY <1>1, <1>7, <1>14
    <2> QED BY <1>1, <1>10, <1>14, <2>1, <2>2, <2>3, MutexLeaving, MutexMoved DEF SameCall
<1> QED BY <1>9, <1>14, <1>15, <1>16, <1>17 DEF QueueInv

(* The task leaves its ready list for one where it sleeps.                  *)
LEMMA Slept ==
    ASSUME TypeOK, ListsGood, NEW t \in Tasks \ {Idle},
           NEW l \in {SuspendedTaskList, DelayedTaskList, OverflowDelayedTaskList},
           TakesTo(xLists, xLists', t, l),
           UNCHANGED <<uxPriority, uxBasePriority, uxTopReadyPriority>>
    PROVE  /\ ListsGood' /\ xLists' \in [GenericLists -> Seq(Tasks)]
           /\ \A u \in Tasks \ {t} : /\ IsReady(u)' <=> IsReady(u)
                                     /\ IsDelayed(u)' <=> IsDelayed(u)
                                     /\ Blocked(u)' <=> Blocked(u)
                                     /\ In(u, xLists'[SuspendedTaskList]) <=> In(u, xLists[SuspendedTaskList])
           /\ ~IsReady(t)' /\ Blocked(t)'
           /\ IsDelayed(t)' <=> l # SuspendedTaskList
           /\ In(t, xLists'[SuspendedTaskList]) <=> l = SuspendedTaskList
<1>1. l \in GenericLists /\ l \notin Priorities
    BY ListNames
<1>2. /\ uxTopReadyPriority \in Nat /\ uxTopReadyPriority' \in Nat
      /\ uxTopReadyPriority <= uxTopReadyPriority'
    BY Typed, ReadyListNames
<1>3. /\ uxPriority'[Idle] = 0 /\ uxBasePriority'[Idle] = 0
      /\ \A u \in Tasks \ {t} : uxPriority'[u] = uxPriority[u]
    BY DEF ListsGood
<1>4. t \in Tasks /\ t # Idle
    OBVIOUS
<1>5. /\ ListsGood' /\ xLists' \in [GenericLists -> Seq(Tasks)]
      /\ \A u \in Tasks \ {t} : /\ IsReady(u)' <=> IsReady(u)
                                /\ IsDelayed(u)' <=> IsDelayed(u)
                                /\ Blocked(u)' <=> Blocked(u)
                                /\ In(u, xLists'[SuspendedTaskList]) <=> In(u, xLists[SuspendedTaskList])
      /\ IsReady(t)' <=> l \in Priorities
      /\ IsDelayed(t)' <=> l \in {DelayedTaskList, OverflowDelayedTaskList}
      /\ In(t, xLists'[SuspendedTaskList]) <=> l = SuspendedTaskList
    BY <1>1, <1>2, <1>3, <1>4, ListsTaken
<1> QED BY <1>1, <1>5, ListNames DEF Blocked

(* Sleeping for n ticks.                                                    *)
LEMMA SleptFor ==
    ASSUME TypeOK, ListsGood, NEW t \in Tasks \ {Idle}, NEW n \in Ticks,
           prvAddCurrentTaskToDelayedList(t, WakeTime(n))
    PROVE  /\ \E l \in {DelayedTaskList, OverflowDelayedTaskList} : TakesTo(xLists, xLists', t, l)
           /\ xTimeToWake' \in [Tasks -> Ticks] /\ due' \in [Tasks -> Int]
           /\ xNextTaskUnblockTime' \in Ticks
<1>1. xTickCount \in Ticks /\ uxMissedTicks \in Nat /\ xNextTaskUnblockTime \in Ticks
      /\ xTimeToWake \in [Tasks -> Ticks] /\ due \in [Tasks -> Int] /\ IsLists(xLists)
    BY Typed DEF ListsGood
<1> DEFINE w == WakeTime(n)
<1>2. w \in Ticks
    <2>1. xTickCount + n \in Int /\ -TickMod < xTickCount + n /\ xTickCount + n < 2 * TickMod
        BY <1>1, TickFacts
    <2> QED BY <2>1, ModTick DEF WakeTime
<1>3. prvAddCurrentTaskToDelayedList(t, w) /\ t \in Tasks
    OBVIOUS
<1> HIDE DEF w
<1>4. TakesTo(xLists, xLists', t, DelayedListFor(w)) /\ xTimeToWake' \in [Tasks -> Ticks]
    BY <1>1, <1>2, <1>3, DelayedIt
<1>5. DelayedListFor(w) \in {DelayedTaskList, OverflowDelayedTaskList}
    BY DEF DelayedListFor
<1>6. xNextTaskUnblockTime' \in Ticks
    BY <1>1, <1>2, <1>3 DEF prvAddCurrentTaskToDelayedList, UnblockTimeWith
<1>7. due' \in [Tasks -> Int]
    <2>1. due' = [due EXCEPT ![t] = ((w - xTickCount) % TickMod) - uxMissedTicks]
        BY <1>3 DEF prvAddCurrentTaskToDelayedList
    <2>2. w - xTickCount \in Int /\ -TickMod < w - xTickCount /\ w - xTickCount < 2 * TickMod
        BY <1>1, <1>2, TickFacts
    <2>3. (w - xTickCount) % TickMod \in Nat
        BY <2>2, ModTick, TickFacts
    <2> DEFINE d == ((w - xTickCount) % TickMod) - uxMissedTicks
    <2>4. d \in Int
        BY <1>1, <2>3
    <2>5. due' = [due EXCEPT ![t] = d]
        BY <2>1
    <2> HIDE DEF d
    <2> QED BY <1>1, <2>4, <2>5
<1> QED BY <1>4, <1>5, <1>6, <1>7

(* vTaskDelay for some ticks.                                               *)
LEMMA DelayStep ==
    ASSUME QueueInv, NEW t \in Tasks, NEW n \in Ticks,
           Running(t, "delay"), prvAddCurrentTaskToDelayedList(t, WakeTime(n)),
           CallResumeAll(t, "user", TRUE),
           UNCHANGED <<xEventLists, uxTopReadyPriority, priorities, xTickCount,
                       uxMissedTicks, suspension, pxCurrentTCB, interrupt>>,
           UNCHANGED queueVars
    PROVE  QueueInv'
<1>1. /\ pxCurrentTCB = t /\ ~inISR /\ pc[t] = "delay" /\ pc' = [pc EXCEPT ![t] = "resumeAll"]
      /\ ret' = [ret EXCEPT ![t] = "user"] /\ yieldAfter' = [yieldAfter EXCEPT ![t] = TRUE]
      /\ UNCHANGED <<xEventLists, uxTopReadyPriority, priorities, xTickCount, uxMissedTicks,
                     uxSchedulerSuspended, xMissedYield, pxCurrentTCB, interrupt, xYieldRequired,
                     storage, xRxLock, xTxLock, pxMutexHolder, uxRecursiveCallCount, frame>>
    BY DEF Running, CallResumeAll, GoTo, suspension, queueVars
<1>2. /\ IsReady(t) /\ ~checkingDelayed /\ uxSchedulerSuspended = 1 /\ t # Idle
      /\ xTxLock = -1 /\ xRxLock = -1
    BY <1>1, Inside
<1>3. frame[t] = NULL /\ \A e \in ItemLists : ~In(t, xEventLists[e])
    BY <1>1, CurrentReady DEF QueueInv, Framed, InLoop, GoingToWait, Leaving
<1>4. UNCHANGED <<uxPriority, uxBasePriority, xEventValue, uxTopReadyPriority, inISR, checkingDelayed>>
    BY <1>1 DEF priorities, interrupt
<1>5. /\ \E l \in {DelayedTaskList, OverflowDelayedTaskList} : TakesTo(xLists, xLists', t, l)
      /\ xTimeToWake' \in [Tasks -> Ticks] /\ due' \in [Tasks -> Int] /\ xNextTaskUnblockTime' \in Ticks
    BY <1>2, SleptFor DEF QueueInv
<1>6. PICK l \in {DelayedTaskList, OverflowDelayedTaskList} : TakesTo(xLists, xLists', t, l)
    BY <1>5
<1>7. /\ ListsGood' /\ xLists' \in [GenericLists -> Seq(Tasks)]
      /\ \A u \in Tasks \ {t} : /\ IsReady(u)' <=> IsReady(u)
                                /\ IsDelayed(u)' <=> IsDelayed(u)
                                /\ Blocked(u)' <=> Blocked(u)
                                /\ In(u, xLists'[SuspendedTaskList]) <=> In(u, xLists[SuspendedTaskList])
    BY <1>2, <1>4, <1>6, Slept DEF QueueInv
<1>8. EventsGood'
    BY <1>1, <1>3, <1>7 DEF QueueInv, EventsGood
<1>9. /\ ret' \in [Tasks -> {"user", "top"}] /\ ret'[t] = "user" /\ \A u \in Tasks \ {t} : ret'[u] = ret[u]
      /\ yieldAfter' \in [Tasks -> BOOLEAN] /\ yieldAfter'[t]
    BY <1>1, Kept
<1>10. LocalsTyped
    <2>1. StorageTypeOK'
        BY <1>1, Kept DEF storage, StorageTypeOK
    <2> QED BY <1>1, <1>9, <2>1, Kept DEF LocalsTyped
<1>11. "resumeAll" \in PcNames /\ "resumeAll" \in Suspending /\ "resumeAll" \notin GoingToWait
    BY DEF PcNames, Suspending, GoingToWait
<1>12. Moves(t, "resumeAll")
    BY <1>1, <1>2, <1>3, <1>9, <1>11 DEF Moves, SameCall
<1>13. /\ Control' /\ Locking' /\ Framed' /\ Present'
       /\ pc' \in [Tasks -> PcNames] /\ pc'[t] = "resumeAll" /\ \A u \in Tasks \ {t} : pc'[u] = pc[u]
    <2>1. UNCHANGED <<pxCurrentTCB, interrupt>> /\ UNCHANGED xEventLists
        BY <1>1
    <2> QED BY <1>9, <1>10, <1>11, <1>12, <2>1, MovesOn
<1>14. Waiters'
    <2> SUFFICES ASSUME NEW u \in Tasks, NEW f \in EventLists, In(u, xEventLists'[f])
                 PROVE  /\ In(u, xEventLists[f]) /\ frame'[u] # NULL /\ frame'[u].op = frame[u].op
                        /\ frame'[u].xTicksToWait = frame[u].xTicksToWait
                        /\ ret'[u] = ret[u] /\ pc'[u] \in Leaving \cup {"top"}
                        /\ In(u, xLists[SuspendedTaskList]) => In(u, xLists'[SuspendedTaskList])
                        /\ IsDelayed(u) => IsDelayed(u)'
        BY WaitersKept DEF QueueInv
    <2>1. In(u, xEventLists[f]) /\ u # t
        BY <1>1, <1>3, EventNames
    <2>2. frame[u] # NULL /\ pc[u] \in Leaving \cup {"top"}
        BY <2>1 DEF QueueInv, Waiters
    <2> QED BY <1>1, <1>7, <1>9, <1>13, <2>1, <2>2
<1>15. TypeOK'
    BY <1>1, <1>4, <1>5, <1>7, <1>10, <1>13, TypesKept, Typed DEF QueueInv
<1>16. MutexFacts'
    BY <1>1, <1>3, <1>4, <1>13, MutexLeaving, MutexKept DEF storage, SameCall
<1> QED BY <1>7, <1>8, <1>13, <1>14, <1>15, <1>16 DEF QueueInv

(* The task blocks on the queue, and is on its way to a context switch.     *)
LEMMA BlockStep ==
    ASSUME QueueInv, NEW t \in Tasks, Block(t)
    PROVE  QueueInv'
<1> DEFINE e == IF IsSend(t) THEN Waiting.send ELSE Waiting.receive
           n == frame[t].xTicksToWait
           r == InsertByValue(xEventLists[e], t, xEventValue)
<1>1. /\ pxCurrentTCB = t /\ ~inISR /\ pc[t] = "place" /\ pc' = [pc EXCEPT ![t] = "unlockTx"]
      /\ vTaskPlaceOnEventList(t, e, n)
      /\ UNCHANGED <<uxTopReadyPriority, priorities, xTickCount, uxMissedTicks, uxSchedulerSuspended,
                     xMissedYield, pxCurrentTCB, ret, yieldAfter, xYieldRequired, interrupt,
                     storage, xRxLock, xTxLock, pxMutexHolder, uxRecursiveCallCount, frame>>
    BY DEF Block, Running, GoTo, suspension, queueVars
<1>2. /\ IsReady(t) /\ ~checkingDelayed /\ uxSchedulerSuspended = 1 /\ t # Idle
      /\ xTxLock # -1 /\ xRxLock # -1
    BY <1>1, Inside
<1>3. /\ frame[t] # NULL /\ frame[t].xEntryTimeSet /\ frame[t].xTicksToWait > 0
      /\ yieldAfter[t] /\ ret[t] = "top" /\ frame[t] \in Frames /\ n \in Ticks
    <2>1. frame[t] # NULL /\ frame[t].xEntryTimeSet /\ frame[t].xTicksToWait > 0
          /\ yieldAfter[t] /\ ret[t] = "top"
        BY <1>1 DEF QueueInv, Control, Framed, InLoop, GoingToWait
    <2> QED BY <2>1, Kept, FrameFields
<1>4. ~Blocked(t) /\ \A f \in ItemLists : ~In(t, xEventLists[f])
    BY <1>1, CurrentReady DEF Leaving
<1>5. UNCHANGED <<uxPriority, uxBasePriority, xEventValue, uxTopReadyPriority, inISR, checkingDelayed>>
    BY <1>1 DEF priorities, interrupt
<1>6. e \in EventLists /\ e \in ItemLists /\ (e = Waiting.send <=> IsSend(t))
    BY EventNames
<1> HIDE DEF e, n
<1>7. /\ \E l \in {SuspendedTaskList, DelayedTaskList, OverflowDelayedTaskList} :
            TakesTo(xLists, xLists', t, l) /\ (l = SuspendedTaskList <=> n = portMAX_DELAY)
      /\ xTimeToWake' \in [Tasks -> Ticks] /\ due' \in [Tasks -> Int] /\ xNextTaskUnblockTime' \in Ticks
    <2>1. CASE n = portMAX_DELAY
        <3>1. /\ xLists' = [GenericRemoved(t) EXCEPT ![SuspendedTaskList] = Append(@, t)]
              /\ UNCHANGED <<items, xNextTaskUnblockTime>>
            BY <1>1, <2>1 DEF vTaskPlaceOnEventList
        <3>2. TakesTo(xLists, xLists', t, SuspendedTaskList)
            BY <3>1, AppendedIt, ListNames DEF QueueInv, ListsGood
        <3> QED BY <2>1, <3>1, <3>2, Typed DEF QueueInv, items
    <2>2. CASE n # portMAX_DELAY
        <3>1. prvAddCurrentTaskToDelayedList(t, WakeTime(n))
            BY <1>1, <2>2 DEF vTaskPlaceOnEventList
        <3>2. /\ \E l \in {DelayedTaskList, OverflowDelayedTaskList} : TakesTo(xLists, xLists', t, l)
              /\ xTimeToWake' \in [Tasks -> Ticks] /\ due' \in [Tasks -> Int]
              /\ xNextTaskUnblockTime' \in Ticks
            BY <1>2, <1>3, <3>1, SleptFor DEF QueueInv
        <3> QED BY <2>2, <3>2, ListNames
    <2> QED BY <2>1, <2>2
<1>8. PICK l \in {SuspendedTaskList, DelayedTaskList, OverflowDelayedTaskList} :
          TakesTo(xLists, xLists', t, l) /\ (l = SuspendedTaskList <=> n = portMAX_DELAY)
    BY <1>7
<1>9. /\ ListsGood' /\ xLists' \in [GenericLists -> Seq(Tasks)]
      /\ \A u \in Tasks \ {t} : /\ IsReady(u)' <=> IsReady(u)
                                /\ IsDelayed(u)' <=> IsDelayed(u)
                                /\ Blocked(u)' <=> Blocked(u)
                                /\ In(u, xLists'[SuspendedTaskList]) <=> In(u, xLists[SuspendedTaskList])
      /\ ~IsReady(t)' /\ Blocked(t)'
      /\ IsDelayed(t)' <=> l # SuspendedTaskList
      /\ In(t, xLists'[SuspendedTaskList]) <=> l = SuspendedTaskList
    BY <1>2, <1>5, <1>8, Slept DEF QueueInv
<1>10. /\ xEventLists' \in [ItemLists -> Seq(Tasks)]
       /\ xEventLists'[e] = r /\ \A f \in ItemLists \ {e} : xEventLists'[f] = xEventLists[f]
       /\ Once(r) /\ \A u \in Tasks : In(u, r) <=> u = t \/ In(u, xEventLists[e])
    <2>1. xEventLists \in [ItemLists -> Seq(Tasks)] /\ xEventValue \in [Tasks -> Nat]
        BY Typed, KernelAssumption DEF QueueInv, KernelAssumption
    <2>2. xEventLists[e] \in Seq(Tasks) /\ Once(xEventLists[e]) /\ ~In(t, xEventLists[e])
        BY <1>4, <1>6, <2>1 DEF QueueInv, EventsGood
    <2>3. r \in Seq(Tasks) /\ Once(r) /\ \A u \in Tasks : In(u, r) <=> u = t \/ In(u, xEventLists[e])
        BY <2>1, <2>2, InsertIt
    <2>4. xEventLists' = [xEventLists EXCEPT ![e] = r]
        BY <1>1 DEF vTaskPlaceOnEventList
    <2> HIDE DEF r
    <2> QED BY <1>6, <2>1, <2>3, <2>4
<1> HIDE DEF r
<1>11. \A u \in Tasks : \A f \in ItemLists :
           In(u, xEventLists'[f]) <=> (u = t /\ f = e) \/ In(u, xEventLists[f])
    BY <1>4, <1>6, <1>10
<1>12. EventsGood'
    BY <1>4, <1>9, <1>10, <1>11 DEF QueueInv, EventsGood
<1>13. LocalsTyped
    <2>1. StorageTypeOK'
        BY <1>1, Kept DEF storage, StorageTypeOK
    <2> QED BY <1>1, <2>1, Kept DEF LocalsTyped
<1>14. "unlockTx" \in PcNames /\ "unlockTx" \in Suspending /\ "unlockTx" \notin GoingToWait /\ "unlockTx" \in Leaving
    BY DEF PcNames, Suspending, GoingToWait, Leaving
<1>15. Moves(t, "unlockTx")
    BY <1>1, <1>2, <1>3, <1>14 DEF Moves, SameCall
<1>16. /\ Control' /\ Locking' /\ Framed' /\ Present'
       /\ pc' \in [Tasks -> PcNames] /\ pc'[t] = "unlockTx" /\ \A u \in Tasks \ {t} : pc'[u] = pc[u]
    <2>1. UNCHANGED <<pxCurrentTCB, interrupt>> /\ yieldAfter'[t]
        BY <1>1, <1>3
    <2> QED BY <1>13, <1>14, <1>15, <2>1, MovesOn
<1>17. Waiters'
    <2> SUFFICES ASSUME NEW u \in Tasks, NEW f \in EventLists, In(u, xEventLists'[f])
                 PROVE  /\ frame'[u] # NULL /\ IsSend(u)' = (f = Waiting.send)
                        /\ ret'[u] = "top" /\ pc'[u] \in Leaving \cup {"top"}
                        /\ IF frame'[u].xTicksToWait = portMAX_DELAY
                           THEN In(u, xLists'[SuspendedTaskList]) ELSE IsDelayed(u)'
        BY DEF Waiters
    <2>0. f \in ItemLists
        BY EventNames
    <2>1. CASE u # t
        <3>1. In(u, xEventLists[f])
            BY <1>11, <2>0, <2>1
        <3> QED BY <1>1, <1>9, <1>16, <2>1, <3>1 DEF QueueInv, Waiters, IsSend
    <2>2. CASE u = t
        <3>1. f = e
            BY <1>4, <1>11, <2>0, <2>2
        <3>2. IsSend(t)' <=> IsSend(t)
            BY <1>1 DEF IsSend
        <3>3. frame'[t].xTicksToWait = n
            BY <1>1 DEF n
        <3>4. IF frame'[u].xTicksToWait = portMAX_DELAY
              THEN In(u, xLists'[SuspendedTaskList]) ELSE IsDelayed(u)'
            BY <1>8, <1>9, <2>2, <3>3
        <3>5. IsSend(u)' = (f = Waiting.send)
            BY <1>6, <2>2, <3>1, <3>2 DEF IsSend
        <3> QED BY <1>1, <1>3, <1>14, <1>16, <2>2, <3>4, <3>5
    <2> QED BY <2>1, <2>2
<1>18. TypeOK'
    <2>1. xTickCount' \in Ticks /\ uxMissedTicks' \in Nat
        BY <1>1, Typed DEF QueueInv
    <2> QED BY <1>1, <1>5, <1>7, <1>9, <1>10, <1>13, <1>16, <2>1, TypesKept, Typed DEF QueueInv
<1>19. MutexFacts'
    <2>1. QueueIsMutex => pxMutexHolder # t /\ frame[t].op = "receive" /\ ~IsSend(t)
        BY <1>1, <1>3, MutexWaiters
    <2>2. CASE QueueIsMutex
        <3>1. e # Waiting.send
            BY <1>6, <2>1, <2>2
        <3>2. xEventLists'[Waiting.send] = xEventLists[Waiting.send]
            BY <1>10, <3>1, EventNames
        <3> QED BY <1>1, <1>5, <1>16, <2>1, <2>2, <3>2, MutexKept DEF storage, SameCall
    <2>3. CASE ~QueueIsMutex
        <3>1. /\ pxMutexHolder = NULL /\ pxMutexHolder # Idle /\ uxPriority = uxBasePriority
              /\ uxRecursiveCallCount = 0 /\ \A u \in Tasks : pc[u] # "taken"
            BY <2>3 DEF QueueInv, MutexFacts, NoMutex
        <3> QED BY <1>1, <1>5, <1>16, <2>3, <3>1 DEF MutexFacts, NoMutex
    <2> QED BY <2>2, <2>3
<1> QED BY <1>9, <1>12, <1>16, <1>17, <1>18, <1>19 DEF QueueInv

(* The tasks of a finite set can be listed, each once, with one of them at  *)
(* the end.                                                                 *)
LEMMA Listing ==
    ASSUME NEW S, IsFiniteSet(S), NEW c
    PROVE  /\ Cardinality(S) \in Nat
           /\ \E s \in [1..Cardinality(S) -> S] :
                /\ \A m, n \in DOMAIN s : s[m] = s[n] => m = n
                /\ c \in S => s[Cardinality(S)] = c
<1> DEFINE n == Cardinality(S)
<1>1. n \in Nat /\ ExistsBijection(1..n, S)
    BY FS_CardinalityType
<1> HIDE DEF n
<1>2. PICK b \in [1..n -> S] : /\ \A i, j \in 1..n : b[i] = b[j] => i = j
                               /\ \A x \in S : \E i \in 1..n : b[i] = x
    BY <1>1 DEF ExistsBijection, Bijection, Injection, Surjection, IsInjective
<1>3. CASE c \notin S
    BY <1>1, <1>2, <1>3 DEF n
<1>4. CASE c \in S
    <2>1. PICK k \in 1..n : b[k] = c
        BY <1>2, <1>4
    <2>2. n \in 1..n
        BY <1>1
    <2> DEFINE s == [i \in 1..n |-> IF i = n THEN c ELSE IF i = k THEN b[n] ELSE b[i]]
    <2>3. s \in [1..n -> S] /\ s[n] = c
        BY <1>2, <1>4, <2>2
    <2>4. \A i, j \in 1..n : s[i] = s[j] => i = j
        <3> SUFFICES ASSUME NEW i \in 1..n, NEW j \in 1..n, s[i] = s[j] PROVE i = j
            OBVIOUS
        <3>1. s[i] = b[IF i = n THEN k ELSE IF i = k THEN n ELSE i]
            BY <2>1
        <3>2. s[j] = b[IF j = n THEN k ELSE IF j = k THEN n ELSE j]
            BY <2>1
        <3> HIDE DEF s
        <3> QED BY <1>2, <2>1, <2>2, <3>1, <3>2
    <2> HIDE DEF s
    <2> QED BY <1>1, <2>3, <2>4 DEF n
<1> QED BY <1>1, <1>3, <1>4 DEF n

(* A list of all the elements of a finite set, each once, holds them all.   *)
LEMMA ListedAll ==
    ASSUME NEW S \in SUBSET Tasks, NEW s \in [1..Cardinality(S) -> S],
           \A m, n \in DOMAIN s : s[m] = s[n] => m = n
    PROVE  /\ s \in Seq(Tasks) /\ Once(s) /\ \A t \in Tasks : In(t, s) <=> t \in S
           /\ IsFiniteSet(S)
<1>1. IsFiniteSet(S) /\ Cardinality(S) \in Nat
    BY KernelAssumption, FS_Subset, FS_CardinalityType DEF KernelAssumption
<1> DEFINE n == Cardinality(S)
<1>2. IsFiniteSet(1..n) /\ Cardinality(1..n) = n
    BY <1>1, FS_Interval
<1>3. s \in Injection(1..n, S)
    BY DEF Injection, IsInjective
<1>4. s \in Surjection(1..n, S)
    BY <1>1, <1>2, <1>3, FS_Injection
<1>5. \A t \in Tasks : In(t, s) <=> t \in S
    BY <1>4 DEF Surjection, In
<1>6. s \in Seq(Tasks)
    <2> HIDE DEF n
    <2>1. n \in Nat
        BY <1>1 DEF n
    <2>2. s \in [1..n -> Tasks]
        BY DEF n
    <2> QED BY <2>1, <2>2
<1> QED BY <1>1, <1>5, <1>6 DEF Once

(* The invariant holds when the scheduler starts with a new queue.          *)
LEMMA InitGood == Init => QueueInv
<1> SUFFICES ASSUME Init PROVE QueueInv
    OBVIOUS
<1>1. PICK prio \in [Tasks -> Priorities], first \in Tasks :
        /\ \A t \in Tasks : prio[t] <= prio[first]
        /\ prio[Idle] = 0
        /\ \A t \in Tasks \ {Idle} : prio[t] > 0
        /\ xLists = [l \in GenericLists |->
                        CHOOSE s \in [1..Cardinality({t \in Tasks : prio[t] = l}) -> {t \in Tasks : prio[t] = l}] :
                            /\ \A m, n \in DOMAIN s : s[m] = s[n] => m = n
                            /\ first \in {t \in Tasks : prio[t] = l} =>
                                   s[Cardinality({t \in Tasks : prio[t] = l})] = first]
        /\ xEventLists = [e \in ItemLists |-> <<>>]
        /\ uxPriority = prio /\ uxBasePriority = prio
        /\ xEventValue = [t \in Tasks |-> configMAX_PRIORITIES - prio[t]]
        /\ uxTopReadyPriority = prio[first]
        /\ pxCurrentTCB = first
    BY DEF Init
<1>2. /\ xTimeToWake = [t \in Tasks |-> 0] /\ due = [t \in Tasks |-> 0]
      /\ xTickCount = 0 /\ uxMissedTicks = 0 /\ xNextTaskUnblockTime = portMAX_DELAY
      /\ uxSchedulerSuspended = 0 /\ xMissedYield = FALSE
      /\ pc = [t \in Tasks |-> "user"] /\ ret = [t \in Tasks |-> "user"]
      /\ yieldAfter = [t \in Tasks |-> FALSE] /\ xYieldRequired = FALSE
      /\ inISR = FALSE /\ checkingDelayed = FALSE
      /\ IF QueueIsMutex
         THEN /\ pcSlots \in [Slots -> Messages] /\ pcWriteTo = 0 /\ pcReadFrom = 0
              /\ uxMessagesWaiting = 1
         ELSE StorageInit
      /\ xRxLock = -1 /\ xTxLock = -1
      /\ pxMutexHolder = NULL /\ uxRecursiveCallCount = 0
      /\ frame = [t \in Tasks |-> NULL]
    BY DEF Init, queueUNLOCKED
<1> DEFINE S(l) == {t \in Tasks : prio[t] = l}
<1>3. ASSUME NEW l \in GenericLists
      PROVE  /\ xLists[l] \in Seq(Tasks) /\ Once(xLists[l])
             /\ \A t \in Tasks : In(t, xLists[l]) <=> prio[t] = l
    <2>0. IsFiniteSet(S(l))
        BY KernelAssumption, FS_Subset DEF KernelAssumption
    <2>1. \E s \in [1..Cardinality(S(l)) -> S(l)] :
              /\ \A m, n \in DOMAIN s : s[m] = s[n] => m = n
              /\ first \in S(l) => s[Cardinality(S(l))] = first
        BY <2>0, Listing
    <2>2. /\ xLists[l] \in [1..Cardinality(S(l)) -> S(l)]
          /\ \A m, n \in DOMAIN xLists[l] : xLists[l][m] = xLists[l][n] => m = n
        BY <1>1, <1>3, <2>1
    <2>3. S(l) \in SUBSET Tasks
        OBVIOUS
    <2> HIDE DEF S
    <2>4. /\ xLists[l] \in Seq(Tasks) /\ Once(xLists[l])
          /\ \A t \in Tasks : In(t, xLists[l]) <=> t \in S(l)
        BY <2>2, <2>3, ListedAll
    <2> QED BY <2>4 DEF S
<1>4. IsLists(xLists)
    <2> DEFINE C(l) == CHOOSE s \in [1..Cardinality(S(l)) -> S(l)] :
                            /\ \A m, n \in DOMAIN s : s[m] = s[n] => m = n
                            /\ first \in S(l) => s[Cardinality(S(l))] = first
    <2>0. xLists = [l \in GenericLists |-> C(l)]
        BY <1>1
    <2> HIDE DEF C, S
    <2>1. DOMAIN xLists = GenericLists /\ xLists = [l \in GenericLists |-> xLists[l]]
        BY <2>0
    <2>2. xLists \in [GenericLists -> Seq(Tasks)]
        BY <1>3, <2>1
    <2>3. OncePlaced(xLists)
        BY <1>3 DEF OncePlaced
    <2> QED BY <2>2, <2>3 DEF IsLists
<1>5. Idle \in Tasks /\ \A p \in Priorities : p \in GenericLists /\ p \in Nat
    BY ReadyListNames, KernelAssumption DEF KernelAssumption
<1>6. ListsGood
    <2>1. ReadyByPriority
        BY <1>1, <1>3, <1>5 DEF ReadyByPriority
    <2>2. ASSUME NEW p \in Priorities, xLists[p] # <<>> PROVE p <= uxTopReadyPriority
        <3>1. PICK t \in Tasks : In(t, xLists[p])
            <4>1. xLists[p] \in Seq(Tasks)
                BY <1>3, <1>5
            <4> QED BY <2>2, <4>1, HeadIn
        <3>2. prio[t] = p
            BY <1>3, <1>5, <3>1
        <3>3. prio[t] <= prio[first] /\ uxTopReadyPriority = prio[first]
            BY <1>1
        <3> QED BY <3>2, <3>3
    <2>3. In(Idle, xLists[0])
        BY <1>1, <1>3, <1>5, ListNames
    <2> QED BY <1>1, <1>4, <2>1, <2>2, <2>3 DEF ListsGood, TopKnown
<1>7. \A t \in Tasks : \A e \in ItemLists : ~In(t, xEventLists[e])
    BY <1>1 DEF In
<1>8. EventsGood
    BY <1>1, <1>7 DEF EventsGood, Once
<1>9. StorageTypeOK /\ (QueueIsMutex => uxMessagesWaiting = 1)
    BY <1>2, StorageAssumption DEF StorageInit, StorageTypeOK, Slots
<1>10. TypeOK
    <2>1. /\ xEventLists \in [ItemLists -> Seq(Tasks)] /\ xTimeToWake \in [Tasks -> Ticks]
          /\ due \in [Tasks -> Int] /\ portMAX_DELAY \in Ticks /\ 0 \in Ticks
        BY <1>1, <1>2, TickFacts
    <2>2. xEventValue \in [Tasks -> 1..configMAX_PRIORITIES]
        BY <1>1, EventValueTyped
    <2>3. KernelTypeOK
        BY <1>1, <1>2, <1>4, <2>1, <2>2 DEF KernelTypeOK, IsLists
    <2>4. 0 \in 0..MaxRecursion
        BY QueueAssumption DEF QueueAssumption
    <2> QED BY <1>2, <1>9, <2>3, <2>4 DEF TypeOK, queueUNLOCKED
<1>11. /\ \A t \in Tasks : pc[t] = "user" /\ ret[t] = "user" /\ frame[t] = NULL
       /\ "user" \in SwitchedOut /\ "user" \notin Suspending /\ "user" \notin GoingToWait
       /\ "user" \notin Leaving /\ "user" \notin Masked
    BY <1>2 DEF SwitchedOut, Suspending, GoingToWait, Leaving, Masked
<1>12. Control
    BY <1>1, <1>2, <1>5, <1>11 DEF Control
<1>13. Locking
    BY <1>1, <1>2, <1>11 DEF Locking, queueUNLOCKED
<1>14. Framed
    BY <1>11 DEF Framed, InLoop
<1>15. Waiters
    BY <1>7, EventNames DEF Waiters
<1>16. Present
    <2>1. In(first, xLists[prio[first]]) /\ prio[first] \in Priorities
        BY <1>1, <1>3, <1>5
    <2> QED BY <1>1, <2>1 DEF Present, IsReady
<1>17. MutexFacts
    <2>1. pxMutexHolder # Idle
        BY <1>2, <1>5, QueueAssumption DEF QueueAssumption
    <2>2. xEventLists[Waiting.send] = <<>>
        BY <1>1, EventNames
    <2>3. QueueIsMutex => MutexTrue
        BY <1>1, <1>2, <1>9, <1>11, <2>2 DEF MutexTrue, HolderCountsTrue, InheritedOnlyByHolder
    <2>4. ~QueueIsMutex => NoMutex
        BY <1>1, <1>2, <1>11 DEF NoMutex
    <2> QED BY <2>1, <2>3, <2>4 DEF MutexFacts
<1> QED BY <1>6, <1>8, <1>10, <1>12, <1>13, <1>14, <1>15, <1>16, <1>17 DEF QueueInv

(* Nothing changes when nothing changes.                                    *)
LEMMA StutterStep == QueueInv /\ UNCHANGED vars => QueueInv'
<1> SUFFICES ASSUME QueueInv, UNCHANGED vars PROVE QueueInv'
    OBVIOUS
<1>1. UNCHANGED <<lists, items, priorities, clock, suspension, pxCurrentTCB, calls, interrupt,
                  storage, xRxLock, xTxLock, pxMutexHolder, uxRecursiveCallCount, frame>>
    BY DEF vars, kernelVars, queueVars
<1>2. UNCHANGED <<xLists, xEventLists, uxPriority, uxBasePriority, uxSchedulerSuspended, pc, ret,
                  yieldAfter, xYieldRequired, inISR, checkingDelayed, uxMessagesWaiting>>
    BY <1>1 DEF lists, priorities, suspension, calls, interrupt, storage
<1>3. ListsGood' /\ EventsGood' /\ (\A u \in Tasks : IsReady(u)' <=> IsReady(u))
    BY <1>1, FrameKeeps DEF QueueInv
<1>4. TypeOK'
    BY <1>1 DEF QueueInv, TypeOK, KernelTypeOK, StorageTypeOK, lists, items, priorities, clock,
        suspension, calls, interrupt, storage
<1>5. Control' /\ Locking' /\ Framed'
    BY <1>1, <1>2 DEF QueueInv, Control, Locking, Framed, InLoop
<1>6. Waiters'
    BY <1>1, <1>2 DEF QueueInv, Waiters, IsSend, IsDelayed
<1>7. Present'
    BY <1>1, <1>2, <1>3 DEF QueueInv, Present, IsReady
<1>8. MutexFacts'
    BY <1>1, <1>2 DEF QueueInv, MutexFacts, MutexTrue, NoMutex, HolderCountsTrue, InheritedOnlyByHolder, IsSend
<1> QED BY <1>3, <1>4, <1>5, <1>6, <1>7, <1>8 DEF QueueInv

(* Every step of the tasks, the kernel and the interrupts keeps it.         *)
LEMMA StepGood == QueueInv /\ [Next]_vars => QueueInv'
<1> SUFFICES ASSUME QueueInv, [Next]_vars PROVE QueueInv'
    OBVIOUS
<1>1. CASE KernelOnly
    <2>1. /\ frame' \in [Tasks -> Frames \cup {NULL}] /\ \A u \in Tasks : SameCall(frame[u], frame'[u])
          /\ UNCHANGED <<storage, xRxLock, xTxLock, pxMutexHolder, uxRecursiveCallCount>>
        <3>1. frame' = [t \in Tasks |-> Aged(frame[t], FALSE)] /\ frame \in [Tasks -> Frames \cup {NULL}]
            BY <1>1, Kept DEF KernelOnly
        <3>2. /\ frame' \in [Tasks -> Frames \cup {NULL}]
              /\ \A u \in Tasks : SameCall(frame[u], frame'[u])
            BY <3>1, AgedIt
        <3> QED BY <1>1, <3>2 DEF KernelOnly, locks, mutex
    <2>2. CASE prvCheckDelayedTasks
        BY <2>1, <2>2, CheckDelayedStep
    <2>3. CASE SwitchContextInISR
        BY <2>1, <2>3, SwitchInISRStep
    <2>4. ASSUME NEW t \in Tasks,
                 \/ vPortYieldProcessor(t) \/ xTaskResumeAll(t) \/ DrainPendingReady(t)
                 \/ ReplayMissedTick(t) \/ ResumeAllEnd(t)
          PROVE  QueueInv'
        <3>1. CASE vPortYieldProcessor(t)
            BY <2>1, <3>1, YieldStep
        <3>2. CASE xTaskResumeAll(t)
            BY <2>1, <3>2, ResumeAllStep
        <3>3. CASE DrainPendingReady(t)
            BY <2>1, <3>3, DrainStep
        <3>4. CASE ReplayMissedTick(t)
            BY <2>1, <3>4, ReplayStep
        <3>5. CASE ResumeAllEnd(t)
            BY <2>1, <3>5, ResumeAllEndStep
        <3> QED BY <2>4, <3>1, <3>2, <3>3, <3>4, <3>5
    <2> QED BY <1>1, <2>2, <2>3, <2>4 DEF KernelOnly, KernelStep
<1>2. CASE Tick
    BY <1>2, TickStep
<1>3. CASE FromISR
    BY <1>3, FromISRStep
<1>4. ASSUME NEW t \in Tasks, TaskAPI(t) PROVE QueueInv'
    <2>1. CASE DelayStart(t)
        BY <1>4, <2>1, DelayStartStep DEF TaskAPI
    <2>2. ASSUME NEW n \in Delays, vTaskDelay(t, n) PROVE QueueInv'
        <3>1. n \in Ticks /\ UNCHANGED queueVars
            BY <1>4, QueueAssumption DEF QueueAssumption, TaskAPI
        <3>2. CASE /\ Caller(t) /\ uxSchedulerSuspended = 0 /\ YieldIf(t, TRUE)
                   /\ UNCHANGED <<lists, items, priorities, clock, suspension, pxCurrentTCB,
                                  callFrame, interrupt>>
            BY <3>1, <3>2, DelayStartStep
        <3>3. CASE /\ Running(t, "delay") /\ prvAddCurrentTaskToDelayedList(t, WakeTime(n))
                   /\ CallResumeAll(t, "user", TRUE)
                   /\ UNCHANGED <<xEventLists, uxTopReadyPriority, priorities, xTickCount,
                                  uxMissedTicks, suspension, pxCurrentTCB, interrupt>>
            BY <3>1, <3>3, DelayStep
        <3> QED BY <2>2, <3>2, <3>3 DEF vTaskDelay
    <2>3. ASSUME NEW x \in Tasks \ {Idle}, NEW p \in SettablePriorities, vTaskPrioritySet(t, x, p)
          PROVE  QueueInv'
        <3>1. UNCHANGED queueVars
            BY <1>4 DEF TaskAPI
        <3> QED BY <2>3, <3>1, PrioritySetStep
    <2> QED BY <1>4, <2>1, <2>2, <2>3 DEF TaskAPI
<1>5. ASSUME NEW t \in Tasks, QueueStep(t) PROVE QueueInv'
    <2>1. ASSUME NEW op \in Operations, NEW m \in Messages, NEW n \in BlockTimes[t],
                 CallQueue(t, op, m, n)
          PROVE  QueueInv'
        BY <2>1, CallQueueStep
    <2>2. ASSUME NEW m \in Messages, xQueueGiveMutexRecursive(t, m) PROVE QueueInv'
        BY <2>2, GiveStep
    <2>3. CASE TakeAgain(t) \/ SendNow(t) \/ ReceiveNow(t) \/ WakeWaiter(t) \/ GiveUp(t)
        BY <2>3, TakeAgainStep, SendNowStep, ReceiveNowStep, WakeWaiterStep, GiveUpStep
    <2>4. CASE WillWait(t) \/ SuspendToBlock(t) \/ prvLockQueue(t) \/ LookAgain(t)
        BY <2>4, WillWaitStep, SuspendToBlockStep, LockQueueStep, LookAgainStep
    <2>5. CASE Inherit(t) \/ Block(t) \/ prvUnlockQueue(t)
        BY <2>5, InheritStep, BlockStep, UnlockStep
    <2> QED BY <1>5, <2>1, <2>2, <2>3, <2>4, <2>5 DEF QueueStep
<1>6. CASE UNCHANGED vars
    BY <1>6, StutterStep
<1> QED BY <1>1, <1>2, <1>3, <1>4, <1>5, <1>6 DEF Next

(* So it holds for ever.                                                    *)
LEMMA Invariant == Spec => []QueueInv
BY InitGood, StepGood, PTL DEF Spec

(* What the queue and the kernel keep stays within its types: a wait time   *)
(* that was adjusted never falls below zero, a lock is -1 or a count.       *)
THEOREM TypesHold == Spec => []TypeOK
<1>1. QueueInv => TypeOK
    BY DEF QueueInv
<1> QED BY <1>1, Invariant, PTL

(* Of a mutex, for any number of tasks: there is a holder exactly while it  *)
(* is taken, whoever is in or past a take has counted it, and only the      *)
(* holder is ever above its own priority (queue.c:357-420,                  *)
(* tasks.c:2409-2490).                                                      *)
THEOREM HolderAlwaysTrue == QueueIsMutex /\ Spec => []HoldersTrue
<1>1. QueueIsMutex /\ QueueInv => HoldersTrue
    BY DEF QueueInv, MutexFacts, MutexTrue, HoldersTrue
<1>2. CASE QueueIsMutex
    <2>1. QueueInv => HoldersTrue
        BY <1>1, <1>2
    <2> QED BY <2>1, Invariant, PTL
<1>3. CASE ~QueueIsMutex
    BY <1>3
<1> QED BY <1>2, <1>3

-----------------------------------------------------------------------------
(* With the scheduler running nothing is pending: no task waits to be made  *)
(* ready, no tick to be counted, no switch to be made up for.               *)
Settled ==
    uxSchedulerSuspended = 0 /\ pc[pxCurrentTCB] # "drain" =>
        xEventLists[PendingReadyList] = <<>> /\ uxMissedTicks = 0 /\ ~xMissedYield

(* A step keeps that if it suspends the scheduler, or adds nothing to what  *)
(* is pending.                                                              *)
LEMMA SettledStill ==
    ASSUME Settled,
           \/ uxSchedulerSuspended' # 0 \/ pc'[pxCurrentTCB'] = "drain"
           \/ /\ uxSchedulerSuspended = 0 /\ pc[pxCurrentTCB] # "drain"
              /\ xEventLists[PendingReadyList] = <<>> => xEventLists'[PendingReadyList] = <<>>
              /\ uxMissedTicks' = uxMissedTicks /\ xMissedYield' = xMissedYield
    PROVE  Settled'
BY DEF Settled

(* A task's own steps that leave the lists of events and the clock alone.   *)
LEMMA SettledCall ==
    ASSUME QueueInv, Settled, NEW t \in Tasks, pxCurrentTCB = t,
           pc[t] \notin {"drain", "resumeAll"}, pc[t] \notin Suspending \/ uxSchedulerSuspended' # 0,
           xEventLists[PendingReadyList] = <<>> => xEventLists'[PendingReadyList] = <<>>,
           UNCHANGED <<uxMissedTicks, xMissedYield>>
    PROVE  Settled'
BY SettledStill DEF QueueInv, Control

(* No step of a task leaves anything pending behind.                        *)
LEMMA SettledQueueStep ==
    ASSUME QueueInv, Settled, NEW t \in Tasks, QueueStep(t)
    PROVE  Settled'
<1>1. CASE \E op \in Operations, m \in Messages, n \in BlockTimes[t] : CallQueue(t, op, m, n)
    BY <1>1, SettledCall DEF CallQueue, Caller, Running, calm, lists, clock, suspension, Suspending
<1>2. CASE TakeAgain(t)
    BY <1>2, SettledCall DEF TakeAgain, Caller, Running, calm, lists, clock, suspension, Suspending
<1>3. CASE \E m \in Messages : xQueueGiveMutexRecursive(t, m)
    BY <1>3, SettledCall DEF xQueueGiveMutexRecursive, Caller, Running, calm, lists, clock, suspension, Suspending
<1>4. CASE SendNow(t)
    BY <1>4, SettledCall DEF SendNow, Running, calm, lists, clock, suspension, Suspending
<1>5. CASE ReceiveNow(t)
    BY <1>5, SettledCall DEF ReceiveNow, Running, calm, lists, clock, suspension, Suspending
<1>6. CASE WakeWaiter(t)
    <2>1. PICK e \in {Waiting.send, Waiting.receive} :
              /\ Running(t, IF e = Waiting.receive THEN "wakeReceiver" ELSE "wakeSender")
              /\ xTaskRemoveFromEventList(e) /\ UNCHANGED calm
        BY <1>6 DEF WakeWaiter
    <2>2. /\ pxCurrentTCB = t /\ pc[t] \in {"wakeReceiver", "wakeSender"} /\ UNCHANGED <<uxMissedTicks, xMissedYield>>
          /\ e \in EventLists
        BY <2>1, EventNames DEF Running, calm, clock, suspension
    <2>3. uxSchedulerSuspended = 0 /\ xEventLists[e] # <<>>
        BY <2>1, <2>2, EventNames DEF QueueInv, Control, Locking, Suspending, Running
    <2>4. PICK x \in Tasks : x = Head(xEventLists[e])
        <3>1. xEventLists[e] \in Seq(Tasks)
            BY <2>2, EventNames, Typed DEF QueueInv
        <3> QED BY <2>3, <3>1, HeadIn
    <2>5. xEventLists' = EventRemoved(x)
        BY <2>1, <2>3, <2>4 DEF xTaskRemoveFromEventList
    <2>6. xEventLists[PendingReadyList] = <<>> => xEventLists'[PendingReadyList] = <<>>
        BY <2>5, EventNames, EventRemovedIt, Typed DEF QueueInv, EventsGood
    <2> QED BY <2>2, <2>6, SettledCall DEF Suspending
<1>7. CASE GiveUp(t) \/ WillWait(t)
    BY <1>7, SettledCall DEF GiveUp, WillWait, Running, calm, lists, clock, suspension, Suspending
<1>8. CASE SuspendToBlock(t)
    BY <1>8, SettledStill DEF SuspendToBlock, vTaskSuspendAll, Running, QueueInv, Control, Suspending
<1>9. CASE prvLockQueue(t) \/ LookAgain(t)
    BY <1>9, SettledStill DEF prvLockQueue, LookAgain, Running, suspension, QueueInv, Control, Suspending
<1>10. CASE Inherit(t)
    BY <1>10, SettledStill DEF Inherit, calm, Running, suspension, QueueInv, Control, Suspending
<1>11. CASE Block(t)
    BY <1>11, SettledStill DEF Block, Running, suspension, QueueInv, Control, Suspending
<1>12. CASE prvUnlockQueue(t)
    BY <1>12, SettledStill DEF prvUnlockQueue, Running, QueueInv, Control, Suspending
<1> QED BY <1>1, <1>2, <1>3, <1>4, <1>5, <1>6, <1>7, <1>8, <1>9, <1>10, <1>11, <1>12 DEF QueueStep

(* Nor does a step of the API, of an interrupt or of the kernel.            *)
LEMMA SettledStep == QueueInv /\ Settled /\ [Next]_vars => Settled'
<1> SUFFICES ASSUME QueueInv, Settled, [Next]_vars PROVE Settled'
    OBVIOUS
<1>0. UNCHANGED xEventLists => (xEventLists[PendingReadyList] = <<>> => xEventLists'[PendingReadyList] = <<>>)
    OBVIOUS
<1>1. CASE prvCheckDelayedTasks
    <2>1. UNCHANGED <<uxMissedTicks, uxSchedulerSuspended, xMissedYield, pxCurrentTCB, pc>>
        BY <1>1 DEF prvCheckDelayedTasks, suspension, calls
    <2>2. xEventLists[PendingReadyList] = <<>> => xEventLists'[PendingReadyList] = <<>>
        <3>1. CASE UNCHANGED xEventLists
            BY <3>1
        <3>2. CASE ~UNCHANGED xEventLists
            <4> DEFINE d == xLists[DelayedTaskList]
            <4>1. d # <<>> /\ xEventLists' = EventRemoved(Head(d))
                BY <1>1, <3>2 DEF prvCheckDelayedTasks, LeaveEventList, lists
            <4>2. d \in Seq(Tasks)
                BY Typed, ListNames DEF QueueInv
            <4>3. PICK x \in Tasks : x = Head(d)
                BY <4>1, <4>2, HeadIn
            <4>4. xEventLists' = EventRemoved(x)
                BY <4>1, <4>3
            <4> QED BY <4>4, EventNames, EventRemovedIt, Typed DEF QueueInv, EventsGood
        <3> QED BY <3>1, <3>2
    <2> QED BY <2>1, <2>2 DEF Settled
<1>2. CASE SwitchContextInISR
    <2>1. /\ inISR /\ vTaskSwitchContext
          /\ UNCHANGED <<xEventLists, clock, uxSchedulerSuspended, calls>>
        BY <1>2 DEF SwitchContextInISR
    <2>2. pc[pxCurrentTCB] # "drain"
        BY <2>1 DEF QueueInv, Control, Masked
    <2>3. CASE uxSchedulerSuspended # 0
        BY <2>1, <2>3, SettledStill
    <2>4. CASE uxSchedulerSuspended = 0
        BY <1>0, <2>1, <2>2, <2>4, SettledStill DEF vTaskSwitchContext, clock
    <2> QED BY <2>3, <2>4
<1>3. ASSUME NEW t \in Tasks,
             \/ vPortYieldProcessor(t) \/ xTaskResumeAll(t) \/ DrainPendingReady(t)
             \/ ReplayMissedTick(t) \/ ResumeAllEnd(t)
      PROVE  Settled'
    <2>1. CASE vPortYieldProcessor(t)
        <3>1. /\ pxCurrentTCB = t /\ pc[t] \in {"yield", "yieldMasked"} /\ vTaskSwitchContext
              /\ UNCHANGED <<xEventLists, clock, uxSchedulerSuspended>>
            BY <2>1 DEF vPortYieldProcessor, Running
        <3>2. uxSchedulerSuspended = 0
            BY <3>1 DEF QueueInv, Control, Suspending
        <3> QED BY <1>0, <3>1, <3>2, SettledStill DEF vTaskSwitchContext, clock
    <2>2. CASE xTaskResumeAll(t)
        <3>1. pxCurrentTCB' = t /\ (uxSchedulerSuspended' # 0 \/ pc' = [pc EXCEPT ![t] = "drain"])
            BY <2>2 DEF xTaskResumeAll, Running, GoTo
        <3>2. uxSchedulerSuspended' # 0 \/ pc'[pxCurrentTCB'] = "drain"
            BY <3>1, Kept
        <3> QED BY <3>2, SettledStill
    <2>3. CASE DrainPendingReady(t) \/ ReplayMissedTick(t)
        <3>1. pc'[pxCurrentTCB'] = "drain"
            BY <2>3 DEF DrainPendingReady, ReplayMissedTick, Running
        <3> QED BY <3>1, SettledStill
    <2>4. CASE ResumeAllEnd(t)
        <3>1. /\ UNCHANGED <<xEventLists, uxMissedTicks>> /\ xEventLists[PendingReadyList] = <<>> /\ uxMissedTicks = 0
            BY <2>4 DEF ResumeAllEnd, lists, clock
        <3>2. ~xMissedYield'
            BY <2>4 DEF ResumeAllEnd
        <3> QED BY <3>1, <3>2 DEF Settled
    <2> QED BY <1>3, <2>1, <2>2, <2>3, <2>4
<1>4. CASE Tick
    <2>1. /\ pc[pxCurrentTCB] # "drain" /\ UNCHANGED <<uxSchedulerSuspended, xEventLists>>
          /\ uxSchedulerSuspended # 0 \/ UNCHANGED <<uxMissedTicks, xMissedYield>>
        BY <1>4 DEF Tick, vTickISR, InterruptsEnabled, Masked
    <2> QED BY <1>0, <2>1, SettledStill
<1>5. CASE FromISR
    <2>1. PICK e \in EventLists, lock \in {xTxLock, xRxLock} :
              /\ InterruptsEnabled /\ AfterISR(e, lock)
              /\ UNCHANGED <<clock, suspension, pxCurrentTCB, calls>>
        BY <1>5, EventNames DEF FromISR, xQueueGenericSendFromISR, xQueueReceiveFromISR
    <2>2. /\ pc[pxCurrentTCB] # "drain"
          /\ UNCHANGED <<uxSchedulerSuspended, uxMissedTicks, xMissedYield>>
        BY <2>1 DEF InterruptsEnabled, Masked, clock, suspension
    <2>3. CASE uxSchedulerSuspended # 0
        BY <2>2, <2>3, SettledStill
    <2>4. CASE uxSchedulerSuspended = 0
        <3>1. xEventLists[PendingReadyList] = <<>> => xEventLists'[PendingReadyList] = <<>>
            <4>1. CASE UNCHANGED xEventLists
                BY <4>1
            <4>2. CASE ~UNCHANGED xEventLists
                <5>1. xEventLists[e] # <<>> /\ xTaskRemoveFromEventList(e)
                    BY <2>1, <4>2 DEF AfterISR, lists
                <5>2. xEventLists[e] \in Seq(Tasks)
                    BY EventNames, Typed DEF QueueInv
                <5>3. PICK x \in Tasks : x = Head(xEventLists[e])
                    BY <5>1, <5>2, HeadIn
                <5>4. xEventLists' = EventRemoved(x)
                    BY <2>4, <5>1, <5>3 DEF xTaskRemoveFromEventList
                <5> QED BY <5>4, EventNames, EventRemovedIt, Typed DEF QueueInv, EventsGood
            <4> QED BY <4>1, <4>2
        <3> QED BY <2>2, <2>4, <3>1, SettledStill
    <2> QED BY <2>3, <2>4
<1>6. ASSUME NEW t \in Tasks, TaskAPI(t) PROVE Settled'
    <2>1. CASE DelayStart(t)
        BY <2>1, SettledStill DEF DelayStart, vTaskSuspendAll
    <2>2. ASSUME NEW n \in Delays, vTaskDelay(t, n) PROVE Settled'
        <3>1. pxCurrentTCB = t /\ pc[t] \in {"user", "delay"} /\ UNCHANGED <<xEventLists, uxMissedTicks, suspension>>
            BY <2>2 DEF vTaskDelay, Caller, Running, lists, clock
        <3>2. CASE pc[t] = "user"
            BY <1>0, <3>1, <3>2, SettledCall DEF suspension, Suspending
        <3>3. CASE pc[t] = "delay"
            BY <3>1, <3>3, SettledStill DEF suspension, Suspending, QueueInv, Control
        <3> QED BY <3>1, <3>2, <3>3
    <2>3. ASSUME NEW x, NEW p, vTaskPrioritySet(t, x, p) PROVE Settled'
        BY <1>0, <2>3, SettledCall DEF vTaskPrioritySet, Caller, Running, clock, suspension, Suspending
    <2> QED BY <1>6, <2>1, <2>2, <2>3 DEF TaskAPI
<1>7. ASSUME NEW t \in Tasks, QueueStep(t) PROVE Settled'
    BY <1>7, SettledQueueStep
<1>8. CASE UNCHANGED vars
    BY <1>8 DEF vars, kernelVars, lists, clock, suspension, calls, Settled
<1> QED BY <1>1, <1>2, <1>3, <1>4, <1>5, <1>6, <1>7, <1>8 DEF Next, KernelOnly, KernelStep

-----------------------------------------------------------------------------
(* A context switch is owed: by an interrupt that is about to end, by the   *)
(* note xTaskResumeAll looks at, or by a task on its way to a yield.        *)
SwitchOwed ==
    \/ inISR \/ xMissedYield
    \/ pc[pxCurrentTCB] \in {"yield", "yieldMasked"}
    \/ pc[pxCurrentTCB] = "drain" /\ xYieldRequired
    \/ pc[pxCurrentTCB] \in {"unlockTx", "unlockRx", "resumeAll", "drain"} /\ yieldAfter[pxCurrentTCB]

(* The current task is ready and no ready task is more important.           *)
CurrentRules ==
    /\ IsReady(pxCurrentTCB)
    /\ \A t \in Tasks : IsReady(t) => uxPriority[t] <= uxPriority[pxCurrentTCB]

(* The most important task runs, or will as soon as the switch is made.     *)
Ruling == SwitchOwed \/ CurrentRules

(* A step that makes no task ready keeps that if it forgets no switch.      *)
LEMMA RulingStill ==
    ASSUME Ruling, SwitchOwed => SwitchOwed',
           UNCHANGED <<xLists, uxPriority, pxCurrentTCB>>
    PROVE  Ruling'
BY DEF Ruling, CurrentRules, IsReady

(* A task in the middle of its code with the scheduler running: no switch   *)
(* is owed, so it rules, and still does after a step that moves only itself.*)
LEMMA RulesNow ==
    ASSUME QueueInv, Settled, Ruling, ~inISR,
           pc[pxCurrentTCB] \in {"user", "top", "taken", "suspend", "wakeReceiver", "wakeSender"}
    PROVE  CurrentRules
BY DEF QueueInv, Control, Suspending, Settled, Ruling, SwitchOwed

(* A step of a call that moves no task between lists keeps the ruling.      *)
LEMMA RulingCall ==
    ASSUME QueueInv, Settled, Ruling, ~inISR,
           pc[pxCurrentTCB] \in {"user", "top", "taken", "suspend"},
           UNCHANGED <<xLists, uxPriority, pxCurrentTCB>>
    PROVE  Ruling'
BY RulesNow DEF Ruling, CurrentRules, IsReady

(* A task x becomes ready, and a switch is owed if it is as important as    *)
(* the current one.                                                         *)
LEMMA RulingWoken ==
    ASSUME QueueInv, Ruling, NEW x \in Tasks,
           prvAddTaskToReadyQueue(GenericRemoved(x), x, uxPriority[x]),
           UNCHANGED <<uxPriority, uxBasePriority, pxCurrentTCB>>,
           SwitchOwed => SwitchOwed', uxPriority[x] >= uxPriority[pxCurrentTCB] => SwitchOwed'
    PROVE  Ruling'
<1>1. TypeOK /\ ListsGood /\ uxPriority[x] \in Priorities
    BY Typed DEF QueueInv
<1>2. x = Idle => uxPriority[x] = 0
    BY DEF QueueInv, ListsGood
<1>3. IsReady(x)' /\ \A t \in Tasks \ {x} : IsReady(t)' <=> IsReady(t)
    BY <1>1, <1>2, ReadiedIt
<1>4. CASE SwitchOwed
    BY <1>4 DEF Ruling
<1>5. CASE uxPriority[x] >= uxPriority[pxCurrentTCB]
    BY <1>5 DEF Ruling
<1>6. CASE ~SwitchOwed /\ ~(uxPriority[x] >= uxPriority[pxCurrentTCB])
    <2>1. CurrentRules /\ pxCurrentTCB \in Tasks /\ uxPriority[pxCurrentTCB] \in Nat /\ uxPriority[x] \in Nat
        BY <1>6, Typed, ReadyListNames DEF Ruling, QueueInv
    <2>2. pxCurrentTCB # x /\ uxPriority[x] <= uxPriority[pxCurrentTCB]
        BY <1>6, <2>1
    <2>3. \A t \in Tasks : IsReady(t)' => uxPriority[t] <= uxPriority[pxCurrentTCB]
        BY <1>3, <2>1, <2>2 DEF CurrentRules
    <2>4. IsReady(pxCurrentTCB)'
        BY <1>3, <2>1, <2>2 DEF CurrentRules
    <2> QED BY <2>3, <2>4 DEF Ruling, CurrentRules
<1> QED BY <1>4, <1>5, <1>6

(* A switch with the scheduler running leaves the most important task.      *)
LEMMA RulingSwitched ==
    ASSUME QueueInv, vTaskSwitchContext, UNCHANGED <<xEventLists, priorities, uxSchedulerSuspended>>
    PROVE  Ruling'
<1>1. CASE uxSchedulerSuspended = 0
    <2>1. /\ \A u \in Tasks : \A k \in GenericLists : In(u, xLists'[k]) <=> In(u, xLists[k])
          /\ IsReady(pxCurrentTCB') /\ pxCurrentTCB' \in Tasks
          /\ \A u \in Tasks : IsReady(u) => uxPriority[u] <= uxPriority[pxCurrentTCB']
        BY <1>1, Switched DEF QueueInv
    <2>2. \A u \in Tasks : IsReady(u)' <=> IsReady(u)
        BY <2>1, ListNames DEF IsReady
    <2>3. PICK c \in Tasks : c = pxCurrentTCB'
        BY <2>1
    <2>4. IsReady(c)' /\ \A u \in Tasks : IsReady(u)' => uxPriority'[u] <= uxPriority'[c]
        BY <2>1, <2>2, <2>3 DEF priorities
    <2> QED BY <2>3, <2>4 DEF Ruling, CurrentRules, IsReady
<1>2. CASE uxSchedulerSuspended # 0
    BY <1>2 DEF vTaskSwitchContext, Ruling, SwitchOwed
<1> QED BY <1>1, <1>2

(* The steps of a task in a call to the queue.                              *)
LEMMA RulingQueueStep ==
    ASSUME QueueInv, Settled, Ruling, ~QueueIsMutex, NEW t \in Tasks, QueueStep(t)
    PROVE  Ruling'
<1>1. CASE \E op \in Operations, m \in Messages, n \in BlockTimes[t] : CallQueue(t, op, m, n)
    BY <1>1, RulingCall DEF CallQueue, Caller, Running, calm, lists, priorities
<1>2. CASE TakeAgain(t) \/ \E m \in Messages : xQueueGiveMutexRecursive(t, m)
    BY <1>2 DEF TakeAgain, xQueueGiveMutexRecursive
<1>3. CASE SendNow(t)
    BY <1>3, RulingCall DEF SendNow, prvCopyDataToQueue, Running, calm
<1>4. CASE ReceiveNow(t)
    BY <1>4, RulingCall DEF ReceiveNow, Running, calm, lists, priorities
<1>5. CASE WakeWaiter(t)
    <2>1. PICK e \in {Waiting.send, Waiting.receive} :
              /\ Running(t, IF e = Waiting.receive THEN "wakeReceiver" ELSE "wakeSender")
              /\ xTaskRemoveFromEventList(e) /\ YieldMaskedIf(t, HeadOutranksCurrent(e))
              /\ UNCHANGED <<priorities, calm>>
        BY <1>5 DEF WakeWaiter
    <2>2. /\ pxCurrentTCB = t /\ pc[t] \in {"wakeReceiver", "wakeSender"} /\ ~inISR
          /\ UNCHANGED <<priorities, pxCurrentTCB>> /\ e \in EventLists
        BY <2>1, EventNames DEF Running, calm
    <2>3. uxSchedulerSuspended = 0 /\ xEventLists[e] # <<>>
        BY <2>1, <2>2, EventNames DEF QueueInv, Control, Locking, Suspending, Running
    <2>4. PICK x \in Tasks : x = Head(xEventLists[e])
        <3>1. xEventLists[e] \in Seq(Tasks)
            BY <2>2, EventNames, Typed DEF QueueInv
        <3> QED BY <2>3, <3>1, HeadIn
    <2>5. prvAddTaskToReadyQueue(GenericRemoved(x), x, uxPriority[x])
        BY <2>1, <2>3, <2>4 DEF xTaskRemoveFromEventList
    <2>6. uxPriority[x] >= uxPriority[pxCurrentTCB] => SwitchOwed'
        <3> SUFFICES ASSUME uxPriority[x] >= uxPriority[pxCurrentTCB] PROVE SwitchOwed'
            OBVIOUS
        <3>1. pc' = [pc EXCEPT ![t] = "yieldMasked"]
            BY <2>1, <2>4 DEF YieldMaskedIf, ReturnVia, GoTo, HeadOutranksCurrent
        <3> QED BY <2>2, <3>1, Kept DEF SwitchOwed
    <2>7. ~SwitchOwed
        BY <2>2, <2>3 DEF SwitchOwed, Settled
    <2> QED BY <2>2, <2>5, <2>6, <2>7, RulingWoken DEF priorities
<1>6. CASE GiveUp(t) \/ WillWait(t)
    BY <1>6, RulingCall DEF GiveUp, WillWait, Running, calm, lists, priorities
<1>7. CASE SuspendToBlock(t)
    BY <1>7, RulingCall DEF SuspendToBlock, Running, lists, priorities
<1>8. CASE prvLockQueue(t) \/ LookAgain(t)
    <2>1. /\ pxCurrentTCB = t /\ ~inISR /\ pc[t] \in {"lock", "look"}
          /\ UNCHANGED <<lists, priorities, suspension, pxCurrentTCB>>
        BY <1>8 DEF prvLockQueue, LookAgain, Running
    <2>2. SwitchOwed => SwitchOwed'
        BY <2>1 DEF SwitchOwed, suspension
    <2> QED BY <2>1, <2>2, RulingStill DEF lists, priorities
<1>9. CASE Inherit(t)
    BY <1>9 DEF Inherit, Running, QueueInv, MutexFacts, NoMutex
<1>10. CASE Block(t)
    <2>1. /\ pxCurrentTCB = t /\ pc[t] = "place" /\ pc' = [pc EXCEPT ![t] = "unlockTx"]
          /\ UNCHANGED <<pxCurrentTCB, yieldAfter>>
        BY <1>10 DEF Block, Running, GoTo
    <2>2. yieldAfter[t]
        BY <2>1 DEF QueueInv, Control
    <2>3. pc'[t] = "unlockTx"
        BY <2>1, Kept
    <2> QED BY <2>1, <2>2, <2>3 DEF Ruling, SwitchOwed
<1>11. CASE prvUnlockQueue(t)
    <2>1. /\ pxCurrentTCB = t /\ ~inISR /\ pc[t] \in {"unlockTx", "unlockRx"}
          /\ pc' = [pc EXCEPT ![t] = IF pc[t] = "unlockTx" THEN "unlockRx" ELSE "resumeAll"]
          /\ UNCHANGED <<xLists, priorities, pxCurrentTCB, yieldAfter>>
          /\ \E e \in EventLists : \E lock : WakeForLocked(e, lock)
        BY <1>11, EventNames DEF prvUnlockQueue, Running, GoTo
    <2>2. xMissedYield => xMissedYield'
        BY <2>1 DEF WakeForLocked
    <2>3. pc'[t] \in {"unlockRx", "resumeAll"}
        BY <2>1, Kept
    <2>4. SwitchOwed => SwitchOwed'
        BY <2>1, <2>2, <2>3 DEF SwitchOwed
    <2> QED BY <2>1, <2>4, RulingStill DEF priorities
<1> QED BY <1>1, <1>2, <1>3, <1>4, <1>5, <1>6, <1>7, <1>8, <1>9, <1>10, <1>11 DEF QueueStep

(* vTaskPrioritySet (tasks.c:839-898) yields when it makes another task     *)
(* more important than it was, or the caller less.                          *)
LEMMA RulingPrioritySet ==
    ASSUME QueueInv, Settled, Ruling, ~QueueIsMutex, NEW t \in Tasks, NEW x \in Tasks \ {Idle},
           NEW new \in SettablePriorities, vTaskPrioritySet(t, x, new)
    PROVE  Ruling'
<1> DEFINE old == uxBasePriority[x]
           c == IF new > old THEN x # t ELSE x = t
<1>1. /\ pxCurrentTCB = t /\ t # Idle /\ ~inISR /\ pc[t] = "user" /\ UNCHANGED pxCurrentTCB
      /\ uxPriority = uxBasePriority /\ old # new
      /\ uxPriority' = [uxPriority EXCEPT ![x] = new] /\ uxBasePriority' = [uxBasePriority EXCEPT ![x] = new]
      /\ YieldMaskedIf(t, c)
      /\ IF In(x, xLists[old]) THEN prvAddTaskToReadyQueue(GenericRemoved(x), x, uxPriority'[x])
         ELSE UNCHANGED <<xLists, uxTopReadyPriority>>
      /\ UNCHANGED xEventLists
    <2>1. uxPriority = uxBasePriority
        BY DEF QueueInv, MutexFacts, NoMutex
    <2> QED BY <2>1 DEF vTaskPrioritySet, Caller, Running
<1>2. new \in Priorities /\ old \in Priorities /\ new \in Nat /\ old \in Nat /\ uxPriority[x] = old
      /\ uxPriority'[x] = new /\ uxBasePriority'[Idle] = uxBasePriority[Idle]
    BY <1>1, QueueAssumption, Typed, ReadyListNames DEF QueueAssumption, QueueInv
<1>3. /\ \A u \in Tasks \ {x} : uxPriority'[u] = uxPriority[u]
      /\ \A u \in Tasks : IsReady(u)' <=> IsReady(u)
    <2>1. \/ IsReady(x) /\ prvAddTaskToReadyQueue(GenericRemoved(x), x, new)
          \/ (IsReady(x) => new = uxPriority[x]) /\ UNCHANGED <<xLists, uxTopReadyPriority>>
        <3>1. CASE In(x, xLists[old])
            <4>1. IsReady(x)
                BY <1>2, <3>1 DEF IsReady
            <4> QED BY <1>1, <1>2, <3>1, <4>1
        <3>2. CASE ~In(x, xLists[old])
            <4>1. ~IsReady(x)
                BY <1>2, <3>2 DEF IsReady, QueueInv, ListsGood, ReadyByPriority
            <4> QED BY <1>1, <3>2, <4>1
        <3> QED BY <3>1, <3>2
    <2>2. TypeOK /\ ListsGood /\ EventsGood
        BY DEF QueueInv
    <2> HIDE DEF old
    <2> QED BY <1>1, <1>2, <2>1, <2>2, RaisedLists
<1>4. CurrentRules
    BY <1>1, RulesNow
<1>5. CASE c
    <2>1. pc' = [pc EXCEPT ![t] = "yieldMasked"]
        BY <1>1, <1>5 DEF YieldMaskedIf, ReturnVia, GoTo
    <2> QED BY <1>1, <2>1, Kept DEF Ruling, SwitchOwed
<1>6. CASE ~c
    <2>1. uxPriority \in [Tasks -> Priorities] /\ \A p \in Priorities : p \in Nat
        BY Typed, ReadyListNames DEF QueueInv
    <2>2. ASSUME NEW u \in Tasks, IsReady(u) PROVE uxPriority'[u] <= uxPriority'[t]
        <3>0. uxPriority[u] <= uxPriority[t] /\ uxPriority[u] \in Nat /\ uxPriority[t] \in Nat
            BY <1>1, <1>4, <2>1, <2>2 DEF CurrentRules
        <3>1. CASE x = t
            <4>1. new > old /\ uxPriority'[t] = new /\ uxPriority[t] = old
                BY <1>2, <1>6, <3>1
            <4> QED BY <1>2, <1>3, <3>0, <3>1, <4>1
        <3>2. CASE x # t
            <4>1. ~(new > old) /\ uxPriority'[t] = uxPriority[t]
                BY <1>3, <1>6, <3>2
            <4> QED BY <1>2, <1>3, <3>0, <4>1
        <3> QED BY <3>1, <3>2
    <2>3. pxCurrentTCB' = t /\ IsReady(t)' /\ \A u \in Tasks : IsReady(u)' => uxPriority'[u] <= uxPriority'[t]
        BY <1>1, <1>3, <1>4, <2>2 DEF CurrentRules
    <2> QED BY <2>3 DEF Ruling, CurrentRules
<1> QED BY <1>5, <1>6

(* Every step leaves the most important task running or a switch owed.      *)
LEMMA RulingStep == ~QueueIsMutex /\ QueueInv /\ Settled /\ Ruling /\ [Next]_vars => Ruling'
<1> SUFFICES ASSUME ~QueueIsMutex, QueueInv, Settled, Ruling, [Next]_vars PROVE Ruling'
    OBVIOUS
<1>1. CASE prvCheckDelayedTasks
    <2>1. checkingDelayed /\ UNCHANGED <<xYieldRequired, inISR, pxCurrentTCB, pc>>
        BY <1>1 DEF prvCheckDelayedTasks, calls
    <2> QED BY <2>1 DEF QueueInv, Control, Ruling, SwitchOwed
<1>2. CASE SwitchContextInISR
    BY <1>2, RulingSwitched DEF SwitchContextInISR
<1>3. ASSUME NEW t \in Tasks,
             \/ vPortYieldProcessor(t) \/ xTaskResumeAll(t) \/ DrainPendingReady(t)
             \/ ReplayMissedTick(t) \/ ResumeAllEnd(t)
      PROVE  Ruling'
    <2>1. CASE vPortYieldProcessor(t)
        BY <2>1, RulingSwitched DEF vPortYieldProcessor
    <2>2. CASE xTaskResumeAll(t)
        <3>1. /\ pxCurrentTCB = t /\ ~inISR /\ pc[t] = "resumeAll"
              /\ uxSchedulerSuspended' = uxSchedulerSuspended - 1
              /\ (IF uxSchedulerSuspended' = 0 THEN pc' = [pc EXCEPT ![t] = "drain"] ELSE ReturnNotYielded(t))
              /\ UNCHANGED <<lists, priorities, pxCurrentTCB, xMissedYield, yieldAfter>>
            BY <2>2 DEF xTaskResumeAll, Running, GoTo
        <3>2. uxSchedulerSuspended = 1
            BY <3>1 DEF QueueInv, Control, Suspending
        <3>3. pc'[t] = "drain"
            BY <3>1, <3>2, Kept
        <3>4. SwitchOwed => SwitchOwed'
            BY <3>1, <3>3 DEF SwitchOwed
        <3> QED BY <3>1, <3>4, RulingStill DEF lists, priorities
    <2>3. CASE DrainPendingReady(t)
        <3>1. /\ pxCurrentTCB = t /\ ~inISR /\ pc[t] = "drain" /\ xEventLists[PendingReadyList] # <<>>
              /\ prvAddTaskToReadyQueue(GenericRemoved(Head(xEventLists[PendingReadyList])),
                     Head(xEventLists[PendingReadyList]), uxPriority[Head(xEventLists[PendingReadyList])])
              /\ xYieldRequired' = (xYieldRequired \/
                     uxPriority[Head(xEventLists[PendingReadyList])] >= uxPriority[t])
              /\ UNCHANGED <<priorities, pxCurrentTCB, suspension, pc, yieldAfter, inISR>>
            BY <2>3 DEF DrainPendingReady, Running, interrupt
        <3>2. PICK x \in Tasks : x = Head(xEventLists[PendingReadyList])
            <4>1. xEventLists[PendingReadyList] \in Seq(Tasks)
                BY EventNames, Typed DEF QueueInv
            <4> QED BY <3>1, <4>1, HeadIn
        <3>3. /\ prvAddTaskToReadyQueue(GenericRemoved(x), x, uxPriority[x])
              /\ xYieldRequired' = (xYieldRequired \/ uxPriority[x] >= uxPriority[t])
            BY <3>1, <3>2
        <3>4. SwitchOwed => SwitchOwed'
            BY <3>1, <3>3 DEF SwitchOwed, suspension
        <3>5. uxPriority[x] >= uxPriority[pxCurrentTCB] => SwitchOwed'
            BY <3>1, <3>3 DEF SwitchOwed
        <3> QED BY <3>1, <3>3, <3>4, <3>5, RulingWoken DEF priorities
    <2>4. CASE ReplayMissedTick(t)
        BY <2>4 DEF ReplayMissedTick, Running, Ruling, SwitchOwed
    <2>5. CASE ResumeAllEnd(t)
        <3>1. /\ pxCurrentTCB = t /\ ~inISR /\ pc[t] = "drain"
              /\ IF xYieldRequired \/ xMissedYield THEN pc' = [pc EXCEPT ![t] = "yieldMasked"]
                 ELSE pc' = [pc EXCEPT ![t] = IF yieldAfter[t] THEN "yield" ELSE ret[t]]
              /\ UNCHANGED <<lists, priorities, pxCurrentTCB>>
            BY <2>5 DEF ResumeAllEnd, Running, GoTo, ReturnNotYielded
        <3>2. SwitchOwed => pc'[t] \in {"yield", "yieldMasked"}
            <4>1. SwitchOwed => xMissedYield \/ xYieldRequired \/ yieldAfter[t]
                BY <3>1 DEF SwitchOwed
            <4> QED BY <3>1, <4>1, Kept
        <3>3. SwitchOwed => SwitchOwed'
            BY <3>1, <3>2 DEF SwitchOwed
        <3> QED BY <3>1, <3>3, RulingStill DEF lists, priorities
    <2> QED BY <1>3, <2>1, <2>2, <2>3, <2>4, <2>5
<1>4. CASE Tick
    BY <1>4 DEF Tick, vTickISR, Ruling, SwitchOwed
<1>5. CASE FromISR
    <2>1. PICK e \in EventLists, lock \in {xTxLock, xRxLock} :
              /\ InterruptsEnabled /\ AfterISR(e, lock)
              /\ UNCHANGED <<priorities, suspension, pxCurrentTCB, calls>>
        BY <1>5, EventNames DEF FromISR, xQueueGenericSendFromISR, xQueueReceiveFromISR
    <2>2. ~inISR /\ UNCHANGED <<uxPriority, uxBasePriority, pxCurrentTCB, xMissedYield, pc, yieldAfter, xYieldRequired>>
        BY <2>1 DEF InterruptsEnabled, priorities, suspension, calls
    <2>3. SwitchOwed => SwitchOwed'
        BY <2>2 DEF SwitchOwed
    <2>4. CASE UNCHANGED xLists
        BY <2>2, <2>3, <2>4, RulingStill
    <2>5. CASE ~UNCHANGED xLists
        <3>1. xEventLists[e] # <<>> /\ xTaskRemoveFromEventList(e) /\ inISR' = HeadOutranksCurrent(e)
            BY <2>1, <2>5 DEF AfterISR, lists
        <3>2. PICK x \in Tasks : x = Head(xEventLists[e])
            <4>1. xEventLists[e] \in Seq(Tasks)
                BY EventNames, Typed DEF QueueInv
            <4> QED BY <3>1, <4>1, HeadIn
        <3>3. prvAddTaskToReadyQueue(GenericRemoved(x), x, uxPriority[x])
            BY <2>5, <3>1, <3>2 DEF xTaskRemoveFromEventList
        <3>4. uxPriority[x] >= uxPriority[pxCurrentTCB] => SwitchOwed'
            BY <3>1, <3>2 DEF HeadOutranksCurrent, SwitchOwed
        <3> QED BY <2>2, <2>3, <3>3, <3>4, RulingWoken
    <2> QED BY <2>4, <2>5
<1>6. ASSUME NEW t \in Tasks, TaskAPI(t) PROVE Ruling'
    <2>1. CASE DelayStart(t)
        BY <2>1, RulingCall DEF DelayStart, Caller, Running, lists, priorities
    <2>2. ASSUME NEW n \in Delays, vTaskDelay(t, n) PROVE Ruling'
        <3>1. CASE /\ Caller(t) /\ UNCHANGED <<lists, priorities, pxCurrentTCB>>
            BY <3>1, RulingCall DEF Caller, Running, lists, priorities
        <3>2. CASE Running(t, "delay") /\ CallResumeAll(t, "user", TRUE) /\ UNCHANGED pxCurrentTCB
            <4>1. pc' = [pc EXCEPT ![t] = "resumeAll"] /\ yieldAfter' = [yieldAfter EXCEPT ![t] = TRUE]
                BY <3>2 DEF CallResumeAll, GoTo
            <4>2. pc'[t] = "resumeAll" /\ yieldAfter'[t]
                BY <4>1, Kept
            <4> QED BY <3>2, <4>2 DEF Running, Ruling, SwitchOwed
        <3> QED BY <2>2, <3>1, <3>2 DEF vTaskDelay
    <2>3. ASSUME NEW x \in Tasks \ {Idle}, NEW p \in SettablePriorities, vTaskPrioritySet(t, x, p)
          PROVE  Ruling'
        BY <2>3, RulingPrioritySet
    <2> QED BY <1>6, <2>1, <2>2, <2>3 DEF TaskAPI
<1>7. ASSUME NEW t \in Tasks, QueueStep(t) PROVE Ruling'
    BY <1>7, RulingQueueStep
<1>8. CASE UNCHANGED vars
    BY <1>8, RulingStill DEF vars, kernelVars, lists, priorities, suspension, calls, interrupt, SwitchOwed
<1> QED BY <1>1, <1>2, <1>3, <1>4, <1>5, <1>6, <1>7, <1>8 DEF Next, KernelOnly, KernelStep

(* When the scheduler starts nothing is pending, and the most important     *)
(* task runs.                                                               *)
LEMMA InitSettled == Init => Settled /\ Ruling
<1> SUFFICES ASSUME Init PROVE Settled /\ Ruling
    OBVIOUS
<1>1. Settled
    BY EventNames DEF Init, Settled
<1>2. PICK prio \in [Tasks -> Priorities], first \in Tasks :
        /\ \A t \in Tasks : prio[t] <= prio[first]
        /\ uxPriority = prio /\ pxCurrentTCB = first
    BY DEF Init
<1>3. IsReady(first)
    BY <1>2, InitGood DEF QueueInv, Present, Init
<1> QED BY <1>1, <1>2, <1>3 DEF Ruling, CurrentRules

(* With the scheduler running nothing is pending, at any time.              *)
LEMMA AlwaysSettled == Spec => []Settled
<1>1. Init => QueueInv /\ Settled
    BY InitGood, InitSettled
<1>2. QueueInv /\ Settled /\ [Next]_vars => QueueInv' /\ Settled'
    BY StepGood, SettledStep
<1> QED BY <1>1, <1>2, PTL DEF Spec

(* What waits is blocked: a task is in an event list of the queue with its  *)
(* call in progress and its generic item where its timeout needs it, and    *)
(* the queue is locked only with the scheduler suspended (queue.c:150,      *)
(* 1279-1363).                                                              *)
THEOREM WaitersAlwaysBlocked == Spec => []WaitersAreBlocked
<1>1. QueueInv => WaitersAreBlocked
    BY DEF QueueInv, Waiters, WaitersAreBlocked, Locking, Control, Suspending
<1> QED BY <1>1, Invariant, PTL

(* And of the others the most important runs whenever it can be preempted,  *)
(* for a queue or a semaphore of any length, any priorities set by any task *)
(* and any interrupts.  (A mutex does not keep to it: when the task that    *)
(* lent its priority has timed out, the task that gives the mutex drops its *)
(* own without a yield, tasks.c:2457-2490.)                                 *)
THEOREM TheMostImportantRuns == ~QueueIsMutex /\ Spec => []WaitersBlockedOthersRun
<1>1. CASE ~QueueIsMutex
    <2>1. Init => QueueInv /\ Settled /\ Ruling
        BY InitGood, InitSettled
    <2>2. QueueInv /\ Settled /\ Ruling /\ [Next]_vars => QueueInv' /\ Settled' /\ Ruling'
        BY <1>1, StepGood, SettledStep, RulingStep
    <2>3. QueueInv /\ Settled /\ Ruling => WaitersBlockedOthersRun
        <3> SUFFICES ASSUME QueueInv, Settled, Ruling PROVE WaitersBlockedOthersRun
            OBVIOUS
        <3>1. WaitersAreBlocked
            BY DEF QueueInv, Waiters, WaitersAreBlocked, Locking, Control, Suspending
        <3>2. HighestPriorityRuns
            BY RulesNow DEF HighestPriorityRuns, Preemptible, CurrentRules
        <3> QED BY <3>1, <3>2 DEF WaitersBlockedOthersRun
    <2> QED BY <2>1, <2>2, <2>3, PTL DEF Spec
<1>2. CASE QueueIsMutex
    BY <1>2
<1> QED BY <1>1, <1>2

-----------------------------------------------------------------------------
(* What the ticks still to come for the call with frame f are to what       *)
(* xTaskCheckForTimeOut will reckon from, with the tick count `now' and     *)
(* `missed' ticks not counted yet: none, or no more than it will.           *)
Reckoned(f, now, missed) ==
    f.xEntryTimeSet /\ f.xTicksToWait # portMAX_DELAY =>
        \/ f.left = 0
        \/ /\ f.wrapped
           /\ f.left + missed + now + TickMod <= f.xTicksToWait + f.xTimeOnEntering
        \/ /\ ~f.wrapped /\ f.xTimeOnEntering <= now
           /\ f.left + missed + now <= f.xTicksToWait + f.xTimeOnEntering

Timing == \A t \in Tasks : frame[t] # NULL => Reckoned(frame[t], xTickCount, uxMissedTicks)

(* The time that has passed, with the tick count anywhere.                  *)
LEMMA ElapsedIs ==
    ASSUME xTickCount \in Ticks, NEW f \in Frames
    PROVE  Elapsed(f) = IF f.xTimeOnEntering <= xTickCount THEN xTickCount - f.xTimeOnEntering
                        ELSE xTickCount - f.xTimeOnEntering + TickMod
<1>1. f.xTimeOnEntering \in Ticks /\ TickMod \in Nat /\ Ticks = 0..(TickMod - 1)
    BY FrameFields, TickFacts
<1> DEFINE a == xTickCount - f.xTimeOnEntering
<1>2. a \in Int /\ -TickMod < a /\ a < 2 * TickMod /\ a < TickMod
    BY <1>1
<1>3. a % TickMod = IF a < 0 THEN a + TickMod ELSE IF a < TickMod THEN a ELSE a - TickMod
    BY <1>2, ModTick
<1> QED BY <1>1, <1>2, <1>3 DEF Elapsed

(* Who times out has no ticks left, and who does not has no more than what  *)
(* is left of the time to wait.                                             *)
LEMMA TimeoutIsDue ==
    ASSUME xTickCount \in Ticks, uxMissedTicks \in Nat, NEW f \in Frames, f.xEntryTimeSet,
           Reckoned(f, xTickCount, uxMissedTicks)
    PROVE  /\ TimedOut(f) => f.left = 0 /\ f.xTicksToWait # portMAX_DELAY
           /\ ~TimedOut(f) => Reckoned(Adjusted(f), xTickCount, uxMissedTicks)
<1> DEFINE wait == f.xTicksToWait
           entry == f.xTimeOnEntering
           left == f.left
           e == Elapsed(f)
<1>1. /\ wait \in Nat /\ wait <= TickMod - 1 /\ entry \in Nat /\ entry <= TickMod - 1
      /\ left \in Nat /\ f.wrapped \in BOOLEAN /\ TickMod \in Nat /\ xTickCount \in Nat
      /\ xTickCount <= TickMod - 1 /\ portMAX_DELAY = TickMod - 1
    BY FrameFields, TickFacts
<1>2. e = IF entry <= xTickCount THEN xTickCount - entry ELSE xTickCount - entry + TickMod
    BY ElapsedIs
<1>3. CASE wait = portMAX_DELAY
    BY <1>3 DEF TimedOut, Adjusted, Reckoned
<1>4. CASE wait # portMAX_DELAY
    <2>1. \/ left = 0
          \/ f.wrapped /\ left + uxMissedTicks + xTickCount + TickMod <= wait + entry
          \/ ~f.wrapped /\ entry <= xTickCount /\ left + uxMissedTicks + xTickCount <= wait + entry
        BY <1>4 DEF Reckoned
    <2>2. TimedOut(f) <=> (f.wrapped /\ xTickCount >= entry) \/ e >= wait
        BY <1>4 DEF TimedOut
    <2>3. ASSUME TimedOut(f) PROVE left = 0
        <3> HIDE DEF e, wait, entry, left
        <3> QED BY <1>1, <1>2, <1>4, <2>1, <2>2, <2>3
    <2>4. ASSUME ~TimedOut(f) PROVE Reckoned(Adjusted(f), xTickCount, uxMissedTicks)
        <3>1. left = 0 \/ left + uxMissedTicks + e <= wait
            <4> HIDE DEF e, wait, entry, left
            <4> QED BY <1>1, <1>2, <1>4, <2>1, <2>2, <2>4
        <3>2. e \in Int
            BY <1>1, <1>2
        <3> DEFINE n == wait - e
                   g == [f EXCEPT !.xTicksToWait = n, !.xTimeOnEntering = xTickCount, !.wrapped = FALSE]
        <3>3. Adjusted(f) = g
            BY <1>4 DEF Adjusted
        <3>4. g.xTicksToWait = n /\ g.xTimeOnEntering = xTickCount /\ ~g.wrapped /\ g.left = left
            BY DEF Frames
        <3> HIDE DEF g
        <3>5. left = 0 \/ left + uxMissedTicks + xTickCount <= n + xTickCount
            <4> HIDE DEF e, wait, left
            <4> QED BY <1>1, <3>1, <3>2
        <3> QED BY <1>1, <3>3, <3>4, <3>5 DEF Reckoned
    <2> QED BY <1>4, <2>3, <2>4
<1> QED BY <1>3, <1>4

(* A tick interrupt, counted or missed, takes one from what is still to     *)
(* come; counting a missed one changes nothing of the sum.                  *)
LEMMA AgedReckoned ==
    ASSUME xTickCount \in Ticks, uxMissedTicks \in Nat, NEW f \in Frames, NEW ticked \in BOOLEAN,
           Reckoned(f, xTickCount, uxMissedTicks),
           \/ UNCHANGED xTickCount /\ uxMissedTicks' = IF ticked THEN uxMissedTicks + 1 ELSE uxMissedTicks
           \/ /\ xTickCount' = (xTickCount + 1) % TickMod
              /\ IF ticked THEN UNCHANGED uxMissedTicks
                 ELSE uxMissedTicks > 0 /\ uxMissedTicks' = uxMissedTicks - 1
    PROVE  Reckoned(Aged(f, ticked), xTickCount', uxMissedTicks')
<1> DEFINE n == IF ticked /\ f.left > 0 THEN f.left - 1 ELSE f.left
           w == f.xEntryTimeSet /\ (f.wrapped \/ xTickCount' < xTickCount)
           g == [f EXCEPT !.left = n, !.wrapped = w]
<1>1. /\ f.xTicksToWait \in Nat /\ f.xTicksToWait <= TickMod - 1 /\ f.xTimeOnEntering \in Nat
      /\ f.xTimeOnEntering <= TickMod - 1 /\ f.left \in Nat /\ f.wrapped \in BOOLEAN
      /\ f.xEntryTimeSet \in BOOLEAN /\ TickMod \in Nat /\ TickMod > 1 /\ xTickCount \in Nat
      /\ xTickCount <= TickMod - 1 /\ f # NULL
    BY FrameFields, TickFacts
<1>2. Aged(f, ticked) = g
    BY <1>1 DEF Aged
<1>3. n \in Nat /\ w \in BOOLEAN
    BY <1>1
<1>4. /\ g.left = n /\ g.wrapped = w /\ g.xTicksToWait = f.xTicksToWait
      /\ g.xTimeOnEntering = f.xTimeOnEntering /\ g.xEntryTimeSet = f.xEntryTimeSet
    BY DEF Frames
<1>5. xTickCount' = (xTickCount + 1) % TickMod =>
          xTickCount' = IF xTickCount = TickMod - 1 THEN 0 ELSE xTickCount + 1
    <2> DEFINE a == xTickCount + 1
    <2>1. a \in Int /\ -TickMod < a /\ a < 2 * TickMod /\ ~(a < 0)
        BY <1>1
    <2> HIDE DEF a
    <2>2. a % TickMod = IF a < TickMod THEN a ELSE a - TickMod
        BY <2>1, ModTick
    <2>3. a = xTickCount + 1
        BY DEF a
    <2> QED BY <1>1, <2>2, <2>3
<1>6. SUFFICES ASSUME f.xEntryTimeSet, f.xTicksToWait # portMAX_DELAY
               PROVE  \/ n = 0
                      \/ /\ w
                         /\ n + uxMissedTicks' + xTickCount' + TickMod <= f.xTicksToWait + f.xTimeOnEntering
                      \/ /\ ~w /\ f.xTimeOnEntering <= xTickCount'
                         /\ n + uxMissedTicks' + xTickCount' <= f.xTicksToWait + f.xTimeOnEntering
    <2> HIDE DEF n, w, g
    <2> QED BY <1>2, <1>4 DEF Reckoned
<1>7. /\ w <=> (f.wrapped \/ xTickCount' < xTickCount)
      /\ \/ f.left = 0
         \/ f.wrapped /\ f.left + uxMissedTicks + xTickCount + TickMod <= f.xTicksToWait + f.xTimeOnEntering
         \/ /\ ~f.wrapped /\ f.xTimeOnEntering <= xTickCount
            /\ f.left + uxMissedTicks + xTickCount <= f.xTicksToWait + f.xTimeOnEntering
    BY <1>6 DEF Reckoned
<1> DEFINE wait == f.xTicksToWait
           entry == f.xTimeOnEntering
           left == f.left
<1>8. /\ wait \in Nat /\ wait <= TickMod - 1 /\ entry \in Nat /\ entry <= TickMod - 1 /\ left \in Nat
      /\ \/ left = 0
         \/ f.wrapped /\ left + uxMissedTicks + xTickCount + TickMod <= wait + entry
         \/ ~f.wrapped /\ entry <= xTickCount /\ left + uxMissedTicks + xTickCount <= wait + entry
      /\ n = IF ticked /\ left > 0 THEN left - 1 ELSE left
    BY <1>1, <1>7
<1> SUFFICES \/ n = 0
             \/ w /\ n + uxMissedTicks' + xTickCount' + TickMod <= wait + entry
             \/ ~w /\ entry <= xTickCount' /\ n + uxMissedTicks' + xTickCount' <= wait + entry
    OBVIOUS
<1> HIDE DEF n, w, g, wait, entry, left
<1>9. CASE UNCHANGED xTickCount /\ uxMissedTicks' = IF ticked THEN uxMissedTicks + 1 ELSE uxMissedTicks
    BY <1>1, <1>7, <1>8, <1>9
<1>10. CASE /\ xTickCount' = (xTickCount + 1) % TickMod
            /\ IF ticked THEN UNCHANGED uxMissedTicks
               ELSE uxMissedTicks > 0 /\ uxMissedTicks' = uxMissedTicks - 1
    <2>1. CASE xTickCount = TickMod - 1
        <3>1. xTickCount' = 0 /\ xTickCount' < xTickCount
            BY <1>1, <1>5, <1>10, <2>1
        <3>2. w
            BY <1>7, <3>1
        <3> QED BY <1>1, <1>8, <1>10, <2>1, <3>1, <3>2
    <2>2. CASE xTickCount # TickMod - 1
        <3>1. xTickCount' = xTickCount + 1 /\ ~(xTickCount' < xTickCount)
            BY <1>1, <1>5, <1>10, <2>2
        <3>2. w <=> f.wrapped
            BY <1>7, <3>1
        <3> QED BY <1>1, <1>8, <1>10, <3>1, <3>2
    <2> QED BY <2>1, <2>2
<1> QED BY <1>9, <1>10

(* So does the clock for all of them.                                       *)
LEMMA TimingTicks ==
    ASSUME QueueInv, Timing, NEW ticked \in BOOLEAN,
           frame' = [t \in Tasks |-> Aged(frame[t], ticked)],
           \/ UNCHANGED xTickCount /\ uxMissedTicks' = IF ticked THEN uxMissedTicks + 1 ELSE uxMissedTicks
           \/ /\ xTickCount' = (xTickCount + 1) % TickMod
              /\ IF ticked THEN UNCHANGED uxMissedTicks
                 ELSE uxMissedTicks > 0 /\ uxMissedTicks' = uxMissedTicks - 1
    PROVE  Timing'
<1>1. /\ xTickCount \in Ticks /\ uxMissedTicks \in Nat /\ frame \in [Tasks -> Frames \cup {NULL}]
    BY Typed DEF QueueInv
<1>2. ASSUME NEW t \in Tasks, frame'[t] # NULL PROVE Reckoned(frame'[t], xTickCount', uxMissedTicks')
    <2>1. frame'[t] = Aged(frame[t], ticked)
        OBVIOUS
    <2>2. frame[t] \in Frames
        BY <1>1, <1>2, <2>1 DEF Aged
    <2>3. Reckoned(frame[t], xTickCount, uxMissedTicks)
        BY <2>2, FrameFields DEF Timing
    <2> QED BY <1>1, <2>1, <2>2, <2>3, AgedReckoned
<1> QED BY <1>2 DEF Timing

(* With the clock as it is, one task changes its frame.                     *)
LEMMA TimingSet ==
    ASSUME QueueInv, Timing, NEW t \in Tasks, NEW f \in Frames \cup {NULL}, SetFrame(t, f),
           f # NULL => Reckoned(f, xTickCount, uxMissedTicks), UNCHANGED <<xTickCount, uxMissedTicks>>
    PROVE  Timing'
<1>1. frame'[t] = f /\ \A u \in Tasks \ {t} : frame'[u] = frame[u]
    BY FrameSet DEF QueueInv
<1> QED BY <1>1 DEF Timing

(* No call is reckoned a tick too early, whatever a task does.              *)
LEMMA TimingQueueStep ==
    ASSUME QueueInv, Settled, Timing, NEW t \in Tasks, QueueStep(t)
    PROVE  Timing'
<1>0. UNCHANGED <<frame, xTickCount, uxMissedTicks>> => Timing'
    BY DEF Timing
<1>1. CASE \/ TakeAgain(t) \/ WakeWaiter(t) \/ SuspendToBlock(t) \/ LookAgain(t)
           \/ Inherit(t) \/ Block(t) \/ prvUnlockQueue(t)
    <2>1. CASE TakeAgain(t) \/ WakeWaiter(t)
        BY <1>0, <2>1 DEF TakeAgain, WakeWaiter, calm, clock, queueVars
    <2>2. CASE SuspendToBlock(t) \/ LookAgain(t) \/ Inherit(t)
        BY <1>0, <2>2 DEF SuspendToBlock, LookAgain, Inherit, calm, clock, queueVars
    <2>3. CASE Block(t) \/ prvUnlockQueue(t)
        BY <1>0, <2>3 DEF Block, prvUnlockQueue, clock, queueVars
    <2> QED BY <1>1, <2>1, <2>2, <2>3
<1>2. ASSUME NEW op \in Operations, NEW m \in Messages, NEW n \in BlockTimes[t],
             CallQueue(t, op, m, n)
      PROVE  Timing'
    <2> DEFINE f == [op |-> op, msg |-> m, xTicksToWait |-> n, xEntryTimeSet |-> FALSE,
                     xTimeOnEntering |-> 0, wrapped |-> FALSE, left |-> 0]
    <2>1. f.xEntryTimeSet = FALSE
        OBVIOUS
    <2>2. frame' = [frame EXCEPT ![t] = f] /\ UNCHANGED <<xTickCount, uxMissedTicks>>
        BY <1>2 DEF CallQueue, SetFrame, calm, clock
    <2>3. frame \in [Tasks -> Frames \cup {NULL}]
        BY Typed DEF QueueInv
    <2> HIDE DEF f
    <2> QED BY <2>1, <2>2, <2>3 DEF Timing, Reckoned
<1>3. ASSUME NEW m \in Messages, xQueueGiveMutexRecursive(t, m) PROVE Timing'
    <2> DEFINE f == [op |-> "sendToBack", msg |-> m, xTicksToWait |-> 0, xEntryTimeSet |-> FALSE,
                     xTimeOnEntering |-> 0, wrapped |-> FALSE, left |-> 0]
    <2>1. f.xEntryTimeSet = FALSE
        OBVIOUS
    <2>2. /\ frame' = [frame EXCEPT ![t] = f] \/ frame' = frame
          /\ UNCHANGED <<xTickCount, uxMissedTicks>>
        BY <1>3 DEF xQueueGiveMutexRecursive, SetFrame, calm, clock
    <2>3. frame \in [Tasks -> Frames \cup {NULL}]
        BY Typed DEF QueueInv
    <2> HIDE DEF f
    <2> QED BY <2>1, <2>2, <2>3 DEF Timing, Reckoned
<1>4. CASE SendNow(t) \/ ReceiveNow(t) \/ GiveUp(t)
    <2>1. SetFrame(t, NULL) /\ UNCHANGED <<xTickCount, uxMissedTicks>>
        BY <1>4 DEF SendNow, ReceiveNow, GiveUp, calm, clock
    <2> QED BY <2>1, TimingSet
<1>5. CASE WillWait(t)
    <2> DEFINE f == [frame[t] EXCEPT !.xEntryTimeSet = TRUE, !.xTimeOnEntering = xTickCount,
                                     !.wrapped = FALSE, !.left = frame[t].xTicksToWait]
    <2>1. /\ pxCurrentTCB = t /\ pc[t] = "top"
          /\ UNCHANGED <<xTickCount, uxMissedTicks>> /\ (UNCHANGED frame \/ SetFrame(t, f))
        BY <1>5 DEF WillWait, Running, calm, clock
    <2>2. uxMissedTicks = 0 /\ xTickCount \in Nat
        BY <2>1, Typed, TickFacts DEF Settled, QueueInv, Control, Suspending
    <2>3. frame[t] \in Frames
        BY <2>1, Typed DEF QueueInv, Framed, InLoop
    <2>4. f.left = frame[t].xTicksToWait /\ f.xTicksToWait = frame[t].xTicksToWait
          /\ f.xTimeOnEntering = xTickCount /\ f.wrapped = FALSE /\ f.xTicksToWait \in Nat
        BY <2>3, FrameFields, TickFacts DEF Frames
    <2>5. f \in Frames
        BY <2>3, FrameFields, TickFacts, Typed DEF Frames, QueueInv
    <2> HIDE DEF f
    <2>6. Reckoned(f, xTickCount, uxMissedTicks)
        BY <2>2, <2>4 DEF Reckoned
    <2> QED BY <1>0, <2>1, <2>5, <2>6, TimingSet
<1>6. CASE prvLockQueue(t)
    <2>1. pc[t] = "lock" /\ UNCHANGED <<xTickCount, uxMissedTicks>>
          /\ SetFrame(t, IF TimedOut(frame[t]) THEN NULL ELSE Adjusted(frame[t]))
        BY <1>6 DEF prvLockQueue, Running, clock
    <2>2. /\ frame[t] \in Frames /\ frame[t].xEntryTimeSet /\ frame[t].xTicksToWait > 0
          /\ frame[t] # NULL
        BY <2>1, Typed DEF QueueInv, Framed, InLoop, GoingToWait
    <2>3. xTickCount \in Ticks /\ uxMissedTicks \in Nat
        BY Typed DEF QueueInv
    <2>4. Reckoned(frame[t], xTickCount, uxMissedTicks)
        BY <2>2 DEF Timing
    <2>5. CASE TimedOut(frame[t])
        BY <2>1, <2>5, TimingSet
    <2>6. CASE ~TimedOut(frame[t])
        <3>1. Reckoned(Adjusted(frame[t]), xTickCount, uxMissedTicks)
            BY <2>2, <2>3, <2>4, <2>6, TimeoutIsDue
        <3>2. Adjusted(frame[t]) \in Frames
            BY <2>2, <2>3, <2>6, AdjustedIt
        <3>3. PICK f \in Frames : f = Adjusted(frame[t])
            BY <3>2
        <3> QED BY <2>1, <2>6, <3>1, <3>3, TimingSet
    <2> QED BY <2>5, <2>6
<1> QED BY <1>1, <1>2, <1>3, <1>4, <1>5, <1>6 DEF QueueStep

(* Nor by any other step.                                                   *)
LEMMA TimingStep == QueueInv /\ Settled /\ Timing /\ [Next]_vars => Timing'
<1> SUFFICES ASSUME QueueInv, Settled, Timing, [Next]_vars PROVE Timing'
    OBVIOUS
<1>0. UNCHANGED <<frame, xTickCount, uxMissedTicks>> => Timing'
    BY DEF Timing
<1>1. CASE KernelOnly
    <2>1. KernelStep /\ frame' = [t \in Tasks |-> Aged(frame[t], FALSE)]
        BY <1>1 DEF KernelOnly
    <2>2. \/ UNCHANGED <<xTickCount, uxMissedTicks>>
          \/ /\ xTickCount' = (xTickCount + 1) % TickMod
             /\ uxMissedTicks > 0 /\ uxMissedTicks' = uxMissedTicks - 1
        BY <2>1 DEF KernelStep, prvCheckDelayedTasks, SwitchContextInISR, vPortYieldProcessor,
                    xTaskResumeAll, DrainPendingReady, ReplayMissedTick, ResumeAllEnd,
                    vTaskIncrementTick, clock
    <2>3. FALSE \in BOOLEAN
        OBVIOUS
    <2> QED BY <2>1, <2>2, <2>3, TimingTicks
<1>2. CASE Tick
    <2>1. vTickISR /\ frame' = [t \in Tasks |-> Aged(frame[t], TRUE)]
        BY <1>2 DEF Tick
    <2>2. \/ UNCHANGED xTickCount /\ uxMissedTicks' = uxMissedTicks + 1
          \/ xTickCount' = (xTickCount + 1) % TickMod /\ UNCHANGED uxMissedTicks
        BY <2>1 DEF vTickISR, vTaskIncrementTick
    <2>3. TRUE \in BOOLEAN
        OBVIOUS
    <2> QED BY <2>1, <2>2, <2>3, TimingTicks
<1>3. CASE FromISR
    BY <1>0, <1>3 DEF FromISR, xQueueGenericSendFromISR, xQueueReceiveFromISR, clock
<1>4. ASSUME NEW t \in Tasks, TaskAPI(t) PROVE Timing'
    BY <1>0, <1>4 DEF TaskAPI, DelayStart, vTaskDelay, vTaskPrioritySet, clock, queueVars
<1>5. ASSUME NEW t \in Tasks, QueueStep(t) PROVE Timing'
    BY <1>5, TimingQueueStep
<1>6. CASE UNCHANGED vars
    BY <1>0, <1>6 DEF vars, kernelVars, clock, queueVars
<1> QED BY <1>1, <1>2, <1>3, <1>4, <1>5, <1>6 DEF Next

(* Only prvLockQueue leads from "lock" to "unlockTx", when the time is up.  *)
LEMMA LockStep ==
    ASSUME QueueInv, [Next]_vars, NEW t \in Tasks, pc[t] = "lock", pc'[t] = "unlockTx"
    PROVE  TimedOut(frame[t])
<1>1. pxCurrentTCB = t /\ pc \in [Tasks -> PcNames]
    BY Typed DEF QueueInv, Control, SwitchedOut
<1>2. ret \in [Tasks -> {"user", "top"}]
    BY Kept
<1>3. ~UNCHANGED pc
    OBVIOUS
<1>4. ~KernelOnly
    <2>1. SUFFICES ASSUME KernelStep PROVE FALSE
        BY DEF KernelOnly
    <2>2. ~prvCheckDelayedTasks /\ ~SwitchContextInISR
        BY <1>3 DEF prvCheckDelayedTasks, SwitchContextInISR, calls
    <2>3. ASSUME NEW u \in Tasks PROVE ~vPortYieldProcessor(u) /\ ~xTaskResumeAll(u)
        BY <1>1 DEF vPortYieldProcessor, xTaskResumeAll, Running
    <2>4. ASSUME NEW u \in Tasks
          PROVE  ~DrainPendingReady(u) /\ ~ReplayMissedTick(u) /\ ~ResumeAllEnd(u)
        BY <1>1 DEF DrainPendingReady, ReplayMissedTick, ResumeAllEnd, Running
    <2> QED BY <2>1, <2>2, <2>3, <2>4 DEF KernelStep
<1>5. ~Tick /\ ~FromISR
    BY <1>3 DEF Tick, vTickISR, FromISR, xQueueGenericSendFromISR, xQueueReceiveFromISR, calls
<1>6. ASSUME NEW u \in Tasks PROVE ~TaskAPI(u)
    BY <1>1 DEF TaskAPI, DelayStart, vTaskDelay, vTaskPrioritySet, Caller, Running
<1>7. ASSUME NEW u \in Tasks, QueueStep(u) PROVE TimedOut(frame[t])
    <2>1. ASSUME NEW op \in Operations, NEW m \in Messages, NEW n \in BlockTimes[u]
          PROVE  ~CallQueue(u, op, m, n) /\ ~xQueueGiveMutexRecursive(u, m)
        BY <1>1 DEF CallQueue, xQueueGiveMutexRecursive, Caller, Running
    <2>2. ASSUME NEW m \in Messages PROVE ~xQueueGiveMutexRecursive(u, m)
        BY <1>1 DEF xQueueGiveMutexRecursive, Caller, Running
    <2>3. ~TakeAgain(u) /\ ~SendNow(u) /\ ~ReceiveNow(u) /\ ~WakeWaiter(u) /\ ~GiveUp(u)
        BY <1>1 DEF TakeAgain, SendNow, ReceiveNow, WakeWaiter, GiveUp, Caller, Running
    <2>4. ~WillWait(u) /\ ~SuspendToBlock(u) /\ ~LookAgain(u) /\ ~Inherit(u) /\ ~Block(u)
        BY <1>1 DEF WillWait, SuspendToBlock, LookAgain, Inherit, Block, Running
    <2>5. ~prvUnlockQueue(u)
        BY <1>1 DEF prvUnlockQueue, Running
    <2>6. prvLockQueue(u)
        BY <1>7, <2>1, <2>2, <2>3, <2>4, <2>5 DEF QueueStep
    <2>7. u = t
        BY <1>1, <2>6 DEF prvLockQueue, Running
    <2>8. ~TimedOut(frame[t]) => pc' = [pc EXCEPT ![t] = "look"]
        BY <2>6, <2>7 DEF prvLockQueue, GoTo
    <2> QED BY <1>1, <2>8
<1>8. ~UNCHANGED vars
    BY <1>3 DEF vars, kernelVars, calls
<1> QED BY <1>4, <1>5, <1>6, <1>7, <1>8 DEF Next

(* A wait never ends early: a call that gives up after waiting has seen     *)
(* every tick it asked for, across any number of wakings that came to       *)
(* nothing, ticks counted late and wraps of a tick count of any width       *)
(* (vTaskSetTimeOutState and xTaskCheckForTimeOut, tasks.c:1850-1898).      *)
THEOREM NoTimeoutIsEarly == Spec => NoEarlyTimeout
<1>1. Init => QueueInv /\ Settled /\ Timing
    BY InitGood, InitSettled DEF Init, Timing
<1>2. QueueInv /\ Settled /\ Timing /\ [Next]_vars => QueueInv' /\ Settled' /\ Timing'
    BY StepGood, SettledStep, TimingStep
<1>3. QueueInv /\ Timing /\ [Next]_vars =>
          [\A t \in Tasks : pc[t] = "lock" /\ pc'[t] = "unlockTx" =>
               frame[t].left = 0 /\ frame[t].xTicksToWait # portMAX_DELAY]_vars
    <2> SUFFICES ASSUME QueueInv, Timing, [Next]_vars, NEW t \in Tasks, pc[t] = "lock", pc'[t] = "unlockTx"
                 PROVE  frame[t].left = 0 /\ frame[t].xTicksToWait # portMAX_DELAY
        OBVIOUS
    <2>1. TimedOut(frame[t])
        BY LockStep
    <2>2. frame[t] \in Frames /\ frame[t].xEntryTimeSet /\ frame[t] # NULL
        BY Typed DEF QueueInv, Framed, InLoop, GoingToWait
    <2>3. Reckoned(frame[t], xTickCount, uxMissedTicks)
        BY <2>2 DEF Timing
    <2>4. xTickCount \in Ticks /\ uxMissedTicks \in Nat
        BY Typed DEF QueueInv
    <2> QED BY <2>1, <2>2, <2>3, <2>4, TimeoutIsDue
<1> QED BY <1>1, <1>2, <1>3, PTL DEF Spec, NoEarlyTimeout

-----------------------------------------------------------------------------
(* Per event list of the queue: what a task in it waits for, the lock that  *)
(* counts it, where a task stands that is about to wake another, and the    *)
(* tasks that are coming for it.                                            *)
Wanted(e) == IF e = Waiting.send THEN uxLength - uxMessagesWaiting ELSE uxMessagesWaiting
Lock(e) == IF e = Waiting.send THEN xRxLock ELSE xTxLock
Waker(e) == IF e = Waiting.send THEN "wakeSender" ELSE "wakeReceiver"
Owed(e) == Counted(Lock(e)) + Waking(Waker(e))

Coming(e) ==
    {t \in Tasks : /\ frame[t] # NULL /\ IsSend(t) = (e = Waiting.send)
                   /\ pc[t] \notin GoingToWait
                   /\ \A f \in EventLists : ~In(t, xEventLists[f])}

(* A task waits in e, or has looked and will.                               *)
Expecting(e) ==
    \/ xEventLists[e] # <<>>
    \/ pc[pxCurrentTCB] \in {"inherit", "place"} /\ IsSend(pxCurrentTCB) = (e = Waiting.send)

Served(e) == Expecting(e) => Wanted(e) <= Cardinality(Coming(e)) + Owed(e)
Wakeups == \A e \in EventLists : Served(e)

(* These are numbers, and only the current task is about to wake another.   *)
ServedTyped(e) ==
    /\ Coming(e) \in SUBSET Tasks /\ Cardinality(Coming(e)) \in Nat
    /\ Wanted(e) \in Nat /\ Counted(Lock(e)) \in Nat /\ Owed(e) \in Nat
    /\ Owed(e) = Counted(Lock(e)) + IF pc[pxCurrentTCB] = Waker(e) THEN 1 ELSE 0

(* What the invariant says of the numbers that are compared ...             *)
LEMMA ServedFacts == QueueInv => \A e \in EventLists : ServedTyped(e)
<1> SUFFICES ASSUME QueueInv, NEW e \in EventLists PROVE ServedTyped(e)
    OBVIOUS
<1>1. Coming(e) \in SUBSET Tasks /\ Cardinality(Coming(e)) \in Nat
    <2>1. Coming(e) \in SUBSET Tasks /\ IsFiniteSet(Tasks)
        BY KernelAssumption DEF Coming, KernelAssumption
    <2>2. IsFiniteSet(Coming(e))
        BY <2>1, FS_Subset
    <2> QED BY <2>1, <2>2, FS_CardinalityType
<1>2. Wanted(e) \in Nat
    BY Typed DEF QueueInv, Wanted
<1>3. Counted(Lock(e)) \in Nat
    BY Kept DEF Counted, Lock, queueUNLOCKED
<1>4. Waking(Waker(e)) = IF pc[pxCurrentTCB] = Waker(e) THEN 1 ELSE 0
    BY Typed DEF QueueInv, Control, SwitchedOut, Waking, Waker
<1> QED BY <1>1, <1>2, <1>3, <1>4 DEF ServedTyped, Owed

(* ... and of the same numbers after a step.                                *)
LEMMA ServedFactsNext == QueueInv' => (\A e \in EventLists : ServedTyped(e))'
BY ServedFacts, PTL

(* More elements, one element less, one element more.                       *)
LEMMA CountsGrow ==
    ASSUME NEW S \in SUBSET Tasks, NEW T \in SUBSET Tasks
    PROVE  /\ S \subseteq T => Cardinality(T) >= Cardinality(S)
           /\ \A x \in Tasks : S \ {x} \subseteq T => Cardinality(T) >= Cardinality(S) - 1
           /\ \A x \in Tasks \ S : S \cup {x} \subseteq T => Cardinality(T) >= Cardinality(S) + 1
<1>1. IsFiniteSet(S) /\ IsFiniteSet(T)
    BY KernelAssumption, FS_Subset DEF KernelAssumption
<1>2. Cardinality(S) \in Nat /\ Cardinality(T) \in Nat
    BY <1>1, FS_CardinalityType
<1>3. ASSUME NEW R \in SUBSET T PROVE Cardinality(T) >= Cardinality(R)
    <2>1. IsFiniteSet(R) /\ Cardinality(R) <= Cardinality(T)
        BY <1>1, FS_Subset
    <2>2. Cardinality(R) \in Nat
        BY <2>1, FS_CardinalityType
    <2> QED BY <1>2, <2>1, <2>2
<1>4. S \subseteq T => Cardinality(T) >= Cardinality(S)
    BY <1>3
<1>5. ASSUME NEW x \in Tasks, S \ {x} \subseteq T PROVE Cardinality(T) >= Cardinality(S) - 1
    <2>1. Cardinality(S \ {x}) = IF x \in S THEN Cardinality(S) - 1 ELSE Cardinality(S)
        BY <1>1, FS_RemoveElement
    <2>2. Cardinality(T) >= Cardinality(S \ {x})
        BY <1>3, <1>5
    <2> QED BY <1>2, <2>1, <2>2
<1>6. ASSUME NEW x \in Tasks \ S, S \cup {x} \subseteq T PROVE Cardinality(T) >= Cardinality(S) + 1
    <2>1. Cardinality(S \cup {x}) = Cardinality(S) + 1
        BY <1>1, FS_AddElement
    <2>2. Cardinality(T) >= Cardinality(S \cup {x})
        BY <1>3, <1>6
    <2> QED BY <1>2, <2>1, <2>2
<1> QED BY <1>4, <1>5, <1>6

(* k more tasks come, or -k fewer, and what is owed makes up for the rest.  *)
LEMMA ServedBy ==
    ASSUME QueueInv, QueueInv', NEW e \in EventLists, NEW k \in Int, Served(e),
           Expecting(e)' => Expecting(e),
           Cardinality(Coming(e)') >= Cardinality(Coming(e)) + k,
           Wanted(e)' + Owed(e) <= (Wanted(e) + Owed(e)') + k
    PROVE  Served(e)'
<1>1. ServedTyped(e)
    BY ServedFacts
<1>2. ServedTyped(e)'
    BY ServedFactsNext
<1>3. /\ Cardinality(Coming(e)) \in Nat /\ Wanted(e) \in Nat /\ Owed(e) \in Nat
      /\ Cardinality(Coming(e)') \in Nat /\ Wanted(e)' \in Nat /\ Owed(e)' \in Nat
    BY <1>1, <1>2 DEF ServedTyped
<1>4. Expecting(e) => Wanted(e) <= Cardinality(Coming(e)) + Owed(e)
    BY DEF Served
<1>5. Expecting(e)' => Wanted(e)' <= Cardinality(Coming(e)') + Owed(e)'
    BY <1>3, <1>4
<1> QED BY <1>5 DEF Served

(* A task that came for the message, or the slot, still comes.              *)
LEMMA ComesStill ==
    ASSUME NEW u \in Tasks, NEW e \in EventLists,
           frame[u] # NULL /\ pc[u] \notin GoingToWait =>
               SameCall(frame[u], frame'[u]) /\ pc'[u] \notin GoingToWait,
           \A f \in EventLists : In(u, xEventLists'[f]) => In(u, xEventLists[f]),
           u \in Coming(e)
    PROVE  u \in Coming(e)'
BY DEF Coming, SameCall, IsSend

(* The steps that move no message, wake nobody and send nobody to wait.     *)
WakeupsQuietly ==
    /\ UNCHANGED uxMessagesWaiting
    /\ Counted(xTxLock)' = Counted(xTxLock) /\ Counted(xRxLock)' = Counted(xRxLock)
    /\ \A u \in Tasks : frame[u] # NULL /\ pc[u] \notin GoingToWait =>
           SameCall(frame[u], frame'[u]) /\ pc'[u] \notin GoingToWait
    /\ \A u \in Tasks : \A e \in EventLists : In(u, xEventLists'[e]) => In(u, xEventLists[e])
    /\ \/ pc'[pxCurrentTCB'] \notin {"inherit", "place"}
       \/ UNCHANGED <<pc, pxCurrentTCB>> /\ SameCall(frame[pxCurrentTCB], frame'[pxCurrentTCB])
       \/ pc[pxCurrentTCB] = "inherit" /\ UNCHANGED <<frame, pxCurrentTCB>>
    /\ \A u \in Tasks : pc[u] \in {"wakeSender", "wakeReceiver"} => pc'[u] = pc[u]

(* A list that no task joins does not become non-empty.                     *)
LEMMA ListShrinks ==
    ASSUME QueueInv, QueueInv', NEW e \in EventLists,
           \A u \in Tasks : In(u, xEventLists'[e]) => In(u, xEventLists[e])
    PROVE  xEventLists'[e] # <<>> => xEventLists[e] # <<>>
<1>1. xEventLists[e] \in Seq(Tasks) /\ xEventLists'[e] \in Seq(Tasks)
    BY EventNames DEF QueueInv, TypeOK, KernelTypeOK
<1> QED BY <1>1, HeadIn

(* A step that takes nothing and moves no caller loses no wake-up.          *)
LEMMA WakeupsQuiet ==
    ASSUME QueueInv, QueueInv', Wakeups, WakeupsQuietly
    PROVE  Wakeups'
<1> SUFFICES ASSUME NEW e \in EventLists PROVE Served(e)'
    BY DEF Wakeups
<1>1. Served(e) /\ ServedTyped(e)
    BY ServedFacts DEF Wakeups
<1>2. ServedTyped(e)'
    BY ServedFactsNext
<1>3. Expecting(e)' => Expecting(e)
    <2>1. xEventLists'[e] # <<>> => xEventLists[e] # <<>>
        BY ListShrinks DEF WakeupsQuietly
    <2>2. ASSUME pc'[pxCurrentTCB'] \in {"inherit", "place"}, IsSend(pxCurrentTCB)' = (e = Waiting.send)
          PROVE  pc[pxCurrentTCB] \in {"inherit", "place"} /\ IsSend(pxCurrentTCB) = (e = Waiting.send)
        <3>1. \/ UNCHANGED <<pc, pxCurrentTCB>> /\ SameCall(frame[pxCurrentTCB], frame'[pxCurrentTCB])
              \/ pc[pxCurrentTCB] = "inherit" /\ UNCHANGED <<frame, pxCurrentTCB>>
            BY <2>2 DEF WakeupsQuietly
        <3>2. CASE pc[pxCurrentTCB] = "inherit" /\ UNCHANGED <<frame, pxCurrentTCB>>
            BY <2>2, <3>2 DEF IsSend
        <3>3. CASE UNCHANGED <<pc, pxCurrentTCB>> /\ SameCall(frame[pxCurrentTCB], frame'[pxCurrentTCB])
            <4>1. pc[pxCurrentTCB] \in {"inherit", "place"} /\ pxCurrentTCB \in Tasks
                BY <2>2, <3>3, Kept
            <4>2. frame[pxCurrentTCB] # NULL
                BY <4>1 DEF QueueInv, Framed, InLoop, GoingToWait
            <4> QED BY <2>2, <3>3, <4>1, <4>2 DEF SameCall, IsSend
        <3> QED BY <3>1, <3>2, <3>3
    <2> QED BY <2>1, <2>2 DEF Expecting
<1>4. Cardinality(Coming(e)') >= Cardinality(Coming(e)) + 0
    <2>1. Coming(e) \subseteq Coming(e)'
        BY ComesStill DEF WakeupsQuietly, Coming
    <2> QED BY <1>1, <1>2, <2>1, CountsGrow DEF ServedTyped
<1>5. Wanted(e)' = Wanted(e)
    BY DEF Wanted, WakeupsQuietly
<1>6. Owed(e)' >= Owed(e)
    <2>1. Counted(Lock(e)') = Counted(Lock(e))
        BY DEF Lock, WakeupsQuietly
    <2>2. Waker(e)' = Waker(e)
        OBVIOUS
    <2>3. Waking(Waker(e)) = 1 => Waking(Waker(e))' = 1
        BY DEF WakeupsQuietly, Waking, Waker
    <2>4. Waking(Waker(e)) \in {0, 1} /\ Waking(Waker(e))' \in {0, 1}
        BY DEF Waking
    <2> QED BY <1>1, <1>2, <2>1, <2>3, <2>4 DEF Owed, ServedTyped
<1>7. Wanted(e)' + Owed(e) <= (Wanted(e) + Owed(e)') + 0
    BY <1>1, <1>2, <1>5, <1>6 DEF ServedTyped
<1> QED BY <1>1, <1>3, <1>4, <1>7, ServedBy

(* The frames after a step of the clock or of the kernel.                   *)
LEMMA FramesAged ==
    ASSUME QueueInv, KernelOnly \/ Tick
    PROVE  \A u \in Tasks : SameCall(frame[u], frame'[u])
<1>1. frame \in [Tasks -> Frames \cup {NULL}]
    BY Kept
<1>2. PICK ticked \in BOOLEAN : frame' = [t \in Tasks |-> Aged(frame[t], ticked)]
    BY DEF KernelOnly, Tick
<1> QED BY <1>1, <1>2, AgedIt

(* A wakeup of the head of an event list, or of a delayed task.             *)
LEMMA EventLeft ==
    ASSUME QueueInv, NEW x \in Tasks, xEventLists' = EventRemoved(x)
    PROVE  \A u \in Tasks : \A e \in EventLists : In(u, xEventLists'[e]) => In(u, xEventLists[e])
BY EventNames, EventRemovedIt, Typed DEF QueueInv, EventsGood

(* The kernel itself takes nobody's wakeup away.                            *)
LEMMA KernelQuietly ==
    ASSUME QueueInv, QueueInv', KernelOnly
    PROVE  WakeupsQuietly
<1>1. /\ KernelStep /\ \A u \in Tasks : SameCall(frame[u], frame'[u])
      /\ UNCHANGED <<uxMessagesWaiting, xTxLock, xRxLock>>
    BY FramesAged DEF KernelOnly, storage, locks
<1>2. /\ pc \in [Tasks -> PcNames] /\ ret \in [Tasks -> {"user", "top"}] /\ pxCurrentTCB \in Tasks
      /\ \A t \in Tasks \ {pxCurrentTCB} : pc[t] \notin {"inherit", "place", "wakeSender", "wakeReceiver"}
    BY Kept DEF QueueInv, Control, SwitchedOut
<1> DEFINE Places == /\ \A u \in Tasks : pc[u] \notin GoingToWait => pc'[u] \notin GoingToWait
                     /\ \A u \in Tasks : pc[u] \in {"wakeSender", "wakeReceiver"} => pc'[u] = pc[u]
                     /\ \/ pc'[pxCurrentTCB'] \notin {"inherit", "place"}
                        \/ UNCHANGED <<pc, pxCurrentTCB>>
           Shrinks == \A u \in Tasks : \A e \in EventLists : In(u, xEventLists'[e]) => In(u, xEventLists[e])
<1>3. Places /\ Shrinks => WakeupsQuietly
    <2> SUFFICES ASSUME Places, Shrinks PROVE WakeupsQuietly
        OBVIOUS
    <2>1. \/ pc'[pxCurrentTCB'] \notin {"inherit", "place"}
          \/ UNCHANGED <<pc, pxCurrentTCB>> /\ SameCall(frame[pxCurrentTCB], frame'[pxCurrentTCB])
        BY <1>1, <1>2
    <2> QED BY <1>1, <2>1 DEF WakeupsQuietly
<1>4. UNCHANGED xEventLists => Shrinks
    OBVIOUS
<1>5. ASSUME NEW t \in Tasks, NEW at, pxCurrentTCB = t, pc' = [pc EXCEPT ![t] = at],
             at \notin GoingToWait, pc[t] \notin {"wakeSender", "wakeReceiver"},
             pxCurrentTCB' \in Tasks
      PROVE  Places
    <2>1. \A u \in Tasks : pc'[u] = IF u = t THEN at ELSE pc[u]
        BY <1>2, <1>5
    <2>2. at \notin {"inherit", "place"}
        BY <1>5 DEF GoingToWait
    <2> QED BY <1>2, <1>5, <2>1, <2>2
<1>6. UNCHANGED <<pc, pxCurrentTCB>> => Places
    OBVIOUS
<1>7. CASE prvCheckDelayedTasks
    <2>1. Places
        BY <1>6, <1>7 DEF prvCheckDelayedTasks, calls
    <2>2. CASE UNCHANGED xEventLists
        BY <1>3, <1>4, <2>1, <2>2
    <2>3. CASE ~UNCHANGED xEventLists
        <3> DEFINE d == xLists[DelayedTaskList]
        <3>1. d # <<>> /\ xEventLists' = EventRemoved(Head(d))
            BY <1>7, <2>3 DEF prvCheckDelayedTasks, LeaveEventList, lists
        <3>2. d \in Seq(Tasks)
            BY Typed, ListNames DEF QueueInv
        <3>3. PICK x \in Tasks : x = Head(d)
            BY <3>1, <3>2, HeadIn
        <3>4. Shrinks
            BY <3>1, <3>3, EventLeft
        <3> QED BY <1>3, <2>1, <3>4
    <2> QED BY <2>2, <2>3
<1>8. CASE SwitchContextInISR
    <2>1. /\ inISR /\ vTaskSwitchContext /\ UNCHANGED <<xEventLists, pc>>
          /\ pc[pxCurrentTCB] \notin Masked
        BY <1>8 DEF SwitchContextInISR, calls, QueueInv, Control
    <2>2. pxCurrentTCB' = pxCurrentTCB \/ uxSchedulerSuspended = 0
        BY <2>1 DEF vTaskSwitchContext
    <2>3. uxSchedulerSuspended = 0 => pc[pxCurrentTCB] \notin {"inherit", "place"}
        BY DEF QueueInv, Control, Suspending
    <2>4. pxCurrentTCB' \in Tasks
        BY Kept DEF QueueInv, TypeOK, KernelTypeOK
    <2>5. Places
        BY <1>2, <2>1, <2>2, <2>3, <2>4
    <2> QED BY <1>3, <1>4, <2>1, <2>5
<1>9. ASSUME NEW t \in Tasks,
             \/ vPortYieldProcessor(t) \/ xTaskResumeAll(t) \/ DrainPendingReady(t)
             \/ ReplayMissedTick(t) \/ ResumeAllEnd(t)
      PROVE  WakeupsQuietly
    <2>0. pxCurrentTCB' \in Tasks
        BY DEF QueueInv, TypeOK, KernelTypeOK
    <2>1. CASE vPortYieldProcessor(t)
        <3>1. /\ pxCurrentTCB = t /\ pc[t] \in {"yield", "yieldMasked"}
              /\ pc' = [pc EXCEPT ![t] = ret[t]] /\ UNCHANGED xEventLists
            BY <2>1 DEF vPortYieldProcessor, Running, GoTo
        <3>2. ret[t] \notin GoingToWait
            BY <1>2 DEF GoingToWait
        <3>3. Places
            BY <1>5, <2>0, <3>1, <3>2
        <3> QED BY <1>3, <1>4, <3>1, <3>3
    <2>2. CASE xTaskResumeAll(t) \/ ResumeAllEnd(t)
        <3>1. /\ pxCurrentTCB = t /\ pc[t] \in {"resumeAll", "drain"} /\ UNCHANGED xEventLists
              /\ \/ pc' = [pc EXCEPT ![t] = "drain"] \/ pc' = [pc EXCEPT ![t] = "yieldMasked"]
                 \/ pc' = [pc EXCEPT ![t] = IF yieldAfter[t] THEN "yield" ELSE ret[t]]
            BY <2>2 DEF xTaskResumeAll, ResumeAllEnd, Running, GoTo, ReturnNotYielded, lists
        <3>2. PICK at \in {"drain", "yieldMasked", "yield", "user", "top"} : pc' = [pc EXCEPT ![t] = at]
            <4>1. ret[t] \in {"user", "top"}
                BY <1>2
            <4>2. (IF yieldAfter[t] THEN "yield" ELSE ret[t]) \in {"drain", "yieldMasked", "yield", "user", "top"}
                BY <4>1
            <4> QED BY <3>1, <4>2
        <3>3. at \notin GoingToWait
            BY DEF GoingToWait
        <3>4. Places
            BY <1>5, <2>0, <3>1, <3>2, <3>3
        <3> QED BY <1>3, <1>4, <3>1, <3>4
    <2>3. CASE DrainPendingReady(t)
        <3>1. /\ UNCHANGED <<pc, pxCurrentTCB>> /\ xEventLists[PendingReadyList] # <<>>
              /\ xEventLists' = EventRemoved(Head(xEventLists[PendingReadyList]))
            BY <2>3 DEF DrainPendingReady
        <3>2. PICK x \in Tasks : x = Head(xEventLists[PendingReadyList])
            <4>1. xEventLists[PendingReadyList] \in Seq(Tasks)
                BY EventNames, Typed DEF QueueInv
            <4> QED BY <3>1, <4>1, HeadIn
        <3>3. Shrinks
            BY <3>1, <3>2, EventLeft
        <3>4. Places
            BY <1>6, <3>1
        <3> QED BY <1>3, <3>3, <3>4
    <2>4. CASE ReplayMissedTick(t)
        <3>1. UNCHANGED <<pc, pxCurrentTCB, xEventLists>>
            BY <2>4 DEF ReplayMissedTick
        <3>2. Places
            BY <1>6, <3>1
        <3> QED BY <1>3, <1>4, <3>1, <3>2
    <2> QED BY <1>9, <2>1, <2>2, <2>3, <2>4
<1> QED BY <1>1, <1>7, <1>8, <1>9 DEF KernelStep

(* Nor does the API.                                                        *)
LEMMA APIQuietly ==
    ASSUME QueueInv, QueueInv', NEW t \in Tasks, TaskAPI(t)
    PROVE  WakeupsQuietly
<1>1. UNCHANGED <<frame, uxMessagesWaiting, xTxLock, xRxLock>>
    BY DEF TaskAPI, queueVars, storage
<1>2. /\ pxCurrentTCB = t /\ pc[t] \in {"user", "delay"} /\ UNCHANGED <<xEventLists, pxCurrentTCB>>
      /\ \/ pc' = [pc EXCEPT ![t] = "delay"] \/ pc' = [pc EXCEPT ![t] = "yield"]
         \/ pc' = [pc EXCEPT ![t] = "resumeAll"] \/ pc' = [pc EXCEPT ![t] = "yieldMasked"]
         \/ pc' = [pc EXCEPT ![t] = "user"]
    <2>1. CASE DelayStart(t)
        BY <2>1 DEF DelayStart, Caller, Running, GoTo, lists
    <2>2. ASSUME NEW n \in Delays, vTaskDelay(t, n)
          PROVE /\ pxCurrentTCB = t /\ pc[t] \in {"user", "delay"} /\ UNCHANGED <<xEventLists, pxCurrentTCB>>
                /\ pc' = [pc EXCEPT ![t] = "yield"] \/ pc' = [pc EXCEPT ![t] = "resumeAll"]
        BY <2>2 DEF vTaskDelay, Caller, Running, GoTo, CallResumeAll, YieldIf, ReturnVia, lists
    <2>3. ASSUME NEW x, NEW p, vTaskPrioritySet(t, x, p)
          PROVE /\ pxCurrentTCB = t /\ pc[t] \in {"user", "delay"} /\ UNCHANGED <<xEventLists, pxCurrentTCB>>
                /\ pc' = [pc EXCEPT ![t] = "yieldMasked"] \/ pc' = [pc EXCEPT ![t] = "user"]
        BY <2>3 DEF vTaskPrioritySet, Caller, Running, GoTo, YieldMaskedIf, ReturnVia
    <2> QED BY <2>1, <2>2, <2>3 DEF TaskAPI
<1>3. PICK at \in {"delay", "yield", "resumeAll", "yieldMasked", "user"} : pc' = [pc EXCEPT ![t] = at]
    BY <1>2
<1>4. /\ at \notin GoingToWait /\ pc[t] \notin {"wakeSender", "wakeReceiver"}
      /\ \A u \in Tasks : pc'[u] = IF u = t THEN at ELSE pc[u]
    BY <1>2, <1>3, Kept DEF GoingToWait
<1>5. pc'[pxCurrentTCB'] \notin {"inherit", "place"}
    BY <1>2, <1>4 DEF GoingToWait
<1>6. \A u \in Tasks : SameCall(frame[u], frame'[u])
    BY <1>1 DEF SameCall
<1> QED BY <1>1, <1>2, <1>4, <1>5, <1>6 DEF WakeupsQuietly

(* The places a task goes to when it is not about to wait.                  *)
LEMMA WakeupsCall ==
    ASSUME QueueInv, QueueInv', Wakeups, NEW t \in Tasks, pxCurrentTCB = t, pxCurrentTCB' = t,
           NEW at, pc' = [pc EXCEPT ![t] = at], at \notin {"inherit", "place"},
           at \notin GoingToWait \/ pc[t] \in GoingToWait, pc[t] \notin {"wakeSender", "wakeReceiver"},
           \A u \in Tasks \ {t} : frame'[u] = frame[u],
           frame[t] # NULL /\ pc[t] \notin GoingToWait => frame'[t] = frame[t],
           Counted(xTxLock)' = Counted(xTxLock), Counted(xRxLock)' = Counted(xRxLock),
           UNCHANGED <<uxMessagesWaiting, xEventLists>>
    PROVE  Wakeups'
<1>1. \A u \in Tasks : pc'[u] = IF u = t THEN at ELSE pc[u]
    BY Kept
<1>2. \A u \in Tasks : frame[u] # NULL /\ pc[u] \notin GoingToWait =>
          SameCall(frame[u], frame'[u]) /\ pc'[u] \notin GoingToWait
    BY <1>1 DEF SameCall
<1>3. WakeupsQuietly
    BY <1>1, <1>2 DEF WakeupsQuietly
<1> QED BY <1>3, WakeupsQuiet

(* A task that does not run comes for what it came for.                     *)
LEMMA OthersCome ==
    ASSUME QueueInv, NEW t \in Tasks, NEW e \in EventLists,
           \A u \in Tasks \ {t} : frame'[u] = frame[u] /\ pc'[u] = pc[u],
           \A u \in Tasks \ {t} : \A f \in EventLists : In(u, xEventLists'[f]) => In(u, xEventLists[f])
    PROVE  /\ Coming(e) \ {t} \subseteq Coming(e)'
           /\ t \notin Coming(e) => Coming(e) \subseteq Coming(e)'
<1>1. ASSUME NEW u \in Coming(e), u # t PROVE u \in Coming(e)'
    BY <1>1 DEF Coming, IsSend
<1> QED BY <1>1

(* A successful send, receive or peek: task t, of those that wait in a,     *)
(* goes on its way and is about to wake a task that waits in b, if one does.*)
Succeeds(t, a, b) ==
    /\ pxCurrentTCB = t /\ pc[t] = "top" /\ UNCHANGED <<pxCurrentTCB, xEventLists, xTxLock, xRxLock>>
    /\ frame[t] # NULL /\ IsSend(t) = (a = Waiting.send)
    /\ frame' = [frame EXCEPT ![t] = NULL]
    /\ \E at \in {"user", "taken"} :
           pc' = [pc EXCEPT ![t] = IF xEventLists[b] # <<>> THEN Waker(b) ELSE at]
    /\ IF a = b THEN UNCHANGED uxMessagesWaiting
       ELSE uxMessagesWaiting' = IF a = Waiting.send THEN uxMessagesWaiting + 1 ELSE uxMessagesWaiting - 1

(* A call that succeeds takes what it was coming for and leaves one more    *)
(* for the other side, which it wakes.                                      *)
LEMMA WakeupsSucceed ==
    ASSUME QueueInv, QueueInv', Wakeups, NEW t \in Tasks, NEW a \in EventLists, NEW b \in EventLists,
           Succeeds(t, a, b)
    PROVE  Wakeups'
<1> SUFFICES ASSUME NEW e \in EventLists PROVE Served(e)'
    BY DEF Wakeups
<1>1. Served(e) /\ ServedTyped(e) /\ ServedTyped(e)'
    BY ServedFacts, ServedFactsNext DEF Wakeups
<1>2. PICK at \in {"user", "taken"} :
          pc' = [pc EXCEPT ![t] = IF xEventLists[b] # <<>> THEN Waker(b) ELSE at]
    BY DEF Succeeds
<1>3. /\ pxCurrentTCB = t /\ pxCurrentTCB' = t /\ pc[t] = "top"
      /\ pc'[t] = IF xEventLists[b] # <<>> THEN Waker(b) ELSE at
      /\ \A u \in Tasks \ {t} : frame'[u] = frame[u] /\ pc'[u] = pc[u]
      /\ UNCHANGED <<xEventLists, xTxLock, xRxLock>>
      /\ Waker(b) \in {"wakeSender", "wakeReceiver"}
    BY <1>2, Kept DEF Succeeds, Waker
<1>4. pc'[t] \notin {"inherit", "place"}
    BY <1>3
<1>5. Expecting(e)' => Expecting(e) /\ xEventLists[e] # <<>>
    BY <1>3, <1>4 DEF Expecting
<1> DEFINE k == IF e = a THEN -1 ELSE 0
<1>6. Cardinality(Coming(e)') >= Cardinality(Coming(e)) + k
    <2>1. e # a => t \notin Coming(e)
        BY EventNames DEF Coming, Succeeds
    <2>2. /\ Coming(e) \ {t} \subseteq Coming(e)'
          /\ t \notin Coming(e) => Coming(e) \subseteq Coming(e)'
        BY <1>3, OthersCome
    <2> QED BY <1>1, <2>1, <2>2, CountsGrow DEF ServedTyped
<1>7. CASE e = b /\ xEventLists[b] = <<>>
    BY <1>5, <1>7 DEF Served
<1>8. CASE ~(e = b /\ xEventLists[b] = <<>>)
    <2>1. Owed(e)' = Owed(e) + IF e = b THEN 1 ELSE 0
        <3>1. Lock(e)' = Lock(e) /\ Waker(e)' = Waker(e) /\ Waker(e) \in {"wakeSender", "wakeReceiver"}
            BY <1>3 DEF Lock, Waker
        <3>2. pc'[t] = Waker(e) <=> e = b
            BY <1>3, <1>8, EventNames DEF Waker
        <3>3. Owed(e) = Counted(Lock(e)) + 0
            BY <1>1, <1>3, <3>1 DEF ServedTyped
        <3>4. Owed(e)' = Counted(Lock(e)) + IF pc'[t] = Waker(e) THEN 1 ELSE 0
            BY <1>1, <1>3, <3>1 DEF ServedTyped
        <3> QED BY <3>2, <3>3, <3>4, <1>1 DEF ServedTyped
    <2>2. Wanted(e)' = Wanted(e) + (IF a = b THEN 0 ELSE IF e = a THEN -1 ELSE 1)
        <3>1. uxMessagesWaiting \in Nat /\ uxLength \in Nat
            BY Typed DEF QueueInv
        <3>2. CASE a = b
            BY <3>1, <3>2 DEF Succeeds, Wanted
        <3>3. CASE a # b
            BY <3>1, <3>3, EventNames DEF Succeeds, Wanted
        <3> QED BY <3>2, <3>3
    <2>3. e = a \/ e = b \/ a = b
        BY EventNames
    <2>4. k \in Int /\ Wanted(e)' + Owed(e) <= (Wanted(e) + Owed(e)') + k
        <3>1. Wanted(e) \in Nat /\ Owed(e) \in Nat
            BY <1>1 DEF ServedTyped
        <3> QED BY <2>1, <2>2, <2>3, <3>1
    <2> HIDE DEF k
    <2> QED BY <1>1, <1>5, <1>6, <2>4, ServedBy
<1> QED BY <1>7, <1>8

(* A task that finds nothing to receive, or no room, gives up or goes on to *)
(* wait.                                                                    *)
LEMMA WakeupsFail ==
    ASSUME QueueInv, QueueInv', Wakeups, NEW t \in Tasks, NEW a \in EventLists,
           pxCurrentTCB = t, pxCurrentTCB' = t, IsSend(t) = (a = Waiting.send), Wanted(a) = 0,
           NEW at, pc' = [pc EXCEPT ![t] = at], at \notin {"wakeSender", "wakeReceiver"},
           pc[t] \notin {"wakeSender", "wakeReceiver"},
           \A u \in Tasks \ {t} : frame'[u] = frame[u],
           at \in {"inherit", "place"} => frame'[t] = frame[t],
           UNCHANGED <<uxMessagesWaiting, xTxLock, xRxLock, xEventLists>>
    PROVE  Wakeups'
<1> SUFFICES ASSUME NEW e \in EventLists PROVE Served(e)'
    BY DEF Wakeups
<1>1. Served(e) /\ ServedTyped(e) /\ ServedTyped(e)'
    BY ServedFacts, ServedFactsNext DEF Wakeups
<1>2. Wanted(e)' = Wanted(e)
    BY DEF Wanted
<1>3. CASE e = a
    BY <1>1, <1>2, <1>3 DEF Served, ServedTyped
<1>4. CASE e # a
    <2>1. \A u \in Tasks : pc'[u] = IF u = t THEN at ELSE pc[u]
        BY Kept
    <2>2. Expecting(e)' => Expecting(e)
        BY <1>4, <2>1, EventNames DEF Expecting, IsSend
    <2>3. Cardinality(Coming(e)') >= Cardinality(Coming(e)) + 0
        <3>1. t \notin Coming(e)
            BY <1>4, EventNames DEF Coming
        <3>2. Coming(e) \subseteq Coming(e)'
            BY <2>1, <3>1, OthersCome
        <3> QED BY <1>1, <3>2, CountsGrow DEF ServedTyped
    <2>4. Owed(e)' = Owed(e)
        <3>1. Lock(e)' = Lock(e) /\ Waker(e)' = Waker(e) /\ Waker(e) \in {"wakeSender", "wakeReceiver"}
            BY DEF Lock, Waker
        <3> QED BY <1>1, <2>1, <3>1 DEF ServedTyped
    <2>5. Wanted(e)' + Owed(e) <= (Wanted(e) + Owed(e)') + 0
        BY <1>1, <1>2, <2>4 DEF ServedTyped
    <2> QED BY <1>1, <2>2, <2>3, <2>5, ServedBy
<1> QED BY <1>3, <1>4

(* A task that has left the event lists comes for the message, or the slot, *)
(* it waited for.                                                           *)
LEMMA WaiterComes ==
    ASSUME QueueInv, NEW e \in EventLists, NEW x \in Tasks, In(x, xEventLists[e]),
           frame'[x] = frame[x], pc'[x] = pc[x], \A f \in EventLists : ~In(x, xEventLists'[f])
    PROVE  x \notin Coming(e) /\ x \in Coming(e)'
<1>1. frame[x] # NULL /\ IsSend(x) = (e = Waiting.send) /\ pc[x] \notin GoingToWait
    BY DEF QueueInv, Waiters, Leaving, GoingToWait
<1> QED BY <1>1 DEF Coming, IsSend

(* xTaskRemoveFromEventList sends the head of the list on its way, also     *)
(* when it is only noted.                                                   *)
LEMMA HeadComes ==
    ASSUME QueueInv, NEW t \in Tasks, pxCurrentTCB = t,
           NEW e \in EventLists, xEventLists[e] # <<>>, xTaskRemoveFromEventList(e),
           \A u \in Tasks \ {t} : frame'[u] = frame[u] /\ pc'[u] = pc[u],
           pc[t] \in Leaving => frame'[t] = frame[t] /\ pc'[t] = pc[t]
    PROVE  /\ \E x \in Tasks : x \notin Coming(e) /\ x \in Coming(e)'
           /\ \A u \in Tasks : \A f \in EventLists : In(u, xEventLists'[f]) => In(u, xEventLists[f])
<1>1. xEventLists[e] \in Seq(Tasks)
    BY EventNames, Typed DEF QueueInv
<1>2. PICK x \in Tasks : x = Head(xEventLists[e]) /\ In(x, xEventLists[e])
    BY <1>1, HeadIn
<1>3. /\ EventRemoved(x) \in [ItemLists -> Seq(Tasks)]
      /\ \A f \in ItemLists : \A u \in Tasks :
            In(u, EventRemoved(x)[f]) <=> u # x /\ In(u, xEventLists[f])
    BY EventRemovedIt, Typed DEF QueueInv, EventsGood
<1>4. \/ xEventLists' = EventRemoved(x)
      \/ xEventLists' = [EventRemoved(x) EXCEPT ![PendingReadyList] =
                             Append(EventRemoved(x)[PendingReadyList], x)]
    BY <1>2 DEF xTaskRemoveFromEventList
<1>5. \A f \in EventLists : xEventLists'[f] = EventRemoved(x)[f]
    BY <1>3, <1>4, EventNames
<1>6. \A u \in Tasks : \A f \in EventLists : In(u, xEventLists'[f]) <=> u # x /\ In(u, xEventLists[f])
    BY <1>3, <1>5, EventNames
<1>7. x = t => pc[t] \in Leaving
    BY <1>2, EventNames, CurrentReady
<1>8. x \notin Coming(e) /\ x \in Coming(e)'
    BY <1>2, <1>6, <1>7, WaiterComes
<1> QED BY <1>6, <1>8

(* The critical section that wakes a task.                                  *)
LEMMA WakeupsWake ==
    ASSUME QueueInv, QueueInv', Wakeups, NEW t \in Tasks, WakeWaiter(t)
    PROVE  Wakeups'
<1>1. PICK b \in {Waiting.send, Waiting.receive} :
          /\ Running(t, IF b = Waiting.receive THEN "wakeReceiver" ELSE "wakeSender")
          /\ xTaskRemoveFromEventList(b) /\ YieldMaskedIf(t, HeadOutranksCurrent(b))
          /\ UNCHANGED <<calm, queueVars>>
    BY DEF WakeWaiter
<1>2. /\ pxCurrentTCB = t /\ pc[t] = Waker(b) /\ pc[t] \in {"wakeSender", "wakeReceiver"} /\ b \in EventLists
      /\ UNCHANGED <<pxCurrentTCB, frame, uxMessagesWaiting, xTxLock, xRxLock>>
    BY <1>1, EventNames DEF Running, Waker, calm, queueVars, storage
<1>3. \A u \in Tasks : pc'[u] = IF u = t THEN (IF HeadOutranksCurrent(b) THEN "yieldMasked" ELSE "user") ELSE pc[u]
    BY <1>1, Kept DEF YieldMaskedIf, ReturnVia, GoTo
<1>4. pc'[t] \in {"yieldMasked", "user"} /\ \A u \in Tasks \ {t} : pc'[u] = pc[u] /\ frame'[u] = frame[u]
    BY <1>2, <1>3
<1>5. xEventLists[b] # <<>>
    BY <1>2, EventNames DEF QueueInv, Locking, Waker
<1>6. pc[t] \notin Leaving /\ pc[t] \notin {"inherit", "place"} /\ frame[t] = NULL
    BY <1>2, Kept DEF Leaving, QueueInv, Framed, InLoop, GoingToWait
<1>7. PICK x \in Tasks : x \notin Coming(b) /\ x \in Coming(b)'
    BY <1>1, <1>2, <1>4, <1>5, <1>6, HeadComes
<1>8. \A u \in Tasks : \A f \in EventLists : In(u, xEventLists'[f]) => In(u, xEventLists[f])
    BY <1>1, <1>2, <1>4, <1>5, <1>6, HeadComes
<1> SUFFICES ASSUME NEW e \in EventLists PROVE Served(e)'
    BY DEF Wakeups
<1>9. Served(e) /\ ServedTyped(e) /\ ServedTyped(e)'
    BY ServedFacts, ServedFactsNext DEF Wakeups
<1>10. Expecting(e)' => Expecting(e)
    <2>1. xEventLists'[e] # <<>> => xEventLists[e] # <<>>
        BY <1>8, ListShrinks
    <2> QED BY <1>2, <1>4, <2>1 DEF Expecting
<1> DEFINE k == IF e = b THEN 1 ELSE 0
<1>11. Cardinality(Coming(e)') >= Cardinality(Coming(e)) + k
    <2>1. t \notin Coming(e)
        BY <1>6 DEF Coming
    <2>2. Coming(e) \subseteq Coming(e)'
        BY <1>4, <1>8, <2>1, OthersCome
    <2>3. CASE e = b
        <3>1. x \in Tasks \ Coming(e) /\ Coming(e) \cup {x} \subseteq Coming(e)'
            BY <1>7, <2>2, <2>3
        <3>2. Coming(e) \in SUBSET Tasks /\ Coming(e)' \in SUBSET Tasks
            BY <1>9 DEF ServedTyped
        <3> QED BY <2>3, <3>1, <3>2, CountsGrow
    <2>4. CASE e # b
        BY <1>9, <2>2, <2>4, CountsGrow DEF ServedTyped
    <2> QED BY <2>3, <2>4
<1>12. Wanted(e)' = Wanted(e)
    BY <1>2 DEF Wanted
<1>13. Owed(e) = Owed(e)' + k
    <2>1. Lock(e)' = Lock(e) /\ Waker(e)' = Waker(e) /\ Waker(e) \in {"wakeSender", "wakeReceiver"}
        BY <1>2 DEF Lock, Waker
    <2>2. pc[t] = Waker(e) <=> e = b
        BY <1>2, EventNames DEF Waker
    <2> QED BY <1>2, <1>4, <1>9, <2>1, <2>2 DEF ServedTyped
<1>14. k \in Int /\ Wanted(e)' + Owed(e) <= (Wanted(e) + Owed(e)') + k
    BY <1>9, <1>12, <1>13 DEF ServedTyped
<1> HIDE DEF k
<1> QED BY <1>9, <1>10, <1>11, <1>14, ServedBy

(* A task goes to wait only where it has looked.                            *)
LEMMA WakeupsBlock ==
    ASSUME QueueInv, QueueInv', Wakeups, NEW t \in Tasks, Block(t)
    PROVE  Wakeups'
<1>1. PICK a \in EventLists : a = IF IsSend(t) THEN Waiting.send ELSE Waiting.receive
    BY EventNames
<1>2. /\ pxCurrentTCB = t /\ pc[t] = "place" /\ pc' = [pc EXCEPT ![t] = "unlockTx"]
      /\ xEventLists' = [xEventLists EXCEPT ![a] = InsertByValue(xEventLists[a], t, xEventValue)]
      /\ UNCHANGED <<pxCurrentTCB, frame, uxMessagesWaiting, xTxLock, xRxLock>>
    BY <1>1 DEF Block, vTaskPlaceOnEventList, Running, GoTo, queueVars, storage
<1>3. \A u \in Tasks : pc'[u] = IF u = t THEN "unlockTx" ELSE pc[u]
    BY <1>2, Kept
<1>4. /\ a \in ItemLists /\ xEventLists \in [ItemLists -> Seq(Tasks)]
      /\ xEventLists[a] \in Seq(Tasks) /\ Once(xEventLists[a]) /\ ~In(t, xEventLists[a])
      /\ xEventValue \in [Tasks -> Nat]
    <2>1. ~In(t, xEventLists[a])
        BY <1>2, EventNames, CurrentReady DEF Leaving
    <2>2. xEventValue \in [Tasks -> 1..configMAX_PRIORITIES] /\ configMAX_PRIORITIES \in Nat
        BY Typed, KernelAssumption DEF QueueInv, KernelAssumption
    <2>3. xEventValue \in [Tasks -> Nat]
        BY <2>2
    <2> QED BY <2>1, <2>3, EventNames, Typed DEF QueueInv, EventsGood
<1>5. PICK r : r = InsertByValue(xEventLists[a], t, xEventValue)
    OBVIOUS
<1>6. \A u \in Tasks : In(u, r) <=> u = t \/ In(u, xEventLists[a])
    BY <1>4, <1>5, InsertIt
<1>7. \A f \in EventLists : xEventLists'[f] = IF f = a THEN r ELSE xEventLists[f]
    BY <1>2, <1>4, <1>5, EventNames
<1>8. \A u \in Tasks \ {t} : \A f \in EventLists : In(u, xEventLists'[f]) => In(u, xEventLists[f])
    BY <1>6, <1>7
<1> SUFFICES ASSUME NEW e \in EventLists PROVE Served(e)'
    BY DEF Wakeups
<1>9. Served(e) /\ ServedTyped(e) /\ ServedTyped(e)'
    BY ServedFacts, ServedFactsNext DEF Wakeups
<1>10. Expecting(e)' => Expecting(e)
    <2>1. pc'[t] \notin {"inherit", "place"}
        BY <1>3
    <2>2. CASE e = a
        <3>1. IsSend(t) = (a = Waiting.send)
            BY <1>1, EventNames DEF IsSend
        <3> QED BY <1>2, <2>2, <3>1 DEF Expecting
    <2>3. CASE e # a
        BY <1>2, <1>7, <2>1, <2>3 DEF Expecting
    <2> QED BY <2>2, <2>3
<1>11. Cardinality(Coming(e)') >= Cardinality(Coming(e)) + 0
    <2>1. t \notin Coming(e)
        BY <1>2 DEF Coming, GoingToWait
    <2>2. Coming(e) \subseteq Coming(e)'
        BY <1>2, <1>3, <1>8, <2>1, OthersCome
    <2> QED BY <1>9, <2>2, CountsGrow DEF ServedTyped
<1>12. Wanted(e)' = Wanted(e)
    BY <1>2 DEF Wanted
<1>13. Owed(e)' = Owed(e)
    <2>1. Lock(e)' = Lock(e) /\ Waker(e)' = Waker(e) /\ Waker(e) \in {"wakeSender", "wakeReceiver"}
        BY <1>2 DEF Lock, Waker
    <2> QED BY <1>2, <1>3, <1>9, <2>1 DEF ServedTyped
<1>14. Wanted(e)' + Owed(e) <= (Wanted(e) + Owed(e)') + 0
    BY <1>9, <1>12, <1>13 DEF ServedTyped
<1> QED BY <1>9, <1>10, <1>11, <1>14, ServedBy

(* The first n tasks of a list are n tasks.                                 *)
LEMMA FirstAre ==
    ASSUME NEW s \in Seq(Tasks), Once(s), NEW n \in Nat, n <= Len(s)
    PROVE  IsFiniteSet({s[m] : m \in 1..n}) /\ Cardinality({s[m] : m \in 1..n}) = n
<1> DEFINE T == {s[m] : m \in 1..n}
           f == [m \in 1..n |-> s[m]]
<1>1. f \in Bijection(1..n, T)
    <2>1. f \in [1..n -> T]
        OBVIOUS
    <2>2. \A i, j \in 1..n : f[i] = f[j] => i = j
        <3>1. \A i \in 1..n : i \in DOMAIN s
            OBVIOUS
        <3> QED BY <3>1 DEF Once
    <2>3. \A x \in T : \E i \in 1..n : f[i] = x
        OBVIOUS
    <2> HIDE DEF f, T
    <2> QED BY <2>1, <2>2, <2>3 DEF Bijection, Injection, Surjection, IsInjective
<1>2. IsFiniteSet(1..n) /\ Cardinality(1..n) = n
    <2>1. 1 \in Int /\ n \in Int
        OBVIOUS
    <2>2. IsFiniteSet(1..n) /\ Cardinality(1..n) = IF 1 > n THEN 0 ELSE n - 1 + 1
        BY <2>1, FS_Interval
    <2> QED BY <2>2
<1> HIDE DEF T, f
<1>3. ExistsBijection(1..n, T)
    BY <1>1 DEF ExistsBijection
<1>4. IsFiniteSet(T) /\ Cardinality(T) = n
    BY <1>2, <1>3, FS_Bijection
<1> QED BY <1>4 DEF T

(* prvUnlockQueue sends one waiting task on its way for every message, or   *)
(* slot, that came while the queue was locked, as long as there is one.     *)
LEMMA LockedCome ==
    ASSUME QueueInv, NEW e \in EventLists, NEW lock \in Nat, WakeForLocked(e, lock), NEW t \in Tasks,
           pc[t] \in Leaving, pc'[t] \in Leaving,
           UNCHANGED frame, \A u \in Tasks \ {t} : pc'[u] = pc[u],
           xEventLists'[e] # <<>>,
           Coming(e) \in SUBSET Tasks, Coming(e)' \in SUBSET Tasks
    PROVE  Cardinality(Coming(e)') >= Cardinality(Coming(e)) + lock
<1> DEFINE s == xEventLists[e]
           n == IF lock > Len(s) THEN Len(s) ELSE lock
           T == {s[m] : m \in 1..n}
<1>1. /\ e \in ItemLists /\ e # PendingReadyList /\ PendingReadyList \in ItemLists
      /\ s \in Seq(Tasks) /\ Once(s) /\ Len(s) \in Nat /\ DOMAIN s = 1..Len(s)
      /\ xEventLists \in [ItemLists -> Seq(Tasks)]
    <2>1. e \in ItemLists /\ e # PendingReadyList /\ PendingReadyList \in ItemLists
        BY EventNames
    <2>2. xEventLists \in [ItemLists -> Seq(Tasks)] /\ Once(xEventLists[e])
        BY <2>1, Typed DEF QueueInv, EventsGood
    <2> QED BY <2>1, <2>2
<1>2. n \in Nat /\ n <= Len(s)
    BY <1>1
<1>3. n = 0 => UNCHANGED xEventLists
    <2>1. ~(n > 0) => UNCHANGED <<xEventLists, xMissedYield>>
        BY Zenon DEF WakeForLocked
    <2>2. n = 0 => ~(n > 0)
        OBVIOUS
    <2> HIDE DEF n, s
    <2> QED BY <2>1, <2>2
<1>4. n > 0 => xEventLists' = [xEventLists EXCEPT ![e] = SubSeq(s, n + 1, Len(s)),
                  ![PendingReadyList] = xEventLists[PendingReadyList] \o SubSeq(s, 1, n)]
    BY DEF WakeForLocked
<1>5. n > 0 => /\ xEventLists'[e] = SubSeq(s, n + 1, Len(s))
               /\ \A f \in EventLists \ {e} : xEventLists'[f] = xEventLists[f]
    <2> HIDE DEF n, s
    <2> QED BY <1>1, <1>4, EventNames
<1>6. n = lock
    <2>1. CASE n > 0
        <3>1. n = Len(s) => SubSeq(s, n + 1, Len(s)) = <<>>
            <4> HIDE DEF n, s
            <4> QED BY <1>1, <1>2
        <3> QED BY <1>1, <1>2, <1>5, <2>1, <3>1
    <2>2. CASE n = 0
        <3>1. s # <<>>
            BY <1>3, <2>2
        <3>2. Len(s) > 0
            BY <1>1, <3>1
        <3> QED BY <2>2, <3>2
    <2> QED BY <1>2, <2>1, <2>2
<1>7. ASSUME NEW m \in 1..n
      PROVE  /\ s[m] \in Tasks /\ In(s[m], s)
             /\ \A f \in EventLists : ~In(s[m], xEventLists'[f])
    <2>1. m \in DOMAIN s /\ n > 0 /\ m \in Nat /\ m <= n
        BY <1>1, <1>2
    <2>2. s[m] \in Tasks /\ In(s[m], s)
        BY <1>1, <2>1 DEF In
    <2>3. \A f \in EventLists \ {e} : ~In(s[m], xEventLists'[f])
        BY <1>5, <2>1, <2>2, EventNames DEF QueueInv, EventsGood
    <2>4. ASSUME In(s[m], xEventLists'[e]) PROVE FALSE
        <3>1. PICK i \in DOMAIN SubSeq(s, n + 1, Len(s)) : SubSeq(s, n + 1, Len(s))[i] = s[m]
            BY <1>5, <2>1, <2>4 DEF In
        <3>2. i \in 1..(Len(s) - n) /\ s[i + n] = s[m]
            <4> HIDE DEF n, s
            <4>1. /\ DOMAIN SubSeq(s, n + 1, Len(s)) = 1..(Len(s) - n)
                  /\ \A j \in 1..(Len(s) - n) : SubSeq(s, n + 1, Len(s))[j] = s[j + n]
                BY <1>1, <1>2
            <4> QED BY <3>1, <4>1
        <3>3. i + n \in DOMAIN s /\ i + n # m
            BY <1>1, <1>2, <2>1, <3>2
        <3> QED BY <1>1, <2>1, <3>2, <3>3 DEF Once
    <2> QED BY <2>2, <2>3, <2>4
<1>8. \A u \in Tasks : \A f \in EventLists : In(u, xEventLists'[f]) => In(u, xEventLists[f])
    BY WokenForLocked
<1> HIDE DEF n
<1>9. T \subseteq Coming(e)' /\ T \cap Coming(e) = {}
    <2> SUFFICES ASSUME NEW m \in 1..n PROVE s[m] \notin Coming(e) /\ s[m] \in Coming(e)'
        OBVIOUS
    <2>1. PICK x \in Tasks : x = s[m]
        BY <1>7
    <2>2. /\ In(x, xEventLists[e]) /\ \A f \in EventLists : ~In(x, xEventLists'[f])
        BY <1>7, <2>1
    <2>3. x \notin Coming(e)
        BY <2>2 DEF Coming
    <2>4. frame[x] # NULL /\ IsSend(x) = (e = Waiting.send) /\ pc[x] \notin GoingToWait
        BY <2>2 DEF QueueInv, Waiters, Leaving, GoingToWait
    <2>5. pc'[x] \notin GoingToWait
        BY <2>4 DEF Leaving, GoingToWait
    <2>6. x \in Coming(e)'
        BY <2>2, <2>4, <2>5 DEF Coming, IsSend
    <2> QED BY <2>1, <2>3, <2>6
<1>10. Coming(e) \subseteq Coming(e)'
    <2> SUFFICES ASSUME NEW u \in Coming(e) PROVE u \in Coming(e)'
        OBVIOUS
    <2>1. u \in Tasks /\ pc'[u] \notin GoingToWait
        BY DEF Coming, Leaving, GoingToWait
    <2> QED BY <1>8, <2>1 DEF Coming, IsSend
<1>11. IsFiniteSet(T) /\ Cardinality(T) = n
    <2> HIDE DEF s
    <2>1. s \in Seq(Tasks) /\ Once(s) /\ n \in Nat /\ n <= Len(s)
        BY <1>1, <1>2
    <2> QED BY <2>1, FirstAre
<1>12. IsFiniteSet(Coming(e)) /\ IsFiniteSet(Coming(e)')
    BY KernelAssumption, FS_Subset DEF KernelAssumption
<1> HIDE DEF T
<1>13. /\ IsFiniteSet(Coming(e) \cup T)
       /\ Cardinality(Coming(e) \cup T) = Cardinality(Coming(e)) + n
    <2>1. /\ IsFiniteSet(Coming(e) \cup T)
          /\ Cardinality(Coming(e) \cup T) =
                 Cardinality(Coming(e)) + Cardinality(T) - Cardinality(Coming(e) \cap T)
        BY <1>11, <1>12, FS_Union
    <2>2. Cardinality(Coming(e) \cap T) = 0
        BY <1>9, FS_EmptySet
    <2>3. Cardinality(Coming(e)) \in Nat
        BY <1>12, FS_CardinalityType
    <2> QED BY <1>2, <1>11, <2>1, <2>2, <2>3
<1>14. Cardinality(Coming(e) \cup T) <= Cardinality(Coming(e)')
    <2>1. (Coming(e) \cup T) \in SUBSET (Coming(e)')
        BY <1>9, <1>10
    <2> QED BY <1>12, <2>1, FS_Subset
<1>15. Cardinality(Coming(e)) \in Nat /\ Cardinality(Coming(e)') \in Nat
    BY <1>12, FS_CardinalityType
<1> QED BY <1>2, <1>6, <1>13, <1>14, <1>15

(* prvUnlockQueue wakes one task for each thing that happened while the     *)
(* queue was locked, as long as there are tasks to wake (queue.c:1140-1201).*)
LEMMA WakeupsUnlock ==
    ASSUME QueueInv, QueueInv', Wakeups, NEW t \in Tasks, prvUnlockQueue(t)
    PROVE  Wakeups'
<1>1. PICK b \in EventLists :
          /\ pxCurrentTCB = t /\ WakeForLocked(b, Lock(b)) /\ Lock(b) \in Nat
          /\ pc[t] = (IF b = Waiting.receive THEN "unlockTx" ELSE "unlockRx")
          /\ pc' = [pc EXCEPT ![t] = IF b = Waiting.receive THEN "unlockRx" ELSE "resumeAll"]
          /\ Lock(b)' = -1 /\ \A e \in EventLists \ {b} : Lock(e)' = Lock(e)
          /\ UNCHANGED <<pxCurrentTCB, frame, uxMessagesWaiting>>
    <2>1. CASE Running(t, "unlockTx")
        <3>1. /\ pxCurrentTCB = t /\ WakeForLocked(Waiting.receive, xTxLock) /\ xTxLock' = -1
              /\ pc' = [pc EXCEPT ![t] = "unlockRx"]
              /\ UNCHANGED <<pxCurrentTCB, frame, uxMessagesWaiting, xRxLock>>
            BY <2>1 DEF prvUnlockQueue, Running, GoTo, queueUNLOCKED, storage
        <3>2. xTxLock \in Nat
            BY <2>1, <3>1, Kept DEF QueueInv, Locking, Running, queueUNLOCKED
        <3>3. Lock(Waiting.receive) = xTxLock /\ Lock(Waiting.send) = xRxLock
              /\ Lock(Waiting.receive)' = xTxLock' /\ Lock(Waiting.send)' = xRxLock'
            BY EventNames DEF Lock
        <3> QED BY <2>1, <3>1, <3>2, <3>3, EventNames DEF Running
    <2>2. CASE Running(t, "unlockRx")
        <3>1. /\ pxCurrentTCB = t /\ WakeForLocked(Waiting.send, xRxLock) /\ xRxLock' = -1
              /\ pc' = [pc EXCEPT ![t] = "resumeAll"]
              /\ UNCHANGED <<pxCurrentTCB, frame, uxMessagesWaiting, xTxLock>>
            BY <2>2 DEF prvUnlockQueue, Running, GoTo, queueUNLOCKED, storage
        <3>2. xRxLock \in Nat
            BY <2>2, <3>1, Kept DEF QueueInv, Locking, Running, queueUNLOCKED
        <3>3. Lock(Waiting.receive) = xTxLock /\ Lock(Waiting.send) = xRxLock
              /\ Lock(Waiting.receive)' = xTxLock' /\ Lock(Waiting.send)' = xRxLock'
            BY EventNames DEF Lock
        <3> QED BY <2>2, <3>1, <3>2, <3>3, EventNames DEF Running
    <2> QED BY <2>1, <2>2 DEF prvUnlockQueue
<1>2. PICK at \in {"unlockRx", "resumeAll"} : \A u \in Tasks : pc'[u] = IF u = t THEN at ELSE pc[u]
    BY <1>1, Kept
<1>3. \A u \in Tasks : \A f \in EventLists : In(u, xEventLists'[f]) => In(u, xEventLists[f])
    BY <1>1, WokenForLocked
<1>4. pc[t] \in Leaving /\ pc'[t] \in Leaving /\ pc'[t] \notin GoingToWait
      /\ pc[t] \notin {"wakeSender", "wakeReceiver"} /\ pc'[t] \notin {"wakeSender", "wakeReceiver"}
      /\ pc'[t] \notin {"inherit", "place"}
    BY <1>1, <1>2 DEF Leaving, GoingToWait
<1> SUFFICES ASSUME NEW e \in EventLists PROVE Served(e)'
    BY DEF Wakeups
<1>5. Served(e) /\ ServedTyped(e) /\ ServedTyped(e)'
    BY ServedFacts, ServedFactsNext DEF Wakeups
<1>6. Expecting(e)' => Expecting(e) /\ xEventLists'[e] # <<>>
    <2>1. xEventLists'[e] # <<>> => xEventLists[e] # <<>>
        BY <1>3, ListShrinks
    <2> QED BY <1>1, <1>4, <2>1 DEF Expecting
<1>7. SUFFICES ASSUME xEventLists'[e] # <<>> PROVE Served(e)'
    BY <1>6 DEF Served
<1> DEFINE k == IF e = b THEN Lock(b) ELSE 0
<1>8. Cardinality(Coming(e)') >= Cardinality(Coming(e)) + k
    <2>1. CASE e = b
        <3>1. PICK lock \in Nat : lock = Lock(b)
            BY <1>1
        <3>2. WakeForLocked(e, lock) /\ UNCHANGED frame /\ \A u \in Tasks \ {t} : pc'[u] = pc[u]
            BY <1>1, <1>2, <2>1, <3>1
        <3>3. Coming(e) \in SUBSET Tasks /\ Coming(e)' \in SUBSET Tasks
            BY <1>5 DEF ServedTyped
        <3>4. Cardinality(Coming(e)') >= Cardinality(Coming(e)) + lock
            BY <1>4, <1>7, <3>2, <3>3, LockedCome
        <3> QED BY <2>1, <3>1, <3>4
    <2>2. CASE e # b
        <3>1. ASSUME NEW u \in Tasks, u \in Coming(e) PROVE u \in Coming(e)'
            <4>1. SameCall(frame[u], frame'[u]) /\ pc'[u] \notin GoingToWait
                BY <1>1, <1>2, <1>4, <3>1 DEF Coming, SameCall
            <4> QED BY <1>3, <3>1, <4>1, ComesStill
        <3>2. Coming(e) \subseteq Coming(e)'
            BY <3>1 DEF Coming
        <3> QED BY <1>5, <2>2, <3>2, CountsGrow DEF ServedTyped
    <2> QED BY <2>1, <2>2
<1>9. Wanted(e)' = Wanted(e)
    BY <1>1 DEF Wanted
<1>10. Owed(e) = Owed(e)' + k
    <2>1. Waker(e)' = Waker(e) /\ Waker(e) \in {"wakeSender", "wakeReceiver"}
        BY DEF Waker
    <2>2. Owed(e) = Counted(Lock(e)) + 0 /\ Owed(e)' = Counted(Lock(e)') + 0
        BY <1>1, <1>4, <1>5, <2>1 DEF ServedTyped
    <2>3. CASE e = b
        <3>1. Counted(Lock(e)) = Lock(b) /\ Counted(Lock(e)') = 0
            BY <1>1, <2>3 DEF Counted, queueUNLOCKED
        <3> QED BY <1>1, <2>2, <2>3, <3>1
    <2>4. CASE e # b
        <3>1. Lock(e)' = Lock(e)
            BY <1>1, <2>4
        <3> QED BY <1>5, <2>2, <2>4, <3>1 DEF ServedTyped
    <2> QED BY <2>3, <2>4
<1>11. k \in Int /\ Wanted(e)' + Owed(e) <= (Wanted(e) + Owed(e)') + k
    <2>1. k \in Int
        BY <1>1
    <2> QED BY <2>1, <1>5, <1>9, <1>10 DEF ServedTyped
<1> HIDE DEF k
<1> QED BY <1>5, <1>6, <1>8, <1>11, ServedBy

(* An interrupt that moves a message, or frees a slot, wakes a task for it  *)
(* or counts it for the one that holds the lock.                            *)
LEMMA WakeupsFromISR ==
    ASSUME QueueInv, QueueInv', Wakeups, FromISR
    PROVE  Wakeups'
<1>0. uxMessagesWaiting \in Nat /\ uxLength \in Nat
    BY Typed DEF QueueInv
<1>1. PICK b \in EventLists :
          /\ AfterISR(b, Lock(b)) /\ Wanted(b)' = Wanted(b) + 1
          /\ Lock(b)' = (IF Lock(b) = -1 THEN -1 ELSE Lock(b) + 1)
          /\ \A e \in EventLists \ {b} : Lock(e)' = Lock(e) /\ Wanted(e)' = Wanted(e) - 1
          /\ UNCHANGED <<pxCurrentTCB, pc, frame>> /\ pc[pxCurrentTCB] \notin Masked
    <2>0. /\ Lock(Waiting.receive) = xTxLock /\ Lock(Waiting.send) = xRxLock
          /\ Lock(Waiting.receive)' = xTxLock' /\ Lock(Waiting.send)' = xRxLock'
          /\ Wanted(Waiting.receive) = uxMessagesWaiting /\ Wanted(Waiting.send) = uxLength - uxMessagesWaiting
          /\ Wanted(Waiting.receive)' = uxMessagesWaiting'
          /\ Wanted(Waiting.send)' = uxLength - uxMessagesWaiting'
        BY EventNames DEF Lock, Wanted
    <2>1. ASSUME NEW op \in ISROperations \cap SendOps, NEW m \in Messages, xQueueGenericSendFromISR(op, m)
          PROVE  /\ AfterISR(Waiting.receive, xTxLock) /\ uxMessagesWaiting' = uxMessagesWaiting + 1
                 /\ xTxLock' = (IF xTxLock = -1 THEN -1 ELSE xTxLock + 1) /\ xRxLock' = xRxLock
                 /\ UNCHANGED <<pxCurrentTCB, pc, frame>> /\ pc[pxCurrentTCB] \notin Masked
        BY <2>1 DEF xQueueGenericSendFromISR, CopyToBack, CopyToFront, queueUNLOCKED, calls,
                    InterruptsEnabled
    <2>2. ASSUME xQueueReceiveFromISR
          PROVE  /\ AfterISR(Waiting.send, xRxLock) /\ uxMessagesWaiting' = uxMessagesWaiting - 1
                 /\ xRxLock' = (IF xRxLock = -1 THEN -1 ELSE xRxLock + 1) /\ xTxLock' = xTxLock
                 /\ UNCHANGED <<pxCurrentTCB, pc, frame>> /\ pc[pxCurrentTCB] \notin Masked
        BY <2>2 DEF xQueueReceiveFromISR, CopyFrom, queueUNLOCKED, calls, InterruptsEnabled
    <2>3. CASE \E op \in ISROperations \cap SendOps, m \in Messages : xQueueGenericSendFromISR(op, m)
        BY <1>0, <2>0, <2>1, <2>3, EventNames
    <2>4. CASE xQueueReceiveFromISR
        BY <1>0, <2>0, <2>2, <2>4, EventNames
    <2> QED BY <2>3, <2>4 DEF FromISR
<1>2. pc[pxCurrentTCB] \notin {"wakeSender", "wakeReceiver"} /\ pxCurrentTCB \in Tasks
    BY <1>1, Kept DEF Masked
<1>3. CASE Lock(b) = -1 /\ xEventLists[b] # <<>>
    <2>1. xTaskRemoveFromEventList(b)
        BY <1>1, <1>3 DEF AfterISR, queueUNLOCKED
    <2>2. PICK t \in Tasks : t = pxCurrentTCB
        BY <1>2
    <2>3. \A u \in Tasks : frame'[u] = frame[u] /\ pc'[u] = pc[u]
        BY <1>1
    <2>4. PICK x \in Tasks : x \notin Coming(b) /\ x \in Coming(b)'
        BY <1>3, <2>1, <2>2, <2>3, HeadComes
    <2>5. \A u \in Tasks : \A f \in EventLists : In(u, xEventLists'[f]) => In(u, xEventLists[f])
        BY <1>3, <2>1, <2>2, <2>3, HeadComes
    <2> SUFFICES ASSUME NEW e \in EventLists PROVE Served(e)'
        BY DEF Wakeups
    <2>6. Served(e) /\ ServedTyped(e) /\ ServedTyped(e)'
        BY ServedFacts, ServedFactsNext DEF Wakeups
    <2>7. Expecting(e)' => Expecting(e)
        <3>1. xEventLists'[e] # <<>> => xEventLists[e] # <<>>
            BY <2>5, ListShrinks
        <3> QED BY <1>1, <3>1 DEF Expecting, IsSend
    <2> DEFINE k == IF e = b THEN 1 ELSE 0
    <2>8. Cardinality(Coming(e)') >= Cardinality(Coming(e)) + k
        <3>1. ASSUME NEW u \in Tasks, u \in Coming(e) PROVE u \in Coming(e)'
            <4>1. SameCall(frame[u], frame'[u]) /\ (pc[u] \notin GoingToWait => pc'[u] \notin GoingToWait)
                BY <2>3 DEF SameCall
            <4> QED BY <2>5, <3>1, <4>1, ComesStill
        <3>2. Coming(e) \subseteq Coming(e)'
            BY <3>1 DEF Coming
        <3>3. Coming(e) \in SUBSET Tasks /\ Coming(e)' \in SUBSET Tasks
            BY <2>6 DEF ServedTyped
        <3>4. CASE e = b
            <4>1. x \in Tasks \ Coming(e) /\ Coming(e) \cup {x} \subseteq Coming(e)'
                BY <2>4, <3>2, <3>4
            <4> QED BY <3>3, <3>4, <4>1, CountsGrow
        <3>5. CASE e # b
            BY <2>6, <3>2, <3>3, <3>5, CountsGrow DEF ServedTyped
        <3> QED BY <3>4, <3>5
    <2>9. Wanted(e)' <= Wanted(e) + k
        BY <1>1, <2>6 DEF ServedTyped
    <2>10. Owed(e)' = Owed(e)
        <3>1. Lock(e)' = Lock(e) /\ Waker(e)' = Waker(e) /\ Waker(e) \in {"wakeSender", "wakeReceiver"}
            BY <1>1, <1>3 DEF Waker
        <3> QED BY <1>1, <2>6, <3>1 DEF ServedTyped
    <2>11. k \in Int /\ Wanted(e)' + Owed(e) <= (Wanted(e) + Owed(e)') + k
        BY <2>6, <2>9, <2>10 DEF ServedTyped
    <2> HIDE DEF k
    <2> QED BY <2>6, <2>7, <2>8, <2>11, ServedBy
<1>4. CASE ~(Lock(b) = -1 /\ xEventLists[b] # <<>>)
    <2>1. UNCHANGED xEventLists
        BY <1>1, <1>4 DEF AfterISR, queueUNLOCKED, lists
    <2> SUFFICES ASSUME NEW e \in EventLists PROVE Served(e)'
        BY DEF Wakeups
    <2>2. Served(e) /\ ServedTyped(e) /\ ServedTyped(e)'
        BY ServedFacts, ServedFactsNext DEF Wakeups
    <2>3. Expecting(e)' => Expecting(e)
        BY <1>1, <2>1 DEF Expecting, IsSend
    <2>4. CASE e = b /\ Lock(b) = -1
        <3>1. xEventLists[e] = <<>>
            BY <1>4, <2>4
        <3>2. pc[pxCurrentTCB] \notin {"inherit", "place"}
            BY <2>4 DEF QueueInv, Locking, Lock, queueUNLOCKED
        <3>3. ~Expecting(e)
            BY <3>1, <3>2 DEF Expecting
        <3> QED BY <2>3, <3>3 DEF Served
    <2>5. CASE ~(e = b /\ Lock(b) = -1)
        <3>1. Coming(e)' = Coming(e)
            BY <1>1, <2>1 DEF Coming, IsSend
        <3>2. Cardinality(Coming(e)') >= Cardinality(Coming(e)) + 0
            BY <2>2, <3>1 DEF ServedTyped
        <3>3. Waker(e)' = Waker(e) /\ Waker(e) \in {"wakeSender", "wakeReceiver"}
            BY DEF Waker
        <3>4. Owed(e) = Counted(Lock(e)) + 0 /\ Owed(e)' = Counted(Lock(e)') + 0
            BY <1>1, <1>2, <2>2, <3>3 DEF ServedTyped
        <3>5. Wanted(e)' + Owed(e) <= (Wanted(e) + Owed(e)') + 0
            <4>1. CASE e = b
                <5>1. Lock(e)' = Lock(e) + 1 /\ Lock(e) \in Nat
                    BY <1>1, <2>5, <4>1, Kept DEF Lock
                <5>2. Counted(Lock(e)') = Counted(Lock(e)) + 1
                    BY <5>1 DEF Counted, queueUNLOCKED
                <5> QED BY <1>1, <2>2, <3>4, <4>1, <5>2 DEF ServedTyped
            <4>2. CASE e # b
                <5>1. Lock(e)' = Lock(e) /\ Wanted(e)' = Wanted(e) - 1
                    BY <1>1, <4>2
                <5> QED BY <2>2, <3>4, <5>1 DEF ServedTyped
            <4> QED BY <4>1, <4>2
        <3> QED BY <2>2, <2>3, <3>2, <3>5, ServedBy
    <2> QED BY <2>4, <2>5
<1> QED BY <1>3, <1>4

(* The steps of a call to the queue.                                        *)
LEMMA WakeupsQueueStep ==
    ASSUME QueueInv, QueueInv', Wakeups, NEW t \in Tasks, QueueStep(t)
    PROVE  Wakeups'
<1>0. frame \in [Tasks -> Frames \cup {NULL}]
    BY Kept
<1>1. ASSUME NEW op \in Operations, NEW m \in Messages, NEW n \in BlockTimes[t], CallQueue(t, op, m, n)
      PROVE  Wakeups'
    <2>1. /\ pxCurrentTCB = t /\ pxCurrentTCB' = t /\ pc[t] = "user" /\ pc' = [pc EXCEPT ![t] = "top"]
          /\ UNCHANGED <<uxMessagesWaiting, xTxLock, xRxLock, xEventLists>>
          /\ \A u \in Tasks \ {t} : frame'[u] = frame[u]
        BY <1>0, <1>1 DEF CallQueue, Caller, Running, GoTo, SetFrame, calm, lists, storage, locks
    <2>2. frame[t] = NULL
        BY <2>1 DEF QueueInv, Framed, InLoop, GoingToWait, Leaving
    <2>3. "top" \notin GoingToWait /\ "top" \notin {"inherit", "place"}
        BY DEF GoingToWait
    <2> QED BY <2>1, <2>2, <2>3, WakeupsCall
<1>2. ASSUME NEW m \in Messages, xQueueGiveMutexRecursive(t, m) PROVE Wakeups'
    <2>1. /\ pxCurrentTCB = t /\ pxCurrentTCB' = t /\ pc[t] = "user"
          /\ pc' = [pc EXCEPT ![t] = "top"] \/ pc' = pc
          /\ UNCHANGED <<uxMessagesWaiting, xTxLock, xRxLock, xEventLists>>
          /\ \A u \in Tasks \ {t} : frame'[u] = frame[u]
        BY <1>0, <1>2 DEF xQueueGiveMutexRecursive, Caller, Running, GoTo, SetFrame, calm, lists, storage, locks
    <2>2. frame[t] = NULL
        BY <2>1 DEF QueueInv, Framed, InLoop, GoingToWait, Leaving
    <2>3. PICK at \in {"top", "user"} : pc' = [pc EXCEPT ![t] = at]
        BY <2>1, Kept
    <2>4. at \notin GoingToWait /\ at \notin {"inherit", "place"}
        BY DEF GoingToWait
    <2> QED BY <2>1, <2>2, <2>3, <2>4, WakeupsCall
<1>3. CASE TakeAgain(t)
    <2>1. /\ pxCurrentTCB = t /\ pxCurrentTCB' = t /\ pc[t] \in {"user", "taken"}
          /\ pc' = [pc EXCEPT ![t] = "user"]
          /\ UNCHANGED <<uxMessagesWaiting, xTxLock, xRxLock, xEventLists, frame>>
        BY <1>3 DEF TakeAgain, Caller, Running, GoTo, calm, lists, storage, locks
    <2>2. "user" \notin GoingToWait /\ "user" \notin {"inherit", "place"}
        BY DEF GoingToWait
    <2> QED BY <2>1, <2>2, WakeupsCall
<1>4. CASE SendNow(t)
    <2>1. /\ pxCurrentTCB = t /\ pxCurrentTCB' = t /\ pc[t] = "top" /\ IsSend(t)
          /\ frame' = [frame EXCEPT ![t] = NULL]
          /\ pc' = [pc EXCEPT ![t] = IF xEventLists[Waiting.receive] # <<>> THEN "wakeReceiver" ELSE "user"]
          /\ UNCHANGED <<xTxLock, xRxLock, xEventLists>>
          /\ uxMessagesWaiting' = uxMessagesWaiting + 1
        BY <1>4 DEF SendNow, Running, SetFrame, ReturnVia, GoTo, calm, locks, prvCopyDataToQueue,
                    CopyToBack, CopyToFront
    <2>2. frame[t] # NULL
        BY <2>1 DEF QueueInv, Framed, InLoop
    <2>3. Waker(Waiting.receive) = "wakeReceiver" /\ Waiting.receive # Waiting.send
        BY EventNames DEF Waker
    <2>4. IsSend(t) = (Waiting.send = Waiting.send)
        BY <2>1 DEF IsSend
    <2>5. Succeeds(t, Waiting.send, Waiting.receive)
        BY <2>1, <2>2, <2>3, <2>4 DEF Succeeds
    <2> QED BY <2>5, EventNames, WakeupsSucceed
<1>5. CASE ReceiveNow(t)
    <2> DEFINE b == IF frame[t].op = "peek" THEN Waiting.receive ELSE Waiting.send
               done == IF QueueIsMutex THEN "taken" ELSE "user"
    <2>1. /\ pxCurrentTCB = t /\ pxCurrentTCB' = t /\ pc[t] = "top" /\ ~IsSend(t)
          /\ frame' = [frame EXCEPT ![t] = NULL]
          /\ pc' = [pc EXCEPT ![t] = IF xEventLists[b] = <<>> THEN done
                        ELSE IF frame[t].op = "peek" THEN "wakeReceiver" ELSE "wakeSender"]
          /\ UNCHANGED <<xTxLock, xRxLock, xEventLists>>
          /\ uxMessagesWaiting' = IF ~QueueIsMutex /\ frame[t].op = "peek" THEN uxMessagesWaiting
                                  ELSE uxMessagesWaiting - 1
        BY <1>5 DEF ReceiveNow, Running, SetFrame, ReturnVia, GoTo, calm, locks, lists, CopyFrom, storage
    <2>2. frame[t] # NULL
        BY <2>1 DEF QueueInv, Framed, InLoop
    <2>3. QueueIsMutex => frame[t].op # "peek"
        <3> SUFFICES ASSUME QueueIsMutex PROVE frame[t].op # "peek"
            OBVIOUS
        <3>1. MutexTrue
            BY DEF QueueInv, MutexFacts
        <3>2. CASE t = pxMutexHolder
            BY <2>1, <2>2, <3>1, <3>2 DEF MutexTrue
        <3>3. CASE t # pxMutexHolder
            BY <2>2, <3>1, <3>3 DEF MutexTrue
        <3> QED BY <3>2, <3>3
    <2>4. PICK c \in EventLists : c = b
        BY EventNames
    <2>5. /\ Waiting.receive = c <=> frame[t].op = "peek"
          /\ Waker(c) = IF frame[t].op = "peek" THEN "wakeReceiver" ELSE "wakeSender"
        BY <2>4, EventNames DEF Waker
    <2>6. pc' = [pc EXCEPT ![t] = IF xEventLists[c] # <<>> THEN Waker(c) ELSE done]
        BY <2>1, <2>4, <2>5
    <2>7. done \in {"user", "taken"}
        OBVIOUS
    <2>8. IsSend(t) = (Waiting.receive = Waiting.send)
        BY <2>1, EventNames DEF IsSend
    <2>9. IF Waiting.receive = c THEN UNCHANGED uxMessagesWaiting
          ELSE uxMessagesWaiting' = uxMessagesWaiting - 1
        BY <2>1, <2>3, <2>5
    <2> HIDE DEF done, b
    <2>10. \E at \in {"user", "taken"} :
               pc' = [pc EXCEPT ![t] = IF xEventLists[c] # <<>> THEN Waker(c) ELSE at]
        BY <2>6, <2>7
    <2>11. Succeeds(t, Waiting.receive, c)
        BY <2>1, <2>2, <2>8, <2>9, <2>10, EventNames DEF Succeeds
    <2> QED BY <2>11, EventNames, WakeupsSucceed
<1>6. CASE WakeWaiter(t)
    BY <1>6, WakeupsWake
<1>7. CASE GiveUp(t) \/ WillWait(t) \/ (LookAgain(t) /\ StillBlocked(t))
    <2>1. PICK a \in EventLists : IsSend(t) = (a = Waiting.send)
        BY EventNames DEF IsSend
    <2>2. (IF IsSend(t) THEN IsQueueFull ELSE IsQueueEmpty) => Wanted(a) = 0
        <3>1. uxLength \in Nat
            BY Typed DEF QueueInv
        <3>2. CASE IsSend(t)
            <4>1. a = Waiting.send
                BY <2>1, <3>2
            <4>2. IsQueueFull => uxLength - uxMessagesWaiting = 0
                BY <3>1 DEF IsQueueFull
            <4> QED BY <3>2, <4>1, <4>2, EventNames DEF Wanted
        <3>3. CASE ~IsSend(t)
            <4>1. a = Waiting.receive
                BY <2>1, <3>3, EventNames
            <4>2. IsQueueEmpty => uxMessagesWaiting = 0
                BY DEF IsQueueEmpty
            <4> QED BY <3>3, <4>1, <4>2, EventNames DEF Wanted
        <3> QED BY <3>2, <3>3
    <2>3. /\ pxCurrentTCB = t /\ pxCurrentTCB' = t /\ pc[t] \in {"top", "look"}
          /\ IF IsSend(t) THEN IsQueueFull ELSE IsQueueEmpty
          /\ UNCHANGED <<uxMessagesWaiting, xTxLock, xRxLock, xEventLists>>
          /\ \/ /\ \E f : frame' = [frame EXCEPT ![t] = f]
                /\ pc' = [pc EXCEPT ![t] = "user"] \/ pc' = [pc EXCEPT ![t] = "suspend"]
             \/ /\ frame' = frame
                /\ \/ pc' = [pc EXCEPT ![t] = "suspend"] \/ pc' = [pc EXCEPT ![t] = "inherit"]
                   \/ pc' = [pc EXCEPT ![t] = "place"]
        <3>1. CASE GiveUp(t)
            BY <3>1 DEF GiveUp, Running, SetFrame, GoTo, calm, lists, storage, locks
        <3>2. CASE WillWait(t)
            <4>1. /\ pxCurrentTCB = t /\ pxCurrentTCB' = t /\ pc[t] = "top"
                  /\ IF IsSend(t) THEN IsQueueFull ELSE IsQueueEmpty
                  /\ UNCHANGED <<uxMessagesWaiting, xTxLock, xRxLock, xEventLists>>
                  /\ pc' = [pc EXCEPT ![t] = "suspend"]
                BY <3>2 DEF WillWait, Running, GoTo, calm, lists, storage, locks
            <4>2. frame' = frame \/ \E f : frame' = [frame EXCEPT ![t] = f]
                BY <3>2 DEF WillWait, SetFrame
            <4> QED BY <4>1, <4>2
        <3>3. CASE LookAgain(t) /\ StillBlocked(t)
            BY <3>3 DEF LookAgain, StillBlocked, Running, GoTo, lists, queueVars, storage
        <3> QED BY <1>7, <3>1, <3>2, <3>3
    <2>4. PICK at \in {"user", "suspend", "inherit", "place"} :
              pc' = [pc EXCEPT ![t] = at] /\ (at \in {"inherit", "place"} => frame' = frame)
        <3>1. CASE /\ pc' = [pc EXCEPT ![t] = "user"] \/ pc' = [pc EXCEPT ![t] = "suspend"]
            BY <3>1
        <3>2. CASE frame' = frame /\ (pc' = [pc EXCEPT ![t] = "inherit"] \/ pc' = [pc EXCEPT ![t] = "place"])
            BY <3>2
        <3> QED BY <2>3, <3>1, <3>2
    <2>5. \A u \in Tasks \ {t} : frame'[u] = frame[u]
        BY <1>0, <2>3
    <2>6. Wanted(a) = 0 /\ at \notin {"wakeSender", "wakeReceiver"} /\ pc[t] \notin {"wakeSender", "wakeReceiver"}
        BY <2>2, <2>3
    <2> QED BY <2>1, <2>3, <2>4, <2>5, <2>6, WakeupsFail
<1>8. CASE SuspendToBlock(t) \/ (LookAgain(t) /\ ~StillBlocked(t))
    <2>1. /\ pxCurrentTCB = t /\ pxCurrentTCB' = t /\ pc[t] \in {"suspend", "look"}
          /\ pc' = [pc EXCEPT ![t] = "lock"] \/ pc' = [pc EXCEPT ![t] = "unlockTx"]
          /\ UNCHANGED <<uxMessagesWaiting, xTxLock, xRxLock, xEventLists, frame>>
        BY <1>8 DEF SuspendToBlock, LookAgain, Running, GoTo, lists, storage, queueVars
    <2>2. PICK at \in {"lock", "unlockTx"} : pc' = [pc EXCEPT ![t] = at]
        BY <2>1
    <2>3. pc[t] \in GoingToWait /\ at \notin {"inherit", "place"}
        BY <2>1 DEF GoingToWait
    <2> QED BY <2>1, <2>2, <2>3, WakeupsCall
<1>9. CASE prvLockQueue(t)
    <2>1. /\ pxCurrentTCB = t /\ pxCurrentTCB' = t /\ pc[t] = "lock"
          /\ pc' = [pc EXCEPT ![t] = "look"] \/ pc' = [pc EXCEPT ![t] = "unlockTx"]
          /\ UNCHANGED <<uxMessagesWaiting, xEventLists>>
          /\ Counted(xTxLock)' = Counted(xTxLock) /\ Counted(xRxLock)' = Counted(xRxLock)
        BY <1>9 DEF prvLockQueue, Running, GoTo, lists, storage, Counted, queueUNLOCKED, queueLOCKED_UNMODIFIED
    <2>2. \A u \in Tasks \ {t} : frame'[u] = frame[u]
        BY <1>0, <1>9 DEF prvLockQueue, SetFrame
    <2>3. PICK at \in {"look", "unlockTx"} : pc' = [pc EXCEPT ![t] = at]
        BY <2>1
    <2>4. pc[t] \in GoingToWait /\ at \notin {"inherit", "place"}
        BY <2>1 DEF GoingToWait
    <2> QED BY <2>1, <2>2, <2>3, <2>4, WakeupsCall
<1>10. CASE Inherit(t)
    <2>1. /\ pxCurrentTCB = t /\ pxCurrentTCB' = t /\ pc[t] = "inherit"
          /\ pc' = [pc EXCEPT ![t] = "place"]
          /\ UNCHANGED <<uxMessagesWaiting, xTxLock, xRxLock, xEventLists, frame>>
        BY <1>10 DEF Inherit, Running, GoTo, calm, queueVars, storage
    <2>2. \A u \in Tasks : pc'[u] = IF u = t THEN "place" ELSE pc[u]
        BY <2>1, Kept
    <2>3. pc[t] \in GoingToWait /\ UNCHANGED <<frame, pxCurrentTCB>>
        BY <2>1 DEF GoingToWait
    <2>4. WakeupsQuietly
        BY <2>1, <2>2, <2>3 DEF WakeupsQuietly, SameCall
    <2> QED BY <2>4, WakeupsQuiet
<1>11. CASE Block(t)
    BY <1>11, WakeupsBlock
<1>12. CASE prvUnlockQueue(t)
    BY <1>12, WakeupsUnlock
<1> QED BY <1>1, <1>2, <1>3, <1>4, <1>5, <1>6, <1>7, <1>8, <1>9, <1>10, <1>11, <1>12 DEF QueueStep

(* Every step leaves enough tasks coming.                                   *)
LEMMA WakeupsStep == QueueInv /\ QueueInv' /\ Wakeups /\ [Next]_vars => Wakeups'
<1> SUFFICES ASSUME QueueInv, QueueInv', Wakeups, [Next]_vars PROVE Wakeups'
    OBVIOUS
<1>1. CASE Tick
    <2>1. /\ \A u \in Tasks : SameCall(frame[u], frame'[u])
          /\ UNCHANGED <<uxMessagesWaiting, xTxLock, xRxLock, xEventLists, pc, pxCurrentTCB>>
        BY <1>1, FramesAged DEF Tick, vTickISR, storage, locks, calls
    <2>2. pxCurrentTCB \in Tasks
        BY Kept
    <2>3. WakeupsQuietly
        BY <2>1, <2>2 DEF WakeupsQuietly
    <2> QED BY <2>3, WakeupsQuiet
<1>2. ASSUME NEW t \in Tasks, TaskAPI(t) \/ QueueStep(t) PROVE Wakeups'
    BY <1>2, APIQuietly, WakeupsQuiet, WakeupsQueueStep
<1>3. CASE UNCHANGED vars
    <2>1. UNCHANGED <<uxMessagesWaiting, xTxLock, xRxLock, xEventLists, pc, pxCurrentTCB, frame>>
        BY <1>3 DEF vars, kernelVars, queueVars, storage, lists, calls
    <2>2. Wakeups'
        BY <2>1 DEF Wakeups, Served, Expecting, Wanted, Owed, Lock, Waker, Coming, IsSend, Counted, Waking
    <2> QED BY <2>2
<1> QED BY <1>1, <1>2, <1>3, KernelQuietly, WakeupsQuiet, WakeupsFromISR DEF Next

(* No wakeup is lost, in a queue of any length between any number of tasks  *)
(* and interrupts: while a task waits, every message, or free slot, has a   *)
(* task coming for it, about to be woken, or owed by the count of the lock  *)
(* (queue.c:490-1000, 1056-1110, 1279-1363).                                *)
THEOREM NoWakeupIsLost == Spec => []NoLostWakeup
<1>1. Init => QueueInv /\ Wakeups
    <2> SUFFICES ASSUME Init PROVE QueueInv /\ Wakeups
        OBVIOUS
    <2>1. \A e \in EventLists : xEventLists[e] = <<>>
        BY EventNames DEF Init
    <2>2. pc[pxCurrentTCB] \notin {"inherit", "place"}
        BY DEF Init
    <2> QED BY <2>1, <2>2, InitGood DEF Wakeups, Served, Expecting
<1>2. QueueInv /\ Wakeups /\ [Next]_vars => QueueInv' /\ Wakeups'
    BY StepGood, WakeupsStep
<1>3. QueueInv /\ Wakeups => NoLostWakeup
    <2> SUFFICES ASSUME QueueInv, Wakeups PROVE NoLostWakeup
        OBVIOUS
    <2>1. /\ Waiting.receive \in EventLists /\ Waiting.send \in EventLists
          /\ Served(Waiting.receive) /\ ServedTyped(Waiting.receive)
          /\ Served(Waiting.send) /\ ServedTyped(Waiting.send)
        BY EventNames, ServedFacts DEF Wakeups
    <2>2. \A t \in Tasks : frame[t] # NULL => frame[t].op \in SendOps \cup ReceiveOps
        <3>1. frame \in [Tasks -> Frames \cup {NULL}]
            BY Kept
        <3> QED BY <3>1, FrameFields
    <2>3. \A t \in Tasks : frame[t] # NULL /\ pc[t] \notin GoingToWait =>
              pc[t] = "top" \/ (ret[t] = "top" /\ pc[t] \notin {"inherit", "place"})
        BY DEF QueueInv, Framed, InLoop, GoingToWait, Leaving
    <2>4. Coming(Waiting.receive) \subseteq Retrying(ReceiveOps)
        BY <2>2, <2>3, EventNames DEF Coming, Retrying, IsSend
    <2>5. Coming(Waiting.send) \subseteq Retrying(SendOps)
        BY <2>2, <2>3, EventNames DEF Coming, Retrying, IsSend
    <2>6. ASSUME NEW S \in SUBSET Tasks, NEW R \in SUBSET Tasks, S \subseteq R
          PROVE  Cardinality(S) <= Cardinality(R) /\ Cardinality(R) \in Nat
        <3>1. IsFiniteSet(R)
            BY KernelAssumption, FS_Subset DEF KernelAssumption
        <3>2. Cardinality(S) <= Cardinality(R)
            BY <2>6, <3>1, FS_Subset
        <3> QED BY <3>1, <3>2, FS_CardinalityType
    <2>7. Retrying(ReceiveOps) \in SUBSET Tasks /\ Retrying(SendOps) \in SUBSET Tasks
        BY DEF Retrying
    <2>8. /\ Cardinality(Coming(Waiting.receive)) <= Cardinality(Retrying(ReceiveOps))
          /\ Cardinality(Coming(Waiting.send)) <= Cardinality(Retrying(SendOps))
          /\ Cardinality(Retrying(ReceiveOps)) \in Nat /\ Cardinality(Retrying(SendOps)) \in Nat
        BY <2>1, <2>4, <2>5, <2>6, <2>7 DEF ServedTyped
    <2>9. /\ Wanted(Waiting.receive) = uxMessagesWaiting
          /\ Owed(Waiting.receive) = Counted(xTxLock) + Waking("wakeReceiver")
          /\ Wanted(Waiting.send) = uxLength - uxMessagesWaiting
          /\ Owed(Waiting.send) = Counted(xRxLock) + Waking("wakeSender")
        BY EventNames DEF Wanted, Owed, Lock, Waker
    <2>10. \A at : Waking(at) \in Nat
        BY DEF Waking
    <2>11. Counted(xTxLock) \in Nat /\ Counted(xRxLock) \in Nat
        BY Kept DEF Counted, queueUNLOCKED
    <2>12. xEventLists[Waiting.receive] # <<>> =>
               uxMessagesWaiting <= Cardinality(Retrying(ReceiveOps)) + Counted(xTxLock)
                                    + Waking("wakeReceiver")
        <3>1. xEventLists[Waiting.receive] # <<>> =>
                  Wanted(Waiting.receive) <= Cardinality(Coming(Waiting.receive)) + Owed(Waiting.receive)
            BY <2>1 DEF Served, Expecting
        <3>2. /\ Wanted(Waiting.receive) \in Nat /\ Owed(Waiting.receive) \in Nat
              /\ Cardinality(Coming(Waiting.receive)) \in Nat
            BY <2>1 DEF ServedTyped
        <3> HIDE DEF Wanted, Owed
        <3> QED BY <2>8, <2>9, <2>10, <2>11, <3>1, <3>2
    <2>13. xEventLists[Waiting.send] # <<>> =>
               uxLength - uxMessagesWaiting <= Cardinality(Retrying(SendOps)) + Counted(xRxLock)
                                    + Waking("wakeSender")
        <3>1. xEventLists[Waiting.send] # <<>> =>
                  Wanted(Waiting.send) <= Cardinality(Coming(Waiting.send)) + Owed(Waiting.send)
            BY <2>1 DEF Served, Expecting
        <3>2. /\ Wanted(Waiting.send) \in Nat /\ Owed(Waiting.send) \in Nat
              /\ Cardinality(Coming(Waiting.send)) \in Nat
            BY <2>1 DEF ServedTyped
        <3> HIDE DEF Wanted, Owed
        <3> QED BY <2>8, <2>9, <2>10, <2>11, <3>1, <3>2
    <2> QED BY <2>12, <2>13 DEF NoLostWakeup
<1> QED BY <1>1, <1>2, <1>3, PTL DEF Spec

-----------------------------------------------------------------------------
(* Priority inheritance, while no task sets priorities.  A task is at least *)
(* as important as every task that waits for the mutex.                     *)
AsImportant(g) ==
    \A t \in Tasks : In(t, xEventLists[Waiting.receive]) => uxPriority[t] <= uxPriority[g]

(* The holder is, and is raised before a task starts to wait.               *)
Raised ==
    pxMutexHolder # NULL =>
        /\ AsImportant(pxMutexHolder)
        /\ pc[pxCurrentTCB] = "place" => uxPriority[pxCurrentTCB] <= uxPriority[pxMutexHolder]

(* While the mutex is free and tasks wait for it, one of the most important *)
(* of them has been woken, and only tasks as important can take it.         *)
Ready(g) == g \in Coming(Waiting.receive) /\ IsReady(g)
Outranked(g) == uxPriority[g] <= uxPriority[pxCurrentTCB] \/ pc[pxCurrentTCB] = "yieldMasked"
Succession ==
    pxMutexHolder = NULL /\ xEventLists[Waiting.receive] # <<>> =>
        \/ pc[pxCurrentTCB] = "wakeReceiver"
        \/ \E g \in Tasks : Ready(g) /\ AsImportant(g) /\ Outranked(g)

(* The list is in the order of the priorities, and no interrupt counts      *)
(* anything in the locks of a mutex.                                        *)
WaitInOrder ==
    /\ \A t \in Tasks : xEventValue[t] = configMAX_PRIORITIES - uxPriority[t]
    /\ Sorted(xEventLists[Waiting.receive], xEventValue)
Uncounted == xTxLock \in {-1, 0} /\ xRxLock \in {-1, 0} /\ xEventLists[PendingReadyList] = <<>>

Inheritance == WaitInOrder /\ Uncounted /\ Raised /\ Succession

(* A step that lends nothing, gives nothing and takes nothing.              *)
Undisturbed ==
    /\ UNCHANGED <<uxPriority, xEventValue, pxMutexHolder>>
    /\ xTxLock' \in {-1, 0} /\ xRxLock' \in {-1, 0}
    /\ UNCHANGED xEventLists \/ \E x \in Tasks : xEventLists' = EventRemoved(x)
    /\ pc'[pxCurrentTCB'] = "place" => pc[pxCurrentTCB] = "place" /\ UNCHANGED pxCurrentTCB
    /\ pc[pxCurrentTCB] # "wakeReceiver"
    /\ pxMutexHolder = NULL =>
           \A g \in Tasks : Ready(g) => /\ SameCall(frame[g], frame'[g]) /\ pc'[g] \notin GoingToWait
                                        /\ IsReady(g)' /\ (Outranked(g) => Outranked(g)')

(* What becomes of the event lists in such a step.                          *)
LEMMA UndisturbedLists ==
    ASSUME QueueInv, UNCHANGED xEventLists \/ \E x \in Tasks : xEventLists' = EventRemoved(x)
    PROVE  /\ \A u \in Tasks : \A e \in EventLists : In(u, xEventLists'[e]) => In(u, xEventLists[e])
           /\ xEventLists[PendingReadyList] = <<>> => xEventLists'[PendingReadyList] = <<>>
           /\ \A value : Sorted(xEventLists[Waiting.receive], value) =>
                             Sorted(xEventLists'[Waiting.receive], value)
<1>1. CASE UNCHANGED xEventLists
    BY <1>1
<1>2. ASSUME NEW x \in Tasks, xEventLists' = EventRemoved(x)
      PROVE  /\ \A u \in Tasks : \A e \in EventLists : In(u, xEventLists'[e]) => In(u, xEventLists[e])
             /\ xEventLists[PendingReadyList] = <<>> => xEventLists'[PendingReadyList] = <<>>
             /\ \A value : Sorted(xEventLists[Waiting.receive], value) =>
                               Sorted(xEventLists'[Waiting.receive], value)
    <2>1. \A u \in Tasks : \A e \in EventLists : In(u, xEventLists'[e]) => In(u, xEventLists[e])
        BY <1>2, EventLeft
    <2>2. /\ xEventLists \in [ItemLists -> Seq(Tasks)]
          /\ \A e \in ItemLists : Once(xEventLists[e])
        BY Typed DEF QueueInv, EventsGood
    <2>3. xEventLists[PendingReadyList] = <<>> => xEventLists'[PendingReadyList] = <<>>
        BY <1>2, <2>2, EventRemovedIt, EventNames
    <2>4. /\ xEventLists'[Waiting.receive] = Without(xEventLists[Waiting.receive], x)
          /\ xEventLists[Waiting.receive] \in Seq(Tasks) /\ Once(xEventLists[Waiting.receive])
        BY <1>2, <2>2, EventNames DEF EventRemoved
    <2>5. \A value : Sorted(xEventLists[Waiting.receive], value) =>
                         Sorted(xEventLists'[Waiting.receive], value)
        BY <2>4, WithoutIt
    <2> QED BY <2>1, <2>3, <2>5
<1> QED BY <1>1, <1>2

(* It keeps the inheritance.                                                *)
LEMMA InheritanceUndisturbed ==
    ASSUME QueueInv, QueueInv', Inheritance, Undisturbed
    PROVE  Inheritance'
<1>1. /\ \A u \in Tasks : \A e \in EventLists : In(u, xEventLists'[e]) => In(u, xEventLists[e])
      /\ xEventLists[PendingReadyList] = <<>> => xEventLists'[PendingReadyList] = <<>>
      /\ Sorted(xEventLists[Waiting.receive], xEventValue) =>
             Sorted(xEventLists'[Waiting.receive], xEventValue)
    BY UndisturbedLists DEF Undisturbed
<1>2. WaitInOrder' /\ Uncounted'
    BY <1>1 DEF Inheritance, WaitInOrder, Uncounted, Undisturbed
<1>3. \A g \in Tasks : AsImportant(g) => AsImportant(g)'
    BY <1>1, EventNames DEF AsImportant, Undisturbed
<1>4. Raised'
    <2> SUFFICES ASSUME pxMutexHolder' # NULL
                 PROVE  /\ AsImportant(pxMutexHolder)'
                        /\ pc'[pxCurrentTCB'] = "place" => uxPriority'[pxCurrentTCB'] <= uxPriority'[pxMutexHolder']
        BY DEF Raised
    <2>1. PICK h \in Tasks : h = pxMutexHolder
        BY Kept DEF Undisturbed
    <2>2. AsImportant(h) /\ (pc[pxCurrentTCB] = "place" => uxPriority[pxCurrentTCB] <= uxPriority[h])
        BY <2>1, Typed DEF Inheritance, Raised, QueueInv
    <2>3. pxMutexHolder' = h /\ AsImportant(h)'
        BY <1>3, <2>1, <2>2 DEF Undisturbed
    <2>4. AsImportant(pxMutexHolder)'
        BY <2>3 DEF AsImportant
    <2> QED BY <2>2, <2>3, <2>4 DEF Undisturbed
<1>5. Succession'
    <2> SUFFICES ASSUME pxMutexHolder' = NULL, xEventLists'[Waiting.receive] # <<>>
                 PROVE  \E g \in Tasks : Ready(g)' /\ AsImportant(g)' /\ Outranked(g)'
        BY DEF Succession
    <2>1. pxMutexHolder = NULL /\ xEventLists[Waiting.receive] # <<>>
        BY <1>1, EventNames, ListShrinks DEF Undisturbed
    <2>2. PICK g \in Tasks : Ready(g) /\ AsImportant(g) /\ Outranked(g)
        BY <2>1 DEF Inheritance, Succession, Undisturbed
    <2>3. SameCall(frame[g], frame'[g]) /\ pc'[g] \notin GoingToWait /\ IsReady(g)' /\ Outranked(g)'
        BY <2>1, <2>2 DEF Undisturbed
    <2>4. g \in Coming(Waiting.receive)'
        BY <1>1, <2>2, <2>3, EventNames, ComesStill DEF Ready
    <2>5. Ready(g)' /\ AsImportant(g)'
        BY <1>3, <2>2, <2>3, <2>4 DEF Ready
    <2> QED BY <2>3, <2>5
<1> QED BY <1>2, <1>4, <1>5 DEF Inheritance

(* What an undisturbed step of the current task has to show when no task    *)
(* becomes less ready.                                                      *)
LEMMA UndisturbedHere ==
    ASSUME QueueInv, UNCHANGED <<uxPriority, xEventValue, pxMutexHolder, pxCurrentTCB>>,
           xTxLock' \in {-1, 0}, xRxLock' \in {-1, 0},
           UNCHANGED xEventLists \/ \E x \in Tasks : xEventLists' = EventRemoved(x),
           pc'[pxCurrentTCB] = "place" => pc[pxCurrentTCB] = "place",
           pc[pxCurrentTCB] # "wakeReceiver",
           pc[pxCurrentTCB] = "yieldMasked" => pc'[pxCurrentTCB] = "yieldMasked",
           pxMutexHolder = NULL => \A g \in Tasks : Ready(g) =>
               SameCall(frame[g], frame'[g]) /\ pc'[g] \notin GoingToWait /\ IsReady(g)'
    PROVE  Undisturbed
<1>1. \A g \in Tasks : Outranked(g) => Outranked(g)'
    BY DEF Outranked
<1> QED BY <1>1 DEF Undisturbed

(* A context switch passes the mutex by nobody: it gives way to a task at   *)
(* least as important as any that is ready.                                 *)
LEMMA UndisturbedSwitch ==
    ASSUME QueueInv, vTaskSwitchContext,
           UNCHANGED <<xEventLists, priorities, uxSchedulerSuspended, pxMutexHolder, xTxLock, xRxLock>>,
           xTxLock \in {-1, 0}, xRxLock \in {-1, 0}, pc[pxCurrentTCB] # "wakeReceiver",
           pc'[pxCurrentTCB'] = "place" => pc[pxCurrentTCB] = "place" /\ uxSchedulerSuspended # 0,
           UNCHANGED pc \/ uxSchedulerSuspended = 0,
           \A g \in Tasks : Ready(g) => SameCall(frame[g], frame'[g]) /\ pc'[g] \notin GoingToWait
    PROVE  Undisturbed
<1>1. UNCHANGED <<uxPriority, xEventValue>>
    BY DEF priorities
<1>2. CASE uxSchedulerSuspended = 0
    <2>1. /\ \A u \in Tasks : \A k \in GenericLists : In(u, xLists'[k]) <=> In(u, xLists[k])
          /\ \A u \in Tasks : IsReady(u) => uxPriority[u] <= uxPriority[pxCurrentTCB']
        BY <1>2, Switched DEF QueueInv
    <2>2. \A u \in Tasks : IsReady(u)' <=> IsReady(u)
        BY <2>1, ListNames DEF IsReady
    <2>3. \A g \in Tasks : Ready(g) => IsReady(g)' /\ Outranked(g)'
        BY <1>1, <2>1, <2>2 DEF Ready, Outranked
    <2>4. pc'[pxCurrentTCB'] # "place"
        BY <1>2
    <2> QED BY <1>1, <2>3, <2>4 DEF Undisturbed
<1>3. CASE uxSchedulerSuspended # 0
    <2>1. UNCHANGED <<xLists, pxCurrentTCB, pc>>
        BY <1>3 DEF vTaskSwitchContext
    <2>2. \A g \in Tasks : Ready(g) => IsReady(g)'
        BY <2>1 DEF Ready, IsReady
    <2> QED BY <1>1, <2>1, <2>2, UndisturbedHere
<1> QED BY <1>2, <1>3

(* No step of the kernel disturbs an inheritance.                           *)
LEMMA KernelUndisturbed ==
    ASSUME QueueInv, QueueInv', Uncounted, KernelOnly
    PROVE  Undisturbed
<1>1. /\ KernelStep /\ UNCHANGED <<pxMutexHolder, xTxLock, xRxLock>>
      /\ \A u \in Tasks : SameCall(frame[u], frame'[u])
    BY FramesAged DEF KernelOnly, locks, mutex
<1>2. \A g \in Tasks : Ready(g) => SameCall(frame[g], frame'[g]) /\ pc'[g] \notin GoingToWait
    BY KernelQuietly DEF WakeupsQuietly, Ready, Coming
<1>3. /\ xTxLock \in {-1, 0} /\ xRxLock \in {-1, 0} /\ xTxLock' \in {-1, 0} /\ xRxLock' \in {-1, 0}
      /\ xEventLists[PendingReadyList] = <<>>
    BY <1>1 DEF Uncounted
<1>4. /\ pc \in [Tasks -> PcNames] /\ pxCurrentTCB \in Tasks /\ pxCurrentTCB' \in Tasks
      /\ ret \in [Tasks -> {"user", "top"}]
      /\ \A t \in Tasks \ {pxCurrentTCB} : pc[t] # "place"
    BY Kept DEF QueueInv, Control, SwitchedOut, TypeOK, KernelTypeOK
<1>5. CASE prvCheckDelayedTasks
    <2>1. /\ checkingDelayed /\ UNCHANGED <<priorities, pxCurrentTCB, pc>>
        BY <1>5 DEF prvCheckDelayedTasks, calls
    <2>2. pc[pxCurrentTCB] # "wakeReceiver"
        BY <2>1 DEF QueueInv, Control, Masked
    <2>3. CASE UNCHANGED lists
        <3>1. \A g \in Tasks : Ready(g) => IsReady(g)'
            BY <2>3 DEF lists, Ready, IsReady
        <3> QED BY <1>1, <1>2, <1>3, <2>1, <2>2, <2>3, <3>1, UndisturbedHere DEF lists, priorities
    <2>4. CASE ~UNCHANGED lists
        <3> DEFINE d == xLists[DelayedTaskList]
        <3>1. /\ d # <<>> /\ xEventLists' = EventRemoved(Head(d))
              /\ prvAddTaskToReadyQueue(GenericRemoved(Head(d)), Head(d), uxPriority[Head(d)])
            BY <1>5, <2>4 DEF prvCheckDelayedTasks, LeaveEventList
        <3>2. d \in Seq(Tasks)
            BY Typed, ListNames DEF QueueInv
        <3>3. PICK x \in Tasks : x = Head(d)
            BY <3>1, <3>2, HeadIn
        <3>4. UNCHANGED <<uxPriority, uxBasePriority, xEventValue>>
            BY <2>1 DEF priorities
        <3>5. \A g \in Tasks : Ready(g) => IsReady(g)'
            <4>1. /\ TypeOK /\ ListsGood /\ uxPriority[x] \in Priorities
                  /\ prvAddTaskToReadyQueue(GenericRemoved(x), x, uxPriority[x])
                  /\ x = Idle => uxPriority[x] = 0
                BY <3>1, <3>3, Typed DEF QueueInv, ListsGood
            <4>2. IsReady(x)' /\ \A t \in Tasks \ {x} : IsReady(t)' <=> IsReady(t)
                BY <3>4, <4>1, ReadiedIt
            <4> QED BY <4>2 DEF Ready
        <3>6. \E y \in Tasks : xEventLists' = EventRemoved(y)
            BY <3>1, <3>3
        <3> QED BY <1>1, <1>2, <1>3, <2>1, <2>2, <3>4, <3>5, <3>6, UndisturbedHere
    <2> QED BY <2>3, <2>4
<1>6. CASE SwitchContextInISR
    <2>1. /\ inISR /\ vTaskSwitchContext
          /\ UNCHANGED <<xEventLists, priorities, uxSchedulerSuspended, pc>>
        BY <1>6 DEF SwitchContextInISR, calls
    <2>2. pc[pxCurrentTCB] # "wakeReceiver"
        BY <2>1 DEF QueueInv, Control, Masked
    <2>3. uxSchedulerSuspended # 0 <=> pc[pxCurrentTCB] \in Suspending
        BY DEF QueueInv, Control
    <2>4. pc'[pxCurrentTCB'] = "place" => pc[pxCurrentTCB] = "place" /\ uxSchedulerSuspended # 0
        BY <1>4, <2>1, <2>3 DEF Suspending
    <2> QED BY <1>1, <1>2, <1>3, <2>1, <2>2, <2>4, UndisturbedSwitch
<1>7. ASSUME NEW t \in Tasks, vPortYieldProcessor(t) PROVE Undisturbed
    <2>1. /\ pxCurrentTCB = t /\ pc[t] \in {"yield", "yieldMasked"} /\ vTaskSwitchContext
          /\ pc' = [pc EXCEPT ![t] = ret[t]]
          /\ UNCHANGED <<xEventLists, priorities, uxSchedulerSuspended>>
        BY <1>7 DEF vPortYieldProcessor, Running, GoTo
    <2>2. uxSchedulerSuspended = 0
        BY <2>1 DEF QueueInv, Control, Suspending
    <2>3. \A u \in Tasks : pc'[u] # "place"
        BY <1>4, <2>1
    <2> QED BY <1>1, <1>2, <1>3, <1>4, <2>1, <2>2, <2>3, UndisturbedSwitch
<1>8. ASSUME NEW t \in Tasks, xTaskResumeAll(t) \/ ResumeAllEnd(t) \/ ReplayMissedTick(t)
      PROVE  Undisturbed
    <2>1. /\ pxCurrentTCB = t /\ pc[t] \in {"resumeAll", "drain"}
          /\ UNCHANGED <<xEventLists, priorities, pxCurrentTCB>>
        BY <1>8 DEF xTaskResumeAll, ResumeAllEnd, ReplayMissedTick, Running, lists
    <2>2. pc'[t] # "place"
        <3>1. CASE xTaskResumeAll(t) \/ ResumeAllEnd(t)
            BY <1>4, <3>1 DEF xTaskResumeAll, ResumeAllEnd, GoTo, ReturnNotYielded
        <3>2. CASE ReplayMissedTick(t)
            BY <2>1, <3>2 DEF ReplayMissedTick
        <3> QED BY <1>8, <3>1, <3>2
    <2>3. \A g \in Tasks : Ready(g) => IsReady(g)'
        <3>1. CASE xTaskResumeAll(t) \/ ResumeAllEnd(t)
            BY <3>1 DEF xTaskResumeAll, ResumeAllEnd, lists, Ready, IsReady
        <3>2. CASE ReplayMissedTick(t)
            <4>1. vTaskIncrementTick /\ UNCHANGED <<xEventLists, uxTopReadyPriority, priorities>>
                BY <3>2 DEF ReplayMissedTick
            <4> QED BY <4>1, TickLists DEF QueueInv, Ready
        <3> QED BY <1>8, <3>1, <3>2
    <2> QED BY <1>1, <1>2, <1>3, <2>1, <2>2, <2>3, UndisturbedHere DEF priorities
<1>9. ASSUME NEW t \in Tasks, DrainPendingReady(t) PROVE Undisturbed
    BY <1>3, <1>9 DEF DrainPendingReady
<1> QED BY <1>1, <1>5, <1>6, <1>7, <1>8, <1>9 DEF KernelStep

(* Nor does the tick interrupt.                                             *)
LEMMA TickUndisturbed ==
    ASSUME QueueInv, Uncounted, Tick
    PROVE  Undisturbed
<1>1. /\ InterruptsEnabled
      /\ UNCHANGED <<xEventLists, uxTopReadyPriority, priorities, pxCurrentTCB, pc,
                     pxMutexHolder, xTxLock, xRxLock>>
      /\ UNCHANGED xLists \/ vTaskIncrementTick
    BY DEF Tick, vTickISR, calls, locks, mutex
<1>2. \A u \in Tasks : SameCall(frame[u], frame'[u])
    BY FramesAged
<1>3. \A g \in Tasks : Ready(g) => IsReady(g)'
    <2>1. CASE UNCHANGED xLists
        BY <2>1 DEF Ready, IsReady
    <2>2. CASE vTaskIncrementTick
        BY <1>1, <2>2, TickLists DEF QueueInv, Ready
    <2> QED BY <1>1, <2>1, <2>2
<1>4. pc[pxCurrentTCB] # "wakeReceiver" /\ xTxLock' \in {-1, 0} /\ xRxLock' \in {-1, 0}
    BY <1>1 DEF InterruptsEnabled, Masked, Uncounted
<1>5. \A g \in Tasks : Ready(g) => pc'[g] \notin GoingToWait
    BY <1>1 DEF Ready, Coming
<1> QED BY <1>1, <1>2, <1>3, <1>4, <1>5, UndisturbedHere DEF priorities

(* Nor does a task that sleeps: it has no call in progress.                 *)
LEMMA APIUndisturbed ==
    ASSUME QueueInv, QueueInv', Uncounted, SettablePriorities = {}, NEW t \in Tasks, TaskAPI(t)
    PROVE  Undisturbed
<1>1. UNCHANGED <<frame, pxMutexHolder, xTxLock, xRxLock>>
    BY DEF TaskAPI, queueVars
<1>2. DelayStart(t) \/ \E n \in Delays : vTaskDelay(t, n)
    BY DEF TaskAPI
<1>3. /\ pxCurrentTCB = t /\ ~inISR /\ pc[t] \in {"user", "delay"}
      /\ UNCHANGED <<xEventLists, priorities, pxCurrentTCB>>
      /\ pc' = [pc EXCEPT ![t] = "delay"] \/ pc' = [pc EXCEPT ![t] = "yield"] \/ pc' = [pc EXCEPT ![t] = "resumeAll"]
    <2>1. CASE DelayStart(t)
        BY <2>1 DEF DelayStart, Caller, Running, GoTo, lists
    <2>2. ASSUME NEW n \in Delays, vTaskDelay(t, n)
          PROVE /\ pxCurrentTCB = t /\ ~inISR /\ pc[t] \in {"user", "delay"}
                /\ UNCHANGED <<xEventLists, priorities, pxCurrentTCB>>
                /\ pc' = [pc EXCEPT ![t] = "yield"] \/ pc' = [pc EXCEPT ![t] = "resumeAll"]
        BY <2>2 DEF vTaskDelay, Caller, Running, GoTo, CallResumeAll, YieldIf, ReturnVia, lists
    <2> QED BY <1>2, <2>1, <2>2
<1>4. \A g \in Tasks : Ready(g) => g # t /\ SameCall(frame[g], frame'[g]) /\ pc'[g] \notin GoingToWait
    <2>1. frame[t] = NULL
        BY <1>3, Kept DEF QueueInv, Framed, InLoop, GoingToWait, Leaving
    <2>2. \A g \in Tasks \ {t} : pc'[g] = pc[g]
        BY <1>3, Kept
    <2> QED BY <1>1, <2>1, <2>2 DEF Ready, Coming, SameCall
<1>5. \A g \in Tasks \ {t} : IsReady(g) => IsReady(g)'
    <2>1. CASE UNCHANGED xLists
        BY <2>1 DEF IsReady
    <2>2. CASE ~UNCHANGED xLists
        <3>1. PICK n \in Delays : vTaskDelay(t, n)
            BY <1>2, <2>2 DEF DelayStart, lists
        <3>2. /\ pc[t] = "delay" /\ prvAddCurrentTaskToDelayedList(t, WakeTime(n))
              /\ UNCHANGED <<priorities, uxTopReadyPriority>> /\ n \in Ticks
            BY <2>2, <3>1, QueueAssumption DEF vTaskDelay, Running, lists, QueueAssumption
        <3>3. t \in Tasks \ {Idle} /\ TypeOK /\ ListsGood
            BY <3>2 DEF QueueInv, Control
        <3>4. PICK l \in {DelayedTaskList, OverflowDelayedTaskList} : TakesTo(xLists, xLists', t, l)
            BY <3>2, <3>3, SleptFor
        <3>5. UNCHANGED <<uxPriority, uxBasePriority, uxTopReadyPriority>>
            BY <3>2 DEF priorities
        <3> QED BY <3>3, <3>4, <3>5, Slept
    <2> QED BY <2>1, <2>2
<1>6. pc'[t] \in {"delay", "yield", "resumeAll"}
    BY <1>3, Kept
<1>7. \A g \in Tasks : Ready(g) => IsReady(g)'
    BY <1>4, <1>5 DEF Ready
<1> QED BY <1>1, <1>3, <1>4, <1>6, <1>7, UndisturbedHere DEF priorities, Uncounted

(* A step of a call that moves no task between lists, and does not turn a   *)
(* task that comes for the free mutex away.                                 *)
LEMMA UndisturbedCall ==
    ASSUME QueueInv, NEW t \in Tasks, NEW at,
           pxCurrentTCB = t, pxCurrentTCB' = t, pc' = [pc EXCEPT ![t] = at], at # "place",
           pc[t] \notin {"wakeReceiver", "yieldMasked"},
           \A u \in Tasks \ {t} : frame'[u] = frame[u],
           pxMutexHolder = NULL /\ Ready(t) => frame'[t] = frame[t] /\ at \notin GoingToWait,
           xTxLock' \in {-1, 0}, xRxLock' \in {-1, 0},
           UNCHANGED <<xLists, xEventLists, priorities, pxMutexHolder>>
    PROVE  Undisturbed
<1>1. \A u \in Tasks : pc'[u] = IF u = t THEN at ELSE pc[u]
    BY Kept
<1>2. ASSUME pxMutexHolder = NULL, NEW g \in Tasks, Ready(g)
      PROVE  SameCall(frame[g], frame'[g]) /\ pc'[g] \notin GoingToWait /\ IsReady(g)'
    <2>1. frame'[g] = frame[g] /\ pc'[g] \notin GoingToWait
        BY <1>1, <1>2 DEF Ready, Coming
    <2> QED BY <1>2, <2>1 DEF Ready, IsReady, SameCall
<1> QED BY <1>1, <1>2, UndisturbedHere DEF priorities

(* Nothing is counted in the locks, so to unlock wakes nobody.              *)
LEMMA NobodyLocked ==
    ASSUME NEW e, NEW lock \in {-1, 0}, WakeForLocked(e, lock)
    PROVE  UNCHANGED xEventLists
<1> DEFINE waiting == xEventLists[e]
           n == IF lock > Len(waiting) THEN Len(waiting) ELSE lock
<1>1. ~(n > 0)
    BY SMT
<1> QED BY <1>1 DEF WakeForLocked

(* The calls that leave a mutex where it is.                                *)
LEMMA CallUndisturbed ==
    ASSUME QueueInv, QueueInv', QueueIsMutex, Uncounted, NEW t \in Tasks,
           \/ \E op \in Operations, m \in Messages, n \in BlockTimes[t] : CallQueue(t, op, m, n)
           \/ TakeAgain(t) \/ \E m \in Messages : xQueueGiveMutexRecursive(t, m)
           \/ GiveUp(t) \/ WillWait(t) \/ SuspendToBlock(t) \/ prvLockQueue(t)
           \/ LookAgain(t) \/ prvUnlockQueue(t)
    PROVE  Undisturbed
<1>0. /\ xTxLock \in {-1, 0} /\ xRxLock \in {-1, 0}
      /\ \A f : SetFrame(t, f) => \A u \in Tasks \ {t} : frame'[u] = frame[u]
      /\ UNCHANGED frame => \A u \in Tasks : frame'[u] = frame[u]
    BY Kept DEF Uncounted, SetFrame
<1>1. CASE \/ \E op \in Operations, m \in Messages, n \in BlockTimes[t] : CallQueue(t, op, m, n)
           \/ TakeAgain(t) \/ \E m \in Messages : xQueueGiveMutexRecursive(t, m)
    <2>1. CASE \E op \in Operations, m \in Messages, n \in BlockTimes[t] : CallQueue(t, op, m, n)
        <3>1. /\ pxCurrentTCB = t /\ pxCurrentTCB' = t /\ pc[t] = "user" /\ pc' = [pc EXCEPT ![t] = "top"]
              /\ UNCHANGED <<xLists, xEventLists, priorities, pxMutexHolder, xTxLock, xRxLock>>
              /\ \E f : SetFrame(t, f)
            BY <2>1 DEF CallQueue, Caller, Running, GoTo, calm, lists, locks, mutex
        <3>2. ~Ready(t)
            BY <3>1 DEF QueueInv, Framed, InLoop, GoingToWait, Leaving, Ready, Coming
        <3>3. \A u \in Tasks \ {t} : frame'[u] = frame[u]
            BY <1>0, <3>1
        <3> QED BY <1>0, <3>1, <3>2, <3>3, UndisturbedCall
    <2>2. CASE TakeAgain(t)
        <3>1. /\ pxCurrentTCB = t /\ pxCurrentTCB' = t /\ pc[t] \in {"user", "taken"}
              /\ pc' = [pc EXCEPT ![t] = "user"]
              /\ UNCHANGED <<xLists, xEventLists, priorities, pxMutexHolder, xTxLock, xRxLock, frame>>
            BY <2>2 DEF TakeAgain, Caller, Running, GoTo, calm, lists, locks
        <3>2. "user" \notin GoingToWait
            BY DEF GoingToWait
        <3> QED BY <1>0, <3>1, <3>2, UndisturbedCall
    <2>3. ASSUME NEW m \in Messages, xQueueGiveMutexRecursive(t, m) PROVE Undisturbed
        <3>1. /\ pxCurrentTCB = t /\ pxCurrentTCB' = t /\ pc[t] = "user" /\ pxMutexHolder = t
              /\ UNCHANGED <<xLists, xEventLists, priorities, pxMutexHolder, xTxLock, xRxLock>>
              /\ \/ pc' = [pc EXCEPT ![t] = "top"] /\ \E f : SetFrame(t, f)
                 \/ UNCHANGED <<pc, frame>>
            BY <2>3 DEF xQueueGiveMutexRecursive, Caller, Running, GoTo, calm, lists, locks
        <3>2. pxMutexHolder # NULL
            BY <3>1, Typed DEF QueueInv
        <3>3. \A u \in Tasks \ {t} : frame'[u] = frame[u]
            BY <1>0, <3>1
        <3>4. PICK at \in {"user", "top"} : pc' = [pc EXCEPT ![t] = at]
            BY <3>1, Kept
        <3> QED BY <1>0, <3>1, <3>2, <3>3, <3>4, UndisturbedCall
    <2> QED BY <1>1, <2>1, <2>2, <2>3
<1>2. CASE GiveUp(t) \/ WillWait(t)
    <2>1. /\ pxCurrentTCB = t /\ pxCurrentTCB' = t /\ pc[t] = "top"
          /\ IF IsSend(t) THEN IsQueueFull ELSE IsQueueEmpty
          /\ pc' = [pc EXCEPT ![t] = "user"] \/ pc' = [pc EXCEPT ![t] = "suspend"]
          /\ UNCHANGED <<xLists, xEventLists, priorities, pxMutexHolder, xTxLock, xRxLock>>
        BY <1>2 DEF GiveUp, WillWait, Running, GoTo, calm, lists, locks, mutex
    <2>2. \A u \in Tasks \ {t} : frame'[u] = frame[u]
        BY <1>0, <1>2 DEF GiveUp, WillWait
    <2>3. ~(pxMutexHolder = NULL /\ Ready(t))
        <3>1. pxMutexHolder = NULL => uxMessagesWaiting = 1
            BY DEF QueueInv, MutexFacts, MutexTrue, HolderCountsTrue
        <3>2. Ready(t) => ~IsSend(t)
            BY EventNames DEF Ready, Coming
        <3> QED BY <2>1, <3>1, <3>2 DEF IsQueueEmpty
    <2>4. PICK at \in {"user", "suspend"} : pc' = [pc EXCEPT ![t] = at]
        BY <2>1
    <2> QED BY <1>0, <2>1, <2>2, <2>3, <2>4, UndisturbedCall
<1>3. CASE SuspendToBlock(t) \/ prvLockQueue(t) \/ LookAgain(t)
    <2>1. /\ pxCurrentTCB = t /\ pxCurrentTCB' = t /\ pc[t] \in {"suspend", "lock", "look"}
          /\ UNCHANGED <<xLists, xEventLists, priorities, pxMutexHolder>>
        BY <1>3 DEF SuspendToBlock, prvLockQueue, LookAgain, Running, lists, queueVars, mutex
    <2>2. PICK at \in {"lock", "unlockTx", "look", "inherit"} : pc' = [pc EXCEPT ![t] = at]
        <3>1. CASE SuspendToBlock(t)
            BY <3>1 DEF SuspendToBlock, GoTo
        <3>2. CASE prvLockQueue(t)
            BY <3>2 DEF prvLockQueue, GoTo
        <3>3. CASE LookAgain(t)
            BY <3>3 DEF LookAgain, GoTo
        <3> QED BY <1>3, <3>1, <3>2, <3>3
    <2>3. \A u \in Tasks \ {t} : frame'[u] = frame[u]
        BY <1>0, <1>3 DEF SuspendToBlock, prvLockQueue, LookAgain, queueVars
    <2>4. xTxLock' \in {-1, 0} /\ xRxLock' \in {-1, 0}
        <3>1. CASE prvLockQueue(t)
            BY <1>0, <3>1 DEF prvLockQueue, queueUNLOCKED, queueLOCKED_UNMODIFIED
        <3>2. CASE SuspendToBlock(t) \/ LookAgain(t)
            BY <1>0, <3>2 DEF SuspendToBlock, LookAgain, queueVars
        <3> QED BY <1>3, <3>1, <3>2
    <2>5. ~Ready(t)
        BY <2>1 DEF Ready, Coming, GoingToWait
    <2> QED BY <2>1, <2>2, <2>3, <2>4, <2>5, UndisturbedCall
<1>4. CASE prvUnlockQueue(t)
    <2>1. PICK at \in {"unlockRx", "resumeAll"}, e \in EventLists, lock \in {-1, 0} :
              /\ pxCurrentTCB = t /\ pxCurrentTCB' = t /\ pc[t] \in {"unlockTx", "unlockRx"}
              /\ pc' = [pc EXCEPT ![t] = at] /\ WakeForLocked(e, lock)
              /\ UNCHANGED <<xLists, priorities, pxMutexHolder, frame>>
              /\ xTxLock' \in {-1, 0} /\ xRxLock' \in {-1, 0}
        BY <1>0, <1>4, EventNames DEF prvUnlockQueue, Running, GoTo, mutex, queueUNLOCKED
    <2>2. UNCHANGED xEventLists
        BY <2>1, NobodyLocked
    <2>3. at \notin GoingToWait
        BY DEF GoingToWait
    <2> QED BY <2>1, <2>2, <2>3, UndisturbedCall
<1> QED BY <1>1, <1>2, <1>3, <1>4

(* A change of the value of a task that is not in a list.                   *)
LEMMA SortedStill ==
    ASSUME NEW s \in Seq(Tasks), NEW t \in Tasks, ~In(t, s), NEW v, NEW w,
           \A u \in Tasks \ {t} : w[u] = v[u], Sorted(s, v)
    PROVE  Sorted(s, w)
<1>1. \A n \in DOMAIN s : s[n] \in Tasks \ {t}
    BY DEF In
<1>2. \A n \in DOMAIN s : w[s[n]] = v[s[n]]
    BY <1>1
<1> QED BY <1>2 DEF Sorted

(* The priority of a task that does not wait changes with its event item's  *)
(* value.                                                                   *)
LEMMA Revalued ==
    ASSUME QueueInv, WaitInOrder, NEW x \in Tasks, NEW p, ~In(x, xEventLists[Waiting.receive]),
           uxPriority' = [uxPriority EXCEPT ![x] = p],
           xEventValue' = [xEventValue EXCEPT ![x] = configMAX_PRIORITIES - p],
           UNCHANGED xEventLists
    PROVE  WaitInOrder'
<1>1. /\ \A u \in Tasks : uxPriority'[u] = IF u = x THEN p ELSE uxPriority[u]
      /\ \A u \in Tasks : xEventValue'[u] = IF u = x THEN configMAX_PRIORITIES - p ELSE xEventValue[u]
    BY Typed DEF QueueInv
<1>2. \A u \in Tasks : xEventValue'[u] = configMAX_PRIORITIES - uxPriority'[u]
    BY <1>1 DEF WaitInOrder
<1>3. xEventLists[Waiting.receive] \in Seq(Tasks)
    BY EventNames, Typed DEF QueueInv
<1>4. Sorted(xEventLists[Waiting.receive], xEventValue) /\ \A u \in Tasks \ {x} : xEventValue'[u] = xEventValue[u]
    BY <1>1 DEF WaitInOrder
<1>5. Sorted(xEventLists[Waiting.receive], xEventValue')
    <2>1. PICK s \in Seq(Tasks) : s = xEventLists[Waiting.receive]
        BY <1>3
    <2>2. PICK v, w : v = xEventValue /\ w = xEventValue'
        OBVIOUS
    <2>3. ~In(x, s) /\ Sorted(s, v) /\ \A u \in Tasks \ {x} : w[u] = v[u]
        BY <1>4, <2>1, <2>2
    <2>4. Sorted(s, w)
        BY <2>3, SortedStill
    <2> QED BY <2>1, <2>2, <2>4
<1> QED BY <1>2, <1>5 DEF WaitInOrder

(* The holder gives the mutex.                                              *)
LEMMA InheritanceGiven ==
    ASSUME QueueInv, QueueIsMutex, Inheritance, NEW t \in Tasks, SendNow(t)
    PROVE  Inheritance'
<1>1. /\ pxCurrentTCB = t /\ pxCurrentTCB' = t /\ pc[t] = "top" /\ IsSend(t)
      /\ pc' = [pc EXCEPT ![t] = IF xEventLists[Waiting.receive] # <<>> THEN "wakeReceiver" ELSE "user"]
      /\ ReleaseHolder /\ UNCHANGED <<xEventLists, xTxLock, xRxLock>>
    BY DEF SendNow, Running, ReturnVia, GoTo, calm, locks, prvCopyDataToQueue
<1>2. t = pxMutexHolder /\ t # NULL
    <2>1. frame[t] # NULL
        BY <1>1 DEF QueueInv, Framed, InLoop
    <2> QED BY <1>1, <2>1, Typed DEF QueueInv, MutexFacts, MutexTrue, IsSend, SendOps
<1>3. pxMutexHolder' = NULL /\ vTaskPriorityDisinherit(t)
    BY <1>1, <1>2 DEF ReleaseHolder
<1>4. ~In(t, xEventLists[Waiting.receive])
    BY <1>1, CurrentReady, EventNames DEF Leaving
<1>5. WaitInOrder'
    <2>1. CASE UNCHANGED <<uxPriority, xEventValue>>
        BY <1>1, <2>1 DEF Inheritance, WaitInOrder
    <2>2. CASE ~UNCHANGED <<uxPriority, xEventValue>>
        <3>1. PICK p : p = uxBasePriority[t]
            OBVIOUS
        <3>2. /\ uxPriority' = [uxPriority EXCEPT ![t] = p]
              /\ xEventValue' = [xEventValue EXCEPT ![t] = configMAX_PRIORITIES - p]
            BY <1>3, <2>2, <3>1 DEF vTaskPriorityDisinherit
        <3> QED BY <1>1, <1>4, <3>2, Revalued DEF Inheritance
    <2> QED BY <2>1, <2>2
<1>6. Uncounted'
    BY <1>1 DEF Inheritance, Uncounted
<1>7. Raised'
    BY <1>3 DEF Raised
<1>8. Succession'
    BY <1>1, Kept DEF Succession
<1> QED BY <1>5, <1>6, <1>7, <1>8 DEF Inheritance

(* A task takes the mutex: of those that want it none is more important.    *)
LEMMA InheritanceTaken ==
    ASSUME QueueInv, QueueIsMutex, Inheritance, NEW t \in Tasks, ReceiveNow(t)
    PROVE  Inheritance'
<1>1. /\ pxCurrentTCB = t /\ pxCurrentTCB' = t /\ pc[t] = "top" /\ ~IsQueueEmpty
      /\ pxMutexHolder' = t
      /\ UNCHANGED <<xEventLists, uxPriority, xEventValue, xTxLock, xRxLock>>
    BY DEF ReceiveNow, Running, calm, lists, locks, priorities
<1>2. PICK at \in {"taken", "user", "wakeReceiver", "wakeSender"} : pc' = [pc EXCEPT ![t] = at]
    BY DEF ReceiveNow, ReturnVia, GoTo
<1>3. pxMutexHolder = NULL
    BY <1>1 DEF QueueInv, MutexFacts, MutexTrue, HolderCountsTrue, IsQueueEmpty
<1>4. AsImportant(t)
    <2>1. xEventLists[Waiting.receive] \in Seq(Tasks)
        BY EventNames, Typed DEF QueueInv
    <2>2. CASE xEventLists[Waiting.receive] = <<>>
        BY <2>1, <2>2, HeadIn DEF AsImportant
    <2>3. CASE xEventLists[Waiting.receive] # <<>>
        <3>1. PICK g \in Tasks : AsImportant(g) /\ Outranked(g)
            BY <1>1, <1>3, <2>3 DEF Inheritance, Succession
        <3>2. uxPriority[g] <= uxPriority[t]
            BY <1>1, <3>1 DEF Outranked
        <3>3. \A u \in Tasks : uxPriority[u] \in Nat
            BY Typed, ListNames DEF QueueInv
        <3> QED BY <3>1, <3>2, <3>3 DEF AsImportant
    <2> QED BY <2>2, <2>3
<1>5. pc'[t] # "place" /\ t # NULL
    BY <1>2, Kept, Typed DEF QueueInv
<1>6. WaitInOrder' /\ Uncounted' /\ AsImportant(t)'
    BY <1>1, <1>4 DEF Inheritance, WaitInOrder, Uncounted, AsImportant
<1>7. Raised' /\ Succession'
    BY <1>1, <1>5, <1>6 DEF Raised, Succession, AsImportant
<1> QED BY <1>6, <1>7 DEF Inheritance

(* The most important of the waiting tasks is woken.                        *)
LEMMA InheritanceWoken ==
    ASSUME QueueInv, QueueIsMutex, Inheritance, NEW t \in Tasks, WakeWaiter(t)
    PROVE  Inheritance'
<1> DEFINE e == Waiting.receive
<1>1. PICK b \in {Waiting.send, Waiting.receive} :
          /\ Running(t, IF b = Waiting.receive THEN "wakeReceiver" ELSE "wakeSender")
          /\ xTaskRemoveFromEventList(b) /\ YieldMaskedIf(t, HeadOutranksCurrent(b))
          /\ UNCHANGED <<priorities, calm, queueVars>>
    BY DEF WakeWaiter
<1>2. b = e /\ pc[t] = "wakeReceiver" /\ pxCurrentTCB = t
    <2>1. pxCurrentTCB = t /\ (b # e => pc[t] = "wakeSender") /\ (b = e => pc[t] = "wakeReceiver")
        BY <1>1 DEF Running
    <2>2. pc[t] # "wakeSender"
        BY <2>1 DEF QueueInv, Locking, MutexFacts, MutexTrue
    <2> QED BY <2>1, <2>2
<1>3. xEventLists[e] # <<>> /\ xEventLists[e] \in Seq(Tasks) /\ uxSchedulerSuspended = 0 /\ e \in EventLists
    BY <1>2, EventNames, Typed DEF QueueInv, Locking, Control, Suspending
<1>4. PICK x \in Tasks : x = Head(xEventLists[e]) /\ In(x, xEventLists[e]) /\ xEventLists[e][1] = x
    BY <1>3, HeadIn
<1>5. /\ xEventLists' = EventRemoved(x)
      /\ prvAddTaskToReadyQueue(GenericRemoved(x), x, uxPriority[x])
    BY <1>1, <1>2, <1>3, <1>4 DEF xTaskRemoveFromEventList
<1>6. UNCHANGED <<uxPriority, uxBasePriority, xEventValue, pxCurrentTCB, pxMutexHolder, xTxLock, xRxLock, frame>>
    BY <1>1 DEF priorities, calm, queueVars
<1>7. \A u \in Tasks : pc'[u] = IF u = t THEN (IF HeadOutranksCurrent(e) THEN "yieldMasked" ELSE "user") ELSE pc[u]
    BY <1>1, <1>2, Kept DEF YieldMaskedIf, ReturnVia, GoTo
<1>8. /\ \A u \in Tasks : \A f \in EventLists : In(u, xEventLists'[f]) => u # x /\ In(u, xEventLists[f])
      /\ xEventLists[PendingReadyList] = <<>> => xEventLists'[PendingReadyList] = <<>>
      /\ \A value : Sorted(xEventLists[e], value) => Sorted(xEventLists'[e], value)
    <2>1. \A u \in Tasks : \A f \in EventLists : In(u, xEventLists'[f]) => u # x /\ In(u, xEventLists[f])
        BY <1>5, EventNames, EventRemovedIt, Typed DEF QueueInv, EventsGood
    <2> QED BY <1>5, <2>1, UndisturbedLists
<1>9. WaitInOrder' /\ Uncounted'
    BY <1>6, <1>8 DEF Inheritance, WaitInOrder, Uncounted
<1>10. Raised'
    <2> SUFFICES ASSUME pxMutexHolder # NULL PROVE AsImportant(pxMutexHolder)' /\ pc'[pxCurrentTCB'] # "place"
        BY <1>6 DEF Raised
    <2>1. pc'[pxCurrentTCB'] # "place"
        BY <1>2, <1>6, <1>7
    <2>2. AsImportant(pxMutexHolder)
        BY DEF Inheritance, Raised
    <2>3. AsImportant(pxMutexHolder)'
        BY <1>3, <1>6, <1>8, <2>2 DEF AsImportant
    <2> QED BY <2>1, <2>3
<1>11. x # t
    BY <1>2, <1>3, <1>4, CurrentReady, EventNames DEF Leaving
<1>12. Ready(x)'
    <2>1. x \in Coming(e)'
        BY <1>3, <1>4, <1>6, <1>7, <1>8, <1>11, WaiterComes
    <2>2. /\ TypeOK /\ ListsGood /\ uxPriority[x] \in Priorities /\ (x = Idle => uxPriority[x] = 0)
          /\ \A u \in Tasks \ {x} : uxPriority'[u] = uxPriority[u]
          /\ uxPriority'[x] = uxPriority[x]
        BY <1>6, Typed DEF QueueInv, ListsGood
    <2>3. IsReady(x)'
        BY <1>5, <1>6, <2>2, ReadiedIt
    <2> QED BY <2>1, <2>3 DEF Ready
<1>13. AsImportant(x)
    <2> SUFFICES ASSUME NEW u \in Tasks, In(u, xEventLists[e]) PROVE uxPriority[u] <= uxPriority[x]
        BY DEF AsImportant
    <2>1. PICK n \in DOMAIN xEventLists[e] : xEventLists[e][n] = u
        BY DEF In
    <2>2. /\ xEventValue[x] = configMAX_PRIORITIES - uxPriority[x]
          /\ xEventValue[u] = configMAX_PRIORITIES - uxPriority[u]
          /\ Sorted(xEventLists[e], xEventValue)
        BY DEF Inheritance, WaitInOrder
    <2>3. uxPriority[u] \in Nat /\ uxPriority[x] \in Nat /\ configMAX_PRIORITIES \in Nat
        BY Typed, ListNames, KernelAssumption DEF QueueInv, KernelAssumption
    <2>4. n \in Nat /\ (n = 1 \/ 1 < n) /\ 1 \in DOMAIN xEventLists[e]
        BY <1>3, <2>1
    <2>5. xEventValue[x] <= xEventValue[u]
        <3>1. CASE n = 1
            BY <1>4, <2>1, <2>2, <2>3, <3>1
        <3>2. CASE 1 < n
            BY <1>4, <2>1, <2>2, <2>4, <3>2 DEF Sorted
        <3> QED BY <2>4, <3>1, <3>2
    <2> QED BY <2>2, <2>3, <2>5
<1>14. AsImportant(x)'
    BY <1>3, <1>6, <1>8, <1>13 DEF AsImportant
<1>15. Outranked(x)'
    <2>1. CASE HeadOutranksCurrent(e)
        BY <1>2, <1>6, <1>7, <2>1 DEF Outranked
    <2>2. CASE ~HeadOutranksCurrent(e)
        <3>1. uxPriority[x] \in Nat /\ uxPriority[t] \in Nat
            BY Typed, ListNames DEF QueueInv
        <3>2. ~(uxPriority[x] >= uxPriority[t])
            BY <1>2, <1>4, <2>2 DEF HeadOutranksCurrent
        <3> QED BY <1>2, <1>6, <3>1, <3>2 DEF Outranked
    <2> QED BY <2>1, <2>2
<1>16. Succession'
    BY <1>12, <1>14, <1>15 DEF Succession
<1> QED BY <1>9, <1>10, <1>16 DEF Inheritance

(* The holder of a mutex does not wait for it.                              *)
LEMMA HolderWaitsNot ==
    ASSUME QueueInv, QueueIsMutex, NEW h \in Tasks, h = pxMutexHolder
    PROVE  ~In(h, xEventLists[Waiting.receive])
<1>1. In(h, xEventLists[Waiting.receive]) => frame[h] # NULL /\ ~IsSend(h)
    BY EventNames DEF QueueInv, Waiters
<1>2. frame[h] # NULL => IsSend(h)
    BY DEF QueueInv, MutexFacts, MutexTrue
<1> QED BY <1>1, <1>2

(* A task that is about to wait lends its priority.                         *)
LEMMA InheritanceLent ==
    ASSUME QueueInv, QueueIsMutex, Inheritance, NEW t \in Tasks, Inherit(t)
    PROVE  Inheritance'
<1>1. /\ pxCurrentTCB = t /\ pxCurrentTCB' = t /\ pc[t] = "inherit" /\ vTaskPriorityInherit(pxMutexHolder)
      /\ pc' = [pc EXCEPT ![t] = "place"]
      /\ UNCHANGED <<xEventLists, xRxLock, xTxLock, pxMutexHolder>>
    BY DEF Inherit, Running, GoTo, calm, queueVars
<1>2. PICK h \in Tasks : h = pxMutexHolder /\ h # NULL /\ h # t
    <2>1. pxMutexHolder # NULL
        BY <1>1 DEF QueueInv, MutexFacts, MutexTrue, HolderCountsTrue
    <2>2. frame[t] # NULL
        BY <1>1 DEF QueueInv, Framed, InLoop, GoingToWait
    <2>3. pxMutexHolder # t
        BY <1>1, <2>2, MutexWaiters
    <2> QED BY <2>1, <2>3, Kept
<1>3. ~In(h, xEventLists[Waiting.receive])
    BY <1>2, HolderWaitsNot
<1>4. PICK p : p = uxPriority[t]
    OBVIOUS
<1>5. \A u \in Tasks : uxPriority[u] \in Nat
    BY Typed, ListNames DEF QueueInv
<1>6. /\ WaitInOrder' /\ uxPriority'[h] >= uxPriority[h] /\ uxPriority'[h] >= p
      /\ \A u \in Tasks \ {h} : uxPriority'[u] = uxPriority[u]
    <2>1. CASE uxPriority[h] < p
        <3>1. /\ uxPriority' = [uxPriority EXCEPT ![h] = p]
              /\ xEventValue' = [xEventValue EXCEPT ![h] = configMAX_PRIORITIES - p]
            BY <1>1, <1>2, <1>4, <2>1 DEF vTaskPriorityInherit
        <3>2. WaitInOrder'
            BY <1>1, <1>3, <3>1, Revalued DEF Inheritance
        <3>3. uxPriority'[h] = p /\ \A u \in Tasks \ {h} : uxPriority'[u] = uxPriority[u]
            BY <3>1, Typed DEF QueueInv
        <3> QED BY <1>4, <1>5, <2>1, <3>2, <3>3
    <2>2. CASE ~(uxPriority[h] < p)
        <3>1. UNCHANGED <<uxPriority, xEventValue>>
            BY <1>1, <1>2, <1>4, <2>2 DEF vTaskPriorityInherit
        <3>2. WaitInOrder'
            BY <1>1, <3>1 DEF Inheritance, WaitInOrder
        <3> QED BY <1>4, <1>5, <2>2, <3>1, <3>2
    <2> QED BY <2>1, <2>2
<1>7. Uncounted'
    BY <1>1 DEF Inheritance, Uncounted
<1>8. AsImportant(h)'
    <2>1. AsImportant(h)
        BY <1>2 DEF Inheritance, Raised
    <2> SUFFICES ASSUME NEW u \in Tasks, In(u, xEventLists[Waiting.receive])
                 PROVE  uxPriority'[u] <= uxPriority'[h]
        BY <1>1 DEF AsImportant
    <2>2. u # h /\ uxPriority[u] <= uxPriority[h]
        BY <1>3, <2>1 DEF AsImportant
    <2>3. uxPriority'[u] = uxPriority[u] /\ uxPriority[u] \in Nat /\ uxPriority[h] \in Nat
        BY <1>5, <1>6, <2>2
    <2>4. uxPriority'[h] \in Nat
        <3>1. uxPriority'[h] = p \/ uxPriority'[h] = uxPriority[h]
            BY <1>1, <1>2, <1>4, Typed DEF vTaskPriorityInherit, QueueInv
        <3> QED BY <1>4, <1>5, <3>1
    <2> QED BY <1>6, <2>2, <2>3, <2>4
<1>9. Raised'
    <2>1. pxMutexHolder' = h /\ uxPriority'[t] <= uxPriority'[h]
        BY <1>1, <1>2, <1>4, <1>6
    <2> QED BY <1>1, <1>8, <2>1 DEF Raised, AsImportant
<1>10. Succession'
    BY <1>1, <1>2 DEF Succession
<1> QED BY <1>6, <1>7, <1>9, <1>10 DEF Inheritance

(* And waits.                                                               *)
LEMMA InheritanceAwaited ==
    ASSUME QueueInv, QueueIsMutex, Inheritance, NEW t \in Tasks, Block(t)
    PROVE  Inheritance'
<1> DEFINE e == Waiting.receive
<1>0. pxCurrentTCB = t /\ pc[t] = "place" /\ pxMutexHolder # NULL
    BY DEF Block, Running, QueueInv, MutexFacts, MutexTrue, HolderCountsTrue
<1>1. ~IsSend(t)
    <2>1. frame[t] # NULL
        BY <1>0 DEF QueueInv, Framed, InLoop, GoingToWait
    <2> QED BY <1>0, <2>1, MutexWaiters
<1>2. /\ pxCurrentTCB' = t /\ pc' = [pc EXCEPT ![t] = "unlockTx"]
      /\ xEventLists' = [xEventLists EXCEPT ![e] = InsertByValue(xEventLists[e], t, xEventValue)]
      /\ UNCHANGED <<uxPriority, xEventValue, pxMutexHolder, xTxLock, xRxLock>>
    BY <1>0, <1>1 DEF Block, vTaskPlaceOnEventList, Running, GoTo, queueVars, priorities
<1>3. /\ e \in ItemLists /\ xEventLists \in [ItemLists -> Seq(Tasks)]
      /\ xEventLists[e] \in Seq(Tasks) /\ Once(xEventLists[e]) /\ ~In(t, xEventLists[e])
      /\ xEventValue \in [Tasks -> Nat]
    <2>1. ~In(t, xEventLists[e])
        BY <1>0, EventNames, CurrentReady DEF Leaving
    <2>2. xEventValue \in [Tasks -> 1..configMAX_PRIORITIES] /\ configMAX_PRIORITIES \in Nat
        BY Typed, KernelAssumption DEF QueueInv, KernelAssumption
    <2>3. xEventValue \in [Tasks -> Nat]
        BY <2>2
    <2> QED BY <2>1, <2>3, EventNames, Typed DEF QueueInv, EventsGood
<1>4. PICK r : r = InsertByValue(xEventLists[e], t, xEventValue)
    OBVIOUS
<1>5. /\ Sorted(xEventLists[e], xEventValue) => Sorted(r, xEventValue)
      /\ \A u \in Tasks : In(u, r) <=> u = t \/ In(u, xEventLists[e])
    BY <1>3, <1>4, InsertIt
<1>6. xEventLists'[e] = r /\ xEventLists'[PendingReadyList] = xEventLists[PendingReadyList]
    BY <1>2, <1>3, <1>4, EventNames
<1>7. WaitInOrder' /\ Uncounted'
    BY <1>2, <1>5, <1>6 DEF Inheritance, WaitInOrder, Uncounted
<1>8. PICK h \in Tasks : h = pxMutexHolder
    BY <1>0, Kept
<1>9. AsImportant(h) /\ uxPriority[t] <= uxPriority[h]
    BY <1>0, <1>8 DEF Inheritance, Raised
<1>10. AsImportant(h)'
    BY <1>2, <1>5, <1>6, <1>9 DEF AsImportant
<1>11. pc'[t] # "place" /\ pxMutexHolder' = h
    BY <1>2, <1>8, Kept
<1>12. Raised'
    BY <1>2, <1>10, <1>11 DEF Raised, AsImportant
<1>13. Succession'
    BY <1>0, <1>2 DEF Succession
<1> QED BY <1>7, <1>12, <1>13 DEF Inheritance

(* Every step of a mutex keeps the inheritance.                             *)
LEMMA InheritanceStep ==
    ASSUME QueueIsMutex, SettablePriorities = {}
    PROVE  QueueInv /\ QueueInv' /\ Inheritance /\ [Next]_vars => Inheritance'
<1> SUFFICES ASSUME QueueInv, QueueInv', Inheritance, [Next]_vars PROVE Inheritance'
    OBVIOUS
<1>0. Uncounted
    BY DEF Inheritance
<1>1. CASE KernelOnly \/ Tick
    BY <1>0, <1>1, KernelUndisturbed, TickUndisturbed, InheritanceUndisturbed
<1>2. CASE FromISR
    BY <1>2 DEF FromISR, xQueueGenericSendFromISR, xQueueReceiveFromISR
<1>3. ASSUME NEW t \in Tasks, TaskAPI(t) PROVE Inheritance'
    BY <1>0, <1>3, APIUndisturbed, InheritanceUndisturbed
<1>4. ASSUME NEW t \in Tasks, QueueStep(t) PROVE Inheritance'
    <2>1. CASE \/ \E op \in Operations, m \in Messages, n \in BlockTimes[t] : CallQueue(t, op, m, n)
               \/ TakeAgain(t) \/ \E m \in Messages : xQueueGiveMutexRecursive(t, m)
               \/ GiveUp(t) \/ WillWait(t) \/ SuspendToBlock(t) \/ prvLockQueue(t)
               \/ LookAgain(t) \/ prvUnlockQueue(t)
        BY <1>0, <2>1, CallUndisturbed, InheritanceUndisturbed
    <2>2. CASE SendNow(t) \/ ReceiveNow(t) \/ WakeWaiter(t)
        BY <2>2, InheritanceGiven, InheritanceTaken, InheritanceWoken
    <2>3. CASE Inherit(t) \/ Block(t)
        BY <2>3, InheritanceLent, InheritanceAwaited
    <2> QED BY <1>4, <2>1, <2>2, <2>3 DEF QueueStep
<1>5. CASE UNCHANGED vars
    <2>1. UNCHANGED <<xEventLists, xLists, uxPriority, xEventValue, pxMutexHolder, xTxLock, xRxLock,
                      pxCurrentTCB, pc, frame>>
        BY <1>5 DEF vars, kernelVars, queueVars, lists, priorities, calls
    <2> QED BY <2>1 DEF Inheritance, WaitInOrder, Uncounted, Raised, Succession, AsImportant, Ready,
                        Outranked, Coming, IsReady, IsSend
<1> QED BY <1>1, <1>2, <1>3, <1>4, <1>5 DEF Next

(* Before the first call nobody holds the mutex and nobody waits.           *)
LEMMA InitInheritance == Init => Inheritance
<1> SUFFICES ASSUME Init PROVE Inheritance
    OBVIOUS
<1>1. PICK prio \in [Tasks -> Priorities] :
          /\ uxPriority = prio /\ xEventLists = [e \in ItemLists |-> <<>>]
          /\ xEventValue = [t \in Tasks |-> configMAX_PRIORITIES - prio[t]]
          /\ xRxLock = queueUNLOCKED /\ xTxLock = queueUNLOCKED /\ pxMutexHolder = NULL
    BY DEF Init
<1>2. xEventLists[Waiting.receive] = <<>> /\ xEventLists[PendingReadyList] = <<>>
    BY <1>1, EventNames
<1>3. WaitInOrder /\ Uncounted
    BY <1>1, <1>2 DEF WaitInOrder, Uncounted, Sorted, queueUNLOCKED
<1>4. Raised /\ Succession
    BY <1>1, <1>2 DEF Raised, Succession
<1> QED BY <1>3, <1>4 DEF Inheritance

(* Priority inheritance works for a mutex of any number of tasks, however   *)
(* they call, time out, are preempted and give it back (queue.c:958-969,    *)
(* tasks.c:2409-2490), as long as no task sets priorities meanwhile: the    *)
(* holder is at least as important as every task that waits.  For a queue   *)
(* that is no mutex there is nothing to show, nobody holds it.              *)
THEOREM HoldersAreRaised == SettablePriorities = {} /\ Spec => []NoPriorityInversion
<1>1. CASE QueueIsMutex /\ SettablePriorities = {}
    <2>1. Init => QueueInv /\ Inheritance
        BY InitGood, InitInheritance
    <2>2. QueueInv /\ Inheritance /\ [Next]_vars => QueueInv' /\ Inheritance'
        BY <1>1, StepGood, InheritanceStep
    <2>3. QueueInv /\ Inheritance => NoPriorityInversion
        <3> SUFFICES ASSUME QueueInv, Inheritance, pxMutexHolder # NULL,
                            NEW n \in DOMAIN xEventLists[Waiting.receive]
                     PROVE  uxPriority[pxMutexHolder] >= uxPriority[xEventLists[Waiting.receive][n]]
            BY DEF NoPriorityInversion
        <3>1. xEventLists[Waiting.receive] \in Seq(Tasks)
            BY EventNames, Typed DEF QueueInv
        <3>2. PICK u \in Tasks : u = xEventLists[Waiting.receive][n]
            BY <3>1
        <3>3. uxPriority[u] <= uxPriority[pxMutexHolder]
            BY <3>2 DEF Inheritance, Raised, AsImportant, In
        <3>4. pxMutexHolder \in Tasks /\ uxPriority[u] \in Nat /\ uxPriority[pxMutexHolder] \in Nat
            BY Kept, Typed, ListNames DEF QueueInv
        <3> QED BY <3>2, <3>3, <3>4
    <2> QED BY <2>1, <2>2, <2>3, PTL DEF Spec
<1>2. CASE ~QueueIsMutex
    <2>1. QueueInv => NoPriorityInversion
        BY <1>2 DEF QueueInv, MutexFacts, NoMutex, NoPriorityInversion
    <2> QED BY <2>1, Invariant, PTL
<1>3. QueueIsMutex \in BOOLEAN
    BY QueueAssumption DEF QueueAssumption
<1> QED BY <1>1, <1>2, <1>3
=============================================================================
