------------------------------- MODULE MCQueue -------------------------------
(* Queue with two or three application tasks beside the idle task, one      *)
(* message (what the storage does with several is QueueStorage's business)  *)
(* and a view that leaves out what the code overwrites before it reads it:  *)
(* dead locals, stale wake times, and the storage pointers.                 *)
EXTENDS Queue, TLC

CONSTANT Waits              \* with which all tasks call

MCBlockTimes == [t \in Tasks |-> Waits]

InCall(t) == pc[t] \notin {"user", "top", "taken", "delay"}
Timed(t) == frame[t].xEntryTimeSet /\ frame[t].xTicksToWait # portMAX_DELAY
LiveFrame(t) ==
    IF frame[t] = NULL THEN <<>>
    ELSE <<frame[t].op, frame[t].xTicksToWait,
           IF Timed(t) THEN <<frame[t].xTimeOnEntering, frame[t].wrapped, frame[t].left>>
           ELSE <<frame[t].xEntryTimeSet>> >>
View == <<xLists, xEventLists, uxTopReadyPriority, clock, suspension, pxCurrentTCB,
          priorities, pc, interrupt, xYieldRequired /\ pc[pxCurrentTCB] = "drain",
          [t \in Tasks |-> IF IsDelayed(t) THEN <<xTimeToWake[t]>> ELSE <<>>],
          [t \in Tasks |-> IF InCall(t) THEN <<ret[t], yieldAfter[t]>> ELSE <<>>],
          uxMessagesWaiting, xRxLock, xTxLock, pxMutexHolder, uxRecursiveCallCount,
          [t \in Tasks |-> LiveFrame(t)]>>

Symmetry == Permutations(Tasks \ {Idle})
=============================================================================
