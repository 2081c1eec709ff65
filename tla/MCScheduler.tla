---------------------------- MODULE MCScheduler ----------------------------
(* Scheduler with two application tasks beside the idle task.  The view     *)
(* leaves out what the code will overwrite before it reads it: the wake     *)
(* time of a task that is not delayed, the priority of a free control       *)
(* block, the return address of a task that is in no call.                  *)
EXTENDS Scheduler, TLC

Symmetry == Permutations(Tasks \ {Idle})

InCall(t) == pc[t] \in {"resumeAll", "drain", "yield", "yieldMasked"}
View == <<xLists, xEventLists, uxTopReadyPriority, clock, suspension, pxCurrentTCB,
          pc, interrupt, xYieldRequired /\ pc[pxCurrentTCB] = "drain",
          [t \in Tasks |-> IF IsDelayed(t) THEN <<xTimeToWake[t], due[t]>> ELSE <<>>],
          [t \in Tasks |-> IF Exists(t) THEN <<uxPriority[t], uxBasePriority[t], xEventValue[t]>>
                           ELSE <<>>],
          [t \in Tasks |-> IF InCall(t) THEN <<ret[t], yieldAfter[t]>> ELSE <<>>]>>
=============================================================================
