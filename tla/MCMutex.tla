------------------------------- MODULE MCMutex -------------------------------
(* The mutex with three application tasks beside the idle task.  One of them *)
(* also waits with a timeout, the others for as long as it takes.           *)
EXTENDS MCQueue

CONSTANT Impatient          \* the task that may give up

MutexBlockTimes ==
    [t \in Tasks |-> IF t = Impatient THEN Waits ELSE {portMAX_DELAY}]

MutexSymmetry == Permutations(Tasks \ {Idle, Impatient})
=============================================================================
