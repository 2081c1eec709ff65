------------------------------ MODULE MCTimers ------------------------------
(***************************************************************************)
(* The two timer services, each with its own time: the timers of FreeRTOS  *)
(* and the timeouts of lwIP.  They are checked in one run: in a behaviour  *)
(* one of them moves and the other stays as it was at first.               *)
(***************************************************************************)
EXTENDS Timers, SysTimeouts

VARIABLE part

allVars == <<part, vars, timeoutVars>>

\* The intervals of SysTimeouts, in milliseconds.
MCInterval ==
    [h \in Handlers |-> CASE h = App -> 2 [] h = Tcp -> 4 [] OTHER -> 6]

ServicesInit ==
    /\ Init /\ TimeoutsInit
    /\ \/ part = "kernel" /\ phase = 0
       \/ part = "lwip" /\ xTimerPeriodInTicks = [t \in Timers |-> CHOOSE p \in Periods : TRUE]

KernelMoves(A) == part = "kernel" /\ A /\ UNCHANGED <<part, timeoutVars>>
LwipMoves(A) == part = "lwip" /\ A /\ UNCHANGED <<part, vars>>

\* The fairness of each service; only one moves, so their conditions join.
ServiceRuns == KernelMoves(ServiceTask) \/ LwipMoves(Thread)
TimePasses == KernelMoves(Tick) \/ LwipMoves(Millisecond)

ServicesSpec ==
    /\ ServicesInit
    /\ [][KernelMoves(Next) \/ LwipMoves(TimeoutsNext)]_allVars
    /\ WF_allVars(ServiceRuns) /\ WF_allVars(TimePasses)

=============================================================================
