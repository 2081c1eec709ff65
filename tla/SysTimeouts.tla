---------------------------- MODULE SysTimeouts ----------------------------
(***************************************************************************)
(* The timers of lwIP: core/timers.c, the wait of tcpip_thread in          *)
(* api/tcpip.c and sys_arch_mbox_fetch of the FreeRTOS port.               *)
(*                                                                         *)
(* tcpip_thread has no clock of its own.  It keeps a list of timeouts, each *)
(* relative to the one before it, and learns of time only by how long it   *)
(* waited for a message.  Real time passes in milliseconds; the kernel's   *)
(* tick counter moves every portTICK_RATE_MS of them.                      *)
(***************************************************************************)
EXTENDS Naturals, FiniteSets, Sequences, Functions

CONSTANTS
    Periodic,           \* handlers that always start themselves again
    Interval,           \* handler |-> msecs it is started with
    portTICK_RATE_MS,   \* milliseconds in a tick
    NumSysTimeout,      \* MEMP_NUM_SYS_TIMEOUT
    MboxSize,           \* bound: messages that wait at once
    MaxLost             \* bound: ticks the thread misses while a timer runs

\* the TCP timer, and a one-shot timer of an application (tcpip_timeout)
Tcp == "tcpip_tcp_timer"
App == "app"
Handlers == Periodic \cup {Tcp, App}

\* The intervals of lwIP (250, 500, 1000, 5000 and 60000 ms) are whole ticks
\* of 10 ms, and the pool has a timeout for each of its timers.
ASSUME IntervalsInTicks ==
    /\ portTICK_RATE_MS \in Nat \ {0}
    /\ \A h \in Handlers : Interval[h] \in Nat /\ Interval[h] % portTICK_RATE_MS = 0
ASSUME PoolSuffices ==
    /\ IsFiniteSet(Periodic) /\ {Tcp, App} \cap Periodic = {}
    /\ NumSysTimeout \in Nat /\ NumSysTimeout >= Cardinality(Handlers)
ASSUME BoundsAreNumbers == MboxSize \in Nat /\ MaxLost \in Nat

VARIABLES
    next_timeout,           \* the list: sequence of [h, time]
    tcpip_tcp_timer_active,
    pcbs,                   \* tcp_active_pcbs || tcp_tw_pcbs
    mbox,                   \* messages in the mailbox of tcpip_thread
    thr,                    \* where tcpip_thread is
    phase,                  \* milliseconds into the current tick
    age,                    \* history: ms since the timer was started
    lost                    \* history: ticks since then outside of the wait

timeoutVars == <<next_timeout, tcpip_tcp_timer_active, pcbs, mbox, thr, phase, age, lost>>
clock == <<phase, age, lost>>

-----------------------------------------------------------------------------
(* The list. *)

\* Milliseconds until the i-th timeout, as the list has it: the sum of the
\* times up to it.
Deadlines(list) ==
    LET until[i \in 0..Len(list)] == IF i = 0 THEN 0 ELSE until[i - 1] + list[i].time
    IN until
Deadline(list, i) == Deadlines(list)[i]

Positions(list, h) == {i \in 1..Len(list) : list[i].h = h}

PoolEmpty_OneLeft(list) == Len(list) >= NumSysTimeout - 1

\* memp_malloc finds no sys_timeo: all are in the list.
PoolEmpty(list) == Len(list) = NumSysTimeout

\* sys_timeout: behind every timeout that is not later; the one after it
\* becomes relative to it.
sys_timeout(list, msecs, h) ==
    LET before == {i \in 0..Len(list) : Deadline(list, i) <= msecs}
        k == CHOOSE i \in before : \A j \in before : j <= i
        time == msecs - Deadline(list, k)
    IN IF PoolEmpty(list)
       THEN list
       ELSE [i \in 1..(Len(list) + 1) |->
                IF i <= k THEN list[i]
                ELSE IF i = k + 1 THEN [h |-> h, time |-> time]
                ELSE IF i = k + 2 THEN [list[k + 1] EXCEPT !.time = @ - time]
                ELSE list[i - 1]]

sys_untimeout_TimeLost(list, h) == SelectSeq(list, LAMBDA t : t.h # h)

\* sys_untimeout: the first match; its time goes to the next one.
sys_untimeout(list, h) ==
    IF Positions(list, h) = {}
    THEN list
    ELSE LET i == CHOOSE i \in Positions(list, h) : \A j \in Positions(list, h) : i <= j
         IN [j \in 1..(Len(list) - 1) |->
                IF j < i THEN list[j]
                ELSE IF j = i THEN [list[i + 1] EXCEPT !.time = @ + list[i].time]
                ELSE list[j + 1]]

-----------------------------------------------------------------------------
(* Time. *)

\* The thread sleeps in xQueueReceive: nothing for it yet, not timed out.
Asleep == thr.at = "wait" /\ mbox = 0 /\ thr.waited < thr.limit

Started(h) == [age |-> [age EXCEPT ![h] = 0], lost |-> [lost EXCEPT ![h] = 0]]
StartClock(h) == age' = Started(h).age /\ lost' = Started(h).lost
KeepClock == UNCHANGED <<age, lost>>

Armed(h) == Positions(next_timeout, h) # {}

\* A millisecond.  When it ends a tick the kernel counts it, and the thread's
\* wait with it.  Bound: no more than MaxLost ticks of a running timer find
\* the thread elsewhere.
Millisecond ==
    LET tick == phase = portTICK_RATE_MS - 1
        sleeps == Asleep
    IN /\ tick /\ ~sleeps => \A h \in Handlers : Armed(h) => lost[h] < MaxLost
       /\ phase' = (phase + 1) % portTICK_RATE_MS
       /\ age' = [h \in Handlers |-> IF Armed(h) THEN age[h] + 1 ELSE 0]
       /\ lost' = [h \in Handlers |-> IF Armed(h) /\ tick /\ ~sleeps THEN lost[h] + 1
                                      ELSE lost[h]]
       /\ thr' = IF tick /\ thr.at = "wait" /\ next_timeout # <<>>
                 THEN [thr EXCEPT !.waited = @ + 1] ELSE thr
       /\ UNCHANGED <<next_timeout, tcpip_tcp_timer_active, pcbs, mbox>>

-----------------------------------------------------------------------------
(* tcpip_thread. *)

At(where) == [at |-> where, waited |-> 0, limit |-> 0, h |-> App]

\* The timeout given to xQueueReceive, in ticks.  An empty list waits for
\* ever; that wait has no end, and its length is not used.
FetchTicks(list) == list[1].time \div portTICK_RATE_MS

\* sys_timeouts_mbox_fetch asks for a message, or finds the first timeout due.
Fetch ==
    /\ thr.at = "again"
    /\ IF next_timeout # <<>> /\ next_timeout[1].time = 0
       THEN thr' = At("expire")
       ELSE thr' = [At("wait") EXCEPT
                       !.limit = IF next_timeout = <<>> THEN 1 ELSE FetchTicks(next_timeout)]
    /\ UNCHANGED <<next_timeout, tcpip_tcp_timer_active, pcbs, mbox>> /\ UNCHANGED clock

\* What sys_arch_mbox_fetch returns with a message: the ticks of its wait.
Elapsed == thr.waited * portTICK_RATE_MS

\* The first timeout after a wait that a message ended.
AfterWait(list, time_needed) ==
    IF list = <<>> THEN list
    ELSE [list EXCEPT ![1].time = IF time_needed < @ THEN @ - time_needed ELSE 0]

\* A message ends the wait.
TakeMessage ==
    /\ thr.at = "wait" /\ mbox > 0
    /\ mbox' = mbox - 1
    /\ next_timeout' = AfterWait(next_timeout, Elapsed)
    /\ thr' = At("message")
    /\ UNCHANGED <<tcpip_tcp_timer_active, pcbs>> /\ UNCHANGED clock

\* The kernel ends the wait: the mailbox is looked at once more before.
WaitTimesOut ==
    /\ thr.at = "wait" /\ mbox = 0
    /\ next_timeout # <<>> /\ thr.waited >= thr.limit
    /\ thr' = At("expire")
    /\ UNCHANGED <<next_timeout, tcpip_tcp_timer_active, pcbs, mbox>> /\ UNCHANGED clock

\* The first timeout leaves the list and goes back to the pool.
Expire ==
    /\ thr.at = "expire"
    /\ thr' = [At("handler") EXCEPT !.h = Head(next_timeout).h]
    /\ next_timeout' = Tail(next_timeout)
    /\ UNCHANGED <<tcpip_tcp_timer_active, pcbs, mbox>> /\ UNCHANGED clock

\* arp_timer, ip_reass_timer, dhcp_timer_coarse, ...: start again.
PeriodicTimer(h) ==
    /\ thr.at = "handler" /\ thr.h = h
    /\ next_timeout' = sys_timeout(next_timeout, Interval[h], h)
    /\ StartClock(h)
    /\ thr' = At("again")
    /\ UNCHANGED <<tcpip_tcp_timer_active, pcbs, mbox, phase>>

\* tcpip_tcp_timer_active after its handler.
StaysActive(needed) == needed

\* tcpip_tcp_timer: tcp_tmr may free the last control block.
TcpTimer ==
    /\ thr.at = "handler" /\ thr.h = Tcp
    /\ pcbs' \in IF pcbs THEN BOOLEAN ELSE {FALSE}
    /\ IF pcbs'
       THEN /\ next_timeout' = sys_timeout(next_timeout, Interval[Tcp], Tcp)
            /\ StartClock(Tcp)
       ELSE UNCHANGED next_timeout /\ KeepClock
    /\ tcpip_tcp_timer_active' = StaysActive(pcbs')
    /\ thr' = At("again")
    /\ UNCHANGED <<mbox, phase>>

\* The application's handler.
AppTimer ==
    /\ thr.at = "handler" /\ thr.h = App
    /\ thr' = At("again")
    /\ UNCHANGED <<next_timeout, tcpip_tcp_timer_active, pcbs, mbox>> /\ UNCHANGED clock

-----------------------------------------------------------------------------
(* Messages. *)

Handled ==
    /\ thr.at = "message"
    /\ thr' = At("again")
    /\ UNCHANGED <<mbox, phase>>

\* TCP_REG of a control block calls tcp_timer_needed.
OpenPcb ==
    /\ Handled
    /\ pcbs' = TRUE
    /\ IF ~tcpip_tcp_timer_active
       THEN /\ tcpip_tcp_timer_active' = TRUE
            /\ next_timeout' = sys_timeout(next_timeout, Interval[Tcp], Tcp)
            /\ StartClock(Tcp)
       ELSE UNCHANGED <<tcpip_tcp_timer_active, next_timeout>> /\ KeepClock

\* The last control block goes: its timer runs out by itself.
ClosePcbs ==
    /\ Handled
    /\ pcbs' = FALSE
    /\ UNCHANGED <<tcpip_tcp_timer_active, next_timeout>> /\ KeepClock

\* TCPIP_MSG_TIMEOUT; sys_untimeout wants a handler to be used once.
StartApp ==
    /\ Handled /\ ~Armed(App)
    /\ next_timeout' = sys_timeout(next_timeout, Interval[App], App)
    /\ StartClock(App)
    /\ UNCHANGED <<tcpip_tcp_timer_active, pcbs>>

\* TCPIP_MSG_UNTIMEOUT
StopApp ==
    /\ Handled
    /\ next_timeout' = sys_untimeout(next_timeout, App)
    /\ UNCHANGED <<tcpip_tcp_timer_active, pcbs>> /\ KeepClock

\* sys_mbox_post by any other thread or interrupt.
Post ==
    /\ mbox < MboxSize
    /\ mbox' = mbox + 1
    /\ UNCHANGED <<next_timeout, tcpip_tcp_timer_active, pcbs, thr>> /\ UNCHANGED clock

-----------------------------------------------------------------------------
\* sys_timeouts_init starts the periodic timers, one by one, before the
\* thread's first wait.
TimeoutsInit ==
    /\ \E order \in Bijection(1..Cardinality(Periodic), Periodic) :
           LET list[n \in 0..Cardinality(Periodic)] ==
                   IF n = 0 THEN <<>> ELSE sys_timeout(list[n - 1], Interval[order[n]], order[n])
           IN next_timeout = list[Cardinality(Periodic)]
    /\ tcpip_tcp_timer_active = FALSE /\ pcbs = FALSE
    /\ mbox = 0
    /\ thr = At("again")
    /\ phase \in 0..portTICK_RATE_MS - 1
    /\ age = [h \in Handlers |-> 0] /\ lost = [h \in Handlers |-> 0]

HandleMessage == OpenPcb \/ ClosePcbs \/ StartApp \/ StopApp
RunHandler == TcpTimer \/ AppTimer \/ \E h \in Periodic : PeriodicTimer(h)
Thread == Fetch \/ TakeMessage \/ WaitTimesOut \/ Expire \/ RunHandler \/ HandleMessage

TimeoutsNext == Thread \/ Post \/ Millisecond

\* tcpip_thread has the highest priority of lwIP's threads, and time goes on.
TimeoutsFairness == WF_timeoutVars(Thread) /\ WF_timeoutVars(Millisecond)

TimeoutsSpec == TimeoutsInit /\ [][TimeoutsNext]_timeoutVars /\ TimeoutsFairness

-----------------------------------------------------------------------------
(* Properties. *)

TimeoutsTypeOK ==
    /\ next_timeout \in Seq([h : Handlers, time : Nat]) /\ Len(next_timeout) <= NumSysTimeout
    /\ tcpip_tcp_timer_active \in BOOLEAN /\ pcbs \in BOOLEAN
    /\ mbox \in 0..MboxSize
    /\ thr \in [at : {"again", "wait", "message", "expire", "handler"},
                waited : Nat, limit : Nat, h : Handlers]
    /\ phase \in 0..portTICK_RATE_MS - 1
    /\ age \in [Handlers -> Nat] /\ lost \in [Handlers -> 0..MaxLost]

\* What the list still has to count for h: the wait in progress counts when
\* it ends.
ToCount(h) ==
    LET i == CHOOSE i \in Positions(next_timeout, h) : TRUE
        due == thr.at = "expire"
        head == next_timeout[1].time
        counted == IF due \/ (thr.at = "wait" /\ Elapsed >= head) THEN head
                   ELSE IF thr.at = "wait" THEN Elapsed ELSE 0
    IN Deadline(next_timeout, i) - counted

\* A handler runs no more than a part of a tick before its time, however many
\* messages cut the wait into pieces and whatever is started, stopped and
\* inserted before it meanwhile (timers.c:264, 319, 465; sys_arch.c:651).
NotEarly ==
    \A h \in Handlers : Armed(h) =>
        age[h] + ToCount(h) + portTICK_RATE_MS - 1 >= Interval[h]

\* ... and is late by no more than the ticks that found the thread elsewhere
\* than in its wait: no other time is forgotten or added.
LateOnlyByLostTicks ==
    \A h \in Handlers : Armed(h) =>
        age[h] + ToCount(h) <= Interval[h] + lost[h] * portTICK_RATE_MS + portTICK_RATE_MS - 1

\* While there are TCP connections the TCP timer is in the list, once; the
\* flag says so, or it would never be started again (timers.c:68-107).
TcpTimerScheduled ==
    /\ Cardinality(Positions(next_timeout, Tcp)) +
       (IF thr.at = "handler" /\ thr.h = Tcp THEN 1 ELSE 0) =
            (IF tcpip_tcp_timer_active THEN 1 ELSE 0)
    /\ pcbs => tcpip_tcp_timer_active

\* lwIP's handlers run neither early nor later than the ticks their thread
\* missed, and TCP's whenever there is a connection.
TimeoutsKept == NotEarly /\ LateOnlyByLostTicks /\ TcpTimerScheduled

Runs(h) == thr.at = "handler" /\ thr.h = h

\* A wait of the thread has seen a tick.
WaitSeesTick == thr.at = "wait" /\ thr.waited > 0

\* Unless every tick, from some time on, finds the thread outside of its wait,
\* every periodic timer runs again and again, and the TCP timer as long as
\* there are connections: messages cannot put a timeout off
\* (timers.c:68-141, 418-472).
TimersRun ==
    []<>WaitSeesTick =>
        /\ \A h \in Periodic : []<>Runs(h)
        /\ pcbs ~> (Runs(Tcp) \/ ~pcbs)
=============================================================================
