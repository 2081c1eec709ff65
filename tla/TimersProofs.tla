---------------------------- MODULE TimersProofs ----------------------------
(***************************************************************************)
(* Software timers expire when they are due and none is lost, for any      *)
(* timers, periods and width of the tick count.                            *)
(*                                                                         *)
(* Three invariants, each resting on the one before: what the variables    *)
(* can hold (Structure), what the service task knows of the time (Times)   *)
(* and where every timer and command is (Kept).                            *)
(***************************************************************************)
EXTENDS Timers, SysTimeouts, FiniteSetTheorems, TLAPS

(* Nothing is twice in a sequence.                                          *)
Once(s) == \A m, n \in DOMAIN s : s[m] = s[n] => m = n

(* The two lists share no timer and hold each once.                         *)
AreLists(c, o) ==
    /\ c \in Seq(Timers) /\ o \in Seq(Timers) /\ Once(c) /\ Once(o)
    /\ \A t \in Timers : ~(In(t, c) /\ In(t, o))

-----------------------------------------------------------------------------
(* Sequences.                                                               *)

(* vListRemove takes out one timer and leaves the rest.                     *)
LEMMA WithoutIt ==
    ASSUME NEW s \in Seq(Timers), NEW t \in Timers, Once(s)
    PROVE  /\ Without(s, t) \in Seq(Timers) /\ Once(Without(s, t))
           /\ \A u \in Timers : In(u, Without(s, t)) <=> u # t /\ In(u, s)
           /\ Len(Without(s, t)) = Len(s) - (IF In(t, s) THEN 1 ELSE 0)
<1>1. CASE ~In(t, s)
    <2>1. Without(s, t) = s
        BY <1>1 DEF Without
    <2> QED BY <1>1, <2>1
<1>2. CASE In(t, s)
    <2> DEFINE k == CHOOSE n \in DOMAIN s : s[n] = t
               w == [n \in 1..(Len(s) - 1) |-> IF n < k THEN s[n] ELSE s[n + 1]]
    <2>1. k \in DOMAIN s /\ s[k] = t
        BY <1>2 DEF In
    <2>2. Without(s, t) = w
        BY <1>2 DEF Without
    <2> HIDE DEF k
    <2>3. Len(s) \in Nat /\ DOMAIN s = 1..Len(s) /\ k \in 1..Len(s)
        BY <2>1
    <2>4. w \in Seq(Timers) /\ Len(w) = Len(s) - 1 /\ DOMAIN w = 1..(Len(s) - 1)
        <3>1. \A n \in 1..(Len(s) - 1) : (IF n < k THEN s[n] ELSE s[n + 1]) \in Timers
            BY <2>3
        <3>2. Len(s) - 1 \in Nat
            BY <2>3
        <3> QED BY <3>1, <3>2
    <2>5. \A n \in DOMAIN w : w[n] = IF n < k THEN s[n] ELSE s[n + 1]
        BY <2>4
    <2> HIDE DEF w
    <2>6. Once(w)
        BY <2>3, <2>4, <2>5 DEF Once
    <2>7. \A u \in Timers : In(u, w) <=> u # t /\ In(u, s)
        <3>1. ASSUME NEW n \in DOMAIN w PROVE w[n] # t /\ In(w[n], s)
            BY <2>1, <2>3, <2>4, <2>5 DEF Once, In
        <3>2. ASSUME NEW m \in DOMAIN s, s[m] # t PROVE In(s[m], w)
            <4>1. CASE m < k
                BY <2>3, <2>4, <2>5, <4>1 DEF In
            <4>2. CASE m > k
                <5>1. m - 1 \in DOMAIN w /\ w[m - 1] = s[m]
                    BY <2>3, <2>4, <2>5, <4>2
                <5> QED BY <5>1 DEF In
            <4> QED BY <2>1, <2>3, <3>2, <4>1, <4>2
        <3> QED BY <3>1, <3>2 DEF In
    <2> QED BY <1>2, <2>2, <2>3, <2>4, <2>6, <2>7
<1> QED BY <1>1, <1>2

(* vListInsert adds one timer and keeps the rest.                           *)
LEMMA InsertIt ==
    ASSUME NEW s \in Seq(Timers), NEW t \in Timers, Once(s), ~In(t, s), NEW value
    PROVE  LET r == Inserted(s, t, value)
           IN  /\ r \in Seq(Timers) /\ Once(r)
               /\ \A u \in Timers : In(u, r) <=> u = t \/ In(u, s)
               /\ Len(r) = Len(s) + 1
<1> DEFINE low == {n \in DOMAIN s : value[s[n]] <= value[t]}
           k == Cardinality(low) + 1
           r == [n \in 1..(Len(s) + 1) |-> IF n < k THEN s[n] ELSE IF n = k THEN t ELSE s[n - 1]]
<1>1. Len(s) \in Nat /\ DOMAIN s = 1..Len(s) /\ \A n \in 1..Len(s) : s[n] \in Timers /\ s[n] # t
    BY DEF In
<1>2. k \in 1..(Len(s) + 1)
    <2>1. IsFiniteSet(1..Len(s)) /\ Cardinality(1..Len(s)) = Len(s)
        BY <1>1, FS_Interval
    <2>2. low \subseteq 1..Len(s)
        BY <1>1
    <2> HIDE DEF low
    <2>3. Cardinality(low) \in Nat /\ Cardinality(low) <= Len(s)
        BY <2>1, <2>2, FS_Subset, FS_CardinalityType
    <2> QED BY <1>1, <2>3
<1>3. Inserted(s, t, value) = r
    BY DEF Inserted
<1> HIDE DEF k
<1>4. r \in Seq(Timers) /\ Len(r) = Len(s) + 1 /\ DOMAIN r = 1..(Len(s) + 1)
    <2>1. \A n \in 1..(Len(s) + 1) :
             (IF n < k THEN s[n] ELSE IF n = k THEN t ELSE s[n - 1]) \in Timers
        <3> TAKE n \in 1..(Len(s) + 1)
        <3>1. CASE n < k
            BY <1>1, <1>2, <3>1
        <3>2. CASE n > k
            <4>1. n - 1 \in 1..Len(s)
                BY <1>1, <1>2, <3>2
            <4> QED BY <1>1, <1>2, <3>2, <4>1
        <3> QED BY <1>2, <3>1, <3>2
    <2>2. Len(s) + 1 \in Nat
        BY <1>1
    <2> QED BY <2>1, <2>2
<1>5. /\ \A n \in 1..(Len(s) + 1) : n < k => r[n] = s[n] /\ n \in 1..Len(s)
      /\ r[k] = t
      /\ \A n \in 1..(Len(s) + 1) : n > k => r[n] = s[n - 1] /\ n - 1 \in 1..Len(s)
    BY <1>1, <1>2
<1> HIDE DEF r
<1>6. Once(r)
    <2> SUFFICES ASSUME NEW m \in 1..(Len(s) + 1), NEW n \in 1..(Len(s) + 1), m < n, r[m] = r[n]
                 PROVE  FALSE
        BY <1>4 DEF Once
    <2>1. CASE n < k
        <3>1. m \in 1..Len(s) /\ n \in 1..Len(s) /\ s[m] = s[n]
            BY <1>2, <1>5, <2>1
        <3> QED BY <1>1, <3>1 DEF Once
    <2>2. CASE m > k
        <3>1. m - 1 \in 1..Len(s) /\ n - 1 \in 1..Len(s) /\ m - 1 < n - 1 /\ s[m - 1] = s[n - 1]
            BY <1>2, <1>5, <2>2
        <3> QED BY <1>1, <3>1 DEF Once
    <2>3. CASE n = k \/ m = k
        BY <1>1, <1>2, <1>5, <2>3
    <2>4. CASE m < k /\ n > k
        <3>1. m \in 1..Len(s) /\ n - 1 \in 1..Len(s) /\ m # n - 1
            BY <1>1, <1>2, <2>4
        <3>2. s[m] = s[n - 1]
            BY <1>5, <2>4
        <3> QED BY <1>1, <3>1, <3>2 DEF Once
    <2> QED BY <1>2, <2>1, <2>2, <2>3, <2>4
<1>7. \A u \in Timers : In(u, r) <=> u = t \/ In(u, s)
    <2>1. ASSUME NEW n \in DOMAIN r PROVE r[n] = t \/ In(r[n], s)
        <3>1. CASE n < k
            BY <1>1, <1>4, <1>5, <3>1 DEF In
        <3>2. CASE n > k
            BY <1>1, <1>4, <1>5, <3>2 DEF In
        <3> QED BY <1>2, <1>4, <1>5, <3>1, <3>2
    <2>2. In(t, r)
        BY <1>2, <1>4, <1>5 DEF In
    <2>3. ASSUME NEW m \in DOMAIN s PROVE In(s[m], r)
        <3>1. CASE m < k
            <4>1. m \in DOMAIN r
                BY <1>1, <1>2, <1>4, <3>1
            <4>2. r[m] = s[m]
                BY <1>4, <1>5, <3>1, <4>1
            <4> QED BY <4>1, <4>2 DEF In
        <3>2. CASE m >= k
            <4>1. m + 1 \in DOMAIN r /\ r[m + 1] = s[m]
                BY <1>1, <1>2, <1>4, <1>5, <3>2
            <4> QED BY <4>1 DEF In
        <3> QED BY <1>1, <1>2, <3>1, <3>2
    <2> QED BY <2>1, <2>2, <2>3 DEF In
<1> QED BY <1>3, <1>4, <1>6, <1>7

(* The head of a list that is not empty, and what is behind it.             *)
LEMMA HeadTail ==
    ASSUME NEW s \in Seq(Timers), Once(s), s # <<>>
    PROVE  /\ Head(s) \in Timers /\ In(Head(s), s)
           /\ Tail(s) \in Seq(Timers) /\ Once(Tail(s)) /\ Len(Tail(s)) = Len(s) - 1
           /\ \A u \in Timers : In(u, Tail(s)) <=> u # Head(s) /\ In(u, s)
<1> DEFINE r == Tail(s)
<1>1. /\ Len(s) \in Nat /\ Len(s) > 0 /\ DOMAIN s = 1..Len(s) /\ Head(s) = s[1]
      /\ r \in Seq(Timers) /\ Len(r) = Len(s) - 1 /\ DOMAIN r = 1..(Len(s) - 1)
      /\ \A n \in 1..(Len(s) - 1) : r[n] = s[n + 1]
    OBVIOUS
<1> HIDE DEF r
<1>2. \A n \in 1..(Len(s) - 1) : n + 1 \in 1..Len(s) /\ n + 1 # 1
    BY <1>1
<1>3. Once(r)
    <2> SUFFICES ASSUME NEW m \in 1..(Len(s) - 1), NEW n \in 1..(Len(s) - 1), r[m] = r[n]
                 PROVE  m = n
        BY <1>1 DEF Once
    <2>1. m + 1 \in DOMAIN s /\ n + 1 \in DOMAIN s /\ s[m + 1] = s[n + 1]
        BY <1>1, <1>2
    <2>2. m + 1 = n + 1
        BY <2>1 DEF Once
    <2> QED BY <2>2
<1>4. \A n \in 1..Len(s) : n # 1 => n - 1 \in 1..(Len(s) - 1) /\ (n - 1) + 1 = n
    BY <1>1
<1>5. 1 \in DOMAIN s /\ s[1] \in Timers
    BY <1>1
<1>6. ASSUME NEW u \in Timers, In(u, r) PROVE u # s[1] /\ In(u, s)
    <2>1. PICK n \in 1..(Len(s) - 1) : r[n] = u
        BY <1>1, <1>6 DEF In
    <2> QED BY <1>1, <1>2, <1>5, <2>1 DEF In, Once
<1>7. ASSUME NEW u \in Timers, u # s[1], In(u, s) PROVE In(u, r)
    <2>1. PICK n \in 1..Len(s) : s[n] = u
        BY <1>1, <1>7 DEF In
    <2>2. n # 1
        BY <1>7, <2>1
    <2>3. n - 1 \in 1..(Len(s) - 1) /\ r[n - 1] = s[(n - 1) + 1] /\ (n - 1) + 1 = n
        BY <1>1, <1>4, <2>2
    <2> QED BY <1>1, <2>1, <2>3 DEF In
<1> QED BY <1>1, <1>3, <1>5, <1>6, <1>7 DEF In, r

(* prvInsertTimerInActiveList puts the timer in the list it is told.        *)
LEMMA PlaceIt ==
    ASSUME NEW c, NEW o, AreLists(c, o), NEW t \in Timers, ~In(t, c), ~In(t, o),
           NEW expiry \in Ticks, NEW list, xTimerListItem \in [Timers -> Ticks],
           prvInsertTimerInActiveList(t, c, o, expiry, list)
    PROVE  /\ AreLists(pxCurrentTimerList', pxOverflowTimerList')
           /\ xTimerListItem' \in [Timers -> Ticks]
           /\ xTimerListItem'[t] = expiry
           /\ \A u \in Timers :
                 /\ u # t => xTimerListItem'[u] = xTimerListItem[u]
                 /\ In(u, pxCurrentTimerList') <=> In(u, c) \/ (u = t /\ list = "current")
                 /\ In(u, pxOverflowTimerList') <=> In(u, o) \/ (u = t /\ list = "overflow")
           /\ Len(pxCurrentTimerList') + Len(pxOverflowTimerList')
                 = Len(c) + Len(o) + (IF list \in {"current", "overflow"} THEN 1 ELSE 0)
<1>1. /\ xTimerListItem' \in [Timers -> Ticks] /\ xTimerListItem'[t] = expiry
      /\ \A u \in Timers : u # t => xTimerListItem'[u] = xTimerListItem[u]
    BY DEF prvInsertTimerInActiveList
<1> DEFINE ic == Inserted(c, t, xTimerListItem')
           io == Inserted(o, t, xTimerListItem')
<1>2. /\ ic \in Seq(Timers) /\ Once(ic) /\ Len(ic) = Len(c) + 1
      /\ \A u \in Timers : In(u, ic) <=> u = t \/ In(u, c)
    BY InsertIt DEF AreLists
<1>3. /\ io \in Seq(Timers) /\ Once(io) /\ Len(io) = Len(o) + 1
      /\ \A u \in Timers : In(u, io) <=> u = t \/ In(u, o)
    BY InsertIt DEF AreLists
<1>4. /\ pxCurrentTimerList' = IF list = "current" THEN ic ELSE c
      /\ pxOverflowTimerList' = IF list = "overflow" THEN io ELSE o
    BY DEF prvInsertTimerInActiveList
<1>5. Len(c) \in Nat /\ Len(o) \in Nat
    BY DEF AreLists
<1> HIDE DEF ic, io
<1>6. CASE list = "current"
    <2>1. pxCurrentTimerList' = ic /\ pxOverflowTimerList' = o
        BY <1>4, <1>6
    <2> QED BY <1>1, <1>2, <1>5, <1>6, <2>1 DEF AreLists
<1>7. CASE list = "overflow"
    <2>1. pxCurrentTimerList' = c /\ pxOverflowTimerList' = io
        BY <1>4, <1>7
    <2> QED BY <1>1, <1>3, <1>5, <1>7, <2>1 DEF AreLists
<1>8. CASE list \notin {"current", "overflow"}
    <2>1. pxCurrentTimerList' = c /\ pxOverflowTimerList' = o
        BY <1>4, <1>8
    <2> QED BY <1>1, <1>5, <1>8, <2>1 DEF AreLists
<1> QED BY <1>6, <1>7, <1>8

-----------------------------------------------------------------------------
(* What the variables can hold.                                             *)

(* Every kind of command that can be in the queue.                          *)
Commands == {tmrCOMMAND_START, tmrCOMMAND_STOP, tmrCOMMAND_CHANGE_PERIOD, tmrCOMMAND_DELETE}
Messages ==
    {m \in [xMessageID : Commands, xMessageValue : Ticks, pxTimer : Timers, age : Int,
            reload : BOOLEAN] :
        m.xMessageID = tmrCOMMAND_CHANGE_PERIOD => m.xMessageValue \in Periods}

(* What the service task found when it looked at the current list still     *)
(* holds when it acts on it.                                                *)
Looked ==
    /\ pc = "processOrBlock" => xListWasEmpty = (pxCurrentTimerList = <<>>)
    /\ pc = "expired" => pxCurrentTimerList # <<>>
    /\ pc \in {"processOrBlock", "expired"} /\ pxCurrentTimerList # <<>> =>
          xNextExpireTime = xTimerListItem[Head(pxCurrentTimerList)]

Structure ==
    /\ TypeOK
    /\ AreLists(pxCurrentTimerList, pxOverflowTimerList)
    /\ xTimerQueue \in Seq(Messages)
    /\ client # NULL => client \in Messages
    /\ Looked

(* The types, for those who need no more than them.                         *)
LEMMA Types ==
    ASSUME TypeOK
    PROVE  /\ xTickCount \in Ticks /\ xLastTime \in Ticks /\ xNextExpireTime \in Ticks
           /\ xTimeNow \in Ticks /\ wait \in Ticks
           /\ xTimerListItem \in [Timers -> Ticks] /\ xTimerPeriodInTicks \in [Timers -> Periods]
           /\ due \in [Timers -> Int] /\ lag \in 0..MaxLag /\ lag \in Nat
           /\ TickMod \in Nat /\ TickMod > 0 /\ MaxLag \in Nat /\ MaxLag < TickMod
           /\ \A p \in Periods : p \in Nat /\ p > 0 /\ p + MaxLag < TickMod /\ p \in Ticks
BY TimersAssumption DEF TypeOK, TimersAssumption, Ticks

(* The list of an expiry time is a tick value, that of a sum too.           *)
LEMMA ExpiryIsTick ==
    ASSUME NEW v \in Ticks, NEW p \in Periods
    PROVE  ExpiryAfter(v, p) \in Ticks
<1>1. v \in Nat /\ p \in Nat /\ TickMod \in Nat /\ TickMod > 0
    BY TimersAssumption DEF TimersAssumption, Ticks
<1> QED BY <1>1 DEF ExpiryAfter, Ticks

(* A message in its queue: what Posted, Append and Tail do to it.           *)
LEMMA PostedType ==
    ASSUME NEW q \in Seq(Messages), NEW m \in Messages, Len(q) <= configTIMER_QUEUE_LENGTH
    PROVE  Posted(q, m) \in Seq(Messages) /\ Len(Posted(q, m)) <= configTIMER_QUEUE_LENGTH
<1>1. configTIMER_QUEUE_LENGTH \in Nat /\ Len(q) \in Nat
    BY TimersAssumption DEF TimersAssumption
<1> QED BY <1>1 DEF Posted

(* Both kinds of message have the type of a message.                        *)
LEMMA MessageType ==
    ASSUME NEW v \in Ticks, NEW t \in Timers, NEW a \in Int
    PROVE  /\ \A id \in Commands : (id = tmrCOMMAND_CHANGE_PERIOD => v \in Periods) =>
                  Message(id, v, t) \in Messages
           /\ Reload(v, t, a) \in Messages
           /\ Reload(v, t, a) = [xMessageID |-> tmrCOMMAND_START, xMessageValue |-> v,
                                 pxTimer |-> t, age |-> a, reload |-> TRUE]
<1>1. Reload(v, t, a) = [xMessageID |-> tmrCOMMAND_START, xMessageValue |-> v,
                         pxTimer |-> t, age |-> a, reload |-> TRUE]
    BY DEF Reload
<1>2. tmrCOMMAND_START \in Commands /\ tmrCOMMAND_START # tmrCOMMAND_CHANGE_PERIOD
    BY DEF Commands, tmrCOMMAND_START, tmrCOMMAND_CHANGE_PERIOD
<1>3. Reload(v, t, a) \in Messages
    BY <1>1, <1>2 DEF Messages
<1>4. ASSUME NEW id \in Commands, id = tmrCOMMAND_CHANGE_PERIOD => v \in Periods
      PROVE  Message(id, v, t) \in Messages
    BY <1>4 DEF Message, Messages
<1> QED BY <1>1, <1>3, <1>4

(* A message that has waited one tick more.                                 *)
LEMMA OlderType ==
    ASSUME NEW m \in Messages
    PROVE  /\ Older(m) \in Messages
           /\ Older(m) = [m EXCEPT !.age =
                              IF m.xMessageID = tmrCOMMAND_START THEN m.age + 1 ELSE m.age]
<1>1. m.age \in Int /\ m.age + 1 \in Int
    BY DEF Messages
<1> QED BY <1>1 DEF Older, Messages

(* The first state.                                                         *)
LEMMA StructureInit ==
    ASSUME Init
    PROVE  Structure
<1>1. TickMod \in Nat /\ TickMod > 0 /\ MaxLag \in Nat /\ configTIMER_QUEUE_LENGTH \in Nat
    BY TimersAssumption DEF TimersAssumption
<1>2. 0 \in Ticks /\ 0 \in 0..MaxLag /\ <<>> \in Seq(Timers) /\ <<>> \in Seq(Messages)
    BY <1>1 DEF Ticks
<1>3. DOMAIN <<>> = {} /\ Len(<<>>) = 0
    OBVIOUS
<1>4. TypeOK
    <2>1. {xTickCount, xLastTime, xNextExpireTime, xTimeNow, wait} \subseteq Ticks
        BY <1>2 DEF Init
    <2>2. \A l \in {pxCurrentTimerList, pxOverflowTimerList} :
             l \in Seq(Timers) /\ \A m, n \in DOMAIN l : l[m] = l[n] => m = n
        BY <1>2, <1>3 DEF Init
    <2>3. /\ xTimerListItem \in [Timers -> Ticks] /\ xTimerPeriodInTicks \in [Timers -> Periods]
          /\ allocated \subseteq Timers /\ handles \subseteq Timers /\ started \subseteq Timers
          /\ due \in [Timers -> Int] /\ lag \in 0..MaxLag
          /\ xListWasEmpty \in BOOLEAN /\ early \in BOOLEAN /\ pc = "getNext"
          /\ Len(xTimerQueue) <= configTIMER_QUEUE_LENGTH
        <3>1. xTimerListItem \in [Timers -> Ticks] /\ due \in [Timers -> Int]
            BY <1>2 DEF Init
        <3>2. allocated \subseteq Timers /\ handles \subseteq Timers /\ started \subseteq Timers
            BY DEF Init
        <3>3. xListWasEmpty \in BOOLEAN /\ early \in BOOLEAN
            BY Zenon DEF Init
        <3>4. Len(xTimerQueue) <= configTIMER_QUEUE_LENGTH
            BY <1>1, <1>3 DEF Init
        <3>5. lag \in 0..MaxLag /\ pc = "getNext" /\ xTimerPeriodInTicks \in [Timers -> Periods]
            BY <1>2 DEF Init
        <3> QED BY <3>1, <3>2, <3>3, <3>4, <3>5
    <2> QED BY <2>1, <2>2, <2>3 DEF TypeOK
<1>5. AreLists(<<>>, <<>>)
    BY <1>2, <1>3 DEF AreLists, Once, In
<1> QED BY <1>2, <1>4, <1>5 DEF Init, Structure, Looked

(* prvGetNextExpireTime.                                                    *)
LEMMA GetNextStructure ==
    ASSUME Structure, prvGetNextExpireTime
    PROVE  Structure'
<1>1. TypeOK'
    <2>1. pxCurrentTimerList # <<>> => Head(pxCurrentTimerList) \in Timers
        BY DEF Structure, AreLists
    <2>2. xNextExpireTime' \in Ticks
        <3>1. xTimerListItem \in [Timers -> Ticks] /\ 0 \in Ticks
            BY Types DEF Structure, Ticks
        <3> QED BY <2>1, <3>1 DEF prvGetNextExpireTime
    <2> QED BY <2>2 DEF Structure, prvGetNextExpireTime, TypeOK, timers, timerLists, clients,
                        histories
<1>2. Looked'
    BY DEF prvGetNextExpireTime, Looked, timers, timerLists
<1> QED BY <1>1, <1>2 DEF Structure, prvGetNextExpireTime, timers, timerLists, clients

(* prvProcessTimerOrBlockTask.                                              *)
LEMMA ProcessStructure ==
    ASSUME Structure, prvProcessTimerOrBlockTask
    PROVE  Structure'
<1>1. /\ UNCHANGED <<timers, xTimerQueue, xTickCount, xNextExpireTime, xListWasEmpty, clients, due,
                     started, early>>
      /\ xTimeNow' = xTickCount /\ lag' = 0 /\ xLastTime' \in {xLastTime, xTickCount}
      /\ pc' \in {"switchSuspended", "expired", "blocked", "commands"}
      /\ pc' = "expired" => pxCurrentTimerList # <<>>
      /\ wait' = wait \/ wait' = (xNextExpireTime - xTickCount) % TickMod
      /\ pc = "processOrBlock"
    BY DEF prvProcessTimerOrBlockTask, SampledNextLap, SampledSameLap, Structure, Looked
<1>2. wait' \in Ticks
    BY <1>1, Types DEF Structure, Ticks
<1>3. TypeOK'
    BY <1>1, <1>2, Types DEF Structure, TypeOK, timers, timerLists, clients
<1>4. Looked'
    BY <1>1 DEF Structure, Looked, timers, timerLists
<1> QED BY <1>1, <1>3, <1>4 DEF Structure, timers, timerLists, clients

(* SampleForCommands, CommandsDone and xTimerCreate: what the lists and the *)
(* queue hold stays.                                                        *)
LEMMA QuietStructure ==
    ASSUME Structure,
           SampleForCommands \/ CommandsDone \/ \E t \in Timers, p \in Periods : xTimerCreate(t, p)
    PROVE  Structure'
<1>1. CASE SampleForCommands
    <2>1. /\ UNCHANGED <<timers, xTimerQueue, xTickCount, xNextExpireTime, xListWasEmpty, clients,
                         due, started, early, wait>>
          /\ xTimeNow' = xTickCount /\ lag' = 0 /\ xLastTime' \in {xLastTime, xTickCount}
          /\ pc' \in {"switch", "receive"}
        BY <1>1 DEF SampleForCommands, SampledNextLap, SampledSameLap
    <2>2. TypeOK'
        <3>1. lag' \in 0..MaxLag /\ xTimeNow' \in Ticks /\ xLastTime' \in Ticks
            BY <2>1, Types DEF Structure
        <3> QED BY <2>1, <3>1 DEF Structure, TypeOK, timers, timerLists, clients
    <2> QED BY <2>1, <2>2 DEF Structure, Looked, timers, timerLists, clients
<1>2. CASE CommandsDone
    BY <1>2 DEF CommandsDone, Structure, TypeOK, Looked, timers, timerLists, clients, histories
<1>3. ASSUME NEW t \in Timers, NEW p \in Periods, xTimerCreate(t, p) PROVE Structure'
    BY <1>3 DEF xTimerCreate, Structure, TypeOK, Looked, timerLists, locals, histories
<1> QED BY <1>1, <1>2, <1>3

(* A client evaluates its arguments, or sends.                              *)
LEMMA ClientStructure ==
    ASSUME Structure, xTimerGenericCommand \/ \E t \in Timers : Command(t)
    PROVE  Structure'
<1>1. ASSUME NEW t \in Timers, Command(t) PROVE Structure'
    <2>1. UNCHANGED <<xTickCount, timers, xTimerQueue, xLastTime, locals, histories>>
          /\ handles' \subseteq Timers
        BY <1>1 DEF Command, Structure, TypeOK
    <2>2. client' \in Messages
        <3>1. xTickCount \in Ticks /\ 0 \in Ticks /\ \A p \in Periods : p \in Ticks
            BY Types DEF Structure, Ticks
        <3>2. /\ {tmrCOMMAND_START, tmrCOMMAND_STOP, tmrCOMMAND_DELETE,
                  tmrCOMMAND_CHANGE_PERIOD} \subseteq Commands
              /\ tmrCOMMAND_CHANGE_PERIOD \notin {tmrCOMMAND_START, tmrCOMMAND_STOP, tmrCOMMAND_DELETE}
            BY DEF Commands, tmrCOMMAND_START, tmrCOMMAND_STOP, tmrCOMMAND_DELETE,
                   tmrCOMMAND_CHANGE_PERIOD
        <3>3. \/ client' = Message(tmrCOMMAND_START, xTickCount, t)
              \/ client' = Message(tmrCOMMAND_STOP, 0, t)
              \/ \E p \in Periods : client' = Message(tmrCOMMAND_CHANGE_PERIOD, p, t)
              \/ client' = Message(tmrCOMMAND_DELETE, 0, t)
            BY <1>1 DEF Command
        <3> QED BY <3>1, <3>2, <3>3, MessageType
    <2> QED BY <2>1, <2>2 DEF Structure, TypeOK, Looked, timers, timerLists, locals, histories
<1>2. CASE xTimerGenericCommand
    <2>1. /\ UNCHANGED <<xTickCount, timers, xLastTime, xNextExpireTime, xListWasEmpty, xTimeNow, wait,
                         histories>>
          /\ pc' = pc \/ pc' = "commands"
          /\ client' = NULL /\ client \in Messages
        BY <1>2 DEF xTimerGenericCommand, Structure
    <2>2. handles' \subseteq Timers
        BY <1>2 DEF xTimerGenericCommand, Structure, TypeOK, Messages
    <2>3. xTimerQueue' \in Seq(Messages) /\ Len(xTimerQueue') <= configTIMER_QUEUE_LENGTH
        <3>1. /\ configTIMER_QUEUE_LENGTH \in Nat /\ Len(xTimerQueue) \in Nat
              /\ xTimerQueue \in Seq(Messages) /\ Len(xTimerQueue) <= configTIMER_QUEUE_LENGTH
            BY TimersAssumption DEF TimersAssumption, Structure, TypeOK
        <3> QED BY <1>2, <3>1 DEF xTimerGenericCommand, Structure
    <2>4. client' = NULL
        BY <1>2 DEF xTimerGenericCommand
    <2>5. TypeOK'
        BY <2>1, <2>2, <2>3 DEF Structure, TypeOK, timers, timerLists, histories
    <2> QED BY <2>1, <2>3, <2>4, <2>5 DEF Structure, Looked, timers, timerLists
<1> QED BY <1>1, <1>2

(* A tick.                                                                  *)
LEMMA TickStructure ==
    ASSUME Structure, Tick
    PROVE  Structure'
<1>1. UNCHANGED <<timers, xLastTime, xNextExpireTime, xListWasEmpty, xTimeNow, handles, started, early>>
    BY DEF Tick
<1>2. xTickCount' \in Ticks
    BY Types DEF Structure, Tick, Ticks
<1>3. due' \in [Timers -> Int]
    BY Types DEF Structure, Tick
<1>4. /\ pc' = pc \/ pc' = "commands"
      /\ wait' \in Ticks /\ lag' \in 0..MaxLag
    <2>1. wait \in 0..(TickMod - 1) /\ lag \in 0..MaxLag /\ MaxLag \in Nat /\ TickMod \in Nat
        BY Types DEF Structure, Ticks
    <2>2. CASE pc = "blocked"
        BY <2>1, <2>2 DEF Tick, Ticks
    <2>3. CASE pc # "blocked"
        BY <2>1, <2>3 DEF Tick, Ticks
    <2> QED BY <2>2, <2>3
<1>5. xTimerQueue' \in Seq(Messages) /\ Len(xTimerQueue') = Len(xTimerQueue)
    <2>1. xTimerQueue' = [n \in 1..Len(xTimerQueue) |-> Older(xTimerQueue[n])]
          /\ Len(xTimerQueue) \in Nat
        BY DEF Tick, Structure
    <2>2. \A n \in 1..Len(xTimerQueue) : Older(xTimerQueue[n]) \in Messages
        BY OlderType DEF Structure
    <2> QED BY <2>1, <2>2
<1>6. client' # NULL => client' \in Messages
    BY OlderType DEF Tick, Structure
<1>7. TypeOK'
    BY <1>1, <1>2, <1>3, <1>4, <1>5 DEF Structure, TypeOK, timers, timerLists
<1>8. Looked'
    BY <1>1, <1>4 DEF Structure, Looked, timers, timerLists
<1> QED BY <1>1, <1>5, <1>6, <1>7, <1>8 DEF Structure, timers, timerLists

-----------------------------------------------------------------------------
(* Timers on the move.                                                      *)

(* c and o are the two lists without t.                                     *)
TakenOut(c, o, t) ==
    /\ AreLists(c, o) /\ ~In(t, c) /\ ~In(t, o)
    /\ \A u \in Timers : u # t => /\ In(u, c) <=> In(u, pxCurrentTimerList)
                                  /\ In(u, o) <=> In(u, pxOverflowTimerList)
    /\ Len(c) + Len(o) = Len(pxCurrentTimerList) + Len(pxOverflowTimerList)
                         - (IF t \in Active THEN 1 ELSE 0)

(* A step takes t to a list, or out of both, and leaves all others.         *)
Moves(t, list) ==
    /\ AreLists(pxCurrentTimerList', pxOverflowTimerList')
    /\ xTimerListItem' \in [Timers -> Ticks]
    /\ \A u \in Timers : u # t =>
          /\ In(u, pxCurrentTimerList') <=> In(u, pxCurrentTimerList)
          /\ In(u, pxOverflowTimerList') <=> In(u, pxOverflowTimerList)
          /\ xTimerListItem'[u] = xTimerListItem[u]
    /\ In(t, pxCurrentTimerList') <=> list = "current"
    /\ In(t, pxOverflowTimerList') <=> list = "overflow"
    /\ Len(pxCurrentTimerList') + Len(pxOverflowTimerList')
          = Len(pxCurrentTimerList) + Len(pxOverflowTimerList)
            - (IF t \in Active THEN 1 ELSE 0) + (IF list \in {"current", "overflow"} THEN 1 ELSE 0)

(* The head of the current list is taken out by the service task.           *)
LEMMA TailTakesOut ==
    ASSUME Structure, pxCurrentTimerList # <<>>
    PROVE  /\ Head(pxCurrentTimerList) \in Active /\ Head(pxCurrentTimerList) \in Timers
           /\ In(Head(pxCurrentTimerList), pxCurrentTimerList)
           /\ TakenOut(Tail(pxCurrentTimerList), pxOverflowTimerList, Head(pxCurrentTimerList))
<1> DEFINE s == pxCurrentTimerList
           o == pxOverflowTimerList
<1>1. AreLists(s, o) /\ s # <<>>
    BY DEF Structure
<1>2. s \in Seq(Timers) /\ Once(s) /\ Len(s) \in Nat /\ Len(o) \in Nat
    BY <1>1 DEF AreLists
<1>3. /\ Head(s) \in Timers /\ In(Head(s), s)
      /\ Tail(s) \in Seq(Timers) /\ Once(Tail(s)) /\ Len(Tail(s)) = Len(s) - 1
      /\ \A u \in Timers : In(u, Tail(s)) <=> u # Head(s) /\ In(u, s)
    BY <1>1, <1>2, HeadTail
<1>4. Head(s) \in Active
    BY <1>3 DEF Active, xTimerIsTimerActive
<1>5. AreLists(Tail(s), o) /\ ~In(Head(s), Tail(s)) /\ ~In(Head(s), o)
    BY <1>1, <1>3 DEF AreLists
<1>6. Len(Tail(s)) + Len(o) = Len(s) + Len(o) - (IF Head(s) \in Active THEN 1 ELSE 0)
    BY <1>2, <1>3, <1>4
<1> QED BY <1>3, <1>4, <1>5, <1>6 DEF TakenOut

(* The timer of a command is taken out of the list that holds it.           *)
LEMMA WithoutTakesOut ==
    ASSUME Structure, NEW t \in Timers
    PROVE  TakenOut(Without(pxCurrentTimerList, t), Without(pxOverflowTimerList, t), t)
<1> DEFINE s == pxCurrentTimerList
           o == pxOverflowTimerList
           c == Without(s, t)
           v == Without(o, t)
<1>1. AreLists(s, o)
    BY DEF Structure
<1>2. /\ c \in Seq(Timers) /\ Once(c) /\ \A u \in Timers : In(u, c) <=> u # t /\ In(u, s)
      /\ Len(c) = Len(s) - (IF In(t, s) THEN 1 ELSE 0)
    BY <1>1, WithoutIt DEF AreLists
<1>3. /\ v \in Seq(Timers) /\ Once(v) /\ \A u \in Timers : In(u, v) <=> u # t /\ In(u, o)
      /\ Len(v) = Len(o) - (IF In(t, o) THEN 1 ELSE 0)
    BY <1>1, WithoutIt DEF AreLists
<1>4. Len(s) \in Nat /\ Len(o) \in Nat /\ ~(In(t, s) /\ In(t, o))
    BY <1>1 DEF AreLists
<1>5. t \in Active <=> In(t, s) \/ In(t, o)
    BY DEF Active, xTimerIsTimerActive
<1> HIDE DEF c, v
<1>6. AreLists(c, v)
    BY <1>1, <1>2, <1>3 DEF AreLists
<1>7. Len(c) + Len(v) = Len(s) + Len(o) - (IF t \in Active THEN 1 ELSE 0)
    <2>1. CASE In(t, s)
        <3>1. Len(c) = Len(s) - 1 /\ Len(v) = Len(o) /\ t \in Active
            BY <1>2, <1>3, <1>4, <1>5, <2>1
        <3> QED BY <1>4, <3>1
    <2>2. CASE In(t, o)
        <3>1. Len(c) = Len(s) /\ Len(v) = Len(o) - 1 /\ t \in Active
            BY <1>2, <1>3, <1>4, <1>5, <2>2
        <3> QED BY <1>4, <3>1
    <2>3. CASE ~In(t, s) /\ ~In(t, o)
        <3>1. Len(c) = Len(s) /\ Len(v) = Len(o) /\ t \notin Active
            BY <1>2, <1>3, <1>4, <1>5, <2>3
        <3> QED BY <1>4, <3>1
    <2> QED BY <2>1, <2>2, <2>3
<1>8. TakenOut(c, v, t)
    BY <1>2, <1>3, <1>6, <1>7 DEF TakenOut
<1> QED BY <1>8 DEF c, v

(* A timer that was taken out goes where prvInsertTimerInActiveList puts it *)
LEMMA MoveIt ==
    ASSUME Structure, NEW t \in Timers, NEW c, NEW o, TakenOut(c, o, t),
           NEW expiry \in Ticks, NEW list, prvInsertTimerInActiveList(t, c, o, expiry, list)
    PROVE  Moves(t, list) /\ xTimerListItem'[t] = expiry
<1>1. AreLists(c, o) /\ ~In(t, c) /\ ~In(t, o) /\ xTimerListItem \in [Timers -> Ticks]
    BY Types DEF Structure, TakenOut
<1>2. /\ AreLists(pxCurrentTimerList', pxOverflowTimerList')
      /\ xTimerListItem' \in [Timers -> Ticks]
      /\ xTimerListItem'[t] = expiry
      /\ \A u \in Timers :
            /\ u # t => xTimerListItem'[u] = xTimerListItem[u]
            /\ In(u, pxCurrentTimerList') <=> In(u, c) \/ (u = t /\ list = "current")
            /\ In(u, pxOverflowTimerList') <=> In(u, o) \/ (u = t /\ list = "overflow")
      /\ Len(pxCurrentTimerList') + Len(pxOverflowTimerList')
            = Len(c) + Len(o) + (IF list \in {"current", "overflow"} THEN 1 ELSE 0)
    BY <1>1, PlaceIt
<1>3. Len(c) + Len(o) = Len(pxCurrentTimerList) + Len(pxOverflowTimerList)
                        - (IF t \in Active THEN 1 ELSE 0)
    BY DEF TakenOut
<1>4. \A u \in Timers : u # t => /\ In(u, c) <=> In(u, pxCurrentTimerList)
                                 /\ In(u, o) <=> In(u, pxOverflowTimerList)
    BY DEF TakenOut
<1>5. /\ In(t, pxCurrentTimerList') <=> list = "current"
      /\ In(t, pxOverflowTimerList') <=> list = "overflow"
    BY <1>1, <1>2
<1>6. Len(pxCurrentTimerList') + Len(pxOverflowTimerList')
         = Len(pxCurrentTimerList) + Len(pxOverflowTimerList)
           - (IF t \in Active THEN 1 ELSE 0) + (IF list \in {"current", "overflow"} THEN 1 ELSE 0)
    BY <1>2, <1>3
<1> QED BY <1>2, <1>4, <1>5, <1>6 DEF Moves

(* Or nowhere, if it does not.                                              *)
LEMMA LeaveIt ==
    ASSUME Structure, NEW t \in Timers, TakenOut(pxCurrentTimerList', pxOverflowTimerList', t),
           xTimerListItem' = xTimerListItem
    PROVE  Moves(t, "none")
<1>1. xTimerListItem \in [Timers -> Ticks]
    BY Types DEF Structure
<1>2. Len(pxCurrentTimerList') \in Nat /\ Len(pxOverflowTimerList') \in Nat
    BY DEF TakenOut, AreLists
<1>3. Len(pxCurrentTimerList') + Len(pxOverflowTimerList')
         = Len(pxCurrentTimerList) + Len(pxOverflowTimerList)
           - (IF t \in Active THEN 1 ELSE 0) + (IF "none" \in {"current", "overflow"} THEN 1 ELSE 0)
    <2>1. Len(pxCurrentTimerList) \in Nat /\ Len(pxOverflowTimerList) \in Nat
        BY DEF Structure, AreLists
    <2>2. Len(pxCurrentTimerList') + Len(pxOverflowTimerList')
             = Len(pxCurrentTimerList) + Len(pxOverflowTimerList)
               - (IF t \in Active THEN 1 ELSE 0)
        BY DEF TakenOut
    <2>3. "none" \notin {"current", "overflow"}
        OBVIOUS
    <2> QED BY <2>1, <2>2, <2>3
<1> QED BY <1>1, <1>3 DEF TakenOut, Moves

(* Wherever a timer moves, the types of the lists stay.                     *)
LEMMA MovedTypes ==
    ASSUME NEW t, NEW list, Moves(t, list)
    PROVE  /\ AreLists(pxCurrentTimerList', pxOverflowTimerList')
           /\ xTimerListItem' \in [Timers -> Ticks]
           /\ \A l \in {pxCurrentTimerList', pxOverflowTimerList'} :
                 l \in Seq(Timers) /\ \A m, n \in DOMAIN l : l[m] = l[n] => m = n
BY DEF Moves, AreLists, Once

(* Where a timer that has expired goes, and with it the command for it.     *)
LEMMA ExpiredMoves ==
    ASSUME Structure, prvProcessExpiredTimer, NEW t, t = Head(pxCurrentTimerList),
           NEW next, next = ExpiryAfter(xNextExpireTime, xTimerPeriodInTicks[t]),
           NEW list, list = ActiveListFor(xTimerPeriodInTicks[t], next, xTimeNow, xNextExpireTime)
    PROVE  /\ t \in Timers /\ t \in Active /\ In(t, pxCurrentTimerList)
           /\ xNextExpireTime = xTimerListItem[t] /\ next \in Ticks
           /\ t \in AutoReload => Moves(t, list) /\ xTimerListItem'[t] = next
           /\ t \notin AutoReload => Moves(t, "none") /\ xTimerQueue' = xTimerQueue
<1>1. pxCurrentTimerList # <<>> /\ xNextExpireTime = xTimerListItem[t]
    BY DEF Structure, Looked, prvProcessExpiredTimer
<1>2. /\ t \in Timers /\ t \in Active /\ In(t, pxCurrentTimerList)
      /\ TakenOut(Tail(pxCurrentTimerList), pxOverflowTimerList, t)
    BY <1>1, TailTakesOut
<1>3. next \in Ticks
    BY <1>2, ExpiryIsTick, Types DEF Structure
<1>4. ASSUME t \in AutoReload PROVE Moves(t, list) /\ xTimerListItem'[t] = next
    <2>1. prvInsertTimerInActiveList(t, Tail(pxCurrentTimerList), pxOverflowTimerList, next, list)
        BY <1>4 DEF prvProcessExpiredTimer
    <2> QED BY <1>2, <1>3, <2>1, MoveIt
<1>5. ASSUME t \notin AutoReload PROVE Moves(t, "none") /\ xTimerQueue' = xTimerQueue
    <2>1. /\ pxCurrentTimerList' = Tail(pxCurrentTimerList)
          /\ UNCHANGED <<pxOverflowTimerList, xTimerListItem, xTimerQueue>>
        BY <1>5 DEF prvProcessExpiredTimer
    <2> QED BY <1>2, <2>1, LeaveIt
<1> QED BY <1>1, <1>2, <1>3, <1>4, <1>5

(* Where a timer left from before the wrap goes.                            *)
LEMMA SwitchMoves ==
    ASSUME Structure, prvSwitchTimerLists, pxCurrentTimerList # <<>>,
           NEW t, t = Head(pxCurrentTimerList),
           NEW next, next = ExpiryAfter(xTimerListItem[t], xTimerPeriodInTicks[t])
    PROVE  /\ t \in Timers /\ t \in Active /\ In(t, pxCurrentTimerList) /\ next \in Ticks
           /\ t \in AutoReload /\ next > xTimerListItem[t] =>
                 Moves(t, "current") /\ xTimerListItem'[t] = next
           /\ ~(t \in AutoReload /\ next > xTimerListItem[t]) => Moves(t, "none")
<1>1. /\ t \in Timers /\ t \in Active /\ In(t, pxCurrentTimerList)
      /\ TakenOut(Tail(pxCurrentTimerList), pxOverflowTimerList, t)
    BY TailTakesOut
<1>2. xTimerListItem[t] \in Ticks /\ xTimerPeriodInTicks[t] \in Periods
    BY <1>1, Types DEF Structure
<1>3. next \in Ticks
    BY <1>2, ExpiryIsTick
<1> DEFINE again == t \in AutoReload /\ next > xTimerListItem[t]
           expiry == IF again THEN next ELSE xTimerListItem[t]
           list == IF again THEN "current" ELSE "none"
<1>4. prvInsertTimerInActiveList(t, Tail(pxCurrentTimerList), pxOverflowTimerList, expiry, list)
    BY DEF prvSwitchTimerLists
<1>5. expiry \in Ticks
    BY <1>2, <1>3
<1> HIDE DEF expiry, list
<1>6. Moves(t, list) /\ xTimerListItem'[t] = expiry
    BY <1>1, <1>4, <1>5, MoveIt
<1> QED BY <1>1, <1>3, <1>6 DEF expiry, list

(* Where the timer of a command goes.                                       *)
LEMMA StartMoves ==
    ASSUME Structure, NEW m, m \in Messages, NEW q,
           StartCommand(m, Without(pxCurrentTimerList, m.pxTimer),
                        Without(pxOverflowTimerList, m.pxTimer), q),
           NEW t, t = m.pxTimer,
           NEW next, next = ExpiryAfter(m.xMessageValue, xTimerPeriodInTicks[t]),
           NEW list, list = ActiveListFor(xTimerPeriodInTicks[t], next, xTimeNow, m.xMessageValue)
    PROVE  t \in Timers /\ next \in Ticks /\ Moves(t, list) /\ xTimerListItem'[t] = next
<1>1. t \in Timers /\ m.xMessageValue \in Ticks
    BY DEF Messages
<1>2. next \in Ticks
    BY <1>1, ExpiryIsTick, Types DEF Structure
<1> DEFINE c == Without(pxCurrentTimerList, t)
           o == Without(pxOverflowTimerList, t)
<1>3. TakenOut(c, o, t)
    BY <1>1, WithoutTakesOut
<1>4. prvInsertTimerInActiveList(t, c, o, next, list)
    BY DEF StartCommand
<1> HIDE DEF c, o
<1> QED BY <1>1, <1>2, <1>3, <1>4, MoveIt

(* And that of a command that changes its period.                           *)
LEMMA ChangeMoves ==
    ASSUME Structure, NEW m, m \in Messages, m.xMessageID = tmrCOMMAND_CHANGE_PERIOD, NEW q,
           ChangePeriodCommand(m, Without(pxCurrentTimerList, m.pxTimer),
                               Without(pxOverflowTimerList, m.pxTimer), q),
           NEW t, t = m.pxTimer,
           NEW next, next = ExpiryAfter(xTimeNow, m.xMessageValue),
           NEW list, list = ActiveListFor(m.xMessageValue, next, xTimeNow, xTimeNow)
    PROVE  /\ t \in Timers /\ next \in Ticks /\ m.xMessageValue \in Periods
           /\ Moves(t, list) /\ xTimerListItem'[t] = next
<1>1. t \in Timers /\ m.xMessageValue \in Periods
    BY DEF Messages
<1>2. next \in Ticks
    BY <1>1, ExpiryIsTick, Types DEF Structure
<1> DEFINE c == Without(pxCurrentTimerList, t)
           o == Without(pxOverflowTimerList, t)
<1>3. TakenOut(c, o, t)
    BY <1>1, WithoutTakesOut
<1>4. prvInsertTimerInActiveList(t, c, o, next, list)
    BY DEF ChangePeriodCommand
<1> HIDE DEF c, o
<1> QED BY <1>1, <1>2, <1>3, <1>4, MoveIt

(* And that of a command that stops or deletes it.                          *)
LEMMA StopMoves ==
    ASSUME Structure, NEW m, m \in Messages, NEW q,
           \/ StopCommand(m, Without(pxCurrentTimerList, m.pxTimer),
                          Without(pxOverflowTimerList, m.pxTimer), q)
           \/ DeleteCommand(m, Without(pxCurrentTimerList, m.pxTimer),
                            Without(pxOverflowTimerList, m.pxTimer), q)
    PROVE  m.pxTimer \in Timers /\ Moves(m.pxTimer, "none")
<1>1. m.pxTimer \in Timers
    BY DEF Messages
<1>2. TakenOut(Without(pxCurrentTimerList, m.pxTimer), Without(pxOverflowTimerList, m.pxTimer),
               m.pxTimer)
    BY <1>1, WithoutTakesOut
<1>3. /\ pxCurrentTimerList' = Without(pxCurrentTimerList, m.pxTimer)
      /\ pxOverflowTimerList' = Without(pxOverflowTimerList, m.pxTimer)
      /\ xTimerListItem' = xTimerListItem
    BY DEF StopCommand, DeleteCommand
<1> QED BY <1>1, <1>2, <1>3, LeaveIt

(* prvProcessExpiredTimer.                                                  *)
LEMMA ExpiredStructure ==
    ASSUME Structure, prvProcessExpiredTimer
    PROVE  Structure'
<1> DEFINE t == Head(pxCurrentTimerList)
           period == xTimerPeriodInTicks[t]
           next == ExpiryAfter(xNextExpireTime, period)
           list == ActiveListFor(period, next, xTimeNow, xNextExpireTime)
<1>1. /\ t \in AutoReload =>
             /\ xTimerQueue' = IF ReloadByCommand(t, list)
                               THEN Posted(xTimerQueue, Reload(xNextExpireTime, t, -due[t]))
                               ELSE xTimerQueue
             /\ due' = [due EXCEPT ![t] = IF list = "now" THEN 0 ELSE @ + period]
      /\ t \notin AutoReload => due' = [due EXCEPT ![t] = 0]
      /\ early' = (early \/ due[t] > 0)
      /\ started' = IF t \in AutoReload THEN started ELSE started \ {t}
      /\ pc' = "commands"
      /\ UNCHANGED <<xTickCount, xTimerPeriodInTicks, allocated, xLastTime, xNextExpireTime,
                     xListWasEmpty, xTimeNow, wait, clients, lag>>
    BY DEF prvProcessExpiredTimer, Callback
<1>2. /\ t \in Timers /\ t \in Active /\ In(t, pxCurrentTimerList)
      /\ t \in AutoReload => Moves(t, list) /\ xTimerListItem'[t] = next
      /\ t \notin AutoReload => Moves(t, "none") /\ xTimerQueue' = xTimerQueue
    <2>1. /\ t = Head(pxCurrentTimerList)
          /\ next = ExpiryAfter(xNextExpireTime, xTimerPeriodInTicks[t])
          /\ list = ActiveListFor(xTimerPeriodInTicks[t], next, xTimeNow, xNextExpireTime)
        OBVIOUS
    <2> HIDE DEF t, next, list
    <2> QED BY <2>1, ExpiredMoves
<1> HIDE DEF t, list, next
<1>3. period \in Int /\ due[t] \in Int /\ due \in [Timers -> Int] /\ -due[t] \in Int
    BY <1>2, Types DEF Structure
<1>4. due' \in [Timers -> Int] /\ started' \subseteq Timers
    BY <1>1, <1>3 DEF Structure, TypeOK
<1>5. xTimerQueue' \in Seq(Messages) /\ Len(xTimerQueue') <= configTIMER_QUEUE_LENGTH
    <2>1. xTimerQueue \in Seq(Messages) /\ Len(xTimerQueue) <= configTIMER_QUEUE_LENGTH
        BY DEF Structure, TypeOK
    <2>2. Reload(xNextExpireTime, t, -due[t]) \in Messages
        BY <1>2, <1>3, MessageType, Types DEF Structure
    <2>3. xTimerQueue' = xTimerQueue \/ xTimerQueue' = Posted(xTimerQueue, Reload(xNextExpireTime, t, -due[t]))
        BY <1>1, <1>2
    <2> QED BY <2>1, <2>2, <2>3, PostedType
<1>6. \E l : Moves(t, l)
    BY <1>2
<1>7. /\ AreLists(pxCurrentTimerList', pxOverflowTimerList')
      /\ xTimerListItem' \in [Timers -> Ticks]
      /\ \A l \in {pxCurrentTimerList', pxOverflowTimerList'} :
            l \in Seq(Timers) /\ \A m, n \in DOMAIN l : l[m] = l[n] => m = n
    BY <1>6, MovedTypes
<1>8. early' \in BOOLEAN
    BY <1>1
<1>9. TypeOK'
    BY <1>1, <1>4, <1>5, <1>7, <1>8 DEF Structure, TypeOK, clients
<1> QED BY <1>1, <1>5, <1>7, <1>9 DEF Structure, Looked, clients

(* prvSwitchTimerLists.                                                     *)
LEMMA SwitchStructure ==
    ASSUME Structure, prvSwitchTimerLists
    PROVE  Structure'
<1>1. /\ UNCHANGED <<xTickCount, xTimerPeriodInTicks, allocated, xNextExpireTime, xListWasEmpty,
                     xTimeNow, wait, clients, lag>>
      /\ pc \in {"switchSuspended", "switch"}
    BY DEF prvSwitchTimerLists
<1>2. CASE pxCurrentTimerList = <<>>
    <2>1. /\ pxCurrentTimerList' = pxOverflowTimerList /\ pxOverflowTimerList' = pxCurrentTimerList
          /\ xLastTime' = xTimeNow /\ pc' = AfterSwitch
          /\ UNCHANGED <<xTimerListItem, xTimerQueue, due, started, early>>
        BY <1>2 DEF prvSwitchTimerLists
    <2>2. pc' \in {"commands", "receive"}
        BY <2>1 DEF AfterSwitch
    <2>3. AreLists(pxCurrentTimerList', pxOverflowTimerList')
        BY <2>1 DEF Structure, AreLists
    <2>4. TypeOK'
        BY <1>1, <2>1, <2>2 DEF Structure, TypeOK, clients
    <2> QED BY <1>1, <2>1, <2>2, <2>3, <2>4 DEF Structure, Looked, clients
<1>3. CASE pxCurrentTimerList # <<>>
    <2> DEFINE t == Head(pxCurrentTimerList)
               expiry == xTimerListItem[t]
               period == xTimerPeriodInTicks[t]
               next == ExpiryAfter(expiry, period)
               again == t \in AutoReload /\ next > expiry
    <2>1. /\ xTimerQueue' = IF again \/ t \notin AutoReload THEN xTimerQueue
                            ELSE Posted(xTimerQueue, Reload(expiry, t, -due[t]))
          /\ due' = [due EXCEPT ![t] = IF again THEN @ + period ELSE 0]
          /\ early' = (early \/ due[t] > 0)
          /\ started' = IF t \in AutoReload THEN started ELSE started \ {t}
          /\ UNCHANGED <<pc, xLastTime>>
        BY <1>3 DEF prvSwitchTimerLists, Callback
    <2>2. /\ t \in Timers /\ t \in Active /\ In(t, pxCurrentTimerList)
          /\ \E l : Moves(t, l)
        <3>1. /\ t = Head(pxCurrentTimerList)
              /\ next = ExpiryAfter(xTimerListItem[t], xTimerPeriodInTicks[t])
            OBVIOUS
        <3> HIDE DEF t, next
        <3> QED BY <1>3, <3>1, SwitchMoves
    <2> HIDE DEF t, next
    <2>3. /\ period \in Int /\ due[t] \in Int /\ due \in [Timers -> Int] /\ -due[t] \in Int
          /\ expiry \in Ticks
        BY <2>2, Types DEF Structure
    <2> HIDE DEF again, expiry, period
    <2>4. due' \in [Timers -> Int] /\ started' \subseteq Timers
        <3>1. due[t] + period \in Int /\ 0 \in Int
            BY <2>3
        <3>2. due' \in [Timers -> Int]
            BY <2>1, <2>3, <3>1
        <3>3. started \subseteq Timers
            BY DEF Structure, TypeOK
        <3> QED BY <2>1, <3>2, <3>3
    <2>5. xTimerQueue' \in Seq(Messages) /\ Len(xTimerQueue') <= configTIMER_QUEUE_LENGTH
        <3>1. xTimerQueue \in Seq(Messages) /\ Len(xTimerQueue) <= configTIMER_QUEUE_LENGTH
            BY DEF Structure, TypeOK
        <3>2. Reload(expiry, t, -due[t]) \in Messages
            BY <2>2, <2>3, MessageType
        <3> QED BY <2>1, <3>1, <3>2, PostedType
    <2>6. /\ AreLists(pxCurrentTimerList', pxOverflowTimerList')
          /\ xTimerListItem' \in [Timers -> Ticks]
          /\ \A l \in {pxCurrentTimerList', pxOverflowTimerList'} :
                l \in Seq(Timers) /\ \A m, n \in DOMAIN l : l[m] = l[n] => m = n
        BY <2>2, MovedTypes
    <2>7. early' \in BOOLEAN
        BY <2>1
    <2>8. TypeOK'
        BY <1>1, <2>1, <2>4, <2>5, <2>6, <2>7 DEF Structure, TypeOK, clients
    <2> QED BY <1>1, <2>1, <2>5, <2>6, <2>8 DEF Structure, Looked, clients
<1> QED BY <1>2, <1>3

(* What every round of prvProcessReceivedCommands finds.                    *)
LEMMA Received ==
    ASSUME Structure, prvProcessReceivedCommands, NEW m, m = Head(xTimerQueue),
           NEW q, q = Tail(xTimerQueue)
    PROVE  /\ m \in Messages /\ q \in Seq(Messages) /\ Len(q) = Len(xTimerQueue) - 1
           /\ Len(xTimerQueue) <= configTIMER_QUEUE_LENGTH /\ Len(xTimerQueue) \in Nat
           /\ UNCHANGED <<xTickCount, xLastTime, locals, clients, lag>> /\ pc = "receive"
           /\ \/ /\ m.xMessageID = tmrCOMMAND_START
                 /\ StartCommand(m, Without(pxCurrentTimerList, m.pxTimer),
                                 Without(pxOverflowTimerList, m.pxTimer), q)
              \/ /\ m.xMessageID = tmrCOMMAND_STOP
                 /\ StopCommand(m, Without(pxCurrentTimerList, m.pxTimer),
                                Without(pxOverflowTimerList, m.pxTimer), q)
              \/ /\ m.xMessageID = tmrCOMMAND_CHANGE_PERIOD
                 /\ ChangePeriodCommand(m, Without(pxCurrentTimerList, m.pxTimer),
                                        Without(pxOverflowTimerList, m.pxTimer), q)
              \/ /\ m.xMessageID = tmrCOMMAND_DELETE
                 /\ DeleteCommand(m, Without(pxCurrentTimerList, m.pxTimer),
                                  Without(pxOverflowTimerList, m.pxTimer), q)
<1>1. xTimerQueue \in Seq(Messages) /\ xTimerQueue # <<>> /\ Len(xTimerQueue) <= configTIMER_QUEUE_LENGTH
    BY DEF Structure, TypeOK, prvProcessReceivedCommands
<1>2. m \in Messages /\ q \in Seq(Messages) /\ Len(q) = Len(xTimerQueue) - 1 /\ Len(xTimerQueue) \in Nat
    BY <1>1
<1> QED BY <1>1, <1>2 DEF prvProcessReceivedCommands

(* prvProcessReceivedCommands.                                              *)
LEMMA ReceiveStructure ==
    ASSUME Structure, prvProcessReceivedCommands
    PROVE  Structure'
<1> DEFINE m == Head(xTimerQueue)
           q == Tail(xTimerQueue)
           t == m.pxTimer
           c == Without(pxCurrentTimerList, t)
           o == Without(pxOverflowTimerList, t)
<1>1. /\ m \in Messages /\ q \in Seq(Messages) /\ Len(q) <= configTIMER_QUEUE_LENGTH
      /\ UNCHANGED <<xTickCount, xLastTime, locals, clients, lag>> /\ pc = "receive"
      /\ \/ m.xMessageID = tmrCOMMAND_START /\ StartCommand(m, c, o, q)
         \/ m.xMessageID = tmrCOMMAND_STOP /\ StopCommand(m, c, o, q)
         \/ m.xMessageID = tmrCOMMAND_CHANGE_PERIOD /\ ChangePeriodCommand(m, c, o, q)
         \/ m.xMessageID = tmrCOMMAND_DELETE /\ DeleteCommand(m, c, o, q)
    <2>1. m = Head(xTimerQueue) /\ q = Tail(xTimerQueue)
        OBVIOUS
    <2> HIDE DEF m, q
    <2>2. configTIMER_QUEUE_LENGTH \in Nat
        BY TimersAssumption DEF TimersAssumption
    <2>3. Len(q) = Len(xTimerQueue) - 1 /\ Len(xTimerQueue) <= configTIMER_QUEUE_LENGTH
          /\ Len(xTimerQueue) \in Nat
        BY <2>1, Received
    <2>4. Len(q) <= configTIMER_QUEUE_LENGTH
        BY <2>2, <2>3
    <2> QED BY <2>1, <2>4, Received
<1> HIDE DEF m, q
<1>2. t \in Timers /\ m.xMessageValue \in Ticks /\ m.age \in Int
    BY <1>1 DEF Messages
<1>3. /\ lag \in Int /\ xTimerPeriodInTicks \in [Timers -> Periods]
      /\ due \in [Timers -> Int] /\ \A p \in Periods : p \in Int
    BY Types DEF Structure
<1>4. /\ \E l : Moves(t, l)
      /\ xTimerQueue' \in Seq(Messages) /\ Len(xTimerQueue') <= configTIMER_QUEUE_LENGTH
      /\ due' \in [Timers -> Int] /\ started' \subseteq Timers
      /\ xTimerPeriodInTicks' \in [Timers -> Periods] /\ allocated' \subseteq Timers
      /\ early' \in BOOLEAN
    <2>1. started \subseteq Timers /\ allocated \subseteq Timers /\ early \in BOOLEAN
        BY DEF Structure, TypeOK
    <2>2. CASE StartCommand(m, c, o, q)
        <3> DEFINE period == xTimerPeriodInTicks[t]
                   next == ExpiryAfter(m.xMessageValue, period)
                   list == ActiveListFor(period, next, xTimeNow, m.xMessageValue)
        <3>1. /\ xTimerQueue' = IF ReloadByCommand(t, list)
                                THEN Posted(q, Reload(next, t, m.age - period)) ELSE q
              /\ due' = [due EXCEPT ![t] = IF list = "now" THEN 0 ELSE period - m.age]
              /\ early' = (early \/ (list = "now" /\ m.age < period))
              /\ \/ started' = started \ {t}
                 \/ started' = started
                 \/ started' = started \cup {t}
              /\ UNCHANGED <<xTimerPeriodInTicks, allocated>>
            BY <2>2 DEF StartCommand
        <3>2. next \in Ticks /\ Moves(t, list)
            <4>1. /\ t = m.pxTimer /\ next = ExpiryAfter(m.xMessageValue, xTimerPeriodInTicks[t])
                  /\ list = ActiveListFor(xTimerPeriodInTicks[t], next, xTimeNow, m.xMessageValue)
                OBVIOUS
            <4> HIDE DEF t, next, list
            <4> QED BY <1>1, <2>2, <4>1, StartMoves DEF c, o, t
        <3> HIDE DEF next, list
        <3>3. m.age - period \in Int /\ period - m.age \in Int
            <4>1. period \in Int
                BY <1>2, <1>3
            <4> HIDE DEF period
            <4> QED BY <1>2, <4>1
        <3>4. Reload(next, t, m.age - period) \in Messages
            BY <1>2, <3>2, <3>3, MessageType
        <3> HIDE DEF period, t
        <3>5. xTimerQueue' \in Seq(Messages) /\ Len(xTimerQueue') <= configTIMER_QUEUE_LENGTH
            BY <1>1, <3>1, <3>4, PostedType
        <3>6. due' \in [Timers -> Int]
            <4>1. (IF list = "now" THEN 0 ELSE period - m.age) \in Int
                BY <3>3
            <4> QED BY <1>3, <3>1, <4>1
        <3>7. early' \in BOOLEAN
            BY <3>1
        <3>8. started' \subseteq Timers
            BY <1>2, <2>1, <3>1
        <3> QED BY <1>3, <2>1, <3>1, <3>2, <3>5, <3>6, <3>7, <3>8
    <2>3. CASE ChangePeriodCommand(m, c, o, q) /\ m.xMessageID = tmrCOMMAND_CHANGE_PERIOD
        <3>1. /\ xTimerQueue' = q /\ UNCHANGED <<allocated, early>>
              /\ xTimerPeriodInTicks' = [xTimerPeriodInTicks EXCEPT ![t] = m.xMessageValue]
              /\ due' = [due EXCEPT ![t] = m.xMessageValue - lag]
              /\ started' = started \cup {t}
            BY <2>3 DEF ChangePeriodCommand
        <3>2. (\E l : Moves(t, l)) /\ m.xMessageValue \in Periods
            <4> DEFINE next == ExpiryAfter(xTimeNow, m.xMessageValue)
                       list == ActiveListFor(m.xMessageValue, next, xTimeNow, xTimeNow)
            <4>1. /\ t = m.pxTimer /\ next = ExpiryAfter(xTimeNow, m.xMessageValue)
                  /\ list = ActiveListFor(m.xMessageValue, next, xTimeNow, xTimeNow)
                OBVIOUS
            <4> HIDE DEF t, next, list
            <4> QED BY <1>1, <2>3, <4>1, ChangeMoves DEF c, o, t
        <3>3. m.xMessageValue - lag \in Int
            BY <1>3, <3>2
        <3> HIDE DEF t
        <3> QED BY <1>1, <1>2, <1>3, <2>1, <3>1, <3>2, <3>3
    <2>4. CASE StopCommand(m, c, o, q) \/ DeleteCommand(m, c, o, q)
        <3>1. /\ xTimerQueue' = q /\ UNCHANGED <<xTimerPeriodInTicks, early>>
              /\ allocated' \subseteq allocated /\ started' \subseteq started
              /\ due' = [due EXCEPT ![t] = 0]
            BY <2>4 DEF StopCommand, DeleteCommand
        <3>2. \E l : Moves(t, l)
            BY <1>1, <2>4, StopMoves
        <3> HIDE DEF t
        <3> QED BY <1>1, <1>2, <1>3, <2>1, <3>1, <3>2
    <2> QED BY <1>1, <2>2, <2>3, <2>4
<1> HIDE DEF t
<1>5. /\ AreLists(pxCurrentTimerList', pxOverflowTimerList')
      /\ xTimerListItem' \in [Timers -> Ticks]
      /\ \A l \in {pxCurrentTimerList', pxOverflowTimerList'} :
            l \in Seq(Timers) /\ \A i, j \in DOMAIN l : l[i] = l[j] => i = j
    BY <1>4, MovedTypes
<1>6. TypeOK'
    BY <1>1, <1>4, <1>5 DEF Structure, TypeOK, locals, clients
<1> QED BY <1>1, <1>4, <1>5, <1>6 DEF Structure, Looked, locals, clients

(* Every step keeps what the variables can hold.                            *)
LEMMA StructureStep ==
    ASSUME Structure, [Next]_vars
    PROVE  Structure'
<1>1. CASE UNCHANGED vars
    BY <1>1 DEF vars, timers, timerLists, locals, clients, histories, Structure, TypeOK, Looked
<1>2. CASE ServiceTask
    BY <1>2, GetNextStructure, ProcessStructure, ExpiredStructure, SwitchStructure, QuietStructure,
       ReceiveStructure DEF ServiceTask
<1>3. CASE Tick
    BY <1>3, TickStructure
<1>4. CASE xTimerGenericCommand \/ \E t \in Timers : Command(t)
    BY <1>4, ClientStructure
<1>5. CASE \E t \in Timers, p \in Periods : xTimerCreate(t, p)
    BY <1>5, QuietStructure
<1> QED BY <1>1, <1>2, <1>3, <1>4, <1>5 DEF Next

(* The lists and the queue keep their types in every state, whoever sends   *)
(* commands and whenever (timers.c).                                        *)
THEOREM TimersTypesHold == Spec => []TypeOK
<1>1. Structure => TypeOK
    BY DEF Structure
<1> QED BY <1>1, StructureInit, StructureStep, PTL DEF Spec

-----------------------------------------------------------------------------
(* What the service task knows of the time.                                 *)

(* The service task counts from its last sample; while it switches the      *)
(* lists, from the sample that told it of the wrap, one lap later.  `Now'   *)
(* is the tick count on that scale, where the values of pxCurrentTimerList  *)
(* are as they stand and those of pxOverflowTimerList are one lap later.    *)
Switching == pc \in {"switch", "switchSuspended"}
SampledAt == IF Switching THEN xTimeNow ELSE xLastTime
Base == IF Switching THEN xTimeNow + TickMod ELSE xLastTime
Now == Base + ((xTickCount - SampledAt) % TickMod)

(* Timers due further ahead than this would still be in a list when the     *)
(* count passes the last sample again.                                      *)
Room == TickMod - 1 - MaxLag

InPhase(t) ==
    /\ In(t, pxCurrentTimerList) => /\ due[t] = xTimerListItem[t] - Now
                                    /\ xTimerListItem[t] <= Base + Room
    /\ In(t, pxOverflowTimerList) => /\ due[t] = xTimerListItem[t] + TickMod - Now
                                     /\ xTimerListItem[t] + TickMod <= Base + Room
    /\ t \in Active => due[t] >= -MaxLag

(* The sample and its age, where the service task goes by them.             *)
Sampled ==
    /\ pc = "expired" => xNextExpireTime <= xTimeNow
    /\ pc \in {"expired", "receive"} => xTimeNow = xLastTime
    /\ pc \in {"expired", "receive"} \/ Switching => xTickCount = (xTimeNow + lag) % TickMod

(* A start carries the tick count of its caller, and no command that waits  *)
(* to be received is newer than the sample.                                 *)
IsStart(m) == m.xMessageID = tmrCOMMAND_START
Aged(m) ==
    IsStart(m) => m.age \in 0..(TickMod - 1) /\ xTickCount = (m.xMessageValue + m.age) % TickMod
Waited(m) == IsStart(m) /\ (Switching \/ pc = "receive") => m.age >= lag

Times ==
    /\ \A t \in Timers : InPhase(t)
    /\ Sampled
    /\ client # NULL => Aged(client)
    /\ \A m \in Messages : In(m, xTimerQueue) => Aged(m) /\ Waited(m)
    /\ pc \in {"getNext", "processOrBlock", "expired", "blocked"} => xTimerQueue = <<>>
    /\ ~early

(* A number less than a lap outside the ticks has its remainder a lap away. *)
LEMMA ModTick ==
    ASSUME NEW a \in Int, -TickMod < a, a < 2 * TickMod
    PROVE  /\ a % TickMod \in Ticks
           /\ a % TickMod = IF a < 0 THEN a + TickMod ELSE IF a < TickMod THEN a ELSE a - TickMod
<1> DEFINE M == TickMod
<1>1. M \in Nat /\ M > 0
    BY TimersAssumption DEF TimersAssumption
<1>2. a % M \in 0..(M - 1) /\ a = M * (a \div M) + (a % M) /\ a \div M \in Int
    BY <1>1
<1>3. a \div M \in {-1, 0, 1}
    <2> DEFINE q == a \div M
    <2>1. q \in Int /\ M * q > a - M /\ M * q <= a
        BY <1>1, <1>2
    <2> HIDE DEF q
    <2>2. q >= 2 => M * q >= 2 * M
        BY <1>1, <2>1
    <2>3. q <= -2 => M * q <= -2 * M
        BY <1>1, <2>1
    <2> QED BY <1>1, <2>1, <2>2, <2>3
<1> HIDE DEF M
<1>4. a % M = a + M \/ a % M = a \/ a % M = a - M
    BY <1>1, <1>2, <1>3
<1>5. TickMod = M
    BY DEF M
<1> QED BY <1>1, <1>2, <1>4, <1>5 DEF Ticks

(* The numbers of this section.                                             *)
LEMMA Numbers ==
    /\ TickMod \in Nat /\ TickMod > 0 /\ MaxLag \in Nat /\ MaxLag < TickMod
    /\ Room \in Nat /\ \A p \in Periods : p \in Nat /\ p > 0 /\ p <= Room /\ p < TickMod
    /\ \A v \in Ticks : v \in Nat /\ v < TickMod
    /\ \A v \in Nat : v < TickMod => v \in Ticks
BY TimersAssumption DEF TimersAssumption, Room, Ticks

(* Ticks added to a tick value wrap at most once.                           *)
LEMMA ModSum ==
    ASSUME NEW v \in Ticks, NEW l \in Ticks
    PROVE  /\ (v + l) % TickMod \in Ticks
           /\ v + l < TickMod => (v + l) % TickMod = v + l
           /\ v + l >= TickMod => (v + l) % TickMod = (v + l) - TickMod
<1>1. v \in Nat /\ v < TickMod /\ l \in Nat /\ l < TickMod /\ TickMod \in Nat
    BY Numbers
<1> DEFINE a == v + l
<1>2. a \in Int /\ -TickMod < a /\ a < 2 * TickMod /\ ~(a < 0)
    BY <1>1
<1> HIDE DEF a
<1>3. /\ a % TickMod \in Ticks
      /\ a % TickMod = IF a < 0 THEN a + TickMod ELSE IF a < TickMod THEN a ELSE a - TickMod
    BY <1>2, ModTick
<1>4. a % TickMod \in Ticks /\ (a < TickMod => a % TickMod = a)
      /\ (a >= TickMod => a % TickMod = a - TickMod)
    BY <1>1, <1>2, <1>3
<1> QED BY <1>4 DEF a

(* The ticks since a sample, from the count and the sample.                 *)
LEMMA SinceSample ==
    ASSUME NEW v \in Ticks, NEW l \in 0..MaxLag
    PROVE  (((v + l) % TickMod) - v) % TickMod = l
<1>1. v \in Nat /\ v < TickMod /\ l \in Nat /\ l < TickMod /\ TickMod \in Nat
    BY Numbers
<1> DEFINE x == (v + l) % TickMod
<1>2. /\ v + l < TickMod => x = v + l
      /\ v + l >= TickMod => x = (v + l) - TickMod
    <2>1. l \in Ticks
        BY <1>1, Numbers
    <2> QED BY <2>1, ModSum
<1>5. x \in Nat /\ x < TickMod
    BY <1>1, ModSum, Numbers
<1> HIDE DEF x
<1>3. x \in Int /\ (x - v = l \/ x - v = l - TickMod)
    BY <1>1, <1>2
<1>4. (x - v) % TickMod = l
    <2>1. x - v \in Int /\ -TickMod < x - v /\ x - v < 2 * TickMod
        BY <1>1, <1>5
    <2>2. (x - v) % TickMod = IF x - v < 0 THEN x - v + TickMod
                              ELSE IF x - v < TickMod THEN x - v ELSE x - v - TickMod
        BY <2>1, ModTick
    <2> QED BY <1>1, <1>3, <2>2
<1> QED BY <1>4 DEF x

(* Where `Now' is.                                                          *)
NowFacts ==
    /\ Base \in Nat /\ Now \in Nat /\ Base <= Now /\ Now < Base + TickMod
    /\ ~Switching =>
          /\ Base = xLastTime
          /\ Now = IF xTickCount >= xLastTime THEN xTickCount ELSE xTickCount + TickMod
    /\ Switching => Base = xTimeNow + TickMod /\ Now = xTimeNow + TickMod + lag
    /\ pc \in {"expired", "receive"} => Base = xTimeNow /\ Now = xTimeNow + lag

(* The time on the scale of the service task, wherever it is.               *)
LEMMA NowIs == Structure /\ Sampled => NowFacts
<1> SUFFICES ASSUME Structure, Sampled PROVE NowFacts
    OBVIOUS
<1> USE DEF NowFacts
<1>1. /\ xTickCount \in Ticks /\ xLastTime \in Ticks /\ xTimeNow \in Ticks /\ lag \in 0..MaxLag
      /\ lag \in Nat
    BY Types DEF Structure
<1>2. /\ TickMod \in Nat /\ xTickCount \in Nat /\ xLastTime \in Nat /\ xTimeNow \in Nat
      /\ xTickCount < TickMod /\ xLastTime < TickMod /\ xTimeNow < TickMod
    BY <1>1, Numbers
<1>3. CASE Switching
    <2>1. xTickCount = (xTimeNow + lag) % TickMod
        BY <1>3 DEF Sampled
    <2>2. (xTickCount - xTimeNow) % TickMod = lag
        BY <1>1, <2>1, SinceSample
    <2>3. Base = xTimeNow + TickMod /\ Now = xTimeNow + TickMod + lag
        BY <1>3, <2>2 DEF Base, Now, SampledAt
    <2>4. pc \notin {"expired", "receive"} /\ lag < TickMod
        BY <1>1, <1>3, Numbers DEF Switching
    <2> QED BY <1>1, <1>2, <1>3, <2>3, <2>4
<1>4. CASE ~Switching
    <2> DEFINE x == (xTickCount - xLastTime) % TickMod
    <2>1. Base = xLastTime /\ Now = xLastTime + x
        BY <1>4 DEF Base, Now, SampledAt
    <2>2. /\ xTickCount - xLastTime \in Int /\ -TickMod < xTickCount - xLastTime
          /\ xTickCount - xLastTime < 2 * TickMod
        BY <1>2
    <2>3. x = IF xTickCount - xLastTime < 0 THEN xTickCount - xLastTime + TickMod
              ELSE IF xTickCount - xLastTime < TickMod THEN xTickCount - xLastTime
              ELSE xTickCount - xLastTime - TickMod
        BY <2>2, ModTick
    <2>4. x \in Nat /\ x < TickMod
        BY <2>2, ModTick, Numbers
    <2>5. pc \in {"expired", "receive"} => x = lag /\ xTimeNow = xLastTime
        BY <1>1, SinceSample DEF Sampled
    <2> HIDE DEF x
    <2> QED BY <1>2, <1>4, <2>1, <2>3, <2>4, <2>5
<1> QED BY <1>3, <1>4

(* The same after a step.                                                   *)
LEMMA NowIsThen == (Structure /\ Sampled => NowFacts)'
BY NowIs, PTL

(* prvInsertTimerInActiveList is right about a timer that was started `a'   *)
(* ticks before the sample, less than a lap: it has expired if its period   *)
(* has passed, and goes to its own side of the wrap if it has not.          *)
LEMMA ListIsRight ==
    ASSUME NEW now \in Ticks, NEW cmd \in Ticks, NEW p \in Periods, NEW a \in Ticks,
           now = (cmd + a) % TickMod, NEW next, next = ExpiryAfter(cmd, p),
           NEW list, list = ActiveListFor(p, next, now, cmd)
    PROVE  /\ list \in {"now", "current", "overflow"}
           /\ list = "now" <=> a >= p
           /\ list = "current" => next = now + p - a
           /\ list = "overflow" => next + TickMod = now + p - a
           /\ next = cmd + p \/ next = cmd + p - TickMod
<1>1. /\ TickMod \in Nat /\ now \in Nat /\ cmd \in Nat /\ p \in Nat /\ a \in Nat /\ p > 0
      /\ now < TickMod /\ cmd < TickMod /\ p < TickMod /\ a < TickMod
    BY Numbers
<1>2. now = IF cmd + a < TickMod THEN cmd + a ELSE (cmd + a) - TickMod
    <2>1. /\ cmd + a < TickMod => now = cmd + a
          /\ cmd + a >= TickMod => now = (cmd + a) - TickMod
        BY ModSum
    <2> QED BY <1>1, <2>1
<1>3. next = IF cmd + p < TickMod THEN cmd + p ELSE (cmd + p) - TickMod
    <2>1. p \in Ticks
        BY <1>1, Numbers
    <2>2. /\ cmd + p < TickMod => next = cmd + p
          /\ cmd + p >= TickMod => next = (cmd + p) - TickMod
        BY <2>1, ModSum DEF ExpiryAfter
    <2> QED BY <1>1, <2>2
<1>4. (now - cmd) % TickMod = a
    <2>1. now - cmd \in Int /\ -TickMod < now - cmd /\ now - cmd < 2 * TickMod
        BY <1>1
    <2>2. (now - cmd) % TickMod = IF now - cmd < 0 THEN now - cmd + TickMod
                                  ELSE IF now - cmd < TickMod THEN now - cmd
                                  ELSE now - cmd - TickMod
        BY <2>1, ModTick
    <2> QED BY <1>1, <1>2, <2>2
<1>5. list = IF next <= now THEN IF a >= p THEN "now" ELSE "overflow"
             ELSE IF now < cmd /\ next >= cmd THEN "now" ELSE "current"
    BY <1>4 DEF ActiveListFor
<1>6. next \in Int
    BY <1>1, <1>3
<1>7. CASE next <= now
    <2>1. list = IF a >= p THEN "now" ELSE "overflow"
        BY <1>5, <1>7
    <2>2. ~(a >= p) => next + TickMod = now + p - a
        BY <1>1, <1>2, <1>3, <1>7
    <2> QED BY <1>1, <1>3, <2>1, <2>2
<1>8. CASE ~(next <= now)
    <2>1. list = IF now < cmd /\ next >= cmd THEN "now" ELSE "current"
        BY <1>5, <1>8
    <2>2. (now < cmd /\ next >= cmd) <=> a >= p
        BY <1>1, <1>2, <1>3, <1>8
    <2>3. ~(a >= p) => next = now + p - a
        BY <1>1, <1>2, <1>3, <1>8
    <2> QED BY <1>1, <1>3, <2>1, <2>2, <2>3
<1> QED BY <1>7, <1>8

(* A timer that a step leaves where it was stays in phase.                  *)
LEMMA StaysInPhase ==
    ASSUME NEW t \in Timers, InPhase(t),
           In(t, pxCurrentTimerList') <=> In(t, pxCurrentTimerList),
           In(t, pxOverflowTimerList') <=> In(t, pxOverflowTimerList),
           xTimerListItem'[t] = xTimerListItem[t], due'[t] = due[t],
           xTimerListItem[t] \in Int, Base \in Int, Base' \in Int,
           Now' = Now, Base' >= Base
    PROVE  InPhase(t)'
<1>1. t \in Active' <=> t \in Active
    BY DEF Active, xTimerIsTimerActive
<1>2. /\ xTimerListItem[t] <= Base + Room => xTimerListItem[t] <= Base' + Room
      /\ xTimerListItem[t] + TickMod <= Base + Room => xTimerListItem[t] + TickMod <= Base' + Room
    BY Numbers
<1> QED BY <1>1, <1>2 DEF InPhase

(* Messages in a queue.                                                     *)
LEMMA QueueHolds ==
    ASSUME NEW q \in Seq(Messages)
    PROVE  /\ \A m \in Messages : ~In(m, <<>>)
           /\ q # <<>> => /\ Head(q) \in Messages /\ In(Head(q), q)
                          /\ \A m \in Messages : In(m, Tail(q)) => In(m, q)
                          /\ \A m \in Messages : In(m, q) => m = Head(q) \/ In(m, Tail(q))
           /\ \A n \in Messages :
                 /\ \A m \in Messages : In(m, Append(q, n)) <=> m = n \/ In(m, q)
                 /\ \A m \in Messages : In(m, Posted(q, n)) => m = n \/ In(m, q)
                 /\ \A m \in Messages : In(m, q) => In(m, Posted(q, n))
                 /\ Len(q) < configTIMER_QUEUE_LENGTH => In(n, Posted(q, n))
<1>1. DOMAIN <<>> = {} /\ DOMAIN q = 1..Len(q) /\ Len(q) \in Nat
    OBVIOUS
<1>2. \A m \in Messages : ~In(m, <<>>)
    BY <1>1 DEF In
<1>3. ASSUME q # <<>>
      PROVE  /\ Head(q) \in Messages /\ In(Head(q), q)
             /\ \A m \in Messages : In(m, Tail(q)) => In(m, q)
             /\ \A m \in Messages : In(m, q) => m = Head(q) \/ In(m, Tail(q))
    <2> DEFINE r == Tail(q)
    <2>1. /\ Head(q) = q[1] /\ 1 \in 1..Len(q) /\ DOMAIN r = 1..(Len(q) - 1)
          /\ \A n \in 1..(Len(q) - 1) : r[n] = q[n + 1] /\ n + 1 \in 1..Len(q)
          /\ q[1] \in Messages
        BY <1>1, <1>3
    <2> HIDE DEF r
    <2>2. \A n \in 1..Len(q) : n # 1 => n - 1 \in 1..(Len(q) - 1) /\ q[n] = r[n - 1]
        BY <1>1, <2>1
    <2> QED BY <1>1, <2>1, <2>2 DEF In, r
<1>4. ASSUME NEW n \in Messages
      PROVE  \A m \in Messages : In(m, Append(q, n)) <=> m = n \/ In(m, q)
    <2> DEFINE r == Append(q, n)
    <2>1. /\ DOMAIN r = 1..(Len(q) + 1) /\ r[Len(q) + 1] = n
          /\ \A i \in 1..Len(q) : r[i] = q[i]
        BY <1>1
    <2> HIDE DEF r
    <2>2. /\ Len(q) + 1 \in 1..(Len(q) + 1)
          /\ \A i \in 1..(Len(q) + 1) : i = Len(q) + 1 \/ i \in 1..Len(q)
          /\ \A i \in 1..Len(q) : i \in 1..(Len(q) + 1)
        BY <1>1
    <2> QED BY <1>1, <2>1, <2>2 DEF In, r
<1>5. \A n : (Posted(q, n) = q /\ ~(Len(q) < configTIMER_QUEUE_LENGTH))
             \/ Posted(q, n) = Append(q, n)
    BY DEF Posted
<1> QED BY <1>2, <1>3, <1>4, <1>5

(* The first state.                                                         *)
LEMMA TimesInit ==
    ASSUME Init
    PROVE  Times
<1>1. \A t : ~In(t, <<>>)
    BY DEF In
<1>2. pc = "getNext" /\ xTimerQueue = <<>> /\ pxCurrentTimerList = <<>>
      /\ pxOverflowTimerList = <<>> /\ client = NULL /\ early = FALSE
    BY DEF Init
<1>3. \A t \in Timers : InPhase(t)
    BY <1>1, <1>2 DEF InPhase, Active, xTimerIsTimerActive
<1> QED BY <1>1, <1>2, <1>3 DEF Times, Sampled, Switching

(* Steps that neither sample the time nor touch a timer, and end where the  *)
(* service task does not go by a sample.                                    *)
LEMMA QuietTimes ==
    ASSUME Structure, Structure', Times, ~Switching, ~Switching',
           pc' \notin {"expired", "receive"},
           UNCHANGED <<xTickCount, pxCurrentTimerList, pxOverflowTimerList, xTimerListItem, due,
                       xLastTime, early>>,
           client' # NULL => Aged(client)',
           \A m \in Messages : In(m, xTimerQueue') => Aged(m)',
           pc' \in {"getNext", "processOrBlock", "blocked"} => xTimerQueue' = <<>>
    PROVE  Times'
<1>1. Now' = Now /\ Base' = Base /\ Base \in Int
    <2>1. Base \in Nat
        BY NowIs DEF Times, NowFacts
    <2>2. Now' = Now /\ Base' = Base
        BY DEF Now, Base, SampledAt
    <2> QED BY <2>1, <2>2
<1>2. ASSUME NEW t \in Timers PROVE InPhase(t)'
    <2>1. InPhase(t) /\ xTimerListItem[t] \in Int
        BY Types, Numbers DEF Times, Structure
    <2> QED BY <1>1, <2>1, StaysInPhase
<1>3. Sampled'
    BY DEF Sampled
<1>4. \A m \in Messages : Waited(m)'
    BY DEF Waited
<1> QED BY <1>2, <1>3, <1>4 DEF Times

(* The steps of clients, and those of the service task between samples.     *)
LEMMA OtherTimes ==
    ASSUME ~Preempts, Structure, Structure', Times,
           \/ prvGetNextExpireTime \/ CommandsDone \/ xTimerGenericCommand
           \/ \E t \in Timers : Command(t) \/ \E p \in Periods : xTimerCreate(t, p)
    PROVE  Times'
<1>1. CASE prvGetNextExpireTime \/ CommandsDone
    <2>1. /\ ~Switching /\ ~Switching' /\ pc' \in {"processOrBlock", "getNext"}
          /\ UNCHANGED <<xTickCount, pxCurrentTimerList, pxOverflowTimerList, xTimerListItem, due,
                         xLastTime, early, client, xTimerQueue>>
          /\ xTimerQueue' = <<>>
        BY <1>1 DEF prvGetNextExpireTime, CommandsDone, Switching, timers, timerLists, histories,
                    clients, Times
    <2>2. client' # NULL => Aged(client)'
        BY <2>1 DEF Times, Aged
    <2>3. \A m \in Messages : ~In(m, xTimerQueue')
        BY <2>1 DEF In
    <2> QED BY <2>1, <2>2, <2>3, QuietTimes
<1>2. CASE xTimerGenericCommand
    <2>1. /\ pc = "blocked" /\ xTimerQueue = <<>> /\ client \in Messages /\ Aged(client)
          /\ client' = NULL
          /\ UNCHANGED <<xTickCount, pxCurrentTimerList, pxOverflowTimerList, xTimerListItem, due,
                         xLastTime, early>>
        BY <1>2 DEF xTimerGenericCommand, ClientRuns, Times, Structure, timers, timerLists,
                    histories
    <2>2. xTimerQueue' = Append(xTimerQueue, client) /\ pc' = "commands"
        <3>1. Len(xTimerQueue) < configTIMER_QUEUE_LENGTH
            BY <2>1, TimersAssumption DEF TimersAssumption
        <3> QED BY <1>2, <2>1, <3>1 DEF xTimerGenericCommand
    <2>3. ASSUME NEW m \in Messages, In(m, xTimerQueue') PROVE Aged(m)'
        <3>1. m = client
            BY <2>1, <2>2, <2>3, QueueHolds DEF Structure
        <3> QED BY <2>1, <3>1 DEF Aged
    <2>4. ~Switching /\ ~Switching'
        BY <2>1, <2>2 DEF Switching
    <2> QED BY <2>1, <2>2, <2>3, <2>4, QuietTimes
<1>3. ASSUME NEW t \in Timers, Command(t) PROVE Times'
    <2>1. /\ pc = "blocked" /\ pc' = pc /\ xTimerQueue = <<>> /\ xTimerQueue' = xTimerQueue
          /\ UNCHANGED <<xTickCount, pxCurrentTimerList, pxOverflowTimerList, xTimerListItem, due,
                         xLastTime, early>>
        BY <1>3 DEF Command, ClientRuns, Times, timers, timerLists, histories, locals
    <2>2. Aged(client)'
        <3>1. \/ client' = Message(tmrCOMMAND_START, xTickCount, t)
              \/ client' = Message(tmrCOMMAND_STOP, 0, t)
              \/ \E p \in Periods : client' = Message(tmrCOMMAND_CHANGE_PERIOD, p, t)
              \/ client' = Message(tmrCOMMAND_DELETE, 0, t)
            BY <1>3 DEF Command
        <3>2. ASSUME client' = Message(tmrCOMMAND_START, xTickCount, t) PROVE Aged(client)'
            <4>1. /\ xTickCount \in Ticks /\ 0 \in Ticks /\ xTickCount \in Nat
                  /\ xTickCount < TickMod /\ TickMod \in Nat /\ TickMod > 0
                BY Types, Numbers DEF Structure
            <4>2. (xTickCount + 0) % TickMod = xTickCount
                BY <4>1, ModSum
            <4>3. client'.age = 0 /\ client'.xMessageValue = xTickCount /\ xTickCount' = xTickCount
                BY <2>1, <3>2 DEF Message
            <4> QED BY <4>1, <4>2, <4>3 DEF Aged
        <3>3. ASSUME client'.xMessageID # tmrCOMMAND_START PROVE Aged(client)'
            BY <3>3 DEF Aged, IsStart
        <3> QED BY <3>1, <3>2, <3>3 DEF Message, tmrCOMMAND_START, tmrCOMMAND_STOP, tmrCOMMAND_DELETE,
                                       tmrCOMMAND_CHANGE_PERIOD
    <2>3. \A m \in Messages : ~In(m, xTimerQueue')
        BY <2>1 DEF In
    <2>4. ~Switching /\ ~Switching'
        BY <2>1 DEF Switching
    <2> QED BY <2>1, <2>2, <2>3, <2>4, QuietTimes
<1>4. ASSUME NEW t \in Timers, NEW p \in Periods, xTimerCreate(t, p) PROVE Times'
    <2>1. /\ pc = "blocked" /\ pc' = pc /\ xTimerQueue = <<>> /\ xTimerQueue' = xTimerQueue
          /\ UNCHANGED <<xTickCount, pxCurrentTimerList, pxOverflowTimerList, xTimerListItem, due,
                         xLastTime, early, client>>
        BY <1>4 DEF xTimerCreate, ClientRuns, Times, timerLists, histories, locals
    <2>2. client' # NULL => Aged(client)'
        BY <2>1 DEF Times, Aged
    <2>3. \A m \in Messages : ~In(m, xTimerQueue')
        BY <2>1 DEF In
    <2>4. ~Switching /\ ~Switching'
        BY <2>1 DEF Switching
    <2> QED BY <2>1, <2>2, <2>3, <2>4, QuietTimes
<1> QED BY <1>1, <1>2, <1>3, <1>4

(* A sample, which finds the wrap or not.                                   *)
LEMMA SampleTimes ==
    ASSUME Structure, Structure', Times, pc \in {"processOrBlock", "commands"},
           \/ SampledNextLap /\ xLastTime' = xLastTime /\ Switching'
           \/ SampledSameLap /\ ~Switching',
           pc' = "expired" => xNextExpireTime' <= xTimeNow',
           UNCHANGED <<xTickCount, pxCurrentTimerList, pxOverflowTimerList, xTimerListItem, due,
                       xTimerQueue, client, early>>,
           pc' \in {"getNext", "processOrBlock", "expired", "blocked"} => xTimerQueue = <<>>
    PROVE  Times'
<1>1. ~Switching
    BY DEF Switching
<1>2. /\ xTickCount \in Nat /\ xLastTime \in Nat /\ xTickCount < TickMod /\ TickMod \in Nat
      /\ xLastTime < TickMod /\ xTickCount \in Ticks /\ 0 \in Ticks
    BY Types, Numbers DEF Structure
<1>3. xTimeNow' = xTickCount /\ lag' = 0 /\ xTickCount' = xTickCount
    BY DEF SampledNextLap, SampledSameLap
<1>4. xTickCount' = (xTimeNow' + lag') % TickMod
    BY <1>2, <1>3, ModSum
<1>5. Sampled'
    <2>1. pc' \in {"expired", "receive"} => xTimeNow' = xLastTime'
        BY DEF SampledSameLap, Switching
    <2> QED BY <1>4, <2>1 DEF Sampled
<1>6. Now' = Now /\ Base' >= Base /\ Base \in Int /\ Base' \in Int
    <2>1. /\ Base = xLastTime
          /\ Now = IF xTickCount >= xLastTime THEN xTickCount ELSE xTickCount + TickMod
        BY <1>1, NowIs DEF Times, NowFacts
    <2>2. /\ ~Switching' => /\ Base' = xLastTime'
                            /\ Now' = IF xTickCount' >= xLastTime' THEN xTickCount'
                                      ELSE xTickCount' + TickMod
          /\ Switching' => Base' = xTimeNow' + TickMod /\ Now' = xTimeNow' + TickMod + lag'
        BY <1>5, NowIsThen DEF NowFacts
    <2>3. CASE SampledNextLap /\ Switching'
        BY <1>2, <1>3, <2>1, <2>2, <2>3 DEF SampledNextLap
    <2>4. CASE SampledSameLap /\ ~Switching'
        BY <1>2, <1>3, <2>1, <2>2, <2>4 DEF SampledSameLap
    <2> QED BY <2>3, <2>4
<1>7. ASSUME NEW t \in Timers PROVE InPhase(t)'
    <2>1. InPhase(t) /\ xTimerListItem[t] \in Int
        BY Types, Numbers DEF Times, Structure
    <2> QED BY <1>6, <2>1, StaysInPhase
<1>8. ASSUME NEW m \in Messages, In(m, xTimerQueue') PROVE Aged(m)' /\ Waited(m)'
    <2>1. Aged(m)
        BY <1>8 DEF Times
    <2> QED BY <1>3, <2>1, Numbers DEF Aged, Waited
<1>9. client' # NULL => Aged(client)'
    BY <1>3 DEF Times, Aged
<1> QED BY <1>5, <1>7, <1>8, <1>9 DEF Times

(* The two places where the time is sampled.                                *)
LEMMA SamplingTimes ==
    ASSUME Structure, Structure', Times, prvProcessTimerOrBlockTask \/ SampleForCommands
    PROVE  Times'
<1>1. UNCHANGED <<xTickCount, pxCurrentTimerList, pxOverflowTimerList, xTimerListItem, due,
                  xTimerQueue, client, early>>
    BY DEF prvProcessTimerOrBlockTask, SampleForCommands, timers, timerLists, clients
<1>2. CASE prvProcessTimerOrBlockTask
    <2>1. pc = "processOrBlock" /\ xTimerQueue = <<>>
        BY <1>2 DEF prvProcessTimerOrBlockTask, Times
    <2>2. /\ \/ SampledNextLap /\ xLastTime' = xLastTime /\ Switching'
             \/ SampledSameLap /\ ~Switching'
          /\ pc' = "expired" => xNextExpireTime' <= xTimeNow'
        BY <1>2 DEF prvProcessTimerOrBlockTask, Switching
    <2> QED BY <1>1, <2>1, <2>2, SampleTimes
<1>3. CASE SampleForCommands
    <2>1. /\ pc = "commands" /\ pc' \in {"switch", "receive"}
          /\ \/ SampledNextLap /\ xLastTime' = xLastTime /\ Switching'
             \/ SampledSameLap /\ ~Switching'
        BY <1>3 DEF SampleForCommands, Switching
    <2> QED BY <1>1, <2>1, SampleTimes
<1> QED BY <1>2, <1>3

(* A step that moves one timer keeps all in phase if it puts that timer     *)
(* where it is due.                                                         *)
LEMMA MovedInPhase ==
    ASSUME Structure, Times, NEW t \in Timers, NEW list, Moves(t, list),
           \A u \in Timers : u # t => due'[u] = due[u],
           Now' = Now, Base' = Base,
           list = "current" => /\ due'[t] = xTimerListItem'[t] - Now
                               /\ xTimerListItem'[t] <= Base + Room,
           list = "overflow" => /\ due'[t] = xTimerListItem'[t] + TickMod - Now
                                /\ xTimerListItem'[t] + TickMod <= Base + Room,
           list \in {"current", "overflow"} => due'[t] >= -MaxLag
    PROVE  \A u \in Timers : InPhase(u)'
<1>1. Base \in Int
    BY NowIs DEF Times, NowFacts
<1>2. ASSUME NEW u \in Timers, u # t PROVE InPhase(u)'
    <2>1. InPhase(u) /\ xTimerListItem[u] \in Int
        BY Types, Numbers DEF Times, Structure
    <2>2. /\ In(u, pxCurrentTimerList') <=> In(u, pxCurrentTimerList)
          /\ In(u, pxOverflowTimerList') <=> In(u, pxOverflowTimerList)
          /\ xTimerListItem'[u] = xTimerListItem[u]
        BY <1>2 DEF Moves
    <2> QED BY <1>1, <1>2, <2>1, <2>2, StaysInPhase
<1>3. InPhase(t)'
    <2>1. /\ In(t, pxCurrentTimerList') <=> list = "current"
          /\ In(t, pxOverflowTimerList') <=> list = "overflow"
        BY DEF Moves
    <2>2. t \in Active' <=> list \in {"current", "overflow"}
        BY <2>1 DEF Active, xTimerIsTimerActive
    <2> QED BY <2>1, <2>2 DEF InPhase
<1> QED BY <1>2, <1>3

(* The callback of a timer that has expired.                                *)
LEMMA ExpiredTimes ==
    ASSUME Structure, Structure', Times, prvProcessExpiredTimer
    PROVE  Times'
<1> DEFINE t == Head(pxCurrentTimerList)
           period == xTimerPeriodInTicks[t]
           next == ExpiryAfter(xNextExpireTime, period)
           list == ActiveListFor(period, next, xTimeNow, xNextExpireTime)
           a == xTimeNow - xNextExpireTime
<1>1. /\ t \in AutoReload =>
             /\ xTimerQueue' = IF ReloadByCommand(t, list)
                               THEN Posted(xTimerQueue, Reload(xNextExpireTime, t, -due[t]))
                               ELSE xTimerQueue
             /\ due' = [due EXCEPT ![t] = IF list = "now" THEN 0 ELSE due[t] + period]
      /\ t \notin AutoReload => due' = [due EXCEPT ![t] = 0] /\ xTimerQueue' = xTimerQueue
      /\ early' = (early \/ due[t] > 0)
      /\ pc = "expired" /\ pc' = "commands"
      /\ UNCHANGED <<xTickCount, xTimerPeriodInTicks, xLastTime, xTimeNow, client, lag>>
    BY DEF prvProcessExpiredTimer, Callback, clients
<1>2. /\ t \in Timers /\ t \in Active /\ In(t, pxCurrentTimerList)
      /\ xNextExpireTime = xTimerListItem[t] /\ next \in Ticks
      /\ t \in AutoReload => Moves(t, list) /\ xTimerListItem'[t] = next
      /\ t \notin AutoReload => Moves(t, "none")
    <2>1. /\ t = Head(pxCurrentTimerList)
          /\ next = ExpiryAfter(xNextExpireTime, xTimerPeriodInTicks[t])
          /\ list = ActiveListFor(xTimerPeriodInTicks[t], next, xTimeNow, xNextExpireTime)
        OBVIOUS
    <2> HIDE DEF t, next, list
    <2> QED BY <2>1, ExpiredMoves
<1>3. /\ period \in Periods /\ xTimeNow \in Ticks /\ xNextExpireTime \in Ticks
      /\ due \in [Timers -> Int] /\ lag \in Nat /\ lag <= MaxLag
      /\ xTimeNow \in Nat /\ xNextExpireTime \in Nat /\ xTimeNow < TickMod
      /\ period \in Nat /\ period > 0 /\ period <= Room /\ Room \in Nat
      /\ MaxLag \in Nat /\ MaxLag < TickMod /\ TickMod \in Nat
    BY <1>2, Types, Numbers DEF Structure
<1>4. xNextExpireTime <= xTimeNow /\ xTickCount = (xTimeNow + lag) % TickMod
    BY <1>1 DEF Times, Sampled
<1>5. a \in Ticks /\ a \in Nat /\ xTimeNow = (xNextExpireTime + a) % TickMod
    <2>1. a \in Nat /\ a < TickMod /\ xNextExpireTime + a = xTimeNow /\ xTimeNow < TickMod
        BY <1>3, <1>4
    <2>2. a \in Ticks
        BY <2>1, Numbers
    <2> QED BY <1>3, <2>1, <2>2, ModSum
<1>6. /\ list \in {"now", "current", "overflow"}
      /\ list = "now" <=> a >= period
      /\ list = "current" => next = xTimeNow + period - a
      /\ list = "overflow" => next + TickMod = xTimeNow + period - a
    <2>1. /\ next = ExpiryAfter(xNextExpireTime, period)
          /\ list = ActiveListFor(period, next, xTimeNow, xNextExpireTime)
        OBVIOUS
    <2> HIDE DEF list, next, period, a
    <2> QED BY <1>3, <1>5, <2>1, ListIsRight
<1>7. Base = xTimeNow /\ Now = xTimeNow + lag /\ ~Switching /\ ~Switching'
    BY <1>1, NowIs DEF Times, NowFacts, Switching
<1>8. Now' = Now /\ Base' = Base
    BY <1>1, <1>7 DEF Now, Base, SampledAt
<1>9. due[t] = -(a + lag) /\ due[t] >= -MaxLag /\ due[t] \in Int
    <2>1. due[t] = xTimerListItem[t] - Now /\ due[t] >= -MaxLag
        BY <1>2 DEF Times, InPhase
    <2> QED BY <1>2, <1>3, <1>7, <2>1
<1> HIDE DEF t, list, next, period, a
<1>10. \A u \in Timers : InPhase(u)'
    <2>1. \A u \in Timers : u # t => due'[u] = due[u]
        BY <1>1, <1>3
    <2>2. CASE t \in AutoReload
        <3>1. list \in {"current", "overflow"} => due'[t] = due[t] + period
            BY <1>1, <1>2, <1>3, <2>2
        <3>2. CASE list = "current"
            <4>1. /\ due'[t] = next - Now /\ next <= Base + Room /\ due'[t] >= -MaxLag
                BY <1>3, <1>5, <1>6, <1>7, <1>9, <3>1, <3>2
            <4> QED BY <1>2, <1>8, <2>1, <2>2, <3>2, <4>1, MovedInPhase
        <3>3. CASE list = "overflow"
            <4>1. /\ due'[t] = next + TickMod - Now /\ next + TickMod <= Base + Room
                  /\ due'[t] >= -MaxLag
                BY <1>2, <1>3, <1>5, <1>6, <1>7, <1>9, <3>1, <3>3, Numbers
            <4> QED BY <1>2, <1>8, <2>1, <2>2, <3>3, <4>1, MovedInPhase
        <3>4. CASE list = "now"
            BY <1>2, <1>8, <2>1, <2>2, <3>4, MovedInPhase
        <3> QED BY <1>6, <3>2, <3>3, <3>4
    <2>3. CASE t \notin AutoReload
        BY <1>2, <1>8, <2>1, <2>3, MovedInPhase
    <2> QED BY <2>2, <2>3
<1>11. Sampled'
    BY <1>1, <1>7 DEF Sampled
<1>12. ASSUME NEW m \in Messages, In(m, xTimerQueue') PROVE Aged(m)' /\ Waited(m)'
    <2>1. Waited(m)'
        BY <1>1, <1>7 DEF Waited
    <2> DEFINE r == Reload(xNextExpireTime, t, -due[t])
    <2>2. /\ r \in Messages /\ r.age = a + lag /\ r.xMessageValue = xNextExpireTime
          /\ -due[t] = a + lag
        BY <1>2, <1>3, <1>5, <1>9, MessageType
    <2> HIDE DEF r
    <2>3. In(m, xTimerQueue) \/ m = r
        <3>1. xTimerQueue \in Seq(Messages)
            BY DEF Structure
        <3>2. xTimerQueue' = xTimerQueue \/ xTimerQueue' = Posted(xTimerQueue, r)
            BY <1>1 DEF r
        <3> QED BY <1>12, <2>2, <3>1, <3>2, QueueHolds
    <2>4. Aged(r)
        <3>1. xNextExpireTime + (a + lag) = xTimeNow + lag
            BY <1>3 DEF a
        <3>2. a + lag \in 0..(TickMod - 1)
            BY <1>3, <1>5, <1>9
        <3> QED BY <1>4, <2>2, <3>1, <3>2 DEF Aged
    <2>5. Aged(m)
        BY <2>3, <2>4, <1>12 DEF Times
    <2> QED BY <1>1, <2>1, <2>5 DEF Aged
<1>13. ~early'
    <2>1. ~(due[t] > 0)
        BY <1>3, <1>5, <1>9
    <2>2. ~early
        BY DEF Times
    <2> QED BY <1>1, <2>1, <2>2, Zenon
<1>14. client' # NULL => Aged(client)'
    BY <1>1 DEF Times, Aged
<1> QED BY <1>1, <1>10, <1>11, <1>12, <1>13, <1>14 DEF Times

(* A round of prvSwitchTimerLists: what is left in the current list is due  *)
(* since before the wrap.                                                   *)
LEMMA LeftoverTimes ==
    ASSUME Structure, Structure', Times, prvSwitchTimerLists, pxCurrentTimerList # <<>>
    PROVE  Times'
<1> DEFINE t == Head(pxCurrentTimerList)
           expiry == xTimerListItem[t]
           period == xTimerPeriodInTicks[t]
           next == ExpiryAfter(expiry, period)
           again == t \in AutoReload /\ next > expiry
<1>1. /\ xTimerQueue' = IF again \/ t \notin AutoReload THEN xTimerQueue
                        ELSE Posted(xTimerQueue, Reload(expiry, t, -due[t]))
      /\ due' = [due EXCEPT ![t] = IF again THEN due[t] + period ELSE 0]
      /\ early' = (early \/ due[t] > 0)
      /\ UNCHANGED <<pc, xLastTime, xTickCount, xNextExpireTime, xTimeNow, client, lag>>
      /\ Switching
    BY DEF prvSwitchTimerLists, Callback, clients, Switching
<1>2. /\ t \in Timers /\ t \in Active /\ In(t, pxCurrentTimerList) /\ next \in Ticks
      /\ again => Moves(t, "current") /\ xTimerListItem'[t] = next
      /\ ~again => Moves(t, "none")
    <2>1. /\ t = Head(pxCurrentTimerList)
          /\ next = ExpiryAfter(xTimerListItem[t], xTimerPeriodInTicks[t])
        OBVIOUS
    <2> HIDE DEF t, next
    <2> QED BY <2>1, SwitchMoves
<1>3. /\ period \in Periods /\ xTimeNow \in Ticks /\ expiry \in Ticks
      /\ due \in [Timers -> Int] /\ lag \in Nat /\ lag <= MaxLag
      /\ xTimeNow \in Nat /\ expiry \in Nat /\ expiry < TickMod
      /\ next \in Nat /\ next < TickMod
      /\ period \in Nat /\ period > 0 /\ Room \in Nat /\ period \in Ticks
      /\ MaxLag \in Nat /\ MaxLag < TickMod /\ TickMod \in Nat
    BY <1>2, Types, Numbers DEF Structure
<1>4. Base = xTimeNow + TickMod /\ Now = xTimeNow + TickMod + lag
    BY <1>1, NowIs DEF Times, NowFacts
<1>5. due[t] = expiry - Now /\ due[t] >= -MaxLag
    BY <1>2 DEF Times, InPhase
<1>6. due[t] \in Int /\ due[t] < 0 /\ -due[t] = xTimeNow + TickMod + lag - expiry
      /\ -due[t] \in 0..(TickMod - 1) /\ -due[t] >= lag
    BY <1>3, <1>4, <1>5
<1>7. again => next = expiry + period
    <2>1. /\ expiry + period < TickMod => next = expiry + period
          /\ expiry + period >= TickMod => next = (expiry + period) - TickMod
        BY <1>3, ModSum DEF ExpiryAfter
    <2>2. period < TickMod
        BY <1>3, Numbers
    <2> QED BY <1>3, <2>1, <2>2
<1>8. Now' = Now /\ Base' = Base
    BY <1>1 DEF Now, Base, SampledAt, Switching
<1> HIDE DEF t, next, again, expiry, period
<1>9. \A u \in Timers : InPhase(u)'
    <2>1. \A u \in Timers : u # t => due'[u] = due[u]
        BY <1>1, <1>3
    <2>2. CASE again
        <3>1. due'[t] = due[t] + period
            BY <1>1, <1>2, <1>3, <2>2
        <3>2. due'[t] = next - Now /\ next <= Base + Room /\ due'[t] >= -MaxLag
            BY <1>3, <1>4, <1>5, <1>6, <1>7, <2>2, <3>1
        <3> QED BY <1>2, <1>8, <2>1, <2>2, <3>2, MovedInPhase
    <2>3. CASE ~again
        BY <1>2, <1>8, <2>1, <2>3, MovedInPhase
    <2> QED BY <2>2, <2>3
<1>10. Sampled'
    BY <1>1 DEF Sampled, Times, Switching
<1>11. ASSUME NEW m \in Messages, In(m, xTimerQueue') PROVE Aged(m)' /\ Waited(m)'
    <2> DEFINE r == Reload(expiry, t, -due[t])
    <2>1. r \in Messages /\ r.age = -due[t] /\ r.xMessageValue = expiry
        BY <1>2, <1>3, <1>6, MessageType
    <2> HIDE DEF r
    <2>2. In(m, xTimerQueue) \/ m = r
        <3>1. xTimerQueue \in Seq(Messages)
            BY DEF Structure
        <3>2. xTimerQueue' = xTimerQueue \/ xTimerQueue' = Posted(xTimerQueue, r)
            BY <1>1 DEF r
        <3> QED BY <1>11, <2>1, <3>1, <3>2, QueueHolds
    <2>3. Aged(r) /\ Waited(r)
        <3>1. xTickCount = (xTimeNow + lag) % TickMod
            BY <1>1 DEF Times, Sampled
        <3>2. expiry + (-due[t]) = xTimeNow + lag + TickMod
            BY <1>3, <1>6
        <3>3. (expiry + (-due[t])) % TickMod = (xTimeNow + lag) % TickMod
            <4> DEFINE d == -due[t]
            <4>1. d \in Ticks /\ expiry + d = xTimeNow + lag + TickMod /\ lag \in Ticks
                BY <1>3, <1>6, <3>2, Numbers DEF Ticks
            <4> HIDE DEF d
            <4>2. expiry + d >= TickMod => (expiry + d) % TickMod = (expiry + d) - TickMod
                BY <1>3, <4>1, ModSum
            <4>3. d \in Nat /\ d < TickMod
                BY <4>1, Numbers
            <4>4. (expiry + d) % TickMod = xTimeNow + lag /\ xTimeNow + lag < TickMod
                BY <1>3, <4>1, <4>2, <4>3
            <4>5. (xTimeNow + lag) % TickMod = xTimeNow + lag
                BY <1>3, <4>1, <4>4, ModSum
            <4> QED BY <4>4, <4>5 DEF d
        <3> QED BY <1>6, <2>1, <3>1, <3>3 DEF Aged, Waited
    <2>4. Aged(m) /\ Waited(m)
        BY <2>2, <2>3, <1>11 DEF Times
    <2> QED BY <1>1, <2>4 DEF Aged, Waited, Switching
<1>12. ~early'
    <2>1. ~(due[t] > 0)
        BY <1>6
    <2>2. ~early
        BY DEF Times
    <2> QED BY <1>1, <2>1, <2>2, Zenon
<1>13. client' # NULL => Aged(client)'
    BY <1>1 DEF Times, Aged
<1>14. pc' \in {"switch", "switchSuspended"}
    BY <1>1 DEF Switching
<1> QED BY <1>9, <1>10, <1>11, <1>12, <1>13, <1>14 DEF Times

(* The exchange of the lists, once nothing is left from before the wrap.    *)
LEMMA ExchangeTimes ==
    ASSUME Structure, Structure', Times, prvSwitchTimerLists, pxCurrentTimerList = <<>>
    PROVE  Times'
<1>1. /\ pxCurrentTimerList' = pxOverflowTimerList /\ pxOverflowTimerList' = <<>>
      /\ xLastTime' = xTimeNow /\ pc' \in {"commands", "receive"}
      /\ UNCHANGED <<xTimerListItem, xTimerQueue, due, early, xTickCount, xTimeNow, client, lag>>
      /\ Switching /\ ~Switching'
      /\ pc' = "receive" => pc = "switch"
    BY DEF prvSwitchTimerLists, AfterSwitch, clients, Switching
<1>2. /\ xTimeNow \in Ticks /\ lag \in 0..MaxLag /\ xTimeNow \in Nat /\ TickMod \in Nat
      /\ lag \in Nat /\ lag < TickMod
    BY Types, Numbers DEF Structure
<1>3. xTickCount = (xTimeNow + lag) % TickMod
    BY <1>1 DEF Times, Sampled
<1>4. Base = xTimeNow + TickMod /\ Now = xTimeNow + TickMod + lag
    BY <1>1, NowIs DEF Times, NowFacts
<1>5. Base' = xTimeNow /\ Now' = xTimeNow + lag
    <2>1. (((xTimeNow + lag) % TickMod) - xTimeNow) % TickMod = lag
        BY <1>2, SinceSample
    <2> QED BY <1>1, <1>3, <2>1 DEF Base, Now, SampledAt
<1>6. ASSUME NEW t \in Timers PROVE InPhase(t)'
    <2>1. ~In(t, <<>>)
        BY DEF In
    <2>2. /\ In(t, pxCurrentTimerList') <=> In(t, pxOverflowTimerList)
          /\ ~In(t, pxOverflowTimerList')
          /\ t \in Active' <=> t \in Active
        BY <1>1, <2>1 DEF Active, xTimerIsTimerActive
    <2>3. InPhase(t) /\ xTimerListItem[t] \in Int /\ Room \in Nat
        BY Types, Numbers DEF Times, Structure
    <2>4. ASSUME In(t, pxOverflowTimerList)
          PROVE  due[t] = xTimerListItem[t] - Now' /\ xTimerListItem[t] <= Base' + Room
        BY <1>2, <1>4, <1>5, <2>3, <2>4 DEF InPhase
    <2> QED BY <1>1, <2>2, <2>3, <2>4 DEF InPhase
<1>7. Sampled'
    BY <1>1, <1>3 DEF Sampled
<1>8. ASSUME NEW m \in Messages, In(m, xTimerQueue') PROVE Aged(m)' /\ Waited(m)'
    <2>1. Aged(m) /\ Waited(m)
        BY <1>1, <1>8 DEF Times
    <2> QED BY <1>1, <2>1 DEF Aged, Waited
<1>9. client' # NULL => Aged(client)'
    BY <1>1 DEF Times, Aged
<1> QED BY <1>1, <1>6, <1>7, <1>8, <1>9 DEF Times

(* The cases of prvProcessReceivedCommands.                                 *)
LEMMA ReceiveTimes ==
    ASSUME Structure, Structure', Times, prvProcessReceivedCommands
    PROVE  Times'
<1> DEFINE m == Head(xTimerQueue)
           q == Tail(xTimerQueue)
           t == m.pxTimer
           c == Without(pxCurrentTimerList, t)
           o == Without(pxOverflowTimerList, t)
<1>1. /\ m \in Messages /\ q \in Seq(Messages)
      /\ UNCHANGED <<xTickCount, xLastTime, locals, clients, lag>> /\ pc = "receive"
      /\ \/ m.xMessageID = tmrCOMMAND_START /\ StartCommand(m, c, o, q)
         \/ m.xMessageID = tmrCOMMAND_STOP /\ StopCommand(m, c, o, q)
         \/ m.xMessageID = tmrCOMMAND_CHANGE_PERIOD /\ ChangePeriodCommand(m, c, o, q)
         \/ m.xMessageID = tmrCOMMAND_DELETE /\ DeleteCommand(m, c, o, q)
    <2>1. m = Head(xTimerQueue) /\ q = Tail(xTimerQueue)
        OBVIOUS
    <2> HIDE DEF m, q
    <2> QED BY <2>1, Received
<1>2. /\ Aged(m) /\ Waited(m)
      /\ \A n \in Messages : In(n, q) => Aged(n) /\ Waited(n)
    <2>1. xTimerQueue \in Seq(Messages) /\ xTimerQueue # <<>>
        BY DEF Structure, prvProcessReceivedCommands
    <2>2. /\ In(m, xTimerQueue) /\ \A n \in Messages : In(n, q) => In(n, xTimerQueue)
        BY <2>1, QueueHolds
    <2> HIDE DEF m, q
    <2> QED BY <1>1, <2>2 DEF Times
<1> HIDE DEF m, q
<1>3. /\ t \in Timers /\ m.xMessageValue \in Ticks /\ m.age \in Int /\ m.xMessageValue \in Nat
      /\ m.xMessageValue < TickMod
    BY <1>1, Numbers DEF Messages
<1>4. /\ xTimeNow \in Ticks /\ due \in [Timers -> Int] /\ lag \in Nat /\ lag <= MaxLag
      /\ xTimeNow \in Nat /\ xTimeNow < TickMod /\ Room \in Nat
      /\ MaxLag \in Nat /\ MaxLag < TickMod /\ TickMod \in Nat
      /\ xTimerPeriodInTicks[t] \in Periods
      /\ \A p \in Periods : p \in Nat /\ p > 0 /\ p <= Room /\ p < TickMod
    BY <1>3, Types, Numbers DEF Structure
<1>5. xTickCount = (xTimeNow + lag) % TickMod
    BY <1>1 DEF Times, Sampled
<1>6. pc' = "receive" /\ ~Switching /\ ~Switching' /\ client' = client /\ xTickCount' = xTickCount
      /\ lag' = lag /\ xTimeNow' = xTimeNow /\ xLastTime' = xLastTime
    BY <1>1 DEF locals, clients, Switching
<1>7. Base = xTimeNow /\ Now = xTimeNow + lag
    BY <1>1, NowIs DEF Times, NowFacts
<1>8. Now' = Now /\ Base' = Base
    BY <1>6 DEF Now, Base, SampledAt
<1>9. Sampled'
    BY <1>1, <1>6 DEF Sampled, Times
<1>10. client' # NULL => Aged(client)'
    BY <1>6 DEF Times, Aged
<1>11. ASSUME NEW n \in Messages, Aged(n), Waited(n) PROVE Aged(n)' /\ Waited(n)'
    BY <1>1, <1>6, <1>11 DEF Aged, Waited
<1>12. /\ \A u \in Timers : InPhase(u)'
       /\ \A n \in Messages : In(n, xTimerQueue') => Aged(n) /\ Waited(n)
       /\ ~early'
    <2>1. CASE m.xMessageID = tmrCOMMAND_START /\ StartCommand(m, c, o, q)
        <3> DEFINE period == xTimerPeriodInTicks[t]
                   next == ExpiryAfter(m.xMessageValue, period)
                   list == ActiveListFor(period, next, xTimeNow, m.xMessageValue)
                   a == m.age - lag
                   r == Reload(next, t, m.age - period)
        <3>1. /\ xTimerQueue' = IF ReloadByCommand(t, list) THEN Posted(q, r) ELSE q
              /\ due' = [due EXCEPT ![t] = IF list = "now" THEN 0 ELSE period - m.age]
              /\ early' = (early \/ (list = "now" /\ m.age < period))
            BY <2>1 DEF StartCommand
        <3>2. next \in Ticks /\ Moves(t, list) /\ xTimerListItem'[t] = next
            <4>1. /\ t = m.pxTimer /\ next = ExpiryAfter(m.xMessageValue, xTimerPeriodInTicks[t])
                  /\ list = ActiveListFor(xTimerPeriodInTicks[t], next, xTimeNow, m.xMessageValue)
                OBVIOUS
            <4> HIDE DEF t, next, list
            <4> QED BY <1>1, <2>1, <4>1, StartMoves DEF c, o, t
        <3>3. /\ m.age \in Nat /\ m.age < TickMod /\ m.age >= lag
              /\ xTickCount = (m.xMessageValue + m.age) % TickMod
            <4>1. IsStart(m)
                BY <2>1 DEF IsStart
            <4> QED BY <1>1, <1>2, <1>4, <4>1 DEF Aged, Waited
        <3>4. /\ m.xMessageValue + m.age < TickMod => xTickCount = m.xMessageValue + m.age
              /\ m.xMessageValue + m.age >= TickMod =>
                    xTickCount = (m.xMessageValue + m.age) - TickMod
            <4>1. m.age \in Ticks
                BY <3>3, Numbers
            <4> QED BY <1>3, <3>3, <4>1, ModSum
        <3>5. /\ xTimeNow + lag < TickMod => xTickCount = xTimeNow + lag
              /\ xTimeNow + lag >= TickMod => xTickCount = (xTimeNow + lag) - TickMod
            <4>1. lag \in Ticks
                BY <1>4, Numbers
            <4> QED BY <1>4, <1>5, <4>1, ModSum
        <3>6. a \in Ticks /\ a \in Nat /\ xTimeNow = (m.xMessageValue + a) % TickMod
            <4>1. a \in Nat /\ a < TickMod
                BY <1>4, <3>3
            <4>2. a \in Ticks
                BY <4>1, Numbers
            <4>3. /\ m.xMessageValue + a < TickMod =>
                        (m.xMessageValue + a) % TickMod = m.xMessageValue + a
                  /\ m.xMessageValue + a >= TickMod =>
                        (m.xMessageValue + a) % TickMod = (m.xMessageValue + a) - TickMod
                BY <1>3, <4>2, ModSum
            <4>4. xTimeNow = IF m.xMessageValue + a < TickMod THEN m.xMessageValue + a
                             ELSE (m.xMessageValue + a) - TickMod
                BY <1>3, <1>4, <3>3, <3>4, <3>5
            <4>5. m.xMessageValue + a \in Int
                BY <1>3, <4>1
            <4> HIDE DEF a
            <4> QED BY <1>4, <4>1, <4>2, <4>3, <4>4, <4>5
        <3>7. /\ list \in {"now", "current", "overflow"}
              /\ list = "now" <=> a >= period
              /\ list = "current" => next = xTimeNow + period - a
              /\ list = "overflow" => next + TickMod = xTimeNow + period - a
              /\ next = m.xMessageValue + period \/ next = m.xMessageValue + period - TickMod
            <4>1. /\ next = ExpiryAfter(m.xMessageValue, period)
                  /\ list = ActiveListFor(period, next, xTimeNow, m.xMessageValue)
                OBVIOUS
            <4> HIDE DEF list, next, period, a
            <4>2. period \in Periods
                BY <1>4 DEF period
            <4> QED BY <1>3, <1>4, <3>6, <4>1, <4>2, ListIsRight
        <3>8. period \in Nat /\ period > 0 /\ period <= Room /\ period < TickMod /\ next \in Nat
            BY <1>4, <3>2, Numbers
        <3> HIDE DEF t, next, list, period, r
        <3>9. \A u \in Timers : u # t => due'[u] = due[u]
            BY <1>4, <3>1
        <3>10. list # "now" => due'[t] = period - m.age
            BY <1>3, <1>4, <3>1
        <3>11. \A u \in Timers : InPhase(u)'
            <4>1. CASE list = "current"
                <5>1. due'[t] = next - Now /\ next <= Base + Room /\ due'[t] >= -MaxLag
                    BY <1>4, <1>7, <3>3, <3>6, <3>7, <3>8, <3>10, <4>1
                <5> QED BY <1>3, <1>8, <3>2, <3>9, <4>1, <5>1, MovedInPhase
            <4>2. CASE list = "overflow"
                <5>1. /\ due'[t] = next + TickMod - Now /\ next + TickMod <= Base + Room
                      /\ due'[t] >= -MaxLag
                    BY <1>4, <1>7, <3>3, <3>6, <3>7, <3>8, <3>10, <4>2
                <5> QED BY <1>3, <1>8, <3>2, <3>9, <4>2, <5>1, MovedInPhase
            <4>3. CASE list = "now"
                BY <1>3, <1>8, <3>2, <3>9, <4>3, MovedInPhase
            <4> QED BY <3>7, <4>1, <4>2, <4>3
        <3>12. ASSUME NEW n \in Messages, In(n, xTimerQueue') PROVE Aged(n) /\ Waited(n)
            <4>1. CASE xTimerQueue' = q
                BY <1>2, <3>12, <4>1
            <4>2. CASE list = "now" /\ xTimerQueue' = Posted(q, r)
                <5>1. r \in Messages /\ r.age = m.age - period /\ r.xMessageValue = next
                    <6>1. m.age - period \in Int
                        BY <3>3, <3>8
                    <6> QED BY <1>3, <3>2, <6>1, MessageType DEF r
                <5>2. m.age - period \in 0..(TickMod - 1) /\ m.age - period >= lag
                    BY <1>4, <3>3, <3>7, <3>8, <4>2
                <5>3. xTickCount = (next + (m.age - period)) % TickMod
                    <6> DEFINE d == m.age - period
                    <6>1. d \in Ticks /\ d \in Nat /\ d < TickMod
                        BY <1>4, <5>2, Numbers DEF Ticks
                    <6>2. /\ next + d < TickMod => (next + d) % TickMod = next + d
                          /\ next + d >= TickMod => (next + d) % TickMod = (next + d) - TickMod
                        BY <3>2, <6>1, ModSum
                    <6>9. d = m.age - period
                        OBVIOUS
                    <6> HIDE DEF d
                    <6>3. next + d = m.xMessageValue + m.age
                          \/ next + d = (m.xMessageValue + m.age) - TickMod
                        <7>1. CASE next = m.xMessageValue + period
                            BY <1>3, <1>4, <3>3, <3>8, <6>9, <7>1
                        <7>2. CASE next = m.xMessageValue + period - TickMod
                            BY <1>3, <1>4, <3>3, <3>8, <6>9, <7>2
                        <7> QED BY <3>7, <7>1, <7>2
                    <6>4. m.xMessageValue + m.age \in Int /\ next + d \in Nat
                          /\ xTickCount \in Nat /\ xTickCount < TickMod
                        <7>1. xTickCount \in Ticks
                            BY Types DEF Structure
                        <7>2. xTickCount \in Nat /\ xTickCount < TickMod
                            BY <7>1, Numbers
                        <7>3. m.xMessageValue + m.age \in Int /\ next + d \in Nat
                            BY <1>3, <3>3, <3>8, <6>1
                        <7> QED BY <7>2, <7>3
                    <6>5. (next + d) % TickMod = xTickCount
                        BY <1>4, <3>4, <3>8, <6>1, <6>2, <6>3, <6>4
                    <6> QED BY <6>5 DEF d
                <5>4. Aged(r) /\ Waited(r)
                    BY <5>1, <5>2, <5>3 DEF Aged, Waited
                <5>5. n = r \/ In(n, q)
                    BY <1>1, <3>12, <4>2, <5>1, QueueHolds
                <5> QED BY <1>2, <5>4, <5>5
            <4> QED BY <3>1, <4>1, <4>2 DEF ReloadByCommand
        <3>13. ~early'
            <4>1. ~(list = "now" /\ m.age < period)
                BY <1>4, <3>3, <3>7, <3>8
            <4>2. ~early
                BY DEF Times
            <4> QED BY <3>1, <4>1, <4>2, Zenon
        <3> QED BY <3>11, <3>12, <3>13
    <2>2. CASE m.xMessageID = tmrCOMMAND_CHANGE_PERIOD /\ ChangePeriodCommand(m, c, o, q)
        <3> DEFINE period == m.xMessageValue
                   next == ExpiryAfter(xTimeNow, period)
                   list == ActiveListFor(period, next, xTimeNow, xTimeNow)
        <3>1. xTimerQueue' = q /\ due' = [due EXCEPT ![t] = period - lag] /\ early' = early
            BY <2>2 DEF ChangePeriodCommand
        <3>2. next \in Ticks /\ Moves(t, list) /\ xTimerListItem'[t] = next /\ period \in Periods
            <4>1. /\ t = m.pxTimer /\ next = ExpiryAfter(xTimeNow, m.xMessageValue)
                  /\ list = ActiveListFor(m.xMessageValue, next, xTimeNow, xTimeNow)
                OBVIOUS
            <4> HIDE DEF t, next, list
            <4> QED BY <1>1, <2>2, <4>1, ChangeMoves DEF c, o, t
        <3>3. 0 \in Ticks /\ xTimeNow = (xTimeNow + 0) % TickMod
            <4>1. 0 \in Ticks
                BY <1>4, Numbers
            <4> QED BY <1>4, <4>1, ModSum
        <3>4. /\ list \in {"now", "current", "overflow"}
              /\ list = "now" <=> 0 >= period
              /\ list = "current" => next = xTimeNow + period - 0
              /\ list = "overflow" => next + TickMod = xTimeNow + period - 0
            <4>1. /\ next = ExpiryAfter(xTimeNow, period)
                  /\ list = ActiveListFor(period, next, xTimeNow, xTimeNow)
                OBVIOUS
            <4> HIDE DEF list, next, period
            <4> QED BY <1>4, <3>2, <3>3, <4>1, ListIsRight
        <3>5. period \in Nat /\ period > 0 /\ period <= Room /\ next \in Nat
            BY <1>4, <3>2, Numbers
        <3> HIDE DEF t, next, list, period
        <3>6. (\A u \in Timers : u # t => due'[u] = due[u]) /\ due'[t] = period - lag
            BY <1>3, <1>4, <3>1
        <3>7. \A u \in Timers : InPhase(u)'
            <4>1. CASE list = "current"
                <5>1. due'[t] = next - Now /\ next <= Base + Room /\ due'[t] >= -MaxLag
                    BY <1>4, <1>7, <3>4, <3>5, <3>6, <4>1
                <5> QED BY <1>3, <1>8, <3>2, <3>6, <4>1, <5>1, MovedInPhase
            <4>2. CASE list = "overflow"
                <5>1. /\ due'[t] = next + TickMod - Now /\ next + TickMod <= Base + Room
                      /\ due'[t] >= -MaxLag
                    BY <1>4, <1>7, <3>4, <3>5, <3>6, <4>2
                <5> QED BY <1>3, <1>8, <3>2, <3>6, <4>2, <5>1, MovedInPhase
            <4> QED BY <3>4, <3>5, <4>1, <4>2
        <3> QED BY <1>2, <3>1, <3>7 DEF Times
    <2>3. CASE StopCommand(m, c, o, q) \/ DeleteCommand(m, c, o, q)
        <3>1. xTimerQueue' = q /\ due' = [due EXCEPT ![t] = 0] /\ early' = early
            BY <2>3 DEF StopCommand, DeleteCommand
        <3>2. Moves(t, "none")
            BY <1>1, <2>3, StopMoves
        <3> HIDE DEF t
        <3>3. \A u \in Timers : u # t => due'[u] = due[u]
            BY <1>4, <3>1
        <3>4. \A u \in Timers : InPhase(u)'
            BY <1>3, <1>8, <3>2, <3>3, MovedInPhase
        <3> QED BY <1>2, <3>1, <3>4 DEF Times
    <2> QED BY <1>1, <2>1, <2>2, <2>3
<1> QED BY <1>6, <1>9, <1>10, <1>11, <1>12 DEF Times

(* A tick: all timers come one tick closer.  The count does not reach the   *)
(* last sample again while a timer waits.                                   *)
LEMMA TickTimes ==
    ASSUME Structure, Structure', Times, Tick
    PROVE  Times'
<1>1. /\ UNCHANGED <<pxCurrentTimerList, pxOverflowTimerList, xTimerListItem, xTimerPeriodInTicks,
                     xLastTime, xNextExpireTime, xTimeNow, early>>
      /\ xTickCount' = (xTickCount + 1) % TickMod
      /\ pc # "blocked" => lag' = lag + 1 /\ lag < MaxLag /\ pc' = pc
      /\ pc = "blocked" => pc' \in {"blocked", "commands"}
    BY DEF Tick, timers, timerLists
<1>2. /\ xTickCount \in Ticks /\ xTickCount \in Nat /\ xTickCount < TickMod /\ xLastTime \in Nat
      /\ xLastTime < TickMod /\ xTimeNow \in Ticks /\ xTimeNow \in Nat /\ xTimeNow < TickMod
      /\ lag \in Nat /\ lag <= MaxLag /\ MaxLag \in Nat /\ MaxLag < TickMod /\ TickMod \in Nat
      /\ TickMod > 0 /\ Room \in Nat /\ due \in [Timers -> Int]
    BY Types, Numbers DEF Structure
<1>3. /\ xTickCount + 1 < TickMod => xTickCount' = xTickCount + 1
      /\ xTickCount + 1 >= TickMod => xTickCount' = 0
    <2>1. CASE TickMod = 1
        BY <1>1, <1>2, <2>1
    <2>2. CASE TickMod > 1
        <3>1. 1 \in Ticks
            BY <1>2, <2>2, Numbers
        <3>2. /\ xTickCount + 1 < TickMod => xTickCount' = xTickCount + 1
              /\ xTickCount + 1 >= TickMod => xTickCount' = (xTickCount + 1) - TickMod
            BY <1>1, <1>2, <3>1, ModSum
        <3> QED BY <1>2, <3>2
    <2> QED BY <1>2, <2>1, <2>2
<1>4. Sampled'
    <2>1. ASSUME pc' \in {"expired", "receive"} \/ Switching'
          PROVE  xTickCount' = (xTimeNow' + lag') % TickMod
        <3>1. pc # "blocked" /\ pc' = pc
            BY <1>1, <2>1 DEF Switching
        <3>2. xTickCount = (xTimeNow + lag) % TickMod /\ lag' = lag + 1 /\ lag' <= MaxLag
              /\ lag' \in Nat
            BY <1>1, <1>2, <2>1, <3>1 DEF Times, Sampled, Switching
        <3>3. lag \in Ticks /\ lag' \in Ticks /\ lag' < TickMod
            BY <1>2, <3>2, Numbers
        <3>4. /\ xTimeNow + lag < TickMod => xTickCount = xTimeNow + lag
              /\ xTimeNow + lag >= TickMod => xTickCount = (xTimeNow + lag) - TickMod
            BY <1>2, <3>2, <3>3, ModSum
        <3>5. /\ xTimeNow + lag' < TickMod => (xTimeNow + lag') % TickMod = xTimeNow + lag'
              /\ xTimeNow + lag' >= TickMod => (xTimeNow + lag') % TickMod = (xTimeNow + lag') - TickMod
            BY <1>2, <3>3, ModSum
        <3>6. xTickCount' = (xTimeNow + lag') % TickMod
            BY <1>2, <1>3, <3>2, <3>3, <3>4, <3>5
        <3> QED BY <1>1, <3>6
    <2>2. pc' = "expired" => xNextExpireTime' <= xTimeNow'
        BY <1>1 DEF Times, Sampled
    <2>3. pc' \in {"expired", "receive"} => xTimeNow' = xLastTime'
        BY <1>1 DEF Times, Sampled
    <2> QED BY <2>1, <2>2, <2>3 DEF Sampled
<1>5. NowFacts /\ NowFacts'
    BY <1>4, NowIs, NowIsThen DEF Times
<1>6. Switching' <=> Switching
    BY <1>1 DEF Switching
<1>7. ASSUME NEW t \in Timers PROVE InPhase(t)'
    <2>1. /\ In(t, pxCurrentTimerList') <=> In(t, pxCurrentTimerList)
          /\ In(t, pxOverflowTimerList') <=> In(t, pxOverflowTimerList)
          /\ t \in Active' <=> t \in Active
          /\ xTimerListItem' = xTimerListItem /\ xTimerListItem[t] \in Int
        BY <1>1, Types, Numbers DEF Active, xTimerIsTimerActive, Structure
    <2>2. CASE t \notin Active
        BY <2>1, <2>2 DEF InPhase, Active, xTimerIsTimerActive
    <2>3. CASE t \in Active
        <3>1. due'[t] = due[t] - 1 /\ due[t] > -MaxLag /\ due[t] \in Int
            BY <1>2, <2>3 DEF Tick
        <3>2. InPhase(t)
            BY DEF Times
        <3>3. Base' = Base
            BY <1>1, <1>6 DEF Base
        <3>4. Base \in Nat /\ Now \in Nat /\ Base <= Now /\ Now < Base + TickMod
            BY <1>5 DEF NowFacts
        <3>5. Now # Base + (TickMod - 1)
            <4>1. CASE In(t, pxCurrentTimerList)
                <5>1. due[t] = xTimerListItem[t] - Now /\ xTimerListItem[t] <= Base + Room
                    BY <3>2, <4>1 DEF InPhase
                <5> QED BY <1>2, <2>1, <3>1, <3>4, <5>1 DEF Room
            <4>2. CASE In(t, pxOverflowTimerList)
                <5>1. /\ due[t] = xTimerListItem[t] + TickMod - Now
                      /\ xTimerListItem[t] + TickMod <= Base + Room
                    BY <3>2, <4>2 DEF InPhase
                <5> QED BY <1>2, <2>1, <3>1, <3>4, <5>1 DEF Room
            <4> QED BY <2>3, <4>1, <4>2 DEF Active, xTimerIsTimerActive
        <3>6. Now' = Now + 1
            <4>1. CASE Switching
                <5>1. /\ Now = xTimeNow + TickMod + lag /\ Now' = xTimeNow' + TickMod + lag'
                      /\ lag' = lag + 1
                    BY <1>1, <1>5, <1>6, <4>1 DEF NowFacts, Switching
                <5> QED BY <1>1, <1>2, <5>1
            <4>2. CASE ~Switching
                <5>1. /\ Base = xLastTime
                      /\ Now = IF xTickCount >= xLastTime THEN xTickCount ELSE xTickCount + TickMod
                      /\ Now' = IF xTickCount' >= xLastTime' THEN xTickCount'
                                ELSE xTickCount' + TickMod
                    BY <1>5, <1>6, <4>2 DEF NowFacts
                <5>2. xLastTime' = xLastTime
                    BY <1>1
                <5>3. CASE xTickCount + 1 < TickMod
                    <6>1. xTickCount' = xTickCount + 1
                        BY <1>3, <5>3
                    <6> QED BY <1>2, <3>5, <5>1, <5>2, <6>1
                <5>4. CASE xTickCount + 1 >= TickMod
                    <6>1. xTickCount' = 0
                        BY <1>3, <5>4
                    <6> QED BY <1>2, <3>5, <5>1, <5>2, <5>4, <6>1
                <5> QED BY <1>2, <5>3, <5>4
            <4> QED BY <4>1, <4>2
        <3> QED BY <1>2, <2>1, <3>1, <3>2, <3>3, <3>4, <3>6 DEF InPhase
    <2> QED BY <2>2, <2>3
<1>8. ASSUME NEW m \in Messages, Aged(m), InTime(m)
      PROVE  LET w == Older(m)
             IN  IsStart(w) => /\ w.age \in 0..(TickMod - 1)
                               /\ xTickCount' = (w.xMessageValue + w.age) % TickMod
    <2>1. Older(m) = [m EXCEPT !.age =
                         IF m.xMessageID = tmrCOMMAND_START THEN m.age + 1 ELSE m.age]
        BY OlderType
    <2>2. /\ Older(m).xMessageID = m.xMessageID /\ Older(m).xMessageValue = m.xMessageValue
          /\ IsStart(m) => Older(m).age = m.age + 1
          /\ m.xMessageValue \in Ticks /\ m.pxTimer \in Timers
        BY <2>1 DEF Messages, IsStart
    <2>3. ASSUME IsStart(m)
          PROVE  /\ m.age + 1 \in 0..(TickMod - 1)
                 /\ xTickCount' = (m.xMessageValue + (m.age + 1)) % TickMod
        <3>1. m.age \in 0..(TickMod - 1) /\ xTickCount = (m.xMessageValue + m.age) % TickMod
            BY <1>8, <2>3 DEF Aged
        <3>2. m.age < MaxLag + xTimerPeriodInTicks[m.pxTimer]
            BY <1>8, <2>3 DEF InTime, IsStart
        <3>3. xTimerPeriodInTicks[m.pxTimer] \in Nat /\ xTimerPeriodInTicks[m.pxTimer] <= Room
            BY <2>2, Types, Numbers DEF Structure
        <3>4. m.age \in Nat /\ m.age + 1 < TickMod /\ m.age < TickMod
            BY <1>2, <3>1, <3>2, <3>3 DEF Room
        <3> DEFINE b == m.age + 1
        <3>5. b \in Nat /\ b < TickMod /\ b \in Ticks /\ m.age \in Ticks /\ b \in 0..(TickMod - 1)
              /\ m.xMessageValue \in Nat /\ m.xMessageValue < TickMod
            <4>1. m.xMessageValue \in Nat /\ m.xMessageValue < TickMod
                BY <2>2, Numbers
            <4>2. b \in Nat /\ b < TickMod
                BY <3>4
            <4> HIDE DEF b
            <4>3. b \in Ticks /\ b \in 0..(TickMod - 1)
                BY <1>2, <4>2 DEF Ticks
            <4>4. m.age \in Ticks
                BY <1>2, <3>4 DEF Ticks
            <4> QED BY <4>1, <4>2, <4>3, <4>4
        <3>6. /\ m.xMessageValue + m.age < TickMod => xTickCount = m.xMessageValue + m.age
              /\ m.xMessageValue + m.age >= TickMod =>
                    xTickCount = (m.xMessageValue + m.age) - TickMod
            BY <2>2, <3>1, <3>5, ModSum
        <3>7. /\ m.xMessageValue + b < TickMod =>
                    (m.xMessageValue + b) % TickMod = m.xMessageValue + b
              /\ m.xMessageValue + b >= TickMod =>
                    (m.xMessageValue + b) % TickMod = (m.xMessageValue + b) - TickMod
            <4> HIDE DEF b
            <4> QED BY <2>2, <3>5, ModSum
        <3>8. b = m.age + 1
            OBVIOUS
        <3> HIDE DEF b
        <3>9. xTickCount' = (m.xMessageValue + b) % TickMod
            BY <1>2, <1>3, <3>4, <3>5, <3>6, <3>7, <3>8
        <3> QED BY <3>5, <3>8, <3>9
    <2>4. IsStart(Older(m)) <=> IsStart(m)
        BY <2>2 DEF IsStart
    <2> QED BY <2>2, <2>3, <2>4
<1>9. client' # NULL => Aged(client)'
    <2>1. CASE client = NULL
        BY <2>1 DEF Tick
    <2>2. CASE client # NULL
        <3>1. client \in Messages /\ Aged(client) /\ InTime(client) /\ client' = Older(client)
            BY <2>2 DEF Tick, Times, Structure
        <3> DEFINE w == Older(client)
        <3>2. IsStart(w) => /\ w.age \in 0..(TickMod - 1)
                            /\ xTickCount' = (w.xMessageValue + w.age) % TickMod
            BY <1>8, <3>1
        <3>3. client' = w
            BY <3>1
        <3> HIDE DEF w
        <3> QED BY <3>2, <3>3 DEF Aged, IsStart
    <2> QED BY <2>1, <2>2
<1>10. ASSUME NEW m \in Messages, In(m, xTimerQueue') PROVE Aged(m)' /\ Waited(m)'
    <2>1. PICK n \in DOMAIN xTimerQueue : m = Older(xTimerQueue[n])
        BY <1>10 DEF In, Tick
    <2> DEFINE w == xTimerQueue[n]
    <2>2. w \in Messages /\ InTime(w) /\ In(w, xTimerQueue)
        BY DEF Structure, Tick, In
    <2> HIDE DEF w
    <2>3. Aged(w) /\ Waited(w) /\ m = Older(w)
        BY <2>1, <2>2 DEF Times, w
    <2>4. Aged(m)'
        <3>1. IsStart(m) => /\ m.age \in 0..(TickMod - 1)
                            /\ xTickCount' = (m.xMessageValue + m.age) % TickMod
            BY <1>8, <2>2, <2>3
        <3> QED BY <3>1 DEF Aged, IsStart
    <2>5. Waited(m)'
        <3>1. /\ IsStart(m) <=> IsStart(w)
              /\ IsStart(w) => m.age = w.age + 1 /\ w.age \in Int
            BY <2>2, <2>3, OlderType DEF Messages, IsStart
        <3>2. Switching' \/ pc' = "receive" => (Switching \/ pc = "receive") /\ lag' = lag + 1
            BY <1>1 DEF Switching
        <3> QED BY <1>2, <2>3, <3>1, <3>2 DEF Waited
    <2> QED BY <2>4, <2>5
<1>11. pc' \in {"getNext", "processOrBlock", "expired", "blocked"} => xTimerQueue' = <<>>
    <2>1. pc' \in {"getNext", "processOrBlock", "expired", "blocked"} =>
             pc \in {"getNext", "processOrBlock", "expired", "blocked"}
        BY <1>1
    <2>2. xTimerQueue = <<>> => xTimerQueue' = <<>>
        BY DEF Tick
    <2> QED BY <2>1, <2>2 DEF Times
<1> QED BY <1>1, <1>4, <1>7, <1>9, <1>10, <1>11 DEF Times

(* Every step keeps what the service task knows of the time.                *)
LEMMA TimesStep ==
    ASSUME ~Preempts, Structure, Structure', Times, [Next]_vars
    PROVE  Times'
<1>1. CASE UNCHANGED vars
    <2>1. /\ UNCHANGED <<xTickCount, pxCurrentTimerList, pxOverflowTimerList, xTimerListItem, due,
                         lag, pc, xLastTime, xTimeNow, xNextExpireTime, xTimerQueue, client, early>>
        BY <1>1 DEF vars, timers, timerLists, locals, clients, histories
    <2>2. \A t \in Timers : InPhase(t)'
        BY <2>1 DEF Times, InPhase, Active, xTimerIsTimerActive, Now, Base, SampledAt, Switching
    <2>3. Sampled'
        BY <2>1 DEF Times, Sampled, Switching
    <2>4. /\ client' # NULL => Aged(client)'
          /\ \A m \in Messages : In(m, xTimerQueue') => Aged(m)' /\ Waited(m)'
        BY <2>1 DEF Times, Aged, Waited, Switching
    <2> QED BY <2>1, <2>2, <2>3, <2>4 DEF Times
<1>2. CASE ServiceTask
    BY <1>2, OtherTimes, SamplingTimes, ExpiredTimes, LeftoverTimes, ExchangeTimes, ReceiveTimes
       DEF ServiceTask
<1>3. CASE Tick
    BY <1>3, TickTimes
<1>4. CASE \/ xTimerGenericCommand
           \/ \E t \in Timers : Command(t) \/ \E p \in Periods : xTimerCreate(t, p)
    BY <1>4, OtherTimes
<1> QED BY <1>1, <1>2, <1>3, <1>4 DEF Next

(* No callback comes before the period has passed since the tick count its  *)
(* start carried, however often the count has wrapped, as long as commands  *)
(* come from tasks that do not preempt the service task (timers.c:294-503;  *)
(* timers.h:331).                                                           *)
THEOREM NoCallbackIsEarly == ~Preempts /\ Spec => []NoEarlyExpiry
<1>1. CASE ~Preempts
    <2>1. Init => Structure /\ Times
        BY StructureInit, TimesInit
    <2>2. Structure /\ Times /\ [Next]_vars => Structure' /\ Times'
        BY <1>1, StructureStep, TimesStep
    <2>3. Times => NoEarlyExpiry
        BY DEF Times, NoEarlyExpiry
    <2> QED BY <2>1, <2>2, <2>3, PTL DEF Spec
<1>2. CASE Preempts
    BY <1>2
<1> QED BY <1>1, <1>2

-----------------------------------------------------------------------------
(* Where every timer and command is.                                        *)

(* A command names a timer that exists, a delete one that no client can     *)
(* name any more, and only the starts of auto-reload timers come from the   *)
(* service task itself.                                                     *)
Known(m) ==
    /\ m.pxTimer \in allocated
    /\ m.xMessageID = tmrCOMMAND_DELETE => m.pxTimer \in Deletable /\ m.pxTimer \notin handles
    /\ m.reload => m.pxTimer \in AutoReload /\ IsStart(m)

(* Behind the first message there are only those of the service task: it    *)
(* takes a client's command before another client can run.                  *)
Behind(q) == \A n \in DOMAIN q : n > 1 => q[n].reload

Owned ==
    /\ \A m \in Messages : In(m, xTimerQueue) => Known(m)
    /\ client # NULL => Known(client) /\ ~client.reload
    /\ Behind(xTimerQueue)
    /\ client # NULL => \A m \in Messages : In(m, xTimerQueue) => m.reload
    /\ handles \subseteq allocated /\ Active \subseteq allocated

(* A timer is in a list or in a message the service task sent for it, and   *)
(* there is one message of a client.                                        *)
Fits ==
    pc # "receive" => Len(xTimerQueue) + (Len(pxCurrentTimerList) + Len(pxOverflowTimerList))
                         <= Cardinality(Timers) + 1

(* While the lists are switched, the timers in them are those from before   *)
(* the wrap.                                                                *)
FromBefore ==
    Switching => \A t \in Timers :
        /\ In(t, pxCurrentTimerList) => xTimerListItem[t] <= xLastTime + Room
        /\ In(t, pxOverflowTimerList) => xTimerListItem[t] + TickMod <= xLastTime + Room

Kept == Owned /\ Fits /\ FromBefore /\ NoTimerLost

(* What the timers have to be for none to be lost: no command comes while   *)
(* the service task runs, auto-reload timers are not deleted, the service   *)
(* task is no later than the shortest period, and the command queue has     *)
(* room for a message of every timer and one of a client.                   *)
Orderly ==
    /\ ~Preempts
    /\ Deletable \cap AutoReload = {}
    /\ \A p \in Periods : MaxLag <= p
    /\ Cardinality(Timers) < configTIMER_QUEUE_LENGTH

(* The two lists together are no longer than there are timers.              *)
LEMMA ListsFit ==
    ASSUME NEW c, NEW o, AreLists(c, o)
    PROVE  /\ Len(c) \in Nat /\ Len(o) \in Nat /\ Cardinality(Timers) \in Nat
           /\ Len(c) + Len(o) <= Cardinality(Timers)
<1>1. IsFiniteSet(Timers) /\ Cardinality(Timers) \in Nat
    BY TimersAssumption, FS_CardinalityType DEF TimersAssumption
<1>2. /\ Len(c) \in Nat /\ DOMAIN c = 1..Len(c) /\ \A n \in 1..Len(c) : c[n] \in Timers
      /\ Len(o) \in Nat /\ DOMAIN o = 1..Len(o) /\ \A n \in 1..Len(o) : o[n] \in Timers
    BY DEF AreLists
<1>3. /\ \A m, n \in 1..Len(c) : c[m] = c[n] => m = n
      /\ \A m, n \in 1..Len(o) : o[m] = o[n] => m = n
      /\ \A m \in 1..Len(c), n \in 1..Len(o) : c[m] # o[n]
    <2>1. Once(c) /\ Once(o) /\ \A t \in Timers : ~(In(t, c) /\ In(t, o))
        BY DEF AreLists
    <2>2. \A m \in 1..Len(c), n \in 1..Len(o) : c[m] # o[n]
        BY <1>2, <2>1 DEF In
    <2> QED BY <1>2, <2>1, <2>2 DEF Once
<1> DEFINE k == Len(c)
           l == Len(o)
           f == [n \in 1..(k + l) |-> IF n <= k THEN c[n] ELSE o[n - k]]
<1> HIDE DEF k, l
<1>4. k \in Nat /\ l \in Nat
    BY <1>2 DEF k, l
<1>5. \A n \in 1..(k + l) : IF n <= k THEN n \in 1..k ELSE n - k \in 1..l
    BY <1>4
<1>6. f \in [1..(k + l) -> Timers]
    BY <1>2, <1>5 DEF k, l
<1>7. ASSUME NEW m \in 1..(k + l), NEW n \in 1..(k + l), f[m] = f[n] PROVE m = n
    <2>1. CASE m <= k /\ n <= k
        BY <1>3, <1>5, <1>7, <2>1 DEF k, l
    <2>2. CASE ~(m <= k) /\ ~(n <= k)
        <3>1. m - k = n - k
            BY <1>3, <1>5, <1>7, <2>2 DEF k, l
        <3> QED BY <1>4, <3>1
    <2>3. CASE (m <= k /\ ~(n <= k)) \/ (~(m <= k) /\ n <= k)
        BY <1>3, <1>5, <1>7, <2>3 DEF k, l
    <2> QED BY <2>1, <2>2, <2>3
<1>8. f \in Injection(1..(k + l), Timers)
    BY <1>6, <1>7 DEF Injection, IsInjective
<1> HIDE DEF f
<1>9. Cardinality(1..(k + l)) <= Cardinality(Timers)
    BY <1>1, <1>8, FS_Injection
<1>10. Cardinality(1..(k + l)) = k + l
    <2>1. k + l \in Int /\ 1 \in Int
        BY <1>4
    <2>2. Cardinality(1..(k + l)) = IF 1 > k + l THEN 0 ELSE (k + l) - 1 + 1
        BY <2>1, FS_Interval
    <2> QED BY <1>4, <2>2
<1> QED BY <1>1, <1>4, <1>9, <1>10 DEF k, l

(* NoTimerLost in terms of messages.                                        *)
LEMMA LostIs ==
    ASSUME Structure
    PROVE  NoTimerLost <=>
              \A t \in started : \/ t \in Active
                                 \/ \E m \in Messages : In(m, xTimerQueue) /\ m.pxTimer = t
<1>1. \A n \in DOMAIN xTimerQueue : xTimerQueue[n] \in Messages
    BY DEF Structure
<1>2. started \subseteq Timers
    BY DEF Structure, TypeOK
<1>3. \A t \in Timers : t \in Active <=> xTimerIsTimerActive(t)
    BY DEF Active
<1> QED BY <1>1, <1>2, <1>3 DEF NoTimerLost, In

(* The same after a step.                                                   *)
LEMMA LostIsThen ==
    ASSUME Structure'
    PROVE  (NoTimerLost <=>
              \A t \in started : \/ t \in Active
                                 \/ \E m \in Messages : In(m, xTimerQueue) /\ m.pxTimer = t)'
<1>1. \A n \in DOMAIN xTimerQueue' : xTimerQueue'[n] \in Messages
    BY DEF Structure
<1>2. started' \subseteq Timers
    BY DEF Structure, TypeOK
<1>3. \A t \in Timers : t \in Active' <=> xTimerIsTimerActive(t)'
    BY DEF Active
<1> QED BY <1>1, <1>2, <1>3 DEF NoTimerLost, In

(* What keeps the messages behind the first the service task's own.         *)
LEMMA BehindIt ==
    ASSUME NEW q \in Seq(Messages), Behind(q)
    PROVE  /\ q # <<>> => /\ Behind(Tail(q))
                          /\ \A m \in Messages : In(m, Tail(q)) => m.reload
           /\ \A r \in Messages : r.reload => Behind(Posted(q, r))
           /\ q = <<>> => \A r \in Messages : Behind(Append(q, r))
<1>1. Len(q) \in Nat /\ DOMAIN q = 1..Len(q)
    OBVIOUS
<1>2. ASSUME q # <<>>
      PROVE  Behind(Tail(q)) /\ \A m \in Messages : In(m, Tail(q)) => m.reload
    <2> DEFINE s == Tail(q)
    <2>1. /\ DOMAIN s = 1..(Len(q) - 1)
          /\ \A n \in 1..(Len(q) - 1) : s[n] = q[n + 1] /\ n + 1 \in 1..Len(q) /\ n + 1 > 1
        BY <1>1, <1>2
    <2> HIDE DEF s
    <2>2. \A n \in 1..(Len(q) - 1) : s[n].reload
        BY <1>1, <2>1 DEF Behind
    <2> QED BY <2>1, <2>2 DEF Behind, In, s
<1>3. ASSUME NEW r \in Messages, r.reload \/ q = <<>>
      PROVE  Behind(Append(q, r))
    <2> DEFINE s == Append(q, r)
    <2>1. /\ DOMAIN s = 1..(Len(q) + 1) /\ s[Len(q) + 1] = r
          /\ \A i \in 1..Len(q) : s[i] = q[i]
        BY <1>1
    <2> HIDE DEF s
    <2>2. ASSUME NEW n \in 1..(Len(q) + 1), n > 1 PROVE s[n].reload
        <3>1. CASE n = Len(q) + 1
            <4>1. q # <<>>
                BY <1>1, <2>2, <3>1
            <4> QED BY <1>3, <2>1, <3>1, <4>1
        <3>2. CASE n # Len(q) + 1
            <4>1. n \in 1..Len(q)
                BY <1>1, <2>2, <3>2
            <4> QED BY <1>1, <2>1, <2>2, <4>1 DEF Behind
        <3> QED BY <3>1, <3>2
    <2> QED BY <2>1, <2>2 DEF Behind, s
<1> QED BY <1>2, <1>3 DEF Posted

(* A step that moves t from lists to list `list', takes `q' for the queue   *)
(* and may put a start of t behind it.                                      *)
Served(q, t, list) ==
    /\ t \in Timers /\ Moves(t, list)
    /\ started' \subseteq started \cup {t}
    /\ \/ list \in {"current", "overflow"} /\ xTimerQueue' = q
       \/ list \notin {"current", "overflow"} /\ xTimerQueue' = q /\ t \notin started'
       \/ /\ list \notin {"current", "overflow"}
          /\ \E r \in Messages : /\ r.pxTimer = t /\ IsStart(r) /\ r.reload /\ t \in AutoReload
                                 /\ xTimerQueue' = Posted(q, r)

(* The queue as it is, or without a first message that is about t.          *)
Taken(q, t) ==
    /\ q \in Seq(Messages) /\ Len(q) < configTIMER_QUEUE_LENGTH
    /\ \/ q = xTimerQueue
       \/ xTimerQueue # <<>> /\ q = Tail(xTimerQueue) /\ Head(xTimerQueue).pxTimer = t

(* With room in the queue, a timer that is moved is not lost.               *)
LEMMA ServedLost ==
    ASSUME Structure, Structure', NoTimerLost, NEW q, NEW t, NEW list,
           Taken(q, t), Served(q, t, list)
    PROVE  NoTimerLost'
<1>1. /\ t \in Timers /\ Moves(t, list) /\ q \in Seq(Messages) /\ xTimerQueue \in Seq(Messages)
      /\ Len(q) < configTIMER_QUEUE_LENGTH /\ started' \subseteq Timers
    BY DEF Served, Taken, Structure, TypeOK
<1>2. ASSUME NEW u \in started'
      PROVE  u \in Active' \/ \E m \in Messages : In(m, xTimerQueue') /\ m.pxTimer = u
    <2>1. CASE u = t
        <3>1. CASE list \in {"current", "overflow"}
            BY <1>1, <2>1, <3>1 DEF Moves, Active, xTimerIsTimerActive
        <3>2. CASE list \notin {"current", "overflow"}
            <4>1. PICK r \in Messages : r.pxTimer = t /\ xTimerQueue' = Posted(q, r)
                BY <1>2, <2>1, <3>2 DEF Served
            <4>2. In(r, xTimerQueue')
                BY <1>1, <4>1, QueueHolds
            <4> QED BY <2>1, <4>1, <4>2
        <3> QED BY <3>1, <3>2
    <2>2. CASE u # t
        <3>1. u \in started /\ u \in Timers
            BY <1>1, <1>2, <2>2 DEF Served
        <3>2. CASE u \in Active
            BY <1>1, <2>2, <3>1, <3>2 DEF Moves, Active, xTimerIsTimerActive
        <3>3. CASE u \notin Active
            <4>1. PICK m \in Messages : In(m, xTimerQueue) /\ m.pxTimer = u
                BY <3>1, <3>3, LostIs
            <4>2. In(m, q)
                <5>1. CASE q = xTimerQueue
                    BY <4>1, <5>1
                <5>2. CASE xTimerQueue # <<>> /\ q = Tail(xTimerQueue) /\ Head(xTimerQueue).pxTimer = t
                    <6>1. m = Head(xTimerQueue) \/ In(m, Tail(xTimerQueue))
                        BY <1>1, <4>1, <5>2, QueueHolds
                    <6> QED BY <2>2, <4>1, <5>2, <6>1
                <5> QED BY <5>1, <5>2 DEF Taken
            <4>3. xTimerQueue' = q \/ \E r \in Messages : xTimerQueue' = Posted(q, r)
                BY DEF Served
            <4>4. In(m, xTimerQueue')
                BY <1>1, <4>2, <4>3, QueueHolds
            <4> QED BY <4>1, <4>4
        <3> QED BY <3>2, <3>3
    <2> QED BY <2>1, <2>2
<1> QED BY <1>2, LostIsThen

(* A timer that is moved is one that exists, and so is that of its message. *)
LEMMA ServedOwned ==
    ASSUME Structure, Owned, NEW q, NEW t, NEW list, Taken(q, t), Served(q, t, list),
           t \in allocated, UNCHANGED <<allocated, client, handles>>
    PROVE  Owned'
<1>1. /\ t \in Timers /\ Moves(t, list) /\ q \in Seq(Messages) /\ xTimerQueue \in Seq(Messages)
    BY DEF Served, Taken, Structure
<1>2. Behind(q) /\ \A m \in Messages : In(m, q) => In(m, xTimerQueue)
    <2>1. Behind(xTimerQueue)
        BY DEF Owned
    <2>2. CASE q = xTimerQueue
        BY <2>1, <2>2
    <2>3. CASE xTimerQueue # <<>> /\ q = Tail(xTimerQueue)
        <3>1. Behind(Tail(xTimerQueue))
            BY <1>1, <2>1, <2>3, BehindIt
        <3>2. \A m \in Messages : In(m, Tail(xTimerQueue)) => In(m, xTimerQueue)
            BY <1>1, <2>3, QueueHolds
        <3> QED BY <2>3, <3>1, <3>2
    <2> QED BY <2>2, <2>3 DEF Taken
<1>3. \/ xTimerQueue' = q
      \/ \E r \in Messages : /\ r.pxTimer = t /\ IsStart(r) /\ r.reload /\ t \in AutoReload
                             /\ xTimerQueue' = Posted(q, r)
    BY DEF Served
<1>4. Behind(xTimerQueue')
    BY <1>1, <1>2, <1>3, BehindIt
<1>5. ASSUME NEW m \in Messages, In(m, xTimerQueue')
      PROVE  Known(m)' /\ (client # NULL => m.reload)
    <2>1. CASE In(m, q)
        <3>1. Known(m) /\ (client # NULL => m.reload)
            BY <1>2, <2>1 DEF Owned
        <3> QED BY <3>1 DEF Known
    <2>2. CASE ~In(m, q)
        <3>1. m.pxTimer = t /\ IsStart(m) /\ m.reload /\ t \in AutoReload
            BY <1>1, <1>3, <1>5, <2>2, QueueHolds
        <3> QED BY <3>1 DEF Known, IsStart, tmrCOMMAND_START, tmrCOMMAND_DELETE
    <2> QED BY <2>1, <2>2
<1>6. client' # NULL => Known(client)' /\ ~client'.reload
    BY DEF Owned, Known
<1>7. handles' \subseteq allocated' /\ Active' \subseteq allocated'
    <2>1. \A u \in Timers : u \in Active' => u = t \/ u \in Active
        BY <1>1 DEF Moves, Active, xTimerIsTimerActive
    <2> QED BY <2>1 DEF Owned, Active
<1> QED BY <1>4, <1>5, <1>6, <1>7 DEF Owned

(* A timer that leaves its list makes room for a message about it.          *)
LEMMA ServedFits ==
    ASSUME Structure, Structure', Fits, pc # "receive", NEW t, NEW list, t \in Active,
           Served(xTimerQueue, t, list)
    PROVE  Fits'
<1> DEFINE lists == Len(pxCurrentTimerList) + Len(pxOverflowTimerList)
           listsThen == Len(pxCurrentTimerList') + Len(pxOverflowTimerList')
<1>1. listsThen = lists - 1 + (IF list \in {"current", "overflow"} THEN 1 ELSE 0)
    BY DEF Served, Moves
<1>2. lists \in Nat /\ listsThen \in Nat /\ Cardinality(Timers) \in Nat
    BY ListsFit DEF Structure
<1>3. Len(xTimerQueue) \in Nat /\ Len(xTimerQueue) + lists <= Cardinality(Timers) + 1
    BY DEF Fits, Structure
<1> HIDE DEF lists, listsThen
<1>4. CASE list \in {"current", "overflow"}
    <2>1. xTimerQueue' = xTimerQueue
        BY <1>4 DEF Served
    <2>2. Len(xTimerQueue') + listsThen <= Cardinality(Timers) + 1
        BY <1>1, <1>2, <1>3, <1>4, <2>1
    <2> QED BY <2>2 DEF Fits, listsThen
<1>5. CASE list \notin {"current", "overflow"}
    <2>1. Len(xTimerQueue') \in {Len(xTimerQueue), Len(xTimerQueue) + 1}
        <3>1. \/ xTimerQueue' = xTimerQueue
              \/ \E r \in Messages : xTimerQueue' = Posted(xTimerQueue, r)
            BY DEF Served
        <3>2. ASSUME NEW r \in Messages
              PROVE  Len(Posted(xTimerQueue, r)) \in {Len(xTimerQueue), Len(xTimerQueue) + 1}
            BY DEF Posted, Structure
        <3> QED BY <3>1, <3>2
    <2>2. Len(xTimerQueue') + listsThen <= Cardinality(Timers) + 1
        BY <1>1, <1>2, <1>3, <1>5, <2>1
    <2> QED BY <2>2 DEF Fits, listsThen
<1> QED BY <1>4, <1>5

(* When a timer is in a list, the queue has room for its restart.           *)
LEMMA RoomForRestart ==
    ASSUME Orderly, Structure, Fits, pc # "receive", NEW t, t \in Active
    PROVE  Taken(xTimerQueue, t)
<1>1. AreLists(pxCurrentTimerList, pxOverflowTimerList) /\ xTimerQueue \in Seq(Messages)
    BY DEF Structure
<1>2. Len(pxCurrentTimerList) + Len(pxOverflowTimerList) > 0
    <2>1. In(t, pxCurrentTimerList) \/ In(t, pxOverflowTimerList)
        BY DEF Active, xTimerIsTimerActive
    <2>2. Len(pxCurrentTimerList) > 0 \/ Len(pxOverflowTimerList) > 0
        BY <1>1, <2>1 DEF In, AreLists
    <2> QED BY <1>1, <2>2 DEF AreLists
<1>3. /\ Len(pxCurrentTimerList) + Len(pxOverflowTimerList) \in Nat
      /\ Cardinality(Timers) \in Nat /\ configTIMER_QUEUE_LENGTH \in Nat
      /\ Len(xTimerQueue) \in Nat
    BY <1>1, ListsFit, TimersAssumption DEF TimersAssumption
<1>4. Len(xTimerQueue) + (Len(pxCurrentTimerList) + Len(pxOverflowTimerList))
         <= Cardinality(Timers) + 1
    BY DEF Fits
<1>5. Len(xTimerQueue) < configTIMER_QUEUE_LENGTH
    BY <1>2, <1>3, <1>4 DEF Orderly
<1> QED BY <1>1, <1>5 DEF Taken

(* No timer left from before the wrap restarts in the current list: its     *)
(* next expiry is behind the wrap as well.                                  *)
LEMMA NoneAgain ==
    ASSUME Orderly, Structure, Times, Switching, NEW t \in Timers, In(t, pxCurrentTimerList)
    PROVE  ExpiryAfter(xTimerListItem[t], xTimerPeriodInTicks[t]) <= xTimerListItem[t]
<1> DEFINE expiry == xTimerListItem[t]
           period == xTimerPeriodInTicks[t]
<1>1. /\ period \in Periods /\ expiry \in Ticks /\ period \in Ticks
      /\ xTimeNow \in Nat /\ expiry \in Nat /\ expiry < TickMod /\ lag \in Nat
      /\ period \in Nat /\ period < TickMod /\ MaxLag \in Nat /\ TickMod \in Nat
    BY Types, Numbers DEF Structure
<1>2. period >= MaxLag
    BY <1>1 DEF Orderly
<1>3. Now = xTimeNow + TickMod + lag
    BY NowIs DEF Times, NowFacts
<1>4. due[t] = expiry - Now /\ due[t] >= -MaxLag
    BY DEF Times, InPhase, Active, xTimerIsTimerActive
<1> HIDE DEF expiry, period
<1>5. expiry + period >= TickMod
    BY <1>1, <1>2, <1>3, <1>4
<1>6. ExpiryAfter(expiry, period) = (expiry + period) - TickMod
    BY <1>1, <1>5, ModSum DEF ExpiryAfter
<1>7. ExpiryAfter(expiry, period) <= expiry
    BY <1>1, <1>6
<1> QED BY <1>7 DEF expiry, period

(* The lists are on their sides of the wrap as the tick count stands, also  *)
(* in the middle of the switch.                                             *)
LEMMA AreInPhase ==
    ASSUME Structure, Times, FromBefore
    PROVE  ListsInPhase
<1> DEFINE lap == IF xTickCount < xLastTime THEN TickMod ELSE 0
<1>1. /\ xTickCount \in Nat /\ xLastTime \in Nat /\ xTickCount < TickMod /\ xLastTime < TickMod
      /\ xTimeNow \in Nat /\ lag \in Nat /\ xTimeNow \in Ticks /\ TickMod \in Nat /\ MaxLag \in Nat
      /\ lag \in Ticks
    BY Types, Numbers DEF Structure
<1>2. ASSUME NEW t \in Timers
      PROVE  /\ In(t, pxCurrentTimerList) => due[t] = xTimerListItem[t] - xTickCount - lap
             /\ In(t, pxOverflowTimerList) =>
                   due[t] = xTimerListItem[t] - xTickCount + TickMod - lap
    <2>1. xTimerListItem[t] \in Nat /\ InPhase(t)
        BY Types, Numbers DEF Times, Structure
    <2>2. t \in Active => Now = xTickCount + lap
        <3>1. CASE ~Switching
            <4>1. Now = IF xTickCount >= xLastTime THEN xTickCount ELSE xTickCount + TickMod
                BY <3>1, NowIs DEF Times, NowFacts
            <4> QED BY <1>1, <4>1
        <3>2. CASE Switching /\ t \in Active
            <4>1. Now = xTimeNow + TickMod + lag /\ xTickCount = (xTimeNow + lag) % TickMod
                BY <3>2, NowIs DEF Times, NowFacts, Sampled
            <4>2. Now <= xLastTime + Room + MaxLag
                <5>1. CASE In(t, pxCurrentTimerList)
                    <6>1. due[t] = xTimerListItem[t] - Now /\ due[t] >= -MaxLag
                        BY <2>1, <3>2, <5>1 DEF InPhase
                    <6>2. xTimerListItem[t] <= xLastTime + Room
                        BY <3>2, <5>1 DEF FromBefore
                    <6> QED BY <1>1, <2>1, <4>1, <6>1, <6>2 DEF Room
                <5>2. CASE In(t, pxOverflowTimerList)
                    <6>1. due[t] = xTimerListItem[t] + TickMod - Now /\ due[t] >= -MaxLag
                        BY <2>1, <3>2, <5>2 DEF InPhase
                    <6>2. xTimerListItem[t] + TickMod <= xLastTime + Room
                        BY <3>2, <5>2 DEF FromBefore
                    <6> QED BY <1>1, <2>1, <4>1, <6>1, <6>2 DEF Room
                <5> QED BY <3>2, <5>1, <5>2 DEF Active, xTimerIsTimerActive
            <4>3. xTimeNow + lag < xLastTime
                BY <1>1, <4>1, <4>2 DEF Room
            <4>4. xTickCount = xTimeNow + lag
                <5>1. xTimeNow + lag < TickMod
                    BY <1>1, <4>3
                <5> QED BY <1>1, <4>1, <5>1, ModSum
            <4> QED BY <1>1, <4>1, <4>3, <4>4
        <3> QED BY <3>1, <3>2
    <2>3. lap \in Nat
        BY <1>1
    <2> HIDE DEF lap
    <2>4. t \in Active <=> In(t, pxCurrentTimerList) \/ In(t, pxOverflowTimerList)
        BY DEF Active, xTimerIsTimerActive
    <2> QED BY <1>1, <2>1, <2>2, <2>3, <2>4 DEF InPhase
<1>3. \A n \in DOMAIN pxCurrentTimerList :
         pxCurrentTimerList[n] \in Timers /\ In(pxCurrentTimerList[n], pxCurrentTimerList)
    BY DEF Structure, AreLists, In
<1>4. \A n \in DOMAIN pxOverflowTimerList :
         pxOverflowTimerList[n] \in Timers /\ In(pxOverflowTimerList[n], pxOverflowTimerList)
    BY DEF Structure, AreLists, In
<1> QED BY <1>2, <1>3, <1>4 DEF ListsInPhase

(* The first state.                                                         *)
LEMMA KeptInit ==
    ASSUME Init
    PROVE  Kept
<1>1. \A t : ~In(t, <<>>)
    BY DEF In
<1>2. /\ pc = "getNext" /\ xTimerQueue = <<>> /\ pxCurrentTimerList = <<>>
      /\ pxOverflowTimerList = <<>> /\ client = NULL /\ started = {}
      /\ handles = allocated
    BY DEF Init
<1>3. Owned
    BY <1>1, <1>2 DEF Owned, Behind, Active, xTimerIsTimerActive
<1>4. Fits
    <2>1. Len(<<>>) = 0 /\ Cardinality(Timers) \in Nat
        BY TimersAssumption, FS_CardinalityType DEF TimersAssumption
    <2> QED BY <1>2, <2>1 DEF Fits
<1> QED BY <1>2, <1>3, <1>4 DEF Kept, FromBefore, Switching, NoTimerLost

(* Steps that leave the timers and the queue alone.                         *)
LEMMA QuietKept ==
    ASSUME Structure, Structure', Times, Kept,
           UNCHANGED <<pxCurrentTimerList, pxOverflowTimerList, xTimerListItem, xTimerQueue,
                       allocated, handles, client, started>>,
           Switching' => xLastTime' = xLastTime,
           pc = "receive" /\ pc' # "receive" => xTimerQueue = <<>>
    PROVE  Kept'
<1>1. Owned'
    BY DEF Kept, Owned, Known, Active, xTimerIsTimerActive
<1>2. Fits'
    <2>1. CASE pc # "receive"
        BY <2>1 DEF Kept, Fits
    <2>2. CASE pc = "receive" /\ pc' # "receive"
        <3>1. /\ Len(pxCurrentTimerList) + Len(pxOverflowTimerList) <= Cardinality(Timers)
              /\ Len(pxCurrentTimerList) \in Nat /\ Len(pxOverflowTimerList) \in Nat
              /\ Cardinality(Timers) \in Nat /\ Len(xTimerQueue) = 0
            BY <2>2, ListsFit DEF Structure
        <3> QED BY <3>1 DEF Fits
    <2> QED BY <2>1, <2>2 DEF Fits
<1>3. FromBefore'
    <2>1. CASE Switching
        BY <2>1 DEF Kept, FromBefore
    <2>2. CASE ~Switching /\ Switching'
        <3>1. Base = xLastTime
            BY <2>2 DEF Base
        <3>2. \A t \in Timers : InPhase(t)
            BY DEF Times
        <3> QED BY <2>2, <3>1, <3>2 DEF FromBefore, InPhase
    <2> QED BY <2>1, <2>2 DEF FromBefore
<1>4. NoTimerLost'
    BY DEF Kept, NoTimerLost, xTimerIsTimerActive
<1> QED BY <1>1, <1>2, <1>3, <1>4 DEF Kept

(* prvProcessExpiredTimer.                                                  *)
LEMMA ExpiredKept ==
    ASSUME Orderly, Structure, Structure', Times, Kept, prvProcessExpiredTimer
    PROVE  Kept'
<1> DEFINE t == Head(pxCurrentTimerList)
           period == xTimerPeriodInTicks[t]
           next == ExpiryAfter(xNextExpireTime, period)
           list == ActiveListFor(period, next, xTimeNow, xNextExpireTime)
           r == Reload(xNextExpireTime, t, -due[t])
<1>1. /\ t \in AutoReload =>
             xTimerQueue' = IF ReloadByCommand(t, list) THEN Posted(xTimerQueue, r)
                            ELSE xTimerQueue
      /\ started' = IF t \in AutoReload THEN started ELSE started \ {t}
      /\ pc = "expired" /\ pc' = "commands"
      /\ UNCHANGED <<allocated, client, handles>>
    BY DEF prvProcessExpiredTimer, Callback, clients
<1>2. /\ t \in Timers /\ t \in Active
      /\ t \in AutoReload => Moves(t, list)
      /\ t \notin AutoReload => Moves(t, "none") /\ xTimerQueue' = xTimerQueue
    <2>1. /\ t = Head(pxCurrentTimerList)
          /\ next = ExpiryAfter(xNextExpireTime, xTimerPeriodInTicks[t])
          /\ list = ActiveListFor(xTimerPeriodInTicks[t], next, xTimeNow, xNextExpireTime)
        OBVIOUS
    <2> HIDE DEF t, next, list
    <2> QED BY <2>1, ExpiredMoves
<1>3. list \in {"now", "current", "overflow"}
    BY DEF ActiveListFor
<1>4. r \in Messages /\ r.pxTimer = t /\ IsStart(r) /\ r.reload
    <2>1. xNextExpireTime \in Ticks /\ -due[t] \in Int
        BY <1>2, Types DEF Structure
    <2> HIDE DEF t
    <2> QED BY <1>2, <2>1, MessageType DEF IsStart
<1> HIDE DEF t, list, r
<1>5. \E l : Served(xTimerQueue, t, l)
    <2>1. CASE t \in AutoReload /\ list = "now"
        <3>1. xTimerQueue' = Posted(xTimerQueue, r)
            BY <1>1, <2>1 DEF ReloadByCommand
        <3> QED BY <1>1, <1>2, <1>4, <2>1, <3>1 DEF Served
    <2>2. CASE t \in AutoReload /\ list # "now"
        <3>1. xTimerQueue' = xTimerQueue
            BY <1>1, <2>2 DEF ReloadByCommand
        <3> QED BY <1>1, <1>2, <1>3, <2>2, <3>1 DEF Served
    <2>3. CASE t \notin AutoReload
        <3>1. Served(xTimerQueue, t, "none")
            BY <1>1, <1>2, <2>3 DEF Served
        <3> QED BY <3>1
    <2> QED BY <2>1, <2>2, <2>3
<1>6. PICK l : Served(xTimerQueue, t, l)
    BY <1>5
<1>7. Taken(xTimerQueue, t) /\ t \in allocated
    BY <1>1, <1>2, RoomForRestart DEF Kept, Owned
<1>8. Owned'
    BY <1>1, <1>6, <1>7, ServedOwned DEF Kept
<1>9. Fits'
    BY <1>1, <1>2, <1>6, ServedFits DEF Kept
<1>10. NoTimerLost'
    BY <1>6, <1>7, ServedLost DEF Kept
<1>11. FromBefore'
    BY <1>1 DEF FromBefore, Switching
<1> QED BY <1>8, <1>9, <1>10, <1>11 DEF Kept

(* A round of prvSwitchTimerLists.                                          *)
LEMMA LeftoverKept ==
    ASSUME Orderly, Structure, Structure', Times, Kept, prvSwitchTimerLists,
           pxCurrentTimerList # <<>>
    PROVE  Kept'
<1> DEFINE t == Head(pxCurrentTimerList)
           expiry == xTimerListItem[t]
           next == ExpiryAfter(expiry, xTimerPeriodInTicks[t])
           again == t \in AutoReload /\ next > expiry
           r == Reload(expiry, t, -due[t])
<1>1. /\ xTimerQueue' = IF again \/ t \notin AutoReload THEN xTimerQueue
                        ELSE Posted(xTimerQueue, r)
      /\ started' = IF t \in AutoReload THEN started ELSE started \ {t}
      /\ UNCHANGED <<pc, xLastTime, allocated, client, handles>>
      /\ Switching /\ pc # "receive"
    BY DEF prvSwitchTimerLists, Callback, clients, Switching
<1>2. /\ t \in Timers /\ t \in Active /\ In(t, pxCurrentTimerList) /\ next \in Ticks
      /\ ~again => Moves(t, "none")
    <2>1. /\ t = Head(pxCurrentTimerList)
          /\ next = ExpiryAfter(xTimerListItem[t], xTimerPeriodInTicks[t])
        OBVIOUS
    <2> HIDE DEF t, next
    <2> QED BY <2>1, SwitchMoves
<1>3. expiry \in Ticks /\ -due[t] \in Int
    BY <1>2, Types DEF Structure
<1>4. ~again
    <2>1. next <= expiry
        BY <1>1, <1>2, NoneAgain
    <2>2. next \in Nat /\ expiry \in Nat
        BY <1>2, <1>3, Numbers
    <2> HIDE DEF next, expiry, t
    <2> QED BY <2>1, <2>2
<1>5. r \in Messages /\ r.pxTimer = t /\ IsStart(r) /\ r.reload
    <2> HIDE DEF t, expiry
    <2> QED BY <1>2, <1>3, MessageType DEF IsStart
<1> HIDE DEF t, next, expiry, again, r
<1>6. Served(xTimerQueue, t, "none")
    <2>1. CASE t \in AutoReload
        BY <1>1, <1>2, <1>4, <1>5, <2>1 DEF Served
    <2>2. CASE t \notin AutoReload
        BY <1>1, <1>2, <1>4, <2>2 DEF Served
    <2> QED BY <2>1, <2>2
<1>7. Taken(xTimerQueue, t) /\ t \in allocated
    BY <1>1, <1>2, RoomForRestart DEF Kept, Owned
<1>8. Owned'
    BY <1>1, <1>6, <1>7, ServedOwned DEF Kept
<1>9. Fits'
    BY <1>1, <1>2, <1>6, ServedFits DEF Kept
<1>10. NoTimerLost'
    BY <1>6, <1>7, ServedLost DEF Kept
<1>11. FromBefore'
    <2>1. ASSUME NEW u \in Timers
          PROVE  /\ In(u, pxCurrentTimerList') => In(u, pxCurrentTimerList)
                 /\ In(u, pxOverflowTimerList') => In(u, pxOverflowTimerList)
                 /\ u # t => xTimerListItem'[u] = xTimerListItem[u]
                 /\ ~In(t, pxCurrentTimerList') /\ ~In(t, pxOverflowTimerList')
        BY <1>2, <1>4 DEF Moves
    <2> QED BY <1>1, <2>1 DEF Kept, FromBefore
<1> QED BY <1>8, <1>9, <1>10, <1>11 DEF Kept

(* The exchange of the lists.                                               *)
LEMMA ExchangeKept ==
    ASSUME Structure, Structure', Kept, prvSwitchTimerLists, pxCurrentTimerList = <<>>
    PROVE  Kept'
<1>1. /\ pxCurrentTimerList' = pxOverflowTimerList /\ pxOverflowTimerList' = pxCurrentTimerList
      /\ UNCHANGED <<xTimerQueue, started, allocated, client, handles>>
      /\ pc # "receive" /\ ~Switching'
    BY DEF prvSwitchTimerLists, AfterSwitch, clients, Switching
<1>2. Active' = Active
    BY <1>1 DEF Active, xTimerIsTimerActive
<1>3. Owned'
    BY <1>1, <1>2 DEF Kept, Owned, Known
<1>4. Fits'
    <2>1. Len(pxCurrentTimerList) \in Nat /\ Len(pxOverflowTimerList) \in Nat
        BY DEF Structure, AreLists
    <2>2. Len(pxCurrentTimerList') + Len(pxOverflowTimerList')
             = Len(pxCurrentTimerList) + Len(pxOverflowTimerList)
        BY <1>1, <2>1
    <2> QED BY <1>1, <2>2 DEF Kept, Fits
<1>5. NoTimerLost'
    BY <1>1 DEF Kept, NoTimerLost, xTimerIsTimerActive
<1> QED BY <1>1, <1>3, <1>4, <1>5 DEF Kept, FromBefore

(* The cases of prvProcessReceivedCommands.                                 *)
LEMMA ReceiveKept ==
    ASSUME Orderly, Structure, Structure', Times, Kept, prvProcessReceivedCommands
    PROVE  Kept'
<1> DEFINE m == Head(xTimerQueue)
           q == Tail(xTimerQueue)
           t == m.pxTimer
           c == Without(pxCurrentTimerList, t)
           o == Without(pxOverflowTimerList, t)
<1>1. /\ m \in Messages /\ q \in Seq(Messages) /\ Len(q) < configTIMER_QUEUE_LENGTH
      /\ UNCHANGED <<xTickCount, xLastTime, locals, clients, lag>> /\ pc = "receive"
      /\ \/ m.xMessageID = tmrCOMMAND_START /\ StartCommand(m, c, o, q)
         \/ m.xMessageID = tmrCOMMAND_STOP /\ StopCommand(m, c, o, q)
         \/ m.xMessageID = tmrCOMMAND_CHANGE_PERIOD /\ ChangePeriodCommand(m, c, o, q)
         \/ m.xMessageID = tmrCOMMAND_DELETE /\ DeleteCommand(m, c, o, q)
    <2>1. m = Head(xTimerQueue) /\ q = Tail(xTimerQueue)
        OBVIOUS
    <2> HIDE DEF m, q
    <2>2. configTIMER_QUEUE_LENGTH \in Nat
        BY TimersAssumption DEF TimersAssumption
    <2>3. Len(q) = Len(xTimerQueue) - 1 /\ Len(xTimerQueue) <= configTIMER_QUEUE_LENGTH
          /\ Len(xTimerQueue) \in Nat
        BY <2>1, Received
    <2>4. Len(q) < configTIMER_QUEUE_LENGTH
        BY <2>2, <2>3
    <2> QED BY <2>1, <2>4, Received
<1>2. xTimerQueue \in Seq(Messages) /\ xTimerQueue # <<>>
    BY DEF Structure, prvProcessReceivedCommands
<1>3. Taken(q, t)
    BY <1>1, <1>2 DEF Taken
<1>4. Known(m) /\ (\A n \in Messages : In(n, q) => In(n, xTimerQueue) /\ n.reload) /\ Behind(q)
    <2>1. In(m, xTimerQueue) /\ \A n \in Messages : In(n, q) => In(n, xTimerQueue)
        BY <1>2, QueueHolds
    <2>2. Behind(q) /\ \A n \in Messages : In(n, q) => n.reload
        BY <1>2, BehindIt DEF Kept, Owned
    <2> HIDE DEF m, q
    <2> QED BY <1>1, <2>1, <2>2 DEF Kept, Owned
<1> HIDE DEF m, q
<1>5. t \in Timers /\ m.xMessageValue \in Ticks /\ m.age \in Int /\ t \in allocated
    BY <1>1, <1>4 DEF Messages, Known
<1>6. /\ pc' = "receive" /\ UNCHANGED <<client, handles>>
    BY <1>1 DEF locals, clients
<1>7. Fits' /\ FromBefore'
    BY <1>6 DEF Fits, FromBefore, Switching
<1>8. NoTimerLost' /\ Owned'
    <2>1. CASE StartCommand(m, c, o, q)
        <3> DEFINE period == xTimerPeriodInTicks[t]
                   next == ExpiryAfter(m.xMessageValue, period)
                   list == ActiveListFor(period, next, xTimeNow, m.xMessageValue)
                   r == Reload(next, t, m.age - period)
        <3>1. /\ xTimerQueue' = IF ReloadByCommand(t, list) THEN Posted(q, r) ELSE q
              /\ started' = IF list = "now" /\ t \notin AutoReload THEN started \ {t}
                            ELSE IF m.reload THEN started ELSE started \cup {t}
              /\ UNCHANGED allocated
            BY <2>1 DEF StartCommand
        <3>2. next \in Ticks /\ Moves(t, list)
            <4>1. /\ t = m.pxTimer /\ next = ExpiryAfter(m.xMessageValue, xTimerPeriodInTicks[t])
                  /\ list = ActiveListFor(xTimerPeriodInTicks[t], next, xTimeNow, m.xMessageValue)
                OBVIOUS
            <4> HIDE DEF t, next, list
            <4> QED BY <1>1, <2>1, <4>1, StartMoves DEF c, o, t
        <3>3. list \in {"now", "current", "overflow"}
            BY DEF ActiveListFor
        <3> HIDE DEF next, list
        <3>4. r \in Messages /\ r.pxTimer = t /\ IsStart(r) /\ r.reload
            <4>1. m.age - period \in Int
                BY <1>5, Types DEF Structure
            <4> HIDE DEF t, period
            <4> QED BY <1>5, <3>2, <4>1, MessageType DEF IsStart
        <3> HIDE DEF r, t
        <3>5. Served(q, t, list)
            <4>1. CASE list = "now" /\ t \in AutoReload
                <5>1. xTimerQueue' = Posted(q, r)
                    BY <3>1, <4>1 DEF ReloadByCommand
                <5> QED BY <1>5, <3>1, <3>2, <3>4, <4>1, <5>1 DEF Served
            <4>2. CASE list = "now" /\ t \notin AutoReload
                <5>1. xTimerQueue' = q
                    BY <3>1, <4>2 DEF ReloadByCommand
                <5> QED BY <1>5, <3>1, <3>2, <4>2, <5>1 DEF Served
            <4>3. CASE list # "now"
                <5>1. xTimerQueue' = q
                    BY <3>1, <4>3 DEF ReloadByCommand
                <5> QED BY <1>5, <3>1, <3>2, <3>3, <4>3, <5>1 DEF Served
            <4> QED BY <4>1, <4>2, <4>3
        <3> QED BY <1>3, <1>5, <1>6, <3>1, <3>5, ServedLost, ServedOwned DEF Kept
    <2>2. CASE ChangePeriodCommand(m, c, o, q) /\ m.xMessageID = tmrCOMMAND_CHANGE_PERIOD
        <3> DEFINE next == ExpiryAfter(xTimeNow, m.xMessageValue)
                   list == ActiveListFor(m.xMessageValue, next, xTimeNow, xTimeNow)
        <3>1. xTimerQueue' = q /\ UNCHANGED allocated /\ started' = started \cup {t}
            BY <2>2 DEF ChangePeriodCommand
        <3>2. /\ t = m.pxTimer /\ next = ExpiryAfter(xTimeNow, m.xMessageValue)
              /\ list = ActiveListFor(m.xMessageValue, next, xTimeNow, xTimeNow)
            OBVIOUS
        <3> HIDE DEF next, list
        <3>3. Moves(t, list) /\ m.xMessageValue \in Periods
            <4> HIDE DEF t
            <4> QED BY <1>1, <2>2, <3>2, ChangeMoves DEF c, o, t
        <3>4. list \in {"current", "overflow"}
            <4>1. /\ xTimeNow \in Ticks /\ 0 \in Ticks /\ xTimeNow \in Nat /\ xTimeNow < TickMod
                  /\ m.xMessageValue \in Nat /\ m.xMessageValue > 0
                BY <3>3, Types, Numbers DEF Structure
            <4>2. xTimeNow = (xTimeNow + 0) % TickMod
                BY <4>1, ModSum
            <4>3. list \in {"now", "current", "overflow"} /\ (list = "now" <=> 0 >= m.xMessageValue)
                BY <3>2, <3>3, <4>1, <4>2, ListIsRight
            <4> QED BY <4>1, <4>3
        <3> HIDE DEF t
        <3>5. Served(q, t, list)
            BY <1>5, <3>1, <3>3, <3>4 DEF Served
        <3> QED BY <1>3, <1>5, <1>6, <3>1, <3>5, ServedLost, ServedOwned DEF Kept
    <2>3. CASE StopCommand(m, c, o, q)
        <3>1. xTimerQueue' = q /\ UNCHANGED allocated /\ started' = started \ {t}
            BY <2>3 DEF StopCommand
        <3>2. Moves(t, "none")
            BY <1>1, <2>3, StopMoves
        <3> HIDE DEF t
        <3>3. Served(q, t, "none")
            BY <1>5, <3>1, <3>2 DEF Served
        <3> QED BY <1>3, <1>5, <1>6, <3>1, <3>3, ServedLost, ServedOwned DEF Kept
    <2>4. CASE DeleteCommand(m, c, o, q) /\ m.xMessageID = tmrCOMMAND_DELETE
        <3>1. xTimerQueue' = q /\ allocated' = allocated \ {t} /\ started' = started \ {t}
            BY <2>4 DEF DeleteCommand
        <3>2. Moves(t, "none")
            BY <1>1, <2>4, StopMoves
        <3>3. t \in Deletable /\ t \notin handles /\ ~m.reload
            BY <1>4, <2>4 DEF Known, IsStart, tmrCOMMAND_START, tmrCOMMAND_DELETE
        <3> HIDE DEF t
        <3>4. NoTimerLost'
            <4>1. Served(q, t, "none")
                BY <1>5, <3>1, <3>2 DEF Served
            <4> QED BY <1>3, <4>1, ServedLost DEF Kept
        <3>5. ASSUME NEW n \in Messages, In(n, q) PROVE Known(n)' /\ n.reload
            <4>1. Known(n) /\ n.reload
                BY <1>4, <3>5 DEF Kept, Owned
            <4>2. n.pxTimer # t
                BY <3>3, <4>1 DEF Known, Orderly
            <4> QED BY <1>6, <3>1, <4>1, <4>2 DEF Known
        <3>6. client' = NULL
            <4>1. In(m, xTimerQueue)
                BY <1>2, QueueHolds DEF m
            <4> QED BY <1>1, <1>6, <3>3, <4>1 DEF Kept, Owned
        <3>7. handles' \subseteq allocated' /\ Active' \subseteq allocated'
            <4>1. \A u \in Timers : u \in Active' => u # t /\ u \in Active
                BY <3>2 DEF Moves, Active, xTimerIsTimerActive
            <4> QED BY <1>6, <3>1, <3>3, <4>1 DEF Kept, Owned, Active
        <3>8. Owned'
            BY <1>4, <3>1, <3>5, <3>6, <3>7 DEF Owned
        <3> QED BY <3>4, <3>8
    <2> QED BY <1>1, <2>1, <2>2, <2>3, <2>4
<1> QED BY <1>7, <1>8 DEF Kept

(* The steps of clients: the service task has taken all commands.           *)
LEMMA ClientKept ==
    ASSUME Orderly, Structure, Structure', Times, Kept,
           \/ xTimerGenericCommand
           \/ \E t \in Timers : Command(t) \/ \E p \in Periods : xTimerCreate(t, p)
    PROVE  Kept'
<1>1. ~Preempts /\ \A m : ~In(m, <<>>)
    BY DEF Orderly, In
<1>2. CASE xTimerGenericCommand
    <2>1. /\ pc = "blocked" /\ xTimerQueue = <<>> /\ client \in Messages /\ client # NULL
          /\ client' = NULL
          /\ UNCHANGED <<pxCurrentTimerList, pxOverflowTimerList, allocated, started>>
        BY <1>1, <1>2 DEF xTimerGenericCommand, ClientRuns, Times, Structure, timers, timerLists,
                          histories
    <2>2. xTimerQueue' = Append(xTimerQueue, client) /\ pc' = "commands" /\ handles' = handles
        <3>1. Len(xTimerQueue) < configTIMER_QUEUE_LENGTH
            BY <2>1, TimersAssumption DEF TimersAssumption
        <3> QED BY <1>2, <2>1, <3>1 DEF xTimerGenericCommand
    <2>3. Behind(xTimerQueue') /\ Len(xTimerQueue') = 1
        BY <2>1, <2>2, BehindIt DEF Behind
    <2>4. \A m \in Messages : In(m, xTimerQueue') => m = client
        BY <1>1, <2>1, <2>2, QueueHolds DEF Structure
    <2>5. Known(client)
        BY <2>1 DEF Kept, Owned
    <2>6. Owned'
        BY <2>1, <2>2, <2>3, <2>4, <2>5 DEF Kept, Owned, Known, Active, xTimerIsTimerActive
    <2>7. Fits'
        <3>1. /\ Len(pxCurrentTimerList') + Len(pxOverflowTimerList') <= Cardinality(Timers)
              /\ Len(pxCurrentTimerList') \in Nat /\ Len(pxOverflowTimerList') \in Nat
              /\ Cardinality(Timers) \in Nat
            BY ListsFit DEF Structure
        <3> QED BY <2>3, <3>1 DEF Fits
    <2>8. NoTimerLost'
        <3>1. DOMAIN xTimerQueue = {}
            BY <2>1
        <3> QED BY <2>1, <3>1 DEF Kept, NoTimerLost, xTimerIsTimerActive
    <2> QED BY <2>2, <2>6, <2>7, <2>8 DEF Kept, FromBefore, Switching
<1>3. ASSUME NEW t \in Timers, Command(t) PROVE Kept'
    <2>1. /\ pc = "blocked" /\ pc' = pc /\ xTimerQueue = <<>> /\ xTimerQueue' = xTimerQueue
          /\ UNCHANGED <<pxCurrentTimerList, pxOverflowTimerList, xTimerListItem, xLastTime,
                         allocated, started>>
          /\ t \in handles /\ handles' \subseteq handles
        BY <1>1, <1>3 DEF Command, ClientRuns, Times, timers, timerLists, histories, locals
    <2>2. /\ client'.pxTimer = t /\ ~client'.reload
          /\ client'.xMessageID = tmrCOMMAND_DELETE => t \in Deletable /\ t \notin handles'
        BY <1>3 DEF Command, Message, tmrCOMMAND_START, tmrCOMMAND_STOP, tmrCOMMAND_DELETE,
                    tmrCOMMAND_CHANGE_PERIOD
    <2>3. Owned'
        BY <1>1, <2>1, <2>2 DEF Kept, Owned, Known, Behind, Active, xTimerIsTimerActive
    <2>4. Fits' /\ FromBefore' /\ NoTimerLost'
        BY <2>1 DEF Kept, Fits, FromBefore, Switching, NoTimerLost, xTimerIsTimerActive
    <2> QED BY <2>3, <2>4 DEF Kept
<1>4. ASSUME NEW t \in Timers, NEW p \in Periods, xTimerCreate(t, p) PROVE Kept'
    <2>1. /\ pc = "blocked" /\ pc' = pc /\ xTimerQueue = <<>> /\ xTimerQueue' = xTimerQueue
          /\ UNCHANGED <<pxCurrentTimerList, pxOverflowTimerList, xTimerListItem, xLastTime,
                         client, started>>
          /\ t \notin allocated /\ allocated' = allocated \cup {t} /\ handles' = handles \cup {t}
        BY <1>1, <1>4 DEF xTimerCreate, ClientRuns, Times, timerLists, histories, locals
    <2>2. Owned'
        <3>1. client # NULL => Known(client) /\ ~client.reload
            BY DEF Kept, Owned
        <3>2. client # NULL => Known(client)'
            BY <2>1, <3>1 DEF Known
        <3>3. handles' \subseteq allocated' /\ Active' \subseteq allocated'
            BY <2>1 DEF Kept, Owned, Active, xTimerIsTimerActive
        <3> QED BY <1>1, <2>1, <3>1, <3>2, <3>3 DEF Kept, Owned, Behind, Known
    <2>3. Fits' /\ FromBefore' /\ NoTimerLost'
        BY <2>1 DEF Kept, Fits, FromBefore, Switching, NoTimerLost, xTimerIsTimerActive
    <2> QED BY <2>2, <2>3 DEF Kept
<1> QED BY <1>2, <1>3, <1>4

(* A tick.                                                                  *)
LEMMA TickKept ==
    ASSUME Orderly, Structure, Structure', Times, Kept, Tick
    PROVE  Kept'
<1>1. /\ UNCHANGED <<pxCurrentTimerList, pxOverflowTimerList, xTimerListItem, xLastTime, allocated,
                     handles, started>>
      /\ xTimerQueue' = [n \in DOMAIN xTimerQueue |-> Older(xTimerQueue[n])]
      /\ client' = IF client = NULL THEN NULL ELSE Older(client)
      /\ pc' = pc \/ (pc = "blocked" /\ pc' = "commands")
    BY DEF Tick, timers, timerLists
<1>2. ASSUME NEW m \in Messages
      PROVE  /\ Older(m) \in Messages /\ Older(m).pxTimer = m.pxTimer
             /\ Older(m).reload = m.reload /\ Older(m).xMessageID = m.xMessageID
             /\ Known(m) => Known(Older(m))'
    <2>1. /\ Older(m) \in Messages /\ Older(m).pxTimer = m.pxTimer
          /\ Older(m).reload = m.reload /\ Older(m).xMessageID = m.xMessageID
        BY OlderType DEF Messages
    <2> DEFINE w == Older(m)
    <2> HIDE DEF w
    <2>2. ASSUME Known(m), w.pxTimer = m.pxTimer, w.reload = m.reload,
                 w.xMessageID = m.xMessageID
          PROVE  /\ w.pxTimer \in allocated'
                 /\ w.xMessageID = tmrCOMMAND_DELETE =>
                       w.pxTimer \in Deletable /\ w.pxTimer \notin handles'
                 /\ w.reload => w.pxTimer \in AutoReload /\ IsStart(w)
        BY <1>1, <2>2 DEF Known, IsStart
    <2> QED BY <2>1, <2>2 DEF w, Known
<1>3. /\ DOMAIN xTimerQueue' = DOMAIN xTimerQueue
      /\ \A n \in DOMAIN xTimerQueue : /\ xTimerQueue[n] \in Messages
                                       /\ In(xTimerQueue[n], xTimerQueue)
                                       /\ xTimerQueue'[n] = Older(xTimerQueue[n])
    BY <1>1 DEF Structure, In
<1>4. Owned'
    <2>1. ASSUME NEW m \in Messages, In(m, xTimerQueue')
          PROVE  Known(m)' /\ (client' # NULL => m.reload)
        <3>1. PICK n \in DOMAIN xTimerQueue : m = Older(xTimerQueue[n])
            BY <1>3, <2>1 DEF In
        <3> DEFINE w == xTimerQueue[n]
        <3>2. w \in Messages /\ In(w, xTimerQueue)
            BY <1>3
        <3> HIDE DEF w
        <3>3. m = Older(w) /\ Known(w) /\ (client # NULL => w.reload)
            BY <3>1, <3>2 DEF Kept, Owned, w
        <3>4. Known(m)'
            BY <1>1, <1>2, <3>2, <3>3 DEF Known
        <3>5. client' # NULL => client # NULL
            BY <1>1
        <3> QED BY <1>2, <3>2, <3>3, <3>4, <3>5
    <2>2. client' # NULL => Known(client)' /\ ~client'.reload
        <3>1. CASE client = NULL
            BY <1>1, <3>1
        <3>2. CASE client # NULL
            <4>1. client' = Older(client) /\ client \in Messages /\ Known(client) /\ ~client.reload
                BY <1>1, <3>2 DEF Kept, Owned, Structure
            <4>2. ~client'.reload /\ client'.pxTimer = client.pxTimer
                  /\ client'.xMessageID = client.xMessageID
                BY <1>2, <4>1
            <4>3. Known(client)'
                BY <1>1, <4>1, <4>2 DEF Known
            <4> QED BY <4>2, <4>3
        <3> QED BY <3>1, <3>2
    <2>3. Behind(xTimerQueue')
        <3>1. ASSUME NEW n \in DOMAIN xTimerQueue, n > 1 PROVE xTimerQueue'[n].reload
            BY <1>2, <1>3, <3>1 DEF Kept, Owned, Behind
        <3> QED BY <1>3, <3>1 DEF Behind
    <2>4. handles' \subseteq allocated' /\ Active' \subseteq allocated'
        BY <1>1 DEF Kept, Owned, Active, xTimerIsTimerActive
    <2> QED BY <2>1, <2>2, <2>3, <2>4 DEF Owned
<1>5. Fits'
    <2>1. Len(xTimerQueue') = Len(xTimerQueue)
        <3>1. xTimerQueue \in Seq(Messages) /\ xTimerQueue' \in Seq(Messages)
            BY DEF Structure
        <3> QED BY <1>3, <3>1
    <2> QED BY <1>1, <2>1 DEF Kept, Fits
<1>6. FromBefore'
    BY <1>1 DEF Kept, FromBefore, Switching
<1>7. NoTimerLost'
    <2>1. \A n \in DOMAIN xTimerQueue : xTimerQueue'[n].pxTimer = xTimerQueue[n].pxTimer
        BY <1>2, <1>3
    <2> QED BY <1>1, <1>3, <2>1 DEF Kept, NoTimerLost, xTimerIsTimerActive
<1> QED BY <1>4, <1>5, <1>6, <1>7 DEF Kept

(* Every step keeps timers and commands where they are.                     *)
LEMMA KeptStep ==
    ASSUME Orderly, Structure, Structure', Times, Kept, [Next]_vars
    PROVE  Kept'
<1>1. CASE UNCHANGED vars
    BY <1>1, QuietKept DEF vars, timers, timerLists, clients, histories, locals
<1>2. CASE prvGetNextExpireTime \/ prvProcessTimerOrBlockTask \/ SampleForCommands \/ CommandsDone
    <2>1. /\ UNCHANGED <<pxCurrentTimerList, pxOverflowTimerList, xTimerListItem, xTimerQueue,
                         allocated, handles, client, started>>
          /\ pc = "receive" => xTimerQueue = <<>>
        BY <1>2 DEF prvGetNextExpireTime, prvProcessTimerOrBlockTask, SampleForCommands,
                    CommandsDone, timers, timerLists, clients, histories
    <2>2. Switching' => xLastTime' = xLastTime
        BY <1>2 DEF prvGetNextExpireTime, prvProcessTimerOrBlockTask, SampleForCommands,
                    CommandsDone, Switching
    <2> QED BY <2>1, <2>2, QuietKept
<1>3. CASE prvProcessExpiredTimer \/ prvSwitchTimerLists \/ prvProcessReceivedCommands
    BY <1>3, ExpiredKept, LeftoverKept, ExchangeKept, ReceiveKept
<1>4. CASE Tick
    BY <1>4, TickKept
<1>5. CASE \/ xTimerGenericCommand
           \/ \E t \in Timers : Command(t) \/ \E p \in Periods : xTimerCreate(t, p)
    BY <1>5, ClientKept
<1> QED BY <1>1, <1>2, <1>3, <1>4, <1>5 DEF Next, ServiceTask

(* The lists tell when timers are due, through every wrap of the tick count *)
(* (timers.c:459-503, 611-657); a timer that should run is in a list or on  *)
(* its way there, since the reload is never refused (timers.c:320); and no  *)
(* command reaches a timer that was freed (timers.c:534).                   *)
THEOREM OrderlyTimersAreKept == Orderly /\ Spec => []TimersKept
<1>1. CASE Orderly
    <2>1. Init => Structure /\ Times /\ Kept
        BY StructureInit, TimesInit, KeptInit
    <2>2. Structure /\ Times /\ Kept /\ [Next]_vars => Structure' /\ Times' /\ Kept'
        BY <1>1, StructureStep, TimesStep, KeptStep DEF Orderly
    <2>3. Structure /\ Times /\ Kept => TimersKept
        <3> SUFFICES ASSUME Structure, Times, Kept PROVE TimersKept
            OBVIOUS
        <3>1. ListsInPhase
            BY AreInPhase DEF Kept
        <3>2. NoUseAfterFree
            <4>1. \A n \in DOMAIN xTimerQueue :
                     xTimerQueue[n] \in Messages /\ In(xTimerQueue[n], xTimerQueue)
                BY DEF Structure, In
            <4> QED BY <4>1 DEF Kept, Owned, Known, NoUseAfterFree
        <3> QED BY <3>1, <3>2 DEF Kept, TimersKept
    <2> QED BY <2>1, <2>2, <2>3, PTL DEF Spec
<1>2. CASE ~Orderly
    BY <1>2
<1> QED BY <1>1, <1>2

-----------------------------------------------------------------------------
(* The timeouts of lwIP.                                                    *)
(*                                                                         *)
(* The list holds differences; what a timeout has left is a sum of them.    *)
(* What each operation on the list does to those sums is shown first, then  *)
(* an invariant (TimeoutsInv) that knows the sums and how far the current   *)
(* tick has gone.                                                           *)

Timeouts == [h : Handlers, time : Nat]

(* A set of numbers that is not empty has a least one.  The sets 0..n of its *)
(* elements n have a minimal one among them.                                *)
LEMMA LeastNumber ==
    ASSUME NEW S \in SUBSET Nat, S # {}
    PROVE  \E m \in S : \A n \in S : m <= n
<1> DEFINE below == {0..n : n \in S}
<1>1. below \in SUBSET FiniteSubsetsOf(Nat) /\ below # {}
    <2>1. \A n \in S : 0..n \in FiniteSubsetsOf(Nat)
        BY FS_Interval DEF FiniteSubsetsOf
    <2> QED BY <2>1
<1>2. PICK x \in below : \A y \in below : <<y, x>> \notin StrictSubsetOrdering(Nat)
    <2>1. IsWellFoundedOn(StrictSubsetOrdering(Nat), FiniteSubsetsOf(Nat))
        BY FS_StrictSubsetOrderingWellFounded
    <2> HIDE DEF below
    <2> QED BY <1>1, <2>1, WFMin
<1>3. PICK m \in S : x = 0..m
    OBVIOUS
<1>4. ASSUME NEW n \in S, n < m PROVE FALSE
    <2>1. 0..n \subseteq 0..m /\ 0..n # 0..m
        <3>1. m \in 0..m /\ m \notin 0..n
            BY <1>4
        <3>2. n \in Nat /\ m \in Nat
            OBVIOUS
        <3>3. 0..n \subseteq 0..m
            BY <1>4, <3>2
        <3> QED BY <3>1, <3>3
    <2>2. <<0..n, x>> \in StrictSubsetOrdering(Nat)
        <3>1. <<0..n, 0..m>> \in (SUBSET Nat) \X (SUBSET Nat)
            OBVIOUS
        <3> QED BY <1>3, <2>1, <3>1 DEF StrictSubsetOrdering
    <2> QED BY <1>2, <2>2
<1> QED BY <1>4


(* What is in a list of timeouts.                                           *)
LEMMA ListElements ==
    ASSUME NEW list \in Seq(Timeouts)
    PROVE  /\ Len(list) \in Nat /\ DOMAIN list = 1..Len(list)
           /\ \A i \in 1..Len(list) : /\ list[i] \in Timeouts
                                      /\ list[i].time \in Nat /\ list[i].h \in Handlers
                                      /\ list[i] = [h |-> list[i].h, time |-> list[i].time]
<1>1. Len(list) \in Nat /\ DOMAIN list = 1..Len(list) /\ \A i \in 1..Len(list) : list[i] \in Timeouts
    OBVIOUS
<1>2. \A t \in Timeouts : t.time \in Nat /\ t.h \in Handlers /\ t = [h |-> t.h, time |-> t.time]
    BY DEF Timeouts
<1> QED BY <1>1, <1>2

(* The times until the timeouts of a list are the sums of its times.        *)
AreSums(f, list) ==
    /\ f \in [0..Len(list) -> Nat] /\ f[0] = 0
    /\ \A i \in 1..Len(list) : f[i] = f[i - 1] + list[i].time

LEMMA SumsExist ==
    ASSUME NEW list \in Seq(Timeouts)
    PROVE  \E f : AreSums(f, list)
<1> DEFINE Upto(f, n) == /\ f \in [0..n -> Nat] /\ f[0] = 0
                         /\ \A i \in 1..n : f[i] = f[i - 1] + list[i].time
           Bad == {n \in 0..Len(list) : ~\E f : Upto(f, n)}
<1>1. Len(list) \in Nat /\ \A i \in 1..Len(list) : list[i] \in Timeouts /\ list[i].time \in Nat
    BY ListElements
<1>2. SUFFICES Bad = {}
    <2>1. Len(list) \in 0..Len(list)
        BY <1>1
    <2>2. \E f : Upto(f, Len(list))
        BY <1>2, <2>1
    <2> QED BY <2>2 DEF AreSums
<1>3. SUFFICES ASSUME Bad # {} PROVE FALSE
    OBVIOUS
<1>4. PICK n \in Bad : \A m \in Bad : n <= m
    <2>1. Bad \in SUBSET Nat
        BY <1>1
    <2> HIDE DEF Bad
    <2> QED BY <1>3, <2>1, LeastNumber
<1>5. CASE n = 0
    <2>1. Upto([i \in 0..0 |-> 0], 0)
        OBVIOUS
    <2> QED BY <1>5, <2>1
<1>6. CASE n # 0
    <2>1. n \in 1..Len(list) /\ n - 1 \in 0..Len(list) /\ n - 1 \notin Bad
        <3>1. n \in 0..Len(list)
            OBVIOUS
        <3> HIDE DEF Bad
        <3> QED BY <1>1, <1>4, <1>6, <3>1
    <2>2. PICK f : Upto(f, n - 1)
        BY <2>1
    <2> DEFINE g == [i \in 0..n |-> IF i = n THEN f[n - 1] + list[n].time ELSE f[i]]
    <2>3. f[n - 1] \in Nat /\ list[n].time \in Nat /\ \A i \in 0..(n - 1) : f[i] \in Nat
        BY <1>1, <2>1, <2>2
    <2>4. g \in [0..n -> Nat] /\ g[0] = 0
        BY <1>6, <2>1, <2>2, <2>3
    <2>5. \A i \in 1..n : g[i] = g[i - 1] + list[i].time
        BY <2>1, <2>2, <2>3
    <2> HIDE DEF g
    <2>6. Upto(g, n)
        BY <2>4, <2>5
    <2> QED BY <2>6
<1> QED BY <1>5, <1>6

(* The recursive definition of Deadlines is theirs.                         *)
LEMMA DeadlinesAre ==
    ASSUME NEW list \in Seq(Timeouts)
    PROVE  AreSums(Deadlines(list), list)
<1> DEFINE Until(f) == [i \in 0..Len(list) |-> IF i = 0 THEN 0 ELSE f[i - 1] + list[i].time]
           D == CHOOSE f : f = Until(f)
           Bad == {n \in 0..Len(list) : D[n] \notin Nat}
<1>1. Len(list) \in Nat /\ \A i \in 1..Len(list) : list[i] \in Timeouts /\ list[i].time \in Nat
    BY ListElements
<1>2. \E f : f = Until(f)
    <2>1. PICK f : AreSums(f, list)
        BY SumsExist
    <2>2. f = Until(f)
        BY <1>1, <2>1 DEF AreSums
    <2> QED BY <2>2
<1>3. D = Until(D)
    <2> HIDE DEF Until
    <2> QED BY <1>2
<1>4. Deadlines(list) = D
    BY DEF Deadlines
<1> HIDE DEF D
<1>5. D[0] = 0 /\ \A i \in 1..Len(list) : D[i] = D[i - 1] + list[i].time
    BY <1>1, <1>3
<1>6. Bad = {}
    <2> SUFFICES ASSUME Bad # {} PROVE FALSE
        OBVIOUS
    <2>1. PICK n \in Bad : \A m \in Bad : n <= m
        <3>1. Bad \in SUBSET Nat
            BY <1>1
        <3> HIDE DEF Bad
        <3> QED BY <3>1, LeastNumber
    <2>2. n # 0 /\ n \in 1..Len(list)
        BY <1>1, <1>5, <2>1
    <2>3. n - 1 \in 0..Len(list) /\ n - 1 \notin Bad
        BY <1>1, <2>1, <2>2
    <2>4. D[n - 1] \in Nat /\ list[n].time \in Nat
        BY <1>1, <2>2, <2>3
    <2> QED BY <1>5, <2>1, <2>2, <2>4
<1>7. D \in [0..Len(list) -> Nat]
    BY <1>3, <1>6
<1> QED BY <1>4, <1>5, <1>7 DEF AreSums

(* ... and no other function is.                                            *)
LEMMA SumsUnique ==
    ASSUME NEW list \in Seq(Timeouts), NEW f, AreSums(f, list)
    PROVE  Deadlines(list) = f
<1> DEFINE D == Deadlines(list)
           Bad == {n \in 0..Len(list) : D[n] # f[n]}
<1>1. AreSums(D, list)
    BY DeadlinesAre
<1> HIDE DEF D
<1>2. Bad = {}
    <2> SUFFICES ASSUME Bad # {} PROVE FALSE
        OBVIOUS
    <2>1. PICK n \in Bad : \A m \in Bad : n <= m
        <3>1. Bad \in SUBSET Nat
            OBVIOUS
        <3> HIDE DEF Bad
        <3> QED BY <3>1, LeastNumber
    <2>2. n # 0 /\ n \in 1..Len(list) /\ n - 1 \in 0..Len(list) /\ n - 1 \notin Bad
        BY <1>1, <2>1 DEF AreSums
    <2> QED BY <1>1, <2>1, <2>2 DEF AreSums
<1>3. D = f
    BY <1>1, <1>2 DEF AreSums
<1> QED BY <1>3 DEF D

(* A later timeout is no earlier.                                           *)
LEMMA DeadlinesRise ==
    ASSUME NEW list \in Seq(Timeouts), NEW i \in 0..Len(list), NEW j \in 0..Len(list), i <= j
    PROVE  Deadline(list, i) <= Deadline(list, j)
<1> DEFINE D == Deadlines(list)
           Bad == {n \in i..Len(list) : ~(D[i] <= D[n])}
<1>1. AreSums(D, list) /\ Len(list) \in Nat /\ \A n \in 1..Len(list) : list[n].time \in Nat
    BY DeadlinesAre, ListElements
<1> HIDE DEF D
<1>2. Bad = {}
    <2> SUFFICES ASSUME Bad # {} PROVE FALSE
        OBVIOUS
    <2>1. PICK n \in Bad : \A m \in Bad : n <= m
        <3>1. Bad \in SUBSET Nat
            OBVIOUS
        <3> HIDE DEF Bad
        <3> QED BY <3>1, LeastNumber
    <2>2. D[i] \in Nat
        BY <1>1 DEF AreSums
    <2>3. n # i /\ n \in 1..Len(list) /\ n - 1 \in i..Len(list) /\ n - 1 \notin Bad
        BY <1>1, <2>1, <2>2
    <2>4. D[n] = D[n - 1] + list[n].time /\ D[n - 1] \in Nat /\ D[i] <= D[n - 1] /\ list[n].time \in Nat
        BY <1>1, <2>3 DEF AreSums
    <2> QED BY <2>1, <2>2, <2>4
<1>3. j \in i..Len(list)
    OBVIOUS
<1>4. D[i] <= D[j]
    BY <1>2, <1>3
<1> QED BY <1>4 DEF D, Deadline

(* The timeout that a new one goes behind.                                  *)
LEMMA LastBefore ==
    ASSUME NEW list \in Seq(Timeouts), NEW msecs \in Nat
    PROVE  LET before == {i \in 0..Len(list) : Deadline(list, i) <= msecs}
               k == CHOOSE i \in before : \A j \in before : j <= i
           IN  /\ k \in 0..Len(list) /\ Deadline(list, k) <= msecs
               /\ k < Len(list) => Deadline(list, k + 1) > msecs
<1> DEFINE before == {i \in 0..Len(list) : Deadline(list, i) <= msecs}
           after == {Len(list) - i : i \in before}
           k == CHOOSE i \in before : \A j \in before : j <= i
<1>1. Len(list) \in Nat /\ \A i \in 0..Len(list) : Deadline(list, i) \in Nat
    BY DeadlinesAre DEF AreSums, Deadline
<1>2. 0 \in before
    BY <1>1, DeadlinesAre DEF AreSums, Deadline
<1>3. before \subseteq 0..Len(list)
    OBVIOUS
<1>4. \E i \in before : \A j \in before : j <= i
    <2> HIDE DEF before
    <2>1. after \in SUBSET Nat /\ after # {}
        BY <1>1, <1>2, <1>3
    <2>2. PICK m \in after : \A n \in after : m <= n
        <3> HIDE DEF after
        <3> QED BY <2>1, LeastNumber
    <2>3. PICK i \in before : m = Len(list) - i
        BY <2>2
    <2>4. ASSUME NEW j \in before PROVE j <= i
        <3>1. m <= Len(list) - j
            BY <2>2
        <3> QED BY <1>1, <1>3, <2>3, <3>1
    <2> QED BY <2>4
<1>5. k \in before /\ \A j \in before : j <= k
    <2> HIDE DEF before
    <2> QED BY <1>4
<1> HIDE DEF k
<1>6. ASSUME k < Len(list) PROVE Deadline(list, k + 1) > msecs
    <2>1. k + 1 \in 0..Len(list) /\ k + 1 \notin before
        BY <1>1, <1>5, <1>6
    <2> QED BY <1>1, <2>1
<1>7. k \in 0..Len(list) /\ Deadline(list, k) <= msecs
    BY <1>5
<1> QED BY <1>6, <1>7 DEF k
-----------------------------------------------------------------------------
(* Lists.                                                                   *)

Has(list, h) == Positions(list, h) # {}

(* Milliseconds until the timeout of h.                                     *)
Due(list, h) == Deadline(list, CHOOSE i \in Positions(list, h) : TRUE)

OnceEach(list) == \A i, j \in 1..Len(list) : list[i].h = list[j].h => i = j
Ticked(list) == \A i \in 0..Len(list) : Deadline(list, i) % portTICK_RATE_MS = 0
IsList(list) == list \in Seq(Timeouts) /\ OnceEach(list) /\ Ticked(list)

LEMMA DueAt ==
    ASSUME NEW list \in Seq(Timeouts), OnceEach(list), NEW i \in 1..Len(list)
    PROVE  Has(list, list[i].h) /\ Due(list, list[i].h) = Deadline(list, i)
<1>1. Positions(list, list[i].h) = {i}
    BY DEF Positions, OnceEach
<1> QED BY <1>1 DEF Due, Has

LEMMA HasAt ==
    ASSUME NEW list \in Seq(Timeouts), NEW h, Has(list, h)
    PROVE  \E i \in 1..Len(list) : list[i].h = h
BY DEF Has, Positions

(* Whole ticks.                                                             *)
LEMMA WholeTicks ==
    ASSUME NEW a \in Nat, NEW b \in Nat, a % portTICK_RATE_MS = 0, b % portTICK_RATE_MS = 0
    PROVE  /\ (a + b) % portTICK_RATE_MS = 0
           /\ b <= a => (a - b) % portTICK_RATE_MS = 0
<1> DEFINE R == portTICK_RATE_MS
<1>1. R \in Nat \ {0}
    BY IntervalsInTicks
<1> HIDE DEF R
<1>2. \A n \in Nat : n % R = 0 => n = R * (n \div R) /\ n \div R \in Nat
    BY <1>1
<1>3. \A n \in Nat, q \in Nat : n = R * q => n % R = 0
    BY <1>1
<1>4. a = R * (a \div R) /\ a \div R \in Nat /\ b = R * (b \div R) /\ b \div R \in Nat
    BY <1>2 DEF R
<1> DEFINE p == a \div R
           q == b \div R
<1>5. p \in Nat /\ q \in Nat /\ a = R * p /\ b = R * q
    BY <1>4
<1> HIDE DEF p, q
<1>6. a + b = R * (p + q) /\ p + q \in Nat
    BY <1>1, <1>5
<1>7. ASSUME b <= a PROVE (a - b) % R = 0
    <2>1. a - b = R * (p - q)
        BY <1>1, <1>5
    <2>2. q <= p
        <3>1. ASSUME p < q PROVE FALSE
            <4>1. p + 1 <= q
                BY <1>5, <3>1
            <4>2. R * (p + 1) <= R * q
                BY <1>1, <1>5, <4>1
            <4> QED BY <1>1, <1>5, <1>7, <4>2
        <3> QED BY <1>5, <3>1
    <2> QED BY <1>1, <1>3, <1>5, <1>7, <2>1, <2>2
<1>8. (a + b) % R = 0
    BY <1>3, <1>6
<1> QED BY <1>7, <1>8 DEF R

(* The pool has a timeout for every handler that has none in the list.      *)
LEMMA RoomFor ==
    ASSUME NEW list \in Seq(Timeouts), OnceEach(list), NEW h \in Handlers, ~Has(list, h)
    PROVE  Len(list) < NumSysTimeout
<1> DEFINE Others == Handlers \ {h}
           f == [i \in 1..Len(list) |-> list[i].h]
<1>1. IsFiniteSet(Handlers)
    <2>1. IsFiniteSet(Periodic \cup {Tcp})
        BY PoolSuffices, FS_AddElement
    <2>2. IsFiniteSet((Periodic \cup {Tcp}) \cup {App})
        BY <2>1, FS_AddElement
    <2>3. Handlers = (Periodic \cup {Tcp}) \cup {App}
        BY DEF Handlers
    <2> QED BY <2>2, <2>3
<1>2. IsFiniteSet(Others) /\ Cardinality(Others) = Cardinality(Handlers) - 1
    BY <1>1, FS_RemoveElement
<1>3. f \in Injection(1..Len(list), Others)
    <2>1. \A i \in 1..Len(list) : list[i].h \in Others
        BY ListElements DEF Has, Positions
    <2>2. f \in [1..Len(list) -> Others]
        BY <2>1
    <2>3. \A i, j \in 1..Len(list) : f[i] = f[j] => i = j
        BY DEF OnceEach
    <2> HIDE DEF f, Others
    <2>4. IsInjective(f)
        BY <2>2, <2>3 DEF IsInjective
    <2> QED BY <2>2, <2>4 DEF Injection
<1>4. Cardinality(1..Len(list)) <= Cardinality(Others)
    <2> HIDE DEF f, Others
    <2> QED BY <1>2, <1>3, FS_Injection DEF ExistsInjection
<1>5. Cardinality(1..Len(list)) = Len(list) /\ Len(list) \in Nat
    BY FS_Interval
<1>6. Cardinality(Handlers) \in Nat
    BY <1>1, FS_CardinalityType
<1> HIDE DEF Others
<1> QED BY <1>2, <1>4, <1>5, <1>6, PoolSuffices

(* sys_timeout puts in one timeout and leaves the others their time.        *)
LEMMA TimeoutIn ==
    ASSUME NEW list, IsList(list), NEW msecs \in Nat, msecs % portTICK_RATE_MS = 0,
           NEW h \in Handlers, ~Has(list, h)
    PROVE  LET r == sys_timeout(list, msecs, h)
           IN  /\ IsList(r) /\ Len(r) = Len(list) + 1 /\ Len(list) < NumSysTimeout
               /\ Has(r, h) /\ Due(r, h) = msecs
               /\ \A u \in Handlers \ {h} : Has(r, u) <=> Has(list, u)
               /\ \A u \in Handlers : Has(list, u) => Due(r, u) = Due(list, u)
<1> DEFINE before == {i \in 0..Len(list) : Deadline(list, i) <= msecs}
           k == CHOOSE i \in before : \A j \in before : j <= i
           time == msecs - Deadline(list, k)
           r == [i \in 1..(Len(list) + 1) |->
                    IF i <= k THEN list[i]
                    ELSE IF i = k + 1 THEN [h |-> h, time |-> time]
                    ELSE IF i = k + 2 THEN [list[k + 1] EXCEPT !.time = @ - time]
                    ELSE list[i - 1]]
           E == [i \in 0..(Len(list) + 1) |-> IF i <= k THEN Deadline(list, i)
                                              ELSE IF i = k + 1 THEN msecs
                                              ELSE Deadline(list, i - 1)]
<1>1. list \in Seq(Timeouts) /\ OnceEach(list) /\ Ticked(list) /\ Len(list) < NumSysTimeout
    BY RoomFor DEF IsList
<1>2. sys_timeout(list, msecs, h) = r
    <2>1. ~PoolEmpty(list)
        BY <1>1, ListElements, PoolSuffices DEF PoolEmpty
    <2> QED BY <2>1 DEF sys_timeout
<1>3. /\ k \in 0..Len(list) /\ Deadline(list, k) <= msecs
      /\ k < Len(list) => Deadline(list, k + 1) > msecs
    BY <1>1, LastBefore
<1> HIDE DEF k
<1>4. /\ Len(list) \in Nat /\ \A i \in 0..Len(list) : Deadline(list, i) \in Nat
      /\ Deadline(list, 0) = 0
      /\ \A i \in 1..Len(list) : Deadline(list, i) = Deadline(list, i - 1) + list[i].time
    BY <1>1, DeadlinesAre DEF AreSums, Deadline
<1>5. \A i \in 1..Len(list) : list[i] \in Timeouts /\ list[i].h \in Handlers /\ list[i].time \in Nat
    BY <1>1, ListElements
<1>6. time \in Nat
    BY <1>3, <1>4
<1>7. k < Len(list) => list[k + 1].time - time \in Nat
    BY <1>3, <1>4, <1>5
<1>8. /\ \A i \in 1..(Len(list) + 1) : i <= k => r[i] = list[i]
      /\ r[k + 1] = [h |-> h, time |-> time]
      /\ k < Len(list) => r[k + 2] = [h |-> list[k + 1].h, time |-> list[k + 1].time - time]
      /\ \A i \in 1..(Len(list) + 1) : i > k + 2 => r[i] = list[i - 1]
    <2>1. k < Len(list) => [list[k + 1] EXCEPT !.time = @ - time]
                               = [h |-> list[k + 1].h, time |-> list[k + 1].time - time]
        <3> SUFFICES ASSUME k < Len(list)
                     PROVE  [list[k + 1] EXCEPT !.time = @ - time]
                               = [h |-> list[k + 1].h, time |-> list[k + 1].time - time]
            OBVIOUS
        <3>1. list[k + 1] = [h |-> list[k + 1].h, time |-> list[k + 1].time]
            BY <1>1, <1>3, <1>4, ListElements
        <3> HIDE DEF time
        <3> QED BY <3>1
    <2> QED BY <1>3, <1>4, <2>1
<1>9. \A i \in 1..(Len(list) + 1) : /\ r[i] \in Timeouts
                                    /\ r[i].h = IF i <= k THEN list[i].h ELSE IF i = k + 1 THEN h
                                                ELSE list[i - 1].h
    <2> TAKE i \in 1..(Len(list) + 1)
    <2> HIDE DEF time, r
    <2>1. CASE i <= k
        BY <1>3, <1>4, <1>5, <1>8, <2>1
    <2>2. CASE i = k + 1
        BY <1>3, <1>4, <1>6, <1>8, <2>2 DEF Timeouts
    <2>3. CASE i = k + 2
        BY <1>3, <1>4, <1>5, <1>7, <1>8, <2>3 DEF Timeouts
    <2>4. CASE i > k + 2
        BY <1>3, <1>4, <1>5, <1>8, <2>4
    <2> QED BY <1>3, <1>4, <2>1, <2>2, <2>3, <2>4
<1>10. r \in Seq(Timeouts) /\ Len(r) = Len(list) + 1
    <2>1. r \in [1..(Len(list) + 1) -> Timeouts]
        BY <1>9
    <2>2. Len(list) + 1 \in Nat
        BY <1>4
    <2> HIDE DEF r
    <2> QED BY <2>1, <2>2
<1>11. Deadlines(r) = E
    <2>1. AreSums(E, r)
        <3>1. E \in [0..Len(r) -> Nat] /\ E[0] = 0
            <4>1. \A i \in 0..(Len(list) + 1) : ~(i <= k) /\ i # k + 1 => i - 1 \in 0..Len(list)
                BY <1>3, <1>4
            <4>2. \A i \in 0..(Len(list) + 1) : i <= k => i \in 0..Len(list)
                BY <1>3, <1>4
            <4>3. E \in [0..(Len(list) + 1) -> Nat]
                BY <1>4, <4>1, <4>2
            <4>4. E[0] = 0
                BY <1>3, <1>4
            <4> QED BY <1>10, <4>3, <4>4
        <3>2. ASSUME NEW i \in 1..Len(r) PROVE E[i] = E[i - 1] + r[i].time
            <4>1. CASE i <= k
                BY <1>3, <1>4, <1>8, <1>10, <4>1
            <4>2. CASE i = k + 1
                BY <1>3, <1>4, <1>8, <1>10, <4>2
            <4>3. CASE i = k + 2
                <5>1. k < Len(list) /\ r[i].time = list[k + 1].time - time
                    BY <1>3, <1>4, <1>8, <1>10, <4>3
                <5>2. E[i] = Deadline(list, k + 1) /\ E[i - 1] = msecs
                    BY <1>3, <1>4, <1>10, <4>3
                <5>3. k + 1 \in 1..Len(list) /\ (k + 1) - 1 = k
                    BY <1>3, <1>4, <5>1
                <5>4. Deadline(list, k + 1) = Deadline(list, k) + list[k + 1].time
                    BY <1>4, <5>3
                <5>5. list[k + 1].time \in Nat /\ Deadline(list, k) \in Nat
                    BY <1>3, <1>4, <1>5, <5>3
                <5> QED BY <5>1, <5>2, <5>4, <5>5
            <4>4. CASE i > k + 2
                <5>1. r[i].time = list[i - 1].time
                    BY <1>3, <1>4, <1>8, <1>10, <4>4
                <5>2. E[i] = Deadline(list, i - 1) /\ E[i - 1] = Deadline(list, i - 2)
                    BY <1>3, <1>4, <1>10, <4>4
                <5>3. i - 1 \in 1..Len(list) /\ (i - 1) - 1 = i - 2
                    BY <1>3, <1>4, <1>10, <4>4
                <5> QED BY <1>4, <5>1, <5>2, <5>3
            <4> QED BY <1>3, <1>4, <1>10, <4>1, <4>2, <4>3, <4>4
        <3> HIDE DEF E, r
        <3> QED BY <3>1, <3>2 DEF AreSums
    <2> HIDE DEF E, r
    <2> QED BY <1>10, <2>1, SumsUnique
<1>12. \A i \in 0..(Len(list) + 1) : Deadline(r, i) = IF i <= k THEN Deadline(list, i)
                                                     ELSE IF i = k + 1 THEN msecs
                                                     ELSE Deadline(list, i - 1)
    BY <1>11 DEF Deadline
<1> HIDE DEF E, r, time
<1>13. \A i \in 1..Len(list) : list[i].h # h
    BY DEF Has, Positions
<1>14. OnceEach(r)
    <2> SUFFICES ASSUME NEW i \in 1..(Len(list) + 1), NEW j \in 1..(Len(list) + 1), r[i].h = r[j].h
                 PROVE  i = j
        BY <1>10 DEF OnceEach
    <2> DEFINE old(n) == IF n <= k THEN n ELSE n - 1
    <2>1. \A n \in 1..(Len(list) + 1) : n # k + 1 => old(n) \in 1..Len(list) /\ r[n].h = list[old(n)].h
        BY <1>3, <1>4, <1>9
    <2>2. r[k + 1].h = h /\ k + 1 \in 1..(Len(list) + 1)
        BY <1>3, <1>4, <1>9
    <2>3. CASE i = k + 1 \/ j = k + 1
        <3> HIDE DEF old
        <3> QED BY <1>13, <2>1, <2>2, <2>3
    <2>4. CASE i # k + 1 /\ j # k + 1
        <3>1. old(i) = old(j)
            <4>1. /\ old(i) \in 1..Len(list) /\ old(j) \in 1..Len(list)
                  /\ r[i].h = list[old(i)].h /\ r[j].h = list[old(j)].h
                BY <2>1, <2>4
            <4> HIDE DEF old, r
            <4> QED BY <1>1, <4>1 DEF OnceEach
        <3> QED BY <1>3, <1>4, <2>4, <3>1
    <2> QED BY <2>3, <2>4
<1>15. Ticked(r)
    BY <1>1, <1>3, <1>4, <1>10, <1>12 DEF Ticked
<1>16. Has(r, h) /\ Due(r, h) = msecs
    <2>1. k + 1 \in 1..Len(r) /\ r[k + 1].h = h /\ Deadline(r, k + 1) = msecs
        BY <1>3, <1>4, <1>9, <1>10, <1>12
    <2> QED BY <1>10, <1>14, <2>1, DueAt
<1>17. ASSUME NEW u \in Handlers, Has(list, u) PROVE Has(r, u) /\ Due(r, u) = Due(list, u)
    <2>1. PICK i \in 1..Len(list) : list[i].h = u
        BY <1>1, <1>17, HasAt
    <2> DEFINE n == IF i <= k THEN i ELSE i + 1
    <2>2. n \in 1..Len(r) /\ r[n].h = u /\ Deadline(r, n) = Deadline(list, i)
        BY <1>3, <1>4, <1>9, <1>10, <1>12, <2>1
    <2> HIDE DEF n
    <2> QED BY <1>1, <1>10, <1>14, <2>1, <2>2, DueAt
<1>18. ASSUME NEW u \in Handlers \ {h}, Has(r, u) PROVE Has(list, u)
    <2>1. PICK i \in 1..Len(r) : r[i].h = u
        BY <1>10, <1>18, HasAt
    <2> DEFINE n == IF i <= k THEN i ELSE i - 1
    <2>2. n \in 1..Len(list) /\ list[n].h = u
        BY <1>3, <1>4, <1>9, <1>10, <2>1
    <2> HIDE DEF n
    <2> QED BY <1>1, <2>2, DueAt
<1> QED BY <1>1, <1>2, <1>10, <1>14, <1>15, <1>16, <1>17, <1>18 DEF IsList

(* The times until the timeouts are the sums of the list.                   *)
LEMMA SumsAt ==
    ASSUME NEW list \in Seq(Timeouts)
    PROVE  /\ \A i \in 0..Len(list) : Deadline(list, i) \in Nat
           /\ Deadline(list, 0) = 0
           /\ \A i \in 1..Len(list) : Deadline(list, i) = Deadline(list, i - 1) + list[i].time
BY DeadlinesAre DEF AreSums, Deadline

(* sys_untimeout takes out one timeout and leaves the others their time.    *)
LEMMA TimeoutOut ==
    ASSUME NEW list, IsList(list), NEW h \in Handlers
    PROVE  LET r == sys_untimeout(list, h)
           IN  /\ IsList(r) /\ Len(r) <= Len(list) /\ ~Has(r, h)
               /\ \A u \in Handlers \ {h} : Has(r, u) <=> Has(list, u)
               /\ \A u \in Handlers \ {h} : Has(list, u) => Due(r, u) = Due(list, u)
<1>1. CASE ~Has(list, h)
    <2>1. sys_untimeout(list, h) = list
        BY <1>1 DEF sys_untimeout, Has
    <2>2. Len(list) \in Nat
        BY ListElements DEF IsList
    <2> QED BY <1>1, <2>1, <2>2
<1>2. CASE Has(list, h)
    <2> DEFINE k == CHOOSE i \in Positions(list, h) : \A j \in Positions(list, h) : i <= j
               r == [j \in 1..(Len(list) - 1) |->
                        IF j < k THEN list[j]
                        ELSE IF j = k THEN [list[k + 1] EXCEPT !.time = @ + list[k].time]
                        ELSE list[j + 1]]
               E == [i \in 0..(Len(list) - 1) |-> IF i < k THEN Deadline(list, i)
                                                  ELSE Deadline(list, i + 1)]
    <2>1. list \in Seq(Timeouts) /\ OnceEach(list) /\ Ticked(list)
        BY DEF IsList
    <2>2. sys_untimeout(list, h) = r
        BY <1>2 DEF sys_untimeout, Has
    <2>3. k \in 1..Len(list) /\ list[k].h = h
        <3>1. PICK i \in 1..Len(list) : list[i].h = h
            BY <1>2, <2>1, HasAt
        <3>2. Positions(list, h) = {i}
            BY <2>1, <3>1 DEF OnceEach, Positions
        <3>3. k = i
            BY <3>2
        <3> QED BY <3>1, <3>3
    <2> HIDE DEF k
    <2>4. /\ Len(list) \in Nat /\ \A i \in 0..Len(list) : Deadline(list, i) \in Nat
          /\ Deadline(list, 0) = 0
          /\ \A i \in 1..Len(list) : Deadline(list, i) = Deadline(list, i - 1) + list[i].time
        <3>1. Len(list) \in Nat
            BY <2>1
        <3> QED BY <2>1, <3>1, SumsAt
    <2>5. \A i \in 1..Len(list) : /\ list[i] \in Timeouts /\ list[i].h \in Handlers
                                  /\ list[i].time \in Nat
        BY <2>1, ListElements
    <2>6. /\ \A j \in 1..(Len(list) - 1) : j < k => r[j] = list[j]
          /\ k < Len(list) => r[k] = [h |-> list[k + 1].h, time |-> list[k + 1].time + list[k].time]
          /\ \A j \in 1..(Len(list) - 1) : j > k => r[j] = list[j + 1]
        <3>1. ASSUME k < Len(list)
              PROVE  [list[k + 1] EXCEPT !.time = @ + list[k].time]
                          = [h |-> list[k + 1].h, time |-> list[k + 1].time + list[k].time]
            <4>1. list[k + 1] = [h |-> list[k + 1].h, time |-> list[k + 1].time]
                <5>1. k + 1 \in 1..Len(list)
                    BY <2>3, <2>4, <3>1
                <5> QED BY <2>1, <5>1, ListElements
            <4> QED BY <4>1
        <3> QED BY <2>3, <2>4, <3>1
    <2>7. \A j \in 1..(Len(list) - 1) : /\ r[j] \in Timeouts
                                        /\ r[j].h = IF j < k THEN list[j].h ELSE list[j + 1].h
        <3> TAKE j \in 1..(Len(list) - 1)
        <3> HIDE DEF r
        <3>1. CASE j < k
            BY <2>3, <2>4, <2>5, <2>6, <3>1
        <3>2. CASE j = k
            <4>1. k + 1 \in 1..Len(list) /\ k < Len(list)
                BY <2>3, <2>4, <3>2
            <4>2. list[k + 1].time + list[k].time \in Nat /\ list[k + 1].h \in Handlers
                BY <2>3, <2>5, <4>1
            <4> QED BY <2>6, <3>2, <4>1, <4>2 DEF Timeouts
        <3>3. CASE j > k
            BY <2>3, <2>4, <2>5, <2>6, <3>3
        <3> QED BY <2>3, <2>4, <3>1, <3>2, <3>3
    <2>8. r \in Seq(Timeouts) /\ Len(r) = Len(list) - 1
        <3>1. r \in [1..(Len(list) - 1) -> Timeouts]
            BY <2>7
        <3>2. Len(list) - 1 \in Nat
            BY <2>3, <2>4
        <3> HIDE DEF r
        <3> QED BY <3>1, <3>2
    <2>9. Deadlines(r) = E
        <3>1. AreSums(E, r)
            <4>1. E \in [0..Len(r) -> Nat] /\ E[0] = 0
                <5>1. \A i \in 0..(Len(list) - 1) : i \in 0..Len(list) /\ i + 1 \in 0..Len(list)
                    BY <2>4
                <5>2. E \in [0..(Len(list) - 1) -> Nat]
                    BY <2>4, <5>1
                <5>3. E[0] = 0
                    BY <2>3, <2>4
                <5> QED BY <2>8, <5>2, <5>3
            <4>2. ASSUME NEW i \in 1..Len(r) PROVE E[i] = E[i - 1] + r[i].time
                <5>1. CASE i < k
                    BY <2>3, <2>4, <2>6, <2>8, <5>1
                <5>2. CASE i = k
                    <6>1. k < Len(list) /\ k + 1 \in 1..Len(list) /\ (k + 1) - 1 = k
                        BY <2>3, <2>4, <2>8, <5>2
                    <6>2. /\ Deadline(list, k + 1) = Deadline(list, k) + list[k + 1].time
                          /\ Deadline(list, k) = Deadline(list, k - 1) + list[k].time
                        BY <2>3, <2>4, <6>1
                    <6>3. /\ Deadline(list, k - 1) \in Nat /\ list[k].time \in Nat
                          /\ list[k + 1].time \in Nat
                        BY <2>3, <2>4, <2>5, <6>1
                    <6>4. E[i] = Deadline(list, k + 1) /\ E[i - 1] = Deadline(list, k - 1)
                        BY <2>3, <2>4, <2>8, <5>2
                    <6>5. r[i].time = list[k + 1].time + list[k].time
                        BY <2>6, <5>2, <6>1
                    <6> HIDE DEF E, r
                    <6> QED BY <6>2, <6>3, <6>4, <6>5
                <5>3. CASE i > k
                    <6>1. E[i] = Deadline(list, i + 1) /\ E[i - 1] = Deadline(list, i)
                        BY <2>3, <2>4, <2>8, <5>3
                    <6>2. i + 1 \in 1..Len(list) /\ (i + 1) - 1 = i /\ r[i].time = list[i + 1].time
                        BY <2>3, <2>4, <2>6, <2>8, <5>3
                    <6> QED BY <2>4, <6>1, <6>2
                <5> QED BY <2>3, <2>4, <2>8, <5>1, <5>2, <5>3
            <4> HIDE DEF E, r
            <4> QED BY <4>1, <4>2 DEF AreSums
        <3> HIDE DEF E, r
        <3> QED BY <2>8, <3>1, SumsUnique
    <2>10. \A i \in 0..(Len(list) - 1) : Deadline(r, i) = IF i < k THEN Deadline(list, i)
                                                          ELSE Deadline(list, i + 1)
        BY <2>9 DEF Deadline
    <2> HIDE DEF E, r
    <2> DEFINE old(n) == IF n < k THEN n ELSE n + 1
    <2>11. \A n \in 1..Len(r) : /\ old(n) \in 1..Len(list) /\ old(n) # k /\ r[n].h = list[old(n)].h
                                /\ Deadline(r, n) = Deadline(list, old(n))
        BY <2>3, <2>4, <2>7, <2>8, <2>10
    <2>12. OnceEach(r)
        <3> SUFFICES ASSUME NEW i \in 1..Len(r), NEW j \in 1..Len(r), r[i].h = r[j].h
                     PROVE  i = j
            BY DEF OnceEach
        <3>1. old(i) = old(j)
            <4>1. /\ old(i) \in 1..Len(list) /\ old(j) \in 1..Len(list)
                  /\ r[i].h = list[old(i)].h /\ r[j].h = list[old(j)].h
                BY <2>11
            <4> HIDE DEF old
            <4> QED BY <2>1, <4>1 DEF OnceEach
        <3> QED BY <2>3, <2>4, <2>8, <3>1
    <2>13. Ticked(r)
        BY <2>1, <2>3, <2>4, <2>8, <2>10 DEF Ticked
    <2>14. ~Has(r, h)
        <3> SUFFICES ASSUME Has(r, h) PROVE FALSE
            OBVIOUS
        <3>1. PICK n \in 1..Len(r) : r[n].h = h
            BY <2>8, HasAt
        <3> HIDE DEF old
        <3> QED BY <2>1, <2>3, <2>11, <3>1 DEF OnceEach
    <2>15. ASSUME NEW u \in Handlers \ {h}, Has(list, u) PROVE Has(r, u) /\ Due(r, u) = Due(list, u)
        <3>1. PICK i \in 1..Len(list) : list[i].h = u
            BY <2>1, <2>15, HasAt
        <3> DEFINE n == IF i < k THEN i ELSE i - 1
        <3>2. i # k
            BY <2>3, <3>1
        <3>3. n \in 1..Len(r) /\ old(n) = i
            BY <2>3, <2>4, <2>8, <3>2
        <3> HIDE DEF n, old
        <3> QED BY <2>1, <2>8, <2>11, <2>12, <3>1, <3>3, DueAt
    <2>16. ASSUME NEW u \in Handlers \ {h}, Has(r, u) PROVE Has(list, u)
        <3>1. PICK i \in 1..Len(r) : r[i].h = u
            BY <2>8, <2>16, HasAt
        <3> HIDE DEF old
        <3> QED BY <2>1, <2>11, <3>1, DueAt
    <2>17. Len(r) <= Len(list)
        BY <2>4, <2>8
    <2> QED BY <2>2, <2>8, <2>12, <2>13, <2>14, <2>15, <2>16, <2>17 DEF IsList
<1> QED BY <1>1, <1>2

(* The first timeout leaves the list: the others count from there.          *)
LEMMA FirstOut ==
    ASSUME NEW list, IsList(list), list # <<>>
    PROVE  LET r == Tail(list)
           IN  /\ IsList(r) /\ Len(r) <= Len(list) /\ list[1].h \in Handlers /\ ~Has(r, list[1].h)
               /\ Has(list, list[1].h)
               /\ \A u \in Handlers \ {list[1].h} : Has(r, u) <=> Has(list, u)
               /\ \A u \in Handlers : Has(r, u) => Due(r, u) = Due(list, u) - list[1].time
<1> DEFINE r == Tail(list)
           E == [i \in 0..(Len(list) - 1) |-> Deadline(list, i + 1) - list[1].time]
<1>1. list \in Seq(Timeouts) /\ OnceEach(list) /\ Ticked(list)
    BY DEF IsList
<1>2. /\ Len(list) \in Nat /\ \A i \in 0..Len(list) : Deadline(list, i) \in Nat
      /\ Deadline(list, 0) = 0
      /\ \A i \in 1..Len(list) : Deadline(list, i) = Deadline(list, i - 1) + list[i].time
    BY <1>1, SumsAt
<1>3. \A i \in 1..Len(list) : /\ list[i] \in Timeouts /\ list[i].h \in Handlers
                              /\ list[i].time \in Nat
    BY <1>1, ListElements
<1>4. 1 \in 1..Len(list)
    BY <1>1
<1>5. r \in Seq(Timeouts) /\ Len(r) = Len(list) - 1 /\ \A i \in 1..(Len(list) - 1) : r[i] = list[i + 1]
    BY <1>1, <1>4
<1> HIDE DEF r
<1>6. Deadline(list, 1) = list[1].time
    BY <1>2, <1>3, <1>4
<1>7. \A i \in 1..Len(list) : Deadline(list, i) - list[1].time \in Nat
    <2> TAKE i \in 1..Len(list)
    <2>1. 1 \in 0..Len(list) /\ i \in 0..Len(list) /\ 1 <= i
        BY <1>4
    <2>2. Deadline(list, 1) <= Deadline(list, i)
        BY <1>1, <2>1, DeadlinesRise
    <2>3. Deadline(list, i) \in Nat /\ list[1].time \in Nat
        BY <1>2, <1>3, <1>4, <2>1
    <2> QED BY <1>6, <2>2, <2>3
<1>8. Deadlines(r) = E
    <2>1. AreSums(E, r)
        <3>1. E \in [0..Len(r) -> Nat] /\ E[0] = 0
            <4>1. \A i \in 0..(Len(list) - 1) : i + 1 \in 1..Len(list)
                BY <1>2
            <4>2. E \in [0..(Len(list) - 1) -> Nat]
                BY <1>7, <4>1
            <4>3. E[0] = 0
                BY <1>3, <1>4, <1>6
            <4> QED BY <1>5, <4>2, <4>3
        <3>2. ASSUME NEW i \in 1..Len(r) PROVE E[i] = E[i - 1] + r[i].time
            <4>1. E[i] = Deadline(list, i + 1) - list[1].time /\ E[i - 1] = Deadline(list, i) - list[1].time
                BY <1>2, <1>5
            <4>2. i + 1 \in 1..Len(list) /\ (i + 1) - 1 = i /\ i \in 0..Len(list) /\ r[i] = list[i + 1]
                BY <1>2, <1>5
            <4>3. Deadline(list, i) \in Nat /\ list[i + 1].time \in Nat /\ list[1].time \in Nat
                BY <1>2, <1>3, <1>4, <4>2
            <4>4. Deadline(list, i + 1) = Deadline(list, i) + list[i + 1].time
                BY <1>2, <4>2
            <4> HIDE DEF E
            <4> QED BY <4>1, <4>2, <4>3, <4>4
        <3> HIDE DEF E
        <3> QED BY <3>1, <3>2 DEF AreSums
    <2> HIDE DEF E
    <2> QED BY <1>5, <2>1, SumsUnique
<1>9. \A i \in 0..(Len(list) - 1) : Deadline(r, i) = Deadline(list, i + 1) - list[1].time
    BY <1>8 DEF Deadline
<1> HIDE DEF E
<1>10. OnceEach(r)
    <2> SUFFICES ASSUME NEW i \in 1..Len(r), NEW j \in 1..Len(r), r[i].h = r[j].h
                 PROVE  i = j
        BY DEF OnceEach
    <2>1. i + 1 \in 1..Len(list) /\ j + 1 \in 1..Len(list) /\ list[i + 1].h = list[j + 1].h
        BY <1>2, <1>5
    <2>2. i + 1 = j + 1
        BY <1>1, <2>1 DEF OnceEach
    <2> QED BY <2>2
<1>11. Ticked(r)
    <2> SUFFICES ASSUME NEW i \in 0..(Len(list) - 1)
                 PROVE  Deadline(r, i) % portTICK_RATE_MS = 0
        BY <1>5 DEF Ticked
    <2>1. i + 1 \in 0..Len(list) /\ i + 1 \in 1..Len(list) /\ 1 \in 0..Len(list)
        BY <1>2, <1>4
    <2>2. /\ Deadline(list, i + 1) % portTICK_RATE_MS = 0 /\ list[1].time % portTICK_RATE_MS = 0
          /\ Deadline(list, i + 1) \in Nat /\ list[1].time \in Nat
        BY <1>1, <1>2, <1>3, <1>4, <1>6, <2>1 DEF Ticked
    <2>3. list[1].time <= Deadline(list, i + 1)
        BY <1>7, <2>1, <2>2
    <2> QED BY <1>9, <2>2, <2>3, WholeTicks
<1>12. ~Has(r, list[1].h)
    <2> SUFFICES ASSUME Has(r, list[1].h) PROVE FALSE
        OBVIOUS
    <2>1. PICK n \in 1..Len(r) : r[n].h = list[1].h
        BY <1>5, HasAt
    <2>2. n + 1 \in 1..Len(list) /\ list[n + 1].h = list[1].h /\ n + 1 # 1
        BY <1>2, <1>5, <2>1
    <2> QED BY <1>1, <1>4, <2>2 DEF OnceEach
<1>13. ASSUME NEW u \in Handlers, Has(r, u) PROVE Has(list, u) /\ Due(r, u) = Due(list, u) - list[1].time
    <2>1. PICK i \in 1..Len(r) : r[i].h = u
        BY <1>5, <1>13, HasAt
    <2>2. i + 1 \in 1..Len(list) /\ list[i + 1].h = u /\ i \in 0..(Len(list) - 1)
        BY <1>2, <1>5, <2>1
    <2>3. Has(list, u) /\ Due(list, u) = Deadline(list, i + 1)
        BY <1>1, <2>2, DueAt
    <2>4. Due(r, u) = Deadline(r, i)
        BY <1>5, <1>10, <2>1, DueAt
    <2> QED BY <1>9, <2>2, <2>3, <2>4
<1>14. ASSUME NEW u \in Handlers \ {list[1].h}, Has(list, u) PROVE Has(r, u)
    <2>1. PICK i \in 1..Len(list) : list[i].h = u
        BY <1>1, <1>14, HasAt
    <2>2. i - 1 \in 1..Len(r) /\ r[i - 1].h = u
        <3>1. i # 1
            BY <2>1
        <3>2. i - 1 \in 1..(Len(list) - 1) /\ (i - 1) + 1 = i
            BY <1>2, <3>1
        <3> QED BY <1>5, <2>1, <3>2
    <2> QED BY <1>5, <1>10, <2>2, DueAt
<1>15. Has(list, list[1].h)
    BY <1>1, <1>4, DueAt
<1>16. Len(r) <= Len(list)
    BY <1>2, <1>5
<1> QED BY <1>3, <1>4, <1>5, <1>10, <1>11, <1>12, <1>13, <1>14, <1>15, <1>16 DEF IsList, r

(* The time waited is taken from the first timeout, down to zero.           *)
LEMMA WaitedFor ==
    ASSUME NEW list, IsList(list), list # <<>>, NEW needed \in Nat, needed % portTICK_RATE_MS = 0
    PROVE  LET r == AfterWait(list, needed)
               c == IF needed < list[1].time THEN needed ELSE list[1].time
           IN  /\ IsList(r) /\ Len(r) <= Len(list) /\ r # <<>> /\ c \in Nat
               /\ \A u \in Handlers : Has(r, u) <=> Has(list, u)
               /\ \A u \in Handlers : Has(list, u) => Due(r, u) = Due(list, u) - c
<1> DEFINE c == IF needed < list[1].time THEN needed ELSE list[1].time
           r == AfterWait(list, needed)
           E == [i \in 0..Len(list) |-> IF i = 0 THEN 0 ELSE Deadline(list, i) - c]
<1>1. list \in Seq(Timeouts) /\ OnceEach(list) /\ Ticked(list)
    BY DEF IsList
<1>2. /\ Len(list) \in Nat /\ \A i \in 0..Len(list) : Deadline(list, i) \in Nat
      /\ Deadline(list, 0) = 0
      /\ \A i \in 1..Len(list) : Deadline(list, i) = Deadline(list, i - 1) + list[i].time
    BY <1>1, SumsAt
<1>3. \A i \in 1..Len(list) : /\ list[i] \in Timeouts /\ list[i].h \in Handlers
                              /\ list[i].time \in Nat
    BY <1>1, ListElements
<1>4. 1 \in 1..Len(list)
    BY <1>1
<1>5. Deadline(list, 1) = list[1].time
    BY <1>2, <1>3, <1>4
<1>6. c \in Nat /\ c <= list[1].time /\ c % portTICK_RATE_MS = 0
    <2>1. list[1].time % portTICK_RATE_MS = 0 /\ list[1].time \in Nat
        BY <1>1, <1>2, <1>3, <1>4, <1>5 DEF Ticked
    <2> QED BY <2>1
<1>7. r = [list EXCEPT ![1] = [h |-> list[1].h, time |-> list[1].time - c]]
    <2>1. (IF needed < list[1].time THEN list[1].time - needed ELSE 0) = list[1].time - c
        BY <1>3, <1>4
    <2>2. r = [list EXCEPT ![1].time = IF needed < @ THEN @ - needed ELSE 0]
        BY DEF AfterWait
    <2>3. r = [list EXCEPT ![1] = [list[1] EXCEPT !.time = list[1].time - c]]
        <3> HIDE DEF c, r
        <3> QED BY <1>4, <2>1, <2>2
    <2>4. [list[1] EXCEPT !.time = list[1].time - c] = [h |-> list[1].h, time |-> list[1].time - c]
        <3>1. list[1] = [h |-> list[1].h, time |-> list[1].time]
            BY <1>1, <1>4, ListElements
        <3> HIDE DEF c
        <3> QED BY <3>1
    <2> QED BY <2>3, <2>4
<1> HIDE DEF c, r
<1>8. list[1].time - c \in Nat
    BY <1>3, <1>4, <1>6
<1>9. [h |-> list[1].h, time |-> list[1].time - c] \in Timeouts
    BY <1>3, <1>4, <1>8 DEF Timeouts
<1>10. /\ r \in Seq(Timeouts) /\ Len(r) = Len(list) /\ r # <<>>
       /\ r[1] = [h |-> list[1].h, time |-> list[1].time - c]
       /\ \A i \in 1..Len(list) : i # 1 => r[i] = list[i]
    BY <1>1, <1>4, <1>7, <1>9
<1>11. \A i \in 1..Len(list) : r[i].h = list[i].h
    BY <1>10
<1>12. \A i \in 1..Len(list) : Deadline(list, i) - c \in Nat
    <2> TAKE i \in 1..Len(list)
    <2>1. 1 \in 0..Len(list) /\ i \in 0..Len(list) /\ 1 <= i
        BY <1>4
    <2>2. Deadline(list, 1) <= Deadline(list, i)
        BY <1>1, <2>1, DeadlinesRise
    <2>3. Deadline(list, i) \in Nat /\ list[1].time \in Nat
        BY <1>2, <1>3, <1>4, <2>1
    <2> QED BY <1>5, <1>6, <2>2, <2>3
<1>13. Deadlines(r) = E
    <2>1. AreSums(E, r)
        <3>1. E \in [0..Len(r) -> Nat] /\ E[0] = 0
            BY <1>2, <1>10, <1>12
        <3>2. ASSUME NEW i \in 1..Len(r) PROVE E[i] = E[i - 1] + r[i].time
            <4>1. CASE i = 1
                BY <1>2, <1>5, <1>8, <1>10, <4>1
            <4>2. CASE i # 1
                <5>1. E[i] = Deadline(list, i) - c /\ E[i - 1] = Deadline(list, i - 1) - c
                    BY <1>2, <1>10, <4>2
                <5>2. i \in 1..Len(list) /\ i - 1 \in 0..Len(list) /\ r[i] = list[i]
                    BY <1>2, <1>10, <4>2
                <5>3. Deadline(list, i - 1) \in Nat /\ list[i].time \in Nat
                    BY <1>2, <1>3, <5>2
                <5>4. Deadline(list, i) = Deadline(list, i - 1) + list[i].time
                    BY <1>2, <5>2
                <5> HIDE DEF E
                <5> QED BY <1>6, <5>1, <5>2, <5>3, <5>4
            <4> QED BY <4>1, <4>2
        <3> HIDE DEF E
        <3> QED BY <3>1, <3>2 DEF AreSums
    <2> HIDE DEF E
    <2> QED BY <1>10, <2>1, SumsUnique
<1>14. \A i \in 1..Len(list) : Deadline(r, i) = Deadline(list, i) - c
    BY <1>13 DEF Deadline
<1>15. Deadline(r, 0) = 0
    BY <1>2, <1>13 DEF Deadline
<1> HIDE DEF E
<1>16. OnceEach(r)
    BY <1>1, <1>10, <1>11 DEF OnceEach
<1>17. Ticked(r)
    <2> SUFFICES ASSUME NEW i \in 0..Len(list) PROVE Deadline(r, i) % portTICK_RATE_MS = 0
        BY <1>10 DEF Ticked
    <2>1. CASE i = 0
        BY <1>1, <1>2, <1>15, <2>1 DEF Ticked
    <2>2. CASE i # 0
        <3>1. i \in 1..Len(list) /\ Deadline(list, i) % portTICK_RATE_MS = 0 /\ Deadline(list, i) \in Nat
            BY <1>1, <1>2, <2>2 DEF Ticked
        <3>2. c <= Deadline(list, i)
            BY <1>6, <1>12, <3>1
        <3> QED BY <1>6, <1>14, <3>1, <3>2, WholeTicks
    <2> QED BY <2>1, <2>2
<1>18. ASSUME NEW u \in Handlers, Has(list, u) PROVE Has(r, u) /\ Due(r, u) = Due(list, u) - c
    <2>1. PICK i \in 1..Len(list) : list[i].h = u
        BY <1>1, <1>18, HasAt
    <2>2. Due(list, u) = Deadline(list, i)
        BY <1>1, <2>1, DueAt
    <2>3. Has(r, u) /\ Due(r, u) = Deadline(r, i)
        BY <1>10, <1>11, <1>16, <2>1, DueAt
    <2> QED BY <1>14, <2>2, <2>3
<1>19. ASSUME NEW u \in Handlers, Has(r, u) PROVE Has(list, u)
    <2>1. PICK i \in 1..Len(list) : list[i].h = u
        BY <1>10, <1>11, <1>19, HasAt
    <2> QED BY <1>1, <2>1, DueAt
<1>20. Len(r) <= Len(list)
    BY <1>2, <1>10
<1> QED BY <1>6, <1>10, <1>16, <1>17, <1>18, <1>19, <1>20 DEF IsList, c, r

-----------------------------------------------------------------------------
(* The invariant.                                                           *)

(* What the wait in progress has counted for the first timeout.             *)
Counted ==
    IF thr.at = "expire" \/ (thr.at = "wait" /\ Elapsed >= next_timeout[1].time)
    THEN next_timeout[1].time
    ELSE IF thr.at = "wait" THEN Elapsed ELSE 0

(* Each handler has one timeout, also that of TCP, and none while it runs;  *)
(* the thread waits for the first one.                                      *)
Placed ==
    /\ IsList(next_timeout)
    /\ thr.at = "wait" /\ next_timeout # <<>> => thr.limit = FetchTicks(next_timeout)
    /\ thr.at = "expire" => next_timeout # <<>>
    /\ thr.at = "handler" => ~Armed(thr.h)
    /\ tcpip_tcp_timer_active <=> Armed(Tcp) \/ Runs(Tcp)
    /\ pcbs => tcpip_tcp_timer_active

(* A timer that was started in the middle of a tick is early by what was    *)
(* over of it: as the clock of the model stands.                            *)
OnTime(h) ==
    /\ age[h] + ToCount(h) + (portTICK_RATE_MS - 1) >= Interval[h] + phase
    /\ age[h] + ToCount(h) <= Interval[h] + lost[h] * portTICK_RATE_MS + phase

TimeoutsInv ==
    /\ TimeoutsTypeOK
    /\ Placed
    /\ \A h \in Handlers : Armed(h) => OnTime(h)

LEMMA Toolbox ==
    ASSUME TimeoutsInv
    PROVE  /\ next_timeout \in Seq(Timeouts) /\ IsList(next_timeout)
           /\ portTICK_RATE_MS \in Nat \ {0} /\ phase \in 0..(portTICK_RATE_MS - 1)
           /\ tcpip_tcp_timer_active \in BOOLEAN /\ pcbs \in BOOLEAN /\ mbox \in 0..MboxSize
           /\ thr \in [at : {"again", "wait", "message", "expire", "handler"},
                       waited : Nat, limit : Nat, h : Handlers]
           /\ thr.at \in {"again", "wait", "message", "expire", "handler"}
           /\ thr.waited \in Nat /\ thr.limit \in Nat /\ thr.h \in Handlers
           /\ age \in [Handlers -> Nat] /\ lost \in [Handlers -> 0..MaxLost] /\ MaxLost \in Nat
           /\ \A h \in Handlers : /\ Interval[h] \in Nat /\ age[h] \in Nat /\ lost[h] \in Nat
                                  /\ Interval[h] % portTICK_RATE_MS = 0
           /\ Elapsed \in Nat /\ Elapsed % portTICK_RATE_MS = 0
<1>1. TimeoutsTypeOK /\ IsList(next_timeout)
    BY DEF TimeoutsInv, Placed
<1>2. portTICK_RATE_MS \in Nat \ {0} /\ MaxLost \in Nat
      /\ \A h \in Handlers : Interval[h] \in Nat /\ Interval[h] % portTICK_RATE_MS = 0
    BY IntervalsInTicks, BoundsAreNumbers
<1>3. thr \in [at : {"again", "wait", "message", "expire", "handler"},
               waited : Nat, limit : Nat, h : Handlers]
    BY <1>1 DEF TimeoutsTypeOK
<1>4. /\ thr.at \in {"again", "wait", "message", "expire", "handler"}
      /\ thr.waited \in Nat /\ thr.limit \in Nat /\ thr.h \in Handlers
    BY <1>3
<1>5. Elapsed \in Nat /\ Elapsed % portTICK_RATE_MS = 0
    <2> DEFINE n == thr.waited
               R == portTICK_RATE_MS
    <2>1. n \in Nat /\ R \in Nat \ {0} /\ Elapsed = n * R
        BY <1>2, <1>4 DEF Elapsed
    <2> HIDE DEF n, R
    <2>2. n * R \in Nat /\ (n * R) % R = 0
        BY <2>1
    <2> QED BY <2>1, <2>2 DEF R
<1>6. age \in [Handlers -> Nat] /\ lost \in [Handlers -> 0..MaxLost]
    BY <1>1 DEF TimeoutsTypeOK
<1>7. \A h \in Handlers : age[h] \in Nat /\ lost[h] \in Nat
    BY <1>2, <1>6
<1>8. /\ tcpip_tcp_timer_active \in BOOLEAN /\ pcbs \in BOOLEAN /\ mbox \in 0..MboxSize
      /\ phase \in 0..(portTICK_RATE_MS - 1)
    BY <1>1, <1>2 DEF TimeoutsTypeOK
<1>9. next_timeout \in Seq(Timeouts)
    BY <1>1 DEF IsList
<1> QED BY <1>1, <1>2, <1>3, <1>4, <1>5, <1>6, <1>7, <1>8, <1>9

LEMMA ToCountIs ==
    \A h \in Handlers : /\ ToCount(h) = Due(next_timeout, h) - Counted
                        /\ Armed(h) <=> Has(next_timeout, h)
BY DEF ToCount, Due, Counted, Armed, Has

LEMMA ToCountThen ==
    (\A h \in Handlers : /\ ToCount(h) = Due(next_timeout, h) - Counted
                         /\ Armed(h) <=> Has(next_timeout, h))'
BY ToCountIs, PTL

(* The first timeout is armed, and what is counted for it a number.         *)
LEMMA Nonempty ==
    ASSUME TimeoutsInv, NEW h \in Handlers, Armed(h)
    PROVE  /\ next_timeout # <<>> /\ next_timeout[1].time \in Nat
           /\ Due(next_timeout, h) \in Nat /\ Counted \in Nat /\ ToCount(h) \in Int
<1>1. Has(next_timeout, h) /\ ToCount(h) = Due(next_timeout, h) - Counted
    BY ToCountIs
<1>2. PICK i \in 1..Len(next_timeout) : next_timeout[i].h = h
    BY <1>1, Toolbox, HasAt
<1>3. next_timeout # <<>> /\ 1 \in 1..Len(next_timeout)
    BY <1>2, Toolbox, ListElements
<1>4. next_timeout[1].time \in Nat
    BY <1>3, Toolbox, ListElements
<1>5. Due(next_timeout, h) = Deadline(next_timeout, i) /\ i \in 0..Len(next_timeout)
    <2>1. next_timeout \in Seq(Timeouts) /\ OnceEach(next_timeout)
        BY Toolbox DEF IsList
    <2> QED BY <1>2, <2>1, DueAt
<1>6. Due(next_timeout, h) \in Nat
    BY <1>5, Toolbox, SumsAt
<1>7. Counted \in Nat
    BY <1>4, Toolbox DEF Counted
<1> QED BY <1>1, <1>3, <1>4, <1>6, <1>7

(* A step that takes no time starts timers and leaves the others theirs.    *)
LEMMA TimelessStep ==
    ASSUME TimeoutsInv, phase' = phase,
           \A u \in Handlers : Armed(u)' =>
               \/ Armed(u) /\ ToCount(u)' = ToCount(u) /\ age'[u] = age[u] /\ lost'[u] = lost[u]
               \/ age'[u] = 0 /\ lost'[u] = 0 /\ ToCount(u)' = Interval[u]
    PROVE  \A u \in Handlers : Armed(u)' => OnTime(u)'
<1> SUFFICES ASSUME NEW u \in Handlers, Armed(u)' PROVE OnTime(u)'
    OBVIOUS
<1>1. CASE Armed(u) /\ ToCount(u)' = ToCount(u) /\ age'[u] = age[u] /\ lost'[u] = lost[u]
    <2>1. OnTime(u)
        BY <1>1 DEF TimeoutsInv
    <2> QED BY <1>1, <2>1 DEF OnTime
<1>2. CASE age'[u] = 0 /\ lost'[u] = 0 /\ ToCount(u)' = Interval[u]
    <2>1. /\ portTICK_RATE_MS \in Nat \ {0} /\ phase \in 0..(portTICK_RATE_MS - 1)
          /\ Interval[u] \in Nat
        BY Toolbox
    <2>2. /\ 0 + Interval[u] + (portTICK_RATE_MS - 1) >= Interval[u] + phase
          /\ 0 + Interval[u] <= Interval[u] + 0 * portTICK_RATE_MS + phase
        BY <2>1
    <2> QED BY <1>2, <2>2 DEF OnTime
<1> QED BY <1>1, <1>2

LEMMA AtIs ==
    ASSUME NEW where \in {"again", "wait", "message", "expire", "handler"}
    PROVE  /\ At(where) \in [at : {"again", "wait", "message", "expire", "handler"},
                             waited : Nat, limit : Nat, h : Handlers]
           /\ At(where).at = where /\ At(where).waited = 0
           /\ \A l \in Nat : LET t == [At(where) EXCEPT !.limit = l]
                             IN  /\ t \in [at : {"again", "wait", "message", "expire", "handler"},
                                           waited : Nat, limit : Nat, h : Handlers]
                                 /\ t.at = where /\ t.waited = 0 /\ t.limit = l
           /\ \A u \in Handlers : LET t == [At(where) EXCEPT !.h = u]
                                  IN  /\ t \in [at : {"again", "wait", "message", "expire", "handler"},
                                                waited : Nat, limit : Nat, h : Handlers]
                                      /\ t.at = where /\ t.h = u
<1>1. App \in Handlers
    BY DEF Handlers
<1> QED BY <1>1 DEF At

(* What keeps the types.                                                    *)
LEMMA TypesThen ==
    ASSUME TimeoutsInv, phase' = phase, IsList(next_timeout)',
           Len(next_timeout') <= NumSysTimeout,
           tcpip_tcp_timer_active' \in BOOLEAN, pcbs' \in BOOLEAN, mbox' \in 0..MboxSize,
           thr' \in [at : {"again", "wait", "message", "expire", "handler"},
                     waited : Nat, limit : Nat, h : Handlers],
           age' \in [Handlers -> Nat], lost' \in [Handlers -> 0..MaxLost]
    PROVE  TimeoutsTypeOK'
<1>1. phase \in 0..portTICK_RATE_MS - 1
    BY DEF TimeoutsInv, TimeoutsTypeOK
<1>2. next_timeout' \in Seq([h : Handlers, time : Nat])
    BY DEF IsList, Timeouts
<1> QED BY <1>1, <1>2 DEF TimeoutsTypeOK

LEMMA PoolHolds == TimeoutsInv => Len(next_timeout) <= NumSysTimeout /\ Len(next_timeout) \in Nat
<1> SUFFICES ASSUME TimeoutsInv PROVE Len(next_timeout) <= NumSysTimeout /\ Len(next_timeout) \in Nat
    OBVIOUS
<1>1. Len(next_timeout) <= NumSysTimeout
    BY DEF TimeoutsInv, TimeoutsTypeOK
<1> QED BY <1>1, Toolbox, ListElements

(* sys_timeouts_mbox_fetch begins to wait, or finds the first timeout due.  *)
LEMMA FetchStep ==
    ASSUME TimeoutsInv, Fetch
    PROVE  TimeoutsInv'
<1>1. /\ thr.at = "again" /\ next_timeout' = next_timeout
      /\ tcpip_tcp_timer_active' = tcpip_tcp_timer_active /\ pcbs' = pcbs /\ mbox' = mbox
      /\ phase' = phase /\ age' = age /\ lost' = lost
    BY DEF Fetch, clock
<1>2. IsList(next_timeout) /\ next_timeout \in Seq(Timeouts) /\ portTICK_RATE_MS \in Nat \ {0}
    BY Toolbox
<1>3. next_timeout # <<>> => 1 \in 1..Len(next_timeout) /\ next_timeout[1].time \in Nat
                             /\ FetchTicks(next_timeout) \in Nat
    <2> SUFFICES ASSUME next_timeout # <<>>
                 PROVE  1 \in 1..Len(next_timeout) /\ next_timeout[1].time \in Nat
                             /\ FetchTicks(next_timeout) \in Nat
        OBVIOUS
    <2>1. 1 \in 1..Len(next_timeout)
        BY <1>2
    <2>2. next_timeout[1].time \in Nat
        BY <1>2, <2>1, ListElements
    <2> QED BY <1>2, <2>1, <2>2 DEF FetchTicks
<1>4. thr' \in [at : {"again", "wait", "message", "expire", "handler"},
                waited : Nat, limit : Nat, h : Handlers]
      /\ \/ thr'.at = "expire" /\ next_timeout # <<>> /\ next_timeout[1].time = 0
         \/ /\ thr'.at = "wait" /\ thr'.waited = 0
            /\ next_timeout # <<>> => next_timeout[1].time # 0 /\ thr'.limit = FetchTicks(next_timeout)
    <2>1. CASE next_timeout # <<>> /\ next_timeout[1].time = 0
        <3>1. thr' = At("expire")
            BY <2>1 DEF Fetch
        <3> QED BY <2>1, <3>1, AtIs
    <2>2. CASE next_timeout # <<>> /\ next_timeout[1].time # 0
        <3>1. thr' = [At("wait") EXCEPT !.limit = FetchTicks(next_timeout)]
            BY <2>2 DEF Fetch
        <3> QED BY <1>3, <2>2, <3>1, AtIs
    <2>3. CASE next_timeout = <<>>
        <3>1. thr' = [At("wait") EXCEPT !.limit = 1]
            BY <2>3 DEF Fetch
        <3> QED BY <2>3, <3>1, AtIs
    <2> QED BY <2>1, <2>2, <2>3
<1>5. TimeoutsTypeOK'
    BY <1>1, <1>2, <1>4, Toolbox, PoolHolds, TypesThen DEF IsList, OnceEach, Ticked
<1>6. Placed'
    BY <1>1, <1>2, <1>4 DEF TimeoutsInv, Placed, Runs, Armed, IsList, OnceEach, Ticked, FetchTicks
<1>7. next_timeout # <<>> => Counted' = 0 /\ Counted = 0
    <2>1. thr'.at = "wait" => Elapsed' = 0
        BY <1>2, <1>4 DEF Elapsed
    <2> QED BY <1>1, <1>3, <1>4, <2>1 DEF Counted
<1>8. \A u \in Handlers : Armed(u)' => Armed(u) /\ ToCount(u)' = ToCount(u)
    <2> SUFFICES ASSUME NEW u \in Handlers, Armed(u)' PROVE Armed(u) /\ ToCount(u)' = ToCount(u)
        OBVIOUS
    <2>1. Armed(u)
        BY <1>1 DEF Armed
    <2>2. Due(next_timeout, u)' = Due(next_timeout, u)
        BY <1>1 DEF Due
    <2> QED BY <1>7, <2>1, <2>2, Nonempty, ToCountIs, ToCountThen
<1>9. \A h \in Handlers : Armed(h)' => OnTime(h)'
    BY <1>1, <1>8, TimelessStep
<1> QED BY <1>5, <1>6, <1>9 DEF TimeoutsInv

(* A message ends the wait: what was waited is taken from the first timeout. *)
LEMMA TakeMessageStep ==
    ASSUME TimeoutsInv, TakeMessage
    PROVE  TimeoutsInv'
<1>1. /\ thr.at = "wait" /\ next_timeout' = AfterWait(next_timeout, Elapsed)
      /\ tcpip_tcp_timer_active' = tcpip_tcp_timer_active /\ pcbs' = pcbs /\ mbox > 0 /\ mbox' = mbox - 1
      /\ phase' = phase /\ age' = age /\ lost' = lost /\ thr' = At("message")
    BY DEF TakeMessage, clock
<1>2. IsList(next_timeout) /\ next_timeout \in Seq(Timeouts) /\ Len(next_timeout) <= NumSysTimeout
    BY Toolbox, PoolHolds
<1>3. thr'.at = "message" /\ thr' \in [at : {"again", "wait", "message", "expire", "handler"},
                                        waited : Nat, limit : Nat, h : Handlers]
    BY <1>1, AtIs
<1>4. Counted' = 0
    BY <1>3 DEF Counted
<1>5. /\ IsList(next_timeout') /\ Len(next_timeout') <= NumSysTimeout
      /\ \A u \in Handlers : Has(next_timeout', u) <=> Has(next_timeout, u)
      /\ \A u \in Handlers : Has(next_timeout, u) =>
             Due(next_timeout', u) = Due(next_timeout, u) - Counted
    <2>1. CASE next_timeout = <<>>
        <3>1. next_timeout' = next_timeout
            BY <1>1, <2>1 DEF AfterWait
        <3>2. \A u \in Handlers : ~Has(next_timeout, u)
            BY <2>1, ToCountIs, Nonempty
        <3> QED BY <1>2, <3>1, <3>2
    <2>2. CASE next_timeout # <<>>
        <3> DEFINE c == IF Elapsed < next_timeout[1].time THEN Elapsed ELSE next_timeout[1].time
        <3>1. Elapsed \in Nat /\ Elapsed % portTICK_RATE_MS = 0
            BY Toolbox
        <3>2. 1 \in 1..Len(next_timeout)
            BY <1>2, <2>2
        <3>3. next_timeout[1].time \in Nat
            BY <1>2, <3>2, ListElements
        <3>4. c = Counted
            BY <1>1, <3>1, <3>3 DEF Counted
        <3>5. /\ IsList(next_timeout') /\ Len(next_timeout') <= Len(next_timeout)
              /\ \A u \in Handlers : Has(next_timeout', u) <=> Has(next_timeout, u)
              /\ \A u \in Handlers : Has(next_timeout, u) => Due(next_timeout', u) = Due(next_timeout, u) - c
            BY <1>1, <1>2, <2>2, <3>1, WaitedFor
        <3> HIDE DEF c
        <3>6. Len(next_timeout') <= NumSysTimeout
            <4>1. Len(next_timeout') \in Nat /\ Len(next_timeout) \in Nat /\ NumSysTimeout \in Nat
                BY <1>2, <3>5, ListElements, PoolSuffices DEF IsList
            <4> QED BY <1>2, <3>5, <4>1
        <3> QED BY <3>4, <3>5, <3>6
    <2> QED BY <2>1, <2>2
<1>6. TimeoutsTypeOK'
    <2>1. mbox' \in 0..MboxSize
        BY <1>1, Toolbox, BoundsAreNumbers
    <2>2. IsList(next_timeout)'
        BY <1>5 DEF IsList, OnceEach, Ticked
    <2> QED BY <1>1, <1>3, <1>5, <2>1, <2>2, Toolbox, TypesThen
<1>7. \A u \in Handlers : Armed(u)' <=> Armed(u)
    BY <1>5, ToCountIs, ToCountThen DEF Has
<1>8. Placed'
    <2>1. Tcp \in Handlers
        BY DEF Handlers
    <2>2. IsList(next_timeout)'
        BY <1>5 DEF IsList, OnceEach, Ticked
    <2>3. tcpip_tcp_timer_active' <=> Armed(Tcp)' \/ Runs(Tcp)'
        BY <1>1, <1>3, <1>7, <2>1 DEF TimeoutsInv, Placed, Runs
    <2> QED BY <1>1, <1>3, <2>2, <2>3 DEF TimeoutsInv, Placed
<1>9. \A u \in Handlers : Armed(u)' => Armed(u) /\ ToCount(u)' = ToCount(u)
    <2> SUFFICES ASSUME NEW u \in Handlers, Armed(u)' PROVE Armed(u) /\ ToCount(u)' = ToCount(u)
        OBVIOUS
    <2>1. Armed(u) /\ Has(next_timeout, u)
        BY <1>7, ToCountIs
    <2>2. ToCount(u)' = Due(next_timeout', u) - Counted'
        BY ToCountThen DEF Due
    <2>3. Due(next_timeout, u) \in Nat /\ Counted \in Nat
        BY <2>1, Nonempty
    <2> QED BY <1>4, <1>5, <2>1, <2>2, <2>3, ToCountIs
<1>10. \A h \in Handlers : Armed(h)' => OnTime(h)'
    BY <1>1, <1>9, TimelessStep
<1> QED BY <1>6, <1>8, <1>10 DEF TimeoutsInv

(* The wait has lasted until the first timeout is due.                      *)
LEMMA WaitTimesOutStep ==
    ASSUME TimeoutsInv, WaitTimesOut
    PROVE  TimeoutsInv'
<1>1. /\ thr.at = "wait" /\ next_timeout # <<>> /\ thr.waited >= thr.limit
      /\ next_timeout' = next_timeout
      /\ tcpip_tcp_timer_active' = tcpip_tcp_timer_active /\ pcbs' = pcbs /\ mbox' = mbox
      /\ phase' = phase /\ age' = age /\ lost' = lost /\ thr' = At("expire")
    BY DEF WaitTimesOut, clock
<1>2. thr'.at = "expire" /\ thr' \in [at : {"again", "wait", "message", "expire", "handler"},
                                       waited : Nat, limit : Nat, h : Handlers]
    BY <1>1, AtIs
<1>3. Elapsed >= next_timeout[1].time
    <2> DEFINE n == next_timeout[1].time
               R == portTICK_RATE_MS
               w == thr.waited
    <2>1. 1 \in 1..Len(next_timeout) /\ 1 \in 0..Len(next_timeout)
        BY <1>1, Toolbox
    <2>2. n \in Nat /\ n = Deadline(next_timeout, 1)
        <3>1. /\ Deadline(next_timeout, 1) = Deadline(next_timeout, 1 - 1) + next_timeout[1].time
              /\ Deadline(next_timeout, 0) = 0
            BY <2>1, Toolbox, SumsAt
        <3>2. n \in Nat
            BY <2>1, Toolbox, ListElements
        <3> QED BY <3>1, <3>2
    <2>3. n % R = 0
        BY <2>1, <2>2, Toolbox DEF IsList, Ticked
    <2>4. R \in Nat \ {0} /\ w \in Nat
        BY Toolbox
    <2>5. w >= n \div R
        BY <1>1 DEF TimeoutsInv, Placed, FetchTicks
    <2> HIDE DEF n, R, w
    <2>6. n = R * (n \div R) /\ n \div R \in Nat
        BY <2>2, <2>3, <2>4
    <2>7. R * w >= R * (n \div R)
        BY <2>4, <2>5, <2>6
    <2>8. w * R >= n
        BY <2>4, <2>6, <2>7
    <2> QED BY <2>8 DEF Elapsed, n, R, w
<1>4. Counted' = Counted
    BY <1>1, <1>2, <1>3 DEF Counted
<1>5. TimeoutsTypeOK'
    BY <1>1, <1>2, Toolbox, PoolHolds, TypesThen DEF IsList, OnceEach, Ticked
<1>6. Placed'
    BY <1>1, <1>2 DEF TimeoutsInv, Placed, Runs, Armed, IsList, OnceEach, Ticked
<1>7. \A u \in Handlers : Armed(u)' => Armed(u) /\ ToCount(u)' = ToCount(u)
    BY <1>1, <1>4, ToCountIs, ToCountThen DEF Due, Armed
<1>8. \A h \in Handlers : Armed(h)' => OnTime(h)'
    BY <1>1, <1>7, TimelessStep
<1> QED BY <1>5, <1>6, <1>8 DEF TimeoutsInv

(* The first timeout leaves the list and its handler begins.                *)
LEMMA ExpireStep ==
    ASSUME TimeoutsInv, Expire
    PROVE  TimeoutsInv'
<1>1. /\ thr.at = "expire" /\ next_timeout' = Tail(next_timeout)
      /\ tcpip_tcp_timer_active' = tcpip_tcp_timer_active /\ pcbs' = pcbs /\ mbox' = mbox
      /\ phase' = phase /\ age' = age /\ lost' = lost
      /\ thr' = [At("handler") EXCEPT !.h = Head(next_timeout).h]
    BY DEF Expire, clock
<1>2. IsList(next_timeout) /\ next_timeout \in Seq(Timeouts) /\ next_timeout # <<>>
    BY <1>1, Toolbox DEF TimeoutsInv, Placed
<1> PICK first \in Handlers : first = next_timeout[1].h
    BY <1>1, <1>2, FirstOut
<1>3. /\ IsList(next_timeout') /\ Len(next_timeout') <= Len(next_timeout)
      /\ ~Has(next_timeout', first) /\ Has(next_timeout, first)
      /\ \A u \in Handlers \ {first} : Has(next_timeout', u) <=> Has(next_timeout, u)
      /\ \A u \in Handlers : Has(next_timeout', u) =>
             Due(next_timeout', u) = Due(next_timeout, u) - next_timeout[1].time
    BY <1>1, <1>2, FirstOut
<1>4. thr'.at = "handler" /\ thr'.h = first
      /\ thr' \in [at : {"again", "wait", "message", "expire", "handler"},
                   waited : Nat, limit : Nat, h : Handlers]
    BY <1>1, <1>2, <1>3, AtIs
<1>5. Counted = next_timeout[1].time /\ Counted' = 0
    BY <1>1, <1>4 DEF Counted
<1>6. IsList(next_timeout)' /\ Len(next_timeout') <= NumSysTimeout
    <2>1. Len(next_timeout') \in Nat /\ NumSysTimeout \in Nat
        BY <1>3, ListElements, PoolSuffices DEF IsList
    <2>2. Len(next_timeout') <= NumSysTimeout
        BY <1>3, <2>1, PoolHolds
    <2> QED BY <1>3, <2>2 DEF IsList, OnceEach, Ticked
<1>7. TimeoutsTypeOK'
    BY <1>1, <1>4, <1>6, Toolbox, TypesThen
<1>8. \A u \in Handlers : Armed(u)' <=> Armed(u) /\ u # first
    BY <1>3, ToCountIs, ToCountThen DEF Has
<1>9. Placed'
    <2>1. Tcp \in Handlers
        BY DEF Handlers
    <2>2. Armed(first)
        BY <1>3, ToCountIs
    <2>3. tcpip_tcp_timer_active' <=> Armed(Tcp)' \/ Runs(Tcp)'
        BY <1>1, <1>4, <1>8, <2>1, <2>2 DEF TimeoutsInv, Placed, Runs
    <2>4. ~Armed(first)'
        BY <1>3, <1>8
    <2>5. thr'.at = "handler" => ~Armed(thr.h)'
        BY <1>4, <2>4 DEF Armed
    <2> QED BY <1>1, <1>4, <1>6, <2>3, <2>5 DEF TimeoutsInv, Placed
<1>10. \A u \in Handlers : Armed(u)' => Armed(u) /\ ToCount(u)' = ToCount(u)
    <2> SUFFICES ASSUME NEW u \in Handlers, Armed(u)' PROVE Armed(u) /\ ToCount(u)' = ToCount(u)
        OBVIOUS
    <2>1. Armed(u) /\ Has(next_timeout, u)
        BY <1>8, ToCountIs
    <2>2. ToCount(u)' = Due(next_timeout', u) - Counted'
        BY ToCountThen DEF Due
    <2>3. Has(next_timeout', u)
        BY ToCountThen DEF Has
    <2>4. Due(next_timeout, u) \in Nat /\ Counted \in Nat
        BY <2>1, Nonempty
    <2> QED BY <1>3, <1>5, <2>1, <2>2, <2>3, <2>4, ToCountIs
<1>11. \A h \in Handlers : Armed(h)' => OnTime(h)'
    BY <1>1, <1>10, TimelessStep
<1> QED BY <1>7, <1>9, <1>11 DEF TimeoutsInv

(* A handler, or a message, starts the timer of h.                          *)
LEMMA Starting ==
    ASSUME TimeoutsInv, NEW h \in Handlers, ~Armed(h), thr.at \in {"handler", "message"},
           thr' = At("again"), next_timeout' = sys_timeout(next_timeout, Interval[h], h),
           StartClock(h), phase' = phase
    PROVE  /\ IsList(next_timeout)' /\ Len(next_timeout') <= NumSysTimeout
           /\ thr'.at = "again"
           /\ thr' \in [at : {"again", "wait", "message", "expire", "handler"},
                        waited : Nat, limit : Nat, h : Handlers]
           /\ age' \in [Handlers -> Nat] /\ lost' \in [Handlers -> 0..MaxLost]
           /\ \A u \in Handlers : Armed(u)' <=> u = h \/ Armed(u)
           /\ \A u \in Handlers : Armed(u)' => OnTime(u)'
<1>1. age' = [age EXCEPT ![h] = 0] /\ lost' = [lost EXCEPT ![h] = 0]
    BY DEF StartClock, Started
<1>2. age' \in [Handlers -> Nat] /\ lost' \in [Handlers -> 0..MaxLost]
    BY <1>1, Toolbox
<1>3. /\ IsList(next_timeout') /\ Len(next_timeout') = Len(next_timeout) + 1
      /\ Len(next_timeout) < NumSysTimeout
      /\ Has(next_timeout', h) /\ Due(next_timeout', h) = Interval[h]
      /\ \A u \in Handlers \ {h} : Has(next_timeout', u) <=> Has(next_timeout, u)
      /\ \A u \in Handlers : Has(next_timeout, u) => Due(next_timeout', u) = Due(next_timeout, u)
    <2>1. IsList(next_timeout) /\ Interval[h] \in Nat /\ Interval[h] % portTICK_RATE_MS = 0
        BY Toolbox
    <2>2. ~Has(next_timeout, h)
        BY ToCountIs
    <2> QED BY <2>1, <2>2, TimeoutIn
<1>4. Len(next_timeout') <= NumSysTimeout
    BY <1>3, PoolHolds, PoolSuffices
<1>5. IsList(next_timeout)'
    BY <1>3 DEF IsList, OnceEach, Ticked
<1>6. thr'.at = "again"
      /\ thr' \in [at : {"again", "wait", "message", "expire", "handler"},
                   waited : Nat, limit : Nat, h : Handlers]
    BY AtIs
<1>7. Counted = 0 /\ Counted' = 0
    BY <1>6 DEF Counted
<1>8. \A u \in Handlers : Armed(u)' <=> u = h \/ Armed(u)
    BY <1>3, ToCountIs, ToCountThen DEF Has
<1>9. ASSUME NEW u \in Handlers, Armed(u)'
      PROVE  \/ Armed(u) /\ ToCount(u)' = ToCount(u) /\ age'[u] = age[u] /\ lost'[u] = lost[u]
             \/ age'[u] = 0 /\ lost'[u] = 0 /\ ToCount(u)' = Interval[u]
    <2>1. ToCount(u)' = Due(next_timeout', u) - Counted'
        BY ToCountThen DEF Due
    <2>2. CASE u = h
        <3>1. age'[u] = 0 /\ lost'[u] = 0
            BY <1>1, <2>2, Toolbox
        <3> QED BY <1>3, <1>7, <2>1, <2>2, <3>1, Toolbox
    <2>3. CASE u # h
        <3>1. age'[u] = age[u] /\ lost'[u] = lost[u]
            BY <1>1, <2>3, Toolbox
        <3>2. Armed(u) /\ Has(next_timeout, u) /\ ToCount(u) = Due(next_timeout, u) - Counted
            BY <1>8, <1>9, <2>3, ToCountIs
        <3> QED BY <1>3, <1>7, <2>1, <3>1, <3>2
    <2> QED BY <2>2, <2>3
<1>10. \A u \in Handlers : Armed(u)' => OnTime(u)'
    BY <1>9, TimelessStep
<1> QED BY <1>2, <1>4, <1>5, <1>6, <1>8, <1>10

(* A handler, or a message, starts none.                                    *)
LEMMA Resting ==
    ASSUME TimeoutsInv, thr.at \in {"handler", "message"}, thr' = At("again"),
           UNCHANGED next_timeout, KeepClock, phase' = phase
    PROVE  /\ IsList(next_timeout)' /\ Len(next_timeout') <= NumSysTimeout
           /\ thr'.at = "again"
           /\ thr' \in [at : {"again", "wait", "message", "expire", "handler"},
                        waited : Nat, limit : Nat, h : Handlers]
           /\ age' \in [Handlers -> Nat] /\ lost' \in [Handlers -> 0..MaxLost]
           /\ \A u \in Handlers : Armed(u)' <=> Armed(u)
           /\ \A u \in Handlers : Armed(u)' => OnTime(u)'
<1>1. age' = age /\ lost' = lost
    BY DEF KeepClock
<1>2. thr'.at = "again"
      /\ thr' \in [at : {"again", "wait", "message", "expire", "handler"},
                   waited : Nat, limit : Nat, h : Handlers]
    BY AtIs
<1>3. Counted = 0 /\ Counted' = 0
    BY <1>2 DEF Counted
<1>4. \A u \in Handlers : /\ Armed(u)' <=> Armed(u)
                          /\ ToCount(u)' = ToCount(u)
    BY <1>3, ToCountIs, ToCountThen DEF Due, Armed
<1>5. \A u \in Handlers : Armed(u)' => OnTime(u)'
    BY <1>1, <1>4, TimelessStep
<1> QED BY <1>1, <1>2, <1>4, <1>5, Toolbox, PoolHolds DEF IsList, OnceEach, Ticked

(* Both keep the invariant if the flag follows the timer of TCP.            *)
LEMMA BackToWait ==
    ASSUME TimeoutsInv, phase' = phase, mbox' = mbox,
           IsList(next_timeout)', Len(next_timeout') <= NumSysTimeout, thr'.at = "again",
           thr' \in [at : {"again", "wait", "message", "expire", "handler"},
                     waited : Nat, limit : Nat, h : Handlers],
           age' \in [Handlers -> Nat], lost' \in [Handlers -> 0..MaxLost],
           \A u \in Handlers : Armed(u)' => OnTime(u)',
           tcpip_tcp_timer_active' \in BOOLEAN, pcbs' \in BOOLEAN,
           tcpip_tcp_timer_active' <=> Armed(Tcp)', pcbs' => tcpip_tcp_timer_active'
    PROVE  TimeoutsInv'
<1>1. TimeoutsTypeOK'
    BY Toolbox, TypesThen
<1>2. Placed'
    BY DEF Placed, Runs
<1> QED BY <1>1, <1>2 DEF TimeoutsInv

LEMMA PeriodicTimerStep ==
    ASSUME TimeoutsInv, NEW h \in Periodic, PeriodicTimer(h)
    PROVE  TimeoutsInv'
<1>1. /\ thr.at = "handler" /\ thr.h = h /\ h \in Handlers /\ h # Tcp /\ Tcp \in Handlers
      /\ next_timeout' = sys_timeout(next_timeout, Interval[h], h) /\ StartClock(h)
      /\ thr' = At("again") /\ phase' = phase /\ mbox' = mbox
      /\ tcpip_tcp_timer_active' = tcpip_tcp_timer_active /\ pcbs' = pcbs
    BY PoolSuffices DEF PeriodicTimer, Handlers
<1>2. ~Armed(h)
    BY <1>1 DEF TimeoutsInv, Placed
<1>3. tcpip_tcp_timer_active' <=> Armed(Tcp)'
    BY <1>1, <1>2, Starting DEF TimeoutsInv, Placed, Runs
<1>4. pcbs' => tcpip_tcp_timer_active'
    BY <1>1 DEF TimeoutsInv, Placed
<1> QED BY <1>1, <1>2, <1>3, <1>4, Starting, Toolbox, BackToWait

LEMMA TcpTimerStep ==
    ASSUME TimeoutsInv, TcpTimer
    PROVE  TimeoutsInv'
<1>1. /\ thr.at = "handler" /\ thr.h = Tcp /\ Tcp \in Handlers
      /\ thr' = At("again") /\ phase' = phase /\ mbox' = mbox
      /\ pcbs' \in BOOLEAN /\ tcpip_tcp_timer_active' = pcbs'
    BY DEF TcpTimer, Handlers, StaysActive
<1>2. ~Armed(Tcp)
    BY <1>1 DEF TimeoutsInv, Placed
<1>3. CASE pcbs'
    <2>1. next_timeout' = sys_timeout(next_timeout, Interval[Tcp], Tcp) /\ StartClock(Tcp)
        BY <1>3 DEF TcpTimer
    <2>2. tcpip_tcp_timer_active' <=> Armed(Tcp)'
        BY <1>1, <1>2, <1>3, <2>1, Starting
    <2> QED BY <1>1, <1>2, <2>1, <2>2, Starting, BackToWait
<1>4. CASE ~pcbs'
    <2>1. UNCHANGED next_timeout /\ KeepClock
        BY <1>4 DEF TcpTimer
    <2>2. tcpip_tcp_timer_active' <=> Armed(Tcp)'
        BY <1>1, <1>2, <1>4, <2>1, Resting
    <2> QED BY <1>1, <2>1, <2>2, Resting, BackToWait
<1> QED BY <1>3, <1>4

LEMMA AppTimerStep ==
    ASSUME TimeoutsInv, AppTimer
    PROVE  TimeoutsInv'
<1>1. /\ thr.at = "handler" /\ thr.h = App /\ App # Tcp /\ Tcp \in Handlers
      /\ thr' = At("again") /\ phase' = phase /\ mbox' = mbox
      /\ UNCHANGED next_timeout /\ KeepClock
      /\ tcpip_tcp_timer_active' = tcpip_tcp_timer_active /\ pcbs' = pcbs
    BY DEF AppTimer, Handlers, App, Tcp, KeepClock, clock
<1>2. tcpip_tcp_timer_active' <=> Armed(Tcp)'
    BY <1>1, Resting DEF TimeoutsInv, Placed, Runs
<1>3. pcbs' => tcpip_tcp_timer_active'
    BY <1>1 DEF TimeoutsInv, Placed
<1> QED BY <1>1, <1>2, <1>3, Resting, Toolbox, BackToWait

LEMMA OpenPcbStep ==
    ASSUME TimeoutsInv, OpenPcb
    PROVE  TimeoutsInv'
<1>1. /\ thr.at = "message" /\ Tcp \in Handlers
      /\ thr' = At("again") /\ phase' = phase /\ mbox' = mbox /\ pcbs' = TRUE
    BY DEF OpenPcb, Handled, Handlers
<1>2. CASE ~tcpip_tcp_timer_active
    <2>1. /\ next_timeout' = sys_timeout(next_timeout, Interval[Tcp], Tcp) /\ StartClock(Tcp)
          /\ tcpip_tcp_timer_active' = TRUE
        BY <1>2 DEF OpenPcb
    <2>2. ~Armed(Tcp)
        BY <1>2 DEF TimeoutsInv, Placed
    <2>3. tcpip_tcp_timer_active' <=> Armed(Tcp)'
        BY <1>1, <2>1, <2>2, Starting
    <2> QED BY <1>1, <2>1, <2>2, <2>3, Starting, BackToWait
<1>3. CASE tcpip_tcp_timer_active
    <2>1. /\ UNCHANGED next_timeout /\ KeepClock
          /\ tcpip_tcp_timer_active' = tcpip_tcp_timer_active
        BY <1>3 DEF OpenPcb
    <2>2. tcpip_tcp_timer_active' <=> Armed(Tcp)'
        BY <1>1, <2>1, Resting DEF TimeoutsInv, Placed, Runs
    <2> QED BY <1>1, <1>3, <2>1, <2>2, Resting, BackToWait
<1> QED BY <1>2, <1>3

LEMMA ClosePcbsStep ==
    ASSUME TimeoutsInv, ClosePcbs
    PROVE  TimeoutsInv'
<1>1. /\ thr.at = "message" /\ Tcp \in Handlers
      /\ thr' = At("again") /\ phase' = phase /\ mbox' = mbox /\ pcbs' = FALSE
      /\ UNCHANGED next_timeout /\ KeepClock
      /\ tcpip_tcp_timer_active' = tcpip_tcp_timer_active
    BY DEF ClosePcbs, Handled, Handlers
<1>2. tcpip_tcp_timer_active' <=> Armed(Tcp)'
    BY <1>1, Resting DEF TimeoutsInv, Placed, Runs
<1> QED BY <1>1, <1>2, Resting, Toolbox, BackToWait

LEMMA StartAppStep ==
    ASSUME TimeoutsInv, StartApp
    PROVE  TimeoutsInv'
<1>1. /\ thr.at = "message" /\ Tcp \in Handlers /\ App \in Handlers /\ App # Tcp /\ ~Armed(App)
      /\ thr' = At("again") /\ phase' = phase /\ mbox' = mbox
      /\ next_timeout' = sys_timeout(next_timeout, Interval[App], App) /\ StartClock(App)
      /\ tcpip_tcp_timer_active' = tcpip_tcp_timer_active /\ pcbs' = pcbs
    BY DEF StartApp, Handled, Handlers, App, Tcp
<1>2. tcpip_tcp_timer_active' <=> Armed(Tcp)'
    BY <1>1, Starting DEF TimeoutsInv, Placed, Runs
<1>3. pcbs' => tcpip_tcp_timer_active'
    BY <1>1 DEF TimeoutsInv, Placed
<1> QED BY <1>1, <1>2, <1>3, Starting, Toolbox, BackToWait

LEMMA StopAppStep ==
    ASSUME TimeoutsInv, StopApp
    PROVE  TimeoutsInv'
<1>1. /\ thr.at = "message" /\ Tcp \in Handlers /\ App \in Handlers /\ App # Tcp
      /\ thr' = At("again") /\ phase' = phase /\ mbox' = mbox
      /\ next_timeout' = sys_untimeout(next_timeout, App) /\ age' = age /\ lost' = lost
      /\ tcpip_tcp_timer_active' = tcpip_tcp_timer_active /\ pcbs' = pcbs
    BY DEF StopApp, Handled, Handlers, App, Tcp, KeepClock
<1>2. /\ IsList(next_timeout') /\ Len(next_timeout') <= Len(next_timeout) /\ ~Has(next_timeout', App)
      /\ \A u \in Handlers \ {App} : Has(next_timeout', u) <=> Has(next_timeout, u)
      /\ \A u \in Handlers \ {App} : Has(next_timeout, u) => Due(next_timeout', u) = Due(next_timeout, u)
    BY <1>1, Toolbox, TimeoutOut
<1>3. IsList(next_timeout)' /\ Len(next_timeout') <= NumSysTimeout
    <2>1. Len(next_timeout') \in Nat /\ NumSysTimeout \in Nat
        BY <1>2, ListElements, PoolSuffices DEF IsList
    <2>2. Len(next_timeout') <= NumSysTimeout
        BY <1>2, <2>1, PoolHolds
    <2> QED BY <1>2, <2>2 DEF IsList, OnceEach, Ticked
<1>4. thr'.at = "again"
      /\ thr' \in [at : {"again", "wait", "message", "expire", "handler"},
                   waited : Nat, limit : Nat, h : Handlers]
    BY <1>1, AtIs
<1>5. Counted = 0 /\ Counted' = 0
    BY <1>1, <1>4 DEF Counted
<1>6. \A u \in Handlers : Armed(u)' <=> Armed(u) /\ u # App
    BY <1>2, ToCountIs, ToCountThen DEF Has
<1>7. \A u \in Handlers : Armed(u)' => Armed(u) /\ ToCount(u)' = ToCount(u)
    <2> SUFFICES ASSUME NEW u \in Handlers, Armed(u)' PROVE Armed(u) /\ ToCount(u)' = ToCount(u)
        OBVIOUS
    <2>1. Armed(u) /\ u # App /\ Has(next_timeout, u) /\ ToCount(u) = Due(next_timeout, u) - Counted
        BY <1>6, ToCountIs
    <2>2. ToCount(u)' = Due(next_timeout', u) - Counted'
        BY ToCountThen DEF Due
    <2> QED BY <1>2, <1>5, <2>1, <2>2
<1>8. \A h \in Handlers : Armed(h)' => OnTime(h)'
    BY <1>1, <1>7, TimelessStep
<1>9. tcpip_tcp_timer_active' <=> Armed(Tcp)'
    BY <1>1, <1>6 DEF TimeoutsInv, Placed, Runs
<1>10. pcbs' => tcpip_tcp_timer_active'
    BY <1>1 DEF TimeoutsInv, Placed
<1> QED BY <1>1, <1>3, <1>4, <1>8, <1>9, <1>10, Toolbox, BackToWait

LEMMA PostStep ==
    ASSUME TimeoutsInv, Post
    PROVE  TimeoutsInv'
<1>1. /\ next_timeout' = next_timeout /\ thr' = thr
      /\ tcpip_tcp_timer_active' = tcpip_tcp_timer_active /\ pcbs' = pcbs
      /\ mbox < MboxSize /\ mbox' = mbox + 1
      /\ phase' = phase /\ age' = age /\ lost' = lost
    BY DEF Post, clock
<1>2. TimeoutsTypeOK'
    <2>1. mbox' \in 0..MboxSize
        BY <1>1, Toolbox, BoundsAreNumbers
    <2> QED BY <1>1, <2>1, Toolbox, PoolHolds, TypesThen DEF IsList, OnceEach, Ticked
<1>3. Placed'
    BY <1>1 DEF TimeoutsInv, Placed, Runs, Armed, IsList, OnceEach, Ticked
<1>4. \A u \in Handlers : Armed(u)' => Armed(u) /\ ToCount(u)' = ToCount(u)
    <2>1. Counted' = Counted
        BY <1>1 DEF Counted, Elapsed
    <2> QED BY <1>1, <2>1, ToCountIs, ToCountThen DEF Due, Armed
<1>5. \A h \in Handlers : Armed(h)' => OnTime(h)'
    BY <1>1, <1>4, TimelessStep
<1> QED BY <1>2, <1>3, <1>5 DEF TimeoutsInv

(* What a tick adds to the wait: it counts for the first timeout unless     *)
(* that is due already; a thread that sleeps counts it whole.               *)
LEMMA TickCounted ==
    ASSUME TimeoutsInv, next_timeout # <<>>, next_timeout' = next_timeout,
           thr' = IF thr.at = "wait" THEN [thr EXCEPT !.waited = @ + 1] ELSE thr
    PROVE  /\ Counted' \in Nat /\ Counted <= Counted' /\ Counted' <= Counted + portTICK_RATE_MS
           /\ Asleep => Counted' = Counted + portTICK_RATE_MS
<1> DEFINE n == next_timeout[1].time
           R == portTICK_RATE_MS
           w == thr.waited
<1>1. 1 \in 1..Len(next_timeout) /\ 1 \in 0..Len(next_timeout)
    BY Toolbox
<1>2. n \in Nat /\ n % R = 0
    <2>1. /\ Deadline(next_timeout, 1) = Deadline(next_timeout, 1 - 1) + next_timeout[1].time
          /\ Deadline(next_timeout, 0) = 0
        BY <1>1, Toolbox, SumsAt
    <2>2. n \in Nat
        BY <1>1, Toolbox, ListElements
    <2>3. n = Deadline(next_timeout, 1)
        BY <2>1, <2>2
    <2> QED BY <1>1, <2>2, <2>3, Toolbox DEF IsList, Ticked
<1>3. R \in Nat \ {0} /\ w \in Nat
    BY Toolbox
<1>4. CASE thr.at = "wait"
    <2>1. thr'.at = "wait" /\ thr'.waited = w + 1
        BY <1>4, Toolbox
    <2>2. Elapsed = w * R /\ Elapsed' = w * R + R
        <3>1. Elapsed' = (w + 1) * R
            BY <2>1 DEF Elapsed
        <3>2. (w + 1) * R = w * R + R
            <4> HIDE DEF w, R
            <4> QED BY <1>3
        <3> QED BY <3>1, <3>2 DEF Elapsed
    <2>3. /\ Counted = IF w * R >= n THEN n ELSE w * R
          /\ Counted' = IF w * R + R >= n THEN n ELSE w * R + R
        BY <1>4, <2>1, <2>2 DEF Counted
    <2>4. w * R \in Nat
        <3> HIDE DEF w, R
        <3> QED BY <1>3
    <2>5. ASSUME Asleep PROVE w * R + R <= n
        <3>1. w < n \div R
            BY <1>4, <2>5 DEF Asleep, TimeoutsInv, Placed, FetchTicks
        <3> HIDE DEF n, R, w
        <3>2. n = R * (n \div R) /\ n \div R \in Nat
            BY <1>2, <1>3
        <3>3. w + 1 <= n \div R
            BY <1>3, <3>1, <3>2
        <3>4. R * (w + 1) <= R * (n \div R)
            BY <1>3, <3>2, <3>3
        <3>5. R * (w + 1) = w * R + R
            BY <1>3
        <3> QED BY <3>2, <3>4, <3>5
    <2> DEFINE e == w * R
    <2>6. /\ Counted = IF e >= n THEN n ELSE e
          /\ Counted' = IF e + R >= n THEN n ELSE e + R
          /\ e \in Nat /\ (Asleep => e + R <= n)
        BY <2>3, <2>4, <2>5
    <2> HIDE DEF e, n, w
    <2> QED BY <1>2, <1>3, <2>6
<1>5. CASE thr.at # "wait"
    <2>1. Counted' = Counted /\ ~Asleep
        BY <1>5 DEF Counted, Asleep
    <2>2. Counted \in Nat
        BY <1>2, <1>5 DEF Counted
    <2> QED BY <1>3, <2>1, <2>2
<1> QED BY <1>4, <1>5

(* A millisecond passes.                                                    *)
LEMMA MillisecondStep ==
    ASSUME TimeoutsInv, Millisecond
    PROVE  TimeoutsInv'
<1> DEFINE R == portTICK_RATE_MS
           tick == phase = R - 1
<1>1. /\ next_timeout' = next_timeout
      /\ tcpip_tcp_timer_active' = tcpip_tcp_timer_active /\ pcbs' = pcbs /\ mbox' = mbox
      /\ phase' = (phase + 1) % R
      /\ age' = [h \in Handlers |-> IF Armed(h) THEN age[h] + 1 ELSE 0]
      /\ lost' = [h \in Handlers |-> IF Armed(h) /\ tick /\ ~Asleep THEN lost[h] + 1 ELSE lost[h]]
      /\ thr' = IF tick /\ thr.at = "wait" /\ next_timeout # <<>>
                THEN [thr EXCEPT !.waited = @ + 1] ELSE thr
      /\ tick /\ ~Asleep => \A h \in Handlers : Armed(h) => lost[h] < MaxLost
    BY DEF Millisecond
<1>2. R \in Nat \ {0} /\ phase \in 0..(R - 1)
    BY Toolbox
<1>3. /\ tick => phase' = 0
      /\ ~tick => phase' = phase + 1
      /\ phase' \in 0..(R - 1)
    <2> HIDE DEF R
    <2>1. phase = R - 1 => (phase + 1) % R = 0
        <3>1. phase = R - 1 => phase + 1 = R
            BY <1>2
        <3>2. R % R = 0
            BY <1>2
        <3> QED BY <3>1, <3>2
    <2>2. phase # R - 1 => (phase + 1) % R = phase + 1
        BY <1>2
    <2> QED BY <1>1, <1>2, <2>1, <2>2
<1>4. age' \in [Handlers -> Nat]
    <2>1. \A h \in Handlers : (IF Armed(h) THEN age[h] + 1 ELSE 0) \in Nat
        BY Toolbox
    <2> QED BY <1>1, <2>1
<1>5. lost' \in [Handlers -> 0..MaxLost]
    <2>1. \A h \in Handlers : (IF Armed(h) /\ tick /\ ~Asleep THEN lost[h] + 1 ELSE lost[h]) \in 0..MaxLost
        <3> TAKE h \in Handlers
        <3>1. lost[h] \in 0..MaxLost /\ MaxLost \in Nat
            BY Toolbox
        <3>2. Armed(h) /\ tick /\ ~Asleep => lost[h] + 1 \in 0..MaxLost
            BY <1>1, <3>1
        <3> QED BY <3>1, <3>2
    <2> QED BY <1>1, <2>1
<1>6. /\ thr' \in [at : {"again", "wait", "message", "expire", "handler"},
                   waited : Nat, limit : Nat, h : Handlers]
      /\ thr'.at = thr.at /\ thr'.limit = thr.limit /\ thr'.h = thr.h
    <2>1. /\ thr \in [at : {"again", "wait", "message", "expire", "handler"},
                       waited : Nat, limit : Nat, h : Handlers]
          /\ thr.waited + 1 \in Nat
        BY Toolbox
    <2>2. CASE thr' = thr
        BY <2>1, <2>2
    <2>3. CASE thr' = [thr EXCEPT !.waited = @ + 1]
        <3> DEFINE w == thr.waited + 1
        <3>1. thr' = [thr EXCEPT !.waited = w] /\ w \in Nat
            BY <2>1, <2>3
        <3> HIDE DEF w
        <3> QED BY <2>1, <3>1
    <2> QED BY <1>1, <2>2, <2>3
<1>7. TimeoutsTypeOK'
    <2>1. next_timeout' \in Seq([h : Handlers, time : Nat]) /\ Len(next_timeout') <= NumSysTimeout
        BY <1>1, PoolHolds, Toolbox DEF Timeouts
    <2>2. tcpip_tcp_timer_active' \in BOOLEAN /\ pcbs' \in BOOLEAN /\ mbox' \in 0..MboxSize
        BY <1>1, Toolbox
    <2> QED BY <1>3, <1>4, <1>5, <1>6, <2>1, <2>2 DEF TimeoutsTypeOK
<1>8. Placed'
    <2>1. Armed(Tcp)' <=> Armed(Tcp)
        BY <1>1 DEF Armed
    <2>2. Runs(Tcp)' <=> Runs(Tcp)
        BY <1>6 DEF Runs
    <2>3. thr'.at = "handler" => ~Armed(thr.h)'
        BY <1>1, <1>6 DEF TimeoutsInv, Placed, Armed
    <2>4. IsList(next_timeout)'
        BY <1>1, Toolbox DEF IsList, OnceEach, Ticked
    <2> QED BY <1>1, <1>6, <2>1, <2>2, <2>3, <2>4 DEF TimeoutsInv, Placed, FetchTicks
<1>9. ASSUME NEW u \in Handlers, Armed(u)' PROVE OnTime(u)'
    <2>1. Armed(u) /\ next_timeout # <<>>
        <3>1. Armed(u)
            BY <1>1, <1>9 DEF Armed
        <3> QED BY <3>1, Nonempty
    <2>2. /\ age[u] + ToCount(u) + (R - 1) >= Interval[u] + phase
          /\ age[u] + ToCount(u) <= Interval[u] + lost[u] * R + phase
        BY <2>1 DEF TimeoutsInv, OnTime
    <2>3. age'[u] = age[u] + 1
        BY <1>1, <2>1
    <2>4. /\ ToCount(u)' = Due(next_timeout, u) - Counted' /\ ToCount(u) = Due(next_timeout, u) - Counted
          /\ Due(next_timeout, u) \in Nat /\ Counted \in Nat
        BY <1>1, <2>1, ToCountIs, ToCountThen, Nonempty DEF Due
    <2>5. age[u] \in Nat /\ Interval[u] \in Nat /\ lost[u] \in Nat
        BY Toolbox
    <2> DEFINE l == lost[u] * R
    <2>6. l \in Nat
        <3> HIDE DEF R
        <3> QED BY <1>2, <2>5
    <2>7. CASE ~tick
        <3>1. thr' = thr /\ lost'[u] = lost[u] /\ phase' = phase + 1
            BY <1>1, <1>3, <2>7
        <3>2. Counted' = Counted
            BY <1>1, <3>1 DEF Counted, Elapsed
        <3>3. lost'[u] * R = l
            BY <3>1
        <3>4. /\ age'[u] + ToCount(u)' + (R - 1) >= Interval[u] + phase'
              /\ age'[u] + ToCount(u)' <= Interval[u] + l + phase'
            <4> HIDE DEF l, R
            <4> QED BY <1>2, <2>2, <2>3, <2>4, <2>5, <2>6, <3>1, <3>2 DEF l
        <3> QED BY <3>3, <3>4 DEF OnTime
    <2>8. CASE tick /\ Asleep
        <3>1. lost'[u] = lost[u] /\ phase' = 0
            BY <1>1, <1>3, <2>8
        <3>2. thr' = IF thr.at = "wait" THEN [thr EXCEPT !.waited = @ + 1] ELSE thr
            BY <1>1, <2>1, <2>8
        <3>3. Counted' = Counted + R
            BY <1>1, <2>1, <2>8, <3>2, TickCounted
        <3>4. lost'[u] * R = l
            BY <3>1
        <3>5. /\ age'[u] + ToCount(u)' + (R - 1) >= Interval[u] + phase'
              /\ age'[u] + ToCount(u)' <= Interval[u] + l + phase'
            <4> HIDE DEF l, R
            <4> QED BY <1>2, <2>2, <2>3, <2>4, <2>5, <2>6, <2>8, <3>1, <3>3 DEF l
        <3> QED BY <3>4, <3>5 DEF OnTime
    <2>9. CASE tick /\ ~Asleep
        <3>1. lost'[u] = lost[u] + 1 /\ phase' = 0
            BY <1>1, <1>3, <2>1, <2>9
        <3>2. thr' = IF thr.at = "wait" THEN [thr EXCEPT !.waited = @ + 1] ELSE thr
            BY <1>1, <2>1, <2>9
        <3>3. Counted' \in Nat /\ Counted <= Counted' /\ Counted' <= Counted + R
            BY <1>1, <2>1, <3>2, TickCounted
        <3>4. lost'[u] * R = l + R
            <4> HIDE DEF R
            <4>1. (lost[u] + 1) * R = lost[u] * R + R
                BY <1>2, <2>5
            <4> QED BY <3>1, <4>1
        <3>5. /\ age'[u] + ToCount(u)' + (R - 1) >= Interval[u] + phase'
              /\ age'[u] + ToCount(u)' <= Interval[u] + (l + R) + phase'
            <4> HIDE DEF l, R
            <4> QED BY <1>2, <2>2, <2>3, <2>4, <2>5, <2>6, <2>9, <3>1, <3>3 DEF l
        <3> QED BY <3>4, <3>5 DEF OnTime
    <2> QED BY <2>7, <2>8, <2>9
<1> QED BY <1>7, <1>8, <1>9 DEF TimeoutsInv

-----------------------------------------------------------------------------
(* sys_timeouts_init.                                                       *)

(* What the first n periodic timers, in their order, leave in the list.     *)
StartedUpTo(list, order, n) ==
    /\ IsList(list) /\ Len(list) = n /\ n <= NumSysTimeout
    /\ \A u \in Handlers : Has(list, u) <=> \E j \in 1..n : order[j] = u
    /\ \A u \in Handlers : Has(list, u) => Due(list, u) = Interval[u]

LEMMA StartedNone ==
    ASSUME NEW order
    PROVE  StartedUpTo(<<>>, order, 0)
<1>1. <<>> \in Seq(Timeouts) /\ Len(<<>>) = 0 /\ NumSysTimeout \in Nat
    BY PoolSuffices
<1>2. \A i \in 0..0 : Deadline(<<>>, i) = 0
    <2>1. Deadline(<<>>, 0) = 0
        BY <1>1, SumsAt
    <2>2. \A i \in 0..0 : i = 0
        OBVIOUS
    <2> QED BY <2>1, <2>2
<1>3. Ticked(<<>>)
    <2>1. 0 % portTICK_RATE_MS = 0
        BY IntervalsInTicks
    <2> QED BY <1>1, <1>2, <2>1 DEF Ticked
<1>4. OnceEach(<<>>)
    BY DEF OnceEach
<1>5. \A u \in Handlers : ~Has(<<>>, u)
    BY DEF Has, Positions
<1> QED BY <1>1, <1>3, <1>4, <1>5 DEF StartedUpTo, IsList

LEMMA StartedNext ==
    ASSUME NEW order \in Bijection(1..Cardinality(Periodic), Periodic),
           NEW n \in 1..Cardinality(Periodic), NEW list, StartedUpTo(list, order, n - 1)
    PROVE  StartedUpTo(sys_timeout(list, Interval[order[n]], order[n]), order, n)
<1> DEFINE h == order[n]
           r == sys_timeout(list, Interval[h], h)
<1>1. /\ order \in [1..Cardinality(Periodic) -> Periodic]
      /\ \A i, j \in 1..Cardinality(Periodic) : order[i] = order[j] => i = j
    BY DEF Bijection, Injection, Surjection, IsInjective
<1>2. h \in Handlers /\ Interval[h] \in Nat /\ Interval[h] % portTICK_RATE_MS = 0
    BY <1>1, IntervalsInTicks DEF Handlers
<1>3. Cardinality(Periodic) \in Nat /\ n \in Nat
    BY PoolSuffices, FS_CardinalityType
<1>4. \A j \in 1..(n - 1) : order[j] # h
    BY <1>1, <1>3
<1>5. ~Has(list, h)
    BY <1>2, <1>4 DEF StartedUpTo
<1>6. /\ IsList(r) /\ Len(r) = Len(list) + 1 /\ Len(list) < NumSysTimeout
      /\ Has(r, h) /\ Due(r, h) = Interval[h]
      /\ \A u \in Handlers \ {h} : Has(r, u) <=> Has(list, u)
      /\ \A u \in Handlers : Has(list, u) => Due(r, u) = Due(list, u)
    BY <1>2, <1>5, TimeoutIn DEF StartedUpTo
<1>7. Len(r) = n /\ n <= NumSysTimeout
    BY <1>3, <1>6, PoolSuffices DEF StartedUpTo
<1>8. ASSUME NEW u \in Handlers PROVE Has(r, u) <=> \E j \in 1..n : order[j] = u
    <2>1. CASE u = h
        <3>1. n \in 1..n
            BY <1>3
        <3> QED BY <1>6, <2>1, <3>1
    <2>2. CASE u # h
        <3>1. \A j \in 1..n : j \in 1..(n - 1) \/ j = n
            BY <1>3
        <3>2. \A j \in 1..(n - 1) : j \in 1..n
            BY <1>3
        <3>3. Has(list, u) <=> \E j \in 1..(n - 1) : order[j] = u
            BY DEF StartedUpTo
        <3> HIDE DEF r
        <3> QED BY <1>6, <2>2, <3>1, <3>2, <3>3
    <2> QED BY <2>1, <2>2
<1>9. ASSUME NEW u \in Handlers, Has(r, u) PROVE Due(r, u) = Interval[u]
    <2> HIDE DEF r
    <2> QED BY <1>6, <1>9 DEF StartedUpTo
<1> QED BY <1>6, <1>7, <1>8, <1>9 DEF StartedUpTo

(* The lists that sys_timeouts_init goes through: they exist, each with the *)
(* timers that were started so far.                                         *)
AreStarts(f, order, n) ==
    /\ f = [i \in 0..n |-> f[i]] /\ f[0] = <<>>
    /\ \A i \in 1..n : f[i] = sys_timeout(f[i - 1], Interval[order[i]], order[i])

LEMMA StartsExist ==
    ASSUME NEW order, NEW N \in Nat
    PROVE  \E f : AreStarts(f, order, N)
<1> DEFINE Bad == {n \in 0..N : ~\E f : AreStarts(f, order, n)}
<1>1. SUFFICES Bad = {}
    OBVIOUS
<1>2. SUFFICES ASSUME Bad # {} PROVE FALSE
    OBVIOUS
<1>3. PICK n \in Bad : \A m \in Bad : n <= m
    <2>1. Bad \in SUBSET Nat
        OBVIOUS
    <2> HIDE DEF Bad
    <2> QED BY <1>2, <2>1, LeastNumber
<1>4. CASE n = 0
    <2>1. AreStarts([i \in 0..0 |-> <<>>], order, 0)
        BY DEF AreStarts
    <2> QED BY <1>4, <2>1
<1>5. CASE n # 0
    <2>1. n \in 1..N /\ n - 1 \in 0..N /\ n - 1 \notin Bad
        <3>1. n \in 0..N
            OBVIOUS
        <3> HIDE DEF Bad
        <3> QED BY <1>3, <1>5, <3>1
    <2>2. PICK f : AreStarts(f, order, n - 1)
        BY <2>1
    <2> DEFINE last == sys_timeout(f[n - 1], Interval[order[n]], order[n])
               g == [i \in 0..n |-> IF i = n THEN last ELSE f[i]]
    <2>3. g = [i \in 0..n |-> g[i]]
        OBVIOUS
    <2>4. g[0] = <<>>
        BY <2>1, <2>2 DEF AreStarts
    <2>5. ASSUME NEW i \in 1..n PROVE g[i] = sys_timeout(g[i - 1], Interval[order[i]], order[i])
        <3>1. g[i - 1] = f[i - 1]
            BY <2>1
        <3>2. CASE i = n
            BY <2>1, <3>1, <3>2
        <3>3. CASE i # n
            <4>1. i \in 1..(n - 1) /\ g[i] = f[i]
                BY <2>1, <3>3
            <4> QED BY <2>2, <3>1, <4>1 DEF AreStarts
        <3> QED BY <3>2, <3>3
    <2> HIDE DEF g
    <2>6. AreStarts(g, order, n)
        BY <2>3, <2>4, <2>5 DEF AreStarts
    <2> QED BY <2>6
<1> QED BY <1>4, <1>5

LEMMA StartedAll ==
    ASSUME NEW order \in Bijection(1..Cardinality(Periodic), Periodic)
    PROVE  LET list[n \in 0..Cardinality(Periodic)] ==
                   IF n = 0 THEN <<>> ELSE sys_timeout(list[n - 1], Interval[order[n]], order[n])
           IN  StartedUpTo(list[Cardinality(Periodic)], order, Cardinality(Periodic))
<1> DEFINE N == Cardinality(Periodic)
           From(f) == [n \in 0..N |->
                          IF n = 0 THEN <<>> ELSE sys_timeout(f[n - 1], Interval[order[n]], order[n])]
           L == CHOOSE f : f = From(f)
           Bad == {n \in 0..N : ~StartedUpTo(L[n], order, n)}
<1>1. N \in Nat
    BY PoolSuffices, FS_CardinalityType
<1>2. \E f : f = From(f)
    <2>1. PICK f : AreStarts(f, order, N)
        BY <1>1, StartsExist
    <2>2. \A n \in 0..N : f[n] = IF n = 0 THEN <<>>
                                 ELSE sys_timeout(f[n - 1], Interval[order[n]], order[n])
        <3>1. f[0] = <<>>
            BY <2>1 DEF AreStarts
        <3>2. \A n \in 1..N : f[n] = sys_timeout(f[n - 1], Interval[order[n]], order[n])
            BY <2>1 DEF AreStarts
        <3>3. \A n \in 0..N : n = 0 \/ n \in 1..N
            BY <1>1
        <3> HIDE DEF N
        <3> QED BY <3>1, <3>2, <3>3
    <2>3. f = From(f)
        <3>1. f = [i \in 0..N |-> f[i]]
            BY <2>1 DEF AreStarts
        <3> HIDE DEF N
        <3> QED BY <2>2, <3>1
    <2> QED BY <2>3
<1>3. L = From(L)
    <2> HIDE DEF From
    <2> QED BY <1>2
<1> HIDE DEF L
<1>4. L[0] = <<>> /\ \A n \in 1..N : L[n] = sys_timeout(L[n - 1], Interval[order[n]], order[n])
    BY <1>1, <1>3
<1>5. Bad = {}
    <2> SUFFICES ASSUME Bad # {} PROVE FALSE
        OBVIOUS
    <2>1. PICK n \in Bad : \A m \in Bad : n <= m
        <3>1. Bad \in SUBSET Nat
            BY <1>1
        <3> HIDE DEF Bad
        <3> QED BY <3>1, LeastNumber
    <2>2. n # 0
        BY <1>4, <2>1, StartedNone
    <2>3. n \in 1..N /\ n - 1 \in 0..N /\ n - 1 \notin Bad
        BY <1>1, <2>1, <2>2
    <2>4. StartedUpTo(L[n - 1], order, n - 1)
        BY <2>3
    <2>5. StartedUpTo(L[n], order, n)
        BY <1>4, <2>3, <2>4, StartedNext
    <2> QED BY <2>1, <2>5
<1>6. StartedUpTo(L[N], order, N)
    BY <1>1, <1>5
<1> QED BY <1>6 DEF L

LEMMA InitStep == TimeoutsInit => TimeoutsInv
<1> SUFFICES ASSUME TimeoutsInit PROVE TimeoutsInv
    OBVIOUS
<1>1. /\ tcpip_tcp_timer_active = FALSE /\ pcbs = FALSE /\ mbox = 0 /\ thr = At("again")
      /\ phase \in 0..portTICK_RATE_MS - 1
      /\ age = [h \in Handlers |-> 0] /\ lost = [h \in Handlers |-> 0]
    BY DEF TimeoutsInit
<1>2. PICK order \in Bijection(1..Cardinality(Periodic), Periodic) :
          StartedUpTo(next_timeout, order, Cardinality(Periodic))
    BY StartedAll DEF TimeoutsInit
<1>3. \A u \in Handlers : Has(next_timeout, u) => u \in Periodic /\ Due(next_timeout, u) = Interval[u]
    <2>1. \A j \in 1..Cardinality(Periodic) : order[j] \in Periodic
        BY DEF Bijection, Injection
    <2> QED BY <1>2, <2>1 DEF StartedUpTo
<1>4. /\ IsList(next_timeout) /\ Len(next_timeout) <= NumSysTimeout
    BY <1>2 DEF StartedUpTo
<1>5. /\ thr \in [at : {"again", "wait", "message", "expire", "handler"},
                  waited : Nat, limit : Nat, h : Handlers]
      /\ thr.at = "again"
    BY <1>1, AtIs
<1>6. TimeoutsTypeOK
    <2>1. age \in [Handlers -> Nat] /\ lost \in [Handlers -> 0..MaxLost] /\ mbox \in 0..MboxSize
        BY <1>1, BoundsAreNumbers
    <2>2. next_timeout \in Seq([h : Handlers, time : Nat])
        BY <1>4 DEF IsList, Timeouts
    <2> QED BY <1>1, <1>4, <1>5, <2>1, <2>2 DEF TimeoutsTypeOK
<1>7. Placed
    <2>1. ~Armed(Tcp)
        BY <1>3, PoolSuffices, ToCountIs DEF Handlers
    <2> QED BY <1>1, <1>4, <1>5, <2>1 DEF Placed, Runs
<1>8. ASSUME NEW h \in Handlers, Armed(h) PROVE OnTime(h)
    <2>1. ToCount(h) = Interval[h]
        <3>1. Has(next_timeout, h) /\ ToCount(h) = Due(next_timeout, h) - Counted
            BY <1>8, ToCountIs
        <3>2. Counted = 0 /\ Interval[h] \in Nat
            BY <1>5, IntervalsInTicks DEF Counted
        <3> QED BY <1>3, <3>1, <3>2
    <2>2. portTICK_RATE_MS \in Nat \ {0} /\ Interval[h] \in Nat
        BY IntervalsInTicks
    <2>3. age[h] = 0 /\ lost[h] = 0
        BY <1>1
    <2>4. /\ 0 + Interval[h] + (portTICK_RATE_MS - 1) >= Interval[h] + phase
          /\ 0 + Interval[h] <= Interval[h] + 0 * portTICK_RATE_MS + phase
        BY <1>1, <2>2
    <2> QED BY <2>1, <2>3, <2>4 DEF OnTime
<1> QED BY <1>6, <1>7, <1>8 DEF TimeoutsInv

LEMMA SameStep ==
    ASSUME TimeoutsInv, UNCHANGED timeoutVars
    PROVE  TimeoutsInv'
BY DEF timeoutVars, TimeoutsInv, TimeoutsTypeOK, Placed, OnTime, IsList, OnceEach, Ticked,
       Armed, Runs, ToCount, Elapsed

(* The invariant gives the properties: the phase is less than a tick.       *)
LEMMA InvKeeps == TimeoutsInv => TimeoutsKept
<1> SUFFICES ASSUME TimeoutsInv PROVE TimeoutsKept
    OBVIOUS
<1>1. ASSUME NEW h \in Handlers, Armed(h)
      PROVE  /\ age[h] + ToCount(h) + portTICK_RATE_MS - 1 >= Interval[h]
             /\ age[h] + ToCount(h) <= Interval[h] + lost[h] * portTICK_RATE_MS + portTICK_RATE_MS - 1
    <2> DEFINE R == portTICK_RATE_MS
               l == lost[h] * R
    <2>1. /\ age[h] + ToCount(h) + (R - 1) >= Interval[h] + phase
          /\ age[h] + ToCount(h) <= Interval[h] + l + phase
        BY <1>1 DEF TimeoutsInv, OnTime
    <2>2. /\ R \in Nat \ {0} /\ phase \in 0..(R - 1)
          /\ age[h] \in Nat /\ Interval[h] \in Nat /\ lost[h] \in Nat
        BY Toolbox
    <2>3. ToCount(h) \in Int
        BY <1>1, Nonempty
    <2>4. l \in Nat
        <3> HIDE DEF R
        <3> QED BY <2>2
    <2>5. /\ age[h] + ToCount(h) + R - 1 >= Interval[h]
          /\ age[h] + ToCount(h) <= Interval[h] + l + R - 1
        <3> HIDE DEF l, R
        <3> QED BY <2>1, <2>2, <2>3, <2>4
    <2> QED BY <2>5
<1>2. TcpTimerScheduled
    <2> DEFINE P == Positions(next_timeout, Tcp)
    <2>1. Placed /\ OnceEach(next_timeout)
        BY Toolbox DEF TimeoutsInv, IsList
    <2>2. Armed(Tcp) <=> P # {}
        BY DEF Armed
    <2>3. CASE Armed(Tcp)
        <3>1. PICK i \in P : TRUE
            BY <2>2, <2>3
        <3>2. P = {i}
            BY <2>1, <3>1 DEF OnceEach, Positions
        <3>3. Cardinality(P) = 1
            BY <3>2, FS_Singleton
        <3>4. ~(thr.at = "handler" /\ thr.h = Tcp)
            BY <2>1, <2>3 DEF Placed
        <3>5. tcpip_tcp_timer_active
            BY <2>1, <2>3 DEF Placed
        <3> QED BY <2>1, <3>3, <3>4, <3>5 DEF TcpTimerScheduled, Placed
    <2>4. CASE ~Armed(Tcp)
        <3>1. Cardinality(P) = 0
            BY <2>2, <2>4, FS_EmptySet
        <3>2. tcpip_tcp_timer_active <=> thr.at = "handler" /\ thr.h = Tcp
            BY <2>1, <2>4 DEF Placed, Runs
        <3>3. pcbs => tcpip_tcp_timer_active
            BY <2>1 DEF Placed
        <3> QED BY <3>1, <3>2, <3>3 DEF TcpTimerScheduled
    <2> QED BY <2>3, <2>4
<1> QED BY <1>1, <1>2 DEF TimeoutsKept, NotEarly, LateOnlyByLostTicks

(* lwIP's handlers run less than a tick before their time at the earliest,  *)
(* and later by no more than the ticks that their thread missed; the timer  *)
(* of TCP is in the list, once, while there are connections.  For any       *)
(* timers, intervals in whole ticks, length of a tick and size of the       *)
(* mailbox (sys_timeout, sys_untimeout, sys_timeouts_mbox_fetch,            *)
(* tcpip_tcp_timer).                                                        *)
THEOREM TimeoutsAreKept == TimeoutsSpec => []TimeoutsKept
<1>1. TimeoutsInit => TimeoutsInv
    BY InitStep
<1>2. TimeoutsInv /\ [TimeoutsNext]_timeoutVars => TimeoutsInv'
    <2> SUFFICES ASSUME TimeoutsInv, [TimeoutsNext]_timeoutVars PROVE TimeoutsInv'
        OBVIOUS
    <2>1. CASE Fetch
        BY <2>1, FetchStep
    <2>2. CASE TakeMessage
        BY <2>2, TakeMessageStep
    <2>3. CASE WaitTimesOut
        BY <2>3, WaitTimesOutStep
    <2>4. CASE Expire
        BY <2>4, ExpireStep
    <2>5. CASE TcpTimer
        BY <2>5, TcpTimerStep
    <2>6. CASE AppTimer
        BY <2>6, AppTimerStep
    <2>7. CASE \E h \in Periodic : PeriodicTimer(h)
        BY <2>7, PeriodicTimerStep
    <2>8. CASE OpenPcb
        BY <2>8, OpenPcbStep
    <2>9. CASE ClosePcbs
        BY <2>9, ClosePcbsStep
    <2>10. CASE StartApp
        BY <2>10, StartAppStep
    <2>11. CASE StopApp
        BY <2>11, StopAppStep
    <2>12. CASE Post
        BY <2>12, PostStep
    <2>13. CASE Millisecond
        BY <2>13, MillisecondStep
    <2>14. CASE UNCHANGED timeoutVars
        BY <2>14, SameStep
    <2> QED BY <2>1, <2>2, <2>3, <2>4, <2>5, <2>6, <2>7, <2>8, <2>9, <2>10, <2>11, <2>12, <2>13,
               <2>14 DEF TimeoutsNext, Thread, RunHandler, HandleMessage
<1>3. TimeoutsInv => TimeoutsKept
    BY InvKeeps
<1> QED BY <1>1, <1>2, <1>3, PTL DEF TimeoutsSpec
=============================================================================
