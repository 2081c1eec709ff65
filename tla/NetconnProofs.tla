--------------------------- MODULE NetconnProofs ---------------------------
(***************************************************************************)
(* The calls of application threads and tcpip_thread, for any number of    *)
(* threads and connections and any size of mailboxes and writes: a request *)
(* is answered at most once and only to the thread that made it;           *)
(* netconn_write takes every byte once or reports an error; and of threads *)
(* and control blocks neither is left without the other.                   *)
(*                                                                         *)
(* OneAnswer alone is not inductive: an answer is safe only if the request *)
(* it ends is in one place.  NetconnInv adds who uses a connection, where  *)
(* a request can be, and which states of a connection have one parked.  On *)
(* it rest WriteInv and LiveInv, for writes and for who wakes whom.        *)
(***************************************************************************)
EXTENDS Netconn, TLAPS

-----------------------------------------------------------------------------
(* The inductive invariant.                                                *)

Msgs == Conns \cup {NULL, "data", "invalid"}

ConnType ==
    [used : BOOLEAN, state : {"NONE", "WRITE", "LISTEN", "CONNECT", "CLOSE"}, pcb : BOOLEAN,
     recvmbox : Seq(Msgs), acceptmbox : Seq(Msgs), fatal : BOOLEAN,
     current : Threads \cup {NULL}, write_offset : Int, nonblocking : BOOLEAN,
     op_completed : {0, 1}]

PcbType ==
    [state : {"none", "CLOSED", "LISTEN", "SYN_SENT", "ESTABLISHED"}, arg : BOOLEAN, fin : BOOLEAN]

CallNames == {"newconn", "bind", "getaddr", "listen", "delete", "connect", "write", "close",
             "recv", "recvEof", NULL}

ThrType ==
    [pc : {"idle", "call", "accept", "recv"}, c : Conns \cup {NULL}, fn : CallNames, len : Nat,
     how : {"RD", "WR", "RDWR", NULL}, dontblock : BOOLEAN, err : {"OK", "soft", "fatal"},
     queued : Int]

TypeOK ==
    /\ conn \in [Conns -> ConnType] /\ pcb \in [Conns -> PcbType]
    /\ thr \in [Threads -> ThrType] /\ mbox \in Seq(Threads)

(* A connection is used by one thread at a time, and is then allocated.    *)
OneUser ==
    \A t \in Threads :
        /\ thr[t].pc # "idle" <=> thr[t].c # NULL
        /\ thr[t].c # NULL => conn[thr[t].c].used
        /\ \A u \in Threads : thr[t].c # NULL /\ thr[t].c = thr[u].c => t = u

(* A connection that waits in an accept mailbox is allocated, in one       *)
(* mailbox, and no thread uses it.                                         *)
PendingIn(m) == IF Valid(m) THEN ToSet(m) \ {NULL} ELSE {}

PendingUnknown ==
    \A c, d \in Conns : d \in PendingIn(conn[c].acceptmbox) =>
        /\ conn[d].used
        /\ \A b \in Conns : d \in PendingIn(conn[b].acceptmbox) => b = c
        /\ \A t \in Threads : thr[t].c # d

(* A thread has one request queued.                                        *)
QueuedOnce ==
    /\ IsInjective(mbox)
    /\ \A t \in ToSet(mbox) : thr[t].pc = "call"

(* A parked request is that of the thread that uses the connection, is not *)
(* queued and not answered; the states that wait for TCP have one.         *)
InProgress(k) == k.state \in {"WRITE", "CLOSE"} \/ (k.state = "CONNECT" /\ ~k.nonblocking)

ParkedOnce ==
    \A c \in Conns :
        /\ conn[c].current # NULL =>
              /\ thr[conn[c].current].pc = "call" /\ thr[conn[c].current].c = c
              /\ conn[c].current \notin ToSet(mbox) /\ conn[c].op_completed = 0
        /\ InProgress(conn[c]) => conn[c].current # NULL

(* A control block that will call do_connected has its connection waiting, *)
(* also when a call is about to free the connection.                       *)
Connecting(p) == p.state = "SYN_SENT" /\ p.arg

ConnectsInState ==
    /\ \A c \in Conns : Connecting(pcb[c]) => conn[c].state = "CONNECT" /\ conn[c].pcb
    /\ \A t \in Threads : thr[t].pc = "call" =>
         /\ thr[t].fn = "newconn" => pcb[thr[t].c].state \in {"none", "CLOSED"}
         /\ thr[t].fn = "delete" /\ conn[thr[t].c].op_completed = 1 => ~Connecting(pcb[thr[t].c])

NetconnInv ==
    /\ TypeOK /\ OneUser /\ PendingUnknown /\ QueuedOnce /\ ParkedOnce /\ ConnectsInState
    /\ OneAnswer
-----------------------------------------------------------------------------
(* Sequences, as mailboxes use them.                                       *)

LEMMA MailboxElements ==
    ASSUME NEW S, NEW s \in Seq(S) PROVE ToSet(s) \subseteq S
    BY DEF ToSet

LEMMA AppendToMailbox ==
    ASSUME NEW S, NEW s \in Seq(S), NEW e \in S
    PROVE  /\ Append(s, e) \in Seq(S)
           /\ ToSet(Append(s, e)) = ToSet(s) \cup {e}
           /\ (IsInjective(s) /\ e \notin ToSet(s)) => IsInjective(Append(s, e))
<1>1. /\ Append(s, e) \in Seq(S) /\ DOMAIN Append(s, e) = 1..Len(s) + 1
      /\ \A i \in 1..Len(s) : Append(s, e)[i] = s[i]
      /\ Append(s, e)[Len(s) + 1] = e
      /\ DOMAIN s = 1..Len(s) /\ Len(s) \in Nat
    OBVIOUS
<1>2. ToSet(Append(s, e)) = ToSet(s) \cup {e}
    BY <1>1 DEF ToSet
<1>3. (IsInjective(s) /\ e \notin ToSet(s)) => IsInjective(Append(s, e))
    BY <1>1 DEF ToSet, IsInjective
<1> QED BY <1>1, <1>2, <1>3

LEMMA TakeFromMailbox ==
    ASSUME NEW S, NEW s \in Seq(S), s # <<>>
    PROVE  /\ Tail(s) \in Seq(S) /\ Head(s) \in S /\ Head(s) \in ToSet(s)
           /\ ToSet(Tail(s)) \subseteq ToSet(s)
           /\ IsInjective(s) => IsInjective(Tail(s)) /\ Head(s) \notin ToSet(Tail(s))
<1>1. /\ Tail(s) \in Seq(S) /\ DOMAIN Tail(s) = 1..Len(s) - 1
      /\ \A i \in 1..Len(s) - 1 : Tail(s)[i] = s[i + 1]
      /\ Head(s) = s[1] /\ Head(s) \in S
      /\ DOMAIN s = 1..Len(s) /\ Len(s) \in Nat /\ Len(s) # 0
    OBVIOUS
<1>2. Head(s) \in ToSet(s)
    BY <1>1 DEF ToSet
<1>3. ToSet(Tail(s)) \subseteq ToSet(s)
    BY <1>1 DEF ToSet
<1>4. IsInjective(s) => IsInjective(Tail(s)) /\ Head(s) \notin ToSet(Tail(s))
    BY <1>1 DEF ToSet, IsInjective
<1> QED BY <1>1, <1>2, <1>3, <1>4

(* Posting NULL, or taking a message, makes no connection pending.         *)
LEMMA TryPostKeeps ==
    ASSUME NEW m \in Seq(Msgs), NEW size
    PROVE  /\ TryPost(m, NULL, size) \in Seq(Msgs)
           /\ PendingIn(TryPost(m, NULL, size)) \subseteq PendingIn(m)
<1>1. NULL \in Msgs
    BY DEF Msgs
<1>2. Append(m, NULL) \in Seq(Msgs) /\ ToSet(Append(m, NULL)) = ToSet(m) \cup {NULL}
    BY <1>1, AppendToMailbox
<1> QED BY <1>2 DEF TryPost, PendingIn

LEMMA TailKeeps ==
    ASSUME NEW m \in Seq(Msgs), m # <<>>
    PROVE  Tail(m) \in Seq(Msgs) /\ PendingIn(Tail(m)) \subseteq PendingIn(m)
<1>1. Tail(m) \in Seq(Msgs) /\ ToSet(Tail(m)) \subseteq ToSet(m)
    BY TakeFromMailbox
<1>2. CASE Valid(m)
    BY <1>1, <1>2 DEF PendingIn
<1>3. CASE m = <<"invalid">>
    <2>1. ToSet(Tail(m)) = {}
        BY <1>3 DEF ToSet
    <2> QED BY <1>1, <2>1 DEF PendingIn
<1> QED BY <1>2, <1>3 DEF Valid, Invalid

LEMMA MailboxConstants ==
    <<>> \in Seq(Msgs) /\ Invalid \in Seq(Msgs) /\ PendingIn(<<>>) = {} /\ PendingIn(Invalid) = {}
<1>1. Invalid \in Seq(Msgs)
    BY DEF Invalid, Msgs
<1>2. ToSet(<<>>) = {}
    BY DEF ToSet
<1> QED BY <1>1, <1>2 DEF PendingIn, Valid
-----------------------------------------------------------------------------
(* What tcpip_thread leaves of connection c when it serves the request of  *)
(* thread u, or an event on c (u = NULL, or the thread parked at c): it    *)
(* answers u and parks nothing, or answers nobody and parks at most u.     *)
Serves(c, u, r) ==
    /\ r.conn \in ConnType /\ r.pcb \in PcbType /\ r.err \in {"OK", "soft", "fatal"}
    /\ r.conn.used = conn[c].used
    /\ PendingIn(r.conn.acceptmbox) \subseteq PendingIn(conn[c].acceptmbox)
    /\ \/ /\ r.t = NULL /\ r.conn.op_completed = conn[c].op_completed
          /\ r.conn.current \in {conn[c].current, u, NULL}
       \/ r.t = u /\ u # NULL /\ r.conn.op_completed = 1 /\ r.conn.current = NULL
    /\ InProgress(r.conn) => r.conn.current # NULL
    /\ Connecting(r.pcb) => r.conn.state = "CONNECT" /\ r.conn.pcb
    /\ \A t \in Threads : thr[t].pc = "call" /\ thr[t].c = c =>
         /\ thr[t].fn = "newconn" => r.pcb.state \in {"none", "CLOSED"}
         /\ thr[t].fn = "delete" /\ r.conn.op_completed = 1 => ~Connecting(r.pcb)

Requests(c, u) ==
    u = NULL \/ /\ u \in Threads /\ thr[u].pc = "call" /\ thr[u].c = c
                /\ conn[c].op_completed = 0 /\ conn[c].current \in {NULL, u}

(* The step around it: the mailbox of tcpip_thread, the connections        *)
(* drained with c, and the answer stored for the thread.                   *)
Serving(c, u, r, drained) ==
    /\ mbox' \in Seq(Threads) /\ IsInjective(mbox')
    /\ ToSet(mbox') \subseteq ToSet(mbox) /\ u \notin ToSet(mbox')
    /\ drained = {} \/ (drained = PendingIn(conn[c].acceptmbox) /\ PendingIn(r.conn.acceptmbox) = {})
    /\ conn' = [d \in Conns |-> IF d = c THEN r.conn
                                ELSE IF d \in drained THEN FreeConn ELSE conn[d]]
    /\ pcb' = [d \in Conns |-> IF d = c THEN r.pcb
                               ELSE IF d \in drained THEN NoPcb ELSE pcb[d]]
    /\ thr' \in [Threads -> ThrType]
    /\ \A t \in Threads : thr'[t].pc = thr[t].pc /\ thr'[t].c = thr[t].c /\ thr'[t].fn = thr[t].fn

LEMMA FreeTypes == FreeConn \in ConnType /\ NoPcb \in PcbType /\ PendingIn(FreeConn.acceptmbox) = {}
    BY MailboxConstants DEF FreeConn, ConnType, NoPcb, PcbType

LEMMA AllocTypes ==
    /\ netconn_alloc \in ConnType /\ netconn_alloc.used /\ netconn_alloc.current = NULL
    /\ netconn_alloc.op_completed = 0 /\ netconn_alloc.state = "NONE"
    /\ PendingIn(netconn_alloc.acceptmbox) = {}
<1> DEFINE a == [FreeConn EXCEPT !.used = TRUE, !.recvmbox = <<>>]
<1>1. FreeConn \in ConnType /\ <<>> \in Seq(Msgs)
    BY FreeTypes, MailboxConstants
<1>2. /\ a \in ConnType /\ a.used /\ a.current = FreeConn.current
      /\ a.op_completed = FreeConn.op_completed /\ a.state = FreeConn.state
      /\ a.acceptmbox = FreeConn.acceptmbox
    BY <1>1 DEF ConnType
<1>3. /\ FreeConn.current = NULL /\ FreeConn.op_completed = 0 /\ FreeConn.state = "NONE"
      /\ PendingIn(FreeConn.acceptmbox) = {}
    BY FreeTypes DEF FreeConn
<1>4. netconn_alloc = a
    BY DEF netconn_alloc
<1> QED BY <1>2, <1>3, <1>4

LEMMA ServedWell ==
    ASSUME NetconnInv, NEW c \in Conns, NEW u, NEW r, NEW drained,
           Requests(c, u), Serves(c, u, r), Serving(c, u, r, drained)
    PROVE  NetconnInv'
<1> USE NetconnAssumption DEF NetconnInv
<1>1. TypeOK'
    BY FreeTypes DEF TypeOK, Serves, Serving
<1>2. /\ conn'[c] = r.conn /\ pcb'[c] = r.pcb
      /\ \A d \in Conns \ {c} :
           \/ d \notin drained /\ conn'[d] = conn[d] /\ pcb'[d] = pcb[d]
           \/ d \in drained /\ conn'[d] = FreeConn /\ pcb'[d] = NoPcb
    BY DEF Serving
<1>3. /\ \A b \in Conns : PendingIn(conn'[b].acceptmbox) \subseteq PendingIn(conn[b].acceptmbox)
      /\ drained # {} => PendingIn(conn'[c].acceptmbox) = {}
    BY <1>2, FreeTypes DEF Serves, Serving
<1>4. \A t \in Threads : thr[t].c \notin drained
    <2>1. NULL \notin drained
        BY DEF Serving, PendingIn
    <2>2. \A t \in Threads : thr[t].c \in Conns \cup {NULL}
        BY DEF TypeOK, ThrType
    <2> QED BY <2>1, <2>2 DEF Serving, PendingUnknown
<1>5. OneUser'
    BY <1>2, <1>4 DEF OneUser, Serves, Serving, TypeOK, ThrType
<1>6. PendingUnknown'
    <2> SUFFICES ASSUME NEW a \in Conns, NEW d \in Conns, d \in PendingIn(conn'[a].acceptmbox)
                 PROVE  /\ conn'[d].used
                        /\ \A b \in Conns : d \in PendingIn(conn'[b].acceptmbox) => b = a
                        /\ \A t \in Threads : thr'[t].c # d
        BY DEF PendingUnknown, PendingIn
    <2>1. /\ conn[d].used /\ \A b \in Conns : d \in PendingIn(conn[b].acceptmbox) => b = a
          /\ \A t \in Threads : thr[t].c # d
        BY <1>3 DEF PendingUnknown
    <2>2. d \notin drained
        BY <1>3, <2>1 DEF Serving
    <2>3. conn'[d].used
        BY <1>2, <2>1, <2>2 DEF Serves
    <2>4. \A b \in Conns : d \in PendingIn(conn'[b].acceptmbox) => b = a
        BY <1>3, <2>1
    <2>5. \A t \in Threads : thr'[t].c # d
        BY <2>1 DEF Serving
    <2> QED BY <2>3, <2>4, <2>5
<1>7. QueuedOnce'
    <2>1. ToSet(mbox') \subseteq Threads
        BY <1>1, MailboxElements DEF TypeOK
    <2> QED BY <2>1 DEF QueuedOnce, Serving
<1>8. ParkedOnce'
    <2> SUFFICES ASSUME NEW d \in Conns
                 PROVE  /\ conn'[d].current # NULL =>
                             /\ thr'[conn'[d].current].pc = "call" /\ thr'[conn'[d].current].c = d
                             /\ conn'[d].current \notin ToSet(mbox') /\ conn'[d].op_completed = 0
                        /\ InProgress(conn'[d]) => conn'[d].current # NULL
        BY DEF ParkedOnce, InProgress
    <2>1. CASE d = c
        BY <1>1, <1>2, <2>1 DEF ParkedOnce, Serves, Serving, Requests, TypeOK, ConnType
    <2>2. CASE d # c /\ d \in drained
        BY <1>2, <2>2 DEF FreeConn, InProgress
    <2>3. CASE d # c /\ d \notin drained
        <3>1. conn'[d] = conn[d]
            BY <1>2, <2>3
        <3>2. conn[d].current \in Threads \cup {NULL}
            BY DEF TypeOK, ConnType
        <3>3. /\ conn[d].current # NULL =>
                     /\ thr[conn[d].current].pc = "call" /\ thr[conn[d].current].c = d
                     /\ conn[d].current \notin ToSet(mbox) /\ conn[d].op_completed = 0
              /\ InProgress(conn[d]) => conn[d].current # NULL
            BY DEF ParkedOnce
        <3>4. conn[d].current # NULL =>
                     /\ thr'[conn[d].current].pc = "call" /\ thr'[conn[d].current].c = d
                     /\ conn[d].current \notin ToSet(mbox')
            BY <3>2, <3>3 DEF Serving
        <3> QED BY <3>1, <3>3, <3>4
    <2> QED BY <2>1, <2>2, <2>3
<1>9. ConnectsInState'
    <2>1. ASSUME NEW d \in Conns PROVE Connecting(pcb'[d]) => conn'[d].state = "CONNECT" /\ conn'[d].pcb
        BY <1>2 DEF ConnectsInState, Serves, NoPcb, Connecting
    <2>2. ASSUME NEW t \in Threads, thr'[t].pc = "call"
          PROVE  /\ thr'[t].fn = "newconn" => pcb'[thr'[t].c].state \in {"none", "CLOSED"}
                 /\ thr'[t].fn = "delete" /\ conn'[thr'[t].c].op_completed = 1
                        => ~Connecting(pcb'[thr'[t].c])
        <3>1. thr[t].pc = "call" /\ thr[t].c \in Conns /\ thr'[t].c = thr[t].c /\ thr'[t].fn = thr[t].fn
            BY <2>2 DEF Serving, OneUser, TypeOK, ThrType
        <3>2. CASE thr[t].c = c
            BY <1>2, <3>1, <3>2 DEF Serves
        <3>3. CASE thr[t].c # c
            BY <1>2, <1>4, <3>1, <3>3 DEF ConnectsInState
        <3> QED BY <3>2, <3>3
    <2> QED BY <2>1, <2>2 DEF ConnectsInState, Connecting
<1>10. OneAnswer'
    <2> SUFFICES ASSUME NEW d \in Conns, conn'[d].op_completed = 1
                 PROVE  \E t \in Threads : /\ thr'[t].pc = "call" /\ thr'[t].c = d
                                            /\ t \notin ToSet(mbox') /\ conn'[d].current # t
        BY DEF OneAnswer
    <2>1. CASE d = c /\ r.t = u /\ u # NULL /\ r.conn.op_completed = 1 /\ r.conn.current = NULL
        BY <1>2, <2>1 DEF Requests, Serving
    <2>2. CASE d = c /\ r.t = NULL /\ r.conn.op_completed = conn[c].op_completed
                     /\ r.conn.current \in {conn[c].current, u, NULL}
        <3>1. u = NULL /\ conn[c].op_completed = 1 /\ conn'[c].current \in {conn[c].current, NULL}
            BY <1>2, <2>2 DEF Requests
        <3>2. PICK t \in Threads : /\ thr[t].pc = "call" /\ thr[t].c = c
                                   /\ t \notin ToSet(mbox) /\ conn[c].current # t
            BY <3>1 DEF OneAnswer
        <3>3. t \notin ToSet(mbox') /\ thr'[t].pc = thr[t].pc /\ thr'[t].c = thr[t].c
            BY <3>2 DEF Serving
        <3>4. conn'[c].current # t
            BY <3>1, <3>2
        <3> QED BY <2>2, <3>2, <3>3, <3>4
    <2>3. CASE d # c
        <3>1. d \notin drained /\ conn'[d] = conn[d]
            BY <1>2, <2>3 DEF FreeConn
        <3>2. PICK t \in Threads : /\ thr[t].pc = "call" /\ thr[t].c = d
                                   /\ t \notin ToSet(mbox) /\ conn[d].current # t
            BY <3>1 DEF OneAnswer
        <3>3. t \notin ToSet(mbox') /\ thr'[t].pc = thr[t].pc /\ thr'[t].c = thr[t].c
            BY <3>2 DEF Serving
        <3> QED BY <3>1, <3>2, <3>3
    <2> QED BY <2>1, <2>2, <2>3 DEF Serves
<1> QED BY <1>1, <1>5, <1>6, <1>7, <1>8, <1>9, <1>10
-----------------------------------------------------------------------------
(* The three ways tcpip_thread leaves a connection: answered at once, the  *)
(* parked request finished, or (still) parked.                             *)
Keeps(c, k, p) ==
    /\ k \in ConnType /\ p \in PcbType /\ k.used = conn[c].used
    /\ PendingIn(k.acceptmbox) \subseteq PendingIn(conn[c].acceptmbox)
    /\ \A t \in Threads : thr[t].pc = "call" /\ thr[t].c = c /\ thr[t].fn = "newconn"
                            => p.state \in {"none", "CLOSED"}

Errors == {"OK", "soft", "fatal"}

LEMMA OnlyUser ==
    ASSUME NetconnInv, NEW c \in Conns, NEW u \in Threads, thr[u].c = c,
           NEW t \in Threads, thr[t].c = c
    PROVE  t = u
    BY NetconnAssumption DEF NetconnInv, OneUser

LEMMA AckServes ==
    ASSUME NetconnInv, NEW c \in Conns, NEW u \in Threads, Requests(c, u),
           NEW k, NEW p, NEW err \in Errors, Keeps(c, k, p),
           k.current = NULL, ~InProgress(k),
           Connecting(p) => k.state = "CONNECT" /\ k.pcb /\ thr[u].fn # "delete"
    PROVE  Serves(c, u, Ack(k, p, u, err))
<1>1. u # NULL
    BY NetconnAssumption
<1> DEFINE a == [k EXCEPT !.op_completed = 1]
<1>2. /\ a \in ConnType /\ a.used = k.used /\ a.acceptmbox = k.acceptmbox /\ a.current = NULL
      /\ a.op_completed = 1 /\ a.state = k.state /\ a.pcb = k.pcb /\ a.nonblocking = k.nonblocking
    BY DEF Keeps, ConnType
<1>3. Ack(k, p, u, err) = [conn |-> a, pcb |-> p, t |-> u, err |-> err]
    BY DEF Ack, Result
<1>4. \A t \in Threads : thr[t].pc = "call" /\ thr[t].c = c => thr[t].fn = thr[u].fn
    BY <1>1, OnlyUser DEF Requests
<1> HIDE DEF a
<1>5. ~InProgress(a)
    BY <1>2 DEF InProgress
<1> QED BY <1>1, <1>2, <1>3, <1>4, <1>5 DEF Serves, Keeps, Errors, InProgress

LEMMA FinishServes ==
    ASSUME NetconnInv, NEW c \in Conns, NEW u \in Threads, Requests(c, u),
           NEW k, NEW p, NEW err \in Errors, Keeps(c, k, p),
           k.current = u, ~Connecting(p)
    PROVE  Serves(c, u, Finish(k, p, err))
<1> DEFINE e == [k EXCEPT !.current = NULL, !.state = "NONE"]
<1>1. /\ e \in ConnType /\ e.used = k.used /\ e.acceptmbox = k.acceptmbox /\ e.current = NULL
      /\ e.state = "NONE"
    BY DEF Keeps, ConnType
<1>2. Finish(k, p, err) = Ack(e, p, u, err)
    BY DEF Finish
<1> HIDE DEF e
<1>3. Keeps(c, e, p) /\ ~InProgress(e)
    BY <1>1 DEF Keeps, InProgress
<1> QED BY <1>1, <1>2, <1>3, AckServes

LEMMA ParkServes ==
    ASSUME NetconnInv, NEW c \in Conns, NEW u, Requests(c, u), NEW k, NEW p, Keeps(c, k, p),
           k.op_completed = conn[c].op_completed, k.current \in {conn[c].current, u, NULL},
           InProgress(k) => k.current # NULL,
           Connecting(p) => u # NULL /\ k.state = "CONNECT" /\ k.pcb
    PROVE  Serves(c, u, Result(k, p, NULL, "OK"))
    BY DEF Result, Serves, Keeps, Requests

(* The request at the head of the queue, and a parked one.                 *)
LEMMA HeadRequests ==
    ASSUME NetconnInv, mbox # <<>>
    PROVE  LET u == Head(mbox)  c == thr[u].c
           IN /\ u \in Threads /\ c \in Conns /\ Requests(c, u) /\ conn[c].current = NULL
              /\ Tail(mbox) \in Seq(Threads) /\ IsInjective(Tail(mbox))
              /\ ToSet(Tail(mbox)) \subseteq ToSet(mbox) /\ u \notin ToSet(Tail(mbox))
<1> DEFINE u == Head(mbox)
           c == thr[u].c
<1>1. /\ u \in Threads /\ u \in ToSet(mbox)
      /\ Tail(mbox) \in Seq(Threads) /\ IsInjective(Tail(mbox))
      /\ ToSet(Tail(mbox)) \subseteq ToSet(mbox) /\ u \notin ToSet(Tail(mbox))
    BY TakeFromMailbox DEF NetconnInv, TypeOK, QueuedOnce
<1>2. thr[u].pc = "call" /\ c \in Conns
    BY <1>1 DEF NetconnInv, QueuedOnce, OneUser, TypeOK, ThrType
<1>3. conn[c].op_completed # 1
    <2> SUFFICES ASSUME conn[c].op_completed = 1 PROVE FALSE
        OBVIOUS
    <2>1. PICK t \in Threads : thr[t].c = c /\ t \notin ToSet(mbox)
        BY <1>2 DEF NetconnInv, OneAnswer
    <2>2. t = u
        BY <1>1, <1>2, <2>1, OnlyUser
    <2> QED BY <1>1, <2>1, <2>2
<1>4. conn[c].current = NULL
    <2> SUFFICES ASSUME conn[c].current # NULL PROVE FALSE
        OBVIOUS
    <2>1. /\ conn[c].current \in Threads /\ thr[conn[c].current].c = c
          /\ conn[c].current \notin ToSet(mbox)
        BY <1>2 DEF NetconnInv, ParkedOnce, TypeOK, ConnType
    <2>2. conn[c].current = u
        BY <1>1, <1>2, <2>1, OnlyUser
    <2> QED BY <1>1, <2>1, <2>2
<1>5. Requests(c, u)
    BY <1>1, <1>2, <1>3, <1>4 DEF Requests, NetconnInv, TypeOK, ConnType
<1> QED BY <1>1, <1>2, <1>4, <1>5

LEMMA ParkedRequests ==
    ASSUME NetconnInv, NEW c \in Conns, conn[c].current # NULL
    PROVE  LET u == conn[c].current
           IN u \in Threads /\ Requests(c, u) /\ u \notin ToSet(mbox)
    BY DEF NetconnInv, ParkedOnce, Requests, TypeOK, ConnType

(* A connection whose request is served keeps what it has; no control      *)
(* block connects unless the state of its connection says so.              *)
LEMMA KeepsSelf ==
    ASSUME NetconnInv, NEW c \in Conns
    PROVE  /\ Keeps(c, conn[c], pcb[c]) /\ conn[c] \in ConnType /\ pcb[c] \in PcbType
           /\ Connecting(pcb[c]) => conn[c].state = "CONNECT" /\ conn[c].pcb
           /\ InProgress(conn[c]) => conn[c].current # NULL
    BY DEF NetconnInv, Keeps, TypeOK, ConnectsInState, ParkedOnce
-----------------------------------------------------------------------------
(* The functions of tcpip_thread, one lemma each.                          *)

(* An answer that changes nothing else: do_bind, do_getaddr, do_recv, and  *)
(* every request that is refused.                                          *)
LEMMA PlainAck ==
    ASSUME NetconnInv, NEW c \in Conns, NEW u \in Threads, Requests(c, u), conn[c].current = NULL,
           NEW err \in Errors, thr[u].fn = "delete" => ~Connecting(pcb[c])
    PROVE  Serves(c, u, Ack(conn[c], pcb[c], u, err))
    BY KeepsSelf, AckServes

(* The thread of a request is the only one that could be creating c.       *)
LEMMA NoNewconn ==
    ASSUME NetconnInv, NEW c \in Conns, NEW u \in Threads, Requests(c, u), thr[u].fn # "newconn",
           NEW t \in Threads, thr[t].c = c
    PROVE  thr[t].fn # "newconn"
    BY NetconnAssumption, OnlyUser DEF Requests

LEMMA NewconnServes ==
    ASSUME NetconnInv, NEW c \in Conns, NEW u \in Threads, Requests(c, u), conn[c].current = NULL,
           thr[u].fn = "newconn", NEW nomem \in BOOLEAN
    PROVE  Serves(c, u, do_newconn(c, u, nomem))
<1> DEFINE k == [conn[c] EXCEPT !.pcb = TRUE]
           p == [NoPcb EXCEPT !.state = "CLOSED", !.arg = TRUE]
<1>1. CASE nomem
    BY <1>1, PlainAck DEF do_newconn, Errors
<1>2. CASE ~nomem
    <2>1. p \in PcbType /\ p.state = "CLOSED" /\ ~Connecting(p)
        BY DEF NoPcb, PcbType, Connecting
    <2>2. /\ k \in ConnType /\ k.used = conn[c].used /\ k.acceptmbox = conn[c].acceptmbox
          /\ k.state = conn[c].state /\ k.nonblocking = conn[c].nonblocking /\ k.current = NULL
        BY KeepsSelf DEF ConnType
    <2>3. do_newconn(c, u, nomem) = Ack(k, p, u, "OK")
        BY <1>2 DEF do_newconn
    <2> HIDE DEF k, p
    <2>4. Keeps(c, k, p)
        BY <2>1, <2>2 DEF Keeps
    <2>5. ~InProgress(k)
        BY <2>2, KeepsSelf DEF InProgress
    <2> QED BY <2>1, <2>2, <2>3, <2>4, <2>5, AckServes DEF Errors
<1> QED BY <1>1, <1>2

LEMMA ConnectServes ==
    ASSUME NetconnInv, NEW c \in Conns, NEW u \in Threads, Requests(c, u), conn[c].current = NULL,
           thr[u].fn = "connect", NEW nomem \in BOOLEAN
    PROVE  Serves(c, u, do_connect(c, u, nomem))
<1> DEFINE k == [conn[c] EXCEPT !.state = "CONNECT", !.nonblocking = thr[u].dontblock]
           q == [k EXCEPT !.current = u]
           p == [pcb[c] EXCEPT !.state = "SYN_SENT"]
<1>1. CASE ~conn[c].pcb \/ conn[c].state # "NONE" \/ pcb[c].state # "CLOSED" \/ nomem
    BY <1>1, PlainAck DEF do_connect, Errors
<1>2. CASE conn[c].pcb /\ conn[c].state = "NONE" /\ pcb[c].state = "CLOSED" /\ ~nomem
    <2>1. thr[u].dontblock \in BOOLEAN /\ u # NULL
        BY NetconnAssumption DEF NetconnInv, TypeOK, ThrType
    <2>2. /\ k \in ConnType /\ k.used = conn[c].used /\ k.acceptmbox = conn[c].acceptmbox
          /\ k.state = "CONNECT" /\ k.pcb /\ k.nonblocking = thr[u].dontblock /\ k.current = NULL
        BY <1>2, <2>1, KeepsSelf DEF ConnType
    <2>3. /\ q \in ConnType /\ q.used = conn[c].used /\ q.acceptmbox = conn[c].acceptmbox
          /\ q.state = "CONNECT" /\ q.pcb /\ q.current = u /\ q.op_completed = conn[c].op_completed
        BY <1>2, <2>1, KeepsSelf DEF ConnType
    <2>4. p \in PcbType
        BY KeepsSelf DEF PcbType
    <2>5. do_connect(c, u, nomem) = IF thr[u].dontblock THEN Ack(k, p, u, "soft")
                                    ELSE Result(q, p, NULL, "OK")
        BY <1>2 DEF do_connect
    <2> HIDE DEF k, q, p
    <2>6. Keeps(c, k, p) /\ Keeps(c, q, p)
        BY <2>2, <2>3, <2>4, NoNewconn DEF Keeps
    <2>7. CASE thr[u].dontblock
        BY <2>2, <2>5, <2>6, <2>7, AckServes DEF Errors, InProgress
    <2>8. CASE ~thr[u].dontblock
        BY <2>1, <2>3, <2>5, <2>6, <2>8, ParkServes
    <2> QED BY <2>7, <2>8
<1> QED BY <1>1, <1>2

LEMMA ListenServes ==
    ASSUME NetconnInv, NEW c \in Conns, NEW u \in Threads, Requests(c, u), conn[c].current = NULL,
           thr[u].fn = "listen", NEW nomem \in BOOLEAN
    PROVE  Serves(c, u, do_listen(c, u, nomem))
<1> DEFINE k == [conn[c] EXCEPT !.recvmbox = Invalid]
           n == [k EXCEPT !.pcb = FALSE]
           a == [k EXCEPT !.state = "LISTEN", !.acceptmbox = <<>>]
           p == [pcb[c] EXCEPT !.state = "LISTEN"]
<1>1. CASE conn[c].fatal \/ ~conn[c].pcb \/ conn[c].state # "NONE" \/ pcb[c].state # "CLOSED"
    BY <1>1, PlainAck DEF do_listen, Errors
<1>2. CASE ~(conn[c].fatal \/ ~conn[c].pcb \/ conn[c].state # "NONE") /\ pcb[c].state = "CLOSED"
    <2>1. /\ n \in ConnType /\ n.used = conn[c].used /\ n.acceptmbox = conn[c].acceptmbox
          /\ n.state = "NONE" /\ n.current = NULL
        BY <1>2, KeepsSelf, MailboxConstants DEF ConnType
    <2>2. /\ a \in ConnType /\ a.used = conn[c].used /\ a.acceptmbox = <<>>
          /\ a.state = "LISTEN" /\ a.current = NULL
        BY <1>2, KeepsSelf, MailboxConstants DEF ConnType
    <2>3. p \in PcbType /\ ~Connecting(p) /\ NoPcb \in PcbType /\ ~Connecting(NoPcb)
        BY KeepsSelf, FreeTypes DEF PcbType, Connecting, NoPcb
    <2>4. do_listen(c, u, nomem) = IF nomem THEN Ack(n, NoPcb, u, "soft") ELSE Ack(a, p, u, "OK")
        BY <1>2 DEF do_listen
    <2> HIDE DEF n, a, p
    <2>5. Keeps(c, n, NoPcb) /\ Keeps(c, a, p)
        BY <2>1, <2>2, <2>3, NoNewconn, MailboxConstants DEF Keeps
    <2>6. ~InProgress(n) /\ ~InProgress(a)
        BY <2>1, <2>2 DEF InProgress
    <2>7. CASE nomem
        BY <2>1, <2>3, <2>4, <2>5, <2>6, <2>7, AckServes DEF Errors
    <2>8. CASE ~nomem
        BY <2>2, <2>3, <2>4, <2>5, <2>6, <2>8, AckServes DEF Errors
    <2> QED BY <2>7, <2>8
<1> QED BY <1>1, <1>2

LEMMA SmallerOfTwo ==
    ASSUME NEW a \in Int, NEW b \in Int PROVE Min({a, b}) \in {a, b}
<1>1. \E x \in {a, b} : \A y \in {a, b} : x =< y
    <2>1. CASE a =< b
        BY <2>1
    <2>2. CASE b =< a
        BY <2>2
    <2> QED BY <2>1, <2>2
<1> QED BY <1>1 DEF Min

LEMMA WriteServes ==
    ASSUME NetconnInv, NEW c \in Conns, NEW u \in Threads, Requests(c, u),
           NEW k, Keeps(c, k, pcb[c]), k.state = "WRITE", k.current = u,
           k.op_completed = conn[c].op_completed, ~Connecting(pcb[c]),
           NEW available \in 0..MaxLen, NEW nomem \in BOOLEAN
    PROVE  /\ Serves(c, u, do_writemore(c, k, u, available, nomem))
           /\ do_writemore(c, k, u, available, nomem).pcb = pcb[c]
           /\ Taken(c, k, u, available, nomem) \in Int
<1> USE NetconnAssumption
<1> DEFINE n   == Fits(k, u, available)
           err == IF thr[u].dontblock /\ n < thr[u].len THEN "soft" ELSE tcp_write(c, nomem)
           w   == Written(k, n)
           z   == [k EXCEPT !.write_offset = 0]
<1>1. n \in Int
    <2>1. available \in Int /\ thr[u].len - k.write_offset \in Int
        BY DEF NetconnInv, TypeOK, ThrType, Keeps, ConnType
    <2> QED BY <2>1, SmallerOfTwo DEF Fits
<1>2. err \in Errors
    BY DEF tcp_write, Errors
<1>3. /\ w \in ConnType /\ w.used = k.used /\ w.acceptmbox = k.acceptmbox /\ w.current = u
      /\ w.op_completed = k.op_completed
    <2>1. ASSUME NEW m \in Int PROVE [k EXCEPT !.write_offset = k.write_offset + m] \in ConnType
        <3>1. k \in ConnType
            BY DEF Keeps
        <3>2. k.write_offset + m \in Int
            BY <3>1 DEF ConnType
        <3> QED BY <3>1, <3>2 DEF ConnType
    <2>2. w = [k EXCEPT !.write_offset = k.write_offset + n]
        BY DEF Written
    <2> QED BY <1>1, <2>1, <2>2 DEF Keeps, ConnType
<1>4. z \in ConnType /\ z.used = k.used /\ z.acceptmbox = k.acceptmbox /\ z.current = u
    BY DEF Keeps, ConnType
<1> HIDE DEF w, z
<1>5. Keeps(c, w, pcb[c]) /\ Keeps(c, z, pcb[c]) /\ u # NULL
    BY <1>3, <1>4 DEF Keeps
<1>6. /\ Serves(c, u, Finish(k, pcb[c], err)) /\ Serves(c, u, Finish(z, pcb[c], "OK"))
      /\ Serves(c, u, Result(k, pcb[c], NULL, "OK"))
    BY <1>2, <1>4, <1>5, FinishServes, ParkServes DEF Errors
<1>7. Serves(c, u, Result(w, pcb[c], NULL, "OK"))
    BY <1>3, <1>5, ParkServes
<1>8. /\ Finish(k, pcb[c], err).pcb = pcb[c] /\ Finish(z, pcb[c], "OK").pcb = pcb[c]
      /\ Result(k, pcb[c], NULL, "OK").pcb = pcb[c] /\ Result(w, pcb[c], NULL, "OK").pcb = pcb[c]
    BY DEF Finish, Ack, Result
<1>9. Taken(c, k, u, available, nomem) \in Int
    BY <1>1 DEF Taken
<1>10. do_writemore(c, k, u, available, nomem) \in
           {Finish(k, pcb[c], err), Finish(z, pcb[c], "OK"),
            Result(k, pcb[c], NULL, "OK"), Result(w, pcb[c], NULL, "OK")}
    BY DEF do_writemore, w, z
<1> QED BY <1>6, <1>7, <1>8, <1>9, <1>10

LEMMA CloseServes ==
    ASSUME NetconnInv, NEW c \in Conns, NEW u \in Threads, Requests(c, u), thr[u].fn # "newconn",
           NEW k, Keeps(c, k, pcb[c]), k.current = u, k.op_completed = conn[c].op_completed,
           NEW how, Connecting(pcb[c]) => how = "RDWR", NEW nomem \in BOOLEAN
    PROVE  Serves(c, u, do_close_internal(k, pcb[c], how, nomem))
<1> DEFINE f == [k EXCEPT !.pcb = FALSE]
<1>1. f \in ConnType /\ f.used = k.used /\ f.acceptmbox = k.acceptmbox /\ f.current = u
    BY DEF Keeps, ConnType
<1>2. NoPcb \in PcbType /\ ~Connecting(NoPcb) /\ NoPcb.state = "none" /\ u # NULL
    BY NetconnAssumption, FreeTypes DEF NoPcb, Connecting
<1> HIDE DEF f
<1>3. Keeps(c, f, NoPcb) /\ Keeps(c, f, pcb[c])
    BY <1>1, <1>2 DEF Keeps
<1>4. CASE nomem /\ pcb[c].state = "ESTABLISHED" /\ how # "RD"
    <2>1. ~Connecting(pcb[c])
        BY <1>4 DEF Connecting
    <2>2. Serves(c, u, Result(k, pcb[c], NULL, "OK"))
        BY <1>2, <2>1, ParkServes
    <2> QED BY <1>4, <2>2 DEF do_close_internal
<1>5. CASE ~(nomem /\ pcb[c].state = "ESTABLISHED" /\ how # "RD") /\ how = "RDWR"
    <2>1. Serves(c, u, Finish(f, NoPcb, "OK"))
        BY <1>1, <1>2, <1>3, FinishServes DEF Errors
    <2> QED BY <1>5, <2>1 DEF do_close_internal, f
<1>6. CASE ~(nomem /\ pcb[c].state = "ESTABLISHED" /\ how # "RD") /\ how # "RDWR"
    <2>1. Serves(c, u, Finish(f, pcb[c], "OK"))
        BY <1>1, <1>3, <1>6, FinishServes DEF Errors
    <2> QED BY <1>6, <2>1 DEF do_close_internal, f
<1> QED BY <1>4, <1>5, <1>6

(* What do_close and do_delconn hand to do_close_internal.                 *)
LEMMA StartCloseKeeps ==
    ASSUME NetconnInv, NEW c \in Conns, NEW u \in Threads
    PROVE  \A k \in {conn[c], netconn_drain(conn[c])} :
             LET s == StartClose(k, u)
             IN /\ Keeps(c, s, pcb[c]) /\ s.current = u /\ s.op_completed = conn[c].op_completed
                /\ Keeps(c, k, pcb[c]) /\ k.current = conn[c].current /\ k.state = conn[c].state
                /\ k.pcb = conn[c].pcb /\ k.nonblocking = conn[c].nonblocking
<1>1. netconn_drain(conn[c]) \in ConnType
    BY KeepsSelf, MailboxConstants DEF netconn_drain, ConnType
<1>2. PendingIn(netconn_drain(conn[c]).acceptmbox) = {}
    BY KeepsSelf, MailboxConstants DEF netconn_drain, ConnType
<1>3. \A k \in ConnType : /\ StartClose(k, u) \in ConnType /\ StartClose(k, u).used = k.used
                          /\ StartClose(k, u).acceptmbox = k.acceptmbox
                          /\ StartClose(k, u).current = u
                          /\ StartClose(k, u).op_completed = k.op_completed
    BY DEF StartClose, ConnType
<1>4. LET k == netconn_drain(conn[c])
      IN /\ k.used = conn[c].used /\ k.current = conn[c].current /\ k.state = conn[c].state
         /\ k.pcb = conn[c].pcb /\ k.op_completed = conn[c].op_completed
         /\ k.nonblocking = conn[c].nonblocking
    BY KeepsSelf DEF netconn_drain, ConnType
<1>5. \A k \in {conn[c], netconn_drain(conn[c])} :
          /\ k \in ConnType /\ k.used = conn[c].used /\ k.op_completed = conn[c].op_completed
          /\ PendingIn(k.acceptmbox) \subseteq PendingIn(conn[c].acceptmbox)
          /\ k.current = conn[c].current /\ k.state = conn[c].state
          /\ k.pcb = conn[c].pcb /\ k.nonblocking = conn[c].nonblocking
    BY <1>1, <1>2, <1>4, KeepsSelf
<1> QED BY <1>3, <1>5, KeepsSelf DEF Keeps

LEMMA DoCloseServes ==
    ASSUME NetconnInv, NEW c \in Conns, NEW u \in Threads, Requests(c, u), conn[c].current = NULL,
           thr[u].fn = "close", NEW nomem \in BOOLEAN
    PROVE  Serves(c, u, do_close(c, u, nomem))
<1> DEFINE how == thr[u].how
           k   == IF how \in {"RD", "RDWR"} THEN netconn_drain(conn[c]) ELSE conn[c]
<1>1. CloseRefused(c, how) \in Errors
    BY DEF CloseRefused, Errors
<1>2. CASE CloseRefused(c, how) # "OK"
    BY <1>1, <1>2, PlainAck DEF do_close
<1>3. CASE CloseRefused(c, how) = "OK"
    <2>1. ~Connecting(pcb[c])
        BY <1>3, KeepsSelf DEF CloseRefused
    <2>2. LET s == StartClose(k, u)
          IN Keeps(c, s, pcb[c]) /\ s.current = u /\ s.op_completed = conn[c].op_completed
        BY StartCloseKeeps
    <2>3. Serves(c, u, do_close_internal(StartClose(k, u), pcb[c], how, nomem))
        BY <2>1, <2>2, CloseServes
    <2> QED BY <1>3, <2>3 DEF do_close
<1> QED BY <1>2, <1>3

LEMMA DelconnServes ==
    ASSUME NetconnInv, NEW c \in Conns, NEW u \in Threads, Requests(c, u), conn[c].current = NULL,
           thr[u].fn = "delete", NEW nomem \in BOOLEAN
    PROVE  Serves(c, u, do_delconn(c, u, nomem))
<1> DEFINE k == netconn_drain(conn[c])
<1>1. LET s == StartClose(k, u)
      IN /\ Keeps(c, s, pcb[c]) /\ s.current = u /\ s.op_completed = conn[c].op_completed
         /\ Keeps(c, k, pcb[c]) /\ k.current = NULL /\ k.state = conn[c].state
         /\ k.nonblocking = conn[c].nonblocking
    BY StartCloseKeeps
<1>2. CASE DeleteRefused(c)
    <2>1. ~Connecting(pcb[c])
        BY <1>2, KeepsSelf DEF DeleteRefused
    <2>2. Serves(c, u, Ack(conn[c], pcb[c], u, "soft"))
        BY <2>1, PlainAck DEF Errors
    <2> QED BY <1>2, <2>2 DEF do_delconn
<1>3. CASE ~DeleteRefused(c) /\ ~conn[c].pcb
    <2>1. ~InProgress(k) /\ ~Connecting(pcb[c])
        BY <1>1, <1>3, KeepsSelf DEF InProgress
    <2>2. Serves(c, u, Ack(k, pcb[c], u, "OK"))
        BY <1>1, <2>1, AckServes DEF Errors
    <2> QED BY <1>3, <2>2 DEF do_delconn
<1>4. CASE ~DeleteRefused(c) /\ conn[c].pcb
    <2>1. Serves(c, u, do_close_internal(StartClose(k, u), pcb[c], "RDWR", nomem))
        BY <1>1, CloseServes
    <2> QED BY <1>4, <2>1 DEF do_delconn
<1> QED BY <1>2, <1>3, <1>4

LEMMA StartWriteServes ==
    ASSUME NetconnInv, NEW c \in Conns, NEW u \in Threads, Requests(c, u),
           thr[u].fn = "write", WriteRefused(c) = "OK"
    PROVE  LET k == StartWrite(c, u)
           IN /\ Keeps(c, k, pcb[c]) /\ k.state = "WRITE" /\ k.current = u
              /\ k.op_completed = conn[c].op_completed /\ ~Connecting(pcb[c])
<1> DEFINE k == StartWrite(c, u)
<1>1. /\ k \in ConnType /\ k.used = conn[c].used /\ k.acceptmbox = conn[c].acceptmbox
      /\ k.state = "WRITE" /\ k.current = u /\ k.op_completed = conn[c].op_completed
    <2>1. ASSUME NEW x \in ConnType
          PROVE  /\ [x EXCEPT !.state = "WRITE"] \in ConnType
                 /\ [x EXCEPT !.current = u] \in ConnType
                 /\ [x EXCEPT !.write_offset = 0] \in ConnType
        BY DEF ConnType
    <2>2. k = [[[conn[c] EXCEPT !.state = "WRITE"] EXCEPT !.current = u] EXCEPT !.write_offset = 0]
        BY DEF StartWrite
    <2>3. conn[c] \in ConnType
        BY KeepsSelf
    <2>4. k \in ConnType
        BY <2>1, <2>2, <2>3
    <2> QED BY <2>2, <2>3, <2>4 DEF ConnType
<1>2. ~Connecting(pcb[c])
    BY KeepsSelf DEF WriteRefused
<1> QED BY <1>1, <1>2, KeepsSelf DEF Keeps

-----------------------------------------------------------------------------
(* The steps of tcpip_thread.                                              *)

LEMMA AnsweredThread ==
    ASSUME NetconnInv, NEW t \in Threads, NEW err \in Errors
    PROVE  LET a == [thr EXCEPT ![t].err = err]
           IN /\ a \in [Threads -> ThrType]
              /\ \A v \in Threads : a[v].pc = thr[v].pc /\ a[v].c = thr[v].c /\ a[v].fn = thr[v].fn
<1> DEFINE q == [thr[t] EXCEPT !.err = err]
<1>1. thr \in [Threads -> ThrType] /\ thr[t] \in ThrType
    BY DEF NetconnInv, TypeOK
<1>2. q \in ThrType /\ q.pc = thr[t].pc /\ q.c = thr[t].c /\ q.fn = thr[t].fn
    BY <1>1 DEF ThrType, Errors
<1>3. [thr EXCEPT ![t].err = err] = [thr EXCEPT ![t] = q]
    OBVIOUS
<1> HIDE DEF q
<1> QED BY <1>1, <1>2, <1>3

LEMMA ApplySteps ==
    ASSUME NetconnInv, NEW c \in Conns, NEW u, NEW r, Requests(c, u), Serves(c, u, r),
           Apply(c, r), mbox' \in Seq(Threads), IsInjective(mbox'),
           ToSet(mbox') \subseteq ToSet(mbox), u \notin ToSet(mbox')
    PROVE  NetconnInv'
<1>1. r.t \in Threads \cup {NULL} /\ r.err \in Errors
    BY DEF Serves, Requests, Errors
<1>2. /\ thr' \in [Threads -> ThrType]
      /\ \A t \in Threads : thr'[t].pc = thr[t].pc /\ thr'[t].c = thr[t].c /\ thr'[t].fn = thr[t].fn
    <2>1. CASE r.t = NULL
        BY <2>1 DEF Apply, NetconnInv, TypeOK
    <2>2. CASE r.t # NULL
        BY <1>1, <2>2, AnsweredThread DEF Apply
    <2> QED BY <2>1, <2>2
<1>3. /\ conn' = [d \in Conns |-> IF d = c THEN r.conn
                                  ELSE IF d \in {} THEN FreeConn ELSE conn[d]]
      /\ pcb' = [d \in Conns |-> IF d = c THEN r.pcb
                                 ELSE IF d \in {} THEN NoPcb ELSE pcb[d]]
    BY DEF Apply, NetconnInv, TypeOK
<1>4. Serving(c, u, r, {})
    BY <1>2, <1>3 DEF Serving
<1> QED BY <1>4, ServedWell

LEMMA ApplyWriteSteps ==
    ASSUME NetconnInv, NEW c \in Conns, NEW u \in Threads, Requests(c, u),
           NEW k, Keeps(c, k, pcb[c]), k.state = "WRITE", k.current = u,
           k.op_completed = conn[c].op_completed, ~Connecting(pcb[c]),
           NEW available \in 0..MaxLen, NEW nomem \in BOOLEAN,
           ApplyWrite(c, k, u, available, nomem), mbox' \in Seq(Threads), IsInjective(mbox'),
           ToSet(mbox') \subseteq ToSet(mbox), u \notin ToSet(mbox')
    PROVE  NetconnInv'
<1> DEFINE r == do_writemore(c, k, u, available, nomem)
           n == Taken(c, k, u, available, nomem)
<1>1. Serves(c, u, r) /\ r.pcb = pcb[c] /\ n \in Int
    BY WriteServes
<1>2. /\ conn' = [conn EXCEPT ![c] = r.conn] /\ pcb' = pcb
      /\ thr' = [thr EXCEPT ![u].queued = @ + n, ![u].err = IF r.t = NULL THEN @ ELSE r.err]
    BY DEF ApplyWrite
<1>3. r.err \in Errors
    BY <1>1 DEF Serves, Errors
<1> HIDE DEF r, n
<1>4. /\ thr' \in [Threads -> ThrType]
      /\ \A t \in Threads : thr'[t].pc = thr[t].pc /\ thr'[t].c = thr[t].c /\ thr'[t].fn = thr[t].fn
    <2>1. thr \in [Threads -> ThrType]
        BY DEF NetconnInv, TypeOK
    <2>2. \A t \in Threads \ {u} : thr'[t] = thr[t]
        BY <1>2, <2>1
    <2> DEFINE q == thr[u].queued + n
               e == IF r.t = NULL THEN thr[u].err ELSE r.err
               a == [thr[u] EXCEPT !.queued = q, !.err = e]
    <2>3. thr'[u] = a
        BY <1>2, <2>1
    <2>4. thr[u] \in ThrType /\ q \in Int /\ e \in Errors
        BY <1>1, <1>3, <2>1 DEF ThrType, Errors
    <2>5. a \in ThrType /\ a.pc = thr[u].pc /\ a.c = thr[u].c /\ a.fn = thr[u].fn
        <3> HIDE DEF q, e
        <3> QED BY <2>4 DEF ThrType, Errors
    <2> HIDE DEF a
    <2>6. thr' \in [Threads -> ThrType]
        BY <1>2, <2>1, <2>2, <2>3, <2>5
    <2> QED BY <2>2, <2>3, <2>5, <2>6
<1>5. /\ conn' = [d \in Conns |-> IF d = c THEN r.conn
                                  ELSE IF d \in {} THEN FreeConn ELSE conn[d]]
      /\ pcb' = [d \in Conns |-> IF d = c THEN r.pcb
                                 ELSE IF d \in {} THEN NoPcb ELSE pcb[d]]
    BY <1>1, <1>2 DEF NetconnInv, TypeOK
<1>6. Serving(c, u, r, {})
    BY <1>4, <1>5 DEF Serving
<1> QED BY <1>1, <1>6, ServedWell

LEMMA ApplyDrainSteps ==
    ASSUME NetconnInv, NEW c \in Conns, NEW u \in Threads, NEW r, NEW drained,
           Requests(c, u), Serves(c, u, r),
           drained = {} \/ (drained = PendingIn(conn[c].acceptmbox) /\ PendingIn(r.conn.acceptmbox) = {}),
           ApplyDrain(c, r, drained), mbox' \in Seq(Threads), IsInjective(mbox'),
           ToSet(mbox') \subseteq ToSet(mbox), u \notin ToSet(mbox')
    PROVE  NetconnInv'
<1>1. r.t \in Threads \cup {NULL} /\ r.err \in Errors
    BY DEF Serves, Requests, Errors
<1>2. /\ thr' \in [Threads -> ThrType]
      /\ \A t \in Threads : thr'[t].pc = thr[t].pc /\ thr'[t].c = thr[t].c /\ thr'[t].fn = thr[t].fn
    <2>1. CASE r.t = NULL
        BY <2>1 DEF ApplyDrain, NetconnInv, TypeOK
    <2>2. CASE r.t # NULL
        BY <1>1, <2>2, AnsweredThread DEF ApplyDrain
    <2> QED BY <2>1, <2>2
<1>3. Serving(c, u, r, drained)
    BY <1>2 DEF Serving, ApplyDrain
<1> QED BY <1>3, ServedWell

(* A request that drains c leaves it without an accept mailbox.            *)
LEMMA DrainedIsInvalid ==
    ASSUME NetconnInv, NEW c \in Conns, NEW u \in Threads, NEW p, NEW how, NEW nomem
    PROVE  LET k == netconn_drain(conn[c])
           IN /\ PendingIn(Ack(k, p, u, "OK").conn.acceptmbox) = {}
              /\ PendingIn(do_close_internal(StartClose(k, u), p, how, nomem).conn.acceptmbox) = {}
<1> DEFINE k == netconn_drain(conn[c])
           s == StartClose(k, u)
           f == [s EXCEPT !.pcb = FALSE]
<1>1. k \in ConnType /\ k.acceptmbox = Invalid
    BY KeepsSelf, MailboxConstants DEF netconn_drain, ConnType
<1> HIDE DEF k
<1>2. s \in ConnType /\ s.acceptmbox = Invalid
    BY <1>1 DEF StartClose, ConnType
<1> HIDE DEF s
<1>3. f \in ConnType /\ f.acceptmbox = Invalid
    BY <1>2 DEF ConnType
<1> HIDE DEF f
<1>4. ASSUME NEW x \in ConnType, x.acceptmbox = Invalid, NEW q, NEW v, NEW err
      PROVE  Ack(x, q, v, err).conn.acceptmbox = Invalid
    BY <1>4 DEF Ack, Result, ConnType
<1>5. ASSUME NEW q PROVE Finish(f, q, "OK").conn.acceptmbox = Invalid
    <2> DEFINE e == [f EXCEPT !.current = NULL, !.state = "NONE"]
    <2>1. e \in ConnType /\ e.acceptmbox = Invalid
        BY <1>3, NetconnAssumption DEF ConnType
    <2>2. Finish(f, q, "OK") = Ack(e, q, f.current, "OK")
        BY DEF Finish
    <2> HIDE DEF e
    <2> QED BY <1>4, <2>1, <2>2
<1>6. Result(s, p, NULL, "OK").conn.acceptmbox = Invalid
    BY <1>2 DEF Result
<1>7. do_close_internal(s, p, how, nomem) \in
           {Result(s, p, NULL, "OK"), Finish(f, NoPcb, "OK"), Finish(f, p, "OK")}
    BY DEF do_close_internal, f
<1>8. do_close_internal(s, p, how, nomem).conn.acceptmbox = Invalid
    BY <1>5, <1>6, <1>7
<1>9. Ack(k, p, u, "OK").conn.acceptmbox = Invalid
    BY <1>1, <1>4
<1> QED BY <1>8, <1>9, MailboxConstants DEF k, s

LEMMA RequestStep ==
    ASSUME NetconnInv, tcpip_thread_api
    PROVE  NetconnInv'
<1> DEFINE u == Head(mbox)
           c == thr[u].c
<1>1. mbox # <<>> /\ mbox' = Tail(mbox)
    BY DEF tcpip_thread_api
<1>2. /\ u \in Threads /\ c \in Conns /\ Requests(c, u) /\ conn[c].current = NULL
      /\ mbox' \in Seq(Threads) /\ IsInjective(mbox')
      /\ ToSet(mbox') \subseteq ToSet(mbox) /\ u \notin ToSet(mbox')
    BY <1>1, HeadRequests DEF IsInjective, ToSet
<1>3. PICK nomem \in BOOLEAN :
        \/ thr[u].fn = "newconn" /\ Apply(c, do_newconn(c, u, nomem))
        \/ thr[u].fn = "bind" /\ Apply(c, do_bind(c, u))
        \/ thr[u].fn \in {"recv", "recvEof"} /\ Apply(c, do_recv(c, u))
        \/ thr[u].fn = "getaddr" /\ Apply(c, do_getaddr(c, u))
        \/ thr[u].fn = "connect" /\ Apply(c, do_connect(c, u, nomem))
        \/ thr[u].fn = "listen" /\ Apply(c, do_listen(c, u, nomem))
        \/ thr[u].fn = "write" /\ Apply(c, Ack(conn[c], pcb[c], u, WriteRefused(c)))
        \/ /\ thr[u].fn = "write" /\ WriteRefused(c) = "OK"
           /\ \E available \in 0..MaxLen : ApplyWrite(c, StartWrite(c, u), u, available, nomem)
        \/ thr[u].fn = "close" /\ ApplyDrain(c, do_close(c, u, nomem), Drained(c, u))
        \/ thr[u].fn = "delete" /\ ApplyDrain(c, do_delconn(c, u, nomem), Drained(c, u))
    BY DEF tcpip_thread_api
<1> HIDE DEF u, c
<1>4. ASSUME NEW r, Serves(c, u, r), Apply(c, r) PROVE NetconnInv'
    BY <1>2, <1>4, ApplySteps
<1>5. CASE thr[u].fn = "newconn" /\ Apply(c, do_newconn(c, u, nomem))
    BY <1>2, <1>4, <1>5, NewconnServes
<1>6. CASE thr[u].fn = "bind" /\ Apply(c, do_bind(c, u))
    BY <1>2, <1>4, <1>6, PlainAck DEF do_bind, Errors
<1>7. CASE thr[u].fn \in {"recv", "recvEof"} /\ Apply(c, do_recv(c, u))
    BY <1>2, <1>4, <1>7, PlainAck DEF do_recv, Errors
<1>8. CASE thr[u].fn = "getaddr" /\ Apply(c, do_getaddr(c, u))
    BY <1>2, <1>4, <1>8, PlainAck DEF do_getaddr, Errors
<1>9. CASE thr[u].fn = "connect" /\ Apply(c, do_connect(c, u, nomem))
    BY <1>2, <1>4, <1>9, ConnectServes
<1>10. CASE thr[u].fn = "listen" /\ Apply(c, do_listen(c, u, nomem))
    BY <1>2, <1>4, <1>10, ListenServes
<1>11. CASE thr[u].fn = "write" /\ Apply(c, Ack(conn[c], pcb[c], u, WriteRefused(c)))
    BY <1>2, <1>4, <1>11, PlainAck DEF WriteRefused, Errors
<1>12. CASE /\ thr[u].fn = "write" /\ WriteRefused(c) = "OK"
            /\ \E available \in 0..MaxLen : ApplyWrite(c, StartWrite(c, u), u, available, nomem)
    BY <1>2, <1>12, StartWriteServes, ApplyWriteSteps
<1>13. CASE thr[u].fn = "close" /\ ApplyDrain(c, do_close(c, u, nomem), Drained(c, u))
    <2>1. Serves(c, u, do_close(c, u, nomem))
        BY <1>2, <1>13, DoCloseServes
    <2>2. Drained(c, u) = {} \/ (Drained(c, u) = PendingIn(conn[c].acceptmbox)
                                 /\ PendingIn(do_close(c, u, nomem).conn.acceptmbox) = {})
        BY <1>2, <1>13, DrainedIsInvalid DEF Drained, Pending, PendingIn, do_close
    <2> QED BY <1>2, <1>13, <2>1, <2>2, ApplyDrainSteps
<1>14. CASE thr[u].fn = "delete" /\ ApplyDrain(c, do_delconn(c, u, nomem), Drained(c, u))
    <2>1. Serves(c, u, do_delconn(c, u, nomem))
        BY <1>2, <1>14, DelconnServes
    <2>2. Drained(c, u) = {} \/ (Drained(c, u) = PendingIn(conn[c].acceptmbox)
                                 /\ PendingIn(do_delconn(c, u, nomem).conn.acceptmbox) = {})
        BY <1>2, <1>14, DrainedIsInvalid DEF Drained, Pending, PendingIn, do_delconn
    <2> QED BY <1>2, <1>14, <2>1, <2>2, ApplyDrainSteps
<1> QED BY <1>3, <1>5, <1>6, <1>7, <1>8, <1>9, <1>10, <1>11, <1>12, <1>13, <1>14

LEMMA MailboxUnchanged ==
    ASSUME NetconnInv, mbox' = mbox
    PROVE  /\ mbox' \in Seq(Threads) /\ IsInjective(mbox') /\ ToSet(mbox') = ToSet(mbox)
           /\ NULL \notin ToSet(mbox')
<1>1. mbox \in Seq(Threads) /\ IsInjective(mbox)
    BY DEF NetconnInv, TypeOK, QueuedOnce
<1>2. NULL \notin ToSet(mbox)
    BY <1>1, MailboxElements, NetconnAssumption
<1> QED BY <1>1, <1>2 DEF IsInjective, ToSet

LEMMA ConnectedStep ==
    ASSUME NetconnInv, NEW c \in Conns, do_connected(c)
    PROVE  NetconnInv'
<1> DEFINE p == [pcb[c] EXCEPT !.state = "ESTABLISHED"]
           k == [conn[c] EXCEPT !.nonblocking = FALSE]
           n == [k EXCEPT !.state = "NONE", !.current = NULL]
           u == conn[c].current
<1>1. Connecting(pcb[c]) /\ mbox' = mbox
    BY DEF do_connected, Connecting
<1>2. conn[c].state = "CONNECT"
    BY <1>1, KeepsSelf
<1>3. /\ k \in ConnType /\ k.used = conn[c].used /\ k.acceptmbox = conn[c].acceptmbox /\ k.current = u
      /\ n \in ConnType /\ n.used = conn[c].used /\ n.acceptmbox = conn[c].acceptmbox
      /\ n.state = "NONE" /\ n.current = NULL /\ n.op_completed = conn[c].op_completed
    BY KeepsSelf DEF ConnType
<1>4. p \in PcbType /\ ~Connecting(p)
    BY KeepsSelf DEF PcbType, Connecting
<1>5. \A t \in Threads : thr[t].pc = "call" /\ thr[t].c = c => thr[t].fn # "newconn"
    BY <1>1 DEF NetconnInv, ConnectsInState, Connecting
<1>6. Apply(c, IF conn[c].nonblocking THEN Result(n, p, NULL, "OK") ELSE Finish(k, p, "OK"))
    BY DEF do_connected
<1> HIDE DEF p, k, n
<1>7. Keeps(c, k, p) /\ Keeps(c, n, p)
    BY <1>3, <1>4, <1>5 DEF Keeps
<1>8. CASE conn[c].nonblocking
    <2>1. Serves(c, NULL, Result(n, p, NULL, "OK")) /\ Requests(c, NULL)
        BY <1>3, <1>4, <1>7, ParkServes DEF Requests, InProgress
    <2> QED BY <1>1, <1>6, <1>8, <2>1, MailboxUnchanged, ApplySteps
<1>9. CASE ~conn[c].nonblocking
    <2>1. u # NULL
        BY <1>2, <1>9, KeepsSelf DEF InProgress
    <2>2. u \in Threads /\ Requests(c, u) /\ u \notin ToSet(mbox)
        BY <2>1, ParkedRequests
    <2>3. Serves(c, u, Finish(k, p, "OK"))
        BY <1>3, <1>4, <1>7, <2>2, FinishServes DEF Errors
    <2> QED BY <1>1, <1>6, <1>9, <2>2, <2>3, MailboxUnchanged, ApplySteps
<1> QED BY <1>8, <1>9

LEMMA ErrStep ==
    ASSUME NetconnInv, NEW c \in Conns, err_tcp(c)
    PROVE  NetconnInv'
<1> DEFINE w == ErrWakes(conn[c])
           k == [w EXCEPT !.pcb = FALSE, !.fatal = TRUE, !.state = "NONE", !.nonblocking = FALSE]
           u == conn[c].current
<1>1. pcb[c].state \notin {"none", "CLOSED"} /\ mbox' = mbox
    BY DEF err_tcp
<1>2. /\ w \in ConnType /\ w.used = conn[c].used /\ w.current = u
      /\ w.op_completed = conn[c].op_completed
      /\ PendingIn(w.acceptmbox) \subseteq PendingIn(conn[c].acceptmbox)
    <2> DEFINE m == TryPost(conn[c].recvmbox, NULL, RECVMBOX_SIZE)
               a == TryPost(conn[c].acceptmbox, NULL, ACCEPTMBOX_SIZE)
    <2>1. conn[c] \in ConnType
        BY KeepsSelf
    <2>2. conn[c].recvmbox \in Seq(Msgs) /\ conn[c].acceptmbox \in Seq(Msgs)
        BY <2>1 DEF ConnType
    <2>3. /\ m \in Seq(Msgs) /\ a \in Seq(Msgs)
          /\ PendingIn(a) \subseteq PendingIn(conn[c].acceptmbox)
        BY <2>2, TryPostKeeps
    <2>4. w = [conn[c] EXCEPT !.recvmbox = m, !.acceptmbox = a]
        BY DEF ErrWakes
    <2> HIDE DEF m, a
    <2> QED BY <2>1, <2>3, <2>4 DEF ConnType
<1> HIDE DEF w
<1>3. /\ k \in ConnType /\ k.used = w.used /\ k.current = w.current /\ k.state = "NONE"
      /\ k.op_completed = w.op_completed /\ k.acceptmbox = w.acceptmbox
    BY <1>2 DEF ConnType
<1>4. NoPcb \in PcbType /\ ~Connecting(NoPcb) /\ NoPcb.state = "none"
    BY FreeTypes DEF Connecting, NoPcb
<1>5. Apply(c, IF conn[c].state \in {"WRITE", "CLOSE", "CONNECT"} /\ ~conn[c].nonblocking
               THEN Finish(k, NoPcb, "fatal") ELSE Result(k, NoPcb, NULL, "OK"))
    BY DEF err_tcp, w
<1> HIDE DEF k
<1>6. Keeps(c, k, NoPcb) /\ ~InProgress(k)
    BY <1>2, <1>3, <1>4 DEF Keeps, InProgress
<1>7. CASE conn[c].state \in {"WRITE", "CLOSE", "CONNECT"} /\ ~conn[c].nonblocking
    <2>1. u # NULL
        BY <1>7, KeepsSelf DEF InProgress
    <2>2. u \in Threads /\ Requests(c, u) /\ u \notin ToSet(mbox)
        BY <2>1, ParkedRequests
    <2>3. Serves(c, u, Finish(k, NoPcb, "fatal"))
        BY <1>2, <1>3, <1>4, <1>6, <2>2, FinishServes DEF Errors
    <2> QED BY <1>1, <1>5, <1>7, <2>2, <2>3, MailboxUnchanged, ApplySteps
<1>8. CASE ~(conn[c].state \in {"WRITE", "CLOSE", "CONNECT"} /\ ~conn[c].nonblocking)
    <2>1. Serves(c, NULL, Result(k, NoPcb, NULL, "OK")) /\ Requests(c, NULL)
        BY <1>2, <1>3, <1>4, <1>6, ParkServes DEF Requests
    <2> QED BY <1>1, <1>5, <1>8, <2>1, MailboxUnchanged, ApplySteps
<1> QED BY <1>7, <1>8

LEMMA SentStep ==
    ASSUME NetconnInv, NEW c \in Conns, NEW nomem \in BOOLEAN, sent_tcp(c, nomem)
    PROVE  NetconnInv'
<1> DEFINE u == conn[c].current
           how == IF thr[u].fn = "delete" THEN "RDWR" ELSE thr[u].how
<1>1. mbox' = mbox /\ pcb[c].state \in {"SYN_SENT", "ESTABLISHED"} /\ conn[c].state \in {"WRITE", "CLOSE"}
    BY DEF sent_tcp
<1>2. u \in Threads /\ Requests(c, u) /\ u \notin ToSet(mbox)
    BY <1>1, KeepsSelf, ParkedRequests DEF InProgress
<1>3. ~Connecting(pcb[c]) /\ Keeps(c, conn[c], pcb[c])
    BY <1>1, KeepsSelf
<1>4. CASE /\ conn[c].state = "WRITE"
           /\ \E available \in 0..MaxLen : ApplyWrite(c, conn[c], u, available, nomem)
    BY <1>1, <1>2, <1>3, <1>4, MailboxUnchanged, ApplyWriteSteps
<1>5. CASE Apply(c, do_close_internal(conn[c], pcb[c], how, nomem))
    <2>1. thr[u].fn # "newconn"
        BY <1>1, <1>2, NetconnAssumption DEF NetconnInv, ConnectsInState, Requests
    <2>2. Serves(c, u, do_close_internal(conn[c], pcb[c], how, nomem))
        BY <1>2, <1>3, <2>1, CloseServes
    <2> QED BY <1>1, <1>2, <1>5, <2>2, MailboxUnchanged, ApplySteps
<1> QED BY <1>4, <1>5 DEF sent_tcp

LEMMA RecvStep ==
    ASSUME NetconnInv, NEW c \in Conns, recv_tcp(c)
    PROVE  NetconnInv'
<1> DEFINE data == [conn[c] EXCEPT !.recvmbox = Append(@, "data")]
           eof  == [conn[c] EXCEPT !.recvmbox = TryPost(@, NULL, RECVMBOX_SIZE)]
           fin  == [pcb[c] EXCEPT !.fin = TRUE]
           Same(k) == /\ k \in ConnType /\ k.used = conn[c].used /\ k.acceptmbox = conn[c].acceptmbox
                      /\ k.current = conn[c].current /\ k.op_completed = conn[c].op_completed
                      /\ k.state = conn[c].state /\ k.nonblocking = conn[c].nonblocking
<1>1. conn[c] \in ConnType /\ conn[c].recvmbox \in Seq(Msgs) /\ pcb[c].state = "ESTABLISHED"
    BY KeepsSelf DEF recv_tcp, ConnType
<1>2. ASSUME NEW m \in Seq(Msgs) PROVE Same([conn[c] EXCEPT !.recvmbox = m])
    BY <1>1 DEF ConnType
<1>3. Append(conn[c].recvmbox, "data") \in Seq(Msgs)
    BY <1>1, AppendToMailbox DEF Msgs
<1>4. TryPost(conn[c].recvmbox, NULL, RECVMBOX_SIZE) \in Seq(Msgs)
    BY <1>1, TryPostKeeps
<1>5. Same(data) /\ Same(eof)
    BY <1>2, <1>3, <1>4
<1>6. fin \in PcbType /\ fin.state = "ESTABLISHED" /\ pcb[c] \in PcbType
    BY <1>1, KeepsSelf DEF PcbType
<1>7. /\ conn \in [Conns -> ConnType] /\ pcb \in [Conns -> PcbType]
      /\ thr' = thr /\ mbox' = mbox
      /\ \/ conn' = [conn EXCEPT ![c] = data] /\ pcb' = [pcb EXCEPT ![c] = pcb[c]]
         \/ conn' = [conn EXCEPT ![c] = eof] /\ pcb' = [pcb EXCEPT ![c] = fin]
    BY DEF recv_tcp, NetconnInv, TypeOK
<1> HIDE DEF data, eof, fin
<1>8. ASSUME NEW k, NEW p \in PcbType, Same(k), p.state = "ESTABLISHED",
             conn' = [conn EXCEPT ![c] = k], pcb' = [pcb EXCEPT ![c] = p]
      PROVE  NetconnInv'
    <2>1. Apply(c, Result(k, p, NULL, "OK"))
        BY <1>7, <1>8 DEF Apply, Result
    <2>2. ~Connecting(p) /\ (InProgress(k) => k.current # NULL)
        BY <1>8, KeepsSelf DEF Connecting, InProgress
    <2>3. \A t \in Threads : thr[t].pc = "call" /\ thr[t].c = c => thr[t].fn # "newconn"
        BY <1>1 DEF NetconnInv, ConnectsInState
    <2>4. Keeps(c, k, p)
        BY <1>8, <2>3 DEF Keeps
    <2>5. Serves(c, NULL, Result(k, p, NULL, "OK")) /\ Requests(c, NULL)
        BY <1>8, <2>2, <2>4, ParkServes DEF Requests
    <2> QED BY <1>7, <2>1, <2>5, MailboxUnchanged, ApplySteps
<1> QED BY <1>1, <1>5, <1>6, <1>7, <1>8

LEMMA AcceptStep ==
    ASSUME NetconnInv, NEW c \in Conns, NEW new \in Conns, accept_function(c, new)
    PROVE  NetconnInv'
<1> USE NetconnAssumption DEF NetconnInv
<1> DEFINE k == [conn[c] EXCEPT !.acceptmbox = Append(@, new)]
           n == [netconn_alloc EXCEPT !.pcb = TRUE]
           p == [NoPcb EXCEPT !.state = "ESTABLISHED", !.arg = TRUE]
<1>1. /\ c # new /\ ~conn[new].used /\ Valid(conn[c].acceptmbox) /\ thr' = thr /\ mbox' = mbox
      /\ conn' = [conn EXCEPT ![c] = k, ![new] = n] /\ pcb' = [pcb EXCEPT ![new] = p]
    BY DEF accept_function
<1>2. conn \in [Conns -> ConnType] /\ pcb \in [Conns -> PcbType]
    BY DEF TypeOK
<1>3. Append(conn[c].acceptmbox, new) \in Seq(Msgs)
          /\ ToSet(Append(conn[c].acceptmbox, new)) = ToSet(conn[c].acceptmbox) \cup {new}
    <2>1. conn[c].acceptmbox \in Seq(Msgs) /\ new \in Msgs
        BY <1>2 DEF ConnType, Msgs
    <2> QED BY <2>1, AppendToMailbox
<1>4. /\ k \in ConnType /\ k.used = conn[c].used /\ k.current = conn[c].current
      /\ k.op_completed = conn[c].op_completed /\ k.state = conn[c].state
      /\ k.nonblocking = conn[c].nonblocking /\ k.pcb = conn[c].pcb
      /\ k.acceptmbox = Append(conn[c].acceptmbox, new)
    <2>1. ASSUME NEW x \in ConnType, NEW m \in Seq(Msgs)
          PROVE  LET y == [x EXCEPT !.acceptmbox = m]
                 IN /\ y \in ConnType /\ y.used = x.used /\ y.current = x.current
                    /\ y.op_completed = x.op_completed /\ y.state = x.state
                    /\ y.nonblocking = x.nonblocking /\ y.pcb = x.pcb /\ y.acceptmbox = m
        BY DEF ConnType
    <2> QED BY <1>2, <1>3, <2>1
<1>5. /\ n \in ConnType /\ n.used /\ n.current = NULL /\ n.op_completed = 0 /\ n.state = "NONE"
      /\ PendingIn(n.acceptmbox) = {}
    <2> DEFINE a == netconn_alloc
    <2>1. /\ a \in ConnType /\ a.used /\ a.current = NULL /\ a.op_completed = 0 /\ a.state = "NONE"
          /\ PendingIn(a.acceptmbox) = {}
        BY AllocTypes
    <2>2. n = [a EXCEPT !.pcb = TRUE]
        OBVIOUS
    <2> HIDE DEF a, n
    <2> QED BY <2>1, <2>2 DEF ConnType
<1>6. p \in PcbType /\ ~Connecting(p)
    BY DEF NoPcb, PcbType, Connecting
<1>7. PendingIn(k.acceptmbox) \subseteq PendingIn(conn[c].acceptmbox) \cup {new}
    BY <1>1, <1>3, <1>4 DEF PendingIn
<1> HIDE DEF k, n, p
<1>8. /\ conn'[c] = k /\ conn'[new] = n /\ pcb'[new] = p
      /\ \A d \in Conns \ {new} : pcb'[d] = pcb[d]
      /\ \A d \in Conns \ {c, new} : conn'[d] = conn[d]
    BY <1>1, <1>2
<1>9. (\A t \in Threads : thr[t].c # new) /\ \A d \in Conns : new \notin PendingIn(conn[d].acceptmbox)
    BY <1>1 DEF OneUser, PendingUnknown
<1>10. TypeOK'
    BY <1>1, <1>2, <1>4, <1>5, <1>6 DEF TypeOK
<1>11. OneUser'
    <2>1. \A d \in Conns : conn[d].used => conn'[d].used
        BY <1>4, <1>5, <1>8
    <2>2. \A t \in Threads : thr[t].c \in Conns \cup {NULL}
        BY DEF TypeOK, ThrType
    <2> QED BY <1>1, <2>1, <2>2 DEF OneUser
<1>12. PendingUnknown'
    <2>1. \A a \in Conns : PendingIn(conn'[a].acceptmbox) \subseteq
                             PendingIn(conn[a].acceptmbox) \cup (IF a = c THEN {new} ELSE {})
        BY <1>5, <1>7, <1>8
    <2> SUFFICES ASSUME NEW a \in Conns, NEW d \in Conns, d \in PendingIn(conn'[a].acceptmbox)
                 PROVE  /\ conn'[d].used
                        /\ \A b \in Conns : d \in PendingIn(conn'[b].acceptmbox) => b = a
                        /\ \A t \in Threads : thr'[t].c # d
        BY DEF PendingUnknown, PendingIn
    <2>2. CASE d = new
        <3>1. conn'[d].used
            BY <1>5, <1>8, <2>2
        <3>2. \A b \in Conns : d \in PendingIn(conn'[b].acceptmbox) => b = c
            BY <1>9, <2>1, <2>2
        <3>3. \A t \in Threads : thr'[t].c # d
            BY <1>1, <1>9, <2>2
        <3> QED BY <3>1, <3>2, <3>3
    <2>3. CASE d # new
        <3>1. d \in PendingIn(conn[a].acceptmbox)
            BY <2>1, <2>3
        <3>2. /\ conn[d].used /\ \A b \in Conns : d \in PendingIn(conn[b].acceptmbox) => b = a
              /\ \A t \in Threads : thr[t].c # d
            BY <3>1 DEF PendingUnknown
        <3>3. \A b \in Conns : d \in PendingIn(conn'[b].acceptmbox) => b = a
            BY <2>1, <2>3, <3>2
        <3> QED BY <1>1, <1>4, <1>8, <2>3, <3>2, <3>3
    <2> QED BY <2>2, <2>3
<1>13. QueuedOnce'
    BY <1>1 DEF QueuedOnce, IsInjective, ToSet
<1>14. ParkedOnce'
    <2> SUFFICES ASSUME NEW d \in Conns
                 PROVE  /\ conn'[d].current # NULL =>
                             /\ thr'[conn'[d].current].pc = "call" /\ thr'[conn'[d].current].c = d
                             /\ conn'[d].current \notin ToSet(mbox') /\ conn'[d].op_completed = 0
                        /\ InProgress(conn'[d]) => conn'[d].current # NULL
        BY DEF ParkedOnce, InProgress
    <2>1. CASE d = new
        BY <1>5, <1>8, <2>1 DEF InProgress
    <2>2. CASE d # new
        <3>1. /\ conn'[d].current = conn[d].current /\ conn'[d].op_completed = conn[d].op_completed
              /\ conn'[d].state = conn[d].state /\ conn'[d].nonblocking = conn[d].nonblocking
            BY <1>4, <1>8, <2>2
        <3>2. ToSet(mbox') = ToSet(mbox)
            BY <1>1 DEF ToSet
        <3> QED BY <1>1, <3>1, <3>2 DEF ParkedOnce, InProgress
    <2> QED BY <2>1, <2>2
<1>15. ConnectsInState'
    <2>1. ASSUME NEW d \in Conns PROVE Connecting(pcb'[d]) => conn'[d].state = "CONNECT" /\ conn'[d].pcb
        BY <1>4, <1>6, <1>8 DEF ConnectsInState, Connecting
    <2>2. ASSUME NEW t \in Threads, thr[t].pc = "call"
          PROVE  /\ thr[t].fn = "newconn" => pcb'[thr[t].c].state \in {"none", "CLOSED"}
                 /\ thr[t].fn = "delete" /\ conn'[thr[t].c].op_completed = 1
                        => ~Connecting(pcb'[thr[t].c])
        <3>1. thr[t].c \in Conns \ {new}
            BY <1>9, <2>2 DEF OneUser, TypeOK, ThrType
        <3>2. pcb'[thr[t].c] = pcb[thr[t].c] /\ conn'[thr[t].c].op_completed = conn[thr[t].c].op_completed
            BY <1>4, <1>8, <3>1
        <3> QED BY <2>2, <3>2 DEF ConnectsInState
    <2>3. ASSUME NEW t \in Threads, thr'[t].pc = "call"
          PROVE  /\ thr'[t].fn = "newconn" => pcb'[thr'[t].c].state \in {"none", "CLOSED"}
                 /\ thr'[t].fn = "delete" /\ conn'[thr'[t].c].op_completed = 1
                        => ~Connecting(pcb'[thr'[t].c])
        BY <1>1, <2>2, <2>3
    <2> QED BY <2>1, <2>3 DEF ConnectsInState, Connecting
<1>16. OneAnswer'
    <2> SUFFICES ASSUME NEW d \in Conns, conn'[d].op_completed = 1
                 PROVE  \E t \in Threads : /\ thr[t].pc = "call" /\ thr[t].c = d
                                            /\ t \notin ToSet(mbox) /\ conn'[d].current # t
        <3>1. ToSet(mbox') = ToSet(mbox)
            BY <1>1 DEF ToSet
        <3> QED BY <1>1, <3>1 DEF OneAnswer
    <2>1. conn[d].op_completed = 1 /\ conn'[d].current = conn[d].current
        BY <1>4, <1>5, <1>8
    <2> QED BY <2>1 DEF OneAnswer
<1> QED BY <1>10, <1>11, <1>12, <1>13, <1>14, <1>15, <1>16
-----------------------------------------------------------------------------
(* The steps of application threads: t, which has no request queued or     *)
(* parked, becomes m, and perhaps queues one; what it leaves behind has no *)
(* answer for anyone, and what it goes on to use nobody else does.         *)
Evolves(t, m, d) ==
    /\ conn'[d].current = conn[d].current /\ conn'[d].op_completed \in {conn[d].op_completed, 0}
    /\ PendingIn(conn'[d].acceptmbox) \subseteq PendingIn(conn[d].acceptmbox)
    /\ InProgress(conn'[d]) => InProgress(conn[d])
    /\ Connecting(pcb[d]) => conn'[d].state = "CONNECT" /\ conn'[d].pcb
    /\ conn[d].used => conn'[d].used \/ (thr[t].c = d /\ m.c # d)
    /\ thr[t].c = d \/ m.c = d => conn'[d].op_completed = 0

GoesOn(t, m) ==
    /\ m \in ThrType /\ (m.pc # "idle" <=> m.c # NULL)
    /\ m.c # NULL => /\ conn'[m.c].used
                     /\ \A v \in Threads \ {t} : thr[v].c # m.c
                     /\ \A d \in Conns : m.c \notin PendingIn(conn'[d].acceptmbox)
    /\ m.pc = "call" /\ m.fn = "newconn" => m.c # NULL /\ pcb[m.c].state = "none"

LEMMA ThreadStep ==
    ASSUME NetconnInv, NEW t \in Threads, NEW m, GoesOn(t, m),
           \A d \in Conns : Evolves(t, m, d) /\ conn[d].current # t, t \notin ToSet(mbox),
           conn' \in [Conns -> ConnType], pcb' = pcb, thr' = [thr EXCEPT ![t] = m],
           mbox' = IF m.pc = "call" THEN Append(mbox, t) ELSE mbox
    PROVE  NetconnInv'
<1> USE NetconnAssumption DEF NetconnInv
<1>1. /\ thr' \in [Threads -> ThrType] /\ thr'[t] = m
      /\ \A v \in Threads \ {t} : thr'[v] = thr[v]
    BY DEF TypeOK, GoesOn
<1>2. /\ mbox' \in Seq(Threads) /\ IsInjective(mbox')
      /\ ToSet(mbox') = ToSet(mbox) \cup (IF m.pc = "call" THEN {t} ELSE {})
    <2>1. mbox \in Seq(Threads) /\ IsInjective(mbox)
        BY DEF TypeOK, QueuedOnce
    <2>2. CASE m.pc = "call"
        BY <2>1, <2>2, AppendToMailbox
    <2>3. CASE m.pc # "call"
        BY <2>1, <2>3 DEF IsInjective, ToSet
    <2> QED BY <2>2, <2>3
<1>3. m.c \in Conns \cup {NULL} /\ \A v \in Threads : thr[v].c \in Conns \cup {NULL}
    BY DEF GoesOn, ThrType, TypeOK
<1>4. TypeOK'
    BY <1>1, <1>2 DEF TypeOK
<1>5. OneUser'
    <2>1. ASSUME NEW v \in Threads
          PROVE  /\ thr'[v].pc # "idle" <=> thr'[v].c # NULL
                 /\ thr'[v].c # NULL => conn'[thr'[v].c].used
        <3>1. CASE v = t
            BY <1>1, <3>1 DEF GoesOn
        <3>2. CASE v # t
            <4>1. thr'[v] = thr[v] /\ (thr[v].c # NULL => thr[v].c # thr[t].c /\ conn[thr[v].c].used)
                BY <1>1, <3>2 DEF OneUser
            <4>2. thr[v].c # NULL => conn'[thr[v].c].used
                BY <1>3, <4>1 DEF Evolves
            <4> QED BY <4>1, <4>2 DEF OneUser
        <3> QED BY <3>1, <3>2
    <2>2. ASSUME NEW v \in Threads, NEW w \in Threads, thr'[v].c # NULL, thr'[v].c = thr'[w].c
          PROVE  v = w
        BY <1>1, <2>2 DEF OneUser, GoesOn
    <2> QED BY <2>1, <2>2 DEF OneUser
<1>6. PendingUnknown'
    <2> SUFFICES ASSUME NEW a \in Conns, NEW d \in Conns, d \in PendingIn(conn'[a].acceptmbox)
                 PROVE  /\ conn'[d].used
                        /\ \A b \in Conns : d \in PendingIn(conn'[b].acceptmbox) => b = a
                        /\ \A v \in Threads : thr'[v].c # d
        BY DEF PendingUnknown, PendingIn
    <2>1. /\ conn[d].used /\ \A b \in Conns : d \in PendingIn(conn[b].acceptmbox) => b = a
          /\ \A v \in Threads : thr[v].c # d
        <3>1. d \in PendingIn(conn[a].acceptmbox)
            BY DEF Evolves
        <3> QED BY <3>1 DEF PendingUnknown
    <2>2. conn'[d].used
        BY <2>1 DEF Evolves
    <2>3. \A b \in Conns : d \in PendingIn(conn'[b].acceptmbox) => b = a
        BY <2>1 DEF Evolves
    <2>4. m.c # d
        BY DEF GoesOn
    <2> QED BY <1>1, <2>1, <2>2, <2>3, <2>4
<1>7. QueuedOnce'
    <2>1. ToSet(mbox) \subseteq Threads
        BY MailboxElements DEF TypeOK
    <2>2. \A v \in ToSet(mbox') : thr'[v].pc = "call"
        BY <1>1, <1>2, <2>1 DEF QueuedOnce
    <2> QED BY <1>2, <2>2 DEF QueuedOnce, IsInjective
<1>8. ParkedOnce'
    <2> SUFFICES ASSUME NEW d \in Conns
                 PROVE  /\ conn'[d].current # NULL =>
                             /\ thr'[conn'[d].current].pc = "call" /\ thr'[conn'[d].current].c = d
                             /\ conn'[d].current \notin ToSet(mbox') /\ conn'[d].op_completed = 0
                        /\ InProgress(conn'[d]) => conn'[d].current # NULL
        BY DEF ParkedOnce, InProgress
    <2>1. conn[d].current \in (Threads \ {t}) \cup {NULL}
        BY DEF TypeOK, ConnType
    <2>2. /\ conn'[d].current = conn[d].current /\ (InProgress(conn'[d]) => InProgress(conn[d]))
          /\ conn'[d].op_completed \in {conn[d].op_completed, 0}
        BY DEF Evolves
    <2>3. /\ conn[d].current # NULL =>
                 /\ thr[conn[d].current].pc = "call" /\ thr[conn[d].current].c = d
                 /\ conn[d].current \notin ToSet(mbox) /\ conn[d].op_completed = 0
          /\ InProgress(conn[d]) => conn[d].current # NULL
        BY DEF ParkedOnce
    <2> QED BY <1>1, <1>2, <2>1, <2>2, <2>3
<1>9. ConnectsInState'
    <2>1. ASSUME NEW d \in Conns PROVE Connecting(pcb[d]) => conn'[d].state = "CONNECT" /\ conn'[d].pcb
        BY DEF Evolves
    <2>2. ASSUME NEW v \in Threads, thr'[v].pc = "call"
          PROVE  /\ thr'[v].fn = "newconn" => pcb[thr'[v].c].state \in {"none", "CLOSED"}
                 /\ thr'[v].fn = "delete" /\ conn'[thr'[v].c].op_completed = 1
                        => ~Connecting(pcb[thr'[v].c])
        <3>1. CASE v = t
            <4>1. thr'[v] = m /\ m.c \in Conns
                BY <1>1, <1>3, <2>2, <3>1 DEF GoesOn
            <4>2. conn'[m.c].op_completed = 0
                BY <4>1 DEF Evolves
            <4> QED BY <2>2, <4>1, <4>2 DEF GoesOn
        <3>2. CASE v # t
            <4>1. thr'[v] = thr[v] /\ thr[v].c \in Conns
                BY <1>1, <1>3, <2>2, <3>2 DEF OneUser
            <4>2. conn'[thr[v].c].op_completed = 1 => conn[thr[v].c].op_completed = 1
                BY <4>1 DEF Evolves
            <4> QED BY <2>2, <4>1, <4>2 DEF ConnectsInState
        <3> QED BY <3>1, <3>2
    <2> QED BY <2>1, <2>2 DEF ConnectsInState, Connecting
<1>10. OneAnswer'
    <2> SUFFICES ASSUME NEW d \in Conns, conn'[d].op_completed = 1
                 PROVE  \E v \in Threads : /\ thr'[v].pc = "call" /\ thr'[v].c = d
                                            /\ v \notin ToSet(mbox') /\ conn'[d].current # v
        BY DEF OneAnswer, ToSet
    <2>1. /\ conn[d].op_completed = 1 /\ thr[t].c # d /\ conn'[d].current = conn[d].current
        BY DEF Evolves
    <2>2. PICK v \in Threads : /\ thr[v].pc = "call" /\ thr[v].c = d
                               /\ v \notin ToSet(mbox) /\ conn[d].current # v
        BY <2>1 DEF OneAnswer
    <2> QED BY <1>1, <1>2, <2>1, <2>2
<1> QED BY <1>4, <1>5, <1>6, <1>7, <1>8, <1>9, <1>10

LEMMA IdleType == Idle \in ThrType /\ Idle.pc = "idle" /\ Idle.c = NULL /\ Idle.fn = NULL
    BY DEF Idle, ThrType, CallNames

Posted(x, c, fn) == [x EXCEPT !.pc = "call", !.c = c, !.fn = fn]

LEMMA PostedType ==
    ASSUME NEW x \in ThrType, NEW c \in Conns, NEW fn \in CallNames
    PROVE  /\ Posted(x, c, fn) \in ThrType /\ Posted(x, c, fn).pc = "call"
           /\ Posted(x, c, fn).c = c /\ Posted(x, c, fn).fn = fn
<1>1. [x EXCEPT !.pc = "call"] \in ThrType
    BY DEF ThrType
<1>2. ASSUME NEW y \in ThrType PROVE [y EXCEPT !.c = c] \in ThrType
    BY DEF ThrType
<1>3. ASSUME NEW y \in ThrType PROVE [y EXCEPT !.fn = fn] \in ThrType
    BY DEF ThrType
<1>4. [x EXCEPT !.pc = "call", !.c = c, !.fn = fn] \in ThrType
    BY <1>1, <1>2, <1>3
<1> QED BY <1>4 DEF Posted, ThrType

LEMMA NotCalling ==
    ASSUME NetconnInv, NEW t \in Threads, thr[t].pc # "call"
    PROVE  t \notin ToSet(mbox) /\ \A d \in Conns : conn[d].current # t
    BY NetconnAssumption DEF NetconnInv, QueuedOnce, ParkedOnce

LEMMA NotAnswered ==
    ASSUME NetconnInv, NEW d \in Conns, \A v \in Threads : thr[v].c = d => thr[v].pc # "call"
    PROVE  conn[d].op_completed = 0 /\ conn[d].current = NULL
<1>1. conn[d].op_completed # 1
    BY DEF NetconnInv, OneAnswer
<1>2. conn[d].current = NULL
    <2> SUFFICES ASSUME conn[d].current # NULL PROVE FALSE
        OBVIOUS
    <2>1. conn[d].current \in Threads
        BY DEF NetconnInv, TypeOK, ConnType
    <2>2. thr[conn[d].current].pc = "call" /\ thr[conn[d].current].c = d
        BY DEF NetconnInv, ParkedOnce
    <2> QED BY <2>1, <2>2
<1> QED BY <1>1, <1>2 DEF NetconnInv, TypeOK, ConnType

(* A thread that MayUse c makes a call or waits; connections are unchanged.*)
LEMMA UserGoesOn ==
    ASSUME NetconnInv, NEW t \in Threads, NEW c \in Conns, MayUse(t, c), NEW m \in ThrType,
           m.pc # "idle", m.c = c, m.pc = "call" => m.fn # "newconn", conn' = conn, pcb' = pcb,
           thr' = [thr EXCEPT ![t] = m], mbox' = IF m.pc = "call" THEN Append(mbox, t) ELSE mbox
    PROVE  NetconnInv'
<1>1. /\ thr[t].pc = "idle" /\ conn[c].used /\ (\A v \in Threads : thr[v].c # c)
      /\ \A d \in Conns : c \notin PendingIn(conn[d].acceptmbox)
    BY DEF MayUse, Pending, PendingIn
<1>2. conn[c].op_completed = 0 /\ thr[t].c = NULL
    BY <1>1, NotAnswered DEF NetconnInv, OneUser
<1>3. GoesOn(t, m)
    BY <1>1, NetconnAssumption DEF GoesOn
<1>4. \A d \in Conns : Evolves(t, m, d)
    BY <1>2, KeepsSelf, NetconnAssumption DEF Evolves
<1>5. t \notin ToSet(mbox) /\ \A d \in Conns : conn[d].current # t
    BY <1>1, NotCalling
<1>6. conn' \in [Conns -> ConnType]
    BY DEF NetconnInv, TypeOK
<1> QED BY <1>3, <1>4, <1>5, <1>6, ThreadStep

LEMMA RequestPosted ==
    ASSUME NetconnInv, NEW t \in Threads, NEW c \in Conns, netconn_request(t, c)
    PROVE  NetconnInv'
<1>1. MayUse(t, c) /\ conn' = conn /\ pcb' = pcb
    BY DEF netconn_request
<1>2. ASSUME NEW x \in ThrType, NEW fn \in CallNames \ {"newconn"}, tcpip_apimsg(t, c, fn, x)
      PROVE  NetconnInv'
    <2>1. LET m == Posted(x, c, fn)
          IN m \in ThrType /\ m.pc = "call" /\ m.c = c /\ m.fn # "newconn"
        BY <1>2, PostedType
    <2>2. thr' = [thr EXCEPT ![t] = Posted(x, c, fn)] /\ mbox' = Append(mbox, t)
        BY <1>2 DEF tcpip_apimsg, Posted
    <2> QED BY <1>1, <2>1, <2>2, UserGoesOn
<1>3. CASE \E fn \in {"bind", "getaddr", "listen", "delete"} : tcpip_apimsg(t, c, fn, Idle)
    BY <1>2, <1>3, IdleType DEF CallNames
<1>4. CASE \E nb \in BOOLEAN : tcpip_apimsg(t, c, "connect", [Idle EXCEPT !.dontblock = nb])
    <2>1. \A nb \in BOOLEAN : [Idle EXCEPT !.dontblock = nb] \in ThrType
        BY IdleType DEF ThrType
    <2> QED BY <1>2, <1>4, <2>1 DEF CallNames
<1>5. CASE \E len \in 1..MaxLen, nb \in BOOLEAN :
              tcpip_apimsg(t, c, "write", [Idle EXCEPT !.len = len, !.dontblock = nb])
    <2>1. ASSUME NEW x \in ThrType, NEW nb \in BOOLEAN PROVE [x EXCEPT !.dontblock = nb] \in ThrType
        BY DEF ThrType
    <2>2. \A len \in Nat : [Idle EXCEPT !.len = len] \in ThrType
        BY IdleType DEF ThrType
    <2>3. \A len \in 1..MaxLen, nb \in BOOLEAN : [Idle EXCEPT !.len = len, !.dontblock = nb] \in ThrType
        <3> SUFFICES ASSUME NEW len \in 1..MaxLen, NEW nb \in BOOLEAN
                     PROVE  [Idle EXCEPT !.len = len, !.dontblock = nb] \in ThrType
            OBVIOUS
        <3>1. [Idle EXCEPT !.len = len] \in ThrType
            BY <2>2, NetconnAssumption
        <3> QED BY <2>1, <3>1
    <2> QED BY <1>2, <1>5, <2>3 DEF CallNames
<1>6. CASE \E how \in Shutdowns : tcpip_apimsg(t, c, "close", [Idle EXCEPT !.how = how])
    <2>1. \A how \in {"RD", "WR", "RDWR"} : [Idle EXCEPT !.how = how] \in ThrType
        BY IdleType DEF ThrType
    <2> QED BY <1>2, <1>6, <2>1, NetconnAssumption DEF CallNames
<1> QED BY <1>3, <1>4, <1>5, <1>6 DEF netconn_request

LEMMA WaitStarted ==
    ASSUME NetconnInv, NEW t \in Threads, NEW c \in Conns, netconn_accept(t, c) \/ netconn_recv(t, c)
    PROVE  NetconnInv'
<1>1. ASSUME NEW how \in {"accept", "recv"}, MayUse(t, c),
             thr' = [thr EXCEPT ![t] = [Idle EXCEPT !.pc = how, !.c = c]],
             UNCHANGED <<conn, pcb, mbox>>
      PROVE  NetconnInv'
    <2> DEFINE m == [Idle EXCEPT !.pc = how, !.c = c]
    <2>1. m \in ThrType /\ m.pc = how /\ m.c = c
        <3>1. \A x \in ThrType : [x EXCEPT !.pc = how] \in ThrType /\ [x EXCEPT !.c = c] \in ThrType
            BY DEF ThrType
        <3>2. m = [[Idle EXCEPT !.pc = how] EXCEPT !.c = c]
            OBVIOUS
        <3>3. m \in ThrType
            BY <3>1, <3>2, IdleType
        <3> QED BY <3>3 DEF ThrType, Idle
    <2> HIDE DEF m
    <2>2. thr' = [thr EXCEPT ![t] = m]
        BY <1>1 DEF m
    <2> QED BY <1>1, <2>1, <2>2, UserGoesOn
<1> QED BY <1>1 DEF netconn_accept, netconn_recv

LEMMA NewPosted ==
    ASSUME NetconnInv, NEW t \in Threads, NEW c \in Conns, netconn_new(t, c)
    PROVE  NetconnInv'
<1> DEFINE m == Posted(Idle, c, "newconn")
<1>1. /\ thr[t].pc = "idle" /\ ~conn[c].used /\ pcb[c].state = "none" /\ pcb' = pcb
      /\ conn' = [conn EXCEPT ![c] = netconn_alloc]
      /\ thr' = [thr EXCEPT ![t] = m] /\ mbox' = Append(mbox, t)
    BY DEF netconn_new, tcpip_apimsg, Posted
<1>2. m \in ThrType /\ m.pc = "call" /\ m.c = c /\ m.fn = "newconn"
    BY IdleType, PostedType DEF CallNames
<1> HIDE DEF m
<1>3. conn \in [Conns -> ConnType]
    BY DEF NetconnInv, TypeOK
<1>4. /\ conn' \in [Conns -> ConnType] /\ conn'[c] = netconn_alloc
      /\ \A d \in Conns \ {c} : conn'[d] = conn[d]
    BY <1>1, <1>3, AllocTypes
<1>5. \A v \in Threads : thr[v].c # c
    BY <1>1, NetconnAssumption DEF NetconnInv, OneUser
<1>6. conn[c].current = NULL
    BY <1>5, NotAnswered
<1>7. \A d \in Conns : c \notin PendingIn(conn'[d].acceptmbox)
    BY <1>1, <1>4, AllocTypes DEF NetconnInv, PendingUnknown
<1>8. GoesOn(t, m)
    BY <1>1, <1>2, <1>4, <1>5, <1>7, AllocTypes, NetconnAssumption DEF GoesOn
<1>9. ~Connecting(pcb[c]) /\ thr[t].c = NULL
    BY <1>1 DEF Connecting, NetconnInv, OneUser
<1>10. Evolves(t, m, c)
    BY <1>1, <1>4, <1>6, <1>9, AllocTypes DEF Evolves, InProgress
<1>11. \A d \in Conns \ {c} : Evolves(t, m, d)
    BY <1>2, <1>4, <1>9, KeepsSelf, NetconnAssumption DEF Evolves
<1>12. t \notin ToSet(mbox) /\ \A d \in Conns : conn[d].current # t
    BY <1>1, NotCalling
<1> QED BY <1>1, <1>2, <1>4, <1>8, <1>10, <1>11, <1>12, ThreadStep

(* A thread is done with connection c: k is what it leaves of it.          *)
LEMMA UserMovesOn ==
    ASSUME NetconnInv, NEW t \in Threads, NEW c \in Conns, thr[t].c = c, NEW k \in ConnType,
           NEW m \in ThrType,
           (m.pc = "idle" /\ m.c = NULL) \/ (m.pc = "call" /\ m.c = c /\ m.fn # "newconn"),
           t \notin ToSet(mbox), \A d \in Conns : conn[d].current # t,
           conn' = [conn EXCEPT ![c] = k], pcb' = pcb, thr' = [thr EXCEPT ![t] = m],
           mbox' = IF m.pc = "call" THEN Append(mbox, t) ELSE mbox,
           k.current = conn[c].current, k.op_completed = 0,
           PendingIn(k.acceptmbox) \subseteq PendingIn(conn[c].acceptmbox),
           InProgress(k) => InProgress(conn[c]),
           Connecting(pcb[c]) => k.state = "CONNECT" /\ k.pcb,
           k.used \/ m.c = NULL
    PROVE  NetconnInv'
<1>1. conn \in [Conns -> ConnType]
    BY DEF NetconnInv, TypeOK
<1>2. /\ conn' \in [Conns -> ConnType] /\ conn'[c] = k /\ \A d \in Conns \ {c} : conn'[d] = conn[d]
    BY <1>1
<1>3. \A v \in Threads \ {t} : thr[v].c # c
    BY OnlyUser
<1>4. \A d \in Conns : c \notin PendingIn(conn'[d].acceptmbox)
    BY <1>2 DEF NetconnInv, PendingUnknown
<1>5. GoesOn(t, m)
    BY <1>2, <1>3, <1>4, NetconnAssumption DEF GoesOn
<1>6. Evolves(t, m, c)
    BY <1>2, NetconnAssumption DEF Evolves
<1>7. \A d \in Conns \ {c} : Evolves(t, m, d)
    BY <1>2, KeepsSelf, NetconnAssumption DEF Evolves
<1>8. \A d \in Conns : Evolves(t, m, d) /\ conn[d].current # t
    BY <1>6, <1>7
<1>9. conn' \in [Conns -> ConnType] /\ GoesOn(t, m)
    BY <1>2, <1>5
<1> QED BY <1>8, <1>9, ThreadStep

LEMMA UserRests ==
    ASSUME NetconnInv, NEW t \in Threads, NEW c \in Conns, thr[t].c = c, NEW k \in ConnType,
           t \notin ToSet(mbox), \A d \in Conns : conn[d].current # t,
           conn' = [conn EXCEPT ![c] = k], pcb' = pcb, thr' = [thr EXCEPT ![t] = Idle], mbox' = mbox,
           k.current = conn[c].current, k.op_completed = 0,
           PendingIn(k.acceptmbox) \subseteq PendingIn(conn[c].acceptmbox),
           InProgress(k) => InProgress(conn[c]),
           Connecting(pcb[c]) => k.state = "CONNECT" /\ k.pcb
    PROVE  NetconnInv'
<1> DEFINE m == Idle
<1>1. m \in ThrType /\ m.pc = "idle" /\ m.c = NULL /\ thr' = [thr EXCEPT ![t] = m]
    BY IdleType
<1> HIDE DEF m
<1>2. mbox' = IF m.pc = "call" THEN Append(mbox, t) ELSE mbox
    BY <1>1
<1> QED BY <1>1, <1>2, UserMovesOn

LEMMA MailboxTaken ==
    ASSUME NetconnInv, NEW t \in Threads, thr[t].pc \in {"accept", "recv"}
    PROVE  LET c == thr[t].c
           IN /\ c \in Conns /\ conn[c] \in ConnType /\ conn[c].used /\ conn[c].op_completed = 0
              /\ t \notin ToSet(mbox) /\ \A d \in Conns : conn[d].current # t
<1>1. thr[t].c \in Conns /\ conn[thr[t].c].used
    BY DEF NetconnInv, OneUser, TypeOK, ThrType
<1>2. \A v \in Threads : thr[v].c = thr[t].c => v = t
    BY <1>1, OnlyUser
<1>3. conn[thr[t].c].op_completed = 0
    BY <1>1, <1>2, NotAnswered
<1>4. conn[thr[t].c] \in ConnType
    BY <1>1, KeepsSelf
<1> QED BY <1>1, <1>3, <1>4, NotCalling

LEMMA AcceptFetched ==
    ASSUME NetconnInv, NEW t \in Threads, AcceptFetch(t)
    PROVE  NetconnInv'
<1> DEFINE c == thr[t].c
           a == [conn[c] EXCEPT !.acceptmbox = Tail(@)]
           f == [a EXCEPT !.fatal = TRUE]
<1>1. /\ c \in Conns /\ conn[c] \in ConnType /\ conn[c].used /\ conn[c].op_completed = 0
      /\ t \notin ToSet(mbox) /\ \A d \in Conns : conn[d].current # t
    BY MailboxTaken DEF AcceptFetch
<1>2. /\ conn[c].acceptmbox # <<>> /\ pcb' = pcb /\ mbox' = mbox /\ thr' = [thr EXCEPT ![t] = Idle]
    BY DEF AcceptFetch
<1>3. conn \in [Conns -> ConnType]
    BY DEF NetconnInv, TypeOK
<1>4. conn' = [conn EXCEPT ![c] = a] \/ conn' = [conn EXCEPT ![c] = f]
    BY <1>1, <1>3 DEF AcceptFetch
<1>5. /\ Tail(conn[c].acceptmbox) \in Seq(Msgs)
      /\ PendingIn(Tail(conn[c].acceptmbox)) \subseteq PendingIn(conn[c].acceptmbox)
    BY <1>1, <1>2, TailKeeps DEF ConnType
<1>6. \A k \in {a, f} : /\ k \in ConnType /\ k.used = conn[c].used /\ k.current = conn[c].current
                        /\ k.op_completed = conn[c].op_completed /\ k.state = conn[c].state
                        /\ k.nonblocking = conn[c].nonblocking /\ k.pcb = conn[c].pcb
                        /\ k.acceptmbox = Tail(conn[c].acceptmbox)
    <2>1. /\ a \in ConnType /\ a.used = conn[c].used /\ a.current = conn[c].current
          /\ a.op_completed = conn[c].op_completed /\ a.state = conn[c].state
          /\ a.nonblocking = conn[c].nonblocking /\ a.pcb = conn[c].pcb
          /\ a.acceptmbox = Tail(conn[c].acceptmbox)
        BY <1>1, <1>5 DEF ConnType
    <2> HIDE DEF a
    <2>2. /\ f \in ConnType /\ f.used = a.used /\ f.current = a.current
          /\ f.op_completed = a.op_completed /\ f.state = a.state
          /\ f.nonblocking = a.nonblocking /\ f.pcb = a.pcb /\ f.acceptmbox = a.acceptmbox
        BY <2>1 DEF ConnType
    <2> HIDE DEF f
    <2> QED BY <2>1, <2>2
<1> HIDE DEF a, f
<1>7. ASSUME NEW k \in {a, f}, conn' = [conn EXCEPT ![c] = k] PROVE NetconnInv'
    <2>1. (InProgress(k) => InProgress(conn[c])) /\ (Connecting(pcb[c]) => k.state = "CONNECT" /\ k.pcb)
        BY <1>1, <1>6, <1>7, KeepsSelf DEF InProgress
    <2>2. /\ k \in ConnType /\ k.current = conn[c].current /\ k.op_completed = 0 /\ k.used
          /\ PendingIn(k.acceptmbox) \subseteq PendingIn(conn[c].acceptmbox)
        BY <1>1, <1>5, <1>6, <1>7
    <2> QED BY <1>1, <1>2, <1>7, <2>1, <2>2, UserRests
<1> QED BY <1>4, <1>7

LEMMA RecvFetched ==
    ASSUME NetconnInv, NEW t \in Threads, RecvFetch(t)
    PROVE  NetconnInv'
<1> DEFINE c  == thr[t].c
           k  == [conn[c] EXCEPT !.recvmbox = Tail(@)]
           fn == IF Head(conn[c].recvmbox) = NULL THEN "recvEof" ELSE "recv"
           m  == Posted(Idle, c, fn)
<1>1. /\ c \in Conns /\ conn[c] \in ConnType /\ conn[c].used /\ conn[c].op_completed = 0
      /\ t \notin ToSet(mbox) /\ \A d \in Conns : conn[d].current # t
    BY MailboxTaken DEF RecvFetch
<1>2. conn \in [Conns -> ConnType]
    BY DEF NetconnInv, TypeOK
<1>3. /\ conn[c].recvmbox # <<>> /\ pcb' = pcb /\ mbox' = Append(mbox, t)
      /\ thr' = [thr EXCEPT ![t] = m] /\ conn' = [conn EXCEPT ![c] = k]
    BY <1>1, <1>2 DEF RecvFetch, tcpip_apimsg, Posted
<1>4. Tail(conn[c].recvmbox) \in Seq(Msgs)
    BY <1>1, <1>3, TailKeeps DEF ConnType
<1>5. /\ k \in ConnType /\ k.used = conn[c].used /\ k.current = conn[c].current
      /\ k.op_completed = conn[c].op_completed /\ k.state = conn[c].state
      /\ k.nonblocking = conn[c].nonblocking /\ k.pcb = conn[c].pcb
      /\ k.acceptmbox = conn[c].acceptmbox
    BY <1>1, <1>4 DEF ConnType
<1>6. m \in ThrType /\ m.pc = "call" /\ m.c = c /\ m.fn # "newconn"
    <2>1. fn \in CallNames /\ fn # "newconn"
        BY DEF CallNames
    <2> HIDE DEF fn
    <2> QED BY <1>1, <2>1, IdleType, PostedType
<1> HIDE DEF k, m
<1>7. (InProgress(k) => InProgress(conn[c])) /\ (Connecting(pcb[c]) => k.state = "CONNECT" /\ k.pcb)
    BY <1>1, <1>5, KeepsSelf DEF InProgress
<1> QED BY <1>1, <1>3, <1>5, <1>6, <1>7, UserMovesOn

LEMMA Returned ==
    ASSUME NetconnInv, NEW t \in Threads, CallReturns(t)
    PROVE  NetconnInv'
<1> DEFINE c    == thr[t].c
           gone == thr[t].fn = "delete" \/ (thr[t].fn = "newconn" /\ thr[t].err # "OK")
           r    == Answered(conn[c], thr[t])
           k    == IF gone THEN FreeConn ELSE r
<1>1. /\ thr[t].pc = "call" /\ conn[c].op_completed = 1 /\ pcb' = pcb /\ mbox' = mbox
      /\ thr' = [thr EXCEPT ![t] = Idle]
    BY DEF CallReturns
<1>2. c \in Conns /\ conn[c].used /\ conn \in [Conns -> ConnType]
    BY <1>1 DEF NetconnInv, OneUser, TypeOK, ThrType
<1>3. conn' = [conn EXCEPT ![c] = k]
    BY DEF CallReturns
<1>4. t \notin ToSet(mbox)
    <2>1. PICK v \in Threads : thr[v].c = c /\ v \notin ToSet(mbox)
        BY <1>1, <1>2 DEF NetconnInv, OneAnswer
    <2>2. v = t
        BY <1>2, <2>1, OnlyUser
    <2> QED BY <2>1, <2>2
<1>5. conn[c].current = NULL /\ \A d \in Conns : conn[d].current # t
    BY <1>1, <1>2, NetconnAssumption DEF NetconnInv, ParkedOnce
<1>6. /\ r \in ConnType /\ r.used /\ r.current = NULL /\ r.op_completed = 0
      /\ r.acceptmbox = conn[c].acceptmbox /\ r.state = conn[c].state
      /\ r.nonblocking = conn[c].nonblocking /\ r.pcb = conn[c].pcb
    <2> DEFINE z == [conn[c] EXCEPT !.op_completed = 0]
               b == z.fatal \/ thr[t].err = "fatal" \/ thr[t].fn = "recvEof"
    <2>1. /\ z \in ConnType /\ z.used /\ z.current = NULL /\ z.op_completed = 0
          /\ z.acceptmbox = conn[c].acceptmbox /\ z.state = conn[c].state
          /\ z.nonblocking = conn[c].nonblocking /\ z.pcb = conn[c].pcb
        <3>1. conn[c] \in ConnType
            BY <1>2
        <3>2. z \in ConnType
            BY <3>1 DEF ConnType
        <3> QED BY <1>2, <1>5, <3>1, <3>2 DEF ConnType
    <2>2. b \in BOOLEAN
        OBVIOUS
    <2>3. r = [z EXCEPT !.fatal = b]
        BY DEF Answered
    <2> HIDE DEF z, b, r
    <2> QED BY <2>1, <2>2, <2>3 DEF ConnType
<1>7. gone => ~Connecting(pcb[c])
    BY <1>1, <1>2 DEF NetconnInv, ConnectsInState, Connecting
<1>8. /\ FreeConn \in ConnType /\ FreeConn.current = NULL /\ FreeConn.op_completed = 0
      /\ PendingIn(FreeConn.acceptmbox) = {} /\ ~InProgress(FreeConn)
    BY FreeTypes DEF FreeConn, InProgress
<1> HIDE DEF gone, r, c
<1>9. /\ k \in ConnType /\ k.current = conn[c].current /\ k.op_completed = 0
      /\ PendingIn(k.acceptmbox) \subseteq PendingIn(conn[c].acceptmbox)
      /\ InProgress(k) => InProgress(conn[c])
      /\ Connecting(pcb[c]) => k.state = "CONNECT" /\ k.pcb
    <2>1. CASE gone
        BY <1>5, <1>7, <1>8, <2>1
    <2>2. CASE ~gone
        BY <1>2, <1>5, <1>6, <2>2, KeepsSelf DEF InProgress
    <2> QED BY <2>1, <2>2
<1> HIDE DEF k
<1>10. thr[t].c = c
    BY DEF c
<1> QED BY <1>1, <1>2, <1>3, <1>4, <1>5, <1>9, <1>10, UserRests
-----------------------------------------------------------------------------
(* The theorem.                                                            *)

LEMMA InitGood == NetconnInit => NetconnInv
<1> SUFFICES ASSUME NetconnInit PROVE NetconnInv
    OBVIOUS
<1>1. /\ conn = [c \in Conns |-> FreeConn] /\ pcb = [c \in Conns |-> NoPcb]
      /\ thr = [t \in Threads |-> Idle] /\ mbox = <<>>
    BY DEF NetconnInit
<1>2. /\ FreeConn \in ConnType /\ NoPcb \in PcbType /\ Idle \in ThrType
      /\ PendingIn(FreeConn.acceptmbox) = {} /\ Idle.pc = "idle" /\ Idle.c = NULL
      /\ FreeConn.current = NULL /\ FreeConn.op_completed = 0 /\ ~InProgress(FreeConn)
      /\ ~Connecting(NoPcb)
    BY FreeTypes, IdleType DEF FreeConn, NoPcb, InProgress, Connecting
<1>3. TypeOK
    BY <1>1, <1>2 DEF TypeOK
<1>4. OneUser /\ PendingUnknown /\ ConnectsInState
    BY <1>1, <1>2 DEF OneUser, PendingUnknown, ConnectsInState
<1>5. QueuedOnce
    BY <1>1 DEF QueuedOnce, IsInjective, ToSet
<1>6. ParkedOnce /\ OneAnswer
    BY <1>1, <1>2 DEF ParkedOnce, OneAnswer
<1> QED BY <1>3, <1>4, <1>5, <1>6 DEF NetconnInv

LEMMA StepGood == NetconnInv /\ [NetconnNext]_netconnVars => NetconnInv'
<1> SUFFICES ASSUME NetconnInv, [NetconnNext]_netconnVars PROVE NetconnInv'
    OBVIOUS
<1>1. CASE \E t \in Threads : AppNext(t)
    <2>1. PICK t \in Threads : AppNext(t)
        BY <1>1
    <2>2. CASE \E c \in Conns : netconn_new(t, c) \/ netconn_request(t, c)
                                  \/ netconn_accept(t, c) \/ netconn_recv(t, c)
        BY <2>2, NewPosted, RequestPosted, WaitStarted
    <2>3. CASE AcceptFetch(t) \/ RecvFetch(t) \/ CallReturns(t)
        BY <2>3, AcceptFetched, RecvFetched, Returned
    <2> QED BY <2>1, <2>2, <2>3 DEF AppNext
<1>2. CASE tcpip_thread_api
    BY <1>2, RequestStep
<1>3. CASE \E c \in Conns : TcpEvent(c)
    <2>1. PICK c \in Conns : TcpEvent(c)
        BY <1>3
    <2>2. CASE do_connected(c) \/ err_tcp(c) \/ recv_tcp(c)
        BY <2>2, ConnectedStep, ErrStep, RecvStep
    <2>3. CASE \E nomem \in BOOLEAN : sent_tcp(c, nomem)
        BY <2>3, SentStep
    <2>4. CASE \E new \in Conns : accept_function(c, new)
        BY <2>4, AcceptStep
    <2> QED BY <2>1, <2>2, <2>3, <2>4 DEF TcpEvent
<1>4. CASE UNCHANGED netconnVars
    <2>1. conn' = conn /\ pcb' = pcb /\ thr' = thr /\ mbox' = mbox
        BY <1>4 DEF netconnVars
    <2>2. TypeOK' /\ OneUser' /\ ConnectsInState'
        BY <2>1 DEF NetconnInv, TypeOK, OneUser, ConnectsInState, Connecting
    <2>3. PendingUnknown'
        BY <2>1 DEF NetconnInv, PendingUnknown, PendingIn
    <2>4. QueuedOnce' /\ ParkedOnce' /\ OneAnswer'
        BY <2>1 DEF NetconnInv, QueuedOnce, ParkedOnce, OneAnswer, IsInjective, InProgress, ToSet
    <2> QED BY <2>2, <2>3, <2>4 DEF NetconnInv
<1> QED BY <1>1, <1>2, <1>3, <1>4 DEF NetconnNext

(* Every request of an application thread to tcpip_thread is answered at   *)
(* most once, and only the thread that made it is answered: op_completed   *)
(* of a connection is signalled while exactly one call on it waits, whose  *)
(* request is neither queued nor parked any more.                          *)
THEOREM RequestsAnsweredOnce == NetconnSpec => []OneAnswer
<1>1. NetconnSpec => []NetconnInv
    BY InitGood, StepGood, PTL DEF NetconnSpec
<1>2. NetconnInv => OneAnswer
    BY DEF NetconnInv
<1> QED BY <1>1, <1>2, PTL

-----------------------------------------------------------------------------
(* Writes.  The bytes a parked write has behind it are counted twice, as   *)
(* write_offset of the connection and as what tcp_write took; that the two *)
(* stay equal is the reason why a retry starts where it should.            *)

(* A connection with a control block: what its states say of its fields.   *)
(* Without one it may keep the rest of an operation, and no one reads it.  *)
Settled(k) ==
    /\ k.state = "WRITE" => k.pcb /\ ~k.nonblocking
    /\ k.pcb /\ k.state # "WRITE" => k.write_offset = 0
    /\ k.pcb /\ k.state \in {"NONE", "LISTEN"} => k.current = NULL
    /\ k.pcb /\ k.state = "NONE" => ~k.nonblocking

(* Only a write that may block is parked as one.                           *)
WriteParked(k) ==
    k.state = "WRITE" => thr[k.current].fn = "write" /\ ~thr[k.current].dontblock

(* The request q of thread t on connection k: what tcp_write took of a     *)
(* write that is not answered is what the connection says, less than all;  *)
(* an answered one is complete or has an error.  A connection that is      *)
(* being created is as netconn_alloc made it.                              *)
RequestTrue(t, k, q) ==
    /\ q.pc = "call" /\ q.fn = "write" =>
         /\ q.len > 0
         /\ k.op_completed = 1 => (q.err = "OK" <=> q.queued = q.len)
         /\ k.op_completed = 0 =>
              /\ q.err = "OK" /\ q.queued < q.len
              /\ q.queued = (IF k.current = t THEN k.write_offset ELSE 0)
              /\ k.current = t => k.state = "WRITE"
    /\ q.pc = "call" /\ q.fn = "newconn" => k.write_offset = 0 /\ k.state = "NONE" /\ ~k.nonblocking

WriteInv ==
    /\ \A c \in Conns : Settled(conn[c]) /\ WriteParked(conn[c])
    /\ \A t \in Threads : thr[t].c # NULL => RequestTrue(t, conn[thr[t].c], thr[t])

(* A step touches one connection and the threads that use it, before or    *)
(* after; other connections stay, or are made or freed and known to nobody.*)
Elsewhere(c) ==
    /\ \A d \in Conns \ {c} :
         \/ conn'[d] = conn[d]
         \/ Settled(conn'[d]) /\ conn'[d].state = "NONE" /\ \A t \in Threads : thr[t].c # d
    /\ \A t \in Threads :
         \/ thr'[t] = thr[t]
         \/ thr[t].c \in {c, NULL} /\ thr'[t].c \in {c, NULL}

LEMMA WriteLocal ==
    ASSUME NetconnInv, WriteInv, NEW c \in Conns, Elsewhere(c),
           Settled(conn'[c]), WriteParked(conn[c])',
           \A t \in Threads : thr'[t].c = c => RequestTrue(t, conn'[c], thr'[t])
    PROVE  WriteInv'
<1>1. ASSUME NEW d \in Conns PROVE (Settled(conn[d]) /\ WriteParked(conn[d]))'
    <2>1. CASE d = c
        BY <2>1
    <2>2. CASE d # c /\ conn'[d] = conn[d] /\ conn[d].state = "WRITE"
        <3>1. conn[d].current \in Threads /\ thr[conn[d].current].c = d
            BY <2>2, KeepsSelf DEF NetconnInv, ParkedOnce, InProgress, ConnType
        <3>2. thr'[conn[d].current] = thr[conn[d].current]
            BY <2>2, <3>1, NetconnAssumption DEF Elsewhere
        <3> QED BY <2>2, <3>2 DEF WriteInv, WriteParked, Settled
    <2>3. CASE d # c /\ conn'[d] = conn[d] /\ conn[d].state # "WRITE"
        BY <2>3 DEF WriteInv, WriteParked, Settled
    <2>4. CASE d # c /\ conn'[d] # conn[d]
        BY <2>4 DEF Elsewhere, WriteParked, Settled
    <2> QED BY <2>1, <2>2, <2>3, <2>4
<1>2. ASSUME NEW t \in Threads
      PROVE  thr'[t].c # NULL => RequestTrue(t, conn'[thr'[t].c], thr'[t])
    <2>1. CASE thr'[t].c = c
        BY <2>1, NetconnAssumption
    <2>2. CASE thr'[t].c # c /\ thr'[t] # thr[t]
        BY <2>2 DEF Elsewhere
    <2>3. CASE thr'[t].c # c /\ thr'[t] = thr[t] /\ thr[t].c = NULL
        BY <2>3 DEF WriteInv
    <2>4. CASE thr'[t].c # c /\ thr'[t] = thr[t] /\ thr[t].c # NULL
        <3>1. thr[t].c \in Conns \ {c}
            BY <2>4 DEF NetconnInv, TypeOK, ThrType
        <3>2. conn'[thr[t].c] = conn[thr[t].c]
            BY <3>1 DEF Elsewhere
        <3> QED BY <2>4, <3>2 DEF WriteInv
    <2> QED BY <2>1, <2>2, <2>3, <2>4
<1> QED BY <1>1, <1>2 DEF WriteInv

(* tcpip_thread serves a request: what Apply and ApplyDrain do.            *)
Applied(c, r, drained) ==
    /\ drained = {} \/ drained = PendingIn(conn[c].acceptmbox)
    /\ conn' = [d \in Conns |-> IF d = c THEN r.conn
                                ELSE IF d \in drained THEN FreeConn ELSE conn[d]]
    /\ thr' = IF r.t = NULL THEN thr ELSE [thr EXCEPT ![r.t].err = r.err]

LEMMA AppliedWell ==
    ASSUME NetconnInv, NEW c \in Conns, NEW r
    PROVE  /\ Apply(c, r) => Applied(c, r, {})
           /\ \A u : ApplyDrain(c, r, Drained(c, u)) => Applied(c, r, Drained(c, u))
    BY DEF Apply, ApplyDrain, Applied, Drained, Pending, PendingIn, NetconnInv, TypeOK

(* With any request but a write that is started or goes on.                *)
LEMMA WriteApplied ==
    ASSUME NetconnInv, WriteInv, NEW c \in Conns, NEW u \in Threads, Requests(c, u),
           NEW r, Serves(c, u, r), NEW drained, Applied(c, r, drained),
           Settled(r.conn), r.conn.state # "WRITE",
           thr[u].fn = "write" => r.t = u /\ r.err # "OK",
           thr[u].fn = "newconn" =>
                r.conn.write_offset = 0 /\ r.conn.state = "NONE" /\ ~r.conn.nonblocking
    PROVE  WriteInv'
<1> USE NetconnAssumption
<1>1. /\ thr \in [Threads -> ThrType] /\ thr[u].pc = "call" /\ thr[u].c = c /\ u # NULL
      /\ conn[c].op_completed = 0
    BY DEF Requests, NetconnInv, TypeOK
<1> DEFINE q == IF r.t = NULL THEN thr[u] ELSE [thr[u] EXCEPT !.err = r.err]
<1>2. /\ q.c = c /\ q.fn = thr[u].fn /\ q.len = thr[u].len /\ q.queued = thr[u].queued
      /\ r.t = u => q.err = r.err
    BY <1>1 DEF ThrType
<1>3. thr'[u] = q /\ \A t \in Threads \ {u} : thr'[t] = thr[t]
    <2>1. r.t \in {u, NULL}
        BY DEF Serves
    <2> QED BY <1>1, <2>1 DEF Applied
<1> HIDE DEF q
<1>4. \A t \in Threads : thr[t].c = c => t = u
    BY <1>1, OnlyUser
<1>5. \A d \in Conns \ {c} : conn'[d] = conn[d] \/ (d \in drained /\ conn'[d] = FreeConn)
    BY DEF Applied
<1>6. \A d \in drained : \A t \in Threads : thr[t].c # d
    <2>1. \A t \in Threads : thr[t].c \in Conns \cup {NULL}
        BY <1>1 DEF ThrType
    <2>2. NULL \notin drained
        BY DEF Applied, PendingIn
    <2> QED BY <2>1, <2>2 DEF Applied, NetconnInv, PendingUnknown
<1>7. Settled(FreeConn) /\ FreeConn.state = "NONE"
    BY DEF FreeConn, Settled
<1>8. Elsewhere(c)
    BY <1>1, <1>2, <1>3, <1>5, <1>6, <1>7 DEF Elsewhere
<1>9. conn'[c] = r.conn
    BY DEF Applied
<1>10. RequestTrue(u, r.conn, q)
    <2>1. RequestTrue(u, conn[c], thr[u]) /\ thr[u].len \in Nat /\ thr[u].queued \in Int
        BY <1>1 DEF WriteInv, ThrType
    <2>2. thr[u].fn = "write" => r.conn.op_completed = 1
        BY <1>1 DEF Serves
    <2> QED BY <1>1, <1>2, <2>1, <2>2 DEF RequestTrue
<1>11. \A t \in Threads : thr'[t].c = c => RequestTrue(t, conn'[c], thr'[t])
    BY <1>2, <1>3, <1>4, <1>9, <1>10
<1>12. WriteParked(conn[c])'
    BY <1>9 DEF WriteParked
<1> QED BY <1>8, <1>9, <1>11, <1>12, WriteLocal

(* A request at the head of the queue finds no operation in progress.      *)
LEMMA HeadState ==
    ASSUME NetconnInv, WriteInv, NEW c \in Conns, NEW u \in Threads, Requests(c, u),
           conn[c].current = NULL
    PROVE  /\ conn[c].state # "WRITE" /\ Settled(conn[c]) /\ conn[c] \in ConnType
           /\ RequestTrue(u, conn[c], thr[u]) /\ u # NULL
    BY KeepsSelf, NetconnAssumption DEF WriteInv, InProgress, Requests

(* An answer to the head of the queue.                                     *)
LEMMA AckSettled ==
    ASSUME NEW k \in ConnType, Settled(k), NEW p, NEW u, NEW err
    PROVE  LET a == Ack(k, p, u, err)
           IN /\ Settled(a.conn) /\ a.t = u /\ a.err = err /\ a.conn.state = k.state
              /\ a.conn.write_offset = k.write_offset /\ a.conn.nonblocking = k.nonblocking
<1> DEFINE e == [k EXCEPT !.op_completed = 1]
<1>1. /\ e.state = k.state /\ e.pcb = k.pcb /\ e.nonblocking = k.nonblocking
      /\ e.write_offset = k.write_offset /\ e.current = k.current
    BY DEF ConnType
<1>2. Ack(k, p, u, err) = [conn |-> e, pcb |-> p, t |-> u, err |-> err]
    BY DEF Ack, Result
<1> HIDE DEF e
<1> QED BY <1>1, <1>2 DEF Settled

(* What a close leaves has no control block, or waits for memory.          *)
LEMMA CloseSettled ==
    ASSUME NEW k \in ConnType, Settled(k), k.state # "WRITE", NEW u \in Threads, NEW p, NEW how,
           NEW nomem \in BOOLEAN, NEW s \in {k, StartClose(k, u)}, s.state = "CLOSE"
    PROVE  LET r == do_close_internal(s, p, how, nomem)
           IN Settled(r.conn) /\ r.conn.state # "WRITE"
<1> DEFINE f == [s EXCEPT !.pcb = FALSE]
           e == [f EXCEPT !.current = NULL, !.state = "NONE"]
           g == [e EXCEPT !.op_completed = 1]
<1>1. s \in ConnType /\ (s.pcb => s.write_offset = 0)
    BY DEF StartClose, ConnType, Settled
<1>2. e.pcb = FALSE /\ e.state = "NONE" /\ g.pcb = FALSE /\ g.state = "NONE"
    BY <1>1 DEF ConnType
<1>3. ASSUME NEW x PROVE Finish(f, x, "OK").conn = g
    BY DEF Finish, Ack, Result
<1>4. Result(s, p, NULL, "OK").conn = s
    BY DEF Result
<1>5. do_close_internal(s, p, how, nomem) \in
           {Result(s, p, NULL, "OK"), Finish(f, NoPcb, "OK"), Finish(f, p, "OK")}
    BY DEF do_close_internal
<1> HIDE DEF e, f, g
<1>6. Settled(g) /\ Settled(s)
    BY <1>1, <1>2 DEF Settled
<1> QED BY <1>2, <1>3, <1>4, <1>5, <1>6

(* The requests that are no write, nor a refused one.                      *)
LEMMA RequestWrites ==
    ASSUME NetconnInv, WriteInv, NEW c \in Conns, NEW u \in Threads, Requests(c, u),
           conn[c].current = NULL, NEW nomem \in BOOLEAN, NEW r,
           \/ thr[u].fn = "newconn" /\ r = do_newconn(c, u, nomem)
           \/ thr[u].fn = "bind" /\ r = do_bind(c, u)
           \/ thr[u].fn \in {"recv", "recvEof"} /\ r = do_recv(c, u)
           \/ thr[u].fn = "getaddr" /\ r = do_getaddr(c, u)
           \/ thr[u].fn = "connect" /\ r = do_connect(c, u, nomem)
           \/ thr[u].fn = "listen" /\ r = do_listen(c, u, nomem)
           \/ thr[u].fn = "write" /\ WriteRefused(c) # "OK" /\ r = Ack(conn[c], pcb[c], u, WriteRefused(c))
           \/ thr[u].fn = "close" /\ r = do_close(c, u, nomem)
           \/ thr[u].fn = "delete" /\ r = do_delconn(c, u, nomem)
    PROVE  /\ Settled(r.conn) /\ r.conn.state # "WRITE"
           /\ thr[u].fn = "write" => r.t = u /\ r.err # "OK"
           /\ thr[u].fn = "newconn" =>
                r.conn.write_offset = 0 /\ r.conn.state = "NONE" /\ ~r.conn.nonblocking
<1>1. /\ conn[c].state # "WRITE" /\ Settled(conn[c]) /\ conn[c] \in ConnType
      /\ RequestTrue(u, conn[c], thr[u]) /\ u # NULL
    BY HeadState
<1>2. ASSUME NEW p, NEW err PROVE
          LET a == Ack(conn[c], p, u, err)
          IN /\ Settled(a.conn) /\ a.t = u /\ a.err = err /\ a.conn.state = conn[c].state
             /\ a.conn.write_offset = conn[c].write_offset
             /\ a.conn.nonblocking = conn[c].nonblocking
    BY <1>1, AckSettled
<1>3. CASE thr[u].fn = "newconn" /\ r = do_newconn(c, u, nomem)
    <2> DEFINE k == [conn[c] EXCEPT !.pcb = TRUE]
    <2>1. /\ conn[c].write_offset = 0 /\ conn[c].state = "NONE" /\ ~conn[c].nonblocking
        BY <1>1, <1>3 DEF RequestTrue, Requests
    <2>2. /\ k \in ConnType /\ k.pcb /\ k.write_offset = 0 /\ k.state = "NONE" /\ ~k.nonblocking
          /\ k.current = NULL
        BY <1>1, <2>1 DEF ConnType
    <2> HIDE DEF k
    <2>3. Settled(k)
        BY <2>2 DEF Settled
    <2>4. \/ r = Ack(conn[c], pcb[c], u, "soft")
          \/ r = Ack(k, [NoPcb EXCEPT !.state = "CLOSED", !.arg = TRUE], u, "OK")
        BY <1>3 DEF do_newconn, k
    <2> QED BY <1>2, <1>3, <2>1, <2>2, <2>3, <2>4, AckSettled
<1>4. CASE thr[u].fn \in {"bind", "recv", "recvEof", "getaddr"} /\ \E err : r = Ack(conn[c], pcb[c], u, err)
    BY <1>1, <1>2, <1>4
<1>5. CASE thr[u].fn = "connect" /\ r = do_connect(c, u, nomem)
    <2> DEFINE k == [conn[c] EXCEPT !.state = "CONNECT", !.nonblocking = thr[u].dontblock]
               z == [k EXCEPT !.current = u]
               p == [pcb[c] EXCEPT !.state = "SYN_SENT"]
    <2>1. CASE \E err : r = Ack(conn[c], pcb[c], u, err)
        BY <1>1, <1>2, <1>5, <2>1
    <2>2. CASE conn[c].pcb /\ (r = Ack(k, p, u, "soft") \/ r = Result(z, p, NULL, "OK"))
        <3>1. thr[u].dontblock \in BOOLEAN
            BY DEF NetconnInv, TypeOK, ThrType
        <3>2. conn[c] \in ConnType /\ conn[c].write_offset = 0
            BY <1>1, <2>2 DEF Settled
        <3>3. k \in ConnType /\ k.state = "CONNECT" /\ k.write_offset = 0
            BY <3>1, <3>2 DEF ConnType
        <3> HIDE DEF k
        <3>4. z \in ConnType /\ z.state = "CONNECT" /\ z.write_offset = 0
            BY <3>3 DEF ConnType
        <3> HIDE DEF z
        <3>5. Settled(k) /\ Settled(z)
            BY <3>3, <3>4 DEF Settled
        <3>6. Result(z, p, NULL, "OK").conn = z
            BY DEF Result
        <3> QED BY <1>5, <2>2, <3>3, <3>4, <3>5, <3>6, AckSettled
    <2>3. (\E err : r = Ack(conn[c], pcb[c], u, err))
          \/ (conn[c].pcb /\ (r = Ack(k, p, u, "soft") \/ r = Result(z, p, NULL, "OK")))
        BY <1>5 DEF do_connect
    <2> QED BY <2>1, <2>2, <2>3
<1>6. CASE thr[u].fn = "listen" /\ r = do_listen(c, u, nomem)
    <2> DEFINE k == [conn[c] EXCEPT !.recvmbox = Invalid]
               n == [k EXCEPT !.pcb = FALSE]
               a == [k EXCEPT !.state = "LISTEN", !.acceptmbox = <<>>]
               p == [pcb[c] EXCEPT !.state = "LISTEN"]
    <2>1. CASE \E err : r = Ack(conn[c], pcb[c], u, err)
        BY <1>1, <1>2, <1>6, <2>1
    <2>2. CASE /\ conn[c].pcb /\ conn[c].state = "NONE"
               /\ r = Ack(n, NoPcb, u, "soft") \/ r = Ack(a, p, u, "OK")
        <3>1. conn[c].write_offset = 0 /\ conn[c].current = NULL
            BY <1>1, <2>2 DEF Settled
        <3>2. /\ n \in ConnType /\ ~n.pcb /\ n.state = "NONE"
              /\ a \in ConnType /\ a.state = "LISTEN" /\ a.write_offset = 0 /\ a.current = NULL
            BY <1>1, <2>2, <3>1, MailboxConstants DEF ConnType
        <3> HIDE DEF n, a
        <3>3. Settled(n) /\ Settled(a)
            BY <3>2 DEF Settled
        <3> QED BY <1>6, <2>2, <3>2, <3>3, AckSettled
    <2>3. \/ \E err : r = Ack(conn[c], pcb[c], u, err)
          \/ /\ conn[c].pcb /\ conn[c].state = "NONE"
             /\ r = Ack(n, NoPcb, u, "soft") \/ r = Ack(a, p, u, "OK")
        BY <1>6 DEF do_listen
    <2> QED BY <2>1, <2>2, <2>3
<1>7. CASE /\ thr[u].fn = "write" /\ WriteRefused(c) # "OK"
           /\ r = Ack(conn[c], pcb[c], u, WriteRefused(c))
    BY <1>1, <1>2, <1>7
<1>8. CASE thr[u].fn \in {"close", "delete"} /\ r \in {do_close(c, u, nomem), do_delconn(c, u, nomem)}
    <2>1. \A k \in {conn[c], netconn_drain(conn[c])} :
              k \in ConnType /\ Settled(k) /\ k.state # "WRITE"
        <3> DEFINE k == netconn_drain(conn[c])
        <3>1. /\ k \in ConnType /\ k.state = conn[c].state /\ k.pcb = conn[c].pcb
              /\ k.current = conn[c].current /\ k.nonblocking = conn[c].nonblocking
              /\ k.write_offset = conn[c].write_offset
            BY <1>1, MailboxConstants DEF netconn_drain, ConnType
        <3> HIDE DEF k
        <3>2. Settled(k)
            BY <1>1, <3>1 DEF Settled
        <3> QED BY <1>1, <3>1, <3>2 DEF k
    <2>2. \/ \E err : r = Ack(conn[c], pcb[c], u, err) \/ r = Ack(netconn_drain(conn[c]), pcb[c], u, err)
          \/ \E k \in {conn[c], netconn_drain(conn[c])} : \E how :
                r = do_close_internal(StartClose(k, u), pcb[c], how, nomem)
        BY <1>8 DEF do_close, do_delconn
    <2>3. CASE \E k \in {conn[c], netconn_drain(conn[c])} : \E err : r = Ack(k, pcb[c], u, err)
        BY <1>8, <2>1, <2>3, AckSettled
    <2>4. CASE \E k \in {conn[c], netconn_drain(conn[c])} : \E how :
                r = do_close_internal(StartClose(k, u), pcb[c], how, nomem)
        <3>1. PICK k \in {conn[c], netconn_drain(conn[c])} : \E how :
                r = do_close_internal(StartClose(k, u), pcb[c], how, nomem)
            BY <2>4
        <3>2. StartClose(k, u).state = "CLOSE"
            BY <2>1 DEF StartClose, ConnType
        <3> QED BY <1>8, <2>1, <3>1, <3>2, CloseSettled
    <2> QED BY <2>2, <2>3, <2>4
<1> QED BY <1>3, <1>4, <1>5, <1>6, <1>7, <1>8 DEF do_bind, do_recv, do_getaddr

LEMMA MinOfTwo ==
    ASSUME NEW a \in Int, NEW b \in Int
    PROVE  Min({a, b}) \in {a, b} /\ Min({a, b}) =< a /\ Min({a, b}) =< b
<1>1. \E x \in {a, b} : \A y \in {a, b} : x =< y
    <2>1. CASE a =< b
        BY <2>1
    <2>2. CASE b =< a
        BY <2>2
    <2> QED BY <2>1, <2>2
<1> QED BY <1>1 DEF Min

(* Where a write stands is all that changes.                                *)
LEMMA OffsetType ==
    ASSUME NEW k \in ConnType, NEW n \in Int PROVE [k EXCEPT !.write_offset = n] \in ConnType
    BY DEF ConnType

(* A piece of a write, the first or a later one, on k, which is c with the *)
(* write parked.  The bytes tcp_write takes are added on both sides, or    *)
(* the write ends: with an error and nothing taken, or with its last byte. *)
LEMMA PieceWritten ==
    ASSUME NetconnInv, WriteInv, NEW c \in Conns, NEW u \in Threads, Requests(c, u),
           NEW k \in ConnType, k.state = "WRITE", k.current = u, k.pcb, ~k.nonblocking,
           k.op_completed = 0, thr[u].fn = "write", thr[u].err = "OK",
           thr[u].queued = k.write_offset, thr[u].queued < thr[u].len,
           thr[u].dontblock \/ pcb[c].state = "CLOSED" => k.write_offset = 0,
           NEW available \in 0..MaxLen, NEW nomem \in BOOLEAN,
           ApplyWrite(c, k, u, available, nomem)
    PROVE  WriteInv'
<1> USE NetconnAssumption
<1> DEFINE n   == Fits(k, u, available)
           err == IF thr[u].dontblock /\ n < thr[u].len THEN "soft" ELSE tcp_write(c, nomem)
           w   == Written(k, n)
           z   == [k EXCEPT !.write_offset = 0]
           r   == do_writemore(c, k, u, available, nomem)
           got == Taken(c, k, u, available, nomem)
           q   == [thr[u] EXCEPT !.queued = @ + got, !.err = IF r.t = NULL THEN @ ELSE r.err]
<1>1. /\ thr[u] \in ThrType /\ thr[u].c = c /\ thr[u].len \in Nat /\ k.write_offset \in Int
      /\ thr \in [Threads -> ThrType] /\ conn \in [Conns -> ConnType] /\ thr[u].len > 0
    <2>1. thr[u] \in ThrType /\ thr[u].c = c /\ thr[u].c # NULL
        BY DEF NetconnInv, TypeOK, Requests
    <2>2. RequestTrue(u, conn[c], thr[u])
        BY <2>1 DEF WriteInv
    <2> QED BY <2>1, <2>2 DEF NetconnInv, TypeOK, ThrType, ConnType, RequestTrue, Requests
<1>2. n \in Int /\ n =< thr[u].len - k.write_offset
    <2>1. available \in Int /\ thr[u].len - k.write_offset \in Int
        BY <1>1
    <2> QED BY <2>1, MinOfTwo DEF Fits
<1>3. got = IF err = "OK" THEN n ELSE 0
    BY DEF Taken, tcp_write
<1>4. err # "OK" /\ ~(err = "soft" /\ ~thr[u].dontblock) => k.write_offset = 0
    BY DEF tcp_write
<1>5. err = "OK" => \/ w.write_offset = thr[u].len
                    \/ ~thr[u].dontblock
    <2>1. ASSUME err = "OK", thr[u].dontblock PROVE w.write_offset = thr[u].len
        <3>1. ~(n < thr[u].len)
            BY <2>1
        <3>2. w.write_offset = k.write_offset + n
            BY DEF Written, ConnType
        <3> QED BY <1>1, <1>2, <2>1, <3>1, <3>2
    <2> QED BY <2>1
<1>6. /\ w \in ConnType /\ w.state = "WRITE" /\ w.current = u /\ w.pcb /\ ~w.nonblocking
      /\ w.op_completed = 0 /\ w.write_offset = k.write_offset + n
    <2>1. w = [k EXCEPT !.write_offset = k.write_offset + n]
        BY DEF Written
    <2>2. k.write_offset + n \in Int
        BY <1>1, <1>2
    <2> HIDE DEF n
    <2> QED BY <2>1, <2>2 DEF ConnType
<1>7. /\ q.c = c /\ q.fn = "write" /\ q.len = thr[u].len /\ q.dontblock = thr[u].dontblock
      /\ q.queued = thr[u].queued + got /\ q.err = IF r.t = NULL THEN "OK" ELSE r.err
    BY <1>1 DEF ThrType
<1>8. /\ conn'[c] = r.conn /\ \A d \in Conns \ {c} : conn'[d] = conn[d]
      /\ thr'[u] = q /\ \A t \in Threads \ {u} : thr'[t] = thr[t]
    BY <1>1 DEF ApplyWrite
<1>9. ASSUME NEW x \in ConnType, x.current = u, x.pcb, ~x.nonblocking, x.write_offset = 0,
             NEW e, r = Finish(x, pcb[c], e)
      PROVE  /\ Settled(r.conn) /\ r.conn.state = "NONE" /\ r.conn.op_completed = 1
             /\ r.t = u /\ r.err = e
    <2> DEFINE f == [x EXCEPT !.current = NULL, !.state = "NONE"]
               g == [f EXCEPT !.op_completed = 1]
    <2>1. r = [conn |-> g, pcb |-> pcb[c], t |-> u, err |-> e]
        BY <1>9 DEF Finish, Ack, Result
    <2>2. /\ g.state = "NONE" /\ g.op_completed = 1 /\ g.current = NULL /\ g.pcb = x.pcb
          /\ g.nonblocking = x.nonblocking /\ g.write_offset = x.write_offset
        BY DEF ConnType
    <2> HIDE DEF g, r
    <2> QED BY <1>9, <2>1, <2>2 DEF Settled
<1>10. r = IF err = "fatal" \/ (err = "soft" /\ thr[u].dontblock) THEN Finish(k, pcb[c], err)
           ELSE IF err = "soft" THEN Result(k, pcb[c], NULL, "OK")
           ELSE IF w.write_offset # thr[u].len THEN Result(w, pcb[c], NULL, "OK")
           ELSE Finish(z, pcb[c], "OK")
    BY DEF do_writemore
<1>11. z \in ConnType /\ z.current = u /\ z.pcb /\ ~z.nonblocking /\ z.write_offset = 0
    <2>1. z \in ConnType
        BY OffsetType
    <2>2. /\ z.current = k.current /\ z.pcb = k.pcb /\ z.nonblocking = k.nonblocking
          /\ z.write_offset = 0
        BY DEF ConnType
    <2> HIDE DEF z
    <2> QED BY <2>1, <2>2
<1>12. err \in {"OK", "soft", "fatal"}
    BY DEF tcp_write
<1>14. \A t \in Threads : thr'[t].c = c => t = u
    BY <1>1, <1>8, OnlyUser
<1> HIDE DEF n, err, w, z, r, got, q
<1>13. Elsewhere(c)
    BY <1>1, <1>7, <1>8 DEF Elsewhere
<1>15. SUFFICES /\ Settled(r.conn) /\ RequestTrue(u, r.conn, q)
                /\ r.conn.state = "WRITE" => r.conn.current = u /\ ~thr[u].dontblock
    <2>1. WriteParked(conn[c])'
        BY <1>7, <1>8, <1>15 DEF WriteParked
    <2> QED BY <1>8, <1>13, <1>14, <1>15, <2>1, WriteLocal
<1>16. CASE err = "fatal" \/ (err = "soft" /\ thr[u].dontblock)
    <2>1. k.write_offset = 0 /\ r = Finish(k, pcb[c], err)
        BY <1>4, <1>10, <1>16
    <2>2. /\ Settled(r.conn) /\ r.conn.state = "NONE" /\ r.conn.op_completed = 1
          /\ r.t = u /\ r.err = err
        BY <1>9, <2>1
    <2>3. q.err # "OK" /\ q.queued # q.len
        BY <1>1, <1>3, <1>7, <1>16, <2>2
    <2>4. RequestTrue(u, r.conn, q)
        BY <1>1, <1>7, <2>2, <2>3 DEF RequestTrue, ThrType
    <2> QED BY <2>2, <2>4
<1>17. CASE err = "soft" /\ ~thr[u].dontblock
    <2>1. r.conn = k /\ r.t = NULL
        BY <1>10, <1>17 DEF Result
    <2>2. Settled(k)
        BY DEF Settled
    <2>3. q.queued = k.write_offset /\ q.err = "OK"
        BY <1>1, <1>3, <1>7, <1>17, <2>1
    <2>4. RequestTrue(u, k, q)
        BY <1>1, <1>7, <2>3 DEF RequestTrue, ThrType
    <2> QED BY <1>17, <2>1, <2>2, <2>4
<1>18. CASE err = "OK" /\ w.write_offset # thr[u].len
    <2>1. r.conn = w /\ r.t = NULL
        BY <1>10, <1>18 DEF Result
    <2>2. Settled(w)
        BY <1>6 DEF Settled
    <2>3. q.queued = w.write_offset /\ q.err = "OK" /\ q.queued < q.len
        BY <1>1, <1>2, <1>3, <1>6, <1>7, <1>18, <2>1
    <2>4. RequestTrue(u, w, q)
        BY <1>1, <1>6, <1>7, <2>3 DEF RequestTrue, ThrType
    <2> QED BY <1>5, <1>6, <1>18, <2>1, <2>2, <2>4
<1>19. CASE err = "OK" /\ w.write_offset = thr[u].len
    <2>1. r = Finish(z, pcb[c], "OK")
        BY <1>10, <1>19
    <2>2. /\ Settled(r.conn) /\ r.conn.state = "NONE" /\ r.conn.op_completed = 1
          /\ r.t = u /\ r.err = "OK"
        BY <1>9, <1>11, <2>1
    <2>3. q.queued = q.len /\ q.err = "OK"
        BY <1>1, <1>2, <1>3, <1>6, <1>7, <1>19, <2>2
    <2>4. RequestTrue(u, r.conn, q)
        BY <1>1, <1>7, <2>2, <2>3 DEF RequestTrue, ThrType
    <2> QED BY <2>2, <2>4
<1> QED BY <1>12, <1>16, <1>17, <1>18, <1>19

LEMMA RequestKeepsWrites ==
    ASSUME NetconnInv, WriteInv, tcpip_thread_api
    PROVE  WriteInv'
<1> DEFINE u == Head(mbox)
           c == thr[u].c
<1>1. u \in Threads /\ c \in Conns /\ Requests(c, u) /\ conn[c].current = NULL
    BY HeadRequests DEF tcpip_thread_api
<1>2. PICK nomem \in BOOLEAN :
        \/ thr[u].fn = "newconn" /\ Apply(c, do_newconn(c, u, nomem))
        \/ thr[u].fn = "bind" /\ Apply(c, do_bind(c, u))
        \/ thr[u].fn \in {"recv", "recvEof"} /\ Apply(c, do_recv(c, u))
        \/ thr[u].fn = "getaddr" /\ Apply(c, do_getaddr(c, u))
        \/ thr[u].fn = "connect" /\ Apply(c, do_connect(c, u, nomem))
        \/ thr[u].fn = "listen" /\ Apply(c, do_listen(c, u, nomem))
        \/ /\ thr[u].fn = "write" /\ WriteRefused(c) # "OK"
           /\ Apply(c, Ack(conn[c], pcb[c], u, WriteRefused(c)))
        \/ /\ thr[u].fn = "write" /\ WriteRefused(c) = "OK"
           /\ \E available \in 0..MaxLen : ApplyWrite(c, StartWrite(c, u), u, available, nomem)
        \/ thr[u].fn = "close" /\ ApplyDrain(c, do_close(c, u, nomem), Drained(c, u))
        \/ thr[u].fn = "delete" /\ ApplyDrain(c, do_delconn(c, u, nomem), Drained(c, u))
    BY DEF tcpip_thread_api
<1> HIDE DEF u, c
<1>4. CASE \E r : /\ Apply(c, r) \/ ApplyDrain(c, r, Drained(c, u))
                  /\ \/ thr[u].fn = "newconn" /\ r = do_newconn(c, u, nomem)
                     \/ thr[u].fn = "bind" /\ r = do_bind(c, u)
                     \/ thr[u].fn \in {"recv", "recvEof"} /\ r = do_recv(c, u)
                     \/ thr[u].fn = "getaddr" /\ r = do_getaddr(c, u)
                     \/ thr[u].fn = "connect" /\ r = do_connect(c, u, nomem)
                     \/ thr[u].fn = "listen" /\ r = do_listen(c, u, nomem)
                     \/ /\ thr[u].fn = "write" /\ WriteRefused(c) # "OK"
                        /\ r = Ack(conn[c], pcb[c], u, WriteRefused(c))
                     \/ thr[u].fn = "close" /\ r = do_close(c, u, nomem)
                     \/ thr[u].fn = "delete" /\ r = do_delconn(c, u, nomem)
    <2>1. PICK r : /\ Apply(c, r) \/ ApplyDrain(c, r, Drained(c, u))
                   /\ \/ thr[u].fn = "newconn" /\ r = do_newconn(c, u, nomem)
                      \/ thr[u].fn = "bind" /\ r = do_bind(c, u)
                      \/ thr[u].fn \in {"recv", "recvEof"} /\ r = do_recv(c, u)
                      \/ thr[u].fn = "getaddr" /\ r = do_getaddr(c, u)
                      \/ thr[u].fn = "connect" /\ r = do_connect(c, u, nomem)
                      \/ thr[u].fn = "listen" /\ r = do_listen(c, u, nomem)
                      \/ /\ thr[u].fn = "write" /\ WriteRefused(c) # "OK"
                         /\ r = Ack(conn[c], pcb[c], u, WriteRefused(c))
                      \/ thr[u].fn = "close" /\ r = do_close(c, u, nomem)
                      \/ thr[u].fn = "delete" /\ r = do_delconn(c, u, nomem)
        BY <1>4
    <2>2. Serves(c, u, r)
        <3>1. thr[u].fn = "write" => WriteRefused(c) \in Errors
            BY DEF WriteRefused, Errors
        <3>2. CASE thr[u].fn \in {"bind", "recv", "recvEof", "getaddr", "write"}
            BY <1>1, <2>1, <3>1, <3>2, PlainAck DEF do_bind, do_recv, do_getaddr, Errors
        <3>3. CASE thr[u].fn \in {"newconn", "connect", "listen"}
            BY <1>1, <2>1, <3>3, NewconnServes, ConnectServes, ListenServes
        <3>4. CASE thr[u].fn \in {"close", "delete"}
            BY <1>1, <2>1, <3>4, DoCloseServes, DelconnServes
        <3> QED BY <2>1, <3>2, <3>3, <3>4
    <2>3. /\ Settled(r.conn) /\ r.conn.state # "WRITE"
          /\ thr[u].fn = "write" => r.t = u /\ r.err # "OK"
          /\ thr[u].fn = "newconn" =>
               r.conn.write_offset = 0 /\ r.conn.state = "NONE" /\ ~r.conn.nonblocking
        BY <1>1, <2>1, RequestWrites
    <2>4. CASE Apply(c, r)
        BY <1>1, <2>2, <2>3, <2>4, AppliedWell, WriteApplied
    <2>5. CASE ApplyDrain(c, r, Drained(c, u))
        BY <1>1, <2>2, <2>3, <2>5, AppliedWell, WriteApplied
    <2> QED BY <2>1, <2>4, <2>5
<1>5. CASE /\ thr[u].fn = "write" /\ WriteRefused(c) = "OK"
           /\ \E available \in 0..MaxLen : ApplyWrite(c, StartWrite(c, u), u, available, nomem)
    <2> DEFINE k == StartWrite(c, u)
    <2>1. /\ conn[c].pcb /\ conn[c].state = "NONE" /\ ~conn[c].nonblocking
          /\ conn[c].op_completed = 0 /\ RequestTrue(u, conn[c], thr[u]) /\ u # NULL
        BY <1>1, <1>5, HeadState DEF WriteRefused, Settled, Requests
    <2>2. k \in ConnType /\ k.state = "WRITE" /\ k.current = u /\ k.op_completed = 0
        BY <1>1, <1>5, <2>1, StartWriteServes DEF Keeps
    <2>3. k.pcb /\ ~k.nonblocking /\ k.write_offset = 0
        BY <1>1, <2>1, KeepsSelf DEF StartWrite, ConnType
    <2>4. thr[u].err = "OK" /\ thr[u].queued = 0 /\ thr[u].queued < thr[u].len
        BY <1>1, <1>5, <2>1 DEF RequestTrue, Requests
    <2> HIDE DEF k
    <2>5. PICK available \in 0..MaxLen : ApplyWrite(c, k, u, available, nomem)
        BY <1>5 DEF k
    <2> QED BY <1>1, <1>5, <2>2, <2>3, <2>4, <2>5, PieceWritten
<1> QED BY <1>2, <1>4, <1>5

(* The callbacks of TCP.                                                   *)
LEMMA SentKeepsWrites ==
    ASSUME NetconnInv, WriteInv, NEW c \in Conns, NEW nomem \in BOOLEAN, sent_tcp(c, nomem)
    PROVE  WriteInv'
<1> DEFINE u == conn[c].current
           how == IF thr[u].fn = "delete" THEN "RDWR" ELSE thr[u].how
           r == do_close_internal(conn[c], pcb[c], how, nomem)
<1>1. pcb[c].state \in {"SYN_SENT", "ESTABLISHED"} /\ conn[c].state \in {"WRITE", "CLOSE"}
    BY DEF sent_tcp
<1>2. /\ u \in Threads /\ Requests(c, u) /\ conn[c].op_completed = 0 /\ thr[u].c = c /\ u # NULL
      /\ conn[c] \in ConnType /\ Settled(conn[c]) /\ WriteParked(conn[c])
      /\ ~Connecting(pcb[c]) /\ Keeps(c, conn[c], pcb[c]) /\ thr[u].fn # "newconn"
    <2>1. u \in Threads /\ Requests(c, u) /\ u # NULL /\ conn[c] \in ConnType
          /\ ~Connecting(pcb[c]) /\ Keeps(c, conn[c], pcb[c])
        BY <1>1, KeepsSelf, ParkedRequests DEF InProgress
    <2>2. thr[u].fn # "newconn"
        BY <1>1, <2>1 DEF NetconnInv, ConnectsInState, Requests
    <2> QED BY <2>1, <2>2 DEF WriteInv, Requests
<1>3. RequestTrue(u, conn[c], thr[u])
    BY <1>2, NetconnAssumption DEF WriteInv
<1>4. CASE /\ conn[c].state = "WRITE"
           /\ \E available \in 0..MaxLen : ApplyWrite(c, conn[c], u, available, nomem)
    <2>1. thr[u].fn = "write" /\ ~thr[u].dontblock /\ conn[c].pcb /\ ~conn[c].nonblocking
        BY <1>2, <1>4 DEF WriteParked, Settled
    <2>2. /\ thr[u].err = "OK" /\ thr[u].queued = conn[c].write_offset
          /\ thr[u].queued < thr[u].len
        BY <1>2, <1>3, <2>1 DEF RequestTrue, Requests
    <2>3. PICK available \in 0..MaxLen : ApplyWrite(c, conn[c], u, available, nomem)
        BY <1>4
    <2>4. ~(thr[u].dontblock \/ pcb[c].state = "CLOSED")
        BY <1>1, <2>1
    <2> DEFINE k == conn[c]
    <2>5. /\ k \in ConnType /\ k.state = "WRITE" /\ k.current = u /\ k.pcb /\ ~k.nonblocking
          /\ k.op_completed = 0 /\ thr[u].queued = k.write_offset
          /\ ApplyWrite(c, k, u, available, nomem)
        BY <1>2, <1>4, <2>1, <2>2, <2>3
    <2> HIDE DEF k, u
    <2> QED BY <1>2, <2>1, <2>2, <2>4, <2>5, PieceWritten
<1>5. CASE conn[c].state = "CLOSE" /\ Apply(c, r)
    <2>1. Serves(c, u, r)
        BY <1>2, CloseServes
    <2>2. Settled(r.conn) /\ r.conn.state # "WRITE"
        BY <1>2, <1>5, CloseSettled
    <2>3. thr[u].fn # "write"
        BY <1>2, <1>3, <1>5 DEF RequestTrue, Requests
    <2> HIDE DEF r
    <2> QED BY <1>2, <1>5, <2>1, <2>2, <2>3, AppliedWell, WriteApplied
<1> QED BY <1>4, <1>5 DEF sent_tcp

(* A step of TCP without an answer: a connection in use changes, but not   *)
(* what a queued write or a parked one relies on.                          *)
LEMMA WritesUntouched ==
    ASSUME NetconnInv, WriteInv, NEW c \in Conns, NEW k, Settled(k), thr' = thr,
           conn' = [conn EXCEPT ![c] = k], k.op_completed = conn[c].op_completed,
           k.write_offset = conn[c].write_offset,
           \/ k.state = conn[c].state /\ k.current = conn[c].current /\ k.nonblocking = conn[c].nonblocking
           \/ k.state = "NONE" /\ ~k.nonblocking /\ conn[c].state # "WRITE"
              /\ k.current \in {conn[c].current, NULL}
    PROVE  WriteInv'
<1> USE NetconnAssumption
<1>1. conn'[c] = k /\ \A d \in Conns \ {c} : conn'[d] = conn[d]
    BY DEF NetconnInv, TypeOK
<1>2. ASSUME NEW t \in Threads, thr[t].c = c PROVE RequestTrue(t, k, thr[t])
    <2>1. RequestTrue(t, conn[c], thr[t])
        BY <1>2 DEF WriteInv
    <2>2. conn[c].current = t => t # NULL /\ conn[c].op_completed = 0
        BY <1>2 DEF NetconnInv, ParkedOnce
    <2> QED BY <2>1, <2>2 DEF RequestTrue
<1>3. WriteParked(conn[c])'
    BY <1>1 DEF WriteInv, WriteParked
<1> QED BY <1>1, <1>2, <1>3, WriteLocal DEF Elsewhere

LEMMA ConnectedKeepsWrites ==
    ASSUME NetconnInv, WriteInv, NEW c \in Conns, do_connected(c)
    PROVE  WriteInv'
<1> DEFINE p == [pcb[c] EXCEPT !.state = "ESTABLISHED"]
           k == [conn[c] EXCEPT !.nonblocking = FALSE]
           n == [k EXCEPT !.state = "NONE", !.current = NULL]
           u == conn[c].current
           r == Finish(k, p, "OK")
<1>1. /\ conn[c].state = "CONNECT" /\ conn[c].pcb /\ conn[c] \in ConnType /\ Settled(conn[c])
      /\ Connecting(pcb[c])
    BY KeepsSelf DEF do_connected, Connecting, WriteInv
<1>2. /\ n.state = "NONE" /\ n.current = NULL /\ ~n.nonblocking /\ n.write_offset = conn[c].write_offset
      /\ n.op_completed = conn[c].op_completed /\ n.write_offset = 0
      /\ k \in ConnType /\ k.used = conn[c].used /\ k.acceptmbox = conn[c].acceptmbox /\ k.current = u
      /\ n \in ConnType
    BY <1>1 DEF ConnType, Settled
<1>3. Apply(c, IF conn[c].nonblocking THEN Result(n, p, NULL, "OK") ELSE r)
    BY DEF do_connected
<1>4. r = Ack(n, p, u, "OK")
    BY <1>2 DEF Finish
<1> HIDE DEF n, k, r, p
<1>5. Settled(n)
    BY <1>2 DEF Settled
<1>6. CASE conn[c].nonblocking
    <2>1. thr' = thr /\ conn' = [conn EXCEPT ![c] = n]
        BY <1>3, <1>6 DEF Apply, Result
    <2> QED BY <1>1, <1>2, <1>5, <2>1, WritesUntouched
<1>7. CASE ~conn[c].nonblocking
    <2>1. u \in Threads /\ Requests(c, u) /\ u # NULL /\ thr[u].c = c /\ conn[c].op_completed = 0
        BY <1>1, <1>7, KeepsSelf, ParkedRequests DEF InProgress, Requests
    <2>2. RequestTrue(u, conn[c], thr[u])
        BY <2>1, NetconnAssumption DEF WriteInv
    <2>3. thr[u].fn \notin {"write", "newconn"}
        BY <1>1, <2>1, <2>2 DEF RequestTrue, Requests
    <2>4. p \in PcbType /\ ~Connecting(p)
        BY <1>1, KeepsSelf DEF p, PcbType, Connecting
    <2>5. Keeps(c, k, p)
        BY <1>2, <2>1, <2>3, <2>4, NoNewconn DEF Keeps
    <2>6. Serves(c, u, r)
        BY <1>2, <2>1, <2>4, <2>5, FinishServes DEF r, Errors
    <2>7. Settled(r.conn) /\ r.conn.state = "NONE"
        BY <1>2, <1>4, <1>5, AckSettled
    <2>8. Applied(c, r, {})
        BY <1>3, <1>7, AppliedWell
    <2> QED BY <2>1, <2>3, <2>6, <2>7, <2>8, WriteApplied
<1> QED BY <1>6, <1>7

LEMMA ErrKeepsWrites ==
    ASSUME NetconnInv, WriteInv, NEW c \in Conns, err_tcp(c)
    PROVE  WriteInv'
<1> DEFINE w == ErrWakes(conn[c])
           k == [w EXCEPT !.pcb = FALSE, !.fatal = TRUE, !.state = "NONE", !.nonblocking = FALSE]
           u == conn[c].current
           r == Finish(k, NoPcb, "fatal")
<1>1. conn[c] \in ConnType /\ Settled(conn[c])
    BY KeepsSelf DEF WriteInv
<1>2. /\ k \in ConnType /\ k.used = conn[c].used /\ k.state = "NONE" /\ ~k.pcb /\ ~k.nonblocking
      /\ k.current = u /\ k.op_completed = conn[c].op_completed
      /\ k.write_offset = conn[c].write_offset
      /\ PendingIn(k.acceptmbox) \subseteq PendingIn(conn[c].acceptmbox)
    <2> DEFINE m == TryPost(conn[c].recvmbox, NULL, RECVMBOX_SIZE)
               a == TryPost(conn[c].acceptmbox, NULL, ACCEPTMBOX_SIZE)
    <2>1. /\ m \in Seq(Msgs) /\ a \in Seq(Msgs)
          /\ PendingIn(a) \subseteq PendingIn(conn[c].acceptmbox)
        BY <1>1, TryPostKeeps DEF ConnType
    <2>2. w = [conn[c] EXCEPT !.recvmbox = m, !.acceptmbox = a]
        BY DEF ErrWakes
    <2> HIDE DEF m, a, w
    <2>3. /\ w \in ConnType /\ w.used = conn[c].used /\ w.acceptmbox = a
          /\ w.current = u /\ w.op_completed = conn[c].op_completed
          /\ w.write_offset = conn[c].write_offset
        BY <1>1, <2>1, <2>2 DEF ConnType
    <2>4. k.acceptmbox = a
        BY <2>3 DEF ConnType
    <2> QED BY <2>1, <2>3, <2>4 DEF ConnType
<1>3. Apply(c, IF conn[c].state \in {"WRITE", "CLOSE", "CONNECT"} /\ ~conn[c].nonblocking
               THEN r ELSE Result(k, NoPcb, NULL, "OK"))
    BY DEF err_tcp
<1> HIDE DEF w, k, r
<1>4. Settled(k)
    BY <1>2 DEF Settled
<1>5. CASE conn[c].state \in {"WRITE", "CLOSE", "CONNECT"} /\ ~conn[c].nonblocking
    <2>1. u \in Threads /\ Requests(c, u) /\ u # NULL /\ thr[u].c = c
        BY <1>5, KeepsSelf, ParkedRequests DEF InProgress, Requests
    <2>2. thr[u].fn # "newconn"
        BY <2>1 DEF err_tcp, NetconnInv, ConnectsInState, Requests
    <2>3. NoPcb \in PcbType /\ ~Connecting(NoPcb) /\ NoPcb.state = "none"
        BY FreeTypes DEF Connecting, NoPcb
    <2>4. Serves(c, u, r)
        BY <1>2, <2>1, <2>3, FinishServes DEF r, Keeps, Errors
    <2>5. Settled(r.conn) /\ r.conn.state = "NONE" /\ r.t = u /\ r.err = "fatal"
        <3> DEFINE e == [k EXCEPT !.current = NULL, !.state = "NONE"]
        <3>1. e \in ConnType /\ ~e.pcb /\ e.state = "NONE"
            BY <1>2, NetconnAssumption DEF ConnType
        <3>2. r = Ack(e, NoPcb, u, "fatal")
            BY <1>2 DEF r, Finish
        <3> HIDE DEF e
        <3>3. Settled(e)
            BY <3>1 DEF Settled
        <3> QED BY <3>1, <3>2, <3>3, AckSettled
    <2>6. Applied(c, r, {})
        BY <1>3, <1>5, AppliedWell
    <2> QED BY <2>1, <2>2, <2>4, <2>5, <2>6, WriteApplied
<1>6. CASE ~(conn[c].state \in {"WRITE", "CLOSE", "CONNECT"} /\ ~conn[c].nonblocking)
    <2>1. thr' = thr /\ conn' = [conn EXCEPT ![c] = k]
        BY <1>3, <1>6 DEF Apply, Result
    <2>2. conn[c].state # "WRITE"
        BY <1>1, <1>6 DEF Settled
    <2> QED BY <1>2, <1>4, <2>1, <2>2, WritesUntouched
<1> QED BY <1>5, <1>6

LEMMA RecvKeepsWrites ==
    ASSUME NetconnInv, WriteInv, NEW c \in Conns, recv_tcp(c)
    PROVE  WriteInv'
<1>1. conn[c] \in ConnType /\ Settled(conn[c])
    BY KeepsSelf DEF WriteInv
<1>2. thr' = thr /\ \E m : conn' = [conn EXCEPT ![c] = [conn[c] EXCEPT !.recvmbox = m]]
    <2>1. conn \in [Conns -> ConnType]
        BY DEF NetconnInv, TypeOK
    <2>2. \/ conn' = [conn EXCEPT ![c] = [conn[c] EXCEPT !.recvmbox = Append(conn[c].recvmbox, "data")]]
          \/ conn' = [conn EXCEPT ![c] =
                        [conn[c] EXCEPT !.recvmbox = TryPost(conn[c].recvmbox, NULL, RECVMBOX_SIZE)]]
        BY <2>1 DEF recv_tcp
    <2> QED BY <2>2 DEF recv_tcp
<1>3. PICK m : conn' = [conn EXCEPT ![c] = [conn[c] EXCEPT !.recvmbox = m]]
    BY <1>2
<1> DEFINE k == [conn[c] EXCEPT !.recvmbox = m]
<1>4. /\ k.state = conn[c].state /\ k.current = conn[c].current /\ k.nonblocking = conn[c].nonblocking
      /\ k.op_completed = conn[c].op_completed /\ k.write_offset = conn[c].write_offset
      /\ k.pcb = conn[c].pcb /\ conn' = [conn EXCEPT ![c] = k]
    BY <1>1, <1>3 DEF ConnType
<1> HIDE DEF k
<1>5. Settled(k)
    BY <1>1, <1>4 DEF Settled
<1> QED BY <1>2, <1>4, <1>5, WritesUntouched

LEMMA AcceptKeepsWrites ==
    ASSUME NetconnInv, WriteInv, NEW c \in Conns, NEW new \in Conns, accept_function(c, new)
    PROVE  WriteInv'
<1> DEFINE k == [conn[c] EXCEPT !.acceptmbox = Append(@, new)]
           n == [netconn_alloc EXCEPT !.pcb = TRUE]
<1>1. /\ c # new /\ ~conn[new].used /\ thr' = thr
      /\ conn' = [conn EXCEPT ![c] = k, ![new] = n]
    BY DEF accept_function
<1>2. conn[c] \in ConnType /\ Settled(conn[c]) /\ conn \in [Conns -> ConnType]
    BY KeepsSelf DEF WriteInv, NetconnInv, TypeOK
<1>3. /\ k.state = conn[c].state /\ k.current = conn[c].current /\ k.nonblocking = conn[c].nonblocking
      /\ k.op_completed = conn[c].op_completed /\ k.write_offset = conn[c].write_offset
      /\ k.pcb = conn[c].pcb
    BY <1>2 DEF ConnType
<1>4. n.state = "NONE" /\ n.current = NULL /\ ~n.nonblocking /\ n.write_offset = 0
    BY DEF netconn_alloc, FreeConn
<1> HIDE DEF k, n
<1>5. Settled(k) /\ Settled(n)
    BY <1>2, <1>3, <1>4 DEF Settled
<1>6. \A t \in Threads : thr[t].c # new
    BY <1>1, NetconnAssumption DEF NetconnInv, OneUser
<1>7. conn'[c] = k /\ conn'[new] = n /\ \A d \in Conns \ {c, new} : conn'[d] = conn[d]
    BY <1>1, <1>2
<1>8. Elsewhere(c)
    BY <1>1, <1>4, <1>5, <1>6, <1>7 DEF Elsewhere
<1>9. ASSUME NEW t \in Threads, thr[t].c = c PROVE RequestTrue(t, k, thr[t])
    BY <1>3, <1>9, NetconnAssumption DEF WriteInv, RequestTrue
<1>10. WriteParked(conn[c])'
    <2>1. WriteParked(conn[c])
        BY DEF WriteInv
    <2> QED BY <1>1, <1>3, <1>7, <2>1 DEF WriteParked
<1> QED BY <1>1, <1>5, <1>7, <1>8, <1>9, <1>10, WriteLocal

-----------------------------------------------------------------------------
(* Application threads.                                                    *)

(* Thread t, whose connection if any is c, goes on as m.                   *)
LEMMA ThreadKeepsWrites ==
    ASSUME NetconnInv, WriteInv, NEW c \in Conns, NEW t \in Threads, thr[t].c \in {c, NULL},
           \A v \in Threads \ {t} : thr[v].c # c,
           NEW k, Settled(k), k.state # "WRITE", conn' = [conn EXCEPT ![c] = k],
           NEW m, thr' = [thr EXCEPT ![t] = m], m.c \in {c, NULL},
           m.pc = "call" => RequestTrue(t, k, m)
    PROVE  WriteInv'
<1>1. conn'[c] = k /\ \A d \in Conns \ {c} : conn'[d] = conn[d]
    BY DEF NetconnInv, TypeOK
<1>2. thr'[t] = m /\ \A v \in Threads \ {t} : thr'[v] = thr[v]
    BY DEF NetconnInv, TypeOK
<1>3. Elsewhere(c)
    BY <1>1, <1>2 DEF Elsewhere
<1>4. WriteParked(conn[c])'
    BY <1>1 DEF WriteParked
<1>5. RequestTrue(t, k, m)
    BY DEF RequestTrue
<1>6. \A v \in Threads : thr'[v].c = c => RequestTrue(v, conn'[c], thr'[v])
    BY <1>1, <1>2, <1>5
<1> QED BY <1>1, <1>3, <1>4, <1>6, WriteLocal

(* A connection on which no call is under way.                             *)
LEMMA NotWriting ==
    ASSUME NetconnInv, WriteInv, NEW c \in Conns, conn[c].current = NULL
    PROVE  Settled(conn[c]) /\ conn[c] \in ConnType /\ conn[c].state # "WRITE"
    BY KeepsSelf DEF WriteInv, InProgress

LEMMA PostKeepsWrites ==
    ASSUME NetconnInv, WriteInv, NEW t \in Threads, NEW c \in Conns,
           netconn_request(t, c) \/ netconn_accept(t, c) \/ netconn_recv(t, c)
    PROVE  WriteInv'
<1>1. MayUse(t, c) /\ conn' = conn
    BY DEF netconn_request, netconn_accept, netconn_recv
<1>2. /\ thr[t].c = NULL /\ (\A v \in Threads : thr[v].c # c)
      /\ conn[c].op_completed = 0 /\ conn[c].current = NULL /\ conn \in [Conns -> ConnType]
    BY <1>1, NotAnswered DEF MayUse, NetconnInv, OneUser, TypeOK
<1>3. Settled(conn[c]) /\ conn[c].state # "WRITE" /\ conn' = [conn EXCEPT ![c] = conn[c]]
    BY <1>1, <1>2, NotWriting
<1>4. ASSUME NEW m, thr' = [thr EXCEPT ![t] = m], m.c = c,
             m.pc = "call" => RequestTrue(t, conn[c], m)
      PROVE  WriteInv'
    BY <1>2, <1>3, <1>4, ThreadKeepsWrites
<1>5. ASSUME NEW x \in ThrType, NEW fn \in CallNames \ {"newconn"}, tcpip_apimsg(t, c, fn, x),
             fn = "write" => x.len > 0 /\ x.err = "OK" /\ x.queued = 0
      PROVE  WriteInv'
    <2> DEFINE m == Posted(x, c, fn)
    <2>1. m.c = c /\ m.pc = "call" /\ m.fn = fn /\ m.len = x.len /\ m.err = x.err /\ m.queued = x.queued
        BY DEF Posted, ThrType
    <2>2. thr' = [thr EXCEPT ![t] = m]
        BY <1>5 DEF tcpip_apimsg, Posted
    <2>3. x.len \in Nat /\ t # NULL
        BY NetconnAssumption DEF ThrType
    <2> HIDE DEF m
    <2>4. RequestTrue(t, conn[c], m)
        BY <1>2, <1>5, <2>1, <2>3 DEF RequestTrue
    <2> QED BY <1>4, <2>1, <2>2, <2>4
<1>6. CASE \E fn \in {"bind", "getaddr", "listen", "delete"} : tcpip_apimsg(t, c, fn, Idle)
    BY <1>5, <1>6, IdleType DEF CallNames
<1>7. CASE \E nb \in BOOLEAN : tcpip_apimsg(t, c, "connect", [Idle EXCEPT !.dontblock = nb])
    <2>1. \A nb \in BOOLEAN : [Idle EXCEPT !.dontblock = nb] \in ThrType
        BY IdleType DEF ThrType
    <2> QED BY <1>5, <1>7, <2>1 DEF CallNames
<1>8. CASE \E len \in 1..MaxLen, nb \in BOOLEAN :
              tcpip_apimsg(t, c, "write", [Idle EXCEPT !.len = len, !.dontblock = nb])
    <2>1. PICK len \in 1..MaxLen, nb \in BOOLEAN :
              tcpip_apimsg(t, c, "write", [Idle EXCEPT !.len = len, !.dontblock = nb])
        BY <1>8
    <2> DEFINE x == [Idle EXCEPT !.len = len, !.dontblock = nb]
    <2>2. len \in Nat /\ len > 0
        BY NetconnAssumption
    <2>3. x \in ThrType /\ x.len = len /\ x.err = "OK" /\ x.queued = 0
        <3> DEFINE y == [Idle EXCEPT !.len = len]
        <3>1. y \in ThrType
            BY <2>2, IdleType DEF ThrType
        <3>2. y.len = len /\ y.err = "OK" /\ y.queued = 0
            BY DEF Idle
        <3>3. x = [y EXCEPT !.dontblock = nb]
            OBVIOUS
        <3> HIDE DEF y, x
        <3> QED BY <3>1, <3>2, <3>3 DEF ThrType
    <2> HIDE DEF x
    <2> QED BY <1>5, <2>1, <2>2, <2>3 DEF CallNames, x
<1>9. CASE \E how \in Shutdowns : tcpip_apimsg(t, c, "close", [Idle EXCEPT !.how = how])
    <2>1. \A how \in {"RD", "WR", "RDWR"} : [Idle EXCEPT !.how = how] \in ThrType
        BY IdleType DEF ThrType
    <2> QED BY <1>5, <1>9, <2>1, NetconnAssumption DEF CallNames
<1>10. ASSUME NEW how \in {"accept", "recv"}, thr' = [thr EXCEPT ![t] = [Idle EXCEPT !.pc = how, !.c = c]]
       PROVE  WriteInv'
    <2> DEFINE m == [Idle EXCEPT !.pc = how, !.c = c]
    <2>1. m.pc # "call" /\ m.c = c
        BY DEF Idle
    <2> HIDE DEF m
    <2> QED BY <1>4, <1>10, <2>1 DEF m
<1> QED BY <1>6, <1>7, <1>8, <1>9, <1>10 DEF netconn_request, netconn_accept, netconn_recv

LEMMA NewKeepsWrites ==
    ASSUME NetconnInv, WriteInv, NEW t \in Threads, NEW c \in Conns, netconn_new(t, c)
    PROVE  WriteInv'
<1> DEFINE m == Posted(Idle, c, "newconn")
           k == netconn_alloc
<1>1. /\ thr[t].pc = "idle" /\ ~conn[c].used /\ conn' = [conn EXCEPT ![c] = k]
      /\ thr' = [thr EXCEPT ![t] = m]
    BY DEF netconn_new, tcpip_apimsg, Posted
<1>2. /\ thr[t].c = NULL /\ \A v \in Threads : thr[v].c # c
    BY <1>1, NetconnAssumption DEF NetconnInv, OneUser
<1>3. m.c = c /\ m.pc = "call" /\ m.fn = "newconn"
    BY IdleType, PostedType DEF CallNames
<1>4. k.state = "NONE" /\ ~k.pcb /\ ~k.nonblocking /\ k.write_offset = 0
    BY DEF netconn_alloc, FreeConn
<1> HIDE DEF m, k
<1>5. Settled(k) /\ RequestTrue(t, k, m)
    BY <1>3, <1>4 DEF Settled, RequestTrue
<1> QED BY <1>1, <1>2, <1>3, <1>4, <1>5, ThreadKeepsWrites

(* A thread leaves the connection it waited at or called.                  *)
LEMMA LeaveKeepsWrites ==
    ASSUME NetconnInv, WriteInv, NEW t \in Threads, AcceptFetch(t) \/ RecvFetch(t) \/ CallReturns(t)
    PROVE  WriteInv'
<1> DEFINE c == thr[t].c
<1>1. /\ c \in Conns /\ (\A v \in Threads \ {t} : thr[v].c # c) /\ conn[c].current = NULL
    <2>1. c \in Conns
        BY DEF AcceptFetch, RecvFetch, CallReturns, NetconnInv, OneUser, TypeOK, ThrType
    <2>2. \A v \in Threads : thr[v].c = c => v = t
        BY <2>1, OnlyUser
    <2>3. conn[c].current = NULL
        <3>1. thr[t].pc \in {"accept", "recv"} \/ (thr[t].pc = "call" /\ conn[c].op_completed = 1)
            BY DEF AcceptFetch, RecvFetch, CallReturns
        <3>2. CASE thr[t].pc # "call"
            BY <2>1, <2>2, <3>2, NotAnswered
        <3>3. CASE conn[c].op_completed = 1
            BY <2>1, <3>3 DEF NetconnInv, ParkedOnce
        <3> QED BY <3>1, <3>2, <3>3
    <2> QED BY <2>1, <2>2, <2>3
<1>2. Settled(conn[c]) /\ conn[c] \in ConnType /\ conn[c].state # "WRITE" /\ conn \in [Conns -> ConnType]
    BY <1>1, NotWriting DEF NetconnInv, TypeOK
<1> DEFINE Same(k) == /\ k.state = conn[c].state /\ k.pcb = conn[c].pcb /\ k.current = conn[c].current
                      /\ k.nonblocking = conn[c].nonblocking /\ k.write_offset = conn[c].write_offset
<1>3. \A k : Same(k) => Settled(k) /\ k.state # "WRITE"
    BY <1>2 DEF Settled
<1>4. CASE AcceptFetch(t)
    <2> DEFINE a == [conn[c] EXCEPT !.acceptmbox = Tail(@)]
               f == [a EXCEPT !.fatal = TRUE]
    <2>1. conn' = [conn EXCEPT ![c] = a] \/ conn' = [conn EXCEPT ![c] = f]
        BY <1>1, <1>2, <1>4 DEF AcceptFetch
    <2>2. Same(a) /\ Same(f)
        BY <1>2 DEF ConnType
    <2> HIDE DEF a, f, Same
    <2>3. thr' = [thr EXCEPT ![t] = Idle] /\ Idle.pc # "call" /\ Idle.c = NULL
        BY <1>4, IdleType DEF AcceptFetch
    <2> QED BY <1>1, <1>3, <2>1, <2>2, <2>3, ThreadKeepsWrites
<1>5. CASE RecvFetch(t)
    <2> DEFINE k == [conn[c] EXCEPT !.recvmbox = Tail(@)]
               fn == IF Head(conn[c].recvmbox) = NULL THEN "recvEof" ELSE "recv"
               m == Posted(Idle, c, fn)
    <2>1. conn' = [conn EXCEPT ![c] = k] /\ thr' = [thr EXCEPT ![t] = m]
        BY <1>1, <1>2, <1>5 DEF RecvFetch, tcpip_apimsg, Posted
    <2>2. Same(k)
        BY <1>2 DEF ConnType
    <2>3. m.c = c /\ m.fn \in {"recv", "recvEof"}
        <3>1. fn \in {"recv", "recvEof"} /\ fn \in CallNames
            BY DEF CallNames
        <3> HIDE DEF fn
        <3> QED BY <1>1, <3>1, IdleType, PostedType
    <2> HIDE DEF k, m, Same
    <2>4. RequestTrue(t, k, m)
        BY <2>3 DEF RequestTrue
    <2> QED BY <1>1, <1>3, <2>1, <2>2, <2>3, <2>4, ThreadKeepsWrites
<1>6. CASE CallReturns(t)
    <2> DEFINE k == Answered(conn[c], thr[t])
    <2>1. conn' = [conn EXCEPT ![c] = k] \/ conn' = [conn EXCEPT ![c] = FreeConn]
        BY <1>6 DEF CallReturns
    <2>2. Same(k)
        BY <1>2 DEF Answered, ConnType
    <2>3. Settled(FreeConn) /\ FreeConn.state # "WRITE"
        BY DEF FreeConn, Settled
    <2> HIDE DEF k, Same
    <2>4. thr' = [thr EXCEPT ![t] = Idle] /\ Idle.pc # "call" /\ Idle.c = NULL
        BY <1>6, IdleType DEF CallReturns
    <2> QED BY <1>1, <1>3, <2>1, <2>2, <2>3, <2>4, ThreadKeepsWrites
<1> QED BY <1>4, <1>5, <1>6

-----------------------------------------------------------------------------
LEMMA WritesKept == NetconnInv /\ WriteInv /\ [NetconnNext]_netconnVars => WriteInv'
<1> SUFFICES ASSUME NetconnInv, WriteInv, [NetconnNext]_netconnVars PROVE WriteInv'
    OBVIOUS
<1>1. ASSUME NEW t \in Threads, AppNext(t) PROVE WriteInv'
    BY <1>1, NewKeepsWrites, PostKeepsWrites, LeaveKeepsWrites DEF AppNext
<1>2. ASSUME NEW c \in Conns, TcpEvent(c) PROVE WriteInv'
    BY <1>2, ConnectedKeepsWrites, ErrKeepsWrites, RecvKeepsWrites, SentKeepsWrites,
       AcceptKeepsWrites DEF TcpEvent
<1>3. CASE UNCHANGED netconnVars
    BY <1>3 DEF netconnVars, WriteInv, WriteParked, RequestTrue, Settled
<1> QED BY <1>1, <1>2, <1>3, RequestKeepsWrites DEF NetconnNext

LEMMA InitWrites == NetconnInit => WriteInv
<1> SUFFICES ASSUME NetconnInit PROVE WriteInv
    OBVIOUS
<1>1. conn = [c \in Conns |-> FreeConn] /\ thr = [t \in Threads |-> Idle]
    BY DEF NetconnInit
<1>2. Settled(FreeConn) /\ WriteParked(FreeConn)
    BY DEF FreeConn, Settled, WriteParked
<1> QED BY <1>1, <1>2, IdleType DEF WriteInv

(* netconn_write returns success exactly when tcp_write took every byte    *)
(* once, over all the retries, and the assertions "already writing or      *)
(* closing" hold: for any number of threads and connections, any length of *)
(* a write, however much of it the send buffer takes at a time, and with   *)
(* memory failures, errors and half shutdowns in any order.                *)
THEOREM WritesAllOrReports == NetconnSpec => []WriteAllOrError
<1>1. NetconnSpec => [](NetconnInv /\ WriteInv)
    BY InitWrites, InitGood, StepGood, WritesKept, PTL DEF NetconnSpec
<1>2. NetconnInv /\ WriteInv => WriteAllOrError
    <2> SUFFICES ASSUME NetconnInv, WriteInv PROVE WriteAllOrError
        OBVIOUS
    <2>1. ASSUME NEW t \in Threads, thr[t].pc = "call", thr[t].fn = "write",
                 conn[thr[t].c].op_completed = 1
          PROVE  thr[t].err = "OK" <=> thr[t].queued = thr[t].len
        BY <2>1 DEF WriteInv, RequestTrue, NetconnInv, OneUser
    <2>2. ASSUME NEW c \in Conns, conn[c].pcb, conn[c].state \in {"NONE", "LISTEN"}
          PROVE  conn[c].current = NULL /\ conn[c].write_offset = 0
        BY <2>2 DEF WriteInv, Settled
    <2> QED BY <2>1, <2>2 DEF WriteAllOrError
<1> QED BY <1>1, <1>2, PTL

-----------------------------------------------------------------------------
(* Who waits, and who can come.  Under the behaviours of the standing run: *)
(* a connection is shut down both ways at once, and the end of a stream    *)
(* finds room in the mailbox.                                              *)

(* A connection and its control block know each other or not, both ways; a *)
(* connect that nobody waits for is really under way; a connection that is *)
(* being closed has no mailbox, one that accepts listens, and only a       *)
(* connected peer has ended its stream.                                    *)
Paired(k, p) ==
    /\ p.arg <=> k.pcb
    /\ k.pcb => k.used
    /\ k.nonblocking => k.current = NULL /\ (k.pcb => p.state = "SYN_SENT")
    /\ k.state = "CLOSE" => k.pcb /\ ~Valid(k.recvmbox) /\ ~Valid(k.acceptmbox)
    /\ Valid(k.acceptmbox) => k.pcb /\ p.state = "LISTEN"
    /\ p.fin => p.state = "ESTABLISHED"

(* A connection from which more can be received has a control block that   *)
(* can deliver it, unless it is just being created, or a thread has taken  *)
(* the end of the stream and not yet noted it.                             *)
Open(k) == Valid(k.recvmbox) /\ ~k.fatal /\ NULL \notin ToSet(k.recvmbox)
Hears(k, p) == Open(k) => k.pcb /\ ~p.fin

Excused(c) ==
    \E t \in Threads : thr[t].pc = "call" /\ thr[t].c = c /\ thr[t].fn \in {"newconn", "recvEof"}

(* Thread t with request q on connection k, m being the queue: who takes   *)
(* care of it, and what it may rely on when it goes on.                    *)
Cared(t, k, q, m) ==
    /\ q.pc = "call" /\ k.op_completed = 0 => t \in ToSet(m) \/ (k.current = t /\ k.pcb)
    /\ q.pc = "recv" => Valid(k.recvmbox) /\ (k.fatal => k.recvmbox # <<>>)
    /\ q.pc = "accept" => Valid(k.acceptmbox)
    /\ q.pc = "call" /\ q.fn = "newconn" =>
         IF k.op_completed = 1 /\ q.err = "OK" THEN k.pcb ELSE ~k.pcb
    /\ q.pc = "call" /\ q.fn = "delete" /\ k.op_completed = 1 => ~k.pcb
    /\ q.pc = "call" /\ q.fn = "close" => q.how = "RDWR"
    /\ k.state = "CLOSE" /\ k.current = t => q.fn \in {"close", "delete"}
    /\ k.state = "CONNECT" /\ k.current = t => q.fn = "connect"

LiveAt(c) ==
    /\ Paired(conn[c], pcb[c])
    /\ Excused(c) \/ Hears(conn[c], pcb[c])
    /\ \A t \in Threads : thr[t].c = c => Cared(t, conn[c], thr[t], mbox)

LiveInv == \A c \in Conns : LiveAt(c)

(* A step touches one connection and the threads that use it, before or    *)
(* after; other connections stay, or are made or freed and known to nobody;*)
(* the requests of other threads stay where they are.                      *)
Apart(c) ==
    /\ \A d \in Conns \ {c} :
         \/ conn'[d] = conn[d] /\ pcb'[d] = pcb[d]
         \/ /\ Paired(conn'[d], pcb'[d]) /\ Hears(conn'[d], pcb'[d])
            /\ \A t \in Threads : thr[t].c # d
    /\ \A t \in Threads :
         \/ thr'[t] = thr[t] /\ (t \in ToSet(mbox) => t \in ToSet(mbox'))
         \/ thr[t].c \in {c, NULL} /\ thr'[t].c \in {c, NULL}

LEMMA LiveLocal ==
    ASSUME LiveInv, NEW c \in Conns, Apart(c), LiveAt(c)'
    PROVE  LiveInv'
<1> USE NetconnAssumption
<1> SUFFICES ASSUME NEW d \in Conns \ {c} PROVE LiveAt(d)'
    BY DEF LiveInv
<1>1. d # NULL /\ LiveAt(d)
    BY DEF LiveInv
<1>2. ASSUME NEW t \in Threads, thr[t].c = d \/ thr'[t].c = d
      PROVE  thr'[t] = thr[t] /\ (t \in ToSet(mbox) => t \in ToSet(mbox'))
    BY <1>1, <1>2 DEF Apart
<1>3. CASE conn'[d] = conn[d] /\ pcb'[d] = pcb[d]
    <2>1. Excused(d) => Excused(d)'
        BY <1>2 DEF Excused
    <2>2. ASSUME NEW t \in Threads, thr'[t].c = d PROVE Cared(t, conn'[d], thr'[t], mbox')
        <3>1. Cared(t, conn[d], thr[t], mbox) /\ thr'[t] = thr[t]
              /\ (t \in ToSet(mbox) => t \in ToSet(mbox'))
            BY <1>1, <1>2, <2>2 DEF LiveAt
        <3> QED BY <1>3, <3>1 DEF Cared
    <2> QED BY <1>1, <1>3, <2>1, <2>2 DEF LiveAt
<1>4. CASE /\ Paired(conn'[d], pcb'[d]) /\ Hears(conn'[d], pcb'[d])
           /\ \A t \in Threads : thr[t].c # d
    BY <1>2, <1>4 DEF LiveAt
<1> QED BY <1>3, <1>4 DEF Apart

-----------------------------------------------------------------------------
(* tcpip_thread serves the request of thread u on connection c.            *)

(* What it leaves, besides Serves: the pair, what can be received, and u   *)
(* answered or parked where it will be called back.                        *)
LivesOn(c, u, r) ==
    /\ Paired(r.conn, r.pcb)
    /\ Hears(conn[c], pcb[c]) => Hears(r.conn, r.pcb)
    /\ r.t = NULL => r.conn.current = u /\ r.conn.pcb
    /\ thr[u].fn = "newconn" => r.t = u /\ (r.conn.pcb <=> r.err = "OK")
    /\ thr[u].fn = "delete" /\ r.t = u => ~r.conn.pcb
    /\ r.conn.state = "CLOSE" => thr[u].fn \in {"close", "delete"}
    /\ r.conn.state = "CONNECT" /\ r.conn.current = u => thr[u].fn = "connect"

Answers(c, u, r) ==
    /\ conn'[c] = r.conn /\ pcb'[c] = r.pcb
    /\ \A d \in Conns \ {c} :
         \/ conn'[d] = conn[d] /\ pcb'[d] = pcb[d]
         \/ conn'[d] = FreeConn /\ pcb'[d] = NoPcb /\ d \in PendingIn(conn[c].acceptmbox)
    /\ thr'[u].pc = thr[u].pc /\ thr'[u].c = c /\ thr'[u].fn = thr[u].fn /\ thr'[u].how = thr[u].how
    /\ r.t = u => thr'[u].err = r.err
    /\ \A t \in Threads \ {u} : thr'[t] = thr[t] /\ (t \in ToSet(mbox) => t \in ToSet(mbox'))

LEMMA FreeLives == Paired(FreeConn, NoPcb) /\ Hears(FreeConn, NoPcb)
    BY DEF Paired, Hears, Open, FreeConn, NoPcb, Valid

LEMMA LiveServed ==
    ASSUME NetconnInv, LiveInv, NEW c \in Conns, NEW u \in Threads, Requests(c, u),
           NEW r, Serves(c, u, r), LivesOn(c, u, r), Answers(c, u, r)
    PROVE  LiveInv'
<1> USE NetconnAssumption
<1>1. thr[u].pc = "call" /\ thr[u].c = c /\ u # NULL /\ conn[c].op_completed = 0
    BY DEF Requests
<1>2. \A t \in Threads : thr[t].c = c => t = u
    BY <1>1, OnlyUser
<1>3. \A d \in PendingIn(conn[c].acceptmbox) \cap Conns : \A t \in Threads : thr[t].c # d
    BY DEF NetconnInv, PendingUnknown
<1>4. Apart(c)
    BY <1>1, <1>3, FreeLives DEF Apart, Answers
<1>5. LiveAt(c) /\ Cared(u, conn[c], thr[u], mbox)
    BY <1>1 DEF LiveInv, LiveAt
<1>6. Excused(c)' \/ Hears(r.conn, r.pcb)
    BY <1>1, <1>2, <1>5 DEF LiveAt, Excused, Answers, LivesOn
<1>7. Cared(u, r.conn, thr'[u], mbox')
    BY <1>1, <1>5 DEF Cared, Serves, LivesOn, Answers
<1>8. \A t \in Threads : thr'[t].c = c => t = u
    BY <1>2 DEF Answers
<1>9. LiveAt(c)'
    BY <1>6, <1>7, <1>8 DEF LiveAt, Answers, LivesOn
<1> QED BY <1>4, <1>9, LiveLocal

(* The same of Apply, ApplyDrain and ApplyWrite.                           *)
LEMMA AppliedAnswers ==
    ASSUME NetconnInv, NEW c \in Conns, NEW u \in Threads, Requests(c, u), NEW r, Serves(c, u, r),
           Apply(c, r) \/ \E v : ApplyDrain(c, r, Drained(c, v)),
           \A t \in Threads \ {u} : t \in ToSet(mbox) => t \in ToSet(mbox')
    PROVE  Answers(c, u, r)
<1> USE NetconnAssumption
<1>1. /\ thr \in [Threads -> ThrType] /\ thr[u].c = c /\ u # NULL
      /\ conn \in [Conns -> ConnType] /\ pcb \in [Conns -> PcbType]
    BY DEF Requests, NetconnInv, TypeOK
<1>2. /\ conn'[c] = r.conn /\ pcb'[c] = r.pcb
      /\ \A d \in Conns \ {c} :
           \/ conn'[d] = conn[d] /\ pcb'[d] = pcb[d]
           \/ conn'[d] = FreeConn /\ pcb'[d] = NoPcb /\ d \in PendingIn(conn[c].acceptmbox)
    <2>1. CASE Apply(c, r)
        BY <1>1, <2>1 DEF Apply
    <2>2. CASE \E v : ApplyDrain(c, r, Drained(c, v))
        <3>1. \A v : Drained(c, v) \subseteq PendingIn(conn[c].acceptmbox)
            BY DEF Drained, Pending, PendingIn
        <3> QED BY <2>2, <3>1 DEF ApplyDrain
    <2> QED BY <2>1, <2>2
<1>3. thr' = IF r.t = NULL THEN thr ELSE [thr EXCEPT ![r.t].err = r.err]
    BY DEF Apply, ApplyDrain
<1>4. r.t \in {u, NULL}
    BY DEF Serves
<1>5. \A t \in Threads \ {u} : thr'[t] = thr[t]
    BY <1>1, <1>3, <1>4
<1>6. /\ thr'[u].pc = thr[u].pc /\ thr'[u].c = c /\ thr'[u].fn = thr[u].fn
      /\ thr'[u].how = thr[u].how /\ (r.t = u => thr'[u].err = r.err)
    BY <1>1, <1>3, <1>4 DEF ThrType
<1> QED BY <1>2, <1>5, <1>6 DEF Answers

LEMMA WrittenAnswers ==
    ASSUME NetconnInv, NEW c \in Conns, NEW u \in Threads, Requests(c, u),
           NEW k, NEW available, NEW nomem, ApplyWrite(c, k, u, available, nomem),
           do_writemore(c, k, u, available, nomem).pcb = pcb[c],
           do_writemore(c, k, u, available, nomem).t \in {u, NULL},
           \A t \in Threads \ {u} : t \in ToSet(mbox) => t \in ToSet(mbox')
    PROVE  Answers(c, u, do_writemore(c, k, u, available, nomem))
<1> DEFINE r == do_writemore(c, k, u, available, nomem)
           n == Taken(c, k, u, available, nomem)
           q == [thr[u] EXCEPT !.queued = @ + n, !.err = IF r.t = NULL THEN @ ELSE r.err]
<1> USE NetconnAssumption
<1>1. /\ thr \in [Threads -> ThrType] /\ thr[u].c = c /\ u # NULL /\ conn \in [Conns -> ConnType]
    BY DEF Requests, NetconnInv, TypeOK
<1>2. /\ conn'[c] = r.conn /\ \A d \in Conns \ {c} : conn'[d] = conn[d]
      /\ pcb' = pcb /\ thr'[u] = q /\ \A t \in Threads \ {u} : thr'[t] = thr[t]
    BY <1>1 DEF ApplyWrite
<1>3. r.pcb = pcb[c] /\ r.t \in {u, NULL}
    OBVIOUS
<1> HIDE DEF r, n
<1>4. /\ q.pc = thr[u].pc /\ q.c = c /\ q.fn = thr[u].fn /\ q.how = thr[u].how
      /\ (r.t = u => q.err = r.err)
    BY <1>1 DEF ThrType
<1> HIDE DEF q
<1> QED BY <1>2, <1>3, <1>4 DEF Answers, r

(* What a function that only starts, ends or goes on with an operation     *)
(* leaves alone.                                                           *)
Alike(j, k) ==
    /\ k.used = j.used /\ k.pcb = j.pcb /\ k.nonblocking = j.nonblocking /\ k.fatal = j.fatal
    /\ k.recvmbox = j.recvmbox /\ k.acceptmbox = j.acceptmbox

LEMMA AlikeLives ==
    ASSUME NEW j, NEW k, NEW p, Paired(j, p), Alike(j, k), k.state \in {j.state, "NONE", "WRITE"},
           k.nonblocking => k.current = NULL
    PROVE  Paired(k, p) /\ (Hears(j, p) => Hears(k, p))
    BY DEF Paired, Hears, Open, Alike

LEMMA AnswerFields ==
    ASSUME NEW k \in ConnType, NEW p, NEW u, NEW err
    PROVE  LET a == Ack(k, p, u, err)
               f == Finish(k, p, err)
           IN /\ a.t = u /\ a.err = err /\ a.pcb = p /\ Alike(k, a.conn)
              /\ a.conn.state = k.state /\ a.conn.current = k.current
              /\ f.t = k.current /\ f.err = err /\ f.pcb = p /\ Alike(k, f.conn)
              /\ f.conn.state = "NONE" /\ f.conn.current = NULL
<1> DEFINE e == [k EXCEPT !.op_completed = 1]
           n == [k EXCEPT !.current = NULL, !.state = "NONE"]
           m == [n EXCEPT !.op_completed = 1]
<1>1. Alike(k, e) /\ e.state = k.state /\ e.current = k.current
    BY DEF Alike, ConnType
<1>2. Alike(k, m) /\ m.state = "NONE" /\ m.current = NULL
    BY DEF Alike, ConnType
<1>3. /\ Ack(k, p, u, err) = [conn |-> e, pcb |-> p, t |-> u, err |-> err]
      /\ Finish(k, p, err) = [conn |-> m, pcb |-> p, t |-> k.current, err |-> err]
    BY DEF Ack, Finish, Result
<1> HIDE DEF e, n, m
<1> QED BY <1>1, <1>2, <1>3

(* What holds when the head of the queue is served.                        *)
LEMMA HeadAlive ==
    ASSUME NetconnInv, WriteInv, LiveInv, NEW c \in Conns, NEW u \in Threads, Requests(c, u),
           conn[c].current = NULL
    PROVE  /\ conn[c] \in ConnType /\ pcb[c] \in PcbType /\ Paired(conn[c], pcb[c]) /\ Settled(conn[c])
           /\ conn[c].state \in {"NONE", "LISTEN", "CONNECT"} /\ conn[c].used
           /\ Cared(u, conn[c], thr[u], mbox) /\ u # NULL /\ thr[u].pc = "call"
           /\ conn[c].op_completed = 0 /\ thr[u].c = c
<1>1. conn[c] \in ConnType /\ pcb[c] \in PcbType /\ conn[c].state \in {"NONE", "LISTEN", "CONNECT"}
    <2>1. conn[c].state \notin {"WRITE", "CLOSE"}
        BY KeepsSelf DEF InProgress
    <2> QED BY <2>1, KeepsSelf DEF ConnType
<1>2. u # NULL /\ thr[u].pc = "call" /\ thr[u].c = c /\ conn[c].op_completed = 0
    BY NetconnAssumption DEF Requests
<1>3. conn[c].used
    BY <1>2, NetconnAssumption DEF NetconnInv, OneUser
<1> QED BY <1>1, <1>2, <1>3 DEF LiveInv, LiveAt, WriteInv

(* A request that is answered with nothing changed.                        *)
LEMMA PlainLives ==
    ASSUME NetconnInv, WriteInv, LiveInv, NEW c \in Conns, NEW u \in Threads, Requests(c, u),
           conn[c].current = NULL, thr[u].fn # "delete", NEW err,
           thr[u].fn = "newconn" => err # "OK"
    PROVE  LivesOn(c, u, Ack(conn[c], pcb[c], u, err))
<1> DEFINE a == Ack(conn[c], pcb[c], u, err)
<1>1. /\ conn[c] \in ConnType /\ Paired(conn[c], pcb[c]) /\ conn[c].state # "CLOSE" /\ u # NULL
      /\ thr[u].fn = "newconn" => ~conn[c].pcb
    BY HeadAlive DEF Cared
<1>2. /\ a.t = u /\ a.err = err /\ a.pcb = pcb[c] /\ Alike(conn[c], a.conn)
      /\ a.conn.state = conn[c].state /\ a.conn.current = NULL
    BY <1>1, AnswerFields
<1>3. Paired(a.conn, pcb[c]) /\ (Hears(conn[c], pcb[c]) => Hears(a.conn, pcb[c]))
    BY <1>1, <1>2, AlikeLives
<1> HIDE DEF a
<1>4. LivesOn(c, u, a)
    BY <1>1, <1>2, <1>3 DEF LivesOn, Alike
<1> QED BY <1>4 DEF a

LEMMA NewconnLives ==
    ASSUME NetconnInv, WriteInv, LiveInv, NEW c \in Conns, NEW u \in Threads, Requests(c, u),
           conn[c].current = NULL, thr[u].fn = "newconn", NEW nomem \in BOOLEAN
    PROVE  LivesOn(c, u, do_newconn(c, u, nomem))
<1> DEFINE k == [conn[c] EXCEPT !.pcb = TRUE]
           p == [NoPcb EXCEPT !.state = "CLOSED", !.arg = TRUE]
           a == Ack(k, p, u, "OK")
<1>1. CASE nomem
    BY <1>1, PlainLives DEF do_newconn
<1>2. CASE ~nomem
    <2>1. /\ conn[c] \in ConnType /\ Paired(conn[c], pcb[c]) /\ conn[c].used /\ u # NULL
          /\ ~conn[c].pcb
        BY HeadAlive DEF Cared
    <2>2. conn[c].state = "NONE" /\ ~conn[c].nonblocking
        BY HeadAlive, HeadState DEF RequestTrue
    <2>3. /\ k \in ConnType /\ k.pcb /\ k.used /\ k.state = "NONE" /\ ~k.nonblocking
          /\ k.acceptmbox = conn[c].acceptmbox /\ k.current = NULL
        BY <2>1, <2>2 DEF ConnType
    <2>4. p.state = "CLOSED" /\ p.arg /\ ~p.fin
        BY DEF NoPcb
    <2> HIDE DEF k, p
    <2>5. Paired(k, p) /\ Hears(k, p)
        BY <2>1, <2>3, <2>4 DEF Paired, Hears
    <2>6. /\ a.t = u /\ a.err = "OK" /\ a.pcb = p /\ Alike(k, a.conn)
          /\ a.conn.state = "NONE" /\ a.conn.current = NULL
        BY <2>3, AnswerFields
    <2> HIDE DEF a
    <2>7. Paired(a.conn, p) /\ Hears(a.conn, p)
        BY <2>3, <2>5, <2>6, AlikeLives
    <2>8. LivesOn(c, u, a)
        BY <2>1, <2>3, <2>6, <2>7 DEF LivesOn, Alike
    <2> QED BY <1>2, <2>8 DEF do_newconn, a, k, p
<1> QED BY <1>1, <1>2

LEMMA ConnectLives ==
    ASSUME NetconnInv, WriteInv, LiveInv, NEW c \in Conns, NEW u \in Threads, Requests(c, u),
           conn[c].current = NULL, thr[u].fn = "connect", NEW nomem \in BOOLEAN
    PROVE  LivesOn(c, u, do_connect(c, u, nomem))
<1> DEFINE k == [conn[c] EXCEPT !.state = "CONNECT", !.nonblocking = thr[u].dontblock]
           z == [k EXCEPT !.current = u]
           p == [pcb[c] EXCEPT !.state = "SYN_SENT"]
           a == Ack(k, p, u, "soft")
           b == Result(z, p, NULL, "OK")
<1>1. CASE ~conn[c].pcb \/ conn[c].state # "NONE" \/ pcb[c].state # "CLOSED" \/ nomem
    BY <1>1, PlainLives DEF do_connect
<1>2. CASE ~(~conn[c].pcb \/ conn[c].state # "NONE" \/ pcb[c].state # "CLOSED" \/ nomem)
    <2>1. /\ conn[c] \in ConnType /\ pcb[c] \in PcbType /\ Paired(conn[c], pcb[c])
          /\ conn[c].used /\ u # NULL
        BY HeadAlive
    <2>2. thr[u].dontblock \in BOOLEAN
        BY DEF NetconnInv, TypeOK, ThrType
    <2>3. /\ k \in ConnType /\ k.pcb /\ k.used /\ k.state = "CONNECT" /\ k.current = NULL
          /\ k.nonblocking = thr[u].dontblock /\ k.acceptmbox = conn[c].acceptmbox
          /\ k.recvmbox = conn[c].recvmbox /\ k.fatal = conn[c].fatal
        BY <1>2, <2>1, <2>2 DEF ConnType
    <2>4. p.state = "SYN_SENT" /\ p.arg = pcb[c].arg /\ p.fin = pcb[c].fin
        BY <2>1 DEF PcbType
    <2> HIDE DEF k, p
    <2>5. z \in ConnType /\ Alike(k, z) /\ z.state = "CONNECT" /\ z.current = u
        BY <2>3 DEF ConnType, Alike
    <2> HIDE DEF z
    <2>6. ~Valid(conn[c].acceptmbox) /\ ~pcb[c].fin /\ pcb[c].arg
        BY <1>2, <2>1 DEF Paired
    <2>7. Paired(k, p) /\ (Hears(conn[c], pcb[c]) => Hears(k, p))
        BY <1>2, <2>3, <2>4, <2>6 DEF Paired, Hears, Open
    <2>8. ~thr[u].dontblock => Paired(z, p) /\ (Hears(conn[c], pcb[c]) => Hears(z, p))
        BY <2>3, <2>5, <2>7 DEF Paired, Hears, Open, Alike
    <2>9. /\ a.t = u /\ a.err = "soft" /\ a.pcb = p /\ Alike(k, a.conn)
          /\ a.conn.state = "CONNECT" /\ a.conn.current = NULL
        BY <2>3, AnswerFields
    <2>10. b.t = NULL /\ b.conn = z /\ b.pcb = p
        BY DEF Result
    <2> HIDE DEF a, b
    <2>11. Paired(a.conn, p) /\ (Hears(k, p) => Hears(a.conn, p))
        BY <2>3, <2>7, <2>9, AlikeLives
    <2>12. LivesOn(c, u, a)
        BY <2>1, <2>7, <2>9, <2>11 DEF LivesOn
    <2>13. ~thr[u].dontblock => LivesOn(c, u, b)
        BY <2>1, <2>3, <2>5, <2>8, <2>10 DEF LivesOn, Alike
    <2>14. do_connect(c, u, nomem) = IF thr[u].dontblock THEN a ELSE b
        BY <1>2 DEF do_connect, a, b, k, p, z
    <2> QED BY <2>2, <2>12, <2>13, <2>14
<1> QED BY <1>1, <1>2

LEMMA ListenLives ==
    ASSUME NetconnInv, WriteInv, LiveInv, NEW c \in Conns, NEW u \in Threads, Requests(c, u),
           conn[c].current = NULL, thr[u].fn = "listen", NEW nomem \in BOOLEAN
    PROVE  LivesOn(c, u, do_listen(c, u, nomem))
<1> DEFINE k == [conn[c] EXCEPT !.recvmbox = Invalid]
           n == [k EXCEPT !.pcb = FALSE]
           m == [k EXCEPT !.state = "LISTEN", !.acceptmbox = <<>>]
           p == [pcb[c] EXCEPT !.state = "LISTEN"]
           a == Ack(n, NoPcb, u, "soft")
           b == Ack(m, p, u, "OK")
<1>1. CASE conn[c].fatal \/ ~conn[c].pcb \/ conn[c].state # "NONE" \/ pcb[c].state # "CLOSED"
    BY <1>1, PlainLives DEF do_listen
<1>2. CASE ~(conn[c].fatal \/ ~conn[c].pcb \/ conn[c].state # "NONE" \/ pcb[c].state # "CLOSED")
    <2>1. /\ conn[c] \in ConnType /\ pcb[c] \in PcbType /\ Paired(conn[c], pcb[c])
          /\ conn[c].used /\ u # NULL /\ ~conn[c].nonblocking
        BY <1>2, HeadAlive DEF Settled
    <2>2. ~Valid(conn[c].acceptmbox) /\ ~pcb[c].fin /\ pcb[c].arg
        BY <1>2, <2>1 DEF Paired
    <2>3. k \in ConnType /\ k.recvmbox = Invalid /\ Invalid \in Seq(Msgs) /\ <<>> \in Seq(Msgs)
        BY <2>1, MailboxConstants DEF ConnType
    <2>4. /\ k.used /\ k.pcb /\ ~k.nonblocking /\ k.acceptmbox = conn[c].acceptmbox
          /\ k.state = "NONE" /\ k.current = NULL
        BY <1>2, <2>1 DEF ConnType
    <2> HIDE DEF k
    <2>5. /\ n \in ConnType /\ n.recvmbox = Invalid /\ ~n.pcb /\ n.used /\ ~n.nonblocking
          /\ n.acceptmbox = k.acceptmbox /\ n.state = "NONE" /\ n.current = NULL
        BY <2>3, <2>4 DEF ConnType
    <2>6. /\ m \in ConnType /\ m.recvmbox = Invalid /\ m.pcb /\ m.used /\ ~m.nonblocking
          /\ m.state = "LISTEN" /\ m.current = NULL
        BY <2>3, <2>4 DEF ConnType
    <2>7. p.state = "LISTEN" /\ p.arg /\ ~p.fin
        BY <2>1, <2>2 DEF PcbType
    <2> HIDE DEF n, m, p
    <2>8. Paired(n, NoPcb) /\ Hears(n, NoPcb) /\ Paired(m, p) /\ Hears(m, p)
        BY <2>2, <2>4, <2>5, <2>6, <2>7 DEF Paired, Hears, Open, Valid, NoPcb
    <2>9. /\ a.t = u /\ a.pcb = NoPcb /\ Alike(n, a.conn) /\ a.conn.state = "NONE"
          /\ a.conn.current = NULL
        BY <2>5, AnswerFields
    <2>10. /\ b.t = u /\ b.pcb = p /\ Alike(m, b.conn) /\ b.conn.state = "LISTEN"
           /\ b.conn.current = NULL
        BY <2>6, AnswerFields
    <2> HIDE DEF a, b
    <2>11. /\ Paired(a.conn, NoPcb) /\ Hears(a.conn, NoPcb)
           /\ Paired(b.conn, p) /\ Hears(b.conn, p)
        BY <2>5, <2>6, <2>8, <2>9, <2>10, AlikeLives
    <2>12. LivesOn(c, u, a) /\ LivesOn(c, u, b)
        BY <2>1, <2>9, <2>10, <2>11 DEF LivesOn
    <2>13. do_listen(c, u, nomem) = IF nomem THEN a ELSE b
        BY <1>2 DEF do_listen, a, b, k, n, m, p
    <2> QED BY <2>12, <2>13
<1> QED BY <1>1, <1>2

(* A close, started or tried again, of a connection without mailboxes.     *)
LEMMA CloseLives ==
    ASSUME NEW c \in Conns, NEW u \in Threads, thr[u].fn \in {"close", "delete"},
           NEW k \in ConnType, k.state = "CLOSE", k.current = u, k.pcb, k.used,
           ~Valid(k.recvmbox), ~Valid(k.acceptmbox), NEW p, p.arg, p.fin => p.state = "ESTABLISHED",
           k.nonblocking => p.state = "SYN_SENT", NEW nomem \in BOOLEAN
    PROVE  LivesOn(c, u, do_close_internal(k, p, "RDWR", nomem))
<1> USE NetconnAssumption
<1> DEFINE f == [k EXCEPT !.pcb = FALSE]
           a == Finish(f, NoPcb, "OK")
           b == Result(k, p, NULL, "OK")
<1>1. /\ f \in ConnType /\ ~f.pcb /\ f.recvmbox = k.recvmbox /\ f.acceptmbox = k.acceptmbox
      /\ f.current = u /\ f.used
    BY DEF ConnType
<1> HIDE DEF f
<1>2. /\ a.t = u /\ a.err = "OK" /\ a.pcb = NoPcb /\ Alike(f, a.conn)
      /\ a.conn.state = "NONE" /\ a.conn.current = NULL
    BY <1>1, AnswerFields
<1>3. b.t = NULL /\ b.conn = k /\ b.pcb = p
    BY DEF Result
<1> HIDE DEF a, b
<1>4. Paired(a.conn, NoPcb) /\ Hears(a.conn, NoPcb)
    BY <1>1, <1>2 DEF Paired, Hears, Open, Alike, NoPcb
<1>5. LivesOn(c, u, a)
    BY <1>1, <1>2, <1>4 DEF LivesOn, Alike
<1>6. p.state = "ESTABLISHED" => Paired(k, p) /\ Hears(k, p)
    BY DEF Paired, Hears, Open
<1>7. p.state = "ESTABLISHED" => LivesOn(c, u, b)
    BY <1>3, <1>6 DEF LivesOn
<1>8. do_close_internal(k, p, "RDWR", nomem) = IF nomem /\ p.state = "ESTABLISHED" THEN b ELSE a
    BY DEF do_close_internal, a, b, f
<1> QED BY <1>5, <1>7, <1>8

LEMMA StartCloseLives ==
    ASSUME NetconnInv, WriteInv, LiveInv, NEW c \in Conns, NEW u \in Threads, Requests(c, u),
           conn[c].current = NULL, conn[c].pcb, thr[u].fn \in {"close", "delete"},
           NEW nomem \in BOOLEAN
    PROVE  LivesOn(c, u, do_close_internal(StartClose(netconn_drain(conn[c]), u), pcb[c], "RDWR", nomem))
<1> DEFINE d == netconn_drain(conn[c])
           k == StartClose(d, u)
<1>1. conn[c] \in ConnType /\ Paired(conn[c], pcb[c]) /\ conn[c].used
    BY HeadAlive
<1>2. /\ d \in ConnType /\ d.recvmbox = Invalid /\ d.acceptmbox = Invalid /\ d.pcb /\ d.used
      /\ d.nonblocking = conn[c].nonblocking
    BY <1>1, MailboxConstants DEF netconn_drain, ConnType
<1> HIDE DEF d
<1>3. /\ k \in ConnType /\ k.recvmbox = Invalid /\ k.acceptmbox = Invalid /\ k.pcb /\ k.used
      /\ k.nonblocking = conn[c].nonblocking /\ k.state = "CLOSE" /\ k.current = u
    BY <1>2 DEF StartClose, ConnType
<1> HIDE DEF k
<1>4. /\ pcb[c].arg /\ (pcb[c].fin => pcb[c].state = "ESTABLISHED")
      /\ (conn[c].nonblocking => pcb[c].state = "SYN_SENT")
    BY <1>1 DEF Paired
<1>5. LivesOn(c, u, do_close_internal(k, pcb[c], "RDWR", nomem))
    BY <1>3, <1>4, CloseLives DEF Valid
<1> QED BY <1>5 DEF k, d

LEMMA DoCloseLives ==
    ASSUME NetconnInv, WriteInv, LiveInv, NEW c \in Conns, NEW u \in Threads, Requests(c, u),
           conn[c].current = NULL, thr[u].fn = "close", NEW nomem \in BOOLEAN
    PROVE  LivesOn(c, u, do_close(c, u, nomem))
<1>1. thr[u].how = "RDWR"
    BY HeadAlive DEF Cared
<1>2. CASE CloseRefused(c, "RDWR") # "OK"
    BY <1>1, <1>2, PlainLives DEF do_close
<1>3. CASE CloseRefused(c, "RDWR") = "OK"
    <2>1. conn[c].pcb
        BY <1>3 DEF CloseRefused
    <2>2. do_close(c, u, nomem) =
            do_close_internal(StartClose(netconn_drain(conn[c]), u), pcb[c], "RDWR", nomem)
        BY <1>1, <1>3 DEF do_close
    <2> QED BY <2>1, <2>2, StartCloseLives
<1> QED BY <1>2, <1>3

(* netconn_delete is never refused, for no other call is under way.        *)
LEMMA DelconnLives ==
    ASSUME NetconnInv, WriteInv, LiveInv, NEW c \in Conns, NEW u \in Threads, Requests(c, u),
           conn[c].current = NULL, thr[u].fn = "delete", NEW nomem \in BOOLEAN
    PROVE  LivesOn(c, u, do_delconn(c, u, nomem))
<1> DEFINE k == netconn_drain(conn[c])
           a == Ack(k, pcb[c], u, "OK")
<1>1. /\ conn[c] \in ConnType /\ Paired(conn[c], pcb[c]) /\ ~DeleteRefused(c) /\ u # NULL
      /\ conn[c].state # "CLOSE"
    BY HeadAlive DEF DeleteRefused
<1>2. CASE conn[c].pcb
    <2>1. do_delconn(c, u, nomem) =
            do_close_internal(StartClose(k, u), pcb[c], "RDWR", nomem)
        BY <1>1, <1>2 DEF do_delconn
    <2> QED BY <1>2, <2>1, StartCloseLives
<1>3. CASE ~conn[c].pcb
    <2>1. /\ k \in ConnType /\ k.recvmbox = Invalid /\ k.acceptmbox = Invalid /\ ~k.pcb
          /\ k.state = conn[c].state /\ k.current = NULL
        BY <1>1, <1>3, MailboxConstants DEF netconn_drain, ConnType
    <2> HIDE DEF k
    <2>2. a.t = u /\ a.pcb = pcb[c] /\ Alike(k, a.conn) /\ a.conn.state = k.state /\ a.conn.current = NULL
        BY <2>1, AnswerFields
    <2> HIDE DEF a
    <2>3. Paired(a.conn, pcb[c]) /\ Hears(a.conn, pcb[c])
        BY <1>1, <1>3, <2>1, <2>2 DEF Paired, Hears, Open, Valid, Alike
    <2>4. LivesOn(c, u, a)
        BY <1>1, <2>1, <2>2, <2>3 DEF LivesOn, Alike
    <2>5. do_delconn(c, u, nomem) = a
        BY <1>1, <1>3 DEF do_delconn, a, k
    <2> QED BY <2>4, <2>5
<1> QED BY <1>2, <1>3

(* A piece of a write.                                                     *)
LEMMA WriteLives ==
    ASSUME NEW c \in Conns, NEW u \in Threads, thr[u].fn = "write", conn[c] \in ConnType,
           Paired(conn[c], pcb[c]), NEW k \in ConnType, k.state = "WRITE", k.current = u, k.pcb,
           ~k.nonblocking, Alike(conn[c], k), NEW available, NEW nomem \in BOOLEAN
    PROVE  LET r == do_writemore(c, k, u, available, nomem)
           IN LivesOn(c, u, r) /\ r.pcb = pcb[c] /\ r.t \in {u, NULL}
<1> DEFINE n   == Fits(k, u, available)
           err == IF thr[u].dontblock /\ n < thr[u].len THEN "soft" ELSE tcp_write(c, nomem)
           w   == Written(k, n)
           z   == [k EXCEPT !.write_offset = 0]
           r   == do_writemore(c, k, u, available, nomem)
<1>1. \/ r = Finish(k, pcb[c], err)
      \/ r = Result(k, pcb[c], NULL, "OK")
      \/ r = Result(w, pcb[c], NULL, "OK")
      \/ r = Finish(z, pcb[c], "OK")
    BY DEF do_writemore
<1>2. ASSUME NEW v
      PROVE  LET x == [k EXCEPT !.write_offset = v]
             IN Alike(k, x) /\ x.state = "WRITE" /\ x.current = u
    BY DEF Alike, ConnType
<1>3. w = [k EXCEPT !.write_offset = k.write_offset + n]
    BY DEF Written
<1>4. z \in ConnType
    BY OffsetType
<1>5. /\ Alike(k, w) /\ w.state = "WRITE" /\ w.current = u
      /\ z \in ConnType /\ Alike(k, z) /\ z.current = u
    <2> HIDE DEF n
    <2> QED BY <1>2, <1>3, <1>4
<1> HIDE DEF w, z, err, n, r
<1>6. ASSUME NEW x, r.conn = x, Alike(conn[c], x), x.state \in {"NONE", "WRITE"}, r.pcb = pcb[c],
             r.t = u \/ (r.t = NULL /\ x.current = u)
      PROVE  LivesOn(c, u, r) /\ r.pcb = pcb[c] /\ r.t \in {u, NULL}
    <2>1. Paired(x, pcb[c]) /\ (Hears(conn[c], pcb[c]) => Hears(x, pcb[c]))
        BY <1>6, AlikeLives DEF Alike
    <2>2. x.pcb
        BY <1>6 DEF Alike
    <2> QED BY <1>6, <2>1, <2>2, NetconnAssumption DEF LivesOn
<1>7. Alike(conn[c], w) /\ Alike(conn[c], z)
    BY <1>5 DEF Alike
<1>8. ASSUME NEW x \in {k, w}, r = Result(x, pcb[c], NULL, "OK")
      PROVE  LivesOn(c, u, r) /\ r.pcb = pcb[c] /\ r.t \in {u, NULL}
    <2>1. r.conn = x /\ r.pcb = pcb[c] /\ r.t = NULL
        BY <1>8 DEF Result
    <2>2. Alike(conn[c], x) /\ x.state = "WRITE" /\ x.current = u
        BY <1>5, <1>7
    <2> QED BY <1>6, <2>1, <2>2
<1>9. ASSUME NEW x \in {k, z}, NEW e, r = Finish(x, pcb[c], e)
      PROVE  LivesOn(c, u, r) /\ r.pcb = pcb[c] /\ r.t \in {u, NULL}
    <2>1. x \in ConnType /\ x.current = u /\ Alike(conn[c], x)
        BY <1>5, <1>7
    <2>2. r.t = u /\ r.pcb = pcb[c] /\ Alike(x, r.conn) /\ r.conn.state = "NONE"
        BY <1>9, <2>1, AnswerFields
    <2>3. Alike(conn[c], r.conn)
        BY <2>1, <2>2 DEF Alike
    <2> QED BY <1>6, <2>2, <2>3
<1>10. LivesOn(c, u, r) /\ r.pcb = pcb[c] /\ r.t \in {u, NULL}
    BY <1>1, <1>8, <1>9
<1> QED BY <1>10 DEF r

LEMMA OthersStayQueued ==
    ASSUME NetconnInv, mbox # <<>>, mbox' = Tail(mbox), NEW t \in Threads, t # Head(mbox),
           t \in ToSet(mbox)
    PROVE  t \in ToSet(mbox')
<1>1. mbox \in Seq(Threads)
    BY DEF NetconnInv, TypeOK
<1>2. PICK i \in 1..Len(mbox) : mbox[i] = t
    BY <1>1 DEF ToSet
<1>3. i # 1
    BY <1>1, <1>2
<1>4. i - 1 \in 1..Len(Tail(mbox)) /\ Tail(mbox)[i - 1] = t
    BY <1>1, <1>2, <1>3
<1>5. DOMAIN Tail(mbox) = 1..Len(Tail(mbox))
    BY <1>1, TakeFromMailbox
<1> QED BY <1>4, <1>5 DEF ToSet

LEMMA RequestKeepsLife ==
    ASSUME NetconnInv, WriteInv, LiveInv, tcpip_thread_api
    PROVE  LiveInv'
<1> DEFINE u == Head(mbox)
           c == thr[u].c
<1>1. /\ u \in Threads /\ c \in Conns /\ Requests(c, u) /\ conn[c].current = NULL
      /\ \A t \in Threads \ {u} : t \in ToSet(mbox) => t \in ToSet(mbox')
    BY HeadRequests, OthersStayQueued DEF tcpip_thread_api
<1>2. PICK nomem \in BOOLEAN :
        \/ thr[u].fn = "newconn" /\ Apply(c, do_newconn(c, u, nomem))
        \/ thr[u].fn = "bind" /\ Apply(c, do_bind(c, u))
        \/ thr[u].fn \in {"recv", "recvEof"} /\ Apply(c, do_recv(c, u))
        \/ thr[u].fn = "getaddr" /\ Apply(c, do_getaddr(c, u))
        \/ thr[u].fn = "connect" /\ Apply(c, do_connect(c, u, nomem))
        \/ thr[u].fn = "listen" /\ Apply(c, do_listen(c, u, nomem))
        \/ /\ thr[u].fn = "write" /\ WriteRefused(c) # "OK"
           /\ Apply(c, Ack(conn[c], pcb[c], u, WriteRefused(c)))
        \/ /\ thr[u].fn = "write" /\ WriteRefused(c) = "OK"
           /\ \E available \in 0..MaxLen : ApplyWrite(c, StartWrite(c, u), u, available, nomem)
        \/ thr[u].fn = "close" /\ ApplyDrain(c, do_close(c, u, nomem), Drained(c, u))
        \/ thr[u].fn = "delete" /\ ApplyDrain(c, do_delconn(c, u, nomem), Drained(c, u))
    BY DEF tcpip_thread_api
<1> HIDE DEF u, c
<1>3. ASSUME NEW r, Serves(c, u, r), LivesOn(c, u, r),
             Apply(c, r) \/ \E v : ApplyDrain(c, r, Drained(c, v))
      PROVE  LiveInv'
    <2>1. Answers(c, u, r)
        BY <1>1, <1>3, AppliedAnswers
    <2> QED BY <1>1, <1>3, <2>1, LiveServed
<1>4. CASE \E err \in Errors : Apply(c, Ack(conn[c], pcb[c], u, err)) /\ thr[u].fn \notin {"newconn", "delete"}
    <2>1. PICK err \in Errors : Apply(c, Ack(conn[c], pcb[c], u, err)) /\ thr[u].fn \notin {"newconn", "delete"}
        BY <1>4
    <2>2. Serves(c, u, Ack(conn[c], pcb[c], u, err)) /\ LivesOn(c, u, Ack(conn[c], pcb[c], u, err))
        BY <1>1, <2>1, PlainAck, PlainLives
    <2> QED BY <1>3, <2>1, <2>2
<1>5. CASE thr[u].fn = "newconn" /\ Apply(c, do_newconn(c, u, nomem))
    BY <1>1, <1>3, <1>5, NewconnServes, NewconnLives
<1>6. CASE thr[u].fn = "connect" /\ Apply(c, do_connect(c, u, nomem))
    BY <1>1, <1>3, <1>6, ConnectServes, ConnectLives
<1>7. CASE thr[u].fn = "listen" /\ Apply(c, do_listen(c, u, nomem))
    BY <1>1, <1>3, <1>7, ListenServes, ListenLives
<1>8. CASE thr[u].fn = "close" /\ ApplyDrain(c, do_close(c, u, nomem), Drained(c, u))
    BY <1>1, <1>3, <1>8, DoCloseServes, DoCloseLives
<1>9. CASE thr[u].fn = "delete" /\ ApplyDrain(c, do_delconn(c, u, nomem), Drained(c, u))
    BY <1>1, <1>3, <1>9, DelconnServes, DelconnLives
<1>10. CASE /\ thr[u].fn = "write" /\ WriteRefused(c) = "OK"
            /\ \E available \in 0..MaxLen : ApplyWrite(c, StartWrite(c, u), u, available, nomem)
    <2> DEFINE k == StartWrite(c, u)
    <2>1. PICK available \in 0..MaxLen : ApplyWrite(c, k, u, available, nomem)
        BY <1>10
    <2> DEFINE r == do_writemore(c, k, u, available, nomem)
    <2>2. /\ conn[c] \in ConnType /\ Paired(conn[c], pcb[c]) /\ conn[c].pcb /\ ~conn[c].nonblocking
        BY <1>1, <1>10, HeadAlive DEF WriteRefused, Settled
    <2>3. /\ Keeps(c, k, pcb[c]) /\ k.state = "WRITE" /\ k.current = u
          /\ k.op_completed = conn[c].op_completed /\ ~Connecting(pcb[c])
        BY <1>1, <1>10, StartWriteServes
    <2>4. k \in ConnType /\ Alike(conn[c], k) /\ k.pcb /\ ~k.nonblocking
        BY <2>2, <2>3 DEF StartWrite, Alike, ConnType, Keeps
    <2> HIDE DEF k
    <2>5. Serves(c, u, r)
        BY <1>1, <2>3, WriteServes
    <2>6. LivesOn(c, u, r) /\ r.pcb = pcb[c] /\ r.t \in {u, NULL}
        BY <1>1, <1>10, <2>2, <2>3, <2>4, WriteLives
    <2>7. Answers(c, u, r)
        BY <1>1, <2>1, <2>6, WrittenAnswers
    <2> HIDE DEF r
    <2> QED BY <1>1, <2>5, <2>6, <2>7, LiveServed
<1>11. /\ WriteRefused(c) \in Errors
       /\ \E e \in Errors : do_bind(c, u) = Ack(conn[c], pcb[c], u, e)
       /\ \E e \in Errors : do_getaddr(c, u) = Ack(conn[c], pcb[c], u, e)
       /\ \E e \in Errors : do_recv(c, u) = Ack(conn[c], pcb[c], u, e)
    BY DEF WriteRefused, Errors, do_bind, do_getaddr, do_recv
<1> QED BY <1>2, <1>4, <1>5, <1>6, <1>7, <1>8, <1>9, <1>10, <1>11

-----------------------------------------------------------------------------
(* The callbacks of TCP.                                                   *)

LEMMA SentKeepsLife ==
    ASSUME NetconnInv, WriteInv, LiveInv, NEW c \in Conns, NEW nomem \in BOOLEAN, sent_tcp(c, nomem)
    PROVE  LiveInv'
<1> DEFINE u == conn[c].current
           how == IF thr[u].fn = "delete" THEN "RDWR" ELSE thr[u].how
<1>1. /\ pcb[c].state \in {"SYN_SENT", "ESTABLISHED"} /\ conn[c].state \in {"WRITE", "CLOSE"}
      /\ mbox' = mbox
    BY DEF sent_tcp
<1>2. /\ u \in Threads /\ Requests(c, u) /\ conn[c].op_completed = 0 /\ thr[u].c = c /\ u # NULL
      /\ conn[c] \in ConnType /\ Settled(conn[c]) /\ WriteParked(conn[c])
      /\ ~Connecting(pcb[c]) /\ Keeps(c, conn[c], pcb[c])
    <2>1. u \in Threads /\ Requests(c, u) /\ u # NULL /\ conn[c] \in ConnType
          /\ ~Connecting(pcb[c]) /\ Keeps(c, conn[c], pcb[c])
        BY <1>1, KeepsSelf, ParkedRequests DEF InProgress
    <2> QED BY <2>1 DEF WriteInv, Requests
<1>3. Paired(conn[c], pcb[c]) /\ Cared(u, conn[c], thr[u], mbox) /\ thr[u].pc = "call"
    BY <1>2 DEF LiveInv, LiveAt, Requests
<1>4. CASE /\ conn[c].state = "WRITE"
           /\ \E available \in 0..MaxLen : ApplyWrite(c, conn[c], u, available, nomem)
    <2>1. PICK available \in 0..MaxLen : ApplyWrite(c, conn[c], u, available, nomem)
        BY <1>4
    <2> DEFINE k == conn[c]
               r == do_writemore(c, k, u, available, nomem)
    <2>2. /\ thr[u].fn = "write" /\ k \in ConnType /\ k.state = "WRITE" /\ k.current = u /\ k.pcb
          /\ ~k.nonblocking /\ Alike(conn[c], k) /\ k.op_completed = conn[c].op_completed
          /\ Keeps(c, k, pcb[c]) /\ ApplyWrite(c, k, u, available, nomem)
        BY <1>2, <1>4, <2>1 DEF WriteParked, Settled, Alike
    <2> HIDE DEF k, u
    <2>5. Serves(c, u, r)
        BY <1>2, <2>2, WriteServes
    <2>6. LivesOn(c, u, r) /\ r.pcb = pcb[c] /\ r.t \in {u, NULL}
        BY <1>2, <1>3, <2>2, WriteLives
    <2>7. Answers(c, u, r)
        BY <1>1, <1>2, <2>2, <2>6, WrittenAnswers
    <2> HIDE DEF r
    <2> QED BY <1>2, <2>5, <2>6, <2>7, LiveServed
<1>5. CASE conn[c].state = "CLOSE" /\ Apply(c, do_close_internal(conn[c], pcb[c], how, nomem))
    <2> DEFINE r == do_close_internal(conn[c], pcb[c], "RDWR", nomem)
    <2>1. thr[u].fn \in {"close", "delete"} /\ how = "RDWR"
        BY <1>2, <1>3, <1>5 DEF Cared
    <2>2. Serves(c, u, r)
        BY <1>2, <2>1, CloseServes
    <2>3. /\ conn[c].pcb /\ conn[c].used /\ ~Valid(conn[c].recvmbox) /\ ~Valid(conn[c].acceptmbox)
          /\ pcb[c].arg /\ (pcb[c].fin => pcb[c].state = "ESTABLISHED")
          /\ (conn[c].nonblocking => pcb[c].state = "SYN_SENT")
        BY <1>3, <1>5 DEF Paired
    <2>4. LivesOn(c, u, r)
        BY <1>2, <1>5, <2>1, <2>3, CloseLives
    <2>5. Apply(c, r)
        BY <1>5, <2>1
    <2> HIDE DEF r, u
    <2>6. Answers(c, u, r)
        BY <1>1, <1>2, <2>2, <2>5, AppliedAnswers
    <2> QED BY <1>2, <2>2, <2>4, <2>6, LiveServed
<1> QED BY <1>4, <1>5 DEF sent_tcp

(* A step of TCP without an answer: the connection changes, but not what a *)
(* thread that uses it waits for.                                          *)
LEMMA LifeUntouched ==
    ASSUME NetconnInv, LiveInv, NEW c \in Conns, NEW k, NEW p, thr' = thr, mbox' = mbox,
           conn'[c] = k, pcb'[c] = p,
           \A d \in Conns \ {c} : \/ conn'[d] = conn[d] /\ pcb'[d] = pcb[d]
                                  \/ /\ Paired(conn'[d], pcb'[d]) /\ Hears(conn'[d], pcb'[d])
                                     /\ \A t \in Threads : thr[t].c # d,
           Paired(k, p), Hears(conn[c], pcb[c]) => Hears(k, p),
           k.op_completed = conn[c].op_completed,
           (k.current = conn[c].current /\ k.pcb = conn[c].pcb) \/ conn[c].current = NULL,
           Valid(conn[c].recvmbox) /\ (conn[c].fatal => conn[c].recvmbox # <<>>)
             => Valid(k.recvmbox) /\ (k.fatal => k.recvmbox # <<>>),
           Valid(conn[c].acceptmbox) => Valid(k.acceptmbox),
           k.pcb = conn[c].pcb \/ (~k.pcb /\ pcb[c].state \notin {"none", "CLOSED"}),
           k.state \in {"CLOSE", "CONNECT"} => conn[c].state = k.state /\ k.current = conn[c].current
    PROVE  LiveInv'
<1>1. Apart(c)
    BY DEF Apart
<1>2. Excused(c)' <=> Excused(c)
    BY DEF Excused
<1>3. ASSUME NEW t \in Threads, thr[t].c = c PROVE Cared(t, k, thr[t], mbox)
    <2>1. Cared(t, conn[c], thr[t], mbox) /\ t # NULL
        BY <1>3, NetconnAssumption DEF LiveInv, LiveAt
    <2>2. thr[t].pc = "call" /\ thr[t].fn = "newconn" => pcb[c].state \in {"none", "CLOSED"}
        BY <1>3 DEF NetconnInv, ConnectsInState
    <2> QED BY <2>1, <2>2 DEF Cared
<1>4. LiveAt(c)'
    BY <1>2, <1>3 DEF LiveInv, LiveAt
<1> QED BY <1>1, <1>4, LiveLocal

LEMMA AppendStaysValid ==
    ASSUME NEW m \in Seq(Msgs), Valid(m), NEW x \in Msgs, x # "invalid"
    PROVE  Valid(Append(m, x)) /\ Append(m, x) # <<>> /\ x \in ToSet(Append(m, x))
                               /\ ToSet(m) \subseteq ToSet(Append(m, x))
<1>1. Len(Append(m, x)) = Len(m) + 1 /\ Append(m, x)[Len(m) + 1] = x /\ Len(m) \in Nat
    OBVIOUS
<1>2. Len(<<"invalid">>) = 1 /\ <<"invalid">>[1] = "invalid"
    OBVIOUS
<1>3. Append(m, x) # <<"invalid">>
    <2>1. CASE Len(m) = 0
        BY <1>1, <1>2, <2>1
    <2>2. CASE Len(m) # 0
        BY <1>1, <1>2, <2>2
    <2> QED BY <2>1, <2>2
<1> QED BY <1>1, <1>3, AppendToMailbox DEF Valid, Invalid

LEMMA NullPosted ==
    ASSUME NEW m \in Seq(Msgs), Valid(m), NEW size \in Nat \ {0}
    PROVE  LET x == TryPost(m, NULL, size)
           IN Valid(x) /\ x # <<>> /\ (Len(m) < size => NULL \in ToSet(x))
<1>1. NULL \in Msgs /\ NULL # "invalid"
    BY MarkerAssumption DEF Msgs
<1>2. Valid(Append(m, NULL)) /\ Append(m, NULL) # <<>> /\ NULL \in ToSet(Append(m, NULL))
    BY <1>1, AppendStaysValid
<1>3. ~(Len(m) < size) => m # <<>>
    OBVIOUS
<1> QED BY <1>2, <1>3 DEF TryPost

LEMMA ConnectedKeepsLife ==
    ASSUME NetconnInv, WriteInv, LiveInv, NEW c \in Conns, do_connected(c)
    PROVE  LiveInv'
<1> DEFINE p == [pcb[c] EXCEPT !.state = "ESTABLISHED"]
           k == [conn[c] EXCEPT !.nonblocking = FALSE]
           n == [k EXCEPT !.state = "NONE", !.current = NULL]
           u == conn[c].current
           r == Finish(k, p, "OK")
<1>1. /\ conn[c].state = "CONNECT" /\ conn[c].pcb /\ conn[c] \in ConnType /\ pcb[c] \in PcbType
      /\ Connecting(pcb[c]) /\ Paired(conn[c], pcb[c]) /\ mbox' = mbox
      /\ conn \in [Conns -> ConnType] /\ pcb \in [Conns -> PcbType]
    BY KeepsSelf DEF do_connected, Connecting, LiveInv, LiveAt, NetconnInv, TypeOK
<1>2. p \in PcbType /\ p.state = "ESTABLISHED" /\ p.arg = pcb[c].arg /\ p.fin = pcb[c].fin
    BY <1>1 DEF PcbType
<1>3. /\ k \in ConnType /\ ~k.nonblocking /\ k.used = conn[c].used /\ k.pcb /\ k.fatal = conn[c].fatal
      /\ k.recvmbox = conn[c].recvmbox /\ k.acceptmbox = conn[c].acceptmbox /\ k.current = u
      /\ k.op_completed = conn[c].op_completed
    BY <1>1 DEF ConnType
<1> HIDE DEF p, k
<1>4. /\ Alike(k, n) /\ n.state = "NONE" /\ n.current = NULL /\ n.op_completed = conn[c].op_completed
    BY <1>3 DEF ConnType, Alike
<1>5. Apply(c, IF conn[c].nonblocking THEN Result(n, p, NULL, "OK") ELSE r)
    BY DEF do_connected, k, p
<1> HIDE DEF n
<1>6. ASSUME NEW x, Alike(k, x), x.state = "NONE", x.current = NULL
      PROVE  Paired(x, p) /\ (Hears(conn[c], pcb[c]) => Hears(x, p))
    <2>1. ~Valid(conn[c].acceptmbox) /\ ~pcb[c].fin /\ pcb[c].arg /\ conn[c].used
        BY <1>1 DEF Paired, Connecting
    <2> QED BY <1>1, <1>2, <1>3, <1>6, <2>1 DEF Alike, Paired, Hears, Open
<1>7. CASE conn[c].nonblocking
    <2>1. u = NULL
        BY <1>1, <1>7 DEF Paired
    <2>2. thr' = thr /\ conn' = [conn EXCEPT ![c] = n] /\ pcb' = [pcb EXCEPT ![c] = p]
        BY <1>5, <1>7 DEF Apply, Result
    <2>3. /\ conn'[c] = n /\ pcb'[c] = p
          /\ \A d \in Conns \ {c} : conn'[d] = conn[d] /\ pcb'[d] = pcb[d]
        BY <1>1, <2>2
    <2>4. /\ n.pcb = conn[c].pcb /\ n.recvmbox = conn[c].recvmbox /\ n.fatal = conn[c].fatal
          /\ n.acceptmbox = conn[c].acceptmbox
        BY <1>1, <1>3, <1>4 DEF Alike
    <2>5. Paired(n, p) /\ (Hears(conn[c], pcb[c]) => Hears(n, p))
        BY <1>4, <1>6
    <2>6. thr' = thr /\ mbox' = mbox
        BY <1>1, <2>2
    <2> QED BY <1>4, <2>1, <2>3, <2>4, <2>5, <2>6, LifeUntouched
<1>8. CASE ~conn[c].nonblocking
    <2>1. u \in Threads /\ Requests(c, u) /\ u # NULL /\ thr[u].c = c /\ conn[c].op_completed = 0
        BY <1>1, <1>8, KeepsSelf, ParkedRequests DEF InProgress, Requests
    <2>2. thr[u].fn = "connect"
        <3>1. Cared(u, conn[c], thr[u], mbox)
            BY <2>1 DEF LiveInv, LiveAt
        <3> QED BY <1>1, <3>1 DEF Cared
    <2>3. p \in PcbType /\ ~Connecting(p)
        BY <1>2 DEF Connecting
    <2>4. Keeps(c, k, p)
        BY <1>2, <1>3, <2>1, <2>2, <2>3, NoNewconn DEF Keeps
    <2>5. Serves(c, u, r)
        BY <1>3, <2>1, <2>3, <2>4, FinishServes DEF Errors
    <2>6. /\ r.t = u /\ r.pcb = p /\ Alike(k, r.conn) /\ r.conn.state = "NONE"
          /\ r.conn.current = NULL
        BY <1>3, AnswerFields
    <2>7. Apply(c, r)
        BY <1>5, <1>8
    <2> HIDE DEF r
    <2>8. LivesOn(c, u, r)
        BY <1>6, <2>1, <2>2, <2>6 DEF LivesOn
    <2>9. Answers(c, u, r)
        BY <1>1, <2>1, <2>5, <2>7, AppliedAnswers
    <2> QED BY <2>1, <2>5, <2>8, <2>9, LiveServed
<1> QED BY <1>7, <1>8

LEMMA ErrKeepsLife ==
    ASSUME NetconnInv, WriteInv, LiveInv, NEW c \in Conns, err_tcp(c)
    PROVE  LiveInv'
<1> DEFINE w == ErrWakes(conn[c])
           k == [w EXCEPT !.pcb = FALSE, !.fatal = TRUE, !.state = "NONE", !.nonblocking = FALSE]
           u == conn[c].current
           r == Finish(k, NoPcb, "fatal")
           m == TryPost(conn[c].recvmbox, NULL, RECVMBOX_SIZE)
           a == TryPost(conn[c].acceptmbox, NULL, ACCEPTMBOX_SIZE)
<1>1. /\ conn[c] \in ConnType /\ Settled(conn[c]) /\ Paired(conn[c], pcb[c])
      /\ pcb[c].state \in {"SYN_SENT", "ESTABLISHED"} /\ pcb[c].arg /\ mbox' = mbox
      /\ conn \in [Conns -> ConnType] /\ pcb \in [Conns -> PcbType]
    BY KeepsSelf DEF err_tcp, WriteInv, LiveInv, LiveAt, NetconnInv, TypeOK
<1>2. conn[c].pcb /\ ~Valid(conn[c].acceptmbox) /\ conn[c].used
    BY <1>1 DEF Paired
<1>3. a = conn[c].acceptmbox /\ m \in Seq(Msgs)
    BY <1>1, <1>2, TryPostKeeps DEF TryPost, ConnType
<1>4. Valid(conn[c].recvmbox) => Valid(m) /\ m # <<>>
    BY <1>1, NullPosted, NetconnAssumption DEF ConnType
<1>5. w = [conn[c] EXCEPT !.recvmbox = m, !.acceptmbox = a]
    BY DEF ErrWakes
<1> HIDE DEF m, a, w
<1>6. /\ w \in ConnType /\ w.recvmbox = m /\ w.acceptmbox = conn[c].acceptmbox /\ w.current = u
      /\ w.op_completed = conn[c].op_completed /\ w.used = conn[c].used
    <2>1. conn[c].acceptmbox \in Seq(Msgs)
        BY <1>1 DEF ConnType
    <2> QED BY <1>1, <1>3, <1>5, <2>1 DEF ConnType
<1>7. /\ k \in ConnType /\ k.recvmbox = m /\ k.acceptmbox = conn[c].acceptmbox /\ k.current = u
      /\ k.op_completed = conn[c].op_completed /\ k.used = conn[c].used /\ ~k.pcb /\ k.fatal
      /\ k.state = "NONE" /\ ~k.nonblocking
    BY <1>6 DEF ConnType
<1>8. Apply(c, IF conn[c].state \in {"WRITE", "CLOSE", "CONNECT"} /\ ~conn[c].nonblocking
               THEN r ELSE Result(k, NoPcb, NULL, "OK"))
    BY DEF err_tcp, w
<1> HIDE DEF k
<1>9. ASSUME NEW x, Alike(k, x), x.state = "NONE"
      PROVE  Paired(x, NoPcb) /\ Hears(x, NoPcb)
    BY <1>2, <1>7, <1>9 DEF Alike, Paired, Hears, Open, NoPcb
<1>10. CASE conn[c].state \in {"WRITE", "CLOSE", "CONNECT"} /\ ~conn[c].nonblocking
    <2>1. u \in Threads /\ Requests(c, u) /\ u # NULL /\ thr[u].pc = "call" /\ thr[u].c = c
        BY <1>10, KeepsSelf, ParkedRequests DEF InProgress, Requests
    <2>2. thr[u].fn # "newconn"
        BY <1>1, <2>1 DEF NetconnInv, ConnectsInState
    <2>3. NoPcb \in PcbType /\ ~Connecting(NoPcb) /\ NoPcb.state = "none"
        BY FreeTypes DEF Connecting, NoPcb
    <2>4. Keeps(c, k, NoPcb)
        BY <1>7, <2>3 DEF Keeps
    <2>5. Serves(c, u, r)
        BY <1>7, <2>1, <2>3, <2>4, FinishServes DEF Errors
    <2>6. /\ r.t = u /\ r.pcb = NoPcb /\ Alike(k, r.conn) /\ r.conn.state = "NONE"
          /\ r.conn.current = NULL
        BY <1>7, AnswerFields
    <2>7. Apply(c, r)
        BY <1>8, <1>10
    <2> HIDE DEF r
    <2>8. LivesOn(c, u, r)
        BY <1>7, <1>9, <2>1, <2>2, <2>6 DEF LivesOn, Alike
    <2>9. Answers(c, u, r)
        BY <1>1, <2>1, <2>5, <2>7, AppliedAnswers
    <2> QED BY <2>1, <2>5, <2>8, <2>9, LiveServed
<1>11. CASE ~(conn[c].state \in {"WRITE", "CLOSE", "CONNECT"} /\ ~conn[c].nonblocking)
    <2>1. thr' = thr /\ conn' = [conn EXCEPT ![c] = k] /\ pcb' = [pcb EXCEPT ![c] = NoPcb]
        BY <1>8, <1>11 DEF Apply, Result
    <2>2. /\ conn'[c] = k /\ pcb'[c] = NoPcb
          /\ \A d \in Conns \ {c} : conn'[d] = conn[d] /\ pcb'[d] = pcb[d]
        BY <1>1, <2>1
    <2>3. u = NULL
        BY <1>1, <1>2, <1>11 DEF Paired, Settled, ConnType
    <2>4. Paired(k, NoPcb) /\ Hears(k, NoPcb)
        BY <1>7, <1>9 DEF Alike
    <2>5. thr' = thr /\ mbox' = mbox /\ (Valid(conn[c].recvmbox) => Valid(k.recvmbox) /\ k.recvmbox # <<>>)
        BY <1>1, <1>4, <1>7, <2>1
    <2> QED BY <1>1, <1>2, <1>7, <2>2, <2>3, <2>4, <2>5, LifeUntouched
<1> QED BY <1>10, <1>11

LEMMA RecvKeepsLife ==
    ASSUME NetconnInv, LiveInv, FinWhenFull = FALSE, NEW c \in Conns, recv_tcp(c)
    PROVE  LiveInv'
<1> DEFINE With(m) == [conn[c] EXCEPT !.recvmbox = m]
           fin == [pcb[c] EXCEPT !.fin = TRUE]
<1>1. /\ conn[c] \in ConnType /\ pcb[c] \in PcbType /\ Paired(conn[c], pcb[c])
      /\ conn \in [Conns -> ConnType] /\ pcb \in [Conns -> PcbType]
      /\ thr' = thr /\ mbox' = mbox /\ Valid(conn[c].recvmbox) /\ pcb[c].state = "ESTABLISHED"
    BY KeepsSelf DEF recv_tcp, LiveInv, LiveAt, NetconnInv, TypeOK
<1>2. conn[c].recvmbox \in Seq(Msgs) /\ "data" \in Msgs
    BY <1>1 DEF ConnType, Msgs
<1>3. fin.state = "ESTABLISHED" /\ fin.arg = pcb[c].arg /\ fin.fin
    BY <1>1 DEF PcbType
<1>4. ASSUME NEW m, m \in Seq(Msgs)
      PROVE  LET k == With(m)
             IN /\ k.recvmbox = m /\ k.acceptmbox = conn[c].acceptmbox /\ k.used = conn[c].used
                /\ k.pcb = conn[c].pcb /\ k.fatal = conn[c].fatal /\ k.current = conn[c].current
                /\ k.nonblocking = conn[c].nonblocking /\ k.state = conn[c].state
                /\ k.op_completed = conn[c].op_completed
    BY <1>1, <1>4 DEF ConnType
<1> HIDE DEF With, fin
<1>5. ASSUME NEW m, m \in Seq(Msgs), NEW p, conn' = [conn EXCEPT ![c] = With(m)],
             pcb' = [pcb EXCEPT ![c] = p], Valid(m) /\ m # <<>>,
             p.state = "ESTABLISHED" /\ p.arg = pcb[c].arg,
             Hears(conn[c], pcb[c]) => Hears(With(m), p)
      PROVE  LiveInv'
    <2> DEFINE k == With(m)
    <2>1. /\ conn'[c] = k /\ pcb'[c] = p
          /\ \A d \in Conns \ {c} : conn'[d] = conn[d] /\ pcb'[d] = pcb[d]
        BY <1>1, <1>5
    <2>2. /\ k.recvmbox = m /\ k.acceptmbox = conn[c].acceptmbox /\ k.used = conn[c].used
          /\ k.pcb = conn[c].pcb /\ k.fatal = conn[c].fatal /\ k.current = conn[c].current
          /\ k.nonblocking = conn[c].nonblocking /\ k.state = conn[c].state
          /\ k.op_completed = conn[c].op_completed
        BY <1>4, <1>5
    <2>3. Hears(conn[c], pcb[c]) => Hears(k, p)
        BY <1>5
    <2> HIDE DEF k
    <2>4. Paired(k, p)
        BY <1>1, <1>5, <2>2 DEF Paired
    <2> QED BY <1>1, <1>5, <2>1, <2>2, <2>3, <2>4, LifeUntouched
<1>6. CASE conn' = [conn EXCEPT ![c].recvmbox = Append(@, "data")] /\ pcb' = pcb
    <2> DEFINE m == Append(conn[c].recvmbox, "data")
    <2>1. /\ m \in Seq(Msgs) /\ Valid(m) /\ m # <<>> /\ ToSet(conn[c].recvmbox) \subseteq ToSet(m)
        BY <1>1, <1>2, AppendStaysValid, AppendToMailbox
    <2>2. conn' = [conn EXCEPT ![c] = With(m)] /\ pcb' = [pcb EXCEPT ![c] = pcb[c]]
        BY <1>1, <1>6 DEF With
    <2> HIDE DEF m
    <2>3. Hears(conn[c], pcb[c]) => Hears(With(m), pcb[c])
        BY <1>1, <1>4, <2>1 DEF Hears, Open
    <2> QED BY <1>1, <1>5, <2>1, <2>2, <2>3
<1>7. CASE /\ Len(conn[c].recvmbox) < RECVMBOX_SIZE
           /\ conn' = [conn EXCEPT ![c].recvmbox = TryPost(@, NULL, RECVMBOX_SIZE)]
           /\ pcb' = [pcb EXCEPT ![c].fin = TRUE]
    <2> DEFINE m == TryPost(conn[c].recvmbox, NULL, RECVMBOX_SIZE)
    <2>1. m \in Seq(Msgs) /\ Valid(m) /\ m # <<>> /\ NULL \in ToSet(m)
        BY <1>1, <1>2, <1>7, TryPostKeeps, NullPosted, NetconnAssumption
    <2>2. conn' = [conn EXCEPT ![c] = With(m)] /\ pcb' = [pcb EXCEPT ![c] = fin]
        BY <1>1, <1>7 DEF With, fin
    <2> HIDE DEF m
    <2>3. Hears(With(m), fin)
        BY <1>4, <2>1 DEF Hears, Open
    <2> QED BY <1>3, <1>5, <2>1, <2>2, <2>3
<1> QED BY <1>6, <1>7 DEF recv_tcp

LEMMA AcceptKeepsLife ==
    ASSUME NetconnInv, LiveInv, NEW c \in Conns, NEW new \in Conns, accept_function(c, new)
    PROVE  LiveInv'
<1> DEFINE m == Append(conn[c].acceptmbox, new)
           k == [conn[c] EXCEPT !.acceptmbox = m]
           n == [netconn_alloc EXCEPT !.pcb = TRUE]
           p == [NoPcb EXCEPT !.state = "ESTABLISHED", !.arg = TRUE]
<1>1. /\ c # new /\ ~conn[new].used /\ Valid(conn[c].acceptmbox) /\ thr' = thr /\ mbox' = mbox
      /\ conn' = [conn EXCEPT ![c] = k, ![new] = n] /\ pcb' = [pcb EXCEPT ![new] = p]
    BY DEF accept_function
<1>2. /\ conn[c] \in ConnType /\ Paired(conn[c], pcb[c]) /\ conn[c].acceptmbox \in Seq(Msgs)
      /\ conn \in [Conns -> ConnType] /\ pcb \in [Conns -> PcbType]
    BY KeepsSelf DEF ConnType, LiveInv, LiveAt, NetconnInv, TypeOK
<1>3. m \in Seq(Msgs) /\ Valid(m)
    <2>1. new \in Msgs /\ new # "invalid"
        BY MarkerAssumption DEF Msgs
    <2> QED BY <1>1, <1>2, <2>1, AppendStaysValid, AppendToMailbox
<1> HIDE DEF m
<1>4. /\ k.acceptmbox = m /\ k.recvmbox = conn[c].recvmbox /\ k.used = conn[c].used
      /\ k.pcb = conn[c].pcb /\ k.fatal = conn[c].fatal /\ k.current = conn[c].current
      /\ k.nonblocking = conn[c].nonblocking /\ k.state = conn[c].state
      /\ k.op_completed = conn[c].op_completed
    BY <1>2 DEF ConnType
<1>5. /\ n.pcb /\ n.used /\ ~n.nonblocking /\ n.state = "NONE" /\ n.acceptmbox = Invalid
      /\ p.state = "ESTABLISHED" /\ p.arg /\ ~p.fin
    BY DEF netconn_alloc, FreeConn, NoPcb
<1> HIDE DEF k, n, p
<1>6. Paired(n, p) /\ Hears(n, p) /\ Paired(k, pcb[c]) /\ (Hears(conn[c], pcb[c]) => Hears(k, pcb[c]))
    BY <1>1, <1>2, <1>3, <1>4, <1>5 DEF Paired, Hears, Open, Valid
<1>7. \A t \in Threads : thr[t].c # new
    BY <1>1, NetconnAssumption DEF NetconnInv, OneUser
<1>8. /\ conn'[c] = k /\ pcb'[c] = pcb[c]
      /\ conn'[new] = n /\ pcb'[new] = p
      /\ \A d \in Conns \ {c, new} : conn'[d] = conn[d] /\ pcb'[d] = pcb[d]
    BY <1>1, <1>2
<1>9. \A d \in Conns \ {c} : \/ conn'[d] = conn[d] /\ pcb'[d] = pcb[d]
                             \/ /\ Paired(conn'[d], pcb'[d]) /\ Hears(conn'[d], pcb'[d])
                                /\ \A t \in Threads : thr[t].c # d
    BY <1>6, <1>7, <1>8
<1>10. Valid(k.acceptmbox) /\ thr' = thr /\ mbox' = mbox
    BY <1>1, <1>3, <1>4
<1> QED BY <1>4, <1>6, <1>8, <1>9, <1>10, LifeUntouched

-----------------------------------------------------------------------------
(* Application threads.  Thread t, whose connection if any is c, goes on   *)
(* as m.                                                                   *)
LEMMA ThreadKeepsLife ==
    ASSUME LiveInv, NEW c \in Conns, NEW t \in Threads, thr[t].c \in {c, NULL},
           \A v \in Threads \ {t} : thr[v].c # c /\ thr'[v] = thr[v],
           \A v \in ToSet(mbox) : v \in ToSet(mbox'),
           NEW k, conn'[c] = k, \A d \in Conns \ {c} : conn'[d] = conn[d], pcb' = pcb,
           Paired(k, pcb[c]), NEW m, thr'[t] = m, m.c \in {c, NULL},
           \/ m.pc = "call" /\ m.c = c /\ m.fn \in {"newconn", "recvEof"}
           \/ Hears(k, pcb[c]),
           m.c = c => Cared(t, k, m, mbox')
    PROVE  LiveInv'
<1>1. Apart(c)
    BY DEF Apart
<1>2. LiveAt(c)'
    BY DEF LiveAt, Excused
<1> QED BY <1>1, <1>2, LiveLocal

LEMMA NewKeepsLife ==
    ASSUME NetconnInv, LiveInv, NEW t \in Threads, NEW c \in Conns, netconn_new(t, c)
    PROVE  LiveInv'
<1> DEFINE m == Posted(Idle, c, "newconn")
           k == netconn_alloc
<1>1. /\ thr[t].pc = "idle" /\ ~conn[c].used /\ conn' = [conn EXCEPT ![c] = k] /\ pcb' = pcb
      /\ thr' = [thr EXCEPT ![t] = m] /\ mbox' = Append(mbox, t) /\ pcb[c].state = "none"
    BY DEF netconn_new, tcpip_apimsg, Posted
<1>2. /\ thr[t].c = NULL /\ (\A v \in Threads : thr[v].c # c)
      /\ conn \in [Conns -> ConnType] /\ thr \in [Threads -> ThrType] /\ mbox \in Seq(Threads)
    BY <1>1, NetconnAssumption DEF NetconnInv, OneUser, TypeOK
<1>3. m.c = c /\ m.pc = "call" /\ m.fn = "newconn"
    BY IdleType, PostedType DEF CallNames
<1>4. /\ k.state = "NONE" /\ ~k.pcb /\ ~k.nonblocking /\ k.op_completed = 0
      /\ k.acceptmbox = Invalid
    BY DEF netconn_alloc, FreeConn
<1> HIDE DEF m, k
<1>5. /\ conn'[c] = k /\ (\A d \in Conns \ {c} : conn'[d] = conn[d])
      /\ thr'[t] = m /\ \A v \in Threads \ {t} : thr'[v] = thr[v]
    BY <1>1, <1>2
<1>6. ToSet(mbox') = ToSet(mbox) \cup {t}
    BY <1>1, <1>2, AppendToMailbox
<1>7. Paired(k, pcb[c])
    <2>1. Paired(conn[c], pcb[c])
        BY DEF LiveInv, LiveAt
    <2> QED BY <1>1, <1>4, <2>1 DEF Paired, Valid
<1>8. Cared(t, k, m, mbox')
    BY <1>3, <1>4, <1>6 DEF Cared
<1>9. /\ \A v \in Threads \ {t} : thr[v].c # c /\ thr'[v] = thr[v]
      /\ \A v \in ToSet(mbox) : v \in ToSet(mbox')
    BY <1>2, <1>5, <1>6
<1>10. /\ thr[t].c \in {c, NULL} /\ m.c \in {c, NULL} /\ pcb' = pcb
       /\ m.pc = "call" /\ m.c = c /\ m.fn \in {"newconn", "recvEof"}
    BY <1>1, <1>2, <1>3
<1> QED BY <1>5, <1>7, <1>8, <1>9, <1>10, ThreadKeepsLife

LEMMA PostKeepsLife ==
    ASSUME NetconnInv, LiveInv, Shutdowns = {"RDWR"}, NEW t \in Threads, NEW c \in Conns,
           netconn_request(t, c) \/ netconn_accept(t, c) \/ netconn_recv(t, c)
    PROVE  LiveInv'
<1>1. MayUse(t, c) /\ conn' = conn /\ pcb' = pcb
    BY DEF netconn_request, netconn_accept, netconn_recv
<1>2. /\ thr[t].c = NULL /\ (\A v \in Threads : thr[v].c # c) /\ t # NULL
      /\ conn[c].op_completed = 0 /\ conn[c].current = NULL
      /\ conn \in [Conns -> ConnType] /\ thr \in [Threads -> ThrType] /\ mbox \in Seq(Threads)
    BY <1>1, NotAnswered, NetconnAssumption DEF MayUse, NetconnInv, OneUser, TypeOK
<1>3. Paired(conn[c], pcb[c]) /\ Hears(conn[c], pcb[c])
    BY <1>2 DEF LiveInv, LiveAt, Excused
<1>4. ASSUME NEW m, thr' = [thr EXCEPT ![t] = m], m.c = c,
             \A v \in ToSet(mbox) : v \in ToSet(mbox'), Cared(t, conn[c], m, mbox')
      PROVE  LiveInv'
    <2>1. thr'[t] = m /\ \A v \in Threads \ {t} : thr[v].c # c /\ thr'[v] = thr[v]
        BY <1>2, <1>4
    <2> QED BY <1>1, <1>2, <1>3, <1>4, <2>1, ThreadKeepsLife
<1>5. ASSUME NEW x \in ThrType, NEW fn \in CallNames \ {"newconn"}, tcpip_apimsg(t, c, fn, x),
             fn = "close" => x.how = "RDWR"
      PROVE  LiveInv'
    <2> DEFINE m == Posted(x, c, fn)
    <2>1. m.c = c /\ m.pc = "call" /\ m.fn = fn /\ m.how = x.how
        BY DEF Posted, ThrType
    <2>2. thr' = [thr EXCEPT ![t] = m] /\ mbox' = Append(mbox, t)
        BY <1>5 DEF tcpip_apimsg, Posted
    <2>3. ToSet(mbox') = ToSet(mbox) \cup {t}
        BY <1>2, <2>2, AppendToMailbox
    <2> HIDE DEF m
    <2>4. Cared(t, conn[c], m, mbox')
        BY <1>2, <1>5, <2>1, <2>3 DEF Cared
    <2> QED BY <1>4, <2>1, <2>2, <2>3, <2>4
<1>6. CASE \E fn \in {"bind", "getaddr", "listen", "delete"} : tcpip_apimsg(t, c, fn, Idle)
    BY <1>5, <1>6, IdleType DEF CallNames
<1>7. CASE \E nb \in BOOLEAN : tcpip_apimsg(t, c, "connect", [Idle EXCEPT !.dontblock = nb])
    <2>1. \A nb \in BOOLEAN : [Idle EXCEPT !.dontblock = nb] \in ThrType
        BY IdleType DEF ThrType
    <2> QED BY <1>5, <1>7, <2>1 DEF CallNames
<1>8. CASE \E len \in 1..MaxLen, nb \in BOOLEAN :
              tcpip_apimsg(t, c, "write", [Idle EXCEPT !.len = len, !.dontblock = nb])
    <2>1. PICK len \in 1..MaxLen, nb \in BOOLEAN :
              tcpip_apimsg(t, c, "write", [Idle EXCEPT !.len = len, !.dontblock = nb])
        BY <1>8
    <2> DEFINE y == [Idle EXCEPT !.len = len]
               x == [Idle EXCEPT !.len = len, !.dontblock = nb]
    <2>2. len \in Nat
        BY NetconnAssumption
    <2>3. y \in ThrType
        BY <2>2, IdleType DEF ThrType
    <2>4. x = [y EXCEPT !.dontblock = nb]
        OBVIOUS
    <2> HIDE DEF x, y
    <2>5. x \in ThrType
        BY <2>3, <2>4 DEF ThrType
    <2> QED BY <1>5, <2>1, <2>5 DEF CallNames, x
<1>9. CASE \E how \in Shutdowns : tcpip_apimsg(t, c, "close", [Idle EXCEPT !.how = how])
    <2>1. [Idle EXCEPT !.how = "RDWR"] \in ThrType /\ [Idle EXCEPT !.how = "RDWR"].how = "RDWR"
        BY IdleType DEF ThrType
    <2> QED BY <1>5, <1>9, <2>1 DEF CallNames
<1>10. ASSUME NEW how \in {"accept", "recv"}, thr' = [thr EXCEPT ![t] = [Idle EXCEPT !.pc = how, !.c = c]],
              mbox' = mbox, ~conn[c].fatal, how = "recv" => Valid(conn[c].recvmbox),
              how = "accept" => Valid(conn[c].acceptmbox)
       PROVE  LiveInv'
    <2> DEFINE m == [Idle EXCEPT !.pc = how, !.c = c]
    <2>1. m.pc = how /\ m.c = c
        BY DEF Idle
    <2>2. thr' = [thr EXCEPT ![t] = m]
        BY <1>10
    <2> HIDE DEF m
    <2>3. Cared(t, conn[c], m, mbox')
        BY <1>2, <1>10, <2>1 DEF Cared
    <2> QED BY <1>4, <1>10, <2>1, <2>2, <2>3
<1> QED BY <1>6, <1>7, <1>8, <1>9, <1>10 DEF netconn_request, netconn_accept, netconn_recv, MayUse

(* A thread leaves the connection it waited at or called.                  *)
LEMMA AcceptFetchKeepsLife ==
    ASSUME NetconnInv, LiveInv, NEW t \in Threads, AcceptFetch(t)
    PROVE  LiveInv'
<1> DEFINE c == thr[t].c
           a == [conn[c] EXCEPT !.acceptmbox = Tail(@)]
           f == [a EXCEPT !.fatal = TRUE]
<1>1. /\ c \in Conns /\ t # NULL /\ thr \in [Threads -> ThrType] /\ thr[t].pc = "accept"
      /\ \A v \in Threads \ {t} : thr[v].c # c
    <2>1. c \in Conns /\ thr[t].pc = "accept"
        BY DEF AcceptFetch, NetconnInv, OneUser, TypeOK, ThrType
    <2> QED BY <2>1, OnlyUser, NetconnAssumption DEF NetconnInv, TypeOK
<1>2. /\ conn[c] \in ConnType /\ Paired(conn[c], pcb[c]) /\ Cared(t, conn[c], thr[t], mbox)
      /\ Hears(conn[c], pcb[c]) /\ conn \in [Conns -> ConnType]
    <2>1. LiveAt(c) /\ ~Excused(c)
        BY <1>1 DEF LiveInv, Excused
    <2> QED BY <1>1, <2>1, KeepsSelf DEF LiveAt, NetconnInv, TypeOK
<1>3. Valid(conn[c].acceptmbox)
    BY <1>1, <1>2 DEF Cared
<1>4. conn' = [conn EXCEPT ![c] = a] \/ conn' = [conn EXCEPT ![c] = f]
    BY <1>1, <1>2 DEF AcceptFetch
<1>5. /\ pcb' = pcb /\ mbox' = mbox /\ thr'[t] = Idle /\ Idle.c = NULL
      /\ \A v \in Threads \ {t} : thr[v].c # c /\ thr'[v] = thr[v]
    BY <1>1 DEF AcceptFetch, Idle
<1> DEFINE Same(k) == /\ k.state = conn[c].state /\ k.pcb = conn[c].pcb /\ k.current = conn[c].current
                      /\ k.nonblocking = conn[c].nonblocking /\ k.used = conn[c].used
                      /\ k.recvmbox = conn[c].recvmbox /\ (conn[c].fatal => k.fatal)
<1>6. Same(a) /\ Same(f)
    BY <1>2 DEF ConnType
<1>7. ASSUME NEW k, Same(k), conn' = [conn EXCEPT ![c] = k] PROVE LiveInv'
    <2>1. conn'[c] = k /\ \A d \in Conns \ {c} : conn'[d] = conn[d]
        BY <1>1, <1>2, <1>7
    <2>2. Paired(k, pcb[c]) /\ Hears(k, pcb[c])
        BY <1>2, <1>3, <1>7 DEF Paired, Hears, Open
    <2>3. \A v \in ToSet(mbox) : v \in ToSet(mbox')
        BY <1>5
    <2> HIDE DEF c, Same
    <2> QED BY <1>1, <1>5, <2>1, <2>2, <2>3, NetconnAssumption, ThreadKeepsLife DEF c
<1> QED BY <1>4, <1>6, <1>7

LEMMA RecvFetchKeepsLife ==
    ASSUME NetconnInv, LiveInv, NEW t \in Threads, RecvFetch(t)
    PROVE  LiveInv'
<1> DEFINE c == thr[t].c
           k == [conn[c] EXCEPT !.recvmbox = Tail(@)]
           fn == IF Head(conn[c].recvmbox) = NULL THEN "recvEof" ELSE "recv"
           m == Posted(Idle, c, fn)
<1>1. /\ c \in Conns /\ t # NULL /\ thr \in [Threads -> ThrType] /\ thr[t].pc = "recv"
      /\ \A v \in Threads \ {t} : thr[v].c # c
    <2>1. c \in Conns /\ thr[t].pc = "recv"
        BY DEF RecvFetch, NetconnInv, OneUser, TypeOK, ThrType
    <2> QED BY <2>1, OnlyUser, NetconnAssumption DEF NetconnInv, TypeOK
<1>2. /\ conn[c] \in ConnType /\ Paired(conn[c], pcb[c]) /\ Cared(t, conn[c], thr[t], mbox)
      /\ Hears(conn[c], pcb[c]) /\ conn \in [Conns -> ConnType] /\ mbox \in Seq(Threads)
      /\ conn[c].op_completed = 0 /\ conn[c].current = NULL
    <2>1. LiveAt(c) /\ ~Excused(c)
        BY <1>1 DEF LiveInv, Excused
    <2>2. conn[c].op_completed = 0 /\ conn[c].current = NULL
        <3>1. \A v \in Threads : thr[v].c = c => thr[v].pc # "call"
            BY <1>1
        <3> HIDE DEF c
        <3> QED BY <1>1, <3>1, NotAnswered DEF c
    <2> QED BY <1>1, <2>1, <2>2, KeepsSelf DEF LiveAt, NetconnInv, TypeOK
<1>3. Valid(conn[c].recvmbox) /\ conn[c].recvmbox \in Seq(Msgs) /\ conn[c].recvmbox # <<>>
    BY <1>1, <1>2 DEF Cared, RecvFetch, ConnType
<1>4. /\ conn' = [conn EXCEPT ![c] = k] /\ pcb' = pcb /\ thr' = [thr EXCEPT ![t] = m]
      /\ mbox' = Append(mbox, t)
    BY <1>1, <1>2 DEF RecvFetch, tcpip_apimsg, Posted
<1>5. /\ k.state = conn[c].state /\ k.pcb = conn[c].pcb /\ k.current = NULL
      /\ k.nonblocking = conn[c].nonblocking /\ k.used = conn[c].used /\ k.fatal = conn[c].fatal
      /\ k.recvmbox = Tail(conn[c].recvmbox) /\ k.acceptmbox = conn[c].acceptmbox
      /\ k.op_completed = 0
    BY <1>2 DEF ConnType
<1>6. fn \in {"recv", "recvEof"} /\ fn \in CallNames
    BY DEF CallNames
<1>7. fn # "recvEof" => (NULL \notin ToSet(k.recvmbox) => NULL \notin ToSet(conn[c].recvmbox))
    <2> SUFFICES ASSUME Head(conn[c].recvmbox) # NULL, NULL \in ToSet(conn[c].recvmbox)
                 PROVE  NULL \in ToSet(Tail(conn[c].recvmbox))
        BY <1>5
    <2> DEFINE q == conn[c].recvmbox
    <2>1. q \in Seq(Msgs) /\ q # <<>> /\ Head(q) # NULL /\ NULL \in ToSet(q)
        BY <1>3
    <2> HIDE DEF q
    <2>2. PICK i \in 1..Len(q) : q[i] = NULL
        BY <2>1 DEF ToSet
    <2>3. i - 1 \in 1..Len(Tail(q)) /\ Tail(q)[i - 1] = NULL /\ DOMAIN Tail(q) = 1..Len(Tail(q))
        BY <2>1, <2>2, TakeFromMailbox
    <2>4. NULL \in ToSet(Tail(q))
        BY <2>3 DEF ToSet
    <2> QED BY <2>4 DEF q
<1> HIDE DEF k, fn
<1>8. m.c = c /\ m.pc = "call" /\ m.fn = fn
    BY <1>1, <1>6, IdleType, PostedType
<1> HIDE DEF m
<1>9. /\ conn'[c] = k /\ (\A d \in Conns \ {c} : conn'[d] = conn[d]) /\ thr'[t] = m
      /\ \A v \in Threads \ {t} : thr[v].c # c /\ thr'[v] = thr[v]
    BY <1>1, <1>2, <1>4
<1>10. ToSet(mbox') = ToSet(mbox) \cup {t}
    BY <1>2, <1>4, AppendToMailbox
<1>11. Paired(k, pcb[c])
    BY <1>2, <1>3, <1>5 DEF Paired
<1>12. fn = "recvEof" \/ Hears(k, pcb[c])
    BY <1>2, <1>3, <1>5, <1>7 DEF Hears, Open
<1>13. Cared(t, k, m, mbox')
    BY <1>1, <1>5, <1>6, <1>8, <1>10 DEF Cared
<1>14. \A v \in ToSet(mbox) : v \in ToSet(mbox')
    BY <1>10
<1> HIDE DEF c
<1>15. thr[t].c \in {c, NULL} /\ m.c \in {c, NULL} /\ pcb' = pcb
    BY <1>4, <1>8 DEF c
<1>16. \/ m.pc = "call" /\ m.c = c /\ m.fn \in {"newconn", "recvEof"}
       \/ Hears(k, pcb[c])
    BY <1>8, <1>12
<1> QED BY <1>1, <1>9, <1>11, <1>13, <1>14, <1>15, <1>16, ThreadKeepsLife

LEMMA ReturnKeepsLife ==
    ASSUME NetconnInv, LiveInv, NEW t \in Threads, CallReturns(t)
    PROVE  LiveInv'
<1> DEFINE c == thr[t].c
           k == Answered(conn[c], thr[t])
           gone == thr[t].fn = "delete" \/ (thr[t].fn = "newconn" /\ thr[t].err # "OK")
<1>1. /\ c \in Conns /\ t # NULL /\ thr \in [Threads -> ThrType] /\ thr[t].pc = "call"
      /\ conn[c].op_completed = 1 /\ \A v \in Threads \ {t} : thr[v].c # c
    <2>1. c \in Conns /\ thr[t].pc = "call" /\ conn[c].op_completed = 1
        BY DEF CallReturns, NetconnInv, OneUser, TypeOK, ThrType
    <2> QED BY <2>1, OnlyUser, NetconnAssumption DEF NetconnInv, TypeOK
<1>2. /\ conn[c] \in ConnType /\ Paired(conn[c], pcb[c]) /\ Cared(t, conn[c], thr[t], mbox)
      /\ Excused(c) \/ Hears(conn[c], pcb[c])
      /\ conn \in [Conns -> ConnType]
    BY <1>1, KeepsSelf DEF LiveInv, LiveAt, NetconnInv, TypeOK
<1>3. Excused(c) => thr[t].fn \in {"newconn", "recvEof"}
    BY <1>1 DEF Excused
<1>4. /\ k.state = conn[c].state /\ k.pcb = conn[c].pcb /\ k.current = conn[c].current
      /\ k.nonblocking = conn[c].nonblocking /\ k.used = conn[c].used
      /\ k.recvmbox = conn[c].recvmbox /\ k.acceptmbox = conn[c].acceptmbox
      /\ k.fatal = (conn[c].fatal \/ thr[t].err = "fatal" \/ thr[t].fn = "recvEof")
    BY <1>2 DEF Answered, ConnType
<1> HIDE DEF k
<1>5. /\ thr'[t] = Idle /\ Idle.c = NULL /\ pcb' = pcb /\ mbox' = mbox
      /\ \A v \in Threads \ {t} : thr[v].c # c /\ thr'[v] = thr[v]
    BY <1>1 DEF CallReturns, Idle
<1>6. CASE gone
    <2>1. /\ conn'[c] = FreeConn /\ \A d \in Conns \ {c} : conn'[d] = conn[d]
        BY <1>1, <1>2, <1>6 DEF CallReturns
    <2>2. ~conn[c].pcb
        BY <1>1, <1>2, <1>6 DEF Cared
    <2>3. Paired(FreeConn, pcb[c]) /\ Hears(FreeConn, pcb[c])
        BY <1>2, <2>2 DEF Paired, Hears, Open, FreeConn, Valid
    <2>4. \A v \in ToSet(mbox) : v \in ToSet(mbox')
        BY <1>5
    <2> HIDE DEF c
    <2>5. thr[t].c \in {c, NULL} /\ c # NULL
        BY <1>1, NetconnAssumption DEF c
    <2> QED BY <1>1, <1>5, <2>1, <2>3, <2>4, <2>5, ThreadKeepsLife
<1>7. CASE ~gone
    <2>1. /\ conn'[c] = k /\ \A d \in Conns \ {c} : conn'[d] = conn[d]
        BY <1>1, <1>2, <1>7 DEF CallReturns, k
    <2>2. Paired(k, pcb[c])
        BY <1>2, <1>4 DEF Paired
    <2>3. Hears(k, pcb[c])
        <3>1. CASE Hears(conn[c], pcb[c])
            BY <1>4, <3>1 DEF Hears, Open
        <3>2. CASE thr[t].fn = "recvEof"
            BY <1>4, <3>2 DEF Hears, Open
        <3>3. CASE thr[t].fn = "newconn"
            <4>1. conn[c].pcb
                BY <1>1, <1>2, <1>7, <3>3 DEF Cared
            <4>2. pcb[c].state \in {"none", "CLOSED"}
                BY <1>1, <3>3 DEF NetconnInv, ConnectsInState
            <4> QED BY <1>2, <1>4, <4>1, <4>2 DEF Hears, Paired
        <3> QED BY <1>2, <1>3, <3>1, <3>2, <3>3
    <2>4. \A v \in ToSet(mbox) : v \in ToSet(mbox')
        BY <1>5
    <2> HIDE DEF c
    <2>5. thr[t].c \in {c, NULL} /\ c # NULL
        BY <1>1, NetconnAssumption DEF c
    <2> QED BY <1>1, <1>5, <2>1, <2>2, <2>3, <2>4, <2>5, ThreadKeepsLife
<1> QED BY <1>6, <1>7

-----------------------------------------------------------------------------
LEMMA LifeKept ==
    ASSUME Shutdowns = {"RDWR"}, FinWhenFull = FALSE
    PROVE  NetconnInv /\ WriteInv /\ LiveInv /\ [NetconnNext]_netconnVars => LiveInv'
<1> SUFFICES ASSUME NetconnInv, WriteInv, LiveInv, [NetconnNext]_netconnVars PROVE LiveInv'
    OBVIOUS
<1>1. ASSUME NEW t \in Threads, AppNext(t) PROVE LiveInv'
    BY <1>1, NewKeepsLife, PostKeepsLife, AcceptFetchKeepsLife, RecvFetchKeepsLife,
       ReturnKeepsLife DEF AppNext
<1>2. ASSUME NEW c \in Conns, TcpEvent(c) PROVE LiveInv'
    BY <1>2, ConnectedKeepsLife, ErrKeepsLife, RecvKeepsLife, SentKeepsLife,
       AcceptKeepsLife DEF TcpEvent
<1>3. CASE UNCHANGED netconnVars
    BY <1>3 DEF netconnVars, LiveInv, LiveAt, Excused, Cared, Paired, Hears, Open
<1> QED BY <1>1, <1>2, <1>3, RequestKeepsLife DEF NetconnNext

(* No thread waits for something that cannot come, and no control block    *)
(* calls back into a connection that does not know it: for any number of   *)
(* threads and connections and any size of mailboxes, with memory          *)
(* failures, resets and refused calls in any order, as long as connections *)
(* are shut down both ways at once and the end of a stream finds room in   *)
(* the mailbox.  Without either the code does leave threads and control    *)
(* blocks alone.                                                           *)
THEOREM NobodyIsLeftAlone ==
    ASSUME Shutdowns = {"RDWR"}, FinWhenFull = FALSE
    PROVE  NetconnSpec => []NobodyLeftAlone
<1>1. NetconnInit => WriteInv /\ LiveInv
    <2> SUFFICES ASSUME NetconnInit PROVE WriteInv /\ LiveInv
        OBVIOUS
    <2>1. /\ conn = [c \in Conns |-> FreeConn] /\ thr = [t \in Threads |-> Idle]
          /\ pcb = [c \in Conns |-> NoPcb]
        BY DEF NetconnInit
    <2>2. WriteInv
        BY InitWrites
    <2>3. \A t \in Threads : thr[t].c \notin Conns
        BY <2>1, NetconnAssumption DEF Idle
    <2> QED BY <2>1, <2>2, <2>3, FreeLives DEF LiveInv, LiveAt
<1>2. NetconnSpec => [](NetconnInv /\ WriteInv /\ LiveInv)
    BY <1>1, InitGood, StepGood, WritesKept, LifeKept, PTL DEF NetconnSpec
<1>3. NetconnInv /\ LiveInv => NobodyLeftAlone
    <2> SUFFICES ASSUME NetconnInv, LiveInv PROVE NobodyLeftAlone
        OBVIOUS
    <2>1. ASSUME NEW t \in Threads, thr[t].pc # "idle"
          PROVE  LET c == thr[t].c
                 IN /\ Waiting(t) => \/ t \in ToSet(mbox)
                                     \/ Parked(t) /\ conn[c].pcb /\ pcb[c].arg
                    /\ (thr[t].pc = "recv" /\ conn[c].recvmbox = <<>>) => pcb[c].arg /\ ~pcb[c].fin
                    /\ (thr[t].pc = "accept" /\ conn[c].acceptmbox = <<>>) =>
                             pcb[c].arg /\ pcb[c].state = "LISTEN"
        <3> DEFINE c == thr[t].c
        <3>1. c \in Conns
            BY <2>1 DEF NetconnInv, OneUser, TypeOK, ThrType
        <3>2. /\ Paired(conn[c], pcb[c]) /\ Cared(t, conn[c], thr[t], mbox)
              /\ Excused(c) \/ Hears(conn[c], pcb[c])
            BY <3>1 DEF LiveInv, LiveAt
        <3>3. conn[c] \in ConnType
            BY <3>1, KeepsSelf
        <3>4. Waiting(t) => \/ t \in ToSet(mbox)
                            \/ Parked(t) /\ conn[c].pcb /\ pcb[c].arg
            BY <3>2 DEF Waiting, Parked, Cared, Paired
        <3>5. ASSUME thr[t].pc = "recv", conn[c].recvmbox = <<>> PROVE pcb[c].arg /\ ~pcb[c].fin
            <4>1. ~Excused(c)
                BY <3>1, <3>5, OnlyUser DEF Excused
            <4>2. ToSet(conn[c].recvmbox) = {}
                BY <3>5 DEF ToSet
            <4>3. Open(conn[c])
                BY <3>2, <3>5, <4>2 DEF Cared, Open
            <4> QED BY <3>2, <4>1, <4>3 DEF Hears, Paired
        <3>6. thr[t].pc = "accept" => pcb[c].arg /\ pcb[c].state = "LISTEN"
            BY <3>2 DEF Cared, Paired
        <3> QED BY <3>4, <3>5, <3>6
    <2>2. NoThreadStranded
        BY <2>1 DEF NoThreadStranded, Waiting
    <2>3. CallbacksLive
        BY DEF CallbacksLive, LiveInv, LiveAt, Paired
    <2> QED BY <2>2, <2>3 DEF NobodyLeftAlone
<1> QED BY <1>2, <1>3, PTL
=============================================================================
