------------------------------- MODULE Netconn -------------------------------
(***************************************************************************)
(* The sequential API of lwIP: api_lib.c (what application threads call),  *)
(* api_msg.c (the same operations inside tcpip_thread, and the callbacks   *)
(* TCP makes there) and tcpip.c (requests and answers between the two), on *)
(* the mailboxes and semaphores of sys_arch.c.                             *)
(*                                                                         *)
(* An application thread posts a request and waits for op_completed of its *)
(* connection.  tcpip_thread serves one request or one TCP event at a      *)
(* time, so that each is one step.  A request that cannot be finished at   *)
(* once (connect, write, close) is parked in current_msg and finished by a *)
(* later event.  A connection is used by one thread at a time, the rule of *)
(* this API.  TCP itself is reduced to what its callbacks tell api_msg.c.  *)
(***************************************************************************)
EXTENDS Naturals, FiniteSets, SequencesExt

CONSTANTS
    Threads, Conns,     \* application threads; the pool MEMP_NETCONN
    RECVMBOX_SIZE,      \* DEFAULT_TCP_RECVMBOX_SIZE
    ACCEPTMBOX_SIZE,    \* DEFAULT_ACCEPTMBOX_SIZE
    MaxLen,             \* bound on the size of one write
    Shutdowns,          \* which ends netconn_close_shutdown closes: "RD", "WR", "RDWR"
    FinWhenFull,        \* may the peer's FIN come while the receive mailbox is full?
    NULL

ASSUME NetconnAssumption ==
    /\ RECVMBOX_SIZE \in Nat \ {0} /\ ACCEPTMBOX_SIZE \in Nat \ {0} /\ MaxLen \in Nat \ {0}
    /\ Shutdowns \subseteq {"RD", "WR", "RDWR"} /\ FinWhenFull \in BOOLEAN
    /\ NULL \notin Threads \cup Conns

ASSUME MarkerAssumption ==      \* see Invalid below
    "invalid" \notin Conns \cup {NULL}

VARIABLES
    conn,   \* the connections: struct netconn, with its mailboxes and semaphore
    pcb,    \* the TCP control block created for a connection, as its callbacks see it
    thr,    \* the application threads and the request each has made
    mbox    \* requests waiting for tcpip_thread, by thread

netconnVars == <<conn, pcb, thr, mbox>>

Invalid == <<"invalid">>    \* a mailbox handle that is NULL
Valid(m) == m # Invalid

FreeConn == [used |-> FALSE, state |-> "NONE", pcb |-> FALSE,
             recvmbox |-> Invalid, acceptmbox |-> Invalid, fatal |-> FALSE,
             current |-> NULL, write_offset |-> 0, nonblocking |-> FALSE, op_completed |-> 0]

(* netconn_alloc.                                                          *)
netconn_alloc == [FreeConn EXCEPT !.used = TRUE, !.recvmbox = <<>>]

NoPcb == [state |-> "none", arg |-> FALSE, fin |-> FALSE]

Idle == [pc |-> "idle", c |-> NULL, fn |-> NULL, len |-> 0, how |-> NULL,
         dontblock |-> FALSE, err |-> "OK", queued |-> 0]

-----------------------------------------------------------------------------
(* Application threads.                                                    *)

(* tcpip_apimsg: post the request, wait for op_completed.                  *)
tcpip_apimsg(t, c, fn, more) ==
    /\ thr' = [thr EXCEPT ![t] = [more EXCEPT !.pc = "call", !.c = c, !.fn = fn]]
    /\ mbox' = Append(mbox, t)

(* netconn_new_with_proto_and_callback.                                    *)
netconn_new(t, c) ==
    /\ thr[t].pc = "idle" /\ ~conn[c].used /\ pcb[c].state = "none"
    /\ conn' = [conn EXCEPT ![c] = netconn_alloc]
    /\ tcpip_apimsg(t, c, "newconn", Idle)
    /\ UNCHANGED pcb

(* The connections in the accept mailbox of c, which no thread knows yet.  *)
Pending(c) == IF Valid(conn[c].acceptmbox) THEN ToSet(conn[c].acceptmbox) \ {NULL} ELSE {}

(* Threads may hand a connection to each other between two calls.          *)
MayUse(t, c) ==
    /\ thr[t].pc = "idle" /\ conn[c].used
    /\ \A u \in Threads : thr[u].c # c
    /\ \A d \in Conns : c \notin Pending(d)

(* netconn_bind, netconn_getaddr, netconn_listen and netconn_delete, then  *)
(* netconn_connect, netconn_write (whether they may block is a flag of the *)
(* connection or of the call) and netconn_close_shutdown.                  *)
netconn_request(t, c) ==
    /\ MayUse(t, c)
    /\ \/ \E fn \in {"bind", "getaddr", "listen", "delete"} : tcpip_apimsg(t, c, fn, Idle)
       \/ \E nb \in BOOLEAN : tcpip_apimsg(t, c, "connect", [Idle EXCEPT !.dontblock = nb])
       \/ \E len \in 1..MaxLen, nb \in BOOLEAN :
            tcpip_apimsg(t, c, "write", [Idle EXCEPT !.len = len, !.dontblock = nb])
       \/ \E how \in Shutdowns : tcpip_apimsg(t, c, "close", [Idle EXCEPT !.how = how])
    /\ UNCHANGED <<conn, pcb>>

(* netconn_accept and netconn_recv_data up to the wait for the mailbox: a  *)
(* fatal error returns at once.                                            *)
netconn_accept(t, c) ==
    /\ MayUse(t, c) /\ Valid(conn[c].acceptmbox) /\ ~conn[c].fatal
    /\ thr' = [thr EXCEPT ![t] = [Idle EXCEPT !.pc = "accept", !.c = c]]
    /\ UNCHANGED <<conn, pcb, mbox>>

netconn_recv(t, c) ==
    /\ MayUse(t, c) /\ Valid(conn[c].recvmbox) /\ ~conn[c].fatal
    /\ thr' = [thr EXCEPT ![t] = [Idle EXCEPT !.pc = "recv", !.c = c]]
    /\ UNCHANGED <<conn, pcb, mbox>>

(* sys_arch_mbox_fetch of netconn_accept: a NULL message is an aborted     *)
(* connection, anything else the new connection.                           *)
AcceptFetch(t) ==
    LET c == thr[t].c  new == Head(conn[c].acceptmbox)
    IN /\ thr[t].pc = "accept" /\ conn[c].acceptmbox # <<>>
       /\ conn' = LET d == [conn EXCEPT ![c].acceptmbox = Tail(@)]
                  IN IF new = NULL THEN [d EXCEPT ![c].fatal = TRUE]
                                   ELSE d
       /\ thr' = [thr EXCEPT ![t] = Idle]
       /\ UNCHANGED <<pcb, mbox>>

(* sys_arch_mbox_fetch of netconn_recv_data, then the request that tells   *)
(* TCP the data was taken; a NULL message is the end of the stream.        *)
RecvFetch(t) ==
    LET c == thr[t].c
    IN /\ thr[t].pc = "recv" /\ conn[c].recvmbox # <<>>
       /\ conn' = [conn EXCEPT ![c].recvmbox = Tail(@)]
       /\ tcpip_apimsg(t, c, IF Head(conn[c].recvmbox) = NULL THEN "recvEof" ELSE "recv", Idle)
       /\ UNCHANGED pcb

(* The thread has op_completed and returns.  netconn_delete frees the      *)
(* connection whatever the answer was, a failed netconn_new too; the       *)
(* others keep the error if no fatal one came before.                      *)
Answered(k, request) ==
    [k EXCEPT !.op_completed = 0,
              !.fatal = @ \/ request.err = "fatal" \/ request.fn = "recvEof"]

CallReturns(t) ==
    LET c == thr[t].c  fn == thr[t].fn
        gone == fn = "delete" \/ (fn = "newconn" /\ thr[t].err # "OK")
    IN /\ thr[t].pc = "call" /\ conn[c].op_completed = 1
       /\ conn' = [conn EXCEPT ![c] =
                     IF gone THEN FreeConn ELSE Answered(conn[c], thr[t])]
       /\ thr' = [thr EXCEPT ![t] = Idle]
       /\ UNCHANGED <<pcb, mbox>>

-----------------------------------------------------------------------------
(* tcpip_thread: requests.  The operators below return the connection and  *)
(* the control block c, and the error given to the waiting thread t.       *)

Result(k, p, t, err) == [conn |-> k, pcb |-> p, t |-> t, err |-> err]

(* TCPIP_APIMSG_ACK: answer at once.                                       *)
Ack(k, p, t, err) == Result([k EXCEPT !.op_completed = 1], p, t, err)

(* The end of a parked request: forget it, answer its thread.              *)
Finish_StillParked(k, p, err) == Ack([k EXCEPT !.state = "NONE"], p, k.current, err)

Finish(k, p, err) ==
    Ack([k EXCEPT !.current = NULL, !.state = "NONE"], p, k.current, err)

Apply(c, r) ==
    /\ conn' = [conn EXCEPT ![c] = r.conn]
    /\ pcb' = [pcb EXCEPT ![c] = r.pcb]
    /\ thr' = IF r.t = NULL THEN thr ELSE [thr EXCEPT ![r.t].err = r.err]

(* do_newconn: the control block may not be available.                     *)
do_newconn(c, t, nomem) ==
    IF nomem THEN Ack(conn[c], pcb[c], t, "soft")
    ELSE Ack([conn[c] EXCEPT !.pcb = TRUE],
             [NoPcb EXCEPT !.state = "CLOSED", !.arg = TRUE], t, "OK")

(* do_bind, do_getaddr, do_recv: nothing of the connection changes.        *)
do_bind(c, t) ==
    Ack(conn[c], pcb[c], t, IF conn[c].fatal THEN "fatal" ELSE IF conn[c].pcb THEN "OK" ELSE "soft")
do_getaddr(c, t) == Ack(conn[c], pcb[c], t, IF conn[c].pcb THEN "OK" ELSE "fatal")
do_recv(c, t) == Ack(conn[c], pcb[c], t, "OK")

(* do_connect: tcp_connect may fail; a blocking connect is parked until    *)
(* do_connected or err_tcp.                                                *)
do_connect(c, t, nomem) ==
    IF ~conn[c].pcb THEN Ack(conn[c], pcb[c], t, "fatal")
    ELSE IF conn[c].state # "NONE" \/ pcb[c].state # "CLOSED" \/ nomem
         THEN Ack(conn[c], pcb[c], t, "soft")
    ELSE LET k == [conn[c] EXCEPT !.state = "CONNECT", !.nonblocking = thr[t].dontblock]
             p == [pcb[c] EXCEPT !.state = "SYN_SENT"]
         IN IF thr[t].dontblock THEN Ack(k, p, t, "soft")
            ELSE Result([k EXCEPT !.current = t], p, NULL, "OK")

(* do_listen: the receive mailbox is replaced by an accept mailbox; if     *)
(* there is no memory for that one, the control block is lost as well.     *)
do_listen(c, t, nomem) ==
    LET k == [conn[c] EXCEPT !.recvmbox = Invalid]
    IN IF conn[c].fatal \/ ~conn[c].pcb \/ conn[c].state # "NONE"
       THEN Ack(conn[c], pcb[c], t, "fatal")
       ELSE IF pcb[c].state # "CLOSED" THEN Ack(conn[c], pcb[c], t, "soft")
       ELSE IF nomem THEN Ack([k EXCEPT !.pcb = FALSE], NoPcb, t, "soft")
       ELSE Ack([k EXCEPT !.state = "LISTEN", !.acceptmbox = <<>>],
                [pcb[c] EXCEPT !.state = "LISTEN"], t, "OK")

(* do_writemore: hand as much of the rest as the send buffer (available)   *)
(* takes to tcp_write, which may lack memory ("soft") and refuses a        *)
(* control block that is not connected ("fatal").  A write that may not    *)
(* block gives up, another one waits for sent_tcp or poll_tcp.             *)
Fits(k, t, available) == Min({available, thr[t].len - k.write_offset})
tcp_write(c, nomem) == IF pcb[c].state = "CLOSED" THEN "fatal" ELSE IF nomem THEN "soft" ELSE "OK"

Written_Restart(k, n) == [k EXCEPT !.write_offset = n]
Written(k, n) == [k EXCEPT !.write_offset = @ + n]

do_writemore(c, k, t, available, nomem) ==
    LET n   == Fits(k, t, available)
        err == IF thr[t].dontblock /\ n < thr[t].len THEN "soft" ELSE tcp_write(c, nomem)
    IN IF err = "fatal" \/ (err = "soft" /\ thr[t].dontblock) THEN Finish(k, pcb[c], err)
       ELSE IF err = "soft" THEN Result(k, pcb[c], NULL, "OK")
       ELSE IF Written(k, n).write_offset # thr[t].len THEN Result(Written(k, n), pcb[c], NULL, "OK")
       ELSE Finish([k EXCEPT !.write_offset = 0], pcb[c], "OK")

(* queued counts the bytes of the request that tcp_write took, for the     *)
(* properties.                                                             *)
Taken(c, k, t, available, nomem) ==
    LET n == Fits(k, t, available)
    IN IF tcp_write(c, nomem) # "OK" \/ (thr[t].dontblock /\ n < thr[t].len) THEN 0 ELSE n

ApplyWrite(c, k, t, available, nomem) ==
    LET r == do_writemore(c, k, t, available, nomem)
    IN /\ conn' = [conn EXCEPT ![c] = r.conn]
       /\ thr' = [thr EXCEPT ![t].queued = @ + Taken(c, k, t, available, nomem),
                             ![t].err = IF r.t = NULL THEN @ ELSE r.err]
       /\ UNCHANGED pcb

(* do_write: refused on a fatal error, while another operation runs, and   *)
(* without a control block.                                                *)
WriteRefused(c) ==
    IF conn[c].fatal THEN "fatal"
    ELSE IF conn[c].state # "NONE" THEN "soft"
    ELSE IF ~conn[c].pcb THEN "fatal" ELSE "OK"

StartWrite(c, t) == [conn[c] EXCEPT !.state = "WRITE", !.current = t, !.write_offset = 0]

(* netconn_drain: delete both mailboxes and what is in them.               *)
netconn_drain(k) == [k EXCEPT !.recvmbox = Invalid, !.acceptmbox = Invalid]

(* do_close_internal: tcp_close may lack the memory for a FIN; then        *)
(* poll_tcp or sent_tcp tries again.  On success the connection forgets    *)
(* its control block, whichever ends are closed; the callbacks are cut     *)
(* only if both are.                                                       *)

do_close_internal(k, p, how, nomem) ==
    IF nomem /\ p.state = "ESTABLISHED" /\ how # "RD" THEN Result(k, p, NULL, "OK")
    ELSE Finish([k EXCEPT !.pcb = FALSE], IF how = "RDWR" THEN NoPcb ELSE p, "OK")

StartClose(k, t) == [k EXCEPT !.state = "CLOSE", !.current = t]

(* do_close: a listening connection supports no half shutdown.             *)
CloseRefused(c, how) ==
    IF conn[c].state \notin {"NONE", "LISTEN"} \/ ~conn[c].pcb THEN "soft"
    ELSE IF how # "RDWR" /\ conn[c].state = "LISTEN" THEN "fatal" ELSE "OK"

do_close(c, t, nomem) ==
    LET how == thr[t].how
        k   == IF how \in {"RD", "RDWR"} THEN netconn_drain(conn[c]) ELSE conn[c]
    IN IF CloseRefused(c, how) # "OK" THEN Ack(conn[c], pcb[c], t, CloseRefused(c, how))
       ELSE do_close_internal(StartClose(k, t), pcb[c], how, nomem)

(* do_delconn: also closes a connection with a non-blocking connect under  *)
(* way.                                                                    *)
DeleteRefused(c) == conn[c].state \notin {"NONE", "LISTEN", "CONNECT"}

do_delconn(c, t, nomem) ==
    LET k == netconn_drain(conn[c])
    IN IF DeleteRefused(c) THEN Ack(conn[c], pcb[c], t, "soft")
       ELSE IF ~conn[c].pcb THEN Ack(k, pcb[c], t, "OK")
       ELSE do_close_internal(StartClose(k, t), pcb[c], "RDWR", nomem)

(* What netconn_drain does to the connections that waited in the accept    *)
(* mailbox of c: abort and free them.                                      *)
Drained(c, t) ==
    IF \/ /\ thr[t].fn = "close" /\ thr[t].how \in {"RD", "RDWR"}
          /\ CloseRefused(c, thr[t].how) = "OK"
       \/ thr[t].fn = "delete" /\ ~DeleteRefused(c)
    THEN Pending(c) ELSE {}

ApplyDrain(c, r, drained) ==
    /\ conn' = [d \in Conns |-> IF d = c THEN r.conn
                                ELSE IF d \in drained THEN FreeConn ELSE conn[d]]
    /\ pcb' = [d \in Conns |-> IF d = c THEN r.pcb
                               ELSE IF d \in drained THEN NoPcb ELSE pcb[d]]
    /\ thr' = IF r.t = NULL THEN thr ELSE [thr EXCEPT ![r.t].err = r.err]

(* tcpip_thread takes the next request and calls its function.             *)
tcpip_thread_api ==
    LET t == Head(mbox)  c == thr[t].c  fn == thr[t].fn
    IN /\ mbox # <<>> /\ mbox' = Tail(mbox)
       /\ \E nomem \in BOOLEAN :
            \/ fn = "newconn" /\ Apply(c, do_newconn(c, t, nomem))
            \/ fn = "bind" /\ ~nomem /\ Apply(c, do_bind(c, t))
            \/ fn \in {"recv", "recvEof"} /\ ~nomem /\ Apply(c, do_recv(c, t))
            \/ fn = "getaddr" /\ ~nomem /\ Apply(c, do_getaddr(c, t))
            \/ fn = "connect" /\ Apply(c, do_connect(c, t, nomem))
            \/ fn = "listen" /\ Apply(c, do_listen(c, t, nomem))
            \/ /\ fn = "write" /\ ~nomem /\ WriteRefused(c) # "OK"
               /\ Apply(c, Ack(conn[c], pcb[c], t, WriteRefused(c)))
            \/ /\ fn = "write" /\ WriteRefused(c) = "OK"
               /\ \E available \in 0..MaxLen : ApplyWrite(c, StartWrite(c, t), t, available, nomem)
            \/ fn = "close" /\ ApplyDrain(c, do_close(c, t, nomem), Drained(c, t))
            \/ fn = "delete" /\ ApplyDrain(c, do_delconn(c, t, nomem), Drained(c, t))

-----------------------------------------------------------------------------
(* tcpip_thread: what TCP reports.  Callbacks are made while the control   *)
(* block has the connection as its argument.                               *)

(* do_connected.                                                           *)
do_connected(c) ==
    /\ pcb[c].state = "SYN_SENT" /\ pcb[c].arg
    /\ LET p == [pcb[c] EXCEPT !.state = "ESTABLISHED"]
           k == [conn[c] EXCEPT !.nonblocking = FALSE]
       IN Apply(c, IF conn[c].nonblocking
                   THEN Result([k EXCEPT !.state = "NONE", !.current = NULL], p, NULL, "OK")
                   ELSE Finish(k, p, "OK"))
    /\ UNCHANGED mbox

TryPost(m, x, size) == IF Valid(m) /\ Len(m) < size THEN Append(m, x) ELSE m

(* err_tcp: the control block is gone (reset, timeout, abort).  Wake up    *)
(* whoever waits for a mailbox, answer a parked request.                   *)
ErrWakes_None(k) == k
ErrWakes(k) == [k EXCEPT !.recvmbox = TryPost(@, NULL, RECVMBOX_SIZE),
                         !.acceptmbox = TryPost(@, NULL, ACCEPTMBOX_SIZE)]

err_tcp(c) ==
    /\ pcb[c].state \in {"SYN_SENT", "ESTABLISHED"} /\ pcb[c].arg
    /\ LET k == [ErrWakes(conn[c]) EXCEPT !.pcb = FALSE, !.fatal = TRUE, !.state = "NONE",
                                          !.nonblocking = FALSE]
       IN Apply(c, IF conn[c].state \in {"WRITE", "CLOSE", "CONNECT"} /\ ~conn[c].nonblocking
                   THEN Finish(k, NoPcb, "fatal")
                   ELSE Result(k, NoPcb, NULL, "OK"))
    /\ UNCHANGED mbox

(* recv_tcp: data, or NULL for the peer's FIN, goes to the mailbox.  Data  *)
(* that does not fit is offered again later; a FIN is offered only once.   *)
recv_tcp(c) ==
    /\ pcb[c].state = "ESTABLISHED" /\ pcb[c].arg /\ ~pcb[c].fin
    /\ Valid(conn[c].recvmbox)
    /\ \/ /\ Len(conn[c].recvmbox) < RECVMBOX_SIZE
          /\ conn' = [conn EXCEPT ![c].recvmbox = Append(@, "data")]
          /\ UNCHANGED pcb
       \/ /\ FinWhenFull \/ Len(conn[c].recvmbox) < RECVMBOX_SIZE
          /\ conn' = [conn EXCEPT ![c].recvmbox = TryPost(@, NULL, RECVMBOX_SIZE)]
          /\ pcb' = [pcb EXCEPT ![c].fin = TRUE]
    /\ UNCHANGED <<thr, mbox>>

(* sent_tcp and poll_tcp: go on with the parked write or close.            *)
sent_tcp_WriteOnly(c, nomem) ==
    /\ pcb[c].arg /\ pcb[c].state \in {"SYN_SENT", "ESTABLISHED"}
    /\ conn[c].state = "WRITE"
    /\ \E available \in 0..MaxLen :
         ApplyWrite(c, conn[c], conn[c].current, available, nomem)
    /\ UNCHANGED mbox

sent_tcp(c, nomem) ==
    /\ pcb[c].arg /\ pcb[c].state \in {"SYN_SENT", "ESTABLISHED"}
    /\ \/ /\ conn[c].state = "WRITE"
          /\ \E available \in 0..MaxLen :
               ApplyWrite(c, conn[c], conn[c].current, available, nomem)
       \/ /\ conn[c].state = "CLOSE"
          /\ LET t == conn[c].current
             IN Apply(c, do_close_internal(conn[c], pcb[c],
                           IF thr[t].fn = "delete" THEN "RDWR" ELSE thr[t].how, nomem))
    /\ UNCHANGED mbox

(* accept_function: a new connection for the accept mailbox, which is      *)
(* given up again if the mailbox is full.                                  *)
accept_function(c, new) ==
    /\ pcb[c].state = "LISTEN" /\ pcb[c].arg /\ Valid(conn[c].acceptmbox)
    /\ ~conn[new].used /\ pcb[new].state = "none"
    /\ Len(conn[c].acceptmbox) < ACCEPTMBOX_SIZE
    /\ conn' = [conn EXCEPT ![c].acceptmbox = Append(@, new),
                            ![new] = [netconn_alloc EXCEPT !.pcb = TRUE]]
    /\ pcb' = [pcb EXCEPT ![new] = [NoPcb EXCEPT !.state = "ESTABLISHED", !.arg = TRUE]]
    /\ UNCHANGED <<thr, mbox>>

-----------------------------------------------------------------------------
NetconnInit ==
    /\ conn = [c \in Conns |-> FreeConn]
    /\ pcb = [c \in Conns |-> NoPcb]
    /\ thr = [t \in Threads |-> Idle]
    /\ mbox = <<>>

AppNext(t) ==
    \/ \E c \in Conns : netconn_new(t, c) \/ netconn_request(t, c)
                          \/ netconn_accept(t, c) \/ netconn_recv(t, c)
    \/ AcceptFetch(t) \/ RecvFetch(t) \/ CallReturns(t)

TcpEvent(c) ==
    \/ do_connected(c) \/ err_tcp(c) \/ recv_tcp(c)
    \/ \E nomem \in BOOLEAN : sent_tcp(c, nomem)
    \/ \E new \in Conns : accept_function(c, new)

NetconnNext ==
    \/ \E t \in Threads : AppNext(t)
    \/ tcpip_thread_api
    \/ \E c \in Conns : TcpEvent(c)

(* tcpip_thread serves its mailbox, a thread that was answered runs, TCP   *)
(* gives up or connects after a bounded number of SYNs, and memory and     *)
(* send buffer come back in the end, for the poll timer never stops.       *)
WriteGoesOn(c) == sent_tcp(c, FALSE) /\ conn[c] # conn'[c]
NetconnFairness ==
    /\ WF_netconnVars(tcpip_thread_api)
    /\ \A t \in Threads : WF_netconnVars(CallReturns(t))
    /\ \A c \in Conns : WF_netconnVars(WriteGoesOn(c))
                         /\ WF_netconnVars(pcb[c].state = "SYN_SENT" /\ (do_connected(c) \/ err_tcp(c)))

NetconnSpec == NetconnInit /\ [][NetconnNext]_netconnVars /\ NetconnFairness

-----------------------------------------------------------------------------
Waiting(t) == thr[t].pc = "call" /\ conn[thr[t].c].op_completed = 0
Parked(t) == conn[thr[t].c].current = t

(* One answer per request: op_completed is signalled only for the thread   *)
(* that waits for it, and that request is then neither queued nor parked,  *)
(* so that nothing answers it again and no signal is left over for the     *)
(* next call on the connection.                                            *)
OneAnswer ==
    \A c \in Conns : conn[c].op_completed = 1 =>
        \E t \in Threads : /\ thr[t].pc = "call" /\ thr[t].c = c
                           /\ t \notin ToSet(mbox) /\ conn[c].current # t

(* No thread waits for something that cannot come: its request is queued,  *)
(* or parked at a connection whose control block will call back; and a     *)
(* thread at an empty mailbox waits for a control block that is alive and  *)
(* has not yet reported the end of the stream.                             *)
NoThreadStranded ==
    \A t \in Threads :
        LET c == thr[t].c
        IN /\ Waiting(t) => \/ t \in ToSet(mbox)
                            \/ Parked(t) /\ conn[c].pcb /\ pcb[c].arg
           /\ (thr[t].pc = "recv" /\ conn[c].recvmbox = <<>>) =>
                    pcb[c].arg /\ ~pcb[c].fin
           /\ (thr[t].pc = "accept" /\ conn[c].acceptmbox = <<>>) =>
                    pcb[c].arg /\ pcb[c].state = "LISTEN"

(* A control block calls back only into a connection that is in use and    *)
(* knows it: no callback reaches a freed connection, one that was handed   *)
(* to another control block, or one that closed.                           *)
CallbacksLive ==
    \A c \in Conns : /\ pcb[c].arg => conn[c].used /\ conn[c].pcb
                     /\ conn[c].pcb => pcb[c].arg

(* Whoever is waited for can still come, and comes to one who waits: of    *)
(* threads and control blocks neither is left without the other.           *)
NobodyLeftAlone == NoThreadStranded /\ CallbacksLive

(* netconn_write returns success exactly when tcp_write took every byte    *)
(* once, over all the retries; and a connection that can start a new       *)
(* operation has no rest of an old one, as do_write, do_close and          *)
(* do_delconn assert ("already writing or closing").                       *)
WriteAllOrError ==
    /\ \A t \in Threads :
         (thr[t].pc = "call" /\ thr[t].fn = "write" /\ conn[thr[t].c].op_completed = 1) =>
            (thr[t].err = "OK" <=> thr[t].queued = thr[t].len)
    /\ \A c \in Conns :
         (conn[c].pcb /\ conn[c].state \in {"NONE", "LISTEN"}) =>
            conn[c].current = NULL /\ conn[c].write_offset = 0

(* Every call of an application thread returns, whatever the peer does,    *)
(* while the stack has memory now and then.                                *)
CallsReturn == \A t \in Threads : thr[t].pc = "call" ~> thr[t].pc # "call"
=============================================================================
