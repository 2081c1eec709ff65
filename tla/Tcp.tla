--------------------------------- MODULE Tcp ---------------------------------
(***************************************************************************)
(* A TCP connection between two endpoints that both run lwIP: the state    *)
(* machine and the input of tcp_in.c, the calls and timers of tcp.c, on    *)
(* the control block of TcpPcb, over a network that may lose, duplicate    *)
(* and reorder segments.                                                   *)
(*                                                                         *)
(* Client connects; Server has one listening control block, which its      *)
(* application closes when a connection comes in.  tcpip_thread runs one   *)
(* call, one segment or one timer at a time, so that each is one step.     *)
(* The callbacks record what they are given; the application answers with  *)
(* calls of its own.                                                       *)
(*                                                                         *)
(* Segments in flight are a queue in each direction.  Taking one out of    *)
(* its turn, twice or not at all is a fault, and so is a timer that fires  *)
(* although something is still in flight, or that gives a connection up:   *)
(* at most MaxFaults of these happen, and at most MaxFaultsClosing if one  *)
(* of the applications closes.                                             *)
(***************************************************************************)
EXTENDS TcpPcb, FiniteSets

CONSTANTS
    Client, Server,
    IssClient, IssServer,       \* initial sequence numbers (tcp_next_iss)
    ClientBytes, ServerBytes,   \* how many bytes each application writes
    WriteLens,                  \* the lengths of one tcp_write
    ClientCloses, ServerCloses, \* how each application ends: "close", "shutdown"
    CloseWithUnsent,            \* may it do so while data waits in unsent?
    MaxFaults,
    MaxFaultsClosing            \* of them, before an application has closed

ASSUME TcpAssumption ==
    /\ Client # Server
    /\ IssClient \in 0 .. (SeqSize - 1) /\ IssServer \in 0 .. (SeqSize - 1)
    /\ ClientBytes \in Nat /\ ServerBytes \in Nat
    /\ MaxFaults \in Nat /\ MaxFaultsClosing \in 0 .. MaxFaults
    /\ ClientBytes + 2 + WndSize < SeqSize \div 2 /\ ServerBytes + 2 + WndSize < SeqSize \div 2
    /\ WriteLens \subseteq Nat \ {0}
    /\ ClientCloses \cup ServerCloses \subseteq {"close", "shutdown"} /\ CloseWithUnsent \in BOOLEAN

VARIABLES
    pcb,        \* the control block of each endpoint
    listening,  \* is the server's listening control block there?
    net,        \* the segments on their way to each endpoint
    app,        \* what each application has done and been told
    faults      \* faults so far

tcpVars == <<pcb, listening, net, app, faults>>

Hosts == {Client, Server}
Peer(h) == IF h = Client THEN Server ELSE Client
Bytes(h) == IF h = Client THEN ClientBytes ELSE ServerBytes
Closes(h) == IF h = Client THEN ClientCloses ELSE ServerCloses

(* The sequence number of the first byte an endpoint writes: the SYN of    *)
(* the client has the number IssClient - 1, that of the server IssServer.  *)
FirstByte(h) == Wrap(IF h = Client THEN IssClient ELSE IssServer + 1)

(* written and got: bytes given to tcp_write and received; unread: of got, *)
(* those not yet reported with tcp_recved; eof: the FIN was reported;      *)
(* ended: how the application closed; dead: reset, aborted or given up;    *)
(* done: TCP considers its FIN, and so everything, acknowledged.           *)
NewApp == [written |-> 0, got |-> <<>>, unread |-> 0, eof |-> FALSE, ended |-> "no",
           dead |-> FALSE, done |-> FALSE]

TcpInit ==
    /\ pcb = [h \in Hosts |-> NoPcb]
    /\ listening = TRUE
    /\ net = [h \in Hosts |-> <<>>]
    /\ app = [h \in Hosts |-> NewApp]
    /\ faults = 0

-----------------------------------------------------------------------------
(* The network.                                                            *)

Send(h, out) == net' = [net EXCEPT ![Peer(h)] = @ \o out]

Closing == \E h \in Hosts : app[h].ended \in {"close", "shutdown"}

Fault(n) ==
    /\ faults + n <= IF Closing THEN MaxFaultsClosing ELSE MaxFaults
    /\ faults' = faults + n

(* Nothing is in flight: a timer that runs now is not too early.           *)
Quiet == \A h \in Hosts : net[h] = <<>>

Lose(h) ==
    /\ Fault(1)
    /\ \E i \in 1 .. Len(net[h]) : net' = [net EXCEPT ![h] = RemoveAt(@, i)]
    /\ UNCHANGED <<pcb, listening, app>>

-----------------------------------------------------------------------------
(* The calls of the application.                                           *)

Active(h) == pcb[h].state \notin {"CLOSED", "TIME_WAIT"}

(* The outcome of a call: the control block and what it sent.              *)
Does(h, r) == pcb' = [pcb EXCEPT ![h] = r.p] /\ Send(h, r.out)

(* tcp_connect.                                                            *)
tcp_connect ==
    LET p == [tcp_alloc(IssClient - 1) EXCEPT
                 !.snd_nxt = IssClient, !.lastack = Wrap(IssClient - 1), !.snd_lbb = Wrap(IssClient - 1),
                 !.snd_wnd = TCP_WND, !.state = "SYN_SENT"]
    IN /\ pcb[Client] = NoPcb /\ app[Client] = NewApp
       /\ Does(Client, tcp_output(tcp_enqueue_flags(p, TRUE)))
       /\ app' = [app EXCEPT ![Client].ended = "connecting"]
       /\ UNCHANGED <<listening, faults>>

Open(h) == app[h].ended = "open"

(* tcp_write_checks, tcp_write and the tcp_output that do_writemore calls  *)
(* after it.                                                               *)
Write(h) ==
    /\ Open(h) /\ pcb[h].state \in {"ESTABLISHED", "CLOSE_WAIT"}
    /\ \E len \in WriteLens :
          /\ app[h].written + len <= Bytes(h)
          /\ Does(h, tcp_output(tcp_write(pcb[h], [i \in 1 .. len |-> app[h].written + i])))
          /\ app' = [app EXCEPT ![h].written = @ + len]
    /\ UNCHANGED <<listening, faults>>

(* The same when there is no memory or no room in the send buffer.         *)
WriteFails(h) ==
    /\ Open(h) /\ pcb[h].state \in {"ESTABLISHED", "CLOSE_WAIT"} /\ app[h].written < Bytes(h)
    /\ Does(h, tcp_output([pcb[h] EXCEPT !.naglememerr = TRUE]))
    /\ UNCHANGED <<listening, app, faults>>

(* tcp_recved, for bytes the application has consumed.                     *)
Recved(h) ==
    /\ Active(h) /\ app[h].ended # "close"
    /\ \E len \in 1 .. app[h].unread :
          /\ Does(h, tcp_recved(pcb[h], len))
          /\ app' = [app EXCEPT ![h].unread = @ - len]
    /\ UNCHANGED <<listening, faults>>

(* tcp_close_shutdown: a reset if data was not consumed, else a FIN.       *)
tcp_close_shutdown(h, rst_on_unacked_data) ==
    LET p == [pcb[h] EXCEPT !.rxclosed = @ \/ rst_on_unacked_data]
        reset == rst_on_unacked_data /\ p.rcv_wnd # TCP_WND
        next == IF p.state = "CLOSE_WAIT" THEN "LAST_ACK" ELSE "FIN_WAIT_1"
    IN \/ /\ reset
          /\ Does(h, [p |-> [tcp_pcb_purge(p) EXCEPT !.state = "TIME_WAIT"],
                      out |-> tcp_rst(p.snd_nxt, p.rcv_nxt)])
          /\ app' = [app EXCEPT ![h].ended = "close", ![h].dead = TRUE]
       \/ /\ ~reset /\ p.state = "SYN_SENT"
          /\ Does(h, [p |-> NoPcb, out |-> <<>>])
          /\ app' = [app EXCEPT ![h].ended = "close", ![h].dead = TRUE]
       \/ /\ ~reset /\ p.state \in {"SYN_RCVD", "ESTABLISHED", "CLOSE_WAIT"}
          /\ Does(h, tcp_output([tcp_send_fin(p) EXCEPT !.state = next]))
          /\ app' = [app EXCEPT ![h].ended = IF rst_on_unacked_data THEN "close" ELSE "shutdown"]
       \/ /\ ~reset /\ p.state \in {"FIN_WAIT_1", "FIN_WAIT_2", "CLOSING", "LAST_ACK"}
          /\ Does(h, [p |-> p, out |-> <<>>])
          /\ app' = [app EXCEPT ![h].ended = "close"]

(* The bounds on closing.                                                  *)
MayClose(h) == faults <= MaxFaultsClosing /\ (CloseWithUnsent \/ pcb[h].unsent = <<>>)

(* tcp_close.                                                              *)
tcp_close(h) ==
    /\ app[h].ended \in {"connecting", "open", "shutdown"} /\ "close" \in Closes(h)
    /\ MayClose(h)
    /\ Active(h) /\ tcp_close_shutdown(h, TRUE)
    /\ UNCHANGED <<listening, faults>>

(* tcp_shutdown of the sending side.                                       *)
tcp_shutdown(h) ==
    /\ Open(h) /\ "shutdown" \in Closes(h)
    /\ MayClose(h)
    /\ pcb[h].state \in {"SYN_RCVD", "ESTABLISHED", "CLOSE_WAIT"} /\ tcp_close_shutdown(h, FALSE)
    /\ UNCHANGED <<listening, faults>>

-----------------------------------------------------------------------------
(* Input.                                                                  *)

Outcome(p, out) == [p |-> p, out |-> out, data |-> <<>>, fin |-> FALSE, verdict |-> "ok"]

(* The reset that answers a segment.                                       *)
ResetFor(s) == tcp_rst(s.ack, s.seq + TCP_TCPLEN(s))

AckedAll_AnyAck(p, s) == s.isack

(* The peer has acknowledged what was sent so far.                         *)
AckedAll(p, s) == s.isack /\ s.ack = p.snd_nxt

TimeWait(p) == [tcp_pcb_purge(p) EXCEPT !.state = "TIME_WAIT"]

(* cwnd when the connection is established.                                *)
FirstCwnd(p) == IF p.cwnd = 1 THEN 2 * TCP_MSS ELSE TCP_MSS

(* tcp_process, SYN_SENT: the SYN|ACK expected, or a half-open connection. *)
InSynSent(p, s) ==
    IF s.isack /\ s.syn /\ s.ack = End(Head(p.unacked))
    THEN Outcome(tcp_ack_now([p EXCEPT !.state = "ESTABLISHED", !.rcv_nxt = Wrap(s.seq + 1),
                    !.rcv_ann_right_edge = Wrap(s.seq + 1), !.lastack = s.ack, !.snd_wnd = s.wnd,
                    !.snd_wl1 = Wrap(s.seq - 1), !.unacked = Tail(@), !.rtime = Tail(p.unacked) # <<>>,
                    !.cwnd = FirstCwnd(p)]), <<>>)
    ELSE Outcome(p, IF s.isack THEN ResetFor(s) ELSE <<>>)

(* What tcp_receive returned, with another control block.                  *)
After(r, p) == [p |-> p, out |-> r.out, data |-> r.data, fin |-> r.fin, verdict |-> "ok"]

Goes(p, state) == [p EXCEPT !.state = state]

(* After tcp_receive in ESTABLISHED, CLOSE_WAIT, FIN_WAIT_1, FIN_WAIT_2,   *)
(* CLOSING and LAST_ACK.  A FIN is acknowledged and changes the state; so  *)
(* does the acknowledgement of our own.                                    *)
InEstablished(r) == After(r, IF r.fin THEN Goes(tcp_ack_now(r.p), "CLOSE_WAIT") ELSE r.p)

InFinWait1(r, s) ==
    After(r, IF r.fin
             THEN IF AckedAll(r.p, s) THEN TimeWait(tcp_ack_now(r.p)) ELSE Goes(tcp_ack_now(r.p), "CLOSING")
             ELSE IF AckedAll(r.p, s) THEN Goes(r.p, "FIN_WAIT_2") ELSE r.p)

InFinWait2(r) == After(r, IF r.fin THEN TimeWait(tcp_ack_now(r.p)) ELSE r.p)

InClosing(r, s) == After(r, IF AckedAll(r.p, s) THEN TimeWait(r.p) ELSE r.p)

InLastAck(r, s) == [After(r, r.p) EXCEPT !.verdict = IF AckedAll(r.p, s) THEN "closed" ELSE "ok"]

InSynchronized(state, r, s) ==
    CASE state \in {"ESTABLISHED", "CLOSE_WAIT"} -> InEstablished(r)
      [] state = "FIN_WAIT_1" -> InFinWait1(r, s)
      [] state = "FIN_WAIT_2" -> InFinWait2(r)
      [] state = "CLOSING" -> InClosing(r, s)
      [] state = "LAST_ACK" -> InLastAck(r, s)

(* SYN_RCVD: the accept callback takes the connection.                     *)
InSynRcvd(p, s) ==
    IF ~s.isack
    THEN Outcome(IF s.syn /\ s.seq = Wrap(p.rcv_nxt - 1) THEN tcp_rexmit(p) ELSE p, <<>>)
    ELSE IF TCP_SEQ_BETWEEN(s.ack, Wrap(p.lastack + 1), p.snd_nxt)
    THEN [InEstablished(tcp_receive(Goes(p, "ESTABLISHED"), s)) EXCEPT !.p.cwnd = FirstCwnd(p)]
    ELSE Outcome(p, ResetFor(s))

(* Is a reset acceptable?                                                  *)
ResetAccepted(p, s) ==
    IF p.state = "SYN_SENT" THEN s.ack = p.snd_nxt
    ELSE TCP_SEQ_BETWEEN(s.seq, p.rcv_nxt, Wrap(p.rcv_nxt + p.rcv_wnd))

(* tcp_process.                                                            *)
tcp_process(p, s) ==
    IF s.rst THEN [Outcome(p, <<>>) EXCEPT !.verdict = IF ResetAccepted(p, s) THEN "reset" ELSE "ok"]
    ELSE IF s.syn /\ p.state \notin {"SYN_SENT", "SYN_RCVD"} THEN Outcome(tcp_ack_now(p), <<>>)
    ELSE IF p.state = "SYN_SENT" THEN InSynSent(p, s)
    ELSE IF p.state = "SYN_RCVD" THEN InSynRcvd(p, s)
    ELSE InSynchronized(p.state, tcp_receive(p, s), s)

OutputAfterInput_IfAckDue(p) == IF p.ack_now THEN tcp_output(p) ELSE [p |-> p, out |-> <<>>]

(* "Try to send something out."                                            *)
OutputAfterInput(p) == tcp_output(p)

(* tcp_input for an active connection, when tcp_process has returned r:    *)
(* remove it, abort it because nobody takes the data any more, or pass     *)
(* data and FIN to the application and call tcp_output.                    *)
Passed(h, r) ==
    LET p1 == IF r.fin /\ r.p.rcv_wnd # TCP_WND
              THEN [r.p EXCEPT !.rcv_wnd = (@ + 1) % WndSize] ELSE r.p
        o == OutputAfterInput(p1)
        rst == IF r.p.state = "TIME_WAIT" THEN <<>> ELSE tcp_rst(r.p.snd_nxt, r.p.rcv_nxt)
        told == [app[h] EXCEPT !.got = @ \o r.data, !.unread = @ + Len(r.data), !.eof = @ \/ r.fin,
                               !.ended = IF @ \in {"no", "connecting"} /\ p1.state \notin {"SYN_SENT", "SYN_RCVD"} THEN "open" ELSE @,
                               !.done = @ \/ p1.state \in {"FIN_WAIT_2", "TIME_WAIT"}]
    IN IF r.verdict = "reset" THEN [p |-> NoPcb, out |-> r.out, app |-> [app[h] EXCEPT !.dead = TRUE]]
       ELSE IF r.verdict = "closed" THEN [p |-> NoPcb, out |-> r.out, app |-> [app[h] EXCEPT !.done = TRUE]]
       ELSE IF r.data # <<>> /\ p1.rxclosed
       THEN [p |-> NoPcb, out |-> r.out \o rst, app |-> [app[h] EXCEPT !.dead = TRUE]]
       ELSE [p |-> o.p, out |-> r.out \o o.out, app |-> told]

(* tcp_timewait_input.                                                     *)
tcp_timewait_input(p, s) ==
    IF s.rst THEN [p |-> p, out |-> <<>>]
    ELSE IF s.syn /\ TCP_SEQ_BETWEEN(s.seq, p.rcv_nxt, Wrap(p.rcv_nxt + p.rcv_wnd))
    THEN [p |-> p, out |-> ResetFor(s)]
    ELSE IF TCP_TCPLEN(s) > 0 THEN tcp_output(tcp_ack_now(p))
    ELSE [p |-> p, out |-> <<>>]

(* tcp_listen_input: a SYN makes a new control block, which sends SYN|ACK. *)
tcp_listen_input(s) ==
    LET p == [tcp_alloc(IssServer) EXCEPT
                !.state = "SYN_RCVD", !.rcv_nxt = Wrap(s.seq + 1), !.rcv_ann_right_edge = Wrap(s.seq + 1),
                !.snd_wnd = s.wnd, !.snd_wl1 = Wrap(s.seq - 1)]
    IN IF s.isack THEN [p |-> NoPcb, out |-> tcp_rst(s.ack + 1, s.seq + TCP_TCPLEN(s))]
       ELSE IF s.syn THEN tcp_output(tcp_enqueue_flags(p, TRUE))
       ELSE [p |-> NoPcb, out |-> <<>>]

(* tcp_input: a connection, one in TIME_WAIT, the listener, or none.       *)
tcp_input(h, s) ==
    LET p == pcb[h]
        with(r) == [p |-> r.p, out |-> r.out, app |-> app[h]]
    IN IF Active(h) THEN Passed(h, tcp_process(p, s))
       ELSE IF p.state = "TIME_WAIT" THEN with(tcp_timewait_input(p, s))
       ELSE IF h = Server /\ listening THEN with(tcp_listen_input(s))
       ELSE with([p |-> p, out |-> IF s.rst THEN <<>> ELSE ResetFor(s)])

(* A segment arrives: the first in flight or, a fault, a later one; it may *)
(* stay in flight, to arrive again.                                        *)
Deliver(h, i, again) ==
    /\ i \in 1 .. Len(net[h])
    /\ Fault((IF i > 1 THEN 1 ELSE 0) + (IF again THEN 1 ELSE 0))
    /\ \E r \in {tcp_input(h, net[h][i])} :
          /\ pcb' = [pcb EXCEPT ![h] = r.p]
          /\ app' = [app EXCEPT ![h] = r.app]
          /\ net' = [net EXCEPT ![h] = IF again THEN @ ELSE RemoveAt(@, i), ![Peer(h)] = @ \o r.out]
          /\ listening' = (listening /\ ~(h = Server /\ ~Active(h) /\ r.p.state = "SYN_RCVD"))

InOrder(h) == Deliver(h, 1, FALSE)

OutOfOrder(h) == \E i \in 2 .. Len(net[h]) : Deliver(h, i, FALSE)

Duplicated(h) == \E i \in 1 .. Len(net[h]) : Deliver(h, i, TRUE)

-----------------------------------------------------------------------------
(* The timers.  tcp_slowtmr gives every control block a counter for each   *)
(* of its purposes, so that each purpose is an action of its own.          *)

TooEarly == IF Quiet THEN 0 ELSE 1

(* tcp_fasttmr: delayed acknowledgements.                                  *)
tcp_fasttmr(h) ==
    /\ Active(h) /\ pcb[h].ack_delay
    /\ LET r == tcp_output(tcp_ack_now(pcb[h]))
       IN Does(h, [r EXCEPT !.p.ack_delay = FALSE, !.p.ack_now = FALSE])
    /\ UNCHANGED <<listening, app, faults>>

(* tcp_slowtmr: the retransmission timeout.                                *)
Rexmit(h) ==
    /\ Active(h) /\ pcb[h].unacked # <<>> /\ pcb[h].rtime /\ ~pcb[h].persist
    /\ Fault(TooEarly)
    /\ Does(h, tcp_output(tcp_rexmit_rto(pcb[h])))
    /\ UNCHANGED <<listening, app>>

(* The persist timer.                                                      *)
Probe(h) ==
    /\ Active(h) /\ pcb[h].persist /\ Fault(TooEarly)
    /\ Does(h, tcp_zero_window_probe(pcb[h]))
    /\ UNCHANGED <<listening, app>>

(* The timeout of queued data out of sequence.                             *)
DropOoseq(h) ==
    /\ Active(h) /\ pcb[h].ooseq # <<>> /\ Fault(TooEarly)
    /\ pcb' = [pcb EXCEPT ![h].ooseq = <<>>]
    /\ UNCHANGED <<listening, net, app>>

(* Too many retransmissions, or too long in SYN_RCVD, FIN_WAIT_2 or        *)
(* LAST_ACK: the control block is removed without a reset.                 *)
GiveUp(h) ==
    /\ \/ Active(h) /\ pcb[h].unacked # <<>>
       \/ pcb[h].state \in {"SYN_RCVD", "FIN_WAIT_2", "LAST_ACK"}
    /\ Fault(1)
    /\ pcb' = [pcb EXCEPT ![h] = NoPcb] /\ app' = [app EXCEPT ![h].dead = TRUE]
    /\ UNCHANGED <<listening, net>>

(* TIME_WAIT outlives the segments of its connection.                      *)
TimeWaitEnds(h) ==
    /\ pcb[h].state = "TIME_WAIT" /\ Quiet
    /\ pcb' = [pcb EXCEPT ![h] = NoPcb]
    /\ UNCHANGED <<listening, net, app, faults>>

-----------------------------------------------------------------------------
TcpNext ==
    \/ tcp_connect
    \/ \E h \in Hosts :
          \/ Write(h) \/ WriteFails(h) \/ Recved(h) \/ tcp_close(h) \/ tcp_shutdown(h)
          \/ InOrder(h) \/ OutOfOrder(h) \/ Duplicated(h) \/ Lose(h)
          \/ tcp_fasttmr(h) \/ Rexmit(h) \/ Probe(h) \/ DropOoseq(h) \/ GiveUp(h) \/ TimeWaitEnds(h)

TcpSpec == TcpInit /\ [][TcpNext]_tcpVars

-----------------------------------------------------------------------------
(* Properties.                                                             *)

Synchronized(h) == pcb[h].state \notin {"CLOSED", "SYN_SENT"}

Upward(n) == [i \in 1 .. n |-> i]

(* Whatever the network does to the segments and the queues to their       *)
(* lengths, the application gets the bytes its peer wrote, in order, each  *)
(* once, and exactly those below rcv_nxt, which is what the peer is told   *)
(* it may forget; the end is reported only after all of them.              *)
StreamIntact ==
    \A h \in Hosts :
        LET n == Len(app[h].got)
        IN /\ app[h].got = Upward(n) /\ n <= app[Peer(h)].written
           /\ app[h].eof => n = app[Peer(h)].written
           /\ Synchronized(h) =>
                pcb[h].rcv_nxt = Wrap(FirstByte(Peer(h)) + n + (IF app[h].eof THEN 1 ELSE 0))

(* Does a segment on a send queue hold the n-th byte?                      *)
Holds(p, h, n) ==
    \E s \in ToSet(p.unacked) \cup ToSet(p.unsent) :
        \E i \in 1 .. Len(s.data) : s.data[i] = n /\ Wrap(s.seq + i - 1) = Wrap(FirstByte(h) + n - 1)

Sorted(q) == \A i \in 1 .. (Len(q) - 1) : TCP_SEQ_LEQ(End(q[i]), q[i + 1].seq)

(* Retransmissions move segments between unsent and unacked, new data may  *)
(* be appended to a segment that was sent before, and acknowledgements     *)
(* free segments of both queues; still every byte the application wrote is *)
(* either acknowledged or in a queue at its own sequence number, and the   *)
(* queues are in sequence.                                                 *)
NothingForgotten ==
    \A h \in Hosts :
        LET p == pcb[h]
        IN Active(h) =>
             /\ Sorted(p.unacked) /\ Sorted(p.unsent)
             /\ \A n \in 1 .. app[h].written :
                   TCP_SEQ_GEQ(Wrap(FirstByte(h) + n - 1), p.lastack) => Holds(p, h, n)

(* Acknowledgements, window updates and lost segments free what waits to   *)
(* be sent in many places; after each of them whatever the windows and     *)
(* Nagle's algorithm let out has gone out.  What is still to be sent or    *)
(* acknowledged then is covered by a running timer: segments in flight by  *)
(* the retransmission timer, unless the persist timer runs instead, and    *)
(* what waits behind a closed window, with nothing in flight, by the       *)
(* persist timer.                                                          *)
NothingStalls ==
    \A h \in Hosts :
        Active(h) =>
            /\ SendCount(pcb[h], Least(pcb[h].snd_wnd, pcb[h].cwnd)) = 0
            /\ pcb[h].unacked \o pcb[h].unsent # <<>> =>
                  pcb[h].persist \/ (pcb[h].unacked # <<>> /\ pcb[h].rtime)

(* What was written and is not acknowledged is in a queue, and has         *)
(* something that will make it go out.                                     *)
NothingStuck == NothingForgotten /\ NothingStalls

(* The receiver never takes back window it has announced, and never        *)
(* announces more than it has.                                             *)
WindowKept ==
    [][\A h \in Hosts :
          Synchronized(h) /\ Synchronized(h)' /\ ~app'[h].eof =>
            /\ TCP_SEQ_GEQ(pcb'[h].rcv_ann_right_edge, pcb[h].rcv_ann_right_edge)
            /\ pcb'[h].rcv_ann_wnd <= pcb'[h].rcv_wnd]_tcpVars

(* When TCP has taken its FIN for acknowledged, and so has freed the       *)
(* connection or moved it to FIN_WAIT_2 or TIME_WAIT, the peer has been    *)
(* given every byte and the end.                                           *)
DoneMeansDelivered ==
    \A h \in Hosts :
        app[h].done => app[Peer(h)].eof /\ Len(app[Peer(h)].got) = app[h].written
=============================================================================
