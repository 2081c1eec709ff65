------------------------------- MODULE TcpPcb -------------------------------
(***************************************************************************)
(* One TCP connection of lwIP (tcp_in.c, tcp_out.c, tcp.c): what each      *)
(* function does to its control block and which segments it sends.  The    *)
(* functions are operators from a control block to a record [p, out] of    *)
(* the control block after the call and the segments given to ip_output.   *)
(*                                                                         *)
(* Sequence numbers are integers modulo SeqSize (2^32 in the code), windows *)
(* modulo WndSize (2^16).  The n-th byte an application writes is the       *)
(* number n, so that a byte out of its place shows.  cwnd is kept up to    *)
(* two segments or the largest window: more does not limit anything.  A    *)
(* count of duplicate acknowledgements is kept up to one above the         *)
(* threshold, as only that comparison is made.  rtime and persist_backoff  *)
(* are reduced to running or not.                                          *)
(***************************************************************************)
EXTENDS Integers, SequencesExt

CONSTANTS
    SeqSize, WndSize,     \* sizes of u32_t sequence numbers and u16_t windows
    TCP_MSS, TCP_WND,
    DUPACKS             \* duplicate acknowledgements that start a fast retransmission: 3

ASSUME TcpPcbAssumption ==
    /\ TCP_MSS \in Nat \ {0} /\ DUPACKS \in Nat \ {0}
    /\ TCP_WND \in TCP_MSS .. (WndSize - 1)
    /\ WndSize \in Nat /\ SeqSize \in Nat /\ SeqSize % 2 = 0 /\ 2 * WndSize <= SeqSize

-----------------------------------------------------------------------------
(* Sequence numbers (tcp_impl.h): the sign of a difference of 32 bits.     *)
Wrap(n) == n % SeqSize
TCP_SEQ_LT(a, b) == Wrap(a - b) >= SeqSize \div 2
TCP_SEQ_LEQ(a, b) == Wrap(a - b) = 0 \/ TCP_SEQ_LT(a, b)
TCP_SEQ_GT(a, b) == ~TCP_SEQ_LEQ(a, b)
TCP_SEQ_GEQ(a, b) == ~TCP_SEQ_LT(a, b)
TCP_SEQ_BETWEEN(a, b, c) == TCP_SEQ_GEQ(a, b) /\ TCP_SEQ_LEQ(a, c)

Least(a, b) == IF a <= b THEN a ELSE b

(* cwnd, up to the value from which it limits nothing.                     *)
Cwnd(n) == Least(n, IF TCP_WND > 2 * TCP_MSS THEN TCP_WND ELSE 2 * TCP_MSS)

(* How many elements at the head of q pass Test: the while loops below     *)
(* walk a list of segments until one does not.                             *)
Leading(q, Test(_)) ==
    CHOOSE k \in 0 .. Len(q) :
        /\ \A i \in 1 .. k : Test(q[i])
        /\ k < Len(q) => ~Test(q[k + 1])

Upto(q, k) == SubSeq(q, 1, k)
Beyond(q, k) == SubSeq(q, k + 1, Len(q))

-----------------------------------------------------------------------------
(* Segments.  On the send queues: seq, data, syn, fin.                     *)
Segment(seq, data, syn, fin) == [seq |-> Wrap(seq), data |-> data, syn |-> syn, fin |-> fin]

TCP_TCPLEN(s) == Len(s.data) + (IF s.syn \/ s.fin THEN 1 ELSE 0)
End(s) == Wrap(s.seq + TCP_TCPLEN(s))

(* On the wire: with the acknowledgement and the window.                   *)
Wire(s, ack, wnd, isack, rst) ==
    [seq |-> s.seq, data |-> s.data, syn |-> s.syn, fin |-> s.fin,
     ack |-> Wrap(ack), wnd |-> wnd, isack |-> isack, rst |-> rst]

(* tcp_rst.                                                                *)
tcp_rst(seq, ack) == <<Wire(Segment(seq, <<>>, FALSE, FALSE), ack, TCP_WND, TRUE, TRUE)>>

(* No control block: the state of an endpoint before and after it has one. *)
NoPcb ==
    [state |-> "CLOSED", unsent |-> <<>>, unacked |-> <<>>, ooseq |-> <<>>,
     snd_nxt |-> 0, lastack |-> 0, snd_lbb |-> 0, snd_wnd |-> 0, snd_wl1 |-> 0, snd_wl2 |-> 0,
     cwnd |-> 1, dupacks |-> 0, infr |-> FALSE, rtime |-> FALSE, persist |-> FALSE,
     rcv_nxt |-> 0, rcv_wnd |-> 0, rcv_ann_wnd |-> 0, rcv_ann_right_edge |-> 0,
     ack_delay |-> FALSE, ack_now |-> FALSE, fin |-> FALSE, naglememerr |-> FALSE,
     rxclosed |-> FALSE]

(* tcp_alloc.                                                              *)
tcp_alloc(iss) ==
    [NoPcb EXCEPT !.rcv_wnd = TCP_WND, !.rcv_ann_wnd = TCP_WND,
                  !.snd_wl2 = Wrap(iss), !.snd_nxt = Wrap(iss), !.lastack = Wrap(iss),
                  !.snd_lbb = Wrap(iss)]

(* tcp_ack, tcp_ack_now.                                                   *)
tcp_ack(p) == [p EXCEPT !.ack_delay = ~p.ack_delay, !.ack_now = @ \/ p.ack_delay]
tcp_ack_now(p) == [p EXCEPT !.ack_now = TRUE]

-----------------------------------------------------------------------------
(* Output.                                                                 *)

(* The window edge that goes out with every segment.                       *)
Announced(p) == [p EXCEPT !.rcv_ann_right_edge = Wrap(p.rcv_nxt + p.rcv_ann_wnd)]

(* tcp_send_empty_ack.                                                     *)
tcp_send_empty_ack(p) ==
    [p |-> [Announced(p) EXCEPT !.ack_delay = FALSE, !.ack_now = FALSE],
     out |-> <<Wire(Segment(p.snd_nxt, <<>>, FALSE, FALSE), p.rcv_nxt, p.rcv_ann_wnd, TRUE, FALSE)>>]

(* seqno - lastack + len <= wnd, in u32_t.                                 *)
Fits(p, s, wnd) == Wrap(s.seq - p.lastack + Len(s.data)) <= wnd

(* tcp_do_output_nagle when the i-th segment of unsent has become the      *)
(* first, and the flags that overrule it.                                  *)
MayOutput(p, i) ==
    \/ p.unacked = <<>> /\ i = 1
    \/ p.infr
    \/ i < Len(p.unsent) \/ Len(p.unsent[i].data) >= TCP_MSS
    \/ p.naglememerr \/ p.fin

(* A segment sent goes to the unacked list, which is sorted.               *)
ToUnacked(q, s) ==
    IF q = <<>> \/ ~TCP_SEQ_LT(s.seq, Last(q).seq) THEN Append(q, s)
    ELSE LET k == Leading(q, LAMBDA u : TCP_SEQ_LT(u.seq, s.seq))
         IN Upto(q, k) \o <<s>> \o Beyond(q, k)

(* How many segments of unsent the window and Nagle let out.               *)
SendCount(p, wnd) ==
    LET may(i) == Fits(p, p.unsent[i], wnd) /\ MayOutput(p, i)
    IN CHOOSE n \in 0 .. Len(p.unsent) :
           /\ \A i \in 1 .. n : may(i)
           /\ n < Len(p.unsent) => ~may(n + 1)

(* Where snd_nxt is after a segment has gone out.                          *)
Advanced(snd_nxt, s) == IF TCP_SEQ_LT(snd_nxt, End(s)) THEN End(s) ELSE snd_nxt

(* tcp_output_segment for the first k: they carry the acknowledgement, and *)
(* start the retransmission timer; a segment the window holds back starts  *)
(* the persist timer.                                                      *)
SendFirst(p, k) ==
    LET sent == Upto(p.unsent, k)
        rest == Beyond(p.unsent, k)
        isack == p.state # "SYN_SENT"
    IN [p |-> [(IF k > 0 THEN Announced(p) ELSE p) EXCEPT
                  !.unsent = rest,
                  !.unacked = FoldLeft(ToUnacked, @, sent),
                  !.snd_nxt = FoldLeft(Advanced, @, sent),
                  !.rtime = @ \/ k > 0,
                  !.ack_delay = @ /\ ~(k > 0 /\ isack),
                  !.ack_now = @ /\ ~(k > 0 /\ isack),
                  !.persist = @ \/ (rest # <<>> /\ ~Fits(p, rest[1], p.snd_wnd)),
                  !.naglememerr = FALSE],
        out |-> [i \in 1 .. k |-> Wire(sent[i], p.rcv_nxt, p.rcv_ann_wnd, isack, FALSE)]]

(* tcp_output: an acknowledgement of its own only if no segment could      *)
(* carry it.                                                               *)
tcp_output(p) ==
    LET wnd == Least(p.snd_wnd, p.cwnd)
    IN IF p.ack_now /\ (p.unsent = <<>> \/ ~Fits(p, p.unsent[1], wnd))
       THEN tcp_send_empty_ack(p)
       ELSE SendFirst(p, SendCount(p, wnd))

(* tcp_enqueue_flags: a segment of its own for SYN or FIN.                 *)
tcp_enqueue_flags(p, syn) ==
    [p EXCEPT !.unsent = Append(@, Segment(p.snd_lbb, <<>>, syn, ~syn)),
              !.snd_lbb = Wrap(@ + 1), !.fin = @ \/ ~syn]

(* tcp_send_fin: on the last unsent segment if it can carry it.            *)
tcp_send_fin(p) ==
    IF p.unsent # <<>> /\ ~Last(p.unsent).syn /\ ~Last(p.unsent).fin
    THEN [p EXCEPT !.unsent[Len(p.unsent)].fin = TRUE]
    ELSE tcp_enqueue_flags(p, FALSE)

(* tcp_write of data: fill the last unsent segment if it has data, then    *)
(* new segments of at most TCP_MSS bytes.                                  *)
tcp_write(p, data) ==
    LET extend == p.unsent # <<>> /\ Last(p.unsent).data # <<>>
        pos == IF extend THEN Least(Len(data), TCP_MSS - Len(Last(p.unsent).data)) ELSE 0
        n == (Len(data) - pos + TCP_MSS - 1) \div TCP_MSS
        from(i) == pos + (i - 1) * TCP_MSS
        new == [i \in 1 .. n |->
                  Segment(p.snd_lbb + from(i),
                          SubSeq(data, from(i) + 1, Least(from(i) + TCP_MSS, Len(data))), FALSE, FALSE)]
        grown == IF extend THEN [p.unsent EXCEPT ![Len(p.unsent)].data = @ \o Upto(data, pos)]
                 ELSE p.unsent
    IN [p EXCEPT !.unsent = grown \o new, !.snd_lbb = Wrap(@ + Len(data))]

tcp_rexmit_rto_First(p) == [p EXCEPT !.unsent = <<Head(p.unacked)>> \o @, !.unacked = <<>>, !.cwnd = TCP_MSS]

(* A retransmission timeout: cwnd is one segment and tcp_rexmit_rto queues *)
(* everything again.  Its call of tcp_output follows.                      *)
tcp_rexmit_rto(p) == [p EXCEPT !.unsent = p.unacked \o @, !.unacked = <<>>, !.cwnd = TCP_MSS]

(* tcp_rexmit: the first unacked segment to its place in unsent.           *)
tcp_rexmit(p) ==
    IF p.unacked = <<>> THEN p
    ELSE LET s == Head(p.unacked)
             k == Leading(p.unsent, LAMBDA u : TCP_SEQ_LT(u.seq, s.seq))
         IN [p EXCEPT !.unacked = Tail(@), !.unsent = Upto(@, k) \o <<s>> \o Beyond(@, k)]

(* tcp_rexmit_fast.                                                        *)
tcp_rexmit_fast(p) ==
    IF p.unacked # <<>> /\ ~p.infr THEN [tcp_rexmit(p) EXCEPT !.infr = TRUE, !.cwnd = Cwnd(5 * TCP_MSS)] ELSE p

(* tcp_zero_window_probe: one byte, or the FIN, of the first segment.      *)
tcp_zero_window_probe(p) ==
    LET q == p.unacked \o p.unsent
        probe == Segment(q[1].seq, Upto(q[1].data, Least(1, Len(q[1].data))),
                         FALSE, q[1].fin /\ q[1].data = <<>>)
    IN IF q = <<>> THEN [p |-> p, out |-> <<>>]
       ELSE [p |-> Announced(p),
             out |-> <<Wire(probe, p.rcv_nxt, p.rcv_ann_wnd, TRUE, FALSE)>>]

(* tcp_pcb_purge.                                                          *)
tcp_pcb_purge(p) ==
    [p EXCEPT !.unsent = <<>>, !.unacked = <<>>, !.ooseq = <<>>, !.rtime = FALSE]

-----------------------------------------------------------------------------
(* The receive window.                                                     *)

tcp_update_rcv_ann_wnd_Free(p) == [p EXCEPT !.rcv_ann_wnd = IF p.rcv_wnd >= TCP_MSS THEN p.rcv_wnd ELSE 0]

(* tcp_update_rcv_ann_wnd: the window to announce ...                      *)
tcp_update_rcv_ann_wnd(p) ==
    LET edge == Wrap(p.rcv_nxt + p.rcv_wnd)
    IN [p EXCEPT !.rcv_ann_wnd =
          IF TCP_SEQ_GEQ(edge, Wrap(p.rcv_ann_right_edge + Least(TCP_WND \div 2, TCP_MSS)))
          THEN p.rcv_wnd
          ELSE IF TCP_SEQ_GT(p.rcv_nxt, p.rcv_ann_right_edge) THEN 0
          ELSE Wrap(p.rcv_ann_right_edge - p.rcv_nxt) % WndSize]

(* ... and how much it would open (its result).                            *)
WndInflation(p) ==
    LET edge == Wrap(p.rcv_nxt + p.rcv_wnd)
    IN IF TCP_SEQ_GEQ(edge, Wrap(p.rcv_ann_right_edge + Least(TCP_WND \div 2, TCP_MSS)))
       THEN Wrap(edge - p.rcv_ann_right_edge) ELSE 0

(* tcp_recved: the application has consumed len bytes.                     *)
tcp_recved(p, len) ==
    LET p1 == [p EXCEPT !.rcv_wnd = Least(@ + len, TCP_WND)]
        p2 == tcp_update_rcv_ann_wnd(p1)
    IN IF WndInflation(p1) >= TCP_WND \div 4 THEN tcp_output(tcp_ack_now(p2))
       ELSE [p |-> p2, out |-> <<>>]

-----------------------------------------------------------------------------
(* Input: tcp_receive.  s is the segment that arrived.                     *)

(* The window the peer announces, unless the segment is an old one.        *)
UpdateWindow(p, s) ==
    IF \/ TCP_SEQ_LT(p.snd_wl1, s.seq)
       \/ p.snd_wl1 = s.seq /\ TCP_SEQ_LT(p.snd_wl2, s.ack)
       \/ p.snd_wl2 = s.ack /\ s.wnd > p.snd_wnd
    THEN [p EXCEPT !.snd_wnd = s.wnd, !.snd_wl1 = s.seq, !.snd_wl2 = s.ack,
                   !.persist = @ /\ s.wnd = 0]
    ELSE p

IsDuplicate(p, s, edge) ==
    /\ TCP_TCPLEN(s) = 0 /\ Wrap(p.snd_wl2 + p.snd_wnd) = edge
    /\ p.rtime /\ p.lastack = s.ack

CountDuplicate(p) ==
    [p EXCEPT !.dupacks = Least(@ + 1, DUPACKS + 1),
              !.cwnd = IF p.dupacks >= DUPACKS THEN Cwnd(@ + TCP_MSS) ELSE @]

(* An acknowledgement of nothing new: perhaps a duplicate.                 *)
OldAck(p, s, edge) ==
    IF ~IsDuplicate(p, s, edge) THEN [p EXCEPT !.dupacks = 0]
    ELSE IF p.dupacks + 1 = DUPACKS THEN tcp_rexmit_fast(CountDuplicate(p))
    ELSE CountDuplicate(p)

(* Is the whole of a sent segment acknowledged?                            *)
Covered(u, ack) == TCP_SEQ_LEQ(End(u), ack)

(* An acknowledgement of new data.  ssthresh is at least two segments, so  *)
(* that cwnd grows by a segment below that.  The timer runs on while       *)
(* something is unacknowledged.                                            *)
NewAck(p, s) ==
    LET k == Leading(p.unacked, LAMBDA u : Covered(u, s.ack))
    IN [p EXCEPT !.infr = FALSE, !.dupacks = 0, !.lastack = s.ack,
                 !.cwnd = Cwnd((IF p.infr THEN 2 * TCP_MSS ELSE @) + TCP_MSS),
                 !.unacked = Beyond(@, k), !.rtime = Beyond(p.unacked, k) # <<>>]

(* Segments queued again by a timeout may be acknowledged as well.         *)
AckUnsent(p, s) ==
    LET k == Leading(p.unsent, LAMBDA u : TCP_SEQ_BETWEEN(s.ack, End(u), p.snd_nxt))
    IN [p EXCEPT !.unsent = Beyond(@, k)]

(* The acknowledgement, once the window is updated; edge is the right edge *)
(* before that.                                                            *)
AckData(p, s, edge) ==
    IF TCP_SEQ_LEQ(s.ack, p.lastack) THEN OldAck(p, s, edge)
    ELSE IF TCP_SEQ_BETWEEN(s.ack, Wrap(p.lastack + 1), p.snd_nxt) THEN NewAck(p, s)
    ELSE p

Acknowledge(p, s) ==
    IF s.isack THEN AckUnsent(AckData(UpdateWindow(p, s), s, Wrap(p.snd_wnd + p.snd_wl2)), s) ELSE p

(* pbuf_realloc shortens data and never lengthens it.                      *)
Realloc(s, n) == [s EXCEPT !.len = n, !.data = Upto(@, Least(n, Len(@)))]

(* The queue of segments out of sequence keeps the length the code records *)
(* beside the data.                                                        *)
Queued(s) == [seq |-> s.seq, len |-> Len(s.data), data |-> s.data, fin |-> s.fin]
QLen(c) == c.len + (IF c.fin THEN 1 ELSE 0)

(* tcp_oos_insert_segment: c before the segments next.                     *)
tcp_oos_insert_segment(c, next) ==
    LET k == Leading(next, LAMBDA n : TCP_SEQ_GEQ(Wrap(c.seq + c.len), Wrap(n.seq + n.len)))
        rest == Beyond(next, k)
        cf == [c EXCEPT !.fin = \E i \in 1 .. k : next[i].fin]
    IN IF c.fin THEN <<c>>
       ELSE IF rest # <<>> /\ TCP_SEQ_GT(Wrap(c.seq + c.len), rest[1].seq)
       THEN <<Realloc(cf, Wrap(rest[1].seq - c.seq))>> \o rest
       ELSE <<cf>> \o rest

(* The last segment of the queue or the one before a new one gives way.    *)
TrimBefore(u, seq) ==
    IF TCP_SEQ_GT(Wrap(u.seq + u.len), seq) THEN Realloc(u, Wrap(seq - u.seq)) ELSE u

(* Does a segment queued last reach beyond the receive window?  The code   *)
(* compares the two sums as plain unsigned numbers.                        *)
OverrunsWindow(p, c) == Wrap(QLen(c) + c.seq) > Wrap(p.rcv_nxt + p.rcv_wnd)

(* Queue a segment that is out of sequence.                                *)
QueueOoseq(p, c) ==
    LET q == p.ooseq
        n == Len(q)
        same == {i \in 1 .. n : q[i].seq = c.seq}
        k == Leading(q, LAMBDA u : TCP_SEQ_LT(u.seq, c.seq))
        at == CHOOSE i \in same : TRUE
        fit == IF OverrunsWindow(p, c)
               THEN Realloc([c EXCEPT !.fin = FALSE], Wrap(p.rcv_nxt + p.rcv_wnd - c.seq) % WndSize)
               ELSE c
    IN IF n = 0 THEN <<c>>
       ELSE IF same # {}
       THEN IF c.len > q[at].len THEN Upto(q, at - 1) \o tcp_oos_insert_segment(c, Beyond(q, at - 1)) ELSE q
       ELSE IF k = 0 THEN tcp_oos_insert_segment(c, q)
       ELSE IF k < n
       THEN Upto(q, k - 1) \o <<TrimBefore(q[k], c.seq)>> \o tcp_oos_insert_segment(c, Beyond(q, k))
       ELSE IF q[n].fin THEN q
       ELSE Upto(q, n - 1) \o <<TrimBefore(q[n], c.seq), fit>>

(* Take c, which begins at rcv_nxt.                                        *)
Take(p, c) ==
    tcp_update_rcv_ann_wnd([p EXCEPT !.rcv_nxt = Wrap(@ + QLen(c)),
                                     !.rcv_wnd = (@ - QLen(c)) % WndSize])

(* The segments of ooseq that are now in sequence, after c.                *)
TakeQueued(r) ==
    FoldLeft(LAMBDA a, c :
               IF a.stop \/ c.seq # a.p.rcv_nxt THEN [a EXCEPT !.stop = TRUE]
               ELSE [a EXCEPT !.p = [Take(a.p, c) EXCEPT
                                       !.ooseq = Tail(@),
                                       !.state = IF c.fin /\ @ = "ESTABLISHED" THEN "CLOSE_WAIT" ELSE @],
                              !.data = @ \o c.data, !.fin = @ \/ c.fin],
             [p |-> r.p, data |-> r.data, fin |-> r.fin, stop |-> FALSE], r.p.ooseq)

CutToWindow(p, c) ==
    IF QLen(c) > p.rcv_wnd THEN Realloc([c EXCEPT !.fin = FALSE], p.rcv_wnd) ELSE c

CutToQueue(c, queue) ==
    IF queue # <<>> /\ TCP_SEQ_GT(Wrap(c.seq + QLen(c)), queue[1].seq)
    THEN Realloc(c, Wrap(queue[1].seq - c.seq)) ELSE c

(* Take c, the queue that is left, and what of it c completes.             *)
TakeWith(p, c, queue) ==
    TakeQueued([p |-> [Take(p, c) EXCEPT !.ooseq = queue], data |-> c.data, fin |-> c.fin])

(* c, cut to the window, replaces the k segments of the queue it covers.   *)
TakeCovering(p, c, k) ==
    TakeWith(p, CutToQueue([c EXCEPT !.fin = @ \/ \E i \in 1 .. k : p.ooseq[i].fin], Beyond(p.ooseq, k)),
             Beyond(p.ooseq, k))

CoveredBy(p, c) ==
    IF c.fin THEN Len(p.ooseq)
    ELSE Leading(p.ooseq, LAMBDA n : TCP_SEQ_GEQ(Wrap(c.seq + c.len), Wrap(n.seq + n.len)))

(* A segment that begins at rcv_nxt: cut to the window and to what is      *)
(* queued already, taken, and what it completes with it.                   *)
InSequence(p, c) == TakeCovering(p, c, CoveredBy(p, c))

TrimFront_Kept(p, s) ==
    IF TCP_SEQ_BETWEEN(p.rcv_nxt, Wrap(s.seq + 1), Wrap(s.seq + TCP_TCPLEN(s) - 1))
    THEN [s EXCEPT !.seq = p.rcv_nxt] ELSE s

(* Data the application has had is cut off the front of a segment.         *)
TrimFront(p, s) ==
    IF TCP_SEQ_BETWEEN(p.rcv_nxt, Wrap(s.seq + 1), Wrap(s.seq + TCP_TCPLEN(s) - 1))
    THEN [s EXCEPT !.seq = p.rcv_nxt, !.data = Beyond(@, Wrap(p.rcv_nxt - s.seq))]
    ELSE s

InWindow(p, seq) == TCP_SEQ_BETWEEN(seq, p.rcv_nxt, Wrap(p.rcv_nxt + p.rcv_wnd - 1))

Received(p, out, data, fin) == [p |-> p, out |-> out, data |-> data, fin |-> fin]

(* A segment in sequence ends with tcp_ack, one out of sequence with an    *)
(* acknowledgement sent at once.                                           *)
WithAck(r) == Received(tcp_ack(r.p), <<>>, r.data, r.fin)
AckedAtOnce(r, ooseq) == Received([r.p EXCEPT !.ooseq = ooseq], r.out, <<>>, FALSE)

(* Data or FIN, after its front is trimmed.                                *)
ReceiveData(p, s) ==
    IF ~InWindow(p, s.seq) THEN AckedAtOnce(tcp_send_empty_ack(p), p.ooseq)
    ELSE IF s.seq = p.rcv_nxt THEN WithAck(InSequence(p, CutToWindow(p, Queued(s))))
    ELSE AckedAtOnce(tcp_send_empty_ack(p), QueueOoseq(p, Queued(s)))

(* A segment that begins below rcv_nxt and is not trimmed is a duplicate.  *)
ReceiveTrimmed(p, s, t) ==
    ReceiveData(IF t.seq = s.seq /\ TCP_SEQ_LT(s.seq, p.rcv_nxt) THEN tcp_ack_now(p) ELSE p, t)

Receive(p, s) ==
    IF TCP_TCPLEN(s) > 0 THEN ReceiveTrimmed(p, s, TrimFront(p, s))
    ELSE Received(IF InWindow(p, s.seq) THEN p ELSE tcp_ack_now(p), <<>>, <<>>, FALSE)

(* tcp_receive.                                                            *)
tcp_receive(p, s) == Receive(Acknowledge(p, s), s)
=============================================================================
