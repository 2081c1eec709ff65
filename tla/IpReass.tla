------------------------------ MODULE IpReass ------------------------------
(***************************************************************************)
(* The reassembly of IP datagrams in lwIP, core/ipv4/ip_frag.c, in         *)
(* tcpip_thread.  Fragments come from the network lost, repeated, cut      *)
(* differently and in any order; the memory for them is limited.           *)
(*                                                                         *)
(* Lengths are counted in units of one pbuf.  Every fragment of a datagram *)
(* knows the same end of it, so datagram_len needs no variable.            *)
(***************************************************************************)
EXTENDS Naturals, FiniteSets, SequencesExt, FiniteSetsExt

CONSTANTS
    Datagrams,          \* source, destination and identification
    Length,             \* units in a datagram
    NumReassData,       \* MEMP_NUM_REASSDATA
    IP_REASS_MAX_PBUFS,
    IP_REASS_MAXAGE     \* in periods of ip_reass_tmr

ASSUME IpReassAssumption ==
    /\ {Length, NumReassData, IP_REASS_MAX_PBUFS} \subseteq Nat \ {0}
    /\ IP_REASS_MAXAGE \in Nat

VARIABLES
    reassdatagrams,     \* sequence of ip_reassdata
    ip_reass_pbufcount,
    stray,              \* an entry was freed and is in the list still
    out                 \* what the last step returned: <<>>, or a datagram

reassVars == <<reassdatagrams, ip_reass_pbufcount, stray, out>>

\* Units start .. end - 1; the last fragment has no IP_MF.  One that is
\* first and last is no fragment.
Fragments ==
    {f \in [start : 0..Length - 1, end : 1..Length] :
        f.start < f.end /\ ~(f.start = 0 /\ f.end = Length)}
IsLast(f) == f.end = Length

RECURSIVE pbuf_clen(_)
pbuf_clen(frags) ==
    IF frags = <<>> THEN 0 ELSE frags[1].end - frags[1].start + pbuf_clen(Tail(frags))

\* The pbufs of a sequence of entries.
RECURSIVE Pbufs(_)
Pbufs(list) == IF list = <<>> THEN 0 ELSE pbuf_clen(list[1].frags) + Pbufs(Tail(list))

\* The functions below map this to the same.
Queue == [list |-> reassdatagrams, count |-> ip_reass_pbufcount, stray |-> stray]

-----------------------------------------------------------------------------
(* Entries leave. *)

\* ip_reass_dequeue_datagram: entry i, said to be behind entry prev.  If it is
\* not, the list keeps an entry that is freed.
ip_reass_dequeue_datagram(q, i, prev) ==
    IF i = 1 \/ prev = i - 1 THEN [q EXCEPT !.list = RemoveAt(@, i)]
    ELSE [q EXCEPT !.stray = TRUE]

\* Its pbufs go first.
ip_reass_free_complete_datagram(q, i, prev) ==
    [ip_reass_dequeue_datagram(q, i, prev) EXCEPT !.count = @ - pbuf_clen(q.list[i].frags)]

\* The datagrams that remove_oldest may free, and the last of the oldest.
Others(q, id) == {i \in DOMAIN q.list : q.list[i].id # id}
OldestDatagram(q, id) ==
    CHOOSE i \in Others(q, id) : \A j \in Others(q, id) :
        \/ q.list[i].timer < q.list[j].timer
        \/ q.list[i].timer = q.list[j].timer /\ j <= i

\* ip_reass_remove_oldest_datagram.  prev is the last entry but one of the
\* whole list.
RECURSIVE ip_reass_remove_oldest_datagram(_, _, _)
ip_reass_remove_oldest_datagram(q, id, needed) ==
    IF Others(q, id) = {} THEN q
    ELSE LET i == OldestDatagram(q, id)
             rest == ip_reass_free_complete_datagram(q, i, Len(q.list) - 1)
             freed == q.count - rest.count
         IN IF freed < needed /\ Cardinality(Others(q, id)) > 1 /\ ~rest.stray
            THEN ip_reass_remove_oldest_datagram(rest, id, needed - freed)
            ELSE rest

PbufsFreed_HeadKept(late) == Pbufs([i \in DOMAIN late |-> [late[i] EXCEPT !.frags = Tail(@)]])

\* The pbufs of entries that time out, the first fragment's among them, which
\* is freed apart for an ICMP message.
PbufsFreed(late) == Pbufs(late)

Late(r) == r.timer = 0
InTime(r) == r.timer > 0

\* ip_reass_tmr, every second.
ip_reass_tmr ==
    LET kept == SelectSeq(reassdatagrams, InTime)
    IN /\ ~stray
       /\ reassdatagrams' = [i \in DOMAIN kept |-> [kept[i] EXCEPT !.timer = @ - 1]]
       /\ ip_reass_pbufcount' =
              ip_reass_pbufcount - PbufsFreed(SelectSeq(reassdatagrams, Late))
       /\ out' = <<>>
       /\ UNCHANGED stray

-----------------------------------------------------------------------------
(* A fragment arrives. *)

Find(q, id) == {i \in DOMAIN q.list : q.list[i].id = id}

\* ip_reass_enqueue_new_datagram.  q is as it was if there is no memory for
\* the entry, but for what was freed in vain.
ip_reass_enqueue_new_datagram(q, id, f) ==
    LET clen == f.end - f.start
        new == [id |-> id, frags |-> <<>>, last |-> FALSE, first |-> f.start = 0,
                timer |-> IP_REASS_MAXAGE]
        room == IF Len(q.list) < NumReassData THEN q
                ELSE ip_reass_remove_oldest_datagram(q, id, clen)
        freed == q.count - room.count
    IN IF Len(q.list) < NumReassData \/ freed >= clen
       THEN [room EXCEPT !.list = <<new>> \o @]
       ELSE room

\* Where f goes: before the first fragment that it does not lie behind.
Place(frags, f) ==
    LET behind == {i \in DOMAIN frags : f.start < frags[i].end}
    IN IF behind = {} THEN Len(frags) + 1 ELSE Min(behind)

\* f is thrown away: it overlaps with the fragment at i.  The head of the list
\* is not looked at when f goes before it.
Overlap(frags, i, f) ==
    /\ i <= Len(frags)
    /\ frags[i].start <= f.start \/ (i > 1 /\ f.end > frags[i].start)

\* The gap before a fragment put between two others is not looked at.
Unchecked(frags, i) == IF i < Len(frags) THEN {i - 1} ELSE {}

\* The fragments, the one at i new, make a datagram whose last is known.
Validated(frags, i) ==
    /\ frags[1].start = 0
    /\ \A j \in (1..Len(frags) - 1) \ Unchecked(frags, i) : frags[j].end = frags[j + 1].start

Entered_Refreshed(entry, f) ==
    [entry EXCEPT !.first = @ \/ f.start = 0, !.last = @ \/ IsLast(f),
                  !.timer = IP_REASS_MAXAGE]

\* What f does to the entry before its pbufs are looked at: the header of the
\* first fragment is kept, the last is noticed.
Entered(entry, f) == [entry EXCEPT !.first = @ \/ f.start = 0, !.last = @ \/ IsLast(f)]

\* ip_reass_chain_frag_into_datagram_and_validate and what ip_reass makes of
\* its result, for the datagram at index k.  A fragment thrown away is not
\* counted.
Chain(q, k, f) ==
    LET entry == Entered(q.list[k], f)
        i == Place(entry.frags, f)
        frags == InsertAt(entry.frags, i, f)
        known == [q EXCEPT !.list[k] = entry]
        longer == [q EXCEPT !.list[k] = [entry EXCEPT !.frags = frags],
                            !.count = @ + f.end - f.start]
        done == [ip_reass_dequeue_datagram(longer, k, k - 1) EXCEPT !.count = @ - pbuf_clen(frags)]
    IN IF Overlap(entry.frags, i, f)
       THEN [queue |-> known, out |-> <<>>]
       ELSE IF entry.last /\ Validated(frags, i)
       THEN [queue |-> done, out |-> <<[first |-> entry.first, frags |-> frags]>>]
       ELSE [queue |-> longer, out |-> <<>>]

Returns(q, datagram) ==
    /\ reassdatagrams' = q.list /\ ip_reass_pbufcount' = q.count /\ stray' = q.stray
    /\ out' = datagram

\* ip_reass; without room for its pbufs or an entry the fragment is dropped.
ip_reass(id, f) ==
    LET clen == f.end - f.start
        full(q) == q.count + clen > IP_REASS_MAX_PBUFS
        q1 == IF full(Queue) THEN ip_reass_remove_oldest_datagram(Queue, id, clen) ELSE Queue
        q2 == IF Find(q1, id) = {} THEN ip_reass_enqueue_new_datagram(q1, id, f) ELSE q1
        chained == Chain(q2, CHOOSE k \in Find(q2, id) : TRUE, f)
    IN /\ ~stray
       /\ IF q1.stray \/ full(q1) THEN Returns(q1, <<>>)
          ELSE IF Find(q2, id) = {} THEN Returns(q2, <<>>)
          ELSE Returns(chained.queue, chained.out)

-----------------------------------------------------------------------------
ReassInit ==
    /\ reassdatagrams = <<>> /\ ip_reass_pbufcount = 0
    /\ stray = FALSE /\ out = <<>>

\* The model ends where the list holds an entry that is freed.
ReassNext == ip_reass_tmr \/ \E id \in Datagrams, f \in Fragments : ip_reass(id, f)

\* The timer of tcpip_thread runs again and again (SysTimeouts).
ReassSpec == ReassInit /\ [][ReassNext]_reassVars /\ WF_reassVars(ip_reass_tmr)

-----------------------------------------------------------------------------
(* Properties. *)

ReassTypeOK ==
    /\ reassdatagrams \in Seq([id : Datagrams, frags : Seq(Fragments), last : BOOLEAN,
                               first : BOOLEAN, timer : 0..IP_REASS_MAXAGE])
    /\ Len(reassdatagrams) <= NumReassData
    /\ ip_reass_pbufcount \in 0..IP_REASS_MAX_PBUFS
    /\ stray \in BOOLEAN /\ Len(out) <= 1

\* The pbufs counted are those that wait, one entry for each datagram: memory
\* limited by the count is neither leaked nor exceeded, on all the ways a
\* fragment or an entry goes (ip_frag.c:122-259, 461-465, 500-516, 553-600).
CountExact ==
    /\ ~stray => ip_reass_pbufcount = Pbufs(reassdatagrams)
    /\ \A i, j \in DOMAIN reassdatagrams :
           reassdatagrams[i].id = reassdatagrams[j].id => i = j

Contiguous(frags) == \A j \in 1..Len(frags) - 1 : frags[j].end = frags[j + 1].start
Complete(frags) == frags[1].start = 0 /\ IsLast(Last(frags)) /\ Contiguous(frags)

\* A datagram does not wait, and then time out, once its fragments have all
\* been kept, whatever their order and whatever repeated or overlapping ones
\* were thrown away between them (ip_frag.c:354-449, 557-564).
NoneCompleteWaits ==
    \A i \in DOMAIN reassdatagrams :
        ~stray => reassdatagrams[i].frags # <<>> /\ ~Complete(reassdatagrams[i].frags)

\* A datagram that is handed on begins with its first fragment and with that
\* one's header, and its pieces do not overlap (ip_frag.c:363, 379, 424, 541-548).
DeliveredInOrder ==
    \A k \in DOMAIN out :
        LET frags == out[k].frags
        IN /\ out[k].first /\ frags[1].start = 0
           /\ \A j \in 1..Len(frags) - 1 : frags[j].end <= frags[j + 1].start

\* The queue of datagrams is kept as it should be, whatever comes in whatever
\* order (ip_frag.c:122-613).
ReassSound == CountExact /\ NoneCompleteWaits /\ DeliveredInOrder

\* "if still valid, all fragments are received" (ip_frag.c:441): a datagram
\* that is handed on has no holes.
DeliveredWhole == \A k \in DOMAIN out : Contiguous(out[k].frags)

\* "datagram end!=datagram len" (ip_frag.c:446): a datagram that is handed on
\* is as long as its last fragment says.
DeliveredToTheEnd == \A k \in DOMAIN out : IsLast(Last(out[k].frags))

\* "prev->next == ipr" (ip_frag.c:167): no entry is freed that the list goes on
\* to hold.
NoneFreedInList == ~stray

Waits(id) == Find(Queue, id) # {}

\* Every entry goes some time, however many fragments keep coming: a sender of
\* pieces cannot hold the memory for ever (ip_frag.c:122-146, 285-286).
EveryEntryGoes == \A id \in Datagrams : Waits(id) ~> (~Waits(id) \/ stray)
=============================================================================
