------------------------------- MODULE Etharp -------------------------------
(***************************************************************************)
(* The ARP table of lwIP, netif/etharp.c, in tcpip_thread: packets wait on *)
(* the entry of their next hop until its Ethernet address is heard, the    *)
(* entry is recycled or it gets too old.                                   *)
(***************************************************************************)
EXTENDS Naturals, FiniteSets, SequencesExt, FiniteSetsExt

CONSTANTS
    Hosts,              \* next hops: hosts of the local network, its gateway
    ARP_TABLE_SIZE,
    ARP_QUEUE_SIZE,     \* MEMP_NUM_ARP_QUEUE: packets that wait
    ARP_MAXAGE,         \* in periods of etharp_tmr
    ARP_MAXPENDING,
    MaxPackets          \* bound: packets sent in a run

ASSUME EtharpAssumption ==
    /\ {ARP_TABLE_SIZE, ARP_QUEUE_SIZE, ARP_MAXAGE, ARP_MAXPENDING, MaxPackets} \subseteq Nat \ {0}
    /\ ARP_MAXPENDING < ARP_MAXAGE

VARIABLES
    arp_table,              \* index |-> [state, ipaddr, ethaddr, ctime, q]
    etharp_cached_entry,    \* where the last address was found
    given,                  \* packets given to etharp_output: the next is given + 1
    ref,                    \* packet |-> references held by the table
    last,                   \* history: host |-> the last packet sent to it
    astray                  \* history: packets sent late or to another host

arpVars == <<arp_table, etharp_cached_entry, given, ref, last, astray>>

Indices == 1..ARP_TABLE_SIZE
Packets == 1..MaxPackets
\* An Ethernet address is the host it belongs to.
Empty == [state |-> "EMPTY", ipaddr |-> "none", ethaddr |-> "none", ctime |-> 0, q |-> <<>>]

-----------------------------------------------------------------------------
(* The table. *)

InState(table, s) == {i \in Indices : table[i].state = s}

Queued(table) == FoldFunction(LAMBDA e, n : Len(e.q) + n, 0, table)

Match_BeforeFirstEmpty(table, ip) ==
    {i \in Indices : table[i].ipaddr = ip /\ table[i].state # "EMPTY" /\
                     \A j \in 1..i : table[j].state # "EMPTY"}

\* The entries of an address that find_entry returns without further ado.
Match(table, ip) == {i \in Indices : table[i].state # "EMPTY" /\ table[i].ipaddr = ip}

\* The last of the oldest entries of a set.
OldestEntry(table, S) ==
    CHOOSE i \in S : \A j \in S :
        table[j].ctime < table[i].ctime \/ (table[j].ctime = table[i].ctime /\ j <= i)

\* Which entry gives way to a new one: an empty one, or else the oldest of
\* the stable ones, of those that nothing waits for, of the others.
Recycled(table) ==
    LET waiting == {i \in InState(table, "PENDING") : table[i].q # <<>>}
        classes == <<InState(table, "STABLE"), InState(table, "PENDING") \ waiting, waiting>>
        k == CHOOSE k \in 1..3 : classes[k] # {} /\ \A j \in 1..(k - 1) : classes[j] = {}
    IN IF InState(table, "EMPTY") # {}
       THEN Min(InState(table, "EMPTY"))
       ELSE OldestEntry(table, classes[k])

\* find_entry: an index, 0 if there is none.  hard is ETHARP_FLAG_TRY_HARD,
\* else the flag is ETHARP_FLAG_FIND_ONLY.
find_entry(table, ip, hard) ==
    IF Match(table, ip) # {} THEN Min(Match(table, ip))
    ELSE IF hard THEN Recycled(table) ELSE 0

\* What find_entry makes of entry i: as it is, or new for ip.
EntryFor(table, i, ip) ==
    IF Match(table, ip) # {} THEN table[i] ELSE [Empty EXCEPT !.ipaddr = ip]

\* Where packet p waits, in the queues of the entries S: entry and place.
Places(table, S, p) ==
    {w \in UNION {{i} \X DOMAIN table[i].q : i \in S} : table[w[1]].q[w[2]] = p}

Release_FirstOnly(refs, table, S) ==
    [p \in Packets |-> refs[p] - Cardinality({w \in Places(table, S, p) : w[2] = 1})]

\* free_etharp_q for each entry of S: every packet of the queue is freed.
Release(refs, table, S) ==
    [p \in Packets |-> refs[p] - Cardinality(Places(table, S, p))]

\* The references after find_entry: those of an entry that gave way are gone.
RefsFor(table, i, ip) ==
    IF Match(table, ip) # {} THEN ref ELSE Release(ref, table, {i})

-----------------------------------------------------------------------------
(* Sending. *)

\* Packets for ip, in frames to address: the history of what is sent.
Send(q, ip, address) ==
    /\ last' = [last EXCEPT ![ip] = IF q = <<>> THEN @ ELSE Last(q)]
    /\ astray' = astray \cup
          {q[k] : k \in {k \in 1..Len(q) :
                            \/ address # ip
                            \/ q[k] < last[ip] \/ \E j \in 1..(k - 1) : q[k] < q[j]}}

CacheHit_AnyEntry(ip) == arp_table[etharp_cached_entry].state = "STABLE"

\* The entry used last is stable and of this address.
CacheHit(ip) ==
    /\ arp_table[etharp_cached_entry].state = "STABLE"
    /\ arp_table[etharp_cached_entry].ipaddr = ip

Renewed_ByRequest(entry) == [entry EXCEPT !.state = "PENDING", !.ctime = 0]

\* An entry about which a request is sent.
Renewed(entry) == [entry EXCEPT !.state = IF @ = "EMPTY" THEN "PENDING" ELSE @]

\* etharp_query without a packet: ask, and remember that.
Ask(ip) ==
    LET i == find_entry(arp_table, ip, TRUE)
        e == EntryFor(arp_table, i, ip)
    IN /\ arp_table' = [arp_table EXCEPT ![i] = IF e.state = "STABLE" THEN e ELSE Renewed(e)]
       /\ ref' = RefsFor(arp_table, i, ip)
       /\ UNCHANGED <<etharp_cached_entry, given, last, astray>>

\* etharp_output and etharp_query with a packet, which its sender frees
\* afterwards.  A copy may fail for want of memory.
Output(ip) ==
    LET p == given + 1
        i == find_entry(arp_table, ip, TRUE)
        e == EntryFor(arp_table, i, ip)
        refs == RefsFor(arp_table, i, ip)
        pending == Renewed(e)
        rest == [arp_table EXCEPT ![i] = pending]
    IN /\ given < MaxPackets
       /\ given' = p
       /\ \/ /\ CacheHit(ip)
             /\ Send(<<p>>, ip, arp_table[etharp_cached_entry].ethaddr)
             /\ UNCHANGED <<arp_table, etharp_cached_entry, ref>>
          \/ /\ ~CacheHit(ip) /\ e.state = "STABLE"
             /\ Send(<<p>>, ip, e.ethaddr)
             /\ etharp_cached_entry' = i
             /\ UNCHANGED <<arp_table, ref>>
          \/ /\ ~CacheHit(ip) /\ e.state # "STABLE"
             /\ \/ /\ Queued(rest) < ARP_QUEUE_SIZE
                   /\ arp_table' = [rest EXCEPT ![i].q = Append(@, p)]
                   /\ ref' = [refs EXCEPT ![p] = 1]
                \/ arp_table' = rest /\ ref' = refs
             /\ UNCHANGED <<etharp_cached_entry, last, astray>>

-----------------------------------------------------------------------------
(* Receiving. *)

\* etharp_arp_input: update_arp_entry with the sender's addresses.  A message
\* for us makes an entry, any other updates one.  What waited for the address
\* is sent and freed; so is what waited on an entry that gives way, unsent.
ArpInput(ip, address, for_us) ==
    LET i == find_entry(arp_table, ip, for_us)
        e == EntryFor(arp_table, i, ip)
    IN /\ i # 0
       /\ arp_table' = [arp_table EXCEPT
             ![i] = [e EXCEPT !.state = "STABLE", !.ethaddr = address, !.ctime = 0, !.q = <<>>]]
       /\ ref' = Release(ref, arp_table, {i})
       /\ Send(e.q, ip, address)
       /\ UNCHANGED <<etharp_cached_entry, given>>

-----------------------------------------------------------------------------
(* Time. *)

\* An entry a period older.
Aged(e) == [e EXCEPT !.ctime = @ + 1]

\* Entries that etharp_tmr frees.
TooOld(e) ==
    /\ e.state # "EMPTY"
    /\ \/ e.ctime + 1 >= ARP_MAXAGE
       \/ e.state = "PENDING" /\ e.ctime + 1 >= ARP_MAXPENDING

\* etharp_tmr, every five seconds.
etharp_tmr ==
    LET old == {i \in Indices : TooOld(arp_table[i])}
    IN /\ arp_table' = [i \in Indices |->
             IF i \in old THEN Empty
             ELSE IF arp_table[i].state = "EMPTY" THEN arp_table[i] ELSE Aged(arp_table[i])]
       /\ ref' = Release(ref, arp_table, old)
       /\ UNCHANGED <<etharp_cached_entry, given, last, astray>>

-----------------------------------------------------------------------------
ArpInit ==
    /\ arp_table = [i \in Indices |-> Empty]
    /\ etharp_cached_entry = 1
    /\ given = 0
    /\ ref = [p \in Packets |-> 0]
    /\ last = [ip \in Hosts |-> 0]
    /\ astray = {}

ArpNext ==
    \/ \E ip \in Hosts : Output(ip) \/ Ask(ip)
    \/ \E ip \in Hosts, for_us \in BOOLEAN : ArpInput(ip, ip, for_us)
    \/ etharp_tmr

\* The timer of tcpip_thread runs again and again (SysTimeouts).
ArpSpec == ArpInit /\ [][ArpNext]_arpVars /\ WF_arpVars(etharp_tmr)

-----------------------------------------------------------------------------
(* Properties. *)

EntryType == [state : {"EMPTY", "PENDING", "STABLE"}, ipaddr : Hosts \cup {"none"},
              ethaddr : Hosts \cup {"none"}, ctime : 0..ARP_MAXAGE - 1, q : Seq(Packets)]

ArpTypeOK ==
    /\ arp_table \in [Indices -> EntryType]
    /\ etharp_cached_entry \in Indices
    /\ given \in 0..MaxPackets
    /\ ref \in [Packets -> Nat]
    /\ last \in [Hosts -> 0..MaxPackets]
    /\ astray \subseteq Packets

\* An address has one entry, though entries are freed, recycled and made in
\* any order: two would split a queue or answer with an old address
\* (etharp.c:283-396).
OneEntryPerHost ==
    \A i, j \in Indices :
        arp_table[i].state # "EMPTY" /\ arp_table[j].state # "EMPTY" /\
        arp_table[i].ipaddr = arp_table[j].ipaddr => i = j

\* Packets wait on pending entries only, as find_entry asserts when it
\* recycles a stable one (etharp.c:361): nothing would ever send the others.
QueuesArePending == \A i \in Indices : arp_table[i].q # <<>> => arp_table[i].state = "PENDING"

\* What the table says of a host can be relied on (etharp.c:283-409).
ArpTableSound == OneEntryPerHost /\ QueuesArePending

\* A packet is referenced as often as it waits: whether it is sent, recycled,
\* too old or refused, it is freed once (etharp.c:147, 169, 507, 1034-1092).
RefsExact == \A p \in Packets : ref[p] = Cardinality(Places(arp_table, Indices, p))

\* Packets for a host leave in the order they were given, those that waited
\* and those that did not (etharp.c:487-508, 1058-1069), and to its address:
\* the remembered index may point to the entry of another host by now
\* (etharp.c:902-908).
SentInOrderToTheirHost == astray = {}

\* No packet waits for ever, however often its host is asked for in vain: a
\* new request does not make the entry young again (etharp.c:209-233, 984-1007).
NoPacketWaitsForEver ==
    \A p \in Packets : ref[p] > 0 ~> ref[p] = 0
=============================================================================
