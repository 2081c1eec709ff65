------------------------------ MODULE IpProofs ------------------------------
(***************************************************************************)
(* The ARP table and the DHCP client, each a component of its own: nothing *)
(* in the proofs about one mentions the other.                             *)
(*                                                                         *)
(* The ARP table keeps one entry for an address and packets on pending     *)
(* entries only, counts its references exactly and sends packets in order  *)
(* to their host, for any number of hosts, entries and packets.            *)
(*                                                                         *)
(* One inductive invariant, ArpInv, carries the three theorems.  The order *)
(* of what is sent rests on the table: a packet that need not wait would   *)
(* overtake those that do if its host had a second, pending, entry.  The   *)
(* references rest on the order: a packet is queued once because every     *)
(* packet that waits was given before it.                                  *)
(*                                                                         *)
(* The DHCP client has the address it uses leased, for any lease that is   *)
(* long enough; it is never left without a timer; and its types hold: for  *)
(* any addresses, times, numbers of tries and widths of the counters.      *)
(*                                                                         *)
(* One inductive invariant, ClientInv, carries the three theorems.  It is  *)
(* stated of worlds, as the functions of the client map worlds to worlds:  *)
(* each of them gets a lemma, and each action composes a few.  The lease   *)
(* rests on a race: the server's lease and the rebinding timer run down    *)
(* together, and the lease starts at least four ticks ahead.  Two of them  *)
(* are lost before the address is bound, one while the ACK is late and one *)
(* while the address is probed; two are left when the timer runs out, and  *)
(* REBINDING, at most one tick, ends before them.                          *)
(***************************************************************************)
EXTENDS Etharp, Dhcp, FiniteSetTheorems, WellFoundedInduction, TLAPS

-----------------------------------------------------------------------------
(* Numbers.                                                                 *)

(* A set of numbers that is not empty has a least one.  The sets 0..n of its *)
(* elements n have a minimal one among them.                                *)
LEMMA LeastNumber ==
    ASSUME NEW S \in SUBSET Nat, S # {}
    PROVE  \E m \in S : \A n \in S : m <= n
<1> DEFINE below == {0..n : n \in S}
<1>1. below \in SUBSET FiniteSubsetsOf(Nat) /\ below # {}
    <2>1. \A n \in S : 0..n \in FiniteSubsetsOf(Nat)
        BY FS_Interval DEF FiniteSubsetsOf
    <2> QED BY <2>1
<1>2. PICK x \in below : \A y \in below : <<y, x>> \notin StrictSubsetOrdering(Nat)
    <2>1. IsWellFoundedOn(StrictSubsetOrdering(Nat), FiniteSubsetsOf(Nat))
        BY FS_StrictSubsetOrderingWellFounded
    <2> HIDE DEF below
    <2> QED BY <1>1, <2>1, WFMin
<1>3. PICK m \in S : x = 0..m
    OBVIOUS
<1>4. ASSUME NEW n \in S, n < m PROVE FALSE
    <2>1. 0..n \subseteq 0..m /\ 0..n # 0..m
        <3>1. m \in 0..m /\ m \notin 0..n
            BY <1>4
        <3>2. n \in Nat /\ m \in Nat
            OBVIOUS
        <3>3. 0..n \subseteq 0..m
            BY <1>4, <3>2
        <3> QED BY <3>1, <3>3
    <2>2. <<0..n, x>> \in StrictSubsetOrdering(Nat)
        <3>1. <<0..n, 0..m>> \in (SUBSET Nat) \X (SUBSET Nat)
            OBVIOUS
        <3> QED BY <1>3, <2>1, <3>1 DEF StrictSubsetOrdering
    <2> QED BY <1>2, <2>2
<1> QED BY <1>4

LEMMA MinInSet ==
    ASSUME NEW S \in SUBSET Nat, S # {}
    PROVE  Min(S) \in S
BY LeastNumber DEF Min

-----------------------------------------------------------------------------
(* The entry that find_entry chooses.                                       *)

IsTable(table) == table \in [Indices -> EntryType]

LEMMA IndexFacts == Indices # {} /\ Indices \subseteq Nat /\ 0 \notin Indices
                    /\ ARP_MAXAGE \in Nat \ {0} /\ ARP_TABLE_SIZE \in Nat \ {0}
                    /\ MaxPackets \in Nat \ {0} /\ ARP_MAXPENDING \in Nat \ {0}
<1>1. ARP_TABLE_SIZE \in Nat \ {0} /\ ARP_MAXAGE \in Nat \ {0} /\ MaxPackets \in Nat \ {0}
      /\ ARP_MAXPENDING \in Nat \ {0}
    BY EtharpAssumption DEF EtharpAssumption
<1> QED BY <1>1 DEF Indices

(* There is an oldest entry in a set that is not empty, and a last one of   *)
(* those as old.                                                            *)
LEMMA OldestInSet ==
    ASSUME NEW table, IsTable(table), NEW S \in SUBSET Indices, S # {}
    PROVE  OldestEntry(table, S) \in S
<1> DEFINE youth(i) == ARP_MAXAGE - table[i].ctime
<1> DEFINE ages == {youth(i) : i \in S}
<1>1. \A i \in S : youth(i) \in Nat /\ table[i].ctime \in Nat
    BY IndexFacts DEF IsTable, EntryType
<1>2. PICK m \in ages : \A n \in ages : m <= n
    <2>1. ages \in SUBSET Nat /\ ages # {}
        BY <1>1
    <2> HIDE DEF ages
    <2> QED BY <2>1, LeastNumber
<1> DEFINE eldest == {i \in S : youth(i) = m}
<1> DEFINE rest == {ARP_TABLE_SIZE - i : i \in eldest}
<1>3. PICK r \in rest : \A n \in rest : r <= n
    <2>1. rest \in SUBSET Nat /\ rest # {}
        BY IndexFacts DEF Indices
    <2> HIDE DEF rest
    <2> QED BY <2>1, LeastNumber
<1>4. PICK i \in eldest : r = ARP_TABLE_SIZE - i
    BY <1>3
<1>5. i \in S /\ youth(i) = m
    OBVIOUS
<1>6. ASSUME NEW j \in S
      PROVE  table[j].ctime < table[i].ctime \/ (table[j].ctime = table[i].ctime /\ j <= i)
    <2>1. m <= youth(j)
        BY <1>2
    <2>2. CASE youth(j) = m
        <3>1. ARP_TABLE_SIZE - j \in rest
            BY <2>2
        <3>2. ARP_TABLE_SIZE - i <= ARP_TABLE_SIZE - j
            BY <1>3, <1>4, <3>1
        <3>3. j <= i
            BY <3>2, IndexFacts, <1>5 DEF Indices
        <3> QED BY <1>1, <1>5, <2>2, <3>3, IndexFacts
    <2>3. CASE youth(j) # m
        <3>1. youth(i) < youth(j)
            BY <1>1, <1>5, <2>1, <2>3
        <3> QED BY <1>1, <3>1, IndexFacts, <1>5
    <2> QED BY <2>2, <2>3
<1> HIDE DEF eldest, rest, ages, youth
<1> QED BY <1>5, <1>6 DEF OldestEntry

LEMMA RecycledIsIndex ==
    ASSUME NEW table, IsTable(table)
    PROVE  Recycled(table) \in Indices
<1> DEFINE empty == InState(table, "EMPTY")
           waiting == {i \in InState(table, "PENDING") : table[i].q # <<>>}
           classes == <<InState(table, "STABLE"), InState(table, "PENDING") \ waiting, waiting>>
           k == CHOOSE k \in 1..3 : classes[k] # {} /\ \A j \in 1..(k - 1) : classes[j] = {}
<1>1. CASE empty # {}
    <2>1. empty \in SUBSET Nat /\ empty \subseteq Indices
        BY IndexFacts DEF InState
    <2>2. Min(empty) \in Indices
        BY <1>1, <2>1, MinInSet
    <2> QED BY <1>1, <2>2 DEF Recycled
<1>2. CASE empty = {}
    <2>1. \E n \in 1..3 : classes[n] # {} /\ \A j \in 1..(n - 1) : classes[j] = {}
        <3>1. classes[1] \cup classes[2] \cup classes[3] = Indices
            BY <1>2 DEF IsTable, EntryType, InState
        <3>2. CASE classes[1] # {}
            BY <3>2
        <3>3. CASE classes[1] = {} /\ classes[2] # {}
            <4> HIDE DEF classes
            <4> QED BY <3>3
        <3>4. CASE classes[1] = {} /\ classes[2] = {}
            <4>1. classes[3] # {}
                BY <3>1, <3>4, IndexFacts
            <4> HIDE DEF classes
            <4> QED BY <3>4, <4>1
        <3> QED BY <3>2, <3>3, <3>4
    <2>2. k \in 1..3 /\ classes[k] # {}
        <3> HIDE DEF classes
        <3> QED BY <2>1
    <2>3. classes[k] \subseteq Indices
        <3>1. k = 1 \/ k = 2 \/ k = 3
            <4> HIDE DEF k
            <4> QED BY <2>2
        <3>2. classes[1] \subseteq Indices /\ classes[2] \subseteq Indices
              /\ classes[3] \subseteq Indices
            BY DEF InState
        <3> HIDE DEF classes, k
        <3> QED BY <3>1, <3>2
    <2>4. OldestEntry(table, classes[k]) \in Indices
        <3> HIDE DEF classes, k
        <3> QED BY <2>2, <2>3, OldestInSet
    <2>5. Recycled(table) = OldestEntry(table, classes[k])
        BY <1>2 DEF Recycled
    <2> QED BY <2>4, <2>5
<1> QED BY <1>1, <1>2

(* find_entry returns the entry of the address if there is one.  Otherwise  *)
(* it returns an entry to use if it may, and none if it may not.            *)
LEMMA FoundEntry ==
    ASSUME NEW table, IsTable(table), NEW ip, NEW hard \in BOOLEAN
    PROVE  LET i == find_entry(table, ip, hard)
           IN /\ Match(table, ip) # {} => i \in Match(table, ip) /\ i \in Indices
              /\ hard => i \in Indices
              /\ i # 0 => i \in Indices
<1>1. Match(table, ip) \in SUBSET Nat /\ Match(table, ip) \subseteq Indices
    BY IndexFacts DEF Match
<1>2. Match(table, ip) # {} => Min(Match(table, ip)) \in Match(table, ip)
    BY <1>1, MinInSet
<1> QED BY <1>1, <1>2, RecycledIsIndex DEF find_entry

-----------------------------------------------------------------------------
(* The references to the packets that wait.                                 *)

IsRefs(table, refs) ==
    /\ refs \in [Packets -> Nat]
    /\ \A p \in Packets : refs[p] = Cardinality(Places(table, Indices, p))

(* The queues are no longer than the packets are many. *)
ShortQueues(table) == \A i \in Indices : Len(table[i].q) <= MaxPackets

(* A packet is at place k of the queue of entry i. *)
IsAt(table, p, i, k) == k \in 1..Len(table[i].q) /\ table[i].q[k] = p

LEMMA PlacesAre ==
    ASSUME NEW table, IsTable(table), NEW S, S \subseteq Indices, NEW p
    PROVE  Places(table, S, p) = {w \in S \X Nat : IsAt(table, p, w[1], w[2])}
<1>1. \A i \in S : DOMAIN table[i].q = 1..Len(table[i].q) /\ Len(table[i].q) \in Nat
    BY DEF IsTable, EntryType
<1>2. ASSUME NEW w, w \in Places(table, S, p)
      PROVE  w \in S \X Nat /\ IsAt(table, p, w[1], w[2])
    <2>1. PICK i \in S : w \in {i} \X DOMAIN table[i].q /\ table[w[1]].q[w[2]] = p
        BY <1>2 DEF Places
    <2> QED BY <1>1, <2>1 DEF IsAt
<1>3. ASSUME NEW w \in S \X Nat, IsAt(table, p, w[1], w[2])
      PROVE  w \in Places(table, S, p)
    <2>1. w[1] \in S /\ w \in {w[1]} \X DOMAIN table[w[1]].q /\ table[w[1]].q[w[2]] = p
        BY <1>1, <1>3 DEF IsAt
    <2> QED BY <2>1 DEF Places
<1> QED BY <1>2, <1>3

LEMMA PlacesFinite ==
    ASSUME NEW table, IsTable(table), ShortQueues(table), NEW S, S \subseteq Indices, NEW p
    PROVE  IsFiniteSet(Places(table, S, p)) /\ Cardinality(Places(table, S, p)) \in Nat
<1>1. IsFiniteSet(Indices) /\ IsFiniteSet(1..MaxPackets)
    BY IndexFacts, FS_Interval DEF Indices
<1>2. IsFiniteSet(Indices \X (1..MaxPackets))
    BY <1>1, FS_Product
<1>3. \A i \in Indices : Len(table[i].q) \in Nat
    BY DEF IsTable, EntryType
<1>4. Places(table, S, p) \in SUBSET (Indices \X (1..MaxPackets))
    <2>1. \A i \in Indices, k \in Nat : IsAt(table, p, i, k) => k \in 1..MaxPackets
        BY <1>3, IndexFacts DEF ShortQueues, IsAt
    <2>2. Places(table, S, p) = {w \in S \X Nat : IsAt(table, p, w[1], w[2])}
        BY PlacesAre
    <2> QED BY <2>1, <2>2
<1>5. IsFiniteSet(Places(table, S, p))
    BY <1>2, <1>4, FS_Subset
<1> QED BY <1>5, FS_CardinalityType

(* The references stay exact when queues are released. *)
LEMMA ReleaseExact ==
    ASSUME NEW table, IsTable(table), ShortQueues(table), NEW refs, IsRefs(table, refs),
           NEW S \in SUBSET Indices, NEW after, IsTable(after),
           \A i \in Indices : after[i].q = IF i \in S THEN <<>> ELSE table[i].q
    PROVE  IsRefs(after, Release(refs, table, S))
<1> SUFFICES ASSUME NEW p \in Packets
             PROVE  /\ refs[p] - Cardinality(Places(table, S, p)) \in Nat
                    /\ refs[p] - Cardinality(Places(table, S, p))
                       = Cardinality(Places(after, Indices, p))
    BY DEF IsRefs, Release
<1> DEFINE gone == Places(table, S, p)
           left == Places(after, Indices, p)
           all == Places(table, Indices, p)
<1>0. /\ all = {w \in Indices \X Nat : IsAt(table, p, w[1], w[2])}
      /\ gone = {w \in S \X Nat : IsAt(table, p, w[1], w[2])}
      /\ left = {w \in Indices \X Nat : IsAt(after, p, w[1], w[2])}
    BY PlacesAre
<1>1. \A i \in Indices, k \in Nat : IsAt(after, p, i, k) <=> i \notin S /\ IsAt(table, p, i, k)
    BY DEF IsAt
<1>2. left = all \ gone /\ all \cap gone = gone
    <2> HIDE DEF all, gone, left
    <2> QED BY <1>0, <1>1
<1>3. IsFiniteSet(all) /\ IsFiniteSet(gone) /\ Cardinality(all) \in Nat
      /\ Cardinality(gone) \in Nat
    BY PlacesFinite
<1> HIDE DEF gone, left, all
<1>5. IsFiniteSet(left) /\ Cardinality(left) = Cardinality(all) - Cardinality(gone)
    BY <1>2, <1>3, FS_Difference
<1>6. Cardinality(left) \in Nat
    BY <1>5, FS_CardinalityType
<1>7. refs[p] = Cardinality(all)
    BY DEF IsRefs, all
<1> QED BY <1>3, <1>5, <1>6, <1>7 DEF gone, left

(* They stay exact when a packet that waits nowhere is queued. *)
LEMMA AppendExact ==
    ASSUME NEW table, IsTable(table), NEW refs, IsRefs(table, refs),
           NEW i \in Indices, NEW p \in Packets,
           \A j \in Indices, k \in 1..MaxPackets : k <= Len(table[j].q) => table[j].q[k] # p,
           ShortQueues(table), 
           NEW after, IsTable(after), after[i].q = Append(table[i].q, p),
           \A j \in Indices \ {i} : after[j].q = table[j].q
    PROVE  IsRefs(after, [refs EXCEPT ![p] = 1])
<1>1. \A j \in Indices : table[j].q \in Seq(Packets) /\ Len(table[j].q) \in Nat
                         /\ Len(table[j].q) <= MaxPackets
    BY DEF IsTable, EntryType, ShortQueues
<1> DEFINE q == table[i].q
           new == after[i].q
<1>2. q \in Seq(Packets) /\ Len(q) \in Nat
    BY <1>1
<1>3. new = Append(q, p) /\ \A j \in Indices \ {i} : after[j].q = table[j].q
    OBVIOUS
<1>4. /\ Len(new) = Len(q) + 1 /\ new[Len(q) + 1] = p
      /\ \A k \in 1..Len(q) : new[k] = q[k]
    <2> HIDE DEF q, new
    <2> QED BY <1>2, <1>3
<1>5. \A j \in Indices : \A k \in 1..Len(table[j].q) : table[j].q[k] # p
    BY <1>1, IndexFacts
<1>6. Places(after, Indices, p) = {<<i, Len(q) + 1>>}
    <2>1. ASSUME NEW j \in Indices, NEW k \in Nat
          PROVE  IsAt(after, p, j, k) <=> j = i /\ k = Len(q) + 1
        <3>1. CASE j # i
            BY <1>3, <1>5, <3>1 DEF IsAt
        <3>2. CASE j = i
            <4>1. (k \in 1..Len(new) /\ new[k] = p) <=> k = Len(q) + 1
                <5>1. \A n \in 1..Len(q) : q[n] # p
                    BY <1>5
                <5> HIDE DEF q, new
                <5> QED BY <1>2, <1>4, <5>1
            <4> QED BY <3>2, <4>1 DEF IsAt
        <3> QED BY <3>1, <3>2
    <2>2. Places(after, Indices, p) = {w \in Indices \X Nat : IsAt(after, p, w[1], w[2])}
        BY PlacesAre
    <2>3. <<i, Len(q) + 1>> \in Indices \X Nat
        BY <1>2
    <2> QED BY <2>1, <2>2, <2>3
<1>7. ASSUME NEW x \in Packets, x # p
      PROVE  Places(after, Indices, x) = Places(table, Indices, x)
    <2>1. ASSUME NEW j \in Indices, NEW k \in Nat
          PROVE  IsAt(after, x, j, k) <=> IsAt(table, x, j, k)
        <3>1. CASE j # i
            BY <1>3, <3>1 DEF IsAt
        <3>2. CASE j = i
            <4>1. (k \in 1..Len(new) /\ new[k] = x) <=> (k \in 1..Len(q) /\ q[k] = x)
                <5> HIDE DEF q, new
                <5> QED BY <1>2, <1>4, <1>7
            <4> QED BY <3>2, <4>1 DEF IsAt
        <3> QED BY <3>1, <3>2
    <2>2. /\ Places(after, Indices, x) = {w \in Indices \X Nat : IsAt(after, x, w[1], w[2])}
          /\ Places(table, Indices, x) = {w \in Indices \X Nat : IsAt(table, x, w[1], w[2])}
        BY PlacesAre
    <2> QED BY <2>1, <2>2
<1>8. Cardinality(Places(after, Indices, p)) = 1
    BY <1>6, FS_Singleton
<1> QED BY <1>7, <1>8 DEF IsRefs

-----------------------------------------------------------------------------
(* The inductive invariant.                                                 *)

(* An entry in use is that of a host, a stable one has the host's address.  *)
EntryOfHost(e) ==
    /\ e.state # "EMPTY" => e.ipaddr \in Hosts
    /\ e.state = "STABLE" => e.ethaddr = e.ipaddr
    /\ e.q # <<>> => e.state = "PENDING"

KnownHosts == \A i \in Indices : EntryOfHost(arp_table[i])

(* Packets wait in the order in which they were given, and each of them was *)
(* given after the last one that was sent to its host.                      *)
InOrder(q, latest, n) ==
    /\ Len(q) <= n
    /\ \A k \in 1..Len(q) : q[k] <= n /\ latest < q[k] /\ \A j \in 1..(k - 1) : q[j] < q[k]

QueuesInOrder ==
    \A i \in Indices : arp_table[i].q # <<>> =>
        InOrder(arp_table[i].q, last[arp_table[i].ipaddr], given)

ArpInv ==
    /\ ArpTypeOK
    /\ OneEntryPerHost /\ KnownHosts
    /\ QueuesInOrder /\ (\A ip \in Hosts : last[ip] <= given) /\ astray = {}
    /\ RefsExact

(* Entry i becomes that of ip: it is so already, or no entry is.            *)
Taken(i, ip) == i \in Indices /\ (Match(arp_table, ip) = {} \/ i \in Match(arp_table, ip))

LEMMA EntryReplaced ==
    ASSUME OneEntryPerHost, KnownHosts, IsTable(arp_table), NEW ip \in Hosts, NEW i, Taken(i, ip),
           NEW f \in EntryType, f.ipaddr = ip, EntryOfHost(f),
           arp_table' = [arp_table EXCEPT ![i] = f]
    PROVE  OneEntryPerHost' /\ KnownHosts' /\ IsTable(arp_table')
<1>1. i \in Indices /\ \A j \in Indices : arp_table'[j] = IF j = i THEN f ELSE arp_table[j]
    BY DEF Taken, IsTable
<1>2. \A j \in Indices : arp_table[j].state # "EMPTY" /\ arp_table[j].ipaddr = ip => j = i
    BY DEF Taken, Match, OneEntryPerHost
<1>3. OneEntryPerHost'
    BY <1>1, <1>2 DEF OneEntryPerHost
<1>4. KnownHosts'
    BY <1>1 DEF KnownHosts
<1>5. IsTable(arp_table')
    BY <1>1 DEF IsTable
<1> QED BY <1>3, <1>4, <1>5

(* What find_entry makes of the entry it finds.                             *)
LEMMA EntryForHost ==
    ASSUME OneEntryPerHost, KnownHosts, IsTable(arp_table), NEW ip \in Hosts, NEW hard \in BOOLEAN,
           NEW i, i = find_entry(arp_table, ip, hard), i # 0
    PROVE  LET e == EntryFor(arp_table, i, ip)
           IN /\ Taken(i, ip) /\ e \in EntryType /\ e.ipaddr = ip /\ EntryOfHost(e)
              /\ IF Match(arp_table, ip) # {} THEN e = arp_table[i] /\ e.state # "EMPTY"
                 ELSE e.q = <<>> /\ e.state = "EMPTY"
<1>1. Taken(i, ip)
    BY FoundEntry DEF Taken
<1>2. CASE Match(arp_table, ip) # {}
    <2>1. i \in Match(arp_table, ip) /\ i \in Indices
        BY <1>2, FoundEntry
    <2>2. EntryFor(arp_table, i, ip) = arp_table[i]
        BY <1>2 DEF EntryFor
    <2> QED BY <1>1, <1>2, <2>1, <2>2 DEF IsTable, Match, KnownHosts
<1>3. CASE Match(arp_table, ip) = {}
    <2>1. EntryFor(arp_table, i, ip) = [Empty EXCEPT !.ipaddr = ip]
        BY <1>3 DEF EntryFor
    <2>2. EntryFor(arp_table, i, ip) \in EntryType
        <3>1. <<>> \in Seq(Packets) /\ 0 \in 0..ARP_MAXAGE - 1
            BY IndexFacts
        <3> QED BY <2>1, <3>1 DEF Empty, EntryType
    <2> QED BY <1>1, <1>3, <2>1, <2>2 DEF Empty, EntryOfHost
<1> QED BY <1>2, <1>3

LEMMA ElementInSet ==
    ASSUME NEW S, NEW s \in Seq(S), NEW k \in 1..Len(s)
    PROVE  s[k] \in S
OBVIOUS

(* What the invariant says of the queues and the references to them.        *)
LEMMA InvFacts ==
    ASSUME ArpInv
    PROVE  /\ IsTable(arp_table) /\ ShortQueues(arp_table) /\ IsRefs(arp_table, ref)
           /\ etharp_cached_entry \in Indices /\ given \in 0..MaxPackets
           /\ last \in [Hosts -> 0..MaxPackets]
           /\ \A i \in Indices : arp_table[i].q \in Seq(Packets)
<1>1. /\ IsTable(arp_table) /\ etharp_cached_entry \in Indices /\ given \in 0..MaxPackets
      /\ last \in [Hosts -> 0..MaxPackets]
    BY DEF ArpInv, ArpTypeOK, IsTable
<1>2. \A i \in Indices : arp_table[i].q \in Seq(Packets) /\ Len(arp_table[i].q) \in Nat
    BY <1>1 DEF IsTable, EntryType
<1>3. ASSUME NEW i \in Indices PROVE Len(arp_table[i].q) <= MaxPackets
    <2>1. CASE arp_table[i].q = <<>>
        BY <2>1, IndexFacts
    <2>2. CASE arp_table[i].q # <<>>
        BY <1>1, <1>2, <2>2, IndexFacts DEF ArpInv, QueuesInOrder, InOrder
    <2> QED BY <2>1, <2>2
<1>4. IsRefs(arp_table, ref)
    BY DEF IsRefs, ArpInv, ArpTypeOK, RefsExact
<1> QED BY <1>1, <1>2, <1>3, <1>4 DEF ShortQueues

LEMMA SameQueuesExact ==
    ASSUME NEW table, IsTable(table), NEW refs, IsRefs(table, refs), NEW after, IsTable(after),
           \A i \in Indices : after[i].q = table[i].q
    PROVE  IsRefs(after, refs)
<1>1. ASSUME NEW p PROVE Places(after, Indices, p) = Places(table, Indices, p)
    <2>1. \A i \in Indices, k \in Nat : IsAt(after, p, i, k) <=> IsAt(table, p, i, k)
        BY DEF IsAt
    <2>2. /\ Places(after, Indices, p) = {w \in Indices \X Nat : IsAt(after, p, w[1], w[2])}
          /\ Places(table, Indices, p) = {w \in Indices \X Nat : IsAt(table, p, w[1], w[2])}
        BY PlacesAre
    <2> QED BY <2>1, <2>2
<1> QED BY <1>1 DEF IsRefs

(* The references after find_entry are exact for the table it leaves.       *)
LEMMA FoundRefsExact ==
    ASSUME ArpInv, NEW ip \in Hosts, NEW i \in Indices,
           NEW after, IsTable(after),
           \A j \in Indices : after[j].q = IF j = i /\ Match(arp_table, ip) = {} THEN <<>>
                                           ELSE arp_table[j].q
    PROVE  IsRefs(after, RefsFor(arp_table, i, ip))
<1>1. IsTable(arp_table) /\ ShortQueues(arp_table) /\ IsRefs(arp_table, ref)
    BY InvFacts
<1>2. CASE Match(arp_table, ip) # {}
    BY <1>1, <1>2, SameQueuesExact DEF RefsFor
<1>3. CASE Match(arp_table, ip) = {}
    <2>1. \A j \in Indices : after[j].q = IF j \in {i} THEN <<>> ELSE arp_table[j].q
        BY <1>3
    <2>2. {i} \in SUBSET Indices
        OBVIOUS
    <2>3. IsRefs(after, Release(ref, arp_table, {i}))
        BY <1>1, <2>1, <2>2, ReleaseExact
    <2> QED BY <1>3, <2>3 DEF RefsFor
<1> QED BY <1>2, <1>3

(* The packets that wait for other hosts than that of entry i stay in order *)
(* whatever is sent to that host.                                           *)
LEMMA OthersInOrder ==
    ASSUME ArpInv, NEW ip \in Hosts, NEW i, Taken(i, ip),
           NEW j \in Indices \ {i}, arp_table'[j] = arp_table[j],
           given' \in Nat, given <= given',
           \A h \in Hosts \ {ip} : last'[h] = last[h],
           arp_table[j].q # <<>>
    PROVE  InOrder(arp_table'[j].q, last'[arp_table'[j].ipaddr], given')
<1>1. arp_table[j].ipaddr \in Hosts /\ arp_table[j].ipaddr # ip
    BY DEF ArpInv, KnownHosts, EntryOfHost, Taken, Match, OneEntryPerHost
<1>2. InOrder(arp_table[j].q, last[arp_table[j].ipaddr], given)
    BY DEF ArpInv, QueuesInOrder
<1>3. /\ arp_table[j].q \in Seq(Packets) /\ Packets \subseteq Nat /\ given \in Nat
    BY InvFacts, IndexFacts DEF Packets
<1> DEFINE q == arp_table[j].q
           latest == last[arp_table[j].ipaddr]
<1>4. InOrder(q, latest, given')
    <2>1. \A k \in 1..Len(q) : q[k] \in Nat
        <3>1. q \in Seq(Packets) /\ Packets \subseteq Nat
            BY <1>3
        <3> HIDE DEF q
        <3> QED BY <3>1, ElementInSet
    <2>2. Len(q) \in Nat
        BY <1>3
    <2> HIDE DEF q
    <2> QED BY <1>2, <1>3, <2>1, <2>2 DEF InOrder, q
<1>5. latest = last'[arp_table'[j].ipaddr] /\ q = arp_table'[j].q
    BY <1>1
<1> QED BY <1>4, <1>5

-----------------------------------------------------------------------------
(* The steps.                                                               *)

(* The invariant, part by part. *)
LEMMA InvParts ==
    ASSUME IsTable(arp_table'), IsRefs(arp_table', ref'), etharp_cached_entry' \in Indices,
           given' \in 0..MaxPackets, last' \in [Hosts -> 0..MaxPackets], astray' = {},
           OneEntryPerHost', KnownHosts', QueuesInOrder', \A h \in Hosts : last'[h] <= given'
    PROVE  ArpInv'
BY DEF ArpInv, ArpTypeOK, IsTable, IsRefs, RefsExact, Places

LEMMA AskStep ==
    ASSUME ArpInv, NEW ip \in Hosts, Ask(ip)
    PROVE  ArpInv'
<1> DEFINE i == find_entry(arp_table, ip, TRUE)
           e == EntryFor(arp_table, i, ip)
           f == IF e.state = "STABLE" THEN e ELSE Renewed(e)
<1>1. /\ arp_table' = [arp_table EXCEPT ![i] = f] /\ ref' = RefsFor(arp_table, i, ip)
      /\ UNCHANGED <<etharp_cached_entry, given, last, astray>>
    BY DEF Ask
<1>2. /\ OneEntryPerHost /\ KnownHosts /\ QueuesInOrder
      /\ (\A h \in Hosts : last[h] <= given) /\ astray = {}
    BY DEF ArpInv
<1>3. /\ IsTable(arp_table) /\ etharp_cached_entry \in Indices /\ given \in 0..MaxPackets
      /\ last \in [Hosts -> 0..MaxPackets]
    BY InvFacts
<1>4. i \in Indices /\ i # 0
    BY <1>3, FoundEntry, IndexFacts
<1>5. /\ Taken(i, ip) /\ e \in EntryType /\ e.ipaddr = ip /\ EntryOfHost(e)
      /\ e.q = IF Match(arp_table, ip) # {} THEN arp_table[i].q ELSE <<>>
    <2> HIDE DEF e
    <2> QED BY <1>2, <1>3, <1>4, EntryForHost DEF e
<1>6. f \in EntryType /\ f.ipaddr = ip /\ EntryOfHost(f) /\ f.q = e.q
    <2> HIDE DEF e
    <2> QED BY <1>5 DEF Renewed, EntryType, EntryOfHost
<1> HIDE DEF i, e, f
<1>7. OneEntryPerHost' /\ KnownHosts' /\ IsTable(arp_table')
    BY <1>1, <1>2, <1>3, <1>5, <1>6, EntryReplaced
<1>8. \A j \in Indices : arp_table'[j] = IF j = i THEN f ELSE arp_table[j]
    BY <1>1, <1>3 DEF IsTable
<1>9. IsRefs(arp_table', ref')
    <2>1. \A j \in Indices : arp_table'[j].q =
             IF j = i /\ Match(arp_table, ip) = {} THEN <<>> ELSE arp_table[j].q
        BY <1>5, <1>6, <1>8
    <2> QED BY <1>1, <1>4, <1>7, <2>1, FoundRefsExact
<1>10. QueuesInOrder'
    <2> SUFFICES ASSUME NEW j \in Indices, arp_table'[j].q # <<>>
                 PROVE  InOrder(arp_table[j].q, last[arp_table[j].ipaddr], given)'
        BY DEF QueuesInOrder
    <2>1. arp_table'[j].q = arp_table[j].q /\ arp_table'[j].ipaddr = arp_table[j].ipaddr
        BY <1>5, <1>6, <1>8 DEF Taken, Match
    <2> QED BY <1>1, <1>2, <2>1 DEF QueuesInOrder, InOrder
<1> QED BY <1>1, <1>2, <1>3, <1>7, <1>9, <1>10, InvParts

(* A packet that need not wait is sent at once.                             *)
LEMMA SentAtOnce ==
    ASSUME ArpInv, NEW ip \in Hosts, given < MaxPackets, given' = given + 1,
           NEW i \in Indices, arp_table[i].state = "STABLE", arp_table[i].ipaddr = ip,
           Send(<<given + 1>>, ip, arp_table[i].ethaddr),
           UNCHANGED <<arp_table, ref>>, etharp_cached_entry' \in Indices
    PROVE  ArpInv'
<1>1. /\ OneEntryPerHost /\ KnownHosts /\ QueuesInOrder
      /\ (\A h \in Hosts : last[h] <= given) /\ astray = {}
    BY DEF ArpInv
<1>2. /\ IsTable(arp_table) /\ given \in 0..MaxPackets /\ last \in [Hosts -> 0..MaxPackets]
      /\ IsRefs(arp_table, ref)
    BY InvFacts
<1>3. given \in Nat /\ given + 1 \in 0..MaxPackets
    BY <1>2, IndexFacts
<1>4. last' = [last EXCEPT ![ip] = given + 1]
    <2>1. <<given + 1>> # <<>> /\ Last(<<given + 1>>) = given + 1
        BY <1>3 DEF Last
    <2> QED BY <2>1 DEF Send
<1>5. last' \in [Hosts -> 0..MaxPackets] /\ \A h \in Hosts : last'[h] <= given'
    BY <1>1, <1>2, <1>3, <1>4
<1>6. astray' = {}
    <2>1. arp_table[i].ethaddr = ip
        BY <1>1 DEF KnownHosts, EntryOfHost
    <2>2. last[ip] <= given /\ last[ip] \in Nat
        BY <1>1, <1>2
    <2>3. {k \in 1..Len(<<given + 1>>) :
              \/ arp_table[i].ethaddr # ip
              \/ <<given + 1>>[k] < last[ip]
              \/ \E j \in 1..(k - 1) : <<given + 1>>[k] < <<given + 1>>[j]} = {}
        BY <1>3, <2>1, <2>2
    <2> QED BY <1>1, <2>3 DEF Send
<1>7. QueuesInOrder'
    <2> SUFFICES ASSUME NEW j \in Indices, arp_table'[j].q # <<>>
                 PROVE  InOrder(arp_table[j].q, last[arp_table[j].ipaddr], given)'
        BY DEF QueuesInOrder
    <2>1. j # i
        BY <1>1 DEF KnownHosts, EntryOfHost
    <2>2. Taken(i, ip)
        BY DEF Taken, Match
    <2>3. given' \in Nat /\ given <= given' /\ \A h \in Hosts \ {ip} : last'[h] = last[h]
        BY <1>2, <1>3, <1>4
    <2>4. arp_table'[j] = arp_table[j] /\ arp_table[j].q # <<>>
        OBVIOUS
    <2>5. InOrder(arp_table'[j].q, last'[arp_table'[j].ipaddr], given')
        BY <2>1, <2>2, <2>3, <2>4, OthersInOrder
    <2> QED BY <2>5 DEF InOrder
<1>8. OneEntryPerHost' /\ KnownHosts' /\ IsTable(arp_table') /\ IsRefs(arp_table', ref')
    BY <1>1, <1>2 DEF OneEntryPerHost, KnownHosts, IsTable, IsRefs
<1> QED BY <1>3, <1>5, <1>6, <1>7, <1>8, InvParts

LEMMA NumbersInQueue ==
    ASSUME NEW q \in Seq(Packets)
    PROVE  Len(q) \in Nat /\ \A k \in 1..Len(q) : q[k] \in Nat
<1>1. Packets \subseteq Nat
    BY IndexFacts DEF Packets
<1>2. ASSUME NEW k \in 1..Len(q) PROVE q[k] \in Nat
    BY <1>1, ElementInSet
<1>3. Len(q) \in Nat
    OBVIOUS
<1> QED BY <1>2, <1>3

(* A packet appended to a queue in order is the last given.                 *)
LEMMA AppendInOrder ==
    ASSUME NEW q \in Seq(Packets), NEW n \in Nat, n + 1 \in Packets, NEW latest \in Nat,
           latest <= n, q # <<>> => InOrder(q, latest, n)
    PROVE  InOrder(Append(q, n + 1), latest, n + 1) /\ (q # <<>> => InOrder(q, latest, n + 1))
<1>1. Len(q) \in Nat /\ \A k \in 1..Len(q) : q[k] \in Nat
    BY NumbersInQueue
<1>2. Len(q) <= n /\ \A k \in 1..Len(q) :
         q[k] <= n /\ latest < q[k] /\ \A j \in 1..(k - 1) : q[j] < q[k]
    BY <1>1 DEF InOrder
<1> DEFINE new == Append(q, n + 1)
<1>3. /\ Len(new) = Len(q) + 1 /\ new[Len(q) + 1] = n + 1
      /\ \A k \in 1..Len(q) : new[k] = q[k]
    OBVIOUS
<1> HIDE DEF new
<1>4. InOrder(new, latest, n + 1)
    <2> SUFFICES ASSUME NEW k \in 1..Len(new)
                 PROVE  /\ new[k] <= n + 1 /\ latest < new[k]
                        /\ \A j \in 1..(k - 1) : new[j] < new[k]
        BY <1>1, <1>2, <1>3 DEF InOrder
    <2>1. CASE k = Len(q) + 1
        <3>1. \A j \in 1..(k - 1) : j \in 1..Len(q)
            BY <1>1, <2>1
        <3> QED BY <1>1, <1>2, <1>3, <2>1, <3>1
    <2>2. CASE k \in 1..Len(q)
        <3>1. \A j \in 1..(k - 1) : j \in 1..Len(q)
            BY <1>1, <2>2
        <3> QED BY <1>1, <1>2, <1>3, <2>2, <3>1
    <2> QED BY <1>1, <1>3, <2>1, <2>2
<1>5. q # <<>> => InOrder(q, latest, n + 1)
    BY <1>1, <1>2 DEF InOrder
<1> QED BY <1>4, <1>5 DEF new

(* A packet whose host is not resolved waits, or is refused.                *)
LEMMA OutputStep ==
    ASSUME ArpInv, NEW ip \in Hosts, Output(ip)
    PROVE  ArpInv'
<1> DEFINE p == given + 1
           i == find_entry(arp_table, ip, TRUE)
           e == EntryFor(arp_table, i, ip)
           refs == RefsFor(arp_table, i, ip)
           rest == [arp_table EXCEPT ![i] = Renewed(e)]
<1>1. /\ OneEntryPerHost /\ KnownHosts /\ QueuesInOrder
      /\ (\A h \in Hosts : last[h] <= given) /\ astray = {}
    BY DEF ArpInv
<1>2. /\ IsTable(arp_table) /\ given \in 0..MaxPackets /\ last \in [Hosts -> 0..MaxPackets]
      /\ etharp_cached_entry \in Indices /\ IsRefs(arp_table, ref) /\ ShortQueues(arp_table)
      /\ \A j \in Indices : arp_table[j].q \in Seq(Packets)
    BY InvFacts
<1>3. given < MaxPackets /\ given' = p /\ given \in Nat /\ p \in Packets /\ p \in 0..MaxPackets
    BY <1>2, IndexFacts DEF Output, Packets
<1>4. i \in Indices /\ i # 0
    BY <1>2, FoundEntry, IndexFacts
<1>5. /\ Taken(i, ip) /\ e \in EntryType /\ e.ipaddr = ip /\ EntryOfHost(e)
      /\ e.q = IF Match(arp_table, ip) # {} THEN arp_table[i].q ELSE <<>>
      /\ Match(arp_table, ip) # {} => e = arp_table[i]
      /\ Match(arp_table, ip) = {} => e.state = "EMPTY"
    <2> HIDE DEF e
    <2> QED BY <1>1, <1>2, <1>4, EntryForHost DEF e
<1>6. CASE CacheHit(ip) /\ Send(<<p>>, ip, arp_table[etharp_cached_entry].ethaddr)
           /\ UNCHANGED <<arp_table, etharp_cached_entry, ref>>
    BY <1>2, <1>3, <1>6, SentAtOnce DEF CacheHit
<1>7. CASE e.state = "STABLE" /\ Send(<<p>>, ip, e.ethaddr) /\ etharp_cached_entry' = i
           /\ UNCHANGED <<arp_table, ref>>
    <2>1. arp_table[i].state = "STABLE" /\ arp_table[i].ipaddr = ip /\ e = arp_table[i]
        BY <1>5, <1>7
    <2> HIDE DEF e, i
    <2> QED BY <1>3, <1>4, <1>7, <2>1, SentAtOnce
<1>8. CASE /\ e.state # "STABLE"
           /\ \/ arp_table' = [rest EXCEPT ![i].q = Append(@, p)] /\ ref' = [refs EXCEPT ![p] = 1]
              \/ arp_table' = rest /\ ref' = refs
           /\ UNCHANGED <<etharp_cached_entry, last, astray>>
    <2> DEFINE f == Renewed(e)
               g == [f EXCEPT !.q = Append(@, p)]
    <2>1. /\ f \in EntryType /\ f.ipaddr = ip /\ f.state = "PENDING" /\ f.q = e.q
          /\ EntryOfHost(f)
        <3> HIDE DEF e
        <3> QED BY <1>5, <1>8 DEF Renewed, EntryType, EntryOfHost
    <2>2. g \in EntryType /\ g.ipaddr = ip /\ EntryOfHost(g) /\ g.q = Append(f.q, p)
        <3> HIDE DEF f
        <3>1. f.q \in Seq(Packets)
            BY <2>1 DEF EntryType
        <3>2. Append(f.q, p) \in Seq(Packets)
            BY <3>1, <1>3
        <3>3. g \in EntryType
            BY <2>1, <3>2 DEF EntryType
        <3> QED BY <2>1, <3>3 DEF EntryType, EntryOfHost
    <2> HIDE DEF i, e, f, g
    <2>3. IsTable(rest) /\ \A j \in Indices : rest[j] = IF j = i THEN f ELSE arp_table[j]
        BY <1>2, <2>1 DEF IsTable, f
    <2>4. IsRefs(rest, refs)
        <3>1. \A j \in Indices : rest[j].q =
                 IF j = i /\ Match(arp_table, ip) = {} THEN <<>> ELSE arp_table[j].q
            BY <1>5, <2>1, <2>3
        <3> HIDE DEF rest
        <3> QED BY <1>4, <2>3, <3>1, FoundRefsExact
    <2>5. ASSUME NEW j \in Indices, arp_table[j].q # <<>>
          PROVE  InOrder(arp_table[j].q, last[arp_table[j].ipaddr], given)
        BY <1>1, <2>5 DEF QueuesInOrder
    <2>6. ASSUME f.q # <<>> PROVE InOrder(f.q, last[ip], given)
        BY <1>4, <1>5, <2>1, <2>5, <2>6 DEF Taken, Match
    <2>7. last[ip] \in Nat /\ last[ip] <= given /\ \A h \in Hosts : last[h] <= p
        BY <1>1, <1>2, <1>3
    <2>8. ASSUME NEW new \in EntryType, new.ipaddr = ip, EntryOfHost(new),
                 new.q # <<>> => InOrder(new.q, last[ip], p),
                 arp_table' = [arp_table EXCEPT ![i] = new], IsRefs(arp_table', ref')
          PROVE  ArpInv'
        <3>1. OneEntryPerHost' /\ KnownHosts' /\ IsTable(arp_table')
            BY <1>1, <1>2, <1>5, <2>8, EntryReplaced
        <3>2. \A j \in Indices : arp_table'[j] = IF j = i THEN new ELSE arp_table[j]
            BY <1>2, <2>8 DEF IsTable
        <3>3. QueuesInOrder'
            <4> SUFFICES ASSUME NEW j \in Indices, arp_table'[j].q # <<>>
                         PROVE  InOrder(arp_table'[j].q, last'[arp_table'[j].ipaddr], given')
                BY DEF QueuesInOrder, InOrder
            <4>1. CASE j = i
                BY <1>3, <1>8, <2>8, <3>2, <4>1
            <4>2. CASE j # i
                <5>1. arp_table'[j] = arp_table[j] /\ arp_table[j].q # <<>>
                    BY <3>2, <4>2
                <5>2. given' \in Nat /\ given <= given' /\ \A h \in Hosts \ {ip} : last'[h] = last[h]
                    BY <1>3, <1>8
                <5> QED BY <1>5, <4>2, <5>1, <5>2, OthersInOrder
            <4> QED BY <4>1, <4>2
        <3> QED BY <1>1, <1>2, <1>3, <1>8, <2>7, <2>8, <3>1, <3>3, InvParts
    <2>9. CASE arp_table' = rest /\ ref' = refs
        <3>1. f.q # <<>> => InOrder(f.q, last[ip], p)
            BY <1>3, <2>1, <2>6, <2>7, AppendInOrder DEF EntryType
        <3>2. arp_table' = [arp_table EXCEPT ![i] = f]
            BY <2>9 DEF f
        <3> QED BY <2>1, <2>4, <2>8, <2>9, <3>1, <3>2
    <2>10. CASE arp_table' = [rest EXCEPT ![i].q = Append(@, p)] /\ ref' = [refs EXCEPT ![p] = 1]
        <3>1. arp_table' = [arp_table EXCEPT ![i] = g]
            <4>1. arp_table' = [rest EXCEPT ![i] = g]
                BY <1>4, <2>3, <2>10 DEF g, IsTable
            <4> QED BY <1>2, <1>4, <2>3, <4>1 DEF IsTable
        <3>2. /\ f.q \in Seq(Packets) /\ Len(f.q) \in Nat
              /\ \A k \in 1..Len(f.q) : f.q[k] \in Nat
            BY <2>1, NumbersInQueue DEF EntryType
        <3>3. InOrder(g.q, last[ip], p)
            BY <1>3, <2>2, <2>6, <2>7, <3>2, AppendInOrder
        <3>4. IsRefs(arp_table', ref')
            <4>1. ShortQueues(rest)
                BY <1>2, <1>3, <1>5, <2>1, <2>3, IndexFacts DEF ShortQueues
            <4>2. ASSUME NEW j \in Indices, NEW k \in 1..MaxPackets, k <= Len(rest[j].q)
                  PROVE  rest[j].q[k] # p
                <5>1. CASE j = i
                    <6>1. f.q # <<>> /\ k \in 1..Len(f.q)
                        BY <2>3, <3>2, <4>2, <5>1, IndexFacts
                    <6> QED BY <1>3, <2>3, <2>6, <3>2, <5>1, <6>1 DEF InOrder
                <5>2. CASE j # i
                    <6>1. rest[j].q = arp_table[j].q /\ arp_table[j].q \in Seq(Packets)
                          /\ Packets \subseteq Nat
                        BY <1>2, <2>3, <5>2, IndexFacts DEF Packets
                    <6>2. k \in 1..Len(arp_table[j].q) /\ arp_table[j].q # <<>>
                        BY <4>2, <6>1, IndexFacts
                    <6>3. arp_table[j].q[k] <= given /\ arp_table[j].q[k] \in Nat
                        BY <2>5, <6>1, <6>2, ElementInSet DEF InOrder
                    <6> QED BY <1>3, <6>1, <6>3
                <5> QED BY <5>1, <5>2
            <4>3. IsTable(arp_table')
                BY <1>2, <2>2, <3>1 DEF IsTable
            <4>4. arp_table'[i].q = Append(rest[i].q, p)
                  /\ \A j \in Indices \ {i} : arp_table'[j].q = rest[j].q
                BY <1>2, <1>4, <2>2, <2>3, <3>1 DEF IsTable
            <4> HIDE DEF rest, refs
            <4>5. IsRefs(arp_table', [refs EXCEPT ![p] = 1])
                BY <1>3, <1>4, <2>3, <2>4, <4>1, <4>2, <4>3, <4>4, AppendExact
            <4> QED BY <2>10, <4>5
        <3> QED BY <2>2, <2>8, <3>1, <3>3, <3>4
    <2> QED BY <1>8, <2>9, <2>10
<1> QED BY <1>6, <1>7, <1>8 DEF Output

(* The packets that waited for an address are sent when it is heard.        *)
LEMMA ArpInputStep ==
    ASSUME ArpInv, NEW ip \in Hosts, NEW for_us \in BOOLEAN, ArpInput(ip, ip, for_us)
    PROVE  ArpInv'
<1> DEFINE i == find_entry(arp_table, ip, for_us)
           e == EntryFor(arp_table, i, ip)
           f == [e EXCEPT !.state = "STABLE", !.ethaddr = ip, !.ctime = 0, !.q = <<>>]
           q == e.q
           late == {k \in 1..Len(q) : \/ ip # ip
                                      \/ q[k] < last[ip] \/ \E j \in 1..(k - 1) : q[k] < q[j]}
<1>1. /\ i # 0 /\ arp_table' = [arp_table EXCEPT ![i] = f]
      /\ ref' = Release(ref, arp_table, {i})
      /\ last' = [last EXCEPT ![ip] = IF q = <<>> THEN @ ELSE Last(q)]
      /\ astray' = astray \cup {q[k] : k \in late}
      /\ UNCHANGED <<etharp_cached_entry, given>>
    BY DEF ArpInput, Send
<1>2. /\ OneEntryPerHost /\ KnownHosts /\ QueuesInOrder
      /\ (\A h \in Hosts : last[h] <= given) /\ astray = {}
    BY DEF ArpInv
<1>3. /\ IsTable(arp_table) /\ given \in 0..MaxPackets /\ last \in [Hosts -> 0..MaxPackets]
      /\ etharp_cached_entry \in Indices /\ IsRefs(arp_table, ref) /\ ShortQueues(arp_table)
    BY InvFacts
<1>4. i \in Indices
    BY <1>1, <1>3, FoundEntry
<1>5. /\ Taken(i, ip) /\ e \in EntryType /\ e.ipaddr = ip
      /\ e.q = IF Match(arp_table, ip) # {} THEN arp_table[i].q ELSE <<>>
    <2> HIDE DEF e
    <2> QED BY <1>1, <1>2, <1>3, EntryForHost DEF e
<1>6. f \in EntryType /\ f.ipaddr = ip /\ EntryOfHost(f) /\ f.q = <<>>
    <2>1. <<>> \in Seq(Packets) /\ 0 \in 0..ARP_MAXAGE - 1
        BY IndexFacts
    <2> HIDE DEF e
    <2> QED BY <1>5, <2>1 DEF EntryType, EntryOfHost
<1>7. q # <<>> => InOrder(q, last[ip], given)
    <2> HIDE DEF e, i
    <2> QED BY <1>2, <1>4, <1>5 DEF QueuesInOrder, Taken, Match
<1>8. q \in Seq(Packets) /\ Len(q) \in Nat /\ \A k \in 1..Len(q) : q[k] \in Nat
    BY <1>5, NumbersInQueue DEF EntryType
<1>9. last[ip] \in Nat /\ last[ip] <= given /\ given \in Nat
    BY <1>2, <1>3
<1> HIDE DEF i, e, f, q
<1>10. astray' = {}
    <2>1. ASSUME NEW k \in late PROVE FALSE
        <3>1. k \in 1..Len(q) /\ q # <<>>
            BY <1>8
        <3>2. last[ip] < q[k] /\ \A j \in 1..(k - 1) : q[j] < q[k] /\ j \in 1..Len(q)
            BY <1>7, <1>8, <3>1 DEF InOrder
        <3> QED BY <1>8, <1>9, <2>1, <3>1, <3>2
    <2> HIDE DEF late
    <2> QED BY <1>1, <1>2, <2>1
<1>11. last' \in [Hosts -> 0..MaxPackets] /\ \A h \in Hosts : last'[h] <= given'
    <2>1. CASE q = <<>>
        BY <1>1, <1>2, <1>3, <2>1
    <2>2. CASE q # <<>>
        <3>1. Len(q) \in 1..Len(q)
            BY <1>8, <2>2
        <3>2. Last(q) \in Nat /\ Last(q) <= given
            BY <1>7, <1>8, <2>2, <3>1 DEF InOrder, Last
        <3> QED BY <1>1, <1>2, <1>3, <2>2, <3>2, IndexFacts
    <2> QED BY <2>1, <2>2
<1>12. OneEntryPerHost' /\ KnownHosts' /\ IsTable(arp_table')
    BY <1>1, <1>2, <1>3, <1>5, <1>6, EntryReplaced
<1>13. \A j \in Indices : arp_table'[j] = IF j = i THEN f ELSE arp_table[j]
    BY <1>1, <1>3 DEF IsTable
<1>14. QueuesInOrder'
    <2> SUFFICES ASSUME NEW j \in Indices, arp_table'[j].q # <<>>
                 PROVE  InOrder(arp_table'[j].q, last'[arp_table'[j].ipaddr], given')
        BY DEF QueuesInOrder, InOrder
    <2>1. j # i /\ arp_table'[j] = arp_table[j] /\ arp_table[j].q # <<>>
        BY <1>6, <1>13
    <2>2. given' \in Nat /\ given <= given' /\ \A h \in Hosts \ {ip} : last'[h] = last[h]
        BY <1>1, <1>3, <1>9
    <2> QED BY <1>5, <2>1, <2>2, OthersInOrder
<1>15. IsRefs(arp_table', ref')
    <2>1. \A j \in Indices : arp_table'[j].q = IF j \in {i} THEN <<>> ELSE arp_table[j].q
        BY <1>6, <1>13
    <2>2. {i} \in SUBSET Indices
        BY <1>4
    <2> QED BY <1>1, <1>3, <1>12, <2>1, <2>2, ReleaseExact
<1> QED BY <1>1, <1>3, <1>10, <1>11, <1>12, <1>14, <1>15, InvParts

LEMMA TimerStep ==
    ASSUME ArpInv, etharp_tmr
    PROVE  ArpInv'
<1> DEFINE old == {i \in Indices : TooOld(arp_table[i])}
<1>1. /\ arp_table' = [i \in Indices |->
             IF i \in old THEN Empty
             ELSE IF arp_table[i].state = "EMPTY" THEN arp_table[i] ELSE Aged(arp_table[i])]
      /\ ref' = Release(ref, arp_table, old)
      /\ UNCHANGED <<etharp_cached_entry, given, last, astray>>
    BY DEF etharp_tmr
<1>2. /\ OneEntryPerHost /\ KnownHosts /\ QueuesInOrder
      /\ (\A h \in Hosts : last[h] <= given) /\ astray = {}
    BY DEF ArpInv
<1>3. /\ IsTable(arp_table) /\ given \in 0..MaxPackets /\ last \in [Hosts -> 0..MaxPackets]
      /\ etharp_cached_entry \in Indices /\ IsRefs(arp_table, ref) /\ ShortQueues(arp_table)
    BY InvFacts
<1>4. Empty \in EntryType /\ EntryOfHost(Empty) /\ Empty.q = <<>> /\ Empty.state = "EMPTY"
    <2>1. <<>> \in Seq(Packets) /\ 0 \in 0..ARP_MAXAGE - 1
        BY IndexFacts
    <2> QED BY <2>1 DEF Empty, EntryType, EntryOfHost
<1>5. ASSUME NEW i \in Indices
      PROVE  /\ arp_table'[i] \in EntryType /\ EntryOfHost(arp_table'[i])
             /\ arp_table'[i].q = IF i \in old THEN <<>> ELSE arp_table[i].q
             /\ arp_table'[i].state # "EMPTY" =>
                   arp_table[i].state # "EMPTY" /\ arp_table'[i].ipaddr = arp_table[i].ipaddr
    <2>1. arp_table[i] \in EntryType /\ EntryOfHost(arp_table[i])
        BY <1>2, <1>3 DEF IsTable, KnownHosts
    <2>2. CASE i \in old
        BY <1>1, <1>4, <2>2
    <2>3. CASE i \notin old /\ arp_table[i].state = "EMPTY"
        BY <1>1, <2>1, <2>3
    <2>4. CASE i \notin old /\ arp_table[i].state # "EMPTY"
        <3>1. arp_table'[i] = [arp_table[i] EXCEPT !.ctime = @ + 1]
            BY <1>1, <2>4 DEF Aged
        <3>2. arp_table[i].ctime + 1 \in 0..ARP_MAXAGE - 1
            BY <2>1, <2>4, IndexFacts DEF EntryType, TooOld
        <3> QED BY <2>1, <2>4, <3>1, <3>2 DEF EntryType, EntryOfHost
    <2> QED BY <2>2, <2>3, <2>4
<1>6. IsTable(arp_table')
    BY <1>1, <1>5 DEF IsTable
<1>7. OneEntryPerHost' /\ KnownHosts'
    BY <1>2, <1>5 DEF OneEntryPerHost, KnownHosts
<1>8. QueuesInOrder'
    <2> SUFFICES ASSUME NEW j \in Indices, arp_table'[j].q # <<>>
                 PROVE  InOrder(arp_table'[j].q, last'[arp_table'[j].ipaddr], given')
        BY DEF QueuesInOrder, InOrder
    <2>1. arp_table'[j].q = arp_table[j].q
        BY <1>5
    <2>2. arp_table'[j].ipaddr = arp_table[j].ipaddr
        BY <1>5 DEF EntryOfHost
    <2>3. InOrder(arp_table[j].q, last[arp_table[j].ipaddr], given)
        BY <1>2, <2>1 DEF QueuesInOrder
    <2> QED BY <1>1, <2>1, <2>2, <2>3
<1>9. IsRefs(arp_table', ref')
    <2>1. old \in SUBSET Indices
        OBVIOUS
    <2> HIDE DEF old
    <2> QED BY <1>1, <1>3, <1>5, <1>6, <2>1, ReleaseExact
<1> QED BY <1>1, <1>2, <1>3, <1>6, <1>7, <1>8, <1>9, InvParts

LEMMA ArpInvInit == ArpInit => ArpInv
<1> SUFFICES ASSUME ArpInit PROVE ArpInv
    OBVIOUS
<1>1. <<>> \in Seq(Packets) /\ 0 \in 0..ARP_MAXAGE - 1 /\ 1 \in Indices /\ 0 \in 0..MaxPackets
    BY IndexFacts DEF Indices
<1>2. Empty \in EntryType /\ Empty.q = <<>> /\ Empty.state = "EMPTY"
    BY <1>1 DEF Empty, EntryType
<1>3. arp_table \in [Indices -> EntryType] /\ \A i \in Indices : arp_table[i] = Empty
    BY <1>2 DEF ArpInit
<1>4. ASSUME NEW p \in Packets PROVE ref[p] = Cardinality(Places(arp_table, Indices, p))
    <2>1. \A i \in Indices, k \in Nat : ~IsAt(arp_table, p, i, k)
        BY <1>2, <1>3 DEF IsAt
    <2>2. Places(arp_table, Indices, p) = {}
        BY <1>3, <2>1, PlacesAre DEF IsTable
    <2> QED BY <2>2, FS_EmptySet DEF ArpInit
<1>5. ArpTypeOK
    BY <1>1, <1>3 DEF ArpInit, ArpTypeOK
<1>6. OneEntryPerHost /\ KnownHosts /\ QueuesInOrder
    BY <1>2, <1>3 DEF OneEntryPerHost, KnownHosts, EntryOfHost, QueuesInOrder
<1> QED BY <1>1, <1>4, <1>5, <1>6 DEF ArpInv, RefsExact, ArpInit

LEMMA ArpInvNext == ArpInv /\ [ArpNext]_arpVars => ArpInv'
<1> SUFFICES ASSUME ArpInv, [ArpNext]_arpVars PROVE ArpInv'
    OBVIOUS
<1>1. ASSUME NEW ip \in Hosts, Output(ip) PROVE ArpInv'
    BY <1>1, OutputStep
<1>2. ASSUME NEW ip \in Hosts, Ask(ip) PROVE ArpInv'
    BY <1>2, AskStep
<1>3. ASSUME NEW ip \in Hosts, NEW for_us \in BOOLEAN, ArpInput(ip, ip, for_us) PROVE ArpInv'
    BY <1>3, ArpInputStep
<1>4. CASE etharp_tmr
    BY <1>4, TimerStep
<1>5. CASE UNCHANGED arpVars
    BY <1>5 DEF arpVars, ArpInv, ArpTypeOK, OneEntryPerHost, KnownHosts, QueuesInOrder, InOrder,
                RefsExact, Places
<1> QED BY <1>1, <1>2, <1>3, <1>4, <1>5 DEF ArpNext

LEMMA ArpInvAlways == ArpSpec => []ArpInv
BY ArpInvInit, ArpInvNext, PTL DEF ArpSpec

-----------------------------------------------------------------------------
(* The theorems.                                                            *)

(* An address has one entry, and packets wait on pending ones only, however *)
(* entries are made, recycled and freed (etharp.c:258-397).                 *)
THEOREM ArpTableAlwaysSound == ArpSpec => []ArpTableSound
<1>1. ArpInv => ArpTableSound
    BY DEF ArpInv, ArpTableSound, KnownHosts, EntryOfHost, QueuesArePending
<1> QED BY <1>1, ArpInvAlways, PTL

(* A packet is referenced as often as it waits: nothing that happens to its *)
(* entry frees it twice or never (etharp.c:147-194, 487-508, 1034-1092).    *)
THEOREM ArpReferencesExact == ArpSpec => []RefsExact
<1>1. ArpInv => RefsExact
    BY DEF ArpInv
<1> QED BY <1>1, ArpInvAlways, PTL

(* Packets for a host leave in the order in which they were given and to    *)
(* its address, whether they waited, found the remembered entry or another  *)
(* stable one (etharp.c:487-508, 902-908, 1058-1069).                       *)
THEOREM ArpSendsInOrder == ArpSpec => []SentInOrderToTheirHost
<1>1. ArpInv => SentInOrderToTheirHost
    BY DEF ArpInv, SentInOrderToTheirHost
<1> QED BY <1>1, ArpInvAlways, PTL

-----------------------------------------------------------------------------
(* Worlds. *)

(* A message that acknowledges or declines is about an address. *)
Messages ==
    {m \in [kind : ToServer \cup {"OFFER", "ACK", "NAK", "RELEASE"},
            ip : Addresses \cup {None}, current : BOOLEAN, late : BOOLEAN] :
        m.kind \in {"ACK", "DECLINE"} => m.ip \in Addresses}
DhcpRecords == [state : States, tries : 0..TriesMod - 1, request_timeout : BOOLEAN,
                 t1_timeout : 0..TimerMod - 1, t2_timeout : 0..TimerMod - 1,
                 offered_ip_addr : Addresses \cup {None},
                 offered_t1_renew : {0, T1}, offered_t2_rebind : {0, T0, T2}]
Netifs == [up : BOOLEAN, ip_addr : Addresses \cup {None}]
Worlds == [dhcp : DhcpRecords, netif : Netifs, net : SUBSET Messages, short : 0..1]

(* No more messages than the network carries. *)
Few(messages) == IsFiniteSet(messages) /\ Cardinality(messages) <= MaxNet

(* A lease has at least one tick. *)
LEMMA TicksPositive == \A secs \in Nat : Ticks(secs) \in Nat \ {0}
  BY DhcpAssumption DEF Ticks

(* A time of no seconds is one tick (dhcp.c:950-957). *)
LEMMA TicksOfNothing == Ticks(0) = 1
<1> DEFINE D == DHCP_COARSE_TIMER_SECS
<1>1. D \in Nat /\ D > 0 BY DhcpAssumption
<1>2. (0 + D \div 2) \div D = 0
  <2> DEFINE h == D \div 2
  <2>1. h \in Nat /\ h < D BY <1>1
  <2>2. h \div D = 0 BY <1>1, <2>1
  <2> QED BY <2>1, <2>2
<1> QED BY <1>2 DEF Ticks

(* Both counters are wide enough for a one. *)
LEMMA Widths ==
    /\ TriesMod \in Nat /\ TimerMod \in Nat /\ 1 < TriesMod /\ 1 < TimerMod
    /\ 0 \in 0..TriesMod - 1 /\ 0 \in 0..TimerMod - 1
<1>1. RequestTries \in Nat /\ TriesMod \in Nat /\ TimerMod \in Nat /\ T1 \in Nat
      /\ RequestTries + 1 < TriesMod /\ Ticks(T1) < TimerMod
    BY DhcpAssumption
<1>2. Ticks(T1) \in Nat /\ Ticks(T1) > 0
    BY <1>1, TicksPositive
<1> QED BY <1>1, <1>2

(* dhcp_set_state changes the state, and with a new one the tries. *)
LEMMA StateSet ==
  ASSUME NEW w \in Worlds, NEW s \in States
  PROVE LET v == dhcp_set_state(w, s)
        IN /\ v \in Worlds
           /\ v.netif = w.netif /\ v.net = w.net
           /\ v.dhcp.state = s
           /\ v.dhcp.offered_ip_addr = w.dhcp.offered_ip_addr
           /\ v.dhcp.offered_t2_rebind = w.dhcp.offered_t2_rebind
           /\ v.dhcp.offered_t1_renew = w.dhcp.offered_t1_renew
           /\ v.dhcp.t2_timeout = w.dhcp.t2_timeout
           /\ v.dhcp.t1_timeout = w.dhcp.t1_timeout
           /\ w.dhcp.state = s => v = w
           /\ w.dhcp.state # s => v.dhcp.tries = 0 /\ v.short = 0
<1> DEFINE v == dhcp_set_state(w, s)
<1>1. CASE w.dhcp.state = s
  BY <1>1 DEF dhcp_set_state
<1>2. CASE w.dhcp.state # s
  <2>0. v = [w EXCEPT !.dhcp.state = s, !.dhcp.tries = 0,
                   !.dhcp.request_timeout = FALSE, !.short = 0] BY <1>2 DEF dhcp_set_state
  <2>1. w.dhcp \in DhcpRecords BY DEF Worlds
  <2>2. v.netif = w.netif /\ v.net = w.net /\ v.short = 0  BY <2>0 DEF Worlds
  <2>4. v.dhcp = [w.dhcp EXCEPT !.state = s, !.tries = 0, !.request_timeout = FALSE] BY <2>0, <2>1 DEF Worlds, DhcpRecords
  <2>3. v.dhcp.state = s BY <2>4, <2>1 DEF DhcpRecords
  <2>5. v = [dhcp |-> v.dhcp, netif |-> w.netif, net |-> w.net, short |-> 0]
    BY <2>0 DEF Worlds
  <2>6. v.dhcp \in DhcpRecords BY <2>1, <2>4, Widths DEF DhcpRecords
  <2>7. v \in Worlds BY <2>5, <2>6 DEF Worlds
  <2>8. v.dhcp.tries = 0 /\ v.dhcp.offered_ip_addr = w.dhcp.offered_ip_addr
        /\ v.dhcp.offered_t2_rebind = w.dhcp.offered_t2_rebind
           /\ v.dhcp.offered_t1_renew = w.dhcp.offered_t1_renew
           /\ v.dhcp.t2_timeout = w.dhcp.t2_timeout
           /\ v.dhcp.t1_timeout = w.dhcp.t1_timeout
     BY <2>1, <2>4 DEF DhcpRecords
  <2> HIDE DEF v
  <2> QED BY <2>2, <2>3, <2>7, <2>8, <1>2 DEF v
<1> QED BY <1>1, <1>2

(* What set_state and a transmission leave alone. *)
SameAgreement(v, w) ==
    /\ v.netif = w.netif
    /\ v.dhcp.offered_ip_addr = w.dhcp.offered_ip_addr
    /\ v.dhcp.offered_t1_renew = w.dhcp.offered_t1_renew
    /\ v.dhcp.offered_t2_rebind = w.dhcp.offered_t2_rebind
    /\ v.dhcp.t1_timeout = w.dhcp.t1_timeout
    /\ v.dhcp.t2_timeout = w.dhcp.t2_timeout

(* Messages that were under way before, as current as before or less. *)
Stays(n, messages) ==
    \E m \in messages : /\ n.kind = m.kind /\ n.ip = m.ip /\ n.late = m.late
                         /\ n.current \in {m.current, FALSE}
Carries(after, before, m) == \A n \in after : n = m \/ Stays(n, before)

(* A function has no more values than arguments. *)
LEMMA ImageFew ==
    ASSUME NEW S, IsFiniteSet(S), NEW f, DOMAIN f = S
    PROVE  /\ IsFiniteSet({f[m] : m \in S})
           /\ Cardinality({f[m] : m \in S}) <= Cardinality(S)
<1> DEFINE T == {f[m] : m \in S}
<1> DEFINE g == [m \in S |-> f[m]]
<1>1. g \in Surjection(S, T)
    BY DEF Surjection
<1>2. IsFiniteSet(T) /\ Cardinality(T) <= Cardinality(S)
    <2> HIDE DEF g
    <2> QED BY <1>1, FS_Surjection
<1> QED BY <1>2

(* A message with one field changed. *)
LEMMA MessageChanged ==
    ASSUME NEW m \in Messages, NEW b \in BOOLEAN
    PROVE  /\ [m EXCEPT !.current = b] =
                    [kind |-> m.kind, ip |-> m.ip, current |-> b, late |-> m.late]
           /\ [m EXCEPT !.late = b] =
                    [kind |-> m.kind, ip |-> m.ip, current |-> m.current, late |-> b]
    BY DEF Messages

(* Superseded messages were under way, and lose only their transaction. *)
LEMMA SupersededStays ==
    ASSUME NEW S \in SUBSET Messages, Few(S)
    PROVE  /\ Superseded(S) \in SUBSET Messages /\ Few(Superseded(S))
           /\ \A n \in Superseded(S) : Stays(n, S)
<1> DEFINE K == {n \in S : n.kind \in ToServer}
<1> DEFINE old(m) == [m EXCEPT !.current = FALSE]
<1>1. Superseded(S) = {old(m) : m \in K}
    BY DEF Superseded
<1>2. IsFiniteSet(K) /\ Cardinality(K) <= Cardinality(S)
    BY FS_Subset DEF Few
<1>3. IsFiniteSet(Superseded(S)) /\ Cardinality(Superseded(S)) <= Cardinality(K)
    <2> DEFINE f == [m \in K |-> old(m)]
    <2>1. DOMAIN f = K /\ Superseded(S) = {f[m] : m \in K}
        BY <1>1
    <2> HIDE DEF f, K
    <2> QED BY <2>1, <1>2, ImageFew
<1>4. Cardinality(K) \in Nat /\ Cardinality(S) \in Nat /\ Cardinality(Superseded(S)) \in Nat
    BY <1>2, <1>3, FS_CardinalityType DEF Few
<1>5. \A m \in K : old(m) \in Messages /\ Stays(old(m), S)
    <2> SUFFICES ASSUME NEW m \in K PROVE old(m) \in Messages /\ Stays(old(m), S)
        OBVIOUS
    <2>1. m \in Messages /\ m \in S
        OBVIOUS
    <2>2. old(m) = [kind |-> m.kind, ip |-> m.ip, current |-> FALSE, late |-> m.late]
        BY <2>1, MessageChanged
    <2>3. old(m) \in Messages
        BY <2>1, <2>2 DEF Messages
    <2>4. /\ old(m).kind = m.kind /\ old(m).ip = m.ip /\ old(m).late = m.late
          /\ old(m).current = FALSE
        BY <2>2
    <2>5. Stays(old(m), S)
        <3> HIDE DEF old
        <3> QED BY <2>1, <2>4 DEF Stays
    <2> QED BY <2>3, <2>5
<1>6. MaxNet \in Nat
    BY DhcpAssumption
<1> HIDE DEF K, old
<1>7. Few(Superseded(S))
    BY <1>2, <1>3, <1>4, <1>6 DEF Few
<1> QED BY <1>1, <1>5, <1>7

(* The network carries one message more, or is full. *)
LEMMA CarriedFew ==
    ASSUME NEW S \in SUBSET Messages, Few(S), NEW m \in Messages
    PROVE  /\ Carried(S, m) \in SUBSET Messages /\ Few(Carried(S, m))
           /\ Carried(S, m) \subseteq S \cup {m}
<1>1. CASE Cardinality(S) < MaxNet
    <2>1. IsFiniteSet(S \cup {m}) /\ Cardinality(S \cup {m}) <= Cardinality(S) + 1
        <3>1. IsFiniteSet(S) /\ Cardinality(S) \in Nat
            BY FS_CardinalityType DEF Few
        <3>2. /\ IsFiniteSet(S \cup {m})
              /\ Cardinality(S \cup {m}) = IF m \in S THEN Cardinality(S) ELSE Cardinality(S) + 1
            BY <3>1, FS_AddElement
        <3> QED BY <3>1, <3>2
    <2>2. Cardinality(S) \in Nat /\ MaxNet \in Nat /\ Cardinality(S \cup {m}) \in Nat
        BY <2>1, FS_CardinalityType, DhcpAssumption DEF Few
    <2>3. Few(S \cup {m})
        BY <1>1, <2>1, <2>2 DEF Few
    <2> QED BY <1>1, <2>3 DEF Carried
<1>2. CASE ~(Cardinality(S) < MaxNet)
    BY <1>2 DEF Carried
<1> QED BY <1>1, <1>2

(* A transmission adds at most its own message. *)
LEMMA Transmitted ==
    ASSUME NEW w \in Worlds, Few(w.net), NEW mem \in BOOLEAN,
           NEW kind \in ToServer \cup {"RELEASE"}, NEW ip \in Addresses \cup {None},
           kind = "DECLINE" => ip \in Addresses
    PROVE  LET v == Transmit(w, kind, ip, mem)
           IN  /\ v \in Worlds /\ Few(v.net) /\ v.dhcp = w.dhcp /\ v.netif = w.netif
               /\ v.short = w.short
               /\ Carries(v.net, w.net, Message(kind, ip))
<1> DEFINE v == Transmit(w, kind, ip, mem)
<1> DEFINE m == Message(kind, ip)
<1> DEFINE kept == IF w.dhcp.tries = 0 THEN Superseded(w.net) ELSE w.net
<1>0. w.net \in SUBSET Messages /\ m \in Messages
    BY DEF Worlds, Message, Messages, ToServer
<1>1. \A n \in w.net : Stays(n, w.net)
    BY <1>0 DEF Stays
<1>2. CASE ~mem
    BY <1>2, <1>1 DEF Transmit, Carries
<1>3. CASE mem
    <2>1. kept \in SUBSET Messages /\ Few(kept) /\ \A n \in kept : Stays(n, w.net)
        BY <1>0, <1>1, SupersededStays
    <2>2. v = [w EXCEPT !.net = Carried(kept, m)]
        BY <1>3 DEF Transmit
    <2> HIDE DEF kept, m
    <2>3. /\ Carried(kept, m) \in SUBSET Messages /\ Few(Carried(kept, m))
          /\ Carried(kept, m) \subseteq kept \cup {m}
        BY <1>0, <2>1, CarriedFew
    <2>4. /\ v.dhcp = w.dhcp /\ v.netif = w.netif /\ v.short = w.short
          /\ v.net = Carried(kept, m) /\ v \in Worlds
        BY <2>2, <2>3 DEF Worlds
    <2>5. Carries(v.net, w.net, m)
        BY <2>1, <2>3, <2>4 DEF Carries
    <2> HIDE DEF v
    <2> QED BY <2>3, <2>4, <2>5 DEF v, m
<1> QED BY <1>2, <1>3

(* One more try changes nothing but the count and the timeout. *)
LEMMA Tried ==
    ASSUME NEW w \in Worlds, NEW zero \in BOOLEAN, NEW mem \in BOOLEAN
    PROVE  LET v == AfterTry(w, zero, mem)
           IN  /\ v \in Worlds /\ v.dhcp.state = w.dhcp.state /\ SameAgreement(v, w)
               /\ v.net = w.net /\ v.short = w.short
               /\ ~zero \/ w.dhcp.tries + 1 < TriesMod => v.dhcp.request_timeout
<1> DEFINE v == AfterTry(w, zero, mem)
<1> DEFINE d == [w.dhcp EXCEPT !.tries = NextTry(w), !.request_timeout = ~(zero /\ NextTry(w) = 0)]
<1>1. w.dhcp \in DhcpRecords
    BY DEF Worlds
<1>2. w.dhcp.tries \in 0..TriesMod - 1
    BY <1>1 DEF DhcpRecords
<1>3. NextTry(w) \in 0..TriesMod - 1 /\ (w.dhcp.tries + 1 < TriesMod => NextTry(w) = w.dhcp.tries + 1)
    BY <1>2, Widths DEF NextTry
<1>4. v = [w EXCEPT !.dhcp = d]
    BY <1>1 DEF AfterTry, Worlds
<1>5. d \in DhcpRecords
    BY <1>1, <1>3 DEF DhcpRecords
<1>6. /\ d.state = w.dhcp.state /\ d.offered_ip_addr = w.dhcp.offered_ip_addr
      /\ d.offered_t1_renew = w.dhcp.offered_t1_renew
      /\ d.offered_t2_rebind = w.dhcp.offered_t2_rebind
      /\ d.t1_timeout = w.dhcp.t1_timeout /\ d.t2_timeout = w.dhcp.t2_timeout
      /\ d.request_timeout = ~(zero /\ NextTry(w) = 0)
    BY <1>1 DEF DhcpRecords
<1> HIDE DEF d
<1>7. v \in Worlds /\ v.dhcp = d /\ v.netif = w.netif /\ v.net = w.net /\ v.short = w.short
    BY <1>4, <1>5 DEF Worlds
<1>8. ~zero \/ w.dhcp.tries + 1 < TriesMod => d.request_timeout
    <2>1. CASE ~zero
        BY <2>1, <1>6
    <2>2. CASE w.dhcp.tries + 1 < TriesMod
        <3>1. NextTry(w) # 0
            BY <2>2, <1>2, <1>3
        <3> QED BY <3>1, <1>6
    <2> QED BY <2>1, <2>2
<1> HIDE DEF v
<1>9. SameAgreement(v, w)
    BY <1>6, <1>7 DEF SameAgreement
<1> QED BY <1>6, <1>7, <1>8, <1>9 DEF v

-----------------------------------------------------------------------------
(* What each function of the client does to a world. *)

(* v is w in state s, with a message of this kind sent, or not. *)
Sent(v, w, s, kind, ip) ==
    /\ v \in Worlds /\ Few(v.net) /\ v.dhcp.state = s
    /\ SameAgreement(v, w)
    /\ Carries(v.net, w.net, Message(kind, ip))
    /\ v.short = IF w.dhcp.state = s THEN w.short ELSE 0

(* A new state, a message and a try: the shape of every operation. *)
LEMMA Exchanged ==
    ASSUME NEW w \in Worlds, Few(w.net), NEW mem \in BOOLEAN, NEW zero \in BOOLEAN,
           NEW s \in States, NEW kind \in ToServer \cup {"RELEASE"},
           NEW ip \in Addresses \cup {None}, kind = "DECLINE" => ip \in Addresses
    PROVE  LET v == AfterTry(Transmit(dhcp_set_state(w, s), kind, ip, mem), zero, mem)
           IN  /\ Sent(v, w, s, kind, ip)
               /\ ~zero \/ w.dhcp.state # s \/ w.dhcp.tries + 1 < TriesMod
                      => v.dhcp.request_timeout
<1> DEFINE u == dhcp_set_state(w, s)
<1> DEFINE t == Transmit(u, kind, ip, mem)
<1> DEFINE v == AfterTry(t, zero, mem)
<1>1. /\ u \in Worlds /\ u.net = w.net /\ u.dhcp.state = s /\ SameAgreement(u, w)
      /\ u.short = IF w.dhcp.state = s THEN w.short ELSE 0
      /\ IF w.dhcp.state = s THEN u.dhcp.tries = w.dhcp.tries ELSE u.dhcp.tries = 0
    BY StateSet DEF SameAgreement
<1> HIDE DEF u
<1>2. /\ t \in Worlds /\ Few(t.net) /\ t.dhcp = u.dhcp /\ t.netif = u.netif
      /\ t.short = u.short /\ Carries(t.net, u.net, Message(kind, ip))
    BY <1>1, Transmitted
<1> HIDE DEF t
<1>3. /\ v \in Worlds /\ v.dhcp.state = t.dhcp.state /\ SameAgreement(v, t)
      /\ v.net = t.net /\ v.short = t.short
      /\ ~zero \/ t.dhcp.tries + 1 < TriesMod => v.dhcp.request_timeout
    BY <1>2, Tried
<1> HIDE DEF v
<1>4. SameAgreement(v, w)
    BY <1>1, <1>2, <1>3 DEF SameAgreement
<1>5. Sent(v, w, s, kind, ip)
    BY <1>1, <1>2, <1>3, <1>4 DEF Sent
<1>6. ASSUME ~zero \/ w.dhcp.state # s \/ w.dhcp.tries + 1 < TriesMod
      PROVE  ~zero \/ t.dhcp.tries + 1 < TriesMod
    BY <1>1, <1>2, <1>6, Widths
<1> QED BY <1>3, <1>5, <1>6 DEF v, t, u

(* Only the offered address is set. *)
LEMMA OfferSet ==
    ASSUME NEW w \in Worlds, NEW ip \in Addresses \cup {None}
    PROVE  LET v == [w EXCEPT !.dhcp.offered_ip_addr = ip]
           IN  /\ v \in Worlds /\ v.netif = w.netif /\ v.net = w.net /\ v.short = w.short
               /\ v.dhcp.offered_ip_addr = ip
               /\ v.dhcp.state = w.dhcp.state
               /\ v.dhcp.offered_t2_rebind = w.dhcp.offered_t2_rebind
<1> DEFINE v == [w EXCEPT !.dhcp.offered_ip_addr = ip]
<1> DEFINE d == [w.dhcp EXCEPT !.offered_ip_addr = ip]
<1>1. w.dhcp \in DhcpRecords
    BY DEF Worlds
<1>2. v = [w EXCEPT !.dhcp = d]
    BY <1>1 DEF Worlds
<1>3. /\ d \in DhcpRecords /\ d.offered_ip_addr = ip /\ d.state = w.dhcp.state
      /\ d.offered_t2_rebind = w.dhcp.offered_t2_rebind
    BY <1>1 DEF DhcpRecords
<1> HIDE DEF d
<1>4. v \in Worlds /\ v.dhcp = d /\ v.netif = w.netif /\ v.net = w.net /\ v.short = w.short
    BY <1>2, <1>3 DEF Worlds
<1> QED BY <1>3, <1>4

(* v looks for a server. *)
Looks(v, w) ==
    /\ v \in Worlds /\ Few(v.net) /\ v.dhcp.state = "DHCP_SELECTING" /\ v.netif = w.netif
    /\ v.dhcp.offered_t2_rebind = w.dhcp.offered_t2_rebind
    /\ Carries(v.net, w.net, Message("DISCOVER", None))
    /\ v.dhcp.request_timeout

(* dhcp_discover. *)
LEMMA Discovered ==
    ASSUME NEW w \in Worlds, Few(w.net), NEW mem \in BOOLEAN
    PROVE  Looks(dhcp_discover(w, mem), w)
<1> DEFINE u == [w EXCEPT !.dhcp.offered_ip_addr = None]
<1> DEFINE v == AfterTry(Transmit(dhcp_set_state(u, "DHCP_SELECTING"), "DISCOVER", None, mem),
                         FALSE, mem)
<1>1. /\ u \in Worlds /\ u.netif = w.netif /\ u.net = w.net
      /\ u.dhcp.offered_t2_rebind = w.dhcp.offered_t2_rebind
    BY OfferSet
<1>2. dhcp_discover(w, mem) = v
    BY DEF dhcp_discover
<1> HIDE DEF u
<1>3. Sent(v, u, "DHCP_SELECTING", "DISCOVER", None) /\ v.dhcp.request_timeout
    BY <1>1, Exchanged DEF States, ToServer
<1> HIDE DEF v
<1>4. Looks(v, w)
    BY <1>1, <1>3 DEF Sent, Looks, SameAgreement
<1> QED BY <1>2, <1>4

(* dhcp_decline. *)
LEMMA Declined ==
    ASSUME NEW w \in Worlds, Few(w.net), NEW mem \in BOOLEAN,
           w.dhcp.offered_ip_addr \in Addresses
    PROVE  /\ Sent(dhcp_decline(w, mem), w, "DHCP_BACKING_OFF", "DECLINE", w.dhcp.offered_ip_addr)
           /\ dhcp_decline(w, mem).dhcp.request_timeout
<1>1. w.dhcp.offered_ip_addr \in Addresses \cup {None}
    BY DEF Worlds, DhcpRecords
<1> QED BY <1>1, Exchanged DEF dhcp_decline, States, ToServer

(* The requests: select, renew, rebind, reboot. *)
LEMMA Requested ==
    ASSUME NEW w \in Worlds, Few(w.net), NEW mem \in BOOLEAN, NEW zero \in BOOLEAN,
           NEW s \in States, NEW ip \in Addresses \cup {None}
    PROVE  /\ Sent(Request(w, s, ip, zero, mem), w, s, "REQUEST", ip)
           /\ ~zero \/ w.dhcp.state # s \/ w.dhcp.tries + 1 < TriesMod
                  => Request(w, s, ip, zero, mem).dhcp.request_timeout
    BY Exchanged DEF Request, ToServer

(* dhcp_check. *)
LEMMA Checked ==
    ASSUME NEW w \in Worlds
    PROVE  LET v == dhcp_check(w)
           IN  /\ v \in Worlds /\ v.dhcp.state = "DHCP_CHECKING" /\ SameAgreement(v, w)
               /\ v.net = w.net /\ v.dhcp.request_timeout
               /\ v.short = IF w.dhcp.state = "DHCP_CHECKING" THEN w.short ELSE 0
<1> DEFINE u == dhcp_set_state(w, "DHCP_CHECKING")
<1> DEFINE v == AfterTry(u, FALSE, TRUE)
<1>1. /\ u \in Worlds /\ u.net = w.net /\ u.dhcp.state = "DHCP_CHECKING" /\ SameAgreement(u, w)
      /\ u.short = IF w.dhcp.state = "DHCP_CHECKING" THEN w.short ELSE 0
    BY StateSet DEF SameAgreement, States
<1>2. dhcp_check(w) = v
    BY DEF dhcp_check
<1> HIDE DEF u
<1>3. /\ v \in Worlds /\ v.dhcp.state = u.dhcp.state /\ SameAgreement(v, u)
      /\ v.net = u.net /\ v.short = u.short /\ v.dhcp.request_timeout
    BY <1>1, Tried
<1> HIDE DEF v
<1>4. SameAgreement(v, w)
    BY <1>1, <1>3 DEF SameAgreement
<1> QED BY <1>1, <1>2, <1>3, <1>4

(* The times of a lease fit the timers. *)
LEMMA TicksFit ==
    /\ Ticks(0) \in 0..TimerMod - 1 /\ Ticks(T1) \in 0..TimerMod - 1
    /\ T2Given => Ticks(T2) \in 0..TimerMod - 1
    /\ ~T2Given => Ticks(T0) \in 0..TimerMod - 1
<1>1. T0 \in Nat /\ T1 \in Nat /\ T2 \in Nat /\ TimerMod \in Nat
      /\ Ticks(T1) < TimerMod /\ Ticks(IF T2Given THEN T2 ELSE T0) < TimerMod
    BY DhcpAssumption
<1>2. Ticks(T0) \in Nat /\ Ticks(T1) \in Nat /\ Ticks(T2) \in Nat
    BY <1>1, TicksPositive
<1>3. Ticks(0) = 1 /\ 1 < TimerMod
    BY TicksOfNothing, Widths
<1> QED BY <1>1, <1>2, <1>3

(* The timers that a lease may set. *)
Timely(w) == w.dhcp.offered_t2_rebind \in {0, IF T2Given THEN T2 ELSE T0}

(* dhcp_bind starts the timers and takes the address. *)
LEMMA Bound ==
    ASSUME NEW w \in Worlds, Timely(w)
    PROVE  LET v == dhcp_bind(w)
           IN  /\ v \in Worlds /\ v.dhcp.state = "DHCP_BOUND" /\ v.net = w.net
               /\ v.netif.up /\ v.netif.ip_addr = w.dhcp.offered_ip_addr
               /\ v.dhcp.offered_ip_addr = w.dhcp.offered_ip_addr
               /\ v.dhcp.offered_t2_rebind = w.dhcp.offered_t2_rebind
               /\ v.dhcp.t2_timeout = Ticks(w.dhcp.offered_t2_rebind)
<1> DEFINE d == [w.dhcp EXCEPT !.t1_timeout = Ticks(w.dhcp.offered_t1_renew),
                               !.t2_timeout = Ticks(w.dhcp.offered_t2_rebind)]
<1> DEFINE n == [up |-> TRUE, ip_addr |-> w.dhcp.offered_ip_addr]
<1> DEFINE u == [w EXCEPT !.dhcp.t1_timeout = Ticks(w.dhcp.offered_t1_renew),
                          !.dhcp.t2_timeout = Ticks(w.dhcp.offered_t2_rebind),
                          !.netif = n]
<1>1. w.dhcp \in DhcpRecords
    BY DEF Worlds
<1>2. /\ w.dhcp.offered_ip_addr \in Addresses \cup {None}
      /\ w.dhcp.offered_t1_renew \in {0, T1} /\ w.dhcp.offered_t2_rebind \in {0, T0, T2}
    BY <1>1 DEF DhcpRecords
<1>3. Ticks(w.dhcp.offered_t1_renew) \in 0..TimerMod - 1
    BY <1>2, TicksFit
<1>4. Ticks(w.dhcp.offered_t2_rebind) \in 0..TimerMod - 1
    BY TicksFit, DhcpAssumption DEF Timely
<1>5. /\ d \in DhcpRecords /\ d.state = w.dhcp.state
      /\ d.offered_ip_addr = w.dhcp.offered_ip_addr
      /\ d.offered_t2_rebind = w.dhcp.offered_t2_rebind
      /\ d.t2_timeout = Ticks(w.dhcp.offered_t2_rebind)
    BY <1>1, <1>3, <1>4 DEF DhcpRecords
<1>6. n \in Netifs
    BY <1>2 DEF Netifs
<1>7. u = [w EXCEPT !.dhcp = d, !.netif = n]
    BY <1>1 DEF Worlds
<1> HIDE DEF d
<1>8. u \in Worlds /\ u.dhcp = d /\ u.netif = n /\ u.net = w.net
    BY <1>5, <1>6, <1>7 DEF Worlds
<1>9. dhcp_bind(w) = dhcp_set_state(u, "DHCP_BOUND")
    BY DEF dhcp_bind
<1>10. n.up /\ n.ip_addr = w.dhcp.offered_ip_addr
    OBVIOUS
<1> HIDE DEF u, n
<1>11. LET v == dhcp_set_state(u, "DHCP_BOUND")
       IN  /\ v \in Worlds /\ v.dhcp.state = "DHCP_BOUND" /\ v.net = u.net /\ v.netif = u.netif
           /\ v.dhcp.offered_ip_addr = u.dhcp.offered_ip_addr
           /\ v.dhcp.offered_t2_rebind = u.dhcp.offered_t2_rebind
           /\ v.dhcp.t2_timeout = u.dhcp.t2_timeout
    BY <1>8, StateSet DEF States
<1> QED BY <1>5, <1>8, <1>9, <1>10, <1>11

(* dhcp_handle_ack. *)
LEMMA Acknowledged ==
    ASSUME NEW w \in Worlds, NEW ip \in Addresses \cup {None}
    PROVE  LET v == dhcp_handle_ack(w, ip)
           IN  /\ v \in Worlds /\ v.netif = w.netif /\ v.net = w.net /\ v.short = w.short
               /\ v.dhcp.state = w.dhcp.state /\ v.dhcp.offered_ip_addr = ip
               /\ v.dhcp.offered_t2_rebind = IF T2Given THEN T2 ELSE T0
<1> DEFINE v == dhcp_handle_ack(w, ip)
<1> DEFINE t2 == IF T2Given THEN T2 ELSE T0
<1> DEFINE d == [w.dhcp EXCEPT !.offered_ip_addr = ip, !.offered_t1_renew = T1,
                               !.offered_t2_rebind = t2]
<1>1. w.dhcp \in DhcpRecords
    BY DEF Worlds
<1>2. v = [w EXCEPT !.dhcp = d]
    BY <1>1 DEF Worlds, dhcp_handle_ack
<1>3. t2 \in {0, T0, T2}
    OBVIOUS
<1> HIDE DEF t2
<1>4. /\ d \in DhcpRecords /\ d.state = w.dhcp.state /\ d.offered_ip_addr = ip
      /\ d.offered_t2_rebind = t2
    BY <1>1, <1>3 DEF DhcpRecords
<1> HIDE DEF d
<1>5. v \in Worlds /\ v.dhcp = d /\ v.netif = w.netif /\ v.net = w.net /\ v.short = w.short
    BY <1>2, <1>4 DEF Worlds
<1> QED BY <1>4, <1>5 DEF t2

(* dhcp_release sends nothing a server understands. *)
LEMMA Released ==
    ASSUME NEW w \in Worlds, Few(w.net), NEW mem \in BOOLEAN
    PROVE  LET v == dhcp_release(w, mem)
           IN  /\ v \in Worlds /\ Few(v.net) /\ v.dhcp.state = "DHCP_OFF"
               /\ v.netif = Unconfigured /\ v.dhcp.offered_t2_rebind = 0
               /\ \A n \in v.net : n.kind # "RELEASE" /\ Stays(n, w.net)
<1> DEFINE u == dhcp_set_state(w, "DHCP_OFF")
<1> DEFINE c == [u EXCEPT !.dhcp.offered_ip_addr = None, !.dhcp.offered_t1_renew = 0,
                          !.dhcp.offered_t2_rebind = 0]
<1> DEFINE d == [u.dhcp EXCEPT !.offered_ip_addr = None, !.offered_t1_renew = 0,
                               !.offered_t2_rebind = 0]
<1> DEFINE t == AfterTry(Transmit(c, "RELEASE", None, mem), TRUE, mem)
<1> DEFINE kept == {m \in t.net : m.kind # "RELEASE"}
<1> DEFINE v == [t EXCEPT !.net = kept, !.netif = Unconfigured]
<1>1. u \in Worlds /\ u.net = w.net /\ u.dhcp.state = "DHCP_OFF"
    BY StateSet DEF States
<1>2. dhcp_release(w, mem) = v
    BY DEF dhcp_release
<1> HIDE DEF u
<1>3. u.dhcp \in DhcpRecords
    BY <1>1 DEF Worlds
<1>4. c = [u EXCEPT !.dhcp = d]
    BY <1>1, <1>3 DEF Worlds
<1>5. d \in DhcpRecords /\ d.state = "DHCP_OFF" /\ d.offered_t2_rebind = 0
    BY <1>1, <1>3 DEF DhcpRecords
<1> HIDE DEF d
<1>6. c \in Worlds /\ c.dhcp = d /\ c.net = w.net
    BY <1>1, <1>4, <1>5 DEF Worlds
<1>7. dhcp_set_state(c, "DHCP_OFF") = c
    BY <1>5, <1>6 DEF dhcp_set_state
<1> HIDE DEF c
<1>8. Sent(t, c, "DHCP_OFF", "RELEASE", None)
    BY <1>6, <1>7, Exchanged DEF States
<1>9. /\ t \in Worlds /\ Few(t.net) /\ t.dhcp.state = "DHCP_OFF"
      /\ t.dhcp.offered_t2_rebind = 0 /\ Carries(t.net, w.net, Message("RELEASE", None))
    BY <1>5, <1>6, <1>8 DEF Sent, SameAgreement
<1> HIDE DEF t
<1>10. kept \in SUBSET Messages /\ Few(kept)
    <2>1. t.net \in SUBSET Messages /\ kept \subseteq t.net
        BY <1>9 DEF Worlds
    <2>2. IsFiniteSet(kept) /\ Cardinality(kept) <= Cardinality(t.net)
        BY <1>9, <2>1, FS_Subset DEF Few
    <2>3. Cardinality(kept) \in Nat /\ Cardinality(t.net) \in Nat /\ MaxNet \in Nat
        BY <1>9, <2>2, FS_CardinalityType, DhcpAssumption DEF Few
    <2> HIDE DEF kept
    <2> QED BY <1>9, <2>1, <2>2, <2>3 DEF Few
<1>11. \A n \in kept : n.kind # "RELEASE" /\ Stays(n, w.net)
    BY <1>9 DEF Carries, Message
<1>12. Unconfigured \in Netifs
    BY DEF Unconfigured, Netifs
<1> HIDE DEF kept
<1>13. v \in Worlds /\ v.dhcp = t.dhcp /\ v.net = kept /\ v.netif = Unconfigured
    BY <1>9, <1>10, <1>12 DEF Worlds
<1> HIDE DEF v
<1> QED BY <1>2, <1>9, <1>10, <1>11, <1>13

-----------------------------------------------------------------------------
(* The invariant. *)

Kind(messages, kind) == \E m \in messages : m.kind = kind

(* An address that is being checked is one that a server gave. *)
Probed(w) == w.dhcp.state = "DHCP_CHECKING" => w.dhcp.offered_ip_addr \in Addresses

(* Types, no RELEASE under way, and a rebinding time that a server gave. *)
Sane(w) ==
    w \in Worlds /\ Few(w.net) /\ ~Kind(w.net, "RELEASE") /\ Timely(w) /\ Probed(w)

Untimed == {"DHCP_OFF", "DHCP_BOUND", "DHCP_RENEWING"}
Timed(w) == w.dhcp.state \notin Untimed => w.dhcp.request_timeout

Idle == {"DHCP_OFF", "DHCP_SELECTING", "DHCP_BACKING_OFF"}
Agreed == {"DHCP_BOUND", "DHCP_RENEWING", "DHCP_REBINDING"}
Renewable == {"DHCP_BOUND", "DHCP_RENEWING"}

Quiet(w) == w.netif.up => w.netif.ip_addr = None

Promised(m, kept) ==
    m.ip \in Addresses /\ kept[m.ip] + (IF m.late THEN 1 ELSE 0) >= Lease
AcksHeld(messages, kept) == \A m \in messages : m.kind = "ACK" => Promised(m, kept)

AboutOffer(messages, offered) ==
    \A m \in messages :
        m.kind = "ACK" \/ (m.kind = "REQUEST" /\ m.current) => m.ip \in {offered, None}

(* The messages under way are about the address the client negotiates. *)
Negotiates(w) ==
    AboutOffer(w.net, w.dhcp.offered_ip_addr) /\ ~Kind(w.net, "DECLINE")

InHand(w) == w.netif.ip_addr \in {w.dhcp.offered_ip_addr, None}

RenewableSoon(w, kept, margin) ==
    w.netif.ip_addr # None =>
        w.dhcp.t2_timeout >= 1 /\ kept[w.netif.ip_addr] >= w.dhcp.t2_timeout + margin
RebindableSoon(w, kept) ==
    w.netif.ip_addr # None => kept[w.netif.ip_addr] + w.short >= 2
CheckableSoon(w, kept) ==
    /\ w.dhcp.offered_ip_addr \in Addresses
    /\ kept[w.dhcp.offered_ip_addr] + w.short + 1 >= Lease

HeldBut(w, kept, margin) ==
    /\ AcksHeld(w.net, kept)
    /\ w.dhcp.state \notin Idle => Negotiates(w)
    /\ w.dhcp.state \in Agreed => InHand(w)
    /\ w.dhcp.state \notin Agreed => Quiet(w)
    /\ w.dhcp.state \in Renewable => RenewableSoon(w, kept, margin)
    /\ w.dhcp.state = "DHCP_REBINDING" => RebindableSoon(w, kept)
    /\ w.dhcp.state = "DHCP_CHECKING" => CheckableSoon(w, kept)

Held(w, kept) == HeldBut(w, kept, 2)

Kept == [Addresses -> 0..Lease]

LongLeases == T2Given /\ ~StaleTimers /\ MaxNet = 1 /\ Ticks(T2) + 4 <= Lease

Fine(w, kept) == Sane(w) /\ (LongLeases => Held(w, kept))
Good(w, kept) == Fine(w, kept) /\ (ServerIdGiven => Timed(w))

-----------------------------------------------------------------------------
(* A lease is a number of ticks. *)
LEMMA LeaseNumber == Lease \in Nat
    BY DhcpAssumption DEF Lease

(* What a message that is sent adds to what is under way. *)
LEMMA CarriedOn ==
    ASSUME NEW after, NEW before, NEW kind \in ToServer, NEW ip,
           Carries(after, before, Message(kind, ip))
    PROVE  /\ ~Kind(before, "RELEASE") => ~Kind(after, "RELEASE")
           /\ kind # "DECLINE" /\ ~Kind(before, "DECLINE") => ~Kind(after, "DECLINE")
           /\ \A kept : AcksHeld(before, kept) => AcksHeld(after, kept)
           /\ \A a : AboutOffer(before, a) /\ (kind = "REQUEST" => ip \in {a, None})
                      => AboutOffer(after, a)
<1> DEFINE new == Message(kind, ip)
<1>1. new.kind = kind /\ new.ip = ip /\ kind # "RELEASE" /\ kind # "ACK"
    BY DEF Message, ToServer
<1>2. \A n \in after : n # new =>
          \E m \in before : n.kind = m.kind /\ n.ip = m.ip /\ n.late = m.late
                           /\ n.current \in {m.current, FALSE}
    BY DEF Carries, Stays
<1> HIDE DEF new
<1>3. \A k : k # kind /\ ~Kind(before, k) => ~Kind(after, k)
    BY <1>1, <1>2 DEF Kind
<1>4. ASSUME NEW kept, AcksHeld(before, kept)
      PROVE  AcksHeld(after, kept)
    <2> SUFFICES ASSUME NEW n \in after, n.kind = "ACK"
                 PROVE  Promised(n, kept)
        BY DEF AcksHeld
    <2>1. PICK m \in before : n.kind = m.kind /\ n.ip = m.ip /\ n.late = m.late
        BY <1>1, <1>2
    <2>2. Promised(m, kept)
        BY <1>4, <2>1 DEF AcksHeld
    <2> QED BY <2>1, <2>2 DEF Promised
<1>5. ASSUME NEW a, AboutOffer(before, a), kind = "REQUEST" => ip \in {a, None}
      PROVE  AboutOffer(after, a)
    <2> SUFFICES ASSUME NEW n \in after, n.kind = "ACK" \/ (n.kind = "REQUEST" /\ n.current)
                 PROVE  n.ip \in {a, None}
        BY DEF AboutOffer
    <2>1. CASE n = new
        BY <2>1, <1>1, <1>5
    <2>2. CASE n # new
        <3>1. PICK m \in before : n.kind = m.kind /\ n.ip = m.ip /\ n.current \in {m.current, FALSE}
            BY <2>2, <1>2
        <3>2. m.kind = "ACK" \/ (m.kind = "REQUEST" /\ m.current)
            BY <3>1
        <3>3. m.ip \in {a, None}
            BY <1>5, <3>2 DEF AboutOffer
        <3> QED BY <3>1, <3>3
    <2> QED BY <2>1, <2>2
<1> QED BY <1>1, <1>3, <1>4, <1>5

(* What holds of all messages holds of fewer. *)
LEMMA FewerMessages ==
    ASSUME NEW before, NEW after, \A n \in after : Stays(n, before)
    PROVE  /\ \A kind : ~Kind(before, kind) => ~Kind(after, kind)
           /\ \A kept : AcksHeld(before, kept) => AcksHeld(after, kept)
           /\ \A a : AboutOffer(before, a) => AboutOffer(after, a)
<1>1. \A n \in after :
          \E m \in before : n.kind = m.kind /\ n.ip = m.ip /\ n.late = m.late
                           /\ n.current \in {m.current, FALSE}
    BY DEF Stays
<1>2. \A kind : ~Kind(before, kind) => ~Kind(after, kind)
    BY <1>1 DEF Kind
<1>3. ASSUME NEW kept, AcksHeld(before, kept)
      PROVE  AcksHeld(after, kept)
    <2> SUFFICES ASSUME NEW n \in after, n.kind = "ACK"
                 PROVE  Promised(n, kept)
        BY DEF AcksHeld
    <2>1. PICK m \in before : n.kind = m.kind /\ n.ip = m.ip /\ n.late = m.late
        BY <1>1
    <2>2. Promised(m, kept)
        BY <1>3, <2>1 DEF AcksHeld
    <2> QED BY <2>1, <2>2 DEF Promised
<1>4. ASSUME NEW a, AboutOffer(before, a)
      PROVE  AboutOffer(after, a)
    <2> SUFFICES ASSUME NEW n \in after, n.kind = "ACK" \/ (n.kind = "REQUEST" /\ n.current)
                 PROVE  n.ip \in {a, None}
        BY DEF AboutOffer
    <2>1. PICK m \in before : n.kind = m.kind /\ n.ip = m.ip /\ n.current \in {m.current, FALSE}
        BY <1>1
    <2>2. m.kind = "ACK" \/ (m.kind = "REQUEST" /\ m.current)
        BY <2>1
    <2>3. m.ip \in {a, None}
        BY <1>4, <2>2 DEF AboutOffer
    <2> QED BY <2>1, <2>3
<1> QED BY <1>2, <1>3, <1>4

(* What discovery needs of the world it starts from. *)
Discoverable(w, kept) ==
    Sane(w) /\ (LongLeases => AcksHeld(w.net, kept) /\ Quiet(w))

(* Discovery ends in a good world. *)
LEMMA DiscoverGood ==
    ASSUME NEW w, NEW kept, Discoverable(w, kept), NEW mem \in BOOLEAN
    PROVE  Good(dhcp_discover(w, mem), kept)
<1> DEFINE v == dhcp_discover(w, mem)
<1>1. w \in Worlds /\ Few(w.net) /\ ~Kind(w.net, "RELEASE") /\ Timely(w)
    BY DEF Discoverable, Sane
<1>2. Looks(v, w)
    BY <1>1, Discovered
<1> HIDE DEF v
<1>3. "DISCOVER" \in ToServer
    BY DEF ToServer
<1>4. /\ ~Kind(v.net, "RELEASE")
      /\ AcksHeld(w.net, kept) => AcksHeld(v.net, kept)
    BY <1>1, <1>2, <1>3, CarriedOn DEF Looks
<1>5. Sane(v)
    BY <1>1, <1>2, <1>4 DEF Looks, Sane, Probed, Timely
<1>6. v.dhcp.state = "DHCP_SELECTING" /\ v.netif = w.netif /\ v.dhcp.request_timeout
    BY <1>2 DEF Looks
<1>7. LongLeases => Held(v, kept)
    BY <1>4, <1>6 DEF Discoverable, Held, HeldBut, Idle, Agreed, Renewable, Quiet
<1> QED BY <1>5, <1>6, <1>7 DEF Good, Fine, Timed, v

(* So does a release, and discovery can follow it. *)
LEMMA ReleaseGood ==
    ASSUME NEW w, NEW kept, Sane(w), LongLeases => AcksHeld(w.net, kept), NEW mem \in BOOLEAN
    PROVE  /\ Good(dhcp_release(w, mem), kept)
           /\ Discoverable(dhcp_release(w, mem), kept)
<1> DEFINE v == dhcp_release(w, mem)
<1>1. w \in Worlds /\ Few(w.net) /\ ~Kind(w.net, "RELEASE")
    BY DEF Sane
<1>2. /\ v \in Worlds /\ Few(v.net) /\ v.dhcp.state = "DHCP_OFF"
      /\ v.netif = Unconfigured /\ v.dhcp.offered_t2_rebind = 0
      /\ \A n \in v.net : n.kind # "RELEASE" /\ Stays(n, w.net)
    BY <1>1, Released
<1> HIDE DEF v
<1>3. Sane(v)
    BY <1>2 DEF Sane, Probed, Kind, Timely
<1>4. LongLeases => AcksHeld(v.net, kept) /\ Quiet(v)
    <2>1. \A n \in v.net : Stays(n, w.net)
        BY <1>2
    <2>2. AcksHeld(w.net, kept) => AcksHeld(v.net, kept)
        BY <2>1, FewerMessages
    <2> QED BY <1>2, <2>2 DEF Quiet, Unconfigured
<1>5. LongLeases => Held(v, kept)
    BY <1>2, <1>4 DEF Held, HeldBut, Idle, Agreed, Renewable
<1> QED BY <1>2, <1>3, <1>4, <1>5 DEF Good, Fine, Timed, Untimed, Discoverable, v

(* A request for the address in negotiation keeps the negotiation. *)
LEMMA RequestCarried ==
    ASSUME NEW w, NEW v, NEW kept, NEW ip, Carries(v.net, w.net, Message("REQUEST", ip)),
           AcksHeld(w.net, kept), Negotiates(w),
           v.dhcp.offered_ip_addr = w.dhcp.offered_ip_addr,
           ip \in {w.dhcp.offered_ip_addr, None}
    PROVE  AcksHeld(v.net, kept) /\ Negotiates(v)
<1> DEFINE after == v.net
<1> DEFINE before == w.net
<1> DEFINE a == w.dhcp.offered_ip_addr
<1>1. /\ Carries(after, before, Message("REQUEST", ip)) /\ AcksHeld(before, kept)
      /\ AboutOffer(before, a) /\ ~Kind(before, "DECLINE") /\ ip \in {a, None}
    BY DEF Negotiates
<1>2. "REQUEST" \in ToServer
    BY DEF ToServer
<1> HIDE DEF after, before, a
<1>3. /\ "REQUEST" # "DECLINE" /\ ~Kind(before, "DECLINE") => ~Kind(after, "DECLINE")
      /\ \A k : AcksHeld(before, k) => AcksHeld(after, k)
      /\ \A b : AboutOffer(before, b) /\ ("REQUEST" = "REQUEST" => ip \in {b, None})
                 => AboutOffer(after, b)
    BY <1>1, <1>2, CarriedOn
<1>4. AcksHeld(after, kept) /\ AboutOffer(after, a) /\ ~Kind(after, "DECLINE")
    BY <1>1, <1>3
<1> QED BY <1>4 DEF Negotiates, after, a

(* A request for the address that is negotiated, before it is used. *)
LEMMA RequestGood ==
    ASSUME NEW w, NEW kept, Sane(w), NEW mem \in BOOLEAN, NEW zero \in BOOLEAN,
           NEW s \in {"DHCP_REQUESTING", "DHCP_REBOOTING"},
           LongLeases => AcksHeld(w.net, kept) /\ Negotiates(w) /\ Quiet(w),
           ~zero \/ w.dhcp.state # s \/ w.dhcp.tries + 1 < TriesMod
    PROVE  Good(Request(w, s, w.dhcp.offered_ip_addr, zero, mem), kept)
<1> DEFINE v == Request(w, s, w.dhcp.offered_ip_addr, zero, mem)
<1> DEFINE a == w.dhcp.offered_ip_addr
<1>1. w \in Worlds /\ Few(w.net) /\ ~Kind(w.net, "RELEASE") /\ Timely(w)
    BY DEF Sane
<1>2. a \in Addresses \cup {None} /\ s \in States
    BY <1>1 DEF Worlds, DhcpRecords, States
<1>3. Sent(v, w, s, "REQUEST", a) /\ v.dhcp.request_timeout
    BY <1>1, <1>2, Requested
<1> HIDE DEF v
<1>4. /\ v \in Worlds /\ Few(v.net) /\ v.dhcp.state = s /\ v.netif = w.netif
      /\ v.dhcp.offered_ip_addr = a /\ v.dhcp.offered_t2_rebind = w.dhcp.offered_t2_rebind
      /\ Carries(v.net, w.net, Message("REQUEST", a))
    BY <1>3 DEF Sent, SameAgreement
<1>5. "REQUEST" \in ToServer
    BY DEF ToServer
<1>6. ~Kind(v.net, "RELEASE")
    BY <1>1, <1>4, <1>5, CarriedOn
<1>7. Sane(v)
    BY <1>1, <1>4, <1>6 DEF Sane, Probed, Timely
<1>8. ASSUME LongLeases
      PROVE  Held(v, kept)
    <2>1. AcksHeld(w.net, kept) /\ Negotiates(w) /\ Quiet(w)
        BY <1>8
    <2>2. AcksHeld(v.net, kept) /\ Negotiates(v)
        BY <2>1, <1>4, RequestCarried
    <2>3. Quiet(v)
        BY <2>1, <1>4 DEF Quiet
    <2> QED BY <2>2, <2>3, <1>4 DEF Held, HeldBut, Agreed, Renewable
<1> QED BY <1>3, <1>7, <1>8 DEF Good, Fine, Timed, v

(* A request for the address in use. *)
LEMMA RenewGood ==
    ASSUME NEW w, NEW kept, Sane(w), NEW mem \in BOOLEAN,
           LongLeases => /\ AcksHeld(w.net, kept) /\ Negotiates(w) /\ InHand(w)
                         /\ RenewableSoon(w, kept, 2)
    PROVE  Good(dhcp_renew(w, mem), kept)
<1> DEFINE v == dhcp_renew(w, mem)
<1> DEFINE a == w.dhcp.offered_ip_addr
<1> DEFINE ip == w.netif.ip_addr
<1>1. w \in Worlds /\ Few(w.net) /\ ~Kind(w.net, "RELEASE") /\ Timely(w)
    BY DEF Sane
<1>2. ip \in Addresses \cup {None} /\ "DHCP_RENEWING" \in States
    BY <1>1 DEF Worlds, Netifs, States
<1>3. Sent(v, w, "DHCP_RENEWING", "REQUEST", ip)
    BY <1>1, <1>2, Requested DEF dhcp_renew
<1> HIDE DEF v
<1>4. /\ v \in Worlds /\ Few(v.net) /\ v.dhcp.state = "DHCP_RENEWING" /\ v.netif = w.netif
      /\ v.dhcp.offered_ip_addr = a /\ v.dhcp.offered_t2_rebind = w.dhcp.offered_t2_rebind
      /\ v.dhcp.t2_timeout = w.dhcp.t2_timeout
      /\ Carries(v.net, w.net, Message("REQUEST", ip))
    BY <1>3 DEF Sent, SameAgreement
<1>5. "REQUEST" \in ToServer
    BY DEF ToServer
<1>6. ~Kind(v.net, "RELEASE")
    BY <1>1, <1>4, <1>5, CarriedOn
<1>7. Sane(v)
    BY <1>1, <1>4, <1>6 DEF Sane, Probed, Timely
<1>8. ASSUME LongLeases
      PROVE  Held(v, kept)
    <2>1. /\ AcksHeld(w.net, kept) /\ Negotiates(w) /\ ip \in {a, None}
          /\ RenewableSoon(w, kept, 2)
        BY <1>8 DEF InHand
    <2>2. AcksHeld(v.net, kept) /\ Negotiates(v)
        BY <2>1, <1>4, RequestCarried
    <2>3. InHand(v) /\ RenewableSoon(v, kept, 2)
        BY <2>1, <1>4 DEF InHand, RenewableSoon
    <2> QED BY <2>2, <2>3, <1>4 DEF Held, HeldBut, Agreed, Renewable
<1> QED BY <1>4, <1>7, <1>8 DEF Good, Fine, Timed, Untimed, v

(* The last request for the address in use, which goes to any server. *)
LEMMA RebindGood ==
    ASSUME NEW w, NEW kept, Sane(w), NEW mem \in BOOLEAN,
           LongLeases => /\ AcksHeld(w.net, kept) /\ Negotiates(w) /\ InHand(w)
                         /\ w.netif.ip_addr # None =>
                                kept[w.netif.ip_addr]
                                    + (IF w.dhcp.state = "DHCP_REBINDING" THEN w.short ELSE 0) >= 2,
           w.dhcp.state # "DHCP_REBINDING" \/ w.dhcp.tries + 1 < TriesMod
    PROVE  Good(dhcp_rebind(w, mem), kept)
<1> DEFINE v == dhcp_rebind(w, mem)
<1> DEFINE a == w.dhcp.offered_ip_addr
<1> DEFINE ip == w.netif.ip_addr
<1>1. w \in Worlds /\ Few(w.net) /\ ~Kind(w.net, "RELEASE") /\ Timely(w)
    BY DEF Sane
<1>2. ip \in Addresses \cup {None} /\ "DHCP_REBINDING" \in States
    BY <1>1 DEF Worlds, Netifs, States
<1>3. Sent(v, w, "DHCP_REBINDING", "REQUEST", ip) /\ v.dhcp.request_timeout
    BY <1>1, <1>2, Requested DEF dhcp_rebind
<1> HIDE DEF v
<1>4. /\ v \in Worlds /\ Few(v.net) /\ v.dhcp.state = "DHCP_REBINDING" /\ v.netif = w.netif
      /\ v.dhcp.offered_ip_addr = a /\ v.dhcp.offered_t2_rebind = w.dhcp.offered_t2_rebind
      /\ v.short = IF w.dhcp.state = "DHCP_REBINDING" THEN w.short ELSE 0
      /\ Carries(v.net, w.net, Message("REQUEST", ip))
    BY <1>3 DEF Sent, SameAgreement
<1>5. "REQUEST" \in ToServer
    BY DEF ToServer
<1>6. ~Kind(v.net, "RELEASE")
    BY <1>1, <1>4, <1>5, CarriedOn
<1>7. Sane(v)
    BY <1>1, <1>4, <1>6 DEF Sane, Probed, Timely
<1>8. ASSUME LongLeases
      PROVE  Held(v, kept)
    <2>1. /\ AcksHeld(w.net, kept) /\ Negotiates(w) /\ ip \in {a, None}
          /\ ip # None => kept[ip] + v.short >= 2
        BY <1>4, <1>8 DEF InHand
    <2>2. AcksHeld(v.net, kept) /\ Negotiates(v)
        BY <2>1, <1>4, RequestCarried
    <2>3. InHand(v) /\ RebindableSoon(v, kept)
        BY <2>1, <1>4 DEF InHand, RebindableSoon
    <2> QED BY <2>2, <2>3, <1>4 DEF Held, HeldBut, Agreed, Renewable
<1> QED BY <1>3, <1>4, <1>7, <1>8 DEF Good, Fine, Timed, Untimed, v

(* An address of another host is declined. *)
LEMMA DeclineGood ==
    ASSUME NEW w, NEW kept, Discoverable(w, kept), NEW mem \in BOOLEAN,
           w.dhcp.offered_ip_addr \in Addresses
    PROVE  Good(dhcp_decline(w, mem), kept)
<1> DEFINE v == dhcp_decline(w, mem)
<1> DEFINE a == w.dhcp.offered_ip_addr
<1>1. w \in Worlds /\ Few(w.net) /\ ~Kind(w.net, "RELEASE") /\ Timely(w)
    BY DEF Discoverable, Sane
<1>2. Sent(v, w, "DHCP_BACKING_OFF", "DECLINE", a) /\ v.dhcp.request_timeout
    BY <1>1, Declined
<1> HIDE DEF v
<1>3. /\ v \in Worlds /\ Few(v.net) /\ v.dhcp.state = "DHCP_BACKING_OFF" /\ v.netif = w.netif
      /\ v.dhcp.offered_t2_rebind = w.dhcp.offered_t2_rebind
      /\ Carries(v.net, w.net, Message("DECLINE", a))
    BY <1>2 DEF Sent, SameAgreement
<1>4. "DECLINE" \in ToServer
    BY DEF ToServer
<1>5. /\ ~Kind(v.net, "RELEASE")
      /\ AcksHeld(w.net, kept) => AcksHeld(v.net, kept)
    BY <1>1, <1>3, <1>4, CarriedOn
<1>6. Sane(v)
    BY <1>1, <1>3, <1>5 DEF Sane, Probed, Timely
<1>7. LongLeases => Held(v, kept)
    BY <1>3, <1>5 DEF Discoverable, Held, HeldBut, Idle, Agreed, Renewable, Quiet
<1> QED BY <1>2, <1>6, <1>7 DEF Good, Fine, Timed, v

(* An acknowledged address is probed. *)
LEMMA CheckGood ==
    ASSUME NEW w, NEW kept, Sane(w), w.dhcp.offered_ip_addr \in Addresses,
           LongLeases =>
               /\ AcksHeld(w.net, kept) /\ Negotiates(w) /\ Quiet(w)
               /\ w.dhcp.offered_ip_addr \in Addresses
               /\ kept[w.dhcp.offered_ip_addr]
                      + (IF w.dhcp.state = "DHCP_CHECKING" THEN w.short ELSE 0) + 1 >= Lease
    PROVE  Good(dhcp_check(w), kept)
<1> DEFINE v == dhcp_check(w)
<1> DEFINE a == w.dhcp.offered_ip_addr
<1>1. w \in Worlds /\ Few(w.net) /\ ~Kind(w.net, "RELEASE") /\ Timely(w)
    BY DEF Sane
<1>2. /\ v \in Worlds /\ v.dhcp.state = "DHCP_CHECKING" /\ SameAgreement(v, w)
      /\ v.net = w.net /\ v.dhcp.request_timeout
      /\ v.short = IF w.dhcp.state = "DHCP_CHECKING" THEN w.short ELSE 0
    BY <1>1, Checked
<1> HIDE DEF v
<1>3. /\ v.netif = w.netif /\ v.dhcp.offered_ip_addr = a
      /\ v.dhcp.offered_t2_rebind = w.dhcp.offered_t2_rebind
    BY <1>2 DEF SameAgreement
<1>4. Sane(v)
    BY <1>1, <1>2, <1>3 DEF Sane, Probed, Timely
<1>5. ASSUME LongLeases
      PROVE  Held(v, kept)
    <2>1. AcksHeld(v.net, kept) /\ Negotiates(v) /\ Quiet(v)
        BY <1>2, <1>3, <1>5 DEF Negotiates, Quiet
    <2>2. CheckableSoon(v, kept)
        BY <1>2, <1>3, <1>5 DEF CheckableSoon
    <2> QED BY <2>1, <2>2, <1>2 DEF Held, HeldBut, Agreed, Renewable
<1> QED BY <1>2, <1>4, <1>5 DEF Good, Fine, Timed, v

(* An address is bound at most two ticks after the server gave it. *)
LEMMA BindGood ==
    ASSUME NEW w, NEW kept \in Kept, Sane(w),
           LongLeases =>
               /\ AcksHeld(w.net, kept) /\ Negotiates(w)
               /\ w.dhcp.offered_ip_addr \in Addresses
               /\ kept[w.dhcp.offered_ip_addr] + 2 >= Lease
    PROVE  Good(dhcp_bind(w), kept)
<1> DEFINE v == dhcp_bind(w)
<1> DEFINE a == w.dhcp.offered_ip_addr
<1>1. w \in Worlds /\ Few(w.net) /\ ~Kind(w.net, "RELEASE") /\ Timely(w)
    BY DEF Sane
<1>2. /\ v \in Worlds /\ v.dhcp.state = "DHCP_BOUND" /\ v.net = w.net
      /\ v.netif.up /\ v.netif.ip_addr = a
      /\ v.dhcp.offered_ip_addr = a
      /\ v.dhcp.offered_t2_rebind = w.dhcp.offered_t2_rebind
      /\ v.dhcp.t2_timeout = Ticks(w.dhcp.offered_t2_rebind)
    BY <1>1, Bound
<1> HIDE DEF v
<1>3. Sane(v)
    BY <1>1, <1>2 DEF Sane, Probed, Timely
<1>4. ASSUME LongLeases
      PROVE  Held(v, kept)
    <2>1. AcksHeld(v.net, kept) /\ Negotiates(v) /\ InHand(v)
        BY <1>2, <1>4 DEF Negotiates, InHand
    <2>2. w.dhcp.offered_t2_rebind \in {0, T2} /\ Ticks(T2) + 4 <= Lease
        BY <1>1, <1>4 DEF Timely, LongLeases
    <2>3. Ticks(0) = 1 /\ Ticks(T2) \in Nat /\ Ticks(T2) >= 1
        BY TicksOfNothing, TicksPositive, DhcpAssumption
    <2>4. a \in Addresses /\ kept[a] \in Nat /\ Lease \in Nat /\ kept[a] + 2 >= Lease
        BY <1>4, LeaseNumber DEF Kept
    <2>5. v.dhcp.t2_timeout >= 1 /\ v.dhcp.t2_timeout + 4 <= Lease
        <3>1. CASE w.dhcp.offered_t2_rebind = 0
            BY <3>1, <1>2, <2>2, <2>3, <2>4
        <3>2. CASE w.dhcp.offered_t2_rebind = T2
            BY <3>2, <1>2, <2>2, <2>3
        <3> QED BY <3>1, <3>2, <2>2
    <2>6. v.dhcp.t2_timeout \in Nat
        BY <1>2, <2>2, <2>3
    <2>7. kept[v.netif.ip_addr] >= v.dhcp.t2_timeout + 2
        BY <1>2, <2>4, <2>5, <2>6
    <2>8. RenewableSoon(v, kept, 2)
        BY <2>5, <2>7 DEF RenewableSoon
    <2> QED BY <2>1, <2>8, <1>2 DEF Held, HeldBut, Agreed, Renewable
<1> QED BY <1>2, <1>3, <1>4 DEF Good, Fine, Timed, Untimed, v

(* The fields that the composite operations set. *)
LEMMA Unconfiguring ==
    ASSUME NEW w \in Worlds
    PROVE  LET v == [w EXCEPT !.netif = Unconfigured]
           IN  /\ v \in Worlds /\ v.dhcp = w.dhcp /\ v.net = w.net /\ v.netif = Unconfigured
<1>1. Unconfigured \in Netifs
    BY DEF Unconfigured, Netifs
<1> QED BY <1>1 DEF Worlds

(* Only the request timeout stops. *)
LEMMA TimeoutStopped ==
    ASSUME NEW w \in Worlds
    PROVE  LET v == [w EXCEPT !.dhcp.request_timeout = FALSE]
           IN  /\ v \in Worlds /\ v.netif = w.netif /\ v.net = w.net /\ v.short = w.short
               /\ SameAgreement(v, w) /\ v.dhcp.state = w.dhcp.state
               /\ v.dhcp.tries = w.dhcp.tries
<1> DEFINE v == [w EXCEPT !.dhcp.request_timeout = FALSE]
<1> DEFINE d == [w.dhcp EXCEPT !.request_timeout = FALSE]
<1>1. w.dhcp \in DhcpRecords
    BY DEF Worlds
<1>2. v = [w EXCEPT !.dhcp = d]
    BY <1>1 DEF Worlds
<1>3. /\ d \in DhcpRecords /\ d.state = w.dhcp.state /\ d.tries = w.dhcp.tries
      /\ d.offered_ip_addr = w.dhcp.offered_ip_addr
      /\ d.offered_t1_renew = w.dhcp.offered_t1_renew
      /\ d.offered_t2_rebind = w.dhcp.offered_t2_rebind
      /\ d.t1_timeout = w.dhcp.t1_timeout /\ d.t2_timeout = w.dhcp.t2_timeout
    BY <1>1 DEF DhcpRecords
<1> HIDE DEF d
<1>4. v \in Worlds /\ v.dhcp = d /\ v.netif = w.netif /\ v.net = w.net /\ v.short = w.short
    BY <1>2, <1>3 DEF Worlds
<1> HIDE DEF v
<1>5. SameAgreement(v, w)
    BY <1>3, <1>4 DEF SameAgreement
<1> QED BY <1>3, <1>4, <1>5 DEF v

(* A refusal takes the address away. *)
LEMMA NakGood ==
    ASSUME NEW w, NEW kept, Sane(w), LongLeases => AcksHeld(w.net, kept), NEW mem \in BOOLEAN
    PROVE  Good(dhcp_handle_nak(w, mem), kept)
<1> DEFINE u == [w EXCEPT !.netif = Unconfigured]
<1> DEFINE v == dhcp_set_state(u, "DHCP_BACKING_OFF")
<1>1. w \in Worlds /\ Few(w.net) /\ ~Kind(w.net, "RELEASE") /\ Timely(w)
    BY DEF Sane
<1>2. u \in Worlds /\ u.dhcp = w.dhcp /\ u.net = w.net /\ u.netif = Unconfigured
    BY <1>1, Unconfiguring
<1>3. dhcp_handle_nak(w, mem) = dhcp_discover(v, mem)
    BY DEF dhcp_handle_nak
<1> HIDE DEF u
<1>4. /\ v \in Worlds /\ v.net = w.net /\ v.netif = Unconfigured
      /\ v.dhcp.state = "DHCP_BACKING_OFF"
      /\ v.dhcp.offered_t2_rebind = w.dhcp.offered_t2_rebind
    BY <1>2, StateSet DEF States
<1> HIDE DEF v
<1>5. Discoverable(v, kept)
    BY <1>1, <1>4 DEF Discoverable, Sane, Probed, Timely, Quiet, Unconfigured
<1> QED BY <1>3, <1>5, DiscoverGood

(* With one message under way, an OFFER that arrives is alone. *)
LEMMA OfferGood ==
    ASSUME NEW w, NEW kept, Fine(w, kept), w.dhcp.state = "DHCP_SELECTING",
           NEW ip \in Addresses \cup {None}, NEW server_id \in BOOLEAN, NEW mem \in BOOLEAN,
           ServerIdGiven => server_id,
           LongLeases => \A n \in w.net : n.kind = "OFFER"
    PROVE  Good(dhcp_handle_offer(w, ip, server_id, mem), kept)
<1> DEFINE v == [w EXCEPT !.dhcp.request_timeout = FALSE]
<1> DEFINE u == [v EXCEPT !.dhcp.offered_ip_addr = ip]
<1>1. /\ w \in Worlds /\ Few(w.net) /\ ~Kind(w.net, "RELEASE") /\ Timely(w)
      /\ LongLeases => AcksHeld(w.net, kept) /\ Quiet(w)
    BY DEF Fine, Sane, Held, HeldBut, Agreed
<1>2. /\ v \in Worlds /\ v.netif = w.netif /\ v.net = w.net
      /\ v.dhcp.state = "DHCP_SELECTING"
      /\ v.dhcp.offered_t2_rebind = w.dhcp.offered_t2_rebind
    BY <1>1, TimeoutStopped DEF SameAgreement
<1>3. dhcp_handle_offer(w, ip, server_id, mem) = IF server_id THEN dhcp_select(u, mem) ELSE v
    BY DEF dhcp_handle_offer
<1> HIDE DEF v
<1>4. /\ u \in Worlds /\ u.netif = w.netif /\ u.net = w.net
      /\ u.dhcp.state = "DHCP_SELECTING"
      /\ u.dhcp.offered_t2_rebind = w.dhcp.offered_t2_rebind
    BY <1>2, OfferSet
<1> HIDE DEF u
<1>5. Sane(u) /\ Sane(v)
    BY <1>1, <1>2, <1>4 DEF Sane, Probed, Timely
<1>6. CASE server_id
    <2>1. LongLeases => AcksHeld(u.net, kept) /\ Negotiates(u) /\ Quiet(u)
        BY <1>1, <1>4 DEF Negotiates, AboutOffer, Kind, Quiet
    <2>2. dhcp_select(u, mem)
              = Request(u, "DHCP_REQUESTING", u.dhcp.offered_ip_addr, FALSE, mem)
        BY DEF dhcp_select
    <2>3. Good(dhcp_select(u, mem), kept)
        BY <1>5, <2>1, <2>2, RequestGood
    <2> QED BY <1>3, <1>6, <2>3
<1>7. CASE ~server_id
    <2>1. LongLeases => Held(v, kept)
        BY <1>1, <1>2 DEF Held, HeldBut, Idle, Agreed, Renewable, Quiet
    <2> QED BY <1>3, <1>5, <1>7, <2>1 DEF Good, Fine
<1> QED BY <1>6, <1>7

Waiting == {"DHCP_REBOOTING", "DHCP_REBINDING", "DHCP_RENEWING"}

(* What arrives is one of the messages that were under way. *)
LEMMA RecvGood ==
    ASSUME NEW w, NEW kept \in Kept, Good(w, kept), NEW m \in Messages,
           NEW server_id \in BOOLEAN, NEW mem \in BOOLEAN,
           ServerIdGiven => server_id,
           LongLeases /\ m.kind = "ACK" => Promised(m, kept),
           LongLeases => w.net \subseteq {m},
           LongLeases /\ m.kind = "ACK" /\ w.dhcp.state \notin Idle
               => m.ip \in {w.dhcp.offered_ip_addr, None}
    PROVE  Good(dhcp_recv(w, m, server_id, mem), kept)
<1> DEFINE r == dhcp_recv(w, m, server_id, mem)
<1>1. /\ w \in Worlds /\ Few(w.net) /\ ~Kind(w.net, "RELEASE") /\ Timely(w) /\ Sane(w)
      /\ LongLeases => Held(w, kept)
    BY DEF Good, Fine, Sane
<1>2. m.ip \in Addresses \cup {None}
    BY DEF Messages
<1>3. Lease \in Nat /\ \A a \in Addresses : kept[a] \in Nat
    BY LeaseNumber DEF Kept
<1>4. ASSUME LongLeases, m.kind = "ACK"
      PROVE  m.ip \in Addresses /\ m.ip # None /\ kept[m.ip] + 1 >= Lease
    BY <1>3, <1>4, DhcpAssumption DEF Promised
<1>5. CASE m.kind = "ACK" /\ w.dhcp.state = "DHCP_REQUESTING"
    <2> DEFINE v == dhcp_handle_ack(w, m.ip)
    <2>1. r = IF DHCP_DOES_ARP_CHECK THEN dhcp_check(v) ELSE dhcp_bind(v)
        BY <1>5 DEF dhcp_recv
    <2>2. /\ v \in Worlds /\ v.netif = w.netif /\ v.net = w.net
          /\ v.dhcp.state = "DHCP_REQUESTING" /\ v.dhcp.offered_ip_addr = m.ip
          /\ v.dhcp.offered_t2_rebind = IF T2Given THEN T2 ELSE T0
        BY <1>1, <1>2, <1>5, Acknowledged
    <2> HIDE DEF v, r
    <2>0. v.dhcp.offered_ip_addr \in Addresses
        BY <1>5, <2>2 DEF Messages
    <2>3. Sane(v)
        BY <1>1, <2>2 DEF Sane, Probed, Timely
    <2>4. ASSUME LongLeases
          PROVE  /\ AcksHeld(v.net, kept) /\ Negotiates(v) /\ Quiet(v)
                 /\ v.dhcp.offered_ip_addr \in Addresses
                 /\ kept[v.dhcp.offered_ip_addr] + 1 >= Lease
        <3>1. AcksHeld(v.net, kept) /\ Quiet(v) /\ v.net \subseteq {m}
            BY <1>1, <1>5, <2>2, <2>4 DEF Held, HeldBut, Agreed, Quiet
        <3>2. Negotiates(v)
            BY <1>5, <2>2, <3>1 DEF Negotiates, AboutOffer, Kind
        <3> QED BY <1>4, <1>5, <2>2, <2>4, <3>1, <3>2
    <2>5. ASSUME LongLeases
          PROVE  kept[v.dhcp.offered_ip_addr] + 2 >= Lease
        BY <2>4, <2>5, <1>3
    <2>6. ASSUME LongLeases
          PROVE  kept[v.dhcp.offered_ip_addr]
                     + (IF v.dhcp.state = "DHCP_CHECKING" THEN v.short ELSE 0) + 1 >= Lease
        BY <2>2, <2>4, <2>6, <1>3
    <2>7. Good(dhcp_check(v), kept)
        BY <2>0, <2>3, <2>4, <2>6, CheckGood
    <2>8. Good(dhcp_bind(v), kept)
        BY <2>3, <2>4, <2>5, BindGood
    <2> QED BY <2>1, <2>7, <2>8 DEF r
<1>6. CASE m.kind = "ACK" /\ w.dhcp.state \in Waiting
    <2>1. r = dhcp_bind(w)
        BY <1>6 DEF dhcp_recv, Waiting
    <2> HIDE DEF r
    <2>2. ASSUME LongLeases
          PROVE  /\ AcksHeld(w.net, kept) /\ Negotiates(w)
                 /\ w.dhcp.offered_ip_addr \in Addresses
                 /\ kept[w.dhcp.offered_ip_addr] + 2 >= Lease
        <3>1. AcksHeld(w.net, kept) /\ Negotiates(w)
            BY <1>1, <1>6, <2>2 DEF Held, HeldBut, Idle, Waiting
        <3>2. w.dhcp.offered_ip_addr = m.ip
            BY <1>4, <1>6, <2>2 DEF Idle, Waiting
        <3>3. m.ip \in Addresses /\ kept[m.ip] + 1 >= Lease
            BY <1>4, <1>6, <2>2
        <3> QED BY <3>1, <3>2, <3>3, <1>3
    <2>3. Good(dhcp_bind(w), kept)
        BY <1>1, <2>2, BindGood
    <2> QED BY <2>1, <2>3 DEF r
<1>7. CASE m.kind = "NAK" /\ w.dhcp.state \in Waiting \cup {"DHCP_REQUESTING"}
    <2>1. r = dhcp_handle_nak(w, mem)
        BY <1>7 DEF dhcp_recv, Waiting
    <2> HIDE DEF r
    <2>2. LongLeases => AcksHeld(w.net, kept)
        BY <1>1 DEF Held, HeldBut
    <2>3. Good(dhcp_handle_nak(w, mem), kept)
        BY <1>1, <2>2, NakGood
    <2> QED BY <2>1, <2>3 DEF r
<1>8. CASE m.kind = "OFFER" /\ w.dhcp.state = "DHCP_SELECTING"
    <2>1. r = dhcp_handle_offer(w, m.ip, server_id, mem)
        BY <1>8 DEF dhcp_recv
    <2> HIDE DEF r
    <2>2. Fine(w, kept)
        BY DEF Good
    <2>3. LongLeases => \A n \in w.net : n.kind = "OFFER"
        BY <1>8
    <2>4. Good(dhcp_handle_offer(w, m.ip, server_id, mem), kept)
        BY <1>2, <1>8, <2>2, <2>3, OfferGood
    <2> QED BY <2>1, <2>4 DEF r
<1>9. CASE /\ ~(m.kind = "ACK" /\ w.dhcp.state = "DHCP_REQUESTING")
           /\ ~(m.kind = "ACK" /\ w.dhcp.state \in Waiting)
           /\ ~(m.kind = "NAK" /\ w.dhcp.state \in Waiting \cup {"DHCP_REQUESTING"})
           /\ ~(m.kind = "OFFER" /\ w.dhcp.state = "DHCP_SELECTING")
    <2>1. r = w
        BY <1>9 DEF dhcp_recv, Waiting
    <2> QED BY <2>1
<1> QED BY <1>5, <1>6, <1>7, <1>8, <1>9

(* Release and discover. *)
LEMMA RestartGood ==
    ASSUME NEW w, NEW kept, Fine(w, kept), NEW mem \in BOOLEAN, NEW mem2 \in BOOLEAN
    PROVE  Good(Restart(w, mem, mem2), kept)
<1>1. Sane(w) /\ (LongLeases => AcksHeld(w.net, kept))
    BY DEF Fine, Held, HeldBut
<1>2. Discoverable(dhcp_release(w, mem), kept)
    BY <1>1, ReleaseGood
<1> QED BY <1>2, DiscoverGood DEF Restart

(* Every case of dhcp_timeout. *)
LEMMA TimeoutGood ==
    ASSUME NEW w, NEW kept \in Kept, Fine(w, kept), NEW mem \in BOOLEAN, NEW mem2 \in BOOLEAN
    PROVE  Good(dhcp_timeout(w, mem, mem2), kept)
<1> DEFINE r == dhcp_timeout(w, mem, mem2)
<1>1. /\ w \in Worlds /\ w.dhcp \in DhcpRecords /\ Sane(w) /\ w.dhcp.state \in States
      /\ LongLeases => Held(w, kept)
    BY DEF Fine, Sane, Worlds, DhcpRecords
<1>2. /\ w.dhcp.tries \in Nat /\ w.dhcp.offered_ip_addr \in Addresses \cup {None}
      /\ w.short \in 0..1
    BY <1>1 DEF Worlds, DhcpRecords
<1>3. /\ Lease \in Nat /\ \A a \in Addresses : kept[a] \in Nat
      /\ RebindTries \in Nat /\ REBOOT_TRIES \in Nat /\ TriesMod \in Nat
      /\ RebindTries + 1 < TriesMod /\ REBOOT_TRIES + 1 < TriesMod
    BY LeaseNumber, DhcpAssumption DEF Kept
<1>4. Good(Restart(w, mem, mem2), kept)
    BY RestartGood
<1>5. ASSUME w.dhcp.state \in {"DHCP_BACKING_OFF", "DHCP_SELECTING", "DHCP_REBOOTING"}
      PROVE  Good(dhcp_discover(w, mem), kept)
    <2>1. Discoverable(w, kept)
        BY <1>1, <1>5 DEF Discoverable, Held, HeldBut, Agreed
    <2> QED BY <2>1, DiscoverGood
<1>6. ASSUME w.dhcp.state \in {"DHCP_REQUESTING", "DHCP_REBOOTING", "DHCP_CHECKING"}, LongLeases
      PROVE  AcksHeld(w.net, kept) /\ Negotiates(w) /\ Quiet(w)
    BY <1>1, <1>6 DEF Held, HeldBut, Agreed, Idle
<1>7. ASSUME w.dhcp.state \in {"DHCP_RENEWING", "DHCP_REBINDING"}, LongLeases
      PROVE  AcksHeld(w.net, kept) /\ Negotiates(w) /\ InHand(w)
    BY <1>1, <1>7 DEF Held, HeldBut, Agreed, Idle
<1>8. CASE w.dhcp.state \in Discovering
    BY <1>8, <1>5 DEF dhcp_timeout, Discovering
<1>9. CASE w.dhcp.state = "DHCP_REQUESTING"
    <2>1. r = IF w.dhcp.tries <= RequestTries THEN dhcp_select(w, mem)
              ELSE Restart(w, mem, mem2)
        BY <1>9 DEF dhcp_timeout, Discovering
    <2> HIDE DEF r
    <2>2. Good(dhcp_select(w, mem), kept)
        BY <1>1, <1>6, <1>9, RequestGood DEF dhcp_select
    <2> QED BY <2>1, <2>2, <1>4 DEF r
<1>10. CASE w.dhcp.state = "DHCP_CHECKING"
    <2>1. r = IF w.dhcp.tries <= 1 THEN dhcp_check(w) ELSE dhcp_bind(w)
        BY <1>10 DEF dhcp_timeout, Discovering
    <2> HIDE DEF r
    <2>2. ASSUME LongLeases
          PROVE  /\ w.dhcp.offered_ip_addr \in Addresses
                 /\ kept[w.dhcp.offered_ip_addr] + w.short + 1 >= Lease
        BY <1>1, <1>10, <2>2 DEF Held, HeldBut, CheckableSoon
    <2>6. w.dhcp.offered_ip_addr \in Addresses
        BY <1>1, <1>10 DEF Sane, Probed
    <2>3. Good(dhcp_check(w), kept)
        BY <1>1, <1>6, <1>10, <2>2, <2>6, CheckGood
    <2>4. ASSUME LongLeases
          PROVE  kept[w.dhcp.offered_ip_addr] + 2 >= Lease
        BY <1>2, <1>3, <2>2, <2>4
    <2>5. Good(dhcp_bind(w), kept)
        BY <1>1, <1>6, <1>10, <2>2, <2>4, BindGood
    <2> QED BY <2>1, <2>3, <2>5 DEF r
<1>11. CASE w.dhcp.state = "DHCP_RENEWING"
    <2>1. r = dhcp_renew(w, mem)
        BY <1>11 DEF dhcp_timeout, Discovering
    <2> HIDE DEF r
    <2>2. LongLeases => RenewableSoon(w, kept, 2)
        BY <1>1, <1>11 DEF Held, HeldBut, Renewable
    <2>3. Good(dhcp_renew(w, mem), kept)
        BY <1>1, <1>7, <1>11, <2>2, RenewGood
    <2> QED BY <2>1, <2>3 DEF r
<1>12. CASE w.dhcp.state = "DHCP_REBINDING"
    <2>1. r = IF w.dhcp.tries <= RebindTries THEN dhcp_rebind(w, mem)
              ELSE Restart(w, mem, mem2)
        BY <1>12 DEF dhcp_timeout, Discovering
    <2> HIDE DEF r
    <2>2. ASSUME LongLeases
          PROVE  w.netif.ip_addr # None => kept[w.netif.ip_addr] + w.short >= 2
        BY <1>1, <1>12, <2>2 DEF Held, HeldBut, RebindableSoon
    <2>3. ASSUME w.dhcp.tries <= RebindTries
          PROVE  Good(dhcp_rebind(w, mem), kept)
        <3>1. w.dhcp.tries + 1 < TriesMod
            BY <1>2, <1>3, <2>3
        <3> QED BY <3>1, <1>1, <1>7, <1>12, <2>2, RebindGood
    <2> QED BY <2>1, <2>3, <1>4 DEF r
<1>13. CASE w.dhcp.state = "DHCP_REBOOTING"
    <2>1. r = IF w.dhcp.tries < REBOOT_TRIES THEN dhcp_reboot(w, mem) ELSE dhcp_discover(w, mem)
        BY <1>13 DEF dhcp_timeout, Discovering
    <2> HIDE DEF r
    <2>2. ASSUME w.dhcp.tries < REBOOT_TRIES
          PROVE  Good(dhcp_reboot(w, mem), kept)
        <3>1. w.dhcp.tries + 1 < TriesMod
            BY <1>2, <1>3, <2>2
        <3> QED BY <3>1, <1>1, <1>6, <1>13, RequestGood DEF dhcp_reboot
    <2> QED BY <2>1, <2>2, <1>5, <1>13 DEF r
<1>14. CASE w.dhcp.state \in {"DHCP_OFF", "DHCP_BOUND"}
    <2>1. r = w
        BY <1>14 DEF dhcp_timeout, Discovering
    <2> QED BY <2>1, <1>14 DEF Good, Timed, Untimed
<1> QED BY <1>1, <1>8, <1>9, <1>10, <1>11, <1>12, <1>13, <1>14 DEF States, Discovering

-----------------------------------------------------------------------------
(* Timers. *)

(* v is w with its rebinding timer at x, and perhaps another renewal timer. *)
Wound(v, w, x) ==
    /\ v \in Worlds /\ v.netif = w.netif /\ v.net = w.net /\ v.short = w.short
    /\ v.dhcp.t2_timeout = x /\ v.dhcp.state = w.dhcp.state
    /\ v.dhcp.offered_ip_addr = w.dhcp.offered_ip_addr
    /\ v.dhcp.offered_t2_rebind = w.dhcp.offered_t2_rebind
    /\ v.dhcp.request_timeout = w.dhcp.request_timeout

(* Only the rebinding timer is set. *)
LEMMA T2Set ==
    ASSUME NEW w \in Worlds, NEW x \in 0..TimerMod - 1
    PROVE  Wound([w EXCEPT !.dhcp.t2_timeout = x], w, x)
<1> DEFINE v == [w EXCEPT !.dhcp.t2_timeout = x]
<1> DEFINE d == [w.dhcp EXCEPT !.t2_timeout = x]
<1>1. w.dhcp \in DhcpRecords
    BY DEF Worlds
<1>2. v = [w EXCEPT !.dhcp = d]
    BY <1>1 DEF Worlds
<1>3. /\ d \in DhcpRecords /\ d.t2_timeout = x /\ d.state = w.dhcp.state
      /\ d.offered_ip_addr = w.dhcp.offered_ip_addr
      /\ d.offered_t2_rebind = w.dhcp.offered_t2_rebind
      /\ d.request_timeout = w.dhcp.request_timeout
    BY <1>1 DEF DhcpRecords
<1> HIDE DEF d
<1>4. v \in Worlds /\ v.dhcp = d /\ v.netif = w.netif /\ v.net = w.net /\ v.short = w.short
    BY <1>2, <1>3 DEF Worlds
<1> HIDE DEF v
<1>5. Wound(v, w, x)
    BY <1>3, <1>4 DEF Wound
<1> QED BY <1>5 DEF v

(* Only the renewal timer is set. *)
LEMMA T1Set ==
    ASSUME NEW w \in Worlds, NEW y \in 0..TimerMod - 1
    PROVE  Wound([w EXCEPT !.dhcp.t1_timeout = y], w, w.dhcp.t2_timeout)
<1> DEFINE v == [w EXCEPT !.dhcp.t1_timeout = y]
<1> DEFINE d == [w.dhcp EXCEPT !.t1_timeout = y]
<1>1. w.dhcp \in DhcpRecords
    BY DEF Worlds
<1>2. v = [w EXCEPT !.dhcp = d]
    BY <1>1 DEF Worlds
<1>3. /\ d \in DhcpRecords /\ d.t2_timeout = w.dhcp.t2_timeout /\ d.state = w.dhcp.state
      /\ d.offered_ip_addr = w.dhcp.offered_ip_addr
      /\ d.offered_t2_rebind = w.dhcp.offered_t2_rebind
      /\ d.request_timeout = w.dhcp.request_timeout
    BY <1>1 DEF DhcpRecords
<1> HIDE DEF d
<1>4. v \in Worlds /\ v.dhcp = d /\ v.netif = w.netif /\ v.net = w.net /\ v.short = w.short
    BY <1>2, <1>3 DEF Worlds
<1> HIDE DEF v
<1>5. Wound(v, w, w.dhcp.t2_timeout)
    BY <1>3, <1>4 DEF Wound
<1> QED BY <1>5 DEF v

(* The timers run down to zero, and from there wrap. *)
LEMMA DecrementedIs ==
    ASSUME NEW t \in 0..TimerMod - 1
    PROVE  /\ Decremented(t) \in 0..TimerMod - 1
           /\ t >= 1 => Decremented(t) = t - 1
<1>1. TimerMod \in Nat /\ TimerMod > 1
    BY Widths
<1>2. CASE t = 0
    BY <1>1, <1>2 DEF Decremented
<1>3. CASE t >= 1
    <2>1. t + TimerMod - 1 = (t - 1) + TimerMod /\ t - 1 \in 0..TimerMod - 1
        BY <1>1, <1>3
    <2>2. ((t - 1) + TimerMod) % TimerMod = t - 1
        BY <1>1, <2>1
    <2> QED BY <1>1, <2>1, <2>2, <1>3 DEF Decremented
<1> QED BY <1>2, <1>3

(* A minute has passed for the server, and not yet for the timers. *)
LEMMA TimersGood ==
    ASSUME NEW w, NEW kept \in Kept, Sane(w), ServerIdGiven => Timed(w), NEW mem \in BOOLEAN,
           LongLeases => HeldBut(w, kept, 1),
           LongLeases /\ w.dhcp.state = "DHCP_REQUESTING" =>
               w.netif.ip_addr = None \/ 1 \notin {w.dhcp.t1_timeout, w.dhcp.t2_timeout}
    PROVE  Good(CoarseTimers(w, mem), kept)
<1> DEFINE t1 == w.dhcp.t1_timeout
<1> DEFINE t2 == w.dhcp.t2_timeout
<1> DEFINE x == Decremented(t2)
<1> DEFINE y == Decremented(t1)
<1> DEFINE v == [w EXCEPT !.dhcp.t2_timeout = x]
<1> DEFINE u == [v EXCEPT !.dhcp.t1_timeout = y]
<1>1. /\ w \in Worlds /\ Few(w.net) /\ ~Kind(w.net, "RELEASE") /\ Timely(w)
      /\ w.dhcp \in DhcpRecords /\ w.netif \in Netifs
    BY DEF Sane, Worlds
<1>2. t1 \in 0..TimerMod - 1 /\ t2 \in 0..TimerMod - 1
    BY <1>1 DEF DhcpRecords
<1>3. y \in 0..TimerMod - 1 /\ x \in 0..TimerMod - 1 /\ (t2 >= 1 => x = t2 - 1)
    BY <1>2, DecrementedIs
<1>4. CoarseTimers(w, mem) = IF t2 = 1 THEN dhcp_t2_timeout(v, mem)
                             ELSE IF t1 = 1 THEN dhcp_t1_timeout(u, mem) ELSE u
    BY DEF CoarseTimers
<1> HIDE DEF x, y
<1>5. /\ v \in Worlds /\ v.netif = w.netif /\ v.net = w.net /\ v.short = w.short
      /\ v.dhcp.t2_timeout = x /\ v.dhcp.state = w.dhcp.state
      /\ v.dhcp.offered_ip_addr = w.dhcp.offered_ip_addr
      /\ v.dhcp.offered_t2_rebind = w.dhcp.offered_t2_rebind
      /\ v.dhcp.request_timeout = w.dhcp.request_timeout
      /\ u \in Worlds /\ u.netif = w.netif /\ u.net = w.net /\ u.short = w.short
      /\ u.dhcp.t2_timeout = x /\ u.dhcp.state = w.dhcp.state
      /\ u.dhcp.offered_ip_addr = w.dhcp.offered_ip_addr
      /\ u.dhcp.offered_t2_rebind = w.dhcp.offered_t2_rebind
      /\ u.dhcp.request_timeout = w.dhcp.request_timeout
    <2>1. Wound(v, w, x)
        BY <1>1, <1>3, T2Set
    <2> HIDE DEF v
    <2>2. Wound(u, v, v.dhcp.t2_timeout)
        BY <1>3, <2>1, T1Set DEF Wound
    <2> HIDE DEF u
    <2> QED BY <2>1, <2>2 DEF Wound
<1> HIDE DEF v, u
<1>6. Sane(v) /\ Sane(u) /\ (ServerIdGiven => Timed(v) /\ Timed(u))
    BY <1>1, <1>5 DEF Sane, Probed, Timely, Timed
<1>7. w.netif.ip_addr # None => kept[w.netif.ip_addr] \in Nat
    BY <1>1 DEF Kept, Netifs
<1>8. ASSUME LongLeases
      PROVE  /\ AcksHeld(w.net, kept)
             /\ w.dhcp.state \notin Idle => Negotiates(w)
             /\ w.dhcp.state \in Agreed => InHand(w)
             /\ w.dhcp.state \notin Agreed => Quiet(w)
             /\ w.dhcp.state \in Renewable /\ w.netif.ip_addr # None =>
                     t2 >= 1 /\ kept[w.netif.ip_addr] >= t2 + 1
             /\ w.dhcp.state = "DHCP_REBINDING" => RebindableSoon(w, kept)
             /\ w.dhcp.state = "DHCP_CHECKING" => CheckableSoon(w, kept)
    BY <1>8 DEF HeldBut, RenewableSoon
<1>9. CASE t2 = 1
    <2>1. CASE w.dhcp.state \in Leasing
        <3>1. dhcp_t2_timeout(v, mem) = dhcp_rebind(v, mem)
            BY <1>5, <2>1 DEF dhcp_t2_timeout
        <3>2. w.dhcp.state # "DHCP_REBINDING"
            BY <2>1 DEF Leasing
        <3>3. ASSUME LongLeases
              PROVE  /\ AcksHeld(v.net, kept) /\ Negotiates(v) /\ InHand(v)
                     /\ v.netif.ip_addr # None => kept[v.netif.ip_addr] >= 2
            <4>1. AcksHeld(v.net, kept) /\ Negotiates(v)
                BY <1>5, <1>8, <2>1, <3>3 DEF Leasing, Idle, Negotiates
            <4>2. CASE w.dhcp.state = "DHCP_REQUESTING"
                <5>1. v.netif.ip_addr = None
                    BY <1>5, <1>9, <3>3, <4>2
                <5> QED BY <4>1, <5>1 DEF InHand
            <4>3. CASE w.dhcp.state \in Renewable
                <5>1. InHand(v)
                    BY <1>5, <1>8, <3>3, <4>3 DEF InHand, Agreed, Renewable
                <5>2. v.netif.ip_addr # None => kept[v.netif.ip_addr] >= 2
                    BY <1>5, <1>7, <1>8, <1>9, <3>3, <4>3
                <5> QED BY <4>1, <5>1, <5>2
            <4> QED BY <2>1, <4>2, <4>3 DEF Leasing, Renewable
        <3>4. ASSUME LongLeases, v.netif.ip_addr # None
              PROVE  kept[v.netif.ip_addr]
                         + (IF v.dhcp.state = "DHCP_REBINDING" THEN v.short ELSE 0) >= 2
            BY <1>5, <1>7, <3>2, <3>3, <3>4
        <3>5. Good(dhcp_rebind(v, mem), kept)
            BY <1>5, <1>6, <3>2, <3>3, <3>4, RebindGood
        <3> QED BY <1>4, <1>9, <3>1, <3>5
    <2>2. CASE w.dhcp.state \notin Leasing
        <3>1. dhcp_t2_timeout(v, mem) = v
            BY <1>5, <2>2 DEF dhcp_t2_timeout
        <3>2. ASSUME LongLeases
              PROVE  Held(v, kept)
            <4>1. w.dhcp.state \notin Renewable
                BY <2>2 DEF Leasing, Renewable
            <4> QED BY <1>5, <1>8, <3>2, <4>1
                    DEF Held, HeldBut, Negotiates, InHand, Quiet, RebindableSoon, CheckableSoon
        <3> QED BY <1>4, <1>6, <1>9, <3>1, <3>2 DEF Good, Fine
    <2> QED BY <2>1, <2>2
<1>10. ASSUME t2 # 1, LongLeases, w.dhcp.state \in Renewable, w.netif.ip_addr # None
       PROVE  u.dhcp.t2_timeout >= 1 /\ kept[w.netif.ip_addr] >= u.dhcp.t2_timeout + 2
    <2>1. t2 >= 1 /\ kept[w.netif.ip_addr] >= t2 + 1
        BY <1>8, <1>10
    <2>2. u.dhcp.t2_timeout = t2 - 1
        BY <1>3, <1>5, <2>1
    <2> QED BY <1>2, <1>7, <1>10, <2>1, <2>2
<1>11. CASE t2 # 1 /\ t1 = 1 /\ w.dhcp.state \in Leasing
    <2>1. dhcp_t1_timeout(u, mem) = dhcp_renew(u, mem)
        BY <1>5, <1>11 DEF dhcp_t1_timeout
    <2>2. ASSUME LongLeases
          PROVE  /\ AcksHeld(u.net, kept) /\ Negotiates(u) /\ InHand(u)
                 /\ RenewableSoon(u, kept, 2)
        <3>1. AcksHeld(u.net, kept) /\ Negotiates(u)
            BY <1>5, <1>8, <1>11, <2>2 DEF Leasing, Idle, Negotiates
        <3>2. CASE w.dhcp.state = "DHCP_REQUESTING"
            <4>1. u.netif.ip_addr = None
                BY <1>5, <1>11, <2>2, <3>2
            <4> QED BY <3>1, <4>1 DEF InHand, RenewableSoon
        <3>3. CASE w.dhcp.state \in Renewable
            <4>1. InHand(u)
                BY <1>5, <1>8, <2>2, <3>3 DEF InHand, Agreed, Renewable
            <4>2. RenewableSoon(u, kept, 2)
                BY <1>5, <1>10, <1>11, <2>2, <3>3 DEF RenewableSoon
            <4> QED BY <3>1, <4>1, <4>2
        <3> QED BY <1>11, <3>2, <3>3 DEF Leasing, Renewable
    <2>3. Good(dhcp_renew(u, mem), kept)
        BY <1>6, <2>2, RenewGood
    <2> QED BY <1>4, <1>11, <2>1, <2>3
<1>12. CASE t2 # 1 /\ ~(t1 = 1 /\ w.dhcp.state \in Leasing)
    <2>1. CoarseTimers(w, mem) = u
        BY <1>5, <1>4, <1>12 DEF dhcp_t1_timeout
    <2>2. ASSUME LongLeases
          PROVE  Held(u, kept)
        <3>1. u.dhcp.state \in Renewable => RenewableSoon(u, kept, 2)
            BY <1>5, <1>10, <1>12, <2>2 DEF RenewableSoon
        <3> QED BY <1>5, <1>8, <2>2, <3>1
                DEF Held, HeldBut, Negotiates, InHand, Quiet, RebindableSoon, CheckableSoon
    <2> QED BY <1>6, <2>1, <2>2 DEF Good, Fine
<1> QED BY <1>9, <1>11, <1>12

-----------------------------------------------------------------------------
(* Steps. *)

ClientInv ==
    /\ Good(World, leases)
    /\ calm \in BOOLEAN /\ leases \in Kept /\ taken \subseteq Addresses

(* What the invariant says, variable by variable. *)
LEMMA WorldKnown ==
    ASSUME ClientInv
    PROVE  /\ World \in Worlds /\ World.dhcp = dhcp /\ World.netif = netif /\ World.net = net
           /\ World.short = short
           /\ dhcp \in DhcpRecords /\ netif \in Netifs /\ net \in SUBSET Messages
           /\ short \in 0..1 /\ Few(net) /\ ~Kind(net, "RELEASE")
           /\ Sane(World) /\ Fine(World, leases)
           /\ LongLeases => Held(World, leases)
           /\ ServerIdGiven => Timed(World)
<1>1. World \in Worlds /\ Few(World.net) /\ ~Kind(World.net, "RELEASE")
    BY DEF ClientInv, Good, Fine, Sane
<1>2. World.dhcp = dhcp /\ World.netif = netif /\ World.net = net /\ World.short = short
    BY DEF World
<1>3. /\ World.dhcp \in DhcpRecords /\ World.netif \in Netifs
      /\ World.net \in SUBSET Messages /\ World.short \in 0..1
    BY <1>1 DEF Worlds
<1> QED BY <1>1, <1>2, <1>3 DEF ClientInv, Good, Fine

(* The variables after a step are the world it computes. *)
LEMMA BecomesWorld ==
    ASSUME NEW w \in Worlds, Becomes(w)
    PROVE  World' = w
    BY DEF Becomes, World, Worlds

(* A step of the client. *)
LEMMA ClientSteps ==
    ASSUME ClientInv, NEW w, Good(w, leases), Becomes(w), UNCHANGED <<leases, taken, calm>>
    PROVE  ClientInv'
<1>1. w \in Worlds
    BY DEF Good, Fine, Sane
<1>2. World' = w
    BY <1>1, BecomesWorld
<1> QED BY <1>2 DEF ClientInv, Kept

(* There is a buffer or there is none. *)
LEMMA MemoryBoolean == calm \in BOOLEAN => Memory \subseteq BOOLEAN
    BY DEF Memory

(* dhcp_start keeps the invariant. *)
LEMMA StartStep == ClientInv /\ dhcp_start => ClientInv'
<1> SUFFICES ASSUME ClientInv, dhcp_start
             PROVE  ClientInv'
    OBVIOUS
<1> DEFINE u == [World EXCEPT !.dhcp = Cleared, !.net = Superseded(@)]
<1>1. PICK mem \in BOOLEAN :
          Becomes(IF mem THEN dhcp_discover(u, mem)
                         ELSE dhcp_set_state(dhcp_discover(u, mem), "DHCP_OFF"))
    BY DEF dhcp_start
<1>2. /\ World \in Worlds /\ World.dhcp = dhcp /\ World.netif = netif /\ World.net = net
      /\ netif \in Netifs /\ net \in SUBSET Messages /\ Few(net) /\ ~Kind(net, "RELEASE")
      /\ LongLeases => Held(World, leases)
    BY WorldKnown
<1>3. /\ Superseded(net) \in SUBSET Messages /\ Few(Superseded(net))
      /\ \A n \in Superseded(net) : Stays(n, net)
    BY <1>2, SupersededStays
<1>4. Cleared \in DhcpRecords /\ Cleared.offered_t2_rebind = 0 /\ Cleared.state = "DHCP_OFF"
    BY Widths DEF Cleared, DhcpRecords, States
<1>5. u \in Worlds /\ u.dhcp = Cleared /\ u.netif = netif /\ u.net = Superseded(net)
    BY <1>2, <1>3, <1>4 DEF Worlds
<1> HIDE DEF u
<1>6. Sane(u)
    <2>1. ~Kind(u.net, "RELEASE")
        BY <1>2, <1>3, <1>5, FewerMessages
    <2> QED BY <1>3, <1>4, <1>5, <2>1 DEF Sane, Probed, Timely
<1>7. ASSUME LongLeases
      PROVE  AcksHeld(u.net, leases) /\ Quiet(u)
    <2>1. AcksHeld(net, leases)
        BY <1>2, <1>7 DEF Held, HeldBut
    <2>2. AcksHeld(u.net, leases)
        BY <1>3, <1>5, <2>1, FewerMessages
    <2>3. Quiet(World)
        BY <1>2, <1>7 DEF dhcp_start, Held, HeldBut, Agreed
    <2> QED BY <1>2, <1>5, <2>2, <2>3 DEF Quiet
<1>8. Good(dhcp_discover(u, mem), leases)
    BY <1>6, <1>7, DiscoverGood DEF Discoverable
<1> DEFINE v == dhcp_discover(u, mem)
<1> DEFINE off == dhcp_set_state(v, "DHCP_OFF")
<1>9. Good(off, leases)
    <2>1. Looks(v, u)
        BY <1>6, Discovered DEF Sane
    <2>2. /\ v \in Worlds /\ Sane(v) /\ v.dhcp.state = "DHCP_SELECTING"
          /\ LongLeases => AcksHeld(v.net, leases) /\ Quiet(v)
        BY <1>8, <2>1 DEF Looks, Good, Fine, Sane, Held, HeldBut, Agreed
    <2> HIDE DEF v
    <2>3. /\ off \in Worlds /\ off.netif = v.netif /\ off.net = v.net
          /\ off.dhcp.state = "DHCP_OFF"
          /\ off.dhcp.offered_t2_rebind = v.dhcp.offered_t2_rebind
        BY <2>2, StateSet DEF States
    <2> HIDE DEF off
    <2>4. Sane(off)
        BY <2>2, <2>3 DEF Sane, Probed, Timely
    <2>5. LongLeases => Held(off, leases)
        BY <2>2, <2>3 DEF Held, HeldBut, Idle, Agreed, Renewable, Quiet
    <2> QED BY <2>3, <2>4, <2>5 DEF Good, Fine, Timed, Untimed
<1> HIDE DEF v, off
<1>10. UNCHANGED <<leases, taken, calm>>
    BY DEF dhcp_start
<1>11. CASE mem
    BY <1>1, <1>8, <1>10, <1>11, ClientSteps DEF v
<1>12. CASE ~mem
    <2>1. Becomes(off)
        BY <1>1, <1>12 DEF v, off
    <2> QED BY <1>9, <1>10, <2>1, ClientSteps
<1> QED BY <1>11, <1>12

(* dhcp_release by the application. *)
LEMMA ReleaseStep == ClientInv /\ UserRelease => ClientInv'
<1> SUFFICES ASSUME ClientInv, UserRelease
             PROVE  ClientInv'
    OBVIOUS
<1>1. PICK mem \in Memory : Becomes(dhcp_release(World, mem))
    BY DEF UserRelease
<1>2. mem \in BOOLEAN
    BY <1>1, MemoryBoolean DEF ClientInv
<1>3. Good(dhcp_release(World, mem), leases)
    <2>1. Sane(World) /\ (LongLeases => AcksHeld(World.net, leases))
        BY WorldKnown DEF Held, HeldBut
    <2> QED BY <1>2, <2>1, ReleaseGood
<1> QED BY <1>1, <1>3, ClientSteps DEF UserRelease

(* dhcp_renew by the application. *)
LEMMA RenewStep == ClientInv /\ UserRenew => ClientInv'
<1> SUFFICES ASSUME ClientInv, UserRenew
             PROVE  ClientInv'
    OBVIOUS
<1>1. PICK mem \in Memory : Becomes(dhcp_renew(World, mem))
    BY DEF UserRenew
<1>2. mem \in BOOLEAN
    BY <1>1, MemoryBoolean DEF ClientInv
<1>3. Good(dhcp_renew(World, mem), leases)
    <2>1. Sane(World) /\ World.dhcp.state = "DHCP_BOUND" /\ (LongLeases => Held(World, leases))
        BY WorldKnown DEF UserRenew
    <2>2. LongLeases => /\ AcksHeld(World.net, leases) /\ Negotiates(World) /\ InHand(World)
                        /\ RenewableSoon(World, leases, 2)
        BY <2>1 DEF Held, HeldBut, Idle, Agreed, Renewable
    <2> QED BY <1>2, <2>1, <2>2, RenewGood
<1> QED BY <1>1, <1>3, ClientSteps DEF UserRenew

(* dhcp_arp_reply. *)
LEMMA DeclineStep == ClientInv /\ dhcp_arp_reply => ClientInv'
<1> SUFFICES ASSUME ClientInv, dhcp_arp_reply
             PROVE  ClientInv'
    OBVIOUS
<1>1. PICK mem \in Memory : Becomes(dhcp_decline(World, mem))
    BY DEF dhcp_arp_reply
<1>2. mem \in BOOLEAN
    BY <1>1, MemoryBoolean DEF ClientInv
<1>3. Good(dhcp_decline(World, mem), leases)
    <2>1. Sane(World) /\ World.dhcp.state = "DHCP_CHECKING" /\ (LongLeases => Held(World, leases))
        BY WorldKnown DEF dhcp_arp_reply
    <2>2. Discoverable(World, leases)
        BY <2>1 DEF Discoverable, Held, HeldBut, Agreed
    <2>3. World.dhcp.offered_ip_addr \in Addresses
        BY <2>1 DEF Sane, Probed
    <2> QED BY <1>2, <2>2, <2>3, DeclineGood
<1> QED BY <1>1, <1>3, ClientSteps DEF dhcp_arp_reply

(* dhcp_fine_tmr. *)
LEMMA FineTimeoutStep == ClientInv /\ FineTimeout => ClientInv'
<1> SUFFICES ASSUME ClientInv, FineTimeout
             PROVE  ClientInv'
    OBVIOUS
<1> DEFINE u == [World EXCEPT !.dhcp.request_timeout = FALSE]
<1>1. PICK mem \in Memory, mem2 \in Memory : Becomes(dhcp_timeout(u, mem, mem2))
    BY DEF FineTimeout
<1>2. mem \in BOOLEAN /\ mem2 \in BOOLEAN
    BY <1>1, MemoryBoolean DEF ClientInv
<1>3. Fine(u, leases)
    <2>1. World \in Worlds /\ Sane(World) /\ (LongLeases => Held(World, leases))
        BY WorldKnown
    <2>2. /\ u \in Worlds /\ u.netif = World.netif /\ u.net = World.net
          /\ u.short = World.short
          /\ SameAgreement(u, World) /\ u.dhcp.state = World.dhcp.state
        BY <2>1, TimeoutStopped
    <2> DEFINE w == World
    <2> HIDE DEF u, w
    <2>3. Sane(u)
        BY <2>1, <2>2 DEF Sane, Probed, Timely, SameAgreement, w
    <2>4. LongLeases => Held(u, leases)
        BY <2>1, <2>2 DEF Held, HeldBut, Negotiates, InHand, Quiet, RenewableSoon,
                          RebindableSoon, CheckableSoon, SameAgreement
    <2> QED BY <2>3, <2>4 DEF Fine
<1> HIDE DEF u
<1>4. Good(dhcp_timeout(u, mem, mem2), leases)
    BY <1>2, <1>3, TimeoutGood DEF ClientInv
<1> QED BY <1>1, <1>4, ClientSteps DEF FineTimeout

(* Only the tries are cleared, or the interface set down too. *)
LEMMA TriesCleared ==
    ASSUME NEW w \in Worlds
    PROVE  LET v == [w EXCEPT !.dhcp.tries = 0]
               u == [w EXCEPT !.netif.up = FALSE, !.dhcp.tries = 0]
           IN  /\ v \in Worlds /\ v.netif = w.netif /\ v.net = w.net
               /\ SameAgreement(v, w) /\ v.dhcp.state = w.dhcp.state
               /\ u \in Worlds /\ u.net = w.net /\ ~u.netif.up
               /\ u.dhcp = v.dhcp /\ u.dhcp.tries = 0
<1> DEFINE v == [w EXCEPT !.dhcp.tries = 0]
<1> DEFINE u == [w EXCEPT !.netif.up = FALSE, !.dhcp.tries = 0]
<1> DEFINE d == [w.dhcp EXCEPT !.tries = 0]
<1> DEFINE n == [w.netif EXCEPT !.up = FALSE]
<1>1. w.dhcp \in DhcpRecords /\ w.netif \in Netifs
    BY DEF Worlds
<1>2. v = [w EXCEPT !.dhcp = d] /\ u = [w EXCEPT !.netif = n, !.dhcp = d]
    BY <1>1 DEF Worlds
<1>3. /\ d \in DhcpRecords /\ d.tries = 0 /\ d.state = w.dhcp.state
      /\ d.offered_ip_addr = w.dhcp.offered_ip_addr
      /\ d.offered_t1_renew = w.dhcp.offered_t1_renew
      /\ d.offered_t2_rebind = w.dhcp.offered_t2_rebind
      /\ d.t1_timeout = w.dhcp.t1_timeout /\ d.t2_timeout = w.dhcp.t2_timeout
    BY <1>1, Widths DEF DhcpRecords
<1>4. n \in Netifs /\ ~n.up
    BY <1>1 DEF Netifs
<1> HIDE DEF d, n
<1>5. v \in Worlds /\ v.dhcp = d /\ v.netif = w.netif /\ v.net = w.net
    BY <1>2, <1>3 DEF Worlds
<1>6. u \in Worlds /\ u.dhcp = d /\ u.netif = n /\ u.net = w.net
    BY <1>2, <1>3, <1>4 DEF Worlds
<1> HIDE DEF v, u
<1>7. SameAgreement(v, w)
    BY <1>3, <1>5 DEF SameAgreement
<1> QED BY <1>3, <1>4, <1>5, <1>6, <1>7 DEF v, u

(* dhcp_network_changed. *)
LEMMA NetworkChangedStep == ClientInv /\ dhcp_network_changed => ClientInv'
<1> SUFFICES ASSUME ClientInv, dhcp_network_changed
             PROVE  ClientInv'
    OBVIOUS
<1> DEFINE w == World
<1> DEFINE v == [w EXCEPT !.dhcp.tries = 0]
<1> DEFINE u == [w EXCEPT !.netif.up = FALSE, !.dhcp.tries = 0]
<1> DEFINE used == {"DHCP_REBINDING", "DHCP_RENEWING", "DHCP_BOUND", "DHCP_REBOOTING"}
<1>1. PICK mem \in Memory :
          Becomes(IF dhcp.state \in used THEN dhcp_reboot(u, mem) ELSE dhcp_discover(v, mem))
    BY DEF dhcp_network_changed
<1>2. mem \in BOOLEAN
    BY <1>1, MemoryBoolean DEF ClientInv
<1>3. /\ w \in Worlds /\ w.dhcp = dhcp /\ Sane(w) /\ (LongLeases => Held(w, leases))
    BY WorldKnown
<1>4. /\ v \in Worlds /\ v.netif = w.netif /\ v.net = w.net /\ SameAgreement(v, w)
      /\ v.dhcp.state = w.dhcp.state
      /\ u \in Worlds /\ u.net = w.net /\ ~u.netif.up
      /\ u.dhcp = v.dhcp /\ u.dhcp.tries = 0
    BY <1>3, TriesCleared
<1> HIDE DEF u, v, w
<1>5. Sane(u) /\ Sane(v)
    BY <1>3, <1>4 DEF Sane, Probed, Timely, SameAgreement
<1>6. ASSUME dhcp.state \in used
      PROVE  Good(dhcp_reboot(u, mem), leases)
    <2>1. ASSUME LongLeases
          PROVE  AcksHeld(u.net, leases) /\ Negotiates(u) /\ Quiet(u)
        <3>1. AcksHeld(w.net, leases) /\ Negotiates(w)
            BY <1>3, <1>6, <2>1 DEF Held, HeldBut, Idle
        <3> QED BY <1>4, <3>1 DEF Negotiates, Quiet, SameAgreement
    <2>2. u.dhcp.tries + 1 < TriesMod
        BY <1>4, Widths
    <2> QED BY <1>2, <1>5, <2>1, <2>2, RequestGood DEF dhcp_reboot
<1>7. ASSUME dhcp.state \notin used
      PROVE  Good(dhcp_discover(v, mem), leases)
    <2>1. LongLeases => AcksHeld(v.net, leases) /\ Quiet(v)
        BY <1>3, <1>4, <1>7 DEF Held, HeldBut, Agreed, Quiet
    <2> QED BY <1>2, <1>5, <2>1, DiscoverGood DEF Discoverable
<1>8. UNCHANGED <<leases, taken, calm>>
    BY DEF dhcp_network_changed
<1>9. CASE dhcp.state \in used
    <2>1. Becomes(dhcp_reboot(u, mem))
        BY <1>1, <1>9
    <2> QED BY <1>6, <1>8, <1>9, <2>1, ClientSteps
<1>10. CASE dhcp.state \notin used
    <2>1. Becomes(dhcp_discover(v, mem))
        BY <1>1, <1>10
    <2> QED BY <1>7, <1>8, <1>10, <2>1, ClientSteps
<1> QED BY <1>9, <1>10

(* Messages that a minute makes late. *)
LateNow(messages) == {[m EXCEPT !.late = TRUE] : m \in {n \in messages : ~n.late}}

(* Messages get late, or are lost. *)
LEMMA LateStays ==
    ASSUME NEW S \in SUBSET Messages, Few(S)
    PROVE  /\ LateNow(S) \in SUBSET Messages /\ Few(LateNow(S))
           /\ \A n \in LateNow(S) : \E m \in S :
                   /\ n.kind = m.kind /\ n.ip = m.ip /\ n.current = m.current
                   /\ n.late /\ ~m.late
<1> DEFINE K == {n \in S : ~n.late}
<1> DEFINE old(m) == [m EXCEPT !.late = TRUE]
<1>1. LateNow(S) = {old(m) : m \in K}
    BY DEF LateNow
<1>2. IsFiniteSet(K) /\ Cardinality(K) <= Cardinality(S)
    BY FS_Subset DEF Few
<1>3. IsFiniteSet(LateNow(S)) /\ Cardinality(LateNow(S)) <= Cardinality(K)
    <2> DEFINE f == [m \in K |-> old(m)]
    <2>1. DOMAIN f = K /\ LateNow(S) = {f[m] : m \in K}
        BY <1>1
    <2> HIDE DEF f, K
    <2> QED BY <2>1, <1>2, ImageFew
<1>4. Cardinality(K) \in Nat /\ Cardinality(S) \in Nat /\ Cardinality(LateNow(S)) \in Nat
    BY <1>2, <1>3, FS_CardinalityType DEF Few
<1>5. ASSUME NEW m \in K
      PROVE  /\ old(m) \in Messages
             /\ old(m).kind = m.kind /\ old(m).ip = m.ip /\ old(m).current = m.current
             /\ old(m).late
    <2>1. m \in Messages
        OBVIOUS
    <2>2. old(m) = [kind |-> m.kind, ip |-> m.ip, current |-> m.current, late |-> TRUE]
        BY <2>1, MessageChanged
    <2>3. old(m) \in Messages
        BY <2>1, <2>2 DEF Messages
    <2> QED BY <2>2, <2>3
<1>6. MaxNet \in Nat
    BY DhcpAssumption
<1>7. \A m \in K : m \in S /\ ~m.late
    OBVIOUS
<1> HIDE DEF K, old
<1>8. Few(LateNow(S))
    BY <1>2, <1>3, <1>4, <1>6 DEF Few
<1>9. ASSUME NEW n \in LateNow(S)
      PROVE  \E m \in S : /\ n.kind = m.kind /\ n.ip = m.ip /\ n.current = m.current
                           /\ n.late /\ ~m.late
    <2>1. PICK m \in K : n = old(m)
        BY <1>1
    <2> QED BY <1>5, <1>7, <2>1
<1>10. LateNow(S) \in SUBSET Messages
    BY <1>1, <1>5
<1> QED BY <1>8, <1>9, <1>10

Minute(kept) == [a \in Addresses |-> IF kept[a] = 0 THEN 0 ELSE kept[a] - 1]

(* No lease gets shorter by more than a tick. *)
LEMMA MinutePasses ==
    ASSUME NEW kept \in Kept
    PROVE  /\ Minute(kept) \in Kept
           /\ \A a \in Addresses : Minute(kept)[a] \in Nat /\ kept[a] \in Nat
                                    /\ Minute(kept)[a] + 1 >= kept[a]
<1>1. Lease \in Nat
    BY LeaseNumber
<1>2. ASSUME NEW a \in Addresses
      PROVE  /\ Minute(kept)[a] \in 0..Lease /\ kept[a] \in Nat
             /\ Minute(kept)[a] + 1 >= kept[a]
    BY <1>1 DEF Minute, Kept
<1>3. Minute(kept) = [a \in Addresses |-> Minute(kept)[a]]
    BY DEF Minute
<1>4. Minute(kept) \in Kept
    BY <1>2, <1>3 DEF Kept
<1> QED BY <1>1, <1>2, <1>4

(* dhcp_coarse_tmr: leases and rebinding timer run down together. *)
LEMMA MinuteStep == ClientInv /\ CoarseTick => ClientInv'
<1> SUFFICES ASSUME ClientInv, CoarseTick
             PROVE  ClientInv'
    OBVIOUS
<1> DEFINE w == World
<1> DEFINE kept == Minute(leases)
<1> DEFINE longer == IF dhcp.state \in Quick THEN short + 1 ELSE short
<1> DEFINE later == [w EXCEPT !.net = LateNow(@),
                              !.short = IF dhcp.state \in Quick THEN @ + 1 ELSE @]
<1>1. /\ w \in Worlds /\ w.dhcp = dhcp /\ w.netif = netif /\ w.net = net /\ w.short = short
      /\ dhcp \in DhcpRecords /\ netif \in Netifs
      /\ net \in SUBSET Messages /\ Few(net) /\ short \in 0..1 /\ ~Kind(net, "RELEASE")
      /\ Sane(w) /\ (LongLeases => Held(w, leases)) /\ (ServerIdGiven => Timed(w))
    BY WorldKnown
<1>2. PICK mem \in Memory : Becomes(CoarseTimers(later, mem))
    BY DEF CoarseTick, LateNow
<1>3. mem \in BOOLEAN
    BY <1>2, MemoryBoolean DEF ClientInv
<1>4. /\ LateNow(net) \in SUBSET Messages /\ Few(LateNow(net))
      /\ \A n \in LateNow(net) : \E m \in net :
              /\ n.kind = m.kind /\ n.ip = m.ip /\ n.current = m.current
              /\ n.late /\ ~m.late
    BY <1>1, LateStays
<1>5. longer \in 0..1 /\ (dhcp.state \in Quick => longer = short + 1)
    BY <1>1 DEF CoarseTick
<1>6. later = [w EXCEPT !.net = LateNow(net), !.short = longer]
    BY <1>1
<1> HIDE DEF longer, w
<1>7. /\ later \in Worlds /\ later.dhcp = dhcp /\ later.netif = netif
      /\ later.net = LateNow(net) /\ later.short = longer
    BY <1>1, <1>4, <1>5, <1>6 DEF Worlds
<1> HIDE DEF later
<1>8. /\ kept \in Kept
      /\ \A a \in Addresses : kept[a] \in Nat /\ leases[a] \in Nat /\ kept[a] + 1 >= leases[a]
    BY MinutePasses DEF ClientInv
<1>9. leases' = kept /\ UNCHANGED <<taken, calm>>
    BY DEF CoarseTick, Minute
<1>10. Lease \in Nat
    BY LeaseNumber
<1>11. Sane(later) /\ (ServerIdGiven => Timed(later))
    <2>1. ~Kind(LateNow(net), "RELEASE")
        BY <1>1, <1>4 DEF Kind
    <2> QED BY <1>1, <1>4, <1>7, <2>1 DEF Sane, Probed, Timely, Timed
<1> HIDE DEF kept
<1>12. ASSUME LongLeases
       PROVE  HeldBut(later, kept, 1)
    <2>1. Held(w, leases)
        BY <1>1, <1>12
    <2>2. AcksHeld(later.net, kept)
        <3> SUFFICES ASSUME NEW n \in LateNow(net), n.kind = "ACK"
                     PROVE  Promised(n, kept)
            BY <1>7 DEF AcksHeld
        <3>1. PICK m \in net : n.kind = m.kind /\ n.ip = m.ip /\ n.late /\ ~m.late
            BY <1>4
        <3>2. Promised(m, leases)
            BY <1>1, <2>1, <3>1 DEF Held, HeldBut, AcksHeld
        <3>3. m.ip \in Addresses /\ leases[m.ip] >= Lease
            BY <1>8, <1>10, <3>1, <3>2 DEF Promised
        <3>4. kept[m.ip] + 1 >= Lease
            BY <1>8, <1>10, <3>3
        <3> QED BY <3>1, <3>3, <3>4 DEF Promised
    <2>3. dhcp.state \notin Idle => Negotiates(later)
        <3> SUFFICES ASSUME dhcp.state \notin Idle
                     PROVE  Negotiates(later)
            OBVIOUS
        <3>1. AboutOffer(net, dhcp.offered_ip_addr) /\ ~Kind(net, "DECLINE")
            BY <1>1, <2>1 DEF Held, HeldBut, Negotiates
        <3>2. ~Kind(LateNow(net), "DECLINE")
            BY <1>4, <3>1 DEF Kind
        <3>3. AboutOffer(LateNow(net), dhcp.offered_ip_addr)
            <4> SUFFICES ASSUME NEW n \in LateNow(net),
                                n.kind = "ACK" \/ (n.kind = "REQUEST" /\ n.current)
                         PROVE  n.ip \in {dhcp.offered_ip_addr, None}
                BY DEF AboutOffer
            <4>1. PICK m \in net : n.kind = m.kind /\ n.ip = m.ip /\ n.current = m.current
                BY <1>4
            <4>2. m.kind = "ACK" \/ (m.kind = "REQUEST" /\ m.current)
                BY <4>1
            <4> QED BY <3>1, <4>1, <4>2 DEF AboutOffer
        <3> QED BY <1>7, <3>2, <3>3 DEF Negotiates
    <2>4. /\ dhcp.state \in Agreed => InHand(later)
          /\ dhcp.state \notin Agreed => Quiet(later)
        BY <1>1, <1>7, <2>1 DEF Held, HeldBut, InHand, Quiet
    <2>5. netif.ip_addr # None => netif.ip_addr \in Addresses
        BY <1>1 DEF Netifs
    <2>6. dhcp.state \in Renewable => RenewableSoon(later, kept, 1)
        <3> SUFFICES ASSUME dhcp.state \in Renewable, netif.ip_addr # None
                     PROVE  /\ dhcp.t2_timeout >= 1
                            /\ kept[netif.ip_addr] >= dhcp.t2_timeout + 1
            BY <1>7 DEF RenewableSoon
        <3>1. dhcp.t2_timeout >= 1 /\ leases[netif.ip_addr] >= dhcp.t2_timeout + 2
            BY <1>1, <2>1 DEF Held, HeldBut, RenewableSoon
        <3>2. dhcp.t2_timeout \in Nat
            BY <1>1 DEF DhcpRecords
        <3> QED BY <1>8, <2>5, <3>1, <3>2
    <2>7. dhcp.state = "DHCP_REBINDING" => RebindableSoon(later, kept)
        <3> SUFFICES ASSUME dhcp.state = "DHCP_REBINDING", netif.ip_addr # None
                     PROVE  kept[netif.ip_addr] + longer >= 2
            BY <1>7 DEF RebindableSoon
        <3>1. leases[netif.ip_addr] + short >= 2
            BY <1>1, <2>1 DEF Held, HeldBut, RebindableSoon
        <3>2. longer = short + 1
            BY <1>5 DEF Quick
        <3> QED BY <1>1, <1>8, <2>5, <3>1, <3>2
    <2>8. dhcp.state = "DHCP_CHECKING" => CheckableSoon(later, kept)
        <3> SUFFICES ASSUME dhcp.state = "DHCP_CHECKING"
                     PROVE  /\ dhcp.offered_ip_addr \in Addresses
                            /\ kept[dhcp.offered_ip_addr] + longer + 1 >= Lease
            BY <1>7 DEF CheckableSoon
        <3>1. /\ dhcp.offered_ip_addr \in Addresses
              /\ leases[dhcp.offered_ip_addr] + short + 1 >= Lease
            BY <1>1, <2>1 DEF Held, HeldBut, CheckableSoon
        <3>2. longer = short + 1
            BY <1>5 DEF Quick
        <3> QED BY <1>1, <1>8, <1>10, <3>1, <3>2
    <2> QED BY <1>7, <2>2, <2>3, <2>4, <2>6, <2>7, <2>8 DEF HeldBut
<1>13. LongLeases /\ later.dhcp.state = "DHCP_REQUESTING" =>
           \/ later.netif.ip_addr = None
           \/ 1 \notin {later.dhcp.t1_timeout, later.dhcp.t2_timeout}
    BY <1>7 DEF CoarseTick, LongLeases
<1>14. Good(CoarseTimers(later, mem), kept)
    BY <1>3, <1>8, <1>11, <1>12, <1>13, TimersGood
<1>15. CoarseTimers(later, mem) \in Worlds
    BY <1>14 DEF Good, Fine, Sane
<1>16. World' = CoarseTimers(later, mem)
    BY <1>2, <1>15, BecomesWorld
<1> QED BY <1>8, <1>9, <1>14, <1>16 DEF ClientInv, Kept

-----------------------------------------------------------------------------
(* The network and the server. *)

(* Fewer messages are few. *)
LEMMA FewerFew ==
    ASSUME NEW S \in SUBSET Messages, Few(S), NEW R \in SUBSET S
    PROVE  /\ R \in SUBSET Messages /\ Few(R) /\ \A n \in R : Stays(n, S)
<1>1. IsFiniteSet(R) /\ Cardinality(R) <= Cardinality(S)
    BY FS_Subset DEF Few
<1>2. Cardinality(R) \in Nat /\ Cardinality(S) \in Nat /\ MaxNet \in Nat
    BY <1>1, FS_CardinalityType, DhcpAssumption DEF Few
<1>3. Few(R)
    BY <1>1, <1>2 DEF Few
<1>4. \A n \in R : Stays(n, S)
    BY DEF Stays
<1> QED BY <1>3, <1>4

(* Where there is room for one message there is no other. *)
LEMMA OneMessage ==
    ASSUME NEW S, Few(S), MaxNet = 1, NEW m \in S
    PROVE  S = {m}
<1>1. IsFiniteSet(S) /\ Cardinality(S) <= 1 /\ Cardinality(S) \in Nat
    BY FS_CardinalityType DEF Few
<1>2. S # {}
    OBVIOUS
<1>3. Cardinality(S) # 0
    BY <1>1, <1>2, FS_EmptySet
<1>4. Cardinality(S) = 1
    BY <1>1, <1>3
<1>5. \E x : S = {x}
    BY <1>1, <1>4, FS_Singleton
<1> QED BY <1>5

(* The same client with fewer messages under way, or other leases. *)
LEMMA NetFewer ==
    ASSUME ClientInv, NEW R \in SUBSET net
    PROVE  Good([World EXCEPT !.net = R], leases)
<1> DEFINE w == World
<1> DEFINE v == [w EXCEPT !.net = R]
<1>1. /\ w \in Worlds /\ w.net = net /\ net \in SUBSET Messages /\ Few(net)
      /\ ~Kind(net, "RELEASE") /\ Sane(w)
      /\ (LongLeases => Held(w, leases)) /\ (ServerIdGiven => Timed(w))
    BY WorldKnown
<1>2. R \in SUBSET Messages /\ Few(R) /\ \A n \in R : Stays(n, net)
    BY <1>1, FewerFew
<1> HIDE DEF w
<1>3. /\ v \in Worlds /\ v.dhcp = w.dhcp /\ v.netif = w.netif /\ v.short = w.short
      /\ v.net = R
    BY <1>1, <1>2 DEF Worlds
<1> HIDE DEF v
<1>4. /\ \A kind : ~Kind(net, kind) => ~Kind(R, kind)
      /\ \A kept : AcksHeld(net, kept) => AcksHeld(R, kept)
      /\ \A a : AboutOffer(net, a) => AboutOffer(R, a)
    BY <1>2, FewerMessages
<1>5. Sane(v)
    BY <1>1, <1>2, <1>3, <1>4 DEF Sane, Probed, Timely
<1>6. LongLeases => Held(v, leases)
    BY <1>1, <1>3, <1>4 DEF Held, HeldBut, Negotiates, InHand, Quiet, RenewableSoon,
                            RebindableSoon, CheckableSoon
<1>7. ServerIdGiven => Timed(v)
    BY <1>1, <1>3 DEF Timed
<1>8. Good(v, leases)
    BY <1>5, <1>6, <1>7 DEF Good, Fine
<1> QED BY <1>8 DEF v, w

(* An answer arrives. *)
LEMMA ReceiveStep ==
    ASSUME ClientInv, NEW m \in net, NEW twice \in BOOLEAN, Receive(m, twice)
    PROVE  ClientInv'
<1> DEFINE w == [World EXCEPT !.net = Received(m, twice)]
<1>1. /\ World \in Worlds /\ World.dhcp = dhcp /\ World.net = net
      /\ net \in SUBSET Messages /\ Few(net)
      /\ (LongLeases => Held(World, leases))
    BY WorldKnown
<1>2. PICK mem \in Memory, server_id \in IF ServerIdGiven THEN {TRUE} ELSE BOOLEAN :
          Becomes(dhcp_recv(w, m, server_id, mem))
    BY DEF Receive
<1>3. mem \in BOOLEAN /\ server_id \in BOOLEAN /\ (ServerIdGiven => server_id)
    BY <1>2, MemoryBoolean, DhcpAssumption DEF ClientInv
<1>4. Received(m, twice) \in SUBSET net
    BY DEF Received
<1>5. Good(w, leases)
    BY <1>4, NetFewer
<1>6. w.dhcp = dhcp /\ w.net = Received(m, twice)
    BY <1>1 DEF Worlds
<1>7. ASSUME LongLeases
      PROVE  w.net \subseteq {m}
    <2>1. net = {m}
        BY <1>1, <1>7, OneMessage DEF LongLeases
    <2> QED BY <1>4, <1>6, <2>1
<1>8. ASSUME LongLeases, m.kind = "ACK"
      PROVE  /\ Promised(m, leases)
             /\ w.dhcp.state \notin Idle => m.ip \in {w.dhcp.offered_ip_addr, None}
    BY <1>1, <1>6, <1>8 DEF Held, HeldBut, AcksHeld, Negotiates, AboutOffer
<1> HIDE DEF w
<1>9. Good(dhcp_recv(w, m, server_id, mem), leases)
    BY <1>1, <1>3, <1>5, <1>7, <1>8, RecvGood DEF ClientInv
<1> QED BY <1>2, <1>9, ClientSteps DEF Receive

(* A message is lost. *)
LEMMA LoseStep ==
    ASSUME ClientInv, NEW m \in net, Lose(m)
    PROVE  ClientInv'
<1>1. net' = net \ {m} /\ UNCHANGED <<dhcp, netif, short, leases, taken, calm>>
    BY DEF Lose
<1>2. Good([World EXCEPT !.net = net \ {m}], leases)
    BY NetFewer
<1>3. [World EXCEPT !.net = net \ {m}]
          = [dhcp |-> dhcp, netif |-> netif, net |-> net \ {m}, short |-> short]
    BY DEF World
<1>4. World' = [World EXCEPT !.net = net \ {m}]
    BY <1>1, <1>3 DEF World
<1> QED BY <1>1, <1>2, <1>4 DEF ClientInv, Kept

(* The server keeps an address for us as long, or longer. *)
LEMMA KeptLonger ==
    ASSUME ClientInv, LongLeases, NEW kept \in Kept,
           \A a \in Addresses : kept[a] >= leases[a]
    PROVE  /\ AcksHeld(net, kept)
           /\ dhcp.state \in Renewable => RenewableSoon(World, kept, 2)
           /\ dhcp.state = "DHCP_REBINDING" => RebindableSoon(World, kept)
           /\ dhcp.state = "DHCP_CHECKING" => CheckableSoon(World, kept)
<1>1. /\ World.dhcp = dhcp /\ World.netif = netif /\ World.net = net /\ World.short = short
      /\ dhcp \in DhcpRecords /\ netif \in Netifs /\ short \in 0..1
      /\ Held(World, leases)
    BY WorldKnown
<1>2. Lease \in Nat /\ \A a \in Addresses : kept[a] \in Nat /\ leases[a] \in Nat
    BY LeaseNumber DEF ClientInv, Kept
<1>3. AcksHeld(net, kept)
    <2> SUFFICES ASSUME NEW m \in net, m.kind = "ACK"
                 PROVE  Promised(m, kept)
        BY DEF AcksHeld
    <2>1. Promised(m, leases)
        BY <1>1 DEF Held, HeldBut, AcksHeld
    <2> QED BY <1>2, <2>1 DEF Promised
<1>4. netif.ip_addr # None => netif.ip_addr \in Addresses
    BY <1>1 DEF Netifs
<1>5. dhcp.state \in Renewable => RenewableSoon(World, kept, 2)
    <2> SUFFICES ASSUME dhcp.state \in Renewable, netif.ip_addr # None
                 PROVE  dhcp.t2_timeout >= 1 /\ kept[netif.ip_addr] >= dhcp.t2_timeout + 2
        BY <1>1 DEF RenewableSoon
    <2>1. dhcp.t2_timeout >= 1 /\ leases[netif.ip_addr] >= dhcp.t2_timeout + 2
        BY <1>1 DEF Held, HeldBut, RenewableSoon
    <2>2. dhcp.t2_timeout \in Nat
        BY <1>1 DEF DhcpRecords
    <2> QED BY <1>2, <1>4, <2>1, <2>2
<1>6. dhcp.state = "DHCP_REBINDING" => RebindableSoon(World, kept)
    <2> SUFFICES ASSUME dhcp.state = "DHCP_REBINDING", netif.ip_addr # None
                 PROVE  kept[netif.ip_addr] + short >= 2
        BY <1>1 DEF RebindableSoon
    <2>1. leases[netif.ip_addr] + short >= 2
        BY <1>1 DEF Held, HeldBut, RebindableSoon
    <2> QED BY <1>1, <1>2, <1>4, <2>1
<1>7. dhcp.state = "DHCP_CHECKING" => CheckableSoon(World, kept)
    <2> SUFFICES ASSUME dhcp.state = "DHCP_CHECKING"
                 PROVE  /\ dhcp.offered_ip_addr \in Addresses
                        /\ kept[dhcp.offered_ip_addr] + short + 1 >= Lease
        BY <1>1 DEF CheckableSoon
    <2>1. /\ dhcp.offered_ip_addr \in Addresses
          /\ leases[dhcp.offered_ip_addr] + short + 1 >= Lease
        BY <1>1 DEF Held, HeldBut, CheckableSoon
    <2> QED BY <1>1, <1>2, <2>1
<1> QED BY <1>3, <1>5, <1>6, <1>7

(* A request is answered, or taken without an answer. *)
Answers(after, before, m, answer) ==
    \/ after = before \ {m}
    \/ m.current /\ after = Carried(before \ {m}, answer)

(* What is under way after an answer. *)
LEMMA Answered ==
    ASSUME NEW S \in SUBSET Messages, Few(S), NEW m \in S, NEW answer \in Messages, NEW R,
           Answers(R, S, m, answer)
    PROVE  /\ R \in SUBSET Messages /\ Few(R)
           /\ R \subseteq (S \ {m}) \cup {answer}
           /\ answer \in R => m.current \/ answer \in S
<1>1. S \ {m} \in SUBSET Messages /\ Few(S \ {m})
    BY FewerFew
<1> DEFINE rest == S \ {m}
<1> HIDE DEF rest
<1>2. /\ Carried(rest, answer) \in SUBSET Messages /\ Few(Carried(rest, answer))
      /\ Carried(rest, answer) \subseteq rest \cup {answer}
    BY <1>1, CarriedFew DEF rest
<1>3. CASE R = rest
    BY <1>1, <1>3 DEF rest
<1>4. CASE m.current /\ R = Carried(rest, answer)
    BY <1>2, <1>4 DEF rest
<1> QED BY <1>3, <1>4 DEF Answers, rest

(* The client with other messages under way and other leases. *)
LEMMA ServedWorld ==
    ASSUME ClientInv, NEW R \in SUBSET Messages, Few(R), ~Kind(R, "RELEASE"), NEW kept \in Kept,
           LongLeases =>
               /\ AcksHeld(R, kept)
               /\ dhcp.state \notin Idle =>
                       /\ AboutOffer(R, dhcp.offered_ip_addr) /\ ~Kind(R, "DECLINE")
                       /\ \A a \in Addresses : kept[a] >= leases[a],
           net' = R, leases' = kept, UNCHANGED <<dhcp, netif, short, calm>>,
           taken' \subseteq Addresses
    PROVE  ClientInv'
<1> DEFINE w == World
<1> DEFINE v == [dhcp |-> dhcp, netif |-> netif, net |-> R, short |-> short]
<1>1. /\ w \in Worlds /\ w.dhcp = dhcp /\ w.netif = netif /\ w.net = net /\ w.short = short
      /\ dhcp \in DhcpRecords /\ netif \in Netifs /\ short \in 0..1
      /\ Sane(w) /\ (LongLeases => Held(w, leases)) /\ (ServerIdGiven => Timed(w))
    BY WorldKnown
<1>2. World' = v
    BY DEF World
<1>3. /\ v \in Worlds /\ v.dhcp = dhcp /\ v.netif = netif /\ v.net = R /\ v.short = short
    BY <1>1 DEF Worlds
<1> HIDE DEF v, w
<1>4. Sane(v) /\ (ServerIdGiven => Timed(v))
    BY <1>1, <1>3 DEF Sane, Probed, Timely, Timed
<1>5. ASSUME LongLeases
      PROVE  Held(v, kept)
    <2>1. AcksHeld(v.net, kept) /\ (dhcp.state \notin Idle => Negotiates(v))
        BY <1>3, <1>5 DEF Negotiates
    <2>2. /\ dhcp.state \in Agreed => InHand(v)
          /\ dhcp.state \notin Agreed => Quiet(v)
        BY <1>1, <1>3, <1>5 DEF Held, HeldBut, InHand, Quiet
    <2>3. CASE dhcp.state \in Idle
        BY <1>3, <2>1, <2>2, <2>3 DEF Held, HeldBut, Idle, Agreed, Renewable
    <2>4. CASE dhcp.state \notin Idle
        <3>1. \A a \in Addresses : kept[a] >= leases[a]
            BY <1>5, <2>4
        <3>2. /\ dhcp.state \in Renewable => RenewableSoon(w, kept, 2)
              /\ dhcp.state = "DHCP_REBINDING" => RebindableSoon(w, kept)
              /\ dhcp.state = "DHCP_CHECKING" => CheckableSoon(w, kept)
            BY <1>5, <3>1, KeptLonger DEF w
        <3> QED BY <1>1, <1>3, <2>1, <2>2, <3>2
                DEF Held, HeldBut, RenewableSoon, RebindableSoon, CheckableSoon
    <2> QED BY <2>3, <2>4
<1>6. Good(v, kept)
    BY <1>4, <1>5 DEF Good, Fine
<1> QED BY <1>2, <1>6 DEF ClientInv, Kept

(* The server answers, and keeps what it grants a whole lease long. *)
LEMMA ServeStep ==
    ASSUME ClientInv, NEW m \in net, Serve(m)
    PROVE  ClientInv'
<1>1. /\ World.dhcp = dhcp /\ World.net = net
      /\ dhcp \in DhcpRecords /\ net \in SUBSET Messages /\ Few(net)
      /\ ~Kind(net, "RELEASE")
      /\ LongLeases => Held(World, leases)
    BY WorldKnown
<1>2. UNCHANGED <<dhcp, netif, short, calm>>
    BY DEF Serve
<1>3. leases \in Kept /\ taken \subseteq Addresses
    BY DEF ClientInv
<1>4. Lease \in Nat /\ \A a \in Addresses : leases[a] \in 0..Lease
    BY <1>3, LeaseNumber DEF Kept
<1>5. ASSUME LongLeases
      PROVE  net = {m}
    BY <1>1, <1>5, OneMessage DEF LongLeases
<1>6. m \in Messages
    BY <1>1
\* An answer that binds nobody, and no lease changes.
<1>7. ASSUME NEW kind \in {"OFFER", "NAK"}, NEW ip \in Addresses \cup {None},
             Answer(m, kind, ip) \/ net' = net \ {m}, UNCHANGED <<leases, taken>>
      PROVE  ClientInv'
    <2> DEFINE answer == Message(kind, ip)
    <2>1. answer \in Messages /\ answer.kind \in {"OFFER", "NAK"}
        BY DEF Message, Messages
    <2> DEFINE after == net'
    <2>2. Answers(after, net, m, answer)
        BY <1>7 DEF Answer, Answers
    <2> HIDE DEF answer, after
    <2>8. after \in SUBSET Messages /\ Few(after) /\ after \subseteq (net \ {m}) \cup {answer}
        BY <1>1, <2>1, <2>2, Answered
    <2>3. net' \in SUBSET Messages /\ Few(net') /\ net' \subseteq (net \ {m}) \cup {answer}
        BY <2>8 DEF after
    <2>4. ~Kind(net', "RELEASE")
        BY <1>1, <2>1, <2>3 DEF Kind
    <2>5. ASSUME LongLeases
          PROVE  /\ AcksHeld(net', leases)
                 /\ AboutOffer(net', dhcp.offered_ip_addr) /\ ~Kind(net', "DECLINE")
                 /\ \A a \in Addresses : leases[a] >= leases[a]
        <3>1. net' \subseteq {answer}
            BY <1>5, <2>3, <2>5
        <3> QED BY <1>4, <2>1, <3>1 DEF AcksHeld, AboutOffer, Kind
    <2> QED BY <1>2, <1>3, <1>7, <2>3, <2>4, <2>5, ServedWorld
<1>8. ASSUME m.kind = "REQUEST", Grantable(m.ip), Answer(m, "ACK", m.ip), UNCHANGED taken,
             leases' = [leases EXCEPT ![m.ip] = Lease]
      PROVE  ClientInv'
    <2> DEFINE answer == Message("ACK", m.ip)
    <2> DEFINE kept == [leases EXCEPT ![m.ip] = Lease]
    <2>1. m.ip \in Addresses
        BY <1>8 DEF Grantable
    <2>2. answer \in Messages /\ answer.kind = "ACK" /\ answer.ip = m.ip /\ ~answer.late
        BY <2>1 DEF Message, Messages
    <2> DEFINE after == net'
    <2>3. Answers(after, net, m, answer)
        BY <1>8 DEF Answer, Answers
    <2> HIDE DEF answer, after
    <2>10. /\ after \in SUBSET Messages /\ Few(after) /\ after \subseteq (net \ {m}) \cup {answer}
           /\ answer \in after => m.current \/ answer \in net
        BY <1>1, <2>2, <2>3, Answered
    <2>4. /\ net' \in SUBSET Messages /\ Few(net') /\ net' \subseteq (net \ {m}) \cup {answer}
          /\ answer \in net' => m.current \/ answer \in net
        BY <2>10 DEF after
    <2>5. ~Kind(net', "RELEASE")
        BY <1>1, <2>2, <2>4 DEF Kind
    <2>6. kept \in Kept /\ kept[m.ip] = Lease /\ \A a \in Addresses : kept[a] >= leases[a]
        BY <1>3, <1>4, <2>1 DEF Kept
    <2> HIDE DEF kept
    <2>7. ASSUME LongLeases
          PROVE  AcksHeld(net', kept)
        <3>1. net' \subseteq {answer}
            BY <1>5, <2>4, <2>7
        <3> QED BY <1>4, <2>1, <2>2, <2>6, <3>1 DEF AcksHeld, Promised
    <2>8. ASSUME LongLeases, dhcp.state \notin Idle
          PROVE  AboutOffer(net', dhcp.offered_ip_addr) /\ ~Kind(net', "DECLINE")
        <3>1. net' \subseteq {answer} /\ answer \notin net
            BY <1>5, <1>8, <2>2, <2>4, <2>8
        <3>2. answer \in net' => m.ip \in {dhcp.offered_ip_addr, None}
            BY <1>1, <1>8, <2>4, <2>8, <3>1 DEF Held, HeldBut, Negotiates, AboutOffer
        <3> QED BY <2>2, <3>1, <3>2 DEF AboutOffer, Kind
    <2>9. leases' = kept
        BY <1>8 DEF kept
    <2> QED BY <1>2, <1>3, <1>8, <2>4, <2>5, <2>6, <2>7, <2>8, <2>9, ServedWorld
<1>9. ASSUME m.kind = "DECLINE", leases' = [leases EXCEPT ![m.ip] = 0],
             taken' = taken \cup {m.ip}, net' = net \ {m}
      PROVE  ClientInv'
    <2> DEFINE kept == [leases EXCEPT ![m.ip] = 0]
    <2> DEFINE rest == net \ {m}
    <2>7. rest \in SUBSET net /\ net' = rest
        BY <1>9
    <2> HIDE DEF rest
    <2>6. rest \in SUBSET Messages /\ Few(rest)
        BY <1>1, <2>7, FewerFew
    <2>1. net' \in SUBSET Messages /\ Few(net') /\ ~Kind(net', "RELEASE")
        BY <1>1, <2>6, <2>7 DEF Kind
    <2>8. m.ip \in Addresses
        BY <1>6, <1>9 DEF Messages
    <2>2. kept \in Kept
        BY <1>3, <1>4, <2>8 DEF Kept
    <2>3. ASSUME LongLeases
          PROVE  AcksHeld(net', kept) /\ dhcp.state \in Idle
        <3>1. net' = {}
            BY <1>5, <1>9, <2>3
        <3>2. Kind(net, "DECLINE")
            BY <1>9 DEF Kind
        <3> QED BY <1>1, <2>3, <3>1, <3>2 DEF AcksHeld, Held, HeldBut, Negotiates
    <2>4. taken' \subseteq Addresses
        BY <1>9, <1>3, <1>6 DEF Messages
    <2> HIDE DEF kept
    <2>5. leases' = kept
        BY <1>9 DEF kept
    <2> QED BY <1>2, <2>1, <2>2, <2>3, <2>4, <2>5, ServedWorld
<1>10. CASE m.kind = "DISCOVER"
    <2>1. PICK a \in Addresses : Answer(m, "OFFER", a) /\ UNCHANGED <<leases, taken>>
        BY <1>10 DEF Serve
    <2> QED BY <1>7, <2>1
<1>11. CASE m.kind = "REQUEST" /\ Grantable(m.ip)
    BY <1>8, <1>11 DEF Serve
<1>12. CASE m.kind = "REQUEST" /\ ~Grantable(m.ip)
    <2>1. (Answer(m, "NAK", None) \/ net' = net \ {m}) /\ UNCHANGED <<leases, taken>>
        BY <1>12 DEF Serve
    <2> QED BY <1>7, <2>1
<1>13. CASE m.kind = "DECLINE"
    BY <1>9, <1>13 DEF Serve
<1> QED BY <1>10, <1>11, <1>12, <1>13 DEF Serve

(* Other clients, and the calm. *)
LEMMA OthersStep ==
    ASSUME ClientInv, Calm \/ \E a \in Addresses : OtherClient(a)
    PROVE  ClientInv'
<1>1. UNCHANGED <<dhcp, netif, net, short, leases>> /\ calm' \in BOOLEAN /\ taken' \subseteq Addresses
    BY DEF Calm, OtherClient, ClientInv
<1>2. World' = World
    BY <1>1 DEF World
<1> QED BY <1>1, <1>2 DEF ClientInv, Kept

(* The invariant holds in every behaviour. *)
LEMMA ClientInvHolds == DhcpSpec => []ClientInv
<1>1. DhcpInit => ClientInv
    <2> SUFFICES ASSUME DhcpInit
                 PROVE  ClientInv
        OBVIOUS
    <2>1. World = [dhcp |-> Cleared, netif |-> [up |-> TRUE, ip_addr |-> None],
                   net |-> {}, short |-> 0]
        BY DEF DhcpInit, World
    <2>2. Cleared \in DhcpRecords /\ Cleared.offered_t2_rebind = 0 /\ Cleared.state = "DHCP_OFF"
        BY Widths DEF Cleared, DhcpRecords, States
    <2>3. Few({})
        BY FS_EmptySet, DhcpAssumption DEF Few
    <2>4. World \in Worlds /\ World.dhcp = Cleared /\ World.net = {} /\ World.netif.ip_addr = None
        BY <2>1, <2>2 DEF Worlds, Netifs
    <2>5. Sane(World)
        BY <2>2, <2>3, <2>4 DEF Sane, Probed, Timely, Kind
    <2>6. Held(World, leases)
        BY <2>2, <2>4 DEF Held, HeldBut, AcksHeld, Idle, Agreed, Renewable, Quiet
    <2>7. Timed(World)
        BY <2>2, <2>4 DEF Timed, Untimed
    <2>8. leases \in Kept
        BY LeaseNumber DEF DhcpInit, Kept
    <2> QED BY <2>5, <2>6, <2>7, <2>8 DEF ClientInv, Good, Fine, DhcpInit
<1>2. ClientInv /\ [DhcpNext]_dhcpVars => ClientInv'
    <2> SUFFICES ASSUME ClientInv, [DhcpNext]_dhcpVars
                 PROVE  ClientInv'
        OBVIOUS
    <2>1. CASE User
        BY <2>1, StartStep, ReleaseStep, RenewStep, NetworkChangedStep DEF User
    <2>2. CASE Timer
        BY <2>2, FineTimeoutStep, MinuteStep DEF Timer
    <2>3. CASE Network
        BY <2>3, ServeStep, LoseStep, ReceiveStep DEF Network
    <2>4. CASE dhcp_arp_reply
        BY <2>4, DeclineStep
    <2>5. CASE Calm \/ \E a \in Addresses : OtherClient(a)
        BY <2>5, OthersStep
    <2>6. CASE UNCHANGED dhcpVars
        BY <2>6 DEF dhcpVars, ClientInv, World, Good, Fine, Sane, Timed, Held, HeldBut,
                    Few, Kept
    <2> QED BY <2>1, <2>2, <2>3, <2>4, <2>5, <2>6 DEF DhcpNext
<1> QED BY <1>1, <1>2, PTL DEF DhcpSpec

(* The fields of struct dhcp, the interface, what is under way and what the  *)
(* server keeps stay in their types: the timers fit their sixteen bits and   *)
(* the tries their eight (dhcp.h:30-55, dhcp.c:931-957).                     *)
THEOREM ClientTypesHold == DhcpSpec => []DhcpTypeOK
<1>1. ClientInv => DhcpTypeOK
    <2> SUFFICES ASSUME ClientInv
                 PROVE  DhcpTypeOK
        OBVIOUS
    <2>1. /\ dhcp \in DhcpRecords /\ netif \in Netifs /\ net \in SUBSET Messages
          /\ short \in 0..1 /\ Few(net) /\ ~Kind(net, "RELEASE")
        BY WorldKnown
    <2>2. net \subseteq [kind : ToServer \cup {"OFFER", "ACK", "NAK"},
                         ip : Addresses \cup {None}, current : BOOLEAN, late : BOOLEAN]
        BY <2>1 DEF Messages, Kind
    <2> QED BY <2>1, <2>2 DEF DhcpTypeOK, ClientInv, Kept, Few, DhcpRecords, Netifs
<1> QED BY <1>1, ClientInvHolds, PTL

(* Whatever the client waits for, but the answer to a renewal, its request   *)
(* timeout runs, where every OFFER has a server identifier (dhcp.c:238-262,  *)
(* 357-453).                                                                 *)
THEOREM ClientKeepsATimer ==
    ASSUME ServerIdGiven
    PROVE  DhcpSpec => []RequestTimed
<1>1. ClientInv => RequestTimed
    <2> SUFFICES ASSUME ClientInv
                 PROVE  RequestTimed
        OBVIOUS
    <2>1. World.dhcp = dhcp /\ Timed(World)
        BY WorldKnown
    <2> QED BY <2>1 DEF Timed, Untimed, RequestTimed
<1> QED BY <1>1, ClientInvHolds, PTL

(* An interface that is up uses an address only while the server keeps it,   *)
(* whatever is lost, repeated or late, for any times of a lease that is four *)
(* ticks longer than its rebinding time (dhcp.c:183-199, 333-354, 398-453):  *)
(* where the server sends that time, no timers of an older lease run out in  *)
(* a negotiation, and one message is under way at a time.                    *)
THEOREM AddressInUseIsLeased ==
    ASSUME MaxNet = 1, T2Given, ~StaleTimers, Ticks(T2) + 4 <= Lease
    PROVE  DhcpSpec => []LeaseHeld
<1>1. LongLeases
    BY DEF LongLeases
<1>2. ClientInv => LeaseHeld
    <2> SUFFICES ASSUME ClientInv, netif.up, netif.ip_addr # None
                 PROVE  leases[netif.ip_addr] > 0
        BY DEF LeaseHeld
    <2>1. /\ World.dhcp = dhcp /\ World.netif = netif /\ World.short = short
          /\ dhcp \in DhcpRecords /\ netif \in Netifs /\ short \in 0..1
          /\ Held(World, leases)
        BY <1>1, WorldKnown
    <2>2. netif.ip_addr \in Addresses /\ leases[netif.ip_addr] \in Nat
        BY <2>1, LeaseNumber DEF Netifs, ClientInv, Kept
    <2>3. dhcp.state \in Agreed
        BY <2>1 DEF Held, HeldBut, Quiet
    <2>4. CASE dhcp.state \in Renewable
        <3>1. dhcp.t2_timeout >= 1 /\ leases[netif.ip_addr] >= dhcp.t2_timeout + 2
            BY <2>1, <2>4 DEF Held, HeldBut, RenewableSoon
        <3>2. dhcp.t2_timeout \in Nat
            BY <2>1 DEF DhcpRecords
        <3> QED BY <2>2, <3>1, <3>2
    <2>5. CASE dhcp.state = "DHCP_REBINDING"
        <3>1. leases[netif.ip_addr] + short >= 2
            BY <2>1, <2>5 DEF Held, HeldBut, RebindableSoon
        <3> QED BY <2>1, <2>2, <3>1
    <2> QED BY <2>3, <2>4, <2>5 DEF Agreed, Renewable
<1> QED BY <1>2, ClientInvHolds, PTL
=============================================================================
