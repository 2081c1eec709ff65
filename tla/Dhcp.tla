--------------------------------- MODULE Dhcp ---------------------------------
(***************************************************************************)
(* The DHCP client of lwIP, core/dhcp.c, in tcpip_thread, with a server    *)
(* and a network that loses, repeats, delays and reorders messages.        *)
(*                                                                         *)
(* The functions of the client map a world [dhcp, netif, net, short] to a  *)
(* world.  mem says whether dhcp_create_msg gets its buffer.  The network  *)
(* is external: it stands for what udp_sendto_if reaches.                  *)
(***************************************************************************)
EXTENDS Integers, FiniteSets

CONSTANTS
    Addresses,              \* what the server hands out
    T0, T1, T2,             \* seconds: the lease, its renewal, its rebinding
    T2Given,                \* BOOLEAN: the server sends the rebinding time
    ServerIdGiven,          \* BOOLEAN: every OFFER has a server identifier
    StaleTimers,            \* BOOLEAN: see CoarseTick
    DHCP_COARSE_TIMER_SECS,
    DHCP_DOES_ARP_CHECK,
    RequestTries, RebindTries, REBOOT_TRIES,
    TriesMod,               \* width of tries: 256 in the code
    TimerMod,               \* width of t1_timeout and t2_timeout: 65536
    MaxNet                  \* bound: messages under way

\* (secs + DHCP_COARSE_TIMER_SECS / 2) / DHCP_COARSE_TIMER_SECS, 1 at least
Ticks(secs) ==
    LET t == (secs + DHCP_COARSE_TIMER_SECS \div 2) \div DHCP_COARSE_TIMER_SECS
    IN IF t = 0 THEN 1 ELSE t

Lease == T0 \div DHCP_COARSE_TIMER_SECS

\* ip_addr_any, which no server hands out.
None == "0.0.0.0"

ASSUME DhcpAssumption ==
    /\ {T0, T1, T2} \subseteq Nat /\ DHCP_COARSE_TIMER_SECS \in Nat \ {0}
    /\ {T2Given, ServerIdGiven, StaleTimers, DHCP_DOES_ARP_CHECK} \subseteq BOOLEAN
    /\ {RequestTries, RebindTries, REBOOT_TRIES, TriesMod, TimerMod} \subseteq Nat
    /\ Ticks(T1) < TimerMod /\ Ticks(IF T2Given THEN T2 ELSE T0) < TimerMod
    /\ \A n \in {RequestTries, RebindTries, REBOOT_TRIES} : n + 1 < TriesMod
    /\ MaxNet \in Nat \ {0} /\ None \notin Addresses

VARIABLES
    dhcp,       \* struct dhcp of the interface
    netif,      \* the interface: [up, ip_addr]
    net,        \* messages under way
    short,      \* ticks spent in REBINDING or CHECKING, which are short
    leases,     \* address |-> minutes the server keeps it for us yet
    taken,      \* addresses of other clients
    calm        \* the server is there and the network quick, from now on

dhcpVars == <<dhcp, netif, net, short, leases, taken, calm>>

Quick == {"DHCP_REBINDING", "DHCP_CHECKING"}
ToServer == {"DISCOVER", "REQUEST", "DECLINE"}
\* current: the message has the transaction identifier dhcp->xid.
Message(kind, ip) == [kind |-> kind, ip |-> ip, current |-> TRUE, late |-> FALSE]
World == [dhcp |-> dhcp, netif |-> netif, net |-> net, short |-> short]

-----------------------------------------------------------------------------
(* Pieces of the client. *)

dhcp_set_state(w, new_state) ==
    IF w.dhcp.state = new_state THEN w
    ELSE [w EXCEPT !.dhcp.state = new_state, !.dhcp.tries = 0,
                   !.dhcp.request_timeout = FALSE, !.short = 0]

Carried(messages, m) ==
    IF Cardinality(messages) < MaxNet THEN messages \cup {m} ELSE messages

\* With a new transaction identifier, answers to earlier messages are void.
Superseded(messages) ==
    {[m EXCEPT !.current = FALSE] : m \in {n \in messages : n.kind \in ToServer}}

\* dhcp_create_msg and udp_sendto_if: retransmissions keep the identifier.
Transmit(w, kind, ip, mem) ==
    IF ~mem THEN w
    ELSE LET kept == IF w.dhcp.tries = 0 THEN Superseded(w.net) ELSE w.net
         IN [w EXCEPT !.net = Carried(kept, Message(kind, ip))]

NextTry(w) == (w.dhcp.tries + 1) % TriesMod

\* One more try and its timeout.  Where that is a multiple of tries, it is
\* zero when tries has wrapped.
AfterTry(w, zero, mem) ==
    [w EXCEPT !.dhcp.tries = NextTry(w),
              !.dhcp.request_timeout = ~(zero /\ NextTry(w) = 0)]

Request(w, state, ip, zero, mem) ==
    AfterTry(Transmit(dhcp_set_state(w, state), "REQUEST", ip, mem), zero, mem)

dhcp_discover(w, mem) ==
    LET v == dhcp_set_state([w EXCEPT !.dhcp.offered_ip_addr = None], "DHCP_SELECTING")
    IN AfterTry(Transmit(v, "DISCOVER", None, mem), FALSE, mem)

dhcp_select(w, mem) == Request(w, "DHCP_REQUESTING", w.dhcp.offered_ip_addr, FALSE, mem)
dhcp_renew(w, mem) == Request(w, "DHCP_RENEWING", w.netif.ip_addr, TRUE, mem)
dhcp_rebind(w, mem) == Request(w, "DHCP_REBINDING", w.netif.ip_addr, TRUE, mem)
dhcp_reboot(w, mem) == Request(w, "DHCP_REBOOTING", w.dhcp.offered_ip_addr, TRUE, mem)

dhcp_check_StateLast(w) == dhcp_set_state(AfterTry(w, FALSE, TRUE), "DHCP_CHECKING")

dhcp_check(w) == AfterTry(dhcp_set_state(w, "DHCP_CHECKING"), FALSE, TRUE)

dhcp_decline(w, mem) ==
    AfterTry(Transmit(dhcp_set_state(w, "DHCP_BACKING_OFF"),
                      "DECLINE", w.dhcp.offered_ip_addr, mem), FALSE, mem)

\* netif_set_down, and no address any more
Unconfigured == [up |-> FALSE, ip_addr |-> None]

\* The message says neither which server nor which address it is about, both
\* being cleared before: a server can do nothing with it.
dhcp_release(w, mem) ==
    LET off == dhcp_set_state(w, "DHCP_OFF")
        cleared == [off EXCEPT !.dhcp.offered_ip_addr = None, !.dhcp.offered_t1_renew = 0,
                               !.dhcp.offered_t2_rebind = 0]
        sent == Transmit(cleared, "RELEASE", None, mem)
    IN [AfterTry(sent, TRUE, mem) EXCEPT
            !.net = {m \in @ : m.kind # "RELEASE"}, !.netif = Unconfigured]

dhcp_bind(w) ==
    dhcp_set_state(
        [w EXCEPT !.dhcp.t1_timeout = Ticks(w.dhcp.offered_t1_renew),
                  !.dhcp.t2_timeout = Ticks(w.dhcp.offered_t2_rebind),
                  !.netif = [up |-> TRUE, ip_addr |-> w.dhcp.offered_ip_addr]],
        "DHCP_BOUND")

-----------------------------------------------------------------------------
(* Answers. *)

dhcp_handle_ack(w, ip) ==
    [w EXCEPT !.dhcp.offered_ip_addr = ip, !.dhcp.offered_t1_renew = T1,
              !.dhcp.offered_t2_rebind = IF T2Given THEN T2 ELSE T0]

dhcp_handle_nak(w, mem) ==
    dhcp_discover(dhcp_set_state([w EXCEPT !.netif = Unconfigured], "DHCP_BACKING_OFF"), mem)

\* An OFFER without a server identifier is not taken, but has stopped the
\* timeout.
dhcp_handle_offer(w, ip, server_id, mem) ==
    LET v == [w EXCEPT !.dhcp.request_timeout = FALSE]
    IN IF server_id THEN dhcp_select([v EXCEPT !.dhcp.offered_ip_addr = ip], mem) ELSE v

dhcp_recv(w, m, server_id, mem) ==
    CASE m.kind = "ACK" /\ w.dhcp.state = "DHCP_REQUESTING" ->
            LET v == dhcp_handle_ack(w, m.ip)
            IN IF DHCP_DOES_ARP_CHECK THEN dhcp_check(v) ELSE dhcp_bind(v)
      [] m.kind = "ACK" /\ w.dhcp.state \in
            {"DHCP_REBOOTING", "DHCP_REBINDING", "DHCP_RENEWING"} -> dhcp_bind(w)
      [] m.kind = "NAK" /\ w.dhcp.state \in
            {"DHCP_REBOOTING", "DHCP_REQUESTING", "DHCP_REBINDING", "DHCP_RENEWING"} ->
            dhcp_handle_nak(w, mem)
      [] m.kind = "OFFER" /\ w.dhcp.state = "DHCP_SELECTING" ->
            dhcp_handle_offer(w, m.ip, server_id, mem)
      [] OTHER -> w

-----------------------------------------------------------------------------
(* Timeouts.  mem2 is the buffer of a second message. *)

Restart(w, mem, mem2) == dhcp_discover(dhcp_release(w, mem), mem2)

Discovering_SelectingOnly == {"DHCP_SELECTING"}

\* the back-off period has passed, or server selection timed out
Discovering == {"DHCP_BACKING_OFF", "DHCP_SELECTING"}

dhcp_timeout(w, mem, mem2) ==
    LET tries == w.dhcp.tries
    IN CASE w.dhcp.state \in Discovering -> dhcp_discover(w, mem)
         [] w.dhcp.state = "DHCP_REQUESTING" ->
                IF tries <= RequestTries THEN dhcp_select(w, mem) ELSE Restart(w, mem, mem2)
         [] w.dhcp.state = "DHCP_CHECKING" -> IF tries <= 1 THEN dhcp_check(w) ELSE dhcp_bind(w)
         [] w.dhcp.state = "DHCP_RENEWING" -> dhcp_renew(w, mem)
         [] w.dhcp.state = "DHCP_REBINDING" ->
                IF tries <= RebindTries THEN dhcp_rebind(w, mem) ELSE Restart(w, mem, mem2)
         [] w.dhcp.state = "DHCP_REBOOTING" ->
                IF tries < REBOOT_TRIES THEN dhcp_reboot(w, mem) ELSE dhcp_discover(w, mem)
         [] OTHER -> w

Leasing == {"DHCP_REQUESTING", "DHCP_BOUND", "DHCP_RENEWING"}

dhcp_t1_timeout(w, mem) == IF w.dhcp.state \in Leasing THEN dhcp_renew(w, mem) ELSE w
dhcp_t2_timeout_Renews(w, mem) == IF w.dhcp.state \in Leasing THEN dhcp_renew(w, mem) ELSE w

dhcp_t2_timeout(w, mem) == IF w.dhcp.state \in Leasing THEN dhcp_rebind(w, mem) ELSE w

\* timer--, an unsigned number
Decremented(t) == (t + TimerMod - 1) % TimerMod

\* dhcp_coarse_tmr for one interface
CoarseTimers(w, mem) ==
    LET t1 == w.dhcp.t1_timeout
        t2 == w.dhcp.t2_timeout
        v == [w EXCEPT !.dhcp.t2_timeout = Decremented(t2)]
        u == [v EXCEPT !.dhcp.t1_timeout = Decremented(t1)]
    IN IF t2 = 1 THEN dhcp_t2_timeout(v, mem)
       ELSE IF t1 = 1 THEN dhcp_t1_timeout(u, mem) ELSE u

-----------------------------------------------------------------------------
(* Steps of the client. *)

Becomes(w) == dhcp' = w.dhcp /\ netif' = w.netif /\ net' = w.net /\ short' = w.short

\* A buffer can be had, or not; always when all is calm.
Memory == IF calm THEN {TRUE} ELSE BOOLEAN

\* When all is calm, messages are faster than timers.
Undisturbed == calm => net = {}

Cleared == [state |-> "DHCP_OFF", tries |-> 0, request_timeout |-> FALSE,
            t1_timeout |-> 0, t2_timeout |-> 0, offered_ip_addr |-> None,
            offered_t1_renew |-> 0, offered_t2_rebind |-> 0]

\* dhcp_start of an interface whose client is off; dhcp_stop if it fails.
dhcp_start ==
    /\ dhcp.state = "DHCP_OFF" /\ ~calm
    /\ \E mem \in BOOLEAN :
           LET w == dhcp_discover([World EXCEPT !.dhcp = Cleared, !.net = Superseded(@)], mem)
           IN Becomes(IF mem THEN w ELSE dhcp_set_state(w, "DHCP_OFF"))
    /\ UNCHANGED <<leases, taken, calm>>

UserRelease ==
    /\ dhcp.state # "DHCP_OFF" /\ ~calm
    /\ \E mem \in Memory : Becomes(dhcp_release(World, mem))
    /\ UNCHANGED <<leases, taken, calm>>

\* dhcp_renew by the application: an early renewal.
UserRenew ==
    /\ dhcp.state = "DHCP_BOUND" /\ ~calm
    /\ \E mem \in Memory : Becomes(dhcp_renew(World, mem))
    /\ UNCHANGED <<leases, taken, calm>>

dhcp_network_changed ==
    /\ dhcp.state # "DHCP_OFF" /\ ~calm
    /\ \E mem \in Memory :
           Becomes(IF dhcp.state \in {"DHCP_REBINDING", "DHCP_RENEWING", "DHCP_BOUND",
                                      "DHCP_REBOOTING"}
                   THEN dhcp_reboot([World EXCEPT !.netif.up = FALSE, !.dhcp.tries = 0], mem)
                   ELSE dhcp_discover([World EXCEPT !.dhcp.tries = 0], mem))
    /\ UNCHANGED <<leases, taken, calm>>

\* The request timeout runs out, in dhcp_fine_tmr.
FineTimeout ==
    /\ dhcp.request_timeout /\ Undisturbed
    /\ \E mem, mem2 \in Memory :
           Becomes(dhcp_timeout([World EXCEPT !.dhcp.request_timeout = FALSE], mem, mem2))
    /\ UNCHANGED <<leases, taken, calm>>

\* A minute: messages late by one are lost, and leases get shorter.  The nine
\* tries of REBINDING take 45 seconds, the two of CHECKING one.  After
\* dhcp_network_changed the timers of the old lease and its address stay;
\* unless StaleTimers, they do not run out in the middle of a new request.
CoarseTick ==
    LET later == [World EXCEPT
            !.net = {[m EXCEPT !.late = TRUE] : m \in {n \in @ : ~n.late}},
            !.short = IF dhcp.state \in Quick THEN @ + 1 ELSE @]
    IN /\ Undisturbed
       /\ dhcp.state \in Quick => short = 0
       /\ StaleTimers \/ dhcp.state # "DHCP_REQUESTING" \/ netif.ip_addr = None
          \/ 1 \notin {dhcp.t1_timeout, dhcp.t2_timeout}
       /\ \E mem \in Memory : Becomes(CoarseTimers(later, mem))
       /\ leases' = [a \in Addresses |-> IF leases[a] = 0 THEN 0 ELSE leases[a] - 1]
       /\ UNCHANGED <<taken, calm>>

Received(m, twice) == IF twice THEN net ELSE net \ {m}

\* An answer arrives, and perhaps once more.
Receive(m, twice) ==
    /\ m.kind \notin ToServer /\ (calm => ~twice)
    /\ \E mem \in Memory, server_id \in IF ServerIdGiven THEN {TRUE} ELSE BOOLEAN :
           Becomes(dhcp_recv([World EXCEPT !.net = Received(m, twice)], m, server_id, mem))
    /\ UNCHANGED <<leases, taken, calm>>

\* dhcp_arp_reply: another host has the address.
dhcp_arp_reply ==
    /\ dhcp.state = "DHCP_CHECKING" /\ ~calm
    /\ \E mem \in Memory : Becomes(dhcp_decline(World, mem))
    /\ UNCHANGED <<leases, taken, calm>>

-----------------------------------------------------------------------------
(* The server, other clients and the network. *)

Grantable(a) == a \in Addresses \ taken

\* The answer to m, if the client still waits for it.
Answer(m, kind, ip) ==
    net' = IF m.current THEN Carried(net \ {m}, Message(kind, ip)) ELSE net \ {m}

Serve(m) ==
    /\ \/ /\ m.kind = "DISCOVER"
          /\ \E a \in Addresses : Grantable(a) /\ Answer(m, "OFFER", a)
          /\ UNCHANGED <<leases, taken>>
       \/ /\ m.kind = "REQUEST" /\ Grantable(m.ip)
          /\ leases' = [leases EXCEPT ![m.ip] = Lease]
          /\ Answer(m, "ACK", m.ip)
          /\ UNCHANGED taken
       \/ /\ m.kind = "REQUEST" /\ ~Grantable(m.ip)
          /\ Answer(m, "NAK", None) \/ (m.ip = None /\ net' = net \ {m})
          /\ UNCHANGED <<leases, taken>>
       \/ /\ m.kind = "DECLINE"
          /\ leases' = [leases EXCEPT ![m.ip] = 0] /\ taken' = taken \cup {m.ip}
          /\ net' = net \ {m}
    /\ UNCHANGED <<dhcp, netif, short, calm>>

Lose(m) ==
    /\ ~calm
    /\ net' = net \ {m}
    /\ UNCHANGED <<dhcp, netif, short, leases, taken, calm>>

OtherClient(a) ==
    /\ ~calm /\ leases[a] = 0
    /\ taken' = IF a \in taken THEN taken \ {a} ELSE taken \cup {a}
    /\ UNCHANGED <<dhcp, netif, net, short, leases, calm>>

Calm ==
    /\ ~calm /\ calm' = TRUE
    /\ net = {} /\ \E a \in Addresses : Grantable(a)
    /\ UNCHANGED <<dhcp, netif, net, short, leases, taken>>

-----------------------------------------------------------------------------
DhcpInit ==
    /\ dhcp = Cleared
    /\ netif = [up |-> TRUE, ip_addr |-> None]
    /\ net = {} /\ short = 0 /\ calm = FALSE
    /\ leases = [a \in Addresses |-> 0] /\ taken = {}

Timer == FineTimeout \/ CoarseTick
Network == \E m \in net : Serve(m) \/ Lose(m) \/ \E twice \in BOOLEAN : Receive(m, twice)
User == dhcp_start \/ UserRelease \/ UserRenew \/ dhcp_network_changed

DhcpNext ==
    \/ User \/ Timer \/ Network \/ dhcp_arp_reply
    \/ \E a \in Addresses : OtherClient(a)
    \/ Calm

\* The timers of tcpip_thread run (SysTimeouts); a request timeout is shorter
\* than a minute.
DhcpFairness == WF_dhcpVars(FineTimeout) /\ WF_dhcpVars(CoarseTick) /\ WF_dhcpVars(Network)

DhcpSpec == DhcpInit /\ [][DhcpNext]_dhcpVars /\ DhcpFairness

-----------------------------------------------------------------------------
(* Properties. *)

States == {"DHCP_OFF", "DHCP_SELECTING", "DHCP_REQUESTING", "DHCP_CHECKING", "DHCP_BOUND",
           "DHCP_RENEWING", "DHCP_REBINDING", "DHCP_REBOOTING", "DHCP_BACKING_OFF"}

DhcpTypeOK ==
    /\ dhcp \in [state : States, tries : 0..TriesMod - 1, request_timeout : BOOLEAN,
                 t1_timeout : 0..TimerMod - 1, t2_timeout : 0..TimerMod - 1,
                 offered_ip_addr : Addresses \cup {None},
                 offered_t1_renew : {0, T1}, offered_t2_rebind : {0, T0, T2}]
    /\ netif \in [up : BOOLEAN, ip_addr : Addresses \cup {None}]
    /\ net \subseteq [kind : ToServer \cup {"OFFER", "ACK", "NAK"}, ip : Addresses \cup {None},
                      current : BOOLEAN, late : BOOLEAN]
    /\ Cardinality(net) <= MaxNet
    /\ short \in 0..1 /\ calm \in BOOLEAN
    /\ leases \in [Addresses -> 0..Lease] /\ taken \subseteq Addresses

\* An interface that is up uses an address only as long as the server keeps it
\* for us, whatever answers come late or twice, timers run stale, memory is
\* short and negotiations are broken off (dhcp.c:183-199, 333-354, 398-453).
LeaseHeld == netif.up /\ netif.ip_addr # None => leases[netif.ip_addr] > 0

\* Whatever the client waits for, other than the answer to a renewal, its
\* request timeout runs: it is never left without a timer (dhcp.c:357-388).
RequestTimed ==
    dhcp.state \notin {"DHCP_OFF", "DHCP_BOUND", "DHCP_RENEWING"} => dhcp.request_timeout

\* "Just retry renewal" (dhcp.c:433): a renewal that is not answered is tried
\* again.
RenewalRetried == dhcp.state = "DHCP_RENEWING" => dhcp.request_timeout

\* "Bind interface to the acknowledged lease address" (dhcp.c:1585): an
\* address is bound while the server keeps it for us.
BindsAcknowledged ==
    [][dhcp.state # "DHCP_BOUND" /\ dhcp'.state = "DHCP_BOUND"
           => leases[netif'.ip_addr] > 0]_dhcpVars

\* Whatever happened before, a client that is on is bound to an address some
\* time after the server and the network are back (dhcp.c:398-453).
EventuallyBound == calm /\ dhcp.state # "DHCP_OFF" ~> dhcp.state = "DHCP_BOUND"
=============================================================================
