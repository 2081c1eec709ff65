------------------------------ MODULE TcpLive ------------------------------
(***************************************************************************)
(* The TCP connection of Tcp with the progress its surroundings make.  The *)
(* variable last names the step just taken and whose it was, so that       *)
(* fairness can be stated about states and TLC need not evaluate ENABLED.  *)
(***************************************************************************)
EXTENDS Tcp

VARIABLE last

liveVars == <<tcpVars, last>>

LiveInit == TcpInit /\ last = <<"other", Client>>

Step(name, h, A) == A /\ last' = <<name, h>>

LiveNext ==
    \/ Step("other", Client, tcp_connect)
    \/ \E h \in Hosts :
          \/ Step("input", h, InOrder(h))
          \/ Step("recved", h, Recved(h))
          \/ Step("fasttmr", h, tcp_fasttmr(h))
          \/ Step("rexmit", h, Rexmit(h))
          \/ Step("probe", h, Probe(h))
          \/ Step("other", h, Write(h) \/ WriteFails(h) \/ tcp_close(h) \/ tcp_shutdown(h))
          \/ Step("other", h, OutOfOrder(h) \/ Duplicated(h) \/ Lose(h))
          \/ Step("other", h, DropOoseq(h) \/ GiveUp(h) \/ TimeWaitEnds(h))

(* Where each step that has to be taken can be, without a fault.           *)
CanInput(h) == net[h] # <<>>
CanRecved(h) == Active(h) /\ app[h].ended # "close" /\ app[h].unread > 0
CanFasttmr(h) == Active(h) /\ pcb[h].ack_delay
CanRexmit(h) == Active(h) /\ pcb[h].unacked # <<>> /\ pcb[h].rtime /\ ~pcb[h].persist /\ Quiet
CanProbe(h) == Active(h) /\ pcb[h].persist /\ Quiet

CanStep(h) ==
    CanInput(h) \/ CanRecved(h) \/ CanFasttmr(h) \/ CanRexmit(h) \/ CanProbe(h)

Served(name, h, can) == ~can \/ last = <<name, h>>

(* Segments in flight arrive, tcpip_thread runs its timers and the         *)
(* application consumes what it is given; nothing makes it write or close. *)
(* The retransmission timer counts its ticks whatever else happens, so     *)
(* that it runs out if it can again and again.                             *)
LiveFairness ==
    /\ []<><<TRUE>>_tcpVars \/ []<>(\A h \in Hosts : ~CanStep(h))
    /\ \A h \in Hosts :
          /\ []<>Served("input", h, CanInput(h)) /\ []<>Served("recved", h, CanRecved(h))
          /\ []<>Served("fasttmr", h, CanFasttmr(h)) /\ []<>Served("probe", h, CanProbe(h))
          /\ <>[]~CanRexmit(h) \/ []<>(last = <<"rexmit", h>>)

LiveSpec == LiveInit /\ [][LiveNext]_liveVars /\ LiveFairness

(* Under loss, duplication, reordering, closed windows and lost window     *)
(* updates, what is written is eventually received, unless the connection  *)
(* was reset or given up or the receiver has closed.                       *)
EventuallyDelivered ==
    \A h \in Hosts :
        <>[]( \/ Len(app[Peer(h)].got) = app[h].written
              \/ app[h].dead \/ app[Peer(h)].dead \/ app[Peer(h)].ended = "close")
=============================================================================
