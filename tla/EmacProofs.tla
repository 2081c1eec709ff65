----------------------------- MODULE EmacProofs -----------------------------
(***************************************************************************)
(* The input thread never sleeps on packets, for any number of buffers,    *)
(* descriptors and places in the queues.                                   *)
(***************************************************************************)
EXTENDS Emac, TLAPS

(* pq_enqueue either adds nothing or signals the semaphore, so it keeps    *)
(* the input thread on its way.                                            *)
LEMMA EnqueueWakes ==
    ASSUME NEW ps, NoPacketStranded, pq_enqueue(ps), inputThread' = inputThread
    PROVE  NoPacketStranded'
<1>1. CASE Fitting(ps) = <<>>
    <2>1. recv_q' = recv_q \o <<>> /\ sem_rx_data_available' = sem_rx_data_available
        BY <1>1 DEF pq_enqueue
    <2>2. recv_q = <<>> => recv_q' = <<>>
        BY <2>1
    <2> QED BY <2>1, <2>2 DEF NoPacketStranded
<1>2. CASE Fitting(ps) # <<>>
    BY <1>2 DEF pq_enqueue, NoPacketStranded
<1> QED BY <1>1, <1>2

LEMMA SleeperStep ==
    ASSUME NoPacketStranded, [EmacNext]_emacVars
    PROVE  NoPacketStranded'
<1>1. CASE emacps_recv_handler
    BY <1>1, EnqueueWakes DEF emacps_recv_handler
<1>2. CASE emacps_error_handler_recv
    BY <1>2, EnqueueWakes DEF emacps_error_handler_recv
<1>3. CASE InputThreadWakes
    BY <1>3 DEF InputThreadWakes, NoPacketStranded
<1>4. CASE xemacpsif_input
    BY <1>4 DEF xemacpsif_input, AfterPacket, NoPacketStranded
<1>5. ASSUME UNCHANGED <<inq, inputThread>> PROVE NoPacketStranded'
    BY <1>5 DEF inq, NoPacketStranded
<1>6. CASE FrameArrives \/ FrameSent \/ emacps_send_handler \/ HandleTxErrors
    BY <1>5, <1>6 DEF FrameArrives, FrameSent, emacps_send_handler, HandleTxErrors
<1>7. CASE HandleEmacPsError
    BY <1>5, <1>7 DEF HandleEmacPsError
<1>8. CASE tcpip_thread
    BY <1>5, <1>8 DEF tcpip_thread
<1>9. CASE StackAllocates \/ \E p \in Pbufs : low_level_output(p) \/ StackFrees(p)
    BY <1>5, <1>9 DEF StackAllocates, low_level_output, StackFrees
<1>10. CASE UNCHANGED emacVars
    BY <1>5, <1>10 DEF emacVars
<1> QED BY <1>1, <1>2, <1>3, <1>4, <1>6, <1>7, <1>8, <1>9, <1>10 DEF EmacNext

(* Packets in the queue of the driver always have the input thread awake   *)
(* or its semaphore signalled, although one signal of a binary semaphore   *)
(* stands for any number of packets (xadapter.c, xemacpsif_dma.c).         *)
THEOREM InputThreadNeverSleepsOnPackets == EmacSpec => []NoPacketStranded
<1>1. EmacInit => NoPacketStranded
    BY DEF EmacInit, NoPacketStranded
<1> QED BY <1>1, SleeperStep, PTL DEF EmacSpec
=============================================================================
