-------------------------------- MODULE Emac --------------------------------
(***************************************************************************)
(* The Zynq Ethernet driver under lwIP: xemacpsif_dma.c (descriptor rings),*)
(* xemacpsif.c and xemacpsif_hw.c (output, input, error handling),         *)
(* xpqueue.c (the packet queue between interrupt and thread), xadapter.c   *)
(* (the input thread) and the mailbox of tcpip_thread.                     *)
(*                                                                         *)
(* The descriptor ring of the XEmacPs library is external: descriptors are *)
(* given to the hardware in order, come back in order, and the next one to *)
(* be allocated is rxNext or txNext.  Every function of the driver that    *)
(* touches a ring runs as an interrupt handler or with interrupts masked,  *)
(* so it is one step; no descriptor is between two groups outside a step.  *)
(* Handing a packet to tcpip_thread may switch to that thread, so that an  *)
(* interrupt can come between any two packets of the input thread although *)
(* it masks interrupts.                                                    *)
(***************************************************************************)
EXTENDS Pbuf

CONSTANTS
    N_RX,           \* XLWIP_CONFIG_N_RX_DESC
    N_TX,           \* XLWIP_CONFIG_N_TX_DESC
    PQ_SIZE,        \* PQ_QUEUE_SIZE
    MBOX_SIZE,      \* TCPIP_MBOX_SIZE
    Header, Data,   \* the two buffers of Ram: a packet of two buffers
    ErrorWhenShort, \* may a bus error come while descriptors lack a buffer?
    FreeOoseq       \* the callback that asks TCP to give buffers back

ASSUME EmacAssumption ==
    /\ N_RX \in Nat \ {0} /\ N_TX \in Nat \ {0}
    /\ PQ_SIZE \in Nat \ {0} /\ MBOX_SIZE \in Nat \ {0}
    /\ Ram = {Header, Data} /\ Header # Data
    /\ ErrorWhenShort \in BOOLEAN
    /\ FreeOoseq \notin Pbufs

VARIABLES
    mem,        \* the buffers
    rxHw,       \* receive descriptors the hardware may fill, in order
    rxDone,     \* receive descriptors filled and not yet collected
    rxNext,     \* the next receive descriptor to allocate
    rxPre,      \* number of receive descriptors allocated and never committed
    rx_pbufs_storage,
    txHw,       \* frames to transmit, each the sequence of its descriptors
    txDone,     \* frames transmitted and not yet collected
    txNext,     \* the next transmit descriptor to allocate
    txPre,      \* number of transmit descriptors allocated and never committed
    tx_pbufs_storage,
    buffna,     \* the hardware had no descriptor for a frame
    recv_q,     \* packet queue of the driver
    sem_rx_data_available,
    inputThread,\* "wait" (for the semaphore) or "input"
    mbox,       \* mailbox of tcpip_thread
    pbuf_free_ooseq_queued,
    held        \* buffers the stack and its users hold

rx == <<rxHw, rxDone, rxNext, rxPre, rx_pbufs_storage, buffna>>
tx == <<txHw, txDone, txNext, txPre, tx_pbufs_storage>>
inq == <<recv_q, sem_rx_data_available>>
stack == <<mbox, pbuf_free_ooseq_queued>>
emacVars == <<mem, rx, tx, inq, inputThread, stack, held>>

RxBds == 0..N_RX - 1
TxBds == 0..N_TX - 1

(* External: XEmacPs_BdRingGetFreeCnt of either ring.                      *)
RxFreeCnt == N_RX - Len(rxHw) - Len(rxDone) - rxPre
TxFreeCnt == N_TX - Len(FlattenSeq(txHw)) - Len(FlattenSeq(txDone)) - txPre

-----------------------------------------------------------------------------
(* Receiving.                                                              *)

(* What setup_rx_bds starts from: buffers m, free descriptors.             *)
RxState(m, free) == [mem |-> m, hw |-> rxHw, free |-> free, pre |-> rxPre,
                     next |-> rxNext, storage |-> rx_pbufs_storage]

(* setup_rx_bds: give a buffer to each of the free descriptors until the   *)
(* pool is empty; the descriptor that got none goes back to the ring with  *)
(* its old entry in rx_pbufs_storage.  After a descriptor that was never   *)
(* committed (see init_dma) the ring refuses the next one, out of          *)
(* sequence, and the function returns; descriptor and buffer stay behind.  *)
setup_rx_bds(s) ==
    LET committed == IF s.pre = 0 THEN Min({s.free, Len(s.mem.free)}) ELSE 0
        refused   == IF s.pre > 0 THEN Min({1, s.free, Len(s.mem.free)}) ELSE 0
        n         == committed + refused
        slot(i)   == (s.next + i - 1) % N_RX
    IN [mem     |-> pbuf_alloc_pool(s.mem, n),
        hw      |-> s.hw \o [i \in 1..committed |-> slot(i)],
        free    |-> s.free - n,
        pre     |-> s.pre + refused,
        next    |-> slot(n + 1),
        storage |-> [b \in RxBds |->
                       IF \E i \in 1..n : slot(i) = b
                       THEN s.mem.free[CHOOSE i \in 1..n : slot(i) = b]
                       ELSE s.storage[b]]]

RxUpdate(s) ==
    /\ mem' = s.mem /\ rxHw' = s.hw /\ rxDone' = <<>>
    /\ rxNext' = s.next /\ rxPre' = s.pre /\ rx_pbufs_storage' = s.storage

PoolFailed(s) == s.free > 0 /\ s.mem.free = <<>>

(* pbuf_pool_is_empty, called when a descriptor got no buffer: ask         *)
(* tcpip_thread to free out-of-sequence segments, unless a request is      *)
(* already queued; a full mailbox takes the request back.                  *)
pbuf_pool_is_empty_NotTakenBack(called) ==
    IF called /\ ~pbuf_free_ooseq_queued
    THEN /\ mbox' = IF Len(mbox) < MBOX_SIZE THEN Append(mbox, FreeOoseq) ELSE mbox
         /\ pbuf_free_ooseq_queued' = TRUE
    ELSE UNCHANGED stack

pbuf_pool_is_empty(called) ==
    IF called /\ ~pbuf_free_ooseq_queued /\ Len(mbox) < MBOX_SIZE
    THEN mbox' = Append(mbox, FreeOoseq) /\ pbuf_free_ooseq_queued' = TRUE
    ELSE UNCHANGED stack

(* pq_enqueue of the collected packets, in order: what does not fit is     *)
(* freed, and every packet that does fit signals the binary semaphore.     *)
Fitting(ps) == SubSeq(ps, 1, Min({Len(ps), PQ_SIZE - Len(recv_q)}))
Excess_Lost(ps) == <<>>
Excess(ps)  == SubSeq(ps, Len(Fitting(ps)) + 1, Len(ps))

pq_enqueue(ps) ==
    /\ recv_q' = recv_q \o Fitting(ps)
    /\ sem_rx_data_available' = IF Fitting(ps) = <<>> THEN sem_rx_data_available ELSE 1

(* emacps_recv_handler: collect every filled descriptor, queue its packet, *)
(* give the descriptors back and refill.                                   *)
Received == [i \in 1..Len(rxDone) |-> rx_pbufs_storage[rxDone[i]]]
Collected == RxState(pbuf_free_all(mem, Excess(Received)), RxFreeCnt + Len(rxDone))

emacps_recv_handler ==
    /\ rxDone # <<>>
    /\ pq_enqueue(Received)
    /\ LET s == setup_rx_bds(Collected)
       IN RxUpdate(s) /\ pbuf_pool_is_empty(PoolFailed(s))
    /\ UNCHANGED <<tx, buffna, inputThread, held>>

(* emacps_error_handler, receive overrun or no buffer: collect, as above,  *)
(* and refill even if nothing was collected.                               *)
RefillAfterError_IfCollected(s) == IF rxDone = <<>> THEN s ELSE setup_rx_bds(s)
RefillAfterError(s) == setup_rx_bds(IF rxDone = <<>> THEN s ELSE setup_rx_bds(s))

emacps_error_handler_recv ==
    /\ buffna
    /\ buffna' = FALSE
    /\ pq_enqueue(Received)
    /\ LET s == RefillAfterError(Collected)
       IN RxUpdate(s) /\ pbuf_pool_is_empty(PoolFailed(s))
    /\ UNCHANGED <<tx, inputThread, held>>

(* External: the hardware receives a frame into the next descriptor; with  *)
(* none left it raises the buffer-not-available error instead.             *)
FrameArrives ==
    /\ IF rxHw # <<>>
       THEN rxHw' = Tail(rxHw) /\ rxDone' = Append(rxDone, Head(rxHw)) /\ UNCHANGED buffna
       ELSE buffna' = TRUE /\ UNCHANGED <<rxHw, rxDone>>
    /\ UNCHANGED <<mem, rxNext, rxPre, rx_pbufs_storage, tx, inq, inputThread, stack, held>>

-----------------------------------------------------------------------------
(* Transmitting.                                                           *)

(* External: the hardware has sent the oldest frame.                       *)
FrameSent ==
    /\ txHw # <<>>
    /\ txHw' = Tail(txHw) /\ txDone' = Append(txDone, Head(txHw))
    /\ UNCHANGED <<mem, rx, txNext, txPre, tx_pbufs_storage, inq, inputThread, stack, held>>

(* process_sent_bds and FreeOnlyTxPBufs on the descriptors bds, in order:  *)
(* drop the driver's reference and clear the slot.                         *)
SlotPbufs(bds) == SelectSeq([i \in 1..Len(bds) |-> tx_pbufs_storage[bds[i]]],
                            LAMBDA p : p # NoPbuf)
ClearSlots(bds) == [b \in TxBds |-> IF b \in ToSet(bds) THEN NoPbuf ELSE tx_pbufs_storage[b]]
AllTxBds == [i \in 1..N_TX |-> i - 1]

emacps_send_handler ==
    /\ txDone # <<>>
    /\ LET bds == FlattenSeq(txDone)
       IN mem' = pbuf_free_all(mem, SlotPbufs(bds)) /\ tx_pbufs_storage' = ClearSlots(bds)
    /\ txDone' = <<>>
    /\ UNCHANGED <<rx, txHw, txNext, txPre, inq, inputThread, stack, held>>

(* emacps_error_handler, transmit errors, and HandleTxErrors: drop every   *)
(* frame, sent or not, and create the ring anew.                           *)
HandleTxErrors ==
    /\ txHw # <<>>
    /\ mem' = pbuf_free_all(mem, SlotPbufs(AllTxBds))
    /\ tx_pbufs_storage' = ClearSlots(AllTxBds)
    /\ txHw' = <<>> /\ txDone' = <<>> /\ txNext' = 0 /\ txPre' = 0
    /\ UNCHANGED <<rx, inq, inputThread, stack, held>>

(* low_level_output and emacps_sgsend: one descriptor per buffer of the    *)
(* chain, each with a reference of the driver.  Without a free descriptor, *)
(* with fewer than buffers, or with a slot still in use, nothing is sent;  *)
(* in the last case the references taken and the descriptors stay taken.   *)
TxSlots(n) == [i \in 1..n |-> (txNext + i - 1) % N_TX]

emacps_sgsend(c) ==
    LET bds == TxSlots(Len(c))
        inUse == {i \in 1..Len(c) : tx_pbufs_storage[bds[i]] # NoPbuf}
        taken == IF inUse = {} THEN Len(c) ELSE Min(inUse) - 1
    IN /\ mem' = FoldLeft(pbuf_ref, mem, SubSeq(c, 1, taken))
       /\ tx_pbufs_storage' = [b \in TxBds |->
            IF \E i \in 1..taken : bds[i] = b
            THEN c[CHOOSE i \in 1..taken : bds[i] = b] ELSE tx_pbufs_storage[b]]
       /\ txNext' = (txNext + Len(c)) % N_TX
       /\ IF inUse = {} THEN txHw' = Append(txHw, bds) /\ UNCHANGED txPre
                       ELSE txPre' = txPre + Len(c) /\ UNCHANGED txHw

low_level_output(p) ==
    /\ p \in held
    /\ Len(Chain(mem, p)) <= TxFreeCnt
    /\ emacps_sgsend(Chain(mem, p))
    /\ UNCHANGED <<rx, txDone, inq, inputThread, stack, held>>

-----------------------------------------------------------------------------
(* emacps_error_handler, bus errors, and HandleEmacPsError: FreeTxRxPBufs  *)
(* frees whatever either storage array names, the receive entries without  *)
(* looking whether the descriptor has a buffer, and init_dma starts again  *)
(* with empty rings.  If the pool runs dry before every receive descriptor *)
(* has a buffer, init_dma gives up and keeps the descriptor it allocated.  *)
AllRxBds == [i \in 1..N_RX |-> i - 1]

FreeTxRxPBufs ==
    pbuf_free_all(mem, SlotPbufs(AllTxBds) \o
        SelectSeq([i \in 1..N_RX |-> rx_pbufs_storage[i - 1]], LAMBDA p : p # NoPbuf))

init_dma(m, storage) ==
    LET s == setup_rx_bds([mem |-> m, hw |-> <<>>, free |-> N_RX, pre |-> 0, next |-> 0,
                           storage |-> storage])
    IN IF s.free = 0 THEN s
       ELSE [s EXCEPT !.free = @ - 1, !.pre = 1, !.next = (@ + 1) % N_RX]

HandleEmacPsError ==
    /\ ErrorWhenShort \/ RxFreeCnt = 0
    /\ LET s == init_dma(FreeTxRxPBufs, rx_pbufs_storage)
       IN RxUpdate(s) /\ pbuf_pool_is_empty(s.pre > 0)
    /\ tx_pbufs_storage' = ClearSlots(AllTxBds)
    /\ txHw' = <<>> /\ txDone' = <<>> /\ txNext' = 0 /\ txPre' = 0
    /\ buffna' = FALSE
    /\ UNCHANGED <<inq, inputThread, held>>

-----------------------------------------------------------------------------
(* The input thread and tcpip_thread.                                      *)

(* xemacif_input_thread: sys_sem_wait.                                     *)
InputThreadWakes ==
    /\ inputThread = "wait" /\ sem_rx_data_available = 1
    /\ sem_rx_data_available' = 0 /\ inputThread' = "input"
    /\ UNCHANGED <<mem, rx, tx, recv_q, stack, held>>

(* xemacpsif_input: one turn of its loop, which goes on after each packet. *)
(* IP and ARP packets go to tcpip_input, which refuses them when the       *)
(* mailbox is full; what is refused, and every other packet, is freed.  An *)
(* empty queue ends the loop.                                              *)
AfterPacket_Wait == "wait"
AfterPacket == "input"

xemacpsif_input ==
    /\ inputThread = "input"
    /\ IF recv_q = <<>>
       THEN inputThread' = "wait" /\ UNCHANGED <<mem, recv_q, mbox>>
       ELSE /\ recv_q' = Tail(recv_q)
            /\ inputThread' = AfterPacket
            /\ \/ /\ Len(mbox) < MBOX_SIZE
                  /\ mbox' = Append(mbox, Head(recv_q)) /\ UNCHANGED mem
               \/ mem' = pbuf_free(mem, Head(recv_q)) /\ UNCHANGED mbox
    /\ UNCHANGED <<rx, tx, sem_rx_data_available, pbuf_free_ooseq_queued, held>>

(* tcpip_thread: a packet goes to the protocols, which hold it until they  *)
(* or the application free it; a request to free out-of-sequence segments  *)
(* clears its flag first and then frees some of what is held.              *)
tcpip_thread ==
    /\ mbox # <<>>
    /\ mbox' = Tail(mbox)
    /\ IF Head(mbox) = FreeOoseq
       THEN /\ pbuf_free_ooseq_queued' = FALSE
            /\ \E out \in SUBSET (held \cap Pool) :
                 held' = held \ out /\ mem' = pbuf_free_all(mem, SetToSeq(out))
       ELSE held' = held \cup {Head(mbox)} /\ UNCHANGED <<mem, pbuf_free_ooseq_queued>>
    /\ UNCHANGED <<rx, tx, inq, inputThread>>

(* The stack frees a buffer it holds, or allocates a packet to send.       *)
StackFrees(p) ==
    /\ p \in held
    /\ held' = held \ {p} /\ mem' = pbuf_free(mem, p)
    /\ UNCHANGED <<rx, tx, inq, inputThread, stack>>

StackAllocates ==
    /\ mem.ref[Header] = 0 /\ mem.ref[Data] = 0
    /\ mem' = pbuf_alloc_ram(mem, Header, Data) /\ held' = held \cup {Header}
    /\ UNCHANGED <<rx, tx, inq, inputThread, stack>>

-----------------------------------------------------------------------------
(* low_level_init and init_dma: every receive descriptor has a buffer.     *)
EmacInit ==
    /\ LET s == init_dma(PbufInit, [b \in RxBds |-> NoPbuf])
       IN /\ mem = s.mem /\ rxHw = s.hw /\ rxNext = s.next /\ rxPre = s.pre
          /\ rx_pbufs_storage = s.storage
    /\ rxDone = <<>> /\ buffna = FALSE
    /\ txHw = <<>> /\ txDone = <<>> /\ txNext = 0 /\ txPre = 0
    /\ tx_pbufs_storage = [b \in TxBds |-> NoPbuf]
    /\ recv_q = <<>> /\ sem_rx_data_available = 0 /\ inputThread = "wait"
    /\ mbox = <<>> /\ pbuf_free_ooseq_queued = FALSE /\ held = {}

EmacNext ==
    \/ FrameArrives \/ FrameSent
    \/ emacps_recv_handler \/ emacps_error_handler_recv
    \/ emacps_send_handler \/ HandleTxErrors \/ HandleEmacPsError
    \/ InputThreadWakes \/ xemacpsif_input \/ tcpip_thread
    \/ StackAllocates
    \/ \E p \in Pbufs : low_level_output(p) \/ StackFrees(p)

(* Traffic goes on, and the processor serves a raised interrupt: weak      *)
(* fairness of emacps_recv_handler, which is enabled while rxDone is not   *)
(* empty and empties it, and of emacps_error_handler_recv likewise.        *)
EmacFairness ==
    /\ WF_emacVars(FrameArrives)
    /\ []<>(rxDone = <<>>) /\ []<>~buffna

EmacSpec == EmacInit /\ [][EmacNext]_emacVars /\ EmacFairness

-----------------------------------------------------------------------------
(* The pointers to p: descriptors with a buffer, the queues, the stack and *)
(* the chain it hangs in.                                                  *)
Count(s, p) == Cardinality({i \in DOMAIN s : s[i] = p})
Pointers(p) ==
      Count([i \in DOMAIN rxHw |-> rx_pbufs_storage[rxHw[i]]] \o Received, p)
    + Count(tx_pbufs_storage, p) + Count(recv_q, p) + Count(mbox, p)
    + (IF p \in held THEN 1 ELSE 0)
    + Cardinality({q \in Pbufs : mem.next[q] = p /\ mem.ref[q] > 0})

(* The reference count of every buffer is the number of pointers to it,    *)
(* and the pool holds exactly the buffers nothing points to, once each:    *)
(* no frame, error or full queue loses a buffer or frees it twice.         *)
RefsExact ==
    /\ \A p \in Pbufs : mem.ref[p] = Pointers(p)
    /\ \A p \in Pool : Count(mem.free, p) = IF Pointers(p) = 0 THEN 1 ELSE 0

(* A transmit slot names a buffer exactly while its descriptor is under    *)
(* way, so emacps_sgsend never meets a slot in use after it has taken      *)
(* descriptors and references.                                             *)
TxSlotsClear ==
    \A b \in TxBds : (tx_pbufs_storage[b] # NoPbuf)
                         <=> b \in ToSet(FlattenSeq(txHw \o txDone))

(* Every way of a buffer through the driver keeps the books: its pointers,  *)
(* its references and the slots of the rings agree.                        *)
BuffersTracked == RefsExact /\ TxSlotsClear

(* While packets are queued the input thread is on its way to them: it is  *)
(* in xemacpsif_input, or its semaphore is signalled, although one signal  *)
(* of a binary semaphore may stand for many packets.                       *)
NoPacketStranded ==
    recv_q # <<>> => inputThread = "input" \/ sem_rx_data_available = 1

(* The flag of pbuf_pool_is_empty is set exactly while its request waits   *)
(* in the mailbox: a lost request would disable the reclaim for good, a    *)
(* second one would waste the mailbox in the worst moment.                 *)
ReclaimPending ==
    Count(mbox, FreeOoseq) = IF pbuf_free_ooseq_queued THEN 1 ELSE 0

(* A receive ring that shrank because the pool was empty grows back: while *)
(* traffic goes on, descriptors lack buffers only until the pool has some  *)
(* and a receive or error interrupt refills the ring.                      *)
RingRecovers ==
    (RxFreeCnt > 0 /\ mem.free # <<>>) ~> (RxFreeCnt = 0 \/ mem.free = <<>>)
=============================================================================
