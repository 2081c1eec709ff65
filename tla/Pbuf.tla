-------------------------------- MODULE Pbuf --------------------------------
(***************************************************************************)
(* pbuf.c and memp.c: reference-counted packet buffers.  A record m holds  *)
(* the counts, the chain links and the free list of the pool; the          *)
(* operators below return the record the C function leaves behind.  Every  *)
(* one of them is atomic: the C code changes the count and the free list   *)
(* with interrupts masked (SYS_ARCH_PROTECT).  The payload is left out.    *)
(***************************************************************************)
EXTENDS Naturals, FiniteSets, SequencesExt

CONSTANTS
    Pool,       \* the buffers of PBUF_POOL, of fixed number
    Ram,        \* the buffers of PBUF_RAM, from the heap
    NoPbuf      \* the NULL pointer

Pbufs == Pool \cup Ram

ASSUME PbufAssumption ==
    IsFiniteSet(Pool) /\ Pool \cap Ram = {} /\ NoPbuf \notin Pbufs

(* memp_init: every element of the pool is on its free list.               *)
PbufInit == [ref  |-> [p \in Pbufs |-> 0],
             next |-> [p \in Pbufs |-> NoPbuf],
             free |-> SetToSeq(Pool)]

(* pbuf_alloc(.., PBUF_POOL) for a length that fits one buffer, n times    *)
(* over; the caller has seen that the free list is long enough.            *)
pbuf_alloc_pool(m, n) ==
    [m EXCEPT !.free = SubSeq(@, n + 1, Len(@)),
              !.ref  = [p \in Pbufs |-> IF p \in ToSet(SubSeq(m.free, 1, n)) THEN 1 ELSE @[p]],
              !.next = [p \in Pbufs |-> IF p \in ToSet(SubSeq(m.free, 1, n)) THEN NoPbuf ELSE @[p]]]

(* pbuf_alloc(.., PBUF_RAM) of a header h, chained in front of d.          *)
pbuf_alloc_ram(m, h, d) ==
    [m EXCEPT !.ref = [@ EXCEPT ![h] = 1, ![d] = 1], !.next = [@ EXCEPT ![h] = d, ![d] = NoPbuf]]

pbuf_ref(m, p) == [m EXCEPT !.ref[p] = @ + 1]

(* memp_free and mem_free: what belongs to the pool goes back to the head  *)
(* of the free list.                                                       *)
memp_free(m, p) == IF p \in Pool THEN [m EXCEPT !.free = <<p>> \o @] ELSE m

(* One turn of the loop of pbuf_free: the count is a 16-bit number.        *)
Dereference(m, p) ==
    LET ref == (m.ref[p] + 65535) % 65536
        d   == [m EXCEPT !.ref[p] = ref]
    IN IF ref = 0 THEN memp_free(d, p) ELSE d

(* pbuf_free: dereference p and, as long as the count falls to zero, the   *)
(* rest of its chain.  The chains of this model have at most two buffers.  *)
pbuf_free(m, p) ==
    LET d == Dereference(m, p)
        q == m.next[p]
    IN IF p = NoPbuf THEN m
       ELSE IF d.ref[p] = 0 /\ q # NoPbuf THEN Dereference(d, q) ELSE d

pbuf_free_all(m, ps) == FoldLeft(pbuf_free, m, ps)

Chain(m, p) == IF m.next[p] = NoPbuf THEN <<p>> ELSE <<p, m.next[p]>>
=============================================================================
