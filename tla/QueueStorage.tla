---------------------------- MODULE QueueStorage ----------------------------
(***************************************************************************)
(* The storage area of a queue (queue.c): a ring of uxLength slots, written*)
(* at pcWriteTo, read behind pcReadFrom.  A pointer is the index of its    *)
(* slot; pcHead is 0 and pcTail is uxLength.                               *)
(***************************************************************************)
EXTENDS Naturals, Sequences

CONSTANTS uxLength,         \* slots, at least one (xQueueCreate refuses 0)
          Messages          \* what a slot can hold

ASSUME StorageAssumption == uxLength \in Nat \ {0}

VARIABLES pcSlots, pcWriteTo, pcReadFrom, uxMessagesWaiting

storage == <<pcSlots, pcWriteTo, pcReadFrom, uxMessagesWaiting>>
Slots == 0..(uxLength - 1)

(* A pointer moved one slot on or back, with the code's wrap tests.         *)
Advance_Late(p) == IF p + 1 > uxLength THEN 0 ELSE p + 1      \* mutant: > for >=
Advance(p) == IF p + 1 >= uxLength THEN 0 ELSE p + 1
Retreat(p) == IF p = 0 THEN uxLength - 1 ELSE p - 1

IsQueueFull == uxMessagesWaiting = uxLength
IsQueueEmpty == uxMessagesWaiting = 0

(* xQueueCreate, on whatever the allocated memory held.                     *)
StorageInit ==
    /\ pcSlots \in [Slots -> Messages]
    /\ pcWriteTo = 0
    /\ pcReadFrom = uxLength - 1
    /\ uxMessagesWaiting = 0

(* prvCopyDataToQueue: the back is written, then the pointer moves; the     *)
(* front is written where the reader stands, then the reader moves back.    *)
CopyToBack(m) ==
    /\ pcSlots' = [pcSlots EXCEPT ![pcWriteTo] = m]
    /\ pcWriteTo' = Advance(pcWriteTo)
    /\ uxMessagesWaiting' = uxMessagesWaiting + 1
    /\ UNCHANGED pcReadFrom

CopyToFront(m) ==
    /\ pcSlots' = [pcSlots EXCEPT ![pcReadFrom] = m]
    /\ pcReadFrom' = Retreat(pcReadFrom)
    /\ uxMessagesWaiting' = uxMessagesWaiting + 1
    /\ UNCHANGED pcWriteTo

(* prvCopyDataFromQueue and the decrement of its callers that remove; the   *)
(* message read is NextMessage.  A peek puts pcReadFrom back.               *)
NextMessage == pcSlots[Advance(pcReadFrom)]

CopyFrom ==
    /\ pcReadFrom' = Advance(pcReadFrom)
    /\ uxMessagesWaiting' = uxMessagesWaiting - 1
    /\ UNCHANGED <<pcSlots, pcWriteTo>>

(* The callers test for room and for messages first.                        *)
Send == ~IsQueueFull /\ \E m \in Messages : CopyToBack(m) \/ CopyToFront(m)
Receive == ~IsQueueEmpty /\ CopyFrom
StorageNext == Send \/ Receive

StorageSpec == StorageInit /\ [][StorageNext]_storage

-----------------------------------------------------------------------------
(* The slot of the n-th message from the front, and the messages in order.  *)
SlotOf(n) == IF pcReadFrom + n >= uxLength THEN pcReadFrom + n - uxLength
             ELSE pcReadFrom + n
Contents == [n \in 1..uxMessagesWaiting |-> pcSlots[SlotOf(n)]]

StorageTypeOK ==
    /\ pcSlots \in [Slots -> Messages]
    /\ pcWriteTo \in Slots
    /\ pcReadFrom \in Slots
    /\ uxMessagesWaiting \in 0..uxLength

(* The two pointers and the count never disagree: the slot to be written is *)
(* the one after the last message, whatever mix of sends to the back, sends *)
(* to the front and receives went before.  So no send overwrites a message. *)
PointersAgree ==
    pcWriteTo = IF pcReadFrom + 1 + uxMessagesWaiting >= 2 * uxLength
                THEN pcReadFrom + 1 + uxMessagesWaiting - 2 * uxLength
                ELSE IF pcReadFrom + 1 + uxMessagesWaiting >= uxLength
                     THEN pcReadFrom + 1 + uxMessagesWaiting - uxLength
                     ELSE pcReadFrom + 1 + uxMessagesWaiting

(* To its users the ring is a bounded sequence: no message is lost,         *)
(* duplicated, overwritten or received out of order.                        *)
D == INSTANCE Deque WITH Capacity <- uxLength, contents <- Contents
ImplementsDeque == D!Spec
=============================================================================
