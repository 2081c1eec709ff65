---------------------------- MODULE MCStructures ----------------------------
(* The two data structures of the kernel, checked in one run: a behaviour   *)
(* is one of the lists, or one of a queue's storage; the other stays as it  *)
(* was at first.                                                            *)
EXTENDS List, QueueStorage

VARIABLE part

StructuresInit ==
    /\ Init /\ StorageInit
    /\ \/ part = "list" /\ pcSlots = (CHOOSE s \in [Slots -> Messages] : TRUE)
       \/ part = "storage"

ListMoves(A) == part = "list" /\ A /\ UNCHANGED <<part, storage>>
StorageMoves == part = "storage" /\ StorageNext /\ UNCHANGED <<part, vars>>

StructuresSpec ==
    /\ StructuresInit
    /\ [][ListMoves(Next) \/ StorageMoves]_<<vars, storage, part>>
    /\ WF_vars(ListMoves(vListInsertStep)) /\ WF_vars(ListMoves(vListInsertLink))
=============================================================================
