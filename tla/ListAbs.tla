------------------------------ MODULE ListAbs ------------------------------
(***************************************************************************)
(* What list.c promises its callers, without pointers: a ready list is a   *)
(* queue whose head goes to the back when it is returned, a sorted list    *)
(* keeps its items in the order of their values, the ones with equal       *)
(* values in the order they came.                                          *)
(***************************************************************************)
EXTENDS Naturals, Sequences, SequencesExt, FiniteSets

CONSTANTS Items, ReadyLists, SortedLists, MaxDelay

VARIABLES turn,     \* list -> its items, the next one to be returned first
          value     \* item -> value

AllLists == ReadyLists \cup SortedLists
Members(l) == {turn[l][n] : n \in DOMAIN turn[l]}
Unlisted(i) == \A l \in AllLists : i \notin Members(l)

Init == /\ turn = [l \in AllLists |-> <<>>]
        /\ value = [i \in Items |-> 0]

InsertEnd(l, i) ==
    /\ Unlisted(i)
    /\ turn' = [turn EXCEPT ![l] = Append(@, i)]
    /\ UNCHANGED value

SetValue(i) ==
    /\ Unlisted(i)
    /\ \E v \in 0..MaxDelay : value' = [value EXCEPT ![i] = v]
    /\ UNCHANGED turn

Insert(l, i) ==
    /\ Unlisted(i)
    /\ LET before == {n \in DOMAIN turn[l] : value[turn[l][n]] <= value[i]}
       IN  turn' = [turn EXCEPT ![l] = InsertAt(@, Cardinality(before) + 1, i)]
    /\ UNCHANGED value

Withdraw(l, i) ==
    /\ i \in Members(l)
    /\ turn' = [turn EXCEPT ![l] = SelectSeq(@, LAMBDA j : j # i)]
    /\ UNCHANGED value

TakeTurn(l) ==
    /\ turn[l] # <<>>
    /\ turn' = [turn EXCEPT ![l] = Append(Tail(@), Head(@))]
    /\ UNCHANGED value

Next ==
    \/ \E l \in ReadyLists, i \in Items : InsertEnd(l, i)
    \/ \E i \in Items : SetValue(i)
    \/ \E l \in SortedLists, i \in Items : Insert(l, i)
    \/ \E l \in AllLists, i \in Items : Withdraw(l, i)
    \/ \E l \in ReadyLists : TakeTurn(l)

Spec == Init /\ [][Next]_<<turn, value>>
=============================================================================
