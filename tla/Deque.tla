-------------------------------- MODULE Deque --------------------------------
(* What a queue's storage is to its users: a bounded sequence of messages,  *)
(* extended at either end and taken from the front.                         *)
EXTENDS Naturals, Sequences

CONSTANTS Capacity, Messages
VARIABLE contents

Init == contents = <<>>

PushBack == /\ Len(contents) < Capacity
            /\ \E m \in Messages : contents' = Append(contents, m)
PushFront == /\ Len(contents) < Capacity
             /\ \E m \in Messages : contents' = <<m>> \o contents
Pop == /\ contents # <<>>
       /\ contents' = Tail(contents)

Next == PushBack \/ PushFront \/ Pop
Spec == Init /\ [][Next]_contents
=============================================================================
