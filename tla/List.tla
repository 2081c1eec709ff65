-------------------------------- MODULE List --------------------------------
(***************************************************************************)
(* list.c of the kernel, at the level of its pointers: the doubly linked   *)
(* rings that every ready, delayed, event and timer list of the kernel is. *)
(* A list is represented by its end marker (the code's &pxList->xListEnd), *)
(* so a node is an item or a list.                                         *)
(*                                                                         *)
(* The kernel uses a list in one of two ways and never mixes them:         *)
(*   ReadyLists  vListInsertEnd and listGET_OWNER_OF_NEXT_ENTRY            *)
(*   SortedLists vListInsert and listGET_OWNER_OF_HEAD_ENTRY               *)
(* vListInsert is three kinds of step (start, one round of its for loop,   *)
(* the linking), because that its loop ends at all is one of the questions.*)
(* Every call is made with the scheduler suspended or interrupts masked,   *)
(* so nothing else happens while an insertion walks.                       *)
(***************************************************************************)
EXTENDS Naturals, FiniteSets, Sequences

CONSTANTS Items, ReadyLists, SortedLists, MaxDelay, NULL

Lists == ReadyLists \cup SortedLists
Nodes == Items \cup Lists
Values == 0..MaxDelay

ASSUME ListAssumption ==
    /\ IsFiniteSet(Items)
    /\ Items \cap Lists = {}
    /\ ReadyLists \cap SortedLists = {}
    /\ NULL \notin Nodes
    /\ MaxDelay \in Nat

VARIABLES
    pxNext, pxPrevious,     \* Nodes -> Nodes; what an unlinked item holds is stale
    xItemValue,             \* Nodes -> Values; portMAX_DELAY in an end marker
    pvContainer,            \* Items -> Lists or NULL
    pxIndex,                \* Lists -> Nodes; the cursor of listGET_OWNER_OF_NEXT_ENTRY
    uxNumberOfItems,        \* Lists -> Nat
    inserting,              \* the vListInsert call in progress, or NULL
    overtakes               \* history: how often y was returned while x waited

links == <<pxNext, pxPrevious>>
vars == <<pxNext, pxPrevious, xItemValue, pvContainer, pxIndex,
          uxNumberOfItems, inserting, overtakes>>

Calls == [item : Items, list : SortedLists, pxIterator : Nodes]

(* vListInitialise on every list and vListInitialiseItem on every item.     *)
Init ==
    /\ pxNext = [n \in Nodes |-> n]
    /\ pxPrevious = [n \in Nodes |-> n]
    /\ xItemValue = [n \in Nodes |-> IF n \in Lists THEN MaxDelay ELSE 0]
    /\ pvContainer = [i \in Items |-> NULL]
    /\ pxIndex = [l \in Lists |-> l]
    /\ uxNumberOfItems = [l \in Lists |-> 0]
    /\ inserting = NULL
    /\ overtakes = [x \in Items |-> [y \in Items |-> 0]]

(* The four pointer assignments both insertions make: i goes after p.       *)
LinkAfter(p, i) ==
    /\ pxNext' = [pxNext EXCEPT ![i] = pxNext[p], ![p] = i]
    /\ pxPrevious' = [pxPrevious EXCEPT ![i] = p, ![pxNext[p]] = i]

vListInsertEnd_CursorStays(l, i) ==         \* mutant: pxIndex is not moved on
    /\ inserting = NULL
    /\ pvContainer[i] = NULL
    /\ LinkAfter(pxIndex[l], i)
    /\ pvContainer' = [pvContainer EXCEPT ![i] = l]
    /\ uxNumberOfItems' = [uxNumberOfItems EXCEPT ![l] = @ + 1]
    /\ UNCHANGED <<xItemValue, pxIndex, inserting, overtakes>>

vListInsertEnd(l, i) ==
    /\ inserting = NULL
    /\ pvContainer[i] = NULL
    /\ LinkAfter(pxIndex[l], i)
    /\ pxIndex' = [pxIndex EXCEPT ![l] = i]
    /\ pvContainer' = [pvContainer EXCEPT ![i] = l]
    /\ uxNumberOfItems' = [uxNumberOfItems EXCEPT ![l] = @ + 1]
    /\ UNCHANGED <<xItemValue, inserting, overtakes>>

(* listSET_LIST_ITEM_VALUE and the start of vListInsert: a value equal to   *)
(* the end marker's goes straight to the back.                              *)
vListInsertStart(l, i, v) ==
    /\ inserting = NULL
    /\ pvContainer[i] = NULL
    /\ xItemValue' = [xItemValue EXCEPT ![i] = v]
    /\ inserting' = [item |-> i, list |-> l,
                     pxIterator |-> IF v = MaxDelay THEN pxPrevious[l] ELSE l]
    /\ UNCHANGED <<links, pvContainer, pxIndex, uxNumberOfItems, overtakes>>

IterateFurther_NoMaxDelayTest(c) ==         \* mutant: the special case is left out
    xItemValue[pxNext[c.pxIterator]] <= xItemValue[c.item]

IterateFurther_Strict(c) ==                 \* mutant: before the items of equal value
    /\ xItemValue[c.item] # MaxDelay
    /\ xItemValue[pxNext[c.pxIterator]] < xItemValue[c.item]

(* The condition of the for loop; the back marker's case never enters it.   *)
IterateFurther(c) ==
    /\ xItemValue[c.item] # MaxDelay
    /\ xItemValue[pxNext[c.pxIterator]] <= xItemValue[c.item]

vListInsertStep ==
    /\ inserting # NULL
    /\ IterateFurther(inserting)
    /\ inserting' = [inserting EXCEPT !.pxIterator = pxNext[@]]
    /\ UNCHANGED <<links, xItemValue, pvContainer, pxIndex, uxNumberOfItems, overtakes>>

vListInsertLink ==
    /\ inserting # NULL
    /\ ~IterateFurther(inserting)
    /\ LinkAfter(inserting.pxIterator, inserting.item)
    /\ pvContainer' = [pvContainer EXCEPT ![inserting.item] = inserting.list]
    /\ uxNumberOfItems' = [uxNumberOfItems EXCEPT ![inserting.list] = @ + 1]
    /\ inserting' = NULL
    /\ UNCHANGED <<xItemValue, pxIndex, overtakes>>

vListRemove_StaleIndex(i) ==                \* mutant: the cursor stays on the item
    /\ inserting = NULL
    /\ pvContainer[i] # NULL
    /\ pxPrevious' = [pxPrevious EXCEPT ![pxNext[i]] = pxPrevious[i]]
    /\ pxNext' = [pxNext EXCEPT ![pxPrevious[i]] = pxNext[i]]
    /\ pvContainer' = [pvContainer EXCEPT ![i] = NULL]
    /\ uxNumberOfItems' = [uxNumberOfItems EXCEPT ![pvContainer[i]] = @ - 1]
    /\ overtakes' = [overtakes EXCEPT ![i] = [y \in Items |-> 0]]
    /\ UNCHANGED <<xItemValue, pxIndex, inserting>>

vListRemove(i) ==
    /\ inserting = NULL
    /\ pvContainer[i] # NULL
    /\ pxPrevious' = [pxPrevious EXCEPT ![pxNext[i]] = pxPrevious[i]]
    /\ pxNext' = [pxNext EXCEPT ![pxPrevious[i]] = pxNext[i]]
    /\ pxIndex' = [pxIndex EXCEPT ![pvContainer[i]] = IF @ = i THEN pxPrevious[i] ELSE @]
    /\ pvContainer' = [pvContainer EXCEPT ![i] = NULL]
    /\ uxNumberOfItems' = [uxNumberOfItems EXCEPT ![pvContainer[i]] = @ - 1]
    /\ overtakes' = [overtakes EXCEPT ![i] = [y \in Items |-> 0]]
    /\ UNCHANGED <<xItemValue, inserting>>

(* The entry listGET_OWNER_OF_NEXT_ENTRY returns: the one after the cursor, *)
(* the end marker skipped.                                                  *)
NextEntry(l) == IF pxNext[pxIndex[l]] = l THEN pxNext[l] ELSE pxNext[pxIndex[l]]

(* The history counts the calls that return e while another item of the     *)
(* list waits, up to 2; an item's own turn starts its counts again.         *)
listGET_OWNER_OF_NEXT_ENTRY(l) ==
    /\ inserting = NULL
    /\ uxNumberOfItems[l] > 0
    /\ pxIndex' = [pxIndex EXCEPT ![l] = NextEntry(l)]
    /\ overtakes' = [x \in Items |->
           IF pvContainer[x] # l THEN overtakes[x]
           ELSE IF x = NextEntry(l) THEN [y \in Items |-> 0]
           ELSE [overtakes[x] EXCEPT ![NextEntry(l)] = IF @ < 2 THEN @ + 1 ELSE 2]]
    /\ UNCHANGED <<links, xItemValue, pvContainer, uxNumberOfItems, inserting>>

Next ==
    \/ \E l \in ReadyLists, i \in Items : vListInsertEnd(l, i)
    \/ \E l \in SortedLists, i \in Items, v \in Values : vListInsertStart(l, i, v)
    \/ vListInsertStep
    \/ vListInsertLink
    \/ \E i \in Items : vListRemove(i)
    \/ \E l \in ReadyLists : listGET_OWNER_OF_NEXT_ENTRY(l)

(* A call of vListInsert runs: its caller masks interrupts or has suspended *)
(* the scheduler, so no other task takes the processor from the loop.       *)
Spec == Init /\ [][Next]_vars /\ WF_vars(vListInsertStep) /\ WF_vars(vListInsertLink)

-----------------------------------------------------------------------------
(* The list a linked node belongs to.                                       *)
Home(n) == IF n \in Lists THEN n ELSE pvContainer[n]

(* The nodes reached from the end marker in n steps of pxNext, and the      *)
(* items of a list in ring order.                                           *)
Walk(l) == LET w[n \in 0..Cardinality(Nodes)] == IF n = 0 THEN l ELSE pxNext[w[n-1]]
           IN  w
RingOrder(l) == [n \in 1..uxNumberOfItems[l] |-> Walk(l)[n]]

(* The items of a list in the order listGET_OWNER_OF_NEXT_ENTRY will return *)
(* them: the ring from the cursor on, the end marker left out.              *)
TurnOrder(l) ==
    LET r == RingOrder(l)
        c == IF pxIndex[l] = l THEN 0 ELSE CHOOSE n \in DOMAIN r : r[n] = pxIndex[l]
    IN  SubSeq(r, c + 1, Len(r)) \o SubSeq(r, 1, c)

TypeOK ==
    /\ pxNext \in [Nodes -> Nodes]
    /\ pxPrevious \in [Nodes -> Nodes]
    /\ xItemValue \in [Nodes -> Values]
    /\ pvContainer \in [Items -> Lists \cup {NULL}]
    /\ pxIndex \in [Lists -> Nodes]
    /\ uxNumberOfItems \in [Lists -> Nat]
    /\ inserting \in Calls \cup {NULL}
    /\ overtakes \in [Items -> [Items -> Nat]]

(* From every linked node, pxNext and pxPrevious lead to nodes linked in    *)
(* the same list and each undoes the other; a cursor is a node of its list. *)
LinksAgree ==
    /\ \A n \in Nodes : Home(n) # NULL =>
          /\ Home(pxNext[n]) = Home(n)
          /\ Home(pxPrevious[n]) = Home(n)
          /\ pxPrevious[pxNext[n]] = n
          /\ pxNext[pxPrevious[n]] = n
    /\ \A l \in Lists : Home(pxIndex[l]) = l

(* The nodes of a list form one ring: nodes from which pxNext leads only    *)
(* back to themselves include the end marker.                               *)
OneRing ==
    \A l \in Lists : \A S \in SUBSET Nodes :
        S # {} /\ (\A n \in S : Home(n) = l /\ pxNext[n] \in S) => l \in S

(* list.c never leaves a dangling pointer: the items whose pvContainer is a *)
(* list, and no others, are reachable from its end marker, in both          *)
(* directions, and its cursor is one of them or the marker.                 *)
RingsIntact == LinksAgree /\ OneRing

(* uxNumberOfItems, which the kernel reads to decide that a ready or event  *)
(* list is empty, counts the items whose container is the list.             *)
CountsTrue ==
    \A l \in Lists : uxNumberOfItems[l] = Cardinality({i \in Items : pvContainer[i] = l})

(* list.c:94: a new item is the last listGET_OWNER_OF_NEXT_ENTRY returns,   *)
(* whatever was inserted, removed and returned before: no item is returned  *)
(* twice while another one of the same list waits for its turn.             *)
EqualShares == \A x, y \in Items : overtakes[x][y] <= 1

(* list.c:124-127: the search for the insertion point ends, also for a      *)
(* value equal to the end marker's.                                         *)
InsertEnds == (inserting # NULL) ~> (inserting = NULL)

-----------------------------------------------------------------------------
(* What the two kinds of list are for: see ListAbs.                         *)
Abs == INSTANCE ListAbs WITH
           turn <- [l \in Lists |-> IF l \in ReadyLists THEN TurnOrder(l) ELSE RingOrder(l)],
           value <- [i \in Items |-> xItemValue[i]]

(* Every list.c operation on the pointers is one operation on sequences: a  *)
(* round-robin queue for a ready list, a stable sorted list otherwise.      *)
ImplementsListAbs == Abs!Spec
=============================================================================
