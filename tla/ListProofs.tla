----------------------------- MODULE ListProofs -----------------------------
(* For any items, lists and values: list.c keeps its rings intact and its   *)
(* counts true, and shares the turns of a ready list equally.               *)
EXTENDS List, FiniteSetTheorems, TLAPS

(* What vListInsert knows while it walks: the item is in no list yet, the   *)
(* iterator is a node of the list.                                          *)
WalkInv ==
    inserting # NULL => /\ pvContainer[inserting.item] = NULL
                        /\ Home(inserting.pxIterator) = inserting.list

ListInv == TypeOK /\ RingsIntact /\ CountsTrue /\ WalkInv

In(l) == {i \in Items : pvContainer[i] = l}

(* Items, end markers and NULL are different things.                        *)
LEMMA NodeFacts ==
    /\ Items \subseteq Nodes /\ Lists \subseteq Nodes
    /\ NULL \notin Lists /\ NULL \notin Items
    /\ \A i \in Items : i \notin Lists
    /\ SortedLists \subseteq Lists /\ ReadyLists \subseteq Lists
BY ListAssumption DEF Nodes, Lists

(* vListInitialise and vListInitialiseItem establish the invariant.         *)
LEMMA InitInv == Init => ListInv
<1> SUFFICES ASSUME Init PROVE ListInv
    OBVIOUS
<1>1. TypeOK
    BY NodeFacts, ListAssumption DEF Init, TypeOK, Values
<1>2. LinksAgree
    BY NodeFacts DEF Init, LinksAgree, Home, Nodes
<1>4. OneRing
    <2> SUFFICES ASSUME NEW l \in Lists, NEW S \in SUBSET Nodes, NEW n \in S, Home(n) = l
                 PROVE  l \in S
        BY DEF OneRing
    <2> QED BY NodeFacts DEF Init, Home, Nodes
<1>3. CountsTrue
    <2>1. \A l \in Lists : {i \in Items : pvContainer[i] = l} = {}
        BY NodeFacts DEF Init
    <2> QED BY <2>1, FS_EmptySet DEF Init, CountsTrue
<1> QED BY <1>1, <1>2, <1>3, <1>4 DEF Init, ListInv, RingsIntact, WalkInv

(* Linking an item that is in no list after a node of list l puts it in the *)
(* ring of l and leaves every other ring as it was.                         *)
LEMMA LinkKeepsLinks ==
    ASSUME TypeOK, LinksAgree, NEW l \in Lists, NEW i \in Items, NEW p \in Nodes,
           pvContainer[i] = NULL, Home(p) = l,
           LinkAfter(p, i), pvContainer' = [pvContainer EXCEPT ![i] = l],
           \A k \in Lists : pxIndex'[k] = pxIndex[k] \/ (k = l /\ pxIndex'[k] = i)
    PROVE  LinksAgree'
<1> USE NodeFacts DEF TypeOK
<1>0. PICK q \in Nodes : q = pxNext[p]
    OBVIOUS
<1>1. q \in Nodes /\ Home(q) = l /\ pxPrevious[q] = p /\ l # NULL
    BY <1>0 DEF LinksAgree
<1>2. p # i /\ q # i /\ Home(i) = NULL
    BY <1>1 DEF Home
<1>3. \A n \in Nodes : n # i => Home(n)' = Home(n)
    BY DEF Home
<1>4. Home(i)' = l
    BY DEF Home
<1>5. \A n \in Nodes : /\ pxNext'[n] = IF n = p THEN i ELSE IF n = i THEN q ELSE pxNext[n]
                       /\ pxPrevious'[n] = IF n = q THEN i ELSE IF n = i THEN p ELSE pxPrevious[n]
    BY <1>0, <1>1, <1>2 DEF LinkAfter
<1>6. ASSUME NEW n \in Nodes, Home(n)' # NULL
      PROVE  /\ Home(pxNext[n])' = Home(n)'
             /\ Home(pxPrevious[n])' = Home(n)'
             /\ pxPrevious'[pxNext'[n]] = n
             /\ pxNext'[pxPrevious'[n]] = n
    <2>0. PICK a \in Nodes, b \in Nodes : a = pxPrevious[n] /\ b = pxNext[n]
        OBVIOUS
    <2>1. CASE n = i
        <3>1. pxNext'[n] = q /\ pxPrevious'[n] = p
            BY <2>1, <1>5, <1>1, <1>2
        <3>2. Home(q)' = l /\ Home(p)' = l
            BY <1>1, <1>2, <1>3
        <3>3. pxPrevious'[q] = i /\ pxNext'[p] = i
            BY <1>1, <1>5
        <3>4. Home(pxNext[n])' = Home(q)' /\ Home(pxPrevious[n])' = Home(p)'
            BY <3>1 DEF Home
        <3> QED BY <2>1, <3>1, <3>2, <3>3, <3>4, <1>4
    <2>2. CASE n # i
        <3>1. Home(n) # NULL /\ Home(n)' = Home(n)
            BY <2>2, <1>3, <1>6
        <3>2. /\ a \in Nodes /\ b \in Nodes /\ a # i /\ b # i
              /\ Home(a) = Home(n) /\ Home(b) = Home(n)
              /\ pxPrevious[b] = n /\ pxNext[a] = n
            BY <2>0, <3>1, <1>2 DEF LinksAgree
        <3>3. Home(a)' = Home(n)' /\ Home(b)' = Home(n)'
            BY <3>1, <3>2, <1>3
        <3>4. Home(pxNext[n])' = Home(n)' /\ pxPrevious'[pxNext'[n]] = n
            <4>1. CASE n = p
                <5>1. pxNext'[n] = i
                    BY <4>1, <1>5
                <5>2. Home(pxNext[n])' = l /\ Home(n)' = l
                    BY <5>1, <1>4, <4>1, <3>1 DEF Home
                <5>3. pxPrevious'[i] = p
                    BY <1>2, <1>5
                <5> QED BY <4>1, <5>1, <5>2, <5>3
            <4>2. CASE n # p
                <5>1. pxNext'[n] = b
                    BY <4>2, <2>0, <2>2, <1>5
                <5>2. b # q
                    BY <4>2, <3>2, <1>0, <1>1
                <5>3. pxPrevious'[b] = n
                    BY <5>2, <3>2, <1>5
                <5>4. Home(pxNext[n])' = Home(b)'
                    BY <5>1 DEF Home
                <5> QED BY <5>1, <5>3, <5>4, <3>3
            <4> QED BY <4>1, <4>2
        <3>5. Home(pxPrevious[n])' = Home(n)' /\ pxNext'[pxPrevious'[n]] = n
            <4>1. CASE n = q
                <5>1. pxPrevious'[n] = i
                    BY <4>1, <1>5
                <5>2. Home(pxPrevious[n])' = l /\ Home(n)' = l
                    BY <5>1, <1>4, <4>1, <3>1, <1>1 DEF Home
                <5>3. pxNext'[i] = q
                    BY <1>2, <1>5
                <5> QED BY <4>1, <5>1, <5>2, <5>3
            <4>2. CASE n # q
                <5>1. pxPrevious'[n] = a
                    BY <4>2, <2>0, <2>2, <1>5
                <5>2. a # p
                    BY <4>2, <3>2, <1>0
                <5>3. pxNext'[a] = n
                    BY <5>2, <3>2, <1>5
                <5>4. Home(pxPrevious[n])' = Home(a)'
                    BY <5>1 DEF Home
                <5> QED BY <5>1, <5>3, <5>4, <3>3
            <4> QED BY <4>1, <4>2
        <3> QED BY <3>4, <3>5
    <2> QED BY <2>1, <2>2
<1>7. ASSUME NEW k \in Lists PROVE Home(pxIndex[k])' = k
    <2>1. CASE pxIndex'[k] = pxIndex[k]
        <3>1. pxIndex[k] \in Nodes /\ Home(pxIndex[k]) = k /\ k # NULL
            BY DEF LinksAgree
        <3>2. pxIndex[k] # i
            BY <3>1, <1>2
        <3> QED BY <2>1, <3>1, <3>2, <1>3 DEF Home
    <2>2. CASE k = l /\ pxIndex'[k] = i
        BY <2>2, <1>4 DEF Home
    <2> QED BY <2>1, <2>2
<1> QED BY <1>6, <1>7 DEF LinksAgree

(* Linking changes pointers to nodes into pointers to nodes.                *)
LEMMA LinkTypes ==
    ASSUME TypeOK, NEW i \in Items, NEW p \in Nodes, LinkAfter(p, i)
    PROVE  pxNext' \in [Nodes -> Nodes] /\ pxPrevious' \in [Nodes -> Nodes]
<1> USE NodeFacts DEF TypeOK
<1>1. PICK q \in Nodes : q = pxNext[p]
    OBVIOUS
<1>2. /\ pxNext' = [pxNext EXCEPT ![i] = q, ![p] = i]
      /\ pxPrevious' = [pxPrevious EXCEPT ![i] = p, ![q] = i]
    BY <1>1 DEF LinkAfter
<1> QED BY <1>2

(* The new item joins the one ring of l.                                    *)
LEMMA LinkKeepsRing ==
    ASSUME TypeOK, LinksAgree, OneRing, NEW l \in Lists, NEW i \in Items, NEW p \in Nodes,
           pvContainer[i] = NULL, Home(p) = l,
           LinkAfter(p, i), pvContainer' = [pvContainer EXCEPT ![i] = l]
    PROVE  OneRing'
<1> USE NodeFacts DEF TypeOK
<1> SUFFICES ASSUME NEW k \in Lists, NEW S \in SUBSET Nodes, S # {},
                    \A n \in S : Home(n)' = k /\ pxNext'[n] \in S
             PROVE  k \in S
    BY DEF OneRing
<1>0. PICK q \in Nodes : q = pxNext[p]
    OBVIOUS
<1>1. Home(q) = l /\ p # i /\ q # i
    BY <1>0 DEF LinksAgree, Home
<1>2. \A n \in Nodes : /\ n # i => Home(n)' = Home(n)
                       /\ pxNext'[n] = IF n = p THEN i ELSE IF n = i THEN q ELSE pxNext[n]
    BY <1>0, <1>1 DEF LinkAfter, Home
<1>t. PICK T \in SUBSET Nodes : T = S \ {i}
    OBVIOUS
<1>3. T # {}
    <2>1. i \in S => q \in S
        BY <1>1, <1>2
    <2> QED BY <2>1, <1>1, <1>t
<1>4. ASSUME NEW n \in T PROVE Home(n) = k /\ pxNext[n] \in T
    <2> n \in S /\ n # i
        BY <1>t
    <2>1. Home(n) = k
        BY <1>2
    <2>2. CASE n = p
        <3>1. pxNext'[n] = i
            BY <2>2, <1>2
        <3>2. i \in S
            BY <3>1
        <3>3. q \in S
            BY <3>2, <1>1, <1>2
        <3> QED BY <2>1, <2>2, <3>3, <1>0, <1>1, <1>t
    <2>3. CASE n # p
        <3>1. pxNext[n] \in S
            BY <2>3, <1>2
        <3>2. pxNext[n] # i
            BY <2>1 DEF LinksAgree, Home
        <3> QED BY <2>1, <3>1, <3>2, <1>t
    <2> QED BY <2>2, <2>3
<1>5. k \in T
    BY <1>3, <1>4 DEF OneRing
<1> QED BY <1>5, <1>t

(* No item is a ring of its own: an item's neighbours are other nodes.      *)
LEMMA NeighboursDiffer ==
    ASSUME TypeOK, LinksAgree, OneRing, NEW i \in Items, pvContainer[i] # NULL
    PROVE  pxNext[i] # i /\ pxPrevious[i] # i
<1> USE NodeFacts DEF TypeOK
<1>1. pvContainer[i] \in Lists /\ Home(i) = pvContainer[i] /\ pvContainer[i] \notin {i}
    BY DEF Home
<1>2. pxNext[i] # i
    <2> SUFFICES ASSUME pxNext[i] = i PROVE FALSE
        OBVIOUS
    <2>1. {i} \in SUBSET Nodes /\ {i} # {}
        OBVIOUS
    <2>2. \A n \in {i} : Home(n) = pvContainer[i] /\ pxNext[n] \in {i}
        BY <1>1
    <2>3. pvContainer[i] \in {i}
        BY <1>1, <2>1, <2>2 DEF OneRing
    <2> QED BY <1>1, <2>3
<1>3. pxNext[pxPrevious[i]] = i
    BY <1>1 DEF LinksAgree
<1> QED BY <1>2, <1>3

(* vListRemove closes the gap, and moves the cursor off the item.           *)
LEMMA RemoveKeepsLinks ==
    ASSUME TypeOK, LinksAgree, OneRing, NEW i \in Items, vListRemove(i)
    PROVE  LinksAgree'
<1> USE NodeFacts DEF TypeOK
<1>0. PICK a \in Nodes, b \in Nodes : a = pxPrevious[i] /\ b = pxNext[i]
    OBVIOUS
<1>1. pvContainer[i] # NULL /\ Home(i) = pvContainer[i]
    BY DEF vListRemove, Home
<1>2. a # i /\ b # i
    BY <1>0, <1>1, NeighboursDiffer
<1>3. Home(a) = pvContainer[i] /\ Home(b) = pvContainer[i] /\ pxNext[a] = i /\ pxPrevious[b] = i
    BY <1>0, <1>1 DEF LinksAgree
<1>4. \A n \in Nodes : n # i => Home(n)' = Home(n)
    BY DEF vListRemove, Home
<1>5. Home(i)' = NULL
    BY DEF vListRemove, Home
<1>6. \A n \in Nodes : /\ pxNext'[n] = IF n = a THEN b ELSE pxNext[n]
                       /\ pxPrevious'[n] = IF n = b THEN a ELSE pxPrevious[n]
    BY <1>0 DEF vListRemove
<1>7. ASSUME NEW n \in Nodes, Home(n)' # NULL
      PROVE  /\ Home(pxNext[n])' = Home(n)'
             /\ Home(pxPrevious[n])' = Home(n)'
             /\ pxPrevious'[pxNext'[n]] = n
             /\ pxNext'[pxPrevious'[n]] = n
    <2>0. PICK c \in Nodes, d \in Nodes : c = pxPrevious[n] /\ d = pxNext[n]
        OBVIOUS
    <2>1. n # i /\ Home(n) # NULL /\ Home(n)' = Home(n)
        BY <1>4, <1>5, <1>7
    <2>2. /\ Home(c) = Home(n) /\ Home(d) = Home(n)
          /\ pxPrevious[d] = n /\ pxNext[c] = n
        BY <2>0, <2>1 DEF LinksAgree
    <2>3. Home(pxNext[n])' = Home(n)' /\ pxPrevious'[pxNext'[n]] = n
        <3>1. CASE n = a
            <4>1. pxNext'[n] = b /\ pxPrevious'[b] = a
                BY <3>1, <1>6
            <4>2. Home(pxNext[n])' = Home(b)'
                BY <4>1 DEF Home
            <4> QED BY <3>1, <4>1, <4>2, <1>2, <1>3, <1>4
        <3>2. CASE n # a
            <4>1. pxNext'[n] = d /\ d # b
                BY <3>2, <2>0, <2>1, <2>2, <1>3, <1>6
            <4>2. d # i
                BY <3>2, <2>2, <1>0
            <4>3. Home(pxNext[n])' = Home(d)'
                BY <4>1 DEF Home
            <4> QED BY <4>1, <4>2, <4>3, <2>1, <2>2, <1>4, <1>6
        <3> QED BY <3>1, <3>2
    <2>4. Home(pxPrevious[n])' = Home(n)' /\ pxNext'[pxPrevious'[n]] = n
        <3>1. CASE n = b
            <4>1. pxPrevious'[n] = a /\ pxNext'[a] = b
                BY <3>1, <1>6
            <4>2. Home(pxPrevious[n])' = Home(a)'
                BY <4>1 DEF Home
            <4> QED BY <3>1, <4>1, <4>2, <1>2, <1>3, <1>4
        <3>2. CASE n # b
            <4>1. pxPrevious'[n] = c /\ c # a
                BY <3>2, <2>0, <2>1, <2>2, <1>3, <1>6
            <4>2. c # i
                BY <3>2, <2>2, <1>0
            <4>3. Home(pxPrevious[n])' = Home(c)'
                BY <4>1 DEF Home
            <4> QED BY <4>1, <4>2, <4>3, <2>1, <2>2, <1>4, <1>6
        <3> QED BY <3>1, <3>2
    <2> QED BY <2>3, <2>4
<1>8. ASSUME NEW k \in Lists PROVE Home(pxIndex[k])' = k
    <2>0. PICK x \in Nodes : x = pxIndex[k]
        OBVIOUS
    <2>1. Home(x) = k
        BY <2>0 DEF LinksAgree
    <2>2. pxIndex'[k] = IF k = pvContainer[i] /\ x = i THEN a ELSE x
        BY <1>0, <1>1, <2>0 DEF vListRemove
    <2>3. CASE x = i
        <3>1. pxIndex'[k] = a /\ Home(a)' = k
            BY <2>1, <2>2, <2>3, <1>1, <1>2, <1>3, <1>4
        <3> QED BY <3>1 DEF Home
    <2>4. CASE x # i
        <3>1. pxIndex'[k] = x /\ Home(x)' = k
            BY <2>1, <2>2, <2>4, <1>4
        <3> QED BY <3>1 DEF Home
    <2> QED BY <2>3, <2>4
<1> QED BY <1>7, <1>8 DEF LinksAgree

(* What is left of the ring is still one.                                   *)
LEMMA RemoveKeepsRing ==
    ASSUME TypeOK, LinksAgree, OneRing, NEW i \in Items, vListRemove(i)
    PROVE  OneRing'
<1> USE NodeFacts DEF TypeOK
<1> SUFFICES ASSUME NEW k \in Lists, NEW S \in SUBSET Nodes, S # {},
                    \A n \in S : Home(n)' = k /\ pxNext'[n] \in S
             PROVE  k \in S
    BY DEF OneRing
<1>0. PICK a \in Nodes, b \in Nodes : a = pxPrevious[i] /\ b = pxNext[i]
    OBVIOUS
<1>1. pvContainer[i] # NULL /\ Home(i) = pvContainer[i] /\ a # i
    BY <1>0, NeighboursDiffer DEF vListRemove, Home
<1>2. Home(a) = Home(i) /\ pxNext[a] = i
    BY <1>0, <1>1 DEF LinksAgree
<1>3. i \notin S
    BY DEF vListRemove, Home
<1>4. \A n \in Nodes : /\ n # i => Home(n)' = Home(n)
                       /\ pxNext'[n] = IF n = a THEN b ELSE pxNext[n]
    BY <1>0 DEF vListRemove, Home
<1>5. CASE a \in S
    <2>t. PICK T \in SUBSET Nodes : T = S \cup {i}
        OBVIOUS
    <2>1. Home(a) = k /\ b \in S
        BY <1>5, <1>1, <1>4
    <2>2. \A n \in T : Home(n) = k /\ pxNext[n] \in T
        <3> SUFFICES ASSUME NEW n \in T PROVE Home(n) = k /\ pxNext[n] \in T
            OBVIOUS
        <3>1. CASE n = i
            BY <3>1, <2>1, <2>t, <1>0, <1>2
        <3>2. CASE n # i
            BY <3>2, <2>t, <1>2, <1>4
        <3> QED BY <3>1, <3>2
    <2>3. k \in T
        BY <2>2, <2>t DEF OneRing
    <2>4. k # i
        OBVIOUS
    <2> QED BY <2>3, <2>4, <2>t
<1>6. CASE a \notin S
    <2>1. \A n \in S : Home(n) = k /\ pxNext[n] \in S
        BY <1>3, <1>4, <1>6
    <2> QED BY <2>1 DEF OneRing
<1> QED BY <1>5, <1>6

(* An item more and an item less, as the two insertions and the removal     *)
(* count them.                                                              *)
LEMMA LinkKeepsCounts ==
    ASSUME TypeOK, CountsTrue, NEW l \in Lists, NEW i \in Items, pvContainer[i] = NULL,
           pvContainer' = [pvContainer EXCEPT ![i] = l],
           uxNumberOfItems' = [uxNumberOfItems EXCEPT ![l] = @ + 1]
    PROVE  CountsTrue'
<1> USE NodeFacts DEF TypeOK
<1> SUFFICES ASSUME NEW k \in Lists PROVE uxNumberOfItems'[k] = Cardinality(In(k)')
    BY DEF CountsTrue, In
<1>1. PICK T \in SUBSET Items : T = In(k)
    BY DEF In
<1>2. IsFiniteSet(T) /\ i \notin T /\ uxNumberOfItems[k] = Cardinality(T)
    BY <1>1, FS_Subset, ListAssumption DEF In, CountsTrue
<1>3. CASE k = l
    <2>1. In(k)' = T \cup {i}
        BY <1>1, <1>3 DEF In
    <2>2. Cardinality(T \cup {i}) = Cardinality(T) + 1
        BY <1>2, FS_AddElement
    <2>3. uxNumberOfItems'[k] = Cardinality(T) + 1
        BY <1>2, <1>3
    <2> QED BY <2>1, <2>2, <2>3
<1>4. CASE k # l
    <2>1. In(k)' = T
        BY <1>1, <1>2, <1>4 DEF In
    <2> QED BY <2>1, <1>2, <1>4
<1> QED BY <1>3, <1>4

(* vListRemove takes one item away and counts one less.                     *)
LEMMA RemoveKeepsCounts ==
    ASSUME TypeOK, CountsTrue, NEW i \in Items, vListRemove(i)
    PROVE  CountsTrue' /\ uxNumberOfItems' \in [Lists -> Nat]
<1> USE NodeFacts DEF TypeOK
<1>0. PICK l \in Lists : l = pvContainer[i]
    BY DEF vListRemove
<1> SUFFICES ASSUME NEW k \in Lists
             PROVE  uxNumberOfItems'[k] = Cardinality(In(k)') /\ uxNumberOfItems'[k] \in Nat
    BY DEF CountsTrue, In, vListRemove
<1>1. PICK T \in SUBSET Items : T = In(k)
    BY DEF In
<1>2. IsFiniteSet(T) /\ uxNumberOfItems[k] = Cardinality(T)
    BY <1>1, FS_Subset, ListAssumption DEF In, CountsTrue
<1>3. CASE k = l
    <2>1. In(k)' = T \ {i} /\ i \in T
        BY <1>0, <1>1, <1>3 DEF In, vListRemove
    <2>2. IsFiniteSet(T \ {i}) /\ Cardinality(T \ {i}) = Cardinality(T) - 1
        BY <2>1, <1>2, FS_RemoveElement
    <2>3. uxNumberOfItems'[k] = Cardinality(T) - 1
        BY <1>0, <1>2, <1>3 DEF vListRemove
    <2>4. Cardinality(T \ {i}) \in Nat
        BY <2>2, FS_CardinalityType
    <2> QED BY <2>1, <2>2, <2>3, <2>4
<1>4. CASE k # l
    <2>1. In(k)' = T
        BY <1>0, <1>1, <1>4 DEF In, vListRemove
    <2>2. uxNumberOfItems'[k] = uxNumberOfItems[k]
        BY <1>0, <1>4 DEF vListRemove
    <2> QED BY <2>1, <2>2, <1>2
<1> QED BY <1>3, <1>4

(* Every operation, and every round of vListInsert's loop, keeps the        *)
(* invariant.                                                               *)
LEMMA NextInv == ListInv /\ [Next]_vars => ListInv'
<1> SUFFICES ASSUME ListInv, [Next]_vars PROVE ListInv'
    OBVIOUS
<1> USE NodeFacts DEF ListInv, RingsIntact
<1>1. ASSUME NEW l \in ReadyLists, NEW i \in Items, vListInsertEnd(l, i) PROVE ListInv'
    <2>0. l \in Lists /\ pxIndex[l] \in Nodes /\ pvContainer[i] = NULL /\ Home(pxIndex[l]) = l
        BY <1>1 DEF vListInsertEnd, TypeOK, LinksAgree
    <2>1. TypeOK'
        <3>1. pxNext' \in [Nodes -> Nodes] /\ pxPrevious' \in [Nodes -> Nodes]
            BY <1>1, <2>0, LinkTypes DEF vListInsertEnd
        <3> QED BY <1>1, <2>0, <3>1 DEF vListInsertEnd, TypeOK
    <2>2. /\ LinkAfter(pxIndex[l], i) /\ pvContainer' = [pvContainer EXCEPT ![i] = l]
          /\ uxNumberOfItems' = [uxNumberOfItems EXCEPT ![l] = @ + 1]
          /\ \A k \in Lists : pxIndex'[k] = pxIndex[k] \/ (k = l /\ pxIndex'[k] = i)
        BY <1>1, <2>0 DEF vListInsertEnd, TypeOK
    <2>3. LinksAgree' /\ OneRing'
        BY <2>0, <2>2, LinkKeepsLinks, LinkKeepsRing
    <2>4. CountsTrue'
        BY <2>0, <2>2, LinkKeepsCounts
    <2>5. WalkInv'
        BY <1>1 DEF vListInsertEnd, WalkInv
    <2> QED BY <2>1, <2>3, <2>4, <2>5
<1>2. ASSUME NEW l \in SortedLists, NEW i \in Items, NEW v \in Values, vListInsertStart(l, i, v)
      PROVE  ListInv'
    <2>1. UNCHANGED <<pxNext, pxPrevious, pvContainer, pxIndex, uxNumberOfItems>>
        BY <1>2 DEF vListInsertStart, links
    <2>2. PICK p \in Nodes : /\ p = IF v = MaxDelay THEN pxPrevious[l] ELSE l
                             /\ inserting' = [item |-> i, list |-> l, pxIterator |-> p]
        BY <1>2 DEF vListInsertStart, TypeOK
    <2>3. TypeOK'
        BY <1>2, <2>1, <2>2 DEF vListInsertStart, TypeOK, Calls
    <2>4. LinksAgree' /\ OneRing' /\ CountsTrue'
        BY <2>1 DEF LinksAgree, OneRing, CountsTrue, Home
    <2>5. Home(p) = l
        BY <2>2 DEF LinksAgree, Home
    <2>6. WalkInv'
        BY <1>2, <2>1, <2>2, <2>5 DEF vListInsertStart, WalkInv, Home
    <2> QED BY <2>3, <2>4, <2>6
<1>3. ASSUME vListInsertStep PROVE ListInv'
    <2>1. UNCHANGED <<pxNext, pxPrevious, pvContainer, pxIndex, uxNumberOfItems>>
        BY <1>3 DEF vListInsertStep, links
    <2>2. PICK c \in Calls : c = inserting
        BY <1>3 DEF vListInsertStep, TypeOK
    <2>3. PICK p \in Nodes : /\ p = pxNext[c.pxIterator]
                             /\ inserting' = [c EXCEPT !.pxIterator = p]
        BY <1>3, <2>2 DEF vListInsertStep, TypeOK, Calls
    <2>4. TypeOK'
        BY <1>3, <2>1, <2>2, <2>3 DEF vListInsertStep, TypeOK, Calls
    <2>5. LinksAgree' /\ OneRing' /\ CountsTrue'
        BY <2>1 DEF LinksAgree, OneRing, CountsTrue, Home
    <2>6. /\ c.pxIterator \in Nodes /\ c.list \in Lists
          /\ pvContainer[c.item] = NULL /\ Home(c.pxIterator) = c.list
        BY <1>3, <2>2 DEF vListInsertStep, WalkInv, Calls
    <2>7. Home(p) = c.list
        BY <2>3, <2>6 DEF LinksAgree
    <2>8. /\ inserting'.item = c.item /\ inserting'.list = c.list
          /\ inserting'.pxIterator = p
        BY <2>3 DEF Calls
    <2>9. WalkInv'
        BY <2>1, <2>6, <2>7, <2>8 DEF WalkInv, Home
    <2> QED BY <2>4, <2>5, <2>9
<1>4. ASSUME vListInsertLink PROVE ListInv'
    <2>1. PICK c \in Calls : c = inserting
        BY <1>4 DEF vListInsertLink, TypeOK
    <2>2. /\ c.item \in Items /\ c.list \in Lists /\ c.pxIterator \in Nodes
          /\ pvContainer[c.item] = NULL /\ Home(c.pxIterator) = c.list
        BY <1>4, <2>1 DEF vListInsertLink, WalkInv, Calls
    <2>3. /\ LinkAfter(c.pxIterator, c.item)
          /\ pvContainer' = [pvContainer EXCEPT ![c.item] = c.list]
          /\ uxNumberOfItems' = [uxNumberOfItems EXCEPT ![c.list] = @ + 1]
          /\ \A k \in Lists : pxIndex'[k] = pxIndex[k]
        BY <1>4, <2>1 DEF vListInsertLink
    <2>4. TypeOK'
        <3>1. pxNext' \in [Nodes -> Nodes] /\ pxPrevious' \in [Nodes -> Nodes]
            BY <2>2, <2>3, LinkTypes
        <3> QED BY <1>4, <2>2, <2>3, <3>1 DEF vListInsertLink, TypeOK
    <2>5. LinksAgree' /\ OneRing'
        BY <2>2, <2>3, LinkKeepsLinks, LinkKeepsRing
    <2>6. CountsTrue'
        BY <2>2, <2>3, LinkKeepsCounts
    <2>7. WalkInv'
        BY <1>4 DEF vListInsertLink, WalkInv
    <2> QED BY <2>4, <2>5, <2>6, <2>7
<1>5. ASSUME NEW i \in Items, vListRemove(i) PROVE ListInv'
    <2>1. LinksAgree' /\ OneRing' /\ CountsTrue' /\ uxNumberOfItems' \in [Lists -> Nat]
        BY <1>5, RemoveKeepsLinks, RemoveKeepsRing, RemoveKeepsCounts
    <2>2. TypeOK'
        BY <1>5, <2>1 DEF vListRemove, TypeOK
    <2>3. WalkInv'
        BY <1>5 DEF vListRemove, WalkInv
    <2> QED BY <2>1, <2>2, <2>3
<1>6. ASSUME NEW l \in ReadyLists, listGET_OWNER_OF_NEXT_ENTRY(l) PROVE ListInv'
    <2>1. /\ UNCHANGED <<pxNext, pxPrevious, pvContainer, uxNumberOfItems, inserting, xItemValue>>
          /\ pxIndex' = [pxIndex EXCEPT ![l] = NextEntry(l)]
        BY <1>6 DEF listGET_OWNER_OF_NEXT_ENTRY, links
    <2>2. PICK e \in Nodes : e = NextEntry(l)
        BY DEF NextEntry, TypeOK
    <2>3. Home(e) = l
        <3>1. pxIndex[l] \in Nodes /\ Home(pxIndex[l]) = l /\ Home(l) = l /\ l # NULL
            BY DEF LinksAgree, TypeOK, Home
        <3>2. ASSUME NEW n \in Nodes, Home(n) = l PROVE Home(pxNext[n]) = l
            BY <3>1, <3>2 DEF LinksAgree
        <3>3. l \in Nodes /\ (e = pxNext[l] \/ e = pxNext[pxIndex[l]])
            BY <2>2 DEF NextEntry
        <3> QED BY <3>1, <3>2, <3>3
    <2>4. overtakes' \in [Items -> [Items -> Nat]]
        <3>1. ASSUME NEW x \in Items PROVE overtakes'[x] \in [Items -> Nat]
            <4>1. PICK f \in [Items -> Nat] : f = overtakes[x]
                BY DEF TypeOK
            <4>2. PICK v : v = IF f[e] < 2 THEN f[e] + 1 ELSE 2
                OBVIOUS
            <4>3. e \in Items => v \in Nat
                BY <4>2
            <4>4. [f EXCEPT ![e] = v] \in [Items -> Nat]
                BY <4>3
            <4>5. \/ overtakes'[x] = f
                  \/ overtakes'[x] = [y \in Items |-> 0]
                  \/ overtakes'[x] = [f EXCEPT ![e] = v]
                BY <1>6, <2>2, <4>1, <4>2 DEF listGET_OWNER_OF_NEXT_ENTRY
            <4>6. [y \in Items |-> 0] \in [Items -> Nat]
                OBVIOUS
            <4> QED BY <4>4, <4>5, <4>6, Zenon
        <3> QED BY <1>6, <3>1 DEF listGET_OWNER_OF_NEXT_ENTRY
    <2>5. TypeOK'
        BY <2>1, <2>2, <2>4 DEF TypeOK
    <2>6. LinksAgree'
        <3>1. \A n \in Nodes : Home(n)' = Home(n)
            BY <2>1 DEF Home
        <3>2. \A k \in Lists : Home(pxIndex[k])' = k
            BY <2>1, <2>2, <2>3 DEF TypeOK, LinksAgree, Home
        <3> QED BY <2>1, <3>1, <3>2 DEF LinksAgree, Home
    <2>7. OneRing' /\ CountsTrue' /\ WalkInv'
        BY <2>1 DEF OneRing, CountsTrue, WalkInv, Home
    <2> QED BY <2>5, <2>6, <2>7
<1>7. CASE UNCHANGED vars
    BY <1>7 DEF vars, TypeOK, LinksAgree, OneRing, CountsTrue, WalkInv, Home
<1> QED BY <1>1, <1>2, <1>3, <1>4, <1>5, <1>6, <1>7 DEF Next

(* list.c, for any items, lists and values: its invariant always holds.     *)
THEOREM ListCorrect == Spec => []ListInv
BY InitInv, NextInv, PTL DEF Spec

(* No sequence of insertions, removals and turns breaks a ring of list.c,   *)
(* leaves a dangling pointer or a cursor on a removed item.                 *)
THEOREM RingsAlwaysIntact == Spec => []RingsIntact
<1>1. ListInv => RingsIntact
    BY DEF ListInv
<1> QED BY <1>1, ListCorrect, PTL

-----------------------------------------------------------------------------
(* The nodes of a list, its end marker among them.                          *)
Ring(l) == {n \in Nodes : Home(n) = l}

(* The walk of listGET_OWNER_OF_NEXT_ENTRY from the cursor on comes to x    *)
(* before it goes beyond y: what it can meet, short of the step from y,     *)
(* includes x.                                                              *)
ReachedBefore(l, x, y) ==
    \A S \in SUBSET Ring(l) :
        pxNext[pxIndex[l]] \in S /\ (\A n \in S \ {y} : pxNext[n] \in S) => x \in S

(* The history is true to the ring: an item that is in no ready list has    *)
(* seen nobody come before it, and where y came while x waited, x comes     *)
(* next.                                                                    *)
Turns ==
    /\ \A x, y \in Items : overtakes[x][y] \in {0, 1}
    /\ \A x, y \in Items : pvContainer[x] \notin ReadyLists => overtakes[x][y] = 0
    /\ \A l \in ReadyLists : \A x, y \in Items :
          pvContainer[x] = l /\ pvContainer[y] = l /\ overtakes[x][y] = 1 => ReachedBefore(l, x, y)

(* Following pxNext from anywhere in a list one meets all of it.            *)
LEMMA ClosedIsAll ==
    ASSUME TypeOK, RingsIntact, NEW l \in Lists, NEW S \in SUBSET Ring(l), S # {},
           \A n \in S : pxNext[n] \in S
    PROVE  S = Ring(l)
<1> USE NodeFacts DEF TypeOK, RingsIntact
<1>1. IsFiniteSet(Ring(l))
    <2>1. IsFiniteSet(Items \cup {l})
        BY FS_AddElement, ListAssumption
    <2>2. Ring(l) \in SUBSET (Items \cup {l})
        BY DEF Ring, Home, Nodes
    <2> QED BY <2>1, <2>2, FS_Subset
<1>2. l \in S
    BY DEF OneRing, Ring
<1> DEFINE R == Ring(l) \ S
<1>3. SUFFICES ASSUME R # {} PROVE FALSE
    OBVIOUS
<1>4. \A n \in S : n \in Nodes /\ Home(n) = l /\ pxPrevious[pxNext[n]] = n
    BY NodeFacts DEF Ring, LinksAgree
<1>5. PICK f : f = [n \in S |-> pxNext[n]]
    OBVIOUS
<1>6. f \in Injection(S, S)
    <2>1. f \in [S -> S]
        BY <1>5
    <2>2. \A m, n \in S : f[m] = f[n] => m = n
        BY <1>4, <1>5
    <2> QED BY <2>1, <2>2 DEF Injection, IsInjective
<1>7. IsFiniteSet(S)
    BY <1>1, FS_Subset
<1>8. f \in Surjection(S, S)
    BY <1>6, <1>7, FS_Injection
<1>9. \A n \in S : pxPrevious[n] \in S
    <2> TAKE n \in S
    <2>1. PICK m \in S : f[m] = n
        BY <1>8 DEF Surjection
    <2> QED BY <2>1, <1>4, <1>5
<1>10. \A n \in R : Home(n) = l /\ pxNext[n] \in R
    <2> TAKE n \in R
    <2>1. n \in Nodes /\ Home(n) = l /\ n \notin S
        BY DEF Ring
    <2>2. pxNext[n] \in Nodes /\ Home(pxNext[n]) = l /\ pxPrevious[pxNext[n]] = n
        BY <2>1 DEF LinksAgree
    <2> QED BY <2>1, <2>2, <1>9 DEF Ring
<1>11. R \in SUBSET Nodes
    BY DEF Ring
<1> HIDE DEF R
<1>12. l \in R
    BY <1>3, <1>10, <1>11 DEF OneRing
<1> QED BY <1>2, <1>12 DEF R

(* So from the cursor one comes to everything before coming back to it.     *)
CursorLast ==
    \A l \in ReadyLists : \A x \in Items :
        pvContainer[x] = l /\ x # pxIndex[l] => ReachedBefore(l, x, pxIndex[l])

LEMMA CursorIsLast == TypeOK /\ RingsIntact => CursorLast
<1> USE NodeFacts DEF TypeOK, RingsIntact
<1> SUFFICES ASSUME TypeOK, RingsIntact, NEW l \in ReadyLists, NEW x \in Items, pvContainer[x] = l,
                    NEW c, c = pxIndex[l], x # c,
                    NEW S \in SUBSET Ring(l), pxNext[c] \in S, \A n \in S \ {c} : pxNext[n] \in S
             PROVE  x \in S
    BY DEF ReachedBefore, CursorLast
<1>1. l \in Lists /\ c \in Ring(l) /\ x \in Ring(l)
    BY DEF Ring, LinksAgree, Home
<1>2. PICK T : T = S \cup {c}
    OBVIOUS
<1>3. T \in SUBSET Ring(l) /\ T # {} /\ \A n \in T : pxNext[n] \in T
    BY <1>1, <1>2
<1>4. T = Ring(l)
    BY <1>1, <1>3, ClosedIsAll
<1> QED BY <1>1, <1>2, <1>4

(* The same after a step.                                                   *)
LEMMA CursorIsLastThen == (TypeOK /\ RingsIntact => CursorLast)'
BY CursorIsLast, PTL

(* A step that changes neither this ring nor its cursor changes nobody's    *)
(* place in it.                                                             *)
LEMMA SameReach ==
    ASSUME NEW l \in Lists, NEW x, NEW y, ReachedBefore(l, x, y),
           pxIndex'[l] = pxIndex[l], Ring(l)' = Ring(l), pxIndex[l] \in Ring(l),
           \A n \in Ring(l) : pxNext'[n] = pxNext[n]
    PROVE  ReachedBefore(l, x, y)'
<1> SUFFICES ASSUME NEW S \in SUBSET (Ring(l)'), pxNext'[pxIndex'[l]] \in S,
                    \A n \in S \ {y} : pxNext'[n] \in S
             PROVE  x \in S
    BY DEF ReachedBefore
<1>1. S \in SUBSET Ring(l) /\ pxNext[pxIndex[l]] \in S /\ \A n \in S \ {y} : pxNext[n] \in S
    OBVIOUS
<1> QED BY <1>1 DEF ReachedBefore

(* Linking in one list is such a step for the other lists.                  *)
LEMMA LinkLeavesOthers ==
    ASSUME TypeOK, LinksAgree, NEW l \in Lists, NEW i \in Items, NEW p \in Nodes,
           pvContainer[i] = NULL, Home(p) = l,
           LinkAfter(p, i), pvContainer' = [pvContainer EXCEPT ![i] = l],
           NEW k \in Lists \ {l}
    PROVE  /\ Ring(k)' = Ring(k) /\ pxIndex[k] \in Ring(k)
           /\ \A n \in Ring(k) : pxNext'[n] = pxNext[n]
<1> USE NodeFacts DEF TypeOK
<1>1. k # NULL /\ Home(i) = NULL /\ Home(i)' = l /\ \A n \in Nodes \ {i} : Home(n)' = Home(n)
    BY DEF Home
<1>2. Ring(k)' = Ring(k) /\ pxIndex[k] \in Ring(k)
    BY <1>1 DEF Ring, LinksAgree
<1>3. \A n \in Ring(k) : n \in Nodes /\ n # i /\ n # p
    BY <1>1 DEF Ring
<1> QED BY <1>2, <1>3 DEF LinkAfter

(* vListInsertEnd: the new item is last, and the others keep their order.   *)
LEMMA InsertEndTurns ==
    ASSUME ListInv, Turns, ListInv', NEW l \in ReadyLists, NEW i \in Items, vListInsertEnd(l, i)
    PROVE  Turns'
<1> USE NodeFacts DEF ListInv, TypeOK, RingsIntact
<1>1. /\ pvContainer[i] = NULL /\ LinkAfter(pxIndex[l], i)
      /\ pxIndex' = [pxIndex EXCEPT ![l] = i]
      /\ pvContainer' = [pvContainer EXCEPT ![i] = l]
      /\ overtakes' = overtakes
    BY DEF vListInsertEnd
<1>2. PICK c \in Nodes : c = pxIndex[l]
    OBVIOUS
<1>3. PICK q \in Nodes : q = pxNext[c]
    OBVIOUS
<1>4. Home(c) = l /\ Home(q) = l /\ c # i /\ q # i /\ l # NULL
    BY <1>1, <1>2, <1>3 DEF LinksAgree, Home
<1>5. \A n \in Nodes : /\ n # i => Home(n)' = Home(n)
                       /\ pxNext'[n] = IF n = c THEN i ELSE IF n = i THEN q ELSE pxNext[n]
    BY <1>1, <1>2, <1>3, <1>4 DEF LinkAfter, Home
<1>6. Home(i) = NULL /\ Home(i)' = l
    BY <1>1 DEF Home
<1>7. ASSUME NEW x \in Items, NEW y \in Items, x # i, y # i, ReachedBefore(l, x, y)
      PROVE  ReachedBefore(l, x, y)'
    <2> SUFFICES ASSUME NEW S \in SUBSET (Ring(l)'), pxNext'[pxIndex'[l]] \in S,
                        \A n \in S \ {y} : pxNext'[n] \in S
                 PROVE  x \in S
        BY DEF ReachedBefore
    <2>1. PICK T : T = S \ {i}
        OBVIOUS
    <2>2. T \in SUBSET Ring(l)
        BY <2>1, <1>5 DEF Ring
    <2>3. q \in S /\ q \in T
        BY <2>1, <1>1, <1>4, <1>5
    <2>4. \A n \in T \ {y} : pxNext[n] \in T
        <3> TAKE n \in T \ {y}
        <3>1. n \in Nodes /\ Home(n) = l /\ n # i /\ n \in S
            BY <2>1, <2>2 DEF Ring
        <3>2. pxNext[n] # i
            BY <3>1, <1>4, <1>6 DEF LinksAgree
        <3>3. CASE n = c
            BY <3>3, <2>3, <1>3
        <3>4. CASE n # c
            BY <3>1, <3>2, <3>4, <2>1, <1>5
        <3> QED BY <3>3, <3>4
    <2>5. x \in T
        BY <2>2, <2>3, <2>4, <1>2, <1>3, <1>7 DEF ReachedBefore
    <2> QED BY <2>1, <2>5
<1>8. ASSUME NEW x \in Items, x # i, pvContainer[x] = l PROVE ReachedBefore(l, x, i)'
    <2>1. TypeOK' /\ RingsIntact' /\ pvContainer'[x] = l /\ i = pxIndex'[l]
        BY <1>1, <1>8
    <2>2. CursorLast'
        BY <2>1, CursorIsLastThen
    <2> HIDE DEF TypeOK, RingsIntact
    <2> QED BY <2>1, <2>2, <1>8 DEF CursorLast
<1>9. ASSUME NEW k \in ReadyLists, k # l, NEW x, NEW y, ReachedBefore(k, x, y)
      PROVE  ReachedBefore(k, x, y)'
    <2>1. /\ Ring(k)' = Ring(k) /\ pxIndex[k] \in Ring(k)
          /\ \A n \in Ring(k) : pxNext'[n] = pxNext[n]
        BY <1>1, <1>2, <1>4, <1>9, LinkLeavesOthers
    <2>2. pxIndex'[k] = pxIndex[k]
        BY <1>1, <1>9
    <2> QED BY <2>1, <2>2, <1>9, SameReach
<1>10. ASSUME NEW k \in ReadyLists, NEW x \in Items, NEW y \in Items,
              pvContainer'[x] = k, pvContainer'[y] = k, overtakes'[x][y] = 1
       PROVE  ReachedBefore(k, x, y)'
    <2>1. x # i
        BY <1>1, <1>10 DEF Turns
    <2>2. CASE y = i
        BY <2>1, <2>2, <1>1, <1>8, <1>10
    <2>3. CASE y # i
        BY <2>1, <2>3, <1>1, <1>7, <1>9, <1>10 DEF Turns
    <2> QED BY <2>2, <2>3
<1>11. \A x \in Items : pvContainer'[x] \notin ReadyLists => pvContainer[x] \notin ReadyLists
    BY <1>1
<1> QED BY <1>1, <1>10, <1>11 DEF Turns

(* vListInsert puts an item into a list where nobody takes turns.           *)
LEMMA LinkTurns ==
    ASSUME ListInv, Turns, vListInsertLink
    PROVE  Turns'
<1> USE NodeFacts DEF ListInv, TypeOK, RingsIntact
<1>1. PICK c \in Calls : c = inserting
    BY DEF vListInsertLink, TypeOK
<1>2. /\ c.item \in Items /\ c.list \in SortedLists /\ c.pxIterator \in Nodes
      /\ pvContainer[c.item] = NULL /\ Home(c.pxIterator) = c.list
    BY <1>1 DEF vListInsertLink, WalkInv, Calls
<1>3. /\ LinkAfter(c.pxIterator, c.item)
      /\ pvContainer' = [pvContainer EXCEPT ![c.item] = c.list]
      /\ overtakes' = overtakes /\ pxIndex' = pxIndex
    BY <1>1 DEF vListInsertLink
<1>4. c.list \notin ReadyLists
    BY <1>2, ListAssumption
<1>5. ASSUME NEW k \in ReadyLists, NEW x, NEW y, ReachedBefore(k, x, y)
      PROVE  ReachedBefore(k, x, y)'
    <2>1. /\ Ring(k)' = Ring(k) /\ pxIndex[k] \in Ring(k)
          /\ \A n \in Ring(k) : pxNext'[n] = pxNext[n]
        BY <1>2, <1>3, <1>4, LinkLeavesOthers
    <2> QED BY <2>1, <1>3, <1>5, SameReach
<1>6. \A x \in Items : \/ pvContainer'[x] = pvContainer[x]
                       \/ pvContainer[x] \notin ReadyLists /\ pvContainer'[x] \notin ReadyLists
    BY <1>2, <1>3, <1>4
<1> QED BY <1>3, <1>5, <1>6 DEF Turns

(* vListRemove: who came before whom still does.                            *)
LEMMA RemoveTurns ==
    ASSUME ListInv, Turns, NEW i \in Items, vListRemove(i)
    PROVE  Turns'
<1> USE NodeFacts DEF ListInv, TypeOK, RingsIntact
<1>1. PICK a \in Nodes, b \in Nodes, l \in Lists :
          a = pxPrevious[i] /\ b = pxNext[i] /\ l = pvContainer[i]
    BY DEF vListRemove
<1>2. /\ a # i /\ b # i /\ Home(i) = l /\ Home(a) = l /\ Home(b) = l
      /\ pxNext[a] = i /\ l # NULL
    BY <1>1, NeighboursDiffer DEF LinksAgree, vListRemove, Home
<1>3. \A n \in Nodes : /\ n # i => Home(n)' = Home(n)
                       /\ pxNext'[n] = IF n = a THEN b ELSE pxNext[n]
    BY <1>1 DEF vListRemove, Home
<1>4. Home(i)' = NULL /\ pvContainer' = [pvContainer EXCEPT ![i] = NULL]
    BY DEF vListRemove, Home
<1>5. \A k \in Lists : pxIndex'[k] = IF k = l /\ pxIndex[k] = i THEN a ELSE pxIndex[k]
    BY <1>1 DEF vListRemove
<1>6. overtakes' = [overtakes EXCEPT ![i] = [y \in Items |-> 0]]
    BY DEF vListRemove
<1>7. ASSUME NEW k \in ReadyLists, NEW x \in Items, NEW y \in Items, x # i, y # i,
             ReachedBefore(k, x, y)
      PROVE  ReachedBefore(k, x, y)'
    <2> SUFFICES ASSUME NEW S \in SUBSET (Ring(k)'), pxNext'[pxIndex'[k]] \in S,
                        \A n \in S \ {y} : pxNext'[n] \in S
                 PROVE  x \in S
        BY DEF ReachedBefore
    <2>1. PICK T : T = IF k = l /\ b \in S THEN S \cup {i} ELSE S
        OBVIOUS
    <2>2. i \notin S /\ S \subseteq Ring(k)
        BY <1>3, <1>4 DEF Ring
    <2>3. T \in SUBSET Ring(k)
        BY <2>1, <2>2, <1>2 DEF Ring
    <2>4. PICK c \in Nodes : c = pxIndex[k]
        OBVIOUS
    <2>5. pxNext[c] \in T
        <3>1. CASE k = l /\ c = i
            BY <3>1, <2>1, <2>4, <1>1, <1>3, <1>5
        <3>2. CASE k = l /\ c = a /\ c # i
            BY <3>2, <2>1, <2>4, <1>2, <1>3, <1>5
        <3>3. CASE ~(k = l /\ c = i) /\ c # a
            BY <3>3, <2>1, <2>4, <1>3, <1>5
        <3>4. Home(c) = k
            BY <2>4 DEF LinksAgree
        <3> QED BY <3>1, <3>2, <3>3, <3>4, <1>2
    <2>6. \A n \in T \ {y} : pxNext[n] \in T
        <3> TAKE n \in T \ {y}
        <3>1. CASE n = i
            BY <3>1, <2>1, <2>2, <1>1
        <3>2. CASE n # i /\ n # a
            <4>1. n \in S /\ n \in Nodes
                BY <3>2, <2>1, <2>3 DEF Ring
            <4>2. pxNext[n] \in S
                BY <4>1, <3>2, <1>3
            <4> QED BY <4>2, <2>1
        <3>3. CASE n = a
            <4>1. a \in S /\ Home(a) = k
                BY <3>3, <2>1, <2>3, <1>2 DEF Ring
            <4>2. k = l /\ b \in S
                BY <4>1, <3>3, <1>2, <1>3
            <4> QED BY <3>3, <4>2, <2>1, <1>2
        <3> QED BY <3>1, <3>2, <3>3
    <2>7. x \in T
        BY <2>3, <2>4, <2>5, <2>6, <1>7 DEF ReachedBefore
    <2> QED BY <2>1, <2>7, <1>7
<1>8. ASSUME NEW x \in Items, NEW y \in Items
      PROVE  overtakes'[x][y] = IF x = i THEN 0 ELSE overtakes[x][y]
    BY <1>6
<1>9. \A x \in Items \ {i} : pvContainer'[x] = pvContainer[x]
    BY <1>4
<1>10. pvContainer'[i] \notin Lists
    BY <1>4
<1>11. ASSUME NEW k \in ReadyLists, NEW x \in Items, NEW y \in Items,
              pvContainer'[x] = k, pvContainer'[y] = k, overtakes'[x][y] = 1
       PROVE  ReachedBefore(k, x, y)'
    BY <1>7, <1>8, <1>9, <1>10, <1>11 DEF Turns
<1> QED BY <1>8, <1>9, <1>11 DEF Turns

(* listGET_OWNER_OF_NEXT_ENTRY: the item it returns has overtaken nobody    *)
(* that still waits, and comes last from now on.                            *)
LEMMA GetNextTurns ==
    ASSUME ListInv, Turns, ListInv', NEW l \in ReadyLists, listGET_OWNER_OF_NEXT_ENTRY(l)
    PROVE  Turns'
<1> USE NodeFacts DEF ListInv, TypeOK, RingsIntact
<1>1. PICK c \in Nodes, e \in Nodes : c = pxIndex[l] /\ e = NextEntry(l)
    BY DEF NextEntry
<1>2. /\ pxIndex' = [pxIndex EXCEPT ![l] = e]
      /\ pxNext' = pxNext /\ pvContainer' = pvContainer
      /\ \A x \in Items : \A y \in Items : overtakes'[x][y] =
             IF pvContainer[x] # l THEN overtakes[x][y]
             ELSE IF x = e THEN 0
             ELSE IF y # e THEN overtakes[x][y]
             ELSE IF overtakes[x][e] < 2 THEN overtakes[x][e] + 1 ELSE 2
    BY <1>1 DEF listGET_OWNER_OF_NEXT_ENTRY, links
<1>3. \A k \in Lists : Ring(k)' = Ring(k) /\ pxIndex[k] \in Ring(k)
    BY <1>2 DEF Ring, Home, LinksAgree
<1>4. c \in Ring(l) /\ l \in Ring(l) /\ e \in Ring(l) /\ pxNext[c] \in Ring(l)
    BY <1>1, <1>3 DEF Ring, Home, LinksAgree, NextEntry
<1>5. IF pxNext[c] = l THEN e = pxNext[l] ELSE e = pxNext[c]
    BY <1>1 DEF NextEntry
<1>6. ASSUME NEW x \in Items, x # e, ReachedBefore(l, x, e) PROVE FALSE
    <2>1. PICK S : S = {e, pxNext[c]}
        OBVIOUS
    <2>2. S \in SUBSET Ring(l) /\ pxNext[c] \in S /\ \A n \in S \ {e} : pxNext[n] \in S
        BY <2>1, <1>4, <1>5
    <2>3. x \in S
        BY <2>2, <1>1, <1>6 DEF ReachedBefore
    <2> QED BY <2>1, <2>3, <1>5, <1>6
<1>7. ASSUME NEW x \in Items, NEW y \in Items, x # e, y # e, ReachedBefore(l, x, y)
      PROVE  ReachedBefore(l, x, y)'
    <2> SUFFICES ASSUME NEW S \in SUBSET Ring(l), pxNext[e] \in S, \A n \in S \ {y} : pxNext[n] \in S
                 PROVE  x \in S
        BY <1>2, <1>3 DEF ReachedBefore
    <2>1. PICK T : T = S \cup {e, pxNext[c]}
        OBVIOUS
    <2>2. T \in SUBSET Ring(l) /\ pxNext[c] \in T
        BY <2>1, <1>4
    <2>3. \A n \in T \ {y} : pxNext[n] \in T
        BY <2>1, <1>5
    <2>4. x \in T
        BY <2>2, <2>3, <1>1, <1>7 DEF ReachedBefore
    <2> QED BY <2>1, <2>4, <1>5, <1>7
<1>8. ASSUME NEW x \in Items, x # e, pvContainer[x] = l PROVE ReachedBefore(l, x, e)'
    <2>1. TypeOK' /\ RingsIntact' /\ pvContainer'[x] = l /\ e = pxIndex'[l]
        BY <1>2, <1>8
    <2>2. CursorLast'
        BY <2>1, CursorIsLastThen
    <2> HIDE DEF TypeOK, RingsIntact
    <2> QED BY <2>1, <2>2, <1>8 DEF CursorLast
<1>9. ASSUME NEW k \in ReadyLists, k # l, NEW x, NEW y, ReachedBefore(k, x, y)
      PROVE  ReachedBefore(k, x, y)'
    BY <1>2, <1>3, <1>9, SameReach
<1>10. ASSUME NEW x \in Items, x # e, pvContainer[x] = l, e \in Items PROVE overtakes[x][e] = 0
    <2>1. pvContainer[e] = l
        BY <1>4, <1>10 DEF Ring, Home
    <2>2. overtakes[x][e] # 1
        BY <2>1, <1>6, <1>10 DEF Turns
    <2> QED BY <2>2, <1>10 DEF Turns
<1>11. ASSUME NEW x \in Items, NEW y \in Items
       PROVE  /\ overtakes'[x][y] \in {0, 1}
              /\ pvContainer'[x] \notin ReadyLists => overtakes'[x][y] = 0
    BY <1>2, <1>10 DEF Turns
<1>12. ASSUME NEW k \in ReadyLists, NEW x \in Items, NEW y \in Items,
              pvContainer'[x] = k, pvContainer'[y] = k, overtakes'[x][y] = 1
       PROVE  ReachedBefore(k, x, y)'
    <2>1. CASE k # l
        BY <2>1, <1>2, <1>9, <1>12 DEF Turns
    <2>2. CASE k = l /\ y = e
        BY <2>2, <1>2, <1>8, <1>12
    <2>3. CASE k = l /\ y # e
        BY <2>3, <1>2, <1>7, <1>12 DEF Turns
    <2> QED BY <2>1, <2>2, <2>3
<1> QED BY <1>11, <1>12 DEF Turns

(* So every step keeps the history true.                                    *)
LEMMA TurnsStep ==
    ASSUME ListInv, Turns, ListInv', [Next]_vars
    PROVE  Turns'
<1>1. ASSUME UNCHANGED <<pxNext, pvContainer, pxIndex, overtakes>> PROVE Turns'
    BY <1>1 DEF Turns, ReachedBefore, Ring, Home
<1>2. ASSUME NEW l \in SortedLists, NEW i \in Items, NEW v \in Values, vListInsertStart(l, i, v)
      PROVE  Turns'
    BY <1>1, <1>2 DEF vListInsertStart, links
<1>3. CASE vListInsertStep
    BY <1>1, <1>3 DEF vListInsertStep, links
<1>4. CASE UNCHANGED vars
    BY <1>1, <1>4 DEF vars
<1> QED BY <1>2, <1>3, <1>4, InsertEndTurns, LinkTurns, RemoveTurns, GetNextTurns DEF Next

(* No task of a ready list gets the processor twice while another of the    *)
(* same priority waits, whatever is inserted and removed meanwhile, for any *)
(* number of tasks (list.c:94, list.h:213-226).                             *)
THEOREM TurnsAreShared == Spec => []EqualShares
<1>1. Init => Turns
    BY NodeFacts DEF Init, Turns
<1>2. Turns => EqualShares
    BY DEF Turns, EqualShares
<1>3. ListInv /\ Turns /\ [Next]_vars => ListInv' /\ Turns'
    BY NextInv, TurnsStep
<1> QED BY <1>1, <1>2, <1>3, InitInv, PTL DEF Spec
=============================================================================
