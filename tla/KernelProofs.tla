---------------------------- MODULE KernelProofs ----------------------------
(***************************************************************************)
(* Lemmas about the operators Kernel is built from: what the functions of  *)
(* list.c do to a sequence of tasks, what removing a task and putting it   *)
(* in another list does to all the lists, and the arithmetic of wake       *)
(* times. For any tasks, any number of priorities and any width of the     *)
(* tick count.                                                             *)
(*                                                                         *)
(* The lists are seen through TakesTo: a step takes one task out of        *)
(* wherever it is and puts it in at most one list, and leaves every other  *)
(* task where it is.                                                       *)
(***************************************************************************)
EXTENDS Kernel, FiniteSetTheorems, WellFoundedInduction, TLAPS

(* Nothing is twice in a sequence.                                          *)
Once(s) == \A m, n \in DOMAIN s : s[m] = s[n] => m = n

(* No task is twice in a list, or in two lists.                             *)
OncePlaced(L) ==
    /\ \A l \in GenericLists : Once(L[l])
    /\ \A l, k \in GenericLists : \A t \in Tasks : In(t, L[l]) /\ In(t, L[k]) => l = k

(* The order vListInsert keeps (list.c:113-167).                            *)
Sorted(s, value) == \A m, n \in DOMAIN s : m < n => value[s[m]] <= value[s[n]]

(* A set of numbers that is not empty has a least one.  The sets 0..n of its *)
(* elements n have a minimal one among them.                                *)
LEMMA LeastNumber ==
    ASSUME NEW S \in SUBSET Nat, S # {}
    PROVE  \E m \in S : \A n \in S : m <= n
<1> DEFINE below == {0..n : n \in S}
<1>1. below \in SUBSET FiniteSubsetsOf(Nat) /\ below # {}
    <2>1. \A n \in S : 0..n \in FiniteSubsetsOf(Nat)
        BY FS_Interval DEF FiniteSubsetsOf
    <2> QED BY <2>1
<1>2. PICK x \in below : \A y \in below : <<y, x>> \notin StrictSubsetOrdering(Nat)
    <2>1. IsWellFoundedOn(StrictSubsetOrdering(Nat), FiniteSubsetsOf(Nat))
        BY FS_StrictSubsetOrderingWellFounded
    <2> HIDE DEF below
    <2> QED BY <1>1, <2>1, WFMin
<1>3. PICK m \in S : x = 0..m
    OBVIOUS
<1>4. ASSUME NEW n \in S, n < m PROVE FALSE
    <2>1. 0..n \subseteq 0..m /\ 0..n # 0..m
        <3>1. m \in 0..m /\ m \notin 0..n
            BY <1>4
        <3>2. n \in Nat /\ m \in Nat
            OBVIOUS
        <3>3. 0..n \subseteq 0..m
            BY <1>4, <3>2
        <3> QED BY <3>1, <3>3
    <2>2. <<0..n, x>> \in StrictSubsetOrdering(Nat)
        <3>1. <<0..n, 0..m>> \in (SUBSET Nat) \X (SUBSET Nat)
            OBVIOUS
        <3> QED BY <1>3, <2>1, <3>1 DEF StrictSubsetOrdering
    <2> QED BY <1>2, <2>2
<1> QED BY <1>4

(* vListRemove takes out one task and leaves the rest in its order.         *)
LEMMA WithoutIt ==
    ASSUME NEW s \in Seq(Tasks), NEW t \in Tasks, Once(s)
    PROVE  /\ Without(s, t) \in Seq(Tasks) /\ Once(Without(s, t))
           /\ \A u \in Tasks : In(u, Without(s, t)) <=> u # t /\ In(u, s)
           /\ In(t, s) => Len(s) # 0 /\ Len(Without(s, t)) = Len(s) - 1
           /\ \A value : Sorted(s, value) => Sorted(Without(s, t), value)
<1>1. CASE ~In(t, s)
    <2>1. Without(s, t) = s
        BY <1>1 DEF Without
    <2> QED BY <1>1, <2>1
<1>2. CASE In(t, s)
    <2> DEFINE k == CHOOSE n \in DOMAIN s : s[n] = t
               w == [n \in 1..(Len(s) - 1) |-> IF n < k THEN s[n] ELSE s[n + 1]]
    <2>1. k \in DOMAIN s /\ s[k] = t
        BY <1>2 DEF In
    <2>2. Without(s, t) = w
        BY <1>2 DEF Without
    <2> HIDE DEF k
    <2>3. Len(s) \in Nat /\ DOMAIN s = 1..Len(s) /\ k \in 1..Len(s)
        BY <2>1
    <2>4. w \in Seq(Tasks) /\ Len(w) = Len(s) - 1 /\ DOMAIN w = 1..(Len(s) - 1)
        <3>1. \A n \in 1..(Len(s) - 1) : (IF n < k THEN s[n] ELSE s[n + 1]) \in Tasks
            BY <2>3
        <3>2. Len(s) - 1 \in Nat
            BY <2>3
        <3> QED BY <3>1, <3>2
    <2>5. \A n \in DOMAIN w : w[n] = IF n < k THEN s[n] ELSE s[n + 1]
        BY <2>4
    <2> HIDE DEF w
    <2>6. Once(w)
        BY <2>3, <2>4, <2>5 DEF Once
    <2>7. \A u \in Tasks : In(u, w) <=> u # t /\ In(u, s)
        <3>1. ASSUME NEW n \in DOMAIN w PROVE w[n] # t /\ In(w[n], s)
            BY <2>1, <2>3, <2>4, <2>5 DEF Once, In
        <3>2. ASSUME NEW m \in DOMAIN s, s[m] # t PROVE In(s[m], w)
            <4>1. CASE m < k
                BY <2>3, <2>4, <2>5, <4>1 DEF In
            <4>2. CASE m > k
                <5>1. m - 1 \in DOMAIN w /\ w[m - 1] = s[m]
                    BY <2>3, <2>4, <2>5, <4>2
                <5> QED BY <5>1 DEF In
            <4> QED BY <2>1, <2>3, <3>2, <4>1, <4>2
        <3> QED BY <3>1, <3>2 DEF In
    <2>8. \A value : Sorted(s, value) => Sorted(w, value)
        BY <2>3, <2>4, <2>5 DEF Sorted
    <2> QED BY <1>2, <2>2, <2>3, <2>4, <2>6, <2>7, <2>8
<1> QED BY <1>1, <1>2

(* vListInsertEnd puts a new task last.                                     *)
LEMMA AppendIt ==
    ASSUME NEW s \in Seq(Tasks), NEW t \in Tasks, Once(s), ~In(t, s)
    PROVE  /\ Append(s, t) \in Seq(Tasks) /\ Once(Append(s, t))
           /\ \A u \in Tasks : In(u, Append(s, t)) <=> u = t \/ In(u, s)
           /\ Len(Append(s, t)) = Len(s) + 1 /\ Append(s, t) # <<>>
<1> DEFINE a == Append(s, t)
<1>1. /\ a \in Seq(Tasks) /\ Len(a) = Len(s) + 1 /\ DOMAIN a = 1..(Len(s) + 1)
      /\ a[Len(s) + 1] = t /\ \A n \in 1..Len(s) : a[n] = s[n]
    OBVIOUS
<1>2. Len(s) \in Nat /\ DOMAIN s = 1..Len(s) /\ \A n \in 1..Len(s) : s[n] # t
    BY DEF In
<1> HIDE DEF a
<1>3. Once(a)
    BY <1>1, <1>2 DEF Once
<1>4. \A u \in Tasks : In(u, a) <=> u = t \/ In(u, s)
    <2>1. \A n \in 1..(Len(s) + 1) : n = Len(s) + 1 \/ n \in 1..Len(s)
        BY <1>2
    <2>2. \A n \in 1..Len(s) : n \in 1..(Len(s) + 1)
        BY <1>2
    <2>3. Len(s) + 1 \in 1..(Len(s) + 1)
        BY <1>2
    <2> QED BY <1>1, <1>2, <2>1, <2>2, <2>3 DEF In
<1>5. a # <<>>
    BY <1>1, <1>2
<1> QED BY <1>1, <1>3, <1>4, <1>5 DEF a

(* vListInsert finds a place, keeps the order and loses nothing.            *)
LEMMA InsertIt ==
    ASSUME NEW s \in Seq(Tasks), NEW t \in Tasks, Once(s), ~In(t, s),
           NEW value \in [Tasks -> Nat]
    PROVE  LET r == InsertByValue(s, t, value)
           IN  /\ r \in Seq(Tasks) /\ Once(r) /\ (Sorted(s, value) => Sorted(r, value))
               /\ \A u \in Tasks : In(u, r) <=> u = t \/ In(u, s)
               /\ Len(r) = Len(s) + 1
<1> DEFINE Fits(n) == /\ \A m \in 1..(n - 1) : value[s[m]] <= value[t]
                      /\ n <= Len(s) => value[s[n]] > value[t]
           k == CHOOSE n \in 1..(Len(s) + 1) : Fits(n)
           r == [n \in 1..(Len(s) + 1) |-> IF n < k THEN s[n] ELSE IF n = k THEN t ELSE s[n - 1]]
<1>1. Len(s) \in Nat /\ DOMAIN s = 1..Len(s) /\ \A n \in 1..Len(s) : s[n] \in Tasks /\ s[n] # t
    BY DEF In
<1>2. value[t] \in Nat /\ \A n \in 1..Len(s) : value[s[n]] \in Nat
    BY <1>1
<1>3. \E n \in 1..(Len(s) + 1) : Fits(n)
    <2> DEFINE S == {n \in 1..(Len(s) + 1) : n <= Len(s) => value[s[n]] > value[t]}
    <2>1. S \in SUBSET Nat /\ Len(s) + 1 \in S
        BY <1>1
    <2> HIDE DEF S
    <2>2. PICK n \in S : \A m \in S : n <= m
        <3>1. S # {}
            BY <2>1
        <3> QED BY <2>1, <3>1, LeastNumber
    <2>3. n \in 1..(Len(s) + 1) /\ (n <= Len(s) => value[s[n]] > value[t])
        BY DEF S
    <2>4. ASSUME NEW m \in 1..(n - 1) PROVE value[s[m]] <= value[t]
        <3>1. m \in 1..Len(s) /\ m < n
            BY <1>1, <2>3
        <3>2. m \notin S
            BY <1>1, <2>2, <2>3, <3>1
        <3> QED BY <1>1, <1>2, <3>1, <3>2 DEF S
    <2> QED BY <2>3, <2>4
<1>4. k \in 1..(Len(s) + 1) /\ Fits(k)
    <2> HIDE DEF Fits
    <2> QED BY <1>3
<1>5. InsertByValue(s, t, value) = r
    BY DEF InsertByValue
<1> HIDE DEF k
<1>6. r \in Seq(Tasks) /\ Len(r) = Len(s) + 1 /\ DOMAIN r = 1..(Len(s) + 1)
    <2>1. \A n \in 1..(Len(s) + 1) :
             (IF n < k THEN s[n] ELSE IF n = k THEN t ELSE s[n - 1]) \in Tasks
        <3> TAKE n \in 1..(Len(s) + 1)
        <3>1. CASE n < k
            BY <1>1, <1>4, <3>1
        <3>2. CASE n > k
            <4>1. n - 1 \in 1..Len(s)
                BY <1>1, <1>4, <3>2
            <4> QED BY <1>1, <1>4, <3>2, <4>1
        <3> QED BY <1>4, <3>1, <3>2
    <2>2. Len(s) + 1 \in Nat
        BY <1>1
    <2> QED BY <2>1, <2>2
<1>7. /\ \A n \in 1..(Len(s) + 1) : n < k => r[n] = s[n] /\ n \in 1..Len(s)
      /\ r[k] = t
      /\ \A n \in 1..(Len(s) + 1) : n > k => r[n] = s[n - 1] /\ n - 1 \in 1..Len(s)
    BY <1>1, <1>4
<1> HIDE DEF r
<1>8. Once(r)
    <2> SUFFICES ASSUME NEW m \in 1..(Len(s) + 1), NEW n \in 1..(Len(s) + 1), m < n, r[m] = r[n]
                 PROVE  FALSE
        BY <1>6 DEF Once
    <2>1. CASE n < k
        <3>1. m \in 1..Len(s) /\ n \in 1..Len(s) /\ s[m] = s[n]
            BY <1>4, <1>7, <2>1
        <3> QED BY <1>1, <3>1 DEF Once
    <2>2. CASE m > k
        <3>1. m - 1 \in 1..Len(s) /\ n - 1 \in 1..Len(s) /\ m - 1 < n - 1 /\ s[m - 1] = s[n - 1]
            BY <1>4, <1>7, <2>2
        <3> QED BY <1>1, <3>1 DEF Once
    <2>3. CASE n = k \/ m = k
        BY <1>1, <1>4, <1>7, <2>3
    <2>4. CASE m < k /\ n > k
        <3>1. m \in 1..Len(s) /\ n - 1 \in 1..Len(s) /\ m # n - 1
            BY <1>1, <1>4, <2>4
        <3>2. s[m] = s[n - 1]
            BY <1>7, <2>4
        <3> QED BY <1>1, <3>1, <3>2 DEF Once
    <2> QED BY <1>4, <2>1, <2>2, <2>3, <2>4
<1>9. \A u \in Tasks : In(u, r) <=> u = t \/ In(u, s)
    <2>1. ASSUME NEW n \in DOMAIN r PROVE r[n] = t \/ In(r[n], s)
        <3>1. CASE n < k
            BY <1>1, <1>6, <1>7, <3>1 DEF In
        <3>2. CASE n > k
            BY <1>1, <1>6, <1>7, <3>2 DEF In
        <3> QED BY <1>4, <1>6, <1>7, <3>1, <3>2
    <2>2. In(t, r)
        BY <1>4, <1>6, <1>7 DEF In
    <2>3. ASSUME NEW m \in DOMAIN s PROVE In(s[m], r)
        <3>1. CASE m < k
            <4>1. m \in DOMAIN r
                BY <1>1, <1>4, <1>6, <3>1
            <4>2. r[m] = s[m]
                BY <1>6, <1>7, <3>1, <4>1
            <4> QED BY <4>1, <4>2 DEF In
        <3>2. CASE m >= k
            <4>1. m + 1 \in DOMAIN r /\ r[m + 1] = s[m]
                BY <1>1, <1>4, <1>6, <1>7, <3>2
            <4> QED BY <4>1 DEF In
        <3> QED BY <1>1, <1>4, <3>1, <3>2
    <2> QED BY <2>1, <2>2, <2>3 DEF In
<1>10. Sorted(s, value) => Sorted(r, value)
    <2> SUFFICES ASSUME Sorted(s, value),
                        NEW m \in 1..(Len(s) + 1), NEW n \in 1..(Len(s) + 1), m < n
                 PROVE  value[r[m]] <= value[r[n]]
        BY <1>6 DEF Sorted
    <2>1. CASE n < k
        <3>1. m < k /\ r[m] = s[m] /\ r[n] = s[n] /\ m \in 1..Len(s) /\ n \in 1..Len(s)
            BY <1>4, <1>7, <2>1
        <3> QED BY <1>1, <3>1 DEF Sorted
    <2>2. CASE n = k
        <3>1. m < k /\ r[n] = t
            BY <1>7, <2>2
        <3>2. r[m] = s[m] /\ m \in 1..(k - 1)
            BY <1>4, <1>7, <3>1
        <3>3. value[s[m]] <= value[t]
            BY <1>4, <3>2
        <3> QED BY <3>1, <3>2, <3>3
    <2>3. CASE m = k
        <3>1. k <= Len(s) /\ value[s[k]] > value[t]
            BY <1>1, <1>4, <2>3
        <3>2. /\ k \in 1..Len(s) /\ n - 1 \in 1..Len(s) /\ k <= n - 1
              /\ r[m] = t /\ r[n] = s[n - 1]
            BY <1>1, <1>4, <1>7, <2>3, <3>1
        <3>3. value[s[k]] <= value[s[n - 1]]
            <4>1. CASE k = n - 1
                BY <1>2, <3>2, <4>1
            <4>2. CASE k < n - 1
                BY <1>1, <3>2, <4>2 DEF Sorted
            <4> QED BY <3>2, <4>1, <4>2
        <3> QED BY <1>2, <3>1, <3>2, <3>3
    <2>4. CASE m < k /\ n > k
        <3>1. m \in 1..Len(s) /\ n - 1 \in 1..Len(s) /\ m < n - 1
            BY <1>1, <1>4, <2>4
        <3>2. value[s[m]] <= value[s[n - 1]]
            BY <1>1, <3>1 DEF Sorted
        <3>3. r[m] = s[m] /\ r[n] = s[n - 1]
            BY <1>7, <2>4
        <3> QED BY <3>2, <3>3
    <2>5. CASE m > k
        <3>1. m - 1 \in 1..Len(s) /\ n - 1 \in 1..Len(s) /\ m - 1 < n - 1
            BY <1>1, <1>4, <2>5
        <3>2. r[m] = s[m - 1] /\ r[n] = s[n - 1]
            BY <1>7, <1>4, <2>5
        <3> QED BY <1>1, <3>1, <3>2 DEF Sorted
    <2> QED BY <1>4, <2>1, <2>2, <2>3, <2>4, <2>5
<1> QED BY <1>5, <1>6, <1>8, <1>9, <1>10

(* The head of a list that is not empty is in it; an empty list holds       *)
(* nothing.                                                                 *)
LEMMA HeadIn ==
    ASSUME NEW s \in Seq(Tasks)
    PROVE  /\ s # <<>> => Head(s) \in Tasks /\ In(Head(s), s) /\ 1 \in DOMAIN s /\ s[1] = Head(s)
           /\ (s # <<>>) <=> \E u \in Tasks : In(u, s)
           /\ (s # <<>>) <=> Len(s) > 0
<1>1. Len(s) \in Nat /\ DOMAIN s = 1..Len(s) /\ \A n \in DOMAIN s : s[n] \in Tasks
    OBVIOUS
<1>2. s # <<>> => 1 \in DOMAIN s /\ s[1] = Head(s) /\ Len(s) > 0
    OBVIOUS
<1>3. s = <<>> => DOMAIN s = {} /\ Len(s) = 0
    OBVIOUS
<1> QED BY <1>1, <1>2, <1>3 DEF In

-----------------------------------------------------------------------------
(* The lists of generic items.                                              *)

(* The type of xLists, with every task in one place at most.                *)
IsLists(L) == L \in [GenericLists -> Seq(Tasks)] /\ OncePlaced(L)

(* What a step does to the lists when it takes task x to list l, wherever   *)
(* it was before, or out of all lists.                                      *)
NoList == -5

(* N is what L becomes when x leaves its list and enters l, or none.        *)
TakesTo(L, N, x, l) ==
    /\ IsLists(N)
    /\ \A u \in Tasks : \A k \in GenericLists :
          In(u, N[k]) <=> IF u = x THEN k = l ELSE In(u, L[k])
    /\ \A k \in GenericLists : \A value :
          k # l /\ Sorted(L[k], value) => Sorted(N[k], value)
    /\ \A k \in GenericLists :
          Len(N[k]) = Len(L[k]) + (IF k = l THEN 1 ELSE 0) - (IF In(x, L[k]) THEN 1 ELSE 0)

(* The lists are different from each other.                                 *)
LEMMA ListNames ==
    /\ Priorities \subseteq GenericLists /\ 0 \in Priorities /\ NoList \notin GenericLists
    /\ DelayedTaskList \in GenericLists /\ OverflowDelayedTaskList \in GenericLists
    /\ SuspendedTaskList \in GenericLists /\ TasksWaitingTermination \in GenericLists
    /\ Priorities \subseteq Nat /\ GenericLists \subseteq Int
    /\ DelayedTaskList < 0 /\ OverflowDelayedTaskList < 0 /\ SuspendedTaskList < 0
    /\ TasksWaitingTermination < 0 /\ DelayedTaskList # OverflowDelayedTaskList
    /\ SuspendedTaskList # DelayedTaskList /\ SuspendedTaskList # OverflowDelayedTaskList
    /\ TasksWaitingTermination \notin {DelayedTaskList, OverflowDelayedTaskList, SuspendedTaskList}
BY KernelAssumption DEF KernelAssumption, GenericLists, Priorities, OtherLists, NoList,
   DelayedTaskList, OverflowDelayedTaskList, SuspendedTaskList, TasksWaitingTermination

(* A ready list is named by its priority, the others are no priorities.     *)
LEMMA ReadyListNames ==
    \A p \in Priorities : p \in GenericLists /\ p # NoList /\ p \notin OtherLists /\ p \in Nat
BY KernelAssumption DEF KernelAssumption, GenericLists, Priorities, OtherLists, NoList,
   DelayedTaskList, OverflowDelayedTaskList, SuspendedTaskList, TasksWaitingTermination

(* uxListRemove of a task's generic item, wherever that is.                 *)
LEMMA RemovedIt ==
    ASSUME IsLists(xLists), NEW x \in Tasks
    PROVE  TakesTo(xLists, GenericRemoved(x), x, NoList)
<1> DEFINE N == GenericRemoved(x)
<1>1. \A k \in GenericLists : N[k] = Without(xLists[k], x) /\ xLists[k] \in Seq(Tasks) /\ Once(xLists[k])
    BY DEF GenericRemoved, IsLists, OncePlaced
<1>2. \A k \in GenericLists :
         /\ N[k] \in Seq(Tasks) /\ Once(N[k])
         /\ \A u \in Tasks : In(u, N[k]) <=> u # x /\ In(u, xLists[k])
         /\ \A value : Sorted(xLists[k], value) => Sorted(N[k], value)
         /\ In(x, xLists[k]) => Len(N[k]) = Len(xLists[k]) - 1
         /\ ~In(x, xLists[k]) => N[k] = xLists[k]
    <2> TAKE k \in GenericLists
    <2>1. ~In(x, xLists[k]) => N[k] = xLists[k]
        BY <1>1 DEF Without
    <2> DEFINE s == xLists[k]
    <2>2. s \in Seq(Tasks) /\ Once(s) /\ N[k] = Without(s, x)
        BY <1>1
    <2> HIDE DEF N, s
    <2>3. /\ N[k] \in Seq(Tasks) /\ Once(N[k])
          /\ \A u \in Tasks : In(u, N[k]) <=> u # x /\ In(u, s)
          /\ In(x, s) => Len(N[k]) = Len(s) - 1
          /\ \A value : Sorted(s, value) => Sorted(N[k], value)
        BY <2>2, WithoutIt
    <2> QED BY <2>1, <2>3 DEF s
<1>3. N \in [GenericLists -> Seq(Tasks)]
    BY <1>2 DEF GenericRemoved
<1> HIDE DEF N
<1>4. \A l, k \in GenericLists : \A t \in Tasks : In(t, N[l]) /\ In(t, N[k]) => l = k
    BY <1>2 DEF IsLists, OncePlaced
<1>5. IsLists(N)
    BY <1>2, <1>3, <1>4 DEF IsLists, OncePlaced
<1>6. \A k \in GenericLists : k # NoList
    BY ListNames
<1>7. \A k \in GenericLists : Len(xLists[k]) \in Nat
    BY DEF IsLists
<1>8. \A k \in GenericLists :
          Len(N[k]) = Len(xLists[k]) + (IF k = NoList THEN 1 ELSE 0) - (IF In(x, xLists[k]) THEN 1 ELSE 0)
    <2> TAKE k \in GenericLists
    <2>1. k # NoList /\ Len(xLists[k]) \in Nat
        BY <1>6, <1>7
    <2>2. CASE In(x, xLists[k])
        BY <1>2, <2>1, <2>2
    <2>3. CASE ~In(x, xLists[k])
        BY <1>2, <2>1, <2>3
    <2> QED BY <2>2, <2>3
<1>9. \A u \in Tasks : \A k \in GenericLists :
          In(u, N[k]) <=> IF u = x THEN k = NoList ELSE In(u, xLists[k])
    BY <1>2, <1>6
<1> QED BY <1>2, <1>5, <1>8, <1>9 DEF TakesTo, N

(* A task taken out of all lists of L goes to list l of M: in N the         *)
(* sequence of l is what Append or vListInsert made of it.                  *)
LEMMA PutIt ==
    ASSUME NEW L, NEW M, NEW N, NEW x \in Tasks, NEW l \in GenericLists,
           IsLists(L), TakesTo(L, M, x, NoList), NEW s \in Seq(Tasks), N = [M EXCEPT ![l] = s],
           Once(s), Len(s) = Len(M[l]) + 1,
           \A u \in Tasks : In(u, s) <=> u = x \/ In(u, M[l])
    PROVE  TakesTo(L, N, x, l)
<1>1. IsLists(M) /\ \A k \in GenericLists : k # NoList
    BY ListNames DEF TakesTo
<1>2. N \in [GenericLists -> Seq(Tasks)] /\ N[l] = s /\ \A k \in GenericLists \ {l} : N[k] = M[k]
    BY <1>1 DEF IsLists
<1>3. \A u \in Tasks : \A k \in GenericLists : In(u, M[k]) <=> u # x /\ In(u, L[k])
    BY <1>1 DEF TakesTo
<1>4. \A u \in Tasks : \A k \in GenericLists :
          In(u, N[k]) <=> IF u = x THEN k = l ELSE In(u, L[k])
    BY <1>2, <1>3
<1>5. \A k, j \in GenericLists : \A u \in Tasks : In(u, N[k]) /\ In(u, N[j]) => k = j
    BY <1>4 DEF IsLists, OncePlaced
<1>6. \A k \in GenericLists : Once(N[k])
    BY <1>1, <1>2 DEF IsLists, OncePlaced
<1>7. \A k \in GenericLists : \A value : k # l /\ Sorted(L[k], value) => Sorted(N[k], value)
    BY <1>1, <1>2 DEF TakesTo
<1>8. \A k \in GenericLists :
          Len(N[k]) = Len(L[k]) + (IF k = l THEN 1 ELSE 0) - (IF In(x, L[k]) THEN 1 ELSE 0)
    <2> TAKE k \in GenericLists
    <2>1. Len(M[k]) = Len(L[k]) - (IF In(x, L[k]) THEN 1 ELSE 0) /\ Len(L[k]) \in Nat
        <3>1. k # NoList /\ Len(L[k]) \in Nat
            BY <1>1 DEF IsLists
        <3>2. Len(M[k]) = Len(L[k]) + (IF k = NoList THEN 1 ELSE 0) - (IF In(x, L[k]) THEN 1 ELSE 0)
            BY DEF TakesTo
        <3> QED BY <3>1, <3>2
    <2>2. CASE k = l
        BY <1>2, <2>1, <2>2
    <2>3. CASE k # l
        BY <1>2, <2>1, <2>3
    <2> QED BY <2>2, <2>3
<1> QED BY <1>2, <1>4, <1>5, <1>6, <1>7, <1>8 DEF TakesTo, IsLists, OncePlaced

(* Removal and vListInsertEnd: the task is in the new list, last.           *)
LEMMA AppendedIt ==
    ASSUME IsLists(xLists), NEW x \in Tasks, NEW l \in GenericLists,
           xLists' = [GenericRemoved(x) EXCEPT ![l] = Append(@, x)]
    PROVE  TakesTo(xLists, xLists', x, l)
<1> DEFINE M == GenericRemoved(x)
<1>1. TakesTo(xLists, M, x, NoList)
    BY RemovedIt
<1>2. M \in [GenericLists -> Seq(Tasks)] /\ Once(M[l]) /\ ~In(x, M[l])
    BY <1>1, ListNames DEF TakesTo, IsLists, OncePlaced
<1> HIDE DEF M
<1> DEFINE s == Append(M[l], x)
<1>3. /\ s \in Seq(Tasks) /\ Once(s) /\ Len(s) = Len(M[l]) + 1
      /\ \A u \in Tasks : In(u, s) <=> u = x \/ In(u, M[l])
    BY <1>2, AppendIt
<1>4. xLists' = [M EXCEPT ![l] = s]
    BY DEF M
<1> HIDE DEF s
<1> QED BY <1>1, <1>3, <1>4, PutIt

(* A list that x neither leaves nor enters.                                 *)
LEMMA OtherListKept ==
    ASSUME NEW L, NEW N, NEW x, NEW l, IsLists(L), TakesTo(L, N, x, l),
           NEW k \in GenericLists, k # l, ~In(x, L[k])
    PROVE  Len(N[k]) = Len(L[k]) /\ (N[k] # <<>> <=> L[k] # <<>>)
<1>1. L[k] \in Seq(Tasks) /\ N[k] \in Seq(Tasks) /\ Len(L[k]) \in Nat
    BY DEF TakesTo, IsLists
<1>2. Len(N[k]) = Len(L[k]) + (IF k = l THEN 1 ELSE 0) - (IF In(x, L[k]) THEN 1 ELSE 0)
    BY DEF TakesTo
<1>3. Len(N[k]) = Len(L[k])
    BY <1>1, <1>2
<1> QED BY <1>1, <1>3, HeadIn

(* The delayed lists hold their tasks in the order of the wake times.       *)
InOrder(L, value) ==
    Sorted(L[DelayedTaskList], value) /\ Sorted(L[OverflowDelayedTaskList], value)

(* Ticks and portMAX_DELAY as numbers.                                      *)
LEMMA TickFacts ==
    /\ TickMod \in Nat /\ TickMod > 1 /\ Ticks = 0..(TickMod - 1) /\ portMAX_DELAY \in Ticks
    /\ Ticks \subseteq Nat /\ portMAX_DELAY = TickMod - 1
BY KernelAssumption DEF KernelAssumption, Ticks, portMAX_DELAY

(* prvAddCurrentTaskToDelayedList (tasks.c:2138-2161): the task is in the   *)
(* list for its wake time, and both delayed lists stay in the order of the  *)
(* wake times.                                                              *)
LEMMA DelayedIt ==
    ASSUME IsLists(xLists), xTimeToWake \in [Tasks -> Ticks],
           NEW t \in Tasks, NEW wake \in Ticks, prvAddCurrentTaskToDelayedList(t, wake)
    PROVE  /\ TakesTo(xLists, xLists', t, DelayedListFor(wake)) /\ xTimeToWake' \in [Tasks -> Ticks]
           /\ InOrder(xLists, xTimeToWake) => InOrder(xLists', xTimeToWake')
<1> DEFINE M == GenericRemoved(t)
           l == DelayedListFor(wake)
           v == [xTimeToWake EXCEPT ![t] = wake]
           r == InsertByValue(M[l], t, v)
<1>1. TakesTo(xLists, M, t, NoList) /\ l \in GenericLists
    BY RemovedIt, ListNames DEF DelayedListFor
<1>2. /\ M \in [GenericLists -> Seq(Tasks)] /\ \A k \in GenericLists : Once(M[k])
      /\ \A k \in GenericLists : ~In(t, M[k])
    BY <1>1, ListNames DEF TakesTo, IsLists, OncePlaced
<1>3. v \in [Tasks -> Nat] /\ v \in [Tasks -> Ticks] /\ xTimeToWake' = v
    BY TickFacts DEF prvAddCurrentTaskToDelayedList
<1>4. xLists' = [M EXCEPT ![l] = r]
    BY <1>3 DEF prvAddCurrentTaskToDelayedList
<1>5. l \in {DelayedTaskList, OverflowDelayedTaskList}
    BY DEF DelayedListFor
<1>6. ASSUME InOrder(xLists, xTimeToWake), NEW k \in {DelayedTaskList, OverflowDelayedTaskList}
      PROVE  Sorted(M[k], v)
    <2>1. Sorted(M[k], xTimeToWake) /\ k \in GenericLists
        BY <1>1, <1>6, ListNames DEF TakesTo, InOrder
    <2>2. \A n \in DOMAIN M[k] : v[M[k][n]] = xTimeToWake[M[k][n]]
        <3>1. \A n \in DOMAIN M[k] : M[k][n] # t /\ M[k][n] \in Tasks
            BY <1>2, <2>1 DEF In
        <3> HIDE DEF M
        <3> QED BY <3>1
    <2> HIDE DEF M, v
    <2> QED BY <2>1, <2>2 DEF Sorted
<1> HIDE DEF M, l, v
<1>7. /\ r \in Seq(Tasks) /\ Once(r) /\ (Sorted(M[l], v) => Sorted(r, v)) /\ Len(r) = Len(M[l]) + 1
      /\ \A u \in Tasks : In(u, r) <=> u = t \/ In(u, M[l])
    <2> DEFINE s == M[l]
    <2>1. s \in Seq(Tasks) /\ Once(s) /\ ~In(t, s)
        BY <1>1, <1>2, <1>5
    <2> HIDE DEF s
    <2> QED BY <1>3, <2>1, InsertIt DEF s
<1> HIDE DEF r
<1>8. TakesTo(xLists, xLists', t, l)
    BY <1>1, <1>4, <1>7, PutIt
<1>9. InOrder(xLists, xTimeToWake) => InOrder(xLists', v)
    <2>1. \A k \in GenericLists : xLists'[k] = IF k = l THEN r ELSE M[k]
        BY <1>2, <1>4
    <2> QED BY <1>5, <1>6, <1>7, <2>1, ListNames DEF InOrder
<1> QED BY <1>3, <1>8, <1>9 DEF l

(* uxListRemove of a task's event item.                                     *)
LEMMA EventRemovedIt ==
    ASSUME xEventLists \in [ItemLists -> Seq(Tasks)], \A e \in ItemLists : Once(xEventLists[e]),
           NEW x \in Tasks
    PROVE  /\ EventRemoved(x) \in [ItemLists -> Seq(Tasks)]
           /\ \A e \in ItemLists :
                /\ Once(EventRemoved(x)[e])
                /\ \A u \in Tasks : In(u, EventRemoved(x)[e]) <=> u # x /\ In(u, xEventLists[e])
                /\ xEventLists[e] = <<>> => EventRemoved(x)[e] = <<>>
<1>1. ASSUME NEW e \in ItemLists
      PROVE  /\ EventRemoved(x)[e] \in Seq(Tasks) /\ Once(EventRemoved(x)[e])
             /\ \A u \in Tasks : In(u, EventRemoved(x)[e]) <=> u # x /\ In(u, xEventLists[e])
             /\ xEventLists[e] = <<>> => EventRemoved(x)[e] = <<>>
    <2> DEFINE s == xEventLists[e]
    <2>1. s \in Seq(Tasks) /\ Once(s) /\ EventRemoved(x)[e] = Without(s, x)
        BY DEF EventRemoved
    <2>2. s = <<>> => Without(s, x) = <<>>
        BY DEF Without, In
    <2> HIDE DEF s
    <2>3. /\ Without(s, x) \in Seq(Tasks) /\ Once(Without(s, x))
          /\ \A u \in Tasks : In(u, Without(s, x)) <=> u # x /\ In(u, s)
        BY <2>1, WithoutIt
    <2> QED BY <2>1, <2>2, <2>3 DEF s
<1>2. DOMAIN EventRemoved(x) = ItemLists /\ EventRemoved(x) = [e \in ItemLists |-> EventRemoved(x)[e]]
    BY DEF EventRemoved
<1> QED BY <1>1, <1>2

(* The highest ready list with a task in it.                                *)
LEMMA TopReadyIt ==
    ASSUME IsLists(xLists), uxTopReadyPriority \in Priorities, xLists[0] # <<>>
    PROVE  /\ TopReady \in 0..uxTopReadyPriority /\ xLists[TopReady] # <<>>
           /\ \A q \in (TopReady + 1)..uxTopReadyPriority : xLists[q] = <<>>
<1> DEFINE top == uxTopReadyPriority
           S == {n \in 0..top : xLists[top - n] # <<>>}
<1>1. top \in Nat /\ 0..top \subseteq Priorities
    BY KernelAssumption DEF KernelAssumption, Priorities
<1>2. S \in SUBSET Nat /\ top \in S
    BY <1>1
<1> HIDE DEF S
<1>3. PICK n \in S : \A m \in S : n <= m
    <2>1. S # {}
        BY <1>2
    <2> QED BY <1>2, <2>1, LeastNumber
<1>4. n \in 0..top /\ xLists[top - n] # <<>>
    BY DEF S
<1>5. ASSUME NEW q \in (top - n + 1)..top PROVE xLists[q] = <<>>
    <2>1. top - q \in 0..top /\ top - q < n /\ top - (top - q) = q
        BY <1>1, <1>4
    <2>2. top - q \notin S
        BY <1>1, <1>3, <1>4, <2>1
    <2> QED BY <2>1, <2>2 DEF S
<1>6. top - n \in 0..top
    BY <1>1, <1>4
<1>7. \E p \in 0..top : xLists[p] # <<>> /\ \A q \in (p + 1)..top : xLists[q] = <<>>
    BY <1>4, <1>5, <1>6
<1> QED BY <1>7 DEF TopReady

(* listGET_OWNER_OF_NEXT_ENTRY takes the head of a list to its end.         *)
LEMMA RotatedIt ==
    ASSUME IsLists(xLists), NEW l \in GenericLists, xLists[l] # <<>>,
           xLists' = [xLists EXCEPT ![l] = Append(Tail(@), Head(@))]
    PROVE  TakesTo(xLists, xLists', Head(xLists[l]), l)
<1> DEFINE s == xLists[l]
           h == Head(s)
           r == Append(Tail(s), h)
<1>1. s \in Seq(Tasks) /\ Once(s) /\ s # <<>>
    BY DEF IsLists, OncePlaced
<1>2. xLists' \in [GenericLists -> Seq(Tasks)] /\ xLists'[l] = r /\ r \in Seq(Tasks)
      /\ \A k \in GenericLists \ {l} : xLists'[k] = xLists[k]
    <2>1. r \in Seq(Tasks)
        BY <1>1
    <2> QED BY <2>1 DEF IsLists
<1>3. \A u \in Tasks : \A k \in GenericLists : In(u, xLists[k]) => k = l \/ ~In(u, s)
    BY DEF IsLists, OncePlaced
<1> HIDE DEF s, h
<1>4. /\ Len(s) \in Nat \ {0} /\ DOMAIN s = 1..Len(s) /\ h = s[1] /\ h \in Tasks
      /\ Len(r) = Len(s) /\ DOMAIN r = 1..Len(s) /\ r[Len(s)] = h
      /\ \A n \in 1..(Len(s) - 1) : r[n] = s[n + 1]
    BY <1>1 DEF h
<1> HIDE DEF r
<1>5. \A n \in 1..Len(s) : n = Len(s) \/ n \in 1..(Len(s) - 1)
    BY <1>4
<1>6. Once(r)
    <2> SUFFICES ASSUME NEW m \in 1..Len(s), NEW n \in 1..Len(s), m < n, r[m] = r[n]
                 PROVE  FALSE
        BY <1>4 DEF Once
    <2>1. m \in 1..(Len(s) - 1) /\ m + 1 \in 1..Len(s) /\ r[m] = s[m + 1] /\ m + 1 # 1
        BY <1>4
    <2>2. CASE n = Len(s)
        <3>1. r[n] = h
            BY <1>4, <2>2
        <3>2. s[m + 1] = s[1]
            BY <1>4, <2>1, <3>1
        <3>3. 1 \in 1..Len(s)
            BY <1>4
        <3> QED BY <1>1, <1>4, <2>1, <3>2, <3>3 DEF Once
    <2>3. CASE n \in 1..(Len(s) - 1)
        <3>1. n + 1 \in 1..Len(s) /\ r[n] = s[n + 1] /\ m + 1 # n + 1
            BY <1>4, <2>3
        <3> QED BY <1>1, <1>4, <2>1, <3>1 DEF Once
    <2> QED BY <1>5, <2>2, <2>3
<1>7. \A u \in Tasks : In(u, r) <=> In(u, s)
    <2>1. ASSUME NEW n \in 1..Len(s) PROVE In(r[n], s) /\ In(s[n], r)
        <3>1. In(r[n], s)
            <4>1. CASE n = Len(s)
                BY <1>4, <4>1 DEF In
            <4>2. CASE n \in 1..(Len(s) - 1)
                <5>1. n + 1 \in 1..Len(s) /\ r[n] = s[n + 1]
                    BY <1>4, <4>2
                <5> QED BY <1>4, <5>1 DEF In
            <4> QED BY <1>5, <4>1, <4>2
        <3>2. In(s[n], r)
            <4>1. CASE n = 1
                BY <1>4, <4>1 DEF In
            <4>2. CASE n # 1
                <5>1. n - 1 \in 1..(Len(s) - 1) /\ n - 1 \in 1..Len(s) /\ r[n - 1] = s[n]
                    BY <1>4, <4>2
                <5> QED BY <1>4, <5>1 DEF In
            <4> QED BY <4>1, <4>2
        <3> QED BY <3>1, <3>2
    <2> QED BY <1>4, <2>1 DEF In
<1>8. In(h, s)
    BY <1>4 DEF In
<1>9. \A u \in Tasks : \A k \in GenericLists :
          In(u, xLists'[k]) <=> IF u = h THEN k = l ELSE In(u, xLists[k])
    BY <1>2, <1>3, <1>7, <1>8 DEF s
<1>10. OncePlaced(xLists')
    <2>1. \A k \in GenericLists : Once(xLists'[k])
        BY <1>2, <1>6 DEF IsLists, OncePlaced
    <2> QED BY <1>9, <2>1 DEF IsLists, OncePlaced
<1>11. \A k \in GenericLists :
          Len(xLists'[k]) = Len(xLists[k]) + (IF k = l THEN 1 ELSE 0) - (IF In(h, xLists[k]) THEN 1 ELSE 0)
    <2> TAKE k \in GenericLists
    <2>1. Len(xLists[k]) \in Nat
        BY DEF IsLists
    <2>2. CASE k = l
        BY <1>2, <1>4, <1>8, <2>1, <2>2 DEF s
    <2>3. CASE k # l
        <3>1. ~In(h, xLists[k])
            BY <1>3, <1>4, <1>8, <2>3
        <3> QED BY <1>2, <2>1, <2>3, <3>1
    <2> QED BY <2>2, <2>3
<1> QED BY <1>2, <1>9, <1>10, <1>11 DEF TakesTo, IsLists, h, s

(* Tick counts one turn ahead or behind.                                    *)
LEMMA ModTick ==
    ASSUME NEW a \in Int, -TickMod < a, a < 2 * TickMod
    PROVE  /\ a % TickMod \in Ticks
           /\ a % TickMod = IF a < 0 THEN a + TickMod ELSE IF a < TickMod THEN a ELSE a - TickMod
<1> DEFINE M == TickMod
<1>1. M \in Nat /\ M > 1
    BY TickFacts
<1>2. a % M \in 0..(M - 1) /\ a = M * (a \div M) + (a % M) /\ a \div M \in Int
    BY <1>1
<1>3. a \div M \in {-1, 0, 1}
    <2> DEFINE q == a \div M
    <2>1. q \in Int /\ M * q > a - M /\ M * q <= a
        BY <1>1, <1>2
    <2> HIDE DEF q
    <2>2. q >= 2 => M * q >= 2 * M
        BY <1>1, <2>1
    <2>3. q <= -2 => M * q <= -2 * M
        BY <1>1, <2>1
    <2> QED BY <1>1, <2>1, <2>2, <2>3
<1> HIDE DEF M
<1>4. a % M = a + M \/ a % M = a \/ a % M = a - M
    BY <1>1, <1>2, <1>3
<1>5. TickMod = M
    BY DEF M
<1> QED BY <1>1, <1>2, <1>4, <1>5, TickFacts
=============================================================================
