--------------------------- MODULE TimerListProofs ---------------------------
(***************************************************************************)
(* Theorems about TimerList, for any finite set of addresses, any span and *)
(* any range of the clock: types, the shape of the list, that a walk from  *)
(* head meets every timer, the order of the list, and that it implements   *)
(* the abstract set of timers.                                             *)
(***************************************************************************)
EXTENDS TimerList, Recursion, FiniteSetTheorems, TLAPS

\* Ranks that grow along next: there is no cycle, hence nothing beside the
\* chain that begins at head.
Ranked(rank) ==
    \A n \in Linked : next[n] # NULL => rank[n] < rank[next[n]]
OrderInv == \E rank \in [Nodes -> Nat] : Ranked(rank)

\* As long as the clock only advances no deadline is further away than Span.
DueInv == steady => \A n \in live : expire[n] <= now + Span

IInv == TypeOK /\ WellFormed /\ OrderInv

-----------------------------------------------------------------------------
(* Order.                                                                  *)

\* The list's pointers, as the proofs use them.
LEMMA Shape ==
    ASSUME IInv
    PROVE  /\ NULL \notin Nodes /\ Linked \subseteq Nodes
           /\ live \subseteq Nodes
           /\ \A n \in Linked :
                /\ next[n] # n /\ prev[n] # n
                /\ next[n] # NULL => next[n] # prev[n]
                /\ prev[n] # NULL => next[n] # prev[n]
                /\ n # head => prev[n] # NULL
                /\ n # tail => next[n] # NULL
<1>1. NULL \notin Nodes /\ Linked \subseteq Nodes /\ live \subseteq Nodes
  BY TimerListAssumption DEF IInv, TypeOK, Linked
<1>2. PICK rank \in [Nodes -> Nat] : Ranked(rank)
  BY DEF IInv, OrderInv
<1>3. ASSUME NEW n \in Linked
      PROVE  /\ next[n] # n /\ prev[n] # n
             /\ next[n] # NULL => next[n] # prev[n]
             /\ prev[n] # NULL => next[n] # prev[n]
             /\ n # head => prev[n] # NULL
             /\ n # tail => next[n] # NULL
  <2>1. next[n] # NULL =>
            /\ next[n] \in Linked /\ prev[next[n]] = n
            /\ rank[n] < rank[next[n]]
    BY <1>2 DEF IInv, WellFormed, Ranked
  <2>2. prev[n] # NULL =>
            /\ prev[n] \in Linked /\ next[prev[n]] = n
            /\ rank[prev[n]] < rank[n]
    BY <1>1, <1>2 DEF IInv, WellFormed, Ranked
  <2>3. \A m \in Linked : rank[m] \in Nat
    BY <1>1, <1>2
  <2>4. next[n] # n /\ prev[n] # n
    BY <1>1, <2>1, <2>2, <2>3
  <2>5. /\ next[n] # NULL => next[n] # prev[n]
        /\ prev[n] # NULL => next[n] # prev[n]
    BY <1>1, <2>1, <2>2, <2>3
  <2>6. /\ n # head => prev[n] # NULL
        /\ n # tail => next[n] # NULL
    BY DEF IInv, WellFormed
  <2> QED
    BY <2>4, <2>5, <2>6
<1> QED
  BY <1>1, <1>3

\* What holds at head and is handed on along next holds in the whole list.
LEMMA FromHead ==
    ASSUME IInv, NEW S \in SUBSET Linked, head \in S,
           \A n \in S : next[n] # NULL => next[n] \in S
    PROVE  S = Linked
<1> SUFFICES ASSUME NEW x \in Linked, x \notin S PROVE FALSE
  OBVIOUS
<1>1. PICK rank \in [Nodes -> Nat] : Ranked(rank)
  BY DEF IInv, OrderInv
<1>2. NULL \notin Nodes /\ Linked \subseteq Nodes
  BY Shape
<1> DEFINE Ranks == {rank[n] : n \in Linked \ S}
<1>3. Ranks \subseteq Nat /\ Ranks # {}
  BY <1>1, <1>2
<1>4. PICK r \in Ranks : \A q \in Ranks : r <= q
  BY <1>3, LeastNumber
<1>5. PICK n \in Linked \ S : r = rank[n]
  OBVIOUS
<1>6. \A m \in Linked \ S : rank[n] <= rank[m]
  BY <1>4, <1>5
<1>7. n # head
  BY <1>5
<1>8. prev[n] \in Linked /\ next[prev[n]] = n
  BY <1>5, <1>7, Shape DEF IInv, WellFormed
<1>9. rank[prev[n]] < rank[n]
  BY <1>1, <1>2, <1>5, <1>8 DEF Ranked
<1>10. prev[n] \in S
  BY <1>1, <1>2, <1>5, <1>6, <1>8, <1>9
<1>11. n \in S
  BY <1>2, <1>5, <1>8, <1>10
<1> QED
  BY <1>5, <1>11

\* A head without a successor is alone.
LEMMA HeadAlone ==
    ASSUME IInv, head # NULL, next[head] = NULL
    PROVE  Linked = {head} /\ tail = head
<1>1. head \in Linked
  BY DEF IInv, WellFormed
<1>2. {head} = Linked
  BY <1>1, FromHead
<1> QED
  BY <1>1, <1>2 DEF IInv, WellFormed

-----------------------------------------------------------------------------
(* The walk from head.                                                     *)

\* What the recursive definition of Chain says.
LEMMA ChainEquation ==
    ASSUME IInv
    PROVE  /\ Cardinality(Nodes) \in Nat
           /\ Chain \in [0..Cardinality(Nodes) -> Pointers]
           /\ Chain[0] = head
           /\ \A k \in 1..Cardinality(Nodes) :
                Chain[k] = IF Chain[k - 1] = NULL THEN NULL
                           ELSE next[Chain[k - 1]]
<1> DEFINE N == Cardinality(Nodes)
           Follow(p) == IF p = NULL THEN NULL ELSE next[p]
           f == [a \in (1..N) \X Pointers |-> Follow(a[2])]
<1>1. N \in Nat
  BY TimerListAssumption, FS_CardinalityType
<1>2. \A p \in Pointers : Follow(p) \in Pointers
  BY DEF IInv, TypeOK, Pointers
<1>3. head \in Pointers /\ f \in [(1..N) \X Pointers -> Pointers]
  BY <1>2 DEF IInv, TypeOK
<1> HIDE DEF N
<1>4. PICK g : Run(g, Pointers, head, f, N)
  <2> HIDE DEF f
  <2> QED
    BY <1>1, <1>3, RunExists
<1>5. \A k \in 1..N : g[k] = Follow(g[k - 1])
  <2>1. \A k \in 1..N : k - 1 \in 0..N
    BY <1>1
  <2>2. \A k \in 1..N : <<k, g[k - 1]>> \in (1..N) \X Pointers
    BY <1>4, <2>1 DEF Run
  <2>3. \A a \in (1..N) \X Pointers : f[a] = Follow(a[2])
    OBVIOUS
  <2> HIDE DEF f, Follow
  <2> QED
    BY <1>4, <2>2, <2>3 DEF Run
<1>6. g = [k \in 0..N |-> IF k = 0 THEN head
                           ELSE IF g[k - 1] = NULL THEN NULL
                           ELSE next[g[k - 1]]]
  BY <1>1, <1>4, <1>5 DEF Run
<1>7. Chain = [k \in 0..N |-> IF k = 0 THEN head
                              ELSE IF Chain[k - 1] = NULL THEN NULL
                              ELSE next[Chain[k - 1]]]
  BY <1>6, Zenon DEF Chain, N
<1>8. /\ Chain[0] = head
      /\ \A k \in 1..N : Chain[k] = IF Chain[k - 1] = NULL THEN NULL
                                    ELSE next[Chain[k - 1]]
  BY <1>1, <1>7
<1>9. \A k \in 0..N : Chain[k] \in Pointers
  <2> DEFINE Bad == {k \in 0..N : Chain[k] \notin Pointers}
  <2> SUFFICES ASSUME Bad # {} PROVE FALSE
    OBVIOUS
  <2>1. Bad \in SUBSET Nat
    BY <1>1
  <2>2. PICK k \in Bad : \A m \in Bad : k <= m
    BY <2>1, LeastNumber
  <2>3. k # 0
    BY <1>3, <1>8
  <2>4. k \in 1..N /\ k - 1 \in 0..N /\ k - 1 \notin Bad
    BY <1>1, <2>2, <2>3
  <2> QED
    BY <1>8, <2>4 DEF IInv, TypeOK, Pointers
<1>10. Chain \in [0..N -> Pointers]
  BY <1>7, <1>9
<1> QED
  BY <1>1, <1>8, <1>10 DEF N

\* The walk ends: it visits each node once at most, as ranks grow along it.
LEMMA ChainEnds ==
    ASSUME IInv
    PROVE  Chain[Cardinality(Nodes)] = NULL
<1> DEFINE N == Cardinality(Nodes)
<1> SUFFICES ASSUME Chain[N] # NULL PROVE FALSE
  OBVIOUS
<1>1. /\ N \in Nat /\ Chain \in [0..N -> Pointers] /\ Chain[0] = head
      /\ \A k \in 1..N : Chain[k] = IF Chain[k - 1] = NULL THEN NULL
                                    ELSE next[Chain[k - 1]]
  BY ChainEquation
<1>2. PICK rank \in [Nodes -> Nat] : Ranked(rank)
  BY DEF IInv, OrderInv
<1>3. NULL \notin Nodes /\ Linked \subseteq Nodes
  BY Shape
<1> HIDE DEF N
\* Nobody comes back from NULL.
<1>4. \A k \in 0..N : Chain[k] # NULL
  <2> DEFINE Bad == {d \in 0..N : Chain[N - d] = NULL}
  <2>1. Bad = {}
    <3> SUFFICES ASSUME Bad # {} PROVE FALSE
      OBVIOUS
    <3>1. Bad \in SUBSET Nat
      BY <1>1
    <3>2. PICK d \in Bad : \A m \in Bad : d <= m
      BY <3>1, LeastNumber
    <3>3. d \in 1..N /\ d - 1 \in 0..N /\ d - 1 \notin Bad
      <4>1. N - 0 = N /\ d \in 0..N /\ d # 0
        BY <1>1, <3>2
      <4>2. d \in 1..N /\ d - 1 \in 0..N /\ ~(d <= d - 1)
        BY <1>1, <4>1
      <4> QED
        BY <3>2, <4>2
    <3>4. N - (d - 1) \in 1..N /\ (N - (d - 1)) - 1 = N - d
      BY <1>1, <3>3
    <3>5. Chain[N - (d - 1)] = NULL
      BY <1>1, <3>2, <3>4
    <3> QED
      BY <3>3, <3>5
  <2> SUFFICES ASSUME NEW k \in 0..N, Chain[k] = NULL PROVE FALSE
    OBVIOUS
  <2>2. N - k \in 0..N /\ N - (N - k) = k
    BY <1>1
  <2> QED
    BY <2>1, <2>2
<1>5. \A k \in 0..N : Chain[k] \in Linked
  <2> DEFINE Bad == {k \in 0..N : Chain[k] \notin Linked}
  <2> SUFFICES ASSUME Bad # {} PROVE FALSE
    OBVIOUS
  <2>1. Bad \in SUBSET Nat
    BY <1>1
  <2>2. PICK k \in Bad : \A m \in Bad : k <= m
    BY <2>1, LeastNumber
  <2>3. k # 0
    BY <1>1, <1>4 DEF IInv, WellFormed
  <2>4. k \in 1..N /\ k - 1 \in 0..N /\ Chain[k - 1] \in Linked
    BY <1>1, <2>2, <2>3
  <2>5. Chain[k] = next[Chain[k - 1]] /\ Chain[k] # NULL
    BY <1>1, <1>4, <2>4
  <2> QED
    BY <2>2, <2>4, <2>5 DEF IInv, WellFormed
<1>6. \A k \in 1..N : rank[Chain[k - 1]] < rank[Chain[k]]
  <2> SUFFICES ASSUME NEW k \in 1..N
               PROVE  rank[Chain[k - 1]] < rank[Chain[k]]
    OBVIOUS
  <2>1. k - 1 \in 0..N /\ k \in 0..N
    BY <1>1
  <2> QED
    BY <1>1, <1>2, <1>4, <1>5, <2>1 DEF Ranked
<1>7. \A k \in 0..N : rank[Chain[k]] \in Nat
  BY <1>2, <1>3, <1>5
<1>8. \A k, j \in 0..N : k < j => rank[Chain[k]] < rank[Chain[j]]
  <2> SUFFICES ASSUME NEW k \in 0..N,
                      \E j \in 0..N : k < j /\ ~(rank[Chain[k]] < rank[Chain[j]])
               PROVE  FALSE
    OBVIOUS
  <2> DEFINE Bad == {j \in 0..N : k < j /\ ~(rank[Chain[k]] < rank[Chain[j]])}
  <2>1. Bad \in SUBSET Nat /\ Bad # {}
    BY <1>1
  <2>2. PICK j \in Bad : \A m \in Bad : j <= m
    BY <2>1, LeastNumber
  <2>3. /\ j \in 1..N /\ j - 1 \in 0..N /\ j - 1 \notin Bad
        /\ k = j - 1 \/ k < j - 1
    BY <1>1, <2>1, <2>2
  <2>4. rank[Chain[j - 1]] < rank[Chain[j]]
    BY <1>6, <2>3
  <2>5. k < j - 1 => rank[Chain[k]] < rank[Chain[j - 1]]
    BY <2>3
  <2>6. rank[Chain[k]] < rank[Chain[j]]
    BY <1>7, <2>2, <2>3, <2>4, <2>5
  <2> QED
    BY <2>2, <2>6
<1>9. PICK k, j \in 0..N : k # j /\ Chain[k] = Chain[j]
  <2>1. Chain \in [0..N -> Nodes]
    BY <1>1, <1>3, <1>5
  <2>2. IsFiniteSet(0..N) /\ Cardinality(0..N) = N + 1
    BY <1>1, FS_Interval
  <2>3. IsFiniteSet(Nodes) /\ Cardinality(Nodes) < Cardinality(0..N)
    BY <1>1, <2>2, TimerListAssumption DEF N
  <2> QED
    BY <2>1, <2>2, <2>3, FS_PigeonHole
<1>10. k < j \/ j < k
  BY <1>9
<1> QED
  BY <1>7, <1>8, <1>9, <1>10

LEMMA WalkMeetsAll == IInv => AllReachable
<1> SUFFICES ASSUME IInv PROVE AllReachable
  OBVIOUS
<1> DEFINE N == Cardinality(Nodes)
           Met == {Chain[k] : k \in 0..N}
<1>1. /\ N \in Nat /\ Chain[0] = head
      /\ \A k \in 1..N : Chain[k] = IF Chain[k - 1] = NULL THEN NULL
                                    ELSE next[Chain[k - 1]]
      /\ Chain[N] = NULL
  BY ChainEquation, ChainEnds
<1>2. NULL \notin Linked
  BY Shape
<1> HIDE DEF N
<1>3. \A k \in 0..N : Chain[k] \in Linked \cup {NULL}
  <2> DEFINE Bad == {k \in 0..N : Chain[k] \notin Linked \cup {NULL}}
  <2> SUFFICES ASSUME Bad # {} PROVE FALSE
    OBVIOUS
  <2>1. Bad \in SUBSET Nat
    BY <1>1
  <2>2. PICK k \in Bad : \A m \in Bad : k <= m
    BY <2>1, LeastNumber
  <2>3. k # 0
    BY <1>1 DEF IInv, WellFormed
  <2>4. k \in 1..N /\ Chain[k - 1] \in Linked \cup {NULL}
    BY <1>1, <2>2, <2>3
  <2> QED
    BY <1>1, <2>2, <2>4 DEF IInv, WellFormed
<1>4. NULL \in Met
  <2>1. N \in 0..N
    BY <1>1
  <2> QED
    BY <1>1, <2>1
<1>5. Linked \subseteq Met
  <2>1. CASE head = NULL
    BY <2>1 DEF IInv, WellFormed
  <2>2. CASE head # NULL
    <3> DEFINE S == Met \ {NULL}
    <3>1. S \in SUBSET Linked
      BY <1>3
    <3>2. head \in S
      BY <1>1, <2>2
    <3>3. ASSUME NEW p \in S, next[p] # NULL PROVE next[p] \in S
      <4>1. PICK k \in 0..N : p = Chain[k]
        BY <3>3
      <4>2. k # N
        BY <1>1, <3>3, <4>1
      <4>3. k + 1 \in 1..N /\ k + 1 \in 0..N /\ (k + 1) - 1 = k
        BY <1>1, <4>2
      <4>4. Chain[k + 1] = next[p]
        BY <1>1, <3>3, <4>1, <4>3
      <4> QED
        BY <3>3, <4>3, <4>4
    <3> HIDE DEF S
    <3>4. S = Linked
      BY <3>1, <3>2, <3>3, FromHead
    <3> QED
      BY <3>4 DEF S
  <2> QED
    BY <2>1, <2>2
<1> QED
  BY <1>3, <1>4, <1>5 DEF AllReachable, N

-----------------------------------------------------------------------------
(* The invariant.                                                          *)

LEMMA InitInv == Init => IInv
<1> SUFFICES ASSUME Init PROVE IInv
  OBVIOUS
<1>1. TypeOK
  BY TimerListAssumption DEF Init, TypeOK, Pointers, Times
<1>2. Linked = {}
  BY DEF Init, Linked
<1>3. WellFormed
  BY <1>2 DEF Init, WellFormed
<1>4. Ranked([n \in Nodes |-> 0])
  BY <1>2 DEF Ranked
<1>5. OrderInv
  BY <1>4 DEF OrderInv
<1> QED
  BY <1>1, <1>3, <1>5 DEF IInv

LEMMA TypeStep == IInv /\ [Next]_vars => TypeOK'
<1> SUFFICES ASSUME IInv, [Next]_vars PROVE TypeOK'
  OBVIOUS
<1>1. TypeOK /\ WellFormed
  BY DEF IInv
<1>2. /\ NULL \notin Nodes
      /\ \A t \in 0..MaxTime : t + Span \in Times
      /\ 0 \in Times /\ 0 \in 0..MaxTime
  BY TimerListAssumption DEF Times
<1>3. /\ head # NULL => head \in Nodes /\ next[head] \in Pointers
      /\ tmp # NULL => tmp \in Nodes /\ next[tmp] \in Pointers
      /\ \A n \in Nodes : next[n] # NULL => /\ next[n] \in Nodes
                                            /\ next[next[n]] \in Pointers
  BY <1>1 DEF TypeOK, Pointers
<1>4. ASSUME NEW n \in Nodes, AddTimer(n) PROVE TypeOK'
  <2>1. live' \in SUBSET Nodes /\ expire' \in [Nodes -> Times]
    BY <1>1, <1>2, <1>4 DEF AddTimer, AddFirst, AddFront, AddWalk, NewTimer,
       Put, TypeOK
  <2>2. UNCHANGED clock
    BY <1>4 DEF AddTimer, AddFirst, AddFront, AddWalk, NewTimer
  <2>3. CASE AddFirst(n)
    BY <1>1, <2>1, <2>2, <2>3 DEF AddFirst, Put, TypeOK, Pointers, loopVars,
       clock
  <2>4. CASE AddFront(n)
    BY <1>1, <2>1, <2>2, <2>4 DEF AddFront, Put, TypeOK, Pointers, loopVars,
       clock
  <2>5. CASE AddWalk(n)
    BY <1>1, <1>3, <2>1, <2>2, <2>5 DEF AddWalk, BeginWalk, Put, TypeOK,
       Pointers, clock
  <2> QED
    BY <1>4, <2>3, <2>4, <2>5 DEF AddTimer
<1>5. ASSUME NEW n \in Nodes, AdjustTimer(n) PROVE TypeOK'
  <2>1. live' \in SUBSET Nodes /\ expire' \in [Nodes -> Times]
    BY <1>1, <1>2, <1>5 DEF AdjustTimer, AdjustStay, AdjustHead, AdjustInner,
       Prolong, Put, TypeOK
  <2>2. UNCHANGED clock
    BY <1>5 DEF AdjustTimer, AdjustStay, AdjustHead, AdjustInner, Prolong
  <2>3. CASE AdjustStay(n)
    BY <1>1, <2>1, <2>2, <2>3 DEF AdjustStay, TypeOK, listVars, loopVars,
       clock
  <2>4. CASE AdjustHead(n)
    BY <1>1, <1>3, <2>1, <2>2, <2>4 DEF AdjustHead, BeginWalk, Put, TypeOK,
       Pointers, clock
  <2>5. CASE AdjustInner(n)
    BY <1>1, <1>3, <2>1, <2>2, <2>5 DEF AdjustInner, BeginWalk, Put, TypeOK,
       Pointers, clock
  <2> QED
    BY <1>5, <2>3, <2>4, <2>5 DEF AdjustTimer
<1>6. ASSUME NEW n \in Nodes, DelTimer(n) PROVE TypeOK'
  <2>1. /\ live' \in SUBSET Nodes /\ expire' \in [Nodes -> Times]
        /\ UNCHANGED <<pc, loopVars, clock>>
    BY <1>1, <1>2, <1>6, TimerListAssumption DEF DelTimer, DelOnly, DelHead,
       DelTail, DelInner, Delete, Free, Put, TypeOK, Times
  <2>2. head' \in Pointers /\ tail' \in Pointers
    BY <1>1, <1>6 DEF DelTimer, DelOnly, DelHead, DelTail, DelInner, TypeOK,
       Pointers
  <2>3. next' \in [Nodes -> Pointers]
    BY <1>1, <1>6 DEF DelTimer, DelOnly, DelHead, DelTail, DelInner, TypeOK,
       Pointers, Put
  <2>4. prev' \in [Nodes -> Pointers]
    BY <1>1, <1>6 DEF DelTimer, DelOnly, DelHead, DelTail, DelInner, TypeOK,
       Pointers, Put
  <2> QED
    BY <1>1, <2>1, <2>2, <2>3, <2>4 DEF TypeOK, loopVars, clock
<1>7. CASE Walk
  <2>1. UNCHANGED <<expire, head, live, clock>>
    BY <1>7 DEF Walk, WalkOn, WalkLink, WalkEnd, listVars
  <2>2. CASE WalkOn
    BY <1>1, <1>3, <2>1, <2>2 DEF WalkOn, TypeOK, listVars, clock
  <2>3. CASE WalkLink
    <3>1. /\ next' \in [Nodes -> Pointers]
          /\ prev' \in [Nodes -> Pointers]
          /\ tail' \in Pointers
      BY <1>1, <2>3 DEF WalkLink, Put, TypeOK, Pointers
    <3>2. /\ pc' = "idle" /\ cur' = 0
          /\ timer' = NULL /\ before' = NULL /\ tmp' = NULL
      BY <2>3 DEF WalkLink, EndLoop
    <3> QED
      BY <1>1, <1>2, <2>1, <3>1, <3>2 DEF TypeOK, Pointers, clock
  <2>4. CASE WalkEnd
    <3>1. /\ next' \in [Nodes -> Pointers]
          /\ prev' \in [Nodes -> Pointers]
          /\ tail' \in Pointers
      BY <1>1, <2>4 DEF WalkEnd, Put, TypeOK, Pointers
    <3>2. /\ pc' = "idle" /\ cur' = 0
          /\ timer' = NULL /\ before' = NULL /\ tmp' = NULL
      BY <2>4 DEF WalkEnd, EndLoop
    <3> QED
      BY <1>1, <1>2, <2>1, <3>1, <3>2 DEF TypeOK, Pointers, clock
  <2> QED
    BY <1>7, <2>2, <2>3, <2>4 DEF Walk
<1>8. CASE Tick
  <2>1. CASE TickBegin
    BY <1>1, <2>1 DEF TickBegin, TypeOK, listVars, clock
  <2>2. CASE TickFire
    <3>1. live' \in SUBSET Nodes /\ expire' \in [Nodes -> Times]
      BY <1>1, <1>2, <2>2 DEF TickFire, Free, Put, TypeOK
    <3>2. /\ next' \in [Nodes -> Pointers]
          /\ prev' \in [Nodes -> Pointers]
      BY <1>1, <2>2 DEF TickFire, Put, PutIf, TypeOK, Pointers
    <3>3. head' \in Pointers /\ tmp' \in Pointers
      BY <1>3, <2>2 DEF TickFire
    <3> QED
      BY <1>1, <2>2, <3>1, <3>2, <3>3 DEF TickFire, TypeOK, clock
  <2>3. CASE TickEnd
    BY <1>1, <2>3, TimerListAssumption DEF TickEnd, EndLoop, TypeOK, Pointers,
       listVars, clock
  <2> QED
    BY <1>8, <2>1, <2>2, <2>3 DEF Tick
<1>9. CASE ClockAdvances \/ ClockSetBack
  <2>1. now' \in 0..MaxTime
    BY <1>1, <1>9, TimerListAssumption DEF ClockAdvances, ClockSetBack, TypeOK
  <2>2. steady' \in BOOLEAN
    BY <1>1, <1>9 DEF ClockAdvances, ClockSetBack, TypeOK
  <2>3. UNCHANGED <<listVars, expire, pc, loopVars>>
    BY <1>9 DEF ClockAdvances, ClockSetBack
  <2> QED
    BY <1>1, <2>1, <2>2, <2>3 DEF TypeOK, listVars, loopVars
<1>10. CASE UNCHANGED vars
  BY <1>1, <1>10 DEF TypeOK, vars, listVars, loopVars, clock
<1> QED
  BY <1>4, <1>5, <1>6, <1>7, <1>8, <1>9, <1>10 DEF Next

\* The parts of WellFormed: the ends, a node, and the loops.
Ends ==
    /\ head = NULL <=> Linked = {}
    /\ head # NULL =>
        /\ head \in Linked /\ prev[head] = NULL
        /\ tail \in Linked /\ next[tail] = NULL
Node(n) ==
    /\ next[n] # NULL => next[n] \in Linked /\ prev[next[n]] = n
    /\ prev[n] # NULL => prev[n] \in Linked /\ next[prev[n]] = n
    /\ next[n] = NULL => n = tail
    /\ prev[n] = NULL => n = head
Loops ==
    /\ pc = "walk" =>
        /\ timer \in live
        /\ before \in Linked
        /\ tmp = next[before]
    /\ pc = "tick" => tmp = head

LEMMA Parts == WellFormed <=> Ends /\ (\A n \in Linked : Node(n)) /\ Loops
  BY DEF WellFormed, Ends, Node, Loops

LEMMA PartsPrimed ==
    Ends' /\ (\A n \in Linked' : Node(n)') /\ Loops' => WellFormed'
  BY DEF WellFormed, Ends, Node, Loops

LEMMA AddStep ==
    ASSUME IInv, NEW n \in Nodes, AddTimer(n)
    PROVE  WellFormed' /\ OrderInv'
<1>1. /\ next \in [Nodes -> Pointers] /\ prev \in [Nodes -> Pointers]
      /\ NULL \notin Nodes
  BY TimerListAssumption DEF IInv, TypeOK
<1>2. Ends /\ (\A m \in Linked : Node(m)) /\ Loops
  BY Parts DEF IInv
<1>3. /\ pc = "idle" /\ n \notin live
      /\ live' = live \cup {n} /\ Linked = live /\ Linked \subseteq Nodes
  BY Shape DEF AddTimer, AddFirst, AddFront, AddWalk, NewTimer, Linked
<1>4. PICK rank \in [Nodes -> Nat] : Ranked(rank)
  BY DEF IInv, OrderInv
<1>5. CASE AddFirst(n)
  <2>1. /\ head' = n /\ tail' = n /\ pc' = "idle" /\ Linked = {}
        /\ next'[n] = NULL /\ prev'[n] = NULL
    BY <1>1, <1>2, <1>3, <1>5 DEF AddFirst, Put, Ends
  <2>2. Linked' = {n}
    BY <1>3, <2>1 DEF Linked
  <2>3. WellFormed'
    BY <1>1, <2>1, <2>2, PartsPrimed DEF Ends, Node, Loops
  <2>4. Ranked(rank)'
    BY <2>1, <2>2 DEF Ranked
  <2> QED
    BY <2>3, <2>4 DEF OrderInv
<1>6. CASE AddFront(n)
  <2>1. /\ head # NULL /\ head' = n /\ tail' = tail /\ pc' = "idle"
        /\ head \in Linked /\ head # n /\ tail \in Linked
    BY <1>2, <1>3, <1>6 DEF AddFront, Ends
  <2>2. /\ \A m \in Nodes : next'[m] = IF m = n THEN head ELSE next[m]
        /\ \A m \in Nodes : prev'[m] = IF m = head THEN n
                                       ELSE IF m = n THEN NULL ELSE prev[m]
    BY <1>1, <1>6 DEF AddFront, Put
  <2>3. Linked' = Linked \cup {n}
    BY <1>3, <2>1 DEF Linked
  <2>4. Ends'
    BY <1>1, <1>2, <1>3, <2>1, <2>2, <2>3 DEF Ends
  <2>5. \A m \in Linked' : Node(m)'
    BY <1>1, <1>2, <1>3, <2>1, <2>2, <2>3 DEF Ends, Node
  <2>6. Loops'
    BY <2>1 DEF Loops
  <2> DEFINE rank1 == [m \in Nodes |-> IF m = n THEN 0 ELSE rank[m] + 1]
  <2>7. rank1 \in [Nodes -> Nat]
    BY <1>4
  <2>8. Ranked(rank1)'
    <3> SUFFICES ASSUME NEW m \in Linked', next'[m] # NULL
                 PROVE  rank1[m] < rank1[next'[m]]
      BY DEF Ranked
    <3>1. CASE m = n
      BY <1>1, <1>3, <1>4, <2>1, <2>2, <3>1
    <3>2. CASE m # n
      <4>1. /\ m \in Linked /\ next'[m] = next[m] /\ next[m] \in Linked
            /\ rank[m] < rank[next[m]]
        BY <1>2, <1>3, <1>4, <2>2, <2>3, <3>2 DEF Node, Ranked
      <4>2. next[m] # n
        BY <1>3, <4>1
      <4> QED
        BY <1>3, <1>4, <3>2, <4>1, <4>2
    <3> QED
      BY <3>1, <3>2
  <2>9. OrderInv'
    BY <2>7, <2>8 DEF OrderInv
  <2> QED
    BY <2>4, <2>5, <2>6, <2>9, PartsPrimed
<1>7. CASE AddWalk(n)
  <2>1. /\ head # NULL /\ head' = head /\ tail' = tail /\ pc' = "walk"
        /\ timer' = n /\ before' = head /\ tmp' = next[head]
        /\ head \in Linked /\ head # n /\ tail \in Linked
    BY <1>2, <1>3, <1>7 DEF AddWalk, BeginWalk, Ends
  <2>2. /\ \A m \in Nodes : next'[m] = IF m = n THEN NULL ELSE next[m]
        /\ \A m \in Nodes : prev'[m] = IF m = n THEN NULL ELSE prev[m]
    BY <1>1, <1>7 DEF AddWalk, Put
  <2>3. Linked' = Linked
    BY <1>3, <2>1 DEF Linked
  <2>4. Ends'
    BY <1>1, <1>2, <1>3, <2>1, <2>2, <2>3 DEF Ends
  <2>5. \A m \in Linked' : Node(m)'
    BY <1>1, <1>2, <1>3, <2>1, <2>2, <2>3 DEF Ends, Node
  <2>6. Loops'
    BY <1>3, <2>1, <2>2, <2>3 DEF Loops
  <2>7. Ranked(rank)'
    BY <1>3, <1>4, <2>2, <2>3 DEF Ranked
  <2>8. OrderInv'
    BY <1>4, <2>7 DEF OrderInv
  <2> QED
    BY <2>4, <2>5, <2>6, <2>8, PartsPrimed
<1> QED
  BY <1>5, <1>6, <1>7 DEF AddTimer

LEMMA AdjustStep ==
    ASSUME IInv, NEW n \in Nodes, AdjustTimer(n)
    PROVE  WellFormed' /\ OrderInv'
<1>1. /\ next \in [Nodes -> Pointers] /\ prev \in [Nodes -> Pointers]
      /\ NULL \notin Nodes
  BY TimerListAssumption DEF IInv, TypeOK
<1>2. Ends /\ (\A m \in Linked : Node(m)) /\ Loops
  BY Parts DEF IInv
<1>3. /\ pc = "idle" /\ n \in Linked /\ live' = live
      /\ Linked = live /\ Linked \subseteq Nodes
  BY Shape DEF AdjustTimer, AdjustStay, AdjustHead, AdjustInner, Prolong,
     Linked
<1>4. PICK rank \in [Nodes -> Nat] : Ranked(rank)
  BY DEF IInv, OrderInv
<1>5. /\ next[n] # n /\ prev[n] # n
      /\ next[n] # NULL => next[n] # prev[n] /\ next[n] \in Linked
      /\ prev[n] # NULL => next[n] # prev[n] /\ prev[n] \in Linked
      /\ n # head => prev[n] # NULL
  BY <1>2, <1>3, Shape DEF Node
<1>6. CASE AdjustStay(n)
  <2>1. UNCHANGED <<listVars, pc, loopVars>>
    BY <1>6 DEF AdjustStay
  <2>2. WellFormed'
    BY <2>1 DEF IInv, WellFormed, Linked, listVars, loopVars
  <2>3. OrderInv'
    BY <2>1 DEF IInv, OrderInv, Ranked, Linked, listVars, loopVars
  <2> QED
    BY <2>2, <2>3
<1>7. CASE AdjustHead(n)
  <2> DEFINE a == next[n]
  <2>1. /\ n = head /\ a # NULL /\ a \in Linked /\ a # n
        /\ head' = a /\ tail' = tail /\ pc' = "walk"
        /\ timer' = n /\ before' = a /\ tmp' = next[a]
        /\ tail # n /\ tail \in Linked /\ prev[n] = NULL
    BY <1>1, <1>2, <1>3, <1>5, <1>7 DEF AdjustHead, BeginWalk, Ends
  <2>2. /\ \A m \in Nodes : next'[m] = IF m = n THEN NULL ELSE next[m]
        /\ \A m \in Nodes : prev'[m] = IF m = a THEN NULL ELSE prev[m]
    BY <1>1, <1>7 DEF AdjustHead, Put
  <2>3. Linked' = Linked \ {n}
    BY <1>3, <2>1 DEF Linked
  <2> HIDE DEF a
  <2>4. Ends'
    BY <1>1, <1>2, <1>3, <2>1, <2>2, <2>3 DEF Ends
  <2>5. \A m \in Linked' : Node(m)'
    BY <1>1, <1>2, <1>3, <1>5, <2>1, <2>2, <2>3 DEF Ends, Node, a
  <2>6. Loops'
    BY <1>3, <2>1, <2>2, <2>3 DEF Loops
  <2>7. Ranked(rank)'
    BY <1>3, <1>4, <2>2, <2>3 DEF Ranked
  <2>8. OrderInv'
    BY <1>4, <2>7 DEF OrderInv
  <2> QED
    BY <2>4, <2>5, <2>6, <2>8, PartsPrimed
<1>8. CASE AdjustInner(n)
  <2> DEFINE a == next[n]
             b == prev[n]
  <2>1. /\ n # head /\ a # NULL /\ a \in Linked /\ a # n
        /\ b # NULL /\ b \in Linked /\ b # n /\ a # b
        /\ head' = head /\ tail' = tail /\ pc' = "walk"
        /\ timer' = n /\ before' = a /\ tmp' = next[a]
    BY <1>5, <1>8 DEF AdjustInner, BeginWalk
  <2>2. /\ head # NULL /\ head \in Linked /\ prev[head] = NULL
        /\ tail \in Linked /\ next[tail] = NULL /\ tail # n
        /\ head # a
    <3>1. prev[a] = n /\ a # NULL /\ n # NULL
      BY <1>1, <1>2, <1>3, <2>1 DEF Node
    <3> QED
      BY <1>2, <1>3, <2>1, <3>1 DEF Ends
  <2>3. /\ \A m \in Nodes : next'[m] = IF m = b THEN a ELSE next[m]
        /\ \A m \in Nodes : prev'[m] = IF m = a THEN b ELSE prev[m]
    BY <1>1, <1>8 DEF AdjustInner, Put
  <2>4. Linked' = Linked \ {n}
    BY <1>3, <2>1 DEF Linked
  <2>5. next[b] = n /\ prev[a] = n
    BY <1>2, <1>3, <2>1 DEF Node
  <2>6. rank[b] < rank[n] /\ rank[n] < rank[a]
    BY <1>1, <1>3, <1>4, <2>1, <2>5 DEF Ranked
  <2>7. \A m \in Linked : /\ next[m] = n => m = b
                          /\ prev[m] = n => m = a
    BY <1>1, <1>2, <1>3 DEF Node
  <2> HIDE DEF a, b
  <2>8. Ends'
    BY <1>1, <1>2, <1>3, <2>1, <2>2, <2>3, <2>4, <2>5 DEF Ends
  <2>9. \A m \in Linked' : Node(m)'
    BY <1>1, <1>2, <1>3, <2>1, <2>2, <2>3, <2>4, <2>5, <2>7 DEF Node
  <2>10. Loops'
    BY <1>3, <2>1, <2>3, <2>4 DEF Loops
  <2>11. Ranked(rank)'
    BY <1>3, <1>4, <2>1, <2>3, <2>4, <2>6 DEF Ranked
  <2>12. OrderInv'
    BY <1>4, <2>11 DEF OrderInv
  <2> QED
    BY <2>8, <2>9, <2>10, <2>12, PartsPrimed
<1> QED
  BY <1>6, <1>7, <1>8 DEF AdjustTimer

LEMMA DelStep ==
    ASSUME IInv, NEW n \in Nodes, DelTimer(n)
    PROVE  WellFormed' /\ OrderInv'
<1>1. /\ next \in [Nodes -> Pointers] /\ prev \in [Nodes -> Pointers]
      /\ NULL \notin Nodes
  BY TimerListAssumption DEF IInv, TypeOK
<1>2. Ends /\ (\A m \in Linked : Node(m)) /\ Loops
  BY Parts DEF IInv
<1>3. /\ pc = "idle" /\ pc' = "idle" /\ n \in Linked
      /\ live' = live \ {n}
      /\ Linked = live /\ Linked \subseteq Nodes
  BY Shape DEF DelTimer, DelOnly, DelHead, DelTail, DelInner, Delete, Free,
     Linked
<1>4. PICK rank \in [Nodes -> Nat] : Ranked(rank)
  BY DEF IInv, OrderInv
<1>5. /\ next[n] # n /\ prev[n] # n
      /\ next[n] # NULL => /\ next[n] # prev[n] /\ next[n] \in Linked
                           /\ prev[next[n]] = n /\ rank[n] < rank[next[n]]
      /\ prev[n] # NULL => /\ next[n] # prev[n] /\ prev[n] \in Linked
                           /\ next[prev[n]] = n /\ rank[prev[n]] < rank[n]
      /\ n # head => prev[n] # NULL
      /\ n # tail => next[n] # NULL
  BY <1>1, <1>2, <1>3, <1>4, Shape DEF Node, Ranked
<1>6. /\ Linked' = Linked \ {n}
      /\ head # NULL /\ head \in Linked /\ prev[head] = NULL
      /\ tail \in Linked /\ next[tail] = NULL
      /\ \A m \in Linked : /\ next[m] = n => m = prev[n]
                           /\ prev[m] = n => m = next[n]
  BY <1>1, <1>2, <1>3 DEF Linked, Ends, Node
<1>7. Loops'
  BY <1>3 DEF Loops
<1>8. CASE DelOnly(n)
  <2>1. head' = NULL /\ n = head /\ n = tail
    BY <1>8 DEF DelOnly
  <2>2. Linked = {n}
    BY <1>6, <2>1, HeadAlone
  <2>3. Linked' = {}
    BY <1>6, <2>2
  <2>4. WellFormed'
    BY <1>7, <2>1, <2>3, PartsPrimed DEF Ends
  <2>5. Ranked(rank)'
    BY <2>3 DEF Ranked
  <2> QED
    BY <1>4, <2>4, <2>5 DEF OrderInv
<1>9. CASE DelHead(n)
  <2> DEFINE a == next[n]
  <2>1. /\ n = head /\ n # tail /\ a # NULL /\ a \in Linked /\ a # n
        /\ head' = a /\ tail' = tail /\ prev[n] = NULL
    BY <1>5, <1>6, <1>9 DEF DelHead
  <2>2. /\ \A m \in Nodes : next'[m] = IF m = n THEN NULL ELSE next[m]
        /\ \A m \in Nodes : prev'[m] = IF m = a THEN NULL ELSE prev[m]
    BY <1>1, <1>9 DEF DelHead, Put
  <2> HIDE DEF a
  <2>3. Ends'
    BY <1>1, <1>3, <1>6, <2>1, <2>2 DEF Ends
  <2>4. \A m \in Linked' : Node(m)'
    BY <1>1, <1>2, <1>3, <1>5, <1>6, <2>1, <2>2 DEF Node, a
  <2>5. Ranked(rank)'
    BY <1>3, <1>4, <1>6, <2>2 DEF Ranked
  <2> QED
    BY <1>4, <1>7, <2>3, <2>4, <2>5, PartsPrimed DEF OrderInv
<1>10. CASE DelTail(n)
  <2> DEFINE b == prev[n]
  <2>1. /\ n # head /\ n = tail /\ b # NULL /\ b \in Linked /\ b # n
        /\ head' = head /\ tail' = b /\ next[n] = NULL
    BY <1>5, <1>6, <1>10 DEF DelTail
  <2>2. /\ \A m \in Nodes : next'[m] = IF m = b THEN NULL ELSE next[m]
        /\ \A m \in Nodes : prev'[m] = IF m = n THEN NULL ELSE prev[m]
    BY <1>1, <1>10 DEF DelTail, Put
  <2> HIDE DEF b
  <2>3. Ends'
    BY <1>1, <1>3, <1>6, <2>1, <2>2 DEF Ends
  <2>4. \A m \in Linked' : Node(m)'
    BY <1>1, <1>2, <1>3, <1>5, <1>6, <2>1, <2>2 DEF Node, b
  <2>5. Ranked(rank)'
    BY <1>3, <1>4, <1>6, <2>2 DEF Ranked
  <2> QED
    BY <1>4, <1>7, <2>3, <2>4, <2>5, PartsPrimed DEF OrderInv
<1>11. CASE DelInner(n)
  <2> DEFINE a == next[n]
             b == prev[n]
  <2>1. /\ n # head /\ n # tail /\ head' = head /\ tail' = tail
        /\ a # NULL /\ a \in Linked /\ a # n /\ prev[a] = n
        /\ b # NULL /\ b \in Linked /\ b # n /\ next[b] = n /\ a # b
        /\ rank[b] < rank[n] /\ rank[n] < rank[a]
        /\ \A m \in Linked : /\ next[m] = n => m = b
                             /\ prev[m] = n => m = a
    BY <1>5, <1>6, <1>11 DEF DelInner
  <2>2. /\ \A m \in Nodes : next'[m] = IF m = n THEN NULL
                                       ELSE IF m = b THEN a ELSE next[m]
        /\ \A m \in Nodes : prev'[m] = IF m = n THEN NULL
                                       ELSE IF m = a THEN b ELSE prev[m]
    BY <1>1, <1>11 DEF DelInner, Put
  <2> HIDE DEF a, b
  <2>3. Ends'
    BY <1>1, <1>3, <1>6, <2>1, <2>2 DEF Ends
  <2>4. \A m \in Linked' : Node(m)'
    BY <1>1, <1>2, <1>3, <1>6, <2>1, <2>2 DEF Node
  <2>5. Ranked(rank)'
    BY <1>3, <1>4, <1>6, <2>1, <2>2 DEF Ranked
  <2> QED
    BY <1>4, <1>7, <2>3, <2>4, <2>5, PartsPrimed DEF OrderInv
<1> QED
  BY <1>8, <1>9, <1>10, <1>11 DEF DelTimer

LEMMA WalkStep ==
    ASSUME IInv, Walk
    PROVE  WellFormed' /\ OrderInv'
<1>1. /\ next \in [Nodes -> Pointers] /\ prev \in [Nodes -> Pointers]
      /\ NULL \notin Nodes
  BY TimerListAssumption DEF IInv, TypeOK
<1>2. Ends /\ (\A m \in Linked : Node(m)) /\ Loops
  BY Parts DEF IInv
<1>3. /\ pc = "walk" /\ live' = live
      /\ Linked = live \ {timer} /\ Linked \subseteq Nodes /\ timer \in Nodes
  BY Shape, <1>2 DEF Walk, WalkOn, WalkLink, WalkEnd, Linked, listVars, Loops
<1>4. PICK rank \in [Nodes -> Nat] : Ranked(rank)
  BY DEF IInv, OrderInv
<1>5. /\ timer \in live /\ timer \notin Linked
      /\ before \in Linked /\ tmp = next[before]
      /\ tmp # NULL => /\ tmp \in Linked /\ prev[tmp] = before
                       /\ tmp # before
      /\ tmp = NULL => before = tail
      /\ head # NULL /\ head \in Linked /\ prev[head] = NULL
      /\ tail \in Linked /\ next[tail] = NULL
  BY <1>2, <1>3, Shape DEF Ends, Node, Loops
<1>6. CASE WalkOn
  <2>1. /\ tmp # NULL /\ before' = tmp /\ tmp' = next[tmp]
        /\ UNCHANGED <<head, tail, next, prev, live, pc, timer>>
    BY <1>6 DEF WalkOn, listVars
  <2>2. Linked' = Linked
    BY <2>1 DEF Linked
  <2>3. WellFormed'
    BY <1>2, <1>3, <1>5, <2>1, <2>2, PartsPrimed DEF Ends, Node, Loops
  <2>4. OrderInv'
    BY <2>1, <2>2 DEF IInv, OrderInv, Ranked
  <2> QED
    BY <2>3, <2>4
<1>5a. PICK t \in Nodes, b \in Nodes : t = timer /\ b = before
  BY <1>3, <1>5
<1> DEFINE rank1 == [m \in Nodes |-> IF m = t THEN 2 * rank[b] + 1
                                                  ELSE 2 * rank[m]]
<1>7. /\ rank1 \in [Nodes -> Nat]
      /\ rank1[t] = 2 * rank[b] + 1
      /\ \A m \in Linked : rank1[m] = 2 * rank[m] /\ rank[m] \in Nat
  <2>1. rank[b] \in Nat /\ \A m \in Nodes : rank[m] \in Nat
    BY <1>5a, <1>3, <1>4, <1>5
  <2> QED
    BY <1>5a, <1>3, <1>5, <2>1
<1> HIDE DEF rank1
<1>8. CASE WalkLink
  <2>1. /\ tmp # NULL /\ pc' = "idle" /\ head' = head /\ tail' = tail
    BY <1>5a, <1>8 DEF WalkLink, EndLoop
  <2>2. /\ \A m \in Nodes : next'[m] = IF m = t THEN tmp
                                       ELSE IF m = b THEN t
                                       ELSE next[m]
        /\ \A m \in Nodes : prev'[m] = IF m = t THEN b
                                       ELSE IF m = tmp THEN t
                                       ELSE prev[m]
    BY <1>5a, <1>1, <1>8 DEF WalkLink, Put
  <2>3. Linked' = Linked \cup {t}
    BY <1>5a, <1>3, <1>5, <2>1 DEF Linked
  <2>4. \A m \in Linked : /\ next[m] = tmp => m = b
                          /\ prev[m] = b => m = tmp
    BY <1>5a, <1>1, <1>2, <1>3, <1>5, <2>1 DEF Node
  <2>5. Ends'
    BY <1>5a, <1>1, <1>3, <1>5, <2>1, <2>2, <2>3 DEF Ends
  <2>6. \A m \in Linked' : Node(m)'
    <3>1. Node(t)'
      BY <1>5a, <1>1, <1>3, <1>5, <2>1, <2>2, <2>3 DEF Node
    <3>2. ASSUME NEW m \in Linked PROVE Node(m)'
      <4>1. Node(m) /\ m # t /\ m # NULL
        BY <1>5a, <1>1, <1>2, <1>3
      <4>2. next'[m] # NULL => next'[m] \in Linked' /\ prev'[next'[m]] = m
        BY <1>5a, <1>1, <1>3, <1>5, <2>1, <2>2, <2>3, <2>4, <4>1 DEF Node
      <4>3. prev'[m] # NULL => prev'[m] \in Linked' /\ next'[prev'[m]] = m
        BY <1>5a, <1>1, <1>3, <1>5, <2>1, <2>2, <2>3, <2>4, <4>1 DEF Node
      <4>4. /\ next'[m] = NULL => m = tail'
            /\ prev'[m] = NULL => m = head'
        BY <1>5a, <1>1, <1>3, <1>5, <2>1, <2>2, <4>1 DEF Node
      <4> QED
        BY <4>2, <4>3, <4>4 DEF Node
    <3> QED
      BY <2>3, <3>1, <3>2
  <2>7. Loops'
    BY <2>1 DEF Loops
  <2>8. Ranked(rank1)'
    <3>1. rank[b] < rank[tmp]
      BY <1>5a, <1>1, <1>4, <1>5, <2>1 DEF Ranked
    <3>2. rank1[t] < rank1[tmp] /\ rank1[b] < rank1[t]
      BY <1>5a, <1>5, <1>7, <2>1, <3>1
    <3>3. ASSUME NEW m \in Linked, m # b, next[m] # NULL
          PROVE  rank1[m] < rank1[next[m]]
      <4>1. next[m] \in Linked /\ rank[m] < rank[next[m]]
        BY <1>2, <1>4, <3>3 DEF Node, Ranked
      <4> QED
        BY <1>7, <3>3, <4>1
    <3> QED
      BY <1>5a, <1>3, <2>2, <2>3, <3>2, <3>3 DEF Ranked
  <2>9. OrderInv'
    BY <1>7, <2>8 DEF OrderInv
  <2> QED
    BY <2>5, <2>6, <2>7, <2>9, PartsPrimed
<1>9. CASE WalkEnd
  <2>1. /\ tmp = NULL /\ b = tail /\ next[b] = NULL
        /\ pc' = "idle" /\ head' = head /\ tail' = t
    BY <1>5a, <1>5, <1>9 DEF WalkEnd, EndLoop
  <2>2. /\ \A m \in Nodes : next'[m] = IF m = t THEN NULL
                                       ELSE IF m = b THEN t
                                       ELSE next[m]
        /\ \A m \in Nodes : prev'[m] = IF m = t THEN b ELSE prev[m]
    BY <1>5a, <1>1, <1>9 DEF WalkEnd, Put
  <2>3. Linked' = Linked \cup {t}
    BY <1>5a, <1>3, <1>5, <2>1 DEF Linked
  <2>4. \A m \in Linked : prev[m] # b
    BY <1>5a, <1>1, <1>2, <1>3, <1>5, <2>1 DEF Node
  <2>5. Ends'
    BY <1>5a, <1>1, <1>3, <1>5, <2>1, <2>2, <2>3 DEF Ends
  <2>6. \A m \in Linked' : Node(m)'
    <3>1. Node(t)'
      BY <1>5a, <1>1, <1>3, <1>5, <2>1, <2>2, <2>3 DEF Node
    <3>2. ASSUME NEW m \in Linked PROVE Node(m)'
      <4>1. Node(m) /\ m # t /\ m # NULL
        BY <1>5a, <1>1, <1>2, <1>3
      <4>2. next'[m] # NULL => next'[m] \in Linked' /\ prev'[next'[m]] = m
        BY <1>5a, <1>1, <1>3, <1>5, <2>1, <2>2, <2>3, <2>4, <4>1 DEF Node
      <4>3. prev'[m] # NULL => prev'[m] \in Linked' /\ next'[prev'[m]] = m
        BY <1>5a, <1>1, <1>3, <1>5, <2>1, <2>2, <2>3, <2>4, <4>1 DEF Node
      <4>4. /\ next'[m] = NULL => m = tail'
            /\ prev'[m] = NULL => m = head'
        BY <1>5a, <1>1, <1>3, <1>5, <2>1, <2>2, <4>1 DEF Node
      <4> QED
        BY <4>2, <4>3, <4>4 DEF Node
    <3> QED
      BY <2>3, <3>1, <3>2
  <2>7. Loops'
    BY <2>1 DEF Loops
  <2>8. Ranked(rank1)'
    <3>1. rank1[b] < rank1[t]
      BY <1>5a, <1>5, <1>7
    <3>2. ASSUME NEW m \in Linked, m # b, next[m] # NULL
          PROVE  rank1[m] < rank1[next[m]]
      <4>1. next[m] \in Linked /\ rank[m] < rank[next[m]]
        BY <1>2, <1>4, <3>2 DEF Node, Ranked
      <4> QED
        BY <1>7, <3>2, <4>1
    <3> QED
      BY <1>5a, <1>3, <2>2, <2>3, <3>1, <3>2 DEF Ranked
  <2>9. OrderInv'
    BY <1>7, <2>8 DEF OrderInv
  <2> QED
    BY <2>5, <2>6, <2>7, <2>9, PartsPrimed
<1> QED
  BY <1>6, <1>8, <1>9 DEF Walk

LEMMA TickStep ==
    ASSUME IInv, Tick
    PROVE  WellFormed' /\ OrderInv'
<1>1. /\ next \in [Nodes -> Pointers] /\ prev \in [Nodes -> Pointers]
      /\ NULL \notin Nodes
  BY TimerListAssumption DEF IInv, TypeOK
<1>2. Ends /\ (\A m \in Linked : Node(m)) /\ Loops
  BY Parts DEF IInv
<1>3. /\ pc \in {"idle", "tick"} /\ pc' \in {"idle", "tick"}
      /\ Linked = live /\ Linked \subseteq Nodes
  BY Shape DEF Tick, TickBegin, TickFire, TickEnd, EndLoop, Linked
<1>4. PICK rank \in [Nodes -> Nat] : Ranked(rank)
  BY DEF IInv, OrderInv
<1>5. CASE TickBegin \/ TickEnd
  <2>1. UNCHANGED <<head, tail, next, prev, live>>
    BY <1>5 DEF TickBegin, TickEnd, listVars
  <2>2. Linked' = Linked
    BY <1>3, <2>1 DEF Linked
  <2>3. pc' = "tick" => tmp' = head'
    BY <1>5, <2>1 DEF TickBegin, TickEnd, EndLoop
  <2>4. WellFormed'
    BY <1>2, <1>3, <2>1, <2>2, <2>3, PartsPrimed DEF Ends, Node, Loops
  <2>5. Ranked(rank)'
    BY <1>4, <2>1, <2>2 DEF Ranked
  <2> QED
    BY <1>4, <2>4, <2>5 DEF OrderInv
<1>6. CASE TickFire
  <2> DEFINE n == head
             a == next[n]
  <2>1. /\ n # NULL /\ tmp = n /\ n \in Linked /\ pc' = "tick"
        /\ head' = a /\ tail' = tail /\ tmp' = a
        /\ live' = live \ {n} /\ prev[n] = NULL
        /\ tail \in Linked /\ next[tail] = NULL
    BY <1>2, <1>6 DEF TickFire, Free, Ends, Loops
  <2>2. /\ a # n
        /\ a # NULL => a \in Linked /\ prev[a] = n
        /\ \A m \in Linked : prev[m] = n => m = a
    BY <1>1, <1>2, <1>3, <2>1, Shape DEF Node
  <2>3. \A m \in Nodes : next'[m] = IF m = n THEN NULL ELSE next[m]
    BY <1>1, <1>6, <2>1 DEF TickFire, Put
  <2>4. Linked' = Linked \ {n}
    BY <1>3, <2>1 DEF Linked
  <2>5. Loops'
    BY <2>1 DEF Loops
  <2>6. Ranked(rank)'
    BY <1>3, <1>4, <2>3, <2>4 DEF Ranked
  <2>7. CASE a = NULL
    <3>1. Linked' = {}
      BY <2>1, <2>4, <2>7, HeadAlone
    <3> QED
      BY <1>4, <2>1, <2>5, <2>6, <2>7, <3>1, PartsPrimed DEF Ends, OrderInv
  <2>8. CASE a # NULL
    <3>1. \A m \in Nodes : prev'[m] = IF m = a THEN NULL ELSE prev[m]
      BY <1>1, <1>6, <2>1, <2>8 DEF TickFire, Put, PutIf
    <3>2. tail # n
      BY <2>1, <2>8
    <3> HIDE DEF n, a
    <3>3. Ends'
      BY <1>1, <1>3, <2>1, <2>2, <2>3, <2>4, <2>8, <3>1, <3>2 DEF Ends
    <3>4. \A m \in Linked' : Node(m)'
      BY <1>1, <1>2, <1>3, <2>1, <2>2, <2>3, <2>4, <2>8, <3>1 DEF Node, a, n
    <3> QED
      BY <1>4, <2>5, <2>6, <3>3, <3>4, PartsPrimed DEF OrderInv
  <2> QED
    BY <2>7, <2>8
<1> QED
  BY <1>5, <1>6 DEF Tick

LEMMA StepInv == IInv /\ [Next]_vars => IInv'
<1> SUFFICES ASSUME IInv, [Next]_vars PROVE WellFormed' /\ OrderInv'
  BY TypeStep DEF IInv
<1>1. CASE UNCHANGED <<listVars, pc, loopVars>>
  BY <1>1 DEF IInv, WellFormed, OrderInv, Ranked, Linked, listVars, loopVars
<1> QED
  BY <1>1, AddStep, AdjustStep, DelStep, WalkStep, TickStep
     DEF Next, ClockAdvances, ClockSetBack, vars

LEMMA Invariance == Safety => []IInv
  BY InitInv, StepInv, PTL DEF Safety

-----------------------------------------------------------------------------
(* Theorems about the shape.                                               *)

\* Every variable keeps its type, and deadlines stay within Span of the clock.
THEOREM TypeCorrect == Safety => []TypeOK
<1>1. IInv => TypeOK
  BY DEF IInv
<1> QED
  BY <1>1, Invariance, PTL

\* The list stays whole, whatever timers are added, moved, removed and fired:
\* both directions agree, and nothing that is followed has been deleted.
THEOREM ListIsWellFormed == Safety => []WellFormed
<1>1. IInv => WellFormed
  BY DEF IInv
<1> QED
  BY <1>1, Invariance, PTL

\* No timer is lost on a detached chain: following next from head one comes
\* past every timer there is, so tick() gets to each connection in the end.
THEOREM EveryTimerIsReached == Safety => []AllReachable
  BY WalkMeetsAll, Invariance, PTL

-----------------------------------------------------------------------------
(* The order of the list.  AdjustStay keeps a timer that has a successor   *)
(* only if its new deadline lies before the successor's: DueInv says that  *)
(* this does not happen unless the clock was set back.                     *)

LEMMA DueStep == IInv /\ DueInv /\ [Next]_vars => DueInv'
<1> SUFFICES ASSUME IInv, DueInv, [Next]_vars, steady'
             PROVE  \A m \in live' : expire'[m] <= now' + Span
  BY DEF DueInv
<1>1. /\ expire \in [Nodes -> Times] /\ now \in Nat /\ Span \in Nat
      /\ live \subseteq Nodes
      /\ \A m \in Nodes : expire[m] \in Nat
  BY TimerListAssumption DEF IInv, TypeOK, Times
<1>2. CASE UNCHANGED vars
  BY <1>2 DEF DueInv, vars, listVars, clock
<1>3. ASSUME NEW n \in Nodes, AddTimer(n) \/ AdjustTimer(n) PROVE DueInv'
  <2>1. /\ live' \subseteq live \cup {n}
        /\ expire' = Put(expire, n, now + Span)
        /\ UNCHANGED clock
    BY <1>3 DEF AddTimer, AddFirst, AddFront, AddWalk, NewTimer, AdjustTimer,
       AdjustStay, AdjustHead, AdjustInner, Prolong
  <2> QED
    BY <1>1, <2>1 DEF DueInv, Put, clock
<1>4. ASSUME NEW n \in Nodes, DelTimer(n) PROVE DueInv'
  <2>1. /\ live' = live \ {n} /\ expire' = Put(expire, n, 0)
        /\ UNCHANGED clock
    BY <1>4 DEF DelTimer, DelOnly, DelHead, DelTail, DelInner, Delete, Free
  <2> QED
    BY <1>1, <2>1 DEF DueInv, Put, clock
<1>5. CASE Walk
  BY <1>5 DEF Walk, WalkOn, WalkLink, WalkEnd, DueInv, listVars, clock
<1>6. CASE TickBegin \/ TickEnd
  BY <1>6 DEF TickBegin, TickEnd, DueInv, listVars, clock
<1>7. CASE TickFire
  <2>1. /\ live' = live \ {tmp} /\ expire' = Put(expire, tmp, 0)
        /\ UNCHANGED clock
    BY <1>7 DEF TickFire, Free
  <2> QED
    BY <1>1, <2>1 DEF DueInv, Put, clock
<1>8. CASE ClockAdvances
  BY <1>1, <1>8 DEF ClockAdvances, DueInv, listVars
<1>9. CASE ClockSetBack
  BY <1>9 DEF ClockSetBack
<1> QED
  BY <1>2, <1>3, <1>4, <1>5, <1>6, <1>7, <1>8, <1>9 DEF Next, Tick, DueInv

LEMMA SortedStep ==
    ASSUME IInv, DueInv, SortedWhileSteady, IInv', [Next]_vars
    PROVE  SortedWhileSteady'
<1> SUFFICES ASSUME steady'
             PROVE  /\ \A m \in Linked' :
                         next'[m] # NULL => expire'[m] <= expire'[next'[m]]
                    /\ pc' = "walk" => expire'[before'] <= expire'[timer']
  BY DEF SortedWhileSteady
<1> DEFINE Goal == /\ \A m \in Linked' : next'[m] # NULL =>
                                           expire'[m] <= expire'[next'[m]]
                   /\ pc' = "walk" => expire'[before'] <= expire'[timer']
<1>1. /\ next \in [Nodes -> Pointers] /\ expire \in [Nodes -> Times]
      /\ NULL \notin Nodes /\ now \in Nat /\ Span \in Nat
      /\ \A m \in Nodes : expire[m] \in Nat
  BY TimerListAssumption DEF IInv, TypeOK, Times
<1>2. Ends /\ (\A m \in Linked : Node(m)) /\ Loops
  BY Parts DEF IInv
<1>3. Linked \subseteq live /\ live \subseteq Nodes
  BY Shape DEF Linked
<1>4. steady
  BY DEF Next, AddTimer, AddFirst, AddFront, AddWalk, NewTimer, AdjustTimer,
     AdjustStay, AdjustHead, AdjustInner, Prolong, DelTimer, DelOnly, DelHead,
     DelTail, DelInner, Delete, Walk, WalkOn, WalkLink, WalkEnd, Tick,
     TickBegin, TickFire, TickEnd, ClockAdvances, ClockSetBack, vars, clock
<1>5. /\ \A m \in Linked : next[m] # NULL => expire[m] <= expire[next[m]]
      /\ pc = "walk" => expire[before] <= expire[timer]
      /\ \A m \in live : expire[m] <= now + Span
  BY <1>4 DEF SortedWhileSteady, DueInv
<1>6. \A m \in Linked' : next'[m] # NULL => next'[m] \in Linked'
  BY DEF IInv, WellFormed
<1>7. CASE UNCHANGED <<listVars, expire, pc, loopVars>>
  BY <1>5, <1>7 DEF Linked, listVars, loopVars
<1>8. ASSUME NEW n \in Nodes, AddTimer(n) PROVE Goal
  <2>1. /\ pc = "idle" /\ n \notin live /\ live' = live \cup {n}
        /\ Linked = live
        /\ \A m \in Nodes : expire'[m] = IF m = n THEN now + Span
                                         ELSE expire[m]
    BY <1>1, <1>8 DEF AddTimer, AddFirst, AddFront, AddWalk, NewTimer, Linked,
       Put
  <2>2. CASE AddFirst(n)
    <3>1. Linked = {} /\ pc' = "idle" /\ next'[n] = NULL
      BY <1>1, <1>2, <2>1, <2>2 DEF AddFirst, Put, Ends
    <3> QED
      BY <2>1, <3>1 DEF Linked
  <2>3. CASE AddFront(n)
    <3>1. head \in live /\ now + Span < expire[head]
      BY <1>2, <2>1, <2>3 DEF AddFront, Ends
    <3> QED
      BY <1>1, <1>3, <1>5, <3>1
  <2>4. CASE AddWalk(n)
    <3>1. /\ pc' = "walk" /\ timer' = n /\ before' = head /\ head \in Linked
          /\ \A m \in Linked : next'[m] = next[m]
      BY <1>1, <1>2, <1>3, <2>1, <2>4 DEF AddWalk, BeginWalk, Put, Ends
    <3>2. Linked' = Linked /\ n \notin Linked
      BY <2>1, <3>1 DEF Linked
    <3>3. expire'[head] <= expire'[n]
      <4>1. expire'[n] >= expire[head] /\ expire'[head] = expire[head]
        BY <1>3, <2>1, <2>4, <3>1 DEF AddWalk
      <4> QED
        BY <1>1, <1>3, <2>1, <3>1, <4>1
    <3> QED
      BY <1>3, <1>5, <1>6, <2>1, <3>1, <3>2, <3>3
  <2> QED
    BY <1>8, <2>2, <2>3, <2>4 DEF AddTimer
<1>9. ASSUME NEW n \in Nodes, AdjustTimer(n) PROVE Goal
  <2>1. /\ pc = "idle" /\ n \in live /\ live' = live /\ Linked = live
        /\ \A m \in Nodes : expire'[m] = IF m = n THEN now + Span
                                         ELSE expire[m]
    BY <1>1, <1>9 DEF AdjustTimer, AdjustStay, AdjustHead, AdjustInner,
       Prolong, Linked, Put
  <2>2. next[n] # NULL => next[n] \in Linked /\ next[n] # n
    BY <1>2, <2>1, Shape DEF Node
  <2>3. CASE AdjustStay(n)
    <3>1. UNCHANGED <<listVars, pc>>
      BY <2>3 DEF AdjustStay
    <3>2. next[n] = NULL
      BY <1>1, <1>3, <1>5, <2>1, <2>2, <2>3 DEF AdjustStay
    <3>3. Linked' = Linked
      BY <2>1, <3>1 DEF Linked, listVars
    <3>4. \A m \in Linked : expire'[m] <= now + Span
      BY <1>1, <1>3, <1>5, <2>1
    <3>5. ASSUME NEW m \in Linked, next[m] # NULL
          PROVE  expire'[m] <= expire'[next[m]]
      <4>1. m # n /\ next[m] \in Linked
        BY <1>2, <3>2, <3>5 DEF Node
      <4> QED
        BY <1>3, <1>5, <2>1, <3>4, <3>5, <4>1
    <3> QED
      BY <2>1, <3>1, <3>3, <3>5 DEF listVars
  <2>4. CASE AdjustHead(n)
    <3>1. /\ pc' = "walk" /\ timer' = n /\ before' = next[n]
          /\ next[n] # NULL /\ n = head
          /\ \A m \in Nodes : m # n => next'[m] = next[m]
      BY <1>1, <2>4 DEF AdjustHead, BeginWalk, Put
    <3>2. Linked' = Linked \ {n}
      BY <2>1, <3>1 DEF Linked
    <3>3. expire'[next[n]] <= expire'[n]
      <4>1. expire'[n] >= expire[next[n]] /\ expire'[next[n]] = expire[next[n]]
        BY <1>3, <2>1, <2>2, <2>4, <3>1 DEF AdjustHead
      <4> QED
        BY <4>1
    <3> QED
      BY <1>3, <1>5, <1>6, <2>1, <3>1, <3>2, <3>3
  <2>5. CASE AdjustInner(n)
    <3>1. /\ pc' = "walk" /\ timer' = n /\ before' = next[n]
          /\ next[n] # NULL /\ n # head
          /\ \A m \in Nodes : next'[m] = IF m = prev[n] THEN next[n]
                                         ELSE next[m]
      BY <1>1, <2>5 DEF AdjustInner, BeginWalk, Put
    <3>2. Linked' = Linked \ {n}
      BY <2>1, <3>1 DEF Linked
    <3>3. expire'[next[n]] <= expire'[n]
      <4>1. expire'[n] >= expire[next[n]] /\ expire'[next[n]] = expire[next[n]]
        BY <1>3, <2>1, <2>2, <2>5, <3>1 DEF AdjustInner
      <4> QED
        BY <4>1
    <3>4. /\ prev[n] \in Linked /\ next[prev[n]] = n /\ prev[n] # n
          /\ expire[prev[n]] <= expire[n] /\ expire[n] <= expire[next[n]]
      BY <1>1, <1>2, <1>5, <2>1, <3>1, Shape DEF Node
    <3>5. expire'[prev[n]] <= expire'[next[n]]
      BY <1>1, <1>3, <2>1, <2>2, <3>1, <3>4
    <3> QED
      BY <1>3, <1>5, <1>6, <2>1, <3>1, <3>2, <3>3, <3>5
  <2> QED
    BY <1>9, <2>3, <2>4, <2>5 DEF AdjustTimer
<1>10. ASSUME NEW n \in Nodes, DelTimer(n) PROVE Goal
  <2>1. /\ pc = "idle" /\ pc' = "idle" /\ n \in live /\ live' = live \ {n}
        /\ Linked = live
        /\ \A m \in Nodes : m # n => expire'[m] = expire[m]
    BY <1>1, <1>10 DEF DelTimer, DelOnly, DelHead, DelTail, DelInner, Delete,
       Free, Linked, Put
  <2>2. Linked' = Linked \ {n}
    BY <2>1 DEF Linked
  <2>3. \A m \in Linked' :
          \/ next'[m] = next[m]
          \/ next'[m] = NULL
          \/ m = prev[n] /\ n # head /\ n # tail /\ next'[m] = next[n]
    BY <1>1, <1>3, <1>10, <2>2 DEF DelTimer, DelOnly, DelHead, DelTail,
       DelInner, Put
  <2>4. n # head /\ n # tail =>
          /\ prev[n] \in Linked /\ next[prev[n]] = n
          /\ next[n] \in Linked
          /\ expire[prev[n]] <= expire[n] /\ expire[n] <= expire[next[n]]
    BY <1>1, <1>2, <1>5, <2>1, Shape DEF Node
  <2>5. n # head /\ n # tail => expire[prev[n]] <= expire[next[n]]
    BY <1>1, <1>3, <2>1, <2>4
  <2>6. \A m \in Linked' : next'[m] # NULL => expire[m] <= expire[next'[m]]
    BY <1>5, <2>2, <2>3, <2>5
  <2> QED
    BY <1>3, <1>6, <2>1, <2>2, <2>6
<1>11. CASE WalkOn
  <2>1. /\ pc = "walk" /\ before' = tmp
        /\ UNCHANGED <<listVars, expire, pc, timer>>
        /\ expire[timer] >= expire[tmp] /\ tmp \in Nodes /\ timer \in Nodes
    BY <1>2, <1>3, <1>11 DEF WalkOn, Loops, Node
  <2>2. Linked' = Linked
    BY <2>1 DEF Linked, listVars
  <2>3. expire[tmp] <= expire[timer]
    BY <1>1, <2>1
  <2> QED
    BY <1>5, <2>1, <2>2, <2>3 DEF listVars
<1>12. CASE WalkLink \/ WalkEnd
  <2>1. /\ pc = "walk" /\ pc' = "idle" /\ live' = live /\ expire' = expire
        /\ timer \in live /\ before \in Linked
        /\ expire[before] <= expire[timer]
    BY <1>2, <1>5, <1>12 DEF WalkLink, WalkEnd, EndLoop, Loops
  <2>2. PICK t \in Nodes, b \in Nodes, u \in Pointers :
          t = timer /\ b = before /\ u = tmp
    BY <1>3, <2>1 DEF IInv, TypeOK
  <2>3. Linked = live \ {t} /\ Linked' = Linked \cup {t}
    BY <2>1, <2>2 DEF Linked
  <2>4. /\ \A m \in Nodes : next'[m] = IF m = t THEN u
                                       ELSE IF m = b THEN t ELSE next[m]
        /\ u # NULL => expire[t] < expire[u] /\ u \in Nodes
    BY <1>1, <1>12, <2>2 DEF WalkLink, WalkEnd, Put, Pointers
  <2>5. u # NULL => expire[t] <= expire[u]
    BY <1>1, <2>4
  <2>6. \A m \in Linked' : next'[m] # NULL => expire[m] <= expire[next'[m]]
    BY <1>3, <1>5, <2>1, <2>2, <2>3, <2>4, <2>5
  <2> QED
    BY <2>1, <2>6
<1>13. CASE TickBegin \/ TickEnd
  <2>1. /\ UNCHANGED <<listVars, expire>>
        /\ pc # "walk" /\ pc' # "walk"
    BY <1>13 DEF TickBegin, TickEnd, EndLoop
  <2> QED
    BY <1>5, <2>1 DEF Linked, listVars
<1>14. CASE TickFire
  <2>1. /\ pc = "tick" /\ pc' = "tick" /\ live' = live \ {tmp}
        /\ \A m \in Nodes : m # tmp => /\ expire'[m] = expire[m]
                                       /\ next'[m] = next[m]
    BY <1>1, <1>14 DEF TickFire, Free, Put
  <2>2. Linked' = Linked \ {tmp}
    BY <2>1 DEF Linked
  <2> QED
    BY <1>3, <1>5, <1>6, <2>1, <2>2
<1> QED
  BY <1>7, <1>8, <1>9, <1>10, <1>11, <1>12, <1>13, <1>14
     DEF Next, Walk, Tick, ClockAdvances, ClockSetBack, vars

\* As long as the clock is never set back the list is sorted by deadline, and
\* add_timer's walk passes only timers that are due no later.
THEOREM ListIsSorted == Safety => []SortedWhileSteady
<1>1. Init => DueInv /\ SortedWhileSteady
  BY DEF Init, DueInv, SortedWhileSteady, Linked
<1>2. IInv /\ IInv' /\ DueInv /\ SortedWhileSteady /\ [Next]_vars =>
        DueInv' /\ SortedWhileSteady'
  BY DueStep, SortedStep
<1> QED
  BY <1>1, <1>2, Invariance, PTL DEF Safety

-----------------------------------------------------------------------------
(* The list implements the set of timers.                                  *)

LEMMA NoneLeftDue ==
    ASSUME IInv, SortedWhileSteady, steady, TickEnd
    PROVE  \A n \in live : expire[n] > cur
<1>1. /\ pc = "tick" /\ tmp = head /\ Linked = live /\ live \subseteq Nodes
      /\ NULL \notin Nodes
      /\ \A n \in live : next[n] # NULL => next[n] \in live
      /\ head = NULL <=> live = {}
      /\ head # NULL => head \in live /\ cur < expire[head]
  BY TimerListAssumption DEF TickEnd, IInv, TypeOK, WellFormed, Linked
<1>2. cur \in Nat /\ \A n \in live : expire[n] \in Nat
  BY <1>1, TimerListAssumption DEF IInv, TypeOK, Times
<1> DEFINE S == {n \in live : cur < expire[n]}
<1>3. ASSUME NEW n \in S, next[n] # NULL PROVE next[n] \in S
  <2>1. expire[n] <= expire[next[n]]
    BY <1>1, <1>3 DEF SortedWhileSteady
  <2> QED
    BY <1>1, <1>2, <1>3, <2>1
<1>4. head # NULL => S = live
  <2> SUFFICES ASSUME head # NULL PROVE S = Linked
    BY <1>1
  <2>1. head \in S /\ S \in SUBSET Linked
    BY <1>1
  <2> HIDE DEF S
  <2> QED
    BY <1>3, <2>1, FromHead
<1> QED
  BY <1>1, <1>2, <1>4

\* The list behaves as the set of timers: every call is one operation of it, a
\* pass fires only what is due and, unless the clock was set back, leaves
\* nothing that was due when it began.
THEOREM ListImplementsTimers == Safety => ImplementsTimers
<1>1. Init => TM!Init
  BY DEF Init, TM!Init
<1>2. ASSUME IInv, SortedWhileSteady, [Next]_vars
      PROVE  [TM!Next]_(TM!vars)
  <2>1. live \subseteq Nodes /\ NULL \notin 0..MaxTime /\ cur \in 0..MaxTime
        /\ now \in 0..MaxTime /\ expire \in [Nodes -> Times]
    BY <1>2, TimerListAssumption DEF IInv, TypeOK
  <2>2. CASE UNCHANGED <<live, expire, pc, cur, steady>>
    BY <2>2 DEF TM!vars
  <2>3. ASSUME NEW n \in Nodes, AddTimer(n) PROVE TM!Add(n)
    BY <2>1, <2>3 DEF AddTimer, AddFirst, AddFront, AddWalk, NewTimer,
       BeginWalk, Put, clock, TM!Add, TM!SetDeadline
  <2>4. ASSUME NEW n \in Nodes, AdjustTimer(n) PROVE TM!Adjust(n)
    BY <2>1, <2>4 DEF AdjustTimer, AdjustStay, AdjustHead, AdjustInner,
       Prolong, BeginWalk, Put, clock, listVars, TM!Adjust, TM!SetDeadline
  <2>5. ASSUME NEW n \in Nodes, DelTimer(n) PROVE TM!Remove(n)
    BY <2>1, <2>5 DEF DelTimer, DelOnly, DelHead, DelTail, DelInner, Delete,
       Free, Put, clock, TM!Remove, TM!SetDeadline
  <2>6. CASE Walk
    BY <2>6 DEF Walk, WalkOn, WalkLink, WalkEnd, EndLoop, listVars, clock,
       TM!vars
  <2>7. CASE TickBegin
    <3>1. TM!BeginPass(now)
      BY <2>7 DEF TickBegin, listVars, clock, TM!BeginPass
    <3> QED
      BY <2>1, <3>1 DEF TM!Next
  <2>8. CASE TickFire
    <3>1. tmp \in Nodes /\ tmp \in live /\ cur >= expire[tmp]
      BY <1>2, <2>1, <2>8 DEF TickFire, IInv, WellFormed, Linked
    <3>2. expire[tmp] <= cur
      BY <2>1, <3>1, TimerListAssumption DEF Times
    <3>3. TM!Fire(tmp)
      BY <2>1, <2>8, <3>1, <3>2 DEF TickFire, Free, Put, clock, TM!Fire,
         TM!SetDeadline
    <3> QED
      BY <3>1, <3>3 DEF TM!Next
  <2>9. CASE TickEnd
    <3>1. steady => \A n \in live : expire[n] > cur
      BY <1>2, <2>9, NoneLeftDue
    <3>2. TM!EndPass
      BY <2>1, <2>9, <3>1 DEF TickEnd, EndLoop, listVars, clock, TM!EndPass
    <3> QED
      BY <3>2 DEF TM!Next
  <2>10. CASE ClockSetBack
    <3>1. TM!ClockSetBack
      BY <2>10 DEF ClockSetBack, listVars, loopVars, TM!ClockSetBack
    <3> QED
      BY <3>1 DEF TM!Next
  <2>11. CASE ClockAdvances \/ UNCHANGED vars
    BY <2>2, <2>11 DEF ClockAdvances, vars, listVars, loopVars, clock
  <2> QED
    BY <1>2, <2>3, <2>4, <2>5, <2>6, <2>7, <2>8, <2>9, <2>10, <2>11
       DEF Next, Tick, TM!Next
<1> QED
  BY <1>1, <1>2, Invariance, ListIsSorted, PTL DEF Safety, TM!Safety,
     ImplementsTimers
=============================================================================
