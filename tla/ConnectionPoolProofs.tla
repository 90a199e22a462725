------------------------ MODULE ConnectionPoolProofs ------------------------
(***************************************************************************)
(* Theorems about ConnectionPool, for any number of clients and            *)
(* connections: no connection is in two places, none leaks, a pool with a  *)
(* connection per client never answers NULL nor pops an empty list, and no *)
(* pool pops an empty list unless a signal interrupts a wait.              *)
(***************************************************************************)
EXTENDS ConnectionPool, FiniteSetTheorems, TLAPS

-----------------------------------------------------------------------------
(* Type correctness.                                                       *)

\* Every variable keeps its type.
THEOREM TypeCorrect == Safety => []TypeOK
<1> USE ConnectionPoolAssumption
<1>1. Init => TypeOK
  <2> SUFFICES ASSUME Init
               PROVE  TypeOK
    OBVIOUS
  <2>1. /\ m_MaxConn \in Nat /\ m_MaxConn \in Conns
        /\ 1..m_MaxConn \subseteq Conns
    BY DEF Init, Conns
  <2>2. connList \in [1..m_MaxConn -> Conns]
    BY <2>1 DEF Init
  <2>3. connList \in Seq(Conns)
    BY <2>1, <2>2
  <2>4. reserve \in Nat /\ m_FreeConn \in Int /\ m_CurConn \in Int
    BY <2>1 DEF Init
  <2>5. /\ pc \in [Clients -> PcLabels]
        /\ conRAII \in [Clients -> Conns \cup {NULL}]
        /\ \A t \in Clients : pc[t] = "idle" /\ conRAII[t] = NULL
    BY DEF Init, PcLabels
  <2> QED
    BY <2>1, <2>3, <2>4, <2>5 DEF Init, TypeOK
<1>2. TypeOK /\ [Next]_vars => TypeOK'
  <2> SUFFICES ASSUME TypeOK, [Next]_vars
               PROVE  TypeOK'
    OBVIOUS
  <2> USE DEF TypeOK, PcLabels, At, Goto
  <2>1. ASSUME NEW t \in Clients, Get(t)
        PROVE  TypeOK'
    BY <2>1 DEF Get, GetNull, GetSome, counters
  <2>2. ASSUME NEW t \in Clients, ReserveWait(t) \/ ReserveInterrupted(t)
        PROVE  TypeOK'
    BY <2>2 DEF ReserveWait, ReserveInterrupted, counters
  <2>3. ASSUME NEW t \in Clients, Locks(t)
        PROVE  TypeOK'
    BY <2>3 DEF Locks, GetLock, ReleaseLock, counters
  <2>4. ASSUME NEW t \in Clients, Pop(t)
        PROVE  TypeOK'
    <3>1. Head(connList) \in Conns /\ Tail(connList) \in Seq(Conns)
      BY <2>4 DEF Pop
    <3>2. NULL \notin Conns
      BY DEF Conns
    <3> QED
      BY <2>4, <3>1, <3>2 DEF Pop
  <2>5. ASSUME NEW t \in Clients, PopEmpty(t) \/ ReleaseNull(t) \/ Release(t)
        PROVE  TypeOK'
    BY <2>5 DEF PopEmpty, ReleaseNull, Release, counters
  <2>6. ASSUME NEW t \in Clients, ReleasePush(t)
        PROVE  TypeOK'
    <3>1. Append(connList, conRAII[t]) \in Seq(Conns)
      BY <2>6 DEF ReleasePush
    <3> QED
      BY <2>6, <3>1 DEF ReleasePush
  <2>7. ASSUME NEW t \in Clients, ReleasePost(t)
        PROVE  TypeOK'
    BY <2>7 DEF ReleasePost, counters
  <2>8. CASE DestroyBegins \/ DestroyLock
    BY <2>8 DEF DestroyBegins, DestroyLock, counters
  <2>9. CASE Destroy
    <3>1. closed' \in SUBSET Conns
      BY <2>9 DEF Destroy
    <3>2. connList' \in Seq(Conns)
      <4>1. connList' = <<>> \/ connList' = connList
        BY <2>9 DEF Destroy
      <4>2. <<>> \in Seq(Conns)
        OBVIOUS
      <4>3. connList \in Seq(Conns)
        OBVIOUS
      <4> QED
        BY <4>1, <4>2, <4>3, Zenon
    <3>3. m_FreeConn' \in Int /\ m_CurConn' \in Int
      BY <2>9 DEF Destroy, counters
    <3> QED
      BY <2>9, <3>1, <3>2, <3>3 DEF Destroy
  <2>10. CASE UNCHANGED vars
    BY <2>10 DEF vars, counters
  <2> QED
    BY <2>1, <2>2, <2>3, <2>4, <2>5, <2>6, <2>7, <2>8, <2>9, <2>10
       DEF Next, ClientStep, Runs
<1> QED
  BY <1>1, <1>2, PTL DEF Safety

-----------------------------------------------------------------------------
(* A connection is in one place.                                           *)

\* front(); pop_front() moves the head of the list out of it.
LEMMA PopIdle ==
    ASSUME TypeOK, OnePlace, NEW t \in Clients, Pop(t)
    PROVE  /\ conRAII' = [conRAII EXCEPT ![t] = connList[1]]
           /\ Len(connList) \in Nat /\ Len(connList) > 0
           /\ connList[1] \in Conns
           /\ Len(connList') = Len(connList) - 1
           /\ \A i \in 1..Len(connList') : connList'[i] = connList[i + 1]
           /\ connList[1] \in Idle
           /\ Idle' = Idle \ {connList[1]}
<1>1. /\ connList # <<>>
      /\ connList' = Tail(connList)
      /\ conRAII' = [conRAII EXCEPT ![t] = Head(connList)]
  BY DEF Pop
<1>2. /\ Len(connList) \in Nat /\ Len(connList) > 0
      /\ Head(connList) = connList[1]
      /\ connList[1] \in Conns
      /\ Len(connList') = Len(connList) - 1
      /\ \A i \in 1..Len(connList') : connList'[i] = connList[i + 1]
  BY <1>1 DEF TypeOK
<1>3. connList[1] \in Idle
  BY <1>2 DEF Idle
<1>4. Idle' = Idle \ {connList[1]}
  <2>1. ASSUME NEW c \in Idle'
        PROVE  c \in Idle \ {connList[1]}
    BY <1>2, <2>1 DEF Idle, OnePlace
  <2>2. ASSUME NEW c \in Idle, c # connList[1]
        PROVE  c \in Idle'
    <3>1. PICK i \in 1..Len(connList) : c = connList[i]
      BY <2>2 DEF Idle
    <3>2. i - 1 \in 1..Len(connList') /\ connList'[i - 1] = c
      BY <1>2, <2>2, <3>1
    <3> QED
      BY <3>2 DEF Idle
  <2> QED
    BY <2>1, <2>2
<1> QED
  BY <1>1, <1>2, <1>3, <1>4

\* push_back adds one connection at the end.
LEMMA PushIdle ==
    ASSUME TypeOK, NEW t \in Clients, ReleasePush(t)
    PROVE  /\ conRAII[t] \in Conns
           /\ Len(connList) \in Nat
           /\ Len(connList') = Len(connList) + 1
           /\ \A i \in 1..Len(connList) : connList'[i] = connList[i]
           /\ connList'[Len(connList) + 1] = conRAII[t]
           /\ Idle' = Idle \cup {conRAII[t]}
<1>1. connList' = Append(connList, conRAII[t]) /\ conRAII[t] \in Conns
  BY DEF ReleasePush, TypeOK, At
<1>2. /\ Len(connList) \in Nat
      /\ Len(connList') = Len(connList) + 1
      /\ \A i \in 1..Len(connList) : connList'[i] = connList[i]
      /\ connList'[Len(connList) + 1] = conRAII[t]
  BY <1>1 DEF TypeOK
<1>3. Idle' = Idle \cup {conRAII[t]}
  BY <1>2 DEF Idle
<1> QED
  BY <1>1, <1>2, <1>3

\* Every step keeps each connection in one place.
LEMMA OnePlaceStep == TypeOK /\ OnePlace /\ [Next]_vars => OnePlace'
<1> SUFFICES ASSUME TypeOK, OnePlace, [Next]_vars
             PROVE  OnePlace'
  OBVIOUS
<1> USE ConnectionPoolAssumption
<1>0. NULL \notin Conns
  BY DEF Conns
<1>1. ASSUME UNCHANGED <<connList, conRAII, closed>>
      PROVE  OnePlace'
  BY <1>1 DEF OnePlace, Holders, Idle
<1>2. ASSUME NEW t \in Clients, Pop(t)
      PROVE  OnePlace'
  <2>1. closed' = closed
    BY <1>2 DEF Pop
  <2>2. Holders' = Holders \cup {t}
    BY <1>0, <1>2, PopIdle DEF Holders, TypeOK
  <2>3. \A i, j \in 1..Len(connList') : i # j => connList'[i] # connList'[j]
    <3> SUFFICES ASSUME NEW i \in 1..Len(connList'),
                        NEW j \in 1..Len(connList'), i # j
                 PROVE  connList'[i] # connList'[j]
      OBVIOUS
    <3>1. /\ connList'[i] = connList[i + 1]
          /\ connList'[j] = connList[j + 1]
          /\ i + 1 \in 1..Len(connList)
          /\ j + 1 \in 1..Len(connList)
      BY <1>2, PopIdle
    <3> QED
      BY <3>1 DEF OnePlace
  <2>4. \A s \in Holders' : conRAII'[s] \notin Idle'
    BY <1>2, <2>2, PopIdle DEF OnePlace, TypeOK, Holders
  <2>5. \A s, u \in Holders' : conRAII'[s] = conRAII'[u] => s = u
    BY <1>2, <2>2, PopIdle DEF OnePlace, TypeOK, Holders
  <2>6. closed' \cap (Idle' \cup {conRAII'[s] : s \in Holders'}) = {}
    BY <1>2, <2>1, <2>2, PopIdle DEF OnePlace, TypeOK, Holders
  <2> QED
    BY <2>3, <2>4, <2>5, <2>6 DEF OnePlace
<1>3. ASSUME NEW t \in Clients, ReleasePush(t)
      PROVE  OnePlace'
  <2>1. closed' = closed /\ conRAII' = [conRAII EXCEPT ![t] = NULL]
    BY <1>3 DEF ReleasePush
  <2>2. Holders' = Holders \ {t} /\ t \in Holders
    BY <1>0, <1>3, <2>1, PushIdle DEF Holders, TypeOK
  <2>3. conRAII[t] \notin Idle
    BY <2>2 DEF OnePlace
  <2>4. \A i, j \in 1..Len(connList') : i # j => connList'[i] # connList'[j]
    <3>1. \A i \in 1..Len(connList) : connList[i] # conRAII[t]
      BY <2>3 DEF Idle
    <3> QED
      BY <1>3, <3>1, PushIdle DEF OnePlace
  <2>5. \A s \in Holders' : conRAII'[s] \notin Idle'
    BY <1>3, <2>1, <2>2, PushIdle DEF OnePlace, TypeOK, Holders
  <2>6. \A s, u \in Holders' : conRAII'[s] = conRAII'[u] => s = u
    BY <2>1, <2>2 DEF OnePlace, TypeOK, Holders
  <2>7. closed' \cap (Idle' \cup {conRAII'[s] : s \in Holders'}) = {}
    BY <1>3, <2>1, <2>2, PushIdle DEF OnePlace, TypeOK, Holders
  <2> QED
    BY <2>4, <2>5, <2>6, <2>7 DEF OnePlace
<1>4. CASE Destroy
  <2>1. CASE connList = <<>>
    BY <1>1, <1>4, <2>1 DEF Destroy
  <2>2. CASE connList # <<>>
    <3>1. /\ connList' = <<>> /\ closed' = closed \cup Idle
          /\ conRAII' = conRAII /\ Len(connList') = 0
      BY <1>4, <2>2 DEF Destroy, Idle
    <3>2. Idle' = {} /\ Holders' = Holders
      BY <3>1 DEF Idle, Holders
    <3> QED
      BY <3>1, <3>2 DEF OnePlace
  <2> QED
    BY <2>1, <2>2
<1> QED
  BY <1>1, <1>2, <1>3, <1>4
     DEF Next, ClientStep, Get, GetNull, GetSome, ReserveWait,
         ReserveInterrupted, Locks, GetLock, ReleaseLock, Runs, PopEmpty,
         ReleaseNull, Release, ReleasePost, DestroyBegins, DestroyLock, vars

\* A connection is never used by two threads at once, nor after mysql_close.
THEOREM ConnectionsAreExclusive == Safety => []OnePlace
<1>1. Init => OnePlace
  <2> SUFFICES ASSUME Init
               PROVE  OnePlace
    OBVIOUS
  <2>1. Holders = {} /\ closed = {}
    BY DEF Init, Holders
  <2>2. /\ Len(connList) = m_MaxConn
        /\ \A i \in 1..m_MaxConn : connList[i] = i
    BY ConnectionPoolAssumption DEF Init, Conns
  <2> QED
    BY <2>1, <2>2 DEF OnePlace
<1> QED
  BY <1>1, OnePlaceStep, TypeCorrect, PTL DEF Safety

-----------------------------------------------------------------------------
(* No connection leaks.                                                    *)

\* The clients that hold a connection are finitely many.
LEMMA HoldersFinite == IsFiniteSet(Holders) /\ Cardinality(Holders) \in Nat
<1>1. Holders \in SUBSET Clients
  BY DEF Holders
<1> QED
  BY <1>1, ConnectionPoolAssumption, FS_Subset, FS_CardinalityType

\* Every step keeps the list, the clients and the counters in agreement.
LEMMA LeakStep == TypeOK /\ NothingLeaks /\ [Next]_vars => NothingLeaks'
<1> SUFFICES ASSUME TypeOK, NothingLeaks, [Next]_vars, exiting' # "done"
             PROVE  /\ Len(connList') + Cardinality(Holders)' = m_MaxConn'
                    /\ m_FreeConn' = Len(connList')
                    /\ m_CurConn' = Cardinality(Holders)'
  BY DEF NothingLeaks
<1> USE ConnectionPoolAssumption
<1>0. NULL \notin Conns
  BY DEF Conns
<1>1. ASSUME UNCHANGED <<m_MaxConn, connList, conRAII, counters>>,
             exiting # "done"
      PROVE  /\ Len(connList') + Cardinality(Holders)' = m_MaxConn'
             /\ m_FreeConn' = Len(connList')
             /\ m_CurConn' = Cardinality(Holders)'
  BY <1>1 DEF NothingLeaks, Holders, counters
<1>2. ASSUME NEW t \in Clients, Pop(t)
      PROVE  /\ Len(connList') + Cardinality(Holders)' = m_MaxConn'
             /\ m_FreeConn' = Len(connList')
             /\ m_CurConn' = Cardinality(Holders)'
  <2>1. /\ connList # <<>>
        /\ connList' = Tail(connList)
        /\ conRAII' = [conRAII EXCEPT ![t] = Head(connList)]
        /\ m_FreeConn' = m_FreeConn - 1
        /\ m_CurConn' = m_CurConn + 1
        /\ m_MaxConn' = m_MaxConn /\ exiting # "done"
    BY <1>2 DEF Pop
  <2>2. /\ Len(connList') = Len(connList) - 1
        /\ Len(connList) \in Nat
        /\ Head(connList) \in Conns
    BY <2>1 DEF TypeOK
  <2>3. t \notin Holders /\ Holders' = Holders \cup {t}
    BY <1>0, <1>2, <2>1, <2>2 DEF Pop, Holders, TypeOK, At
  <2>4. Cardinality(Holders)' = Cardinality(Holders) + 1
    BY <2>3, HoldersFinite, FS_AddElement
  <2> QED
    BY <2>1, <2>2, <2>4, HoldersFinite DEF NothingLeaks, TypeOK
<1>3. ASSUME NEW t \in Clients, ReleasePush(t)
      PROVE  /\ Len(connList') + Cardinality(Holders)' = m_MaxConn'
             /\ m_FreeConn' = Len(connList')
             /\ m_CurConn' = Cardinality(Holders)'
  <2>1. /\ conRAII' = [conRAII EXCEPT ![t] = NULL]
        /\ m_FreeConn' = m_FreeConn + 1
        /\ m_CurConn' = m_CurConn - 1
        /\ m_MaxConn' = m_MaxConn /\ exiting # "done"
    BY <1>3 DEF ReleasePush
  <2>2. t \in Holders /\ Holders' = Holders \ {t}
    BY <1>3, <2>1 DEF ReleasePush, Holders, TypeOK, At
  <2>3. Cardinality(Holders)' = Cardinality(Holders) - 1
    BY <2>2, HoldersFinite, FS_RemoveElement
  <2>4. Len(connList) \in Nat /\ Len(connList') = Len(connList) + 1
    BY <1>3, PushIdle
  <2> QED
    BY <2>1, <2>3, <2>4, HoldersFinite DEF NothingLeaks, TypeOK
<1>4. CASE Destroy
  BY <1>4 DEF Destroy
<1> QED
  BY <1>1, <1>2, <1>3, <1>4
     DEF Next, ClientStep, Get, GetNull, GetSome, ReserveWait,
         ReserveInterrupted, Locks, GetLock, ReleaseLock, Runs, PopEmpty,
         ReleaseNull, Release, ReleasePost, DestroyBegins, DestroyLock, vars

\* Until DestroyPool() the list, the connectionRAII objects and the counters
\* m_FreeConn and m_CurConn account for every connection that init() made.
THEOREM NoConnectionLeaks == Safety => []NothingLeaks
<1>1. Init => NothingLeaks
  <2> SUFFICES ASSUME Init
               PROVE  NothingLeaks
    OBVIOUS
  <2>1. Holders = {}
    BY DEF Init, Holders
  <2>2. Cardinality(Holders) = 0
    BY <2>1, FS_EmptySet
  <2>3. m_MaxConn \in Nat /\ Len(connList) = m_MaxConn
    BY ConnectionPoolAssumption DEF Init, Conns
  <2> QED
    BY <2>2, <2>3 DEF Init, NothingLeaks
<1> QED
  BY <1>1, LeakStep, TypeCorrect, PTL DEF Safety

-----------------------------------------------------------------------------
(* A connection for each client is enough.                                 *)

\* A client that asks holds nothing; the others hold fewer connections than
\* there are, so the list has one left.
LEMMA ListNotEmpty ==
    ASSUME TypeOK, NothingLeaks, exiting # "done",
           Cardinality(Clients) <= m_MaxConn,
           NEW t \in Clients, conRAII[t] = NULL
    PROVE  connList # <<>>
<1> USE ConnectionPoolAssumption
<1>1. Holders \in SUBSET (Clients \ {t})
  BY DEF Holders
<1>2. /\ IsFiniteSet(Clients \ {t})
      /\ Cardinality(Clients \ {t}) = Cardinality(Clients) - 1
  BY FS_RemoveElement
<1>3. Cardinality(Holders) <= Cardinality(Clients) - 1
  BY <1>1, <1>2, FS_Subset
<1>4. Cardinality(Clients) \in Nat /\ m_MaxConn \in Nat
  BY FS_CardinalityType DEF TypeOK, Conns
<1>5. Len(connList) > 0
  BY <1>3, <1>4, HoldersFinite DEF NothingLeaks, TypeOK
<1> QED
  BY <1>5

LEMMA EnoughStep ==
    TypeOK /\ NothingLeaks /\ EnoughIsEnough /\ [Next]_vars => EnoughIsEnough'
<1> SUFFICES ASSUME TypeOK, NothingLeaks, EnoughIsEnough, [Next]_vars,
                    Cardinality(Clients) <= m_MaxConn', exiting' # "done"
             PROVE  /\ ~crashed'
                    /\ \A t \in Clients : pc'[t] = "have" => conRAII'[t] # NULL
  BY DEF EnoughIsEnough
<1> USE ConnectionPoolAssumption
<1>0. m_MaxConn' = m_MaxConn /\ exiting # "done"
  BY DEF Next, ClientStep, Get, GetNull, GetSome, ReserveWait,
         ReserveInterrupted, Locks, GetLock, ReleaseLock, Runs, Pop, PopEmpty,
         ReleaseNull, Release, ReleasePush, ReleasePost, DestroyBegins,
         DestroyLock, Destroy, vars
<1>1. /\ ~crashed
      /\ \A t \in Clients : pc[t] = "have" => conRAII[t] # NULL
  BY <1>0 DEF EnoughIsEnough
<1>2. \A t \in Clients : conRAII[t] = NULL => connList # <<>>
  BY <1>0, ListNotEmpty
<1>3. ASSUME NEW t \in Clients, PopEmpty(t) \/ GetNull(t)
      PROVE  FALSE
  <2>1. conRAII[t] = NULL
    BY <1>3 DEF PopEmpty, GetNull, TypeOK, At
  <2>2. connList = <<>>
    BY <1>3 DEF PopEmpty, GetNull, TypeOK
  <2> QED
    BY <1>2, <2>1, <2>2
<1>4. ASSUME NEW t \in Clients, Pop(t)
      PROVE  /\ ~crashed'
             /\ \A u \in Clients : pc'[u] = "have" => conRAII'[u] # NULL
  <2>1. Head(connList) # NULL
    BY <1>4 DEF Pop, TypeOK, Conns
  <2> QED
    BY <1>1, <1>4, <2>1 DEF Pop, Goto, TypeOK
<1>5. ASSUME NEW t \in Clients,
             \/ GetSome(t) \/ ReserveWait(t) \/ ReserveInterrupted(t)
             \/ Locks(t)
             \/ ReleaseNull(t) \/ Release(t) \/ ReleasePush(t)
             \/ ReleasePost(t)
      PROVE  /\ ~crashed'
             /\ \A u \in Clients : pc'[u] = "have" => conRAII'[u] # NULL
  BY <1>1, <1>5 DEF GetSome, ReserveWait, ReserveInterrupted, Locks, GetLock,
     ReleaseLock, ReleaseNull, Release, ReleasePush, ReleasePost, Goto, At,
     TypeOK
<1>6. CASE DestroyBegins \/ DestroyLock \/ Destroy \/ UNCHANGED vars
  BY <1>1, <1>6 DEF DestroyBegins, DestroyLock, Destroy, vars
<1> QED
  BY <1>3, <1>4, <1>5, <1>6 DEF Next, ClientStep, Get, Runs

\* With at least as many connections as threads that ask for one, as in the
\* default configuration, GetConnection never answers NULL and never pops an
\* empty list, interrupted waits included.
THEOREM EnoughConnections == Safety => []EnoughIsEnough
<1>1. Init => EnoughIsEnough
  BY DEF Init, EnoughIsEnough
<1> QED
  BY <1>1, EnoughStep, NoConnectionLeaks, TypeCorrect, PTL DEF Safety
-----------------------------------------------------------------------------
(* The comment in GetConnection is right but for signals.                  *)

\* Clients whose wait() has returned and who have not popped yet, and those
\* who have pushed and not posted yet.
Granted == {t \in Clients : pc[t] \in {"lock", "pop"}}
Owing == {t \in Clients : pc[t] = "post"}

\* An idle connection has a permit in the semaphore, or its permit is with a
\* client on its way from wait() to the list or from the list to post().
Permits ==
    exiting # "done" =>
        reserve + Cardinality(Granted) + Cardinality(Owing) = Len(connList)

Uninterrupted == \A t \in Clients : ~ReserveInterrupted(t)

LEMMA PermitHolders ==
    /\ IsFiniteSet(Granted) /\ Cardinality(Granted) \in Nat
    /\ IsFiniteSet(Owing) /\ Cardinality(Owing) \in Nat
<1>1. Granted \in SUBSET Clients /\ Owing \in SUBSET Clients
  BY DEF Granted, Owing
<1> QED
  BY <1>1, ConnectionPoolAssumption, FS_Subset, FS_CardinalityType

\* Every step but an interrupted wait keeps the permits in step with the list.
LEMMA PermitsStep ==
    TypeOK /\ Permits /\ [Next]_vars /\ [Uninterrupted]_vars => Permits'
<1> SUFFICES ASSUME TypeOK, Permits, [Next]_vars, [Uninterrupted]_vars,
                    exiting' # "done"
             PROVE  reserve' + Cardinality(Granted)' + Cardinality(Owing)'
                        = Len(connList')
  BY DEF Permits
<1> USE ConnectionPoolAssumption
<1>1. ASSUME UNCHANGED <<reserve, connList>>, Granted' = Granted,
             Owing' = Owing, exiting # "done"
      PROVE  reserve' + Cardinality(Granted)' + Cardinality(Owing)'
                 = Len(connList')
  BY <1>1 DEF Permits
<1>2. ASSUME NEW t \in Clients, ReserveWait(t)
      PROVE  reserve' + Cardinality(Granted)' + Cardinality(Owing)'
                 = Len(connList')
  <2>1. /\ reserve' = reserve - 1 /\ connList' = connList
        /\ pc[t] = "wait" /\ pc' = [pc EXCEPT ![t] = "lock"]
        /\ exiting # "done"
    BY <1>2 DEF ReserveWait, At, Goto
  <2>2. t \notin Granted /\ Granted' = Granted \cup {t} /\ Owing' = Owing
    BY <2>1 DEF Granted, Owing, TypeOK
  <2>3. Cardinality(Granted)' = Cardinality(Granted) + 1
    BY <2>2, PermitHolders, FS_AddElement
  <2>4. Cardinality(Owing)' = Cardinality(Owing)
    BY <2>2
  <2> QED
    BY <2>1, <2>3, <2>4, PermitHolders DEF Permits, TypeOK
<1>3. ASSUME NEW t \in Clients, Pop(t)
      PROVE  reserve' + Cardinality(Granted)' + Cardinality(Owing)'
                 = Len(connList')
  <2>1. /\ reserve' = reserve /\ exiting # "done"
        /\ pc[t] = "pop" /\ pc' = [pc EXCEPT ![t] = "have"]
    BY <1>3 DEF Pop, At, Goto
  <2>2. Len(connList) \in Nat /\ Len(connList') = Len(connList) - 1
    BY <1>3 DEF Pop, TypeOK
  <2>3. t \in Granted /\ Granted' = Granted \ {t} /\ Owing' = Owing
    BY <2>1 DEF Granted, Owing, TypeOK
  <2>4. Cardinality(Granted)' = Cardinality(Granted) - 1
    BY <2>3, PermitHolders, FS_RemoveElement
  <2>5. Cardinality(Owing)' = Cardinality(Owing)
    BY <2>3
  <2> QED
    BY <2>1, <2>2, <2>4, <2>5, PermitHolders DEF Permits, TypeOK
<1>4. ASSUME NEW t \in Clients, ReleasePush(t)
      PROVE  reserve' + Cardinality(Granted)' + Cardinality(Owing)'
                 = Len(connList')
  <2>1. /\ reserve' = reserve /\ exiting # "done"
        /\ pc[t] = "push" /\ pc' = [pc EXCEPT ![t] = "post"]
    BY <1>4 DEF ReleasePush, At, Goto
  <2>2. Len(connList) \in Nat /\ Len(connList') = Len(connList) + 1
    BY <1>4, PushIdle
  <2>3. t \notin Owing /\ Owing' = Owing \cup {t} /\ Granted' = Granted
    BY <2>1 DEF Granted, Owing, TypeOK
  <2>4. Cardinality(Owing)' = Cardinality(Owing) + 1
    BY <2>3, PermitHolders, FS_AddElement
  <2>5. Cardinality(Granted)' = Cardinality(Granted)
    BY <2>3
  <2> QED
    BY <2>1, <2>2, <2>4, <2>5, PermitHolders DEF Permits, TypeOK
<1>5. ASSUME NEW t \in Clients, ReleasePost(t)
      PROVE  reserve' + Cardinality(Granted)' + Cardinality(Owing)'
                 = Len(connList')
  <2>1. /\ reserve' = reserve + 1 /\ connList' = connList
        /\ pc[t] = "post" /\ pc' = [pc EXCEPT ![t] = "idle"]
        /\ exiting # "done"
    BY <1>5 DEF ReleasePost, At, Goto
  <2>2. t \in Owing /\ Owing' = Owing \ {t} /\ Granted' = Granted
    BY <2>1 DEF Granted, Owing, TypeOK
  <2>3. Cardinality(Owing)' = Cardinality(Owing) - 1
    BY <2>2, PermitHolders, FS_RemoveElement
  <2>4. Cardinality(Granted)' = Cardinality(Granted)
    BY <2>2
  <2> QED
    BY <2>1, <2>3, <2>4, PermitHolders DEF Permits, TypeOK
<1>6. ASSUME NEW t \in Clients,
             \/ Get(t) \/ Locks(t) \/ ReleaseNull(t) \/ Release(t)
      PROVE  /\ UNCHANGED <<reserve, connList>> /\ exiting # "done"
             /\ Granted' = Granted /\ Owing' = Owing
  BY <1>6 DEF Get, GetNull, GetSome, Locks, GetLock, ReleaseLock,
     ReleaseNull, Release, At, Goto, Granted, Owing, TypeOK
<1>7. ASSUME \/ \E t \in Clients : PopEmpty(t)
             \/ DestroyBegins \/ DestroyLock \/ UNCHANGED vars
      PROVE  /\ UNCHANGED <<reserve, connList>> /\ exiting # "done"
             /\ Granted' = Granted /\ Owing' = Owing
  BY <1>7 DEF PopEmpty, DestroyBegins, DestroyLock, vars, Granted, Owing
<1>8. CASE Destroy
  BY <1>8 DEF Destroy
<1>9. ASSUME NEW t \in Clients, ReserveInterrupted(t)
      PROVE  UNCHANGED vars
  BY <1>9 DEF Uninterrupted
<1> QED
  BY <1>1, <1>2, <1>3, <1>4, <1>5, <1>6, <1>7, <1>8, <1>9
     DEF Next, ClientStep, Runs

\* A client that pops still has its permit, so the list is not empty.
LEMMA PermitMeansConnection ==
    ASSUME TypeOK, Permits, exiting # "done", NEW t \in Clients,
           pc[t] = "pop"
    PROVE  connList # <<>>
<1>1. t \in Granted
  BY DEF Granted
<1>2. Cardinality(Granted) > 0
  BY <1>1, PermitHolders, FS_EmptySet
<1>3. Len(connList) > 0
  BY <1>2, PermitHolders DEF Permits, TypeOK
<1> QED
  BY <1>3

\* As long as no signal interrupts wait(), what the comment in GetConnection
\* says is so, and nothing is popped from an empty list before DestroyPool():
\* the interrupted wait is the only cause of the violation that the run
\* conn_pool_interrupted shows.
THEOREM OnlySignalsBreakThePool ==
    Safety /\ [][Uninterrupted]_vars
        => [](WaitMeansAvailable /\ (exiting # "done" => ~crashed))
<1>1. Init => Permits /\ (exiting # "done" => ~crashed)
  <2> SUFFICES ASSUME Init
               PROVE  Permits /\ ~crashed
    OBVIOUS
  <2>1. Granted = {} /\ Owing = {}
    BY DEF Init, Granted, Owing
  <2>2. Cardinality(Granted) = 0 /\ Cardinality(Owing) = 0
    BY <2>1, FS_EmptySet
  <2>3. m_MaxConn \in Nat /\ Len(connList) = m_MaxConn
    BY ConnectionPoolAssumption DEF Init, Conns
  <2> QED
    BY <2>2, <2>3 DEF Init, Permits
<1>2. TypeOK /\ Permits /\ (exiting # "done" => ~crashed) /\ [Next]_vars
          => (exiting # "done" => ~crashed)'
  <2> SUFFICES ASSUME TypeOK, Permits, exiting # "done" => ~crashed,
                      [Next]_vars, exiting' # "done"
               PROVE  ~crashed'
    OBVIOUS
  <2>1. exiting # "done"
    BY DEF Next, ClientStep, Get, GetNull, GetSome, ReserveWait,
           ReserveInterrupted, Locks, GetLock, ReleaseLock, Runs, Pop,
           PopEmpty, ReleaseNull, Release, ReleasePush, ReleasePost,
           DestroyBegins, DestroyLock, Destroy, vars
  <2>2. ASSUME NEW t \in Clients, PopEmpty(t)
        PROVE  FALSE
    BY <2>1, <2>2, PermitMeansConnection DEF PopEmpty, At
  <2> QED
    BY <2>1, <2>2
       DEF Next, ClientStep, Get, GetNull, GetSome, ReserveWait,
           ReserveInterrupted, Locks, GetLock, ReleaseLock, Runs, Pop,
           ReleaseNull, Release, ReleasePush, ReleasePost, DestroyBegins,
           DestroyLock, Destroy, vars
<1>3. TypeOK /\ Permits => WaitMeansAvailable
  BY PermitMeansConnection DEF WaitMeansAvailable
<1> QED
  BY <1>1, <1>2, <1>3, PermitsStep, TypeCorrect, PTL DEF Safety
=============================================================================
