--------------------------- MODULE ConnectionPool ---------------------------
(***************************************************************************)
(* CGImysql/sql_connection_pool.{h,cpp}: the pool of database connections. *)
(* A client is a thread that holds a connectionRAII object, that is, a     *)
(* worker of the thread pool while it runs process().                      *)
(*                                                                         *)
(* A step is one access to shared state; the statements under the mutex    *)
(* are one step, because whatever else reads the list reads its length.    *)
(* MySQL is external: a connection is a number, and init() either obtains  *)
(* all of them or ends the program before there is any client.             *)
(***************************************************************************)
EXTENDS Integers, Sequences, FiniteSets

CONSTANTS
    Clients,        \* threads that use connectionRAII
    MaxSqlNum,      \* bound on the configured number of connections
    NULL,           \* no connection
    Nobody,         \* the mutex is free
    Exit            \* the thread that runs the static destructors

ASSUME ConnectionPoolAssumption ==
    /\ IsFiniteSet(Clients)
    /\ MaxSqlNum \in Nat \ {0}
    /\ NULL \notin 1..MaxSqlNum
    /\ Nobody \notin Clients /\ Exit \notin Clients /\ Nobody # Exit

VARIABLES
    m_MaxConn,      \* sql_num of the configuration
    connList,       \* std::list of idle connections
    lock,           \* the thread that holds the mutex, or Nobody
    reserve,        \* value of the semaphore
    m_FreeConn, m_CurConn,
    pc,             \* next statement of each client
    conRAII,        \* the connection of the client's connectionRAII
    exiting,        \* DestroyPool(): "no", "lock", "destroy" or "done"
    closed,         \* connections given back to MySQL by mysql_close
    crashed         \* front()/pop_front() of an empty list: the program aborts

counters == <<m_FreeConn, m_CurConn>>
vars == <<m_MaxConn, connList, lock, reserve, counters, pc, conRAII, exiting,
          closed, crashed>>

Conns == 1..MaxSqlNum
PcLabels == {"idle", "wait", "lock", "pop", "have", "relock", "push", "post"}

\* The constructor and init(): every connection is idle and has a permit.
Init ==
    /\ m_MaxConn \in Conns
    /\ connList = [i \in 1..m_MaxConn |-> i]
    /\ lock = Nobody
    /\ reserve = m_MaxConn
    /\ m_FreeConn = m_MaxConn
    /\ m_CurConn = 0
    /\ pc = [t \in Clients |-> "idle"]
    /\ conRAII = [t \in Clients |-> NULL]
    /\ exiting = "no"
    /\ closed = {}
    /\ crashed = FALSE

At(t, label) == ~crashed /\ pc[t] = label
Goto(t, label) == pc' = [pc EXCEPT ![t] = label]

-----------------------------------------------------------------------------
(* GetConnection()                                                         *)

\* The length is read without the mutex; an empty pool answers NULL at once.
GetNull(t) ==
    /\ At(t, "idle")
    /\ Len(connList) = 0
    /\ Goto(t, "have")
    /\ UNCHANGED <<m_MaxConn, connList, lock, reserve, counters, conRAII,
                   exiting, closed, crashed>>

GetSome(t) ==
    /\ At(t, "idle")
    /\ Len(connList) # 0
    /\ Goto(t, "wait")
    /\ UNCHANGED <<m_MaxConn, connList, lock, reserve, counters, conRAII,
                   exiting, closed, crashed>>

ReserveWait(t) ==
    /\ At(t, "wait")
    /\ reserve > 0
    /\ reserve' = reserve - 1
    /\ Goto(t, "lock")
    /\ UNCHANGED <<m_MaxConn, connList, lock, counters, conRAII, exiting,
                   closed, crashed>>

\* A signal interrupts the wait on an exhausted semaphore (the handlers are
\* installed without SA_RESTART); the result of wait() is not looked at.
ReserveInterrupted(t) ==
    /\ At(t, "wait")
    /\ reserve = 0
    /\ Goto(t, "lock")
    /\ UNCHANGED <<m_MaxConn, connList, lock, reserve, counters, conRAII,
                   exiting, closed, crashed>>

GetLock(t) ==
    /\ At(t, "lock")
    /\ lock = Nobody
    /\ lock' = t
    /\ Goto(t, "pop")
    /\ UNCHANGED <<m_MaxConn, connList, reserve, counters, conRAII, exiting,
                   closed, crashed>>

\* Mutant: front() without pop_front().
PopForgotten(t) ==
    /\ At(t, "pop")
    /\ connList # <<>>
    /\ conRAII' = [conRAII EXCEPT ![t] = Head(connList)]
    /\ m_FreeConn' = m_FreeConn - 1
    /\ m_CurConn' = m_CurConn + 1
    /\ lock' = Nobody
    /\ Goto(t, "have")
    /\ UNCHANGED <<m_MaxConn, connList, reserve, exiting, closed, crashed>>

\* Mutant: the counter of connections in use is not kept.
PopMiscounts(t) ==
    /\ At(t, "pop")
    /\ connList # <<>>
    /\ conRAII' = [conRAII EXCEPT ![t] = Head(connList)]
    /\ connList' = Tail(connList)
    /\ m_FreeConn' = m_FreeConn - 1
    /\ lock' = Nobody
    /\ Goto(t, "have")
    /\ UNCHANGED <<m_MaxConn, reserve, m_CurConn, exiting, closed, crashed>>

Pop(t) ==
    /\ At(t, "pop")
    /\ connList # <<>>
    /\ conRAII' = [conRAII EXCEPT ![t] = Head(connList)]
    /\ connList' = Tail(connList)
    /\ m_FreeConn' = m_FreeConn - 1
    /\ m_CurConn' = m_CurConn + 1
    /\ lock' = Nobody
    /\ Goto(t, "have")
    /\ UNCHANGED <<m_MaxConn, reserve, exiting, closed, crashed>>

\* Undefined behaviour: libstdc++'s pop_front() unlinks and frees the header
\* node, which is part of the pool object, and free() aborts.
PopEmpty(t) ==
    /\ At(t, "pop")
    /\ connList = <<>>
    /\ crashed' = TRUE
    /\ UNCHANGED <<m_MaxConn, connList, lock, reserve, counters, pc, conRAII,
                   exiting, closed>>

-----------------------------------------------------------------------------
(* ReleaseConnection(), called by the destructor of connectionRAII         *)

ReleaseNull(t) ==
    /\ At(t, "have")
    /\ conRAII[t] = NULL
    /\ Goto(t, "idle")
    /\ UNCHANGED <<m_MaxConn, connList, lock, reserve, counters, conRAII,
                   exiting, closed, crashed>>

\* Mutant: no early return for a client that was given NULL.
ReleaseAnything(t) ==
    /\ At(t, "have")
    /\ Goto(t, "relock")
    /\ UNCHANGED <<m_MaxConn, connList, lock, reserve, counters, conRAII,
                   exiting, closed, crashed>>

\* Mutant: the early return is taken for a connection, which is lost.
ReleaseDrops(t) ==
    /\ At(t, "have")
    /\ conRAII[t] # NULL
    /\ conRAII' = [conRAII EXCEPT ![t] = NULL]
    /\ Goto(t, "idle")
    /\ UNCHANGED <<m_MaxConn, connList, lock, reserve, counters,
                   exiting, closed, crashed>>

Release(t) ==
    /\ At(t, "have")
    /\ conRAII[t] # NULL
    /\ Goto(t, "relock")
    /\ UNCHANGED <<m_MaxConn, connList, lock, reserve, counters, conRAII,
                   exiting, closed, crashed>>

ReleaseLock(t) ==
    /\ At(t, "relock")
    /\ lock = Nobody
    /\ lock' = t
    /\ Goto(t, "push")
    /\ UNCHANGED <<m_MaxConn, connList, reserve, counters, conRAII, exiting,
                   closed, crashed>>

\* The connectionRAII object is being destroyed: its copy of the pointer ends.
ReleasePush(t) ==
    /\ At(t, "push")
    /\ connList' = Append(connList, conRAII[t])
    /\ conRAII' = [conRAII EXCEPT ![t] = NULL]
    /\ m_FreeConn' = m_FreeConn + 1
    /\ m_CurConn' = m_CurConn - 1
    /\ lock' = Nobody
    /\ Goto(t, "post")
    /\ UNCHANGED <<m_MaxConn, reserve, exiting, closed, crashed>>

\* Mutant: the connection goes back without a permit.
ReleaseNoPost(t) ==
    /\ At(t, "post")
    /\ Goto(t, "idle")
    /\ UNCHANGED <<m_MaxConn, connList, lock, reserve, counters, conRAII,
                   exiting, closed, crashed>>

ReleasePost(t) ==
    /\ At(t, "post")
    /\ reserve' = reserve + 1
    /\ Goto(t, "idle")
    /\ UNCHANGED <<m_MaxConn, connList, lock, counters, conRAII, exiting,
                   closed, crashed>>

-----------------------------------------------------------------------------
(* DestroyPool(): the destructor of the static pool, run when main()       *)
(* returns.  The workers are detached and still running.                   *)

DestroyBegins ==
    /\ ~crashed
    /\ exiting = "no"
    /\ exiting' = "lock"
    /\ UNCHANGED <<m_MaxConn, connList, lock, reserve, counters, pc, conRAII,
                   closed, crashed>>

DestroyLock ==
    /\ ~crashed
    /\ exiting = "lock"
    /\ lock = Nobody
    /\ lock' = Exit
    /\ exiting' = "destroy"
    /\ UNCHANGED <<m_MaxConn, connList, reserve, counters, pc, conRAII,
                   closed, crashed>>

\* The semaphore keeps its permits.
Destroy ==
    /\ ~crashed
    /\ exiting = "destroy"
    /\ IF connList # <<>>
         THEN /\ closed' = closed \cup {connList[i] : i \in 1..Len(connList)}
              /\ m_FreeConn' = 0 /\ m_CurConn' = 0
              /\ connList' = <<>>
         ELSE UNCHANGED <<closed, counters, connList>>
    /\ lock' = Nobody
    /\ exiting' = "done"
    /\ UNCHANGED <<m_MaxConn, reserve, pc, conRAII, crashed>>

-----------------------------------------------------------------------------
Get(t) == GetNull(t) \/ GetSome(t)
Locks(t) == GetLock(t) \/ ReleaseLock(t)
Runs(t) == Pop(t) \/ PopEmpty(t) \/ ReleaseNull(t) \/ Release(t)
             \/ ReleasePush(t) \/ ReleasePost(t)
ClientStep(t) ==
    Get(t) \/ ReserveWait(t) \/ ReserveInterrupted(t) \/ Locks(t) \/ Runs(t)

Next ==
    \/ \E t \in Clients : ClientStep(t)
    \/ DestroyBegins \/ DestroyLock \/ Destroy

Safety == Init /\ [][Next]_vars

\* Threads that can run do run.  process() returns, so a connection is given
\* back.  DestroyPool(), once begun, goes on.  No fairness for new requests,
\* for signals or for the program's exit.
Fairness ==
    /\ \A t \in Clients :
         WF_vars(ReserveWait(t)) /\ WF_vars(Locks(t)) /\ WF_vars(Runs(t))
    /\ WF_vars(DestroyLock \/ Destroy)

Spec == Safety /\ Fairness

-----------------------------------------------------------------------------
(* Properties.                                                             *)

\* Every variable keeps its type; a client in GetConnection holds nothing and
\* one that gives a connection back has it.
TypeOK ==
    /\ m_MaxConn \in Conns
    /\ connList \in Seq(Conns)
    /\ lock \in Clients \cup {Nobody, Exit}
    /\ reserve \in Nat
    /\ m_FreeConn \in Int /\ m_CurConn \in Int
    /\ pc \in [Clients -> PcLabels]
    /\ conRAII \in [Clients -> Conns \cup {NULL}]
    /\ \A t \in Clients :
        /\ pc[t] \in {"idle", "wait", "lock", "pop", "post"} =>
               conRAII[t] = NULL
        /\ pc[t] \in {"relock", "push"} => conRAII[t] # NULL
    /\ exiting \in {"no", "lock", "destroy", "done"}
    /\ closed \in SUBSET Conns
    /\ crashed \in BOOLEAN

Idle == {connList[i] : i \in 1..Len(connList)}
Holders == {t \in Clients : conRAII[t] # NULL}

\* A connection is in one place: once in the list, with one client, or closed.
OnePlace ==
    /\ \A i, j \in 1..Len(connList) : i # j => connList[i] # connList[j]
    /\ \A t \in Holders : conRAII[t] \notin Idle
    /\ \A s, t \in Holders : conRAII[s] = conRAII[t] => s = t
    /\ closed \cap (Idle \cup {conRAII[t] : t \in Holders}) = {}

\* No connection leaks: the list and the clients account for all of them, and
\* the two counters for each, until the pool is destroyed.
NothingLeaks ==
    exiting # "done" =>
        /\ Len(connList) + Cardinality(Holders) = m_MaxConn
        /\ m_FreeConn = Len(connList)
        /\ m_CurConn = Cardinality(Holders)

\* A configuration with a connection for each client (the defaults: 8 and 8)
\* never hands out NULL and never pops an empty list, whatever signals arrive.
EnoughIsEnough ==
    Cardinality(Clients) <= m_MaxConn /\ exiting # "done" =>
        /\ ~crashed
        /\ \A t \in Clients : pc[t] = "have" => conRAII[t] # NULL

\* When requests stop coming every client gets through: none is left waiting
\* for a permit (unless the program aborts).
RequestsDrain ==
    <>[][\A t \in Clients : ~Get(t)]_vars
        => <>[](crashed \/ \A t \in Clients : pc[t] = "idle")

\* What the comment in GetConnection says: past the semaphore there is an
\* idle connection to take out of the list.
WaitMeansAvailable ==
    exiting = "no" => \A t \in Clients : pc[t] = "pop" => connList # <<>>
=============================================================================
