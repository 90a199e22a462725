---------------------------- MODULE Registration ----------------------------
(***************************************************************************)
(* Login and registration in http_conn::do_request: worker threads share   *)
(* the map users, which initmysql_result fills at start, the mutex m_lock  *)
(* and the table user of the database, which has no key (README.md:52).    *)
(*                                                                         *)
(* The map is searched without the lock.  A search that meets an insertion *)
(* is a data race; the outcome modelled is that it may miss a name.  The   *)
(* process may also be killed at any point and started again.              *)
(***************************************************************************)
EXTENDS Naturals, Sequences, FiniteSets

CONSTANTS
    Workers, Names, Passwords,
    NoPassword,     \* of a name that is not in the map
    NoForm,         \* a worker without a form
    Nobody,         \* m_lock is free
    MaxRows,        \* bound: rows of the table
    MaxStarts       \* bound: times the server is started

ASSUME RegistrationAssumption ==
    /\ NoPassword \notin Passwords
    /\ Nobody \notin Workers
    /\ NoForm \notin [username : Names, passwd : Passwords]
    /\ MaxRows \in Nat /\ MaxStarts \in Nat

VARIABLES
    users,          \* the map: a password for each name, or NoPassword
    table,          \* the rows of the table, in order
    m_lock,         \* who holds it
    pc, form, res,  \* each worker: next statement, name and password, result
    up,             \* the server runs
    starts,         \* times it was started
    accepted,       \* history: pairs whose client was sent to log.html
    failed          \* history: pairs whose INSERT failed since the start

vars == <<users, table, m_lock, pc, form, res, up, starts, accepted,
          failed>>

Row == [username : Names, passwd : Passwords]
Rows == {table[i] : i \in DOMAIN table}
Pair(n, p) == [username |-> n, passwd |-> p]
Known(n) == users[n] # NoPassword
Goto(w, label) == pc' = [pc EXCEPT ![w] = label]

\* The page is on its way.
Done(w) ==
    /\ Goto(w, "idle")
    /\ form' = [form EXCEPT ![w] = NoForm]
    /\ res' = [res EXCEPT ![w] = 0]

Init ==
    /\ users = [n \in Names |-> NoPassword]
    /\ table = <<>>
    /\ m_lock = Nobody
    /\ pc = [w \in Workers |-> "idle"]
    /\ form = [w \in Workers |-> NoForm]
    /\ res = [w \in Workers |-> 0]
    /\ up = TRUE
    /\ starts = 1
    /\ accepted = {}
    /\ failed = {}

-----------------------------------------------------------------------------
(* A worker in do_request.                                                 *)

\* A form arrives: /3 registers, /2 logs in.
Begin(w, n, p, label) ==
    /\ up /\ pc[w] = "idle"
    /\ form' = [form EXCEPT ![w] = Pair(n, p)]
    /\ Goto(w, label)
    /\ UNCHANGED <<users, table, m_lock, res, up, starts, accepted, failed>>

\* Another worker is inside users.insert().
Inserting(w) == \E v \in Workers \ {w} : pc[v] = "insert"

\* users.find(name), without the lock: a new name goes on to registration.
Find(w) ==
    /\ pc[w] = "find"
    /\ ~Known(form[w].username) \/ Inserting(w)
    /\ Goto(w, "lock")
    /\ UNCHANGED <<users, table, m_lock, form, res, up, starts, accepted,
                   failed>>

\* ... a known one is answered with registerError.html.
Refuse(w) ==
    /\ pc[w] = "find"
    /\ Known(form[w].username)
    /\ Done(w)
    /\ UNCHANGED <<users, table, m_lock, up, starts, accepted, failed>>

\* Mutant: the insertion is not protected.
LockAnyway(w) ==
    /\ pc[w] = "lock"
    /\ m_lock' = w
    /\ Goto(w, "query")
    /\ UNCHANGED <<users, table, form, res, up, starts, accepted, failed>>

Lock(w) ==
    /\ pc[w] = "lock"
    /\ m_lock = Nobody
    /\ m_lock' = w
    /\ Goto(w, "query")
    /\ UNCHANGED <<users, table, form, res, up, starts, accepted, failed>>

\* mysql_query: the row is inserted, since no key of the table forbids it.
Query(w) ==
    /\ pc[w] = "query"
    /\ Len(table) < MaxRows
    /\ table' = Append(table, form[w])
    /\ res' = [res EXCEPT ![w] = 0]
    /\ Goto(w, "insert")
    /\ UNCHANGED <<users, m_lock, form, up, starts, accepted, failed>>

\* ... or the query fails.
QueryFails(w) ==
    /\ pc[w] = "query"
    /\ res' = [res EXCEPT ![w] = 1]
    /\ failed' = failed \cup {form[w]}
    /\ Goto(w, "insert")
    /\ UNCHANGED <<users, table, m_lock, form, up, starts, accepted>>

\* Mutant: the map takes the last password, as it does at start.
InsertOver(w) ==
    /\ pc[w] = "insert"
    /\ users' = [users EXCEPT ![form[w].username] = form[w].passwd]
    /\ Goto(w, "unlock")
    /\ UNCHANGED <<table, m_lock, form, res, up, starts, accepted, failed>>

\* Mutant: the map is not told.
InsertNothing(w) ==
    /\ pc[w] = "insert"
    /\ Goto(w, "unlock")
    /\ UNCHANGED <<users, table, m_lock, form, res, up, starts, accepted,
                   failed>>

\* users.insert() keeps an entry that is there, and is called whether or not
\* the query succeeded.
Insert(w) ==
    /\ pc[w] = "insert"
    /\ users' = IF Known(form[w].username) THEN users
                ELSE [users EXCEPT ![form[w].username] = form[w].passwd]
    /\ Goto(w, "unlock")
    /\ UNCHANGED <<table, m_lock, form, res, up, starts, accepted, failed>>

Unlock(w) ==
    /\ pc[w] = "unlock"
    /\ m_lock' = Nobody
    /\ Goto(w, "answer")
    /\ UNCHANGED <<users, table, form, res, up, starts, accepted, failed>>

\* Mutant: everybody is sent to log.html.
AnswerYes(w) ==
    /\ pc[w] = "answer"
    /\ accepted' = accepted \cup {form[w]}
    /\ Done(w)
    /\ UNCHANGED <<users, table, m_lock, up, starts, failed>>

\* log.html if the query succeeded, registerError.html if not.
Answer(w) ==
    /\ pc[w] = "answer"
    /\ accepted' = IF res[w] = 0 THEN accepted \cup {form[w]} ELSE accepted
    /\ Done(w)
    /\ UNCHANGED <<users, table, m_lock, up, starts, failed>>

\* A login reads the map without the lock: welcome.html or logError.html.
Welcome(w) ==
    /\ pc[w] = "login"
    /\ users[form[w].username] = form[w].passwd
    /\ Goto(w, "welcome")
    /\ UNCHANGED <<users, table, m_lock, form, res, up, starts, accepted,
                   failed>>

LoginError(w) ==
    /\ pc[w] = "login"
    /\ users[form[w].username] # form[w].passwd \/ Inserting(w)
    /\ Done(w)
    /\ UNCHANGED <<users, table, m_lock, up, starts, accepted, failed>>

\* The page is on its way.
Leave(w) ==
    /\ pc[w] = "welcome"
    /\ Done(w)
    /\ UNCHANGED <<users, table, m_lock, up, starts, accepted, failed>>

-----------------------------------------------------------------------------
(* The process.                                                            *)

\* The process is killed: all that it had in memory is gone.
Crash ==
    /\ up
    /\ up' = FALSE
    /\ users' = [n \in Names |-> NoPassword]
    /\ m_lock' = Nobody
    /\ pc' = [w \in Workers |-> "idle"]
    /\ form' = [w \in Workers |-> NoForm]
    /\ res' = [w \in Workers |-> 0]
    /\ failed' = {}
    /\ UNCHANGED <<table, starts, accepted>>

RowsOf(n) == {i \in DOMAIN table : table[i].username = n}
IsLast(i, n) == i \in RowsOf(n) /\ \A j \in RowsOf(n) : j <= i

\* initmysql_result: users[temp1] = temp2 for each row, so the last row of a
\* name counts, whereas insert() keeps the first.
Start ==
    /\ ~up
    /\ starts < MaxStarts
    /\ up' = TRUE
    /\ starts' = starts + 1
    /\ users' \in [Names -> Passwords \cup {NoPassword}]
    /\ \A n \in Names :
        \/ RowsOf(n) = {} /\ users'[n] = NoPassword
        \/ \E i \in RowsOf(n) : IsLast(i, n) /\ users'[n] = table[i].passwd
    /\ UNCHANGED <<table, m_lock, pc, form, res, accepted, failed>>

-----------------------------------------------------------------------------
Registers(w) ==
    \/ Find(w) \/ Refuse(w) \/ Lock(w) \/ Query(w) \/ QueryFails(w)
    \/ Insert(w) \/ Unlock(w) \/ Answer(w)

LogsIn(w) == Welcome(w) \/ LoginError(w) \/ Leave(w)

Next ==
    \/ \E w \in Workers :
        \/ \E n \in Names, p \in Passwords :
                Begin(w, n, p, "find") \/ Begin(w, n, p, "login")
        \/ Registers(w) \/ LogsIn(w)
    \/ Crash \/ Start

Spec == Init /\ [][Next]_vars

-----------------------------------------------------------------------------
(* Properties.                                                             *)

PcLabels == {"idle", "find", "lock", "query", "insert", "unlock", "answer",
             "login", "welcome"}

\* Every variable keeps its type, and m_lock is held by whoever is between
\* lock() and unlock().
TypeOK ==
    /\ users \in [Names -> Passwords \cup {NoPassword}]
    /\ table \in Seq(Row) /\ Len(table) <= MaxRows
    /\ m_lock \in Workers \cup {Nobody}
    /\ pc \in [Workers -> PcLabels]
    /\ form \in [Workers -> Row \cup {NoForm}]
    /\ \A w \in Workers : form[w] = NoForm <=> pc[w] = "idle"
    /\ res \in [Workers -> {0, 1}]
    /\ up \in BOOLEAN /\ starts \in Nat
    /\ accepted \subseteq Row /\ failed \subseteq Row
    /\ \A w \in Workers : pc[w] \in {"query", "insert", "unlock"} =>
                                m_lock = w

\* The password of a name never changes while the server runs, however many
\* workers register it at once.
EntryIsStable ==
    [][\A n \in Names : up /\ up' /\ Known(n) => users'[n] = users[n]]_vars

\* The map and the table agree when nobody is registering: every name of the
\* table is in the map, and every entry of the map is a row, or a pair whose
\* INSERT failed since the server was started.
MapMatchesTable ==
    up /\ m_lock = Nobody =>
        /\ \A r \in Rows : Known(r.username)
        /\ \A n \in Names : Known(n) => Pair(n, users[n]) \in Rows \cup failed

\* Nobody is sent to log.html without a row in the table, which no restart
\* loses; and whoever is welcomed gave a pair that is such a row, or one whose
\* INSERT failed since the start: another client's password does not do.
AnswersAreTrue ==
    /\ accepted \subseteq Rows
    /\ \A w \in Workers : pc[w] = "welcome" => form[w] \in Rows \cup failed

\* CGImysql/README.md:13 calls registration safe with several threads: no name
\* is registered twice.
OneRowPerName ==
    \A i, j \in DOMAIN table :
        i # j => table[i].username # table[j].username
=============================================================================
