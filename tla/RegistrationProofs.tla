------------------------- MODULE RegistrationProofs -------------------------
(***************************************************************************)
(* Theorems about Registration, for all workers, names and passwords and   *)
(* any number of rows and restarts: types and the mutex, the agreement of  *)
(* map and table, the truth of the answers, the stability of entries, and  *)
(* when names are unique.                                                  *)
(***************************************************************************)
EXTENDS Registration, TLAPS

\* What a worker has done so far in the critical section it is in: its pair is
\* a row, or its INSERT failed, and then its name is in the map.
ProgressInv ==
    \A w \in Workers :
        /\ pc[w] \in {"insert", "unlock", "answer"} =>
            form[w] \in Rows \cup failed
        /\ pc[w] \in {"insert", "unlock", "answer"} /\ res[w] = 0 =>
            form[w] \in Rows
        /\ pc[w] = "unlock" => Known(form[w].username)

\* Entries of the map are backed at any time, and the only name of the table
\* that may not be in the map yet is that of the worker about to insert it.
BackedInv ==
    up => /\ \A n \in Names :
                Known(n) => Pair(n, users[n]) \in Rows \cup failed
          /\ \A r \in Rows : \/ Known(r.username)
                             \/ \E w \in Workers : pc[w] = "insert"
                                                    /\ form[w] = r

\* Nobody works and nothing is in the map while the server is down.
DownInv ==
    ~up => /\ m_lock = Nobody
           /\ \A w \in Workers : pc[w] = "idle"

IInv == TypeOK /\ DownInv /\ ProgressInv /\ BackedInv /\ AnswersAreTrue

-----------------------------------------------------------------------------
(* Rows.                                                                   *)

\* A new row joins the rows of the table.
LEMMA AppendRow ==
    ASSUME NEW t \in Seq(Row), NEW r \in Row
    PROVE  {Append(t, r)[i] : i \in DOMAIN Append(t, r)}
                = {t[i] : i \in DOMAIN t} \cup {r}
<1>1. /\ DOMAIN Append(t, r) = DOMAIN t \cup {Len(t) + 1}
      /\ \A i \in DOMAIN t : Append(t, r)[i] = t[i]
      /\ Append(t, r)[Len(t) + 1] = r
  OBVIOUS
<1> QED BY <1>1

\* The rows of a typed table are typed.
LEMMA RowsTyped ==
    ASSUME table \in Seq(Row)
    PROVE  /\ \A i \in DOMAIN table :
                /\ table[i] \in Row
                /\ table[i].username \in Names /\ table[i].passwd \in Passwords
           /\ \A r \in Rows : r \in Row /\ r.username \in Names
<1>1. \A i \in DOMAIN table : table[i] \in Row
  OBVIOUS
<1> QED BY <1>1 DEF Row, Rows

-----------------------------------------------------------------------------
(* Type correctness, the mutex included.                                   *)

LEMMA TypeStep == TypeOK /\ DownInv /\ [Next]_vars => TypeOK'
<1> SUFFICES ASSUME TypeOK, DownInv, [Next]_vars
             PROVE  TypeOK'
  OBVIOUS
<1> USE RegistrationAssumption
<1>1. ASSUME NEW w \in Workers, NEW n \in Names, NEW p \in Passwords,
              Begin(w, n, p, "find") \/ Begin(w, n, p, "login")
      PROVE  TypeOK'
  <2>1. Pair(n, p) \in Row /\ Pair(n, p) # NoForm
    BY DEF Pair, Row
  <2> QED BY <1>1, <2>1 DEF TypeOK, Begin, Goto, PcLabels
<1>2. ASSUME NEW w \in Workers, Find(w)
      PROVE  TypeOK'
  BY <1>2 DEF TypeOK, Find, Goto, PcLabels, Row
<1>3. ASSUME NEW w \in Workers, Refuse(w)
      PROVE  TypeOK'
  BY <1>3 DEF TypeOK, Refuse, Done, Goto, PcLabels, Row
<1>4. ASSUME NEW w \in Workers, Lock(w)
      PROVE  TypeOK'
  BY <1>4 DEF TypeOK, Lock, Goto, PcLabels, Row
<1>5. ASSUME NEW w \in Workers, Query(w)
      PROVE  TypeOK'
  BY <1>5 DEF TypeOK, Query, Goto, PcLabels, Row
<1>6. ASSUME NEW w \in Workers, QueryFails(w)
      PROVE  TypeOK'
  BY <1>6 DEF TypeOK, QueryFails, Goto, PcLabels, Row
<1>7. ASSUME NEW w \in Workers, Insert(w)
      PROVE  TypeOK'
  BY <1>7 DEF TypeOK, Insert, Goto, PcLabels, Row
<1>8. ASSUME NEW w \in Workers, Unlock(w)
      PROVE  TypeOK'
  BY <1>8 DEF TypeOK, Unlock, Goto, PcLabels, Row
<1>9. ASSUME NEW w \in Workers, Answer(w)
      PROVE  TypeOK'
  BY <1>9 DEF TypeOK, Answer, Done, Goto, PcLabels, Row
<1>10. ASSUME NEW w \in Workers, Welcome(w)
      PROVE  TypeOK'
  BY <1>10 DEF TypeOK, Welcome, Goto, PcLabels, Row
<1>11. ASSUME NEW w \in Workers, LoginError(w)
      PROVE  TypeOK'
  BY <1>11 DEF TypeOK, LoginError, Done, Goto, PcLabels, Row
<1>12. ASSUME NEW w \in Workers, Leave(w)
      PROVE  TypeOK'
  BY <1>12 DEF TypeOK, Leave, Done, Goto, PcLabels, Row
<1>13. CASE Crash
  BY <1>13 DEF TypeOK, Crash, PcLabels
<1>14. CASE Start
  BY <1>14 DEF TypeOK, DownInv, Start, PcLabels
<1>15. CASE UNCHANGED vars
  BY <1>15 DEF TypeOK, vars
<1> QED
  BY <1>1, <1>2, <1>3, <1>4, <1>5, <1>6, <1>7, <1>8, <1>9, <1>10, <1>11, <1>12,
     <1>13, <1>14, <1>15 DEF Next, Registers,
     LogsIn

-----------------------------------------------------------------------------
(* Map, table and answers.                                                 *)

Agree == DownInv /\ ProgressInv /\ BackedInv /\ AnswersAreTrue

LEMMA AgreeStep == TypeOK /\ Agree /\ [Next]_vars => Agree'
<1> SUFFICES ASSUME TypeOK, Agree, [Next]_vars
             PROVE  Agree'
  OBVIOUS
<1> USE RegistrationAssumption
<1>0. ASSUME UNCHANGED table PROVE Rows' = Rows
  BY <1>0 DEF Rows
<1>1. ASSUME NEW w \in Workers, NEW n \in Names, NEW p \in Passwords,
              Begin(w, n, p, "find") \/ Begin(w, n, p, "login")
      PROVE  Agree'
  BY <1>1, <1>0 DEF Agree, DownInv, ProgressInv, BackedInv, AnswersAreTrue,
                    TypeOK, PcLabels, Known, Begin, Goto
<1>2. ASSUME NEW w \in Workers, Find(w)
      PROVE  Agree'
  BY <1>2, <1>0 DEF Agree, DownInv, ProgressInv, BackedInv, AnswersAreTrue,
                    TypeOK, PcLabels, Known, Find, Goto
<1>3. ASSUME NEW w \in Workers, Refuse(w)
      PROVE  Agree'
  BY <1>3, <1>0 DEF Agree, DownInv, ProgressInv, BackedInv, AnswersAreTrue,
                    TypeOK, PcLabels, Known, Refuse, Done, Goto
<1>4. ASSUME NEW w \in Workers, Lock(w)
      PROVE  Agree'
  BY <1>4, <1>0 DEF Agree, DownInv, ProgressInv, BackedInv, AnswersAreTrue,
                    TypeOK, PcLabels, Known, Lock, Goto
<1>5. ASSUME NEW w \in Workers, QueryFails(w)
      PROVE  Agree'
  BY <1>5, <1>0 DEF Agree, DownInv, ProgressInv, BackedInv, AnswersAreTrue,
                    TypeOK, PcLabels, Known, QueryFails, Goto
<1>6. ASSUME NEW w \in Workers, Unlock(w)
      PROVE  Agree'
  BY <1>6, <1>0 DEF Agree, DownInv, ProgressInv, BackedInv, AnswersAreTrue,
                    TypeOK, PcLabels, Known, Unlock, Goto
<1>7. ASSUME NEW w \in Workers, Answer(w)
      PROVE  Agree'
  BY <1>7, <1>0 DEF Agree, DownInv, ProgressInv, BackedInv, AnswersAreTrue,
                    TypeOK, PcLabels, Known, Answer, Done, Goto
<1>8. ASSUME NEW w \in Workers, Welcome(w)
      PROVE  Agree'
  <2>1. form[w] \in Row
    BY <1>8 DEF TypeOK, Welcome
  <2>2. /\ form[w].username \in Names /\ form[w].passwd \in Passwords
        /\ form[w] = Pair(form[w].username, form[w].passwd)
    BY <2>1 DEF Row, Pair
  <2>3. Known(form[w].username) /\ users[form[w].username] = form[w].passwd
    BY <1>8, <2>2 DEF Welcome, Known
  <2>4. up
    BY <1>8 DEF Agree, DownInv, Welcome
  <2>5. form[w] \in Rows \cup failed
    BY <2>2, <2>3, <2>4 DEF Agree, BackedInv
  <2> QED
    BY <1>8, <1>0, <2>4, <2>5
    DEF Agree, DownInv, ProgressInv, BackedInv, AnswersAreTrue, TypeOK,
        Known, Welcome, Goto
<1>9. ASSUME NEW w \in Workers, LoginError(w)
      PROVE  Agree'
  BY <1>9, <1>0 DEF Agree, DownInv, ProgressInv, BackedInv, AnswersAreTrue,
                    TypeOK, PcLabels, Known, LoginError, Done, Goto
<1>10. ASSUME NEW w \in Workers, Leave(w)
      PROVE  Agree'
  BY <1>10, <1>0 DEF Agree, DownInv, ProgressInv, BackedInv, AnswersAreTrue,
                    TypeOK, PcLabels, Known, Leave, Done, Goto
\* A new row is that of the worker that goes on to insert().
<1>11. ASSUME NEW w \in Workers, Query(w)
      PROVE  Agree'
  <2>1. form[w] \in Row
    BY <1>11 DEF TypeOK, Query
  <2>2. Rows' = Rows \cup {form[w]}
    <3>1. table \in Seq(Row) /\ table' = Append(table, form[w])
      BY <1>11 DEF TypeOK, Query
    <3> QED BY <3>1, <2>1, AppendRow DEF Rows
  <2>3. /\ pc' = [pc EXCEPT ![w] = "insert"] /\ res' = [res EXCEPT ![w] = 0]
        /\ UNCHANGED <<users, form, up, accepted, failed, m_lock>>
        /\ pc[w] = "query"
    BY <1>11 DEF Query, Goto
  <2>4. pc'[w] = "insert" /\ form'[w] = form[w]
    BY <2>3 DEF TypeOK
  <2>5. \A v \in Workers \ {w} : pc'[v] = pc[v] /\ res'[v] = res[v]
    BY <2>3 DEF TypeOK
  <2>6. DownInv' /\ AnswersAreTrue'
    BY <2>2, <2>3, <2>4, <2>5 DEF Agree, DownInv, AnswersAreTrue
  <2>7. ProgressInv'
    BY <2>2, <2>3, <2>4, <2>5 DEF Agree, ProgressInv, Known
  <2>8. BackedInv'
    BY <2>2, <2>3, <2>4, <2>5 DEF Agree, BackedInv, Known
  <2> QED BY <2>6, <2>7, <2>8 DEF Agree
\* The mutex makes this worker the one whose name was missing.
<1>12. ASSUME NEW w \in Workers, Insert(w)
      PROVE  Agree'
  <2>1. form[w] \in Row
    BY <1>12 DEF TypeOK, Insert
  <2>2. /\ pc' = [pc EXCEPT ![w] = "unlock"] /\ pc[w] = "insert"
        /\ UNCHANGED <<form, up, accepted, failed, m_lock, res>>
        /\ Rows' = Rows
        /\ users' = IF Known(form[w].username) THEN users
                    ELSE [users EXCEPT ![form[w].username] = form[w].passwd]
    BY <1>12, <1>0 DEF Insert, Goto
  <2>3. pc'[w] = "unlock" /\ \A v \in Workers \ {w} : pc'[v] = pc[v]
    BY <2>2 DEF TypeOK
  <2>4. \A v \in Workers : pc[v] = "insert" => v = w
    BY <2>2 DEF TypeOK
  <2>5. /\ form[w].username \in Names /\ form[w].passwd \in Passwords
        /\ form[w] = Pair(form[w].username, form[w].passwd)
    BY <2>1 DEF Row, Pair
  <2>6. /\ Known(form[w].username)'
        /\ \A n \in Names : Known(n) => users'[n] = users[n] /\ Known(n)'
        /\ \A n \in Names : Known(n)' => \/ Known(n) /\ users'[n] = users[n]
                                        \/ Pair(n, users'[n]) = form[w]
    BY <2>2, <2>5 DEF TypeOK, Known
  <2>7. DownInv' /\ AnswersAreTrue'
    BY <2>2, <2>3 DEF Agree, DownInv, AnswersAreTrue
  <2>8. \A v \in Workers : pc[v] = "unlock" => form[v].username \in Names
    BY DEF TypeOK, Row
  <2>9. ProgressInv'
    BY <2>2, <2>3, <2>6, <2>8 DEF Agree, ProgressInv
  <2>10. \A r \in Rows : r.username \in Names
    BY RowsTyped DEF TypeOK
  <2>11. form[w] \in Rows \cup failed
    BY <2>2 DEF Agree, ProgressInv
  <2>12. BackedInv'
    BY <2>2, <2>4, <2>6, <2>10, <2>11 DEF Agree, BackedInv
  <2> QED BY <2>7, <2>9, <2>12 DEF Agree
<1>13. CASE Crash
  BY <1>13, <1>0 DEF Agree, DownInv, ProgressInv, BackedInv, AnswersAreTrue,
                    TypeOK, PcLabels, Crash
\* The map is read back from the table.
<1>14. CASE Start
  <2>1. /\ up' /\ UNCHANGED <<m_lock, pc, form, res, accepted, failed>>
        /\ \A w \in Workers : pc[w] = "idle"
        /\ Rows' = Rows
    BY <1>14, <1>0 DEF Start, Agree, DownInv
  <2>2. ASSUME NEW n \in Names, Known(n)'
        PROVE  Pair(n, users'[n]) \in Rows
    <3>1. PICK i \in RowsOf(n) : users'[n] = table[i].passwd
      BY <1>14, <2>2 DEF Start, Known
    <3>2. i \in DOMAIN table /\ table[i].username = n /\ table[i] \in Row
      BY <3>1 DEF RowsOf, TypeOK
    <3>3. table[i] = Pair(n, users'[n])
      BY <3>1, <3>2 DEF Row, Pair
    <3> QED BY <3>2, <3>3 DEF Rows
  <2>3. ASSUME NEW r \in Rows
        PROVE  Known(r.username)'
    <3>1. PICK k \in DOMAIN table : r = table[k]
      BY DEF Rows
    <3>2. r \in Row /\ r.username \in Names /\ RowsOf(r.username) # {}
      BY <3>1, RowsTyped DEF TypeOK, RowsOf
    <3>3. PICK i \in RowsOf(r.username) : users'[r.username] = table[i].passwd
      BY <1>14, <3>2 DEF Start
    <3>4. table[i].passwd \in Passwords
      BY <3>3, RowsTyped DEF RowsOf, TypeOK
    <3> QED BY <3>3, <3>4 DEF Known
  <2> QED BY <2>1, <2>2, <2>3
        DEF Agree, DownInv, ProgressInv, BackedInv, AnswersAreTrue
<1>15. CASE UNCHANGED vars
  BY <1>15, <1>0 DEF Agree, DownInv, ProgressInv, BackedInv, AnswersAreTrue,
                    Known, vars
<1> QED
  BY <1>1, <1>2, <1>3, <1>4, <1>5, <1>6, <1>7, <1>8, <1>9, <1>10, <1>11, <1>12,
     <1>13, <1>14, <1>15 DEF Next, Registers, LogsIn

-----------------------------------------------------------------------------
(* Theorems.                                                               *)

LEMMA Invariance == Spec => []IInv
<1>1. Init => IInv
  BY RegistrationAssumption
  DEF Init, IInv, TypeOK, DownInv, ProgressInv, BackedInv, AnswersAreTrue,
      PcLabels, Rows, Known
<1>2. IInv /\ [Next]_vars => IInv'
  BY TypeStep, AgreeStep DEF IInv, Agree
<1> QED BY <1>1, <1>2, PTL DEF Spec

\* Every variable keeps its type, and no two workers are between lock() and
\* unlock().
THEOREM TypeCorrect == Spec => []TypeOK
<1>1. IInv => TypeOK
  BY DEF IInv
<1> QED BY <1>1, Invariance, PTL

\* A client that was sent to log.html has its row, and one that was welcomed
\* gave a pair of the table or one whose INSERT failed.
THEOREM AnswersTrue == Spec => []AnswersAreTrue
<1>1. IInv => AnswersAreTrue
  BY DEF IInv
<1> QED BY <1>1, Invariance, PTL

\* Whenever m_lock is free, the map and the table agree.
THEOREM MapAndTableAgree == Spec => []MapMatchesTable
<1>1. IInv => MapMatchesTable
  BY RegistrationAssumption
  DEF IInv, BackedInv, MapMatchesTable, TypeOK
<1> QED BY <1>1, Invariance, PTL

\* No registration changes the password of a name that is in the map.
THEOREM EntriesAreStable == Spec => EntryIsStable
<1> DEFINE A == \A n \in Names : up /\ up' /\ Known(n) => users'[n] = users[n]
<1>1. TypeOK /\ Next => A
  BY DEF Next, Registers, LogsIn, Begin, Find, Refuse, Lock, Query, QueryFails,
         Insert, Unlock, Answer, Welcome, LoginError, Leave, Crash, Start,
         Known, TypeOK
<1>2. TypeOK /\ [Next]_vars => [A]_vars
  BY <1>1
<1> QED BY <1>2, TypeCorrect, PTL DEF Spec, EntryIsStable
-----------------------------------------------------------------------------
(* When a name is registered once.                                         *)

Between == {"find", "lock", "query", "insert"}

\* Nobody registers a name that another worker is registering, and nobody
\* looks the map up while another worker is inside users.insert().
TakeTurns ==
    /\ \A v, w \in Workers :
         /\ pc[v] \in Between /\ pc[w] \in Between
         /\ form[v].username = form[w].username
         => v = w
    /\ \A w \in Workers : pc[w] = "find" => ~Inserting(w)

\* A name that a worker is about to insert is new, to the table as well.
UniqueInv ==
    /\ OneRowPerName
    /\ \A w \in Workers :
         pc[w] \in {"lock", "query"} => ~Known(form[w].username)

LEMMA UniqueStep ==
    IInv /\ UniqueInv /\ TakeTurns /\ [Next]_vars => UniqueInv'
<1> SUFFICES ASSUME IInv, UniqueInv, TakeTurns, [Next]_vars
             PROVE  UniqueInv'
  OBVIOUS
<1> USE RegistrationAssumption
<1>0. TypeOK /\ DownInv /\ BackedInv
  BY DEF IInv
<1>1. ASSUME NEW w \in Workers, NEW n \in Names, NEW p \in Passwords,
             Begin(w, n, p, "find") \/ Begin(w, n, p, "login")
      PROVE  UniqueInv'
  BY <1>0, <1>1 DEF UniqueInv, OneRowPerName, TypeOK, Known, Begin, Goto
\* find() sees the whole map, so the name is not in it.
<1>2. ASSUME NEW w \in Workers, Find(w)
      PROVE  UniqueInv'
  <2>1. ~Known(form[w].username)
    BY <1>2 DEF Find, TakeTurns
  <2> QED
    BY <1>0, <1>2, <2>1
       DEF UniqueInv, OneRowPerName, TypeOK, Known, Find, Goto
<1>3. ASSUME NEW w \in Workers, Lock(w)
      PROVE  UniqueInv'
  BY <1>0, <1>3 DEF UniqueInv, OneRowPerName, TypeOK, Known, Lock, Goto
\* A row with this name would be in the map, or be about to be inserted there
\* by another worker with the same name.
<1>4. ASSUME NEW w \in Workers, Query(w)
      PROVE  UniqueInv'
  <2>1. /\ table \in Seq(Row) /\ table' = Append(table, form[w])
        /\ form[w] \in Row
        /\ pc[w] = "query" /\ pc' = [pc EXCEPT ![w] = "insert"]
        /\ UNCHANGED <<users, form>>
    BY <1>0, <1>4 DEF TypeOK, Query, Goto
  <2>2. up /\ ~Known(form[w].username)
    BY <1>0, <2>1 DEF UniqueInv, DownInv, TypeOK
  <2>3. ASSUME NEW r \in Rows
        PROVE  r.username # form[w].username
    BY <1>0, <2>1, <2>2 DEF BackedInv, TakeTurns, Between
  <2>4. \A i \in DOMAIN table : table[i].username # form[w].username
    BY <2>3 DEF Rows
  <2>5. /\ DOMAIN table' = DOMAIN table \cup {Len(table) + 1}
        /\ \A i \in DOMAIN table : table'[i] = table[i]
        /\ table'[Len(table) + 1] = form[w]
    BY <2>1
  <2>6. OneRowPerName'
    BY <2>4, <2>5 DEF UniqueInv, OneRowPerName
  <2>7. \A v \in Workers :
          pc'[v] \in {"lock", "query"} => ~Known(form[v].username)'
    BY <1>0, <2>1 DEF UniqueInv, Known, TypeOK
  <2> QED
    BY <2>6, <2>7 DEF UniqueInv
<1>5. ASSUME NEW w \in Workers, QueryFails(w)
      PROVE  UniqueInv'
  BY <1>0, <1>5 DEF UniqueInv, OneRowPerName, TypeOK, Known, QueryFails, Goto
\* The others between find() and insert() have other names.
<1>6. ASSUME NEW w \in Workers, Insert(w)
      PROVE  UniqueInv'
  <2>1. /\ UNCHANGED <<table, form>>
        /\ pc[w] = "insert" /\ pc' = [pc EXCEPT ![w] = "unlock"]
        /\ \A n \in Names : n # form[w].username => users'[n] = users[n]
    BY <1>0, <1>6 DEF TypeOK, Insert, Goto
  <2>2. \A v \in Workers : pc[v] # "idle" => form[v].username \in Names
    BY <1>0 DEF TypeOK, Row
  <2>3. \A v \in Workers :
          pc[v] \in {"lock", "query"} => form[v].username # form[w].username
    BY <2>1 DEF TakeTurns, Between
  <2> QED
    BY <1>0, <2>1, <2>2, <2>3 DEF UniqueInv, OneRowPerName, Known, TypeOK
<1>7. ASSUME NEW w \in Workers, Unlock(w)
      PROVE  UniqueInv'
  BY <1>0, <1>7 DEF UniqueInv, OneRowPerName, TypeOK, Known, Unlock, Goto
<1>8. ASSUME NEW w \in Workers, Refuse(w) \/ Answer(w)
      PROVE  UniqueInv'
  BY <1>0, <1>8 DEF UniqueInv, OneRowPerName, TypeOK, Known, Refuse, Answer,
     Done, Goto
<1>9. ASSUME NEW w \in Workers, LogsIn(w)
      PROVE  UniqueInv'
  BY <1>0, <1>9 DEF UniqueInv, OneRowPerName, TypeOK, Known, LogsIn, Welcome,
     LoginError, Leave, Done, Goto
<1>10. CASE Crash \/ Start
  BY <1>0, <1>10 DEF UniqueInv, OneRowPerName, DownInv, Crash, Start
<1>11. CASE UNCHANGED vars
  BY <1>11 DEF UniqueInv, OneRowPerName, Known, vars
<1> QED
  BY <1>1, <1>2, <1>3, <1>4, <1>5, <1>6, <1>7, <1>8, <1>9, <1>10, <1>11
     DEF Next, Registers

\* The comment that registration is safe with several threads is right for
\* clients that register different names and look none up in the middle of an
\* insertion; restarts and failed queries do no harm.  So two workers with one
\* name, and the unprotected find(), are the only causes of the violation that
\* the run registration_twice shows.
THEOREM NamesAreUniqueInTurns == Spec /\ []TakeTurns => []OneRowPerName
<1>1. Init => UniqueInv
  BY DEF Init, UniqueInv, OneRowPerName
<1>2. UniqueInv => OneRowPerName
  BY DEF UniqueInv
<1> QED
  BY <1>1, <1>2, UniqueStep, Invariance, PTL DEF Spec
=============================================================================
