# TinyWebServerBymyself in TLA+

A TLA+ development of the web server in this repository: its threads, queues,
pools, timers, connection table and log, model-checked with TLC on small
instances, with theorems checked by TLAPS for every instance.

The server has one main thread (the event loop), a pool of worker threads, one
log thread when the log is asynchronous, and three signals (SIGALRM, SIGTERM,
SIGPIPE ignored). It runs as a *Reactor* (workers read, process and write) or as
a simulated *Proactor* (the main thread reads and writes, workers process);
`m_actormodel` is fixed at start and both models are checked together.

## 1. Inventory

| Component | Source | State | Operations |
|---|---|---|---|
| Thread pool | `threadpool/threadpool.h` | `m_workqueue`, `m_queuelocker`, `m_queuestat` | `append`, `append_p`, `run` |
| Connection pool | `CGImysql/sql_connection_pool.*` | `connList`, `lock`, `reserve`, `m_FreeConn`, `m_CurConn` | `GetConnection`, `ReleaseConnection`, `DestroyPool`, `connectionRAII` |
| Timer list | `timer/lst_timer.*` (`sort_timer_lst`) | `head`, `tail`, the nodes' `prev`, `next`, `expire` | `add_timer`, `adjust_timer`, `del_timer`, `tick` |
| Event loop and connection table | `webserver.*`, `Utils` and `cb_func` in `lst_timer.cpp`, `http_conn::init/close_conn/process` | epoll interest, `users[fd]`, `users_timer[fd]`, `m_user_count`, `timeout`, `stop_server`, the signal pipe | `eventLoop`, `dealclientdata`, `dealwithread`, `dealwithwrite`, `dealwithsignal`, `deal_timer`, `timer_handler`, `cb_func` |
| Log | `log/log.*`, `log/block_queue.h` | `m_count`, `m_today`, `m_fp`, the circular array | `write_log`, `async_write_log`, `push`, `pop`, `full` |
| HTTP request reader | `http/http_conn.cpp` | `m_read_buf`, `m_read_idx`, `m_checked_idx`, `m_start_line`, `m_check_state` | `read_once`, `parse_line`, `process_read` and its parsers |
| HTTP response writer | `http/http_conn.cpp` | `m_iv`, `bytes_to_send`, `bytes_have_send`, `m_file_address` | `do_request` (the file), `process_write`, `write`, `unmap`, `init` |
| Login and registration | `http/http_conn.cpp` (`do_request`) | the map `users`, the table `user`, `m_lock` | log in, register, load at start |
| Synchronisation | `lock/locker.h` | mutex, semaphore, condition | modelled as guards of the steps that use them |
| Start-up | `main.cpp`, `config.*`, `eventListen` | options | sequential, before any client |

### How they interact

* The main thread waits in `epoll_wait`. Every client descriptor is registered
  with EPOLLONESHOT: it reports one event and is then disarmed until
  `modfd` arms it again, normally the last act of whoever served it. This is
  the only protection of the unlocked `http_conn` objects.
* A readable (Reactor: also writable) connection becomes a task in the pool's
  queue. In the Reactor model the main thread then *spins* on
  `users[fd].improv` until a worker has read or written, and looks at
  `timer_flag` to learn whether to close the connection.
* A worker takes a database connection from the connection pool for the time of
  `process()` (`connectionRAII`).
* Each connection has a timer, moved back on every event. SIGALRM writes a byte
  into a pipe that epoll watches; after the batch of events `timer_handler`
  fires the timers that are due (`cb_func` closes the descriptor) and sets the
  next alarm.
* A request is read into a bounded buffer and parsed line by line as it arrives;
  `do_request` maps the file or uses the map of accounts, and `write` sends head
  and file from a two-part vector, as much as the socket takes at a time. The
  object is cleared for the next request or the next client by `init()`.
* The map of accounts is shared by the workers. `m_lock` covers the INSERT and
  the insertion into the map, not the look-ups. At start the map is filled from
  the table.
* All threads log. The log is a file written under a mutex, or a bounded queue
  emptied by the log thread.

### What is hard

Descriptors are reused while workers, tasks or timers still refer to them;
`m_user_count`, `improv`, `timer_flag` and the `http_conn` objects are shared
without locks; results of `sem_wait`, `append`, `push` are ignored; deadlines
come from the wall clock; check and use are in different critical sections; the
network cuts requests and responses anywhere; the map of accounts and the table
can come apart when an INSERT fails or the server is killed.
`PROJECT.json` lists these hazards one by one, each at its line, with the
properties that cover it.

### What makes each component correct

* *Thread pool*: no accepted request is forgotten with workers asleep; a request
  is in one party's hands; the handshake on `improv` is never stale and the spin
  ends.
* *Connection pool*: no connection is used by two threads, none leaks, everyone
  who waits gets one; if there are enough, nobody is turned away.
* *Timer list*: whole, without freed nodes, sorted; a pass fires what is due and
  nothing else.
* *Event loop*: no freed timer is used; the alarm chain never breaks; count,
  timers and open connections agree; one connection, one pair of hands; idle or
  stranded connections are closed; SIGTERM stops the server.
* *Log*: lines of the queue reach the file once and in order; every line is
  accounted for; files are opened in turn and filled to `m_split_lines`, as long
  as no writer counts its line for a day that is over.
* *HTTP connection*: what is parsed is what was sent, however it was cut; a
  response leaves whole and in order, however it was split; the file is
  mapped as long as it is sent and released in full after that; requests are answered.
* *Login and registration*: nobody is told of an account that is not stored or
  gets in with another password; an account does not change under its owner; map
  and table agree.

## 2. Modules

| Module | What it is |
|---|---|
| `TaskQueue` | abstract: a bounded FIFO from which each worker takes one request at a time |
| `ThreadPool` | the pool, statement by statement, and the part of the main thread that meets it; implements `TaskQueue` |
| `ThreadPoolProofs` | theorems about `ThreadPool` |
| `ConnectionPool` | the database pool with its clients and its destruction at exit |
| `ConnectionPoolProofs` | theorems about `ConnectionPool` |
| `Timers` | abstract: a set of timers and passes that fire those that are due |
| `TimerList` | the doubly linked list, pointer by pointer; implements `Timers` |
| `TimerListProofs` | theorems about `TimerList` |
| `Server` | the composition around the connection table: event loop, slots, timers, signals, workers |
| `ServerProofs` | theorems about `Server` |
| `HttpConn` | one slot from the bytes of a request to the bytes of its response |
| `HttpConnProofs` | theorems about `HttpConn` |
| `Registration` | workers that register and log in, the map, the table, restarts |
| `RegistrationProofs` | theorems about `Registration` |
| `BoundedQueue` | abstract: a bounded FIFO |
| `BlockQueue` | the circular array of `block_queue.h`, one operator per critical section |
| `Log` | writers, log thread and files, on `BlockQueue`; its queue implements `BoundedQueue` |
| `LogProofs` | theorems about `Log` |
| `Recursion` | least counterexamples and functions defined by recursion, for the proofs |
| `MC*` | instances for TLC: `EXTENDS` the module and adds the symmetry set |

Definitions named "Mutant" in a comment are not part of a model. Each is an
action or operator with a plausible bug put in; with it in place of the
definition that follows it a property fails, which is how the properties were
tested.

### ThreadPool

A step is one access to shared state, `pc[t]` names the thread's next statement.
`append`/`append_p` are `AppendLock` (the mutex), `AppendFull` or `AppendPush`,
`AppendUnlock`, `AppendPost`; `run()` is `Wait` (or `WaitInterrupted`: `sem_wait`
returns because of a signal and its result is ignored), `RunLock`, `RunEmpty` or
`RunFront`/`RunPop`, `RunUnlock`, then what `http_conn` does: `ReadOnceOk`,
`ReadFails`, `WriteOk`/`WriteImprov`, `WriteEnds`, `SetTimerFlag`, `Process`.
`Dispatch`, `SpinSees` and `SpinEnds` are the main thread. `armed[r]` is the
epoll interest of the request's descriptor. Whether a read or write succeeds is
a free choice.

### ConnectionPool

The statements under the mutex are one step, because the only access without it
reads the list's length. `GetNull`/`GetSome` is the unlocked length test,
`ReserveWait`/`ReserveInterrupted` the semaphore, `GetLock`, `Pop` or `PopEmpty`
(the list is empty: `crashed`), then `ReleaseNull` or `Release`, `ReleaseLock`,
`ReleasePush`, `ReleasePost`. `DestroyBegins`, `DestroyLock`, `Destroy` is the static
destructor, which runs while the detached workers still do. The number of
connections `m_MaxConn` is chosen in `Init` between 1 and `MaxSqlNum`.

### TimerList

`Nodes` are addresses, `live` those allocated. Additions and adjustments are one
step each, the walk of the private `add_timer` and the loop of `tick` one step
per iteration. Freed nodes keep dangling pointers, so following one would be
seen. Time advances and may be set back (`ClockSetBack`, after which `steady` is
FALSE).

### Server

Connections are numbered in order of acceptance, and the timer of connection `c`
is `c`. `open[fd]` is the connection that a descriptor stands for; `accept` returns the
lowest free descriptor, so slots are reused. The queue of tasks is a FIFO and
the timer container a set: what `TaskQueue` and `Timers` say, and
`ThreadPool` and `TimerList` implement. `m_user_count++` and `--` are a load and
a store with a `register` per thread. A worker's `close_conn` is `CloseConn`,
`ForgetSockfd`, `LoadCount`, `StoreCount` and then `ModfdAfterClose`, because
`process()` does not return. `outlived` is a history variable: it becomes TRUE when a worker
closes a connection, or a connection is closed while a task or a worker still
refers to its slot. From then on the code itself no longer keeps the books, so
`BooksBalance` and `OneAtATime` are stated for `~outlived`; the run
`server_timer` shows what happens after.

### HttpConn

`Server` shows that one thread at a time serves a connection, so the steps here
are those of that thread. A symbol is the content of a line, a CR, a LF, or a
piece of the body. `ReadOnce(k)` is `read_once` when `k` symbols have arrived, in
the trigger mode chosen in `Init`. The loop of `process_read` takes one step per line:
`NoLine` (`parse_line` finds none), `RequestLine`, `Header`, and for the body `Content`, or
`ContentLine`, because after an incomplete body `line_status` is `LINE_OPEN` and the
loop runs `parse_line` over the body. `Stop(i)` says where `parse_line` stops and
`ParseLine(i)` what it returns. `DoRequest` is the file part of `do_request`: the four codes, any size of the file up to
`MaxFileLen` pages, and an `mmap` that gives an address or fails (`Mmap`), which the code does
not look at. `ProcessWrite` fills the vector and `NoAnswer` is its refusal of a missing file.
A step of `write` is one `writev`: `Writev(n)`, `WritevLast(n)`, `WritevAgain`,
`WritevFails`, and `WritevNothing` when the vector is empty although not all has
been sent. A vector that points to a failed mapping is refused by `writev` at once
(`Readable`: Linux checks all addresses before it sends), which ends the connection. `Advance` is the code's arithmetic, its error included. `Fresh` is the
private `init()`, which clears neither `m_string` nor the mapping. `Ask`,
`CloseFromOutside` and `NewClient` are the client, the timer, and the next accept.

Some properties are conditional, because the code does not keep them otherwise;
the history variable `odd` records the condition:

* `early`: the client did not wait for an answer. What had been read of the next request is dropped.
* `split`: the body came in more than one piece. The request is never completed.
* `torn`: the head took more than two `writev` calls. The units sent first are
  subtracted twice, and the rest of the response is wrong or the loop does not end.

`munmap` gets `m_file_stat.st_size`, the size of the *latest* file. `mapped` is what is
mapped at `m_file_address`, `lost` what is still mapped and no longer known to the slot,
`strayed` tells that a `munmap` went beyond the mapping, and `orphans` counts the pages
that were mapped when somebody else closed the slot. From then on the next client's
response may release the old mapping with the length of another file: too little, too much,
or (a missing file) not at all. `Mappings` says that nothing else leaks or strays.

### Registration

One step per access to the map, the lock or the database: `Find`/`Refuse` (without the lock),
`Lock`, `Query`/`QueryFails`, `Insert`, `Unlock`, `Answer`, and for a login
`Welcome`/`LoginError`. A search that meets an insertion is a data race in the
code; the outcome modelled is that it misses the name. `Crash` loses what is in memory, and
`Start` is `initmysql_result`. The table has no key (`README.md:52`). `accepted` and
`failed` are history.

### Log

`write_log` is `BeginLine` (reads the clock before any lock), `Count`,
`CheckFull`, `Push`/`PushRefused` or `Fputs`, each one critical section. The log
thread is `Pop`, `Sleep`, `WakeUp`, `WritePopped`. A line is a number; `pushed`
and `refused` are history. `today` is the calendar and `tm_mday(day)` the day of its month,
which is all that `m_today` is compared with; a file's name is the writer's day and
a number. `Count` either opens a file (`Fopen`) or stays in the open one. `opened` is the
history of the files opened, with the lines counted for each and whether a *late* writer
opened it, one that had read the clock on a day before that of the file open so far.
A late writer reopens the file of a day that is over and resets the count, so
that files are opened again and outgrow `m_split_lines`; `FilesInTurn` says that this is
the only way.

## 3. Runs

| Run | Instance | Shows |
|---|---|---|
| `thread_pool` | 2 workers, 2 requests, queue of 1 | `NoLostWakeup`, `ExclusiveService`, `ImprovIsFresh`, `ReactorNeverRefuses`, implements `TaskQueue`, `SpinTerminates` |
| `close_flag` | 2 workers, 2 requests, queue of 2 | finding: `improv` before `timer_flag` lets the main thread miss a close |
| `conn_pool` | 3 clients, 1 to 3 connections | `OnePlace`, `NothingLeaks`, `EnoughIsEnough`, `RequestsDrain` |
| `conn_pool_interrupted` | same | finding: an interrupted wait pops an empty list |
| `timer_list` | 4 timers, span 2, clock 0..4 | `WellFormed`, `AllReachable`, `SortedWhileSteady`, implements `Timers` |
| `server` | 1 worker, 2 descriptors, 2 connections, queue of 1, both actor models | `TimersAreLive`, `TickPending`, `BooksBalance`, `OneAtATime`, `StrandedIsClosed`, `TermStops` |
| `server_timer` | 1 worker, 1 descriptor, 2 connections | finding: a timer closes the next connection on its descriptor |
| `http` | requests of four kinds, buffer of 12, head of 3, files of 0 to 2, 2 clients of 2 requests, both trigger modes | `ParsedRight`, `NoVainWait`, `ResponseIntact`, `Mappings`, `IsAnswered` |
| `registration` | 2 workers, 2 names, 2 passwords, 3 rows, 2 starts | `MapMatchesTable`, `AnswersAreTrue`, `EntryIsStable` |
| `registration_twice` | same, 2 rows, 1 start | finding: one name gets two rows |
| `log` | 2 writers, queue of 2, files of 2 lines, 4 lines, 3 days, months of 2 | `QueuedInOrder`, `Accounted`, `FilesInTurn`, implements `BoundedQueue`, `AcceptedIsWritten` |
| `log_lost` | 2 writers, queue of 1 | finding: a line is neither queued nor written |

### Bounds

* *Thread pool*: two workers contend for the lock and for permits; two requests
  and a queue of one make the Proactor overflow. Nothing else is bounded: the
  run explores all behaviours, however long.
* *Connection pool*: three clients on one connection are two waiting, on three
  connections none: the chosen `m_MaxConn` covers contended and sufficient pools.
* *Timer list*: four timers are the least with a list that has two inner nodes,
  hence adjustments at the head, inside and at the tail with a walk of several
  steps. `MaxTime` is larger than `Span`, so timers become due and the clock moves on
  after that.
* *Server*: two connections on two descriptors are open together or one after the
  other on the same descriptor, which is what reuse needs. `MAX_FD` is 2 and the
  queue holds one task, so both limits are reached. `MaxConns` bounds the length
  of a run. The safety properties were also checked with two workers
  (2.5 million states), and with two workers on one descriptor that serves three
  connections (19 million states).
* *HttpConn*: the form request has 12 symbols and fills the buffer exactly, which
  is where the terminator and the edge-triggered read are at their limit; a
  second request on the same connection, or a few symbols more, overflow it. Its body has
  two lines, so a line end may lie inside an incomplete body. A head of
  three units is the least that can go out in three calls. Two requests show
  keep-alive, pipelining and leftovers of the first, and two clients show leftovers of
  the last client of the slot. Files of 0, 1 and 2 pages are the least by which the length of a
  stale mapping can be too long and too short. (Of the two requests without a body that end a
  line rightly only the one with keep-alive is sent: the other has one header less.)
* *Registration*: two workers race for one name with different passwords while
  the second name is untouched; three rows allow two of one name and one of the other; with two starts
  the map is filled once from a table with duplicates.
* *Log*: the log thread is a third party to the queue of two, which two writers overflow between
  `full()` and `push()`; four lines fill two files; midnight comes at any point, twice, so
  a line of the first day may be counted on the second or third, and with months of
  two days the third day has the number of the first. A file that is opened twice and one that
  outgrows `m_split_lines` in all were seen to occur.
* *Deadlock* is checked for the thread pool and the timer list. The
  connection pool may stop (the program aborts), the server stops on SIGTERM, the log's
  writers stop at the bound `MaxLines`, the HTTP slot after its last client, and registration when
  the table is full or the last start was used: there the cfg turns the check off.

### Fairness

* Every thread that can run is scheduled (weak fairness of its steps). Nothing is
  assumed of clients, of signals that merely interrupt, or of SIGTERM.
* *Thread pool*: strong fairness of taking the mutex. Critical sections
  are a few statements, and a thread that waits is served before interrupted
  workers, which signals wake every five seconds, can take it for ever.
* *Server*: `epoll_wait` returns when the pipe is readable (it is
  level-triggered), a set alarm goes off, and time passes, so deadlines come.
* *Log*: the log thread runs when it can. Spurious wake-ups are possible and not assumed.
* *HttpConn*: the serving thread runs, what was sent arrives, and a writable socket is
  reported (weak fairness). A client that reads makes room again and again
  between EAGAINs: strong fairness of the calls that send.
* *Timer list*: no liveness of its own; that passes come is a property of `Server`.

### Findings

1. `close_flag`: `threadpool.h:219/235` sets `improv` before `timer_flag`. The
   main thread may see the first and not the second; the connection then stays
   open and silent until its timer closes it.
2. `conn_pool_interrupted`: `reserve.wait()` interrupted by a signal is treated as
   a permit, and `pop_front()` may meet an empty list.
3. `server_timer`: a worker that answers a missing file closes the connection and
   leaves its timer behind, which later closes whatever client has the
   descriptor then.
4. `log_lost`: `full()` and `push()` are separate, and the refusal of `push()` is ignored.
5. `registration_twice`: the name is looked up before the lock and not again under
   it, and the table has no key; two workers register one name and both say that it worked.

Smaller disagreements have no run of their own; the conditions of a property
name them: `GetConnection` answers NULL when the list is empty although its comment
says that it blocks (`EnoughIsEnough`); setting the clock back leaves the timer list
unsorted (`SortedWhileSteady`); late writers reopen and overfill log files (`FilesInTurn`),
and since `m_today` is a day of the month, the same day of another month opens no new file
if nothing is logged in between; a form whose body comes in pieces is never
completed (`NoVainWait`); a head sent in three calls is corrupted
(`ResponseIntact`); after a slot is closed from outside its mapping is lost, or unmapped
with another file's length (`Mappings`); a file that cannot be opened or mapped is noticed
only when `writev` refuses it; a failed
INSERT leaves its account in the map until the next start (`MapMatchesTable`).

## 4. Proofs

`tlapm` checks all proofs to the last leaf; they hold for every value of the
constants allowed by the assumption named after each module (`ThreadPoolAssumption`: workers
are a finite, nonempty set, the main thread is not a worker, the capacity is
positive; and so on: sets of threads and of addresses are finite where they are
counted, sizes are positive, special values differ from ordinary ones). The
theorems about the pools, the list and the log are about `Safety`, the
specification without fairness, hence also about `Spec`. Every invariant and
every action property that a passing run checks is the statement of a theorem.

Each finding has a theorem of its own, which says that its cause is the only
one: under a hypothesis that excludes that one interleaving or event, `[]H`, the
very property that the finding refutes is proved. The hypotheses are met by
ordinary behaviours of the specification (no signal comes, the writers take
turns, the worker is quick), and TLC was used to check each invariant under its
hypothesis first.

| Finding | Theorem | The property holds as long as |
|---|---|---|
| `close_flag` | `OnlyTheOrderLosesTheFlag` | a worker sets `timer_flag` before the main thread looks at it (`InTime`) |
| `conn_pool_interrupted` | `OnlySignalsBreakThePool` | no signal interrupts `reserve.wait()` (`Uninterrupted`) |
| `server_timer` | `TimerClosesOwnUntilOutlived` | no connection was closed behind somebody's back (`~outlived`) |
| `log_lost` | `OnlyTheRaceLosesLines` | no two writers are between `full()` and `push()` (`OneAtPush`) |
| `registration_twice` | `NamesAreUniqueInTurns` | no two workers register one name at once, and no look-up meets an insertion (`TakeTurns`) |

### Thread pool

| Theorem | Says |
|---|---|
| `TypeCorrect` | `TypeOK` |
| `ServiceIsExclusive` | `ExclusiveService` |
| `HandshakeIsFresh` | `ImprovIsFresh` |
| `ReactorAppendSucceeds` | `ReactorNeverRefuses` |
| `NoWakeupLost` | `NoLostWakeup` |
| `ImplementsTaskQueueSafety` | the pool implements `TaskQueue!Safety` |
| `OnlyTheOrderLosesTheFlag` | `CloseFlagIsSeen`, if flags are set in time |

None of these is inductive by itself. The invariant is `IInv`, the conjunction of

* `LockInv`: a thread inside a critical section owns the mutex. It gives
  `LocalInv`: between `front()` and `pop_front()` the front stays what it was.
* `ArmedInv`: a descriptor that can report an event has its request neither in the
  queue nor with a worker, except one that has just armed it and has only
  `improv` to set. It is what EPOLLONESHOT and "arm last" are for, and it
  is why a new task cannot meet an old one: exclusivity.
* `HandshakeInv`: in the Reactor model a queued request, or one that a worker has and
  has not acknowledged, is the one the main thread waits for with `improv` 0.
  With `ArmedInv` it yields `ImprovIsFresh`, and that the queue is
  empty whenever the main thread appends.

`ServiceStep` has one step per action and one per conjunct the action can
disturb. `NoLostWakeup` is preserved on top of `IInv`: each pop pays with a
permit it took, or with a worker that was awake, and `WaitInterrupted` only adds one to the right-hand
side. The refinement maps `m_workqueue` to `queue`, and to `serving` the request of
each worker that has popped it and not let go of it. `FlagInv` adds that a worker about
to set `timer_flag` has set `improv` before; since `improv` is fresh the main
thread is then still busy with that request.

### Connection pool

| Theorem | Says |
|---|---|
| `TypeCorrect` | `TypeOK` |
| `ConnectionsAreExclusive` | `OnePlace` |
| `NoConnectionLeaks` | `NothingLeaks` |
| `EnoughConnections` | `EnoughIsEnough` |
| `OnlySignalsBreakThePool` | `WaitMeansAvailable` and no abort before `DestroyPool`, if no wait is interrupted |

`OnePlace` is inductive with `TypeOK`: `PopIdle` and `PushIdle` say what
`front`/`pop_front` and `push_back` do to the set of idle connections.
`NothingLeaks` counts holders and list; `EnoughIsEnough` follows because a client that is about to
pop holds nothing, so at most all the others do, and the list cannot be empty.
`Permits` counts permits: those in the semaphore, those of clients between `wait()` and
`pop_front()`, and those owed by clients between `push_back` and `post()` are as many as
the list is long. An interrupted wait is the one step that breaks this.

### Timer list

| Theorem | Says |
|---|---|
| `TypeCorrect` | `TypeOK` |
| `ListIsWellFormed` | `WellFormed` |
| `EveryTimerIsReached` | `AllReachable` |
| `ListIsSorted` | `SortedWhileSteady` |
| `ListImplementsTimers` | the list implements `Timers` |

`WellFormed` looks at one node and its neighbours, and that is not inductive:
with a ring beside the chain, deleting the head could leave an empty list with
timers in it. `OrderInv` excludes rings: there is a *rank* that
grows along `next`. Each step gives the new ranks (double them and put the
inserted timer between its neighbours). From it `FromHead` follows, by a least
element: what holds at the head and is handed on along `next` holds everywhere.
It replaces induction along the list, and shows that when `tick` stops no timer that is due is left.
`AllReachable` speaks of the nodes that a walk from `head` collects, a recursive
function of the number of steps. `Recursion!RunExists` gives its equation
(`ChainEquation`); the walk cannot go on for ever among finitely many nodes
whose ranks grow (`ChainEnds`), and the least node that it missed would have a
predecessor that it met (`WalkMeetsAll`).
`DueInv`, that no deadline lies further than `Span` ahead as long as the clock is never
set back, is why `adjust_timer` may keep a timer in its place and why `AddFront` then never happens.

### Server

| Theorem | Says |
|---|---|
| `TypeCorrect` | `TypeOK` |
| `TickIsPending` | `TickPending` |
| `NoTimerUsedAfterFree` | `TimersAreLive` |
| `BooksAreBalanced` | `BooksBalance` |
| `ServedOneAtATime` | `OneAtATime` |
| `TimerClosesOwnUntilOutlived` | while `~outlived`, a timer closes the connection it was made for |
| `TasksFollowTaskQueue` | while `~outlived`, queue and workers implement `TaskQueue!Safety` |

* `AlarmInv`: an alarm, its byte in the pipe, or the flag, and exactly one of the three.
* `SlotInv`, `OpenInv`, `EventInv`, `HandInv`: an open connection has its own live
  timer; each descriptor has one event in a batch, and its timer outlives it,
  because only the main thread removes timers, and only after the events were handled.
* `BooksInv`: while nobody closes behind another's back the timers are those of the
  open connections, and the count differs from their number only by what the main thread
  has in its register.
* `HandsInv`: a descriptor is armed, reported, queued once, or with one worker.

`TasksFollowTaskQueue` ties the composition to its part: `Server` abstracts the
pool to a FIFO, and the theorem shows that the event loop uses it as `TaskQueue` allows
(a slot is submitted only while nobody has it), which is the specification that
`ThreadPool` was shown to implement.

### HTTP connection

| Theorem | Says |
|---|---|
| `TypeCorrect` | `TypeOK`, with the order of the buffer's indices |
| `ResponsesIntact` | `ResponseIntact` |
| `MappingsRight` | `Mappings` |
| `RequestsParsedRight` | `ParsedRight` |
| `WaitsOnlyForMore` | `NoVainWait` |

They hold for every size of the buffer and every length of head and file.
`VectorInv` has the three situations in which the arithmetic of `write` is right:
nothing sent, one call inside the head, the head sent. A second call that
ends inside the head leaves them, and that is `torn`. `CountInv` holds even then: what
was sent and what is left make up the response, and the vector never holds more than is left.
`MapInv` adds to `Mappings` that something is mapped exactly while the slot has an address of it.
A length that differs from the mapping's shows that the mapping is not of the response being
sent (`ReleaseStep`), so somebody else left it.

`ReaderInv` is the invariant of the reader: unless the client was `early`, a slot is
`Idle`, or busy with the request sent last. While it is `Parsing`, `Received` says that
buffer and wire together hold the request, position by position, and `InRequestLine`,
`InHeaders`, `InBody` say for each kind of request how far the parser has come and
which facts it has noted. `Scan` is the step that each line needs: if a line of the
text ends at `e` (`EndsAt`), `parse_line` either finds that very end or has not
received it yet. A wait is in vain only if the buffer has the whole request, and
then only in the two ways that `NoVainWait` allows.

### Log

| Theorem | Says |
|---|---|
| `TypeCorrect` | `TypeOK` |
| `FilesFollow` | `FilesInTurn` |
| `RingIsBoundedQueue` | the circular array implements `BoundedQueue!Safety` |
| `LinesKeepTheirOrder` | `QueuedInOrder` |
| `LinesAreAccounted` | `Accounted` |
| `OnlyTheRaceLosesLines` | `NoLineIsLost`, and nothing refused, if writers take turns |

`RingInv` relates `m_front`, `m_back` and `m_size` around the end of the array, with
the indices that start at -1; the refinement reads the queue off the array.
`FilesInTurn` is inductive with `FileInv`: the file opened last is `m_fp`, its day has the day of
the month `m_today`, its number is that of the full files `m_count` amounts to, and its lines are
at most one more than the rest. So a writer that is not late opens a file behind the last
one (`OpenNext`).
`Accounted` needs `FreshInv` (nothing is anywhere before it was begun) and `BusyInv`, and
counts places by the cardinality of each. `QueuedInOrder` is inductive with these,
once it is known what `Drained`, a recursive function, makes of a longer file
(`DrainedAppend`): the entry that was appended, if the log thread wrote it, and else nothing.
With one writer at a time behind `full()`, what it said is still so at `push()`
(`RoomInv`), and a line in exactly one place that is not refused is not lost.

### Login and registration

| Theorem | Says |
|---|---|
| `TypeCorrect` | `TypeOK` |
| `MapAndTableAgree` | `MapMatchesTable` |
| `AnswersTrue` | `AnswersAreTrue` |
| `EntriesAreStable` | `EntryIsStable` |
| `NamesAreUniqueInTurns` | `OneRowPerName`, if workers take turns |

`ProgressInv` says what a worker has achieved at each statement of its critical
section, `BackedInv` that each entry of the map has its row or its failed INSERT at
any time, and that only the name of the worker about to insert may be missing.
So a name that is not in the map is not in the table either, unless another worker is
about to insert it: that is why taking turns is enough (`UniqueInv`).

### Recursive definitions

`Drained` and the walk of `AllReachable` are functions defined by recursion on the
naturals. The library's theorems about induction and recursive functions take an
operator as a parameter, which the provers cannot instantiate, but those about
well-founded relations do not: `Recursion` derives from them that a nonempty set of
numbers has a least element (`LeastNumber`), and from that, by a least
counterexample, that such a function exists (`RunExists`). What is proved with
them is proved by a least counterexample in turn.

### Only model-checked

Liveness (`SpinTerminates`, `RequestsDrain`, `StrandedIsClosed`, `TermStops`,
`AcceptedIsWritten`, `IsAnswered`, and the fairness in `TaskQueue!Spec` and
`BoundedQueue!Spec`) is out of the prover's reach and stays with TLC.

## 5. Plan

Done, in this order because the pool and the connection table are what every
request depends on: `TaskQueue`, `ThreadPool`, `ConnectionPool`, `Timers`,
`TimerList`, `Server`, `BoundedQueue`, `BlockQueue`, `Log`, `HttpConn`, `Registration`, and
proofs for all of them.

Left: an abstract specification of the connection (a request is a value, a response is sent
once) that `HttpConn` implements while nothing is `odd`; a backlog for the listening
socket; and the operations of `block_queue` should something begin to call them.

## 6. Not modelled

* In HTTP: the text of headers and pages. A request line is a method or is not one, a
  header is keep-alive, a length, or neither. The choice of a static page by
  the character behind the slash, `add_response`'s formatting, and the names of files change no
  state that a property could tell apart. The byte behind a full buffer is not modelled.
* In `Server` and `ThreadPool` the outcome of reading, processing and writing is a free choice,
  which includes every outcome of `HttpConn`.
* The slot's trigger mode at its first registration (`http_conn.cpp:167` passes the
  member before it is set): EPOLLONESHOT and the next `modfd` make the difference harmless.
* Start-up (`main`, `Config`, `eventListen`, the pools' constructors) runs before
  any other thread or client. The window between `alarm()` and the assignment
  of `Utils::u_pipefd` is listed as a hazard.
* The operations of `block_queue` and `cond` that nothing calls; stdio buffering and
  file-system failures in the log (a failing `fopen` leaves a null file); the formatting of lines.
  The end of the process, which drops the lines still in the queue.
* A file that changes between `stat` and `writev`. `m_file_address` is not initialised by the
  constructor (`http_conn.h:92`); the model starts with the null that fresh memory holds.
* `epoll_wait` failing with anything but EINTR, after which `eventLoop` ends
  (`webserver.cpp:560-564`): with a descriptor, a buffer and a size that never change and are
  valid, it has no such failure. An EINTR is a turn without events, which changes nothing.
* The kernel (epoll, sockets, signals, `accept`'s choice of a descriptor), MySQL and the
  clock are external and are modelled from how the code uses them.
* `test_presure/webbench-1.5` (a third-party load generator), the build trees and the static pages.
