# A TLA+ model of judge-server

judge-server hands solutions from the table `solutions` of a MySQL database to
checker programs that connect over TCP, and writes their verdicts back. This
directory models it from `main` to the bytes on the wire, model-checks it on
small instances with TLC and proves part of it for all instances with TLAPS.

    tlc -workers 2 -config dispatch.cfg MCJudge     # one run
    tlapm JudgeServerThreads.tla                    # the proofs of one module

`PROJECT.json` lists the runs, the source lines behind each definition, the
hazards, the findings and the theorems.

## 1. The system

| Part | State | Operations | Talks to |
|---|---|---|---|
| client session, `server.c:88-322` | `client_t`: queue, `checking_solution`, two delay counters, socket, mutex | handshake, register, announce, send a solution, receive a result | dispatch (its queue), removal, database |
| dispatch, `push_solution`, `server.c:356-409` | none of its own | look up the compiler, scan its clients, choose one, enqueue; verdict `FL` if there is none | both registries, client queues, database |
| removal and failover, `remove_client`, `server.c:411-505` | none of its own | unlist, take out of the map, pass the solutions on, free | dispatch, with the client's mutex held |
| registries, `server.c:12-20` | `clients_map`, `last_client_id`, `compilers_map` with a `clients_list` each | hash add, find, delete | mutexes `clients_map_mutex`, `compilers_map_mutex`, `list_mutex` |
| database poller, `server.c:324-354` | the batch it is pushing | extract new rows every 5 s, push each | database, dispatch |
| database access, `solutions_db.c` | one MySQL connection with its transaction and its pending result set; columns `checking`, `response` outlive the process | extract (select, store, start transaction, updates, commit or rollback), post a result, open, close | poller and client threads, with `db_mutex` or (the `FL` verdicts) without |
| thread pool, `thread_pool.c` | tasks queue, `cancelled`, mutex and condition | execute, destroy, the loop of a thread | linked queue |
| linked queue, `utils.c:64-130` | cells with `next`, `head`, `tail`, `elems_count` | push, pop, iterate, free | |
| life cycle, `main.c`, `server.c:36-86, 519-576` | `server_running`, configuration, logger, listener | configure, daemonize, start, accept, status, stop, mock connection, cleanup | pool, controller (a local datagram socket) |
| transfer and framing, `utils.c:7-30`, `server.c:88-130, 203-264` | position in a packet, two delay counters | send or receive all bytes, build and parse packets, give up | the checker |
| hash tables, `uthash.h` | list and bucket chains of the two registries and each `clients_list` | find, add, delete, iterate, double the buckets | everyone, partly with no mutex |
| data blocks, `utlist.h` | | no callers | |

The poller, the control loop and each client run as tasks of the pool. They
meet in the two registries and in the clients' queues; a solution is passed
around as a pointer into the array that one poll has allocated, and nobody owns
it for good. `push_solution` runs in the poller and, during a removal, in the
thread of the client that goes.

What is hard here:

* *Interleavings.* Registration, dispatch and removal work on the same tables
  under different mutexes, and in places under none (`server.c:360, 414`).
* *Nested mutexes.* `remove_client` calls `push_solution` with a client's mutex
  held; `push_solution` takes three more.
* *Pointers used after an unlock* (`server.c:402-406`), and elements of one
  array freed one at a time.
* *Failures.* A checker hangs, resets, closes, or answers rubbish at any time;
  its solutions have to go somewhere else, and a late answer must not disturb.
  Statements fail. The process ends and leaves rows at `checking = 1`.
* *Timeouts* that are summed over several calls and strike in the middle of a
  packet; a send that failed half way is repeated from its first byte.
* *One connection for two users.* The poller's transaction and the verdicts of
  other threads share a MySQL connection, and statements fail anywhere.

Correct means: a verdict is final, a solution that was taken from the table gets
one even if its checker fails, no thread follows a freed pointer, the registries
agree, nobody waits for ever, a stop request ends the process and `main` frees
nothing that a task still uses, a row is taken once, the checker and the server agree where a
packet begins, and the pool, the queue and the hash table do what their headers
say.

## 2. The modules

| Module | Models | Checked by |
|---|---|---|
| `JudgeServer` | sessions, dispatch, removal, registries, poller, database table | `MCJudge` |
| `SolutionsDb` | `solutions_db.c` statement by statement, with the poller | `MCDb` |
| `Session` | `transfer_all`, the packets and the timers of one connection | `MCSession` |
| `ThreadPool`; `WorkQueue` is its abstract specification, `PoolTasks` the constants it shares with its user | `thread_pool.c` | `MCLifecycle` |
| `Lifecycle`, built on an instance of `ThreadPool` | `main`, `run_server`, `local_control_loop`, `cleanup` | `MCLifecycle` |
| `Queue`; `Fifo` is its abstract specification | the queue of `utils.c` | `MCQueue` |
| `UtHash`; `OrderedMap` is its abstract specification | the macros of `uthash.h` that `server.c` uses | `MCHash` |
| `JudgeServerThreads`, `JudgeServerSafety`, `SessionProofs`, `SolutionsDbProofs`, `ThreadPoolProofs`, `LifecycleProofs`, `QueueProofs`, `UtHashProofs` | proofs about the module in their name | tlapm |

The modules meet where one of them takes the other's outcome: `JudgeServer` sees a
poll as one step that marks rows (`SolutionsDb` shows what of that holds when
statements fail), a packet as the solution or the result it carries (`Session`
shows when that is so), a table as a set (`UtHash` shows that its list is an
ordered map and what a reader without the mutex may see), and its threads are the
tasks of `Lifecycle`.

### JudgeServer

A connection `k` stands for the endpoint, the `client_t` and the thread made for
it. `pc[t]` is the point where a thread is; `frame[t]` holds the locals of
`push_solution`. Actions are named after the function and the step in it
(`PushScan`, `RemoveQueue`, `RecvTimeout`); the operators `push_solution`,
`remove_client`, `client_loop` and `poll_database` collect them.

* *Steps.* A critical section that takes one mutex, waits for nothing inside and
  gives it back is one step that needs the mutex to be free. Every mutex that is
  held across a call or another lock is a variable: `clients_map_mutex`,
  `compilers_map_mutex`, `list_mutex[i]`, `client_mutex[k]`. `db_mutex` and the
  logger's mutex are taken last and protect single steps; they are not variables.
* *Heap.* A pointer is `<<block, index>>`; `allocated` are the blocks that are
  not freed. A read through a dangling pointer gives what is at the address now.
  The undefined steps that the code can reach (a second `free`, a second
  `HASH_DEL`, the mutex of a freed client) either do nothing or hit a later
  object at the same address, if the process survives.
* *Keys.* Compiler ids are `uint16` but are hashed as four bytes. `Pads` is what
  the other two may hold. With a byte that is not zero a compiler can be in the
  map twice, and `push_solution` may find neither entry and post `FL`. The run
  `registry` includes this, the others take `{0}`.
* *Peer.* `peer[k]` is the state of the connection, `outstanding[k]` what the
  checker is going to answer. `RecvResult` takes one answer for each solution that
  was sent. `receive_result` does not check this: it posts the verdict for whatever
  `solution_id` the packet has (`server.c:218-223`). So `PeerStray` is a checker that
  answers what it was not sent, or answers again. It and every loss are counted in
  `faults` against `MaxFaults`, separately for lost checkers, orderly closes, stray
  answers, failed statements and stops, and together against `MaxAllFaults`.
* *errno* is kept for each thread, because `client_loop` reads it after a `recv`
  that returned 0. Calls that succeed are taken to leave it alone, as glibc does.
* *Restart.* Rows at 1 and at 2 may be there initially, left by an earlier
  process. That a process may end anywhere needs no action: every prefix of a
  behaviour is one.
* *Lists.* `clients_list[i]` is a set; the order in which `push_solution` goes
  through it is left open. If an id is in a list twice, both entries are deleted
  together.
* *History.* `unanswered`, `removals`, `removed_at`, `id_shared` (a client was
  given an id that another one in the map has) and `dangled` (an array was freed to
  which a pointer was left that will be followed) are read by properties only.

### SolutionsDb

`table` is the column `checking` as the connection sees it, `durable` as it is
committed; `in_trx` says whether a transaction is open, `conn` whether a result set
waits to be fetched (until then the server refuses every other statement). Each
statement of `solutions_extract_new` is an action with its failure: refused, failed
with no effect, or the connection lost, which rolls back. `poll` is the poller's
point, and the points from `select` to `rollback` are those with `db_mutex` held.
`solution_post_result` is called with the mutex (`post_result`) and without it
(`PostFL`, the verdicts of `push_solution`), so the latter falls between any two
statements of the poller. A failed commit or rollback leaves the transaction open;
the next `start transaction` commits it, as MySQL does. `Crash` ends the process
and starts another one, which finds `durable`. After `solutions_close_db` a post
fails. The server and the web application are external.

### Session

One connection as two byte streams. A byte is `<<m, i>>`, so that both ends can be
asked whether they agree; the first two bytes of a packet are its length, which for
a solution is cut to `LengthModulus` (2^16 in the code). `send` takes any part that
fits the socket's buffer, `recv` gives any part that is there, a call that can do
neither times out. `transfer_all` forgets its position when it fails: a send is
repeated from the first byte (`SendAgain`), a receive loses what it had
(`RecvFails`), and the history variables `cut_down`, `cut_up` remember it. The
timers are `last_send_delay` and `last_recv_delay`, which the code never or seldom
sets back; `stalled` and `waited` are what really passed for the present solution.
The checker reads a packet of the announced length, whatever it is, and answers. A
result of length 0 makes `realloc` return `NULL`, which is then read
(`server.c:204-211`): the model has no step there (`NoBuffer`).

### UtHash and OrderedMap

The list (`next`, `prev`, `tail`), the chains (`hh_next`, `hh_prev`) and the buckets
with `count` and `expand_mult`. One writer at a time adds (`AddLink` to
`AddPublish`), doubles the buckets element by element (`ExpandMove`) and deletes,
alone or inside a `HASH_ITER` loop as `remove_client` and `cleanup` do. A reader
interleaves with its writes: a lookup with no mutex, or a scan with `list_mutex`,
which keeps out deletions and not additions. A lookup that overlaps the creation of
the table, a doubling or a deletion is marked `disturbed`; memory it may read is
freed then and nothing is promised of it. The hash function is a parameter.

### ThreadPool, WorkQueue and Lifecycle

One step for each stretch with the mutex held, up to `pthread_cond_wait`;
`cancelled`, which is written and read without the mutex too, has steps of its
own. Wakeups can be spurious. `WorkQueue` has no threads and no mutex: tasks are
accepted, started in that order when fewer than `Capacity` are running, and end.

`Lifecycle` has the points of `main` (configuration, daemon, logger, listener), the
accept loop, the control loop with its requests, the listener's backlog and the
connections around an instance of `ThreadPool`; of a task only its end is kept, and
what it does is in `JudgeServer`. `conf`, `config` and `logger` are the lifetimes of
what `main` makes and frees and of the pointer `solutions_db.c` keeps. `recv_buf` is
not cleared between requests, so a `stop` with no NUL behind it is understood only
if an earlier request, or the stack, left one there.

### Queue and Fifo

Cells with `value` and `next`, reused after `free` with what they held.
`queue_pop` does not touch `tail`, so it points to a freed cell once the queue is
empty. `Fifo` is a sequence with a push and a pop.

## 3. The runs

Runs that pass:

| Run | Instance | Shows |
|---|---|---|
| `dispatch` | 2 clients, 2 solutions found by one poll or by two, any two faults out of a lost checker, a stray answer and a failed statement | `TypeOK`; `OnlyLaterRowsDangle`: of the pointers that will be followed, those to the first row of a batch are valid; `NoDeadlock`; `VerdictFinal`: no verdict changes, with delegations and late answers |
| `registry` | 3 clients, one compiler with padding that is zero or not, any two faults out of two lost checkers, a close and a stop, no solution | `ServingIsListed`, `NoInconsistency`, ids colliding included |
| `failover` | 2 clients, 1 solution, any two faults out of two lost checkers and a stray answer; an unknown result code | `VerdictEventually`, `CheckedIsJudged`: hanging and reset checkers, both of them included, cost no solution as long as nothing of `LosesNothing` happens |
| `lifecycle` | 2 threads, 2 clients (so 4 tasks), backlog 2, 2 requests | `StopEnds`, `CleanupAlone`; the pool as it is used: `NoLostWakeup`, `OwnTask`, `KeepsPromise` (refinement with fairness), `DestroyReturns` |
| `queue` | 4 cells, 3 values | `Chain`, `FreesAll`, `IsFifo` |
| `db` | 3 rows; 2 failed statements, 1 failed commit or rollback, 1 lost connection, 1 crash | `HandedIsMarked`: a row is taken once; `RowsForward`; `PostedStays`; `NoRowStranded`; `ExtractedEventually` |
| `wire` | packets of 2, 3 and 5 bytes, a length field that counts to 3, sockets of 4 bytes, one error | `CheckerInStep` and `ResultsAreAnswers`: framing in both directions; `FullPatience`: when a checker is given up; `SendEnds`; `AnswerTaken` |
| `hash` | 4 elements, two with one key, 1 to 4 buckets, chains of 2 | `Fsck`, `IsOrderedMap`, `LoopDeletes` for the writer; `LookupFinds`, `ScanComplete` for readers without its mutex |

Runs in which the code does not do what the repository says of it; TLC prints
the behaviour:

| Run | Property | What happens |
|---|---|---|
| `overwritten` | `Delegated` | a client with two unanswered solutions remembers the second only; when it is removed the first is forgotten at `checking = 1` |
| `batch_freed` | `PointersValid` | rows of one poll share an array; the first verdict frees the others |
| `shared_id` | `OwnRecordsOnly` | `last_client_id--` hands out an id in use; removing one client unlists the other |
| `closed` | `CheckedIsJudged` | after an orderly close `recv` returns 0, `errno` is stale, and the client is never removed |

`OnlyLaterRowsDangle` and `VerdictFinal` say how much of what these runs refute is
left, and under which conditions:

* `OnlyLaterRowsDangle` needs that no client is given an id in use (`id_shared`, see
  the run of that name). It holds for batches of any size and with stray answers.
  The pointers it does not speak of, to the second and later rows of a batch, are
  those that `batch_freed` shows to dangle; `PointersValid`, which includes them, is
  false.
* `VerdictFinal` needs the same, and that no array was freed to which a pointer was
  left (`dangled`: a pointer into reused memory can have any solution judged again),
  and that the checkers answer only what they were sent, and once, which nothing in
  the code enforces (`server.c:218-223`): a stray answer may change any verdict.

`PointersStayValid` and `VerdictsStay` prove both, for any number of clients and rows.

The other conditions in the properties mark, in the same way, where the code gives
no guarantee and no document claims one:

* `VerdictEventually` and `CheckedIsJudged` assume `[]LosesNothing`, which names the
  ways in which this code loses a solution: an id given twice; an array freed in use;
  a push to a client that is being removed, or freed, since `push_solution` chose it
  and then gave the mutexes back (`PushesToListed`; `PushEnqueue` has the outcomes,
  and two lost checkers are enough, one of them the target of the other's
  delegation); a solution sent while another is unanswered (`OverwritesNothing`; it
  takes two solutions, and `failover` has one); and a result that clears `checking_solution` without a verdict for it,
  such as one with an unknown code (`ClearsWhatIsJudged`, `server.c:225-229, 318`).
  The instance has no failed statement, orderly close or stop, each of which can
  leave a row at 1 as well.
* `CheckerInStep` and `ResultsAreAnswers` hold until a timeout cuts a packet, and
  the first for sources whose length fits 16 bits; after that the stream is out of
  step for good.
* `FullPatience` gives the whole time to a client that made no earlier call time
  out. Delays of earlier solutions are counted against a later one.
* `PostedStays` is for verdicts posted under `db_mutex` while no commit or rollback
  fails; an `FL` verdict can be rolled back with the poller's batch. `RowsForward`
  and `HandedIsMarked` hold without any such condition.
* `NoRowStranded` is for failed statements; a crash or a lost connection between
  the commit and the push leaves rows at 1 that nobody judges.

A compiler can be announced and not found (the padding of its key); the solution
then gets `FL`, which is a verdict.

*Bounds.* Two clients are enough for every failover between a failing and a
healthy one; three for ids that go 1, 2, 2 with the first 2 still in use.
Removals that delegate to clients which are removed themselves, over any number
of clients, are left to the proof of `DeadlockFree`. Two solutions are needed for
the overwrite and for a client with a queue; one suffices for the waiting. Two
faults, of the kinds in the table, are a failover and something that goes wrong
during or after it: the second checker lost while it is given the first one's
solutions, a stray answer for a solution that was delegated, a verdict that is not
stored. Three and more are left to the proofs, and for the liveness properties
unchecked. In `dispatch` and `failover` the first timeout is the last (5 of 5 and 6
of 6 seconds). In `wire` delays are 5 of 10 and 6 of 12 seconds where their sum matters (one timeout is
survived, two are not) and one step where it does not; the code has 5 of 25 and 6
of 18, which only adds more of the same steps. In `lifecycle` the tasks outnumber
the threads, so tasks queue, threads sleep and a signal can go to a thread whose
task is gone; two requests are a `stop` after anything else. In `db` three rows are
a batch with a first, a middle and a last one, or two batches. In `wire` a packet
is longer than the socket's buffer or not, and `LengthModulus = 4` has lengths
below, at and above the limit. In `hash` one bucket becomes two and then four, with
elements that share a bucket until the second doubling. Deadlock checking is off in
all runs but `queue` and `hash`: a server with nothing to do, or stopped, may stand
still; `NoDeadlock` says what deadlock means here.

*Fairness.* Threads that can run do run: weak fairness of each thread's
functions; a mutex is never kept for ever. A checker that is not lost answers
what it was sent before `RECV_MAX_TIMEOUT`: strong fairness of `RecvResult`,
since a timeout of 5 seconds takes the thread out of `recv` now and then. Nothing
is assumed about clients connecting, rows being inserted or operators stopping the
server. In `Lifecycle` the main thread, the control loop and the threads of the
pool run (a wakeup with no signal is never assumed), and pool tasks are only
assumed to end once the server is stopping, when `poll_database` and `client_loop`
look at `server_running` after at most one timeout. In `SolutionsDb` only the poller
is fair, in `Session` only the client's thread: the checker, the network and the web
application owe nothing.

*Seeded bugs.* For every property of a passing run there is an operator, marked
"Seeded bug", that replaces one definition by a mistake someone could make there
(a dropped reset, an off-by-one, `signal` for `broadcast`); TLC finds the property
violated with it.

## 4. The proofs

All theorems hold for every value of the constants that satisfies the `ASSUME`s
of the module: a finite number of solutions, of pool threads and of elements of a
hash table, special values
that differ from ordinary ones, positive timeouts, a listener's queue of
length one or more.

* `TypeCorrect` (`JudgeServerThreads`): `Spec => []TypeOK`. The types of the
  variables, `VarTypes`, are not inductive, as `push_solution` jumps to the point its
  frame names and `remove_client` writes to the client it found; `ThreadsOK`, the
  other half of `TypeOK`, says what those locals hold at each point.
* `LocksCorrect` (`JudgeServerThreads`): adds `Locks`, which ties each mutex to the
  points of its holder, and `Removals`.
* `DeadlockFree`: `Spec => []NoDeadlock`. The mutexes have no order: a thread that
  removes `a` holds the mutex of `a` and can wait for that of `b`, another one the
  other way round. What prevents the circle is the time of removal. A client is
  taken out of `clients_map` before its mutex is held for long, and
  `push_solution` chooses from the map, so a removing thread can only wait for a
  client that left the map later than its own (`PassedOn`). In a set of waiting
  threads, the one whose victim was removed last therefore waits for a thread that
  waits for a map or list mutex, and holders of those run.
* `NeverInconsistent`, `ServedIsListed` (`JudgeServerSafety`): `Spec` implies
  `[]NoInconsistency` and `[]ServingIsListed`. With ids given twice a removal may
  take another client out of the map than its own, so no thread can count on its
  own entry. What holds is that there are at least as many clients with an id in
  the map as there are threads with it that have registered and not yet taken one
  out. `Backed` says so with a one-to-one function from these threads to the map;
  when a removal deletes the client that backs another thread, that thread is given
  the one that backed the remover. Every id in a list belongs to such a thread that
  has not cleared the list yet. It also follows that `remove_client` always finds a
  client (`server.c:415` never applies), as far as its lookup, which takes no mutex,
  is a step of its own; `UtHash` shows when it need not be.
* `PointersStayValid` (`JudgeServerSafety`): `Spec => []OnlyLaterRowsDangle`, for
  batches of any size. `solution_free` gives back the array of a whole poll, and only
  if the pointer is to its first row; so what has to be shown is that there is one
  pointer to a first row and that it goes with the `free`. `Firsts(own)` says so:
  `own` is a function from the blocks to the places that can hold a pointer (the
  batch, the frame of a `push_solution`, a queue, `checking_solution`); every pointer
  to a first row is at the place `own` gives for its block, once, and the block is
  allocated. `Passed` allows the second pointer that a thread keeps in its own locals
  (`process_solutions` while it sends, `remove_client` while it delegates). `OwnIds`
  says that while no id is shared a removal takes out its own client. The invariant is
  `FInv`, with `own` under a quantifier: a step that passes a pointer on changes `own`
  in one place. Neither stray answers nor pointers that dangle already are excluded.
* `VerdictsStay` (`JudgeServerSafety`): `Spec => VerdictFinal`, from `PInv`. While
  nothing happens that the property excludes (`Trusted`), `Held(at)` places the
  solutions instead of the blocks: every pointer that will be followed is at the
  place that `at` gives for its solution, so no other place has the solution. `at`
  also says whose the rows at 1 are and which client may answer, which is why a late
  answer cannot meet a verdict. `Copies` allows a thread's own second pointer, and
  `Relabel` moves a solution.
* `SessionTypes`, `CheckersGetTheirTime`, `CheckerKeepsStep`, `PostedAreAnswers`
  (`SessionProofs`), for all lengths of packets, sizes of the sockets' buffers,
  values of the timeouts and any `LengthModulus`. `Patience` ties the two delays to
  what really passed. For the framing, the bytes between a sender and its reader
  are a `Flow`: they are the packets of a sequence of messages from the reader's
  position to the sender's. Sequences of bytes are not concatenations here, which
  the provers cannot take apart, but are described by what follows what: `Runs`
  inside a packet, `Seams` between two, `Begins`, `Finishes`, and `Bounded` (nothing
  beyond the sender). `FlowExtends` and `FlowShrinks` show once, for both directions,
  that a flow stays one when any number of bytes is sent or read. `InStep` is the
  flow downstream, from the packets that were begun (`Wire`) to the checker, while
  nothing was cut and lengths fit; `InOrder` the flow of the answers upstream, while
  no receive was cut. They need `Sending` (a solution is sent once), `Once` (so is
  the last byte of its packet, cuts or not) and `Answering` (the checker answers
  what it read last, so what it answered is what it was sent).
* `NoWakeupLost`, `TasksAreOwn`, `PoolImplementsWorkQueue` (`ThreadPoolProofs`),
  from `PInv`: the queue is the end of the sequence of tasks handed in
  (`InOrder`), a thread has a task exactly while it runs or frees it and no two
  have the same (`Holders`), and `NoLostWakeup` itself, inductive with these. The
  refinement is proved without its fairness.
* `UsesThePool` (`LifecycleProofs`): `Spec` of `Lifecycle` implies that of
  `ThreadPool`. A step of `thread_pool_execute` is one of `ThreadPool` only if the
  task is new; `Fresh` says why it is: a connection is in one place, the backlog,
  `client_socket` or the pool, and the mock connection comes after the stop and is
  never handed in. `NoWakeupLostInProcess` and `OwnTasksInProcess` follow from the
  theorems about the pool.
* `CleanupIsAlone`: `Spec => []CleanupAlone`, from `Fresh`, the pool's invariant
  `PInv` and `Lives`: before the listener is open no thread has left the head of
  its loop, from `cleanup` on all have exited, and in between the configuration is
  there, or the poller has run (`PollOver`) and, since its task is in `accepted`
  and no longer queued, will not run again.
* `HandedOnce`, `PostedForGood`, `NoneStranded`, `OnlyForward`
  (`SolutionsDbProofs`): from `IInv`, the conjunction of the types, `Views` (what
  the connection sees of a row and what is committed differ only inside a
  transaction, and never by a step back), `Trx` (at which points a transaction can
  be open), `Batch` (what the poller holds at each point), `PostedStays` and
  `Marked` (the rows that are handed over or about to be). `OnlyForward` is an
  action property proved from the same invariant.
* `QueueCorrect`, `QueueIsFifo`, `AllIsFreed` (`QueueProofs`): `Chain` is inductive
  with the types; the refinement follows from it. The pointer of the freeing loops is
  a recursive function over the rounds; that it passes the elements in order and then
  stays at `NULL` follows from `Chain` by the least round in which it would not
  (`RoundsAreOrder`), and the rounds suffice because no cell is there twice.
* `ListHolds`, `LoopsDelete`, `ScansAreComplete`, `ImplementsOrderedMap`
  (`UtHashProofs`), for any elements, keys (shared or not) and hashes. The list is
  whole at every step of the writer, but what the properties promise is about the
  end of a loop. `ListOK` says that `next` leads from `head` to `tail` through
  different elements and `prev` back, with the element that is being added at the
  end; `IterOK` that a `HASH_ITER` loop is at an element, has saved its successor,
  and that no element behind it has a key it deletes. `ScanOK` says that what a
  reader has seen is a prefix of the list, and so is the list it began with: this is
  where it matters that additions go to the end and that `list_mutex` keeps
  deletions out. The refinement then needs only that each step appends an element
  that is not there, removes one, or leaves the list alone. `Along`, which reads a
  chain off its fields, is a recursive function; `AlongIs` shows that it gives the
  one sequence of different elements the fields lead through (`Chained`), by the
  least place in which it would not, and everything else is about `Chained`.
* `TableHolds`, `AlwaysSound`, `LookupsFind` (`UtHashProofs`): `Fsck` is about
  the states between operations. `TableInv` has a clause for each step inside one: before `AddChain` the new element is in no chain, before `AddPublish`
  the only pointer missing is its bucket's head (`Announced`), and during a doubling
  the elements are in three places (`MoveOK`): the old buckets not reached yet, the
  rest of the one being emptied, and the new buckets, each in the one of its hash.
  For lookups, `Looking` says that the rest of the chain still has every element
  with the key that was there at the beginning (`StillAhead`). A doubling that has
  allocated its buckets and moved nothing does no harm (`Untouched`); its first move
  does, and makes the lookup `disturbed`.

Only model-checked: liveness (`VerdictEventually`, `CheckedIsJudged`, `StopEnds`,
`DestroyReturns`, `ExtractedEventually`, `SendEnds`, `AnswerTaken`, the fairness of
`WorkQueue`), which is out of the prover's reach. All safety properties of the
passing runs are proved. The inductive invariants were checked with TLC on the instances of
section 3 before they were proved.

## 5. What is not modelled

* `read_string`, `block_init`, `block_free` are pure copies with no caller, and no
  macro of `utlist.h` is used.
* Of `uthash.h`: sorting, selection, replacement, the Bloom filter and the hash
  functions; `server.c` uses the default one, which is the parameter `Hash`.
* What the logger prints. Its mutex is taken last and nothing is called with it
  held; its lifetime is in `Lifecycle`.
* The text of the configuration file, of verdicts (the number of the failed test)
  and of the column `ac`, which is a function of the verdict.
* Memory that runs out, and an error of `accept`, which the code takes for a
  connection whose session fails at once.
* What the MySQL library does with a closed connection. `poll_database` closes the
  connection when the server stops (`solutions_db.c:97`), while clients may still be
  receiving results. `CleanupAlone` is about what `main` and `cleanup` free and does
  not cover this; in `SolutionsDb` a post after `solutions_close_db` fails, so that
  verdict is lost and the row stays at 1.
* A send that fails for ever for a reason other than a timeout or a reset: the loop
  of `process_solutions` then has no end. `wire` allows one such error.

## 6. Plan

Done: all modules of section 2 and the proofs of section 4, which cover the safety
properties of every passing run. The liveness properties are out of the provers'
reach. What could still be stated and proved is how much of `VerdictFinal` is left
under its excluded cases, such as for the solutions that a shared id or a stray answer
does not touch.
