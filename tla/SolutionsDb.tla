----------------------------- MODULE SolutionsDb -----------------------------
(***************************************************************************)
(* solutions_db.c: the statements that poll_database and the client        *)
(* threads send over the one MySQL connection of the process.              *)
(*                                                                         *)
(* The poller holds db_mutex from its SELECT to its COMMIT, and post_result *)
(* takes it for its UPDATE.  The "FL" verdicts of push_solution are posted *)
(* without it (server.c:363, 396), so they can fall between any two of the *)
(* poller's statements.  The server, the library and the web application   *)
(* that inserts rows are external.                                         *)
(***************************************************************************)
EXTENDS Integers, FiniteSets

CONSTANTS
  Solutions,
  MaxFaults           (* bound, for each kind of fault                      *)

(* "statement": a statement fails and has no effect; "end": so does a       *)
(* commit or a rollback, which leaves the transaction open; "lost": the     *)
(* connection breaks; "crash": the process dies and is started again.       *)
FaultKinds == {"statement", "end", "lost", "crash"}

ASSUME FaultsAssumption == MaxFaults \in [FaultKinds -> Nat]
ASSUME SolutionsAssumption == IsFiniteSet(Solutions)

VARIABLES
  table,              (* the column "checking" as this connection sees it,  *)
                      (* -1 for no row                                      *)
  durable,            (* ... and as it is committed                         *)
  in_trx,             (* a transaction is open                              *)
  conn,               (* the state of the connection                        *)
  poll,               (* where poll_database is                             *)
  new_solutions,      (* the rows it has selected                           *)
  todo,               (* those it has still to update                       *)
  held,               (* solutions in the queues and with the clients       *)
  faults,
  (* history, read by the properties alone                                  *)
  handed,             (* solutions some process gave to push_solution       *)
  posted              (* verdicts posted under db_mutex with no error       *)

vars == <<table, durable, in_trx, conn, poll, new_solutions, todo, held, faults,
          handed, posted>>
rows == <<table, durable, in_trx>>
batch == <<new_solutions, todo>>
past == <<handed, posted>>

(* "result": a result set waits for mysql_store_result, and until it is     *)
(* fetched every other statement is refused as out of sync.                 *)
ConnStates == {"none", "ready", "result", "lost"}

(* The points between pthread_mutex_lock(db_mutex) and its unlock.          *)
Critical == {"select", "store", "start", "update", "commit", "rollback"}
PollPoints == {"init", "sleep", "push", "ended"} \cup Critical

db_mutex_free == poll \notin Critical

Fault(kind) ==
  /\ faults[kind] < MaxFaults[kind]
  /\ faults' = [faults EXCEPT ![kind] = @ + 1]

Goto(l) == poll' = l
-----------------------------------------------------------------------------
(* What the server does with a statement.                                   *)

(* The connection breaks: the server rolls back, every later statement      *)
(* fails.                                                                   *)
Break ==
  /\ conn = "ready"
  /\ Fault("lost")
  /\ conn' = "lost"
  /\ table' = durable
  /\ in_trx' = FALSE
  /\ UNCHANGED durable

(* query() returns ERR_DB, and nothing has changed.                         *)
Refused ==
  /\ conn # "ready"
  /\ UNCHANGED <<rows, conn, faults>>
Failed(kind) ==
  /\ conn = "ready"
  /\ Fault(kind)
  /\ UNCHANGED <<rows, conn>>

QueryFails(kind) == Refused \/ Failed(kind) \/ Break

(* query() returns 0: an UPDATE, which commits at once unless a transaction *)
(* is open.                                                                 *)
QueryUpdates(t) ==
  /\ conn = "ready"
  /\ table' = t
  /\ durable' = IF in_trx THEN durable ELSE t
  /\ UNCHANGED <<in_trx, conn, faults>>
-----------------------------------------------------------------------------
(* poll_database and solutions_extract_new.                                 *)

(* solutions_init_db; without a connection the thread ends.                 *)
solutions_init_db ==
  /\ poll = "init"
  /\ \/ conn' = "ready" /\ Goto("sleep") /\ UNCHANGED faults
     \/ conn' = "lost" /\ Goto("ended") /\ Fault("lost")
  /\ UNCHANGED <<rows, batch, held, past>>

(* The sleep is over and db_mutex is taken.                                 *)
WakeUp ==
  /\ poll = "sleep"
  /\ Goto("select")
  /\ UNCHANGED <<rows, conn, batch, held, faults, past>>

(* The server is stopped: solutions_close_db.                               *)
solutions_close_db ==
  /\ poll = "sleep"
  /\ Goto("ended")
  /\ conn' = "none"
  /\ table' = durable
  /\ in_trx' = FALSE
  /\ UNCHANGED <<durable, batch, held, faults, past>>

(* Seeded bug: everything without a verdict is selected.                    *)
Unjudged == {s \in Solutions : table[s] \in {0, 1}}

NewRows == {s \in Solutions : table[s] = 0}

(* select * from solutions where checking = 0                               *)
Select ==
  /\ poll = "select"
  /\ \/ /\ conn = "ready"
        /\ conn' = "result"
        /\ new_solutions' = NewRows
        /\ Goto("store")
        /\ UNCHANGED <<rows, faults>>
     \/ /\ QueryFails("statement")
        /\ Goto("sleep")
        /\ UNCHANGED new_solutions
  /\ UNCHANGED <<todo, held, past>>

(* Seeded bug: a result with no rows is not fetched.                        *)
FetchedIfAny == IF new_solutions = {} THEN conn ELSE "ready"

Fetched == "ready"

(* mysql_store_result, and the copy of every row.  Its return value is used *)
(* without a test: if it fails, the process dies (see Crash).  ERR_SCHEMA,  *)
(* for a table that was altered, comes after it.                            *)
Store ==
  /\ poll = "store"
  /\ conn' = Fetched
  /\ \/ /\ todo' = new_solutions
        /\ Goto(IF new_solutions = {} THEN "sleep" ELSE "start")
        /\ UNCHANGED faults
     \/ /\ Fault("statement")
        /\ Goto("sleep")
        /\ UNCHANGED todo
  /\ UNCHANGED <<rows, new_solutions, held, past>>

(* start transaction, which commits one that is still open.                 *)
StartTransaction ==
  /\ poll = "start"
  /\ \/ /\ conn = "ready"
        /\ durable' = table
        /\ in_trx' = TRUE
        /\ Goto("update")
        /\ UNCHANGED <<table, conn, faults>>
     \/ /\ QueryFails("statement")
        /\ Goto("sleep")
  /\ UNCHANGED <<batch, held, past>>

(* Seeded bug: the loop of updates ends one row early.                      *)
OneLeft == Cardinality(todo) <= 1

NoneLeft == todo = {}

(* update solutions set checking = 1 where id = s                           *)
MarkRow(s) ==
  /\ poll = "update"
  /\ ~NoneLeft
  /\ \/ /\ QueryUpdates([table EXCEPT ![s] = 1])
        /\ todo' = todo \ {s}
        /\ UNCHANGED poll
     \/ /\ QueryFails("statement")
        /\ Goto("rollback")
        /\ UNCHANGED todo
  /\ UNCHANGED <<new_solutions, held, past>>

MarkedAll ==
  /\ poll = "update"
  /\ NoneLeft
  /\ Goto("commit")
  /\ UNCHANGED <<rows, conn, batch, held, faults, past>>

(* Seeded bug: no rollback.                                                 *)
NothingUndone == UNCHANGED <<rows, conn, faults>>

Undone ==
  /\ conn = "ready"
  /\ table' = durable
  /\ in_trx' = FALSE
  /\ UNCHANGED <<durable, conn, faults>>

(* rollback; whether it works is not looked at.                             *)
Rollback ==
  /\ poll = "rollback"
  /\ Undone \/ QueryFails("end")
  /\ Goto("sleep")
  /\ UNCHANGED <<batch, held, past>>

(* commit.  If the answer is lost with the connection it may have worked;   *)
(* if it fails otherwise the transaction stays open.                        *)
Commit ==
  /\ poll = "commit"
  /\ \/ /\ conn = "ready"
        /\ durable' = table
        /\ in_trx' = FALSE
        /\ Goto("push")
        /\ UNCHANGED <<table, conn, faults>>
     \/ /\ conn = "ready"
        /\ Fault("lost")
        /\ conn' = "lost"
        /\ durable' = table
        /\ in_trx' = FALSE
        /\ Goto("sleep")
        /\ UNCHANGED table
     \/ /\ QueryFails("end")
        /\ Goto("sleep")
  /\ UNCHANGED <<batch, held, past>>

(* db_mutex is given back and every new solution goes to push_solution.     *)
Push ==
  /\ poll = "push"
  /\ held' = held \cup new_solutions
  /\ handed' = handed \cup new_solutions
  /\ Goto("sleep")
  /\ UNCHANGED <<rows, conn, batch, faults, posted>>

poll_database ==
  \/ solutions_init_db \/ WakeUp \/ Select \/ Store \/ StartTransaction
  \/ (\E s \in todo : MarkRow(s)) \/ MarkedAll \/ Rollback \/ Commit \/ Push
-----------------------------------------------------------------------------
(* solution_post_result.  Nobody looks at what it returns.                  *)
solution_post_result(s) ==
  \/ QueryUpdates([table EXCEPT ![s] = 2])
  \/ QueryFails("statement")

(* Seeded bug: the mutex is forgotten.                                      *)
NoMutex == TRUE

MutexTaken == db_mutex_free

(* post_result, by the thread of a client.                                  *)
post_result(s) ==
  /\ s \in held
  /\ MutexTaken
  /\ solution_post_result(s)
  /\ held' = held \ {s}
  /\ posted' = IF table'[s] = 2 THEN posted \cup {s} ELSE posted
  /\ UNCHANGED <<poll, batch, handed>>

(* "FL" from push_solution, in the poller or in a remove_client.  In the    *)
(* middle of one of the poller's statements the library may fail, too.      *)
PostFL(s) ==
  /\ s \in held
  /\ \/ solution_post_result(s)
     \/ /\ ~db_mutex_free
        /\ UNCHANGED <<rows, conn, faults>>
  /\ held' = held \ {s}
  /\ UNCHANGED <<poll, batch, past>>

(* The process ends and another one starts; the server rolls back.          *)
Crash ==
  /\ Fault("crash")
  /\ table' = durable
  /\ in_trx' = FALSE
  /\ conn' = "none"
  /\ Goto("init")
  /\ new_solutions' = {} /\ todo' = {} /\ held' = {}
  /\ UNCHANGED <<durable, past>>

(* The web application inserts a row, on a connection of its own.           *)
Submit(s) ==
  /\ durable[s] = -1
  /\ table' = [table EXCEPT ![s] = 0]
  /\ durable' = [durable EXCEPT ![s] = 0]
  /\ UNCHANGED <<in_trx, conn, poll, batch, held, faults, past>>
-----------------------------------------------------------------------------
(* Rows that an earlier process marked are there, and are no one's.         *)
Init ==
  /\ table \in [Solutions -> {-1, 1}]
  /\ durable = table
  /\ in_trx = FALSE
  /\ conn = "none"
  /\ poll = "init"
  /\ new_solutions = {} /\ todo = {} /\ held = {}
  /\ faults = [kind \in FaultKinds |-> 0]
  /\ handed = {s \in Solutions : table[s] = 1}
  /\ posted = {}

Next ==
  \/ poll_database \/ solutions_close_db
  \/ \E s \in Solutions : post_result(s) \/ PostFL(s) \/ Submit(s)
  \/ Crash

Spec == Init /\ [][Next]_vars

(* The poller goes on as long as it is not stopped.                         *)
FairSpec == Spec /\ WF_vars(poll_database)
-----------------------------------------------------------------------------
TypeOK ==
  /\ table \in [Solutions -> -1..2] /\ durable \in [Solutions -> -1..2]
  /\ in_trx \in BOOLEAN
  /\ conn \in ConnStates
  /\ poll \in PollPoints
  /\ new_solutions \subseteq Solutions /\ todo \subseteq Solutions
  /\ held \subseteq Solutions /\ handed \subseteq Solutions /\ posted \subseteq Solutions
  /\ faults \in [FaultKinds -> Nat]

(* A solution that was given to push_solution is marked for good: neither a *)
(* later poll nor another process after a crash selects it again, whatever  *)
(* statements fail (solutions_db.c:76-88).                                  *)
HandedIsMarked == \A s \in handed : durable[s] \in {1, 2}

(* A row never goes back: checking is 0, then 1, then 2, for everyone who   *)
(* reads the table, though "FL" verdicts are written between the SELECT and *)
(* the updates of the poller.                                               *)
RowsForward == [][\A s \in Solutions : durable'[s] >= durable[s]]_vars

(* As long as no commit or rollback fails, a verdict posted under db_mutex  *)
(* is committed: no rollback, broken connection or crash takes it back.     *)
PostedStays == faults["end"] = 0 => \A s \in posted : durable[s] = 2

(* A failed SELECT, START TRANSACTION or UPDATE strands no row: what is     *)
(* marked was handed over, or is just about to be.                          *)
NoRowStranded ==
  /\ faults["end"] = 0 /\ faults["lost"] = 0 /\ faults["crash"] = 0
  /\ poll # "push"
  => \A s \in Solutions : durable[s] = 1 => s \in handed

(* ... and every row that was inserted gets to push_solution, with nothing  *)
(* worse than failed statements, unless the server is stopped.              *)
Undisturbed ==
  /\ faults["end"] = 0 /\ faults["lost"] = 0 /\ faults["crash"] = 0
  /\ poll # "ended"
ExtractedEventually ==
  []Undisturbed => \A s \in Solutions : durable[s] = 0 ~> s \in handed
==============================================================================
