----------------------------- MODULE ThreadPool ------------------------------
(***************************************************************************)
(* thread_pool.c: a fixed set of threads that take tasks from a queue under *)
(* one mutex and one condition variable.                                   *)
(*                                                                         *)
(* Every section between pthread_mutex_lock and pthread_mutex_unlock, or   *)
(* pthread_cond_wait, is one step.  The two plain accesses of "cancelled"  *)
(* outside the mutex, in thread_exec and in destroy_thread_pool, are steps *)
(* of their own.                                                           *)
(***************************************************************************)
EXTENDS PoolTasks, Sequences

VARIABLES
  cancelled,
  tasks_queue,
  worker,             (* worker[w]: where thread w is in thread_exec        *)
  task,               (* task[w]: its local t                               *)
  owner,              (* where the thread that owns the pool is             *)
  accepted            (* history: the tasks handed in, in that order        *)

vars == <<cancelled, tasks_queue, worker, task, owner, accepted>>

WorkerPoints == {"head", "lock", "wait", "woken", "run", "free", "exit"}
OwnerPoints == {"open", "broadcast", "join", "destroyed"}

Goto(w, l) == worker' = [worker EXCEPT ![w] = l]

(* The threads in pthread_cond_wait.                                        *)
Waiters == {w \in Workers : worker[w] = "wait"}

Wake(W) == worker' = [w \in Workers |-> IF w \in W THEN "woken" ELSE worker[w]]
-----------------------------------------------------------------------------
(* The owner: run_server.                                                   *)

(* Seeded bug: only a push to an empty queue signals.                       *)
SignalFirst == IF tasks_queue = <<>> THEN {{w} : w \in Waiters} ELSE {}

(* Whom pthread_cond_signal can wake; with no waiter it does nothing.       *)
Signal == {{w} : w \in Waiters}

thread_pool_execute(x) ==
  /\ owner = "open"
  /\ tasks_queue' = Append(tasks_queue, x)
  /\ accepted' = Append(accepted, x)
  /\ \/ \E W \in Signal : Wake(W)
     \/ Signal = {} /\ UNCHANGED worker
  /\ UNCHANGED <<cancelled, task, owner>>

(* destroy_thread_pool sets the flag without the mutex ...                  *)
DestroyCancel ==
  /\ owner = "open"
  /\ cancelled' = TRUE
  /\ owner' = "broadcast"
  /\ UNCHANGED <<tasks_queue, worker, task, accepted>>

(* Seeded bug: pthread_cond_signal instead of pthread_cond_broadcast.       *)
OneWaiter == IF Waiters = {} THEN {} ELSE {CHOOSE w \in Waiters : TRUE}

Broadcast == Waiters

(* ... and wakes all with it ...                                            *)
DestroyBroadcast ==
  /\ owner = "broadcast"
  /\ Wake(Broadcast)
  /\ owner' = "join"
  /\ UNCHANGED <<cancelled, tasks_queue, task, accepted>>

(* Seeded bug: the loop of joins leaves out a thread.                       *)
ButOneJoined == \A v, w \in Workers : v # w => "exit" \in {worker[v], worker[w]}

Joined == \A w \in Workers : worker[w] = "exit"

(* ... joins the threads and frees the pool, with the tasks still queued.   *)
DestroyJoin ==
  /\ owner = "join"
  /\ Joined
  /\ owner' = "destroyed"
  /\ UNCHANGED <<cancelled, tasks_queue, worker, task, accepted>>

destroy_thread_pool == DestroyCancel \/ DestroyBroadcast \/ DestroyJoin
-----------------------------------------------------------------------------
(* thread_exec, run by thread w.                                            *)

LoopHead(w) ==
  /\ worker[w] = "head"
  /\ Goto(w, IF cancelled THEN "exit" ELSE "lock")
  /\ UNCHANGED <<cancelled, tasks_queue, task, owner, accepted>>

(* Seeded bug: the condition is not looked at again after a wait.           *)
EmptyAtFirst(w) == worker[w] = "lock" /\ tasks_queue = <<>>

Empty(w) == tasks_queue = <<>>

(* queue_pop gives NULL for an empty queue.                                 *)
TakeTask(w) ==
  /\ worker[w] \in {"lock", "woken"}
  /\ \/ /\ cancelled
        /\ Goto(w, "exit")
        /\ UNCHANGED <<tasks_queue, task>>
     \/ /\ ~cancelled /\ Empty(w)
        /\ Goto(w, "wait")
        /\ UNCHANGED <<tasks_queue, task>>
     \/ /\ ~cancelled /\ ~Empty(w)
        /\ Goto(w, "run")
        /\ IF tasks_queue = <<>>
           THEN UNCHANGED <<tasks_queue, task>>
           ELSE /\ task' = [task EXCEPT ![w] = Head(tasks_queue)]
                /\ tasks_queue' = Tail(tasks_queue)
  /\ UNCHANGED <<cancelled, owner, accepted>>

(* pthread_cond_wait may return with no signal.                             *)
SpuriousWakeup(w) ==
  /\ w \in Waiters
  /\ Wake({w})
  /\ UNCHANGED <<cancelled, tasks_queue, task, owner, accepted>>

(* task_func returns.                                                       *)
TaskEnds(w) ==
  /\ worker[w] = "run"
  /\ Goto(w, "free")
  /\ UNCHANGED <<cancelled, tasks_queue, task, owner, accepted>>

FreeTask(w) ==
  /\ worker[w] = "free"
  /\ Goto(w, "head")
  /\ task' = [task EXCEPT ![w] = NoTask]
  /\ UNCHANGED <<cancelled, tasks_queue, owner, accepted>>

thread_exec(w) == LoopHead(w) \/ TakeTask(w) \/ FreeTask(w)
-----------------------------------------------------------------------------
Init ==
  /\ cancelled = FALSE /\ tasks_queue = <<>>
  /\ worker = [w \in Workers |-> "head"] /\ task = [w \in Workers |-> NoTask]
  /\ owner = "open" /\ accepted = <<>>

HandedIn == {accepted[i] : i \in DOMAIN accepted}

Next ==
  \/ \E x \in Tasks \ HandedIn : thread_pool_execute(x)
  \/ destroy_thread_pool
  \/ \E w \in Workers : thread_exec(w) \/ SpuriousWakeup(w) \/ TaskEnds(w)

Spec == Init /\ [][Next]_vars

(* A thread gets the mutex in the end, since nobody keeps it.  Once the     *)
(* pool is being destroyed its tasks end.                                   *)
FairSpec ==
  /\ Spec
  /\ WF_vars(DestroyBroadcast) /\ WF_vars(DestroyJoin)
  /\ \A w \in Workers : WF_vars(thread_exec(w)) /\ WF_vars(cancelled /\ TaskEnds(w))
-----------------------------------------------------------------------------
TypeOK ==
  /\ cancelled \in BOOLEAN
  /\ tasks_queue \in Seq(Tasks) /\ accepted \in Seq(Tasks)
  /\ worker \in [Workers -> WorkerPoints]
  /\ task \in [Workers -> Tasks \cup {NoTask}]
  /\ owner \in OwnerPoints

(* The threads that will look into the queue before they wait.              *)
Coming == {w \in Workers : worker[w] \in {"head", "lock", "woken", "free"}}

(* No wakeup is lost: while a thread sleeps, there is for every queued task *)
(* another one on its way to the queue, although a signalled thread can     *)
(* find its task taken by one that never slept (thread_pool.c:54-72).       *)
NoLostWakeup ==
  ~cancelled /\ Waiters # {} => Len(tasks_queue) <= Cardinality(Coming)

(* A thread runs a task, never the NULL that queue_pop gives for an empty   *)
(* queue, and two threads never run the same one.                           *)
OwnTask ==
  \A w \in Workers : worker[w] = "run" =>
    /\ task[w] # NoTask
    /\ \A v \in Workers \ {w} : task[v] # task[w]

(* The pool keeps the promise of WorkQueue, the start of every task that    *)
(* could run included.                                                      *)
Promise == INSTANCE WorkQueue WITH
  Capacity <- Cardinality(Workers),
  started <- Len(accepted) - Len(tasks_queue),
  running <- {task[w] : w \in Workers} \ {NoTask},
  open <- ~cancelled
KeepsPromise == Promise!FairSpec

(* destroy_thread_pool returns: the flag is set outside the mutex, but no   *)
(* thread can fall asleep after the broadcast (thread_pool.c:29-37, 64-67). *)
DestroyReturns == owner = "broadcast" ~> owner = "destroyed"
==============================================================================
