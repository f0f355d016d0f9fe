------------------------------ MODULE Lifecycle ------------------------------
(***************************************************************************)
(* The process from main to its end: the configuration and the logger, the *)
(* main thread that accepts connections, the pool that runs poll_database, *)
(* local_control_loop and one client_loop per connection, the requests of  *)
(* the controller, and what is freed at the end.                           *)
(*                                                                         *)
(* What poll_database and client_loop do while they run is in JudgeServer; *)
(* here only their end counts.                                             *)
(***************************************************************************)
EXTENDS PoolTasks, Sequences

CONSTANTS
  Poll, Control,      (* the tasks poll_database and local_control_loop     *)
  Clients,            (* a connection, and the client_loop task made for it *)
  Mock,               (* the connection local_control_loop makes            *)
  Backlog,            (* bound: connections the listener keeps waiting      *)
  MaxRequests         (* bound: datagrams from the controller               *)

ASSUME TasksDiffer ==
  /\ Poll # Control /\ {Poll, Control} \cap Clients = {}
  /\ Tasks = {Poll, Control} \cup Clients
ASSUME MockAssumption == Mock \notin Clients
ASSUME BoundsAssumption == Backlog \in Nat \ {0} /\ MaxRequests \in Nat

VARIABLES
  cancelled, tasks_queue, worker, task, owner, accepted, (* the pool        *)
  server_running,
  main,               (* where main and run_server are                      *)
  conf,               (* the db_config and its buffer                       *)
  config,             (* the pointer solutions_db.c keeps to it             *)
  logger,
  client_socket,      (* a local of run_server                              *)
  control,            (* where local_control_loop is                        *)
  recv_buf,           (* whether recv_buf has a NUL behind its fourth byte  *)
  requests,           (* datagrams waiting for recvfrom                     *)
  asked,              (* how many the controller has sent                   *)
  backlog,            (* connections the kernel holds for accept            *)
  arrived             (* the clients that have connected so far             *)

pool == <<cancelled, tasks_queue, worker, task, owner, accepted>>
setup == <<conf, config, logger>>
controller == <<control, recv_buf, requests, asked>>
net == <<backlog, arrived>>
vars == <<pool, server_running, main, setup, client_socket, controller, net>>

Pool == INSTANCE ThreadPool

Running(x) == \E w \in Workers : worker[w] = "run" /\ task[w] = x
-----------------------------------------------------------------------------
(* main up to run_server, and the part of run_server that has no threads.   *)

MainStep(from, to) ==
  /\ main = from
  /\ main' = to
  /\ UNCHANGED <<pool, server_running, client_socket, controller, net>>

(* read_db_config gives up if there is no file; what is in it is not looked *)
(* at.  solutions_configure_db keeps the pointer.                           *)
read_db_config ==
  \/ /\ MainStep("config", "daemon")
     /\ conf' = "read" /\ config' = "conf"
     /\ UNCHANGED logger
  \/ /\ MainStep("config", "failed")
     /\ UNCHANGED setup

(* The parent goes, the child goes on; so does a process that is no daemon. *)
daemon_init ==
  /\ \E to \in {"logger", "parent", "failed"} : MainStep("daemon", to)
  /\ UNCHANGED setup

(* Without log.txt there is no logger: logger_printf and logger_destroy     *)
(* return at once.                                                          *)
logger_init ==
  /\ MainStep("logger", "socket")
  /\ logger' \in {"open", "NULL"}
  /\ UNCHANGED <<conf, config>>

(* socket, then bind.                                                       *)
OpenListener ==
  /\ \E to \in {"start", "failed"} : MainStep("socket", to)
  /\ UNCHANGED setup
-----------------------------------------------------------------------------
(* run_server.                                                              *)

Launch(from, x, to) ==
  /\ main = from
  /\ main' = to
  /\ Pool!thread_pool_execute(x)
  /\ UNCHANGED <<server_running, setup, client_socket, controller, net>>

TestRunning ==
  /\ MainStep("test", IF server_running THEN "accept" ELSE "destroy")
  /\ UNCHANGED setup

(* accept blocks as long as there is no connection.  That an error (-1) is  *)
(* taken for a connection is left to the client_loop that fails on it.      *)
Accept ==
  /\ main = "accept"
  /\ backlog # <<>>
  /\ client_socket' = Head(backlog)
  /\ backlog' = Tail(backlog)
  /\ main' = "accepted"
  /\ UNCHANGED <<pool, server_running, setup, controller, arrived>>

(* After a stop the connection is closed, whoever it is from.               *)
Accepted ==
  \/ server_running /\ Launch("accepted", client_socket, "test")
  \/ /\ ~server_running
     /\ MainStep("accepted", "destroy")
     /\ UNCHANGED setup

Destroy ==
  /\ main = "destroy"
  /\ Pool!destroy_thread_pool
  /\ main' = IF owner' = "destroyed" THEN "cleanup" ELSE "destroy"
  /\ UNCHANGED <<server_running, setup, client_socket, controller, net>>

(* cleanup frees what clients_map and compilers_map still hold, which is    *)
(* gone from here on; its two loops are the HASH_ITER loop of UtHash.       *)
cleanup ==
  /\ MainStep("cleanup", "free_conf")
  /\ UNCHANGED setup

run_server ==
  \/ Launch("start", Poll, "poll_started") \/ Launch("poll_started", Control, "test")
  \/ TestRunning \/ Accept \/ Accepted \/ Destroy \/ cleanup

FreeConf ==
  /\ MainStep("free_conf", "logger_destroy")
  /\ conf' = "freed"
  /\ UNCHANGED <<config, logger>>

logger_destroy ==
  /\ MainStep("logger_destroy", "exit")
  /\ logger' = IF logger = "NULL" THEN "NULL" ELSE "freed"
  /\ UNCHANGED <<conf, config>>

main_thread ==
  \/ read_db_config \/ daemon_init \/ logger_init \/ OpenListener \/ run_server
  \/ FreeConf \/ logger_destroy
-----------------------------------------------------------------------------
(* local_control_loop.                                                      *)

(* The requests; a "stop" may come with its NUL or without.                 *)
Requests == {"status", "stop", "stop0"}

(* Whether bind worked is not looked at; without it nothing comes in.       *)
BindControl ==
  /\ Running(Control)
  /\ control = "off"
  /\ control' \in {"recvfrom", "unbound"}
  /\ UNCHANGED <<pool, server_running, main, setup, client_socket, recv_buf, requests,
                 asked, net>>

(* A datagram arrives; before the bind it would be lost.                    *)
Ask(r) ==
  /\ control = "recvfrom"
  /\ asked < MaxRequests
  /\ asked' = asked + 1
  /\ requests' = Append(requests, r)
  /\ UNCHANGED <<pool, server_running, main, setup, client_socket, control, recv_buf, net>>

(* recvfrom writes over the front of recv_buf.                              *)
Received(r) ==
  CASE r = "status" -> FALSE [] r = "stop" -> recv_buf [] r = "stop0" -> TRUE

(* A "stop" is understood if a NUL follows it, its own or one left over.    *)
(* "status" is answered, which changes nothing.                             *)
ReceiveRequest ==
  /\ control = "recvfrom"
  /\ requests # <<>>
  /\ requests' = Tail(requests)
  /\ recv_buf' = Received(Head(requests))
  /\ IF Head(requests) # "status" /\ recv_buf'
     THEN control' = "connect" /\ server_running' = FALSE
     ELSE UNCHANGED <<control, server_running>>
  /\ UNCHANGED <<pool, main, setup, client_socket, asked, net>>

(* Seeded bug: nobody connects.                                             *)
NobodyConnects == backlog

(* The mock client; connect gives up, unnoticed, if the listener's queue    *)
(* stays full.                                                              *)
MockConnects == IF Len(backlog) < Backlog THEN Append(backlog, Mock) ELSE backlog

ConnectMock ==
  /\ control = "connect"
  /\ backlog' = MockConnects
  /\ control' = "done"
  /\ UNCHANGED <<pool, server_running, main, setup, client_socket, recv_buf, requests,
                 asked, arrived>>

local_control_loop == BindControl \/ ReceiveRequest \/ ConnectMock
-----------------------------------------------------------------------------
(* The pool's threads.                                                      *)

(* run_server makes the pool when the listener is there.                    *)
PoolExists == main \notin {"config", "daemon", "logger", "socket", "parent", "failed"}

(* When a task has to end: poll_database and client_loop look at            *)
(* server_running again after at most one timeout.                          *)
MustEnd(x) == IF x = Control THEN control = "done" ELSE ~server_running

(* Before that poll_database ends if it cannot reach the database, and      *)
(* client_loop if the handshake fails or the client is given up.  A poller  *)
(* that was stopped leaves through solutions_close_db.                      *)
TaskEnds(w) ==
  /\ Pool!TaskEnds(w)
  /\ task[w] # Control \/ MustEnd(task[w])
  /\ config' = IF task[w] = Poll /\ ~server_running THEN "NULL" ELSE config
  /\ UNCHANGED <<server_running, main, conf, logger, client_socket, controller, net>>

thread_exec(w) ==
  /\ PoolExists
  /\ Pool!thread_exec(w)
  /\ UNCHANGED <<server_running, main, setup, client_socket, controller, net>>

SpuriousWakeup(w) ==
  /\ Pool!SpuriousWakeup(w)
  /\ UNCHANGED <<server_running, main, setup, client_socket, controller, net>>

(* A client connects.                                                       *)
Arrive(c) ==
  /\ c \notin arrived
  /\ Len(backlog) < Backlog
  /\ arrived' = arrived \cup {c}
  /\ backlog' = Append(backlog, c)
  /\ UNCHANGED <<pool, server_running, main, setup, client_socket, controller>>
-----------------------------------------------------------------------------
Init ==
  /\ Pool!Init
  /\ server_running = TRUE
  /\ main = "config" /\ client_socket = NoTask
  /\ conf = "none" /\ config = "NULL" /\ logger = "none"
  /\ control = "off" /\ recv_buf \in BOOLEAN
  /\ requests = <<>> /\ asked = 0
  /\ backlog = <<>> /\ arrived = {}

Next ==
  \/ main_thread
  \/ local_control_loop
  \/ \E r \in Requests : Ask(r)
  \/ \E w \in Workers : thread_exec(w) \/ SpuriousWakeup(w) \/ TaskEnds(w)
  \/ \E c \in Clients : Arrive(c)

Spec == Init /\ [][Next]_vars

(* Threads that can run do run, and tasks that must end do.                 *)
FairSpec ==
  /\ Spec
  /\ WF_vars(main_thread) /\ WF_vars(local_control_loop)
  /\ \A w \in Workers : WF_vars(thread_exec(w)) /\ WF_vars(MustEnd(task[w]) /\ TaskEnds(w))
-----------------------------------------------------------------------------
(* A stop request that comes with its NUL ends the process, whatever else   *)
(* is asked and whoever connects meanwhile: accept is woken (server.c:541), *)
(* no thread sleeps on, every task ends.                                    *)
StopEnds ==
  (\E i \in DOMAIN requests : requests[i] = "stop0") ~> main = "exit"

(* While a task runs, what it uses is there: the configuration, the logger  *)
(* (or none at all), the clients and compilers.  "it's guaranteed that all  *)
(* worker threads are stopped" (server.c:559) when cleanup and main free    *)
(* them, and poll_database finds the config it asserts (solutions_db.c:22). *)
CleanupAlone ==
  \A x \in Tasks : Running(x) =>
    /\ main \notin {"free_conf", "logger_destroy", "exit"}
    /\ conf = "read" /\ logger \in {"open", "NULL"}
    /\ x = Poll => config = "conf"

(* No signal of thread_pool_execute is lost while run_server hands in the   *)
(* poller, the control loop and the clients (thread_pool.c:54-72).          *)
NoLostWakeup == Pool!NoLostWakeup

(* Every thread of the pool runs a task of its own: one poller, one control *)
(* loop, one client_loop per connection (thread_pool.c:64-73).              *)
OwnTask == Pool!OwnTask

(* The pool keeps WorkQueue's promise as run_server uses it: a connection   *)
(* that was accepted is served, in its turn, as soon as a thread is free    *)
(* (thread_pool.c:49-81).                                                   *)
KeepsPromise == Pool!KeepsPromise

(* run_server gets past destroy_thread_pool (server.c:82), since the tasks  *)
(* it waits for see the stop (thread_pool.c:29-47).                         *)
DestroyReturns == Pool!DestroyReturns
==============================================================================
