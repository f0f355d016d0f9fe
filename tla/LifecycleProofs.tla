-------------------------- MODULE LifecycleProofs ----------------------------
(* run_server uses the pool as the pool expects to be used, so what is      *)
(* proved of ThreadPool holds in the process; and nothing that a task uses  *)
(* is freed before the task has ended.                                      *)
EXTENDS Lifecycle, SequenceTheorems, TLAPS

Proofs == INSTANCE ThreadPoolProofs

In(s) == {s[i] : i \in DOMAIN s}

Early == {"config", "daemon", "logger", "socket", "parent", "failed"}

(* A connection is in one place: with the kernel, in client_socket, or with *)
(* the pool.                                                                *)
Connections ==
  /\ accepted \in Seq(Tasks)
  /\ backlog \in Seq(Clients \cup {Mock})
  /\ In(accepted) \cap Clients \subseteq arrived
  /\ In(backlog) \cap Clients \subseteq arrived \ In(accepted)
  /\ \A i, j \in DOMAIN backlog : backlog[i] = backlog[j] /\ backlog[i] # Mock => i = j
  /\ main = "accepted" =>
       \/ client_socket = Mock
       \/ /\ client_socket \in Clients
          /\ client_socket \in arrived \ In(accepted)
          /\ client_socket \notin In(backlog)

(* Each task is handed in once.                                             *)
Handing ==
  /\ main \in Early \cup {"start"} => In(accepted) = {}
  /\ main = "poll_started" => Control \notin In(accepted)

(* The mock client connects after the stop.                                 *)
MockLate ==
  /\ server_running \in BOOLEAN
  /\ server_running = TRUE =>
       /\ Mock \notin In(backlog)
       /\ control \notin {"connect", "done"}
       /\ main = "accepted" => client_socket # Mock

Fresh == Connections /\ Handing /\ MockLate
-----------------------------------------------------------------------------
LEMMA InAppend ==
  ASSUME NEW S, NEW s \in Seq(S), NEW x \in S
  PROVE  /\ Append(s, x) \in Seq(S)
         /\ In(Append(s, x)) = In(s) \cup {x}
         /\ DOMAIN Append(s, x) = DOMAIN s \cup {Len(s) + 1}
         /\ \A i \in DOMAIN s : Append(s, x)[i] = s[i] /\ i # Len(s) + 1
         /\ Append(s, x)[Len(s) + 1] = x
<1>1. /\ Append(s, x) \in Seq(S) /\ Len(Append(s, x)) = Len(s) + 1
      /\ \A i \in 1..Len(s) : Append(s, x)[i] = s[i]
      /\ Append(s, x)[Len(s) + 1] = x /\ Len(s) \in Nat
  BY AppendProperties, LenProperties
<1>2. DOMAIN s = 1..Len(s) /\ DOMAIN Append(s, x) = 1..(Len(s) + 1)
  BY <1>1, LenProperties
<1>3. DOMAIN Append(s, x) = DOMAIN s \cup {Len(s) + 1}
  BY <1>1, <1>2
<1> QED BY <1>1, <1>2, <1>3 DEF In

LEMMA InTail ==
  ASSUME NEW S, NEW s \in Seq(S), s # <<>>
  PROVE  /\ Head(s) \in S /\ Head(s) \in In(s) /\ Tail(s) \in Seq(S)
         /\ 1 \in DOMAIN s /\ Head(s) = s[1]
         /\ In(Tail(s)) \subseteq In(s)
         /\ \A i \in DOMAIN Tail(s) : i + 1 \in DOMAIN s /\ Tail(s)[i] = s[i + 1] /\ i + 1 # 1
<1>1. /\ Head(s) \in S /\ Head(s) = s[1] /\ Tail(s) \in Seq(S)
      /\ Len(Tail(s)) = Len(s) - 1
      /\ \A i \in 1..Len(Tail(s)) : Tail(s)[i] = s[i + 1]
  BY HeadTailProperties
<1>2. /\ Len(s) \in Nat /\ Len(s) # 0 /\ DOMAIN s = 1..Len(s)
      /\ DOMAIN Tail(s) = 1..(Len(s) - 1)
  BY <1>1, LenProperties, EmptySeq
<1>3. 1 \in DOMAIN s /\ Head(s) \in In(s)
  BY <1>1, <1>2 DEF In
<1>4. \A i \in DOMAIN Tail(s) : i + 1 \in DOMAIN s /\ Tail(s)[i] = s[i + 1] /\ i + 1 # 1
  BY <1>1, <1>2
<1> QED BY <1>1, <1>3, <1>4 DEF In
-----------------------------------------------------------------------------
(* Steps that hand nothing in and move no connection.                       *)
LEMMA FreshFrame ==
  ASSUME Fresh, UNCHANGED <<accepted, backlog, arrived, client_socket, server_running>>,
         control' = control \/ control' \notin {"connect", "done"},
         main' = main \/ main' \notin {"poll_started", "accepted"},
         main' \in Early \cup {"start"} => main \in Early \cup {"start"}
  PROVE  Fresh'
<1>1. Connections'
  BY DEF Fresh, Connections, In
<1>2. Handing'
  BY DEF Fresh, Handing, In
<1>3. MockLate'
  BY DEF Fresh, MockLate, In
<1> QED BY <1>1, <1>2, <1>3 DEF Fresh

(* thread_pool_execute of a task that is new.                               *)
LEMMA FreshLaunch ==
  ASSUME Fresh, NEW from, NEW x \in Tasks, NEW to, Launch(from, x, to),
         x \notin In(accepted), x \in Clients => x \in arrived \ In(backlog),
         to \notin Early \cup {"start", "accepted"}, to = "poll_started" => Control \notin In(accepted) \cup {x}
  PROVE  Fresh'
<1>1. /\ accepted' = Append(accepted, x) /\ main' = to
      /\ UNCHANGED <<backlog, arrived, client_socket, server_running, control>>
  BY DEF Launch, Pool!thread_pool_execute, controller, net
<1>2. accepted' \in Seq(Tasks) /\ In(accepted)' = In(accepted) \cup {x}
  <2>1. Append(accepted, x) \in Seq(Tasks) /\ In(Append(accepted, x)) = In(accepted) \cup {x}
    BY InAppend DEF Fresh, Connections
  <2> QED BY <1>1, <2>1 DEF In
<1>3. In(backlog)' = In(backlog)
  BY <1>1 DEF In
<1>4. Connections'
  BY <1>1, <1>2, <1>3 DEF Fresh, Connections
<1>5. Handing' /\ MockLate'
  BY <1>1, <1>2, <1>3 DEF Fresh, Handing, MockLate
<1> QED BY <1>4, <1>5 DEF Fresh

(* A connection joins the listener's queue.                                 *)
LEMMA FreshConnect ==
  ASSUME Fresh, NEW c \in Clients \cup {Mock}, backlog' = Append(backlog, c),
         c = Mock => server_running = FALSE,
         c # Mock => c \notin arrived /\ c \in arrived',
         arrived \subseteq arrived',
         UNCHANGED <<accepted, main, client_socket, server_running>>,
         server_running = TRUE => control' = control
  PROVE  Fresh'
<1>1. /\ backlog' \in Seq(Clients \cup {Mock}) /\ In(backlog)' = In(backlog) \cup {c}
      /\ DOMAIN backlog' = DOMAIN backlog \cup {Len(backlog) + 1}
      /\ \A i \in DOMAIN backlog : backlog'[i] = backlog[i] /\ i # Len(backlog) + 1
      /\ backlog'[Len(backlog) + 1] = c
  <2>1. backlog \in Seq(Clients \cup {Mock})
    BY DEF Fresh, Connections
  <2>2. In(backlog)' = In(Append(backlog, c))
    BY DEF In
  <2> QED BY <2>1, <2>2, InAppend
<1>2. In(accepted)' = In(accepted)
  BY DEF In
<1>3. c # Mock => c \in Clients /\ c \notin In(accepted) /\ c \notin In(backlog)
  BY DEF Fresh, Connections
<1>4. \A i \in DOMAIN backlog : backlog[i] \in In(backlog)
  BY DEF In
<1>5. Connections'
  <2>1. \A i, j \in DOMAIN backlog' : backlog'[i] = backlog'[j] /\ backlog'[i] # Mock => i = j
    BY <1>1, <1>3, <1>4 DEF Fresh, Connections
  <2>2. In(backlog)' \cap Clients \subseteq arrived' \ In(accepted)'
    BY <1>1, <1>2, <1>3, MockAssumption DEF Fresh, Connections
  <2>3. (main = "accepted" =>
       \/ client_socket = Mock
       \/ /\ client_socket \in Clients
          /\ client_socket \in arrived \ In(accepted)
          /\ client_socket \notin In(backlog))'
    BY <1>1, <1>2, <1>3, MockAssumption DEF Fresh, Connections
  <2> QED BY <1>1, <1>2, <2>1, <2>2, <2>3 DEF Fresh, Connections
<1>6. Handing' /\ MockLate'
  BY <1>1, <1>2 DEF Fresh, Handing, MockLate
<1> QED BY <1>5, <1>6 DEF Fresh

(* accept takes the first.                                                  *)
LEMMA FreshAccept == Fresh /\ Accept => Fresh'
<1> SUFFICES ASSUME Fresh, Accept PROVE Fresh'
  OBVIOUS
<1>1. /\ backlog # <<>> /\ client_socket' = Head(backlog) /\ backlog' = Tail(backlog)
      /\ main' = "accepted" /\ UNCHANGED <<accepted, arrived, server_running, control>>
  BY DEF Accept, pool, controller
<1>2. backlog \in Seq(Clients \cup {Mock})
  BY DEF Fresh, Connections
<1>3. /\ client_socket' \in Clients \cup {Mock} /\ client_socket' \in In(backlog)
      /\ backlog' \in Seq(Clients \cup {Mock})
      /\ 1 \in DOMAIN backlog /\ client_socket' = backlog[1]
      /\ In(backlog)' \subseteq In(backlog)
      /\ \A i \in DOMAIN backlog' : i + 1 \in DOMAIN backlog /\ backlog'[i] = backlog[i + 1] /\ i + 1 # 1
  <2>1. In(backlog)' = In(Tail(backlog))
    BY <1>1 DEF In
  <2> QED BY <1>1, <1>2, <2>1, InTail
<1>4. In(accepted)' = In(accepted)
  BY <1>1 DEF In
<1>5. \A i, j \in DOMAIN backlog' : backlog'[i] = backlog'[j] /\ backlog'[i] # Mock => i = j
  <2> SUFFICES ASSUME NEW i \in DOMAIN backlog', NEW j \in DOMAIN backlog',
                      backlog'[i] = backlog'[j], backlog'[i] # Mock
               PROVE  i = j
    OBVIOUS
  <2>1. i + 1 = j + 1
    BY <1>3 DEF Fresh, Connections
  <2>2. i \in Nat /\ j \in Nat
    BY <1>3, LenProperties
  <2> QED BY <2>1, <2>2
<1>6. client_socket' # Mock => client_socket' \notin In(backlog)'
  BY <1>3 DEF Fresh, Connections, In
<1>7. Connections'
  BY <1>1, <1>3, <1>4, <1>5, <1>6 DEF Fresh, Connections
<1>8. Handing' /\ MockLate'
  BY <1>1, <1>3, <1>4 DEF Fresh, Handing, MockLate, Early
<1> QED BY <1>7, <1>8 DEF Fresh

(* What run_server hands in, it has not handed in before.                   *)
LaunchesNew(x) == x \in Tasks /\ x \notin In(accepted)

LEMMA NewTasks ==
  ASSUME Fresh
  PROVE  /\ Launch("start", Poll, "poll_started") => LaunchesNew(Poll)
         /\ Launch("poll_started", Control, "test") => LaunchesNew(Control)
         /\ server_running /\ Launch("accepted", client_socket, "test") =>
              LaunchesNew(client_socket) /\ client_socket \in arrived \ In(backlog)
BY TasksDiffer DEF Fresh, Connections, Handing, MockLate, Launch, LaunchesNew, Early

LEMMA FreshStep == Fresh /\ [Next]_vars => Fresh'
<1> SUFFICES ASSUME Fresh, [Next]_vars PROVE Fresh'
  OBVIOUS
<1> USE DEF pool, setup, controller, net
<1>1. CASE read_db_config \/ daemon_init \/ logger_init \/ OpenListener
  BY <1>1, FreshFrame DEF read_db_config, daemon_init, logger_init, OpenListener, MainStep, Early
<1>2. CASE TestRunning \/ cleanup \/ FreeConf \/ logger_destroy
  BY <1>2, FreshFrame DEF TestRunning, cleanup, FreeConf, logger_destroy, MainStep, Early
<1>3. CASE Launch("start", Poll, "poll_started")
  <2>1. LaunchesNew(Poll) /\ In(accepted) = {}
    BY <1>3, NewTasks DEF Launch, Fresh, Handing
  <2>2. /\ Poll \in Tasks /\ Poll \notin In(accepted) /\ Poll \notin Clients
        /\ Control \notin In(accepted) \cup {Poll}
    BY <2>1, TasksDiffer DEF LaunchesNew
  <2>3. "poll_started" \notin Early \cup {"start", "accepted"}
    BY DEF Early
  <2> QED BY <1>3, <2>2, <2>3, FreshLaunch
<1>4. CASE Launch("poll_started", Control, "test")
  <2>1. Control \in Tasks /\ Control \notin In(accepted) /\ Control \notin Clients
    BY <1>4, NewTasks, TasksDiffer DEF LaunchesNew
  <2>2. "test" \notin Early \cup {"start", "accepted", "poll_started"}
    BY DEF Early
  <2> QED BY <1>4, <2>1, <2>2, FreshLaunch
<1>5. CASE Accept
  BY <1>5, FreshAccept
<1>6. CASE Accepted
  <2>1. CASE server_running /\ Launch("accepted", client_socket, "test")
    <3>1. PICK x \in Tasks : x = client_socket
      BY <2>1, NewTasks DEF LaunchesNew
    <3>2. Launch("accepted", x, "test") /\ x \notin In(accepted) /\ x \in arrived \ In(backlog)
      BY <2>1, <3>1, NewTasks DEF LaunchesNew
    <3>3. "test" \notin Early \cup {"start", "accepted", "poll_started"}
      BY DEF Early
    <3> QED BY <3>2, <3>3, FreshLaunch
  <2>2. CASE ~server_running /\ MainStep("accepted", "destroy") /\ UNCHANGED setup
    BY <2>2, FreshFrame DEF MainStep, Early
  <2> QED BY <1>6, <2>1, <2>2 DEF Accepted
<1>7. CASE Destroy
  <2>1. /\ UNCHANGED <<accepted, backlog, arrived, client_socket, server_running, control>>
        /\ main' \in {"cleanup", "destroy"}
    BY <1>7 DEF Destroy, Pool!destroy_thread_pool, Pool!DestroyCancel, Pool!DestroyBroadcast,
                Pool!DestroyJoin
  <2> QED BY <2>1, FreshFrame DEF Early
<1>8. CASE BindControl \/ (\E r \in Requests : Ask(r))
  BY <1>8, FreshFrame DEF BindControl, Ask
<1>9. CASE ReceiveRequest
  <2>1. CASE control' = "connect" /\ server_running' = FALSE
    <3>1. UNCHANGED <<accepted, backlog, arrived, client_socket, main>>
      BY <1>9 DEF ReceiveRequest
    <3>2. Connections' /\ Handing'
      BY <3>1 DEF Fresh, Connections, Handing, In
    <3>3. MockLate'
      BY <2>1 DEF MockLate
    <3> QED BY <3>2, <3>3 DEF Fresh
  <2>2. CASE UNCHANGED <<control, server_running>>
    BY <1>9, <2>2, FreshFrame DEF ReceiveRequest
  <2> QED BY <1>9, <2>1, <2>2 DEF ReceiveRequest
<1>10. CASE ConnectMock
  <2>1. server_running = FALSE
    BY <1>10 DEF ConnectMock, Fresh, MockLate
  <2>2. CASE backlog' = Append(backlog, Mock)
    BY <1>10, <2>1, <2>2, FreshConnect DEF ConnectMock
  <2>3. CASE backlog' = backlog
    <3>1. UNCHANGED <<accepted, backlog, arrived, client_socket, main, server_running>>
      BY <1>10, <2>3 DEF ConnectMock
    <3>2. Connections' /\ Handing'
      BY <3>1 DEF Fresh, Connections, Handing, In
    <3>3. MockLate'
      BY <2>1, <3>1 DEF MockLate
    <3> QED BY <3>2, <3>3 DEF Fresh
  <2> QED BY <1>10, <2>2, <2>3 DEF ConnectMock, MockConnects
<1>11. ASSUME NEW w \in Workers, thread_exec(w) \/ SpuriousWakeup(w) \/ TaskEnds(w)
       PROVE  Fresh'
  <2>1. UNCHANGED <<accepted, backlog, arrived, client_socket, main, server_running, control>>
    BY <1>11 DEF thread_exec, SpuriousWakeup, TaskEnds, Pool!thread_exec, Pool!LoopHead,
         Pool!TakeTask, Pool!FreeTask, Pool!SpuriousWakeup, Pool!TaskEnds
  <2> QED BY <2>1, FreshFrame
<1>12. ASSUME NEW c \in Clients, Arrive(c) PROVE Fresh'
  BY <1>12, FreshConnect, MockAssumption DEF Arrive
<1>13. CASE UNCHANGED vars
  BY <1>13, FreshFrame DEF vars
<1> QED BY <1>1, <1>2, <1>3, <1>4, <1>5, <1>6, <1>7, <1>8, <1>9, <1>10, <1>11, <1>12, <1>13
        DEF Next, main_thread, run_server, local_control_loop

LEMMA FreshInit == Init => Fresh
<1> SUFFICES ASSUME Init PROVE Fresh
  OBVIOUS
<1>1. /\ accepted = <<>> /\ backlog = <<>> /\ arrived = {} /\ main = "config"
      /\ server_running = TRUE /\ control = "off"
  BY DEF Init, Pool!Init
<1>2. In(<<>>) = {} /\ DOMAIN <<>> = {}
  BY DEF In
<1>3. /\ accepted \in Seq(Tasks) /\ backlog \in Seq(Clients \cup {Mock})
      /\ In(accepted) = {} /\ In(backlog) = {} /\ DOMAIN backlog = {}
  BY <1>1, <1>2, EmptySeq
<1> QED BY <1>1, <1>3 DEF Fresh, Connections, Handing, MockLate, Early
-----------------------------------------------------------------------------
(* Every step of the process is a step of the pool, or none.                *)
LEMMA PoolStep == Fresh /\ [Next]_vars => [Proofs!Next]_(Proofs!vars)
<1> SUFFICES ASSUME Fresh, [Next]_vars, ~UNCHANGED pool PROVE Proofs!Next
  BY DEF pool, Proofs!vars
<1>1. ASSUME NEW w \in Workers, thread_exec(w) PROVE Proofs!thread_exec(w)
  BY <1>1 DEF thread_exec, Pool!thread_exec, Pool!LoopHead, Pool!TakeTask, Pool!FreeTask,
       Pool!Goto, Pool!Empty, Proofs!thread_exec, Proofs!LoopHead, Proofs!TakeTask,
       Proofs!FreeTask, Proofs!Goto, Proofs!Empty
<1>2. ASSUME NEW w \in Workers, SpuriousWakeup(w) PROVE Proofs!SpuriousWakeup(w)
  BY <1>2 DEF SpuriousWakeup, Pool!SpuriousWakeup, Pool!Waiters, Pool!Wake,
       Proofs!SpuriousWakeup, Proofs!Waiters, Proofs!Wake
<1>3. ASSUME NEW w \in Workers, TaskEnds(w) PROVE Proofs!TaskEnds(w)
  BY <1>3 DEF TaskEnds, Pool!TaskEnds, Pool!Goto, Proofs!TaskEnds, Proofs!Goto
<1>4. ASSUME Destroy PROVE Proofs!destroy_thread_pool
  BY <1>4 DEF Destroy, Pool!destroy_thread_pool, Pool!DestroyCancel, Pool!DestroyBroadcast,
       Pool!DestroyJoin, Pool!Broadcast, Pool!Joined, Pool!Waiters, Pool!Wake,
       Proofs!destroy_thread_pool, Proofs!DestroyCancel, Proofs!DestroyBroadcast,
       Proofs!DestroyJoin, Proofs!Broadcast, Proofs!Joined, Proofs!Waiters, Proofs!Wake
<1>5. ASSUME NEW x, NEW from, NEW to, LaunchesNew(x), Launch(from, x, to)
      PROVE  \E y \in Tasks \ Proofs!HandedIn : Proofs!thread_pool_execute(y)
  <2>1. Proofs!thread_pool_execute(x)
    BY <1>5 DEF Launch, Pool!thread_pool_execute, Pool!Signal, Pool!Waiters, Pool!Wake,
         Proofs!thread_pool_execute, Proofs!Signal, Proofs!Waiters, Proofs!Wake
  <2>2. x \in Tasks \ Proofs!HandedIn
    BY <1>5 DEF LaunchesNew, Proofs!HandedIn, In
  <2> QED BY <2>1, <2>2
<1>6. ASSUME run_server PROVE Proofs!Next
  <2>1. CASE Launch("start", Poll, "poll_started")
    BY <2>1, <1>5, NewTasks DEF Proofs!Next
  <2>2. CASE Launch("poll_started", Control, "test")
    BY <2>2, <1>5, NewTasks DEF Proofs!Next
  <2>3. CASE Accepted
    <3>1. server_running /\ Launch("accepted", client_socket, "test")
      BY <2>3 DEF Accepted, MainStep
    <3>2. PICK x : x = client_socket
      OBVIOUS
    <3>3. LaunchesNew(x) /\ Launch("accepted", x, "test")
      BY <3>1, <3>2, NewTasks
    <3> QED BY <3>3, <1>5 DEF Proofs!Next
  <2>4. CASE Destroy
    BY <2>4, <1>4 DEF Proofs!Next
  <2> QED BY <1>6, <2>1, <2>2, <2>3, <2>4 DEF run_server, TestRunning, Accept, cleanup, MainStep
<1> QED BY <1>1, <1>2, <1>3, <1>6 DEF Next, main_thread, read_db_config, daemon_init,
        logger_init, OpenListener, FreeConf, logger_destroy, MainStep, local_control_loop,
        BindControl, ReceiveRequest, ConnectMock, Ask, Arrive, vars, Proofs!Next

(* The process uses its pool as ThreadPool describes: run_server hands in   *)
(* every task once and destroys the pool once (server.c:60-83).             *)
THEOREM UsesThePool == Spec => Proofs!Spec
<1>1. Init => Proofs!Init
  BY DEF Init, Pool!Init, Proofs!Init
<1>2. Spec => []Fresh
  BY FreshInit, FreshStep, PTL DEF Spec
<1> QED BY <1>1, <1>2, PoolStep, PTL DEF Spec, Proofs!Spec

(* So no wakeup is lost in the process, for any number of threads, clients  *)
(* and requests.                                                            *)
THEOREM NoWakeupLostInProcess == Spec => []NoLostWakeup
<1>1. Proofs!NoLostWakeup => NoLostWakeup
  <2>1. Proofs!Waiters = Pool!Waiters /\ Proofs!Coming = Pool!Coming
    BY DEF Pool!Waiters, Pool!Coming, Proofs!Waiters, Proofs!Coming
  <2>2. Pool!Cardinality(Pool!Coming) = Proofs!Cardinality(Pool!Coming)
    BY Zenon DEF Pool!Cardinality, Proofs!Cardinality
  <2> QED BY <2>1, <2>2 DEF NoLostWakeup, Pool!NoLostWakeup, Proofs!NoLostWakeup
<1>2. Proofs!Spec => []Proofs!NoLostWakeup
  BY Proofs!NoWakeupLost, WorkersAssumption, TasksAssumption, Zenon DEF Proofs!IsFiniteSet, IsFiniteSet
<1> QED BY <1>1, <1>2, UsesThePool, PTL

(* ... and each thread runs a task of its own: one poller, one control      *)
(* loop, one client_loop per connection.                                    *)
THEOREM OwnTasksInProcess == Spec => []OwnTask
<1>1. Proofs!OwnTask => OwnTask
  BY DEF OwnTask, Pool!OwnTask, Proofs!OwnTask
<1>2. Proofs!Spec => []Proofs!OwnTask
  BY Proofs!TasksAreOwn, WorkersAssumption, TasksAssumption, Zenon DEF Proofs!IsFiniteSet, IsFiniteSet
<1> QED BY <1>1, <1>2, UsesThePool, PTL
-----------------------------------------------------------------------------
Late == {"cleanup", "free_conf", "logger_destroy", "exit"}

(* The poller has run and will not run again.                               *)
PollOver ==
  /\ Poll \in In(accepted) /\ Poll \notin In(tasks_queue)
  /\ \A w \in Workers : task[w] = Poll => worker[w] # "run"

(* The threads are there between init_thread_pool and destroy_thread_pool.  *)
ThreadsLive ==
  /\ main \in Early => \A w \in Workers : worker[w] = "head"
  /\ main \in Late => owner = "destroyed"
  /\ owner = "destroyed" => \A w \in Workers : worker[w] = "exit"

(* What main has made and not freed yet.                                    *)
SetupLives ==
  /\ main \in {"daemon", "logger", "socket", "start"} => config = "conf"
  /\ main \notin {"config", "parent", "failed", "logger_destroy", "exit"} => conf = "read"
  /\ main \notin Early \cup {"exit"} \/ main = "socket" => logger \in {"open", "NULL"}
  /\ main \notin Early => config = "conf" \/ PollOver

Lives == ThreadsLive /\ SetupLives
LInv == Fresh /\ Proofs!PInv /\ Lives

LEMMA MainLives ==
  ASSUME LInv, UNCHANGED pool,
         read_db_config \/ daemon_init \/ logger_init \/ OpenListener \/ TestRunning \/ Accept
           \/ (MainStep("accepted", "destroy") /\ UNCHANGED setup)
           \/ cleanup \/ FreeConf \/ logger_destroy
  PROVE  Lives'
<1> USE DEF LInv, Lives, pool, setup, Early, Late
<1>1. ThreadsLive'
  BY DEF ThreadsLive, read_db_config, daemon_init, logger_init, OpenListener, TestRunning,
       Accept, cleanup, FreeConf, logger_destroy, MainStep
<1>2. PollOver' <=> PollOver
  BY DEF PollOver, In
<1>3. SetupLives'
  BY <1>2 DEF SetupLives, read_db_config, daemon_init, logger_init, OpenListener, TestRunning,
       Accept, cleanup, FreeConf, logger_destroy, MainStep
<1> QED BY <1>1, <1>3

LEMMA LaunchLives ==
  ASSUME LInv, NEW from \in {"start", "poll_started", "accepted"}, NEW x,
         NEW to \in {"poll_started", "test"}, LaunchesNew(x), Launch(from, x, to)
  PROVE  Lives'
<1> USE DEF LInv, Lives
<1>1. /\ main = from /\ main' = to /\ owner = "open"
      /\ tasks_queue' = Append(tasks_queue, x) /\ accepted' = Append(accepted, x)
      /\ UNCHANGED <<owner, task, conf, config, logger>>
      /\ \A w \in Workers : worker'[w] = worker[w] \/ worker'[w] = "woken"
  BY DEF Launch, Pool!thread_pool_execute, Pool!Signal, Pool!Wake, setup
<1>2. In(tasks_queue)' = In(tasks_queue) \cup {x} /\ In(accepted)' = In(accepted) \cup {x}
  <2>1. tasks_queue \in Seq(Tasks) /\ accepted \in Seq(Tasks) /\ x \in Tasks
    BY DEF Proofs!PInv, Proofs!TypeOK, LaunchesNew
  <2>2. In(tasks_queue)' = In(Append(tasks_queue, x)) /\ In(accepted)' = In(Append(accepted, x))
    BY <1>1 DEF In
  <2> QED BY <2>1, <2>2, InAppend
<1>3. PollOver => PollOver'
  BY <1>1, <1>2 DEF PollOver, LaunchesNew
<1>4. ThreadsLive'
  BY <1>1 DEF ThreadsLive, Early, Late
<1>5. SetupLives'
  BY <1>1, <1>3 DEF SetupLives, Early
<1> QED BY <1>4, <1>5

LEMMA DestroyLives ==
  ASSUME LInv, Destroy
  PROVE  Lives'
<1> USE DEF LInv, Lives
<1>1. /\ main = "destroy" /\ main' = IF owner' = "destroyed" THEN "cleanup" ELSE "destroy"
      /\ UNCHANGED <<tasks_queue, accepted, task, conf, config, logger>>
      /\ \/ owner' # "destroyed" /\ \A w \in Workers : worker'[w] = worker[w] \/ worker'[w] = "woken"
         \/ owner' = "destroyed" /\ \A w \in Workers : worker'[w] = "exit"
  BY DEF Destroy, Pool!destroy_thread_pool, Pool!DestroyCancel, Pool!DestroyBroadcast,
       Pool!DestroyJoin, Pool!Broadcast, Pool!Joined, Pool!Wake, setup
<1>2. PollOver => PollOver'
  BY <1>1 DEF PollOver, In
<1>3. ThreadsLive'
  BY <1>1 DEF ThreadsLive, Early, Late
<1>4. SetupLives'
  BY <1>1, <1>2 DEF SetupLives, Early
<1> QED BY <1>3, <1>4

(* A thread that runs a task has it for itself, and it has left the queue.  *)
LEMMA PollEnds ==
  ASSUME Proofs!PInv, NEW w \in Workers, worker[w] = "run", task[w] = Poll
  PROVE  /\ Poll \in In(accepted) /\ Poll \notin In(tasks_queue)
         /\ \A v \in Workers : task[v] = Poll => v = w
<1>1. /\ accepted \in Seq(Tasks) /\ tasks_queue \in Seq(Tasks) /\ Poll # NoTask
  BY TasksAssumption, TasksDiffer DEF Proofs!PInv, Proofs!TypeOK
<1>2. /\ DOMAIN accepted = 1..Len(accepted) /\ DOMAIN tasks_queue = 1..Len(tasks_queue)
      /\ Len(accepted) \in Nat /\ Len(tasks_queue) \in Nat
  BY <1>1, LenProperties
<1>3. PICK i \in 1..Proofs!Started : Poll = accepted[i]
  BY <1>1 DEF Proofs!PInv, Proofs!Holders
<1>4. Proofs!Started = Len(accepted) - Len(tasks_queue) /\ Len(tasks_queue) <= Len(accepted)
  BY DEF Proofs!PInv, Proofs!InOrder, Proofs!Started
<1>5. i \in 1..Len(accepted)
  BY <1>2, <1>4
<1>6. ASSUME NEW j \in DOMAIN tasks_queue PROVE tasks_queue[j] # Poll
  <2>1. tasks_queue[j] = accepted[Proofs!Started + j]
    BY <1>2, <1>6 DEF Proofs!PInv, Proofs!InOrder
  <2>2. Proofs!Started + j \in 1..Len(accepted) /\ Proofs!Started + j # i
    BY <1>2, <1>4, <1>6
  <2> QED BY <1>3, <1>5, <2>1, <2>2 DEF Proofs!PInv, Proofs!InOrder
<1>7. \A v \in Workers : task[v] = Poll => v = w
  BY <1>1 DEF Proofs!PInv, Proofs!Holders
<1> QED BY <1>2, <1>3, <1>5, <1>6, <1>7 DEF In

LEMMA ThreadLives ==
  ASSUME LInv, NEW w \in Workers, thread_exec(w) \/ SpuriousWakeup(w) \/ TaskEnds(w)
  PROVE  Lives'
<1> USE DEF LInv, Lives
<1>0. worker \in [Workers -> Proofs!WorkerPoints] /\ tasks_queue \in Seq(Tasks)
      /\ task \in [Workers -> Tasks \cup {NoTask}] /\ Poll # NoTask
  BY TasksAssumption, TasksDiffer DEF Proofs!PInv, Proofs!TypeOK
<1>1. CASE TaskEnds(w)
  <2>1. /\ worker[w] = "run" /\ worker' = [worker EXCEPT ![w] = "free"]
        /\ UNCHANGED <<tasks_queue, task, owner, accepted, main, conf, logger>>
        /\ config' = config \/ task[w] = Poll
    BY <1>1 DEF TaskEnds, Pool!TaskEnds, Pool!Goto
  <2>2. task[w] = Poll => PollOver'
    BY <1>0, <2>1, PollEnds DEF PollOver, In
  <2>3. PollOver => PollOver'
    BY <1>0, <2>1 DEF PollOver, In
  <2>4. main \notin Early /\ main \notin Late /\ owner # "destroyed"
    BY <2>1 DEF ThreadsLive
  <2>5. ThreadsLive'
    BY <2>1, <2>4 DEF ThreadsLive
  <2>6. task[w] = Poll => main # "start"
    <3>1. task[w] = Poll => Poll \in In(accepted)
      BY <2>1, PollEnds
    <3> QED BY <3>1 DEF Fresh, Handing
  <2>7. SetupLives'
    BY <2>1, <2>2, <2>3, <2>4, <2>6 DEF SetupLives, Early
  <2> QED BY <2>5, <2>7
<1>2. CASE thread_exec(w) \/ SpuriousWakeup(w)
  <2>1. /\ worker[w] \in {"head", "lock", "woken", "free", "wait"}
        /\ \A v \in Workers \ {w} : worker'[v] = worker[v] /\ task'[v] = task[v]
        /\ main \notin Early
        /\ UNCHANGED <<owner, accepted, main, conf, logger, config>>
    <3>1. CASE thread_exec(w)
      BY <1>0, <3>1 DEF thread_exec, PoolExists, Pool!thread_exec, Pool!LoopHead, Pool!TakeTask,
           Pool!FreeTask, Pool!Goto, Early, setup
    <3>2. CASE SpuriousWakeup(w)
      <4>1. worker[w] = "wait"
        BY <3>2 DEF SpuriousWakeup, Pool!SpuriousWakeup, Pool!Waiters
      <4>2. main \notin Early
        BY <4>1 DEF ThreadsLive
      <4> QED BY <1>0, <3>2, <4>1, <4>2 DEF SpuriousWakeup, Pool!SpuriousWakeup, Pool!Wake, setup
    <3> QED BY <1>2, <3>1, <3>2
  <2>2. \/ UNCHANGED <<tasks_queue, task>> /\ worker'[w] # "run"
        \/ UNCHANGED tasks_queue /\ task'[w] = NoTask
        \/ /\ tasks_queue # <<>> /\ tasks_queue' = Tail(tasks_queue)
           /\ task'[w] = Head(tasks_queue)
    BY <1>0, <1>2 DEF thread_exec, SpuriousWakeup, Pool!thread_exec, Pool!LoopHead,
         Pool!TakeTask, Pool!FreeTask, Pool!SpuriousWakeup, Pool!Goto, Pool!Wake, Pool!Empty
  <2>3. /\ In(tasks_queue)' \subseteq In(tasks_queue)
        /\ (task'[w] = task[w] /\ worker'[w] # "run") \/ task'[w] = NoTask \/ task'[w] \in In(tasks_queue)
    <3>1. CASE UNCHANGED tasks_queue
      BY <2>2, <3>1 DEF In
    <3>2. CASE tasks_queue # <<>> /\ tasks_queue' = Tail(tasks_queue) /\ task'[w] = Head(tasks_queue)
      <4>1. In(tasks_queue)' = In(Tail(tasks_queue))
        BY <3>2 DEF In
      <4> QED BY <1>0, <3>2, <4>1, InTail
    <3> QED BY <2>2, <3>1, <3>2
  <2>4. PollOver => PollOver'
    <3> SUFFICES ASSUME PollOver PROVE PollOver'
      OBVIOUS
    <3>1. In(accepted)' = In(accepted)
      BY <2>1 DEF In
    <3> QED BY <1>0, <2>1, <2>3, <3>1 DEF PollOver
  <2>5. owner # "destroyed"
    BY <2>1 DEF ThreadsLive
  <2>6. ThreadsLive'
    BY <2>1, <2>5 DEF ThreadsLive
  <2>7. SetupLives'
    BY <2>1, <2>4 DEF SetupLives
  <2> QED BY <2>6, <2>7
<1> QED BY <1>1, <1>2

LEMMA LivesInit == Init => Lives
BY DEF Init, Pool!Init, Lives, ThreadsLive, SetupLives, Early, Late

LEMMA LivesStep ==
  ASSUME LInv, [Next]_vars
  PROVE  Lives'
<1>1. CASE \E w \in Workers : thread_exec(w) \/ SpuriousWakeup(w) \/ TaskEnds(w)
  BY <1>1, ThreadLives
<1>2. CASE run_server
  <2>1. CASE Launch("start", Poll, "poll_started")
    <3>1. LaunchesNew(Poll)
      BY <2>1, NewTasks DEF LInv
    <3> QED BY <2>1, <3>1, LaunchLives
  <2>2. CASE Launch("poll_started", Control, "test")
    <3>1. LaunchesNew(Control)
      BY <2>2, NewTasks DEF LInv
    <3> QED BY <2>2, <3>1, LaunchLives
  <2>3. CASE server_running /\ Launch("accepted", client_socket, "test")
    <3>1. PICK x : x = client_socket
      OBVIOUS
    <3>2. LaunchesNew(x) /\ Launch("accepted", x, "test")
      BY <2>3, <3>1, NewTasks DEF LInv
    <3> QED BY <3>2, LaunchLives
  <2>4. CASE MainStep("accepted", "destroy") /\ UNCHANGED setup
    BY <2>4, MainLives DEF MainStep
  <2>5. CASE Destroy
    BY <2>5, DestroyLives
  <2>6. CASE TestRunning \/ Accept \/ cleanup
    BY <2>6, MainLives DEF TestRunning, Accept, cleanup, MainStep
  <2> QED BY <1>2, <2>1, <2>2, <2>3, <2>4, <2>5, <2>6 DEF run_server, Accepted
<1>3. CASE read_db_config \/ daemon_init \/ logger_init \/ OpenListener \/ FreeConf \/ logger_destroy
  <2>1. UNCHANGED pool
    BY <1>3 DEF read_db_config, daemon_init, logger_init, OpenListener, FreeConf, logger_destroy, MainStep
  <2> QED BY <1>3, <2>1, MainLives
<1>4. CASE local_control_loop \/ (\E r \in Requests : Ask(r)) \/ (\E c \in Clients : Arrive(c))
             \/ UNCHANGED vars
  <2>1. UNCHANGED <<pool, main, setup>>
    BY <1>4 DEF local_control_loop, BindControl, ReceiveRequest, ConnectMock, Ask, Arrive, vars
  <2> QED BY <2>1 DEF LInv, Lives, ThreadsLive, SetupLives, PollOver, In, pool, setup
<1> QED BY <1>1, <1>2, <1>3, <1>4 DEF Next, main_thread

(* What main frees, no thread of the pool uses any more, whenever the stop  *)
(* comes and whatever the threads are doing then: the threads are joined    *)
(* before cleanup, and the poller, which sets config to NULL as it leaves,  *)
(* is not started a second time (server.c:555-566, main.c:78-83,            *)
(* solutions_db.c:22-44).                                                   *)
THEOREM CleanupIsAlone == Spec => []CleanupAlone
<1>1. Spec => []Proofs!PInv
  <2>1. Proofs!Spec => []Proofs!PInv
    BY Proofs!PoolInvariant, WorkersAssumption, TasksAssumption, Zenon DEF Proofs!IsFiniteSet, IsFiniteSet
  <2> QED BY <2>1, UsesThePool, PTL
<1>2. Spec => []Fresh
  BY FreshInit, FreshStep, PTL DEF Spec
<1>3. Fresh /\ Proofs!PInv /\ Lives /\ [Next]_vars => Lives'
  BY LivesStep DEF LInv
<1>4. Spec => []Lives
  BY <1>1, <1>2, <1>3, LivesInit, PTL DEF Spec
<1>5. Lives => CleanupAlone
  <2> SUFFICES ASSUME Lives, NEW w \in Workers, worker[w] = "run"
               PROVE  /\ main \notin {"free_conf", "logger_destroy", "exit"}
                      /\ conf = "read" /\ logger \in {"open", "NULL"}
                      /\ task[w] = Poll => config = "conf"
    BY DEF CleanupAlone, Running
  <2>1. main \notin Early /\ main \notin Late
    BY DEF Lives, ThreadsLive
  <2> QED BY <2>1 DEF Lives, SetupLives, PollOver, Early, Late
<1> QED BY <1>4, <1>5, PTL
==============================================================================
