----------------------------- MODULE JudgeServer -----------------------------
(***************************************************************************)
(* The dispatcher of the judge server (server.c): the database poller, one *)
(* client_loop thread per connected checker, the two registries they share *)
(* (clients_map, compilers_map) and the mutexes around them.               *)
(*                                                                         *)
(* A connection stands for everything made for it: the endpoint, the       *)
(* client_t and the thread that runs client_loop.  Every lock that is held *)
(* across a step is explicit; a critical section that takes one mutex,     *)
(* waits for nothing inside and gives it back is one step that needs the   *)
(* mutex to be free.                                                       *)
(*                                                                         *)
(* An operator that a comment calls a seeded bug is no part of the model:  *)
(* it shows that a property would notice that mistake in the code.         *)
(***************************************************************************)
EXTENDS Integers, Sequences, FiniteSets

CONSTANTS
  Conns,              (* connections, each used once                        *)
  Poller,             (* the thread that runs poll_database                 *)
  NoOne,              (* no thread, no client                               *)
  Null,               (* the null pointer                                   *)
  Solutions,          (* ids of the rows of the table "solutions"           *)
  CompilerOf,         (* CompilerOf[s]: the compiler_id column of row s     *)
  Announces,          (* Announces[k]: the compilers_ids client k sends     *)
  Pads,               (* what the two bytes behind a uint16 id may hold     *)
  Blocks,             (* heap blocks that calloc can return                 *)
  ResultCodes,        (* the result_code values clients answer with         *)
  RECV_TIMEOUT_SEC, RECV_MAX_TIMEOUT,
  SEND_TIMEOUT_SEC, SEND_MAX_TIMEOUT,
  MaxPending,         (* bound: rows waiting for a poll at any time         *)
  MaxFaults,          (* bound, for each kind of fault ...                  *)
  MaxAllFaults        (* ... and for all of them together                   *)

Threads == Conns \cup {Poller}

(* "lost": a checker that hangs, resets or sends rubbish; "close": one that *)
(* closes its connection in an orderly way; "stray": one that answers what  *)
(* it was not sent, or answers again; "db": a failed statement; "stop": the *)
(* operator stops the server.                                               *)
FaultKinds == {"lost", "close", "stray", "db", "stop"}

ASSUME ThreadsAssumption ==
  /\ Poller \notin Conns
  /\ NoOne \notin Threads
ASSUME PointersAssumption == Null \notin Blocks \X (Nat \ {0})
ASSUME ColumnsAssumption ==
  /\ CompilerOf \in [Solutions -> Nat]
  /\ Announces \in [Conns -> Seq(Nat)]
  /\ IsFiniteSet(Solutions)
ASSUME PadsAssumption == Pads \subseteq Nat /\ 0 \in Pads
ASSUME TimersAssumption ==
  /\ RECV_TIMEOUT_SEC \in Nat \ {0} /\ RECV_MAX_TIMEOUT \in Nat \ {0}
  /\ SEND_TIMEOUT_SEC \in Nat \ {0} /\ SEND_MAX_TIMEOUT \in Nat \ {0}
ASSUME BoundsAssumption ==
  /\ MaxPending \in Nat
  /\ MaxFaults \in [FaultKinds -> Nat]
  /\ MaxAllFaults \in Nat
-----------------------------------------------------------------------------
VARIABLES
  (* the database, which survives the process                              *)
  row,                (* row[s]: the column "checking", -1 if there is none *)
  response,           (* response[s]: the column "response"                 *)
  (* the heap: solution_t arrays                                            *)
  heap,               (* heap[b]: the solutions in the array at block b     *)
  allocated,          (* the blocks that are not freed                      *)
  (* the registries                                                         *)
  clients_map, last_client_id, client_id,
  compilers_map,      (* the keys of the compilers, in the order added      *)
  clients_list,       (* clients_list[i]: the client ids of compiler i      *)
  (* client_t                                                               *)
  solutions_queue, checking_solution, last_recv_delay, last_send_delay,
  freed,              (* the clients that client_free has freed             *)
  (* mutexes: who holds them; list_mutex and client_mutex are one for each  *)
  (* compiler and each client                                               *)
  clients_map_mutex, compilers_map_mutex, list_mutex, client_mutex,
  (* threads                                                                *)
  pc,                 (* where each thread is                               *)
  frame,              (* its locals in push_solution, sln also outside      *)
  pos,                (* where it is in a loop over compilers               *)
  victim,             (* the client_t its remove_client has found           *)
  batch,              (* the pointers poll_database has still to push       *)
  errno,              (* what the last failed call left in errno            *)
  server_running,
  (* the other end of each connection                                       *)
  peer,               (* the state of the connection, one of PeerStates     *)
  outstanding,        (* solutions the checker will send an answer for      *)
  faults,             (* how many faults of each kind there were            *)
  (* history, read by the properties alone                                  *)
  unanswered,         (* solutions sent to a client, with no result so far  *)
  removals,           (* how many clients have left clients_map ...         *)
  removed_at,         (* ... and which of them each one was, 0 if none      *)
  id_shared,          (* an id was given that another client had            *)
  dangled             (* an array was freed that was still to be used       *)

db == <<row, response>>
memory == <<heap, allocated>>
registry == <<clients_map, last_client_id, client_id>>
client == <<solutions_queue, checking_solution, freed>>
delays == <<last_recv_delay, last_send_delay>>
compilers == <<compilers_map, clients_list, list_mutex>>
mutexes == <<clients_map_mutex, compilers_map_mutex, client_mutex>>
locals == <<frame, pos, victim>>
net == <<peer, outstanding>>
history == <<unanswered, removals, removed_at, id_shared, dangled>>
data == <<db, memory, registry, compilers, client, delays>>
world == <<batch, errno, server_running, net, faults, history>>
vars == <<data, mutexes, pc, locals, world>>
-----------------------------------------------------------------------------
(* Pointers to solution_t: element i of the array at block b.              *)
Pointers == Blocks \X (Nat \ {0})

(* The program points of the two thread functions and of the functions they *)
(* call: push_solution and remove_client.                                   *)
PollPoints == {"init", "poll_loop", "poll_sleep", "poll_next", "done"}
ScanPoints == {"push_scan", "push_chosen"}
PushPoints == {"push_find", "push_lock", "push_list", "push_enqueue"} \cup ScanPoints
DrainPoints == {"remove_checked", "remove_queue"}
RemovePoints == {"remove_find", "remove_lock_lists", "remove_lists", "remove_map",
                 "remove_lock", "remove_free"} \cup DrainPoints
ServePoints == {"loop", "send", "recv", "clear"}
ClientPoints == {"idle", "handshake", "announce_lock", "announce", "gone"}
                  \cup ServePoints \cup RemovePoints

(* "closing": the FIN is behind answers still to be read.                   *)
PeerStates == {"none", "open", "closing", "closed", "reset"}
ErrnoValues == {"EAGAIN", "ECONNRESET", "other"}

(* What min_loading starts at.                                              *)
INT32_MAX == 2147483647

Frame(sln, ret, comp, seen, best, min_loading) ==
  [sln |-> sln, ret |-> ret, comp |-> comp, seen |-> seen, best |-> best,
   min_loading |-> min_loading]
Holding(p) == Frame(p, "none", 0, {}, NoOne, INT32_MAX)

Goto(t, l) == pc' = [pc EXCEPT ![t] = l]
Step(t, from, to) == pc[t] = from /\ Goto(t, to)

FaultsSoFar ==
  faults["lost"] + faults["close"] + faults["stray"] + faults["db"] + faults["stop"]

Fault(kind) ==
  /\ faults[kind] < MaxFaults[kind]
  /\ FaultsSoFar < MaxAllFaults
  /\ faults' = [faults EXCEPT ![kind] = @ + 1]

(* push_solution(p), called by t; it returns to point l.                    *)
CallPush(t, p, l) ==
  /\ Goto(t, "push_find")
  /\ frame' = [frame EXCEPT ![t] = Frame(p, l, 0, {}, NoOne, INT32_MAX)]
  /\ UNCHANGED <<pos, victim>>

(* push_solution returns: its frame is gone, the caller's locals stay.      *)
ReturnPush(t) ==
  /\ Goto(t, frame[t].ret)
  /\ frame' = [frame EXCEPT ![t] = Holding(Null)]
  /\ UNCHANGED <<pos, victim>>
-----------------------------------------------------------------------------
(* The database (MySQL, external).  solutions_close_db is the last thing    *)
(* the poller does; a statement after it goes to a closed connection, which *)
(* is undefined and has no effect if the process survives.                  *)
DbOpen == pc[Poller] \notin {"init", "done"}

(* solution_post_result: UPDATE ... SET checking = 2, response = text WHERE *)
(* id = s, which changes nothing if there is no such row.  "ac" is 1        *)
(* exactly when text is "AC", so it is not kept apart.  Nobody looks at     *)
(* what the function returns.                                               *)
solution_post_result(s, text) ==
  \/ /\ DbOpen
     /\ IF row[s] = -1
        THEN UNCHANGED db
        ELSE /\ row' = [row EXCEPT ![s] = 2]
             /\ response' = [response EXCEPT ![s] = text]
     /\ UNCHANGED faults
  \/ /\ DbOpen
     /\ Fault("db")
     /\ UNCHANGED db
  \/ /\ ~DbOpen
     /\ UNCHANGED <<db, faults>>

ResultText == <<"AC", "WA", "MLE", "TLE", "PE", "RE", "FL", "CE">>

(* post_result: an unknown result_code posts nothing at all.                *)
post_result(s, code) ==
  IF code + 1 \in DOMAIN ResultText
  THEN solution_post_result(s, ResultText[code + 1])
  ELSE UNCHANGED <<db, faults>>

(* What reading *p can give: the solution stored there now.  After the      *)
(* array was freed this is what was left behind, or what a later calloc put *)
(* there.                                                                   *)
Deref(p) ==
  {s \in Solutions : \E i \in DOMAIN heap[p[1]] : i = p[2] /\ s = heap[p[1]][i]}

(* The pointers to solution_t that some thread will still follow.  The one  *)
(* in checking_solution is dead between its delegation and server.c:449.    *)
HeldPointers ==
  {batch[i] : i \in DOMAIN batch}
    \cup {frame[t].sln : t \in {t \in Threads : pc[t] \in PushPoints \cup {"send"}}}
    \cup (UNION {{solutions_queue[k][i] : i \in DOMAIN solutions_queue[k]} : k \in Conns})
    \cup {checking_solution[k] : k \in
            {k \in Conns : \A t \in Conns : pc[t] = "remove_checked" => victim[t] # k}}

(* One of them points into an array that is freed.                          *)
Dangling == \E p \in HeldPointers \ {Null} : p[1] \notin allocated

(* solution_free(p).  free() takes back the array when p is its first       *)
(* element; freeing another element or a freed array is undefined, and      *)
(* frees nothing if the process survives.                                   *)
solution_free(p) ==
  allocated' = IF p # Null /\ p[2] = 1 THEN allocated \ {p[1]} ELSE allocated

(* HASH_FIND(clients_map, id).  Which of two equal keys it gives depends on *)
(* the order in the bucket.                                                 *)
FoundClient(k, id) == k \in clients_map /\ client_id[k] = id
NoClient(id) == \A k \in clients_map : client_id[k] # id

(* HASH_FIND(compilers_map, key): four bytes are compared, the uint16 id    *)
(* and the two bytes behind it.                                             *)
FoundCompiler(i, id, pad) ==
  /\ i \in DOMAIN compilers_map
  /\ compilers_map[i].id = id /\ compilers_map[i].pad = pad
NoCompiler(id, pad) == \A i \in DOMAIN compilers_map : ~FoundCompiler(i, id, pad)

(* server.c:383 as C reads it: (elems_count + (checking != NULL)) ? 1 : 0.  *)
cur_loading(k) ==
  IF solutions_queue[k] = <<>> /\ checking_solution[k] = Null THEN 0 ELSE 1
-----------------------------------------------------------------------------
(* push_solution, run by thread t for the solution frame[t].sln.              *)

(* The compiler is looked up without compilers_map_mutex, with a uint32 key *)
(* whose upper half is zero; if there is none the verdict is "FL", posted   *)
(* without db_mutex.                                                        *)
PushFind(t) ==
  /\ pc[t] = "push_find"
  /\ \E s \in Deref(frame[t].sln) :
       \/ /\ NoCompiler(CompilerOf[s], 0)
          /\ solution_post_result(s, "FL")
          /\ ReturnPush(t)
       \/ \E i \in DOMAIN compilers_map :
            /\ FoundCompiler(i, CompilerOf[s], 0)
            /\ frame' = [frame EXCEPT
                 ![t] = Frame(@.sln, @.ret, i, {}, NoOne, INT32_MAX)]
            /\ Goto(t, "push_lock")
            /\ UNCHANGED <<db, faults, pos, victim>>
  /\ UNCHANGED <<memory, registry, compilers, client, delays, mutexes, batch, errno,
                 server_running, net, history>>

PushLock(t) ==
  /\ Step(t, "push_lock", "push_list")
  /\ clients_map_mutex = NoOne
  /\ clients_map_mutex' = t
  /\ UNCHANGED <<data, compilers_map_mutex, client_mutex, locals, world>>

PushListLock(t) ==
  /\ Step(t, "push_list", "push_scan")
  /\ list_mutex[frame[t].comp] = NoOne
  /\ list_mutex' = [list_mutex EXCEPT ![frame[t].comp] = t]
  /\ UNCHANGED <<db, memory, registry, compilers_map, clients_list, client, delays,
                 mutexes, locals, world>>

(* One round of the loop over compiler->clients_list: an id with no client  *)
(* is skipped (the "INCONSISTENCY" branch), an idle client ends the loop.   *)
(* The order of the list is left open.                                      *)
PushScan(t) ==
  /\ pc[t] = "push_scan"
  /\ \E id \in clients_list[frame[t].comp] \ frame[t].seen :
       LET Seen(best, least) == frame' = [frame EXCEPT ![t] =
             Frame(@.sln, @.ret, @.comp, @.seen \cup {id}, best, least)]
       IN  IF NoClient(id)
           THEN Seen(frame[t].best, frame[t].min_loading) /\ UNCHANGED pc
           ELSE \E k \in Conns :
             /\ FoundClient(k, id)
             /\ client_mutex[k] = NoOne
             /\ \/ /\ cur_loading(k) = 0
                   /\ Seen(k, frame[t].min_loading)
                   /\ Goto(t, "push_chosen")
                \/ /\ cur_loading(k) # 0
                   /\ IF cur_loading(k) <= frame[t].min_loading
                      THEN Seen(k, cur_loading(k))
                      ELSE Seen(frame[t].best, frame[t].min_loading)
                   /\ UNCHANGED pc
  /\ UNCHANGED <<data, mutexes, pos, victim, world>>

(* Seeded bug: the test for most_free_client == NULL is forgotten.          *)
NeverNull(t) == FALSE

(* The loop has found nobody.                                               *)
NoClientFound(t) == frame[t].best = NoOne

(* After the loop: no client means "FL"; both mutexes are given back before *)
(* the chosen client is touched again.                                      *)
PushChosen(t) ==
  /\ \/ pc[t] = "push_chosen"
     \/ /\ pc[t] = "push_scan"
        /\ clients_list[frame[t].comp] \subseteq frame[t].seen
  /\ list_mutex' = [list_mutex EXCEPT ![frame[t].comp] = NoOne]
  /\ clients_map_mutex' = NoOne
  /\ \/ /\ NoClientFound(t)
        /\ \E s \in Deref(frame[t].sln) : solution_post_result(s, "FL")
        /\ ReturnPush(t)
     \/ /\ ~NoClientFound(t)
        /\ Goto(t, "push_enqueue")
        /\ UNCHANGED <<db, locals, faults>>
  /\ UNCHANGED <<memory, registry, compilers_map, clients_list, client, delays,
                 compilers_map_mutex, client_mutex, batch, errno, server_running,
                 net, history>>

(* The chosen client may have been freed meanwhile.  Then its mutex and     *)
(* queue are read in freed memory: the solution is lost, or it lands in a   *)
(* client_t that malloc has put there since.                                *)
PushEnqueue(t) ==
  /\ pc[t] = "push_enqueue"
  /\ \/ \E k \in IF frame[t].best \in freed THEN clients_map ELSE {frame[t].best} :
          /\ client_mutex[k] = NoOne
          /\ solutions_queue' = [solutions_queue EXCEPT ![k] = Append(@, frame[t].sln)]
     \/ /\ frame[t].best \in freed
        /\ UNCHANGED solutions_queue
  /\ ReturnPush(t)
  /\ UNCHANGED <<db, memory, registry, compilers, checking_solution, freed, delays,
                 mutexes, world>>

push_solution(t) ==
  \/ PushFind(t) \/ PushLock(t) \/ PushListLock(t)
  \/ PushScan(t) \/ PushChosen(t) \/ PushEnqueue(t)
-----------------------------------------------------------------------------
(* remove_client, run by thread k with its own id.                          *)

(* The lookup takes no mutex.                                               *)
RemoveFind(k) ==
  /\ pc[k] = "remove_find"
  /\ \/ /\ NoClient(client_id[k])
        /\ Goto(k, "gone")
        /\ UNCHANGED victim
     \/ \E v \in Conns :
          /\ FoundClient(v, client_id[k])
          /\ victim' = [victim EXCEPT ![k] = v]
          /\ Goto(k, "remove_lock_lists")
  /\ UNCHANGED <<data, mutexes, frame, pos, world>>

RemoveLockLists(k) ==
  /\ Step(k, "remove_lock_lists", "remove_lists")
  /\ compilers_map_mutex = NoOne
  /\ compilers_map_mutex' = k
  /\ pos' = [pos EXCEPT ![k] = 1]
  /\ UNCHANGED <<data, clients_map_mutex, client_mutex, frame, victim, world>>

(* Seeded bug: the last compiler is never reached.                          *)
AllButLast(i) == i \in DOMAIN compilers_map /\ i # Len(compilers_map)

(* The loop over compilers_map goes on.                                     *)
MoreCompilers(i) == i \in DOMAIN compilers_map

(* One compiler: every record with this id leaves its clients_list.  After  *)
(* the last one the mutex is given back.                                    *)
RemoveLists(k) ==
  /\ pc[k] = "remove_lists"
  /\ \/ /\ MoreCompilers(pos[k])
        /\ list_mutex[pos[k]] = NoOne
        /\ clients_list' = [clients_list EXCEPT ![pos[k]] = @ \ {client_id[k]}]
        /\ pos' = [pos EXCEPT ![k] = @ + 1]
        /\ UNCHANGED <<pc, compilers_map_mutex>>
     \/ /\ ~MoreCompilers(pos[k])
        /\ compilers_map_mutex' = NoOne
        /\ pos' = [pos EXCEPT ![k] = 0]
        /\ Goto(k, "remove_map")
        /\ UNCHANGED clients_list
  /\ UNCHANGED <<db, memory, registry, compilers_map, list_mutex, client, delays,
                 clients_map_mutex, client_mutex, frame, victim, world>>

(* Seeded bug: HASH_DEL is forgotten.                                       *)
Kept(v) == clients_map

(* HASH_DEL(clients_map, client).                                           *)
Deleted(v) == clients_map \ {v}

(* last_client_id goes down again.  A second HASH_DEL of the same client is *)
(* undefined and deletes nothing if the process survives.                   *)
RemoveFromMap(k) ==
  /\ Step(k, "remove_map", "remove_lock")
  /\ clients_map_mutex = NoOne
  /\ clients_map' = Deleted(victim[k])
  /\ last_client_id' = last_client_id - 1
  /\ IF victim[k] \in clients_map
     THEN /\ removals' = removals + 1
          /\ removed_at' = [removed_at EXCEPT ![victim[k]] = removals + 1]
     ELSE UNCHANGED <<removals, removed_at>>
  /\ UNCHANGED <<db, memory, client_id, compilers, client, delays, mutexes, locals,
                 batch, errno, server_running, net, faults, unanswered, id_shared,
                 dangled>>

(* push_solution is called with the client's mutex held.  If another thread *)
(* has freed the client, this goes on with what was left behind.            *)
RemoveLock(k) ==
  /\ pc[k] = "remove_lock"
  /\ LET v == victim[k]
     IN  /\ client_mutex[v] = NoOne
         /\ client_mutex' = [client_mutex EXCEPT ![v] = k]
         /\ \/ /\ checking_solution[v] # Null
               /\ CallPush(k, checking_solution[v], "remove_checked")
            \/ /\ checking_solution[v] = Null
               /\ Goto(k, "remove_queue")
               /\ UNCHANGED locals
  /\ UNCHANGED <<data, clients_map_mutex, compilers_map_mutex, world>>

(* Seeded bug: checking_solution keeps the solution that was passed on.     *)
StillChecking(v) == checking_solution

(* client->checking_solution = NULL.                                        *)
NotChecking(v) == [checking_solution EXCEPT ![v] = Null]

RemoveChecked(k) ==
  /\ Step(k, "remove_checked", "remove_queue")
  /\ checking_solution' = NotChecking(victim[k])
  /\ UNCHANGED <<db, memory, registry, compilers, solutions_queue, freed, delays,
                 mutexes, locals, world>>

RemoveQueue(k) ==
  /\ pc[k] = "remove_queue"
  /\ LET v == victim[k]
     IN  \/ /\ solutions_queue[v] # <<>>
            /\ solutions_queue' = [solutions_queue EXCEPT ![v] = Tail(@)]
            /\ CallPush(k, Head(solutions_queue[v]), "remove_queue")
            /\ UNCHANGED client_mutex
         \/ /\ solutions_queue[v] = <<>>
            /\ client_mutex' = [client_mutex EXCEPT ![v] = NoOne]
            /\ Goto(k, "remove_free")
            /\ UNCHANGED <<solutions_queue, locals>>
  /\ UNCHANGED <<db, memory, registry, compilers, checking_solution, freed, delays,
                 clients_map_mutex, compilers_map_mutex, world>>

(* client_free: what is in the queue by now is freed with the client.  If   *)
(* the client is another thread's, a recv already waiting on its socket can *)
(* still get data.  The thread ends.                                        *)
client_free(k) ==
  /\ Step(k, "remove_free", "gone")
  /\ LET v == victim[k]
         held == {solutions_queue[v][i] : i \in DOMAIN solutions_queue[v]}
                   \cup {checking_solution[v]}
     IN  /\ allocated' = {b \in allocated : <<b, 1>> \notin held}
         /\ solutions_queue' = [solutions_queue EXCEPT ![v] = <<>>]
         /\ checking_solution' = [checking_solution EXCEPT ![v] = Null]
         /\ freed' = freed \cup {v}
         /\ \/ peer' = [peer EXCEPT ![v] = "closed"]
            \/ v # k /\ UNCHANGED peer
  /\ outstanding' = [outstanding EXCEPT ![k] = {}]
  /\ unanswered' = [unanswered EXCEPT ![k] = {}]
  /\ victim' = [victim EXCEPT ![k] = NoOne]
  /\ UNCHANGED <<db, heap, registry, compilers, delays, mutexes, frame, pos, batch,
                 errno, server_running, faults, removals, removed_at, id_shared>>
  /\ dangled' = (dangled \/ Dangling')

remove_client(k) ==
  \/ RemoveFind(k) \/ RemoveLockLists(k) \/ RemoveLists(k) \/ RemoveFromMap(k)
  \/ RemoveLock(k) \/ RemoveChecked(k) \/ RemoveQueue(k)
  \/ client_free(k)
-----------------------------------------------------------------------------
(* client_loop, run by the thread of connection k.                          *)

(* A pool thread starts client_loop for an accepted connection, with the    *)
(* errno its last task left.                                                *)
Connect(k) ==
  /\ Step(k, "idle", "handshake")
  /\ peer' = [peer EXCEPT ![k] = "open"]
  /\ \E e \in {"other"} \cup {errno[j] : j \in {j \in Conns : pc[j] = "gone"}} :
       errno' = [errno EXCEPT ![k] = e]
  /\ UNCHANGED <<data, mutexes, locals, batch, server_running, outstanding, faults,
                 history>>

(* The early returns of the handshake: a short length or data part, a wrong *)
(* opcode; the socket is closed.                                            *)
HandshakeFail(k) ==
  /\ Step(k, "handshake", "gone")
  /\ \/ /\ peer[k] = "open"
        /\ Fault("lost")
        /\ \E e \in {errno[k], "EAGAIN"} : errno' = [errno EXCEPT ![k] = e]
     \/ /\ peer[k] = "reset"
        /\ errno' = [errno EXCEPT ![k] = "ECONNRESET"]
        /\ UNCHANGED faults
     \/ /\ peer[k] \notin {"open", "reset"}
        /\ UNCHANGED <<errno, faults>>
  /\ peer' = [peer EXCEPT ![k] = "closed"]
  /\ UNCHANGED <<data, mutexes, locals, batch, server_running, outstanding, history>>

(* client_create and HASH_ADD under clients_map_mutex.                      *)
Register(k) ==
  /\ Step(k, "handshake", "announce_lock")
  /\ clients_map_mutex = NoOne
  /\ client_id' = [client_id EXCEPT ![k] = last_client_id]
  /\ last_client_id' = last_client_id + 1
  /\ clients_map' = clients_map \cup {k}
  /\ id_shared' = (id_shared \/ ~NoClient(last_client_id))
  /\ UNCHANGED <<db, memory, compilers, client, delays, mutexes, locals, batch, errno,
                 server_running, net, faults, unanswered, removals, removed_at,
                 dangled>>

AnnounceLock(k) ==
  /\ Step(k, "announce_lock", "announce")
  /\ compilers_map_mutex = NoOne
  /\ compilers_map_mutex' = k
  /\ pos' = [pos EXCEPT ![k] = 1]
  /\ UNCHANGED <<data, clients_map_mutex, client_mutex, frame, victim, world>>

(* Seeded bug: the loop stops one compiler early.                           *)
AnnouncedButLast(k) == pos[k] \in 1..(Len(Announces[k]) - 1)

MoreAnnounced(k) == pos[k] \in DOMAIN Announces[k]

(* One announced compiler.  The lookup key is a uint16 on the stack read as *)
(* four bytes, the key of a new compiler_t is its uint16 id and the padding *)
(* malloc left behind it.  clients_list changes without its list_mutex.     *)
Announce(k) ==
  /\ pc[k] = "announce"
  /\ MoreAnnounced(k)
  /\ LET c == Announces[k][pos[k]]
     IN  \E stack \in Pads :
           \/ /\ \E i \in DOMAIN compilers_map :
                   /\ FoundCompiler(i, c, stack)
                   /\ clients_list' = [clients_list EXCEPT ![i] = @ \cup {client_id[k]}]
              /\ UNCHANGED <<compilers_map, list_mutex>>
           \/ /\ NoCompiler(c, stack)
              /\ \E padding \in Pads :
                   compilers_map' = Append(compilers_map, [id |-> c, pad |-> padding])
              /\ clients_list' = Append(clients_list, {client_id[k]})
              /\ list_mutex' = Append(list_mutex, NoOne)
  /\ pos' = [pos EXCEPT ![k] = @ + 1]
  /\ UNCHANGED <<db, memory, registry, client, delays, mutexes, pc, frame, victim,
                 world>>

AnnounceDone(k) ==
  /\ Step(k, "announce", "loop")
  /\ ~MoreAnnounced(k)
  /\ compilers_map_mutex' = NoOne
  /\ pos' = [pos EXCEPT ![k] = 0]
  /\ UNCHANGED <<data, clients_map_mutex, client_mutex, frame, victim, world>>

(* The head of the loop and the first half of process_solutions: whatever   *)
(* checking_solution was, it is overwritten with the popped solution.       *)
ProcessSolutions(k) ==
  /\ pc[k] = "loop"
  /\ \/ /\ ~server_running
        /\ Goto(k, "gone")
        /\ UNCHANGED <<solutions_queue, checking_solution, frame>>
     \/ /\ server_running
        /\ client_mutex[k] = NoOne
        /\ \/ /\ solutions_queue[k] = <<>>
              /\ Goto(k, "recv")
              /\ UNCHANGED <<solutions_queue, checking_solution, frame>>
           \/ /\ solutions_queue[k] # <<>>
              /\ solutions_queue' = [solutions_queue EXCEPT ![k] = Tail(@)]
              /\ checking_solution' =
                   [checking_solution EXCEPT ![k] = Head(solutions_queue[k])]
              /\ frame' = [frame EXCEPT ![k] = Holding(Head(solutions_queue[k]))]
              /\ Goto(k, "send")
  /\ UNCHANGED <<db, memory, registry, compilers, freed, delays, mutexes, pos,
                 victim, world>>

(* The second half: the packet is built from *sln and sent.  A peer that    *)
(* has closed answers nothing any more; the reset its host sends back shows *)
(* up as EPIPE in the next call.                                            *)
SendSolution(k) ==
  /\ Step(k, "send", "recv")
  /\ peer[k] # "reset"
  /\ \E s \in Deref(frame[k].sln) :
       /\ unanswered' = [unanswered EXCEPT ![k] = @ \cup {s}]
       /\ \/ /\ peer[k] = "open"
             /\ outstanding' = [outstanding EXCEPT ![k] = @ \cup {s}]
             /\ UNCHANGED errno
          \/ /\ peer[k] # "open"
             /\ \E e \in {errno[k], "other"} : errno' = [errno EXCEPT ![k] = e]
             /\ UNCHANGED outstanding
  /\ frame' = [frame EXCEPT ![k] = Holding(Null)]
  /\ UNCHANGED <<data, mutexes, pos, victim, batch, server_running, peer, faults,
                 removals, removed_at, id_shared, dangled>>

(* EAGAIN: tried again until the delays add up to SEND_MAX_TIMEOUT, which   *)
(* is CLI_SENDTIMEOUT.  last_send_delay is never set back to zero.          *)
SendTimeout(k) ==
  /\ pc[k] = "send"
  /\ peer[k] = "open"
  /\ Fault("lost")
  /\ errno' = [errno EXCEPT ![k] = "EAGAIN"]
  /\ last_send_delay' = [last_send_delay EXCEPT ![k] = @ + SEND_TIMEOUT_SEC]
  /\ \/ /\ last_send_delay'[k] >= SEND_MAX_TIMEOUT
        /\ frame' = [frame EXCEPT ![k] = Holding(Null)]
        /\ Goto(k, "remove_find")
     \/ /\ last_send_delay'[k] < SEND_MAX_TIMEOUT
        /\ UNCHANGED <<pc, frame>>
  /\ UNCHANGED <<db, memory, registry, compilers, client, last_recv_delay, mutexes,
                 pos, victim, batch, server_running, net, history>>

(* ECONNRESET: CLI_CONNERROR.                                               *)
SendReset(k) ==
  /\ Step(k, "send", "remove_find")
  /\ peer[k] = "reset"
  /\ errno' = [errno EXCEPT ![k] = "ECONNRESET"]
  /\ frame' = [frame EXCEPT ![k] = Holding(Null)]
  /\ UNCHANGED <<data, mutexes, pos, victim, batch, server_running, net, faults,
                 history>>

(* OP_RESULT: the verdict is posted under db_mutex, for the solution_id in  *)
(* the packet, whatever this client was sent (PeerStray).                   *)
RecvResult(k) ==
  /\ Step(k, "recv", "clear")
  /\ peer[k] \in {"open", "closing"}
  /\ \E s \in outstanding[k], code \in ResultCodes :
       /\ post_result(s, code)
       /\ outstanding' = [outstanding EXCEPT ![k] = @ \ {s}]
       /\ unanswered' = [unanswered EXCEPT ![k] = @ \ {s}]
  /\ UNCHANGED <<memory, registry, compilers, client, delays, mutexes, locals,
                 batch, errno, server_running, peer, removals, removed_at, id_shared,
                 dangled>>

(* ... then checking_solution, whichever it is, is cleared and freed.       *)
ClearChecking(k) ==
  /\ Step(k, "clear", "loop")
  /\ client_mutex[k] = NoOne
  /\ checking_solution' = NotChecking(k)
  /\ solution_free(checking_solution[k])
  /\ UNCHANGED <<db, heap, registry, compilers, solutions_queue, freed, delays,
                 mutexes, locals, batch, errno, server_running, net, faults,
                 unanswered, removals, removed_at, id_shared>>
  /\ dangled' = (dangled \/ Dangling')

(* The EAGAIN branch gives the client up.                                   *)
Hung(k) ==
  /\ checking_solution[k] # Null
  /\ last_recv_delay[k] + RECV_TIMEOUT_SEC >= RECV_MAX_TIMEOUT

(* Seeded bug: last_recv_delay is set back also while a solution is checked. *)
Patience(k) ==
  /\ last_recv_delay' = [last_recv_delay EXCEPT ![k] = 0]
  /\ Goto(k, IF last_recv_delay'[k] >= RECV_MAX_TIMEOUT THEN "remove_find" ELSE "loop")

(* The EAGAIN branch.                                                       *)
Silence(k) ==
  /\ last_recv_delay' = [last_recv_delay EXCEPT ![k] =
       IF checking_solution[k] # Null THEN @ + RECV_TIMEOUT_SEC ELSE 0]
  /\ Goto(k, IF Hung(k) THEN "remove_find" ELSE "loop")

(* Nothing came for RECV_TIMEOUT_SEC.  A checker that would still have      *)
(* answered when it is given up counts as a fault.                          *)
RecvTimeout(k) ==
  /\ pc[k] = "recv"
  /\ peer[k] = "open"
  /\ errno' = [errno EXCEPT ![k] = "EAGAIN"]
  /\ Silence(k)
  /\ IF Hung(k) /\ outstanding[k] # {} THEN Fault("lost") ELSE UNCHANGED faults
  /\ UNCHANGED <<db, memory, registry, compilers, client, last_send_delay, mutexes,
                 locals, batch, server_running, net, history>>

(* The peer has closed: recv returns 0 and leaves errno as it was.          *)
RecvClosed(k) ==
  /\ pc[k] = "recv"
  /\ peer[k] \in {"closing", "closed"}
  /\ \/ /\ errno[k] = "EAGAIN"
        /\ Silence(k)
     \/ /\ errno[k] # "EAGAIN"
        /\ Goto(k, IF errno[k] = "ECONNRESET" THEN "remove_find" ELSE "loop")
        /\ UNCHANGED last_recv_delay
  /\ peer' = [peer EXCEPT ![k] = "closed"]
  /\ outstanding' = [outstanding EXCEPT ![k] = {}]
  /\ UNCHANGED <<db, memory, registry, compilers, client, last_send_delay, mutexes,
                 locals, batch, errno, server_running, faults, history>>

RecvReset(k) ==
  /\ Step(k, "recv", "remove_find")
  /\ peer[k] = "reset"
  /\ errno' = [errno EXCEPT ![k] = "ECONNRESET"]
  /\ UNCHANGED <<data, mutexes, locals, batch, server_running, net, faults,
                 history>>

(* Any other error, a broken packet or an unknown opcode: the loop goes on, *)
(* and an answer may be lost with it.                                       *)
RecvError(k) ==
  /\ Step(k, "recv", "loop")
  /\ peer[k] = "open"
  /\ Fault("lost")
  /\ \/ UNCHANGED outstanding
     \/ \E s \in outstanding[k] : outstanding' = [outstanding EXCEPT ![k] = @ \ {s}]
  /\ \E e \in {errno[k], "EAGAIN", "other"} : errno' = [errno EXCEPT ![k] = e]
  /\ UNCHANGED <<data, mutexes, locals, batch, server_running, peer, history>>

client_loop(k) ==
  \/ HandshakeFail(k) \/ Register(k)
  \/ AnnounceLock(k) \/ Announce(k) \/ AnnounceDone(k)
  \/ ProcessSolutions(k) \/ SendSolution(k) \/ SendTimeout(k) \/ SendReset(k)
  \/ RecvResult(k) \/ ClearChecking(k)
  \/ RecvTimeout(k) \/ RecvClosed(k) \/ RecvReset(k) \/ RecvError(k)
-----------------------------------------------------------------------------
(* poll_database, and the process around it.                                *)

(* solutions_init_db; if it fails the thread returns at once.               *)
PollInit ==
  /\ pc[Poller] = "init"
  /\ \/ Goto(Poller, "poll_loop") /\ UNCHANGED faults
     \/ Goto(Poller, "done") /\ Fault("db")
  /\ UNCHANGED <<data, mutexes, locals, batch, errno, server_running, net, history>>

PollLoop ==
  /\ pc[Poller] = "poll_loop"
  /\ Goto(Poller, IF server_running THEN "poll_sleep" ELSE "done")
  /\ UNCHANGED <<data, mutexes, locals, world>>

(* Seeded bug: rows that are being checked are selected again.              *)
UnfinishedRows == {s \in Solutions : row[s] \in {0, 1}}

(* SELECT * FROM solutions WHERE checking = 0.                              *)
NewRows == {s \in Solutions : row[s] = 0}

(* Seeded bug: the loop over new_solutions starts at 1.                     *)
ButTheFirst(b, arr) == [i \in 1..(Len(arr) - 1) |-> <<b, i + 1>>]

(* The loop over new_solutions: pointers to the elements of the array.      *)
ToPush(b, arr) == [i \in DOMAIN arr |-> <<b, i>>]

(* solutions_extract_new: every new row is copied into one calloc'ed array  *)
(* and set to checking = 1 in a transaction.  If a statement fails nothing  *)
(* is pushed; the rows are rolled back, or, when it was the commit whose    *)
(* answer was lost, they may be marked all the same.                        *)
PollExtract ==
  /\ pc[Poller] = "poll_sleep"
  /\ LET marked == [s \in Solutions |-> IF s \in NewRows THEN 1 ELSE row[s]]
     IN  \/ /\ NewRows = {}
            /\ Goto(Poller, "poll_loop")
            /\ UNCHANGED <<row, memory, batch, faults>>
         \/ /\ NewRows # {}
            /\ \E b \in Blocks \ allocated,
                  arr \in [1..Cardinality(NewRows) -> NewRows] :
                 /\ \A s \in NewRows : \E i \in DOMAIN arr : arr[i] = s
                 /\ heap' = [heap EXCEPT ![b] = arr]
                 /\ allocated' = allocated \cup {b}
                 /\ batch' = ToPush(b, arr)
            /\ row' = marked
            /\ Goto(Poller, "poll_next")
            /\ UNCHANGED faults
         \/ /\ NewRows # {}
            /\ Fault("db")
            /\ row' \in {row, marked}
            /\ Goto(Poller, "poll_loop")
            /\ UNCHANGED <<memory, batch>>
  /\ UNCHANGED <<response, registry, compilers, client, delays, mutexes, locals,
                 errno, server_running, net, history>>

PollNext ==
  /\ pc[Poller] = "poll_next"
  /\ \/ /\ batch # <<>>
        /\ CallPush(Poller, Head(batch), "poll_next")
        /\ batch' = Tail(batch)
     \/ /\ batch = <<>>
        /\ Goto(Poller, "poll_loop")
        /\ UNCHANGED <<locals, batch>>
  /\ UNCHANGED <<data, mutexes, errno, server_running, net, faults, history>>

poll_database == PollInit \/ PollLoop \/ PollExtract \/ PollNext

(* local_control_loop receives "stop".                                      *)
Stop ==
  /\ server_running
  /\ Fault("stop")
  /\ server_running' = FALSE
  /\ UNCHANGED <<data, mutexes, pc, locals, batch, errno, net, history>>
-----------------------------------------------------------------------------
(* The environment.                                                         *)

(* The web application inserts a row.                                       *)
Submit(s) ==
  /\ row[s] = -1
  /\ Cardinality(NewRows) < MaxPending
  /\ row' = [row EXCEPT ![s] = 0]
  /\ UNCHANGED <<response, memory, registry, compilers, client, delays, mutexes, pc,
                 locals, world>>

(* A checker dies, or closes its connection.                                *)
PeerLost(k) ==
  /\ pc[k] \notin {"idle", "gone"}
  /\ peer[k] = "open"
  /\ \/ /\ Fault("lost")
        /\ peer' = [peer EXCEPT ![k] = "reset"]
        /\ outstanding' = [outstanding EXCEPT ![k] = {}]
     \/ /\ Fault("close")
        /\ peer' = [peer EXCEPT ![k] = "closing"]
        /\ UNCHANGED outstanding
  /\ UNCHANGED <<data, mutexes, pc, locals, batch, errno, server_running, history>>

(* A checker has an answer for a solution it was not sent, or a second one, *)
(* or one for an id that is in no row.                                      *)
PeerStray(k) ==
  /\ pc[k] \in ServePoints
  /\ peer[k] = "open"
  /\ Fault("stray")
  /\ \E s \in Solutions : outstanding' = [outstanding EXCEPT ![k] = @ \cup {s}]
  /\ UNCHANGED <<data, mutexes, pc, locals, batch, errno, server_running, peer,
                 history>>
-----------------------------------------------------------------------------
(* A new process; an earlier one has left rows behind, in any stage.  What   *)
(* ends a process (a signal, SIGPIPE, an abort in an undefined step) is no   *)
(* action: a behaviour may stop anywhere, and start again here.              *)
Init ==
  /\ row \in [Solutions -> {-1, 1, 2}]
  /\ response = [s \in Solutions |-> IF row[s] = 2 THEN "AC" ELSE "none"]
  /\ heap = [b \in Blocks |-> <<>>] /\ allocated = {}
  /\ clients_map = {} /\ last_client_id = 1 /\ client_id = [k \in Conns |-> 0]
  /\ compilers_map = <<>> /\ clients_list = <<>> /\ list_mutex = <<>>
  /\ solutions_queue = [k \in Conns |-> <<>>]
  /\ checking_solution = [k \in Conns |-> Null]
  /\ last_recv_delay = [k \in Conns |-> 0] /\ last_send_delay = [k \in Conns |-> 0]
  /\ freed = {}
  /\ clients_map_mutex = NoOne /\ compilers_map_mutex = NoOne
  /\ client_mutex = [k \in Conns |-> NoOne]
  /\ pc = [t \in Threads |-> IF t = Poller THEN "init" ELSE "idle"]
  /\ frame = [t \in Threads |-> Holding(Null)] /\ batch = <<>>
  /\ pos = [k \in Conns |-> 0] /\ victim = [k \in Conns |-> NoOne]
  /\ errno = [k \in Conns |-> "other"]
  /\ server_running = TRUE
  /\ peer = [k \in Conns |-> "none"]
  /\ outstanding = [k \in Conns |-> {}] /\ unanswered = [k \in Conns |-> {}]
  /\ faults = [kind \in FaultKinds |-> 0]
  /\ removals = 0 /\ removed_at = [k \in Conns |-> 0]
  /\ id_shared = FALSE /\ dangled = FALSE

Next ==
  \/ poll_database
  \/ \E t \in Threads : push_solution(t)
  \/ \E k \in Conns : Connect(k) \/ client_loop(k) \/ remove_client(k)
  \/ Stop
  \/ \E s \in Solutions : Submit(s)
  \/ \E k \in Conns : PeerLost(k) \/ PeerStray(k)

Spec == Init /\ [][Next]_vars

(* Threads that can run do run, and a checker answers what it is given      *)
(* within RECV_MAX_TIMEOUT unless a fault says otherwise.                   *)
FairSpec ==
  /\ Spec
  /\ WF_vars(poll_database)
  /\ \A t \in Threads : WF_vars(push_solution(t))
  /\ \A k \in Conns : WF_vars(client_loop(k)) /\ WF_vars(remove_client(k))
  /\ \A k \in Conns : SF_vars(RecvResult(k))
-----------------------------------------------------------------------------
Points == PollPoints \cup PushPoints \cup ClientPoints
Verdicts == {"none", "AC", "WA", "MLE", "TLE", "PE", "RE", "FL", "CE"}
Frames ==
  [sln : Pointers \cup {Null},
   ret : {"none", "poll_next"} \cup DrainPoints,
   comp : Nat, seen : SUBSET Int, best : Conns \cup {NoOne}, min_loading : Nat]

DbTypes ==
  /\ row \in [Solutions -> -1..2]
  /\ response \in [Solutions -> Verdicts]
HeapTypes ==
  /\ heap \in [Blocks -> Seq(Solutions)]
  /\ allocated \subseteq Blocks
RegistryTypes ==
  /\ clients_map \subseteq Conns
  /\ last_client_id \in Int
  /\ client_id \in [Conns -> Int]
CompilerTypes ==
  /\ compilers_map \in Seq([id : Nat, pad : Nat])
  /\ clients_list \in Seq(SUBSET Int)
  /\ list_mutex \in Seq(Threads \cup {NoOne})
  /\ Len(clients_list) = Len(compilers_map) /\ Len(list_mutex) = Len(compilers_map)
ClientTypes ==
  /\ solutions_queue \in [Conns -> Seq(Pointers)]
  /\ checking_solution \in [Conns -> Pointers \cup {Null}]
  /\ freed \subseteq Conns
DelayTypes ==
  /\ last_recv_delay \in [Conns -> Nat]
  /\ last_send_delay \in [Conns -> Nat]
MutexTypes ==
  /\ clients_map_mutex \in Threads \cup {NoOne}
  /\ compilers_map_mutex \in Threads \cup {NoOne}
  /\ client_mutex \in [Conns -> Threads \cup {NoOne}]
LocalTypes ==
  /\ frame \in [Threads -> Frames]
  /\ pos \in [Conns -> Nat]
  /\ victim \in [Conns -> Conns \cup {NoOne}]
NetTypes ==
  /\ errno \in [Conns -> ErrnoValues]
  /\ peer \in [Conns -> PeerStates]
  /\ outstanding \in [Conns -> SUBSET Solutions]
HistoryTypes ==
  /\ unanswered \in [Conns -> SUBSET Solutions]
  /\ removals \in Nat
  /\ removed_at \in [Conns -> Nat]
  /\ id_shared \in BOOLEAN /\ dangled \in BOOLEAN
PcType == pc \in [Threads -> Points]
BatchType == batch \in Seq(Pointers)
FaultsType == faults \in [FaultKinds -> Nat]
RunningType == server_running \in BOOLEAN

VarTypes ==
  /\ DbTypes /\ HeapTypes /\ RegistryTypes /\ CompilerTypes /\ ClientTypes
  /\ DelayTypes /\ MutexTypes /\ LocalTypes /\ NetTypes /\ HistoryTypes
  /\ PcType /\ BatchType /\ FaultsType /\ RunningType

(* What the locals of a thread hold at the points where they are used.      *)
ThreadOK(t) ==
  /\ t = Poller => pc[t] \in PollPoints \cup PushPoints
  /\ t \in Conns => pc[t] \in ClientPoints \cup PushPoints
  /\ pc[t] \in PushPoints =>
       /\ frame[t].sln \in Pointers
       /\ frame[t].ret \in IF t = Poller THEN {"poll_next"} ELSE DrainPoints
  /\ pc[t] \in {"push_lock", "push_list"} \cup ScanPoints =>
       frame[t].comp \in DOMAIN compilers_map
  /\ pc[t] = "push_enqueue" => frame[t].best \in Conns
  /\ t \in Conns /\ pc[t] \in PushPoints \cup (RemovePoints \ {"remove_find"}) =>
       victim[t] \in Conns
ThreadsOK == \A t \in Threads : ThreadOK(t)

(* Every variable has its type, and every local holds what the code then    *)
(* uses without a test: push_solution never pushes a null solution, locks   *)
(* the list of no compiler or pushes to no client (server.c:374, 404), and  *)
(* remove_client works on a client (server.c:440).                          *)
TypeOK == VarTypes /\ ThreadsOK

(* t is blocked in a pthread_mutex_lock on a mutex that u holds.            *)
WaitsFor(t, u) ==
  \/ /\ pc[t] \in {"handshake", "push_lock", "remove_map"}
     /\ clients_map_mutex = u
  \/ /\ pc[t] \in {"announce_lock", "remove_lock_lists"}
     /\ compilers_map_mutex = u
  \/ /\ pc[t] = "push_list"
     /\ list_mutex[frame[t].comp] = u
  \/ /\ pc[t] = "remove_lists"
     /\ MoreCompilers(pos[t])
     /\ list_mutex[pos[t]] = u
  \/ /\ pc[t] = "push_scan"
     /\ \E k \in clients_map : client_mutex[k] = u
  \/ /\ pc[t] = "push_enqueue"
     /\ client_mutex[frame[t].best] = u
  \/ /\ pc[t] \in {"loop", "clear"}
     /\ client_mutex[t] = u
  \/ /\ pc[t] = "remove_lock"
     /\ client_mutex[victim[t]] = u

(* No set of threads waits in a circle, although push_solution nests        *)
(* clients_map_mutex, list_mutex and client->mutex and remove_client calls  *)
(* it with another client's mutex held (server.c:446-458).                  *)
NoDeadlock ==
  LET blocked == {t \in Threads : \E u \in Threads : WaitsFor(t, u)}
  IN  \A T \in (SUBSET blocked) \ {{}} : \E t \in T : \A u \in T : ~WaitsFor(t, u)

(* Nobody else was ever given the id of k.                                  *)
SoleOwner(k) == \A j \in Conns \ {k} : client_id[j] # client_id[k]

Listed(k, c) == \E i \in DOMAIN compilers_map :
  compilers_map[i].id = c /\ client_id[k] \in clients_list[i]

Serving(k) == pc[k] \in ServePoints

(* While its thread serves it, a client that owns its id alone is in        *)
(* clients_map and in the clients_list of every compiler it announced,      *)
(* whatever other clients' remove_client calls delete (server.c:420-442).   *)
ServingIsListed ==
  \A k \in Conns : Serving(k) /\ SoleOwner(k) =>
    k \in clients_map /\ \A i \in DOMAIN Announces[k] : Listed(k, Announces[k][i])

(* The same with no condition on ids: what server.c:420 says is deleted is  *)
(* "all records about this client", and no other client's.                  *)
OwnRecordsOnly ==
  \A k \in Conns : Serving(k) =>
    \A i \in DOMAIN Announces[k] : Listed(k, Announces[k][i])

(* Every id in a clients_list has a client in clients_map, even when        *)
(* last_client_id-- (server.c:441) has given one id to several clients:     *)
(* push_solution never meets what server.c:379 logs as "INCONSISTENCY".     *)
NoInconsistency ==
  \A i \in DOMAIN clients_list : \A id \in clients_list[i] : ~NoClient(id)

(* As long as no client was given an id that another one in clients_map     *)
(* has, every pointer that is still to be followed points into a solution_t *)
(* array that is not freed: what utils.h:86 asks of the users of a queue.   *)
PointersValid == ~id_shared => ~Dangling

(* Under the same condition, a pointer to the first row of a batch never    *)
(* dangles, whatever is answered, overwritten, delegated or freed, and      *)
(* however many rows a poll finds.  So what dangles is a pointer to a later *)
(* row of a batch of several (server.c:348), and nothing else.              *)
OnlyLaterRowsDangle ==
  ~id_shared => \A p \in HeldPointers \ {Null} : p[2] = 1 => p[1] \in allocated

(* As long as no client was given an id that another one in clients_map     *)
(* has, no array was freed that a thread still uses, and the checkers       *)
(* answer only what they were sent, and once (server.c:218-223 trusts the   *)
(* solution_id in the packet), a verdict is never changed: no solution is   *)
(* judged twice, whatever timeouts, resets, delegations and restarts happen *)
(* in between.                                                              *)
VerdictFinal ==
  [][(~id_shared /\ ~dangled /\ faults["stray"] = 0)' => \A s \in Solutions :
       row[s] = 2 => row'[s] = 2 /\ response'[s] = response[s]]_vars

Carried(s) == \E p \in HeldPointers \ {Null} : s \in Deref(p)

(* When remove_client is over, what the client was sent and did not answer  *)
(* is with another client, or has its verdict (server.c:444).               *)
Delegated ==
  [][\A k \in Conns : pc[k] = "remove_free" /\ pc'[k] = "gone" =>
       \A s \in unanswered[k] : row[s] = 1 => Carried(s)']_vars

(* The client that a thread has chosen is still in clients_map when it      *)
(* pushes to it (server.c:405).                                             *)
PushesToListed ==
  \A t \in Threads : pc[t] = "push_enqueue" => frame[t].best \in clients_map

(* A client takes a solution from its queue only when it has none to answer *)
(* for (server.c:248).                                                      *)
OverwritesNothing ==
  \A k \in Conns : pc[k] = "loop" /\ solutions_queue[k] # <<>> => checking_solution[k] = Null

(* A result that clears checking_solution was a verdict for that solution   *)
(* (server.c:223-229): its code was known, its id the right one, and the    *)
(* statement did not fail.                                                  *)
ClearsWhatIsJudged ==
  \A k \in Conns : pc[k] = "clear" /\ checking_solution[k] # Null =>
    \A s \in Deref(checking_solution[k]) : row[s] = 2

(* None of the ways in which this code loses a solution was taken.          *)
LosesNothing ==
  ~id_shared /\ ~dangled /\ PushesToListed /\ OverwritesNothing /\ ClearsWhatIsJudged

(* Every submitted solution gets a verdict, also if its checker hangs, is   *)
(* cut off, sends rubbish or answers what it was not sent, as long as       *)
(* LosesNothing holds, no statement fails, no checker closes its connection *)
(* in an orderly way and the server is not stopped: each row that is marked *)
(* is dispatched, sent, and delegated if need be.                           *)
VerdictEventually ==
  []LosesNothing => \A s \in Solutions : row[s] = 0 ~> row[s] = 2

BeingChecked(s) ==
  \E k \in Conns : checking_solution[k] # Null /\ s \in Deref(checking_solution[k])

(* Under the same conditions, a solution that a client is checking does not *)
(* stay with it for good: it gets a verdict, from this client or from the   *)
(* one it is delegated to (server.c:444), however many of them hang or are  *)
(* cut off.                                                                 *)
CheckedIsJudged ==
  []LosesNothing => \A s \in Solutions : BeingChecked(s) ~> row[s] = 2
=============================================================================
