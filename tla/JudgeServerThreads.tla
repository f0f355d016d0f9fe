------------------------- MODULE JudgeServerThreads --------------------------
(***************************************************************************)
(* What the threads of JudgeServer hold, for every set of connections,     *)
(* solutions and heap blocks and every bound.                              *)
(*                                                                         *)
(* Locals.  The type invariant is not inductive: push_solution goes back   *)
(* to the point its frame names, and remove_client writes to the client it *)
(* has found.  ThreadsOK says what these locals hold.                      *)
(*                                                                         *)
(* Mutexes.  Which thread holds them, and why no set of threads waits in a *)
(* circle.  remove_client holds a client's mutex while push_solution takes *)
(* clients_map_mutex, a list_mutex and other clients' mutexes, so there is *)
(* no order of the mutexes themselves; there is one of the clients, by the *)
(* time they left clients_map.                                             *)
(***************************************************************************)
EXTENDS JudgeServer, FiniteSetTheorems, SequenceTheorems, NaturalsInduction,
        WellFoundedInduction, TLAPS

-----------------------------------------------------------------------------
(* The constant sets.  INT32_MAX and the sets of program points stay        *)
(* opaque in the proofs below; these facts are all that is used of them.    *)

(* min_loading starts at a natural number.                                  *)
LEMMA MaxIsNat == INT32_MAX \in Nat
  BY SMT DEF INT32_MAX

(* The points the actions go to are program points.                         *)
LEMMA Labels ==
  {"poll_loop", "poll_sleep", "poll_next", "done", "push_find", "push_lock",
   "push_list", "push_scan", "push_chosen", "push_enqueue", "remove_find",
   "remove_lock_lists", "remove_lists", "remove_map", "remove_lock",
   "remove_checked", "remove_queue", "remove_free", "handshake", "announce_lock",
   "announce", "loop", "send", "recv", "clear", "gone"} \subseteq Points
  BY DEF Points, PollPoints, PushPoints, ScanPoints, ClientPoints, RemovePoints,
         DrainPoints, ServePoints

(* The kinds of faults the actions count.                                   *)
LEMMA Kinds == {"lost", "close", "stray", "db", "stop"} \subseteq FaultKinds
  BY DEF FaultKinds

(* The states the actions leave a connection in.                            *)
LEMMA Peers == {"open", "closing", "closed", "reset"} \subseteq PeerStates
  BY DEF PeerStates

(* The values the actions leave in errno.                                   *)
LEMMA Errnos == {"EAGAIN", "ECONNRESET", "other"} \subseteq ErrnoValues
  BY DEF ErrnoValues

(* Who is a thread.                                                         *)
LEMMA Thr == Conns \subseteq Threads /\ Poller \in Threads
  BY DEF Threads

(* push_solution's own verdict is one.                                      *)
LEMMA FLIsVerdict == "FL" \in Verdicts
  BY DEF Verdicts

(* So is every text post_result can write.                                  *)
LEMMA TextIsVerdict == \A i \in DOMAIN ResultText : ResultText[i] \in Verdicts
  BY DEF ResultText, Verdicts
-----------------------------------------------------------------------------
(* The helpers the actions are built from keep the types.                   *)

(* The fields of a frame.                                                   *)
LEMMA FrameFields ==
  ASSUME NEW f \in Frames
  PROVE  /\ f.sln \in Pointers \cup {Null}
         /\ f.ret \in {"none", "poll_next"} \cup DrainPoints
         /\ f.comp \in Nat /\ f.seen \in SUBSET Int
         /\ f.best \in Conns \cup {NoOne} /\ f.min_loading \in Nat
  BY DEF Frames

(* Frame makes a frame with the fields it is given.                         *)
LEMMA NewFrame ==
  ASSUME NEW sln \in Pointers \cup {Null},
         NEW ret \in {"none", "poll_next"} \cup DrainPoints,
         NEW comp \in Nat, NEW seen \in SUBSET Int, NEW best \in Conns \cup {NoOne},
         NEW least \in Nat
  PROVE  Frame(sln, ret, comp, seen, best, least) \in Frames
  BY DEF Frame, Frames

(* So does Holding.                                                         *)
LEMMA HoldingTypes ==
  ASSUME NEW p \in Pointers \cup {Null}
  PROVE  Holding(p) \in Frames
  BY MaxIsNat, NewFrame DEF Holding

(* Counting a fault.                                                        *)
LEMMA FaultCounted ==
  ASSUME FaultsType, NEW kind \in FaultKinds, Fault(kind)
  PROVE  FaultsType'
  BY DEF Fault, FaultsType

(* solution_post_result writes a verdict or nothing.                        *)
LEMMA PostTypes ==
  ASSUME DbTypes, FaultsType, NEW s \in Solutions, NEW text \in Verdicts,
         solution_post_result(s, text)
  PROVE  DbTypes' /\ FaultsType'
  BY Kinds, SMT DEF solution_post_result, DbTypes, FaultsType, Fault, db

(* So does post_result, for every result_code.                              *)
LEMMA PostResultTypes ==
  ASSUME DbTypes, FaultsType, NEW s \in Solutions, NEW code, post_result(s, code)
  PROVE  DbTypes' /\ FaultsType'
<1>1. CASE code + 1 \in DOMAIN ResultText
  BY <1>1, TextIsVerdict, PostTypes DEF post_result
<1>2. CASE code + 1 \notin DOMAIN ResultText
  BY <1>2 DEF post_result, DbTypes, FaultsType, db
<1> QED BY <1>1, <1>2

(* Calling push_solution.                                                   *)
LEMMA CallTypes ==
  ASSUME LocalTypes, PcType, NEW t \in Threads, NEW p \in Pointers,
         NEW l \in {"poll_next"} \cup DrainPoints, CallPush(t, p, l)
  PROVE  LocalTypes' /\ PcType'
<1>1. Frame(p, l, 0, {}, NoOne, INT32_MAX) \in Frames
  BY NewFrame, MaxIsNat
<1> QED BY <1>1, Labels DEF CallPush, LocalTypes, PcType, Goto

(* Returning from it: the point to return to is the caller's.               *)
LEMMA ReturnTypes ==
  ASSUME LocalTypes, PcType, ThreadsOK, NEW t \in Threads, pc[t] \in PushPoints,
         ReturnPush(t)
  PROVE  LocalTypes' /\ PcType'
<1>1. frame[t].ret \in Points
  BY Thr DEF ThreadsOK, ThreadOK, Points, PollPoints, ClientPoints, RemovePoints
<1> QED BY <1>1, HoldingTypes DEF ReturnPush, LocalTypes, PcType, Goto

(* Where push_solution returns to.                                          *)
LEMMA ReturnPoint ==
  ASSUME ThreadsOK, NEW t \in Threads, pc[t] \in PushPoints
  PROVE  /\ frame[t].ret \in {"poll_next", "remove_checked", "remove_queue"}
         /\ t \in Conns => frame[t].ret \in DrainPoints
         /\ t = Poller => frame[t].ret = "poll_next"
  BY ThreadsAssumption DEF ThreadsOK, ThreadOK, DrainPoints

(* What solutions_extract_new copies the rows into is an array of           *)
(* solutions.                                                               *)
LEMMA NewArray ==
  ASSUME NEW arr \in [1..Cardinality(NewRows) -> NewRows]
  PROVE  Cardinality(NewRows) \in Nat /\ arr \in Seq(Solutions)
<1>1. Cardinality(NewRows) \in Nat
  BY ColumnsAssumption, FS_Subset, FS_CardinalityType DEF NewRows
<1>2. arr \in [1..Cardinality(NewRows) -> Solutions]
  BY DEF NewRows
<1> QED BY <1>1, <1>2, SeqDef

(* remove_client works on a client once it has found one.                   *)
LEMMA VictimIsClient ==
  ASSUME ThreadsOK, NEW k \in Conns,
         pc[k] \in PushPoints \cup (RemovePoints \ {"remove_find"})
  PROVE  victim[k] \in Conns
  BY Thr DEF ThreadsOK, ThreadOK

(* One round of the loop in push_solution changes seen, most_free_client    *)
(* and min_loading; a new most_free_client comes from clients_map.          *)
LEMMA ScanFrame ==
  ASSUME VarTypes, NEW t \in Threads, PushScan(t)
  PROVE  \E id \in clients_list[frame[t].comp], best \in Conns \cup {NoOne}, least \in Nat :
           /\ best = frame[t].best \/ best \in clients_map
           /\ frame' = [frame EXCEPT ![t] =
                Frame(frame[t].sln, frame[t].ret, frame[t].comp,
                      frame[t].seen \cup {id}, best, least)]
<1> DEFINE Seen(id, best, least) == frame' = [frame EXCEPT ![t] =
             Frame(frame[t].sln, frame[t].ret, frame[t].comp, frame[t].seen \cup {id}, best,
                   least)]
<1>1. PICK id \in clients_list[frame[t].comp] :
        \/ Seen(id, frame[t].best, frame[t].min_loading)
        \/ \E k \in Conns : k \in clients_map /\ Seen(id, k, frame[t].min_loading)
        \/ \E k \in Conns : k \in clients_map /\ Seen(id, k, cur_loading(k))
  BY Zenon DEF PushScan, FoundClient
<1>2. frame[t].best \in Conns \cup {NoOne} /\ frame[t].min_loading \in Nat
  BY FrameFields DEF VarTypes, LocalTypes
<1>3. \A k : cur_loading(k) \in Nat
  BY DEF cur_loading
<1> HIDE DEF Seen
<1>4. \E best \in Conns \cup {NoOne}, least \in Nat :
        (best = frame[t].best \/ best \in clients_map) /\ Seen(id, best, least)
  BY <1>1, <1>2, <1>3
<1> QED BY <1>4 DEF Seen

(* Client ids are integers.                                                 *)
LEMMA ScanListIsInt ==
  ASSUME VarTypes, ThreadsOK, NEW t \in Threads, PushScan(t),
         NEW id \in clients_list[frame[t].comp]
  PROVE  id \in Int
<1>1. frame[t].comp \in DOMAIN compilers_map
  BY DEF ThreadsOK, ThreadOK, PushScan, ScanPoints
<1> QED BY <1>1, SMT DEF VarTypes, CompilerTypes
-----------------------------------------------------------------------------
(* The initial state.                                                       *)
LEMMA TypeInit == Init => VarTypes /\ ThreadsOK
<1> SUFFICES ASSUME Init PROVE VarTypes /\ ThreadsOK
  OBVIOUS
<1>1. pc = [t \in Threads |-> IF t = Poller THEN "init" ELSE "idle"]
  BY DEF Init
<1>2. PcType
  BY <1>1 DEF PcType, Points, PollPoints, ClientPoints
<1>3. ThreadsOK
  BY <1>1, Thr, ThreadsAssumption DEF ThreadsOK, ThreadOK, PollPoints, ClientPoints,
     PushPoints, ScanPoints, RemovePoints, DrainPoints
<1>4. RunningType
  BY DEF Init, RunningType
<1>5. LocalTypes
  BY HoldingTypes DEF Init, LocalTypes
<1>6. DbTypes
  BY DEF Init, DbTypes, Verdicts
<1>7. /\ HeapTypes /\ RegistryTypes /\ CompilerTypes /\ ClientTypes /\ DelayTypes
      /\ MutexTypes /\ NetTypes /\ BatchType /\ FaultsType
  BY Errnos DEF Init, HeapTypes, RegistryTypes, CompilerTypes, ClientTypes,
     DelayTypes, MutexTypes, NetTypes, BatchType, FaultsType, PeerStates
<1>8. HistoryTypes
  <2>1. /\ unanswered \in [Conns -> SUBSET Solutions]
        /\ removals \in Nat /\ removed_at \in [Conns -> Nat]
    BY DEF Init
  <2>2. id_shared \in BOOLEAN /\ dangled \in BOOLEAN
    BY Zenon DEF Init
  <2> QED BY <2>1, <2>2 DEF HistoryTypes
<1> QED BY <1>2, <1>3, <1>4, <1>5, <1>6, <1>7, <1>8 DEF VarTypes

(* Every step keeps the type invariant.                                     *)
LEMMA TypeStep == VarTypes /\ ThreadsOK /\ [Next]_vars => VarTypes'
<1> SUFFICES ASSUME VarTypes, ThreadsOK, [Next]_vars PROVE VarTypes'
  OBVIOUS
<1>1. ASSUME NEW t \in Threads, PushFind(t) PROVE VarTypes'
  <2>1. HeapTypes' /\ RegistryTypes' /\ CompilerTypes' /\ ClientTypes' /\ DelayTypes'
        /\ MutexTypes' /\ NetTypes' /\ BatchType' /\ HistoryTypes' /\ RunningType'
    BY <1>1 DEF VarTypes, HeapTypes, RegistryTypes, CompilerTypes, ClientTypes,
       DelayTypes, MutexTypes, NetTypes, BatchType, HistoryTypes, RunningType,
       PushFind, memory, registry, client, delays, compilers, mutexes, net, history
  <2>2. DbTypes' /\ LocalTypes' /\ FaultsType' /\ PcType'
    <3>1. pc[t] \in PushPoints
      BY <1>1 DEF PushFind, PushPoints
    <3>2. ASSUME NEW s \in Deref(frame[t].sln), solution_post_result(s, "FL"), ReturnPush(t)
          PROVE  DbTypes' /\ LocalTypes' /\ FaultsType' /\ PcType'
      <4>1. s \in Solutions
        BY DEF Deref
      <4> QED BY <3>1, <3>2, <4>1, FLIsVerdict, PostTypes, ReturnTypes DEF VarTypes
    <3>3. ASSUME NEW i \in DOMAIN compilers_map,
                 frame' = [frame EXCEPT ![t] =
                   Frame(frame[t].sln, frame[t].ret, i, {}, NoOne, INT32_MAX)],
                 Goto(t, "push_lock"), UNCHANGED <<db, faults, pos, victim>>
          PROVE  DbTypes' /\ LocalTypes' /\ FaultsType' /\ PcType'
      <4>1. i \in Nat
        BY DEF VarTypes, CompilerTypes
      <4>2. Frame(frame[t].sln, frame[t].ret, i, {}, NoOne, INT32_MAX) \in Frames
        BY <4>1, FrameFields, NewFrame, MaxIsNat DEF VarTypes, LocalTypes
      <4>3. LocalTypes'
        BY <3>3, <4>2 DEF VarTypes, LocalTypes
      <4> QED BY <3>3, <4>3, Labels DEF VarTypes, DbTypes, FaultsType, PcType, Goto,
                 db
    <3> QED BY <1>1, <3>2, <3>3 DEF PushFind
  <2> QED BY <2>1, <2>2 DEF VarTypes
<1>2. ASSUME NEW t \in Threads, PushLock(t) PROVE VarTypes'
  <2>1. DbTypes' /\ HeapTypes' /\ RegistryTypes' /\ CompilerTypes' /\ ClientTypes' /\
        DelayTypes' /\ LocalTypes' /\ NetTypes' /\ BatchType' /\ FaultsType' /\
        HistoryTypes' /\ RunningType'
    BY <1>2 DEF VarTypes, DbTypes, HeapTypes, RegistryTypes, CompilerTypes, ClientTypes,
       DelayTypes, LocalTypes, NetTypes, BatchType, FaultsType, HistoryTypes,
       RunningType, PushLock, db, memory, registry, client, delays, compilers, locals,
       net, history, data, world
  <2>2. MutexTypes' /\ PcType'
    BY <1>2, Thr, Labels, SMT DEF VarTypes, MutexTypes, PushLock, PcType, Step, Goto
  <2> QED BY <2>1, <2>2 DEF VarTypes
<1>3. ASSUME NEW t \in Threads, PushListLock(t) PROVE VarTypes'
  <2>1. DbTypes' /\ HeapTypes' /\ RegistryTypes' /\ ClientTypes' /\ DelayTypes' /\
        MutexTypes' /\ LocalTypes' /\ NetTypes' /\ BatchType' /\ FaultsType' /\
        HistoryTypes' /\ RunningType'
    BY <1>3 DEF VarTypes, DbTypes, HeapTypes, RegistryTypes, ClientTypes, DelayTypes,
       MutexTypes, LocalTypes, NetTypes, BatchType, FaultsType, HistoryTypes,
       RunningType, PushListLock, db, memory, registry, client, delays, mutexes,
       locals, net, history, world
  <2>2. PcType'
    BY <1>3, Thr, Labels, SMT DEF VarTypes, PcType, PushListLock, Step, Goto
  <2>3. CompilerTypes'
    <3>1. /\ UNCHANGED <<compilers_map, clients_list>>
          /\ list_mutex' = [list_mutex EXCEPT ![frame[t].comp] = t]
      BY <1>3 DEF PushListLock
    <3>2. frame[t].comp \in DOMAIN compilers_map
      BY <1>3 DEF ThreadsOK, ThreadOK, PushListLock, Step
    <3> QED BY <3>1, <3>2, SMT DEF VarTypes, CompilerTypes
  <2> QED BY <2>1, <2>2, <2>3 DEF VarTypes
<1>4. ASSUME NEW t \in Threads, PushScan(t) PROVE VarTypes'
  <2>1. DbTypes' /\ HeapTypes' /\ RegistryTypes' /\ CompilerTypes' /\ ClientTypes' /\
        DelayTypes' /\ MutexTypes' /\ NetTypes' /\ BatchType' /\ FaultsType' /\
        HistoryTypes' /\ RunningType'
    BY <1>4 DEF VarTypes, DbTypes, HeapTypes, RegistryTypes, CompilerTypes, ClientTypes,
       DelayTypes, MutexTypes, NetTypes, BatchType, FaultsType, HistoryTypes,
       RunningType, PushScan, db, memory, registry, client, delays, compilers,
       mutexes, net, history, data, world
  <2>2. PcType'
    <3>1. UNCHANGED pc \/ Goto(t, "push_chosen")
      BY <1>4 DEF PushScan
    <3> QED BY <3>1, Labels DEF VarTypes, PcType, Goto
  <2>3. LocalTypes'
    <3>1. PICK id \in clients_list[frame[t].comp], best \in Conns \cup {NoOne}, least \in Nat :
            frame' = [frame EXCEPT ![t] = Frame(frame[t].sln, frame[t].ret, frame[t].comp,
                                                frame[t].seen \cup {id}, best, least)]
      BY <1>4, ScanFrame
    <3>2. id \in Int
      BY <1>4, ScanListIsInt
    <3>3. Frame(frame[t].sln, frame[t].ret, frame[t].comp, frame[t].seen \cup {id}, best,
                least) \in Frames
      <4>1. frame[t] \in Frames
        BY DEF VarTypes, LocalTypes
      <4> QED BY <3>2, <4>1, FrameFields, NewFrame
    <3> QED BY <1>4, <3>1, <3>3, SMT DEF VarTypes, LocalTypes, PushScan
  <2> QED BY <2>1, <2>2, <2>3 DEF VarTypes
<1>5. ASSUME NEW t \in Threads, PushChosen(t) PROVE VarTypes'
  <2>1. HeapTypes' /\ RegistryTypes' /\ ClientTypes' /\ DelayTypes' /\ NetTypes' /\
        BatchType' /\ HistoryTypes' /\ RunningType'
    BY <1>5 DEF VarTypes, HeapTypes, RegistryTypes, ClientTypes, DelayTypes, NetTypes,
       BatchType, HistoryTypes, RunningType, PushChosen, memory, registry, client,
       delays, net, history
  <2>2. MutexTypes'
    BY <1>5, Thr, SMT DEF VarTypes, MutexTypes, PushChosen
  <2>3. CompilerTypes'
    <3>1. /\ UNCHANGED <<compilers_map, clients_list>>
          /\ list_mutex' = [list_mutex EXCEPT ![frame[t].comp] = NoOne]
      BY <1>5 DEF PushChosen
    <3>2. frame[t].comp \in DOMAIN compilers_map
      BY <1>5 DEF ThreadsOK, ThreadOK, PushChosen, ScanPoints
    <3> QED BY <3>1, <3>2, SMT DEF VarTypes, CompilerTypes
  <2>4. DbTypes' /\ LocalTypes' /\ FaultsType' /\ PcType'
    <3>1. pc[t] \in PushPoints
      BY <1>5 DEF PushChosen, PushPoints, ScanPoints
    <3>2. ASSUME NEW s \in Deref(frame[t].sln), solution_post_result(s, "FL"), ReturnPush(t)
          PROVE  DbTypes' /\ LocalTypes' /\ FaultsType' /\ PcType'
      <4>1. s \in Solutions
        BY DEF Deref
      <4> QED BY <3>1, <3>2, <4>1, FLIsVerdict, PostTypes, ReturnTypes DEF VarTypes
    <3>3. CASE Goto(t, "push_enqueue") /\ UNCHANGED <<db, locals, faults>>
      BY <3>3, Labels DEF VarTypes, DbTypes, LocalTypes, FaultsType, PcType, Goto,
         db, locals
    <3> QED BY <1>5, <3>2, <3>3 DEF PushChosen, NoClientFound
  <2> QED BY <2>1, <2>2, <2>3, <2>4 DEF VarTypes
<1>6. ASSUME NEW t \in Threads, PushEnqueue(t) PROVE VarTypes'
  <2>1. DbTypes' /\ HeapTypes' /\ RegistryTypes' /\ CompilerTypes' /\ DelayTypes' /\
        MutexTypes' /\ NetTypes' /\ BatchType' /\ FaultsType' /\ HistoryTypes' /\
        RunningType'
    BY <1>6 DEF VarTypes, DbTypes, HeapTypes, RegistryTypes, CompilerTypes, DelayTypes,
       MutexTypes, NetTypes, BatchType, FaultsType, HistoryTypes, RunningType,
       PushEnqueue, db, memory, registry, delays, compilers, mutexes, net, history,
       world
  <2>2. LocalTypes' /\ PcType'
    <3>1. pc[t] \in PushPoints
      BY <1>6 DEF PushEnqueue, PushPoints
    <3> QED BY <1>6, <3>1, ReturnTypes DEF VarTypes, PushEnqueue
  <2>3. ClientTypes'
    <3>1. frame[t].sln \in Pointers /\ frame[t].best \in Conns
      BY <1>6 DEF ThreadsOK, ThreadOK, PushEnqueue, PushPoints
    <3>2. ASSUME NEW k \in Conns,
                 solutions_queue' = [solutions_queue EXCEPT ![k] = Append(@, frame[t].sln)]
          PROVE  solutions_queue' \in [Conns -> Seq(Pointers)]
      BY <3>1, <3>2, SMT DEF VarTypes, ClientTypes
    <3>3. UNCHANGED <<checking_solution, freed>>
      BY <1>6 DEF PushEnqueue
    <3>4. CASE UNCHANGED solutions_queue
      BY <3>3, <3>4 DEF VarTypes, ClientTypes
    <3> QED BY <1>6, <3>1, <3>2, <3>3, <3>4 DEF VarTypes, ClientTypes, RegistryTypes,
               PushEnqueue
  <2> QED BY <2>1, <2>2, <2>3 DEF VarTypes
<1>7. ASSUME NEW k \in Conns, RemoveFind(k) PROVE VarTypes'
  <2>1. DbTypes' /\ HeapTypes' /\ RegistryTypes' /\ CompilerTypes' /\ ClientTypes' /\
        DelayTypes' /\ MutexTypes' /\ NetTypes' /\ BatchType' /\ FaultsType' /\
        HistoryTypes' /\ RunningType'
    BY <1>7 DEF VarTypes, DbTypes, HeapTypes, RegistryTypes, CompilerTypes, ClientTypes,
       DelayTypes, MutexTypes, NetTypes, BatchType, FaultsType, HistoryTypes,
       RunningType, RemoveFind, db, memory, registry, client, delays, compilers,
       mutexes, net, history, data, world
  <2>2. PcType'
    BY <1>7, Thr, Labels, SMT DEF VarTypes, PcType, RemoveFind, Goto
  <2>3. LocalTypes'
    <3>1. UNCHANGED victim \/ \E v \in Conns : victim' = [victim EXCEPT ![k] = v]
      BY <1>7 DEF RemoveFind
    <3> QED BY <1>7, <3>1, SMT DEF VarTypes, LocalTypes, RemoveFind
  <2> QED BY <2>1, <2>2, <2>3 DEF VarTypes
<1>8. ASSUME NEW k \in Conns, RemoveLockLists(k) PROVE VarTypes'
  <2>1. DbTypes' /\ HeapTypes' /\ RegistryTypes' /\ CompilerTypes' /\ ClientTypes' /\
        DelayTypes' /\ NetTypes' /\ BatchType' /\ FaultsType' /\ HistoryTypes' /\
        RunningType'
    BY <1>8 DEF VarTypes, DbTypes, HeapTypes, RegistryTypes, CompilerTypes, ClientTypes,
       DelayTypes, NetTypes, BatchType, FaultsType, HistoryTypes, RunningType,
       RemoveLockLists, db, memory, registry, client, delays, compilers, net, history,
       data, world
  <2>2. MutexTypes' /\ LocalTypes' /\ PcType'
    BY <1>8, Thr, Labels, SMT DEF VarTypes, MutexTypes, RemoveLockLists, LocalTypes,
       PcType, Step, Goto
  <2> QED BY <2>1, <2>2 DEF VarTypes
<1>9. ASSUME NEW k \in Conns, RemoveLists(k) PROVE VarTypes'
  <2>1. DbTypes' /\ HeapTypes' /\ RegistryTypes' /\ ClientTypes' /\ DelayTypes' /\
        NetTypes' /\ BatchType' /\ FaultsType' /\ HistoryTypes' /\ RunningType'
    BY <1>9 DEF VarTypes, DbTypes, HeapTypes, RegistryTypes, ClientTypes, DelayTypes,
       NetTypes, BatchType, FaultsType, HistoryTypes, RunningType, RemoveLists, db,
       memory, registry, client, delays, net, history, world
  <2>2. MutexTypes' /\ LocalTypes'
    BY <1>9, Thr, SMT DEF VarTypes, MutexTypes, RemoveLists, LocalTypes
  <2>3. PcType'
    <3>1. UNCHANGED pc \/ Goto(k, "remove_map")
      BY <1>9 DEF RemoveLists
    <3> QED BY <3>1, Thr, Labels DEF VarTypes, PcType, Goto
  <2>4. CompilerTypes'
    <3>1. CASE UNCHANGED clients_list
      BY <1>9, <3>1 DEF VarTypes, CompilerTypes, RemoveLists
    <3>2. CASE /\ pos[k] \in DOMAIN compilers_map
               /\ clients_list' = [clients_list EXCEPT ![pos[k]] = @ \ {client_id[k]}]
      <4>1. UNCHANGED <<compilers_map, list_mutex>>
        BY <1>9 DEF RemoveLists
      <4> QED BY <3>2, <4>1, SMT DEF VarTypes, CompilerTypes
    <3> QED BY <1>9, <3>1, <3>2 DEF RemoveLists, MoreCompilers
  <2> QED BY <2>1, <2>2, <2>3, <2>4 DEF VarTypes
<1>10. ASSUME NEW k \in Conns, RemoveFromMap(k) PROVE VarTypes'
  <2>1. DbTypes' /\ HeapTypes' /\ CompilerTypes' /\ ClientTypes' /\ DelayTypes' /\
        MutexTypes' /\ LocalTypes' /\ NetTypes' /\ BatchType' /\ FaultsType' /\
        RunningType'
    BY <1>10 DEF VarTypes, DbTypes, HeapTypes, CompilerTypes, ClientTypes, DelayTypes,
       MutexTypes, LocalTypes, NetTypes, BatchType, FaultsType, RunningType,
       RemoveFromMap, db, memory, client, delays, compilers, mutexes, locals, net
  <2>2. RegistryTypes' /\ HistoryTypes' /\ PcType'
    BY <1>10, Thr, Labels, SMT DEF VarTypes, RegistryTypes, RemoveFromMap, Deleted,
       HistoryTypes, PcType, Step, Goto
  <2> QED BY <2>1, <2>2 DEF VarTypes
<1>11. ASSUME NEW k \in Conns, RemoveLock(k) PROVE VarTypes'
  <2>1. DbTypes' /\ HeapTypes' /\ RegistryTypes' /\ CompilerTypes' /\ ClientTypes' /\
        DelayTypes' /\ NetTypes' /\ BatchType' /\ FaultsType' /\ HistoryTypes' /\
        RunningType'
    BY <1>11 DEF VarTypes, DbTypes, HeapTypes, RegistryTypes, CompilerTypes,
       ClientTypes, DelayTypes, NetTypes, BatchType, FaultsType, HistoryTypes,
       RunningType, RemoveLock, db, memory, registry, client, delays, compilers, net,
       history, data, world
  <2>2. LocalTypes' /\ PcType'
    <3>1. victim[k] \in Conns
      BY <1>11, VictimIsClient DEF RemoveLock, RemovePoints
    <3>2. CASE checking_solution[victim[k]] = Null
      BY <1>11, <3>2, Thr, Labels DEF VarTypes, LocalTypes, PcType, RemoveLock, Goto,
         locals
    <3>3. CASE checking_solution[victim[k]] # Null
      <4>1. checking_solution[victim[k]] \in Pointers
        BY <3>1, <3>3 DEF VarTypes, ClientTypes
      <4>2. CallPush(k, checking_solution[victim[k]], "remove_checked")
        BY <1>11, <3>3 DEF RemoveLock
      <4> QED BY <4>1, <4>2, Thr, CallTypes DEF VarTypes, DrainPoints
    <3> QED BY <3>2, <3>3
  <2>3. MutexTypes'
    <3>1. victim[k] \in Conns
      BY <1>11, VictimIsClient DEF RemoveLock, RemovePoints
    <3> QED BY <1>11, <3>1, Thr, SMT DEF VarTypes, MutexTypes, RemoveLock
  <2> QED BY <2>1, <2>2, <2>3 DEF VarTypes
<1>12. ASSUME NEW k \in Conns, RemoveChecked(k) PROVE VarTypes'
  <2>1. DbTypes' /\ HeapTypes' /\ RegistryTypes' /\ CompilerTypes' /\ DelayTypes' /\
        MutexTypes' /\ LocalTypes' /\ NetTypes' /\ BatchType' /\ FaultsType' /\
        HistoryTypes' /\ RunningType'
    BY <1>12 DEF VarTypes, DbTypes, HeapTypes, RegistryTypes, CompilerTypes, DelayTypes,
       MutexTypes, LocalTypes, NetTypes, BatchType, FaultsType, HistoryTypes,
       RunningType, RemoveChecked, db, memory, registry, delays, compilers, mutexes,
       locals, net, history, world
  <2>2. PcType'
    BY <1>12, Thr, Labels, SMT DEF VarTypes, PcType, RemoveChecked, Step, Goto,
       NotChecking
  <2>3. ClientTypes'
    <3>1. victim[k] \in Conns
      BY <1>12, VictimIsClient DEF RemoveChecked, Step, RemovePoints, DrainPoints
    <3> QED BY <1>12, <3>1, SMT DEF VarTypes, ClientTypes, RemoveChecked, NotChecking
  <2> QED BY <2>1, <2>2, <2>3 DEF VarTypes
<1>13. ASSUME NEW k \in Conns, RemoveQueue(k) PROVE VarTypes'
  <2>1. DbTypes' /\ HeapTypes' /\ RegistryTypes' /\ CompilerTypes' /\ DelayTypes' /\
        NetTypes' /\ BatchType' /\ FaultsType' /\ HistoryTypes' /\ RunningType'
    BY <1>13 DEF VarTypes, DbTypes, HeapTypes, RegistryTypes, CompilerTypes, DelayTypes,
       NetTypes, BatchType, FaultsType, HistoryTypes, RunningType, RemoveQueue, db,
       memory, registry, delays, compilers, net, history, world
  <2>2. MutexTypes'
    BY <1>13, Thr, SMT DEF VarTypes, MutexTypes, RemoveQueue
  <2>3. ClientTypes'
    <3>1. victim[k] \in Conns
      BY <1>13, VictimIsClient DEF RemoveQueue, RemovePoints, DrainPoints
    <3>2. CASE solutions_queue[victim[k]] = <<>>
      BY <1>13, <3>2 DEF VarTypes, ClientTypes, RemoveQueue
    <3>3. CASE solutions_queue[victim[k]] # <<>>
      <4>1. Tail(solutions_queue[victim[k]]) \in Seq(Pointers)
        BY <3>1, <3>3 DEF VarTypes, ClientTypes
      <4>2. /\ solutions_queue' = [solutions_queue EXCEPT ![victim[k]] = Tail(@)]
            /\ UNCHANGED <<checking_solution, freed>>
        BY <1>13, <3>3 DEF RemoveQueue
      <4> QED BY <3>1, <4>1, <4>2, SMT DEF VarTypes, ClientTypes
    <3> QED BY <3>2, <3>3
  <2>4. LocalTypes' /\ PcType'
    <3>1. victim[k] \in Conns
      BY <1>13, VictimIsClient DEF RemoveQueue, RemovePoints, DrainPoints
    <3>2. CASE solutions_queue[victim[k]] = <<>>
      BY <1>13, <3>2, Thr, Labels DEF VarTypes, LocalTypes, PcType, RemoveQueue, Goto,
         locals
    <3>3. CASE solutions_queue[victim[k]] # <<>>
      <4>1. Head(solutions_queue[victim[k]]) \in Pointers
        BY <3>1, <3>3 DEF VarTypes, ClientTypes
      <4>2. CallPush(k, Head(solutions_queue[victim[k]]), "remove_queue")
        BY <1>13, <3>3 DEF RemoveQueue
      <4> QED BY <4>1, <4>2, Thr, CallTypes DEF VarTypes, DrainPoints
    <3> QED BY <3>2, <3>3
  <2> QED BY <2>1, <2>2, <2>3, <2>4 DEF VarTypes
<1>14. ASSUME NEW k \in Conns, client_free(k) PROVE VarTypes'
  <2>1. DbTypes' /\ RegistryTypes' /\ CompilerTypes' /\ DelayTypes' /\ MutexTypes' /\
        BatchType' /\ FaultsType' /\ RunningType'
    BY <1>14 DEF VarTypes, DbTypes, RegistryTypes, CompilerTypes, DelayTypes,
       MutexTypes, BatchType, FaultsType, RunningType, client_free, db, registry,
       delays, compilers, mutexes
  <2>2. HeapTypes'
    BY <1>14, Thr, SMT DEF VarTypes, HeapTypes, client_free
  <2>3. LocalTypes'
    BY <1>14, Thr, SMT DEF VarTypes, LocalTypes, client_free
  <2>4. NetTypes'
    BY <1>14, Thr, Peers, Errnos, SMT DEF VarTypes, NetTypes, client_free
  <2>5. HistoryTypes'
    BY <1>14, Thr, SMT DEF VarTypes, HistoryTypes, client_free
  <2>6. PcType'
    BY <1>14, Thr, Labels, SMT DEF VarTypes, PcType, client_free, Step, Goto
  <2>7. ClientTypes'
    <3>1. victim[k] \in Conns
      BY <1>14, VictimIsClient DEF client_free, Step, RemovePoints
    <3> QED BY <1>14, <3>1, SMT DEF VarTypes, ClientTypes, client_free
  <2> QED BY <2>1, <2>2, <2>3, <2>4, <2>5, <2>6, <2>7 DEF VarTypes
<1>15. ASSUME NEW k \in Conns, Connect(k) PROVE VarTypes'
  <2>1. DbTypes' /\ HeapTypes' /\ RegistryTypes' /\ CompilerTypes' /\ ClientTypes' /\
        DelayTypes' /\ MutexTypes' /\ LocalTypes' /\ BatchType' /\ FaultsType' /\
        HistoryTypes' /\ RunningType'
    BY <1>15 DEF VarTypes, DbTypes, HeapTypes, RegistryTypes, CompilerTypes,
       ClientTypes, DelayTypes, MutexTypes, LocalTypes, BatchType, FaultsType,
       HistoryTypes, RunningType, Connect, db, memory, registry, client, delays,
       compilers, mutexes, locals, history, data
  <2>2. NetTypes' /\ PcType'
    BY <1>15, Thr, Peers, Errnos, Labels, SMT DEF VarTypes, NetTypes, Connect, PcType,
       Step, Goto
  <2> QED BY <2>1, <2>2 DEF VarTypes
<1>16. ASSUME NEW k \in Conns, HandshakeFail(k) PROVE VarTypes'
  <2>1. DbTypes' /\ HeapTypes' /\ RegistryTypes' /\ CompilerTypes' /\ ClientTypes' /\
        DelayTypes' /\ MutexTypes' /\ LocalTypes' /\ BatchType' /\ HistoryTypes' /\
        RunningType'
    BY <1>16 DEF VarTypes, DbTypes, HeapTypes, RegistryTypes, CompilerTypes,
       ClientTypes, DelayTypes, MutexTypes, LocalTypes, BatchType, HistoryTypes,
       RunningType, HandshakeFail, db, memory, registry, client, delays, compilers,
       mutexes, locals, history, data
  <2>2. NetTypes' /\ FaultsType' /\ PcType'
    BY <1>16, Thr, Peers, Errnos, Kinds, FaultCounted, Labels, SMT DEF VarTypes,
       NetTypes, HandshakeFail, FaultsType, PcType, Step, Goto
  <2> QED BY <2>1, <2>2 DEF VarTypes
<1>17. ASSUME NEW k \in Conns, Register(k) PROVE VarTypes'
  <2>1. DbTypes' /\ HeapTypes' /\ CompilerTypes' /\ ClientTypes' /\ DelayTypes' /\
        MutexTypes' /\ LocalTypes' /\ NetTypes' /\ BatchType' /\ FaultsType' /\
        HistoryTypes' /\ RunningType'
    BY <1>17 DEF VarTypes, DbTypes, HeapTypes, CompilerTypes, ClientTypes, DelayTypes,
       MutexTypes, LocalTypes, NetTypes, BatchType, FaultsType, HistoryTypes,
       RunningType, Register, db, memory, client, delays, compilers, mutexes, locals,
       net, history, world
  <2>2. RegistryTypes' /\ PcType'
    BY <1>17, Thr, Labels, SMT DEF VarTypes, RegistryTypes, Register, PcType, Step, Goto
  <2> QED BY <2>1, <2>2 DEF VarTypes
<1>18. ASSUME NEW k \in Conns, AnnounceLock(k) PROVE VarTypes'
  <2>1. DbTypes' /\ HeapTypes' /\ RegistryTypes' /\ CompilerTypes' /\ ClientTypes' /\
        DelayTypes' /\ NetTypes' /\ BatchType' /\ FaultsType' /\ HistoryTypes' /\
        RunningType'
    BY <1>18 DEF VarTypes, DbTypes, HeapTypes, RegistryTypes, CompilerTypes,
       ClientTypes, DelayTypes, NetTypes, BatchType, FaultsType, HistoryTypes,
       RunningType, AnnounceLock, db, memory, registry, client, delays, compilers,
       net, history, data, world
  <2>2. MutexTypes' /\ LocalTypes' /\ PcType'
    BY <1>18, Thr, Labels, SMT DEF VarTypes, MutexTypes, AnnounceLock, LocalTypes,
       PcType, Step, Goto
  <2> QED BY <2>1, <2>2 DEF VarTypes
<1>19. ASSUME NEW k \in Conns, Announce(k) PROVE VarTypes'
  <2>1. DbTypes' /\ HeapTypes' /\ RegistryTypes' /\ ClientTypes' /\ DelayTypes' /\
        MutexTypes' /\ NetTypes' /\ BatchType' /\ FaultsType' /\ HistoryTypes' /\
        PcType' /\ RunningType'
    BY <1>19 DEF VarTypes, DbTypes, HeapTypes, RegistryTypes, ClientTypes, DelayTypes,
       MutexTypes, NetTypes, BatchType, FaultsType, HistoryTypes, PcType, RunningType,
       Announce, db, memory, registry, client, delays, mutexes, net, history, world
  <2>2. LocalTypes'
    BY <1>19, Thr, SMT DEF VarTypes, LocalTypes, Announce
  <2>3. CompilerTypes'
    <3>1. client_id[k] \in Int /\ Announces[k][pos[k]] \in Nat
      BY <1>19, ColumnsAssumption DEF VarTypes, RegistryTypes, Announce, MoreAnnounced
    <3>2. ASSUME NEW i \in DOMAIN compilers_map,
                 clients_list' = [clients_list EXCEPT ![i] = @ \cup {client_id[k]}],
                 UNCHANGED <<compilers_map, list_mutex>>
          PROVE  CompilerTypes'
      BY <3>1, <3>2, SMT DEF VarTypes, CompilerTypes
    <3>3. ASSUME NEW padding \in Pads,
                 compilers_map' =
                   Append(compilers_map, [id |-> Announces[k][pos[k]], pad |-> padding]),
                 clients_list' = Append(clients_list, {client_id[k]}),
                 list_mutex' = Append(list_mutex, NoOne)
          PROVE  CompilerTypes'
      <4>1. [id |-> Announces[k][pos[k]], pad |-> padding] \in [id : Nat, pad : Nat]
        BY <3>1, PadsAssumption
      <4> QED BY <3>1, <3>3, <4>1, SMT DEF VarTypes, CompilerTypes
    <3> QED BY <1>19, <3>2, <3>3 DEF Announce
  <2> QED BY <2>1, <2>2, <2>3 DEF VarTypes
<1>20. ASSUME NEW k \in Conns, AnnounceDone(k) PROVE VarTypes'
  <2>1. DbTypes' /\ HeapTypes' /\ RegistryTypes' /\ CompilerTypes' /\ ClientTypes' /\
        DelayTypes' /\ NetTypes' /\ BatchType' /\ FaultsType' /\ HistoryTypes' /\
        RunningType'
    BY <1>20 DEF VarTypes, DbTypes, HeapTypes, RegistryTypes, CompilerTypes,
       ClientTypes, DelayTypes, NetTypes, BatchType, FaultsType, HistoryTypes,
       RunningType, AnnounceDone, db, memory, registry, client, delays, compilers,
       net, history, data, world
  <2>2. MutexTypes' /\ LocalTypes' /\ PcType'
    BY <1>20, Thr, Labels, SMT DEF VarTypes, MutexTypes, AnnounceDone, LocalTypes,
       PcType, Step, Goto
  <2> QED BY <2>1, <2>2 DEF VarTypes
<1>21. ASSUME NEW k \in Conns, ProcessSolutions(k) PROVE VarTypes'
  <2>1. DbTypes' /\ HeapTypes' /\ RegistryTypes' /\ CompilerTypes' /\ DelayTypes' /\
        MutexTypes' /\ NetTypes' /\ BatchType' /\ FaultsType' /\ HistoryTypes' /\
        RunningType'
    BY <1>21 DEF VarTypes, DbTypes, HeapTypes, RegistryTypes, CompilerTypes, DelayTypes,
       MutexTypes, NetTypes, BatchType, FaultsType, HistoryTypes, RunningType,
       ProcessSolutions, db, memory, registry, delays, compilers, mutexes, net,
       history, world
  <2>2. PcType'
    BY <1>21, Thr, Labels, SMT DEF VarTypes, PcType, ProcessSolutions, Goto
  <2>3. ClientTypes'
    <3>1. CASE UNCHANGED <<solutions_queue, checking_solution>>
      BY <1>21, <3>1 DEF VarTypes, ClientTypes, ProcessSolutions
    <3>2. CASE /\ solutions_queue[k] # <<>>
               /\ solutions_queue' = [solutions_queue EXCEPT ![k] = Tail(@)]
               /\ checking_solution' =
                    [checking_solution EXCEPT ![k] = Head(solutions_queue[k])]
      <4>1. Head(solutions_queue[k]) \in Pointers /\ Tail(solutions_queue[k]) \in Seq(Pointers)
        BY <3>2 DEF VarTypes, ClientTypes
      <4> QED BY <1>21, <3>2, <4>1 DEF VarTypes, ClientTypes, ProcessSolutions
    <3> QED BY <1>21, <3>1, <3>2 DEF ProcessSolutions
  <2>4. LocalTypes'
    <3>1. CASE UNCHANGED frame
      BY <1>21, <3>1 DEF VarTypes, LocalTypes, ProcessSolutions
    <3>2. CASE /\ solutions_queue[k] # <<>>
               /\ frame' = [frame EXCEPT ![k] = Holding(Head(solutions_queue[k]))]
      <4>1. Head(solutions_queue[k]) \in Pointers
        BY <3>2 DEF VarTypes, ClientTypes
      <4> QED BY <1>21, <3>2, <4>1, HoldingTypes DEF VarTypes, LocalTypes,
                 ProcessSolutions
    <3> QED BY <1>21, <3>1, <3>2 DEF ProcessSolutions
  <2> QED BY <2>1, <2>2, <2>3, <2>4 DEF VarTypes
<1>22. ASSUME NEW k \in Conns, SendSolution(k) PROVE VarTypes'
  <2>1. DbTypes' /\ HeapTypes' /\ RegistryTypes' /\ CompilerTypes' /\ ClientTypes' /\
        DelayTypes' /\ MutexTypes' /\ BatchType' /\ FaultsType' /\ RunningType'
    BY <1>22 DEF VarTypes, DbTypes, HeapTypes, RegistryTypes, CompilerTypes,
       ClientTypes, DelayTypes, MutexTypes, BatchType, FaultsType, RunningType,
       SendSolution, db, memory, registry, client, delays, compilers, mutexes, data
  <2>2. LocalTypes' /\ HistoryTypes' /\ PcType'
    BY <1>22, Thr, HoldingTypes, Labels, SMT DEF VarTypes, LocalTypes, SendSolution,
       HistoryTypes, Deref, PcType, Step, Goto
  <2>3. NetTypes'
    <3>1. outstanding' \in [Conns -> SUBSET Solutions]
      BY <1>22, SMT DEF VarTypes, NetTypes, SendSolution, Deref
    <3>2. errno' \in [Conns -> ErrnoValues]
      BY <1>22, Errnos, SMT DEF VarTypes, NetTypes, SendSolution
    <3> QED BY <1>22, <3>1, <3>2 DEF VarTypes, NetTypes, SendSolution
  <2> QED BY <2>1, <2>2, <2>3 DEF VarTypes
<1>23. ASSUME NEW k \in Conns, SendTimeout(k) PROVE VarTypes'
  <2>1. DbTypes' /\ HeapTypes' /\ RegistryTypes' /\ CompilerTypes' /\ ClientTypes' /\
        MutexTypes' /\ BatchType' /\ HistoryTypes' /\ RunningType'
    BY <1>23 DEF VarTypes, DbTypes, HeapTypes, RegistryTypes, CompilerTypes,
       ClientTypes, MutexTypes, BatchType, HistoryTypes, RunningType, SendTimeout, db,
       memory, registry, client, compilers, mutexes, history
  <2>2. DelayTypes' /\ NetTypes' /\ FaultsType' /\ PcType'
    BY <1>23, Thr, TimersAssumption, Peers, Errnos, Kinds, FaultCounted, Labels, SMT
       DEF VarTypes, DelayTypes, SendTimeout, NetTypes, net, FaultsType, PcType, Goto
  <2>3. LocalTypes'
    <3>1. frame' = [frame EXCEPT ![k] = Holding(Null)] \/ UNCHANGED frame
      BY <1>23 DEF SendTimeout
    <3> QED BY <1>23, <3>1, HoldingTypes DEF VarTypes, LocalTypes, SendTimeout
  <2> QED BY <2>1, <2>2, <2>3 DEF VarTypes
<1>24. ASSUME NEW k \in Conns, SendReset(k) PROVE VarTypes'
  <2>1. DbTypes' /\ HeapTypes' /\ RegistryTypes' /\ CompilerTypes' /\ ClientTypes' /\
        DelayTypes' /\ MutexTypes' /\ BatchType' /\ FaultsType' /\ HistoryTypes' /\
        RunningType'
    BY <1>24 DEF VarTypes, DbTypes, HeapTypes, RegistryTypes, CompilerTypes,
       ClientTypes, DelayTypes, MutexTypes, BatchType, FaultsType, HistoryTypes,
       RunningType, SendReset, db, memory, registry, client, delays, compilers,
       mutexes, history, data
  <2>2. LocalTypes' /\ NetTypes' /\ PcType'
    BY <1>24, Thr, HoldingTypes, Peers, Errnos, Labels, SMT DEF VarTypes, LocalTypes,
       SendReset, NetTypes, net, PcType, Step, Goto
  <2> QED BY <2>1, <2>2 DEF VarTypes
<1>25. ASSUME NEW k \in Conns, RecvResult(k) PROVE VarTypes'
  <2>1. HeapTypes' /\ RegistryTypes' /\ CompilerTypes' /\ ClientTypes' /\ DelayTypes'
        /\ MutexTypes' /\ LocalTypes' /\ BatchType' /\ RunningType'
    BY <1>25 DEF VarTypes, HeapTypes, RegistryTypes, CompilerTypes, ClientTypes,
       DelayTypes, MutexTypes, LocalTypes, BatchType, RunningType, RecvResult, memory,
       registry, client, delays, compilers, mutexes, locals
  <2>2. NetTypes' /\ HistoryTypes' /\ PcType'
    BY <1>25, Thr, Peers, Errnos, Labels, SMT DEF VarTypes, NetTypes, RecvResult,
       HistoryTypes, PcType, Step, Goto
  <2>3. DbTypes'
    BY <1>25, PostResultTypes DEF VarTypes, NetTypes, RecvResult
  <2>4. FaultsType'
    BY <1>25, PostResultTypes DEF VarTypes, NetTypes, RecvResult
  <2> QED BY <2>1, <2>2, <2>3, <2>4 DEF VarTypes
<1>26. ASSUME NEW k \in Conns, ClearChecking(k) PROVE VarTypes'
  <2>1. DbTypes' /\ RegistryTypes' /\ CompilerTypes' /\ DelayTypes' /\ MutexTypes' /\
        LocalTypes' /\ NetTypes' /\ BatchType' /\ FaultsType' /\ RunningType'
    BY <1>26 DEF VarTypes, DbTypes, RegistryTypes, CompilerTypes, DelayTypes,
       MutexTypes, LocalTypes, NetTypes, BatchType, FaultsType, RunningType,
       ClearChecking, db, registry, delays, compilers, mutexes, locals, net
  <2>3. HistoryTypes'
    BY <1>26, SMT DEF VarTypes, HistoryTypes, ClearChecking
  <2>2. HeapTypes' /\ ClientTypes' /\ PcType'
    BY <1>26, Thr, Labels, SMT DEF VarTypes, HeapTypes, ClearChecking, solution_free,
       NotChecking, ClientTypes, PcType, Step, Goto
  <2> QED BY <2>1, <2>2, <2>3 DEF VarTypes
<1>27. ASSUME NEW k \in Conns, RecvTimeout(k) PROVE VarTypes'
  <2>1. DbTypes' /\ HeapTypes' /\ RegistryTypes' /\ CompilerTypes' /\ ClientTypes' /\
        MutexTypes' /\ LocalTypes' /\ BatchType' /\ HistoryTypes' /\ RunningType'
    BY <1>27 DEF VarTypes, DbTypes, HeapTypes, RegistryTypes, CompilerTypes,
       ClientTypes, MutexTypes, LocalTypes, BatchType, HistoryTypes, RunningType,
       RecvTimeout, db, memory, registry, client, compilers, mutexes, locals, history
  <2>2. DelayTypes' /\ NetTypes' /\ FaultsType'
    BY <1>27, Thr, TimersAssumption, Peers, Errnos, Kinds, FaultCounted, SMT DEF
       VarTypes, DelayTypes, RecvTimeout, Goto, Silence, NetTypes, net, FaultsType
  <2>3. PcType'
    <3>1. \E l \in {"loop", "remove_find"} : Goto(k, l)
      BY <1>27 DEF RecvTimeout, Silence
    <3> QED BY <3>1, Thr, Labels DEF VarTypes, PcType, Goto
  <2> QED BY <2>1, <2>2, <2>3 DEF VarTypes
<1>28. ASSUME NEW k \in Conns, RecvClosed(k) PROVE VarTypes'
  <2>1. DbTypes' /\ HeapTypes' /\ RegistryTypes' /\ CompilerTypes' /\ ClientTypes' /\
        MutexTypes' /\ LocalTypes' /\ BatchType' /\ FaultsType' /\ HistoryTypes' /\
        RunningType'
    BY <1>28 DEF VarTypes, DbTypes, HeapTypes, RegistryTypes, CompilerTypes,
       ClientTypes, MutexTypes, LocalTypes, BatchType, FaultsType, HistoryTypes,
       RunningType, RecvClosed, db, memory, registry, client, compilers, mutexes,
       locals, history
  <2>2. NetTypes'
    BY <1>28, Thr, Peers, Errnos, SMT DEF VarTypes, NetTypes, RecvClosed
  <2>3. PcType'
    <3>1. \E l \in {"loop", "remove_find"} : Goto(k, l)
      BY <1>28 DEF RecvClosed, Silence
    <3> QED BY <3>1, Thr, Labels DEF VarTypes, PcType, Goto
  <2>4. DelayTypes'
    <3>1. CASE errno[k] = "EAGAIN"
      BY <1>28, <3>1, TimersAssumption, SMT DEF VarTypes, DelayTypes, RecvClosed,
         Silence
    <3>2. CASE errno[k] # "EAGAIN"
      BY <1>28, <3>2 DEF VarTypes, DelayTypes, RecvClosed
    <3> QED BY <3>1, <3>2
  <2> QED BY <2>1, <2>2, <2>3, <2>4 DEF VarTypes
<1>29. ASSUME NEW k \in Conns, RecvReset(k) PROVE VarTypes'
  <2>1. DbTypes' /\ HeapTypes' /\ RegistryTypes' /\ CompilerTypes' /\ ClientTypes' /\
        DelayTypes' /\ MutexTypes' /\ LocalTypes' /\ BatchType' /\ FaultsType' /\
        HistoryTypes' /\ RunningType'
    BY <1>29 DEF VarTypes, DbTypes, HeapTypes, RegistryTypes, CompilerTypes,
       ClientTypes, DelayTypes, MutexTypes, LocalTypes, BatchType, FaultsType,
       HistoryTypes, RunningType, RecvReset, db, memory, registry, client, delays,
       compilers, mutexes, locals, history, data
  <2>2. NetTypes' /\ PcType'
    BY <1>29, Thr, Peers, Errnos, Labels, SMT DEF VarTypes, NetTypes, RecvReset, net,
       PcType, Step, Goto
  <2> QED BY <2>1, <2>2 DEF VarTypes
<1>30. ASSUME NEW k \in Conns, RecvError(k) PROVE VarTypes'
  <2>1. DbTypes' /\ HeapTypes' /\ RegistryTypes' /\ CompilerTypes' /\ ClientTypes' /\
        DelayTypes' /\ MutexTypes' /\ LocalTypes' /\ BatchType' /\ HistoryTypes' /\
        RunningType'
    BY <1>30 DEF VarTypes, DbTypes, HeapTypes, RegistryTypes, CompilerTypes,
       ClientTypes, DelayTypes, MutexTypes, LocalTypes, BatchType, HistoryTypes,
       RunningType, RecvError, db, memory, registry, client, delays, compilers,
       mutexes, locals, history, data
  <2>2. FaultsType' /\ PcType'
    BY <1>30, Thr, Kinds, FaultCounted, Labels, SMT DEF VarTypes, FaultsType, RecvError,
       PcType, Step, Goto
  <2>3. NetTypes'
    <3>1. outstanding' \in [Conns -> SUBSET Solutions]
      BY <1>30, SMT DEF VarTypes, NetTypes, RecvError
    <3>2. errno' \in [Conns -> ErrnoValues]
      BY <1>30, Errnos, SMT DEF VarTypes, NetTypes, RecvError
    <3> QED BY <1>30, <3>1, <3>2 DEF VarTypes, NetTypes, RecvError
  <2> QED BY <2>1, <2>2, <2>3 DEF VarTypes
<1>31. ASSUME NEW k \in Conns, PeerLost(k) PROVE VarTypes'
  <2>1. DbTypes' /\ HeapTypes' /\ RegistryTypes' /\ CompilerTypes' /\ ClientTypes' /\
        DelayTypes' /\ MutexTypes' /\ LocalTypes' /\ BatchType' /\ HistoryTypes' /\
        PcType' /\ RunningType'
    BY <1>31 DEF VarTypes, DbTypes, HeapTypes, RegistryTypes, CompilerTypes,
       ClientTypes, DelayTypes, MutexTypes, LocalTypes, BatchType, HistoryTypes,
       PcType, RunningType, PeerLost, db, memory, registry, client, delays, compilers,
       mutexes, locals, history, data
  <2>2. FaultsType'
    BY <1>31, Thr, Kinds, FaultCounted, SMT DEF VarTypes, FaultsType, PeerLost
  <2>3. NetTypes'
    <3>1. peer' \in [Conns -> PeerStates]
      BY <1>31, Peers, SMT DEF VarTypes, NetTypes, PeerLost
    <3>2. outstanding' \in [Conns -> SUBSET Solutions]
      BY <1>31, SMT DEF VarTypes, NetTypes, PeerLost
    <3> QED BY <1>31, <3>1, <3>2 DEF VarTypes, NetTypes, PeerLost
  <2> QED BY <2>1, <2>2, <2>3 DEF VarTypes
<1>32. ASSUME PollInit PROVE VarTypes'
  <2>1. DbTypes' /\ HeapTypes' /\ RegistryTypes' /\ CompilerTypes' /\ ClientTypes' /\
        DelayTypes' /\ MutexTypes' /\ LocalTypes' /\ NetTypes' /\ BatchType' /\
        HistoryTypes' /\ RunningType'
    BY <1>32 DEF VarTypes, DbTypes, HeapTypes, RegistryTypes, CompilerTypes,
       ClientTypes, DelayTypes, MutexTypes, LocalTypes, NetTypes, BatchType,
       HistoryTypes, RunningType, PollInit, db, memory, registry, client, delays,
       compilers, mutexes, locals, net, history, data
  <2>2. FaultsType' /\ PcType'
    BY <1>32, Thr, Kinds, FaultCounted, Labels, SMT DEF VarTypes, FaultsType, PollInit,
       PcType, Goto
  <2> QED BY <2>1, <2>2 DEF VarTypes
<1>33. ASSUME PollLoop PROVE VarTypes'
  <2>1. DbTypes' /\ HeapTypes' /\ RegistryTypes' /\ CompilerTypes' /\ ClientTypes' /\
        DelayTypes' /\ MutexTypes' /\ LocalTypes' /\ NetTypes' /\ BatchType' /\
        FaultsType' /\ HistoryTypes' /\ RunningType'
    BY <1>33 DEF VarTypes, DbTypes, HeapTypes, RegistryTypes, CompilerTypes,
       ClientTypes, DelayTypes, MutexTypes, LocalTypes, NetTypes, BatchType,
       FaultsType, HistoryTypes, RunningType, PollLoop, db, memory, registry, client,
       delays, compilers, mutexes, locals, net, history, data, world
  <2>2. PcType'
    BY <1>33, Thr, Labels, SMT DEF VarTypes, PcType, PollLoop, Goto
  <2> QED BY <2>1, <2>2 DEF VarTypes
<1>34. ASSUME PollExtract PROVE VarTypes'
  <2>1. RegistryTypes' /\ CompilerTypes' /\ ClientTypes' /\ DelayTypes' /\ MutexTypes'
        /\ LocalTypes' /\ NetTypes' /\ HistoryTypes' /\ RunningType'
    BY <1>34 DEF VarTypes, RegistryTypes, CompilerTypes, ClientTypes, DelayTypes,
       MutexTypes, LocalTypes, NetTypes, HistoryTypes, RunningType, PollExtract,
       registry, client, delays, compilers, mutexes, locals, net, history
  <2>2. DbTypes' /\ FaultsType'
    BY <1>34, Thr, Kinds, FaultCounted, SMT DEF VarTypes, DbTypes, PollExtract, db,
       FaultsType
  <2>3. PcType'
    <3>1. \E l \in {"poll_loop", "poll_next"} : Goto(Poller, l)
      BY <1>34 DEF PollExtract
    <3> QED BY <3>1, Labels DEF VarTypes, PcType, Goto
  <2>4. HeapTypes'
    <3>1. CASE UNCHANGED memory
      BY <3>1 DEF VarTypes, HeapTypes, memory
    <3>2. ASSUME NEW b \in Blocks \ allocated,
                 NEW arr \in [1..Cardinality(NewRows) -> NewRows],
                 heap' = [heap EXCEPT ![b] = arr], allocated' = allocated \cup {b}
          PROVE  HeapTypes'
      BY <3>2, NewArray, SMT DEF VarTypes, HeapTypes
    <3> QED BY <1>34, <3>1, <3>2 DEF PollExtract
  <2>5. BatchType'
    <3>1. CASE UNCHANGED batch
      BY <3>1 DEF VarTypes, BatchType
    <3>2. ASSUME NEW b \in Blocks \ allocated,
                 NEW arr \in [1..Cardinality(NewRows) -> NewRows],
                 batch' = ToPush(b, arr)
          PROVE  BatchType'
      <4>1. ToPush(b, arr) \in [1..Cardinality(NewRows) -> Pointers]
        BY <3>2, NewArray, SMT DEF ToPush, Pointers
      <4> QED BY <3>2, <4>1, NewArray, SMT DEF BatchType
    <3> QED BY <1>34, <3>1, <3>2 DEF PollExtract
  <2> QED BY <2>1, <2>2, <2>3, <2>4, <2>5 DEF VarTypes
<1>35. ASSUME PollNext PROVE VarTypes'
  <2>1. DbTypes' /\ HeapTypes' /\ RegistryTypes' /\ CompilerTypes' /\ ClientTypes' /\
        DelayTypes' /\ MutexTypes' /\ NetTypes' /\ FaultsType' /\ HistoryTypes' /\
        RunningType'
    BY <1>35 DEF VarTypes, DbTypes, HeapTypes, RegistryTypes, CompilerTypes,
       ClientTypes, DelayTypes, MutexTypes, NetTypes, FaultsType, HistoryTypes,
       RunningType, PollNext, db, memory, registry, client, delays, compilers,
       mutexes, net, history, data
  <2>2. PcType'
    <3>1. CASE batch = <<>>
      BY <1>35, <3>1, Thr, Labels DEF VarTypes, PcType, PollNext, Goto
    <3>2. CASE batch # <<>>
      <4>1. Head(batch) \in Pointers
        BY <3>2 DEF VarTypes, BatchType
      <4>2. CallPush(Poller, Head(batch), "poll_next")
        BY <1>35, <3>2 DEF PollNext
      <4> QED BY <4>1, <4>2, Thr, CallTypes DEF VarTypes
    <3> QED BY <3>1, <3>2
  <2>3. LocalTypes'
    <3>1. CASE batch = <<>>
      BY <1>35, <3>1 DEF VarTypes, LocalTypes, PollNext, locals
    <3>2. CASE batch # <<>>
      <4>1. Head(batch) \in Pointers
        BY <3>2 DEF VarTypes, BatchType
      <4>2. CallPush(Poller, Head(batch), "poll_next")
        BY <1>35, <3>2 DEF PollNext
      <4> QED BY <4>1, <4>2, Thr, CallTypes DEF VarTypes
    <3> QED BY <3>1, <3>2
  <2>4. BatchType'
    <3>1. CASE batch = <<>>
      BY <1>35, <3>1 DEF VarTypes, BatchType, PollNext
    <3>2. CASE batch # <<>>
      BY <1>35, <3>2 DEF VarTypes, BatchType, PollNext
    <3> QED BY <3>1, <3>2
  <2> QED BY <2>1, <2>2, <2>3, <2>4 DEF VarTypes
<1>36. ASSUME Stop PROVE VarTypes'
  <2>1. DbTypes' /\ HeapTypes' /\ RegistryTypes' /\ CompilerTypes' /\ ClientTypes' /\
        DelayTypes' /\ MutexTypes' /\ LocalTypes' /\ NetTypes' /\ BatchType' /\
        HistoryTypes' /\ PcType'
    BY <1>36 DEF VarTypes, DbTypes, HeapTypes, RegistryTypes, CompilerTypes,
       ClientTypes, DelayTypes, MutexTypes, LocalTypes, NetTypes, BatchType,
       HistoryTypes, PcType, Stop, db, memory, registry, client, delays, compilers,
       mutexes, locals, net, history, data
  <2>2. FaultsType'
    BY <1>36, Thr, Kinds, FaultCounted, SMT DEF VarTypes, FaultsType, Stop
  <2>3. RunningType'
    BY <1>36 DEF Stop, RunningType
  <2> QED BY <2>1, <2>2, <2>3 DEF VarTypes
<1>37. ASSUME NEW s \in Solutions, Submit(s) PROVE VarTypes'
  <2>1. HeapTypes' /\ RegistryTypes' /\ CompilerTypes' /\ ClientTypes' /\ DelayTypes'
        /\ MutexTypes' /\ LocalTypes' /\ NetTypes' /\ BatchType' /\ FaultsType' /\
        HistoryTypes' /\ PcType' /\ RunningType'
    BY <1>37 DEF VarTypes, HeapTypes, RegistryTypes, CompilerTypes, ClientTypes,
       DelayTypes, MutexTypes, LocalTypes, NetTypes, BatchType, FaultsType,
       HistoryTypes, PcType, RunningType, Submit, memory, registry, client, delays,
       compilers, mutexes, locals, net, history, world
  <2>2. DbTypes'
    BY <1>37, Thr, SMT DEF VarTypes, DbTypes, Submit
  <2> QED BY <2>1, <2>2 DEF VarTypes
<1>38. ASSUME NEW k \in Conns, PeerStray(k) PROVE VarTypes'
  <2>1. DbTypes' /\ HeapTypes' /\ RegistryTypes' /\ CompilerTypes' /\ ClientTypes' /\
        DelayTypes' /\ MutexTypes' /\ LocalTypes' /\ BatchType' /\ HistoryTypes' /\
        PcType' /\ RunningType'
    BY <1>38 DEF VarTypes, DbTypes, HeapTypes, RegistryTypes, CompilerTypes,
       ClientTypes, DelayTypes, MutexTypes, LocalTypes, BatchType, HistoryTypes,
       PcType, RunningType, PeerStray, db, memory, registry, client, delays, compilers,
       mutexes, locals, history, data
  <2>2. FaultsType'
    BY <1>38, Kinds, FaultCounted, SMT DEF VarTypes, FaultsType, PeerStray
  <2>3. NetTypes'
    BY <1>38, SMT DEF VarTypes, NetTypes, PeerStray
  <2> QED BY <2>1, <2>2, <2>3 DEF VarTypes
<1>39. ASSUME UNCHANGED vars PROVE VarTypes'
  BY <1>39 DEF VarTypes, DbTypes, HeapTypes, RegistryTypes, CompilerTypes, ClientTypes,
     DelayTypes, MutexTypes, LocalTypes, NetTypes, HistoryTypes, PcType, BatchType,
     FaultsType, RunningType, vars, data, db, memory, registry, compilers, client,
     delays, mutexes, locals, world, net, history
<1> QED BY <1>1, <1>2, <1>3, <1>4, <1>5, <1>6, <1>7, <1>8, <1>9, <1>10, <1>11, <1>12,
     <1>13, <1>14, <1>15, <1>16, <1>17, <1>18, <1>19, <1>20, <1>21, <1>22, <1>23,
     <1>24, <1>25, <1>26, <1>27, <1>28, <1>29, <1>30, <1>31, <1>32, <1>33, <1>34,
     <1>35, <1>36, <1>37, <1>38, <1>39 DEF Next, poll_database, push_solution,
     client_loop, remove_client
-----------------------------------------------------------------------------
(* What one thread does leaves the others' locals alone.                    *)
LEMMA OneThread ==
  ASSUME ThreadsOK, NEW t \in Threads, ThreadOK(t)',
         \A u \in Threads \ {t} : pc'[u] = pc[u] /\ frame'[u] = frame[u],
         \A u \in Conns \ {t} : victim'[u] = victim[u],
         DOMAIN compilers_map \subseteq DOMAIN compilers_map'
  PROVE  ThreadsOK'
<1> SUFFICES ASSUME NEW u \in Threads, u # t PROVE ThreadOK(u)'
  BY DEF ThreadsOK
<1>1. ThreadOK(u)
  BY DEF ThreadsOK
<1>2. pc'[u] = pc[u] /\ frame'[u] = frame[u] /\ (u \in Conns => victim'[u] = victim[u])
  OBVIOUS
<1> QED BY <1>1, <1>2 DEF ThreadOK

(* Calling push_solution leaves the locals as ThreadsOK says.               *)
LEMMA CallOK ==
  ASSUME VarTypes, ThreadsOK, NEW t \in Threads, NEW p \in Pointers, NEW l,
         IF t = Poller THEN l = "poll_next" ELSE l \in DrainPoints /\ victim[t] \in Conns,
         CallPush(t, p, l), UNCHANGED compilers_map
  PROVE  ThreadsOK'
<1>1. pc'[t] = "push_find" /\ frame'[t] = Frame(p, l, 0, {}, NoOne, INT32_MAX)
  BY DEF VarTypes, PcType, LocalTypes, CallPush, Goto
<1>2. frame'[t].sln = p /\ frame'[t].ret = l
  BY <1>1 DEF Frame
<1>3. t \in Conns => t # Poller
  BY ThreadsAssumption
<1>4. ThreadOK(t)'
  BY <1>1, <1>2, <1>3 DEF ThreadOK, CallPush, PushPoints, ScanPoints, RemovePoints
<1> QED BY <1>4, OneThread DEF VarTypes, PcType, LocalTypes, CallPush, Goto

(* So does its return.                                                      *)
LEMMA ReturnOK ==
  ASSUME VarTypes, ThreadsOK, NEW t \in Threads, pc[t] \in PushPoints, ReturnPush(t),
         UNCHANGED compilers_map
  PROVE  ThreadsOK'
<1>1. pc'[t] = frame[t].ret /\ victim' = victim
  BY DEF VarTypes, PcType, ReturnPush, Goto
<1>2. t \in Conns => victim[t] \in Conns
  BY VictimIsClient
<1>3. ThreadOK(t)'
  BY <1>1, <1>2, ReturnPoint, ThreadsAssumption
     DEF ThreadOK, PollPoints, ClientPoints, RemovePoints, DrainPoints, PushPoints, ScanPoints
<1> QED BY <1>1, <1>3, OneThread DEF VarTypes, PcType, LocalTypes, ReturnPush, Goto

(* That round keeps t in the loop or ends it, and moves no other thread.    *)
LEMMA ScanMoves ==
  ASSUME VarTypes, NEW t \in Threads, PushScan(t)
  PROVE  /\ pc[t] = "push_scan" /\ pc'[t] \in ScanPoints
         /\ \A u \in Threads \ {t} : pc'[u] = pc[u] /\ frame'[u] = frame[u]
         /\ frame'[t].sln = frame[t].sln /\ frame'[t].ret = frame[t].ret
         /\ frame'[t].comp = frame[t].comp
         /\ frame'[t].best = frame[t].best \/ frame'[t].best \in clients_map
<1>1. PICK id, best, least :
        /\ best = frame[t].best \/ best \in clients_map
        /\ frame' = [frame EXCEPT ![t] = Frame(frame[t].sln, frame[t].ret, frame[t].comp,
                                              frame[t].seen \cup {id}, best, least)]
  BY ScanFrame
<1>2. pc[t] = "push_scan" /\ (UNCHANGED pc \/ Goto(t, "push_chosen"))
  BY DEF PushScan
<1>3. pc'[t] \in ScanPoints /\ \A u \in Threads \ {t} : pc'[u] = pc[u]
  BY <1>2 DEF VarTypes, PcType, Goto, ScanPoints
<1> QED BY <1>1, <1>2, <1>3 DEF VarTypes, LocalTypes, Frame

(* The locals after one round of the loop in push_solution.                 *)
LEMMA PushScanThreads ==
  ASSUME VarTypes, ThreadsOK, NEW t \in Threads, PushScan(t)
  PROVE  ThreadsOK'
<1>1. UNCHANGED <<compilers_map, victim>>
  BY DEF PushScan, data, compilers
<1>2. ThreadOK(t)
  BY DEF ThreadsOK
<1>3. ThreadOK(t)'
  BY <1>1, <1>2, ScanMoves DEF ThreadOK, PushPoints, ScanPoints, RemovePoints
<1> QED BY <1>1, <1>3, ScanMoves, OneThread

(* The locals after that loop.                                              *)
LEMMA PushChosenThreads ==
  ASSUME VarTypes, ThreadsOK, NEW t \in Threads, PushChosen(t)
  PROVE  ThreadsOK'
<1>1. pc[t] \in PushPoints /\ UNCHANGED compilers_map
  BY DEF PushChosen, NoClientFound, PushPoints, ScanPoints
<1>2. CASE ReturnPush(t)
  BY <1>1, <1>2, ReturnOK
<1>3. CASE frame[t].best # NoOne /\ Goto(t, "push_enqueue") /\ UNCHANGED locals
  <2>1. frame[t].best \in Conns
    BY <1>3, FrameFields DEF VarTypes, LocalTypes
  <2>2. ThreadOK(t)
    BY DEF ThreadsOK
  <2>3. ThreadOK(t)'
    BY <1>1, <1>3, <2>1, <2>2 DEF VarTypes, PcType, ThreadOK, PushPoints, ScanPoints,
       Goto, locals
  <2> QED BY <1>1, <1>3, <2>3, OneThread DEF VarTypes, PcType, Goto, locals
<1> QED BY <1>2, <1>3 DEF PushChosen, NoClientFound

(* The locals after remove_client has looked its client up.                 *)
LEMMA RemoveFindThreads ==
  ASSUME VarTypes, ThreadsOK, NEW k \in Conns, RemoveFind(k)
  PROVE  ThreadsOK'
<1>1. k \in Threads /\ k # Poller /\ UNCHANGED <<compilers_map, frame, pos>>
  BY Thr, ThreadsAssumption DEF RemoveFind, data, compilers
<1>2. CASE Goto(k, "gone") /\ UNCHANGED victim
  <2>1. ThreadOK(k)'
    BY <1>1, <1>2 DEF VarTypes, PcType, ThreadOK, PushPoints, ScanPoints,
       ClientPoints, RemovePoints, DrainPoints, Goto
  <2> QED BY <1>1, <1>2, <2>1, OneThread DEF VarTypes, PcType, Goto, locals
<1>3. CASE \E v \in Conns : victim' = [victim EXCEPT ![k] = v] /\ Goto(k, "remove_lock_lists")
  <2>1. PICK v \in Conns : victim' = [victim EXCEPT ![k] = v] /\ Goto(k, "remove_lock_lists")
    BY <1>3
  <2>2. /\ victim'[k] \in Conns /\ pc'[k] = "remove_lock_lists"
        /\ \A u \in Conns \ {k} : victim'[u] = victim[u]
        /\ \A u \in Threads \ {k} : pc'[u] = pc[u]
    BY <1>1, <2>1 DEF VarTypes, PcType, LocalTypes, Goto
  <2>3. ThreadOK(k)'
    BY <1>1, <2>2 DEF ThreadOK, PushPoints, ScanPoints, ClientPoints, RemovePoints,
       DrainPoints
  <2> QED BY <1>1, <2>2, <2>3, OneThread
<1> QED BY <1>2, <1>3 DEF RemoveFind

(* The locals after remove_client has locked the client.                    *)
LEMMA RemoveLockThreads ==
  ASSUME VarTypes, ThreadsOK, NEW k \in Conns, RemoveLock(k)
  PROVE  ThreadsOK'
<1>1. victim[k] \in Conns
  BY VictimIsClient DEF RemoveLock, RemovePoints
<1>2. k \in Threads /\ k # Poller /\ UNCHANGED compilers_map
  BY Thr, ThreadsAssumption DEF RemoveLock, data, compilers
<1>3. CASE checking_solution[victim[k]] # Null
  <2>1. /\ checking_solution[victim[k]] \in Pointers
        /\ CallPush(k, checking_solution[victim[k]], "remove_checked")
    BY <1>1, <1>3 DEF VarTypes, ClientTypes, RemoveLock
  <2> QED BY <1>1, <1>2, <2>1, CallOK DEF DrainPoints
<1>4. CASE Goto(k, "remove_queue") /\ UNCHANGED locals
  <2>1. ThreadOK(k)'
    BY <1>1, <1>2, <1>4 DEF VarTypes, PcType, ThreadOK, PushPoints, ScanPoints,
       ClientPoints, RemovePoints, DrainPoints, Goto, locals
  <2> QED BY <1>2, <1>4, <2>1, OneThread DEF VarTypes, PcType, Goto, locals
<1> QED BY <1>3, <1>4 DEF RemoveLock

(* The locals after remove_client has popped the next solution.             *)
LEMMA RemoveQueueThreads ==
  ASSUME VarTypes, ThreadsOK, NEW k \in Conns, RemoveQueue(k)
  PROVE  ThreadsOK'
<1>1. victim[k] \in Conns
  BY VictimIsClient DEF RemoveQueue, RemovePoints, DrainPoints
<1>2. k \in Threads /\ k # Poller /\ UNCHANGED compilers_map
  BY Thr, ThreadsAssumption DEF RemoveQueue, compilers
<1>3. CASE solutions_queue[victim[k]] # <<>>
  <2>1. Head(solutions_queue[victim[k]]) \in Pointers
    BY <1>1, <1>3 DEF VarTypes, ClientTypes
  <2>2. CallPush(k, Head(solutions_queue[victim[k]]), "remove_queue")
    BY <1>3 DEF RemoveQueue
  <2> QED BY <1>1, <1>2, <2>1, <2>2, CallOK DEF DrainPoints
<1>4. CASE Goto(k, "remove_free") /\ UNCHANGED locals
  <2>1. ThreadOK(k)'
    BY <1>1, <1>2, <1>4 DEF VarTypes, PcType, ThreadOK, PushPoints, ScanPoints,
       ClientPoints, RemovePoints, DrainPoints, Goto, locals
  <2> QED BY <1>2, <1>4, <2>1, OneThread DEF VarTypes, PcType, Goto, locals
<1> QED BY <1>3, <1>4 DEF RemoveQueue

(* The locals when poll_database takes the next solution.                   *)
LEMMA PollNextThreads ==
  ASSUME VarTypes, ThreadsOK, PollNext
  PROVE  ThreadsOK'
<1>1. Poller \in Threads /\ UNCHANGED compilers_map
  BY Thr DEF PollNext, data, compilers
<1>2. CASE batch # <<>>
  <2>1. Head(batch) \in Pointers
    BY <1>2 DEF VarTypes, BatchType
  <2>2. CallPush(Poller, Head(batch), "poll_next")
    BY <1>2 DEF PollNext
  <2> QED BY <1>1, <2>1, <2>2, CallOK
<1>3. CASE Goto(Poller, "poll_loop") /\ UNCHANGED locals
  <2>1. ThreadOK(Poller)'
    BY <1>1, <1>3, ThreadsAssumption DEF VarTypes, PcType, ThreadOK, PushPoints,
       ScanPoints, PollPoints, Goto, locals
  <2> QED BY <1>1, <1>3, <2>1, OneThread DEF VarTypes, PcType, Goto, locals
<1> QED BY <1>2, <1>3 DEF PollNext

(* The locals when compilers_map grows.                                     *)
LEMMA AnnounceThreads ==
  ASSUME VarTypes, ThreadsOK, NEW k \in Conns, Announce(k)
  PROVE  ThreadsOK'
<1>1. DOMAIN compilers_map \subseteq DOMAIN compilers_map'
  <2>1. UNCHANGED compilers_map \/ \E rec : compilers_map' = Append(compilers_map, rec)
    BY DEF Announce
  <2> QED BY <2>1 DEF VarTypes, CompilerTypes
<1>2. UNCHANGED <<pc, frame, victim>>
  BY DEF Announce
<1> QED BY <1>1, <1>2 DEF ThreadsOK, ThreadOK

(* Every step leaves the locals as ThreadsOK says.                          *)
LEMMA ThreadsStep == VarTypes /\ ThreadsOK /\ [Next]_vars => ThreadsOK'
<1> SUFFICES ASSUME VarTypes, ThreadsOK, [Next]_vars PROVE ThreadsOK'
  OBVIOUS
<1>1. ASSUME NEW t \in Threads, PushFind(t) PROVE ThreadsOK'
  BY <1>1, Thr, ThreadsAssumption, ReturnPoint, SMT DEF VarTypes, PcType, LocalTypes,
     CompilerTypes, ThreadsOK, ThreadOK, PushFind, compilers, Goto, ReturnPush,
     Holding, Frame, PollPoints, PushPoints, ScanPoints, ClientPoints, RemovePoints,
     DrainPoints, ServePoints
<1>2. ASSUME NEW t \in Threads, PushLock(t) PROVE ThreadsOK'
  BY <1>2, Thr, ThreadsAssumption, SMT DEF VarTypes, PcType, LocalTypes, CompilerTypes,
     ThreadsOK, ThreadOK, PushLock, compilers, locals, data, Step, Goto, PollPoints,
     PushPoints, ScanPoints, ClientPoints, RemovePoints, DrainPoints, ServePoints
<1>3. ASSUME NEW t \in Threads, PushListLock(t) PROVE ThreadsOK'
  BY <1>3, Thr, ThreadsAssumption, SMT DEF VarTypes, PcType, LocalTypes, CompilerTypes,
     ThreadsOK, ThreadOK, PushListLock, locals, Step, Goto, PollPoints, PushPoints,
     ScanPoints, ClientPoints, RemovePoints, DrainPoints, ServePoints
<1>4. ASSUME NEW t \in Threads, PushScan(t) PROVE ThreadsOK'
  BY <1>4, PushScanThreads
<1>5. ASSUME NEW t \in Threads, PushChosen(t) PROVE ThreadsOK'
  BY <1>5, PushChosenThreads
<1>6. ASSUME NEW t \in Threads, PushEnqueue(t) PROVE ThreadsOK'
  BY <1>6, Thr, ThreadsAssumption, ReturnPoint, SMT DEF VarTypes, PcType, LocalTypes,
     CompilerTypes, ThreadsOK, ThreadOK, PushEnqueue, compilers, Goto, ReturnPush,
     Holding, Frame, PollPoints, PushPoints, ScanPoints, ClientPoints, RemovePoints,
     DrainPoints, ServePoints
<1>7. ASSUME NEW k \in Conns, RemoveFind(k) PROVE ThreadsOK'
  BY <1>7, RemoveFindThreads
<1>8. ASSUME NEW k \in Conns, RemoveLockLists(k) PROVE ThreadsOK'
  BY <1>8, Thr, ThreadsAssumption, SMT DEF VarTypes, PcType, LocalTypes, CompilerTypes,
     ThreadsOK, ThreadOK, RemoveLockLists, compilers, data, Step, Goto, PollPoints,
     PushPoints, ScanPoints, ClientPoints, RemovePoints, DrainPoints, ServePoints
<1>9. ASSUME NEW k \in Conns, RemoveLists(k) PROVE ThreadsOK'
  BY <1>9, Thr, ThreadsAssumption, SMT DEF VarTypes, PcType, LocalTypes, CompilerTypes,
     ThreadsOK, ThreadOK, RemoveLists, Goto, PollPoints, PushPoints, ScanPoints,
     ClientPoints, RemovePoints, DrainPoints, ServePoints
<1>10. ASSUME NEW k \in Conns, RemoveFromMap(k) PROVE ThreadsOK'
  BY <1>10, Thr, ThreadsAssumption, SMT DEF VarTypes, PcType, LocalTypes, CompilerTypes,
     ThreadsOK, ThreadOK, RemoveFromMap, compilers, locals, Step, Goto, Deleted,
     PollPoints, PushPoints, ScanPoints, ClientPoints, RemovePoints, DrainPoints,
     ServePoints
<1>11. ASSUME NEW k \in Conns, RemoveLock(k) PROVE ThreadsOK'
  BY <1>11, RemoveLockThreads
<1>12. ASSUME NEW k \in Conns, RemoveChecked(k) PROVE ThreadsOK'
  BY <1>12, Thr, ThreadsAssumption, SMT DEF VarTypes, PcType, LocalTypes, CompilerTypes,
     ThreadsOK, ThreadOK, RemoveChecked, compilers, locals, Step, Goto, PollPoints,
     PushPoints, ScanPoints, ClientPoints, RemovePoints, DrainPoints, ServePoints
<1>13. ASSUME NEW k \in Conns, RemoveQueue(k) PROVE ThreadsOK'
  BY <1>13, RemoveQueueThreads
<1>14. ASSUME NEW k \in Conns, client_free(k) PROVE ThreadsOK'
  BY <1>14, Thr, ThreadsAssumption, SMT DEF VarTypes, PcType, LocalTypes, CompilerTypes,
     ThreadsOK, ThreadOK, client_free, compilers, Step, Goto, PollPoints, PushPoints,
     ScanPoints, ClientPoints, RemovePoints, DrainPoints, ServePoints
<1>15. ASSUME NEW k \in Conns, Connect(k) PROVE ThreadsOK'
  BY <1>15, Thr, ThreadsAssumption, SMT DEF VarTypes, PcType, LocalTypes, CompilerTypes,
     ThreadsOK, ThreadOK, Connect, compilers, locals, data, Step, Goto, PollPoints,
     PushPoints, ScanPoints, ClientPoints, RemovePoints, DrainPoints, ServePoints
<1>16. ASSUME NEW k \in Conns, HandshakeFail(k) PROVE ThreadsOK'
  BY <1>16, Thr, ThreadsAssumption, SMT DEF VarTypes, PcType, LocalTypes, CompilerTypes,
     ThreadsOK, ThreadOK, HandshakeFail, compilers, locals, data, Step, Goto,
     PollPoints, PushPoints, ScanPoints, ClientPoints, RemovePoints, DrainPoints,
     ServePoints
<1>17. ASSUME NEW k \in Conns, Register(k) PROVE ThreadsOK'
  BY <1>17, Thr, ThreadsAssumption, SMT DEF VarTypes, PcType, LocalTypes, CompilerTypes,
     ThreadsOK, ThreadOK, Register, compilers, locals, Step, Goto, PollPoints,
     PushPoints, ScanPoints, ClientPoints, RemovePoints, DrainPoints, ServePoints
<1>18. ASSUME NEW k \in Conns, AnnounceLock(k) PROVE ThreadsOK'
  BY <1>18, Thr, ThreadsAssumption, SMT DEF VarTypes, PcType, LocalTypes, CompilerTypes,
     ThreadsOK, ThreadOK, AnnounceLock, compilers, data, Step, Goto, PollPoints,
     PushPoints, ScanPoints, ClientPoints, RemovePoints, DrainPoints, ServePoints
<1>19. ASSUME NEW k \in Conns, Announce(k) PROVE ThreadsOK'
  BY <1>19, AnnounceThreads
<1>20. ASSUME NEW k \in Conns, AnnounceDone(k) PROVE ThreadsOK'
  BY <1>20, Thr, ThreadsAssumption, SMT DEF VarTypes, PcType, LocalTypes, CompilerTypes,
     ThreadsOK, ThreadOK, AnnounceDone, compilers, data, Step, Goto, PollPoints,
     PushPoints, ScanPoints, ClientPoints, RemovePoints, DrainPoints, ServePoints
<1>21. ASSUME NEW k \in Conns, ProcessSolutions(k) PROVE ThreadsOK'
  BY <1>21, Thr, ThreadsAssumption, SMT DEF VarTypes, PcType, LocalTypes, CompilerTypes,
     ThreadsOK, ThreadOK, ProcessSolutions, compilers, Goto, Holding, Frame,
     PollPoints, PushPoints, ScanPoints, ClientPoints, RemovePoints, DrainPoints,
     ServePoints
<1>22. ASSUME NEW k \in Conns, SendSolution(k) PROVE ThreadsOK'
  BY <1>22, Thr, ThreadsAssumption, SMT DEF VarTypes, PcType, LocalTypes, CompilerTypes,
     ThreadsOK, ThreadOK, SendSolution, compilers, data, Step, Goto, Holding, Frame,
     PollPoints, PushPoints, ScanPoints, ClientPoints, RemovePoints, DrainPoints,
     ServePoints
<1>23. ASSUME NEW k \in Conns, SendTimeout(k) PROVE ThreadsOK'
  BY <1>23, Thr, ThreadsAssumption, SMT DEF VarTypes, PcType, LocalTypes, CompilerTypes,
     ThreadsOK, ThreadOK, SendTimeout, compilers, Goto, Holding, Frame, PollPoints,
     PushPoints, ScanPoints, ClientPoints, RemovePoints, DrainPoints, ServePoints
<1>24. ASSUME NEW k \in Conns, SendReset(k) PROVE ThreadsOK'
  BY <1>24, Thr, ThreadsAssumption, SMT DEF VarTypes, PcType, LocalTypes, CompilerTypes,
     ThreadsOK, ThreadOK, SendReset, compilers, data, Step, Goto, Holding, Frame,
     PollPoints, PushPoints, ScanPoints, ClientPoints, RemovePoints, DrainPoints,
     ServePoints
<1>25. ASSUME NEW k \in Conns, RecvResult(k) PROVE ThreadsOK'
  BY <1>25, Thr, ThreadsAssumption, SMT DEF VarTypes, PcType, LocalTypes, CompilerTypes,
     ThreadsOK, ThreadOK, RecvResult, compilers, locals, Step, Goto, PollPoints,
     PushPoints, ScanPoints, ClientPoints, RemovePoints, DrainPoints, ServePoints
<1>26. ASSUME NEW k \in Conns, ClearChecking(k) PROVE ThreadsOK'
  BY <1>26, Thr, ThreadsAssumption, SMT DEF VarTypes, PcType, LocalTypes, CompilerTypes,
     ThreadsOK, ThreadOK, ClearChecking, compilers, locals, Step, Goto, PollPoints,
     PushPoints, ScanPoints, ClientPoints, RemovePoints, DrainPoints, ServePoints
<1>27. ASSUME NEW k \in Conns, RecvTimeout(k) PROVE ThreadsOK'
  BY <1>27, Thr, ThreadsAssumption, SMT DEF VarTypes, PcType, LocalTypes, CompilerTypes,
     ThreadsOK, ThreadOK, RecvTimeout, compilers, locals, Goto, Silence, PollPoints,
     PushPoints, ScanPoints, ClientPoints, RemovePoints, DrainPoints, ServePoints
<1>28. ASSUME NEW k \in Conns, RecvClosed(k) PROVE ThreadsOK'
  BY <1>28, Thr, ThreadsAssumption, SMT DEF VarTypes, PcType, LocalTypes, CompilerTypes,
     ThreadsOK, ThreadOK, RecvClosed, compilers, locals, Goto, Silence, PollPoints,
     PushPoints, ScanPoints, ClientPoints, RemovePoints, DrainPoints, ServePoints
<1>29. ASSUME NEW k \in Conns, RecvReset(k) PROVE ThreadsOK'
  BY <1>29, Thr, ThreadsAssumption, SMT DEF VarTypes, PcType, LocalTypes, CompilerTypes,
     ThreadsOK, ThreadOK, RecvReset, compilers, locals, data, Step, Goto, PollPoints,
     PushPoints, ScanPoints, ClientPoints, RemovePoints, DrainPoints, ServePoints
<1>30. ASSUME NEW k \in Conns, RecvError(k) PROVE ThreadsOK'
  BY <1>30, Thr, ThreadsAssumption, SMT DEF VarTypes, PcType, LocalTypes, CompilerTypes,
     ThreadsOK, ThreadOK, RecvError, compilers, locals, data, Step, Goto, PollPoints,
     PushPoints, ScanPoints, ClientPoints, RemovePoints, DrainPoints, ServePoints
<1>31. ASSUME NEW k \in Conns, PeerLost(k) PROVE ThreadsOK'
  BY <1>31, SMT DEF ThreadsOK, PeerLost, compilers, locals, data, ThreadOK
<1>32. ASSUME PollInit PROVE ThreadsOK'
  BY <1>32, Thr, ThreadsAssumption, SMT DEF VarTypes, PcType, LocalTypes, CompilerTypes,
     ThreadsOK, ThreadOK, PollInit, compilers, locals, data, Goto, PollPoints,
     PushPoints, ScanPoints, ClientPoints, RemovePoints, DrainPoints, ServePoints
<1>33. ASSUME PollLoop PROVE ThreadsOK'
  BY <1>33, Thr, ThreadsAssumption, SMT DEF VarTypes, PcType, LocalTypes, CompilerTypes,
     ThreadsOK, ThreadOK, PollLoop, compilers, locals, data, Goto, PollPoints,
     PushPoints, ScanPoints, ClientPoints, RemovePoints, DrainPoints, ServePoints
<1>34. ASSUME PollExtract PROVE ThreadsOK'
  BY <1>34, Thr, ThreadsAssumption, SMT DEF VarTypes, PcType, LocalTypes, CompilerTypes,
     ThreadsOK, ThreadOK, PollExtract, compilers, locals, Goto, PollPoints,
     PushPoints, ScanPoints, ClientPoints, RemovePoints, DrainPoints, ServePoints
<1>35. ASSUME PollNext PROVE ThreadsOK'
  BY <1>35, PollNextThreads
<1>36. ASSUME Stop PROVE ThreadsOK'
  BY <1>36, SMT DEF ThreadsOK, Stop, compilers, locals, data, ThreadOK
<1>37. ASSUME NEW s \in Solutions, Submit(s) PROVE ThreadsOK'
  BY <1>37, SMT DEF ThreadsOK, Submit, compilers, locals, ThreadOK
<1>38. ASSUME NEW k \in Conns, PeerStray(k) PROVE ThreadsOK'
  BY <1>38, SMT DEF ThreadsOK, PeerStray, compilers, locals, data, ThreadOK
<1>39. ASSUME UNCHANGED vars PROVE ThreadsOK'
  BY <1>39 DEF ThreadsOK, ThreadOK, vars, data, compilers, locals
<1> QED BY <1>1, <1>2, <1>3, <1>4, <1>5, <1>6, <1>7, <1>8, <1>9, <1>10, <1>11, <1>12,
     <1>13, <1>14, <1>15, <1>16, <1>17, <1>18, <1>19, <1>20, <1>21, <1>22, <1>23,
     <1>24, <1>25, <1>26, <1>27, <1>28, <1>29, <1>30, <1>31, <1>32, <1>33, <1>34,
     <1>35, <1>36, <1>37, <1>38, <1>39 DEF Next, poll_database, push_solution,
     client_loop, remove_client

(* What the threads' locals hold at each point, and the type invariant that *)
(* rests on it, are invariants of every behaviour of the dispatcher.        *)
THEOREM TypeCorrect == Spec => []TypeOK
<1>1. Init => VarTypes /\ ThreadsOK
  BY TypeInit
<1>2. VarTypes /\ ThreadsOK /\ [Next]_vars => VarTypes' /\ ThreadsOK'
  BY TypeStep, ThreadsStep
<1>3. VarTypes /\ ThreadsOK => TypeOK
  BY DEF TypeOK
<1> QED BY <1>1, <1>2, <1>3, PTL DEF Spec

-----------------------------------------------------------------------------
(* The points at which a thread holds a mutex, for each kind of mutex.      *)
MapHolders == {"push_list"} \cup ScanPoints
ListsHolders == {"announce", "remove_lists"}
ClientHolders == DrainPoints \cup PushPoints

(* A mutex is held by exactly the thread whose point says so; a client's    *)
(* mutex by the thread that removes this client.                            *)
MapLock == \A t \in Threads : clients_map_mutex = t <=> pc[t] \in MapHolders
ListsLock == \A t \in Threads : compilers_map_mutex = t <=> pc[t] \in ListsHolders
ListLock == \A t \in Threads : \A i \in DOMAIN list_mutex :
  list_mutex[i] = t <=> pc[t] \in ScanPoints /\ frame[t].comp = i
ClientLock == \A t \in Threads : \A k \in Conns :
  client_mutex[k] = t <=> t \in Conns /\ pc[t] \in ClientHolders /\ victim[t] = k

Locks == MapLock /\ ListsLock /\ ListLock /\ ClientLock

(* Clients leave clients_map once and are numbered as they do.  A thread    *)
(* that has taken a client out of the map passes its solutions on to        *)
(* clients that are in the map or left it later.                            *)
Numbered == \A k \in Conns :
  /\ removed_at[k] <= removals
  /\ k \in clients_map => removed_at[k] = 0
  /\ k \in clients_map \/ removed_at[k] >= 1 => pc[k] \notin {"idle", "handshake"}
Found == \A k \in Conns :
  pc[k] \in {"remove_lock_lists", "remove_lists", "remove_map"} =>
    victim[k] \in clients_map \/ removed_at[victim[k]] >= 1
TakenOut == \A k \in Conns :
  pc[k] \in {"remove_lock"} \cup ClientHolders =>
    victim[k] \notin clients_map /\ removed_at[victim[k]] >= 1
PassedOn == \A k \in Conns :
  pc[k] \in PushPoints /\ frame[k].best # NoOne =>
    frame[k].best \in clients_map \/ removed_at[frame[k].best] > removed_at[victim[k]]

Removals == Numbered /\ Found /\ TakenOut /\ PassedOn

IInv == VarTypes /\ ThreadsOK /\ Locks /\ Removals
-----------------------------------------------------------------------------
(* list_mutex while push_solution looks for its compiler.                   *)
LEMMA PushFindListLock ==
  ASSUME IInv, NEW t \in Threads, PushFind(t)
  PROVE  ListLock'
<1>1. pc'[t] \notin ScanPoints /\ pc[t] \notin ScanPoints
  BY ReturnPoint, SMT DEF IInv, VarTypes, PcType, PushFind, ReturnPush, Goto,
     ScanPoints, PushPoints
<1>2. UNCHANGED list_mutex /\ \A u \in Threads \ {t} : pc'[u] = pc[u] /\ frame'[u] = frame[u]
  BY SMT DEF IInv, VarTypes, PcType, LocalTypes, PushFind, ReturnPush, Goto, compilers
<1> QED BY <1>1, <1>2 DEF IInv, Locks, ListLock

(* list_mutex in the loop of push_solution.                                 *)
LEMMA PushScanListLock ==
  ASSUME IInv, NEW t \in Threads, PushScan(t)
  PROVE  ListLock'
<1>1. UNCHANGED list_mutex
  BY DEF PushScan, data, compilers
<1>2. /\ pc[t] \in ScanPoints /\ pc'[t] \in ScanPoints /\ frame'[t].comp = frame[t].comp
      /\ \A u \in Threads \ {t} : pc'[u] = pc[u] /\ frame'[u] = frame[u]
  BY ScanMoves DEF IInv, ScanPoints
<1>3. \A u \in Threads : /\ pc'[u] \in ScanPoints <=> pc[u] \in ScanPoints
                        /\ frame'[u].comp = frame[u].comp
  BY <1>2
<1> QED BY <1>1, <1>3 DEF IInv, Locks, ListLock

(* list_mutex after the loop of push_solution.                              *)
LEMMA PushChosenListLock ==
  ASSUME IInv, NEW t \in Threads, PushChosen(t)
  PROVE  ListLock'
<1>1. pc'[t] \notin ScanPoints /\ pc[t] \in ScanPoints
  BY ReturnPoint, SMT DEF IInv, VarTypes, PcType, PushChosen, NoClientFound, ReturnPush, Goto,
     ScanPoints, PushPoints
<1>2. \A u \in Threads \ {t} : pc'[u] = pc[u] /\ frame'[u] = frame[u]
  BY SMT DEF IInv, VarTypes, PcType, LocalTypes, PushChosen, NoClientFound, ReturnPush, Goto, locals
<1>3. list_mutex' = [list_mutex EXCEPT ![frame[t].comp] = NoOne]
  BY DEF PushChosen, NoClientFound
<1>4. \A u \in Threads \ {t} : pc[u] \notin ScanPoints
  BY <1>1 DEF IInv, Locks, MapLock, MapHolders
<1>5. DOMAIN list_mutex' = DOMAIN list_mutex
  BY <1>3
<1>6. \A i \in DOMAIN list_mutex : \A u \in Threads : list_mutex'[i] # u
  <2> TAKE i \in DOMAIN list_mutex
  <2> TAKE u \in Threads
  <2>1. CASE i = frame[t].comp
    BY <1>3, <2>1, ThreadsAssumption
  <2>2. CASE i # frame[t].comp
    <3>1. list_mutex'[i] = list_mutex[i]
      BY <1>3, <2>2
    <3> QED BY <1>1, <1>4, <2>2, <3>1 DEF IInv, Locks, ListLock
  <2> QED BY <2>1, <2>2
<1>7. \A u \in Threads : pc'[u] \notin ScanPoints
  BY <1>1, <1>2, <1>4
<1> QED BY <1>5, <1>6, <1>7 DEF ListLock

(* The list_mutex of a new compiler is free, and no loop is at it yet.      *)
LEMMA AnnounceListLock ==
  ASSUME IInv, NEW k \in Conns, Announce(k)
  PROVE  ListLock'
<1>1. UNCHANGED <<pc, frame>>
  BY DEF Announce
<1>2. CASE UNCHANGED list_mutex
  BY <1>1, <1>2 DEF IInv, Locks, ListLock
<1>3. CASE list_mutex' = Append(list_mutex, NoOne)
  <2>1. \A t \in Threads : pc[t] \in ScanPoints => frame[t].comp \in 1..Len(list_mutex)
    BY DEF IInv, VarTypes, CompilerTypes, ThreadsOK, ThreadOK
  <2> QED BY <1>1, <1>3, <2>1, ThreadsAssumption, SMT DEF IInv, VarTypes,
             CompilerTypes, Locks, ListLock
<1> QED BY <1>2, <1>3 DEF Announce

(* Every step keeps the mutexes with their holders.                         *)
LEMMA LocksStep == IInv /\ [Next]_vars => Locks'
<1> SUFFICES ASSUME IInv, [Next]_vars PROVE Locks'
  OBVIOUS
<1>1. ASSUME NEW t \in Threads, PushFind(t) PROVE Locks'
  <2>1. MapLock'
    BY <1>1, Thr, ThreadsAssumption, ReturnPoint, SMT DEF IInv, Locks, VarTypes, PcType,
       ThreadsOK, ThreadOK, MapLock, PushFind, mutexes, Goto, ReturnPush, Holding,
       Frame, MapHolders, ScanPoints, DrainPoints, PushPoints
  <2>2. ListsLock'
    BY <1>1, Thr, ThreadsAssumption, ReturnPoint, SMT DEF IInv, Locks, VarTypes, PcType,
       ThreadsOK, ThreadOK, ListsLock, PushFind, mutexes, Goto, ReturnPush, Holding,
       Frame, ListsHolders, DrainPoints, PushPoints, ScanPoints
  <2>3. ListLock'
    BY <1>1, PushFindListLock
  <2>4. ClientLock'
    BY <1>1, Thr, ThreadsAssumption, ReturnPoint, SMT DEF IInv, Locks, VarTypes, PcType,
       LocalTypes, MutexTypes, ThreadsOK, ThreadOK, ClientLock, PushFind, mutexes,
       Goto, ReturnPush, Holding, Frame, ClientHolders, DrainPoints, PushPoints,
       ScanPoints
  <2> QED BY <2>1, <2>2, <2>3, <2>4 DEF Locks
<1>2. ASSUME NEW t \in Threads, PushLock(t) PROVE Locks'
  BY <1>2, Thr, ThreadsAssumption, SMT DEF IInv, Locks, VarTypes, PcType, LocalTypes,
     CompilerTypes, MutexTypes, ThreadsOK, ThreadOK, MapLock, PushLock, Step, Goto,
     MapHolders, ScanPoints, ListsLock, ListsHolders, ListLock, compilers, locals,
     data, ClientLock, ClientHolders, DrainPoints, PushPoints
<1>3. ASSUME NEW t \in Threads, PushListLock(t) PROVE Locks'
  BY <1>3, Thr, ThreadsAssumption, SMT DEF IInv, Locks, VarTypes, PcType, LocalTypes,
     CompilerTypes, MutexTypes, ThreadsOK, ThreadOK, MapLock, PushListLock, mutexes,
     Step, Goto, MapHolders, ScanPoints, ListsLock, ListsHolders, ListLock, locals,
     ClientLock, ClientHolders, DrainPoints, PushPoints
<1>4. ASSUME NEW t \in Threads, PushScan(t) PROVE Locks'
  <2>1. MapLock'
    BY <1>4, Thr, ThreadsAssumption, SMT DEF IInv, Locks, VarTypes, PcType, ThreadsOK,
       ThreadOK, MapLock, PushScan, mutexes, Goto, FoundClient, Frame, MapHolders,
       ScanPoints
  <2>2. ListsLock'
    BY <1>4, Thr, ThreadsAssumption, SMT DEF IInv, Locks, VarTypes, PcType, ThreadsOK,
       ThreadOK, ListsLock, PushScan, mutexes, Goto, FoundClient, Frame, ListsHolders
  <2>3. ListLock'
    BY <1>4, PushScanListLock
  <2>4. ClientLock'
    BY <1>4, Thr, ThreadsAssumption, SMT DEF IInv, Locks, VarTypes, PcType, LocalTypes,
       MutexTypes, ThreadsOK, ThreadOK, ClientLock, PushScan, mutexes, Goto,
       FoundClient, Frame, ClientHolders, DrainPoints, PushPoints, ScanPoints
  <2> QED BY <2>1, <2>2, <2>3, <2>4 DEF Locks
<1>5. ASSUME NEW t \in Threads, PushChosen(t) PROVE Locks'
  <2>1. MapLock'
    BY <1>5, Thr, ThreadsAssumption, ReturnPoint, SMT DEF IInv, Locks, VarTypes, PcType,
       ThreadsOK, ThreadOK, MapLock, PushChosen, NoClientFound, Goto, ReturnPush, Holding, Frame,
       MapHolders, ScanPoints, DrainPoints, PushPoints
  <2>2. ListsLock'
    BY <1>5, Thr, ThreadsAssumption, ReturnPoint, SMT DEF IInv, Locks, VarTypes, PcType,
       ThreadsOK, ThreadOK, ListsLock, PushChosen, NoClientFound, Goto, ReturnPush, Holding, Frame,
       ListsHolders, DrainPoints, PushPoints, ScanPoints
  <2>3. ListLock'
    BY <1>5, PushChosenListLock
  <2>4. ClientLock'
    BY <1>5, Thr, ThreadsAssumption, ReturnPoint, SMT DEF IInv, Locks, VarTypes, PcType,
       LocalTypes, MutexTypes, ThreadsOK, ThreadOK, ClientLock, PushChosen, NoClientFound, locals,
       Goto, ReturnPush, Holding, Frame, ClientHolders, DrainPoints, PushPoints,
       ScanPoints
  <2> QED BY <2>1, <2>2, <2>3, <2>4 DEF Locks
<1>6. ASSUME NEW t \in Threads, PushEnqueue(t) PROVE Locks'
  BY <1>6, Thr, ThreadsAssumption, ReturnPoint, SMT DEF IInv, Locks, VarTypes, PcType,
     LocalTypes, CompilerTypes, MutexTypes, ThreadsOK, ThreadOK, MapLock, PushEnqueue,
     mutexes, Goto, ReturnPush, Holding, Frame, MapHolders, ScanPoints, DrainPoints,
     PushPoints, ListsLock, ListsHolders, ListLock, compilers, ClientLock,
     ClientHolders
<1>7. ASSUME NEW k \in Conns, RemoveFind(k) PROVE Locks'
  <2>1. MapLock'
    BY <1>7, Thr, ThreadsAssumption, SMT DEF IInv, Locks, VarTypes, PcType, ThreadsOK,
       ThreadOK, MapLock, RemoveFind, mutexes, Goto, FoundClient, MapHolders,
       ScanPoints
  <2>2. ListsLock'
    BY <1>7, Thr, ThreadsAssumption, SMT DEF IInv, Locks, VarTypes, PcType, ThreadsOK,
       ThreadOK, ListsLock, RemoveFind, mutexes, Goto, FoundClient, ListsHolders
  <2>3. ListLock'
    BY <1>7, Thr, ThreadsAssumption, SMT DEF IInv, Locks, VarTypes, PcType, LocalTypes,
       CompilerTypes, ThreadsOK, ThreadOK, ListLock, RemoveFind, compilers, data,
       Goto, FoundClient, ScanPoints
  <2>4. ClientLock'
    BY <1>7, Thr, ThreadsAssumption, SMT DEF IInv, Locks, VarTypes, PcType, LocalTypes,
       MutexTypes, ThreadsOK, ThreadOK, ClientLock, RemoveFind, mutexes, Goto,
       FoundClient, ClientHolders, DrainPoints, PushPoints, ScanPoints
  <2> QED BY <2>1, <2>2, <2>3, <2>4 DEF Locks
<1>8. ASSUME NEW k \in Conns, RemoveLockLists(k) PROVE Locks'
  BY <1>8, Thr, ThreadsAssumption, SMT DEF IInv, Locks, VarTypes, PcType, LocalTypes,
     CompilerTypes, MutexTypes, ThreadsOK, ThreadOK, MapLock, RemoveLockLists, Step,
     Goto, MapHolders, ScanPoints, ListsLock, ListsHolders, ListLock, compilers, data,
     ClientLock, ClientHolders, DrainPoints, PushPoints
<1>9. ASSUME NEW k \in Conns, RemoveLists(k) PROVE Locks'
  <2>1. MapLock'
    BY <1>9, Thr, ThreadsAssumption, SMT DEF IInv, Locks, VarTypes, PcType, ThreadsOK,
       ThreadOK, MapLock, RemoveLists, Goto, MapHolders, ScanPoints
  <2>2. ListsLock'
    BY <1>9, Thr, ThreadsAssumption, SMT DEF IInv, Locks, VarTypes, PcType, ThreadsOK,
       ThreadOK, ListsLock, RemoveLists, Goto, ListsHolders
  <2>3. ListLock'
    BY <1>9, Thr, ThreadsAssumption, SMT DEF IInv, Locks, VarTypes, PcType, LocalTypes,
       CompilerTypes, ThreadsOK, ThreadOK, ListLock, RemoveLists, Goto, ScanPoints
  <2>4. ClientLock'
    BY <1>9, Thr, ThreadsAssumption, SMT DEF IInv, Locks, VarTypes, PcType, LocalTypes,
       MutexTypes, ThreadsOK, ThreadOK, ClientLock, RemoveLists, Goto, ClientHolders,
       DrainPoints, PushPoints, ScanPoints
  <2> QED BY <2>1, <2>2, <2>3, <2>4 DEF Locks
<1>10. ASSUME NEW k \in Conns, RemoveFromMap(k) PROVE Locks'
  BY <1>10, Thr, ThreadsAssumption, SMT DEF IInv, Locks, VarTypes, PcType, LocalTypes,
     CompilerTypes, MutexTypes, ThreadsOK, ThreadOK, MapLock, RemoveFromMap, mutexes,
     Step, Goto, Deleted, MapHolders, ScanPoints, ListsLock, ListsHolders, ListLock,
     compilers, locals, ClientLock, ClientHolders, DrainPoints, PushPoints
<1>11. ASSUME NEW k \in Conns, RemoveLock(k) PROVE Locks'
  BY <1>11, Thr, ThreadsAssumption, SMT DEF IInv, Locks, VarTypes, PcType, LocalTypes,
     CompilerTypes, MutexTypes, ThreadsOK, ThreadOK, MapLock, RemoveLock, Goto,
     CallPush, Frame, MapHolders, ScanPoints, ListsLock, ListsHolders, ListLock,
     compilers, locals, data, ClientLock, ClientHolders, DrainPoints, PushPoints
<1>12. ASSUME NEW k \in Conns, RemoveChecked(k) PROVE Locks'
  BY <1>12, Thr, ThreadsAssumption, SMT DEF IInv, Locks, VarTypes, PcType, LocalTypes,
     CompilerTypes, MutexTypes, ThreadsOK, ThreadOK, MapLock, RemoveChecked, mutexes,
     Step, Goto, MapHolders, ScanPoints, ListsLock, ListsHolders, ListLock, compilers,
     locals, ClientLock, ClientHolders, DrainPoints, PushPoints
<1>13. ASSUME NEW k \in Conns, RemoveQueue(k) PROVE Locks'
  <2>1. MapLock'
    BY <1>13, Thr, ThreadsAssumption, SMT DEF IInv, Locks, VarTypes, PcType, ThreadsOK,
       ThreadOK, MapLock, RemoveQueue, Goto, CallPush, Frame, MapHolders, ScanPoints
  <2>2. ListsLock'
    BY <1>13, Thr, ThreadsAssumption, SMT DEF IInv, Locks, VarTypes, PcType, ThreadsOK,
       ThreadOK, ListsLock, RemoveQueue, Goto, CallPush, Frame, ListsHolders
  <2>3. ListLock'
    BY <1>13, Thr, ThreadsAssumption, SMT DEF IInv, Locks, VarTypes, PcType, LocalTypes,
       CompilerTypes, ThreadsOK, ThreadOK, ListLock, RemoveQueue, compilers, locals,
       Goto, CallPush, Frame, ScanPoints
  <2>4. ClientLock'
    BY <1>13, Thr, ThreadsAssumption, SMT DEF IInv, Locks, VarTypes, PcType, LocalTypes,
       MutexTypes, ThreadsOK, ThreadOK, ClientLock, RemoveQueue, locals, Goto,
       CallPush, Frame, ClientHolders, DrainPoints, PushPoints, ScanPoints
  <2> QED BY <2>1, <2>2, <2>3, <2>4 DEF Locks
<1>14. ASSUME NEW k \in Conns, client_free(k) PROVE Locks'
  BY <1>14, Thr, ThreadsAssumption, SMT DEF IInv, Locks, VarTypes, PcType, LocalTypes,
     CompilerTypes, MutexTypes, ThreadsOK, ThreadOK, MapLock, client_free, mutexes,
     Step, Goto, MapHolders, ScanPoints, ListsLock, ListsHolders, ListLock, compilers,
     ClientLock, ClientHolders, DrainPoints, PushPoints
<1>15. ASSUME NEW k \in Conns, Connect(k) PROVE Locks'
  BY <1>15, Thr, ThreadsAssumption, SMT DEF IInv, Locks, VarTypes, PcType, LocalTypes,
     CompilerTypes, MutexTypes, ThreadsOK, ThreadOK, MapLock, Connect, mutexes, Step,
     Goto, MapHolders, ScanPoints, ListsLock, ListsHolders, ListLock, compilers,
     locals, data, ClientLock, ClientHolders, DrainPoints, PushPoints
<1>16. ASSUME NEW k \in Conns, HandshakeFail(k) PROVE Locks'
  BY <1>16, Thr, ThreadsAssumption, SMT DEF IInv, Locks, VarTypes, PcType, LocalTypes,
     CompilerTypes, MutexTypes, ThreadsOK, ThreadOK, MapLock, HandshakeFail, mutexes,
     Step, Goto, MapHolders, ScanPoints, ListsLock, ListsHolders, ListLock, compilers,
     locals, data, ClientLock, ClientHolders, DrainPoints, PushPoints
<1>17. ASSUME NEW k \in Conns, Register(k) PROVE Locks'
  BY <1>17, Thr, ThreadsAssumption, SMT DEF IInv, Locks, VarTypes, PcType, LocalTypes,
     CompilerTypes, MutexTypes, ThreadsOK, ThreadOK, MapLock, Register, mutexes, Step,
     Goto, MapHolders, ScanPoints, ListsLock, ListsHolders, ListLock, compilers,
     locals, ClientLock, ClientHolders, DrainPoints, PushPoints
<1>18. ASSUME NEW k \in Conns, AnnounceLock(k) PROVE Locks'
  BY <1>18, Thr, ThreadsAssumption, SMT DEF IInv, Locks, VarTypes, PcType, LocalTypes,
     CompilerTypes, MutexTypes, ThreadsOK, ThreadOK, MapLock, AnnounceLock, Step,
     Goto, MapHolders, ScanPoints, ListsLock, ListsHolders, ListLock, compilers, data,
     ClientLock, ClientHolders, DrainPoints, PushPoints
<1>19. ASSUME NEW k \in Conns, Announce(k) PROVE Locks'
  <2>1. MapLock'
    BY <1>19, SMT DEF IInv, Locks, MapLock, Announce, mutexes
  <2>2. ListsLock'
    BY <1>19, SMT DEF IInv, Locks, ListsLock, Announce, mutexes
  <2>3. ListLock'
    BY <1>19, AnnounceListLock
  <2>4. ClientLock'
    BY <1>19, SMT DEF IInv, Locks, ClientLock, Announce, mutexes
  <2> QED BY <2>1, <2>2, <2>3, <2>4 DEF Locks
<1>20. ASSUME NEW k \in Conns, AnnounceDone(k) PROVE Locks'
  BY <1>20, Thr, ThreadsAssumption, SMT DEF IInv, Locks, VarTypes, PcType, LocalTypes,
     CompilerTypes, MutexTypes, ThreadsOK, ThreadOK, MapLock, AnnounceDone, Step,
     Goto, MapHolders, ScanPoints, ListsLock, ListsHolders, ListLock, compilers, data,
     ClientLock, ClientHolders, DrainPoints, PushPoints
<1>21. ASSUME NEW k \in Conns, ProcessSolutions(k) PROVE Locks'
  <2>1. MapLock'
    BY <1>21, Thr, ThreadsAssumption, SMT DEF IInv, Locks, VarTypes, PcType, ThreadsOK,
       ThreadOK, MapLock, ProcessSolutions, mutexes, Goto, Holding, Frame, MapHolders,
       ScanPoints
  <2>2. ListsLock'
    BY <1>21, Thr, ThreadsAssumption, SMT DEF IInv, Locks, VarTypes, PcType, ThreadsOK,
       ThreadOK, ListsLock, ProcessSolutions, mutexes, Goto, Holding, Frame,
       ListsHolders
  <2>3. ListLock'
    BY <1>21, Thr, ThreadsAssumption, SMT DEF IInv, Locks, VarTypes, PcType, LocalTypes,
       CompilerTypes, ThreadsOK, ThreadOK, ListLock, ProcessSolutions, compilers,
       Goto, Holding, Frame, ScanPoints
  <2>4. ClientLock'
    BY <1>21, Thr, ThreadsAssumption, SMT DEF IInv, Locks, VarTypes, PcType, LocalTypes,
       MutexTypes, ThreadsOK, ThreadOK, ClientLock, ProcessSolutions, mutexes, Goto,
       Holding, Frame, ClientHolders, DrainPoints, PushPoints, ScanPoints
  <2> QED BY <2>1, <2>2, <2>3, <2>4 DEF Locks
<1>22. ASSUME NEW k \in Conns, SendSolution(k) PROVE Locks'
  <2>1. MapLock'
    BY <1>22, Thr, ThreadsAssumption, SMT DEF IInv, Locks, VarTypes, PcType, ThreadsOK,
       ThreadOK, MapLock, SendSolution, mutexes, Step, Goto, Holding, Frame,
       MapHolders, ScanPoints
  <2>2. ListsLock'
    BY <1>22, Thr, ThreadsAssumption, SMT DEF IInv, Locks, VarTypes, PcType, ThreadsOK,
       ThreadOK, ListsLock, SendSolution, mutexes, Step, Goto, Holding, Frame,
       ListsHolders
  <2>3. ListLock'
    BY <1>22, Thr, ThreadsAssumption, SMT DEF IInv, Locks, VarTypes, PcType, LocalTypes,
       CompilerTypes, ThreadsOK, ThreadOK, ListLock, SendSolution, compilers, data,
       Step, Goto, Holding, Frame, ScanPoints
  <2>4. ClientLock'
    BY <1>22, Thr, ThreadsAssumption, SMT DEF IInv, Locks, VarTypes, PcType, LocalTypes,
       MutexTypes, ThreadsOK, ThreadOK, ClientLock, SendSolution, mutexes, Step, Goto,
       Holding, Frame, ClientHolders, DrainPoints, PushPoints, ScanPoints
  <2> QED BY <2>1, <2>2, <2>3, <2>4 DEF Locks
<1>23. ASSUME NEW k \in Conns, SendTimeout(k) PROVE Locks'
  <2>1. MapLock'
    BY <1>23, Thr, ThreadsAssumption, SMT DEF IInv, Locks, VarTypes, PcType, ThreadsOK,
       ThreadOK, MapLock, SendTimeout, mutexes, Goto, Holding, Frame, MapHolders,
       ScanPoints
  <2>2. ListsLock'
    BY <1>23, Thr, ThreadsAssumption, SMT DEF IInv, Locks, VarTypes, PcType, ThreadsOK,
       ThreadOK, ListsLock, SendTimeout, mutexes, Goto, Holding, Frame, ListsHolders
  <2>3. ListLock'
    BY <1>23, Thr, ThreadsAssumption, SMT DEF IInv, Locks, VarTypes, PcType, LocalTypes,
       CompilerTypes, ThreadsOK, ThreadOK, ListLock, SendTimeout, compilers, Goto,
       Holding, Frame, ScanPoints
  <2>4. ClientLock'
    BY <1>23, Thr, ThreadsAssumption, SMT DEF IInv, Locks, VarTypes, PcType, LocalTypes,
       MutexTypes, ThreadsOK, ThreadOK, ClientLock, SendTimeout, mutexes, Goto,
       Holding, Frame, ClientHolders, DrainPoints, PushPoints, ScanPoints
  <2> QED BY <2>1, <2>2, <2>3, <2>4 DEF Locks
<1>24. ASSUME NEW k \in Conns, SendReset(k) PROVE Locks'
  BY <1>24, Thr, ThreadsAssumption, SMT DEF IInv, Locks, VarTypes, PcType, LocalTypes,
     CompilerTypes, MutexTypes, ThreadsOK, ThreadOK, MapLock, SendReset, mutexes,
     Step, Goto, Holding, Frame, MapHolders, ScanPoints, ListsLock, ListsHolders,
     ListLock, compilers, data, ClientLock, ClientHolders, DrainPoints, PushPoints
<1>25. ASSUME NEW k \in Conns, RecvResult(k) PROVE Locks'
  BY <1>25, Thr, ThreadsAssumption, SMT DEF IInv, Locks, VarTypes, PcType, LocalTypes,
     CompilerTypes, MutexTypes, ThreadsOK, ThreadOK, MapLock, RecvResult, mutexes,
     Step, Goto, MapHolders, ScanPoints, ListsLock, ListsHolders, ListLock, compilers,
     locals, ClientLock, ClientHolders, DrainPoints, PushPoints
<1>26. ASSUME NEW k \in Conns, ClearChecking(k) PROVE Locks'
  BY <1>26, Thr, ThreadsAssumption, SMT DEF IInv, Locks, VarTypes, PcType, LocalTypes,
     CompilerTypes, MutexTypes, ThreadsOK, ThreadOK, MapLock, ClearChecking, mutexes,
     Step, Goto, MapHolders, ScanPoints, ListsLock, ListsHolders, ListLock, compilers,
     locals, ClientLock, ClientHolders, DrainPoints, PushPoints
<1>27. ASSUME NEW k \in Conns, RecvTimeout(k) PROVE Locks'
  BY <1>27, Thr, ThreadsAssumption, SMT DEF IInv, Locks, VarTypes, PcType, LocalTypes,
     CompilerTypes, MutexTypes, ThreadsOK, ThreadOK, MapLock, RecvTimeout, mutexes,
     Goto, Silence, MapHolders, ScanPoints, ListsLock, ListsHolders, ListLock,
     compilers, locals, ClientLock, ClientHolders, DrainPoints, PushPoints
<1>28. ASSUME NEW k \in Conns, RecvClosed(k) PROVE Locks'
  <2>1. MapLock'
    BY <1>28, Thr, ThreadsAssumption, SMT DEF IInv, Locks, VarTypes, PcType, ThreadsOK,
       ThreadOK, MapLock, RecvClosed, mutexes, Goto, Silence, MapHolders, ScanPoints
  <2>2. ListsLock'
    BY <1>28, Thr, ThreadsAssumption, SMT DEF IInv, Locks, VarTypes, PcType, ThreadsOK,
       ThreadOK, ListsLock, RecvClosed, mutexes, Goto, Silence, ListsHolders
  <2>3. ListLock'
    BY <1>28, Thr, ThreadsAssumption, SMT DEF IInv, Locks, VarTypes, PcType, LocalTypes,
       CompilerTypes, ThreadsOK, ThreadOK, ListLock, RecvClosed, compilers, locals,
       Goto, Silence, ScanPoints
  <2>4. ClientLock'
    BY <1>28, Thr, ThreadsAssumption, SMT DEF IInv, Locks, VarTypes, PcType, LocalTypes,
       MutexTypes, ThreadsOK, ThreadOK, ClientLock, RecvClosed, mutexes, locals, Goto,
       Silence, ClientHolders, DrainPoints, PushPoints, ScanPoints
  <2> QED BY <2>1, <2>2, <2>3, <2>4 DEF Locks
<1>29. ASSUME NEW k \in Conns, RecvReset(k) PROVE Locks'
  BY <1>29, Thr, ThreadsAssumption, SMT DEF IInv, Locks, VarTypes, PcType, LocalTypes,
     CompilerTypes, MutexTypes, ThreadsOK, ThreadOK, MapLock, RecvReset, mutexes,
     Step, Goto, MapHolders, ScanPoints, ListsLock, ListsHolders, ListLock, compilers,
     locals, data, ClientLock, ClientHolders, DrainPoints, PushPoints
<1>30. ASSUME NEW k \in Conns, RecvError(k) PROVE Locks'
  BY <1>30, Thr, ThreadsAssumption, SMT DEF IInv, Locks, VarTypes, PcType, LocalTypes,
     CompilerTypes, MutexTypes, ThreadsOK, ThreadOK, MapLock, RecvError, mutexes,
     Step, Goto, MapHolders, ScanPoints, ListsLock, ListsHolders, ListLock, compilers,
     locals, data, ClientLock, ClientHolders, DrainPoints, PushPoints
<1>31. ASSUME NEW k \in Conns, PeerLost(k) PROVE Locks'
  BY <1>31, SMT DEF IInv, Locks, MapLock, PeerLost, mutexes, ListsLock, ListLock,
     compilers, locals, data, ClientLock
<1>32. ASSUME PollInit PROVE Locks'
  <2>1. MapLock'
    BY <1>32, Thr, ThreadsAssumption, SMT DEF IInv, Locks, VarTypes, PcType, ThreadsOK,
       ThreadOK, MapLock, PollInit, mutexes, Goto, MapHolders, ScanPoints
  <2>2. ListsLock'
    BY <1>32, Thr, ThreadsAssumption, SMT DEF IInv, Locks, VarTypes, PcType, ThreadsOK,
       ThreadOK, ListsLock, PollInit, mutexes, Goto, ListsHolders
  <2>3. ListLock'
    BY <1>32, Thr, ThreadsAssumption, SMT DEF IInv, Locks, VarTypes, PcType, LocalTypes,
       CompilerTypes, ThreadsOK, ThreadOK, ListLock, PollInit, compilers, locals,
       data, Goto, ScanPoints
  <2>4. ClientLock'
    BY <1>32, Thr, ThreadsAssumption, SMT DEF IInv, Locks, VarTypes, PcType, LocalTypes,
       MutexTypes, ThreadsOK, ThreadOK, ClientLock, PollInit, mutexes, locals, Goto,
       ClientHolders, DrainPoints, PushPoints, ScanPoints
  <2> QED BY <2>1, <2>2, <2>3, <2>4 DEF Locks
<1>33. ASSUME PollLoop PROVE Locks'
  BY <1>33, Thr, ThreadsAssumption, SMT DEF IInv, Locks, VarTypes, PcType, LocalTypes,
     CompilerTypes, MutexTypes, ThreadsOK, ThreadOK, MapLock, PollLoop, mutexes, Goto,
     MapHolders, ScanPoints, ListsLock, ListsHolders, ListLock, compilers, locals,
     data, ClientLock, ClientHolders, DrainPoints, PushPoints
<1>34. ASSUME PollExtract PROVE Locks'
  BY <1>34, Thr, ThreadsAssumption, SMT DEF IInv, Locks, VarTypes, PcType, LocalTypes,
     CompilerTypes, MutexTypes, ThreadsOK, ThreadOK, MapLock, PollExtract, mutexes,
     Goto, MapHolders, ScanPoints, ListsLock, ListsHolders, ListLock, compilers,
     locals, ClientLock, ClientHolders, DrainPoints, PushPoints
<1>35. ASSUME PollNext PROVE Locks'
  <2>1. MapLock'
    BY <1>35, Thr, ThreadsAssumption, SMT DEF IInv, Locks, VarTypes, PcType, ThreadsOK,
       ThreadOK, MapLock, PollNext, mutexes, Goto, CallPush, Frame, MapHolders,
       ScanPoints
  <2>2. ListsLock'
    BY <1>35, Thr, ThreadsAssumption, SMT DEF IInv, Locks, VarTypes, PcType, ThreadsOK,
       ThreadOK, ListsLock, PollNext, mutexes, Goto, CallPush, Frame, ListsHolders
  <2>3. ListLock'
    BY <1>35, Thr, ThreadsAssumption, SMT DEF IInv, Locks, VarTypes, PcType, LocalTypes,
       CompilerTypes, ThreadsOK, ThreadOK, ListLock, PollNext, compilers, locals,
       data, Goto, CallPush, Frame, ScanPoints
  <2>4. ClientLock'
    BY <1>35, Thr, ThreadsAssumption, SMT DEF IInv, Locks, VarTypes, PcType, LocalTypes,
       MutexTypes, ThreadsOK, ThreadOK, ClientLock, PollNext, mutexes, locals, Goto,
       CallPush, Frame, ClientHolders, DrainPoints, PushPoints, ScanPoints
  <2> QED BY <2>1, <2>2, <2>3, <2>4 DEF Locks
<1>36. ASSUME Stop PROVE Locks'
  BY <1>36, SMT DEF IInv, Locks, MapLock, Stop, mutexes, ListsLock, ListLock,
     compilers, locals, data, ClientLock
<1>37. ASSUME NEW s \in Solutions, Submit(s) PROVE Locks'
  BY <1>37, SMT DEF IInv, Locks, MapLock, Submit, mutexes, ListsLock, ListLock,
     compilers, locals, ClientLock
<1>38. ASSUME NEW k \in Conns, PeerStray(k) PROVE Locks'
  BY <1>38, SMT DEF IInv, Locks, MapLock, PeerStray, mutexes, ListsLock, ListLock,
     compilers, locals, data, ClientLock
<1>39. ASSUME UNCHANGED vars PROVE Locks'
  BY <1>39 DEF IInv, Locks, MapLock, ListsLock, ListLock, ClientLock, vars, data,
     compilers, mutexes, locals
<1> QED BY <1>1, <1>2, <1>3, <1>4, <1>5, <1>6, <1>7, <1>8, <1>9, <1>10, <1>11, <1>12,
     <1>13, <1>14, <1>15, <1>16, <1>17, <1>18, <1>19, <1>20, <1>21, <1>22, <1>23,
     <1>24, <1>25, <1>26, <1>27, <1>28, <1>29, <1>30, <1>31, <1>32, <1>33, <1>34,
     <1>35, <1>36, <1>37, <1>38, <1>39 DEF Next, poll_database, push_solution,
     client_loop, remove_client
-----------------------------------------------------------------------------
(* The client that leaves clients_map gets the next number: those that wait *)
(* to pass solutions on to it left before.                                  *)
LEMMA RemoveFromMapRemovals ==
  ASSUME IInv, NEW k \in Conns, RemoveFromMap(k)
  PROVE  Removals'
<1> DEFINE v == victim[k]
<1>1. v \in Conns /\ (v \in clients_map \/ removed_at[v] >= 1)
  BY VictimIsClient DEF IInv, Removals, Found, RemoveFromMap, Step, RemovePoints
<1>2. /\ clients_map' = clients_map \ {v} /\ UNCHANGED <<frame, victim>>
      /\ pc[k] = "remove_map" /\ pc' = [pc EXCEPT ![k] = "remove_lock"]
  BY DEF RemoveFromMap, Deleted, Step, Goto, locals
<1>3. \/ /\ v \in clients_map /\ removals' = removals + 1
         /\ removed_at' = [removed_at EXCEPT ![v] = removals + 1]
      \/ v \notin clients_map /\ UNCHANGED <<removals, removed_at>>
  BY DEF RemoveFromMap
<1> HIDE DEF v
<1> USE <1>1, <1>2, <1>3, Thr DEF IInv, Removals, VarTypes, PcType, HistoryTypes, LocalTypes
<1>4. Numbered'
  BY SMT DEF Numbered
<1>5. \A j \in Conns : removed_at[j] >= 1 => removed_at'[j] >= 1 /\ j \notin clients_map
  BY SMT DEF Numbered
<1>6. removed_at'[v] >= 1 /\ v \notin clients_map'
  BY SMT
<1>7. \A j \in Conns : j \in clients_map \/ removed_at[j] >= 1 =>
        j \in clients_map' \/ removed_at'[j] >= 1
  BY <1>5, <1>6
<1>8. \A j \in Conns : j # k => pc'[j] = pc[j]
  OBVIOUS
<1>9. Found'
  BY <1>7, <1>8, VictimIsClient, SMT DEF Found, RemovePoints
<1>10. TakenOut'
  <2> SUFFICES ASSUME NEW j \in Conns, pc'[j] \in {"remove_lock"} \cup ClientHolders
               PROVE  victim[j] \notin clients_map' /\ removed_at'[victim[j]] >= 1
    BY DEF TakenOut
  <2>1. CASE j = k
    BY <1>6, <2>1 DEF v
  <2>2. CASE j # k
    <3>1. pc[j] \in {"remove_lock"} \cup ClientHolders
      BY <1>8, <2>2
    <3>2. victim[j] \in Conns
      BY <3>1, VictimIsClient DEF ClientHolders, RemovePoints, DrainPoints
    <3>3. victim[j] \notin clients_map /\ removed_at[victim[j]] >= 1
      BY <3>1 DEF TakenOut
    <3> QED BY <1>5, <3>2, <3>3
  <2> QED BY <2>1, <2>2
<1>11. PassedOn'
  <2> SUFFICES ASSUME NEW j \in Conns, pc'[j] \in PushPoints, frame[j].best # NoOne
               PROVE  \/ frame[j].best \in clients_map'
                      \/ removed_at'[frame[j].best] > removed_at'[victim[j]]
    BY DEF PassedOn
  <2>1. j # k /\ pc[j] \in PushPoints
    BY <1>8 DEF PushPoints, ScanPoints
  <2>2. victim[j] \in Conns /\ frame[j].best \in Conns
    BY <2>1, VictimIsClient, FrameFields
  <2>3. victim[j] \notin clients_map /\ removed_at[victim[j]] <= removals
    BY <2>1, <2>2 DEF TakenOut, Numbered, ClientHolders
  <2>4. \/ frame[j].best \in clients_map
        \/ removed_at[frame[j].best] > removed_at[victim[j]]
    BY <2>1 DEF PassedOn
  <2>5. removed_at'[victim[j]] = removed_at[victim[j]]
    BY <2>2, <2>3
  <2>6. CASE frame[j].best = v /\ v \in clients_map
    BY <2>2, <2>3, <2>5, <2>6, SMT
  <2>7. CASE ~(frame[j].best = v /\ v \in clients_map)
    BY <2>2, <2>4, <2>5, <2>7, SMT
  <2> QED BY <2>6, <2>7
<1> QED BY <1>4, <1>9, <1>10, <1>11

(* Every step keeps the order in which the clients left.                    *)
LEMMA RemovalsStep == IInv /\ [Next]_vars => Removals'
<1> SUFFICES ASSUME IInv, [Next]_vars PROVE Removals'
  OBVIOUS
<1>1. ASSUME NEW t \in Threads, PushFind(t) PROVE Removals'
  BY <1>1, Thr, ThreadsAssumption, ReturnPoint, SMT DEF IInv, Removals, VarTypes,
     PcType, LocalTypes, RegistryTypes, HistoryTypes, ThreadsOK, ThreadOK, Numbered,
     PushFind, registry, history, Goto, ReturnPush, Holding, Frame, Found, TakenOut,
     DrainPoints, PushPoints, ScanPoints, ClientHolders, PassedOn
<1>2. ASSUME NEW t \in Threads, PushLock(t) PROVE Removals'
  BY <1>2, Thr, ThreadsAssumption, SMT DEF IInv, Removals, VarTypes, PcType, LocalTypes,
     RegistryTypes, HistoryTypes, ThreadsOK, ThreadOK, Numbered, PushLock, registry,
     history, data, world, Step, Goto, Found, TakenOut, locals, ClientHolders,
     DrainPoints, PushPoints, ScanPoints, PassedOn
<1>3. ASSUME NEW t \in Threads, PushListLock(t) PROVE Removals'
  BY <1>3, Thr, ThreadsAssumption, SMT DEF IInv, Removals, VarTypes, PcType, LocalTypes,
     RegistryTypes, HistoryTypes, ThreadsOK, ThreadOK, Numbered, PushListLock,
     registry, history, world, Step, Goto, Found, TakenOut, locals, ClientHolders,
     DrainPoints, PushPoints, ScanPoints, PassedOn
<1>4. ASSUME NEW t \in Threads, PushScan(t) PROVE Removals'
  BY <1>4, Thr, ThreadsAssumption, SMT DEF IInv, Removals, VarTypes, PcType, LocalTypes,
     RegistryTypes, HistoryTypes, ThreadsOK, ThreadOK, Numbered, PushScan, registry,
     history, data, world, Goto, FoundClient, Frame, Found, TakenOut, ClientHolders,
     DrainPoints, PushPoints, ScanPoints, PassedOn
<1>5. ASSUME NEW t \in Threads, PushChosen(t) PROVE Removals'
  BY <1>5, Thr, ThreadsAssumption, ReturnPoint, SMT DEF IInv, Removals, VarTypes,
     PcType, LocalTypes, RegistryTypes, HistoryTypes, ThreadsOK, ThreadOK, Numbered,
     PushChosen, NoClientFound, registry, history, Goto, ReturnPush, Holding, Frame, Found, TakenOut,
     DrainPoints, PushPoints, ScanPoints, locals, ClientHolders, PassedOn
<1>6. ASSUME NEW t \in Threads, PushEnqueue(t) PROVE Removals'
  BY <1>6, Thr, ThreadsAssumption, ReturnPoint, SMT DEF IInv, Removals, VarTypes,
     PcType, LocalTypes, RegistryTypes, HistoryTypes, ThreadsOK, ThreadOK, Numbered,
     PushEnqueue, registry, history, world, Goto, ReturnPush, Holding, Frame, Found,
     TakenOut, DrainPoints, PushPoints, ScanPoints, ClientHolders, PassedOn
<1>7. ASSUME NEW k \in Conns, RemoveFind(k) PROVE Removals'
  BY <1>7, Thr, ThreadsAssumption, SMT DEF IInv, Removals, VarTypes, PcType, LocalTypes,
     RegistryTypes, HistoryTypes, ThreadsOK, ThreadOK, Numbered, RemoveFind, registry,
     history, data, world, Goto, FoundClient, Found, TakenOut, ClientHolders,
     DrainPoints, PushPoints, ScanPoints, PassedOn
<1>8. ASSUME NEW k \in Conns, RemoveLockLists(k) PROVE Removals'
  BY <1>8, Thr, ThreadsAssumption, SMT DEF IInv, Removals, VarTypes, PcType, LocalTypes,
     RegistryTypes, HistoryTypes, ThreadsOK, ThreadOK, Numbered, RemoveLockLists,
     registry, history, data, world, Step, Goto, Found, TakenOut, ClientHolders,
     DrainPoints, PushPoints, ScanPoints, PassedOn
<1>9. ASSUME NEW k \in Conns, RemoveLists(k) PROVE Removals'
  BY <1>9, Thr, ThreadsAssumption, SMT DEF IInv, Removals, VarTypes, PcType, LocalTypes,
     RegistryTypes, HistoryTypes, ThreadsOK, ThreadOK, Numbered, RemoveLists,
     registry, history, world, Goto, Found, TakenOut, ClientHolders, DrainPoints,
     PushPoints, ScanPoints, PassedOn
<1>10. ASSUME NEW k \in Conns, RemoveFromMap(k) PROVE Removals'
  BY <1>10, RemoveFromMapRemovals
<1>11. ASSUME NEW k \in Conns, RemoveLock(k) PROVE Removals'
  BY <1>11, Thr, ThreadsAssumption, SMT DEF IInv, Removals, VarTypes, PcType,
     LocalTypes, RegistryTypes, HistoryTypes, ThreadsOK, ThreadOK, Numbered,
     RemoveLock, registry, history, data, world, Goto, CallPush, Frame, Found,
     TakenOut, locals, ClientHolders, DrainPoints, PushPoints, ScanPoints, PassedOn
<1>12. ASSUME NEW k \in Conns, RemoveChecked(k) PROVE Removals'
  BY <1>12, Thr, ThreadsAssumption, SMT DEF IInv, Removals, VarTypes, PcType,
     LocalTypes, RegistryTypes, HistoryTypes, ThreadsOK, ThreadOK, Numbered,
     RemoveChecked, registry, history, world, Step, Goto, Found, TakenOut, locals,
     ClientHolders, DrainPoints, PushPoints, ScanPoints, PassedOn
<1>13. ASSUME NEW k \in Conns, RemoveQueue(k) PROVE Removals'
  <2>1. Numbered'
    BY <1>13, Thr, ThreadsAssumption, SMT DEF IInv, Removals, VarTypes, PcType,
       RegistryTypes, HistoryTypes, ThreadsOK, ThreadOK, Numbered, RemoveQueue,
       registry, history, world, Goto, CallPush, Frame, Found, TakenOut
  <2>2. Found'
    BY <1>13, Thr, ThreadsAssumption, SMT DEF IInv, Removals, VarTypes, PcType,
       LocalTypes, HistoryTypes, ThreadsOK, ThreadOK, Found, RemoveQueue, registry,
       locals, history, world, Goto, CallPush, Frame, TakenOut, Numbered
  <2>3. TakenOut'
    <3>1. UNCHANGED <<victim, clients_map, removed_at>>
      BY <1>13 DEF RemoveQueue, CallPush, locals, registry, world, history
    <3>2. pc[k] = "remove_queue" /\ \A j \in Conns \ {k} : pc'[j] = pc[j]
      BY <1>13, Thr DEF IInv, VarTypes, PcType, RemoveQueue, CallPush, Goto
    <3> QED BY <3>1, <3>2 DEF IInv, Removals, TakenOut, ClientHolders, DrainPoints
  <2>4. PassedOn'
    <3>1. UNCHANGED <<victim, clients_map, removed_at>>
      BY <1>13 DEF RemoveQueue, CallPush, locals, registry, world, history
    <3>2. \A j \in Conns \ {k} : pc'[j] = pc[j] /\ frame'[j] = frame[j]
      BY <1>13, Thr DEF IInv, VarTypes, PcType, LocalTypes, RemoveQueue, CallPush, Goto,
         locals
    <3>3. pc'[k] \in PushPoints => frame'[k].best = NoOne
      BY <1>13, Thr DEF IInv, VarTypes, PcType, LocalTypes, RemoveQueue, CallPush, Goto,
         Frame, PushPoints, ScanPoints
    <3> QED BY <3>1, <3>2, <3>3 DEF IInv, Removals, PassedOn
  <2> QED BY <2>1, <2>2, <2>3, <2>4 DEF Removals
<1>14. ASSUME NEW k \in Conns, client_free(k) PROVE Removals'
  BY <1>14, Thr, ThreadsAssumption, SMT DEF IInv, Removals, VarTypes, PcType,
     LocalTypes, RegistryTypes, HistoryTypes, ThreadsOK, ThreadOK, Numbered,
     client_free, registry, Step, Goto, Found, TakenOut, ClientHolders, DrainPoints,
     PushPoints, ScanPoints, PassedOn
<1>15. ASSUME NEW k \in Conns, Connect(k) PROVE Removals'
  BY <1>15, Thr, ThreadsAssumption, SMT DEF IInv, Removals, VarTypes, PcType,
     LocalTypes, RegistryTypes, HistoryTypes, ThreadsOK, ThreadOK, Numbered, Connect,
     registry, history, data, Step, Goto, Found, TakenOut, locals, ClientHolders,
     DrainPoints, PushPoints, ScanPoints, PassedOn
<1>16. ASSUME NEW k \in Conns, HandshakeFail(k) PROVE Removals'
  BY <1>16, Thr, ThreadsAssumption, SMT DEF IInv, Removals, VarTypes, PcType,
     LocalTypes, RegistryTypes, HistoryTypes, ThreadsOK, ThreadOK, Numbered,
     HandshakeFail, registry, history, data, Step, Goto, Found, TakenOut, locals,
     ClientHolders, DrainPoints, PushPoints, ScanPoints, PassedOn
<1>17. ASSUME NEW k \in Conns, Register(k) PROVE Removals'
  BY <1>17, Thr, ThreadsAssumption, SMT DEF IInv, Removals, VarTypes, PcType,
     LocalTypes, RegistryTypes, HistoryTypes, ThreadsOK, ThreadOK, Numbered, Register,
     history, world, Step, Goto, Found, TakenOut, locals, ClientHolders, DrainPoints,
     PushPoints, ScanPoints, PassedOn
<1>18. ASSUME NEW k \in Conns, AnnounceLock(k) PROVE Removals'
  BY <1>18, Thr, ThreadsAssumption, SMT DEF IInv, Removals, VarTypes, PcType,
     LocalTypes, RegistryTypes, HistoryTypes, ThreadsOK, ThreadOK, Numbered,
     AnnounceLock, registry, history, data, world, Step, Goto, Found, TakenOut,
     ClientHolders, DrainPoints, PushPoints, ScanPoints, PassedOn
<1>19. ASSUME NEW k \in Conns, Announce(k) PROVE Removals'
  BY <1>19, SMT DEF IInv, Removals, Numbered, Announce, registry, history, world,
     Found, TakenOut, PassedOn
<1>20. ASSUME NEW k \in Conns, AnnounceDone(k) PROVE Removals'
  BY <1>20, Thr, ThreadsAssumption, SMT DEF IInv, Removals, VarTypes, PcType,
     LocalTypes, RegistryTypes, HistoryTypes, ThreadsOK, ThreadOK, Numbered,
     AnnounceDone, registry, history, data, world, Step, Goto, Found, TakenOut,
     ClientHolders, DrainPoints, PushPoints, ScanPoints, PassedOn
<1>21. ASSUME NEW k \in Conns, ProcessSolutions(k) PROVE Removals'
  <2>1. Numbered'
    BY <1>21, Thr, ThreadsAssumption, SMT DEF IInv, Removals, VarTypes, PcType,
       RegistryTypes, HistoryTypes, ThreadsOK, ThreadOK, Numbered, ProcessSolutions,
       registry, history, world, Goto, Holding, Frame, Found, TakenOut
  <2>2. Found'
    BY <1>21, Thr, ThreadsAssumption, SMT DEF IInv, Removals, VarTypes, PcType,
       LocalTypes, HistoryTypes, ThreadsOK, ThreadOK, Found, ProcessSolutions,
       registry, history, world, Goto, Holding, Frame, TakenOut, Numbered
  <2>3. TakenOut'
    BY <1>21, Thr, ThreadsAssumption, SMT DEF IInv, Removals, VarTypes, PcType,
       LocalTypes, HistoryTypes, ThreadsOK, ThreadOK, TakenOut, ProcessSolutions,
       registry, history, world, Goto, Holding, Frame, ClientHolders, DrainPoints,
       PushPoints, ScanPoints, Found, Numbered
  <2>4. PassedOn'
    BY <1>21, Thr, ThreadsAssumption, SMT DEF IInv, Removals, VarTypes, PcType,
       LocalTypes, HistoryTypes, ThreadsOK, ThreadOK, PassedOn, ProcessSolutions,
       registry, history, world, Goto, Holding, Frame, PushPoints, ScanPoints, Found,
       TakenOut, Numbered
  <2> QED BY <2>1, <2>2, <2>3, <2>4 DEF Removals
<1>22. ASSUME NEW k \in Conns, SendSolution(k) PROVE Removals'
  BY <1>22, Thr, ThreadsAssumption, SMT DEF IInv, Removals, VarTypes, PcType,
     LocalTypes, RegistryTypes, HistoryTypes, ThreadsOK, ThreadOK, Numbered,
     SendSolution, registry, data, Step, Goto, Holding, Frame, Found, TakenOut,
     ClientHolders, DrainPoints, PushPoints, ScanPoints, PassedOn
<1>23. ASSUME NEW k \in Conns, SendTimeout(k) PROVE Removals'
  BY <1>23, Thr, ThreadsAssumption, SMT DEF IInv, Removals, VarTypes, PcType,
     LocalTypes, RegistryTypes, HistoryTypes, ThreadsOK, ThreadOK, Numbered,
     SendTimeout, registry, history, Goto, Holding, Frame, Found, TakenOut,
     ClientHolders, DrainPoints, PushPoints, ScanPoints, PassedOn
<1>24. ASSUME NEW k \in Conns, SendReset(k) PROVE Removals'
  BY <1>24, Thr, ThreadsAssumption, SMT DEF IInv, Removals, VarTypes, PcType,
     LocalTypes, RegistryTypes, HistoryTypes, ThreadsOK, ThreadOK, Numbered,
     SendReset, registry, history, data, Step, Goto, Holding, Frame, Found, TakenOut,
     ClientHolders, DrainPoints, PushPoints, ScanPoints, PassedOn
<1>25. ASSUME NEW k \in Conns, RecvResult(k) PROVE Removals'
  BY <1>25, Thr, ThreadsAssumption, SMT DEF IInv, Removals, VarTypes, PcType,
     LocalTypes, RegistryTypes, HistoryTypes, ThreadsOK, ThreadOK, Numbered,
     RecvResult, registry, Step, Goto, Found, TakenOut, locals, ClientHolders,
     DrainPoints, PushPoints, ScanPoints, PassedOn
<1>26. ASSUME NEW k \in Conns, ClearChecking(k) PROVE Removals'
  BY <1>26, Thr, ThreadsAssumption, SMT DEF IInv, Removals, VarTypes, PcType,
     LocalTypes, RegistryTypes, HistoryTypes, ThreadsOK, ThreadOK, Numbered,
     ClearChecking, registry, history, world, Step, Goto, Found, TakenOut, locals,
     ClientHolders, DrainPoints, PushPoints, ScanPoints, PassedOn
<1>27. ASSUME NEW k \in Conns, RecvTimeout(k) PROVE Removals'
  BY <1>27, Thr, ThreadsAssumption, SMT DEF IInv, Removals, VarTypes, PcType,
     LocalTypes, RegistryTypes, HistoryTypes, ThreadsOK, ThreadOK, Numbered,
     RecvTimeout, registry, history, Goto, Silence, Found, TakenOut, locals,
     ClientHolders, DrainPoints, PushPoints, ScanPoints, PassedOn
<1>28. ASSUME NEW k \in Conns, RecvClosed(k) PROVE Removals'
  BY <1>28, Thr, ThreadsAssumption, SMT DEF IInv, Removals, VarTypes, PcType,
     LocalTypes, RegistryTypes, HistoryTypes, ThreadsOK, ThreadOK, Numbered,
     RecvClosed, registry, history, Goto, Silence, Found, TakenOut, locals,
     ClientHolders, DrainPoints, PushPoints, ScanPoints, PassedOn
<1>29. ASSUME NEW k \in Conns, RecvReset(k) PROVE Removals'
  BY <1>29, Thr, ThreadsAssumption, SMT DEF IInv, Removals, VarTypes, PcType,
     LocalTypes, RegistryTypes, HistoryTypes, ThreadsOK, ThreadOK, Numbered,
     RecvReset, registry, history, data, Step, Goto, Found, TakenOut, locals,
     ClientHolders, DrainPoints, PushPoints, ScanPoints, PassedOn
<1>30. ASSUME NEW k \in Conns, RecvError(k) PROVE Removals'
  BY <1>30, Thr, ThreadsAssumption, SMT DEF IInv, Removals, VarTypes, PcType,
     LocalTypes, RegistryTypes, HistoryTypes, ThreadsOK, ThreadOK, Numbered,
     RecvError, registry, history, data, Step, Goto, Found, TakenOut, locals,
     ClientHolders, DrainPoints, PushPoints, ScanPoints, PassedOn
<1>31. ASSUME NEW k \in Conns, PeerLost(k) PROVE Removals'
  BY <1>31, SMT DEF IInv, Removals, Numbered, PeerLost, registry, history, data,
     Found, locals, TakenOut, PassedOn
<1>32. ASSUME PollInit PROVE Removals'
  BY <1>32, Thr, ThreadsAssumption, SMT DEF IInv, Removals, VarTypes, PcType,
     LocalTypes, RegistryTypes, HistoryTypes, ThreadsOK, ThreadOK, Numbered, PollInit,
     registry, history, data, Goto, Found, TakenOut, locals, ClientHolders,
     DrainPoints, PushPoints, ScanPoints, PassedOn
<1>33. ASSUME PollLoop PROVE Removals'
  BY <1>33, Thr, ThreadsAssumption, SMT DEF IInv, Removals, VarTypes, PcType,
     LocalTypes, RegistryTypes, HistoryTypes, ThreadsOK, ThreadOK, Numbered, PollLoop,
     registry, history, data, world, Goto, Found, TakenOut, locals, ClientHolders,
     DrainPoints, PushPoints, ScanPoints, PassedOn
<1>34. ASSUME PollExtract PROVE Removals'
  BY <1>34, Thr, ThreadsAssumption, SMT DEF IInv, Removals, VarTypes, PcType,
     LocalTypes, RegistryTypes, HistoryTypes, ThreadsOK, ThreadOK, Numbered,
     PollExtract, registry, history, Goto, Found, TakenOut, locals, ClientHolders,
     DrainPoints, PushPoints, ScanPoints, PassedOn
<1>35. ASSUME PollNext PROVE Removals'
  <2>1. Numbered'
    BY <1>35, Thr, ThreadsAssumption, SMT DEF IInv, Removals, VarTypes, PcType,
       RegistryTypes, HistoryTypes, ThreadsOK, ThreadOK, Numbered, PollNext, registry,
       history, data, Goto, CallPush, Frame, Found, TakenOut
  <2>2. Found'
    BY <1>35, Thr, ThreadsAssumption, SMT DEF IInv, Removals, VarTypes, PcType,
       LocalTypes, HistoryTypes, ThreadsOK, ThreadOK, Found, PollNext, registry,
       locals, history, data, Goto, CallPush, Frame, TakenOut, Numbered
  <2>3. TakenOut'
    BY <1>35, Thr, ThreadsAssumption, SMT DEF IInv, Removals, VarTypes, PcType,
       LocalTypes, HistoryTypes, ThreadsOK, ThreadOK, TakenOut, PollNext, registry,
       locals, history, data, Goto, CallPush, Frame, ClientHolders, DrainPoints,
       PushPoints, ScanPoints, Found, Numbered
  <2>4. PassedOn'
    BY <1>35, Thr, ThreadsAssumption, SMT DEF IInv, Removals, VarTypes, PcType,
       LocalTypes, HistoryTypes, ThreadsOK, ThreadOK, PassedOn, PollNext, registry,
       locals, history, data, Goto, CallPush, Frame, PushPoints, ScanPoints, Found,
       TakenOut, Numbered
  <2> QED BY <2>1, <2>2, <2>3, <2>4 DEF Removals
<1>36. ASSUME Stop PROVE Removals'
  BY <1>36, SMT DEF IInv, Removals, Numbered, Stop, registry, history, data, Found,
     locals, TakenOut, PassedOn
<1>37. ASSUME NEW s \in Solutions, Submit(s) PROVE Removals'
  BY <1>37, SMT DEF IInv, Removals, Numbered, Submit, registry, history, world, Found,
     locals, TakenOut, PassedOn
<1>38. ASSUME NEW k \in Conns, PeerStray(k) PROVE Removals'
  BY <1>38, SMT DEF IInv, Removals, Numbered, PeerStray, registry, history, data,
     Found, locals, TakenOut, PassedOn
<1>39. ASSUME UNCHANGED vars PROVE Removals'
  BY <1>39 DEF IInv, Removals, Numbered, Found, TakenOut, PassedOn, vars, data,
     registry, locals, history, world
<1> QED BY <1>1, <1>2, <1>3, <1>4, <1>5, <1>6, <1>7, <1>8, <1>9, <1>10, <1>11, <1>12,
     <1>13, <1>14, <1>15, <1>16, <1>17, <1>18, <1>19, <1>20, <1>21, <1>22, <1>23,
     <1>24, <1>25, <1>26, <1>27, <1>28, <1>29, <1>30, <1>31, <1>32, <1>33, <1>34,
     <1>35, <1>36, <1>37, <1>38, <1>39 DEF Next, poll_database, push_solution,
     client_loop, remove_client
-----------------------------------------------------------------------------
(* The initial state.                                                       *)
LEMMA LocksInit == Init => Locks /\ Removals
<1> SUFFICES ASSUME Init PROVE Locks /\ Removals
  OBVIOUS
<1>1. \A t \in Threads : pc[t] = IF t = Poller THEN "init" ELSE "idle"
  BY DEF Init
<1>2. /\ clients_map_mutex = NoOne /\ compilers_map_mutex = NoOne /\ list_mutex = <<>>
      /\ client_mutex = [k \in Conns |-> NoOne]
      /\ clients_map = {} /\ removals = 0 /\ removed_at = [k \in Conns |-> 0]
  BY DEF Init
<1>3. Locks
  BY <1>1, <1>2, ThreadsAssumption DEF Locks, MapLock, ListsLock, ListLock,
     ClientLock,
     MapHolders, ListsHolders, ClientHolders, PushPoints, ScanPoints, DrainPoints
<1>4. Removals
  BY <1>1, <1>2, Thr, ThreadsAssumption, SMT DEF Removals, Numbered, Found, TakenOut,
     PassedOn, ClientHolders, PushPoints, ScanPoints, DrainPoints
<1> QED BY <1>3, <1>4

(* The strengthened invariant holds in every state.                         *)
THEOREM LocksCorrect == Spec => []IInv
<1>1. Init => IInv
  BY TypeInit, LocksInit DEF IInv
<1>2. IInv /\ [Next]_vars => IInv'
  BY TypeStep, ThreadsStep, LocksStep, RemovalsStep DEF IInv
<1> QED BY <1>1, <1>2, PTL DEF Spec

(* The thread that holds clients_map_mutex never waits: the list_mutex it   *)
(* wants next is only ever held together with clients_map_mutex, and the    *)
(* mutexes of the clients it loads belong to threads that took their client *)
(* out of the map before.                                                   *)
LEMMA MapHolderRuns ==
  ASSUME IInv, NEW t \in Threads, pc[t] \in MapHolders, NEW u \in Threads
  PROVE  ~WaitsFor(t, u)
<1> SUFFICES ASSUME WaitsFor(t, u) PROVE FALSE
  OBVIOUS
<1>1. CASE pc[t] = "push_list"
  <2>1. list_mutex[frame[t].comp] = u /\ frame[t].comp \in DOMAIN list_mutex
    BY <1>1 DEF WaitsFor, IInv, VarTypes, CompilerTypes, ThreadsOK, ThreadOK
  <2>2. pc[u] \in ScanPoints
    BY <2>1 DEF IInv, Locks, ListLock
  <2>3. clients_map_mutex = t /\ clients_map_mutex = u
    BY <2>2 DEF IInv, Locks, MapLock, MapHolders
  <2> QED BY <1>1, <2>2, <2>3 DEF ScanPoints
<1>2. CASE pc[t] = "push_scan"
  <2>1. PICK k \in clients_map : client_mutex[k] = u
    BY <1>2 DEF WaitsFor
  <2>2. k \in Conns
    BY DEF IInv, VarTypes, RegistryTypes
  <2>3. u \in Conns /\ pc[u] \in ClientHolders /\ victim[u] = k
    BY <2>1, <2>2 DEF IInv, Locks, ClientLock
  <2> QED BY <2>3 DEF IInv, Removals, TakenOut
<1>3. CASE pc[t] = "push_chosen"
  BY <1>3 DEF WaitsFor
<1> QED BY <1>1, <1>2, <1>3 DEF MapHolders, ScanPoints

(* The thread that holds compilers_map_mutex waits, if at all, for one that *)
(* holds clients_map_mutex.                                                 *)
LEMMA ListsHolderWaits ==
  ASSUME IInv, NEW t \in Threads, pc[t] \in ListsHolders, NEW u \in Threads,
         WaitsFor(t, u)
  PROVE  pc[u] \in MapHolders
<1>1. pc[t] = "remove_lists" /\ pos[t] \in DOMAIN list_mutex /\ list_mutex[pos[t]] = u
  BY DEF WaitsFor, ListsHolders, MoreCompilers, IInv, VarTypes, CompilerTypes
<1> QED BY <1>1 DEF IInv, Locks, ListLock, MapHolders

(* A thread that waits for one that waits itself, for another that waits    *)
(* too, is after the mutex of a client: the holder is a thread that passes  *)
(* on the solutions of that client and has chosen another one.              *)
LEMMA ChainIsDraining ==
  ASSUME IInv, NEW t \in Threads, NEW u \in Threads, NEW w \in Threads, NEW x \in Threads,
         WaitsFor(t, u), WaitsFor(u, w), WaitsFor(w, x)
  PROVE  u \in Conns /\ pc[u] = "push_enqueue"
<1>1. pc[u] \notin MapHolders /\ pc[w] \notin MapHolders
  BY MapHolderRuns
<1>2. pc[u] \notin ListsHolders
  BY <1>1, ListsHolderWaits
<1>3. clients_map_mutex # u /\ compilers_map_mutex # u
  BY <1>1, <1>2 DEF IInv, Locks, MapLock, ListsLock
<1>4. \A i \in DOMAIN list_mutex : list_mutex[i] # u
  BY <1>1 DEF IInv, Locks, ListLock, MapHolders
<1>5. ~(pc[t] = "push_list" /\ list_mutex[frame[t].comp] = u)
  BY <1>4 DEF IInv, VarTypes, CompilerTypes, ThreadsOK, ThreadOK
<1>6. ~(pc[t] = "remove_lists" /\ MoreCompilers(pos[t]) /\ list_mutex[pos[t]] = u)
  BY <1>4 DEF IInv, VarTypes, CompilerTypes, MoreCompilers
<1>7. \E k \in Conns : client_mutex[k] = u
  <2>1. pc[t] = "push_enqueue" => frame[t].best \in Conns
    BY DEF IInv, ThreadsOK, ThreadOK
  <2>2. pc[t] \in {"loop", "clear", "remove_lock"} => t \in Conns
    BY DEF IInv, ThreadsOK, ThreadOK, Threads, PollPoints, PushPoints, ScanPoints
  <2>3. pc[t] = "remove_lock" => victim[t] \in Conns
    BY <2>2, VictimIsClient DEF IInv, RemovePoints
  <2>4. clients_map \subseteq Conns
    BY DEF IInv, VarTypes, RegistryTypes
  <2> QED BY <1>3, <1>5, <1>6, <2>1, <2>2, <2>3, <2>4, Zenon DEF WaitsFor
<1>8. u \in Conns /\ pc[u] \in ClientHolders
  BY <1>7 DEF IInv, Locks, ClientLock
<1>9. pc[u] # "push_lock"
  <2>1. ASSUME pc[u] = "push_lock" PROVE FALSE
    <3>1. clients_map_mutex = w
      BY <2>1 DEF WaitsFor
    <3> QED BY <1>1, <3>1 DEF IInv, Locks, MapLock
  <2> QED BY <2>1
<1>10. pc[u] \notin {"push_find", "remove_checked", "remove_queue"}
  BY DEF WaitsFor
<1> QED BY <1>1, <1>8, <1>9, <1>10 DEF ClientHolders, DrainPoints, PushPoints,
           ScanPoints,
       MapHolders

(* Of two such threads, the one that is waited for removes a client that    *)
(* left clients_map later.                                                  *)
LEMMA LaterVictim ==
  ASSUME IInv, NEW u \in Conns, NEW w \in Conns, pc[u] = "push_enqueue", WaitsFor(u, w)
  PROVE  removed_at[victim[w]] > removed_at[victim[u]]
<1>1. frame[u].best \in Conns /\ client_mutex[frame[u].best] = w
  BY Thr DEF WaitsFor, IInv, ThreadsOK, ThreadOK
<1>2. pc[w] \in ClientHolders /\ victim[w] = frame[u].best
  BY <1>1, Thr DEF IInv, Locks, ClientLock
<1>3. frame[u].best # NoOne /\ frame[u].best \notin clients_map
  BY <1>1, <1>2, Thr, ThreadsAssumption DEF IInv, Removals, TakenOut
<1> QED BY <1>2, <1>3 DEF IInv, Removals, PassedOn, PushPoints

(* A nonempty set of numbers below a bound has a greatest one.              *)
LEMMA Greatest ==
  ASSUME NEW n \in Nat, NEW S \in SUBSET (0..n), S # {}
  PROVE  \E m \in S : \A r \in S : r <= m
<1> DEFINE D == {n - r : r \in S}
<1>0. \A r \in S : r \in Nat /\ n - r \in Nat
  BY SMT
<1>1. D \subseteq Nat /\ D # {}
  BY <1>0
<1>2. PICK d \in D : \A e \in D : ~(<<e, d>> \in OpToRel(<, Nat))
  BY <1>1, NatLessThanWellFounded, WFMin
<1>3. \A e \in D : d <= e
  <2> TAKE e \in D
  <2>1. d \in Nat /\ e \in Nat
    BY <1>1
  <2>2. SUFFICES ASSUME e < d PROVE FALSE
    BY <2>1, SMT
  <2>3. <<e, d>> \in OpToRel(<, Nat)
    BY <2>1, <2>2, Zenon DEF OpToRel
  <2> QED BY <1>2, <2>3
<1>4. PICK m \in S : d = n - m
  BY <1>2
<1>5. \A r \in S : r <= m
  BY <1>3, <1>4, SMT
<1> QED BY <1>5

(* push_solution and remove_client never bring threads to wait for each     *)
(* other in a circle, whatever the number of checkers and however their     *)
(* ids collide: not through clients_map_mutex, compilers_map_mutex, a       *)
(* list_mutex or the clients' mutexes (server.c:367-407, 422-458).          *)
THEOREM DeadlockFree == Spec => []NoDeadlock
<1>1. IInv => NoDeadlock
  <2> SUFFICES ASSUME IInv, NEW T \in SUBSET Threads, T # {},
                      \A t \in T : \E u \in T : WaitsFor(t, u)
               PROVE  FALSE
    <3> DEFINE blocked == {t \in Threads : \E u \in Threads : WaitsFor(t, u)}
    <3>1. ASSUME \A T \in (SUBSET blocked) \ {{}} : \E t \in T : \A u \in T : ~WaitsFor(t, u)
          PROVE  NoDeadlock
      BY <3>1 DEF NoDeadlock
    <3>2. \A T \in (SUBSET blocked) \ {{}} : T \in SUBSET Threads /\ T # {}
      OBVIOUS
    <3> QED BY <3>1, <3>2
  <2>1. \A t \in T : \E u \in T : WaitsFor(t, u) /\ u \in Conns /\ pc[u] = "push_enqueue"
    <3> TAKE t \in T
    <3>1. PICK u \in T : WaitsFor(t, u)
      OBVIOUS
    <3>2. PICK w \in T : WaitsFor(u, w)
      BY <3>1
    <3>3. PICK x \in T : WaitsFor(w, x)
      BY <3>2
    <3>4. u \in Conns /\ pc[u] = "push_enqueue"
      BY <3>1, <3>2, <3>3, ChainIsDraining
    <3> QED BY <3>1, <3>4
  <2> DEFINE U == {u \in T : u \in Conns /\ pc[u] = "push_enqueue"}
             S == {removed_at[victim[u]] : u \in U}
  <2>2. U # {}
    BY <2>1
  <2>3. \A u \in U : \E w \in U : removed_at[victim[w]] > removed_at[victim[u]]
    BY <2>1, LaterVictim
  <2>4. S \in SUBSET (0..removals) /\ S # {} /\ removals \in Nat
    <3>1. \A u \in U : victim[u] \in Conns
      BY VictimIsClient DEF IInv, PushPoints
    <3>2. \A k \in Conns : removed_at[k] \in 0..removals
      BY SMT DEF IInv, VarTypes, HistoryTypes, Removals, Numbered
    <3> QED BY <2>2, <3>1, <3>2 DEF IInv, VarTypes, HistoryTypes
  <2>5. PICK m \in S : \A r \in S : r <= m
    BY <2>4, Greatest
  <2>6. PICK u \in U : m = removed_at[victim[u]]
    BY <2>5
  <2>7. PICK w \in U : removed_at[victim[w]] > m
    BY <2>3, <2>6
  <2>8. removed_at[victim[w]] <= m
    BY <2>5, <2>7
  <2>9. m \in Nat /\ removed_at[victim[w]] \in Nat
    BY <2>4, <2>5, <2>7
  <2> QED BY <2>7, <2>8, <2>9
<1> QED BY <1>1, LocksCorrect, PTL
=============================================================================
