-------------------------- MODULE JudgeServerSafety --------------------------
(***************************************************************************)
(* Three invariants of JudgeServer, for every number of clients, solutions *)
(* and compilers, and for every number of rows that a poll finds.          *)
(*                                                                         *)
(* The registries.  The two registries agree, however often last_client_id *)
(* hands out an id in use.  A removal deletes the records of its id from   *)
(* the lists, and then one client with that id from clients_map, which     *)
(* need not be its own.  So what holds is a matter of numbers: at any time *)
(* there are at least as many clients with an id in the map as there are   *)
(* threads with it that have registered and not removed a client yet.  The *)
(* invariant says this with a one-to-one function from these threads to    *)
(* the map.                                                                *)
(*                                                                         *)
(* The verdicts.  While ids are not shared, checkers answer what they were *)
(* sent and no array was freed that a thread still uses, no verdict is     *)
(* changed.  A verdict is posted for the solution that somebody points to; *)
(* that it comes once is because every pointer that will be followed is    *)
(* the only one to its solution.  The invariant says where each solution   *)
(* is, with a function "at" from the solutions to the places that can hold *)
(* a pointer.                                                              *)
(*                                                                         *)
(* The arrays.  solution_free on the first solution of a poll takes back   *)
(* the whole array of this poll.  The pointer to it is the only one, and   *)
(* the invariant says where it is with a function "own" from the blocks to *)
(* the same places; this needs no condition on answers or on arrays freed  *)
(* before.  The pointers to the other solutions of the array are no owners *)
(* of anything, and do dangle: the run batch_freed shows how.              *)
(***************************************************************************)
EXTENDS JudgeServerThreads

(* From the registration to the removal from the map.                       *)
LivePoints ==
  {"announce_lock", "announce", "remove_find", "remove_lock_lists", "remove_lists",
   "remove_map"} \cup ServePoints
Unregistered == {"idle", "handshake"}

(* The removal that t is in, if any, has not come to list i yet.            *)
NotCleared(t, i) ==
  /\ pc[t] # "remove_map"
  /\ pc[t] = "remove_lists" => pos[t] <= i

(* D: the threads that have registered and not removed a client from the    *)
(* map, of which some have ended with the server.                           *)
Backs(D, f) ==
  /\ \A t \in D : f[t] \in clients_map /\ client_id[f[t]] = client_id[t]
  /\ \A t, u \in D : f[t] = f[u] => t = u
  /\ \A t \in Conns : pc[t] \in LivePoints => t \in D
  /\ \A t \in D : pc[t] \in LivePoints \cup {"gone"}
  /\ \A i \in DOMAIN clients_list : \A id \in clients_list[i] :
       \E t \in D : client_id[t] = id /\ NotCleared(t, i)
Backed == \E D \in SUBSET Conns : \E f \in [D -> Conns] : Backs(D, f)

InMap == \A k \in clients_map : pc[k] \notin Unregistered
SameId == \A k \in Conns :
  pc[k] \in {"remove_lock_lists", "remove_lists", "remove_map"} =>
    pc[victim[k]] \notin Unregistered /\ client_id[victim[k]] = client_id[k]
LoopPos == \A k \in Conns : pc[k] \in {"announce", "remove_lists"} => pos[k] >= 1

(* Another client had the id of k.                                          *)
Shared(k) == \E j \in Conns \ {k} : pc[j] \notin Unregistered /\ client_id[j] = client_id[k]
Announced == \A k \in Conns : \A i \in DOMAIN Announces[k] :
  (pc[k] = "announce" /\ i < pos[k]) \/ pc[k] \in ServePoints =>
    Listed(k, Announces[k][i]) \/ Shared(k)

RInv == Backed /\ InMap /\ SameId /\ LoopPos /\ Announced
Inv == VarTypes /\ ThreadsOK /\ RInv
-----------------------------------------------------------------------------
(* A step of t that leaves both registries alone.                           *)
Quiet(t) ==
  /\ UNCHANGED <<clients_map, client_id, compilers_map, clients_list>>
  /\ \A u \in Threads \ {t} : pc'[u] = pc[u]
  /\ \A u \in Conns \ {t} : pos'[u] = pos[u] /\ victim'[u] = victim[u]

(* ... outside the time between registration and removal ...                *)
Outside(t) ==
  /\ pc[t] \notin LivePoints \cup {"gone"} /\ pc'[t] \notin LivePoints
  /\ pc'[t] \in Unregistered => pc[t] \in Unregistered

(* ... or inside it, up to the loop over the lists.                         *)
Inside(t) ==
  /\ pc[t] \in LivePoints \ {"remove_lists", "remove_map"}
  /\ pc'[t] \in (LivePoints \ {"remove_map"}) \cup {"gone"}
  /\ pc'[t] \in ServePoints => pc[t] \in ServePoints
  /\ pc'[t] \in {"announce", "remove_lists"} => pos'[t] = 1
  /\ pc'[t] \in {"remove_lock_lists", "remove_lists"} =>
       /\ victim'[t] \in Conns /\ pc[victim'[t]] \notin Unregistered
       /\ client_id[victim'[t]] = client_id[t]

LEMMA LivePointsAre ==
  /\ LivePoints \cap Unregistered = {} /\ "gone" \notin Unregistered \cup LivePoints
  /\ ServePoints \subseteq LivePoints
  /\ {"remove_find", "remove_lock_lists", "remove_lists", "remove_map", "announce",
      "announce_lock"} \subseteq LivePoints \ ServePoints
BY DEF LivePoints, Unregistered, ServePoints

LEMMA QuietStep ==
  ASSUME Inv, NEW t \in Threads, Quiet(t),
         \/ Outside(t)
         \/ t \in Conns /\ Inside(t)
         \/ pc'[t] = pc[t] /\ (t \in Conns => pos'[t] = pos[t] /\ victim'[t] = victim[t])
  PROVE  RInv'
<1> USE Thr, LivePointsAre DEF Quiet
<1>1. Backed'
  <2>1. PICK D \in SUBSET Conns : \E f \in [D -> Conns] : Backs(D, f)
    BY DEF Inv, RInv, Backed
  <2>2. PICK f \in [D -> Conns] : Backs(D, f)
    BY <2>1
  <2>3. \A u \in Conns : pc'[u] \in LivePoints => u \in D
    BY <2>2 DEF Backs, Outside, Inside
  <2>4. \A u \in D : pc'[u] \in LivePoints \cup {"gone"}
    BY <2>2 DEF Backs, Outside, Inside
  <2>5. \A u \in D : \A i \in DOMAIN clients_list : NotCleared(u, i) => NotCleared(u, i)'
    <3> SUFFICES ASSUME NEW u \in D, NEW i \in DOMAIN clients_list, NotCleared(u, i)
                 PROVE  NotCleared(u, i)'
      OBVIOUS
    <3>1. i >= 1
      BY DEF Inv, VarTypes, CompilerTypes
    <3>2. CASE u # t
      BY <3>2 DEF NotCleared
    <3>3. CASE u = t
      <4>1. pc[t] \in LivePoints \cup {"gone"}
        BY <2>2, <3>3 DEF Backs
      <4> QED BY <3>1, <3>3, <4>1 DEF NotCleared, Outside, Inside
    <3> QED BY <3>2, <3>3
  <2>6. Backs(D, f)'
    BY <2>2, <2>3, <2>4, <2>5 DEF Backs
  <2> QED BY <2>6 DEF Backed
<1>2. \A u \in Threads : pc[u] \notin Unregistered => pc'[u] \notin Unregistered
  BY DEF Outside, Inside
<1>3. InMap'
  BY <1>2 DEF Inv, RInv, InMap, VarTypes, RegistryTypes
<1>4. SameId'
  <2> SUFFICES ASSUME NEW k \in Conns,
                      pc'[k] \in {"remove_lock_lists", "remove_lists", "remove_map"}
               PROVE  pc'[victim'[k]] \notin Unregistered /\ client_id[victim'[k]] = client_id[k]
    BY DEF SameId
  <2>1. pc[victim'[k]] \notin Unregistered /\ client_id[victim'[k]] = client_id[k]
    BY DEF Inv, RInv, SameId, Outside, Inside
  <2>2. victim'[k] \in Conns
    <3>1. CASE k = t /\ Inside(t)
      BY <3>1 DEF Inside
    <3>2. CASE pc'[k] = pc[k] /\ victim'[k] = victim[k]
      BY <3>2 DEF Inv, ThreadsOK, ThreadOK, RemovePoints
    <3>3. CASE k = t /\ Outside(t)
      BY <3>3 DEF Outside
    <3> QED BY <3>1, <3>2, <3>3
  <2> QED BY <1>2, <2>1, <2>2
<1>5. LoopPos'
  BY DEF Inv, RInv, LoopPos, Outside, Inside
<1>6. Announced'
  <2> SUFFICES ASSUME NEW k \in Conns, NEW i \in DOMAIN Announces[k],
                      (pc'[k] = "announce" /\ i < pos'[k]) \/ pc'[k] \in ServePoints
               PROVE  Listed(k, Announces[k][i])' \/ Shared(k)'
    BY DEF Announced
  <2>1. i \in Nat \ {0}
    BY ColumnsAssumption
  <2>2. (pc[k] = "announce" /\ i < pos[k]) \/ pc[k] \in ServePoints
    BY <2>1 DEF Outside, Inside
  <2>3. Listed(k, Announces[k][i]) \/ Shared(k)
    BY <2>2 DEF Inv, RInv, Announced
  <2> QED BY <1>2, <2>3 DEF Listed, Shared
<1> QED BY <1>1, <1>3, <1>4, <1>5, <1>6 DEF RInv

(* client_create and HASH_ADD: k backs itself.                              *)
LEMMA RegisterStep ==
  ASSUME Inv, NEW k \in Conns, Register(k)
  PROVE  RInv'
<1> USE Thr, LivePointsAre
<1>1. /\ pc[k] = "handshake" /\ pc' = [pc EXCEPT ![k] = "announce_lock"]
      /\ client_id' = [client_id EXCEPT ![k] = last_client_id]
      /\ clients_map' = clients_map \cup {k}
      /\ UNCHANGED <<compilers_map, clients_list, pos, victim>>
      /\ pc \in [Threads -> Points] /\ client_id \in [Conns -> Int] /\ clients_map \subseteq Conns
  BY DEF Register, Step, Goto, compilers, locals, Inv, VarTypes, PcType, RegistryTypes
<1>2. /\ pc'[k] = "announce_lock" /\ \A u \in Threads \ {k} : pc'[u] = pc[u]
      /\ client_id'[k] = last_client_id /\ \A u \in Conns \ {k} : client_id'[u] = client_id[u]
      /\ k \notin clients_map /\ pc[k] \in Unregistered
  BY <1>1 DEF Inv, RInv, InMap, Unregistered
<1>3. Backed'
  <2>1. PICK D \in SUBSET Conns : \E f \in [D -> Conns] : Backs(D, f)
    BY DEF Inv, RInv, Backed
  <2>2. PICK f \in [D -> Conns] : Backs(D, f)
    BY <2>1
  <2> DEFINE E == D \cup {k}
             g == [u \in E |-> IF u = k THEN k ELSE f[u]]
  <2>3. k \notin D /\ \A u \in D : f[u] # k
    BY <1>2, <2>2 DEF Backs
  <2>4. E \in SUBSET Conns /\ g \in [E -> Conns] /\ g[k] = k /\ \A u \in D : g[u] = f[u]
    BY <2>2, <2>3
  <2> HIDE DEF g
  <2>5. \A u \in E : g[u] \in clients_map' /\ client_id'[g[u]] = client_id'[u]
    BY <1>1, <1>2, <2>2, <2>3, <2>4 DEF Backs
  <2>6. \A u, v \in E : g[u] = g[v] => u = v
    BY <2>2, <2>3, <2>4 DEF Backs
  <2>7. \A u \in Conns : pc'[u] \in LivePoints => u \in E
    BY <1>2, <2>2 DEF Backs
  <2>8. \A u \in E : pc'[u] \in LivePoints \cup {"gone"}
    BY <1>2, <2>2, <2>3 DEF Backs
  <2>9. \A i \in DOMAIN clients_list' : \A id \in clients_list'[i] :
          \E u \in E : client_id'[u] = id /\ NotCleared(u, i)'
    BY <1>1, <1>2, <2>2, <2>3 DEF Backs, NotCleared
  <2>10. Backs(E, g)'
    BY <2>5, <2>6, <2>7, <2>8, <2>9 DEF Backs
  <2> QED BY <2>4, <2>10 DEF Backed
<1>4. InMap'
  BY <1>1, <1>2 DEF Inv, RInv, InMap
<1>5. SameId'
  <2> SUFFICES ASSUME NEW u \in Conns,
                      pc'[u] \in {"remove_lock_lists", "remove_lists", "remove_map"}
               PROVE  pc'[victim'[u]] \notin Unregistered /\ client_id'[victim'[u]] = client_id'[u]
    BY DEF SameId
  <2>1. u # k /\ pc[u] = pc'[u] /\ victim'[u] = victim[u]
    BY <1>1, <1>2
  <2>2. victim[u] \in Conns /\ pc[victim[u]] \notin Unregistered /\ client_id[victim[u]] = client_id[u]
    BY <2>1 DEF Inv, RInv, SameId, ThreadsOK, ThreadOK, RemovePoints
  <2> QED BY <1>2, <2>1, <2>2
<1>6. LoopPos'
  BY <1>1, <1>2 DEF Inv, RInv, LoopPos
<1>7. Announced'
  <2> SUFFICES ASSUME NEW u \in Conns, NEW i \in DOMAIN Announces[u],
                      (pc'[u] = "announce" /\ i < pos'[u]) \/ pc'[u] \in ServePoints
               PROVE  Listed(u, Announces[u][i])' \/ Shared(u)'
    BY DEF Announced
  <2>1. u # k /\ ((pc[u] = "announce" /\ i < pos[u]) \/ pc[u] \in ServePoints)
    BY <1>1, <1>2
  <2>2. Listed(u, Announces[u][i]) \/ Shared(u)
    BY <2>1 DEF Inv, RInv, Announced
  <2>3. CASE Listed(u, Announces[u][i])
    BY <1>1, <1>2, <2>1, <2>3 DEF Listed
  <2>4. CASE Shared(u)
    BY <1>2, <2>1, <2>4 DEF Shared
  <2> QED BY <2>2, <2>3, <2>4
<1> QED BY <1>3, <1>4, <1>5, <1>6, <1>7 DEF RInv

(* HASH_DEL(clients_map, victim): whoever relied on the victim takes over   *)
(* the client that backed the removing thread.                              *)
LEMMA RemoveFromMapStep ==
  ASSUME Inv, NEW k \in Conns, RemoveFromMap(k)
  PROVE  RInv'
<1> USE Thr, LivePointsAre
<1>1. /\ pc[k] = "remove_map" /\ pc' = [pc EXCEPT ![k] = "remove_lock"]
      /\ clients_map' = clients_map \ {victim[k]}
      /\ UNCHANGED <<client_id, compilers_map, clients_list, pos, victim>>
      /\ pc \in [Threads -> Points]
  BY DEF RemoveFromMap, Step, Goto, Deleted, compilers, locals, Inv, VarTypes, PcType
<1>2. /\ pc'[k] = "remove_lock" /\ \A u \in Threads \ {k} : pc'[u] = pc[u]
      /\ "remove_lock" \notin LivePoints \cup Unregistered \cup ServePoints
      /\ client_id[victim[k]] = client_id[k]
  BY <1>1 DEF Inv, RInv, SameId, LivePoints, ServePoints, Unregistered
<1>3. Backed'
  <2>1. PICK D \in SUBSET Conns : \E f \in [D -> Conns] : Backs(D, f)
    BY DEF Inv, RInv, Backed
  <2>2. PICK f \in [D -> Conns] : Backs(D, f)
    BY <2>1
  <2>3. k \in D
    BY <1>1, <2>2 DEF Backs
  <2>4. PICK v : v = victim[k]
    OBVIOUS
  <2> DEFINE E == D \ {k}
             g == [u \in E |-> IF f[u] = v THEN f[k] ELSE f[u]]
  <2>5. E \in SUBSET Conns /\ g \in [E -> Conns]
        /\ \A u \in E : g[u] = IF f[u] = v THEN f[k] ELSE f[u]
    BY <2>2, <2>3
  <2> HIDE DEF g
  <2>6. \A u \in E : g[u] \in clients_map' /\ client_id'[g[u]] = client_id'[u]
    BY <1>1, <1>2, <2>2, <2>3, <2>4, <2>5 DEF Backs
  <2>7. \A u, w \in E : g[u] = g[w] => u = w
    BY <2>2, <2>3, <2>5 DEF Backs
  <2>8. \A u \in Conns : pc'[u] \in LivePoints => u \in E
    BY <1>2, <2>2 DEF Backs
  <2>9. \A u \in E : pc'[u] \in LivePoints \cup {"gone"}
    BY <1>2, <2>2 DEF Backs
  <2>10. \A i \in DOMAIN clients_list' : \A id \in clients_list'[i] :
          \E u \in E : client_id'[u] = id /\ NotCleared(u, i)'
    BY <1>1, <1>2, <2>2 DEF Backs, NotCleared
  <2>11. Backs(E, g)'
    BY <2>6, <2>7, <2>8, <2>9, <2>10 DEF Backs
  <2> QED BY <2>5, <2>11 DEF Backed
<1>4. \A u \in Threads : pc[u] \notin Unregistered => pc'[u] \notin Unregistered
  BY <1>2
<1>5. InMap'
  BY <1>1, <1>4 DEF Inv, RInv, InMap, VarTypes, RegistryTypes
<1>6. SameId'
  <2> SUFFICES ASSUME NEW u \in Conns,
                      pc'[u] \in {"remove_lock_lists", "remove_lists", "remove_map"}
               PROVE  pc'[victim'[u]] \notin Unregistered /\ client_id'[victim'[u]] = client_id'[u]
    BY DEF SameId
  <2>1. u # k /\ pc[u] = pc'[u]
    BY <1>2
  <2>2. victim[u] \in Conns /\ pc[victim[u]] \notin Unregistered /\ client_id[victim[u]] = client_id[u]
    BY <2>1 DEF Inv, RInv, SameId, ThreadsOK, ThreadOK, RemovePoints
  <2> QED BY <1>1, <1>4, <2>2
<1>7. LoopPos'
  BY <1>1, <1>2 DEF Inv, RInv, LoopPos
<1>8. Announced'
  BY <1>1, <1>2, <1>4 DEF Inv, RInv, Announced, Listed, Shared
<1> QED BY <1>3, <1>5, <1>6, <1>7, <1>8 DEF RInv

(* clients_list is added to: k itself stands for its id.                    *)
LEMMA AnnounceStep ==
  ASSUME Inv, NEW k \in Conns, Announce(k)
  PROVE  RInv'
<1> USE Thr, LivePointsAre
<1>1. /\ pc[k] = "announce" /\ UNCHANGED <<pc, clients_map, client_id, victim>>
      /\ pos' = [pos EXCEPT ![k] = @ + 1] /\ pos \in [Conns -> Nat]
      /\ pos[k] \in DOMAIN Announces[k]
      /\ compilers_map \in Seq([id : Nat, pad : Nat]) /\ clients_list \in Seq(SUBSET Int)
      /\ Len(clients_list) = Len(compilers_map)
      /\ client_id[k] \in Int
  BY DEF Announce, MoreAnnounced, registry, Inv, VarTypes, LocalTypes, CompilerTypes, RegistryTypes
<1>p. PICK p : p = pos[k]
  OBVIOUS
<1>2. /\ DOMAIN compilers_map \subseteq DOMAIN compilers_map'
      /\ \A i \in DOMAIN compilers_map : /\ compilers_map'[i] = compilers_map[i]
                                         /\ clients_list[i] \subseteq clients_list'[i]
      /\ \A i \in DOMAIN clients_list' : \A id \in clients_list'[i] :
           id = client_id[k] \/ (i \in DOMAIN clients_list /\ id \in clients_list[i])
      /\ Listed(k, Announces[k][p])'
  <2> DEFINE c == Announces[k][p]
  <2>0. c \in Nat
    <3>1. Announces[k] \in Seq(Nat)
      BY ColumnsAssumption
    <3>2. p \in 1..Len(Announces[k])
      BY <1>1, <1>p, <3>1, LenProperties
    <3> QED BY <3>1, <3>2, ElementOfSeq
  <2>1. CASE \E stack \in Pads : \E i \in DOMAIN compilers_map :
               /\ FoundCompiler(i, c, stack)
               /\ clients_list' = [clients_list EXCEPT ![i] = @ \cup {client_id[k]}]
               /\ UNCHANGED <<compilers_map, list_mutex>>
    <3>1. PICK i \in DOMAIN compilers_map :
               /\ compilers_map[i].id = c
               /\ clients_list' = [clients_list EXCEPT ![i] = @ \cup {client_id[k]}]
               /\ UNCHANGED compilers_map
      BY <2>1 DEF FoundCompiler
    <3>2. DOMAIN clients_list = DOMAIN compilers_map
      BY <1>1
    <3> QED BY <1>1, <3>1, <3>2 DEF Listed
  <2>2. CASE \E stack \in Pads : \E padding \in Pads :
               /\ compilers_map' = Append(compilers_map, [id |-> c, pad |-> padding])
               /\ clients_list' = Append(clients_list, {client_id[k]})
    <3>1. PICK padding \in Nat :
               /\ compilers_map' = Append(compilers_map, [id |-> c, pad |-> padding])
               /\ clients_list' = Append(clients_list, {client_id[k]})
      BY <2>2, PadsAssumption
    <3>2. /\ DOMAIN clients_list = 1..Len(compilers_map) /\ DOMAIN compilers_map = 1..Len(compilers_map)
          /\ DOMAIN clients_list' = 1..(Len(compilers_map) + 1)
          /\ DOMAIN compilers_map' = 1..(Len(compilers_map) + 1)
          /\ Len(compilers_map) \in Nat
      BY <1>1, <2>0, <3>1
    <3>3. /\ \A i \in 1..Len(compilers_map) :
               compilers_map'[i] = compilers_map[i] /\ clients_list'[i] = clients_list[i]
          /\ compilers_map'[Len(compilers_map) + 1].id = c
          /\ clients_list'[Len(compilers_map) + 1] = {client_id[k]}
      BY <1>1, <2>0, <3>1
    <3>4. Listed(k, Announces[k][p])'
      <4>1. PICK n \in Nat : n = Len(compilers_map) + 1
        BY <3>2
      <4>2. n \in DOMAIN compilers_map' /\ compilers_map'[n].id = c /\ client_id'[k] \in clients_list'[n]
        BY <1>1, <3>2, <3>3, <4>1
      <4> QED BY <4>2 DEF Listed
    <3>5. \A i \in DOMAIN clients_list' : i = Len(compilers_map) + 1 \/ i \in DOMAIN clients_list
      BY <3>2
    <3>6. \A i \in DOMAIN clients_list' : \A id \in clients_list'[i] :
            id = client_id[k] \/ (i \in DOMAIN clients_list /\ id \in clients_list[i])
      BY <3>2, <3>3, <3>5
    <3>7. DOMAIN compilers_map \subseteq DOMAIN compilers_map'
      BY <3>2
    <3> QED BY <3>2, <3>3, <3>4, <3>6, <3>7
  <2> QED BY <1>p, <2>1, <2>2 DEF Announce
<1>3. Backed'
  <2>1. PICK D \in SUBSET Conns : \E f \in [D -> Conns] : Backs(D, f)
    BY DEF Inv, RInv, Backed
  <2>2. PICK f \in [D -> Conns] : Backs(D, f)
    BY <2>1
  <2>3. k \in D
    BY <1>1, <2>2 DEF Backs
  <2>4. \A u \in Conns : \A i : NotCleared(u, i)' <=> NotCleared(u, i)
    BY <1>1 DEF NotCleared
  <2>5. \A i : NotCleared(k, i)
    BY <1>1 DEF NotCleared
  <2>6. \A i \in DOMAIN clients_list' : \A id \in clients_list'[i] :
          \E u \in D : client_id'[u] = id /\ NotCleared(u, i)'
    BY <1>1, <1>2, <2>2, <2>3, <2>4, <2>5 DEF Backs
  <2>7. Backs(D, f)'
    BY <1>1, <2>2, <2>6 DEF Backs
  <2> QED BY <2>7 DEF Backed
<1>4. InMap' /\ SameId' /\ LoopPos'
  BY <1>1 DEF Inv, RInv, InMap, SameId, LoopPos
<1>5. Announced'
  <2> SUFFICES ASSUME NEW u \in Conns, NEW i \in DOMAIN Announces[u],
                      (pc[u] = "announce" /\ i < pos'[u]) \/ pc[u] \in ServePoints
               PROVE  Listed(u, Announces[u][i])' \/ Shared(u)'
    BY <1>1 DEF Announced
  <2>1. i \in Nat
    BY ColumnsAssumption
  <2>2. \/ (pc[u] = "announce" /\ i < pos[u]) \/ pc[u] \in ServePoints
        \/ u = k /\ i = p
    BY <1>1, <1>p, <2>1
  <2>3. CASE u = k /\ i = p
    BY <1>2, <2>3
  <2>4. CASE (pc[u] = "announce" /\ i < pos[u]) \/ pc[u] \in ServePoints
    <3>1. Listed(u, Announces[u][i]) \/ Shared(u)
      BY <2>4 DEF Inv, RInv, Announced
    <3> QED BY <1>1, <1>2, <3>1 DEF Listed, Shared
  <2> QED BY <2>2, <2>3, <2>4
<1> QED BY <1>3, <1>4, <1>5 DEF RInv

(* All is announced.                                                        *)
LEMMA AnnounceDoneStep ==
  ASSUME Inv, NEW k \in Conns, AnnounceDone(k)
  PROVE  RInv'
<1> USE Thr, LivePointsAre
<1>1. /\ pc[k] = "announce" /\ pc' = [pc EXCEPT ![k] = "loop"]
      /\ pos' = [pos EXCEPT ![k] = 0] /\ pos \in [Conns -> Nat] /\ pc \in [Threads -> Points]
      /\ UNCHANGED <<clients_map, client_id, compilers_map, clients_list, victim>>
      /\ pos[k] \notin DOMAIN Announces[k] /\ pos[k] >= 1
  BY DEF AnnounceDone, Step, Goto, MoreAnnounced, data, registry, compilers, Inv, RInv, LoopPos,
       VarTypes, LocalTypes, PcType
<1>2. /\ pc'[k] = "loop" /\ "loop" \in LivePoints \ {"announce", "remove_lists", "remove_map"}
      /\ \A u \in Threads \ {k} : pc'[u] = pc[u]
      /\ \A u \in Conns \ {k} : pos'[u] = pos[u]
  BY <1>1 DEF LivePoints, ServePoints
<1>3. Backed'
  <2>1. PICK D \in SUBSET Conns : \E f \in [D -> Conns] : Backs(D, f)
    BY DEF Inv, RInv, Backed
  <2>2. PICK f \in [D -> Conns] : Backs(D, f)
    BY <2>1
  <2>3. \A u \in Conns : \A i : NotCleared(u, i) => NotCleared(u, i)'
    BY <1>1, <1>2 DEF NotCleared
  <2>4. Backs(D, f)'
    BY <1>1, <1>2, <2>2, <2>3 DEF Backs
  <2> QED BY <2>4 DEF Backed
<1>4. \A u \in Threads : pc[u] \notin Unregistered => pc'[u] \notin Unregistered
  BY <1>2
<1>5. InMap'
  BY <1>1, <1>4 DEF Inv, RInv, InMap, VarTypes, RegistryTypes
<1>6. SameId'
  <2> SUFFICES ASSUME NEW u \in Conns,
                      pc'[u] \in {"remove_lock_lists", "remove_lists", "remove_map"}
               PROVE  pc'[victim'[u]] \notin Unregistered /\ client_id'[victim'[u]] = client_id'[u]
    BY DEF SameId
  <2>1. u # k /\ pc[u] = pc'[u]
    BY <1>2
  <2>2. victim[u] \in Conns /\ pc[victim[u]] \notin Unregistered /\ client_id[victim[u]] = client_id[u]
    BY <2>1 DEF Inv, RInv, SameId, ThreadsOK, ThreadOK, RemovePoints
  <2> QED BY <1>1, <1>4, <2>2
<1>7. LoopPos'
  BY <1>1, <1>2 DEF Inv, RInv, LoopPos
<1>8. Announced'
  <2> SUFFICES ASSUME NEW u \in Conns, NEW i \in DOMAIN Announces[u],
                      (pc'[u] = "announce" /\ i < pos'[u]) \/ pc'[u] \in ServePoints
               PROVE  Listed(u, Announces[u][i])' \/ Shared(u)'
    BY DEF Announced
  <2>1. u = k => i < pos[k]
    <3>1. Announces[k] \in Seq(Nat) /\ DOMAIN Announces[k] = 1..Len(Announces[k])
          /\ Len(Announces[k]) \in Nat /\ pos[k] \in Nat
      BY <1>1, ColumnsAssumption, LenProperties
    <3> QED BY <1>1, <3>1
  <2>2. (pc[u] = "announce" /\ i < pos[u]) \/ pc[u] \in ServePoints
    BY <1>1, <1>2, <2>1
  <2>3. Listed(u, Announces[u][i]) \/ Shared(u)
    BY <2>2 DEF Inv, RInv, Announced
  <2> QED BY <1>1, <1>4, <2>3 DEF Listed, Shared
<1> QED BY <1>3, <1>5, <1>6, <1>7, <1>8 DEF RInv

(* One round of the loop over the lists, and its end.                       *)
LEMMA RemoveListsStep ==
  ASSUME Inv, NEW k \in Conns, RemoveLists(k)
  PROVE  RInv'
<1> USE Thr, LivePointsAre
<1>1. /\ pc[k] = "remove_lists" /\ pos[k] \in Nat /\ pos[k] >= 1
      /\ UNCHANGED <<clients_map, client_id, compilers_map, victim>>
      /\ compilers_map \in Seq([id : Nat, pad : Nat]) /\ clients_list \in Seq(SUBSET Int)
      /\ Len(clients_list) = Len(compilers_map)
      /\ pos \in [Conns -> Nat] /\ pc \in [Threads -> Points]
  BY DEF RemoveLists, registry, Inv, RInv, LoopPos, VarTypes, LocalTypes, PcType, CompilerTypes
<1>2. /\ DOMAIN clients_list = 1..Len(clients_list) /\ DOMAIN compilers_map = 1..Len(clients_list)
      /\ Len(clients_list) \in Nat
  BY <1>1
<1>3. /\ pc'[k] \in {"remove_lists", "remove_map"}
      /\ \A u \in Threads \ {k} : pc'[u] = pc[u]
      /\ \A u \in Conns \ {k} : pos'[u] = pos[u]
      /\ pc'[k] = "remove_lists" => pos'[k] = pos[k] + 1
      /\ pc'[k] = "remove_map" => pos[k] > Len(clients_list)
      /\ DOMAIN clients_list' = DOMAIN clients_list
      /\ \A i \in DOMAIN clients_list :
           clients_list'[i] = IF i = pos[k] THEN clients_list[i] \ {client_id[k]} ELSE clients_list[i]
  <2>1. CASE /\ MoreCompilers(pos[k])
             /\ clients_list' = [clients_list EXCEPT ![pos[k]] = @ \ {client_id[k]}]
             /\ pos' = [pos EXCEPT ![k] = @ + 1]
             /\ UNCHANGED pc
    BY <1>1, <1>2, <2>1
  <2>2. CASE /\ ~MoreCompilers(pos[k])
             /\ pos' = [pos EXCEPT ![k] = 0]
             /\ Goto(k, "remove_map")
             /\ UNCHANGED clients_list
    BY <1>1, <1>2, <2>2 DEF MoreCompilers, Goto
  <2> QED BY <2>1, <2>2 DEF RemoveLists
<1>4. Backed'
  <2>1. PICK D \in SUBSET Conns : \E f \in [D -> Conns] : Backs(D, f)
    BY DEF Inv, RInv, Backed
  <2>2. PICK f \in [D -> Conns] : Backs(D, f)
    BY <2>1
  <2>3. \A i \in DOMAIN clients_list' : \A id \in clients_list'[i] :
          \E u \in D : client_id'[u] = id /\ NotCleared(u, i)'
    <3> SUFFICES ASSUME NEW i \in DOMAIN clients_list, NEW id \in clients_list'[i]
                 PROVE  \E u \in D : client_id[u] = id /\ NotCleared(u, i)'
      BY <1>1, <1>3
    <3>1. id \in clients_list[i] /\ (i = pos[k] => id # client_id[k])
      BY <1>3
    <3>2. PICK u \in D : client_id[u] = id /\ NotCleared(u, i)
      BY <2>2, <3>1 DEF Backs
    <3>3. CASE u # k
      BY <1>3, <3>2, <3>3 DEF NotCleared
    <3>4. CASE u = k
      <4>1. /\ pos[k] <= i /\ i # pos[k] /\ i <= Len(clients_list)
            /\ i \in Nat /\ pos[k] \in Nat /\ Len(clients_list) \in Nat
        BY <1>1, <1>2, <3>1, <3>2, <3>4 DEF NotCleared
      <4>2. pc'[k] = "remove_lists" /\ pos'[k] <= i
        <5>1. pc'[k] # "remove_map"
          BY <1>3, <4>1
        <5>2. pos'[k] = pos[k] + 1 /\ pc'[k] = "remove_lists"
          BY <1>3, <5>1
        <5> QED BY <4>1, <5>2
      <4> QED BY <3>2, <3>4, <4>2 DEF NotCleared
    <3> QED BY <3>3, <3>4
  <2>4. \A u \in Conns : pc'[u] \in LivePoints => u \in D
    BY <1>1, <1>3, <2>2 DEF Backs
  <2>5. \A u \in D : pc'[u] \in LivePoints \cup {"gone"}
    BY <1>3, <2>2 DEF Backs
  <2>6. \A u \in D : f[u] \in clients_map' /\ client_id'[f[u]] = client_id'[u]
    BY <1>1, <2>2 DEF Backs
  <2>7. \A u, v \in D : f[u] = f[v] => u = v
    BY <2>2 DEF Backs
  <2>8. Backs(D, f)'
    BY <2>3, <2>4, <2>5, <2>6, <2>7 DEF Backs
  <2> QED BY <2>8 DEF Backed
<1>5. \A u \in Threads : pc[u] \notin Unregistered => pc'[u] \notin Unregistered
  BY <1>3
<1>6. InMap'
  BY <1>1, <1>5 DEF Inv, RInv, InMap, VarTypes, RegistryTypes
<1>7. SameId'
  <2> SUFFICES ASSUME NEW u \in Conns,
                      pc'[u] \in {"remove_lock_lists", "remove_lists", "remove_map"}
               PROVE  pc'[victim'[u]] \notin Unregistered /\ client_id'[victim'[u]] = client_id'[u]
    BY DEF SameId
  <2>1. pc[u] \in {"remove_lock_lists", "remove_lists", "remove_map"}
    BY <1>1, <1>3
  <2>2. victim[u] \in Conns /\ pc[victim[u]] \notin Unregistered /\ client_id[victim[u]] = client_id[u]
    BY <2>1 DEF Inv, RInv, SameId, ThreadsOK, ThreadOK, RemovePoints
  <2> QED BY <1>1, <1>5, <2>2
<1>8. LoopPos'
  BY <1>1, <1>3 DEF Inv, RInv, LoopPos
<1>9. Announced'
  <2> SUFFICES ASSUME NEW u \in Conns, NEW i \in DOMAIN Announces[u],
                      (pc'[u] = "announce" /\ i < pos'[u]) \/ pc'[u] \in ServePoints
               PROVE  Listed(u, Announces[u][i])' \/ Shared(u)'
    BY DEF Announced
  <2>1. u # k /\ ((pc[u] = "announce" /\ i < pos[u]) \/ pc[u] \in ServePoints)
    BY <1>3
  <2>2. Listed(u, Announces[u][i]) \/ Shared(u)
    BY <2>1 DEF Inv, RInv, Announced
  <2>3. CASE Shared(u)
    BY <1>1, <1>5, <2>3 DEF Shared
  <2>4. CASE Listed(u, Announces[u][i]) /\ client_id[u] # client_id[k]
    BY <1>1, <1>2, <1>3, <2>4 DEF Listed
  <2>5. CASE client_id[u] = client_id[k]
    BY <1>1, <1>5, <2>1, <2>5 DEF Shared
  <2> QED BY <2>2, <2>3, <2>4, <2>5
<1> QED BY <1>4, <1>6, <1>7, <1>8, <1>9 DEF RInv
-----------------------------------------------------------------------------
(* push_solution moves its own thread, inside or back to its caller.        *)
LEMMA PushMoves ==
  ASSUME VarTypes, ThreadsOK, NEW t \in Threads, push_solution(t)
  PROVE  /\ pc[t] \in PushPoints /\ pc'[t] \in PushPoints \cup DrainPoints \cup {"poll_next"}
         /\ \A u \in Threads \ {t} : pc'[u] = pc[u]
         /\ UNCHANGED <<clients_map, client_id, compilers_map, clients_list, pos, victim>>
<1>1. pc \in [Threads -> Points] /\ pos \in [Conns -> Nat]
  BY DEF VarTypes, PcType, LocalTypes
<1>2. pc[t] \in PushPoints
  BY DEF push_solution, PushFind, PushLock, PushListLock, PushScan, PushChosen, PushEnqueue, Step,
       PushPoints, ScanPoints
<1>3. pc'[t] \in PushPoints \cup DrainPoints \cup {"poll_next"}
      /\ \A u \in Threads \ {t} : pc'[u] = pc[u]
  <2>1. frame[t].ret \in DrainPoints \cup {"poll_next"}
    BY <1>2, ReturnPoint DEF DrainPoints
  <2>2. CASE PushFind(t) \/ PushChosen(t) \/ PushEnqueue(t)
    BY <1>1, <2>1, <2>2 DEF PushFind, PushChosen, PushEnqueue, ReturnPush, Goto, PushPoints
  <2>3. CASE PushLock(t) \/ PushListLock(t)
    BY <1>1, <2>3 DEF PushLock, PushListLock, Step, Goto, PushPoints, ScanPoints
  <2>4. CASE PushScan(t)
    BY <1>1, <2>4 DEF PushScan, Goto, PushPoints, ScanPoints
  <2> QED BY <2>2, <2>3, <2>4 DEF push_solution
<1>4. UNCHANGED <<clients_map, client_id, compilers_map, clients_list, pos, victim>>
  BY DEF push_solution, PushFind, PushLock, PushListLock, PushScan, PushChosen, PushEnqueue,
       ReturnPush, data, registry, compilers, locals
<1> QED BY <1>2, <1>3, <1>4

(* A thread that serves its client goes on with it, removes it or ends.     *)
ServeStep(k) ==
  \/ ProcessSolutions(k) \/ SendSolution(k) \/ SendTimeout(k) \/ SendReset(k)
  \/ RecvResult(k) \/ ClearChecking(k)
  \/ RecvTimeout(k) \/ RecvClosed(k) \/ RecvReset(k) \/ RecvError(k)

LEMMA ServeMoves ==
  ASSUME VarTypes, NEW k \in Conns, ServeStep(k)
  PROVE  /\ pc[k] \in ServePoints /\ pc'[k] \in ServePoints \cup {"remove_find", "gone"}
         /\ \A u \in Threads \ {k} : pc'[u] = pc[u]
         /\ UNCHANGED <<clients_map, client_id, compilers_map, clients_list, pos, victim>>
<1> USE Thr DEF Goto, Step
<1>1. pc \in [Threads -> Points]
  BY DEF VarTypes, PcType
<1>2. pc[k] \in ServePoints /\ pc'[k] \in ServePoints \cup {"remove_find", "gone"}
      /\ \A u \in Threads \ {k} : pc'[u] = pc[u]
  BY <1>1 DEF ServeStep, ProcessSolutions, SendSolution, SendTimeout, SendReset, RecvResult,
       ClearChecking, RecvTimeout, RecvClosed, RecvReset, RecvError, Silence, ServePoints
<1>3. UNCHANGED <<clients_map, client_id, compilers_map, clients_list, pos, victim>>
  BY DEF ServeStep, ProcessSolutions, SendSolution, SendTimeout, SendReset, RecvResult,
       ClearChecking, RecvTimeout, RecvClosed, RecvReset, RecvError, data, registry, compilers,
       locals
<1> QED BY <1>2, <1>3

(* push_solution runs in the poller, and in a removal only after the client *)
(* has left the map.                                                        *)
LEMMA PushStep ==
  ASSUME Inv, NEW t \in Threads, push_solution(t)
  PROVE  RInv'
<1>1. Quiet(t) /\ Outside(t)
  BY PushMoves DEF Inv, Quiet, Outside, PushPoints, ScanPoints, DrainPoints, LivePoints,
       ServePoints, Unregistered
<1> QED BY <1>1, QuietStep

LEMMA RemoveStep ==
  ASSUME Inv, NEW k \in Conns, remove_client(k)
  PROVE  RInv'
<1> USE Thr DEF Goto, Step
<1>1. pc \in [Threads -> Points] /\ pos \in [Conns -> Nat] /\ victim \in [Conns -> Conns \cup {NoOne}]
  BY DEF Inv, VarTypes, PcType, LocalTypes
<1>2. CASE RemoveFind(k)
  <2>1. Quiet(k)
    BY <1>1, <1>2 DEF RemoveFind, Quiet, data, registry, compilers
  <2>2. CASE pc' = [pc EXCEPT ![k] = "gone"] /\ pc[k] = "remove_find"
    <3>1. Inside(k)
      BY <1>1, <2>2 DEF Inside, LivePoints, ServePoints
    <3> QED BY <2>1, <3>1, QuietStep
  <2>3. CASE \E v \in Conns : /\ FoundClient(v, client_id[k]) /\ pc[k] = "remove_find"
                              /\ victim' = [victim EXCEPT ![k] = v]
                              /\ pc' = [pc EXCEPT ![k] = "remove_lock_lists"]
    <3>1. PICK v \in Conns : /\ FoundClient(v, client_id[k]) /\ pc[k] = "remove_find"
                             /\ victim' = [victim EXCEPT ![k] = v]
                             /\ pc' = [pc EXCEPT ![k] = "remove_lock_lists"]
      BY <2>3
    <3>2. v \in Conns /\ pc[v] \notin Unregistered /\ client_id[v] = client_id[k]
      BY <3>1 DEF FoundClient, Inv, RInv, InMap
    <3>3. Inside(k)
      BY <1>1, <3>1, <3>2 DEF Inside, LivePoints, ServePoints
    <3> QED BY <2>1, <3>3, QuietStep
  <2> QED BY <1>2, <2>2, <2>3 DEF RemoveFind
<1>3. CASE RemoveLockLists(k)
  <2>1. Quiet(k)
    BY <1>1, <1>3 DEF RemoveLockLists, Quiet, data, registry, compilers
  <2>2. /\ pc[k] = "remove_lock_lists" /\ pc'[k] = "remove_lists" /\ pos'[k] = 1
        /\ victim'[k] = victim[k] /\ victim[k] \in Conns
    BY <1>1, <1>3 DEF RemoveLockLists, Inv, ThreadsOK, ThreadOK, RemovePoints
  <2>3. Inside(k)
    BY <2>2 DEF Inside, LivePoints, ServePoints, Inv, RInv, SameId
  <2> QED BY <2>1, <2>3, QuietStep
<1>4. CASE RemoveLists(k)
  BY <1>4, RemoveListsStep
<1>5. CASE RemoveFromMap(k)
  BY <1>5, RemoveFromMapStep
<1>6. CASE RemoveLock(k) \/ RemoveChecked(k) \/ RemoveQueue(k) \/ client_free(k)
  <2>1. pc[k] \in {"remove_lock", "remove_checked", "remove_queue", "remove_free"}
        /\ pc'[k] \in {"push_find", "remove_queue", "remove_free", "gone"}
        /\ \A u \in Threads \ {k} : pc'[u] = pc[u]
    BY <1>1, <1>6 DEF RemoveLock, RemoveChecked, RemoveQueue, client_free, CallPush
  <2>2. Quiet(k)
    BY <1>1, <1>6, <2>1 DEF RemoveLock, RemoveChecked, RemoveQueue, client_free, CallPush, Quiet,
         data, registry, compilers, locals
  <2>3. Outside(k)
    BY <2>1 DEF Outside, LivePoints, ServePoints, Unregistered
  <2> QED BY <2>2, <2>3, QuietStep
<1> QED BY <1>2, <1>3, <1>4, <1>5, <1>6 DEF remove_client

LEMMA ClientStep ==
  ASSUME Inv, NEW k \in Conns, Connect(k) \/ client_loop(k)
  PROVE  RInv'
<1> USE Thr DEF Goto, Step
<1>1. pc \in [Threads -> Points] /\ pos \in [Conns -> Nat]
  BY DEF Inv, VarTypes, PcType, LocalTypes
<1>2. CASE Connect(k) \/ HandshakeFail(k)
  <2>1. pc[k] \in Unregistered /\ pc'[k] \in {"handshake", "gone"}
        /\ \A u \in Threads \ {k} : pc'[u] = pc[u]
    BY <1>1, <1>2 DEF Connect, HandshakeFail, Unregistered
  <2>2. Quiet(k)
    BY <1>2, <2>1 DEF Connect, HandshakeFail, Quiet, data, registry, compilers, locals
  <2>3. Outside(k)
    BY <2>1 DEF Outside, LivePoints, ServePoints, Unregistered
  <2> QED BY <2>2, <2>3, QuietStep
<1>3. CASE Register(k)
  BY <1>3, RegisterStep
<1>4. CASE AnnounceLock(k)
  <2>1. Quiet(k)
    BY <1>1, <1>4 DEF AnnounceLock, Quiet, data, registry, compilers
  <2>2. pc[k] = "announce_lock" /\ pc'[k] = "announce" /\ pos'[k] = 1
    BY <1>1, <1>4 DEF AnnounceLock
  <2>3. Inside(k)
    BY <2>2 DEF Inside, LivePoints, ServePoints
  <2> QED BY <2>1, <2>3, QuietStep
<1>5. CASE Announce(k)
  BY <1>5, AnnounceStep
<1>6. CASE AnnounceDone(k)
  BY <1>6, AnnounceDoneStep
<1>7. CASE ServeStep(k)
  <2>1. Quiet(k) /\ Inside(k)
    BY <1>7, ServeMoves DEF Inv, Quiet, Inside, LivePoints, ServePoints
  <2> QED BY <2>1, QuietStep
<1> QED BY <1>2, <1>3, <1>4, <1>5, <1>6, <1>7 DEF client_loop, ServeStep

LEMMA RegistryStep == Inv /\ [Next]_vars => RInv'
<1> SUFFICES ASSUME Inv, [Next]_vars PROVE RInv'
  OBVIOUS
<1>1. CASE poll_database
  <2>1. pc[Poller] \in PollPoints /\ pc'[Poller] \in PollPoints \cup {"push_find"}
        /\ \A u \in Threads \ {Poller} : pc'[u] = pc[u]
    BY <1>1, Thr DEF poll_database, PollInit, PollLoop, PollExtract, PollNext, CallPush, Goto,
         PollPoints, Inv, VarTypes, PcType
  <2>2. Quiet(Poller)
    BY <1>1, <2>1 DEF poll_database, PollInit, PollLoop, PollExtract, PollNext, CallPush, Quiet,
         data, registry, compilers, locals
  <2>3. Outside(Poller)
    BY <2>1 DEF Outside, PollPoints, LivePoints, ServePoints, Unregistered
  <2> QED BY <2>2, <2>3, Thr, QuietStep
<1>2. CASE Stop \/ (\E s \in Solutions : Submit(s)) \/ (\E k \in Conns : PeerLost(k) \/ PeerStray(k)) \/ UNCHANGED vars
  <2>1. UNCHANGED <<clients_map, client_id, compilers_map, clients_list, pc, pos, victim>>
    BY <1>2 DEF Stop, Submit, PeerLost, PeerStray, data, registry, compilers, locals, vars
  <2>2. Quiet(Poller)
    BY <2>1 DEF Quiet
  <2> QED BY <2>1, <2>2, Thr, QuietStep
<1> QED BY <1>1, <1>2, PushStep, ClientStep, RemoveStep DEF Next

LEMMA RegistryInit == Init => RInv
<1> SUFFICES ASSUME Init PROVE RInv
  OBVIOUS
<1>1. Backed
  <2>1. [t \in {} |-> t] \in [{} -> Conns]
    OBVIOUS
  <2>2. Backs({}, [t \in {} |-> t])
    BY Thr, ThreadsAssumption DEF Init, Backs, LivePoints, ServePoints
  <2> QED BY <2>1, <2>2 DEF Backed
<1>2. InMap /\ SameId /\ LoopPos /\ Announced
  BY Thr, ThreadsAssumption DEF Init, InMap, SameId, LoopPos, Announced, ServePoints
<1> QED BY <1>1, <1>2 DEF RInv

LEMMA RegistryCorrect == Spec => []Inv
<1>1. Init => Inv
  BY TypeInit, RegistryInit DEF Inv
<1>2. Inv /\ [Next]_vars => Inv'
  BY TypeStep, ThreadsStep, RegistryStep DEF Inv
<1> QED BY <1>1, <1>2, PTL DEF Spec

(* push_solution never meets an id in a clients_list that has no client,    *)
(* the case server.c:379 logs as "INCONSISTENCY", for any number of clients *)
(* and compilers: the threads that have not cleared a list yet are backed   *)
(* by as many clients in the map.                                           *)
THEOREM NeverInconsistent == Spec => []NoInconsistency
<1>1. Inv => NoInconsistency
  BY DEF Inv, RInv, Backed, Backs, NoInconsistency, NoClient
<1> QED BY <1>1, RegistryCorrect, PTL

(* A client that is served and has its id for itself is in both registries, *)
(* whatever the removals of other clients delete (server.c:420-442): the    *)
(* client that backs it has its id, so it is itself.                        *)
THEOREM ServedIsListed == Spec => []ServingIsListed
<1>1. Inv => ServingIsListed
  <2> SUFFICES ASSUME Inv, NEW k \in Conns, Serving(k), SoleOwner(k)
               PROVE  k \in clients_map /\ \A i \in DOMAIN Announces[k] : Listed(k, Announces[k][i])
    BY DEF ServingIsListed
  <2>1. k \in clients_map
    BY LivePointsAre DEF Inv, RInv, Backed, Backs, Serving, SoleOwner
  <2>2. ~Shared(k)
    BY DEF SoleOwner, Shared
  <2> QED BY <2>1, <2>2 DEF Inv, RInv, Announced, Serving
<1> QED BY <1>1, RegistryCorrect, PTL
-----------------------------------------------------------------------------
(* The solutions.                                                           *)

(* Where a solution is, and whose it is there.                              *)
Spots == {"none", "batch", "push", "queue", "client"} \X Threads

(* The solution that p points to, in heap h.                                *)
Sln(h, p) == h[p[1]][p[2]]

(* p points into an array that is not freed, and at says that the solution  *)
(* there is at the given spot.                                              *)
At(h, a, at, p, spot) ==
  /\ p \in Pointers /\ p[1] \in a /\ p[2] \in DOMAIN h[p[1]]
  /\ at[Sln(h, p)] = spot

(* What a row may hold while its solution is there.                         *)
RowFits(spot, r) ==
  /\ spot[1] \in {"batch", "push", "queue"} => r = 1
  /\ spot[1] = "client" => r \in {1, 2}

BatchHeld(at) ==
  /\ \A i \in DOMAIN batch : At(heap, allocated, at, batch[i], <<"batch", Poller>>)
  /\ \A i, j \in DOMAIN batch : Sln(heap, batch[i]) = Sln(heap, batch[j]) => i = j
PushHeld(at, t) ==
  pc[t] \in PushPoints => At(heap, allocated, at, frame[t].sln, <<"push", t>>)
QueueHeld(at, k) == \A i \in DOMAIN solutions_queue[k] :
  At(heap, allocated, at, solutions_queue[k][i], <<"queue", k>>)
CheckingHeld(at, k) ==
  pc[k] \notin PushPoints \cup {"remove_checked"} /\ checking_solution[k] # Null =>
    /\ At(heap, allocated, at, checking_solution[k], <<"client", k>>)
    /\ pc[k] # "clear" => row[Sln(heap, checking_solution[k])] = 1
SentHeld(at, k) ==
  pc[k] \in ServePoints => \A s \in outstanding[k] : at[s] = <<"client", k>> /\ row[s] = 1
RowsFit(at) == \A s \in Solutions : RowFits(at[s], row[s])
ClientHeld(at, k) == QueueHeld(at, k) /\ CheckingHeld(at, k) /\ SentHeld(at, k)

(* Every pointer that is followed is the only one to its solution ...       *)
Held(at) ==
  /\ BatchHeld(at) /\ RowsFit(at)
  /\ \A t \in Threads : PushHeld(at, t)
  /\ \A k \in Conns : ClientHeld(at, k)

(* ... but for the copies in the locals of the thread that has it.          *)
CopiesOK(k) ==
  /\ pc[k] = "send" => checking_solution[k] # Null /\ frame[k].sln = checking_solution[k]
  /\ pc[k] \in PushPoints /\ frame[k].ret = "remove_checked" =>
       frame[k].sln = checking_solution[k]
  /\ pc[k] \in PushPoints /\ frame[k].ret = "remove_queue" => checking_solution[k] = Null
  /\ pc[k] \in {"remove_queue", "remove_free"} => checking_solution[k] = Null
  /\ pc[k] \in {"idle", "handshake", "announce_lock", "announce"} => outstanding[k] = {}
QueueDistinct(k) == \A i, j \in DOMAIN solutions_queue[k] :
  Sln(heap, solutions_queue[k][i]) = Sln(heap, solutions_queue[k][j]) => i = j
Copies == \A k \in Conns : CopiesOK(k) /\ QueueDistinct(k)

(* Every thread works on its own client.                                    *)
OwnIds ==
  /\ \A j, k \in clients_map : client_id[j] = client_id[k] => j = k
  /\ \A k \in Conns : pc[k] \in LivePoints => k \in clients_map
  /\ \A k \in Conns :
       pc[k] \in PushPoints \cup (RemovePoints \ {"remove_find"}) => victim[k] = k

-----------------------------------------------------------------------------
LEMMA AtIs ==
  ASSUME NEW h \in [Blocks -> Seq(Solutions)], NEW a \in SUBSET Blocks,
         NEW at, NEW p, NEW spot, At(h, a, at, p, spot)
  PROVE  p[1] \in Blocks /\ p \in Pointers /\ p # Null /\ Sln(h, p) \in Solutions
<1>1. p[1] \in Blocks /\ h[p[1]] \in Seq(Solutions) /\ p[2] \in DOMAIN h[p[1]]
  BY DEF At
<1>2. Sln(h, p) \in Solutions
  BY <1>1 DEF Sln
<1>3. p # Null
  BY PointersAssumption DEF At, Pointers
<1> QED BY <1>1, <1>2, <1>3 DEF At

LEMMA AtElse ==
  ASSUME NEW h, NEW a, NEW at \in [Solutions -> Spots], NEW p, NEW spot,
         At(h, a, at, p, spot), NEW s \in Solutions, NEW new \in Spots,
         Sln(h, p) # s \/ at[s] # spot, Sln(h, p) \in Solutions
  PROVE  At(h, a, [at EXCEPT ![s] = new], p, spot)
<1>1. [at EXCEPT ![s] = new][Sln(h, p)] = spot
  BY DEF At
<1> QED BY <1>1 DEF At

LEMMA AtPut ==
  ASSUME NEW h, NEW a, NEW at \in [Solutions -> Spots], NEW p, NEW spot,
         At(h, a, at, p, spot), NEW new \in Spots, Sln(h, p) \in Solutions
  PROVE  At(h, a, [at EXCEPT ![Sln(h, p)] = new], p, new)
<1>1. [at EXCEPT ![Sln(h, p)] = new][Sln(h, p)] = new
  OBVIOUS
<1> QED BY <1>1 DEF At

LEMMA AtLess ==
  ASSUME NEW h, NEW a, NEW less, NEW at, NEW p, NEW spot, At(h, a, at, p, spot), p[1] \in less
  PROVE  At(h, less, at, p, spot)
BY DEF At

LEMMA DerefIs ==
  ASSUME HeapTypes, NEW at, NEW p, NEW spot, At(heap, allocated, at, p, spot)
  PROVE  \A s \in Deref(p) : s = Sln(heap, p)
<1> SUFFICES ASSUME NEW s \in Deref(p) PROVE s = Sln(heap, p)
  OBVIOUS
<1> QED BY DEF Deref, Sln

LEMMA SpotsAre ==
  /\ \A t \in Threads : {<<"none", t>>, <<"batch", t>>, <<"push", t>>, <<"queue", t>>,
                         <<"client", t>>} \subseteq Spots
  /\ Conns \subseteq Threads /\ Poller \in Threads
BY Thr DEF Spots

-----------------------------------------------------------------------------
(* Moving a solution from one spot to another.                              *)
Relabelled(at, s, new, at1) ==
  /\ at1 \in [Solutions -> Spots] /\ at1[s] = new
  /\ BatchHeld(at) /\ at[s] # <<"batch", Poller>> => BatchHeld(at1)
  /\ \A t \in Threads : PushHeld(at, t) /\ at[s] # <<"push", t>> => PushHeld(at1, t)
  /\ \A k \in Conns : QueueHeld(at, k) /\ at[s] # <<"queue", k>> => QueueHeld(at1, k)
  /\ \A k \in Conns : CheckingHeld(at, k) /\ at[s] # <<"client", k>> => CheckingHeld(at1, k)
  /\ \A k \in Conns : outstanding[k] \subseteq Solutions =>
       (SentHeld(at, k) /\ at[s] # <<"client", k>> => SentHeld(at1, k))
  /\ RowsFit(at) /\ RowFits(new, row[s]) => RowsFit(at1)

LEMMA Relabel ==
  ASSUME HeapTypes, NEW at \in [Solutions -> Spots], NEW s \in Solutions, NEW new \in Spots,
         NEW at1, at1 = [at EXCEPT ![s] = new]
  PROVE  Relabelled(at, s, new, at1)
<1>1. ASSUME NEW p, NEW spot, At(heap, allocated, at, p, spot), at[s] # spot
      PROVE  At(heap, allocated, at1, p, spot)
  <2>1. Sln(heap, p) \in Solutions
    BY <1>1, AtIs DEF HeapTypes
  <2> QED BY <1>1, <2>1, AtElse
<1>2. at1 \in [Solutions -> Spots] /\ at1[s] = new /\ \A r \in Solutions \ {s} : at1[r] = at[r]
  OBVIOUS
<1>3. BatchHeld(at) /\ at[s] # <<"batch", Poller>> => BatchHeld(at1)
  BY <1>1 DEF BatchHeld
<1>4. \A t \in Threads : PushHeld(at, t) /\ at[s] # <<"push", t>> => PushHeld(at1, t)
  BY <1>1 DEF PushHeld
<1>5. \A k \in Conns : QueueHeld(at, k) /\ at[s] # <<"queue", k>> => QueueHeld(at1, k)
  BY <1>1 DEF QueueHeld
<1>6. \A k \in Conns : CheckingHeld(at, k) /\ at[s] # <<"client", k>> => CheckingHeld(at1, k)
  BY <1>1 DEF CheckingHeld
<1>7. \A k \in Conns : outstanding[k] \subseteq Solutions =>
        (SentHeld(at, k) /\ at[s] # <<"client", k>> => SentHeld(at1, k))
  BY <1>2 DEF SentHeld
<1>8. RowsFit(at) /\ RowFits(new, row[s]) => RowsFit(at1)
  BY <1>2 DEF RowsFit
<1> QED BY <1>2, <1>3, <1>4, <1>5, <1>6, <1>7, <1>8 DEF Relabelled
-----------------------------------------------------------------------------
(* Ids that are not shared.                                                 *)

(* A step makes no fault undone.                                            *)
FaultsGrow == UNCHANGED faults \/ \E kind \in FaultKinds : Fault(kind)

LEMMA PostFaults ==
  ASSUME NEW s, NEW text, solution_post_result(s, text)
  PROVE  FaultsGrow
BY DEF solution_post_result, FaultsGrow, FaultKinds

LEMMA StrayStays ==
  ASSUME FaultsType, FaultsGrow, faults'["stray"] = 0
  PROVE  faults["stray"] = 0
BY DEF FaultsGrow, FaultsType, Fault, FaultKinds

(* The conditions under which a verdict is final; once broken, they stay so. *)
Trusted == ~id_shared /\ ~dangled /\ faults["stray"] = 0

LEMMA TrustedBefore == FaultsType /\ [Next]_vars => (~id_shared' => ~id_shared) /\ (Trusted' => Trusted)
<1> SUFFICES ASSUME FaultsType, [Next]_vars PROVE (~id_shared' => ~id_shared) /\ (Trusted' => Trusted)
  OBVIOUS
<1>0. ASSUME id_shared => id_shared', dangled => dangled', FaultsGrow
      PROVE  (~id_shared' => ~id_shared) /\ (Trusted' => Trusted)
  BY <1>0, StrayStays DEF Trusted
<1>1. ASSUME NEW k \in Conns, Register(k) PROVE (~id_shared' => ~id_shared) /\ (Trusted' => Trusted)
  <2>1. id_shared => id_shared'
    BY <1>1, Zenon DEF Register
  <2>2. UNCHANGED <<dangled, faults>>
    BY <1>1 DEF Register
  <2> QED BY <1>0, <2>1, <2>2 DEF FaultsGrow
<1>2. ASSUME NEW t \in Threads, push_solution(t)
      PROVE  (~id_shared' => ~id_shared) /\ (Trusted' => Trusted)
  <2>1. UNCHANGED <<id_shared, dangled>>
    BY <1>2 DEF push_solution, PushFind, PushLock, PushListLock, PushScan, PushChosen, PushEnqueue,
         history, world
  <2>2. CASE PushFind(t) \/ PushChosen(t)
    <3>1. UNCHANGED faults \/ \E s \in Deref(frame[t].sln) : solution_post_result(s, "FL")
      BY <2>2 DEF PushFind, PushChosen
    <3>2. FaultsGrow
      BY <3>1, PostFaults DEF FaultsGrow
    <3> QED BY <1>0, <2>1, <3>2
  <2>3. CASE PushLock(t) \/ PushListLock(t) \/ PushScan(t) \/ PushEnqueue(t)
    <3>1. UNCHANGED faults
      BY <2>3 DEF PushLock, PushListLock, PushScan, PushEnqueue, world
    <3> QED BY <1>0, <2>1, <3>1 DEF FaultsGrow
  <2> QED BY <1>2, <2>2, <2>3 DEF push_solution
<1>3. CASE poll_database \/ Stop
  <2>1. UNCHANGED <<id_shared, dangled>>
    BY <1>3 DEF poll_database, PollInit, PollLoop, PollExtract, PollNext, Stop, history, world
  <2>2. FaultsGrow
    BY <1>3 DEF poll_database, PollInit, PollLoop, PollExtract, PollNext, Stop, world, FaultsGrow,
         FaultKinds
  <2> QED BY <1>0, <2>1, <2>2
<1>4. ASSUME NEW k \in Conns, remove_client(k)
      PROVE  (~id_shared' => ~id_shared) /\ (Trusted' => Trusted)
  <2>1. UNCHANGED <<id_shared, faults>>
    BY <1>4 DEF remove_client, RemoveFind, RemoveLockLists, RemoveLists, RemoveFromMap, RemoveLock,
         RemoveChecked, RemoveQueue, client_free, history, world
  <2>2. dangled => dangled'
    <3>1. CASE client_free(k)
      BY <3>1, Zenon DEF client_free
    <3>2. CASE ~client_free(k)
      BY <1>4, <3>2 DEF remove_client, RemoveFind, RemoveLockLists, RemoveLists, RemoveFromMap,
           RemoveLock, RemoveChecked, RemoveQueue, history, world
    <3> QED BY <3>1, <3>2
  <2> QED BY <1>0, <2>1, <2>2 DEF FaultsGrow
<1>5. ASSUME NEW k \in Conns, ServeStep(k)
      PROVE  (~id_shared' => ~id_shared) /\ (Trusted' => Trusted)
  <2>1. CASE RecvResult(k)
    <3>1. UNCHANGED <<id_shared, dangled>>
      BY <2>1 DEF RecvResult
    <3>2. PICK s, code : post_result(s, code)
      BY <2>1 DEF RecvResult
    <3>3. FaultsGrow
      BY <3>2, PostFaults DEF post_result, FaultsGrow
    <3> QED BY <1>0, <3>1, <3>3
  <2>2. CASE ClearChecking(k)
    <3>1. dangled => dangled'
      BY <2>2, Zenon DEF ClearChecking
    <3>2. UNCHANGED <<id_shared, faults>>
      BY <2>2 DEF ClearChecking
    <3> QED BY <1>0, <3>1, <3>2 DEF FaultsGrow
  <2>3. CASE \/ ProcessSolutions(k) \/ SendSolution(k) \/ SendTimeout(k) \/ SendReset(k)
             \/ RecvTimeout(k) \/ RecvClosed(k) \/ RecvReset(k) \/ RecvError(k)
    <3>1. UNCHANGED <<id_shared, dangled>>
      BY <2>3 DEF ProcessSolutions, SendSolution, SendTimeout, SendReset, RecvTimeout, RecvClosed,
           RecvReset, RecvError, history, world
    <3>2. FaultsGrow
      BY <2>3 DEF ProcessSolutions, SendSolution, SendTimeout, SendReset, RecvTimeout, RecvClosed,
           RecvReset, RecvError, world, FaultsGrow, FaultKinds
    <3> QED BY <1>0, <3>1, <3>2
  <2> QED BY <1>5, <2>1, <2>2, <2>3 DEF ServeStep
<1>6. ASSUME NEW k \in Conns,
             \/ Connect(k) \/ HandshakeFail(k) \/ AnnounceLock(k) \/ Announce(k)
             \/ AnnounceDone(k) \/ PeerLost(k) \/ PeerStray(k)
      PROVE  (~id_shared' => ~id_shared) /\ (Trusted' => Trusted)
  <2>1. UNCHANGED <<id_shared, dangled>>
    BY <1>6 DEF Connect, HandshakeFail, AnnounceLock, Announce, AnnounceDone, PeerLost, PeerStray,
         history, world
  <2>2. FaultsGrow
    BY <1>6 DEF Connect, HandshakeFail, AnnounceLock, Announce, AnnounceDone, PeerLost, PeerStray,
         world, FaultsGrow, FaultKinds
  <2> QED BY <1>0, <2>1, <2>2
<1>7. CASE (\E s \in Solutions : Submit(s)) \/ UNCHANGED vars
  <2>1. UNCHANGED <<id_shared, dangled, faults>>
    BY <1>7 DEF Submit, history, world, vars
  <2> QED BY <1>0, <2>1 DEF FaultsGrow
<1> QED BY <1>1, <1>2, <1>3, <1>4, <1>5, <1>6, <1>7 DEF Next, client_loop, ServeStep

Busy == PushPoints \cup (RemovePoints \ {"remove_find"})

LEMMA OwnIdsQuiet ==
  ASSUME OwnIds, NEW t \in Threads, UNCHANGED <<clients_map, client_id>>,
         \A u \in Threads \ {t} : pc'[u] = pc[u],
         \A u \in Conns \ {t} : victim'[u] = victim[u],
         t \in Conns => /\ pc'[t] \in LivePoints => pc[t] \in LivePoints
                        /\ pc'[t] \in Busy => pc[t] \in Busy /\ victim'[t] = victim[t]
  PROVE  OwnIds'
BY Thr DEF OwnIds, Busy

LEMMA OwnIdsStep ==
  ASSUME VarTypes, ThreadsOK, OwnIds, [Next]_vars, ~id_shared'
  PROVE  OwnIds'
<1> USE Thr DEF Goto, Step
<1>1. pc \in [Threads -> Points] /\ victim \in [Conns -> Conns \cup {NoOne}]
      /\ client_id \in [Conns -> Int] /\ clients_map \subseteq Conns
  BY DEF VarTypes, PcType, LocalTypes, RegistryTypes
<1>2. CASE poll_database \/ Stop \/ (\E s \in Solutions : Submit(s)) \/ (\E k \in Conns : PeerLost(k) \/ PeerStray(k))
           \/ UNCHANGED vars
  <2>1. /\ UNCHANGED <<clients_map, client_id, victim>>
        /\ \A u \in Threads \ {Poller} : pc'[u] = pc[u]
    BY <1>1, <1>2 DEF poll_database, PollInit, PollLoop, PollExtract, PollNext, CallPush, Stop,
         Submit, PeerLost, PeerStray, data, registry, locals, vars
  <2> QED BY <2>1, ThreadsAssumption, OwnIdsQuiet
<1>3. CASE \E t \in Threads : push_solution(t)
  <2>1. PICK t \in Threads : push_solution(t)
    BY <1>3
  <2>2. t \in Conns => /\ pc'[t] \in LivePoints => pc[t] \in LivePoints
                       /\ pc'[t] \in Busy => pc[t] \in Busy /\ victim'[t] = victim[t]
    BY <2>1, PushMoves DEF Busy, LivePoints, ServePoints, DrainPoints, PushPoints, ScanPoints
  <2> QED BY <2>1, <2>2, PushMoves, OwnIdsQuiet
<1>4. ASSUME NEW k \in Conns, ServeStep(k) PROVE OwnIds'
  <2>1. /\ pc'[k] \in LivePoints => pc[k] \in LivePoints
        /\ pc'[k] \notin Busy
    BY <1>4, ServeMoves DEF Busy, LivePoints, ServePoints, RemovePoints, DrainPoints, PushPoints,
         ScanPoints
  <2> QED BY <1>4, <2>1, ServeMoves, OwnIdsQuiet
<1>5. ASSUME NEW k \in Conns,
             \/ Connect(k) \/ HandshakeFail(k) \/ AnnounceLock(k) \/ Announce(k) \/ AnnounceDone(k)
      PROVE  OwnIds'
  <2>1. /\ pc[k] \in {"announce_lock", "announce"} \/ pc'[k] \in {"handshake", "gone"}
        /\ pc'[k] \in {"handshake", "gone", "announce", "loop"}
        /\ \A u \in Threads \ {k} : pc'[u] = pc[u]
        /\ UNCHANGED <<clients_map, client_id, victim>>
    BY <1>1, <1>5 DEF Connect, HandshakeFail, AnnounceLock, Announce, AnnounceDone, data, registry,
         locals
  <2>2. /\ pc'[k] \in LivePoints => pc[k] \in LivePoints
        /\ pc'[k] \notin Busy
    BY <2>1 DEF Busy, LivePoints, ServePoints, RemovePoints, DrainPoints, PushPoints, ScanPoints
  <2> QED BY <2>1, <2>2, OwnIdsQuiet
<1>6. ASSUME NEW k \in Conns, Register(k) PROVE OwnIds'
  <2>1. NoClient(last_client_id)
    BY <1>6, Zenon DEF Register
  <2>2. /\ client_id' = [client_id EXCEPT ![k] = last_client_id]
        /\ clients_map' = clients_map \cup {k} /\ victim' = victim
        /\ pc' = [pc EXCEPT ![k] = "announce_lock"]
    BY <1>6 DEF Register, locals
  <2>3. \A i, j \in clients_map' : client_id'[i] = client_id'[j] => i = j
    BY <1>1, <2>1, <2>2 DEF OwnIds, NoClient
  <2>4. pc'[k] \notin Busy
    BY <1>1, <2>2 DEF Busy, RemovePoints, DrainPoints, PushPoints, ScanPoints
  <2> QED BY <1>1, <2>2, <2>3, <2>4 DEF OwnIds, Busy
<1>7. ASSUME NEW k \in Conns, RemoveFind(k) PROVE OwnIds'
  <2>1. pc[k] = "remove_find" /\ k \in clients_map
    BY <1>7 DEF RemoveFind, OwnIds, LivePoints
  <2>2. /\ \E v \in Conns : FoundClient(v, client_id[k]) /\ victim' = [victim EXCEPT ![k] = v]
        /\ pc' = [pc EXCEPT ![k] = "remove_lock_lists"]
        /\ UNCHANGED <<clients_map, client_id>>
    BY <1>7, <2>1 DEF RemoveFind, NoClient, data, registry
  <2>3. victim' = [victim EXCEPT ![k] = k]
    BY <2>1, <2>2 DEF FoundClient, OwnIds
  <2> QED BY <1>1, <2>1, <2>2, <2>3 DEF OwnIds
<1>8. ASSUME NEW k \in Conns, RemoveFromMap(k) PROVE OwnIds'
  <2>1. pc[k] = "remove_map" /\ victim[k] = k
    BY <1>8 DEF RemoveFromMap, OwnIds, RemovePoints
  <2>2. /\ pc' = [pc EXCEPT ![k] = "remove_lock"] /\ clients_map' = clients_map \ {k}
        /\ UNCHANGED <<client_id, victim>>
    BY <1>8, <2>1 DEF RemoveFromMap, Deleted, locals
  <2>3. "remove_lock" \notin LivePoints
    BY DEF LivePoints, ServePoints
  <2> QED BY <1>1, <2>1, <2>2, <2>3 DEF OwnIds
<1>9. ASSUME NEW k \in Conns,
             \/ RemoveLockLists(k) \/ RemoveLists(k) \/ RemoveLock(k) \/ RemoveChecked(k)
             \/ RemoveQueue(k) \/ client_free(k)
      PROVE  OwnIds'
  <2>1. /\ \/ /\ pc[k] \in {"remove_lock_lists", "remove_lists"}
              /\ pc'[k] \in {"remove_lists", "remove_map"}
           \/ /\ pc[k] \in {"remove_lock", "remove_checked", "remove_queue", "remove_free"}
              /\ pc'[k] \in {"push_find", "remove_queue", "remove_free", "gone"}
        /\ \A u \in Threads \ {k} : pc'[u] = pc[u]
        /\ UNCHANGED <<clients_map, client_id>>
        /\ pc'[k] = "gone" \/ UNCHANGED victim
        /\ \A u \in Conns \ {k} : victim'[u] = victim[u]
    BY <1>1, <1>9 DEF RemoveLockLists, RemoveLists, RemoveLock, RemoveChecked, RemoveQueue,
         client_free, CallPush, data, registry, locals
  <2>2. /\ pc'[k] \in LivePoints => pc[k] \in LivePoints
        /\ pc'[k] \in Busy => pc[k] \in Busy /\ victim'[k] = victim[k]
    BY <2>1 DEF Busy, LivePoints, ServePoints, RemovePoints, DrainPoints, PushPoints, ScanPoints
  <2> QED BY <2>1, <2>2, OwnIdsQuiet
<1> QED BY <1>2, <1>3, <1>4, <1>5, <1>6, <1>7, <1>8, <1>9
     DEF Next, client_loop, remove_client, ServeStep

-----------------------------------------------------------------------------
(* The pointers.                                                            *)
Carries(at) == Held(at) /\ Copies
Good(at) == VarTypes /\ ThreadsOK /\ OwnIds /\ at \in [Solutions -> Spots] /\ Carries(at)

(* What is at a spot is not touched.                                        *)
Keeps(h, a, h1, a1, at, spot) == \A p :
  At(h, a, at, p, spot) => At(h1, a1, at, p, spot) /\ Sln(h1, p) = Sln(h, p)

(* A thread that does nothing, and loses nothing.                           *)
LEMMA Bystander ==
  ASSUME HeapTypes, NEW at \in [Solutions -> Spots], NEW u \in Threads,
         pc'[u] = pc[u], frame'[u] = frame[u],
         \A w \in {"push", "queue", "client"} :
           Keeps(heap, allocated, heap', allocated', at, <<w, u>>),
         \A s \in Solutions : at[s] = <<"client", u>> => row'[s] = row[s]
  PROVE  /\ PushHeld(at, u) => PushHeld(at, u)'
         /\ QueueHeld(at, u) /\ solutions_queue'[u] = solutions_queue[u] =>
              QueueHeld(at, u)' /\ (QueueDistinct(u) => QueueDistinct(u)')
         /\ CheckingHeld(at, u) /\ checking_solution'[u] = checking_solution[u] =>
              CheckingHeld(at, u)'
         /\ SentHeld(at, u) /\ outstanding[u] \subseteq Solutions
              /\ outstanding'[u] \subseteq outstanding[u] => SentHeld(at, u)'
         /\ CopiesOK(u) /\ checking_solution'[u] = checking_solution[u]
              /\ outstanding'[u] \subseteq outstanding[u] => CopiesOK(u)'
<1>1. PushHeld(at, u) => PushHeld(at, u)'
  BY DEF PushHeld, Keeps
<1>2. QueueHeld(at, u) /\ solutions_queue'[u] = solutions_queue[u] =>
        QueueHeld(at, u)' /\ (QueueDistinct(u) => QueueDistinct(u)')
  BY DEF QueueHeld, QueueDistinct, Keeps
<1>3. CheckingHeld(at, u) /\ checking_solution'[u] = checking_solution[u] => CheckingHeld(at, u)'
  <2> SUFFICES ASSUME CheckingHeld(at, u), checking_solution'[u] = checking_solution[u],
                      pc[u] \notin PushPoints \cup {"remove_checked"}, checking_solution[u] # Null
               PROVE  /\ At(heap', allocated', at, checking_solution[u], <<"client", u>>)
                      /\ pc[u] # "clear" => row'[Sln(heap', checking_solution[u])] = 1
    BY DEF CheckingHeld
  <2>1. /\ At(heap, allocated, at, checking_solution[u], <<"client", u>>)
        /\ pc[u] # "clear" => row[Sln(heap, checking_solution[u])] = 1
    BY DEF CheckingHeld
  <2>2. Sln(heap, checking_solution[u]) \in Solutions
        /\ at[Sln(heap, checking_solution[u])] = <<"client", u>>
    BY <2>1, AtIs DEF HeapTypes, At
  <2> QED BY <2>1, <2>2 DEF Keeps
<1>4. SentHeld(at, u) /\ outstanding[u] \subseteq Solutions
        /\ outstanding'[u] \subseteq outstanding[u] => SentHeld(at, u)'
  BY DEF SentHeld
<1>5. CopiesOK(u) /\ checking_solution'[u] = checking_solution[u]
        /\ outstanding'[u] \subseteq outstanding[u] => CopiesOK(u)'
  BY DEF CopiesOK
<1> QED BY <1>1, <1>2, <1>3, <1>4, <1>5

(* Everybody but t.                                                         *)
Aside(t) ==
  /\ \A u \in Threads \ {t} : pc'[u] = pc[u] /\ frame'[u] = frame[u]
  /\ \A k \in Conns \ {t} : /\ solutions_queue'[k] = solutions_queue[k]
                            /\ checking_solution'[k] = checking_solution[k]
                            /\ outstanding'[k] \subseteq outstanding[k]
HeldAside(at, t) ==
  /\ \A u \in Threads \ {t} : PushHeld(at, u)
  /\ \A k \in Conns \ {t} : ClientHeld(at, k) /\ CopiesOK(k) /\ QueueDistinct(k)

LEMMA AsideStep ==
  ASSUME HeapTypes, NetTypes, NEW at \in [Solutions -> Spots], NEW t \in Threads,
         HeldAside(at, t), Aside(t),
         \A w \in {"push", "queue", "client"} : \A u \in Threads \ {t} :
           Keeps(heap, allocated, heap', allocated', at, <<w, u>>),
         \A s \in Solutions : at[s][2] # t => row'[s] = row[s]
  PROVE  HeldAside(at, t)'
<1>1. ASSUME NEW u \in Threads \ {t} PROVE \A s \in Solutions : at[s] = <<"client", u>> => row'[s] = row[s]
  OBVIOUS
<1>2. ASSUME NEW u \in Threads \ {t} PROVE PushHeld(at, u)'
  BY <1>1, Bystander DEF HeldAside, Aside
<1>3. ASSUME NEW k \in Conns \ {t} PROVE ClientHeld(at, k)' /\ CopiesOK(k)' /\ QueueDistinct(k)'
  <2>1. k \in Threads \ {t} /\ outstanding[k] \subseteq Solutions
    BY Thr DEF NetTypes
  <2>2. ClientHeld(at, k) /\ CopiesOK(k) /\ QueueDistinct(k) /\ PushHeld(at, k)
    BY <2>1 DEF HeldAside
  <2> QED BY <1>1, <2>1, <2>2, Bystander DEF Aside, ClientHeld
<1> QED BY <1>2, <1>3 DEF HeldAside

LEMMA Together ==
  ASSUME NEW at, NEW t \in Threads
  PROVE  /\ Carries(at) => BatchHeld(at) /\ RowsFit(at) /\ HeldAside(at, t) /\ PushHeld(at, t)
              /\ (t \in Conns => ClientHeld(at, t) /\ CopiesOK(t) /\ QueueDistinct(t))
         /\ BatchHeld(at)' /\ RowsFit(at)' /\ HeldAside(at, t)' /\ PushHeld(at, t)'
              /\ (t \in Conns => ClientHeld(at, t)' /\ CopiesOK(t)' /\ QueueDistinct(t)')
            => Carries(at)'
BY Thr DEF Carries, Held, Copies, HeldAside

(* Memory is not touched.                                                   *)
LEMMA KeepsAll ==
  ASSUME UNCHANGED <<heap, allocated>>
  PROVE  \A at, spot : Keeps(heap, allocated, heap', allocated', at, spot)
BY DEF Keeps

(* A new array is put where nothing was.                                    *)
LEMMA KeepsFresh ==
  ASSUME HeapTypes, NEW b \in Blocks \ allocated, NEW arr,
         heap' = [heap EXCEPT ![b] = arr], allocated' = allocated \cup {b}
  PROVE  \A at, spot : Keeps(heap, allocated, heap', allocated', at, spot)
<1> SUFFICES ASSUME NEW at, NEW p, NEW spot, At(heap, allocated, at, p, spot)
             PROVE  At(heap', allocated', at, p, spot) /\ Sln(heap', p) = Sln(heap, p)
  BY DEF Keeps
<1>1. p[1] \in allocated /\ p[1] # b /\ p[1] \in Blocks
  BY DEF At, HeapTypes
<1>2. heap'[p[1]] = heap[p[1]]
  BY <1>1 DEF HeapTypes
<1> QED BY <1>1, <1>2 DEF At, Sln

(* Relabelling what t has leaves everybody else with what he has.           *)
LEMMA RelabelOwn ==
  ASSUME HeapTypes, NetTypes, NEW at \in [Solutions -> Spots], NEW t \in Threads,
         NEW s \in Solutions, at[s][2] = t, NEW new \in Spots, HeldAside(at, t)
  PROVE  HeldAside([at EXCEPT ![s] = new], t)
<1> DEFINE at1 == [at EXCEPT ![s] = new]
<1>1. \A u \in Threads \ {t} : \A w : at[s] # <<w, u>>
  OBVIOUS
<1>r. Relabelled(at, s, new, at1)
  BY Relabel
<1> HIDE DEF at1
<1>2. ASSUME NEW u \in Threads \ {t} PROVE PushHeld(at1, u)
  BY <1>1, <1>r DEF HeldAside, Relabelled
<1>3. ASSUME NEW k \in Conns \ {t} PROVE ClientHeld(at1, k)
  <2>1. k \in Threads \ {t} /\ outstanding[k] \subseteq Solutions /\ ClientHeld(at, k)
    BY Thr DEF NetTypes, HeldAside
  <2> QED BY <1>1, <1>r, <2>1 DEF ClientHeld, Relabelled
<1> QED BY <1>2, <1>3 DEF HeldAside, at1

(* A step of t that moves no pointer.                                       *)
Untouched(t) ==
  /\ UNCHANGED <<heap, allocated, row, batch, solutions_queue, checking_solution>>
  /\ \A u \in Threads \ {t} : pc'[u] = pc[u] /\ frame'[u] = frame[u]
  /\ \A k \in Conns : outstanding'[k] \subseteq outstanding[k]
  /\ pc'[t] \in PushPoints =>
       pc[t] \in PushPoints /\ frame'[t].sln = frame[t].sln /\ frame'[t].ret = frame[t].ret
  /\ pc'[t] \in PushPoints \cup {"remove_checked"} \/ pc[t] \notin PushPoints \cup {"remove_checked"}
       \/ checking_solution[t] = Null
  /\ pc[t] = "clear" => pc'[t] = "clear"
  /\ pc'[t] \in ServePoints => pc[t] \in ServePoints \/ outstanding[t] = {}
  /\ pc'[t] = "send" => pc[t] = "send" /\ frame'[t].sln = frame[t].sln
  /\ pc'[t] \in {"remove_queue", "remove_free"} => checking_solution[t] = Null
  /\ pc'[t] \in {"idle", "handshake", "announce_lock", "announce"} =>
       pc[t] \in {"idle", "handshake", "announce_lock", "announce"}

LEMMA QuietHeld ==
  ASSUME NEW at, Good(at), NEW t \in Threads, t = Poller \/ Untouched(t),
         t = Poller => /\ UNCHANGED <<heap, allocated, row, batch, solutions_queue, checking_solution>>
                       /\ \A u \in Threads \ {t} : pc'[u] = pc[u] /\ frame'[u] = frame[u]
                       /\ \A k \in Conns : outstanding'[k] \subseteq outstanding[k]
                       /\ pc'[t] \in PushPoints => pc[t] \in PushPoints /\ frame'[t].sln = frame[t].sln
  PROVE  Carries(at)'
<1>1. /\ BatchHeld(at) /\ RowsFit(at) /\ HeldAside(at, t) /\ PushHeld(at, t)
      /\ t \in Conns => ClientHeld(at, t) /\ CopiesOK(t) /\ QueueDistinct(t)
  BY Together DEF Good
<1>2. at \in [Solutions -> Spots] /\ HeapTypes /\ NetTypes
  BY DEF Good, VarTypes
<1>3. /\ UNCHANGED <<heap, allocated, row, batch, solutions_queue, checking_solution>>
      /\ \A u \in Threads \ {t} : pc'[u] = pc[u] /\ frame'[u] = frame[u]
      /\ \A k \in Conns : outstanding'[k] \subseteq outstanding[k]
      /\ pc'[t] \in PushPoints => pc[t] \in PushPoints /\ frame'[t].sln = frame[t].sln
  BY DEF Untouched
<1>4. HeldAside(at, t)'
  <2>1. Aside(t)
    BY <1>3 DEF Aside
  <2> QED BY <1>1, <1>2, <1>3, <2>1, KeepsAll, AsideStep
<1>5. BatchHeld(at)' /\ RowsFit(at)' /\ PushHeld(at, t)'
  BY <1>1, <1>3 DEF BatchHeld, RowsFit, PushHeld
<1>6. ASSUME t \in Conns PROVE ClientHeld(at, t)' /\ CopiesOK(t)' /\ QueueDistinct(t)'
  <2>1. t # Poller /\ Untouched(t) /\ ClientHeld(at, t) /\ CopiesOK(t) /\ QueueDistinct(t)
    BY <1>1, <1>6, ThreadsAssumption
  <2>2. QueueHeld(at, t)' /\ QueueDistinct(t)'
    BY <1>3, <2>1 DEF QueueHeld, QueueDistinct, ClientHeld
  <2>3. CheckingHeld(at, t)'
    BY <1>3, <2>1 DEF CheckingHeld, ClientHeld, Untouched
  <2>4. SentHeld(at, t)'
    BY <1>3, <1>6, <2>1 DEF SentHeld, ClientHeld, Untouched
  <2>5. CopiesOK(t)'
    BY <1>3, <1>6, <2>1 DEF CopiesOK, Untouched
  <2> QED BY <2>2, <2>3, <2>4, <2>5 DEF ClientHeld
<1> QED BY <1>4, <1>5, <1>6, Together

(* What a thread in push_solution may return to.                            *)
LEMMA Returned ==
  ASSUME NEW at, Good(at), NEW t \in Threads, pc[t] \in PushPoints, ReturnPush(t)
  PROVE  /\ pc'[t] \in {"poll_next", "remove_checked", "remove_queue"}
         /\ \A u \in Threads \ {t} : pc'[u] = pc[u] /\ frame'[u] = frame[u]
         /\ t \in Conns => /\ pc'[t] \in {"remove_checked", "remove_queue"}
                           /\ pc'[t] = "remove_queue" => checking_solution[t] = Null
<1>1. pc'[t] = frame[t].ret /\ \A u \in Threads \ {t} : pc'[u] = pc[u] /\ frame'[u] = frame[u]
  BY DEF ReturnPush, Goto, Good, VarTypes, PcType, LocalTypes
<1>2. t \in Conns => CopiesOK(t)
  BY DEF Good, Carries, Copies
<1> QED BY <1>1, <1>2, ReturnPoint DEF Good, CopiesOK, DrainPoints

(* After a return, t has nothing more in its hands.                         *)
LEMMA ReturnedHeld ==
  ASSUME NEW at, NEW t \in Threads,
         t \in Conns => QueueHeld(at, t)',
         UNCHANGED checking_solution,
         pc'[t] \in {"poll_next", "remove_checked", "remove_queue"},
         t \in Conns => /\ pc'[t] \in {"remove_checked", "remove_queue"}
                        /\ pc'[t] = "remove_queue" => checking_solution[t] = Null
  PROVE  PushHeld(at, t)' /\ (t \in Conns => ClientHeld(at, t)' /\ CopiesOK(t)')
<1>1. PushHeld(at, t)'
  BY DEF PushHeld, PushPoints, ScanPoints
<1>2. ASSUME t \in Conns PROVE ClientHeld(at, t)' /\ CopiesOK(t)'
  <2>1. CheckingHeld(at, t)'
    BY <1>2 DEF CheckingHeld
  <2>2. SentHeld(at, t)'
    BY <1>2 DEF SentHeld, ServePoints
  <2>3. CopiesOK(t)'
    BY <1>2 DEF CopiesOK, PushPoints, ScanPoints
  <2> QED BY <1>2, <2>1, <2>2, <2>3 DEF ClientHeld
<1> QED BY <1>1, <1>2

(* Posting "FL" is the end of the solution that t has in its hands.         *)
LEMMA PostHeld ==
  ASSUME NEW at, Good(at), NEW t \in Threads, pc[t] \in PushPoints,
         NEW s \in Deref(frame[t].sln), solution_post_result(s, "FL"), ReturnPush(t),
         UNCHANGED <<heap, allocated, batch, solutions_queue, checking_solution, outstanding>>
  PROVE  /\ \E at1 \in [Solutions -> Spots] : Carries(at1)'
         /\ row[s] = 1
<1> DEFINE at1 == [at EXCEPT ![s] = <<"none", t>>]
<1>1. /\ BatchHeld(at) /\ RowsFit(at) /\ HeldAside(at, t) /\ PushHeld(at, t)
      /\ t \in Conns => ClientHeld(at, t) /\ CopiesOK(t) /\ QueueDistinct(t)
  BY Together DEF Good
<1>2. at \in [Solutions -> Spots] /\ HeapTypes /\ NetTypes /\ row \in [Solutions -> -1..2]
  BY DEF Good, VarTypes, DbTypes
<1>3. s \in Solutions /\ at[s] = <<"push", t>>
  <2>1. At(heap, allocated, at, frame[t].sln, <<"push", t>>)
    BY <1>1 DEF PushHeld
  <2>2. s = Sln(heap, frame[t].sln)
    BY <1>2, <2>1, DerefIs
  <2> QED BY <1>2, <2>1, <2>2, AtIs DEF At, HeapTypes
<1>4. row[s] = 1
  BY <1>1, <1>3 DEF RowsFit, RowFits
<1> HIDE DEF at1
<1>5. at1 \in [Solutions -> Spots] /\ at1[s] = <<"none", t>> /\ BatchHeld(at1) /\ RowsFit(at1)
      /\ HeldAside(at1, t) /\ (t \in Conns => QueueHeld(at1, t))
  <2>1. <<"none", t>> \in Spots /\ RowFits(<<"none", t>>, row[s])
    BY SpotsAre DEF RowFits
  <2>2. at[s][2] = t /\ at[s] # <<"batch", Poller>> /\ \A k \in Conns : at[s] # <<"queue", k>>
    BY <1>3
  <2>3. HeldAside(at1, t)
    BY <1>1, <1>2, <1>3, <2>1, <2>2, RelabelOwn DEF at1
  <2>4. at1 = [at EXCEPT ![s] = <<"none", t>>]
    BY DEF at1
  <2>5. Relabelled(at, s, <<"none", t>>, at1)
    BY <1>2, <1>3, <2>1, <2>4, Relabel
  <2> QED BY <1>1, <2>1, <2>2, <2>3, <2>5 DEF Relabelled, ClientHeld
<1>7. \A r \in Solutions \ {s} : row'[r] = row[r]
  BY <1>2, <1>3 DEF solution_post_result, db
<1>8. HeldAside(at1, t)'
  <2>1. Aside(t)
    BY Returned DEF Aside
  <2>2. \A r \in Solutions : at1[r][2] # t => row'[r] = row[r]
    BY <1>5, <1>7
  <2> QED BY <1>2, <1>5, <2>1, <2>2, KeepsAll, AsideStep
<1>9. BatchHeld(at1)' /\ RowsFit(at1)'
  <2>1. RowsFit(at1)'
    BY <1>5, <1>7 DEF RowsFit, RowFits
  <2> QED BY <1>5, <2>1 DEF BatchHeld
<1>10. t \in Conns => QueueHeld(at1, t)' /\ QueueDistinct(t)'
  BY <1>1, <1>5 DEF QueueHeld, QueueDistinct
<1>11. PushHeld(at1, t)' /\ (t \in Conns => ClientHeld(at1, t)' /\ CopiesOK(t)')
  BY <1>10, Returned, ReturnedHeld
<1>12. Carries(at1)'
  BY <1>8, <1>9, <1>10, <1>11, Together
<1> QED BY <1>4, <1>5, <1>12

(* Enqueueing passes it on to a client, or loses it.                        *)
LEMMA EnqueueHeld ==
  ASSUME NEW at, Good(at), NEW t \in Threads, PushEnqueue(t)
  PROVE  \E at1 \in [Solutions -> Spots] : Carries(at1)'
<1>p. PICK p : p = frame[t].sln
  OBVIOUS
<1>s. PICK s : s = Sln(heap, p)
  OBVIOUS
<1>1. /\ BatchHeld(at) /\ RowsFit(at) /\ HeldAside(at, t) /\ PushHeld(at, t)
      /\ t \in Conns => ClientHeld(at, t) /\ CopiesOK(t) /\ QueueDistinct(t)
  BY Together DEF Good
<1>2. at \in [Solutions -> Spots] /\ HeapTypes /\ NetTypes /\ row \in [Solutions -> -1..2]
      /\ solutions_queue \in [Conns -> Seq(Pointers)] /\ clients_map \subseteq Conns
  BY DEF Good, VarTypes, DbTypes, ClientTypes, RegistryTypes
<1>3. /\ pc[t] \in PushPoints /\ pc[t] = "push_enqueue" /\ ReturnPush(t)
      /\ UNCHANGED <<heap, allocated, row, batch, checking_solution, outstanding>>
  BY DEF PushEnqueue, PushPoints, memory, db, world, net
<1>4. /\ pc'[t] \in {"poll_next", "remove_checked", "remove_queue"}
      /\ \A u \in Threads \ {t} : pc'[u] = pc[u] /\ frame'[u] = frame[u]
      /\ t \in Conns => /\ pc'[t] \in {"remove_checked", "remove_queue"}
                        /\ pc'[t] = "remove_queue" => checking_solution[t] = Null
  BY <1>3, Returned
<1>5. At(heap, allocated, at, p, <<"push", t>>) /\ s \in Solutions /\ at[s] = <<"push", t>>
      /\ at[s][2] = t /\ row[s] = 1 /\ p \in Pointers
  <2>1. At(heap, allocated, at, p, <<"push", t>>)
    BY <1>p, <1>1, <1>3 DEF PushHeld
  <2>2. s \in Solutions /\ at[s] = <<"push", t>> /\ p \in Pointers
    BY <1>s, <1>2, <2>1, AtIs DEF At, HeapTypes
  <2> QED BY <1>1, <2>1, <2>2 DEF RowsFit, RowFits
<1>6. CASE UNCHANGED solutions_queue
  <2>1. HeldAside(at, t)'
    <3>1. Aside(t)
      BY <1>3, <1>4, <1>6 DEF Aside
    <3> QED BY <1>1, <1>2, <1>3, <3>1, KeepsAll, AsideStep
  <2>2. BatchHeld(at)' /\ RowsFit(at)' /\ (t \in Conns => QueueHeld(at, t)' /\ QueueDistinct(t)')
    BY <1>1, <1>3, <1>6 DEF BatchHeld, RowsFit, QueueHeld, QueueDistinct, ClientHeld
  <2>3. PushHeld(at, t)' /\ (t \in Conns => ClientHeld(at, t)' /\ CopiesOK(t)')
    BY <1>3, <1>4, <2>2, ReturnedHeld
  <2> QED BY <1>2, <2>1, <2>2, <2>3, Together
<1>7. ASSUME NEW k \in Conns,
             solutions_queue' = [solutions_queue EXCEPT ![k] = Append(@, frame[t].sln)]
      PROVE  \E at1 \in [Solutions -> Spots] : Carries(at1)'
  <2>a. PICK at1 : at1 = [at EXCEPT ![s] = <<"queue", k>>]
    OBVIOUS
  <2>1. <<"queue", k>> \in Spots /\ RowFits(<<"queue", k>>, row[s])
    BY <1>5, SpotsAre DEF RowFits
  <2>2. Relabelled(at, s, <<"queue", k>>, at1)
    BY <2>a, <1>2, <1>5, <2>1, Relabel
  <2>3. HeldAside(at1, t)
    BY <2>a, <1>1, <1>2, <1>5, <2>1, RelabelOwn
  <2>4. At(heap, allocated, at1, p, <<"queue", k>>)
    BY <2>a, <1>s, <1>2, <1>5, <2>1, AtPut
  <2>5. /\ at1 \in [Solutions -> Spots] /\ BatchHeld(at1) /\ RowsFit(at1)
        /\ \A j \in Conns : QueueHeld(at1, j)
    <3>1. /\ at[s] # <<"batch", Poller>> /\ \A j \in Conns : at[s] # <<"queue", j>>
      BY <1>5
    <3>2. \A j \in Conns : QueueHeld(at, j)
      BY <1>1 DEF HeldAside, ClientHeld
    <3> QED BY <1>1, <2>1, <2>2, <3>1, <3>2 DEF Relabelled
  <2>6. ASSUME NEW j \in Conns PROVE QueueHeld(at1, j)' /\ QueueDistinct(j)'
    <3>1. QueueHeld(at, j) /\ QueueDistinct(j) /\ QueueHeld(at1, j)
      BY <1>1, <2>5 DEF HeldAside, ClientHeld
    <3>2. CASE j # k
      <4>1. solutions_queue'[j] = solutions_queue[j]
        BY <1>2, <1>7, <3>2
      <4> QED BY <1>3, <3>1, <4>1 DEF QueueHeld, QueueDistinct
    <3>3. CASE j = k
      <4> DEFINE q == solutions_queue[k]
      <4>1. q \in Seq(Pointers) /\ solutions_queue'[k] = Append(q, p)
        BY <1>p, <1>2, <1>7
      <4>2. /\ DOMAIN Append(q, p) = DOMAIN q \cup {Len(q) + 1}
            /\ \A i \in DOMAIN q : Append(q, p)[i] = q[i] /\ i # Len(q) + 1
            /\ Append(q, p)[Len(q) + 1] = p
        BY <1>5, <4>1
      <4>3. \A i \in DOMAIN q : Sln(heap, q[i]) # s
        BY <1>5, <3>1, <3>3 DEF QueueHeld, At
      <4>4. QueueHeld(at1, k)'
        BY <1>3, <2>4, <3>1, <3>3, <4>1, <4>2 DEF QueueHeld
      <4>5. QueueDistinct(k)'
        BY <1>s, <1>3, <3>1, <3>3, <4>1, <4>2, <4>3 DEF QueueDistinct
      <4> QED BY <3>3, <4>4, <4>5
    <3> QED BY <3>2, <3>3
  <2>7. HeldAside(at1, t)'
    <3>1. ASSUME NEW u \in Threads \ {t} PROVE PushHeld(at1, u)'
      BY <1>3, <1>4, <2>3 DEF HeldAside, PushHeld
    <3>2. ASSUME NEW j \in Conns \ {t} PROVE ClientHeld(at1, j)' /\ CopiesOK(j)' /\ QueueDistinct(j)'
      <4>1. pc'[j] = pc[j] /\ frame'[j] = frame[j] /\ ClientHeld(at1, j) /\ CopiesOK(j)
        BY <1>4, <2>3, Thr DEF HeldAside
      <4>2. CheckingHeld(at1, j)' /\ SentHeld(at1, j)' /\ CopiesOK(j)'
        BY <1>3, <4>1 DEF CheckingHeld, SentHeld, CopiesOK, ClientHeld
      <4> QED BY <2>6, <4>2 DEF ClientHeld
    <3> QED BY <3>1, <3>2 DEF HeldAside
  <2>8. BatchHeld(at1)' /\ RowsFit(at1)'
    BY <1>3, <2>5 DEF BatchHeld, RowsFit
  <2>9. PushHeld(at1, t)' /\ (t \in Conns => ClientHeld(at1, t)' /\ CopiesOK(t)')
    BY <1>3, <1>4, <2>6, ReturnedHeld
  <2> QED BY <2>5, <2>6, <2>7, <2>8, <2>9, Together
<1>8. \/ UNCHANGED solutions_queue
      \/ \E k \in Conns : solutions_queue' = [solutions_queue EXCEPT ![k] = Append(@, frame[t].sln)]
  <2>1. frame[t].best \in Conns
    BY <1>3 DEF Good, ThreadsOK, ThreadOK
  <2> QED BY <1>2, <2>1 DEF PushEnqueue
<1> QED BY <1>6, <1>7, <1>8

(* Calling push_solution takes what t had elsewhere into its hands.         *)
Called(at, at1, t, w, p, s, l) ==
  /\ s \in Solutions /\ p \in Pointers /\ at[s] = <<w, t>>
  /\ Relabelled(at, s, <<"push", t>>, at1)
  /\ pc'[t] = "push_find" /\ frame'[t].sln = p /\ frame'[t].ret = l
  /\ HeldAside(at1, t)' /\ PushHeld(at1, t)' /\ RowsFit(at1)'
  /\ t \in Conns => CheckingHeld(at1, t)' /\ SentHeld(at1, t)'

LEMMA CallHeld ==
  ASSUME NEW at, Good(at), NEW t \in Threads, NEW w \in {"batch", "queue", "client"},
         NEW p, At(heap, allocated, at, p, <<w, t>>), NEW s, s = Sln(heap, p), row[s] = 1,
         NEW l, CallPush(t, p, l),
         UNCHANGED <<heap, allocated, row, checking_solution, outstanding>>,
         \A k \in Conns \ {t} : solutions_queue'[k] = solutions_queue[k],
         NEW at1, at1 = [at EXCEPT ![s] = <<"push", t>>]
  PROVE  Called(at, at1, t, w, p, s, l)
<1>1. /\ BatchHeld(at) /\ RowsFit(at) /\ HeldAside(at, t) /\ PushHeld(at, t)
      /\ t \in Conns => ClientHeld(at, t) /\ CopiesOK(t) /\ QueueDistinct(t)
  BY Together DEF Good
<1>2. at \in [Solutions -> Spots] /\ HeapTypes /\ NetTypes
  BY DEF Good, VarTypes
<1>3. s \in Solutions /\ p \in Pointers /\ at[s] = <<w, t>> /\ at[s][2] = t
  <2>1. Sln(heap, p) \in Solutions /\ p \in Pointers
    BY <1>2, AtIs DEF HeapTypes
  <2>2. at[Sln(heap, p)] = <<w, t>>
    BY DEF At
  <2> QED BY <2>1, <2>2
<1>4. <<"push", t>> \in Spots /\ RowFits(<<"push", t>>, row[s])
  BY SpotsAre DEF RowFits
<1>5. Relabelled(at, s, <<"push", t>>, at1)
  BY <1>2, <1>3, <1>4, Relabel
<1>6. HeldAside(at1, t)
  BY <1>1, <1>2, <1>3, <1>4, RelabelOwn
<1>7. At(heap, allocated, at1, p, <<"push", t>>)
  BY <1>2, <1>3, <1>4, AtPut
<1>8. /\ pc'[t] = "push_find" /\ frame'[t].sln = p /\ frame'[t].ret = l
      /\ \A u \in Threads \ {t} : pc'[u] = pc[u] /\ frame'[u] = frame[u]
  BY DEF CallPush, Goto, Frame, Good, VarTypes, PcType, LocalTypes
<1>9. HeldAside(at1, t)'
  <2>1. Aside(t)
    BY <1>8 DEF Aside
  <2> QED BY <1>2, <1>5, <1>6, <2>1, KeepsAll, AsideStep DEF Relabelled
<1>10. PushHeld(at1, t)' /\ RowsFit(at1)'
  <2>1. RowsFit(at1)
    BY <1>1, <1>4, <1>5 DEF Relabelled
  <2> QED BY <1>7, <1>8, <2>1 DEF PushHeld, RowsFit
<1>11. CheckingHeld(at1, t)' /\ SentHeld(at1, t)'
  BY <1>8 DEF CheckingHeld, SentHeld, ServePoints, PushPoints
<1> QED BY <1>3, <1>5, <1>8, <1>9, <1>10, <1>11 DEF Called

(* poll_database passes on what it has extracted.                           *)
LEMMA PollNextHeld ==
  ASSUME NEW at, Good(at), PollNext, batch # <<>>
  PROVE  \E at1 \in [Solutions -> Spots] : Carries(at1)'
<1>1. BatchHeld(at) /\ RowsFit(at) /\ batch \in Seq(Pointers) /\ at \in [Solutions -> Spots]
      /\ HeapTypes
  BY DEF Good, Carries, Held, VarTypes, BatchType
<1>2. /\ CallPush(Poller, Head(batch), "poll_next") /\ batch' = Tail(batch)
      /\ UNCHANGED <<heap, allocated, row, checking_solution, outstanding, solutions_queue>>
  BY DEF PollNext, data, memory, db, client, net
<1>3. PICK p : p = Head(batch)
  OBVIOUS
<1>4. 1 \in DOMAIN batch /\ p = batch[1]
  BY <1>1, <1>3
<1>5. At(heap, allocated, at, p, <<"batch", Poller>>)
  BY <1>1, <1>4 DEF BatchHeld
<1>6. /\ \A i \in DOMAIN Tail(batch) : /\ i \in Nat /\ i + 1 \in DOMAIN batch /\ i + 1 # 1
                                       /\ Tail(batch)[i] = batch[i + 1]
  BY <1>1, <1>4
<1>7. PICK s : s = Sln(heap, p)
  OBVIOUS
<1>8. PICK at1 : at1 = [at EXCEPT ![s] = <<"push", Poller>>]
  OBVIOUS
<1>9. row[s] = 1
  <2>1. s \in Solutions /\ at[s] = <<"batch", Poller>>
    BY <1>1, <1>5, <1>7, AtIs DEF At, HeapTypes
  <2> QED BY <1>1, <2>1 DEF RowsFit, RowFits
<1>10. /\ HeldAside(at1, Poller)' /\ PushHeld(at1, Poller)' /\ RowsFit(at1)'
       /\ at1 \in [Solutions -> Spots]
  <2>1. /\ CallPush(Poller, p, "poll_next") /\ "batch" \in {"batch", "queue", "client"}
        /\ UNCHANGED <<heap, allocated, row, checking_solution, outstanding>>
        /\ \A k \in Conns \ {Poller} : solutions_queue'[k] = solutions_queue[k]
    BY <1>2, <1>3
  <2>2. Called(at, at1, Poller, "batch", p, s, "poll_next")
    BY <1>5, <1>7, <1>8, <1>9, <2>1, Thr, CallHeld
  <2> QED BY <2>2 DEF Called, Relabelled
<1>11. BatchHeld(at1)'
  <2>1. ASSUME NEW i \in DOMAIN batch, i # 1
        PROVE  At(heap, allocated, at1, batch[i], <<"batch", Poller>>)
    <3>1. At(heap, allocated, at, batch[i], <<"batch", Poller>>) /\ Sln(heap, batch[i]) # s
      BY <1>1, <1>4, <1>7, <2>1 DEF BatchHeld
    <3>2. Sln(heap, batch[i]) \in Solutions /\ s \in Solutions
      BY <1>1, <1>5, <1>7, <3>1, AtIs DEF HeapTypes
    <3>3. <<"push", Poller>> \in Spots
      BY SpotsAre
    <3> QED BY <1>1, <1>8, <3>1, <3>2, <3>3, AtElse
  <2>2. \A i, j \in DOMAIN batch : Sln(heap, batch[i]) = Sln(heap, batch[j]) => i = j
    BY <1>1 DEF BatchHeld
  <2> QED BY <1>2, <1>6, <2>1, <2>2 DEF BatchHeld
<1> QED BY <1>10, <1>11, Thr, ThreadsAssumption, Together

(* remove_client passes on the solution its client has.                     *)
LEMMA RemoveLockHeld ==
  ASSUME NEW at, Good(at), NEW k \in Conns, RemoveLock(k), checking_solution[k] # Null
  PROVE  \E at1 \in [Solutions -> Spots] : Carries(at1)'
<1>1. /\ BatchHeld(at) /\ RowsFit(at) /\ HeldAside(at, k) /\ PushHeld(at, k)
      /\ ClientHeld(at, k) /\ CopiesOK(k) /\ QueueDistinct(k)
  BY Thr, Together DEF Good
<1>2. pc[k] = "remove_lock" /\ victim[k] = k
  BY DEF RemoveLock, Good, OwnIds, RemovePoints
<1>3. /\ CallPush(k, checking_solution[k], "remove_checked")
      /\ UNCHANGED <<heap, allocated, row, checking_solution, outstanding, solutions_queue, batch>>
  BY <1>2 DEF RemoveLock, data, memory, db, client, world, net
<1>4. PICK p : p = checking_solution[k]
  OBVIOUS
<1>5. PICK s : s = Sln(heap, p)
  OBVIOUS
<1>6. PICK at1 : at1 = [at EXCEPT ![s] = <<"push", k>>]
  OBVIOUS
<1>7. At(heap, allocated, at, p, <<"client", k>>) /\ row[s] = 1
  <2>1. pc[k] \notin PushPoints \cup {"remove_checked"}
    BY <1>2 DEF PushPoints, ScanPoints
  <2> QED BY <1>1, <1>2, <1>4, <1>5, <2>1 DEF ClientHeld, CheckingHeld
<1>8. /\ s \in Solutions /\ at[s] = <<"client", k>> /\ Relabelled(at, s, <<"push", k>>, at1)
      /\ pc'[k] = "push_find" /\ frame'[k].sln = p /\ frame'[k].ret = "remove_checked"
      /\ HeldAside(at1, k)' /\ PushHeld(at1, k)' /\ RowsFit(at1)'
      /\ CheckingHeld(at1, k)' /\ SentHeld(at1, k)'
  <2>1. /\ CallPush(k, p, "remove_checked") /\ "client" \in {"batch", "queue", "client"}
        /\ UNCHANGED <<heap, allocated, row, checking_solution, outstanding>>
        /\ \A j \in Conns \ {k} : solutions_queue'[j] = solutions_queue[j]
    BY <1>3, <1>4
  <2>2. Called(at, at1, k, "client", p, s, "remove_checked")
    BY <1>5, <1>6, <1>7, <2>1, Thr, CallHeld
  <2> QED BY <2>2 DEF Called
<1>9. BatchHeld(at1) /\ QueueHeld(at1, k)
  BY <1>1, <1>8 DEF Relabelled, ClientHeld
<1>10. BatchHeld(at1)' /\ QueueHeld(at1, k)' /\ QueueDistinct(k)'
  BY <1>1, <1>3, <1>9 DEF BatchHeld, QueueHeld, QueueDistinct
<1>11. CopiesOK(k)'
  BY <1>3, <1>4, <1>8 DEF CopiesOK
<1> QED BY <1>8, <1>10, <1>11, Thr, Together DEF ClientHeld, Relabelled

(* The head of a queue leaves it.                                           *)
Popped(at, at1, k, p, s) ==
  /\ At(heap, allocated, at, p, <<"queue", k>>) /\ s \in Solutions /\ at[s] = <<"queue", k>>
  /\ row[s] = 1 /\ QueueHeld(at1, k)' /\ QueueDistinct(k)'
  /\ \A j \in Conns \ {k} : solutions_queue'[j] = solutions_queue[j]

LEMMA PopHeld ==
  ASSUME NEW at, Good(at), NEW k \in Conns, solutions_queue[k] # <<>>,
         UNCHANGED <<heap, allocated>>,
         solutions_queue' = [solutions_queue EXCEPT ![k] = Tail(@)],
         NEW p, p = Head(solutions_queue[k]), NEW s, s = Sln(heap, p),
         NEW new \in Spots, NEW at1, at1 = [at EXCEPT ![s] = new]
  PROVE  Popped(at, at1, k, p, s)
<1> DEFINE q == solutions_queue[k]
<1>1. /\ RowsFit(at) /\ QueueHeld(at, k) /\ QueueDistinct(k)
      /\ at \in [Solutions -> Spots] /\ HeapTypes /\ solutions_queue \in [Conns -> Seq(Pointers)]
  BY DEF Good, Carries, Held, Copies, ClientHeld, VarTypes, ClientTypes
<1>2. /\ q \in Seq(Pointers) /\ 1 \in DOMAIN q /\ p = q[1] /\ solutions_queue'[k] = Tail(q)
      /\ \A i \in DOMAIN Tail(q) : i + 1 \in DOMAIN q /\ Tail(q)[i] = q[i + 1] /\ i + 1 # 1
                                   /\ i \in Nat
  BY <1>1
<1> HIDE DEF q
<1>3. \A i \in DOMAIN q : At(heap, allocated, at, q[i], <<"queue", k>>) /\ Sln(heap, q[i]) \in Solutions
  <2>1. \A i \in DOMAIN q : At(heap, allocated, at, q[i], <<"queue", k>>)
    BY <1>1 DEF QueueHeld, q
  <2> QED BY <1>1, <2>1, AtIs DEF HeapTypes
<1>4. At(heap, allocated, at, p, <<"queue", k>>) /\ s \in Solutions /\ at[s] = <<"queue", k>>
  <2>1. At(heap, allocated, at, p, <<"queue", k>>) /\ s \in Solutions
    BY <1>2, <1>3
  <2> QED BY <2>1 DEF At
<1>5. row[s] = 1
  BY <1>1, <1>4 DEF RowsFit, RowFits
<1>6. \A i, j \in DOMAIN q : Sln(heap, q[i]) = Sln(heap, q[j]) => i = j
  BY <1>1 DEF QueueDistinct, q
<1>7. \A i \in DOMAIN q : i # 1 => At(heap, allocated, at1, q[i], <<"queue", k>>)
  <2> SUFFICES ASSUME NEW i \in DOMAIN q, i # 1
               PROVE  At(heap, allocated, at1, q[i], <<"queue", k>>)
    OBVIOUS
  <2>1. Sln(heap, q[i]) # s
    BY <1>2, <1>6
  <2> QED BY <1>1, <1>3, <1>4, <2>1, AtElse
<1>8. QueueHeld(at1, k)'
  BY <1>2, <1>7 DEF QueueHeld
<1>9. QueueDistinct(k)'
  BY <1>2, <1>6 DEF QueueDistinct
<1>10. \A j \in Conns \ {k} : solutions_queue'[j] = solutions_queue[j]
  BY <1>1
<1> QED BY <1>4, <1>5, <1>8, <1>9, <1>10 DEF Popped

(* remove_client passes on what its client has in its queue.                *)
LEMMA RemoveQueueHeld ==
  ASSUME NEW at, Good(at), NEW k \in Conns, RemoveQueue(k), solutions_queue[k] # <<>>
  PROVE  \E at1 \in [Solutions -> Spots] : Carries(at1)'
<1>1. BatchHeld(at) /\ CopiesOK(k)
  BY Thr, Together DEF Good
<1>2. pc[k] = "remove_queue" /\ victim[k] = k
  BY DEF RemoveQueue, Good, OwnIds, RemovePoints, DrainPoints
<1>3. /\ CallPush(k, Head(solutions_queue[k]), "remove_queue")
      /\ solutions_queue' = [solutions_queue EXCEPT ![k] = Tail(@)]
      /\ UNCHANGED <<heap, allocated, row, checking_solution, outstanding, batch>>
  BY <1>2 DEF RemoveQueue, memory, db, world, net
<1>4. PICK p : p = Head(solutions_queue[k])
  OBVIOUS
<1>5. PICK s : s = Sln(heap, p)
  OBVIOUS
<1>6. PICK at1 : at1 = [at EXCEPT ![s] = <<"push", k>>]
  OBVIOUS
<1>7. Popped(at, at1, k, p, s)
  <2>1. <<"push", k>> \in Spots
    BY SpotsAre
  <2> QED BY <1>3, <1>4, <1>5, <1>6, <2>1, PopHeld
<1>8. Called(at, at1, k, "queue", p, s, "remove_queue")
  <2>1. /\ CallPush(k, p, "remove_queue") /\ "queue" \in {"batch", "queue", "client"}
        /\ UNCHANGED <<heap, allocated, row, checking_solution, outstanding>>
        /\ \A j \in Conns \ {k} : solutions_queue'[j] = solutions_queue[j]
        /\ At(heap, allocated, at, p, <<"queue", k>>) /\ row[s] = 1
    BY <1>3, <1>4, <1>7 DEF Popped
  <2> QED BY <1>5, <1>6, <2>1, Thr, CallHeld
<1>9. BatchHeld(at1)'
  <2>1. BatchHeld(at1)
    BY <1>1, <1>7, <1>8 DEF Popped, Called, Relabelled
  <2> QED BY <1>3, <2>1 DEF BatchHeld
<1>10. CopiesOK(k)'
  BY <1>1, <1>2, <1>3, <1>8 DEF CopiesOK, Called
<1>11. at1 \in [Solutions -> Spots] /\ HeldAside(at1, k)' /\ PushHeld(at1, k)' /\ RowsFit(at1)'
       /\ ClientHeld(at1, k)' /\ QueueDistinct(k)'
  BY <1>7, <1>8 DEF Popped, Called, Relabelled, ClientHeld
<1> QED BY <1>9, <1>10, <1>11, Thr, Together

(* process_solutions takes the head of the queue into checking_solution.    *)
LEMMA ProcessHeld ==
  ASSUME NEW at, Good(at), NEW k \in Conns, ProcessSolutions(k),
         solutions_queue' = [solutions_queue EXCEPT ![k] = Tail(@)], solutions_queue[k] # <<>>,
         checking_solution' = [checking_solution EXCEPT ![k] = Head(solutions_queue[k])],
         frame' = [frame EXCEPT ![k] = Holding(Head(solutions_queue[k]))], Goto(k, "send")
  PROVE  \E at1 \in [Solutions -> Spots] : Carries(at1)'
<1>1. /\ BatchHeld(at) /\ RowsFit(at) /\ HeldAside(at, k) /\ PushHeld(at, k)
      /\ ClientHeld(at, k) /\ CopiesOK(k) /\ QueueDistinct(k)
  BY Thr, Together DEF Good
<1>2. /\ at \in [Solutions -> Spots] /\ HeapTypes /\ NetTypes
      /\ pc \in [Threads -> Points] /\ frame \in [Threads -> Frames]
      /\ checking_solution \in [Conns -> Pointers \cup {Null}]
  BY DEF Good, VarTypes, PcType, LocalTypes, ClientTypes
<1>3. pc[k] = "loop" /\ UNCHANGED <<heap, allocated, row, outstanding, batch>>
  BY DEF ProcessSolutions, memory, db, world, net
<1>4. PICK p : p = Head(solutions_queue[k])
  OBVIOUS
<1>5. PICK s : s = Sln(heap, p)
  OBVIOUS
<1>6. PICK at1 : at1 = [at EXCEPT ![s] = <<"client", k>>]
  OBVIOUS
<1>7. Popped(at, at1, k, p, s)
  <2>1. <<"client", k>> \in Spots
    BY Thr, SpotsAre
  <2> QED BY <1>3, <1>4, <1>5, <1>6, <2>1, PopHeld
<1>8. /\ At(heap, allocated, at, p, <<"queue", k>>) /\ s \in Solutions /\ at[s] = <<"queue", k>>
      /\ at[s][2] = k /\ row[s] = 1 /\ p \in Pointers
  <2>1. At(heap, allocated, at, p, <<"queue", k>>) /\ s \in Solutions /\ at[s] = <<"queue", k>> /\ row[s] = 1
    BY <1>7 DEF Popped
  <2> QED BY <2>1 DEF At
<1>9. Relabelled(at, s, <<"client", k>>, at1) /\ HeldAside(at1, k) /\ RowFits(<<"client", k>>, row[s])
      /\ At(heap, allocated, at1, p, <<"client", k>>)
  <2>1. <<"client", k>> \in Spots /\ RowFits(<<"client", k>>, row[s])
    BY <1>8, Thr, SpotsAre DEF RowFits
  <2>2. Relabelled(at, s, <<"client", k>>, at1)
    BY <1>2, <1>6, <1>8, <2>1, Relabel
  <2>3. HeldAside(at1, k)
    BY <1>1, <1>2, <1>6, <1>8, <2>1, Thr, RelabelOwn
  <2>4. At(heap, allocated, at1, p, <<"client", k>>)
    BY <1>2, <1>5, <1>6, <1>8, <2>1, AtPut
  <2> QED BY <2>1, <2>2, <2>3, <2>4
<1>10. /\ at1 \in [Solutions -> Spots] /\ BatchHeld(at1) /\ RowsFit(at1) /\ SentHeld(at1, k)
  BY <1>1, <1>2, <1>8, <1>9 DEF Relabelled, ClientHeld, NetTypes
<1>11. /\ pc'[k] = "send" /\ frame'[k].sln = p /\ checking_solution'[k] = p
       /\ \A u \in Threads \ {k} : pc'[u] = pc[u] /\ frame'[u] = frame[u]
       /\ \A j \in Conns \ {k} : checking_solution'[j] = checking_solution[j]
  BY <1>2, <1>4, Thr DEF Goto, Holding, Frame
<1>12. HeldAside(at1, k)'
  <2>1. Aside(k)
    BY <1>3, <1>7, <1>11 DEF Aside, Popped
  <2> QED BY <1>2, <1>3, <1>9, <1>10, <2>1, Thr, KeepsAll, AsideStep
<1>13. BatchHeld(at1)' /\ RowsFit(at1)' /\ PushHeld(at1, k)'
  BY <1>3, <1>10, <1>11 DEF BatchHeld, RowsFit, PushHeld, PushPoints, ScanPoints
<1>14. CheckingHeld(at1, k)' /\ SentHeld(at1, k)' /\ CopiesOK(k)'
  <2>1. CheckingHeld(at1, k)'
    BY <1>3, <1>5, <1>8, <1>9, <1>11 DEF CheckingHeld
  <2>2. SentHeld(at1, k)'
    BY <1>3, <1>10, <1>11 DEF SentHeld, ServePoints
  <2>3. p # Null
    BY <1>8, PointersAssumption DEF Pointers
  <2>4. CopiesOK(k)'
    BY <1>11, <2>3 DEF CopiesOK, PushPoints, ScanPoints
  <2> QED BY <2>1, <2>2, <2>4
<1> QED BY <1>7, <1>10, <1>12, <1>13, <1>14, Thr, Together DEF Popped, ClientHeld

(* What is followed where every thread works on its own client.             *)
HeldAre ==
  /\ \A i \in DOMAIN batch : batch[i] \in HeldPointers
  /\ \A t \in Threads : pc[t] \in PushPoints => frame[t].sln \in HeldPointers
  /\ \A k \in Conns : \A i \in DOMAIN solutions_queue[k] : solutions_queue[k][i] \in HeldPointers
  /\ \A k \in Conns : pc[k] # "remove_checked" => checking_solution[k] \in HeldPointers

LEMMA HeldPlaces == OwnIds => HeldAre
<1> SUFFICES ASSUME OwnIds PROVE HeldAre
  OBVIOUS
<1>1. \A i \in DOMAIN batch : batch[i] \in HeldPointers
  BY DEF HeldPointers
<1>2. \A t \in Threads : pc[t] \in PushPoints => frame[t].sln \in HeldPointers
  BY DEF HeldPointers
<1>3. \A k \in Conns : \A i \in DOMAIN solutions_queue[k] : solutions_queue[k][i] \in HeldPointers
  BY DEF HeldPointers
<1>4. ASSUME NEW k \in Conns, pc[k] # "remove_checked" PROVE checking_solution[k] \in HeldPointers
  <2>1. \A t \in Conns : pc[t] = "remove_checked" => victim[t] # k
    BY <1>4 DEF OwnIds, RemovePoints, DrainPoints
  <2> QED BY <2>1 DEF HeldPointers
<1> QED BY <1>1, <1>2, <1>3, <1>4 DEF HeldAre

(* Where arrays are freed, those that others have a pointer into are not.   *)
LEMMA FreedHeld ==
  ASSUME NEW at, Good(at), NEW k \in Conns, Aside(k), OwnIds', ~Dangling',
         UNCHANGED <<heap, row, batch, frame>>, allocated' \subseteq allocated
  PROVE  BatchHeld(at)' /\ RowsFit(at)' /\ HeldAside(at, k)'
<1>h. HeldAre'
  BY HeldPlaces, PTL
<1>1. BatchHeld(at) /\ RowsFit(at) /\ HeldAside(at, k)
  BY Thr, Together DEF Good
<1>2. HeapTypes /\ NetTypes /\ allocated \in SUBSET Blocks
  BY DEF Good, VarTypes, HeapTypes
<1>3. ASSUME NEW p, NEW spot, At(heap, allocated, at, p, spot), p \in HeldPointers'
      PROVE  At(heap', allocated', at, p, spot) /\ Sln(heap', p) = Sln(heap, p)
  <2>1. p # Null
    BY <1>2, <1>3, AtIs DEF HeapTypes
  <2>2. p[1] \in allocated'
    BY <1>3, <2>1 DEF Dangling
  <2> QED BY <1>3, <2>2, AtLess
<1>4. RowsFit(at)'
  BY <1>1 DEF RowsFit
<1>5. BatchHeld(at)'
  <2>1. \A i \in DOMAIN batch' : batch'[i] \in HeldPointers'
    BY <1>h DEF HeldAre
  <2> QED BY <1>1, <1>3, <2>1 DEF BatchHeld
<1>6. ASSUME NEW u \in Threads \ {k} PROVE PushHeld(at, u)'
  <2>1. pc'[u] \in PushPoints => frame'[u].sln \in HeldPointers'
    BY <1>h DEF HeldAre
  <2> QED BY <1>1, <1>3, <2>1 DEF PushHeld, HeldAside, Aside
<1>7. ASSUME NEW j \in Conns \ {k} PROVE ClientHeld(at, j)' /\ CopiesOK(j)' /\ QueueDistinct(j)'
  <2>1. /\ ClientHeld(at, j) /\ CopiesOK(j) /\ QueueDistinct(j) /\ outstanding[j] \subseteq Solutions
        /\ pc'[j] = pc[j] /\ solutions_queue'[j] = solutions_queue[j]
        /\ checking_solution'[j] = checking_solution[j] /\ outstanding'[j] \subseteq outstanding[j]
    BY <1>1, <1>2, Thr DEF HeldAside, Aside, NetTypes
  <2>2. QueueHeld(at, j)' /\ QueueDistinct(j)'
    <3>1. \A i \in DOMAIN solutions_queue'[j] : solutions_queue'[j][i] \in HeldPointers'
      BY <1>h DEF HeldAre
    <3> QED BY <1>3, <2>1, <3>1 DEF QueueHeld, QueueDistinct, ClientHeld
  <2>3. CheckingHeld(at, j)'
    <3>1. pc'[j] # "remove_checked" => checking_solution'[j] \in HeldPointers'
      BY <1>h DEF HeldAre
    <3> QED BY <1>3, <2>1, <3>1 DEF CheckingHeld, ClientHeld
  <2>4. SentHeld(at, j)' /\ CopiesOK(j)'
    BY <2>1 DEF SentHeld, CopiesOK, ClientHeld
  <2> QED BY <2>2, <2>3, <2>4 DEF ClientHeld
<1> QED BY <1>4, <1>5, <1>6, <1>7 DEF HeldAside

(* client_free frees what is in the client's own queue.                     *)
LEMMA FreeHeld ==
  ASSUME NEW at, Good(at), NEW k \in Conns, client_free(k), OwnIds', ~dangled'
  PROVE  Carries(at)'
<1>1. /\ BatchHeld(at) /\ RowsFit(at) /\ HeldAside(at, k) /\ PushHeld(at, k)
      /\ ClientHeld(at, k) /\ CopiesOK(k) /\ QueueDistinct(k)
  BY Thr, Together DEF Good
<1>2. /\ at \in [Solutions -> Spots] /\ HeapTypes /\ NetTypes /\ pc \in [Threads -> Points]
      /\ solutions_queue \in [Conns -> Seq(Pointers)]
      /\ checking_solution \in [Conns -> Pointers \cup {Null}]
  BY DEF Good, VarTypes, PcType, ClientTypes
<1>3. pc[k] = "remove_free" /\ victim[k] = k
  BY DEF client_free, Step, Good, OwnIds, RemovePoints
<1>4. checking_solution[k] = Null
  BY <1>1, <1>3 DEF CopiesOK
<1>5. /\ allocated' = {b \in allocated :
            <<b, 1>> \notin {solutions_queue[k][i] : i \in DOMAIN solutions_queue[k]} \cup {Null}}
      /\ solutions_queue' = [solutions_queue EXCEPT ![k] = <<>>]
      /\ checking_solution' = [checking_solution EXCEPT ![k] = Null]
      /\ outstanding' = [outstanding EXCEPT ![k] = {}]
      /\ UNCHANGED <<heap, row, batch, frame>> /\ pc' = [pc EXCEPT ![k] = "gone"]
  BY <1>3, <1>4 DEF client_free, Step, Goto, db
<1>6. /\ pc'[k] = "gone" /\ solutions_queue'[k] = <<>> /\ checking_solution'[k] = Null
      /\ outstanding'[k] = {}
      /\ \A u \in Threads \ {k} : pc'[u] = pc[u]
      /\ \A j \in Conns \ {k} : /\ solutions_queue'[j] = solutions_queue[j]
                                /\ checking_solution'[j] = checking_solution[j]
                                /\ outstanding'[j] = outstanding[j]
  BY <1>2, <1>5, Thr DEF NetTypes
<1>7. BatchHeld(at)' /\ RowsFit(at)' /\ HeldAside(at, k)'
  <2>1. Aside(k)
    BY <1>5, <1>6 DEF Aside
  <2>2. ~Dangling'
    BY Zenon DEF client_free
  <2>3. allocated' \subseteq allocated
    BY <1>5
  <2> QED BY <1>5, <2>1, <2>2, <2>3, FreedHeld
<1>8. PushHeld(at, k)' /\ ClientHeld(at, k)' /\ CopiesOK(k)' /\ QueueDistinct(k)'
  <2>1. PushHeld(at, k)' /\ SentHeld(at, k)' /\ CheckingHeld(at, k)' /\ CopiesOK(k)'
    BY <1>6 DEF PushHeld, SentHeld, CheckingHeld, CopiesOK, PushPoints, ScanPoints, ServePoints
  <2>2. QueueHeld(at, k)' /\ QueueDistinct(k)'
    BY <1>6 DEF QueueHeld, QueueDistinct
  <2> QED BY <2>1, <2>2 DEF ClientHeld
<1> QED BY <1>7, <1>8, Thr, Together

(* client_loop frees the solution it was checking.                          *)
LEMMA ClearHeld ==
  ASSUME NEW at, Good(at), NEW k \in Conns, ClearChecking(k), OwnIds', ~dangled'
  PROVE  Carries(at)'
<1>1. /\ BatchHeld(at) /\ RowsFit(at) /\ HeldAside(at, k) /\ PushHeld(at, k)
      /\ ClientHeld(at, k) /\ CopiesOK(k) /\ QueueDistinct(k)
  BY Thr, Together DEF Good
<1>2. /\ at \in [Solutions -> Spots] /\ HeapTypes /\ NetTypes /\ pc \in [Threads -> Points]
      /\ checking_solution \in [Conns -> Pointers \cup {Null}]
  BY DEF Good, VarTypes, PcType, ClientTypes
<1>3. /\ pc[k] = "clear" /\ pc' = [pc EXCEPT ![k] = "loop"]
      /\ checking_solution' = [checking_solution EXCEPT ![k] = Null]
      /\ solution_free(checking_solution[k])
      /\ UNCHANGED <<heap, row, batch, frame, solutions_queue, outstanding>>
  BY DEF ClearChecking, Step, Goto, NotChecking, db, locals, world, net
<1>4. /\ pc'[k] = "loop" /\ checking_solution'[k] = Null
      /\ \A u \in Threads \ {k} : pc'[u] = pc[u]
      /\ \A j \in Conns \ {k} : checking_solution'[j] = checking_solution[j]
  BY <1>2, <1>3, Thr
<1>5. BatchHeld(at)' /\ RowsFit(at)' /\ HeldAside(at, k)'
  <2>1. Aside(k)
    BY <1>3, <1>4 DEF Aside
  <2>2. ~Dangling'
    BY Zenon DEF ClearChecking
  <2>3. allocated' \subseteq allocated
    BY <1>3 DEF solution_free
  <2> QED BY <1>3, <2>1, <2>2, <2>3, FreedHeld
<1>6. QueueHeld(at, k)' /\ QueueDistinct(k)'
  <2>0. HeldAre'
    BY HeldPlaces, PTL
  <2>1. \A i \in DOMAIN solutions_queue[k] : solutions_queue[k][i] \in HeldPointers'
    BY <1>3, <2>0 DEF HeldAre
  <2>2. ~Dangling'
    BY Zenon DEF ClearChecking
  <2>3. ASSUME NEW i \in DOMAIN solutions_queue[k]
        PROVE  At(heap, allocated', at, solutions_queue[k][i], <<"queue", k>>)
    <3>1. At(heap, allocated, at, solutions_queue[k][i], <<"queue", k>>)
      BY <1>1 DEF ClientHeld, QueueHeld
    <3>2. solutions_queue[k][i] # Null
      BY <1>2, <3>1, AtIs DEF HeapTypes
    <3> QED BY <2>1, <2>2, <3>1, <3>2, AtLess DEF Dangling
  <2> QED BY <1>1, <1>3, <2>3 DEF QueueHeld, QueueDistinct
<1>7. PushHeld(at, k)' /\ CheckingHeld(at, k)' /\ SentHeld(at, k)' /\ CopiesOK(k)'
  <2>1. pc[k] \in ServePoints
    BY <1>3 DEF ServePoints
  <2>2. SentHeld(at, k)'
    BY <1>1, <1>3, <2>1 DEF SentHeld, ClientHeld
  <2>3. PushHeld(at, k)' /\ CheckingHeld(at, k)' /\ CopiesOK(k)'
    BY <1>4 DEF PushHeld, CheckingHeld, CopiesOK, PushPoints, ScanPoints
  <2> QED BY <2>2, <2>3
<1> QED BY <1>5, <1>6, <1>7, Thr, Together DEF ClientHeld

(* A result is posted for what this client was sent.                        *)
LEMMA ResultHeld ==
  ASSUME NEW at, Good(at), NEW k \in Conns, RecvResult(k)
  PROVE  /\ Carries(at)'
         /\ \E s \in Solutions : /\ row[s] = 1
                                 /\ \A r \in Solutions \ {s} : row'[r] = row[r] /\ response'[r] = response[r]
<1>1. /\ BatchHeld(at) /\ RowsFit(at) /\ HeldAside(at, k) /\ PushHeld(at, k)
      /\ ClientHeld(at, k) /\ CopiesOK(k) /\ QueueDistinct(k)
  BY Thr, Together DEF Good
<1>2. /\ at \in [Solutions -> Spots] /\ HeapTypes /\ NetTypes /\ pc \in [Threads -> Points]
      /\ row \in [Solutions -> -1..2] /\ response \in [Solutions -> Verdicts]
  BY DEF Good, VarTypes, PcType, DbTypes
<1>3. PICK s \in outstanding[k], code \in ResultCodes :
        /\ post_result(s, code)
        /\ outstanding' = [outstanding EXCEPT ![k] = @ \ {s}]
  BY DEF RecvResult
<1>4. /\ pc[k] = "recv" /\ pc' = [pc EXCEPT ![k] = "clear"]
      /\ UNCHANGED <<heap, allocated, batch, frame, solutions_queue, checking_solution>>
  BY DEF RecvResult, Step, Goto, memory, client, locals
<1>5. s \in Solutions /\ at[s] = <<"client", k>> /\ at[s][2] = k /\ row[s] = 1
  <2>1. s \in Solutions
    BY <1>2, <1>3 DEF NetTypes
  <2>2. at[s] = <<"client", k>> /\ row[s] = 1
    BY <1>1, <1>3, <1>4 DEF ClientHeld, SentHeld, ServePoints
  <2> QED BY <2>1, <2>2
<1>6. /\ \A r \in Solutions \ {s} : row'[r] = row[r] /\ response'[r] = response[r]
      /\ row'[s] \in {1, 2}
  BY <1>2, <1>3, <1>5 DEF post_result, solution_post_result, db
<1>7. /\ pc'[k] = "clear" /\ outstanding'[k] = outstanding[k] \ {s}
      /\ \A u \in Threads \ {k} : pc'[u] = pc[u]
      /\ \A j \in Conns \ {k} : outstanding'[j] = outstanding[j]
  BY <1>2, <1>3, <1>4, Thr DEF NetTypes
<1>8. HeldAside(at, k)'
  <2>1. Aside(k)
    BY <1>4, <1>7 DEF Aside
  <2>2. \A r \in Solutions : at[r][2] # k => row'[r] = row[r]
    BY <1>5, <1>6
  <2> QED BY <1>1, <1>2, <1>4, <2>1, <2>2, Thr, KeepsAll, AsideStep
<1>9. RowsFit(at)'
  <2>1. RowFits(at[s], row'[s])
    BY <1>5, <1>6 DEF RowFits
  <2> QED BY <1>1, <1>6, <2>1 DEF RowsFit
<1>10. BatchHeld(at)' /\ QueueHeld(at, k)' /\ QueueDistinct(k)'
  BY <1>1, <1>4 DEF BatchHeld, QueueHeld, QueueDistinct, ClientHeld
<1>11. PushHeld(at, k)' /\ CheckingHeld(at, k)' /\ SentHeld(at, k)' /\ CopiesOK(k)'
  <2>1. SentHeld(at, k)'
    BY <1>1, <1>2, <1>4, <1>6, <1>7 DEF SentHeld, ClientHeld, ServePoints, NetTypes
  <2>2. CheckingHeld(at, k)'
    BY <1>1, <1>4, <1>7 DEF CheckingHeld, ClientHeld, PushPoints, ScanPoints
  <2>3. PushHeld(at, k)' /\ CopiesOK(k)'
    BY <1>7 DEF PushHeld, CopiesOK, PushPoints, ScanPoints
  <2> QED BY <2>1, <2>2, <2>3
<1> QED BY <1>5, <1>6, <1>8, <1>9, <1>10, <1>11, Thr, Together DEF ClientHeld

(* What is sent is what the client is checking.                             *)
LEMMA SendHeld ==
  ASSUME NEW at, Good(at), NEW k \in Conns, SendSolution(k)
  PROVE  Carries(at)'
<1>1. /\ BatchHeld(at) /\ RowsFit(at) /\ HeldAside(at, k) /\ PushHeld(at, k)
      /\ ClientHeld(at, k) /\ CopiesOK(k) /\ QueueDistinct(k)
  BY Thr, Together DEF Good
<1>2. /\ at \in [Solutions -> Spots] /\ HeapTypes /\ NetTypes /\ pc \in [Threads -> Points]
      /\ frame \in [Threads -> Frames]
  BY DEF Good, VarTypes, PcType, LocalTypes
<1>3. PICK s \in Deref(frame[k].sln) :
        outstanding' = [outstanding EXCEPT ![k] = @ \cup {s}] \/ UNCHANGED outstanding
  BY DEF SendSolution
<1>4. /\ pc[k] = "send" /\ pc' = [pc EXCEPT ![k] = "recv"]
      /\ frame' = [frame EXCEPT ![k] = Holding(Null)]
      /\ UNCHANGED <<heap, allocated, row, batch, solutions_queue, checking_solution>>
  BY DEF SendSolution, Step, Goto, data, memory, client, db
<1>5. /\ At(heap, allocated, at, checking_solution[k], <<"client", k>>)
      /\ row[Sln(heap, checking_solution[k])] = 1 /\ frame[k].sln = checking_solution[k]
  BY <1>1, <1>4 DEF CopiesOK, ClientHeld, CheckingHeld, PushPoints, ScanPoints
<1>6. at[s] = <<"client", k>> /\ row[s] = 1
  <2>1. s = Sln(heap, checking_solution[k])
    BY <1>2, <1>3, <1>5, DerefIs
  <2> QED BY <1>5, <2>1 DEF At
<1>7. /\ pc'[k] = "recv" /\ outstanding'[k] \subseteq outstanding[k] \cup {s}
      /\ \A u \in Threads \ {k} : pc'[u] = pc[u] /\ frame'[u] = frame[u]
      /\ \A j \in Conns \ {k} : outstanding'[j] = outstanding[j]
  BY <1>2, <1>3, <1>4, Thr DEF NetTypes
<1>8. HeldAside(at, k)'
  <2>1. Aside(k)
    BY <1>4, <1>7 DEF Aside
  <2> QED BY <1>1, <1>2, <1>4, <2>1, Thr, KeepsAll, AsideStep
<1>9. BatchHeld(at)' /\ RowsFit(at)' /\ QueueHeld(at, k)' /\ QueueDistinct(k)'
  BY <1>1, <1>4 DEF BatchHeld, RowsFit, QueueHeld, QueueDistinct, ClientHeld
<1>10. PushHeld(at, k)' /\ CheckingHeld(at, k)' /\ SentHeld(at, k)' /\ CopiesOK(k)'
  <2>1. SentHeld(at, k)'
    BY <1>1, <1>4, <1>6, <1>7 DEF SentHeld, ClientHeld, ServePoints
  <2>2. CheckingHeld(at, k)'
    BY <1>4, <1>5, <1>7 DEF CheckingHeld
  <2>3. PushHeld(at, k)' /\ CopiesOK(k)'
    BY <1>7 DEF PushHeld, CopiesOK, PushPoints, ScanPoints
  <2> QED BY <2>1, <2>2, <2>3
<1> QED BY <1>8, <1>9, <1>10, Thr, Together DEF ClientHeld

(* What was passed on is not the client's any more.                         *)
LEMMA CheckedHeld ==
  ASSUME NEW at, Good(at), NEW k \in Conns, RemoveChecked(k)
  PROVE  Carries(at)'
<1>1. /\ BatchHeld(at) /\ RowsFit(at) /\ HeldAside(at, k) /\ PushHeld(at, k)
      /\ ClientHeld(at, k) /\ CopiesOK(k) /\ QueueDistinct(k)
  BY Thr, Together DEF Good
<1>2. /\ at \in [Solutions -> Spots] /\ HeapTypes /\ NetTypes /\ pc \in [Threads -> Points]
      /\ checking_solution \in [Conns -> Pointers \cup {Null}]
  BY DEF Good, VarTypes, PcType, ClientTypes
<1>3. /\ pc[k] = "remove_checked" /\ victim[k] = k /\ pc' = [pc EXCEPT ![k] = "remove_queue"]
      /\ UNCHANGED <<heap, allocated, row, batch, frame, solutions_queue, outstanding>>
  BY DEF RemoveChecked, Step, Goto, memory, db, locals, world, net, Good, OwnIds, RemovePoints,
         DrainPoints
<1>4. checking_solution' = [checking_solution EXCEPT ![k] = Null]
  BY <1>3 DEF RemoveChecked, NotChecking
<1>5. /\ pc'[k] = "remove_queue" /\ checking_solution'[k] = Null
      /\ \A u \in Threads \ {k} : pc'[u] = pc[u]
      /\ \A j \in Conns \ {k} : checking_solution'[j] = checking_solution[j]
  BY <1>2, <1>3, <1>4, Thr
<1>6. HeldAside(at, k)'
  <2>1. Aside(k)
    BY <1>3, <1>5 DEF Aside
  <2> QED BY <1>1, <1>2, <1>3, <2>1, Thr, KeepsAll, AsideStep
<1>7. BatchHeld(at)' /\ RowsFit(at)' /\ QueueHeld(at, k)' /\ QueueDistinct(k)'
  BY <1>1, <1>3 DEF BatchHeld, RowsFit, QueueHeld, QueueDistinct, ClientHeld
<1>8. PushHeld(at, k)' /\ CheckingHeld(at, k)' /\ SentHeld(at, k)' /\ CopiesOK(k)'
  BY <1>5 DEF PushHeld, CheckingHeld, SentHeld, CopiesOK, PushPoints, ScanPoints, ServePoints
<1> QED BY <1>6, <1>7, <1>8, Thr, Together DEF ClientHeld

(* New rows are nowhere yet; giving them a spot takes nothing from anybody. *)
Entered(at1, S, w) ==
  /\ at1 \in [Solutions -> Spots] /\ \A s \in S : at1[s] = <<w, Poller>>
  /\ BatchHeld(at1) /\ HeldAside(at1, Poller) /\ PushHeld(at1, Poller)
  /\ \A r \in Solutions \ S : RowFits(at1[r], row[r])

LEMMA NewRowsHeld ==
  ASSUME NEW at, Good(at), NEW S \in SUBSET Solutions, \A s \in S : row[s] \notin {1, 2},
         NEW w \in {"none", "batch"},
         NEW at1, at1 = [s \in Solutions |-> IF s \in S THEN <<w, Poller>> ELSE at[s]]
  PROVE  Entered(at1, S, w)
<1>1. BatchHeld(at) /\ RowsFit(at) /\ HeldAside(at, Poller) /\ PushHeld(at, Poller)
  BY Thr, Together DEF Good
<1>2. at \in [Solutions -> Spots] /\ HeapTypes /\ NetTypes
  BY DEF Good, VarTypes
<1>3. /\ at1 \in [Solutions -> Spots] /\ \A s \in S : at1[s] = <<w, Poller>>
      /\ \A r \in Solutions \ S : at1[r] = at[r]
  <2>1. <<w, Poller>> \in Spots
    BY SpotsAre
  <2> QED BY <1>2, <2>1
<1>4. ASSUME NEW s \in Solutions, NEW t, NEW v \in {"batch", "push", "queue", "client"}, at[s] = <<v, t>>
      PROVE  at1[s] = at[s]
  <2>1. row[s] \in {1, 2}
    BY <1>1, <1>4 DEF RowsFit, RowFits
  <2> QED BY <1>3, <2>1
<1>5. ASSUME NEW p, NEW t, NEW v \in {"batch", "push", "queue", "client"},
             At(heap, allocated, at, p, <<v, t>>)
      PROVE  At(heap, allocated, at1, p, <<v, t>>)
  <2>1. Sln(heap, p) \in Solutions
    BY <1>2, <1>5, AtIs DEF HeapTypes
  <2>2. at[Sln(heap, p)] = <<v, t>>
    BY <1>5 DEF At
  <2>3. at1[Sln(heap, p)] = <<v, t>>
    BY <1>4, <2>1, <2>2
  <2> QED BY <1>5, <2>3 DEF At
<1>6. BatchHeld(at1)
  BY <1>1, <1>5 DEF BatchHeld
<1>7. PushHeld(at1, Poller) /\ \A u \in Threads \ {Poller} : PushHeld(at1, u)
  BY <1>1, <1>5 DEF HeldAside, PushHeld
<1>8. ASSUME NEW k \in Conns \ {Poller} PROVE ClientHeld(at1, k) /\ CopiesOK(k) /\ QueueDistinct(k)
  <2>1. ClientHeld(at, k) /\ CopiesOK(k) /\ QueueDistinct(k) /\ outstanding[k] \subseteq Solutions
    BY <1>1, <1>2 DEF HeldAside, NetTypes
  <2>2. QueueHeld(at1, k) /\ CheckingHeld(at1, k)
    BY <1>5, <2>1 DEF QueueHeld, CheckingHeld, ClientHeld
  <2>3. SentHeld(at1, k)
    BY <1>4, <2>1 DEF SentHeld, ClientHeld
  <2> QED BY <2>1, <2>2, <2>3 DEF ClientHeld
<1>9. \A r \in Solutions \ S : RowFits(at1[r], row[r])
  BY <1>1, <1>3 DEF RowsFit
<1> QED BY <1>3, <1>6, <1>7, <1>8, <1>9 DEF HeldAside, Entered

(* An array in which every new row is has each of them once.                *)
LEMMA EachRowOnce ==
  ASSUME NEW arr \in [1..Cardinality(NewRows) -> NewRows],
         \A s \in NewRows : \E i \in DOMAIN arr : arr[i] = s
  PROVE  \A i, j \in DOMAIN arr : arr[i] = arr[j] => i = j
<1>1. PICK n : n = Cardinality(NewRows)
  OBVIOUS
<1>2. n \in Nat
  BY <1>1, NewArray
<1>3. IsFiniteSet(1..n) /\ Cardinality(1..n) = n
  BY <1>2, FS_Interval
<1>4. arr \in Surjection(1..n, NewRows)
  BY <1>1 DEF Surjection
<1>5. arr \in Injection(1..n, NewRows)
  BY <1>1, <1>3, <1>4, FS_SurjSameCardinalityImpliesInj
<1> QED BY <1>5 DEF Injection, IsInjective

(* solutions_extract_new.                                                   *)
LEMMA ExtractHeld ==
  ASSUME NEW at, Good(at), PollExtract, NewRows # {}
  PROVE  \E at1 \in [Solutions -> Spots] : Carries(at1)'
<1>1. NewRows \in SUBSET Solutions /\ \A s \in NewRows : row[s] = 0
  BY DEF NewRows
<1>2. /\ at \in [Solutions -> Spots] /\ HeapTypes /\ NetTypes /\ pc \in [Threads -> Points]
      /\ row \in [Solutions -> -1..2]
  BY DEF Good, VarTypes, PcType, DbTypes
<1>4. UNCHANGED <<frame, solutions_queue, checking_solution, outstanding>> /\ pc[Poller] = "poll_sleep"
  BY DEF PollExtract, client, locals, net
<1>5. \A r \in Solutions \ NewRows : row'[r] = row[r]
  BY <1>1, <1>2 DEF PollExtract
<1>6. pc'[Poller] \in {"poll_next", "poll_loop"} /\ \A u \in Threads \ {Poller} : pc'[u] = pc[u]
  BY <1>2, Thr DEF PollExtract, Goto
<1>7. Aside(Poller)
  BY <1>4, <1>6 DEF Aside
<1>8. ASSUME NEW w \in {"none", "batch"}, NEW at1, Entered(at1, NewRows, w),
             \A spot : Keeps(heap, allocated, heap', allocated', at1, spot),
             w = "batch" => \A s \in NewRows : row'[s] = 1, BatchHeld(at1)'
      PROVE  at1 \in [Solutions -> Spots] /\ Carries(at1)'
  <2>1. /\ at1 \in [Solutions -> Spots] /\ \A s \in NewRows : at1[s] = <<w, Poller>>
        /\ HeldAside(at1, Poller) /\ \A r \in Solutions \ NewRows : RowFits(at1[r], row[r])
    BY <1>8 DEF Entered
  <2>2. HeldAside(at1, Poller)'
    <3>1. \A r \in Solutions : at1[r][2] # Poller => row'[r] = row[r]
      BY <1>5, <2>1
    <3> QED BY <1>2, <1>7, <1>8, <2>1, <3>1, Thr, AsideStep
  <2>3. RowsFit(at1)'
    <3>1. \A s \in NewRows : RowFits(at1[s], row'[s])
      BY <1>8, <2>1 DEF RowFits
    <3> QED BY <1>5, <2>1, <3>1 DEF RowsFit
  <2>4. PushHeld(at1, Poller)'
    BY <1>6 DEF PushHeld, PushPoints, ScanPoints
  <2> QED BY <1>8, <2>1, <2>2, <2>3, <2>4, Thr, ThreadsAssumption, Together
<1>9. ASSUME NEW w \in {"none", "batch"} PROVE \E at1 : Entered(at1, NewRows, w)
  <2>1. \A s \in NewRows : row[s] \notin {1, 2}
    BY <1>1
  <2>2. PICK at1 : at1 = [s \in Solutions |-> IF s \in NewRows THEN <<w, Poller>> ELSE at[s]]
    OBVIOUS
  <2>3. Entered(at1, NewRows, w)
    BY <1>1, <2>1, <2>2, NewRowsHeld
  <2> QED BY <2>3
<1>10. CASE UNCHANGED <<heap, allocated, batch>>
  <2>1. PICK at1 : Entered(at1, NewRows, "none")
    BY <1>9
  <2>2. BatchHeld(at1)'
    BY <1>10, <2>1 DEF BatchHeld, Entered
  <2>3. \A spot : Keeps(heap, allocated, heap', allocated', at1, spot)
    BY <1>10, KeepsAll
  <2> QED BY <1>8, <2>1, <2>2, <2>3
<1>11. ASSUME NEW b \in Blocks \ allocated, NEW arr \in [1..Cardinality(NewRows) -> NewRows],
              \A s \in NewRows : \E i \in DOMAIN arr : arr[i] = s,
              heap' = [heap EXCEPT ![b] = arr], allocated' = allocated \cup {b},
              batch' = ToPush(b, arr), \A s \in NewRows : row'[s] = 1
       PROVE  \E at1 \in [Solutions -> Spots] : Carries(at1)'
  <2>1. /\ arr \in Seq(Solutions) /\ \A i \in DOMAIN arr : arr[i] \in NewRows /\ i \in Nat \ {0}
        /\ \A i, j \in DOMAIN arr : arr[i] = arr[j] => i = j
    BY <1>11, NewArray, EachRowOnce
  <2>2. PICK at1 : Entered(at1, NewRows, "batch")
    BY <1>9
  <2>3. \A s \in NewRows : at1[s] = <<"batch", Poller>>
    BY <2>2 DEF Entered
  <2>4. \A spot : Keeps(heap, allocated, heap', allocated', at1, spot)
    BY <1>2, <1>11, KeepsFresh
  <2>5. heap'[b] = arr /\ b \in allocated'
    BY <1>2, <1>11 DEF HeapTypes
  <2>6. /\ DOMAIN batch' = DOMAIN arr
        /\ \A i \in DOMAIN arr : /\ batch'[i] = <<b, i>> /\ <<b, i>>[1] = b /\ <<b, i>>[2] = i
                                 /\ <<b, i>> \in Pointers
    BY <1>11, <2>1 DEF ToPush, Pointers
  <2>7. \A i \in DOMAIN arr : Sln(heap', batch'[i]) = arr[i]
    BY <2>5, <2>6 DEF Sln
  <2>8. BatchHeld(at1)'
    <3>1. \A i \in DOMAIN arr : At(heap', allocated', at1, batch'[i], <<"batch", Poller>>)
      <4> SUFFICES ASSUME NEW i \in DOMAIN arr
                   PROVE  At(heap', allocated', at1, batch'[i], <<"batch", Poller>>)
        OBVIOUS
      <4>1. PICK p : p = batch'[i]
        OBVIOUS
      <4>2. p \in Pointers /\ p[1] = b /\ p[2] = i /\ Sln(heap', p) = arr[i] /\ arr[i] \in NewRows
        <5>1. p = <<b, i>> /\ arr[i] \in NewRows
          BY <2>1, <2>6, <4>1
        <5>2. p \in Pointers
          BY <2>6, <5>1
        <5>3. Sln(heap', p) = arr[i]
          BY <2>7, <4>1, Zenon
        <5> QED BY <5>1, <5>2, <5>3
      <4>3. p[1] \in allocated' /\ p[2] \in DOMAIN heap'[p[1]]
        BY <2>5, <4>2
      <4>4. at1[Sln(heap', p)] = <<"batch", Poller>>
        BY <2>3, <4>2
      <4>5. At(heap', allocated', at1, p, <<"batch", Poller>>)
        BY <4>2, <4>3, <4>4 DEF At
      <4> QED BY <4>1, <4>5
    <3> QED BY <2>1, <2>6, <2>7, <3>1 DEF BatchHeld
  <2> QED BY <1>8, <1>11, <2>2, <2>4, <2>8
<1>12. \/ UNCHANGED <<heap, allocated, batch>>
       \/ \E b \in Blocks \ allocated, arr \in [1..Cardinality(NewRows) -> NewRows] :
            /\ \A s \in NewRows : \E i \in DOMAIN arr : arr[i] = s
            /\ heap' = [heap EXCEPT ![b] = arr] /\ allocated' = allocated \cup {b}
            /\ batch' = ToPush(b, arr) /\ \A s \in NewRows : row'[s] = 1
  BY <1>1 DEF PollExtract, memory
<1> QED BY <1>10, <1>11, <1>12

(* A row is inserted.                                                       *)
LEMMA SubmitHeld ==
  ASSUME NEW at, Good(at), NEW s \in Solutions, Submit(s)
  PROVE  \E at1 \in [Solutions -> Spots] : Carries(at1)'
<1>1. /\ row[s] \notin {1, 2} /\ row' = [row EXCEPT ![s] = 0]
      /\ UNCHANGED <<heap, allocated, batch, pc, frame, solutions_queue, checking_solution, outstanding>>
  BY DEF Submit, memory, client, locals, world, net
<1>2. HeapTypes /\ NetTypes /\ row \in [Solutions -> -1..2]
  BY DEF Good, VarTypes, DbTypes
<1>3. PICK at1 : at1 = [r \in Solutions |-> IF r \in {s} THEN <<"none", Poller>> ELSE at[r]]
  OBVIOUS
<1>4. /\ at1 \in [Solutions -> Spots] /\ at1[s] = <<"none", Poller>>
      /\ BatchHeld(at1) /\ HeldAside(at1, Poller) /\ PushHeld(at1, Poller)
      /\ \A r \in Solutions \ {s} : RowFits(at1[r], row[r])
  <2>1. {s} \in SUBSET Solutions /\ (\A r \in {s} : row[r] \notin {1, 2}) /\ "none" \in {"none", "batch"}
    BY <1>1
  <2>2. Entered(at1, {s}, "none")
    BY <1>3, <2>1, NewRowsHeld
  <2> QED BY <2>2 DEF Entered
<1>5. HeldAside(at1, Poller)'
  <2>1. Aside(Poller)
    BY <1>1 DEF Aside
  <2>2. \A r \in Solutions : at1[r][2] # Poller => row'[r] = row[r]
    BY <1>1, <1>2, <1>4
  <2> QED BY <1>1, <1>2, <1>4, <2>1, <2>2, Thr, KeepsAll, AsideStep
<1>6. RowsFit(at1)'
  <2>1. RowFits(at1[s], row'[s])
    BY <1>4 DEF RowFits
  <2> QED BY <1>1, <1>2, <1>4, <2>1 DEF RowsFit
<1>7. BatchHeld(at1)' /\ PushHeld(at1, Poller)'
  BY <1>1, <1>4 DEF BatchHeld, PushHeld
<1> QED BY <1>4, <1>5, <1>6, <1>7, Thr, ThreadsAssumption, Together

(* Every other step leaves the pointers where they are.                     *)
LEMMA QuietPush ==
  ASSUME NEW at, Good(at), NEW t \in Threads, pc[t] \in PushPoints, pc'[t] \in PushPoints,
         UNCHANGED <<heap, allocated, row, batch, solutions_queue, checking_solution, outstanding>>,
         \A u \in Threads \ {t} : pc'[u] = pc[u] /\ frame'[u] = frame[u],
         frame'[t].sln = frame[t].sln, frame'[t].ret = frame[t].ret
  PROVE  Carries(at)'
<1>1. Untouched(t)
  BY DEF Untouched, PushPoints, ScanPoints, ServePoints
<1> QED BY <1>1, QuietHeld DEF Untouched

LEMMA PushHeldStep ==
  ASSUME NEW at, Good(at), NEW t \in Threads, push_solution(t)
  PROVE  \E at1 \in [Solutions -> Spots] : Carries(at1)'
<1>1. /\ at \in [Solutions -> Spots] /\ pc \in [Threads -> Points] /\ frame \in [Threads -> Frames]
  BY DEF Good, VarTypes, PcType, LocalTypes
<1>2. pc[t] \in PushPoints
  BY PushMoves DEF Good
<1>3. ASSUME NEW s \in Deref(frame[t].sln), solution_post_result(s, "FL"), ReturnPush(t),
             PushFind(t) \/ PushChosen(t)
      PROVE  \E at1 \in [Solutions -> Spots] : Carries(at1)'
  <2>1. UNCHANGED <<heap, allocated, batch, solutions_queue, checking_solution, outstanding>>
    BY <1>3 DEF PushFind, PushChosen, memory, client, net
  <2> QED BY <1>2, <1>3, <2>1, PostHeld
<1>4. CASE PushFind(t)
  <2>1. CASE \E s \in Deref(frame[t].sln) : solution_post_result(s, "FL") /\ ReturnPush(t)
    BY <1>3, <1>4, <2>1
  <2>2. CASE \E i : /\ frame' = [frame EXCEPT ![t] = Frame(frame[t].sln, frame[t].ret, i, {}, NoOne,
                                                          INT32_MAX)]
                    /\ Goto(t, "push_lock") /\ UNCHANGED <<db, faults, pos, victim>>
    <3>1. /\ pc'[t] = "push_lock" /\ frame'[t].sln = frame[t].sln /\ frame'[t].ret = frame[t].ret
          /\ \A u \in Threads \ {t} : pc'[u] = pc[u] /\ frame'[u] = frame[u]
      BY <1>1, <2>2 DEF Goto, Frame
    <3>2. UNCHANGED <<heap, allocated, row, batch, solutions_queue, checking_solution, outstanding>>
      BY <1>4, <2>2 DEF PushFind, memory, client, net, db
    <3>3. pc'[t] \in PushPoints
      BY <3>1 DEF PushPoints
    <3> QED BY <1>1, <1>2, <3>1, <3>2, <3>3, QuietPush
  <2> QED BY <1>4, <2>1, <2>2 DEF PushFind
<1>5. CASE PushLock(t) \/ PushListLock(t)
  <2>1. /\ pc'[t] \in PushPoints /\ UNCHANGED frame
        /\ \A u \in Threads \ {t} : pc'[u] = pc[u]
    BY <1>1, <1>5 DEF PushLock, PushListLock, Step, Goto, PushPoints, ScanPoints, locals
  <2>2. UNCHANGED <<heap, allocated, row, batch, solutions_queue, checking_solution, outstanding>>
    BY <1>5 DEF PushLock, PushListLock, data, memory, client, net, db, world
  <2> QED BY <1>1, <1>2, <2>1, <2>2, QuietPush
<1>6. CASE PushScan(t)
  <2>1. /\ pc'[t] \in PushPoints /\ frame'[t].sln = frame[t].sln /\ frame'[t].ret = frame[t].ret
        /\ \A u \in Threads \ {t} : pc'[u] = pc[u] /\ frame'[u] = frame[u]
    BY <1>6, ScanMoves DEF Good, PushPoints
  <2>2. UNCHANGED <<heap, allocated, row, batch, solutions_queue, checking_solution, outstanding>>
    BY <1>6 DEF PushScan, data, memory, client, net, db, world
  <2> QED BY <1>1, <1>2, <2>1, <2>2, QuietPush
<1>7. CASE PushChosen(t)
  <2>1. CASE \E s \in Deref(frame[t].sln) : solution_post_result(s, "FL") /\ ReturnPush(t)
    BY <1>3, <1>7, <2>1
  <2>2. CASE Goto(t, "push_enqueue") /\ UNCHANGED <<db, locals, faults>>
    <3>1. /\ pc'[t] \in PushPoints /\ UNCHANGED frame
          /\ \A u \in Threads \ {t} : pc'[u] = pc[u]
      BY <1>1, <2>2 DEF Goto, PushPoints, locals
    <3>2. UNCHANGED <<heap, allocated, row, batch, solutions_queue, checking_solution, outstanding>>
      BY <1>7, <2>2 DEF PushChosen, memory, client, net, db
    <3> QED BY <1>1, <1>2, <3>1, <3>2, QuietPush
  <2> QED BY <1>7, <2>1, <2>2 DEF PushChosen
<1>8. CASE PushEnqueue(t)
  BY <1>8, EnqueueHeld
<1> QED BY <1>4, <1>5, <1>6, <1>7, <1>8 DEF push_solution

LEMMA RemoveHeldStep ==
  ASSUME NEW at, Good(at), NEW k \in Conns, remove_client(k), OwnIds', ~dangled'
  PROVE  \E at1 \in [Solutions -> Spots] : Carries(at1)'
<1>1. /\ at \in [Solutions -> Spots] /\ pc \in [Threads -> Points] /\ k \in Threads
      /\ CopiesOK(k)
  BY Thr DEF Good, VarTypes, PcType, Carries, Copies
<1>2. CASE RemoveFind(k) \/ RemoveLockLists(k) \/ RemoveLists(k) \/ RemoveFromMap(k)
  <2>1. /\ pc[k] \in {"remove_find", "remove_lock_lists", "remove_lists", "remove_map"}
        /\ pc'[k] \in {"remove_lock_lists", "remove_lists", "remove_map", "remove_lock", "gone"}
        /\ \A u \in Threads \ {k} : pc'[u] = pc[u]
    BY <1>1, <1>2 DEF RemoveFind, RemoveLockLists, RemoveLists, RemoveFromMap, Step, Goto
  <2>2. UNCHANGED <<heap, allocated, row, batch, solutions_queue, checking_solution, outstanding, frame>>
    BY <1>2 DEF RemoveFind, RemoveLockLists, RemoveLists, RemoveFromMap, data, memory, client, net,
         db, world, locals
  <2>3. Untouched(k)
    BY <2>1, <2>2 DEF Untouched, PushPoints, ScanPoints, ServePoints
  <2> QED BY <1>1, <2>3, ThreadsAssumption, QuietHeld
<1>3. CASE RemoveLock(k)
  <2>1. CASE checking_solution[k] # Null
    BY <1>3, <2>1, RemoveLockHeld
  <2>2. CASE checking_solution[k] = Null
    <3>1. pc[k] = "remove_lock" /\ victim[k] = k
      BY <1>3 DEF RemoveLock, Good, OwnIds, RemovePoints
    <3>2. /\ pc' = [pc EXCEPT ![k] = "remove_queue"]
          /\ UNCHANGED <<heap, allocated, row, batch, solutions_queue, checking_solution, outstanding,
                         frame>>
      BY <1>3, <2>2, <3>1 DEF RemoveLock, Goto, data, memory, client, net, db, world, locals
    <3>3. Untouched(k)
      BY <1>1, <2>2, <3>1, <3>2 DEF Untouched, PushPoints, ScanPoints, ServePoints
    <3> QED BY <1>1, <3>3, ThreadsAssumption, QuietHeld
  <2> QED BY <2>1, <2>2
<1>4. CASE RemoveChecked(k)
  BY <1>1, <1>4, CheckedHeld
<1>5. CASE RemoveQueue(k)
  <2>1. CASE solutions_queue[k] # <<>>
    BY <1>5, <2>1, RemoveQueueHeld
  <2>2. CASE solutions_queue[k] = <<>>
    <3>1. pc[k] = "remove_queue" /\ victim[k] = k
      BY <1>5 DEF RemoveQueue, Good, OwnIds, RemovePoints, DrainPoints
    <3>2. /\ pc' = [pc EXCEPT ![k] = "remove_free"]
          /\ UNCHANGED <<heap, allocated, row, batch, solutions_queue, checking_solution, outstanding,
                         frame>>
      BY <1>5, <2>2, <3>1 DEF RemoveQueue, Goto, memory, client, net, db, world, locals
    <3>3. checking_solution[k] = Null
      BY <1>1, <3>1 DEF CopiesOK
    <3>4. Untouched(k)
      BY <1>1, <3>1, <3>2, <3>3 DEF Untouched, PushPoints, ScanPoints, ServePoints
    <3> QED BY <1>1, <3>4, ThreadsAssumption, QuietHeld
  <2> QED BY <2>1, <2>2
<1>6. CASE client_free(k)
  BY <1>1, <1>6, FreeHeld
<1> QED BY <1>2, <1>3, <1>4, <1>5, <1>6 DEF remove_client

LEMMA ServeHeldStep ==
  ASSUME NEW at, Good(at), NEW k \in Conns, ServeStep(k), OwnIds', ~dangled'
  PROVE  \E at1 \in [Solutions -> Spots] : Carries(at1)'
<1>1. /\ at \in [Solutions -> Spots] /\ pc \in [Threads -> Points] /\ frame \in [Threads -> Frames]
      /\ k \in Threads /\ outstanding \in [Conns -> SUBSET Solutions]
  BY Thr DEF Good, VarTypes, PcType, LocalTypes, NetTypes
<1>2. ASSUME UNCHANGED <<heap, allocated, row, batch, solutions_queue, checking_solution>>,
             \A u \in Threads \ {k} : frame'[u] = frame[u],
             \A j \in Conns : outstanding'[j] \subseteq outstanding[j],
             pc[k] \in {"loop", "send", "recv"},
             pc'[k] \in {"loop", "send", "recv", "remove_find", "gone"},
             pc'[k] = "send" => pc[k] = "send" /\ frame'[k] = frame[k]
      PROVE  \E at1 \in [Solutions -> Spots] : Carries(at1)'
  <2>1. \A u \in Threads \ {k} : pc'[u] = pc[u]
    BY ServeMoves DEF Good
  <2>2. Untouched(k)
    BY <1>2, <2>1 DEF Untouched, PushPoints, ScanPoints, ServePoints
  <2> QED BY <1>1, <2>2, ThreadsAssumption, QuietHeld
<1>3. CASE ProcessSolutions(k)
  <2>1. CASE UNCHANGED <<solutions_queue, checking_solution, frame>>
    <3>1. /\ pc[k] = "loop" /\ pc'[k] \in {"gone", "recv", "send"}
          /\ UNCHANGED <<heap, allocated, row, batch, outstanding>>
      BY <1>1, <1>3 DEF ProcessSolutions, Goto, memory, db, world, net
    <3>2. CASE pc'[k] # "send"
      BY <1>2, <2>1, <3>1, <3>2
    <3>3. CASE pc'[k] = "send"
      <4>1. /\ solutions_queue[k] # <<>>
            /\ solutions_queue' = [solutions_queue EXCEPT ![k] = Tail(@)]
            /\ checking_solution' = [checking_solution EXCEPT ![k] = Head(solutions_queue[k])]
            /\ frame' = [frame EXCEPT ![k] = Holding(Head(solutions_queue[k]))]
            /\ Goto(k, "send")
        BY <1>1, <1>3, <3>3 DEF ProcessSolutions, Goto
      <4> QED BY <1>3, <4>1, ProcessHeld
    <3> QED BY <3>2, <3>3
  <2>2. CASE /\ solutions_queue[k] # <<>>
             /\ solutions_queue' = [solutions_queue EXCEPT ![k] = Tail(@)]
             /\ checking_solution' = [checking_solution EXCEPT ![k] = Head(solutions_queue[k])]
             /\ frame' = [frame EXCEPT ![k] = Holding(Head(solutions_queue[k]))]
             /\ Goto(k, "send")
    BY <1>3, <2>2, ProcessHeld
  <2> QED BY <1>3, <2>1, <2>2 DEF ProcessSolutions
<1>4. CASE SendSolution(k)
  BY <1>1, <1>4, SendHeld
<1>5. CASE SendTimeout(k) \/ SendReset(k)
  <2>1. /\ pc[k] = "send" /\ pc'[k] \in {"send", "remove_find"}
        /\ \A u \in Threads \ {k} : frame'[u] = frame[u]
        /\ pc'[k] = "send" => frame'[k] = frame[k]
    BY <1>1, <1>5 DEF SendTimeout, SendReset, Step, Goto
  <2>2. UNCHANGED <<heap, allocated, row, batch, solutions_queue, checking_solution, outstanding>>
    BY <1>5 DEF SendTimeout, SendReset, data, memory, client, db, net
  <2> QED BY <1>2, <2>1, <2>2
<1>6. CASE RecvResult(k)
  BY <1>1, <1>6, ResultHeld
<1>7. CASE ClearChecking(k)
  BY <1>1, <1>7, ClearHeld
<1>8. CASE RecvTimeout(k) \/ RecvClosed(k) \/ RecvReset(k) \/ RecvError(k)
  <2>1. /\ pc[k] = "recv" /\ pc'[k] \in {"loop", "remove_find"}
    BY <1>1, <1>8 DEF RecvTimeout, RecvClosed, RecvReset, RecvError, Silence, Step, Goto
  <2>2. UNCHANGED <<heap, allocated, row, batch, solutions_queue, checking_solution, frame>>
    BY <1>8 DEF RecvTimeout, RecvClosed, RecvReset, RecvError, data, memory, client, db, locals
  <2>3. \A j \in Conns : outstanding'[j] \subseteq outstanding[j]
    BY <1>1, <1>8 DEF RecvTimeout, RecvClosed, RecvReset, RecvError, net
  <2> QED BY <1>2, <2>1, <2>2, <2>3
<1> QED BY <1>3, <1>4, <1>5, <1>6, <1>7, <1>8 DEF ServeStep

LEMMA PointersStep ==
  ASSUME NEW at, Good(at), [Next]_vars, OwnIds', ~dangled', faults'["stray"] = 0
  PROVE  \E at1 \in [Solutions -> Spots] : Carries(at1)'
<1>1. /\ at \in [Solutions -> Spots] /\ pc \in [Threads -> Points]
      /\ outstanding \in [Conns -> SUBSET Solutions]
  BY DEF Good, VarTypes, PcType, NetTypes
<1>2. ASSUME UNCHANGED <<heap, allocated, row, batch, solutions_queue, checking_solution, frame>>,
             \A j \in Conns : outstanding'[j] \subseteq outstanding[j],
             \A u \in Threads \ {Poller} : pc'[u] = pc[u],
             pc'[Poller] = pc[Poller] \/ pc'[Poller] \in {"poll_loop", "poll_sleep", "done"}
      PROVE  \E at1 \in [Solutions -> Spots] : Carries(at1)'
  <2>1. pc'[Poller] \in PushPoints => pc[Poller] \in PushPoints
    BY <1>2 DEF PushPoints, ScanPoints
  <2> QED BY <1>1, <1>2, <2>1, Thr, QuietHeld
<1>3. CASE PollInit \/ PollLoop \/ Stop \/ (\E k \in Conns : PeerLost(k)) \/ UNCHANGED vars
  <2>1. UNCHANGED <<heap, allocated, row, batch, solutions_queue, checking_solution, frame>>
    BY <1>3 DEF PollInit, PollLoop, Stop, PeerLost, data, memory, client, db, locals, world, vars
  <2>2. \A j \in Conns : outstanding'[j] \subseteq outstanding[j]
    BY <1>1, <1>3 DEF PollInit, PollLoop, Stop, PeerLost, net, world, vars
  <2>3. /\ \A u \in Threads \ {Poller} : pc'[u] = pc[u]
        /\ pc'[Poller] = pc[Poller] \/ pc'[Poller] \in {"poll_loop", "poll_sleep", "done"}
    BY <1>1, <1>3, Thr DEF PollInit, PollLoop, Stop, PeerLost, Goto, vars
  <2> QED BY <1>2, <2>1, <2>2, <2>3
<1>4. CASE PollExtract
  <2>1. CASE NewRows = {}
    <3>1. UNCHANGED <<heap, allocated, row, batch, solutions_queue, checking_solution, frame, outstanding>>
      BY <1>4, <2>1 DEF PollExtract, memory, client, locals, net
    <3>2. /\ \A u \in Threads \ {Poller} : pc'[u] = pc[u]
          /\ pc'[Poller] \in {"poll_loop", "poll_sleep", "done"}
      BY <1>1, <1>4, <2>1, Thr DEF PollExtract, Goto
    <3> QED BY <1>2, <3>1, <3>2
  <2>2. CASE NewRows # {}
    BY <1>4, <2>2, ExtractHeld
  <2> QED BY <2>1, <2>2
<1>5. CASE PollNext
  <2>1. CASE batch # <<>>
    BY <1>5, <2>1, PollNextHeld
  <2>2. CASE batch = <<>>
    <3>1. UNCHANGED <<heap, allocated, row, batch, solutions_queue, checking_solution, frame, outstanding>>
      BY <1>5, <2>2 DEF PollNext, data, memory, client, db, locals, net
    <3>2. /\ \A u \in Threads \ {Poller} : pc'[u] = pc[u]
          /\ pc'[Poller] \in {"poll_loop", "poll_sleep", "done"}
      BY <1>1, <1>5, <2>2, Thr DEF PollNext, Goto
    <3> QED BY <1>2, <3>1, <3>2
  <2> QED BY <2>1, <2>2
<1>6. ASSUME NEW k \in Conns,
             \/ Connect(k) \/ HandshakeFail(k) \/ Register(k) \/ AnnounceLock(k) \/ Announce(k)
             \/ AnnounceDone(k)
      PROVE  \E at1 \in [Solutions -> Spots] : Carries(at1)'
  <2>1. UNCHANGED <<heap, allocated, row, batch, solutions_queue, checking_solution, frame, outstanding>>
    BY <1>6 DEF Connect, HandshakeFail, Register, AnnounceLock, Announce, AnnounceDone, data,
         memory, client, db, locals, world, net
  <2>2. /\ pc[k] \in {"idle", "handshake", "announce_lock", "announce"}
        /\ pc'[k] \in {"handshake", "announce_lock", "announce", "gone", "loop"}
        /\ \A u \in Threads \ {k} : pc'[u] = pc[u]
    BY <1>1, <1>6, Thr DEF Connect, HandshakeFail, Register, AnnounceLock, Announce, AnnounceDone,
         Step, Goto
  <2>3. outstanding[k] = {}
    BY <2>2 DEF Good, Carries, Copies, CopiesOK
  <2>4. Untouched(k)
    BY <2>1, <2>2, <2>3 DEF Untouched, PushPoints, ScanPoints, ServePoints
  <2> QED BY <1>1, <2>4, Thr, ThreadsAssumption, QuietHeld
<1>7. ASSUME NEW k \in Conns, PeerStray(k) PROVE FALSE
  BY <1>7 DEF PeerStray, Fault, FaultKinds, Good, VarTypes, FaultsType
<1> QED BY <1>3, <1>4, <1>5, <1>6, <1>7, PushHeldStep, RemoveHeldStep, ServeHeldStep, SubmitHeld
     DEF Next, poll_database, client_loop, ServeStep
-----------------------------------------------------------------------------
(* While the conditions hold, some places and owners of the solutions fit.  *)
Tracked == Trusted => \E at \in [Solutions -> Spots] : Carries(at)
PInv == VarTypes /\ ThreadsOK /\ (~id_shared => OwnIds) /\ Tracked

LEMMA OwnIdsInit == Init => OwnIds
<1> SUFFICES ASSUME Init PROVE OwnIds
  OBVIOUS
<1>1. \A k \in Conns : pc[k] = "idle"
  BY Thr, ThreadsAssumption DEF Init
<1> QED BY <1>1 DEF Init, OwnIds, LivePoints, ServePoints, PushPoints, ScanPoints, RemovePoints,
                DrainPoints

LEMMA PointersInit == Init => PInv
<1> SUFFICES ASSUME Init PROVE PInv
  OBVIOUS
<1>1. VarTypes /\ ThreadsOK /\ OwnIds
  BY TypeInit, OwnIdsInit
<1>4. \A k \in Conns : pc[k] = "idle"
  BY Thr, ThreadsAssumption DEF Init
<1>5. pc[Poller] = "init"
  BY Thr DEF Init
<1>7. PICK at : at = [s \in Solutions |-> <<"none", Poller>>]
  OBVIOUS
<1>8. at \in [Solutions -> Spots] /\ \A s \in Solutions : at[s] = <<"none", Poller>>
  BY <1>7, SpotsAre
<1>9. /\ batch = <<>> /\ \A k \in Conns : /\ solutions_queue[k] = <<>> /\ checking_solution[k] = Null
                                          /\ outstanding[k] = {}
  BY DEF Init
<1>10. BatchHeld(at) /\ RowsFit(at)
  BY <1>8, <1>9 DEF BatchHeld, RowsFit, RowFits
<1>11. \A t \in Threads : PushHeld(at, t)
  BY <1>4, <1>5 DEF PushHeld, PushPoints, ScanPoints, Threads
<1>12. ASSUME NEW k \in Conns PROVE ClientHeld(at, k) /\ CopiesOK(k) /\ QueueDistinct(k)
  <2>1. CheckingHeld(at, k) /\ SentHeld(at, k) /\ CopiesOK(k)
    BY <1>4, <1>9 DEF CheckingHeld, SentHeld, CopiesOK, PushPoints, ScanPoints, ServePoints
  <2>2. QueueHeld(at, k) /\ QueueDistinct(k)
    BY <1>9 DEF QueueHeld, QueueDistinct
  <2> QED BY <2>1, <2>2 DEF ClientHeld
<1>13. Carries(at)
  BY <1>10, <1>11, <1>12 DEF Carries, Held, Copies
<1> QED BY <1>1, <1>8, <1>13 DEF PInv, Tracked

LEMMA OwnIdsStay ==
  ASSUME VarTypes, ThreadsOK, ~id_shared => OwnIds, [Next]_vars
  PROVE  ~id_shared' => OwnIds'
<1> SUFFICES ASSUME ~id_shared' PROVE OwnIds'
  OBVIOUS
<1>1. OwnIds
  BY TrustedBefore DEF VarTypes
<1> QED BY <1>1, OwnIdsStep

LEMMA PointersStepped ==
  ASSUME PInv, [Next]_vars
  PROVE  PInv'
<1>1. VarTypes' /\ ThreadsOK'
  BY TypeStep, ThreadsStep DEF PInv
<1>2. ~id_shared' => OwnIds'
  BY OwnIdsStay DEF PInv
<1>3. Tracked'
  <2> SUFFICES ASSUME Trusted'
               PROVE  \E at \in [Solutions -> Spots] : Carries(at)'
    BY DEF Tracked
  <2>1. Trusted
    BY TrustedBefore DEF PInv, VarTypes
  <2>2. PICK at \in [Solutions -> Spots] : Carries(at)
    BY <2>1 DEF PInv, Tracked
  <2>3. Good(at)
    BY <2>1, <2>2 DEF Good, PInv, Trusted
  <2>4. OwnIds' /\ ~dangled' /\ faults'["stray"] = 0
    BY <1>2 DEF Trusted
  <2> QED BY <2>3, <2>4, PointersStep
<1> QED BY <1>1, <1>2, <1>3 DEF PInv

LEMMA PointersCorrect == Spec => []PInv
<1>1. PInv /\ [Next]_vars => PInv'
  BY PointersStepped
<1> QED BY <1>1, PointersInit, PTL DEF Spec

(* A step changes no verdict.                                               *)
LEMMA VerdictStep ==
  ASSUME NEW at, Good(at), Next, NEW s \in Solutions, row[s] = 2
  PROVE  row'[s] = 2 /\ response'[s] = response[s]
<1>1. row \in [Solutions -> -1..2] /\ response \in [Solutions -> Verdicts]
  BY DEF Good, VarTypes, DbTypes
<1>2. ASSUME UNCHANGED db PROVE row'[s] = 2 /\ response'[s] = response[s]
  BY <1>2 DEF db
<1>3. ASSUME NEW t \in Threads, push_solution(t) PROVE row'[s] = 2 /\ response'[s] = response[s]
  <2>1. CASE PushFind(t) \/ PushChosen(t)
    <3>1. UNCHANGED db \/ \E r \in Deref(frame[t].sln) : solution_post_result(r, "FL") /\ ReturnPush(t)
      BY <2>1 DEF PushFind, PushChosen
    <3>2. ASSUME NEW r \in Deref(frame[t].sln), solution_post_result(r, "FL"), ReturnPush(t)
          PROVE  row'[s] = 2 /\ response'[s] = response[s]
      <4>1. pc[t] \in PushPoints
            /\ UNCHANGED <<heap, allocated, batch, solutions_queue, checking_solution, outstanding>>
        BY <1>3, <2>1, PushMoves DEF Good, PushFind, PushChosen, memory, client, net
      <4>2. row[r] = 1
        BY <3>2, <4>1, PostHeld
      <4> QED BY <1>1, <3>2, <4>2 DEF solution_post_result, db
    <3> QED BY <1>2, <3>1, <3>2
  <2>2. CASE PushLock(t) \/ PushListLock(t) \/ PushScan(t) \/ PushEnqueue(t)
    <3>1. UNCHANGED db
      BY <2>2 DEF PushLock, PushListLock, PushScan, PushEnqueue, data
    <3> QED BY <1>2, <3>1
  <2> QED BY <1>3, <2>1, <2>2 DEF push_solution
<1>4. CASE PollExtract
  BY <1>1, <1>4 DEF PollExtract, NewRows
<1>5. CASE PollInit \/ PollLoop \/ PollNext \/ Stop \/ \E k \in Conns : PeerLost(k) \/ PeerStray(k)
  <2>1. UNCHANGED db
    BY <1>5 DEF PollInit, PollLoop, PollNext, Stop, PeerLost, PeerStray, data
  <2> QED BY <1>2, <2>1
<1>6. ASSUME NEW k \in Conns, Connect(k) \/ client_loop(k) \/ remove_client(k)
      PROVE  row'[s] = 2 /\ response'[s] = response[s]
  <2>1. CASE RecvResult(k)
    <3>1. PICK r \in Solutions : /\ row[r] = 1
                                 /\ \A x \in Solutions \ {r} : row'[x] = row[x] /\ response'[x] = response[x]
      BY <2>1, ResultHeld
    <3> QED BY <3>1
  <2>2. CASE ~RecvResult(k)
    <3>1. UNCHANGED db
      BY <1>6, <2>2 DEF Connect, client_loop, HandshakeFail, Register, AnnounceLock, Announce,
           AnnounceDone, ProcessSolutions, SendSolution, SendTimeout, SendReset,
           ClearChecking, RecvTimeout, RecvClosed, RecvReset, RecvError, remove_client,
           RemoveFind, RemoveLockLists, RemoveLists, RemoveFromMap, RemoveLock,
           RemoveChecked, RemoveQueue, client_free, data
    <3> QED BY <1>2, <3>1
  <2> QED BY <2>1, <2>2
<1>7. ASSUME NEW r \in Solutions, Submit(r) PROVE row'[s] = 2 /\ response'[s] = response[s]
  BY <1>1, <1>7 DEF Submit
<1> QED BY <1>3, <1>4, <1>5, <1>6, <1>7 DEF Next, poll_database

(* As long as no client was given an id that another one in clients_map     *)
(* has, no array was freed that a thread still uses, and the checkers       *)
(* answer only what they were sent, and once, a verdict is never changed    *)
(* (server.c:223, 363, 396), however many rows a poll finds: a row is       *)
(* written to by the one thread that has its solution, and only while it is *)
(* marked as being checked.                                                 *)
THEOREM VerdictsStay == Spec => VerdictFinal
<1> DEFINE Stays == (~id_shared /\ ~dangled /\ faults["stray"] = 0)' => \A s \in Solutions :
                      row[s] = 2 => row'[s] = 2 /\ response'[s] = response[s]
<1>1. PInv /\ [Next]_vars => [Stays]_vars
  <2> SUFFICES ASSUME PInv, Next, Trusted', NEW s \in Solutions, row[s] = 2
               PROVE  row'[s] = 2 /\ response'[s] = response[s]
    BY DEF Trusted
  <2>1. Trusted
    BY TrustedBefore DEF PInv, VarTypes
  <2>2. PICK at \in [Solutions -> Spots] : Carries(at)
    BY <2>1 DEF PInv, Tracked
  <2>3. Good(at)
    BY <2>1, <2>2 DEF Good, PInv, Trusted
  <2> QED BY <2>3, VerdictStep
<1>2. [][Stays]_vars <=> VerdictFinal
  BY PTL DEF VerdictFinal
<1> QED BY <1>1, <1>2, PointersCorrect, PTL DEF Spec
-----------------------------------------------------------------------------
(* The arrays.  free() takes back an array when it gets the pointer to its  *)
(* first solution.  Who holds this pointer is followed here, whatever the   *)
(* array holds and whatever happened to its other solutions.                *)

(* p points to a later solution of its array; or the array is not freed,    *)
(* and own says that the pointer to its first solution is at the spot.      *)
First(a, own, p, spot) ==
  p \in Pointers /\ (p[2] = 1 => p[1] \in a /\ own[p[1]] = spot)
OnceIn(q) == \A i, j \in DOMAIN q : q[i][2] = 1 /\ q[i] = q[j] => i = j
FirstsIn(a, own, q, spot) == OnceIn(q) /\ \A i \in DOMAIN q : First(a, own, q[i], spot)

FirstBatch(own) == FirstsIn(allocated, own, batch, <<"batch", Poller>>)
FirstPushed(own, t) ==
  pc[t] \in PushPoints => First(allocated, own, frame[t].sln, <<"push", t>>)
FirstQueue(own, k) == FirstsIn(allocated, own, solutions_queue[k], <<"queue", k>>)
FirstChecked(own, k) ==
  pc[k] \notin PushPoints \cup {"remove_checked"} /\ checking_solution[k] # Null =>
    First(allocated, own, checking_solution[k], <<"client", k>>)

(* Every pointer to the first solution of an array is the only one that is  *)
(* followed, but for the copies in the locals of the thread that has it.    *)
Firsts(own) ==
  /\ FirstBatch(own)
  /\ \A t \in Threads : FirstPushed(own, t)
  /\ \A k \in Conns : FirstQueue(own, k) /\ FirstChecked(own, k) /\ CopiesOK(k)

GoodFirsts(own) ==
  VarTypes /\ ThreadsOK /\ OwnIds /\ own \in [Blocks -> Spots] /\ Firsts(own)

(* What t does not own stays as it is.                                      *)
Spares(t, a, own, a1, own1) == \A b \in a : own[b][2] # t => b \in a1 /\ own1[b] = own[b]

LEMMA FirstsSpared ==
  ASSUME NEW t, NEW a, NEW own, NEW a1, NEW own1, Spares(t, a, own, a1, own1),
         NEW w, NEW u, u # t
  PROVE  /\ \A p : First(a, own, p, <<w, u>>) => First(a1, own1, p, <<w, u>>)
         /\ \A q : FirstsIn(a, own, q, <<w, u>>) => FirstsIn(a1, own1, q, <<w, u>>)
<1>1. ASSUME NEW p, First(a, own, p, <<w, u>>) PROVE First(a1, own1, p, <<w, u>>)
  BY <1>1 DEF First, Spares
<1> QED BY <1>1 DEF FirstsIn

(* own when p has moved to another spot.                                    *)
Passed(own, p, new) == IF p[2] = 1 THEN [own EXCEPT ![p[1]] = new] ELSE own
Passes(a, own, own1, t, w, p, new) ==
  /\ own1 \in [Blocks -> Spots]
  /\ Spares(t, a, own, a, own1)
  /\ First(a, own1, p, new)
  /\ \A q, spot : First(a, own, q, spot) /\ (q[2] = 1 => q # p) => First(a, own1, q, spot)
  /\ \A q, spot : First(a, own, q, spot) /\ spot # <<w, t>> => (q[2] = 1 => q # p)

LEMMA PointerPassed ==
  ASSUME NEW a, NEW own \in [Blocks -> Spots], NEW t, NEW w, NEW p, First(a, own, p, <<w, t>>),
         NEW new \in Spots, NEW own1, own1 = Passed(own, p, new)
  PROVE  Passes(a, own, own1, t, w, p, new)
<1>1. p \in Pointers /\ p[1] \in Blocks
  <2>1. p \in Pointers
    BY DEF First
  <2> QED BY <2>1 DEF Pointers
<1>2. CASE p[2] = 1
  <2>1. /\ p[1] \in a /\ own[p[1]] = <<w, t>> /\ own1 \in [Blocks -> Spots] /\ own1[p[1]] = new
        /\ \A b \in Blocks \ {p[1]} : own1[b] = own[b]
    BY <1>1, <1>2 DEF First, Passed
  <2>2. Spares(t, a, own, a, own1)
    <3> SUFFICES ASSUME NEW b \in a, own[b][2] # t PROVE own1[b] = own[b]
      BY DEF Spares
    <3>1. b # p[1]
      BY <2>1
    <3>2. own1 = [own EXCEPT ![p[1]] = new]
      BY <1>2 DEF Passed
    <3>3. CASE b \in Blocks
      BY <2>1, <3>1, <3>3
    <3>4. CASE b \notin Blocks
      BY <3>1, <3>2, <3>4
    <3> QED BY <3>3, <3>4
  <2>3. First(a, own1, p, new)
    BY <1>1, <2>1 DEF First
  <2>4. ASSUME NEW q, NEW spot, First(a, own, q, spot), q[2] = 1 => q # p
        PROVE  First(a, own1, q, spot)
    <3>1. q \in Pointers /\ q[1] \in Blocks
      <4>1. q \in Pointers
        BY <2>4 DEF First
      <4> QED BY <4>1 DEF Pointers
    <3>2. q[2] = 1 => q[1] # p[1]
      BY <1>1, <1>2, <2>4, <3>1 DEF Pointers
    <3> QED BY <2>1, <2>4, <3>1, <3>2 DEF First
  <2>5. ASSUME NEW q, NEW spot, First(a, own, q, spot), spot # <<w, t>>, q[2] = 1 PROVE q # p
    BY <2>1, <2>5 DEF First
  <2> QED BY <2>1, <2>2, <2>3, <2>4, <2>5 DEF Passes
<1>3. CASE p[2] # 1
  <2>1. own1 = own
    BY <1>3 DEF Passed
  <2>2. Spares(t, a, own, a, own1)
    BY <2>1 DEF Spares
  <2>3. First(a, own1, p, new)
    BY <1>1, <1>3 DEF First
  <2>4. \A q, spot : First(a, own, q, spot) /\ spot # <<w, t>> => (q[2] = 1 => q # p)
    BY <1>3
  <2> QED BY <2>1, <2>2, <2>3, <2>4 DEF Passes
<1> QED BY <1>2, <1>3

LEMMA PassedFromHead ==
  ASSUME NEW a, NEW own, NEW own1, NEW t, NEW w, NEW q \in Seq(Pointers), q # <<>>,
         FirstsIn(a, own, q, <<w, t>>), NEW p, p = Head(q), NEW new,
         Passes(a, own, own1, t, w, p, new)
  PROVE  FirstsIn(a, own1, Tail(q), <<w, t>>)
<1>1. /\ 1 \in DOMAIN q /\ p = q[1]
      /\ \A i \in DOMAIN Tail(q) : i \in Nat /\ i + 1 \in DOMAIN q /\ i + 1 # 1 /\ Tail(q)[i] = q[i + 1]
  OBVIOUS
<1>2. ASSUME NEW i \in DOMAIN q, i # 1 PROVE First(a, own1, q[i], <<w, t>>)
  <2>1. First(a, own, q[i], <<w, t>>) /\ (q[i][2] = 1 => q[i] # p)
    BY <1>1, <1>2 DEF FirstsIn, OnceIn
  <2> QED BY <2>1 DEF Passes
<1>3. \A i, j \in DOMAIN q : q[i][2] = 1 /\ q[i] = q[j] => i = j
  BY DEF FirstsIn, OnceIn
<1>4. OnceIn(Tail(q))
  BY <1>1, <1>3 DEF OnceIn
<1>5. \A i \in DOMAIN Tail(q) : First(a, own1, Tail(q)[i], <<w, t>>)
  BY <1>1, <1>2
<1> QED BY <1>4, <1>5 DEF FirstsIn

LEMMA PassedToEnd ==
  ASSUME NEW a, NEW own, NEW own1, NEW t, NEW w, NEW q \in Seq(Pointers), NEW p \in Pointers,
         NEW new, FirstsIn(a, own, q, new), new # <<w, t>>, Passes(a, own, own1, t, w, p, new)
  PROVE  FirstsIn(a, own1, Append(q, p), new)
<1>1. /\ DOMAIN Append(q, p) = DOMAIN q \cup {Len(q) + 1}
      /\ \A i \in DOMAIN q : Append(q, p)[i] = q[i] /\ i # Len(q) + 1
      /\ Append(q, p)[Len(q) + 1] = p
  OBVIOUS
<1>2. \A i \in DOMAIN q : First(a, own, q[i], new) /\ (q[i][2] = 1 => q[i] # p)
  BY DEF FirstsIn, Passes
<1>3. \A i \in DOMAIN q : First(a, own1, q[i], new)
  BY <1>2 DEF Passes
<1>4. First(a, own1, p, new)
  BY DEF Passes
<1>5. \A i \in DOMAIN Append(q, p) : First(a, own1, Append(q, p)[i], new)
  BY <1>1, <1>3, <1>4
<1>6. \A i, j \in DOMAIN q : q[i][2] = 1 /\ q[i] = q[j] => i = j
  BY DEF FirstsIn, OnceIn
<1>7. OnceIn(Append(q, p))
  BY <1>1, <1>2, <1>6 DEF OnceIn
<1> QED BY <1>5, <1>7 DEF FirstsIn

(* Everybody but t, whose pointers are spared.                              *)
Apart(t) ==
  /\ \A u \in Threads \ {t} : pc'[u] = pc[u] /\ frame'[u] = frame[u]
  /\ \A k \in Conns \ {t} : /\ checking_solution'[k] = checking_solution[k]
                            /\ outstanding'[k] \subseteq outstanding[k]
AsideFirsts(own, t) ==
  /\ \A u \in Threads \ {t} : FirstPushed(own, u)
  /\ \A k \in Conns \ {t} : FirstChecked(own, k) /\ CopiesOK(k)

LEMMA FirstsAside ==
  ASSUME NEW own, GoodFirsts(own), NEW t \in Threads, Apart(t),
         NEW own1, Spares(t, allocated, own, allocated', own1)
  PROVE  /\ AsideFirsts(own1, t)'
         /\ t # Poller /\ UNCHANGED batch => FirstBatch(own1)'
         /\ \A k \in Conns \ {t} : solutions_queue'[k] = solutions_queue[k] => FirstQueue(own1, k)'
<1>1. ASSUME NEW w, NEW u, u # t, NEW p, First(allocated, own, p, <<w, u>>)
      PROVE  First(allocated', own1, p, <<w, u>>)
  BY <1>1, FirstsSpared
<1>2. ASSUME NEW u \in Threads \ {t} PROVE FirstPushed(own1, u)'
  BY <1>1, <1>2 DEF GoodFirsts, Firsts, FirstPushed, Apart
<1>3. ASSUME NEW k \in Conns \ {t} PROVE FirstChecked(own1, k)' /\ CopiesOK(k)'
  <2>1. /\ pc'[k] = pc[k] /\ frame'[k] = frame[k] /\ checking_solution'[k] = checking_solution[k]
        /\ outstanding'[k] \subseteq outstanding[k] /\ FirstChecked(own, k) /\ CopiesOK(k)
    BY <1>3, Thr DEF GoodFirsts, Firsts, Apart
  <2>2. FirstChecked(own1, k)'
    BY <1>1, <1>3, <2>1 DEF FirstChecked
  <2>3. CopiesOK(k)'
    BY <2>1 DEF CopiesOK
  <2> QED BY <2>2, <2>3
<1>4. ASSUME NEW k \in Conns \ {t}, solutions_queue'[k] = solutions_queue[k] PROVE FirstQueue(own1, k)'
  <2>1. FirstsIn(allocated, own, solutions_queue[k], <<"queue", k>>)
    BY <1>4 DEF GoodFirsts, Firsts, FirstQueue
  <2>2. FirstsIn(allocated', own1, solutions_queue[k], <<"queue", k>>)
    BY <1>4, <2>1, FirstsSpared
  <2> QED BY <1>4, <2>2 DEF FirstQueue
<1>5. ASSUME t # Poller, UNCHANGED batch PROVE FirstBatch(own1)'
  <2>1. FirstsIn(allocated, own, batch, <<"batch", Poller>>)
    BY DEF GoodFirsts, Firsts, FirstBatch
  <2>2. FirstsIn(allocated', own1, batch, <<"batch", Poller>>)
    BY <1>5, <2>1, FirstsSpared
  <2> QED BY <1>5, <2>2 DEF FirstBatch
<1> QED BY <1>2, <1>3, <1>4, <1>5 DEF AsideFirsts

LEMMA FirstsTogether ==
  ASSUME NEW own1, NEW t \in Threads, AsideFirsts(own1, t)', FirstBatch(own1)', FirstPushed(own1, t)',
         \A k \in Conns : FirstQueue(own1, k)', t \in Conns => FirstChecked(own1, t)' /\ CopiesOK(t)'
  PROVE  Firsts(own1)'
BY Thr DEF Firsts, AsideFirsts

(* A step of t that moves no pointer, or drops one.                         *)
Still(t) ==
  /\ UNCHANGED <<allocated, batch, solutions_queue, checking_solution>>
  /\ \A u \in Threads \ {t} : pc'[u] = pc[u] /\ frame'[u] = frame[u]
  /\ \A k \in Conns : pc'[k] \in {"idle", "handshake", "announce_lock", "announce"} =>
       /\ pc[k] \in {"idle", "handshake", "announce_lock", "announce"}
       /\ outstanding'[k] \subseteq outstanding[k]
  /\ pc'[t] \in PushPoints =>
       pc[t] \in PushPoints /\ frame'[t].sln = frame[t].sln /\ frame'[t].ret = frame[t].ret
  /\ t \in Conns =>
       /\ \/ pc'[t] \in PushPoints \cup {"remove_checked"}
          \/ pc[t] \notin PushPoints \cup {"remove_checked"}
          \/ checking_solution[t] = Null
       /\ pc'[t] = "send" => pc[t] = "send" /\ frame'[t].sln = frame[t].sln
       /\ pc'[t] \in {"remove_queue", "remove_free"} => checking_solution[t] = Null

LEMMA StillFirsts ==
  ASSUME NEW own, GoodFirsts(own), NEW t \in Threads, Still(t)
  PROVE  \E own1 \in [Blocks -> Spots] : Firsts(own1)'
<1>1. /\ own \in [Blocks -> Spots] /\ FirstBatch(own) /\ \A u \in Threads : FirstPushed(own, u)
      /\ \A k \in Conns : FirstQueue(own, k) /\ FirstChecked(own, k) /\ CopiesOK(k)
  BY DEF GoodFirsts, Firsts
<1>2. UNCHANGED <<allocated, batch, solutions_queue, checking_solution>>
  BY DEF Still
<1>3. FirstBatch(own)' /\ \A k \in Conns : FirstQueue(own, k)'
  BY <1>1, <1>2 DEF FirstBatch, FirstQueue
<1>4. \A u \in Threads : FirstPushed(own, u)'
  BY <1>1, <1>2 DEF FirstPushed, Still
<1>5. ASSUME NEW k \in Conns PROVE FirstChecked(own, k)'
  <2>1. FirstChecked(own, k) /\ checking_solution'[k] = checking_solution[k]
    BY <1>1, <1>2
  <2>2. CASE k # t
    <3>1. pc'[k] = pc[k]
      BY <2>2, Thr DEF Still
    <3> QED BY <1>2, <2>1, <3>1 DEF FirstChecked
  <2>3. CASE k = t
    BY <1>2, <2>1, <2>3 DEF FirstChecked, Still
  <2> QED BY <2>2, <2>3
<1>6. ASSUME NEW k \in Conns PROVE CopiesOK(k)'
  <2>1. CopiesOK(k) /\ checking_solution'[k] = checking_solution[k]
    BY <1>1, <1>2
  <2>2. pc'[k] \in {"idle", "handshake", "announce_lock", "announce"} => outstanding'[k] = {}
    BY <2>1 DEF CopiesOK, Still
  <2>3. CASE k # t
    <3>1. pc'[k] = pc[k] /\ frame'[k] = frame[k]
      BY <2>3, Thr DEF Still
    <3> QED BY <2>1, <2>2, <3>1 DEF CopiesOK
  <2>4. CASE k = t
    <3>1. /\ pc'[k] \in PushPoints => pc[k] \in PushPoints /\ frame'[k].sln = frame[k].sln
                                        /\ frame'[k].ret = frame[k].ret
          /\ pc'[k] = "send" => pc[k] = "send" /\ frame'[k].sln = frame[k].sln
          /\ pc'[k] \in {"remove_queue", "remove_free"} => checking_solution[k] = Null
      BY <2>4 DEF Still
    <3> QED BY <2>1, <2>2, <3>1 DEF CopiesOK
  <2> QED BY <2>3, <2>4
<1>7. Firsts(own)'
  BY <1>3, <1>4, <1>5, <1>6 DEF Firsts
<1> QED BY <1>1, <1>7

(* What was elsewhere is not what has moved.                                *)
LEMMA PassedBy ==
  ASSUME NEW a, NEW own, NEW own1, NEW t, NEW w, NEW p, NEW new,
         Passes(a, own, own1, t, w, p, new), NEW spot, spot # <<w, t>>
  PROVE  /\ \A q : First(a, own, q, spot) => First(a, own1, q, spot)
         /\ \A q : FirstsIn(a, own, q, spot) => FirstsIn(a, own1, q, spot)
<1>1. ASSUME NEW q, First(a, own, q, spot) PROVE First(a, own1, q, spot)
  <2>1. q[2] = 1 => q # p
    BY <1>1 DEF Passes
  <2> QED BY <1>1, <2>1 DEF Passes
<1> QED BY <1>1 DEF FirstsIn

(* push_solution puts its solution into a queue.                            *)
LEMMA EnqueueFirsts ==
  ASSUME NEW own, GoodFirsts(own), NEW t \in Threads, PushEnqueue(t)
  PROVE  \E own1 \in [Blocks -> Spots] : Firsts(own1)'
<1>p. PICK p : p = frame[t].sln
  OBVIOUS
<1>1. /\ own \in [Blocks -> Spots] /\ FirstBatch(own) /\ FirstPushed(own, t)
      /\ \A k \in Conns : FirstQueue(own, k) /\ CopiesOK(k)
      /\ pc \in [Threads -> Points] /\ frame \in [Threads -> Frames]
      /\ solutions_queue \in [Conns -> Seq(Pointers)] /\ clients_map \subseteq Conns
  BY DEF GoodFirsts, Firsts, VarTypes, PcType, LocalTypes, ClientTypes, RegistryTypes
<1>2. /\ pc[t] \in PushPoints /\ pc[t] = "push_enqueue"
      /\ pc' = [pc EXCEPT ![t] = frame[t].ret] /\ frame' = [frame EXCEPT ![t] = Holding(Null)]
      /\ UNCHANGED <<allocated, batch, checking_solution, outstanding>>
  BY DEF PushEnqueue, ReturnPush, Goto, PushPoints, memory, world, net
<1>3. /\ pc'[t] \in {"poll_next", "remove_checked", "remove_queue"}
      /\ \A u \in Threads \ {t} : pc'[u] = pc[u] /\ frame'[u] = frame[u]
      /\ t \in Conns => /\ pc'[t] \in {"remove_checked", "remove_queue"}
                        /\ pc'[t] = "remove_queue" => checking_solution[t] = Null
  <2>1. t \in Conns => CopiesOK(t)
    BY <1>1
  <2>2. pc'[t] = frame[t].ret /\ \A u \in Threads \ {t} : pc'[u] = pc[u] /\ frame'[u] = frame[u]
    BY <1>1, <1>2
  <2> QED BY <1>2, <2>1, <2>2, ReturnPoint DEF GoodFirsts, CopiesOK, DrainPoints
<1>4. CASE UNCHANGED solutions_queue
  <2>1. Still(t)
    BY <1>2, <1>3, <1>4, Thr DEF Still, PushPoints, ScanPoints
  <2> QED BY <2>1, StillFirsts
<1>5. ASSUME NEW k \in Conns,
             solutions_queue' = [solutions_queue EXCEPT ![k] = Append(@, frame[t].sln)]
      PROVE  \E own1 \in [Blocks -> Spots] : Firsts(own1)'
  <2>1. First(allocated, own, p, <<"push", t>>) /\ p \in Pointers
    <3>1. First(allocated, own, p, <<"push", t>>)
      BY <1>p, <1>1, <1>2 DEF FirstPushed
    <3> QED BY <3>1 DEF First
  <2>2. PICK own1 : own1 = Passed(own, p, <<"queue", k>>)
    OBVIOUS
  <2>3. Passes(allocated, own, own1, t, "push", p, <<"queue", k>>)
    <3>1. <<"queue", k>> \in Spots
      BY Thr, SpotsAre
    <3> QED BY <1>1, <2>1, <2>2, <3>1, PointerPassed
  <2>4. AsideFirsts(own1, t)'
    <3>1. Apart(t)
      BY <1>2, <1>3 DEF Apart
    <3>2. Spares(t, allocated, own, allocated', own1)
      BY <1>2, <2>3 DEF Passes
    <3> QED BY <3>1, <3>2, FirstsAside
  <2>5. FirstBatch(own1)'
    <3>1. FirstsIn(allocated, own1, batch, <<"batch", Poller>>)
      BY <1>1, <2>3, PassedBy DEF FirstBatch
    <3> QED BY <1>2, <3>1 DEF FirstBatch
  <2>6. ASSUME NEW j \in Conns PROVE FirstQueue(own1, j)'
    <3>1. FirstsIn(allocated, own, solutions_queue[j], <<"queue", j>>)
      BY <1>1 DEF FirstQueue
    <3>2. CASE j # k
      <4>1. solutions_queue'[j] = solutions_queue[j]
        BY <1>1, <1>5, <3>2
      <4>2. FirstsIn(allocated, own1, solutions_queue[j], <<"queue", j>>)
        BY <2>3, <3>1, PassedBy
      <4> QED BY <1>2, <4>1, <4>2 DEF FirstQueue
    <3>3. CASE j = k
      <4>1. solutions_queue'[k] = Append(solutions_queue[k], p) /\ solutions_queue[k] \in Seq(Pointers)
        BY <1>p, <1>1, <1>5
      <4>2. FirstsIn(allocated, own1, Append(solutions_queue[k], p), <<"queue", k>>)
        BY <2>1, <2>3, <3>1, <3>3, <4>1, PassedToEnd
      <4> QED BY <1>2, <3>3, <4>1, <4>2 DEF FirstQueue
    <3> QED BY <3>2, <3>3
  <2>7. FirstPushed(own1, t)' /\ (t \in Conns => FirstChecked(own1, t)' /\ CopiesOK(t)')
    BY <1>2, <1>3 DEF FirstPushed, FirstChecked, CopiesOK, PushPoints, ScanPoints
  <2>8. Firsts(own1)'
    BY <2>4, <2>5, <2>6, <2>7, FirstsTogether
  <2> QED BY <2>3, <2>8 DEF Passes
<1>6. \/ UNCHANGED solutions_queue
      \/ \E k \in Conns : solutions_queue' = [solutions_queue EXCEPT ![k] = Append(@, frame[t].sln)]
  <2>1. frame[t].best \in Conns
    BY <1>2 DEF GoodFirsts, ThreadsOK, ThreadOK
  <2> QED BY <1>1, <2>1 DEF PushEnqueue
<1> QED BY <1>4, <1>5, <1>6

(* checking_solution = NULL in remove_client: push_solution has it.         *)
LEMMA CheckedFirsts ==
  ASSUME NEW own, GoodFirsts(own), NEW k \in Conns, RemoveChecked(k)
  PROVE  Firsts(own)'
<1>1. /\ own \in [Blocks -> Spots] /\ FirstBatch(own) /\ FirstPushed(own, k)
      /\ \A j \in Conns : FirstQueue(own, j) /\ CopiesOK(j)
      /\ pc \in [Threads -> Points] /\ checking_solution \in [Conns -> Pointers \cup {Null}]
  BY Thr DEF GoodFirsts, Firsts, VarTypes, PcType, ClientTypes
<1>2. /\ pc[k] = "remove_checked" /\ victim[k] = k /\ pc' = [pc EXCEPT ![k] = "remove_queue"]
      /\ UNCHANGED <<allocated, batch, frame, solutions_queue, outstanding>>
  BY DEF RemoveChecked, Step, Goto, memory, locals, world, net, GoodFirsts, OwnIds, RemovePoints,
         DrainPoints
<1>3. checking_solution' = [checking_solution EXCEPT ![k] = Null]
  BY <1>2 DEF RemoveChecked, NotChecking
<1>4. /\ pc'[k] = "remove_queue" /\ checking_solution'[k] = Null
      /\ \A u \in Threads \ {k} : pc'[u] = pc[u]
      /\ \A j \in Conns \ {k} : checking_solution'[j] = checking_solution[j]
  BY <1>1, <1>2, <1>3, Thr
<1>5. AsideFirsts(own, k)' /\ FirstBatch(own)' /\ \A j \in Conns : FirstQueue(own, j)'
  <2>1. Apart(k) /\ Spares(k, allocated, own, allocated', own)
    BY <1>2, <1>4 DEF Apart, Spares
  <2>2. AsideFirsts(own, k)'
    BY <2>1, Thr, FirstsAside
  <2> QED BY <1>1, <1>2, <2>2 DEF FirstBatch, FirstQueue
<1>6. FirstPushed(own, k)' /\ FirstChecked(own, k)' /\ CopiesOK(k)'
  BY <1>4 DEF FirstPushed, FirstChecked, CopiesOK, PushPoints, ScanPoints
<1> QED BY <1>5, <1>6, Thr, FirstsTogether

(* client_free frees what is in the client's own queue.                     *)
LEMMA FreeFirsts ==
  ASSUME NEW own, GoodFirsts(own), NEW k \in Conns, client_free(k)
  PROVE  Firsts(own)'
<1>1. /\ own \in [Blocks -> Spots] /\ \A j \in Conns : FirstQueue(own, j) /\ CopiesOK(j)
      /\ pc \in [Threads -> Points] /\ outstanding \in [Conns -> SUBSET Solutions]
      /\ solutions_queue \in [Conns -> Seq(Pointers)]
      /\ checking_solution \in [Conns -> Pointers \cup {Null}] /\ allocated \subseteq Blocks
  BY Thr DEF GoodFirsts, Firsts, VarTypes, PcType, ClientTypes, NetTypes, HeapTypes
<1>2. pc[k] = "remove_free" /\ victim[k] = k
  BY DEF client_free, Step, GoodFirsts, OwnIds, RemovePoints
<1>3. checking_solution[k] = Null
  BY <1>1, <1>2 DEF CopiesOK
<1>4. /\ allocated' = {b \in allocated :
            <<b, 1>> \notin {solutions_queue[k][i] : i \in DOMAIN solutions_queue[k]} \cup {Null}}
      /\ solutions_queue' = [solutions_queue EXCEPT ![k] = <<>>]
      /\ checking_solution' = [checking_solution EXCEPT ![k] = Null]
      /\ outstanding' = [outstanding EXCEPT ![k] = {}]
      /\ UNCHANGED <<batch, frame>> /\ pc' = [pc EXCEPT ![k] = "gone"]
  BY <1>2, <1>3 DEF client_free, Step, Goto
<1>5. /\ pc'[k] = "gone" /\ solutions_queue'[k] = <<>> /\ checking_solution'[k] = Null
      /\ \A u \in Threads \ {k} : pc'[u] = pc[u]
      /\ \A j \in Conns \ {k} : /\ solutions_queue'[j] = solutions_queue[j]
                                /\ checking_solution'[j] = checking_solution[j]
                                /\ outstanding'[j] = outstanding[j]
  BY <1>1, <1>4, Thr
<1>6. Spares(k, allocated, own, allocated', own)
  <2> SUFFICES ASSUME NEW b \in allocated, own[b][2] # k PROVE b \in allocated'
    BY DEF Spares
  <2>1. ASSUME NEW i \in DOMAIN solutions_queue[k], solutions_queue[k][i] = <<b, 1>> PROVE FALSE
    <3>1. First(allocated, own, solutions_queue[k][i], <<"queue", k>>)
      BY <1>1, <2>1 DEF FirstQueue, FirstsIn
    <3>2. own[b] = <<"queue", k>>
      BY <2>1, <3>1 DEF First
    <3> QED BY <3>2
  <2>2. <<b, 1>> # Null
    BY <1>1, PointersAssumption
  <2> QED BY <1>4, <2>1, <2>2
<1>7. /\ AsideFirsts(own, k)' /\ FirstBatch(own)' /\ \A j \in Conns \ {k} : FirstQueue(own, j)'
  <2>1. Apart(k) /\ k # Poller
    BY <1>4, <1>5, ThreadsAssumption DEF Apart
  <2> QED BY <1>4, <1>5, <1>6, <2>1, Thr, FirstsAside
<1>8. FirstQueue(own, k)'
  BY <1>5 DEF FirstQueue, FirstsIn, OnceIn
<1>9. FirstPushed(own, k)' /\ FirstChecked(own, k)' /\ CopiesOK(k)'
  BY <1>5 DEF FirstPushed, FirstChecked, CopiesOK, PushPoints, ScanPoints
<1> QED BY <1>7, <1>8, <1>9, Thr, FirstsTogether

(* client_loop frees the solution it was checking.                          *)
LEMMA ClearFirsts ==
  ASSUME NEW own, GoodFirsts(own), NEW k \in Conns, ClearChecking(k)
  PROVE  Firsts(own)'
<1>1. /\ own \in [Blocks -> Spots] /\ FirstBatch(own) /\ FirstChecked(own, k)
      /\ \A j \in Conns : FirstQueue(own, j) /\ CopiesOK(j)
      /\ pc \in [Threads -> Points] /\ checking_solution \in [Conns -> Pointers \cup {Null}]
  BY Thr DEF GoodFirsts, Firsts, VarTypes, PcType, ClientTypes
<1>2. /\ pc[k] = "clear" /\ pc' = [pc EXCEPT ![k] = "loop"]
      /\ checking_solution' = [checking_solution EXCEPT ![k] = Null]
      /\ solution_free(checking_solution[k])
      /\ UNCHANGED <<batch, frame, solutions_queue, outstanding>>
  BY DEF ClearChecking, Step, Goto, NotChecking, locals, world, net
<1>3. /\ pc'[k] = "loop" /\ checking_solution'[k] = Null
      /\ \A u \in Threads \ {k} : pc'[u] = pc[u]
      /\ \A j \in Conns \ {k} : checking_solution'[j] = checking_solution[j]
  BY <1>1, <1>2, Thr
<1>4. \A b \in allocated : own[b] # <<"client", k>> => b \in allocated'
  <2> SUFFICES ASSUME NEW b \in allocated, b \notin allocated' PROVE own[b] = <<"client", k>>
    OBVIOUS
  <2>1. checking_solution[k] # Null /\ checking_solution[k][2] = 1 /\ checking_solution[k][1] = b
    BY <1>2 DEF solution_free
  <2>2. First(allocated, own, checking_solution[k], <<"client", k>>)
    BY <1>1, <1>2, <2>1 DEF FirstChecked, PushPoints, ScanPoints
  <2> QED BY <2>1, <2>2 DEF First
<1>5. /\ AsideFirsts(own, k)' /\ FirstBatch(own)'
  <2>1. Apart(k) /\ k # Poller
    BY <1>2, <1>3, ThreadsAssumption DEF Apart
  <2>2. Spares(k, allocated, own, allocated', own)
    BY <1>4 DEF Spares
  <2> QED BY <1>2, <2>1, <2>2, Thr, FirstsAside
<1>6. ASSUME NEW j \in Conns PROVE FirstQueue(own, j)'
  <2>1. FirstsIn(allocated, own, solutions_queue[j], <<"queue", j>>)
    BY <1>1 DEF FirstQueue
  <2>2. ASSUME NEW p, First(allocated, own, p, <<"queue", j>>)
        PROVE  First(allocated', own, p, <<"queue", j>>)
    BY <1>4, <2>2 DEF First
  <2>3. FirstsIn(allocated', own, solutions_queue[j], <<"queue", j>>)
    BY <2>1, <2>2 DEF FirstsIn
  <2> QED BY <1>2, <2>3 DEF FirstQueue
<1>7. FirstPushed(own, k)' /\ FirstChecked(own, k)' /\ CopiesOK(k)'
  BY <1>3 DEF FirstPushed, FirstChecked, CopiesOK, PushPoints, ScanPoints
<1> QED BY <1>5, <1>6, <1>7, Thr, FirstsTogether

(* Calling push_solution takes what t had elsewhere into its hands.         *)
CalledWith(own, own1, t, w, p, l) ==
  /\ Passes(allocated, own, own1, t, w, p, <<"push", t>>)
  /\ AsideFirsts(own1, t)' /\ FirstPushed(own1, t)'
  /\ pc'[t] = "push_find" /\ frame'[t].sln = p /\ frame'[t].ret = l

LEMMA CallFirsts ==
  ASSUME NEW own, GoodFirsts(own), NEW t \in Threads, NEW w, NEW p,
         First(allocated, own, p, <<w, t>>), NEW l, CallPush(t, p, l),
         UNCHANGED <<allocated, checking_solution, outstanding>>,
         NEW own1, own1 = Passed(own, p, <<"push", t>>)
  PROVE  CalledWith(own, own1, t, w, p, l)
<1>1. own \in [Blocks -> Spots] /\ <<"push", t>> \in Spots
  BY SpotsAre DEF GoodFirsts
<1>2. Passes(allocated, own, own1, t, w, p, <<"push", t>>)
  BY <1>1, PointerPassed
<1>3. /\ pc'[t] = "push_find" /\ frame'[t].sln = p /\ frame'[t].ret = l
      /\ \A u \in Threads \ {t} : pc'[u] = pc[u] /\ frame'[u] = frame[u]
  BY DEF CallPush, Goto, Frame, GoodFirsts, VarTypes, PcType, LocalTypes
<1>4. AsideFirsts(own1, t)'
  <2>1. Apart(t)
    BY <1>3 DEF Apart
  <2>2. Spares(t, allocated, own, allocated', own1)
    BY <1>2 DEF Passes
  <2> QED BY <2>1, <2>2, FirstsAside
<1>5. FirstPushed(own1, t)'
  <2>1. First(allocated, own1, p, <<"push", t>>)
    BY <1>2 DEF Passes
  <2> QED BY <1>3, <2>1 DEF FirstPushed
<1> QED BY <1>2, <1>3, <1>4, <1>5 DEF CalledWith

(* poll_database passes on what it has extracted.                           *)
LEMMA PollNextFirsts ==
  ASSUME NEW own, GoodFirsts(own), PollNext, batch # <<>>
  PROVE  \E own1 \in [Blocks -> Spots] : Firsts(own1)'
<1>1. FirstBatch(own) /\ batch \in Seq(Pointers) /\ \A k \in Conns : FirstQueue(own, k)
  BY DEF GoodFirsts, Firsts, VarTypes, BatchType
<1>2. /\ CallPush(Poller, Head(batch), "poll_next") /\ batch' = Tail(batch)
      /\ UNCHANGED <<allocated, checking_solution, outstanding, solutions_queue>>
  BY DEF PollNext, data, memory, client, net
<1>3. PICK p : p = Head(batch)
  OBVIOUS
<1>4. First(allocated, own, p, <<"batch", Poller>>)
  <2>1. 1 \in DOMAIN batch /\ p = batch[1]
    BY <1>1, <1>3
  <2> QED BY <1>1, <2>1 DEF FirstBatch, FirstsIn
<1>5. PICK own1 : own1 = Passed(own, p, <<"push", Poller>>)
  OBVIOUS
<1>6. CalledWith(own, own1, Poller, "batch", p, "poll_next")
  <2>1. CallPush(Poller, p, "poll_next") /\ UNCHANGED <<allocated, checking_solution, outstanding>>
    BY <1>2, <1>3
  <2> QED BY <1>4, <1>5, <2>1, Thr, CallFirsts
<1>7. Passes(allocated, own, own1, Poller, "batch", p, <<"push", Poller>>)
  BY <1>6 DEF CalledWith
<1>8. FirstBatch(own1)'
  <2>1. FirstsIn(allocated, own, batch, <<"batch", Poller>>)
    BY <1>1 DEF FirstBatch
  <2>2. FirstsIn(allocated, own1, Tail(batch), <<"batch", Poller>>)
    BY <1>1, <1>3, <1>7, <2>1, PassedFromHead
  <2> QED BY <1>2, <2>2 DEF FirstBatch
<1>9. ASSUME NEW k \in Conns PROVE FirstQueue(own1, k)'
  <2>1. FirstsIn(allocated, own1, solutions_queue[k], <<"queue", k>>)
    BY <1>1, <1>7, PassedBy DEF FirstQueue
  <2> QED BY <1>2, <2>1 DEF FirstQueue
<1>10. Firsts(own1)' /\ own1 \in [Blocks -> Spots]
  BY <1>6, <1>7, <1>8, <1>9, Thr, ThreadsAssumption, FirstsTogether DEF CalledWith, Passes
<1> QED BY <1>10

(* remove_client passes on the solution its client has.                     *)
LEMMA RemoveLockFirsts ==
  ASSUME NEW own, GoodFirsts(own), NEW k \in Conns, RemoveLock(k), checking_solution[k] # Null
  PROVE  \E own1 \in [Blocks -> Spots] : Firsts(own1)'
<1>1. FirstBatch(own) /\ FirstChecked(own, k) /\ \A j \in Conns : FirstQueue(own, j)
  BY DEF GoodFirsts, Firsts
<1>2. pc[k] = "remove_lock" /\ victim[k] = k
  BY DEF RemoveLock, GoodFirsts, OwnIds, RemovePoints
<1>3. /\ CallPush(k, checking_solution[k], "remove_checked")
      /\ UNCHANGED <<allocated, checking_solution, outstanding, solutions_queue, batch>>
  BY <1>2 DEF RemoveLock, data, memory, client, world, net
<1>4. PICK p : p = checking_solution[k]
  OBVIOUS
<1>5. First(allocated, own, p, <<"client", k>>)
  BY <1>1, <1>2, <1>4 DEF FirstChecked, PushPoints, ScanPoints
<1>6. PICK own1 : own1 = Passed(own, p, <<"push", k>>)
  OBVIOUS
<1>7. CalledWith(own, own1, k, "client", p, "remove_checked")
  <2>1. CallPush(k, p, "remove_checked") /\ UNCHANGED <<allocated, checking_solution, outstanding>>
    BY <1>3, <1>4
  <2> QED BY <1>5, <1>6, <2>1, Thr, CallFirsts
<1>8. Passes(allocated, own, own1, k, "client", p, <<"push", k>>)
  BY <1>7 DEF CalledWith
<1>9. FirstBatch(own1)'
  <2>1. FirstsIn(allocated, own1, batch, <<"batch", Poller>>)
    BY <1>1, <1>8, PassedBy DEF FirstBatch
  <2> QED BY <1>3, <2>1 DEF FirstBatch
<1>10. ASSUME NEW j \in Conns PROVE FirstQueue(own1, j)'
  <2>1. FirstsIn(allocated, own1, solutions_queue[j], <<"queue", j>>)
    BY <1>1, <1>8, PassedBy DEF FirstQueue
  <2> QED BY <1>3, <2>1 DEF FirstQueue
<1>11. FirstChecked(own1, k)' /\ CopiesOK(k)'
  BY <1>3, <1>4, <1>7 DEF FirstChecked, CopiesOK, CalledWith, PushPoints
<1>12. Firsts(own1)' /\ own1 \in [Blocks -> Spots]
  BY <1>7, <1>8, <1>9, <1>10, <1>11, Thr, FirstsTogether DEF CalledWith, Passes
<1> QED BY <1>12

(* The head of k's queue leaves it.                                         *)
LEMMA PopFirsts ==
  ASSUME NEW own, GoodFirsts(own), NEW k \in Conns, solutions_queue[k] # <<>>,
         UNCHANGED allocated, solutions_queue' = [solutions_queue EXCEPT ![k] = Tail(@)],
         NEW p, p = Head(solutions_queue[k]), NEW new, NEW own1,
         Passes(allocated, own, own1, k, "queue", p, new)
  PROVE  \A j \in Conns : FirstQueue(own1, j)'
<1> TAKE j \in Conns
<1>1. /\ FirstsIn(allocated, own, solutions_queue[j], <<"queue", j>>)
      /\ solutions_queue \in [Conns -> Seq(Pointers)]
  BY DEF GoodFirsts, Firsts, FirstQueue, VarTypes, ClientTypes
<1>2. CASE j # k
  <2>1. solutions_queue'[j] = solutions_queue[j]
    BY <1>1, <1>2
  <2>2. FirstsIn(allocated, own1, solutions_queue[j], <<"queue", j>>)
    BY <1>1, <1>2, PassedBy
  <2> QED BY <2>1, <2>2 DEF FirstQueue
<1>3. CASE j = k
  <2>1. solutions_queue'[k] = Tail(solutions_queue[k]) /\ solutions_queue[k] \in Seq(Pointers)
    BY <1>1
  <2>2. FirstsIn(allocated, own1, Tail(solutions_queue[k]), <<"queue", k>>)
    BY <1>1, <1>3, <2>1, PassedFromHead
  <2> QED BY <1>3, <2>1, <2>2 DEF FirstQueue
<1> QED BY <1>2, <1>3

LEMMA QueueHeadFirst ==
  ASSUME NEW own, GoodFirsts(own), NEW k \in Conns, solutions_queue[k] # <<>>
  PROVE  First(allocated, own, Head(solutions_queue[k]), <<"queue", k>>)
<1>1. /\ FirstsIn(allocated, own, solutions_queue[k], <<"queue", k>>)
      /\ solutions_queue \in [Conns -> Seq(Pointers)]
  BY DEF GoodFirsts, Firsts, FirstQueue, VarTypes, ClientTypes
<1>2. 1 \in DOMAIN solutions_queue[k] /\ Head(solutions_queue[k]) = solutions_queue[k][1]
  BY <1>1
<1> QED BY <1>1, <1>2 DEF FirstsIn

(* remove_client passes on what its client has in its queue.                *)
LEMMA RemoveQueueFirsts ==
  ASSUME NEW own, GoodFirsts(own), NEW k \in Conns, RemoveQueue(k), solutions_queue[k] # <<>>
  PROVE  \E own1 \in [Blocks -> Spots] : Firsts(own1)'
<1>1. FirstBatch(own) /\ CopiesOK(k)
  BY DEF GoodFirsts, Firsts
<1>2. pc[k] = "remove_queue" /\ victim[k] = k
  BY DEF RemoveQueue, GoodFirsts, OwnIds, RemovePoints, DrainPoints
<1>3. /\ CallPush(k, Head(solutions_queue[k]), "remove_queue")
      /\ solutions_queue' = [solutions_queue EXCEPT ![k] = Tail(@)]
      /\ UNCHANGED <<allocated, checking_solution, outstanding, batch>>
  BY <1>2 DEF RemoveQueue, memory, world, net
<1>4. PICK p : p = Head(solutions_queue[k])
  OBVIOUS
<1>5. First(allocated, own, p, <<"queue", k>>)
  BY <1>4, QueueHeadFirst
<1>6. PICK own1 : own1 = Passed(own, p, <<"push", k>>)
  OBVIOUS
<1>7. CalledWith(own, own1, k, "queue", p, "remove_queue")
  <2>1. CallPush(k, p, "remove_queue") /\ UNCHANGED <<allocated, checking_solution, outstanding>>
    BY <1>3, <1>4
  <2> QED BY <1>5, <1>6, <2>1, Thr, CallFirsts
<1>8. Passes(allocated, own, own1, k, "queue", p, <<"push", k>>)
  BY <1>7 DEF CalledWith
<1>9. FirstBatch(own1)'
  <2>1. FirstsIn(allocated, own1, batch, <<"batch", Poller>>)
    BY <1>1, <1>8, PassedBy DEF FirstBatch
  <2> QED BY <1>3, <2>1 DEF FirstBatch
<1>10. \A j \in Conns : FirstQueue(own1, j)'
  BY <1>3, <1>4, <1>8, PopFirsts
<1>11. FirstChecked(own1, k)' /\ CopiesOK(k)'
  BY <1>1, <1>2, <1>3, <1>7 DEF FirstChecked, CopiesOK, CalledWith, PushPoints
<1>12. Firsts(own1)' /\ own1 \in [Blocks -> Spots]
  BY <1>7, <1>8, <1>9, <1>10, <1>11, Thr, FirstsTogether DEF CalledWith, Passes
<1> QED BY <1>12

(* process_solutions takes the head of the queue into checking_solution;    *)
(* what was there is lost with its array.                                   *)
LEMMA ProcessFirsts ==
  ASSUME NEW own, GoodFirsts(own), NEW k \in Conns, ProcessSolutions(k),
         solutions_queue' = [solutions_queue EXCEPT ![k] = Tail(@)], solutions_queue[k] # <<>>,
         checking_solution' = [checking_solution EXCEPT ![k] = Head(solutions_queue[k])],
         frame' = [frame EXCEPT ![k] = Holding(Head(solutions_queue[k]))], Goto(k, "send")
  PROVE  \E own1 \in [Blocks -> Spots] : Firsts(own1)'
<1>1. /\ FirstBatch(own) /\ own \in [Blocks -> Spots]
      /\ pc \in [Threads -> Points] /\ frame \in [Threads -> Frames]
      /\ checking_solution \in [Conns -> Pointers \cup {Null}]
  BY DEF GoodFirsts, Firsts, VarTypes, PcType, LocalTypes, ClientTypes
<1>2. UNCHANGED <<allocated, outstanding, batch>>
  BY DEF ProcessSolutions, memory, world, net
<1>3. PICK p : p = Head(solutions_queue[k])
  OBVIOUS
<1>4. First(allocated, own, p, <<"queue", k>>) /\ p \in Pointers
  <2>1. First(allocated, own, p, <<"queue", k>>)
    BY <1>3, QueueHeadFirst
  <2> QED BY <2>1 DEF First
<1>5. PICK own1 : own1 = Passed(own, p, <<"client", k>>)
  OBVIOUS
<1>6. Passes(allocated, own, own1, k, "queue", p, <<"client", k>>)
  <2>1. <<"client", k>> \in Spots
    BY Thr, SpotsAre
  <2> QED BY <1>1, <1>4, <1>5, <2>1, PointerPassed
<1>7. /\ pc'[k] = "send" /\ frame'[k].sln = p /\ checking_solution'[k] = p
      /\ \A u \in Threads \ {k} : pc'[u] = pc[u] /\ frame'[u] = frame[u]
      /\ \A j \in Conns \ {k} : checking_solution'[j] = checking_solution[j]
  BY <1>1, <1>3, Thr DEF Goto, Holding, Frame
<1>8. AsideFirsts(own1, k)'
  <2>1. Apart(k)
    BY <1>2, <1>7 DEF Apart
  <2>2. Spares(k, allocated, own, allocated', own1)
    BY <1>2, <1>6 DEF Passes
  <2> QED BY <2>1, <2>2, Thr, FirstsAside
<1>9. FirstBatch(own1)'
  <2>1. FirstsIn(allocated, own1, batch, <<"batch", Poller>>)
    BY <1>1, <1>6, PassedBy DEF FirstBatch
  <2> QED BY <1>2, <2>1 DEF FirstBatch
<1>10. \A j \in Conns : FirstQueue(own1, j)'
  BY <1>2, <1>3, <1>6, PopFirsts
<1>11. FirstPushed(own1, k)' /\ FirstChecked(own1, k)' /\ CopiesOK(k)'
  <2>1. First(allocated, own1, p, <<"client", k>>)
    BY <1>6 DEF Passes
  <2>2. FirstPushed(own1, k)' /\ FirstChecked(own1, k)'
    BY <1>2, <1>7, <2>1 DEF FirstPushed, FirstChecked, PushPoints, ScanPoints
  <2>3. p # Null
    BY <1>4, PointersAssumption DEF Pointers
  <2>4. CopiesOK(k)'
    BY <1>7, <2>3 DEF CopiesOK, PushPoints, ScanPoints
  <2> QED BY <2>2, <2>4
<1>12. Firsts(own1)' /\ own1 \in [Blocks -> Spots]
  BY <1>6, <1>8, <1>9, <1>10, <1>11, Thr, FirstsTogether DEF Passes
<1> QED BY <1>12

(* The poller's batch is a new array.                                       *)
LEMMA ExtractFirsts ==
  ASSUME NEW own, GoodFirsts(own), PollExtract
  PROVE  \E own1 \in [Blocks -> Spots] : Firsts(own1)'
<1>1. /\ own \in [Blocks -> Spots] /\ pc \in [Threads -> Points] /\ allocated \subseteq Blocks
      /\ pc[Poller] = "poll_sleep"
      /\ UNCHANGED <<frame, solutions_queue, checking_solution, outstanding>>
  BY DEF GoodFirsts, VarTypes, PcType, HeapTypes, PollExtract, client, locals, net
<1>2. /\ pc'[Poller] \in {"poll_next", "poll_loop"}
      /\ \A u \in Threads \ {Poller} : pc'[u] = pc[u]
  BY <1>1, Thr DEF PollExtract, Goto
<1>3. CASE UNCHANGED <<allocated, batch>>
  <2>1. Still(Poller)
    BY <1>1, <1>2, <1>3, Thr, ThreadsAssumption DEF Still, PushPoints, ScanPoints
  <2> QED BY <2>1, Thr, StillFirsts
<1>4. ASSUME NEW b \in Blocks \ allocated, NEW arr \in [1..Cardinality(NewRows) -> NewRows],
             allocated' = allocated \cup {b}, batch' = ToPush(b, arr),
             \A s \in NewRows : \E i \in DOMAIN arr : arr[i] = s
      PROVE  \E own1 \in [Blocks -> Spots] : Firsts(own1)'
  <2>1. PICK own1 : own1 = [own EXCEPT ![b] = <<"batch", Poller>>]
    OBVIOUS
  <2>2. /\ own1 \in [Blocks -> Spots] /\ own1[b] = <<"batch", Poller>>
        /\ \A c \in allocated : own1[c] = own[c]
    BY <1>1, <2>1, SpotsAre
  <2>3. /\ AsideFirsts(own1, Poller)' /\ \A k \in Conns : FirstQueue(own1, k)'
    <3>1. Apart(Poller)
      BY <1>1, <1>2 DEF Apart
    <3>2. Spares(Poller, allocated, own, allocated', own1)
      BY <1>4, <2>2 DEF Spares
    <3> QED BY <1>1, <3>1, <3>2, Thr, ThreadsAssumption, FirstsAside
  <2>4. FirstBatch(own1)'
    <3>1. \A i \in DOMAIN arr : i \in Nat \ {0}
      BY <1>4, NewArray DEF NewRows
    <3>2. /\ DOMAIN batch' = DOMAIN arr
          /\ \A i \in DOMAIN arr : /\ batch'[i] = <<b, i>> /\ <<b, i>>[1] = b /\ <<b, i>>[2] = i
                                   /\ <<b, i>> \in Pointers
      BY <1>4, <3>1 DEF ToPush, Pointers
    <3>3. ASSUME NEW i \in DOMAIN arr
          PROVE  First(allocated', own1, batch'[i], <<"batch", Poller>>) /\ batch'[i][2] = i
      <4>1. PICK p : p = batch'[i]
        OBVIOUS
      <4>2. p \in Pointers /\ p[1] = b /\ p[2] = i
        BY <3>2, <4>1
      <4> QED BY <1>4, <2>2, <4>1, <4>2 DEF First
    <3>4. OnceIn(batch')
      <4>1. \A i, j \in DOMAIN batch' : batch'[i] = batch'[j] => i = j
        BY <3>2, <3>3
      <4> QED BY <4>1 DEF OnceIn
    <3>5. FirstsIn(allocated', own1, batch', <<"batch", Poller>>)
      BY <3>2, <3>3, <3>4 DEF FirstsIn
    <3> QED BY <3>5 DEF FirstBatch
  <2>5. FirstPushed(own1, Poller)'
    BY <1>2 DEF FirstPushed, PushPoints, ScanPoints
  <2>6. Firsts(own1)'
    BY <2>3, <2>4, <2>5, Thr, ThreadsAssumption, FirstsTogether
  <2> QED BY <2>2, <2>6
<1>5. \/ UNCHANGED <<allocated, batch>>
      \/ \E b \in Blocks \ allocated, arr \in [1..Cardinality(NewRows) -> NewRows] :
           /\ \A s \in NewRows : \E i \in DOMAIN arr : arr[i] = s
           /\ allocated' = allocated \cup {b} /\ batch' = ToPush(b, arr)
  BY DEF PollExtract, memory
<1> QED BY <1>3, <1>4, <1>5

(* The steps of push_solution ...                                           *)
LEMMA PushFirsts ==
  ASSUME NEW own, GoodFirsts(own), NEW t \in Threads, push_solution(t)
  PROVE  \E own1 \in [Blocks -> Spots] : Firsts(own1)'
<1>1. /\ pc \in [Threads -> Points] /\ frame \in [Threads -> Frames]
      /\ t \in Conns => CopiesOK(t)
  BY DEF GoodFirsts, VarTypes, PcType, LocalTypes, Firsts
<1>2. pc[t] \in PushPoints
  BY PushMoves DEF GoodFirsts
<1>3. ASSUME UNCHANGED <<allocated, batch, solutions_queue, checking_solution, outstanding>>,
             \A u \in Threads \ {t} : pc'[u] = pc[u] /\ frame'[u] = frame[u],
             \/ pc'[t] \in PushPoints /\ frame'[t].sln = frame[t].sln /\ frame'[t].ret = frame[t].ret
             \/ pc'[t] = frame[t].ret
      PROVE  \E own1 \in [Blocks -> Spots] : Firsts(own1)'
  <2>1. CASE pc'[t] \in PushPoints /\ frame'[t].sln = frame[t].sln /\ frame'[t].ret = frame[t].ret
    <3>1. Still(t)
      BY <1>2, <1>3, <2>1, Thr DEF Still, PushPoints, ScanPoints
    <3> QED BY <3>1, StillFirsts
  <2>2. CASE pc'[t] = frame[t].ret
    <3>1. /\ pc'[t] \in {"poll_next", "remove_checked", "remove_queue"}
          /\ t \in Conns => /\ pc'[t] \in {"remove_checked", "remove_queue"}
                            /\ pc'[t] = "remove_queue" => checking_solution[t] = Null
      BY <1>1, <1>2, <2>2, ReturnPoint DEF GoodFirsts, CopiesOK, DrainPoints
    <3>2. Still(t)
      BY <1>3, <3>1, Thr DEF Still, PushPoints, ScanPoints
    <3> QED BY <3>2, StillFirsts
  <2> QED BY <1>3, <2>1, <2>2
<1>4. ASSUME NEW s, solution_post_result(s, "FL"), ReturnPush(t)
      PROVE  pc'[t] = frame[t].ret /\ \A u \in Threads \ {t} : pc'[u] = pc[u] /\ frame'[u] = frame[u]
  BY <1>1, <1>4 DEF ReturnPush, Goto
<1>5. CASE PushFind(t)
  <2>1. UNCHANGED <<allocated, batch, solutions_queue, checking_solution, outstanding>>
    BY <1>5 DEF PushFind, memory, client, net
  <2>2. CASE \E s \in Deref(frame[t].sln) : solution_post_result(s, "FL") /\ ReturnPush(t)
    BY <1>3, <1>4, <2>1, <2>2
  <2>3. CASE \E i : /\ frame' = [frame EXCEPT ![t] = Frame(frame[t].sln, frame[t].ret, i, {}, NoOne,
                                                          INT32_MAX)]
                    /\ Goto(t, "push_lock")
    <3>1. /\ pc'[t] = "push_lock" /\ frame'[t].sln = frame[t].sln /\ frame'[t].ret = frame[t].ret
          /\ \A u \in Threads \ {t} : pc'[u] = pc[u] /\ frame'[u] = frame[u]
      BY <1>1, <2>3 DEF Goto, Frame
    <3>2. pc'[t] \in PushPoints
      BY <3>1 DEF PushPoints
    <3> QED BY <1>3, <2>1, <3>1, <3>2
  <2> QED BY <1>5, <2>2, <2>3 DEF PushFind
<1>6. CASE PushLock(t) \/ PushListLock(t)
  <2>1. /\ pc'[t] \in PushPoints /\ UNCHANGED frame
        /\ \A u \in Threads \ {t} : pc'[u] = pc[u]
    BY <1>1, <1>6 DEF PushLock, PushListLock, Step, Goto, PushPoints, ScanPoints, locals
  <2>2. UNCHANGED <<allocated, batch, solutions_queue, checking_solution, outstanding>>
    BY <1>6 DEF PushLock, PushListLock, data, memory, client, net, world
  <2> QED BY <1>3, <2>1, <2>2
<1>7. CASE PushScan(t)
  <2>1. /\ pc'[t] \in PushPoints /\ frame'[t].sln = frame[t].sln /\ frame'[t].ret = frame[t].ret
        /\ \A u \in Threads \ {t} : pc'[u] = pc[u] /\ frame'[u] = frame[u]
    BY <1>7, ScanMoves DEF GoodFirsts, PushPoints
  <2>2. UNCHANGED <<allocated, batch, solutions_queue, checking_solution, outstanding>>
    BY <1>7 DEF PushScan, data, memory, client, net, world
  <2> QED BY <1>3, <2>1, <2>2
<1>8. CASE PushChosen(t)
  <2>1. UNCHANGED <<allocated, batch, solutions_queue, checking_solution, outstanding>>
    BY <1>8 DEF PushChosen, memory, client, net
  <2>2. CASE \E s \in Deref(frame[t].sln) : solution_post_result(s, "FL") /\ ReturnPush(t)
    BY <1>3, <1>4, <2>1, <2>2
  <2>3. ASSUME \E s \in Deref(frame[t].sln) : solution_post_result(s, "FL"), ReturnPush(t)
        PROVE  \E own1 \in [Blocks -> Spots] : Firsts(own1)'
    BY <2>2, <2>3
  <2>4. CASE Goto(t, "push_enqueue") /\ UNCHANGED <<db, locals, faults>>
    <3>1. /\ pc'[t] \in PushPoints /\ UNCHANGED frame
          /\ \A u \in Threads \ {t} : pc'[u] = pc[u]
      BY <1>1, <2>4 DEF Goto, PushPoints, locals
    <3> QED BY <1>3, <2>1, <3>1
  <2> QED BY <1>8, <2>3, <2>4 DEF PushChosen
<1>9. CASE PushEnqueue(t)
  BY <1>9, EnqueueFirsts
<1> QED BY <1>5, <1>6, <1>7, <1>8, <1>9 DEF push_solution

(* ... of remove_client ...                                                 *)
LEMMA RemoveFirsts ==
  ASSUME NEW own, GoodFirsts(own), NEW k \in Conns, remove_client(k)
  PROVE  \E own1 \in [Blocks -> Spots] : Firsts(own1)'
<1>1. /\ own \in [Blocks -> Spots] /\ pc \in [Threads -> Points] /\ k \in Threads /\ CopiesOK(k)
      /\ pc[k] \in RemovePoints \ {"remove_find"} => victim[k] = k
  BY Thr DEF GoodFirsts, VarTypes, PcType, Firsts, OwnIds
<1>2. ASSUME UNCHANGED <<allocated, batch, solutions_queue, checking_solution, outstanding, frame>>,
             pc[k] \in RemovePoints, pc'[k] \in (RemovePoints \ {"remove_checked"}) \cup {"gone"},
             \A u \in Threads \ {k} : pc'[u] = pc[u],
             pc'[k] \in {"remove_queue", "remove_free"} => checking_solution[k] = Null,
             pc[k] # "remove_checked"
      PROVE  \E own1 \in [Blocks -> Spots] : Firsts(own1)'
  <2>1. Still(k)
    BY <1>1, <1>2, Thr DEF Still, PushPoints, ScanPoints, RemovePoints, DrainPoints
  <2> QED BY <1>1, <2>1, StillFirsts
<1>3. CASE RemoveFind(k) \/ RemoveLockLists(k) \/ RemoveLists(k) \/ RemoveFromMap(k)
  <2>1. /\ pc[k] \in {"remove_find", "remove_lock_lists", "remove_lists", "remove_map"}
        /\ pc'[k] \in {"remove_lock_lists", "remove_lists", "remove_map", "remove_lock", "gone"}
        /\ \A u \in Threads \ {k} : pc'[u] = pc[u]
    BY <1>1, <1>3 DEF RemoveFind, RemoveLockLists, RemoveLists, RemoveFromMap, Step, Goto
  <2>2. UNCHANGED <<allocated, batch, solutions_queue, checking_solution, outstanding, frame>>
    BY <1>3 DEF RemoveFind, RemoveLockLists, RemoveLists, RemoveFromMap, data, memory, client, net,
         world, locals
  <2> QED BY <1>2, <2>1, <2>2 DEF RemovePoints, DrainPoints
<1>4. CASE RemoveLock(k)
  <2>1. CASE checking_solution[k] # Null
    BY <1>4, <2>1, RemoveLockFirsts
  <2>2. CASE checking_solution[k] = Null
    <3>1. pc[k] = "remove_lock" /\ victim[k] = k
      BY <1>1, <1>4 DEF RemoveLock, RemovePoints
    <3>2. /\ pc' = [pc EXCEPT ![k] = "remove_queue"]
          /\ UNCHANGED <<allocated, batch, solutions_queue, checking_solution, outstanding, frame>>
      BY <1>4, <2>2, <3>1 DEF RemoveLock, Goto, data, memory, client, net, world, locals
    <3> QED BY <1>1, <1>2, <2>2, <3>1, <3>2 DEF RemovePoints, DrainPoints
  <2> QED BY <2>1, <2>2
<1>5. CASE RemoveChecked(k)
  BY <1>1, <1>5, CheckedFirsts
<1>6. CASE RemoveQueue(k)
  <2>1. CASE solutions_queue[k] # <<>>
    BY <1>6, <2>1, RemoveQueueFirsts
  <2>2. CASE solutions_queue[k] = <<>>
    <3>1. pc[k] = "remove_queue" /\ victim[k] = k
      BY <1>1, <1>6 DEF RemoveQueue, RemovePoints, DrainPoints
    <3>2. /\ pc' = [pc EXCEPT ![k] = "remove_free"]
          /\ UNCHANGED <<allocated, batch, solutions_queue, checking_solution, outstanding, frame>>
      BY <1>6, <2>2, <3>1 DEF RemoveQueue, Goto, memory, client, net, world, locals
    <3>3. checking_solution[k] = Null
      BY <1>1, <3>1 DEF CopiesOK
    <3> QED BY <1>1, <1>2, <3>1, <3>2, <3>3 DEF RemovePoints, DrainPoints
  <2> QED BY <2>1, <2>2
<1>7. CASE client_free(k)
  BY <1>1, <1>7, FreeFirsts
<1> QED BY <1>3, <1>4, <1>5, <1>6, <1>7 DEF remove_client

(* ... and of client_loop.                                                  *)
LEMMA ServeFirsts ==
  ASSUME NEW own, GoodFirsts(own), NEW k \in Conns, ServeStep(k)
  PROVE  \E own1 \in [Blocks -> Spots] : Firsts(own1)'
<1>1. /\ own \in [Blocks -> Spots] /\ k \in Threads
      /\ pc \in [Threads -> Points] /\ frame \in [Threads -> Frames]
      /\ outstanding \in [Conns -> SUBSET Solutions]
  BY Thr DEF GoodFirsts, VarTypes, PcType, LocalTypes, NetTypes
<1>2. ASSUME UNCHANGED <<allocated, batch, solutions_queue, checking_solution>>,
             \A u \in Threads \ {k} : frame'[u] = frame[u],
             \A j \in Conns \ {k} : outstanding'[j] = outstanding[j],
             pc[k] \in {"loop", "send", "recv"},
             pc'[k] \in {"loop", "send", "recv", "clear", "remove_find", "gone"},
             pc'[k] = "send" => pc[k] = "send" /\ frame'[k] = frame[k]
      PROVE  \E own1 \in [Blocks -> Spots] : Firsts(own1)'
  <2>1. \A u \in Threads \ {k} : pc'[u] = pc[u]
    BY ServeMoves DEF GoodFirsts
  <2>2. Still(k)
    BY <1>1, <1>2, <2>1, Thr DEF Still, PushPoints, ScanPoints
  <2> QED BY <1>1, <2>2, StillFirsts
<1>3. CASE ProcessSolutions(k)
  <2>1. UNCHANGED <<allocated, batch, outstanding>> /\ pc[k] = "loop"
    BY <1>3 DEF ProcessSolutions, memory, world, net
  <2>2. CASE /\ pc'[k] \in {"gone", "recv"}
             /\ UNCHANGED <<solutions_queue, checking_solution, frame>>
    BY <1>2, <2>1, <2>2
  <2>3. CASE /\ solutions_queue[k] # <<>>
             /\ solutions_queue' = [solutions_queue EXCEPT ![k] = Tail(@)]
             /\ checking_solution' = [checking_solution EXCEPT ![k] = Head(solutions_queue[k])]
             /\ frame' = [frame EXCEPT ![k] = Holding(Head(solutions_queue[k]))]
             /\ Goto(k, "send")
    BY <1>3, <2>3, ProcessFirsts
  <2> QED BY <1>1, <1>3, <2>2, <2>3 DEF ProcessSolutions, Goto
<1>4. CASE SendSolution(k) \/ SendTimeout(k) \/ SendReset(k)
  <2>1. /\ pc[k] = "send" /\ pc'[k] \in {"send", "recv", "remove_find"}
        /\ \A u \in Threads \ {k} : frame'[u] = frame[u]
        /\ pc'[k] = "send" => frame'[k] = frame[k]
    BY <1>1, <1>4 DEF SendSolution, SendTimeout, SendReset, Step, Goto
  <2>2. /\ UNCHANGED <<allocated, batch, solutions_queue, checking_solution>>
        /\ \A j \in Conns \ {k} : outstanding'[j] = outstanding[j]
    BY <1>1, <1>4 DEF SendSolution, SendTimeout, SendReset, data, memory, client, net
  <2> QED BY <1>2, <2>1, <2>2
<1>5. CASE RecvResult(k) \/ RecvTimeout(k) \/ RecvClosed(k) \/ RecvReset(k) \/ RecvError(k)
  <2>1. /\ pc[k] = "recv" /\ pc'[k] \in {"loop", "clear", "remove_find"}
    BY <1>1, <1>5 DEF RecvResult, RecvTimeout, RecvClosed, RecvReset, RecvError, Silence, Step, Goto
  <2>2. UNCHANGED <<allocated, batch, solutions_queue, checking_solution, frame>>
    BY <1>5 DEF RecvResult, RecvTimeout, RecvClosed, RecvReset, RecvError, data, memory, client,
         locals
  <2>3. \A j \in Conns \ {k} : outstanding'[j] = outstanding[j]
    BY <1>1, <1>5 DEF RecvResult, RecvTimeout, RecvClosed, RecvReset, RecvError, net
  <2> QED BY <1>2, <2>1, <2>2, <2>3
<1>6. CASE ClearChecking(k)
  BY <1>1, <1>6, ClearFirsts
<1> QED BY <1>3, <1>4, <1>5, <1>6 DEF ServeStep

LEMMA FirstsStep ==
  ASSUME NEW own, GoodFirsts(own), [Next]_vars
  PROVE  \E own1 \in [Blocks -> Spots] : Firsts(own1)'
<1>1. /\ pc \in [Threads -> Points] /\ outstanding \in [Conns -> SUBSET Solutions]
      /\ \A k \in Conns : CopiesOK(k)
  BY DEF GoodFirsts, Firsts, VarTypes, PcType, NetTypes
<1>2. CASE \/ PollInit \/ PollLoop \/ Stop \/ (\E s \in Solutions : Submit(s))
           \/ (PollNext /\ batch = <<>>) \/ UNCHANGED vars
  <2>1. UNCHANGED <<allocated, batch, solutions_queue, checking_solution, frame, outstanding>>
    BY <1>2 DEF PollInit, PollLoop, PollNext, Stop, Submit, data, memory, client, locals, world, net,
         vars
  <2>2. /\ \A u \in Threads \ {Poller} : pc'[u] = pc[u]
        /\ pc'[Poller] = pc[Poller] \/ pc'[Poller] \in {"poll_loop", "poll_sleep", "done"}
    BY <1>1, <1>2, Thr DEF PollInit, PollLoop, PollNext, Stop, Submit, Goto, vars
  <2>3. Still(Poller)
    BY <2>1, <2>2, Thr, ThreadsAssumption DEF Still, PushPoints, ScanPoints
  <2> QED BY <2>3, Thr, StillFirsts
<1>3. CASE PollNext /\ batch # <<>>
  BY <1>3, PollNextFirsts
<1>4. CASE PollExtract
  BY <1>4, ExtractFirsts
<1>5. ASSUME NEW k \in Conns, PeerLost(k) \/ PeerStray(k)
      PROVE  \E own1 \in [Blocks -> Spots] : Firsts(own1)'
  <2>1. /\ UNCHANGED <<allocated, batch, solutions_queue, checking_solution, frame, pc>>
        /\ \A j \in Conns \ {k} : outstanding'[j] = outstanding[j]
    BY <1>1, <1>5 DEF PeerLost, PeerStray, data, memory, client, locals
  <2>2. pc[k] \in {"idle", "handshake", "announce_lock", "announce"} =>
          outstanding'[k] \subseteq outstanding[k]
    BY <1>1, <1>5 DEF PeerLost, PeerStray, ServePoints
  <2>3. pc[k] \in {"remove_queue", "remove_free"} => checking_solution[k] = Null
    BY <1>1 DEF CopiesOK
  <2>4. Still(k)
    BY <2>1, <2>2, <2>3, Thr DEF Still
  <2> QED BY <2>4, Thr, StillFirsts
<1>6. ASSUME NEW k \in Conns,
             \/ Connect(k) \/ HandshakeFail(k) \/ Register(k) \/ AnnounceLock(k) \/ Announce(k)
             \/ AnnounceDone(k)
      PROVE  \E own1 \in [Blocks -> Spots] : Firsts(own1)'
  <2>1. UNCHANGED <<allocated, batch, solutions_queue, checking_solution, frame, outstanding>>
    BY <1>6 DEF Connect, HandshakeFail, Register, AnnounceLock, Announce, AnnounceDone, data,
         memory, client, locals, world, net
  <2>2. /\ pc[k] \in {"idle", "handshake", "announce_lock", "announce"}
        /\ pc'[k] \in {"handshake", "announce_lock", "announce", "gone", "loop"}
        /\ \A u \in Threads \ {k} : pc'[u] = pc[u]
    BY <1>1, <1>6, Thr DEF Connect, HandshakeFail, Register, AnnounceLock, Announce, AnnounceDone,
         Step, Goto
  <2>3. Still(k)
    BY <2>1, <2>2, Thr DEF Still, PushPoints, ScanPoints
  <2> QED BY <2>3, Thr, StillFirsts
<1> QED BY <1>2, <1>3, <1>4, <1>5, <1>6, PushFirsts, RemoveFirsts, ServeFirsts
     DEF Next, poll_database, client_loop, ServeStep
-----------------------------------------------------------------------------
(* While no id is shared, every array that is in use has its owner.         *)
Owned == ~id_shared => OwnIds /\ \E own \in [Blocks -> Spots] : Firsts(own)
FInv == VarTypes /\ ThreadsOK /\ Owned

LEMMA FirstsInit == Init => FInv
<1> SUFFICES ASSUME Init PROVE FInv
  OBVIOUS
<1>1. VarTypes /\ ThreadsOK /\ OwnIds
  BY TypeInit, OwnIdsInit
<1>2. PICK own : own = [b \in Blocks |-> <<"none", Poller>>]
  OBVIOUS
<1>3. own \in [Blocks -> Spots]
  BY <1>2, SpotsAre
<1>4. /\ pc[Poller] = "init" /\ \A k \in Conns : pc[k] = "idle"
      /\ batch = <<>> /\ \A k \in Conns : /\ solutions_queue[k] = <<>> /\ checking_solution[k] = Null
                                          /\ outstanding[k] = {}
  BY Thr, ThreadsAssumption DEF Init
<1>5. FirstBatch(own) /\ \A k \in Conns : FirstQueue(own, k)
  BY <1>4 DEF FirstBatch, FirstQueue, FirstsIn, OnceIn
<1>6. \A t \in Threads : FirstPushed(own, t)
  BY <1>4 DEF FirstPushed, PushPoints, ScanPoints, Threads
<1>7. \A k \in Conns : FirstChecked(own, k) /\ CopiesOK(k)
  BY <1>4 DEF FirstChecked, CopiesOK, PushPoints, ScanPoints
<1>8. Firsts(own)
  BY <1>5, <1>6, <1>7 DEF Firsts
<1> QED BY <1>1, <1>3, <1>8 DEF FInv, Owned

LEMMA OwnedStep ==
  ASSUME FInv, [Next]_vars
  PROVE  FInv'
<1>1. VarTypes' /\ ThreadsOK'
  BY TypeStep, ThreadsStep DEF FInv
<1>2. ~id_shared' => OwnIds'
  BY OwnIdsStay DEF FInv, Owned
<1>3. ASSUME ~id_shared' PROVE \E own \in [Blocks -> Spots] : Firsts(own)'
  <2>1. ~id_shared
    BY <1>3, TrustedBefore DEF FInv, VarTypes
  <2>2. PICK own \in [Blocks -> Spots] : Firsts(own)
    BY <2>1 DEF FInv, Owned
  <2>3. GoodFirsts(own)
    BY <2>1, <2>2 DEF GoodFirsts, FInv, Owned
  <2> QED BY <2>3, FirstsStep
<1> QED BY <1>1, <1>2, <1>3 DEF FInv, Owned

LEMMA OwnersCorrect == Spec => []FInv
<1>1. FInv /\ [Next]_vars => FInv'
  BY OwnedStep
<1> QED BY <1>1, FirstsInit, PTL DEF Spec

(* As long as no client was given an id that another one in clients_map     *)
(* has, the pointer to the first row of a batch never points into an array  *)
(* that free() took back, whatever is answered (also out of turn),          *)
(* overwritten, delegated or freed, and however many rows a poll finds:     *)
(* what dangles can only be a pointer to a later row (server.c:226, 348,    *)
(* 447-457).                                                                *)
THEOREM PointersStayValid == Spec => []OnlyLaterRowsDangle
<1>1. FInv => OnlyLaterRowsDangle
  <2> SUFFICES ASSUME FInv, ~id_shared, NEW p \in HeldPointers \ {Null}, p[2] = 1
               PROVE  p[1] \in allocated
    BY DEF OnlyLaterRowsDangle
  <2>1. PICK own \in [Blocks -> Spots] : Firsts(own)
    BY DEF FInv, Owned
  <2>2. ASSUME NEW spot, First(allocated, own, p, spot) PROVE p[1] \in allocated
    BY <2>2 DEF First
  <2>3. CASE \E i \in DOMAIN batch : p = batch[i]
    BY <2>1, <2>2, <2>3 DEF Firsts, FirstBatch, FirstsIn
  <2>4. ASSUME NEW t \in Threads, pc[t] \in PushPoints, p = frame[t].sln PROVE p[1] \in allocated
    BY <2>1, <2>2, <2>4 DEF Firsts, FirstPushed
  <2>5. CASE \E k \in Conns : \E i \in DOMAIN solutions_queue[k] : p = solutions_queue[k][i]
    BY <2>1, <2>2, <2>5 DEF Firsts, FirstQueue, FirstsIn
  <2>6. ASSUME NEW k \in Conns, pc[k] # "remove_checked", p = checking_solution[k]
        PROVE  p[1] \in allocated
    <3>1. FirstChecked(own, k) /\ CopiesOK(k)
      BY <2>1 DEF Firsts
    <3>2. CASE pc[k] \in PushPoints
      <4>1. frame[k].ret \in {"remove_checked", "remove_queue"}
        BY <3>2, Thr, ReturnPoint DEF FInv, DrainPoints
      <4>2. p = frame[k].sln
        BY <2>6, <3>1, <3>2, <4>1 DEF CopiesOK
      <4> QED BY <2>4, <3>2, <4>2, Thr
    <3>3. CASE pc[k] \notin PushPoints
      BY <2>2, <2>6, <3>1, <3>3 DEF FirstChecked
    <3> QED BY <3>2, <3>3
  <2>7. ASSUME NEW t \in Threads, pc[t] = "send", p = frame[t].sln PROVE p[1] \in allocated
    <3>1. t \in Conns
      <4>1. "send" \notin PollPoints \cup PushPoints
        BY DEF PollPoints, PushPoints, ScanPoints
      <4> QED BY <2>7, <4>1 DEF FInv, ThreadsOK, ThreadOK, Threads
    <3>2. p = checking_solution[t]
      BY <2>1, <2>7, <3>1 DEF Firsts, CopiesOK
    <3> QED BY <2>6, <2>7, <3>1, <3>2
  <2>8. ASSUME NEW k \in Conns, \A t \in Conns : pc[t] = "remove_checked" => victim[t] # k,
               p = checking_solution[k]
        PROVE  p[1] \in allocated
    <3>1. pc[k] # "remove_checked"
      BY <2>8 DEF FInv, Owned, OwnIds, RemovePoints, DrainPoints
    <3> QED BY <2>6, <2>8, <3>1
  <2> DEFINE Batched  == {batch[i] : i \in DOMAIN batch}
             Pushed   == {frame[t].sln : t \in {t \in Threads : pc[t] \in PushPoints \cup {"send"}}}
             Queued   == UNION {{solutions_queue[k][i] : i \in DOMAIN solutions_queue[k]} : k \in Conns}
             Checking == {checking_solution[k] : k \in
                           {k \in Conns : \A t \in Conns : pc[t] = "remove_checked" => victim[t] # k}}
  <2>9. HeldPointers = Batched \cup Pushed \cup Queued \cup Checking
    BY DEF HeldPointers
  <2>10. CASE p \in Batched
    BY <2>3, <2>10
  <2>11. CASE p \in Pushed
    <3>1. PICK t \in Threads : pc[t] \in PushPoints \cup {"send"} /\ p = frame[t].sln
      BY <2>11
    <3> QED BY <2>4, <2>7, <3>1
  <2>12. CASE p \in Queued
    <3>1. \E k \in Conns : \E i \in DOMAIN solutions_queue[k] : p = solutions_queue[k][i]
      BY <2>12
    <3> QED BY <2>5, <3>1
  <2>13. CASE p \in Checking
    <3>1. PICK k \in Conns : /\ \A t \in Conns : pc[t] = "remove_checked" => victim[t] # k
                             /\ p = checking_solution[k]
      BY <2>13
    <3> QED BY <2>8, <3>1
  <2>14. p \in Batched \cup Pushed \cup Queued \cup Checking
    <3> HIDE DEF Batched, Pushed, Queued, Checking
    <3> QED BY <2>9
  <2>15. p \in Batched \/ p \in Pushed \/ p \in Queued \/ p \in Checking
    <3> HIDE DEF Batched, Pushed, Queued, Checking
    <3> QED BY <2>14
  <2> QED BY <2>10, <2>11, <2>12, <2>13, <2>15
<1> QED BY <1>1, OwnersCorrect, PTL
==============================================================================
