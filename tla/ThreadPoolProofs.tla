-------------------------- MODULE ThreadPoolProofs ---------------------------
(* The thread pool, for every number of threads and tasks: no wakeup is     *)
(* lost, no task is run twice, and the pool implements WorkQueue (without   *)
(* its fairness).                                                           *)
EXTENDS ThreadPool, FiniteSetTheorems, SequenceTheorems, TLAPS

Started == Len(accepted) - Len(tasks_queue)

(* The queue holds the tasks handed in last, each of them once.             *)
InOrder ==
  /\ \A i, j \in 1..Len(accepted) : accepted[i] = accepted[j] => i = j
  /\ Len(tasks_queue) <= Len(accepted)
  /\ \A i \in 1..Len(tasks_queue) : tasks_queue[i] = accepted[Started + i]

(* A thread has a task exactly while it runs or frees it, and it is one     *)
(* that has left the queue and is no other thread's.                        *)
Holders ==
  /\ \A w \in Workers : worker[w] \in {"run", "free"} <=> task[w] # NoTask
  /\ \A w \in Workers : task[w] # NoTask => \E i \in 1..Started : task[w] = accepted[i]
  /\ \A v, w \in Workers : task[v] = task[w] /\ task[v] # NoTask => v = w

(* The flag is set by destroy_thread_pool, and by nothing before it.        *)
OpenAsLong == owner = "open" => ~cancelled

PInv == TypeOK /\ InOrder /\ Holders /\ NoLostWakeup /\ OpenAsLong
-----------------------------------------------------------------------------
(* The lengths are numbers.                                                 *)
LEMMA Lengths ==
  ASSUME TypeOK, InOrder
  PROVE  /\ Len(accepted) \in Nat /\ Len(tasks_queue) \in Nat /\ Started \in Nat
         /\ Started + Len(tasks_queue) = Len(accepted)
         /\ DOMAIN accepted = 1..Len(accepted) /\ DOMAIN tasks_queue = 1..Len(tasks_queue)
<1>1. Len(accepted) \in Nat /\ Len(tasks_queue) \in Nat
  BY LenProperties DEF TypeOK
<1> QED BY <1>1, LenProperties, SMT DEF TypeOK, InOrder, Started

(* A push: the task is new and comes last.                                  *)
LEMMA ExecuteOrder ==
  ASSUME PInv, NEW x \in Tasks \ HandedIn, thread_pool_execute(x)
  PROVE  /\ InOrder' /\ Started' = Started
         /\ \A i \in 1..Len(accepted) : accepted'[i] = accepted[i]
         /\ Len(tasks_queue') = Len(tasks_queue) + 1
<1> USE DEF PInv
<1>1. tasks_queue' = Append(tasks_queue, x) /\ accepted' = Append(accepted, x)
  BY DEF thread_pool_execute
<1>2. /\ Len(accepted') = Len(accepted) + 1 /\ accepted'[Len(accepted) + 1] = x
      /\ \A i \in 1..Len(accepted) : accepted'[i] = accepted[i]
  BY <1>1, AppendProperties DEF TypeOK
<1>3. /\ Len(tasks_queue') = Len(tasks_queue) + 1 /\ tasks_queue'[Len(tasks_queue) + 1] = x
      /\ \A i \in 1..Len(tasks_queue) : tasks_queue'[i] = tasks_queue[i]
  BY <1>1, AppendProperties DEF TypeOK
<1>4. Started' = Started
  BY <1>2, <1>3, Lengths, SMT DEF Started
<1>5. \A i \in 1..Len(accepted) : accepted[i] # x
  BY Lengths DEF HandedIn
<1>6. \A i, j \in 1..Len(accepted') : accepted'[i] = accepted'[j] => i = j
  <2> TAKE i, j \in 1..Len(accepted')
  <2>1. CASE i \in 1..Len(accepted) /\ j \in 1..Len(accepted)
    BY <1>2, <2>1 DEF InOrder
  <2>2. CASE i = Len(accepted) + 1 \/ j = Len(accepted) + 1
    BY <1>2, <1>5, <2>2, Lengths, SMT
  <2> QED BY <1>2, <2>1, <2>2, Lengths, SMT
<1>7. \A i \in 1..Len(tasks_queue') : tasks_queue'[i] = accepted'[Started + i]
  <2> TAKE i \in 1..Len(tasks_queue')
  <2>1. CASE i = Len(tasks_queue) + 1
    BY <1>2, <1>3, <2>1, Lengths, SMT
  <2>2. CASE i \in 1..Len(tasks_queue)
    <3>1. Started + i \in 1..Len(accepted)
      BY <2>2, Lengths, SMT
    <3> QED BY <1>2, <1>3, <2>2, <3>1 DEF InOrder
  <2> QED BY <1>3, <2>1, <2>2, Lengths, SMT
<1>8. Len(tasks_queue') <= Len(accepted')
  BY <1>2, <1>3, Lengths, SMT
<1> QED BY <1>2, <1>3, <1>4, <1>6, <1>7, <1>8 DEF InOrder

(* Removing the first task: it is the next of those handed in.              *)
LEMMA TakeOrder ==
  ASSUME PInv, tasks_queue # <<>>, tasks_queue' = Tail(tasks_queue), UNCHANGED accepted
  PROVE  /\ InOrder' /\ Started' = Started + 1
         /\ Started + 1 \in 1..Len(accepted)
         /\ Head(tasks_queue) = accepted[Started + 1] /\ Head(tasks_queue) \in Tasks
         /\ Len(tasks_queue) = Len(tasks_queue') + 1
<1> USE DEF PInv
<1>1. /\ Len(tasks_queue) >= 1 /\ Len(tasks_queue') = Len(tasks_queue) - 1
      /\ \A i \in 1..Len(tasks_queue') : tasks_queue'[i] = tasks_queue[i + 1]
      /\ Head(tasks_queue) \in Tasks /\ Head(tasks_queue) = tasks_queue[1]
  <2>1. Len(tasks_queue) >= 1
    BY EmptySeq, Lengths, SMT DEF TypeOK
  <2> QED BY <2>1, HeadTailProperties, SMT DEF TypeOK
<1>2. Started' = Started + 1 /\ Started + 1 \in 1..Len(accepted)
  BY <1>1, Lengths, SMT DEF Started
<1>3. Head(tasks_queue) = accepted[Started + 1]
  BY <1>1, Lengths, SMT DEF InOrder
<1>4. \A i \in 1..Len(tasks_queue') : tasks_queue'[i] = accepted[Started + 1 + i]
  <2> TAKE i \in 1..Len(tasks_queue')
  <2>1. i + 1 \in 1..Len(tasks_queue) /\ Started + (i + 1) = Started + 1 + i
    BY <1>1, Lengths, SMT
  <2> QED BY <1>1, <2>1 DEF InOrder
<1>5. Len(tasks_queue') <= Len(accepted')
  BY <1>1, Lengths, SMT DEF InOrder
<1> QED BY <1>1, <1>2, <1>3, <1>4, <1>5, Lengths, SMT DEF InOrder

(* The threads can be counted.                                              *)
LEMMA Countable ==
  ASSUME NEW S \in SUBSET Workers
  PROVE  IsFiniteSet(S) /\ Cardinality(S) \in Nat
BY WorkersAssumption, FS_Subset, FS_CardinalityType

(* The types.                                                               *)
LEMMA TypeStep == PInv /\ [Next]_vars => TypeOK'
<1> SUFFICES ASSUME PInv, [Next]_vars PROVE TypeOK'
  OBVIOUS
<1> USE DEF PInv, TypeOK, WorkerPoints, OwnerPoints
<1>1. ASSUME NEW x \in Tasks \ HandedIn, thread_pool_execute(x) PROVE TypeOK'
  BY <1>1, AppendProperties DEF thread_pool_execute, Wake
<1>2. ASSUME DestroyCancel PROVE TypeOK'
  BY <1>2 DEF DestroyCancel
<1>3. ASSUME DestroyBroadcast PROVE TypeOK'
  BY <1>3 DEF DestroyBroadcast, Wake
<1>4. ASSUME DestroyJoin PROVE TypeOK'
  BY <1>4 DEF DestroyJoin
<1>5. ASSUME NEW w \in Workers, LoopHead(w) PROVE TypeOK'
  BY <1>5 DEF LoopHead, Goto
<1>6. ASSUME NEW w \in Workers, TakeTask(w) PROVE TypeOK'
  <2>1. UNCHANGED <<cancelled, owner, accepted>> /\ worker' \in [Workers -> WorkerPoints]
    BY <1>6 DEF TakeTask, Goto
  <2>2. CASE UNCHANGED <<tasks_queue, task>>
    BY <2>1, <2>2
  <2>3. CASE tasks_queue # <<>> /\ tasks_queue' = Tail(tasks_queue)
             /\ task' = [task EXCEPT ![w] = Head(tasks_queue)]
    <3>1. Head(tasks_queue) \in Tasks /\ tasks_queue' \in Seq(Tasks)
      BY <2>3, HeadTailProperties
    <3>2. task' \in [Workers -> Tasks \cup {NoTask}]
      BY <2>3, <3>1
    <3> QED BY <2>1, <3>1, <3>2
  <2> QED BY <1>6, <2>2, <2>3 DEF TakeTask
<1>7. ASSUME NEW w \in Workers, SpuriousWakeup(w) PROVE TypeOK'
  BY <1>7 DEF SpuriousWakeup, Wake
<1>8. ASSUME NEW w \in Workers, TaskEnds(w) PROVE TypeOK'
  BY <1>8 DEF TaskEnds, Goto
<1>9. ASSUME NEW w \in Workers, FreeTask(w) PROVE TypeOK'
  BY <1>9 DEF FreeTask, Goto
<1>10. ASSUME UNCHANGED vars PROVE TypeOK'
  BY <1>10 DEF vars
<1> QED BY <1>1, <1>2, <1>3, <1>4, <1>5, <1>6, <1>7, <1>8, <1>9, <1>10
       DEF Next, destroy_thread_pool, thread_exec

(* Steps that leave the queue and the tasks alone, and no thread at a       *)
(* different side of "has a task".                                          *)
LEMMA TasksStay ==
  ASSUME PInv, UNCHANGED <<tasks_queue, accepted, task>>,
         \A w \in Workers : worker'[w] \in {"run", "free"} <=> worker[w] \in {"run", "free"}
  PROVE  InOrder' /\ Holders'
BY DEF PInv, InOrder, Holders, Started

(* Which thread has which task.                                             *)
LEMMA TasksStep == PInv /\ [Next]_vars => InOrder' /\ Holders'
<1> SUFFICES ASSUME PInv, [Next]_vars PROVE InOrder' /\ Holders'
  OBVIOUS
<1> USE DEF PInv
<1>1. ASSUME NEW x \in Tasks \ HandedIn, thread_pool_execute(x) PROVE InOrder' /\ Holders'
  <2>1. UNCHANGED task
    BY <1>1 DEF thread_pool_execute
  <2>2. \A w \in Workers : worker'[w] \in {"run", "free"} <=> worker[w] \in {"run", "free"}
    BY <1>1 DEF thread_pool_execute, Signal, Waiters, Wake, TypeOK
  <2>3. \A i \in 1..Started : i \in 1..Len(accepted)
    BY Lengths, SMT
  <2> QED BY <1>1, <2>1, <2>2, <2>3, ExecuteOrder DEF Holders
<1>2. ASSUME DestroyCancel PROVE InOrder' /\ Holders'
  BY <1>2, TasksStay DEF DestroyCancel
<1>3. ASSUME DestroyBroadcast PROVE InOrder' /\ Holders'
  BY <1>3, TasksStay DEF DestroyBroadcast, Broadcast, Waiters, Wake
<1>4. ASSUME DestroyJoin PROVE InOrder' /\ Holders'
  BY <1>4, TasksStay DEF DestroyJoin
<1>5. ASSUME NEW w \in Workers, LoopHead(w) PROVE InOrder' /\ Holders'
  BY <1>5, TasksStay DEF LoopHead, Goto, TypeOK
<1>6. ASSUME NEW w \in Workers, TakeTask(w) PROVE InOrder' /\ Holders'
  <2>1. CASE UNCHANGED <<tasks_queue, task>> /\ (Goto(w, "exit") \/ Goto(w, "wait"))
    BY <1>6, <2>1, TasksStay DEF TakeTask, Goto, TypeOK
  <2>2. CASE ~cancelled /\ ~Empty(w)
    <3>1. /\ tasks_queue # <<>> /\ tasks_queue' = Tail(tasks_queue) /\ UNCHANGED accepted
          /\ task' = [task EXCEPT ![w] = Head(tasks_queue)] /\ Goto(w, "run")
      BY <1>6, <2>2 DEF TakeTask, Empty
    <3>2. /\ InOrder' /\ Started' = Started + 1 /\ Started + 1 \in 1..Len(accepted)
          /\ Head(tasks_queue) = accepted[Started + 1] /\ Head(tasks_queue) \in Tasks
      BY <3>1, TakeOrder
    <3>3. /\ task'[w] = accepted[Started + 1] /\ task'[w] # NoTask /\ worker'[w] = "run"
          /\ \A v \in Workers \ {w} : task'[v] = task[v] /\ worker'[v] = worker[v]
      BY <3>1, <3>2, TasksAssumption DEF Goto, TypeOK
    <3>4. \A v \in Workers : task[v] # NoTask => task[v] # accepted[Started + 1]
      <4>1. \A i \in 1..Started : i \in 1..Len(accepted) /\ i # Started + 1
        BY Lengths, SMT
      <4> QED BY <3>2, <4>1 DEF Holders, InOrder
    <3>5. \A v \in Workers : worker'[v] \in {"run", "free"} <=> task'[v] # NoTask
      BY <3>3 DEF Holders
    <3>6. \A v \in Workers : task'[v] # NoTask => \E i \in 1..Started' : task'[v] = accepted'[i]
      <4> TAKE v \in Workers
      <4>1. Started + 1 \in 1..Started' /\ \A i \in 1..Started : i \in 1..Started'
        BY <3>2, Lengths, SMT
      <4> QED BY <3>1, <3>3, <4>1 DEF Holders
    <3>7. \A u, v \in Workers : task'[u] = task'[v] /\ task'[u] # NoTask => u = v
      BY <3>3, <3>4 DEF Holders
    <3> QED BY <3>2, <3>5, <3>6, <3>7 DEF Holders
  <2> QED BY <1>6, <2>1, <2>2 DEF TakeTask
<1>7. ASSUME NEW w \in Workers, SpuriousWakeup(w) PROVE InOrder' /\ Holders'
  BY <1>7, TasksStay DEF SpuriousWakeup, Waiters, Wake
<1>8. ASSUME NEW w \in Workers, TaskEnds(w) PROVE InOrder' /\ Holders'
  BY <1>8, TasksStay DEF TaskEnds, Goto, TypeOK
<1>9. ASSUME NEW w \in Workers, FreeTask(w) PROVE InOrder' /\ Holders'
  <2>1. UNCHANGED <<tasks_queue, accepted>>
    BY <1>9 DEF FreeTask
  <2>2. /\ task'[w] = NoTask /\ worker'[w] = "head"
        /\ \A v \in Workers \ {w} : task'[v] = task[v] /\ worker'[v] = worker[v]
    BY <1>9 DEF FreeTask, Goto, TypeOK
  <2>3. InOrder' /\ Started' = Started
    BY <2>1 DEF InOrder, Started
  <2>4. \A v \in Workers : worker'[v] \in {"run", "free"} <=> task'[v] # NoTask
    BY <2>2 DEF Holders
  <2>5. \A v \in Workers : task'[v] # NoTask => \E i \in 1..Started' : task'[v] = accepted'[i]
    BY <2>1, <2>2, <2>3 DEF Holders
  <2>6. \A u, v \in Workers : task'[u] = task'[v] /\ task'[u] # NoTask => u = v
    BY <2>2 DEF Holders
  <2> QED BY <2>3, <2>4, <2>5, <2>6 DEF Holders
<1>10. ASSUME UNCHANGED vars PROVE InOrder' /\ Holders'
  BY <1>10, TasksStay DEF vars
<1> QED BY <1>1, <1>2, <1>3, <1>4, <1>5, <1>6, <1>7, <1>8, <1>9, <1>10
       DEF Next, destroy_thread_pool, thread_exec

(* Sleeping and coming threads.                                             *)
LEMMA WakeupStep == PInv /\ [Next]_vars => NoLostWakeup'
<1> SUFFICES ASSUME PInv, [Next]_vars, ~cancelled', Waiters' # {}
             PROVE  Len(tasks_queue') <= Cardinality(Coming')
  BY DEF NoLostWakeup
<1> USE DEF PInv
<1>1. /\ Len(tasks_queue) \in Nat
      /\ IsFiniteSet(Coming) /\ Cardinality(Coming) \in Nat
      /\ IsFiniteSet(Coming') /\ Cardinality(Coming') \in Nat
  BY Lengths, Countable DEF Coming
<1>2. ASSUME Waiters' \subseteq Waiters, UNCHANGED <<cancelled, tasks_queue>>,
             Coming' = Coming \/ \E w \in Workers : Coming' = Coming \cup {w}
      PROVE  Len(tasks_queue') <= Cardinality(Coming')
  <2>1. Len(tasks_queue) <= Cardinality(Coming)
    BY <1>2 DEF NoLostWakeup
  <2>2. Cardinality(Coming) <= Cardinality(Coming')
    BY <1>1, <1>2, FS_AddElement, SMT
  <2> QED BY <1>1, <1>2, <2>1, <2>2, SMT
<1>3. ASSUME NEW x \in Tasks \ HandedIn, thread_pool_execute(x)
      PROVE  Len(tasks_queue') <= Cardinality(Coming')
  <2>1. CASE Signal = {} /\ UNCHANGED worker
    BY <2>1 DEF Signal, Waiters
  <2>2. CASE \E W \in Signal : Wake(W)
    <3>1. PICK w \in Waiters : Wake({w})
      BY <2>2 DEF Signal
    <3>2. Coming' = Coming \cup {w} /\ w \notin Coming
      BY <3>1 DEF Wake, Waiters, Coming, TypeOK
    <3>3. Len(tasks_queue) <= Cardinality(Coming)
      BY <1>3 DEF NoLostWakeup, thread_pool_execute
    <3>4. Cardinality(Coming') = Cardinality(Coming) + 1
      BY <1>1, <3>2, FS_AddElement
    <3>5. Len(tasks_queue') = Len(tasks_queue) + 1
      BY <1>3, ExecuteOrder
    <3> QED BY <1>1, <3>3, <3>4, <3>5, SMT
  <2> QED BY <1>3, <2>1, <2>2 DEF thread_pool_execute
<1>4. ASSUME DestroyBroadcast PROVE FALSE
  BY <1>4 DEF DestroyBroadcast, Broadcast, Wake, Waiters, TypeOK
<1>5. ASSUME DestroyCancel PROVE FALSE
  BY <1>5 DEF DestroyCancel
<1>6. ASSUME DestroyJoin PROVE Len(tasks_queue') <= Cardinality(Coming')
  BY <1>2, <1>6 DEF DestroyJoin, Waiters, Coming
<1>7. ASSUME NEW w \in Workers, LoopHead(w) PROVE Len(tasks_queue') <= Cardinality(Coming')
  <2>1. UNCHANGED <<cancelled, tasks_queue>> /\ Goto(w, "lock") /\ worker[w] = "head"
    BY <1>7 DEF LoopHead
  <2>2. Coming' = Coming /\ Waiters' = Waiters
    BY <2>1 DEF Goto, Coming, Waiters, TypeOK
  <2> QED BY <1>2, <2>1, <2>2
<1>8. ASSUME NEW w \in Workers, TakeTask(w) PROVE Len(tasks_queue') <= Cardinality(Coming')
  <2>1. ~cancelled
    BY <1>8 DEF TakeTask
  <2>2. CASE Empty(w)
    <3>1. tasks_queue' = <<>>
      BY <1>8, <2>1, <2>2 DEF TakeTask, Empty
    <3> QED BY <1>1, <3>1, EmptySeq, SMT
  <2>3. CASE ~Empty(w)
    <3>1. /\ tasks_queue # <<>> /\ tasks_queue' = Tail(tasks_queue) /\ UNCHANGED accepted
          /\ Goto(w, "run") /\ worker[w] \in {"lock", "woken"}
      BY <1>8, <2>1, <2>3 DEF TakeTask, Empty
    <3>2. Coming' = Coming \ {w} /\ w \in Coming /\ Waiters' = Waiters
      BY <3>1 DEF Goto, Coming, Waiters, TypeOK
    <3>3. Len(tasks_queue) <= Cardinality(Coming)
      BY <2>1, <3>2 DEF NoLostWakeup
    <3>4. Cardinality(Coming') = Cardinality(Coming) - 1
      BY <1>1, <3>2, FS_RemoveElement
    <3>5. Len(tasks_queue) = Len(tasks_queue') + 1 /\ Len(tasks_queue') \in Nat
      BY <3>1, TakeOrder, HeadTailProperties, LenProperties DEF TypeOK
    <3> QED BY <1>1, <3>3, <3>4, <3>5, SMT
  <2> QED BY <2>2, <2>3
<1>9. ASSUME NEW w \in Workers, SpuriousWakeup(w)
      PROVE  Len(tasks_queue') <= Cardinality(Coming')
  <2>1. UNCHANGED <<cancelled, tasks_queue>>
    BY <1>9 DEF SpuriousWakeup
  <2>2. Coming' = Coming \cup {w} /\ Waiters' \subseteq Waiters
    BY <1>9 DEF SpuriousWakeup, Wake, Coming, Waiters, TypeOK
  <2> QED BY <1>2, <2>1, <2>2
<1>10. ASSUME NEW w \in Workers, TaskEnds(w) PROVE Len(tasks_queue') <= Cardinality(Coming')
  <2>1. UNCHANGED <<cancelled, tasks_queue>>
    BY <1>10 DEF TaskEnds
  <2>2. Coming' = Coming \cup {w} /\ Waiters' = Waiters
    BY <1>10 DEF TaskEnds, Goto, Coming, Waiters, TypeOK
  <2> QED BY <1>2, <2>1, <2>2
<1>11. ASSUME NEW w \in Workers, FreeTask(w) PROVE Len(tasks_queue') <= Cardinality(Coming')
  <2>1. UNCHANGED <<cancelled, tasks_queue>>
    BY <1>11 DEF FreeTask
  <2>2. Coming' = Coming /\ Waiters' = Waiters
    BY <1>11 DEF FreeTask, Goto, Coming, Waiters, TypeOK
  <2> QED BY <1>2, <2>1, <2>2
<1>12. ASSUME UNCHANGED vars PROVE Len(tasks_queue') <= Cardinality(Coming')
  BY <1>2, <1>12 DEF vars, Coming, Waiters
<1> QED BY <1>3, <1>4, <1>5, <1>6, <1>7, <1>8, <1>9, <1>10, <1>11, <1>12
       DEF Next, destroy_thread_pool, thread_exec

(* The flag.                                                                *)
LEMMA OpenStep == PInv /\ [Next]_vars => OpenAsLong'
<1> SUFFICES ASSUME PInv, [Next]_vars PROVE OpenAsLong'
  OBVIOUS
<1>1. CASE UNCHANGED <<cancelled, owner>>
  BY <1>1 DEF PInv, OpenAsLong
<1>2. CASE destroy_thread_pool
  BY <1>2 DEF destroy_thread_pool, DestroyCancel, DestroyBroadcast, DestroyJoin, OpenAsLong
<1> QED BY <1>1, <1>2 DEF Next, thread_pool_execute, thread_exec, LoopHead, TakeTask,
       FreeTask, SpuriousWakeup, TaskEnds, vars

(* The inductive invariant.                                                 *)
LEMMA PoolInvariant == Spec => []PInv
<1>1. Init => PInv
  <2> SUFFICES ASSUME Init PROVE PInv
    OBVIOUS
  <2>1. TypeOK
    BY EmptySeq DEF Init, TypeOK, WorkerPoints, OwnerPoints
  <2>2. Len(accepted) = 0 /\ Len(tasks_queue) = 0 /\ Waiters = {}
    BY EmptySeq DEF Init, Waiters
  <2>3. InOrder /\ Holders
    BY <2>2, SMT DEF Init, InOrder, Holders, Started
  <2> QED BY <2>1, <2>2, <2>3 DEF Init, PInv, NoLostWakeup, OpenAsLong
<1>2. PInv /\ [Next]_vars => PInv'
  BY TypeStep, TasksStep, WakeupStep, OpenStep DEF PInv
<1> QED BY <1>1, <1>2, PTL DEF Spec

(* A task in the queue never finds all threads asleep: there are always as  *)
(* many on their way as there are tasks (thread_pool.c:54-72).              *)
THEOREM NoWakeupLost == Spec => []NoLostWakeup
BY PoolInvariant, PTL DEF PInv

(* Threads never run NULL, nor each other's task (thread_pool.c:71-73).     *)
THEOREM TasksAreOwn == Spec => []OwnTask
<1>1. PInv => OwnTask
  BY DEF PInv, OwnTask, Holders
<1> QED BY <1>1, PoolInvariant, PTL

(* The threads that have a task are fewer than all when one has none.       *)
LEMMA RoomToRun ==
  ASSUME PInv, NEW w \in Workers, task[w] = NoTask
  PROVE  Cardinality({task[v] : v \in Workers} \ {NoTask}) < Cardinality(Workers)
<1> DEFINE Busy == {v \in Workers : task[v] # NoTask}
           Run == {task[v] : v \in Workers} \ {NoTask}
           f == [v \in Busy |-> task[v]]
<1>1. Busy \in SUBSET (Workers \ {w})
  OBVIOUS
<1>2. /\ IsFiniteSet(Workers \ {w})
      /\ Cardinality(Workers \ {w}) = Cardinality(Workers) - 1
      /\ Cardinality(Workers) \in Nat
  BY WorkersAssumption, FS_RemoveElement, FS_CardinalityType
<1>3. IsFiniteSet(Busy) /\ Cardinality(Busy) <= Cardinality(Workers \ {w})
  BY <1>1, <1>2, FS_Subset
<1>4. f \in Surjection(Busy, Run)
  BY DEF Surjection
<1>5. IsFiniteSet(Run) /\ Cardinality(Run) <= Cardinality(Busy)
  BY <1>3, <1>4, FS_Surjection
<1>6. Cardinality(Run) \in Nat /\ Cardinality(Busy) \in Nat
  BY <1>3, <1>5, FS_CardinalityType
<1>7. Cardinality(Run) < Cardinality(Workers)
  BY <1>2, <1>3, <1>5, <1>6, SMT
<1> QED BY <1>7

(* Every step of the pool is a step of WorkQueue or none.                   *)
LEMMA StepPromised == PInv /\ [Next]_vars => [Promise!Next]_(Promise!vars)
<1> SUFFICES ASSUME PInv, [Next]_vars PROVE Promise!Next \/ UNCHANGED Promise!vars
  OBVIOUS
<1> USE DEF PInv
<1>1. ASSUME UNCHANGED <<tasks_queue, accepted, task, cancelled>>
      PROVE  UNCHANGED Promise!vars
  BY <1>1 DEF Promise!vars
<1>2. ASSUME NEW x \in Tasks \ HandedIn, thread_pool_execute(x) PROVE Promise!Next
  <2>1. accepted' = Append(accepted, x) /\ UNCHANGED <<task, cancelled>> /\ ~cancelled
    BY <1>2 DEF thread_pool_execute, OpenAsLong
  <2>2. Len(accepted') - Len(tasks_queue') = Len(accepted) - Len(tasks_queue)
    BY <1>2, ExecuteOrder DEF Started
  <2>3. Promise!Accept(x)
    BY <2>1, <2>2 DEF Promise!Accept
  <2> QED BY <2>3 DEF Promise!Next
<1>3. ASSUME DestroyCancel PROVE Promise!Next
  BY <1>3 DEF DestroyCancel, Promise!Next, Promise!Close
<1>4. ASSUME NEW w \in Workers, TakeTask(w) PROVE Promise!Next \/ UNCHANGED Promise!vars
  <2>1. CASE UNCHANGED <<tasks_queue, task>>
    BY <1>1, <1>4, <2>1 DEF TakeTask
  <2>2. CASE ~cancelled /\ ~Empty(w)
    <3>1. /\ tasks_queue # <<>> /\ tasks_queue' = Tail(tasks_queue)
          /\ UNCHANGED <<accepted, cancelled>>
          /\ task' = [task EXCEPT ![w] = Head(tasks_queue)]
      BY <1>4, <2>2 DEF TakeTask, Empty
    <3>2. /\ Len(accepted') - Len(tasks_queue') = Len(accepted) - Len(tasks_queue) + 1
          /\ Len(accepted) - Len(tasks_queue) + 1 \in 1..Len(accepted)
          /\ Head(tasks_queue) = accepted[Len(accepted) - Len(tasks_queue) + 1]
          /\ Head(tasks_queue) \in Tasks
      BY <3>1, TakeOrder DEF Started
    <3>3. task[w] = NoTask
      BY <1>4 DEF TakeTask, Holders
    <3>4. Cardinality({task[v] : v \in Workers} \ {NoTask}) < Cardinality(Workers)
      BY <3>3, RoomToRun
    <3>5. Promise!Cardinality({task[v] : v \in Workers} \ {NoTask})
            = Cardinality({task[v] : v \in Workers} \ {NoTask})
      BY DEF Promise!Cardinality, Cardinality, Promise!IsFiniteSet, IsFiniteSet
    <3>6. Len(accepted) - Len(tasks_queue) < Len(accepted)
      BY <3>2, Lengths, SMT
    <3>7. {task'[v] : v \in Workers} \ {NoTask}
            = ({task[v] : v \in Workers} \ {NoTask}) \cup {Head(tasks_queue)}
      <4>1. task'[w] = Head(tasks_queue) /\ \A v \in Workers \ {w} : task'[v] = task[v]
        BY <3>1 DEF TypeOK
      <4>2. Head(tasks_queue) # NoTask
        BY <3>2, TasksAssumption
      <4> QED BY <3>3, <4>1, <4>2
    <3>8. Promise!Start
      BY <2>2, <3>1, <3>2, <3>4, <3>5, <3>6, <3>7 DEF Promise!Start
    <3> QED BY <3>8 DEF Promise!Next
  <2> QED BY <1>4, <2>1, <2>2 DEF TakeTask
<1>5. ASSUME NEW w \in Workers, FreeTask(w) PROVE Promise!Next
  <2>1. UNCHANGED <<tasks_queue, accepted, cancelled>> /\ task[w] # NoTask
    BY <1>5 DEF FreeTask, Holders
  <2>2. task'[w] = NoTask /\ \A v \in Workers \ {w} : task'[v] = task[v]
    BY <1>5 DEF FreeTask, TypeOK
  <2>3. task[w] \in Tasks /\ task[w] \in {task[v] : v \in Workers} \ {NoTask}
    BY <2>1 DEF TypeOK
  <2>4. {task'[v] : v \in Workers} \ {NoTask}
          = ({task[v] : v \in Workers} \ {NoTask}) \ {task[w]}
    BY <2>1, <2>2 DEF Holders
  <2>5. PICK x \in Tasks : x = task[w]
    BY <2>3
  <2>6. Promise!End(x)
    BY <2>1, <2>3, <2>4, <2>5 DEF Promise!End
  <2> QED BY <2>6 DEF Promise!Next
<1>6. ASSUME DestroyBroadcast \/ DestroyJoin
      PROVE  UNCHANGED <<tasks_queue, accepted, task, cancelled>>
  BY <1>6 DEF DestroyBroadcast, DestroyJoin
<1>7. ASSUME NEW w \in Workers, LoopHead(w) \/ SpuriousWakeup(w) \/ TaskEnds(w)
      PROVE  UNCHANGED <<tasks_queue, accepted, task, cancelled>>
  BY <1>7 DEF LoopHead, SpuriousWakeup, TaskEnds
<1>8. ASSUME UNCHANGED vars PROVE UNCHANGED <<tasks_queue, accepted, task, cancelled>>
  BY <1>8 DEF vars
<1> QED BY <1>1, <1>2, <1>3, <1>4, <1>5, <1>6, <1>7, <1>8
       DEF Next, destroy_thread_pool, thread_exec

(* The pool implements WorkQueue, for any number of threads: tasks start in *)
(* the order of thread_pool_execute, each once, never more at a time than   *)
(* there are threads and none after destroy_thread_pool set its flag        *)
(* (thread_pool.c:29-81).                                                   *)
THEOREM PoolImplementsWorkQueue == Spec => Promise!Spec
<1>1. Init => Promise!Init
  <2> SUFFICES ASSUME Init PROVE Promise!Init
    OBVIOUS
  <2>1. Len(accepted) = 0 /\ Len(tasks_queue) = 0
    BY EmptySeq DEF Init
  <2>2. Len(accepted) - Len(tasks_queue) = 0
    BY <2>1, SMT
  <2>3. {task[w] : w \in Workers} \ {NoTask} = {}
    BY DEF Init
  <2> QED BY <2>2, <2>3 DEF Init, Promise!Init
<1> QED BY <1>1, PoolInvariant, StepPromised, PTL DEF Spec, Promise!Spec
=============================================================================
