-------------------------- MODULE SolutionsDbProofs --------------------------
(* What SolutionsDb promises about the rows holds for any number of         *)
(* solutions and of faults.                                                 *)
EXTENDS SolutionsDb, TLAPS

(* The connection's own view is never behind what is committed, and differs *)
(* from it only inside a transaction.                                       *)
Views ==
  /\ \A s \in Solutions : durable[s] <= table[s] /\ (durable[s] = -1 => table[s] = -1)
  /\ in_trx = FALSE => table = durable

(* Where a transaction can be open.  Only a failed commit or rollback lets  *)
(* one outlive the poller's critical section.                               *)
Trx ==
  /\ conn \in {"none", "lost"} => in_trx = FALSE
  /\ conn = "result" <=> poll = "store"
  /\ poll = "init" => conn = "none"
  /\ poll \in {"update", "commit"} /\ conn = "ready" => in_trx = TRUE
  /\ faults["end"] = 0 /\ poll \notin {"update", "commit", "rollback"} => in_trx = FALSE

(* How far the rows of the batch have got at each point of the poller.      *)
Batch ==
  /\ held \subseteq handed
  /\ \A s \in handed : durable[s] >= 1
  /\ poll = "store" => \A s \in new_solutions : table[s] = 0
  /\ poll = "start" /\ conn = "ready" =>
       todo = new_solutions /\ \A s \in todo : table[s] = 0
  /\ poll = "update" /\ conn = "ready" =>
       /\ todo \subseteq new_solutions
       /\ \A s \in new_solutions : IF s \in todo THEN table[s] = 0 ELSE table[s] >= 1
  /\ poll = "commit" /\ conn = "ready" => \A s \in new_solutions : table[s] >= 1
  /\ poll = "push" => \A s \in new_solutions : durable[s] >= 1

(* Who owns a marked row, as long as only statements fail.                  *)
OnlyStatementsFail == faults["end"] = 0 /\ faults["lost"] = 0 /\ faults["crash"] = 0
Marked ==
  OnlyStatementsFail =>
    /\ \A s \in Solutions : durable[s] = 1 =>
         s \in handed \/ (poll = "push" /\ s \in new_solutions)
    /\ \A s \in Solutions : table[s] = 1 =>
         \/ s \in handed
         \/ poll \in {"update", "commit", "rollback", "push"} /\ s \in new_solutions

IInv == TypeOK /\ Views /\ Trx /\ Batch /\ PostedStays /\ Marked
-----------------------------------------------------------------------------
(* The effect of a statement that fails: none, or the server rolls back.    *)
FailureOf(kind) ==
  /\ durable' = durable
  /\ faults' \in [FaultKinds -> Nat]
  /\ \A k \in FaultKinds : faults'[k] >= faults[k]
  /\ \/ conn # "ready" /\ UNCHANGED <<table, in_trx, conn, faults>>
     \/ conn = "ready" /\ faults'[kind] # 0 /\ UNCHANGED <<table, in_trx, conn>>
     \/ /\ conn = "ready" /\ conn' = "lost"
        /\ table' = durable /\ in_trx' = FALSE /\ faults'["lost"] # 0

LEMMA FailedQuery ==
  ASSUME TypeOK, NEW kind \in FaultKinds, QueryFails(kind)
  PROVE  FailureOf(kind)
BY DEF QueryFails, Refused, Failed, Break, Fault, FailureOf, TypeOK, FaultKinds, rows

(* A fault is counted.                                                      *)
LEMMA FaultCounted ==
  ASSUME TypeOK, NEW kind \in FaultKinds, Fault(kind)
  PROVE  /\ faults' \in [FaultKinds -> Nat] /\ faults'[kind] # 0
         /\ \A k \in FaultKinds : faults'[k] >= faults[k]
BY DEF Fault, TypeOK, FaultKinds

(* An UPDATE of one row, to what is not less.                               *)
LEMMA UpdatedRow ==
  ASSUME TypeOK, Views, NEW s \in Solutions, NEW v \in 1..2, table[s] <= v, durable[s] # -1,
         conn = "ready", table' = [table EXCEPT ![s] = v],
         durable' = IF in_trx THEN durable ELSE table', UNCHANGED <<in_trx, conn, faults>>
  PROVE  /\ table' \in [Solutions -> -1..2] /\ durable' \in [Solutions -> -1..2]
         /\ table'[s] = v /\ \A t \in Solutions \ {s} : table'[t] = table[t]
         /\ in_trx = TRUE => durable' = durable
         /\ in_trx = FALSE => durable' = table'
         /\ \A t \in Solutions : durable'[t] >= durable[t]
         /\ Views' /\ conn = "ready" /\ UNCHANGED <<in_trx, conn, faults>>
<1>1. table' = [table EXCEPT ![s] = v] /\ conn = "ready" /\ UNCHANGED <<in_trx, conn, faults>>
  OBVIOUS
<1>2. /\ table' \in [Solutions -> -1..2]
      /\ table'[s] = v /\ \A t \in Solutions \ {s} : table'[t] = table[t]
  BY <1>1 DEF TypeOK
<1>3. in_trx = TRUE => durable' = durable
  OBVIOUS
<1>4. in_trx = FALSE => durable' = table' /\ table = durable
  BY DEF Views
<1>5. in_trx = TRUE \/ in_trx = FALSE
  BY DEF TypeOK
<1>6. CASE in_trx = TRUE
  BY <1>1, <1>2, <1>3, <1>6 DEF TypeOK, Views
<1>7. CASE in_trx = FALSE
  BY <1>1, <1>2, <1>4, <1>7 DEF TypeOK, Views
<1> QED BY <1>5, <1>6, <1>7

(* Every step keeps the invariant, action by action.                        *)
LEMMA InvStep == IInv /\ [Next]_vars => IInv'
<1> SUFFICES ASSUME IInv, [Next]_vars PROVE IInv'
  OBVIOUS
<1> USE SolutionsAssumption DEF IInv, PollPoints, Critical, ConnStates, FaultKinds, rows, batch, past
<1>1. ASSUME solutions_init_db PROVE IInv'
  <2>1. TypeOK'
    BY <1>1 DEF solutions_init_db, Goto, Fault, TypeOK
  <2>2. Views'
    BY <1>1 DEF solutions_init_db, Goto, Fault, TypeOK, Views, Trx
  <2>3. Trx'
    BY <1>1 DEF solutions_init_db, Goto, Fault, TypeOK, Trx
  <2>4. Batch'
    BY <1>1 DEF solutions_init_db, Goto, Fault, TypeOK, Views, Trx, Batch
  <2>5. PostedStays'
    BY <1>1 DEF solutions_init_db, Goto, Fault, TypeOK, Views, Trx, Batch, PostedStays
  <2>6. Marked'
    BY <1>1 DEF solutions_init_db, Goto, Fault, TypeOK, OnlyStatementsFail, Views, Trx, Batch, Marked
  <2> QED BY <2>1, <2>2, <2>3, <2>4, <2>5, <2>6
<1>2. ASSUME WakeUp PROVE IInv'
  <2>1. TypeOK'
    BY <1>2 DEF WakeUp, Goto, TypeOK
  <2>2. Views'
    BY <1>2 DEF WakeUp, Goto, TypeOK, Views, Trx
  <2>3. Trx'
    BY <1>2 DEF WakeUp, Goto, TypeOK, Trx
  <2>4. Batch'
    BY <1>2 DEF WakeUp, Goto, TypeOK, Views, Trx, Batch
  <2>5. PostedStays'
    BY <1>2 DEF WakeUp, Goto, TypeOK, Views, Trx, Batch, PostedStays
  <2>6. Marked'
    BY <1>2 DEF WakeUp, Goto, TypeOK, OnlyStatementsFail, Views, Trx, Batch, Marked
  <2> QED BY <2>1, <2>2, <2>3, <2>4, <2>5, <2>6
<1>3. ASSUME solutions_close_db PROVE IInv'
  <2>1. TypeOK'
    BY <1>3 DEF solutions_close_db, Goto, TypeOK
  <2>2. Views'
    BY <1>3 DEF solutions_close_db, Goto, TypeOK, Views, Trx
  <2>3. Trx'
    BY <1>3 DEF solutions_close_db, Goto, TypeOK, Trx
  <2>4. Batch'
    BY <1>3 DEF solutions_close_db, Goto, TypeOK, Views, Trx, Batch
  <2>5. PostedStays'
    BY <1>3 DEF solutions_close_db, Goto, TypeOK, Views, Trx, Batch, PostedStays
  <2>6. Marked'
    BY <1>3 DEF solutions_close_db, Goto, TypeOK, OnlyStatementsFail, Views, Trx, Batch, Marked
  <2> QED BY <2>1, <2>2, <2>3, <2>4, <2>5, <2>6
<1>4. ASSUME Select PROVE IInv'
  <2>0. QueryFails("statement") => FailureOf("statement")
    BY FailedQuery
  <2>1. TypeOK'
    BY <1>4, <2>0 DEF Select, Goto, NewRows, TypeOK, FailureOf
  <2>2. Views'
    BY <1>4, <2>0 DEF Select, Goto, NewRows, TypeOK, Views, Trx, FailureOf
  <2>3. Trx'
    BY <1>4, <2>0 DEF Select, Goto, NewRows, TypeOK, Trx, FailureOf
  <2>4. Batch'
    BY <1>4, <2>0 DEF Select, Goto, NewRows, TypeOK, Views, Trx, Batch, FailureOf
  <2>5. PostedStays'
    BY <1>4, <2>0 DEF Select, Goto, NewRows, TypeOK, Views, Trx, Batch, PostedStays, FailureOf
  <2>6. Marked'
    BY <1>4, <2>0 DEF Select, Goto, NewRows, TypeOK, OnlyStatementsFail, Views, Trx, Batch, Marked, FailureOf
  <2> QED BY <2>1, <2>2, <2>3, <2>4, <2>5, <2>6
<1>5. ASSUME Store PROVE IInv'
  <2>1. TypeOK'
    BY <1>5 DEF Store, Goto, Fetched, Fault, TypeOK
  <2>2. Views'
    BY <1>5 DEF Store, Goto, Fetched, Fault, TypeOK, Views, Trx
  <2>3. Trx'
    BY <1>5 DEF Store, Goto, Fetched, Fault, TypeOK, Trx
  <2>4. Batch'
    BY <1>5 DEF Store, Goto, Fetched, Fault, TypeOK, Views, Trx, Batch
  <2>5. PostedStays'
    BY <1>5 DEF Store, Goto, Fetched, Fault, TypeOK, Views, Trx, Batch, PostedStays
  <2>6. Marked'
    BY <1>5 DEF Store, Goto, Fetched, Fault, TypeOK, OnlyStatementsFail, Views, Trx, Batch, Marked
  <2> QED BY <2>1, <2>2, <2>3, <2>4, <2>5, <2>6
<1>6. ASSUME StartTransaction PROVE IInv'
  <2>0. QueryFails("statement") => FailureOf("statement")
    BY FailedQuery
  <2>1. TypeOK'
    BY <1>6, <2>0 DEF StartTransaction, Goto, TypeOK, FailureOf
  <2>2. Views'
    BY <1>6, <2>0 DEF StartTransaction, Goto, TypeOK, Views, Trx, FailureOf
  <2>3. Trx'
    BY <1>6, <2>0 DEF StartTransaction, Goto, TypeOK, Trx, FailureOf
  <2>4. Batch'
    BY <1>6, <2>0 DEF StartTransaction, Goto, TypeOK, Views, Trx, Batch, FailureOf
  <2>5. PostedStays'
    BY <1>6, <2>0 DEF StartTransaction, Goto, TypeOK, Views, Trx, Batch, PostedStays, FailureOf
  <2>6. Marked'
    BY <1>6, <2>0 DEF StartTransaction, Goto, TypeOK, OnlyStatementsFail, Views, Trx, Batch, Marked, FailureOf
  <2> QED BY <2>1, <2>2, <2>3, <2>4, <2>5, <2>6
<1>7. ASSUME NEW s \in todo, MarkRow(s) PROVE IInv'
  <2>0. s \in Solutions /\ poll = "update" /\ UNCHANGED <<new_solutions, held, past>>
    BY <1>7 DEF MarkRow, TypeOK
  <2>1. CASE QueryUpdates([table EXCEPT ![s] = 1]) /\ todo' = todo \ {s} /\ UNCHANGED poll
    <3>1. table[s] = 0 /\ in_trx = TRUE /\ conn = "ready"
      BY <2>0, <2>1 DEF Batch, Trx, QueryUpdates
    <3>2. durable[s] # -1
      BY <2>0, <3>1 DEF Views, TypeOK
    <3>3. /\ table' \in [Solutions -> -1..2] /\ durable' = durable /\ Views'
          /\ table'[s] = 1 /\ \A t \in Solutions \ {s} : table'[t] = table[t]
          /\ UNCHANGED <<in_trx, conn, faults>>
      <4>1. 1 \in 1..2 /\ table[s] <= 1
        BY <3>1
      <4>2. /\ conn = "ready" /\ table' = [table EXCEPT ![s] = 1]
            /\ durable' = (IF in_trx THEN durable ELSE table') /\ UNCHANGED <<in_trx, conn, faults>>
        BY <2>1 DEF QueryUpdates
      <4> QED BY <2>0, <3>1, <3>2, <4>1, <4>2, UpdatedRow
    <3>4. TypeOK' /\ Trx' /\ PostedStays'
      BY <2>0, <2>1, <3>3 DEF TypeOK, Trx, PostedStays
    <3>5. Batch'
      BY <2>0, <2>1, <3>1, <3>3 DEF TypeOK, Batch
    <3>6. Marked'
      BY <2>0, <2>1, <3>1, <3>3 DEF TypeOK, Batch, Marked, OnlyStatementsFail
    <3> QED BY <3>3, <3>4, <3>5, <3>6
  <2>2. CASE QueryFails("statement") /\ Goto("rollback") /\ UNCHANGED todo
    <3>1. FailureOf("statement")
      BY <2>2, FailedQuery
    <3>2. TypeOK'
      BY <2>0, <2>2, <3>1 DEF Goto, FailureOf, TypeOK
    <3>3. Views' /\ Trx'
      BY <2>0, <2>2, <3>1 DEF Goto, FailureOf, TypeOK, Views, Trx
    <3>4. Batch' /\ PostedStays'
      BY <2>0, <2>2, <3>1 DEF Goto, FailureOf, TypeOK, Views, Trx, Batch, PostedStays
    <3>5. Marked'
      BY <2>0, <2>2, <3>1 DEF Goto, FailureOf, TypeOK, Views, Trx, Marked, OnlyStatementsFail
    <3> QED BY <3>2, <3>3, <3>4, <3>5
  <2> QED BY <1>7, <2>1, <2>2 DEF MarkRow
<1>8. ASSUME MarkedAll PROVE IInv'
  <2>1. TypeOK'
    BY <1>8 DEF MarkedAll, Goto, NoneLeft, TypeOK
  <2>2. Views'
    BY <1>8 DEF MarkedAll, Goto, NoneLeft, TypeOK, Views, Trx
  <2>3. Trx'
    BY <1>8 DEF MarkedAll, Goto, NoneLeft, TypeOK, Trx
  <2>4. Batch'
    BY <1>8 DEF MarkedAll, Goto, NoneLeft, TypeOK, Views, Trx, Batch
  <2>5. PostedStays'
    BY <1>8 DEF MarkedAll, Goto, NoneLeft, TypeOK, Views, Trx, Batch, PostedStays
  <2>6. Marked'
    BY <1>8 DEF MarkedAll, Goto, NoneLeft, TypeOK, OnlyStatementsFail, Views, Trx, Batch, Marked
  <2> QED BY <2>1, <2>2, <2>3, <2>4, <2>5, <2>6
<1>9. ASSUME Rollback PROVE IInv'
  <2>0. QueryFails("end") => FailureOf("end")
    BY FailedQuery
  <2>1. TypeOK'
    BY <1>9, <2>0 DEF Rollback, Goto, Undone, TypeOK, FailureOf
  <2>2. Views'
    BY <1>9, <2>0 DEF Rollback, Goto, Undone, TypeOK, Views, Trx, FailureOf
  <2>3. Trx'
    BY <1>9, <2>0 DEF Rollback, Goto, Undone, TypeOK, Trx, FailureOf
  <2>4. Batch'
    BY <1>9, <2>0 DEF Rollback, Goto, Undone, TypeOK, Views, Trx, Batch, FailureOf
  <2>5. PostedStays'
    BY <1>9, <2>0 DEF Rollback, Goto, Undone, TypeOK, Views, Trx, Batch, PostedStays, FailureOf
  <2>6. Marked'
    BY <1>9, <2>0 DEF Rollback, Goto, Undone, TypeOK, OnlyStatementsFail, Views, Trx, Batch, Marked, FailureOf
  <2> QED BY <2>1, <2>2, <2>3, <2>4, <2>5, <2>6
<1>10. ASSUME Commit PROVE IInv'
  <2>0. QueryFails("end") => FailureOf("end")
    BY FailedQuery
  <2>1. TypeOK'
    <3>1. faults' \in [FaultKinds -> Nat]
      BY <1>10, <2>0, FaultCounted DEF Commit, FailureOf, TypeOK
    <3> QED BY <1>10, <2>0, <3>1 DEF Commit, Goto, TypeOK, FailureOf
  <2>2. Views'
    BY <1>10, <2>0 DEF Commit, Goto, Fault, TypeOK, Views, Trx, FailureOf
  <2>3. Trx'
    BY <1>10, <2>0 DEF Commit, Goto, Fault, TypeOK, Trx, FailureOf
  <2>4. Batch'
    BY <1>10, <2>0 DEF Commit, Goto, Fault, TypeOK, Views, Trx, Batch, FailureOf
  <2>5. PostedStays'
    BY <1>10, <2>0 DEF Commit, Goto, Fault, TypeOK, Views, Trx, Batch, PostedStays, FailureOf
  <2>6. Marked'
    BY <1>10, <2>0 DEF Commit, Goto, Fault, TypeOK, OnlyStatementsFail, Views, Trx, Batch, Marked, FailureOf
  <2> QED BY <2>1, <2>2, <2>3, <2>4, <2>5, <2>6
<1>11. ASSUME Push PROVE IInv'
  <2>1. TypeOK'
    BY <1>11 DEF Push, Goto, TypeOK
  <2>2. Views'
    BY <1>11 DEF Push, Goto, TypeOK, Views, Trx
  <2>3. Trx'
    BY <1>11 DEF Push, Goto, TypeOK, Trx
  <2>4. Batch'
    BY <1>11 DEF Push, Goto, TypeOK, Views, Trx, Batch
  <2>5. PostedStays'
    BY <1>11 DEF Push, Goto, TypeOK, Views, Trx, Batch, PostedStays
  <2>6. Marked'
    BY <1>11 DEF Push, Goto, TypeOK, OnlyStatementsFail, Views, Trx, Batch, Marked
  <2> QED BY <2>1, <2>2, <2>3, <2>4, <2>5, <2>6
<1>12. ASSUME NEW s \in Solutions, post_result(s) PROVE IInv'
  <2>0. /\ s \in held /\ held' = held \ {s} /\ UNCHANGED <<poll, new_solutions, todo, handed>>
        /\ durable[s] >= 1 /\ table[s] >= 1 /\ table[s] <= 2 /\ durable[s] # -1
    BY <1>12 DEF post_result, TypeOK, Views, Batch
  <2>1. poll \notin Critical /\ posted' = IF table'[s] = 2 THEN posted \cup {s} ELSE posted
    BY <1>12 DEF post_result, MutexTaken, db_mutex_free
  <2>2. faults["end"] = 0 => in_trx = FALSE
    BY <2>1 DEF Trx
  <2>3. CASE QueryUpdates([table EXCEPT ![s] = 2])
    <3>1. /\ table' \in [Solutions -> -1..2] /\ durable' \in [Solutions -> -1..2] /\ Views'
          /\ table'[s] = 2 /\ \A t \in Solutions \ {s} : table'[t] = table[t]
          /\ in_trx = TRUE => durable' = durable
          /\ in_trx = FALSE => durable' = table'
          /\ \A t \in Solutions : durable'[t] >= durable[t]
          /\ UNCHANGED <<in_trx, conn, faults>>
      <4>1. 2 \in 1..2 /\ table[s] <= 2
        BY <2>0
      <4>2. /\ conn = "ready" /\ table' = [table EXCEPT ![s] = 2]
            /\ durable' = (IF in_trx THEN durable ELSE table') /\ UNCHANGED <<in_trx, conn, faults>>
        BY <2>3 DEF QueryUpdates
      <4> QED BY <2>0, <4>1, <4>2, UpdatedRow
    <3>2. TypeOK' /\ Trx'
      BY <2>0, <2>1, <3>1 DEF TypeOK, Trx
    <3>3. Batch'
      BY <2>0, <2>1, <3>1 DEF TypeOK, Trx, Batch
    <3>4. PostedStays'
      BY <2>0, <2>1, <2>2, <3>1 DEF TypeOK, PostedStays
    <3>5. Marked'
      BY <2>0, <2>1, <2>2, <3>1 DEF TypeOK, Views, Marked, OnlyStatementsFail
    <3> QED BY <3>1, <3>2, <3>3, <3>4, <3>5
  <2>4. CASE QueryFails("statement")
    <3>1. FailureOf("statement")
      BY <2>4, FailedQuery
    <3>2. TypeOK'
      BY <2>0, <2>1, <3>1 DEF FailureOf, TypeOK
    <3>3. Views' /\ Trx'
      BY <2>0, <2>1, <3>1 DEF FailureOf, TypeOK, Views, Trx
    <3>4. Batch'
      BY <2>0, <2>1, <3>1 DEF FailureOf, TypeOK, Views, Trx, Batch
    <3>5. PostedStays'
      BY <2>0, <2>1, <2>2, <3>1 DEF FailureOf, TypeOK, Views, PostedStays
    <3>6. Marked'
      BY <2>0, <2>1, <3>1 DEF FailureOf, TypeOK, Views, Marked, OnlyStatementsFail
    <3> QED BY <3>2, <3>3, <3>4, <3>5, <3>6
  <2> QED BY <1>12, <2>3, <2>4 DEF post_result, solution_post_result
<1>13. ASSUME NEW s \in Solutions, PostFL(s) PROVE IInv'
  <2>0. /\ s \in held /\ held' = held \ {s} /\ UNCHANGED <<poll, new_solutions, todo, handed>>
        /\ durable[s] >= 1 /\ table[s] >= 1 /\ table[s] <= 2 /\ durable[s] # -1
    BY <1>13 DEF PostFL, TypeOK, Views, Batch
  <2>1. UNCHANGED posted
    BY <1>13 DEF PostFL
  <2>2. s \in handed
    BY <2>0 DEF Batch
  <2>3. CASE QueryUpdates([table EXCEPT ![s] = 2])
    <3>1. /\ table' \in [Solutions -> -1..2] /\ durable' \in [Solutions -> -1..2] /\ Views'
          /\ table'[s] = 2 /\ \A t \in Solutions \ {s} : table'[t] = table[t]
          /\ in_trx = TRUE => durable' = durable
          /\ in_trx = FALSE => durable' = table'
          /\ \A t \in Solutions : durable'[t] >= durable[t]
          /\ UNCHANGED <<in_trx, conn, faults>>
      <4>1. 2 \in 1..2 /\ table[s] <= 2
        BY <2>0
      <4>2. /\ conn = "ready" /\ table' = [table EXCEPT ![s] = 2]
            /\ durable' = (IF in_trx THEN durable ELSE table') /\ UNCHANGED <<in_trx, conn, faults>>
        BY <2>3 DEF QueryUpdates
      <4> QED BY <2>0, <4>1, <4>2, UpdatedRow
    <3>2. TypeOK' /\ Trx'
      BY <2>0, <2>1, <3>1 DEF TypeOK, Trx
    <3>3. Batch'
      BY <2>0, <2>1, <3>1 DEF TypeOK, Trx, Batch
    <3>4. PostedStays'
      BY <2>0, <2>1, <3>1 DEF TypeOK, PostedStays
    <3>5. Marked'
      BY <2>0, <2>1, <2>2, <3>1 DEF TypeOK, Views, Marked, OnlyStatementsFail
    <3> QED BY <3>1, <3>2, <3>3, <3>4, <3>5
  <2>4. CASE QueryFails("statement")
    <3>1. FailureOf("statement")
      BY <2>4, FailedQuery
    <3>2. TypeOK'
      BY <2>0, <2>1, <3>1 DEF FailureOf, TypeOK
    <3>3. Views' /\ Trx'
      BY <2>0, <2>1, <3>1 DEF FailureOf, TypeOK, Views, Trx
    <3>4. Batch'
      BY <2>0, <2>1, <3>1 DEF FailureOf, TypeOK, Views, Trx, Batch
    <3>5. PostedStays'
      BY <2>0, <2>1, <3>1 DEF FailureOf, TypeOK, PostedStays
    <3>6. Marked'
      BY <2>0, <2>1, <3>1 DEF FailureOf, TypeOK, Views, Marked, OnlyStatementsFail
    <3> QED BY <3>2, <3>3, <3>4, <3>5, <3>6
  <2>5. CASE UNCHANGED <<table, durable, in_trx, conn, faults>>
    BY <2>0, <2>1, <2>5 DEF TypeOK, Views, Trx, Batch, PostedStays, Marked, OnlyStatementsFail
  <2> QED BY <1>13, <2>3, <2>4, <2>5 DEF PostFL, solution_post_result
<1>14. ASSUME NEW s \in Solutions, Submit(s) PROVE IInv'
  <2>1. TypeOK'
    BY <1>14 DEF Submit, TypeOK
  <2>2. Views'
    <3>1. table[s] = -1 /\ durable[s] = -1
      BY <1>14 DEF Submit, Views
    <3>2. /\ table'[s] = 0 /\ durable'[s] = 0 /\ UNCHANGED in_trx
          /\ \A t \in Solutions \ {s} : table'[t] = table[t] /\ durable'[t] = durable[t]
      BY <1>14 DEF Submit, TypeOK
    <3>3. in_trx = FALSE => table' = durable'
      BY <1>14, Zenon DEF Submit, Views
    <3> QED BY <3>1, <3>2, <3>3, <2>1 DEF Views, TypeOK
  <2>3. Trx'
    BY <1>14 DEF Submit, TypeOK, Trx
  <2>4. Batch'
    BY <1>14 DEF Submit, TypeOK, Views, Trx, Batch
  <2>5. PostedStays'
    BY <1>14 DEF Submit, TypeOK, Views, Trx, Batch, PostedStays
  <2>6. Marked'
    BY <1>14 DEF Submit, TypeOK, OnlyStatementsFail, Views, Trx, Batch, Marked
  <2> QED BY <2>1, <2>2, <2>3, <2>4, <2>5, <2>6
<1>15. ASSUME Crash PROVE IInv'
  <2>1. TypeOK'
    BY <1>15, FaultCounted DEF Crash, Goto, TypeOK
  <2>2. Views'
    BY <1>15 DEF Crash, Goto, Fault, TypeOK, Views, Trx
  <2>3. Trx'
    BY <1>15 DEF Crash, Goto, Fault, TypeOK, Trx
  <2>4. Batch'
    BY <1>15 DEF Crash, Goto, Fault, TypeOK, Views, Trx, Batch
  <2>5. PostedStays'
    BY <1>15 DEF Crash, Goto, Fault, TypeOK, Views, Trx, Batch, PostedStays
  <2>6. Marked'
    BY <1>15 DEF Crash, Goto, Fault, TypeOK, OnlyStatementsFail, Views, Trx, Batch, Marked
  <2> QED BY <2>1, <2>2, <2>3, <2>4, <2>5, <2>6
<1>16. CASE UNCHANGED vars
  BY <1>16 DEF vars, TypeOK, Views, Trx, Batch, PostedStays, Marked, OnlyStatementsFail
<1> QED BY <1>1, <1>2, <1>3, <1>4, <1>5, <1>6, <1>7, <1>8, <1>9, <1>10, <1>11, <1>12, <1>13, <1>14, <1>15, <1>16 DEF Next, poll_database
-----------------------------------------------------------------------------
LEMMA InvInit == Init => IInv
<1> SUFFICES ASSUME Init PROVE IInv
  OBVIOUS
<1> USE DEF FaultKinds, PollPoints, Critical, ConnStates
<1>1. TypeOK
  <2>1. table \in [Solutions -> -1..2] /\ durable = table
    <3>1. {-1, 1} \subseteq -1..2
      OBVIOUS
    <3> QED BY <3>1 DEF Init
  <2>2. faults \in [FaultKinds -> Nat]
    BY DEF Init
  <2> QED BY <2>1, <2>2 DEF Init, TypeOK
<1>2. Views /\ Trx
  BY <1>1 DEF Init, TypeOK, Views, Trx
<1>3. Batch /\ PostedStays
  BY <1>1 DEF Init, TypeOK, Batch, PostedStays
<1>4. Marked
  BY <1>1 DEF Init, TypeOK, Marked
<1> QED BY <1>1, <1>2, <1>3, <1>4 DEF IInv

(* IInv is an invariant of the database accesses.                           *)
LEMMA Invariance == Spec => []IInv
<1> QED BY InvInit, InvStep, PTL DEF Spec

(* The rows, the connection and the poller's sets keep their types.         *)
THEOREM DbTypes == Spec => []TypeOK
<1>1. IInv => TypeOK
  BY DEF IInv
<1> QED BY <1>1, Invariance, PTL

(* However many solutions there are and whatever statements, commits,       *)
(* connections or processes fail, what was handed to push_solution stays    *)
(* marked in the table (solutions_db.c:76-88).                              *)
THEOREM HandedOnce == Spec => []HandedIsMarked
<1>1. IInv => HandedIsMarked
  BY DEF IInv, Batch, HandedIsMarked, TypeOK
<1> QED BY <1>1, Invariance, PTL

(* A verdict that post_result wrote under db_mutex is committed, unless a   *)
(* commit or a rollback has failed before (server.c:287-290).               *)
THEOREM PostedForGood == Spec => []PostedStays
<1>1. IInv => PostedStays
  BY DEF IInv
<1> QED BY <1>1, Invariance, PTL

(* The rollback of solutions_extract_new leaves no row marked that nobody   *)
(* was given (solutions_db.c:81-83).                                        *)
THEOREM NoneStranded == Spec => []NoRowStranded
<1>1. IInv => NoRowStranded
  BY DEF IInv, Marked, OnlyStatementsFail, NoRowStranded
<1> QED BY <1>1, Invariance, PTL

(* No step of anyone takes a committed row back: the poller's update of a   *)
(* row can never come after its verdict.                                    *)
LEMMA Forward == IInv /\ [Next]_vars => \A s \in Solutions : durable'[s] >= durable[s]
<1> SUFFICES ASSUME IInv, [Next]_vars, NEW r \in Solutions PROVE durable'[r] >= durable[r]
  OBVIOUS
<1> USE DEF IInv, FaultKinds, rows, batch, past
<1>1. durable[r] >= durable[r]
  BY DEF TypeOK
<1>2. ASSUME QueryFails("statement") \/ QueryFails("end") PROVE durable' = durable
  BY <1>2 DEF QueryFails, Refused, Failed, Break
<1>3. CASE solutions_init_db \/ WakeUp \/ solutions_close_db \/ Store \/ MarkedAll \/ Push
  <2>1. durable' = durable
    BY <1>3 DEF solutions_init_db, WakeUp, solutions_close_db, Store, MarkedAll, Push
  <2> QED BY <1>1, <2>1
<1>4. CASE Select \/ Rollback
  <2>1. durable' = durable
    BY <1>2, <1>4 DEF Select, Rollback, Undone
  <2> QED BY <1>1, <2>1
<1>5. CASE StartTransaction \/ Commit
  <2>1. durable' = durable \/ durable' = table
    BY <1>2, <1>5 DEF StartTransaction, Commit
  <2> QED BY <1>1, <2>1 DEF Views, TypeOK
<1>6. ASSUME NEW s \in todo, MarkRow(s) PROVE durable'[r] >= durable[r]
  <2>1. CASE QueryFails("statement")
    BY <1>1, <1>2, <2>1
  <2>2. CASE QueryUpdates([table EXCEPT ![s] = 1])
    <3>1. in_trx = TRUE
      BY <1>6, <2>2 DEF MarkRow, QueryUpdates, Trx
    <3>2. durable' = durable
      BY <2>2, <3>1 DEF QueryUpdates
    <3> QED BY <1>1, <3>2
  <2> QED BY <1>6, <2>1, <2>2 DEF MarkRow
<1>7. ASSUME NEW s \in held, solution_post_result(s) PROVE durable'[r] >= durable[r]
  <2>1. CASE QueryFails("statement")
    BY <1>1, <1>2, <2>1
  <2>2. CASE QueryUpdates([table EXCEPT ![s] = 2])
    <3>1. /\ s \in Solutions /\ 2 \in 1..2 /\ table[s] <= 2 /\ durable[s] # -1
      BY DEF TypeOK, Batch
    <3>2. /\ conn = "ready" /\ table' = [table EXCEPT ![s] = 2]
          /\ durable' = (IF in_trx THEN durable ELSE table') /\ UNCHANGED <<in_trx, conn, faults>>
      BY <2>2 DEF QueryUpdates
    <3> QED BY <3>1, <3>2, UpdatedRow
  <2> QED BY <1>7, <2>1, <2>2 DEF solution_post_result
<1>8. ASSUME NEW s \in Solutions, post_result(s) \/ PostFL(s) PROVE durable'[r] >= durable[r]
  BY <1>1, <1>7, <1>8 DEF post_result, PostFL
<1>9. ASSUME NEW s \in Solutions, Submit(s) PROVE durable'[r] >= durable[r]
  BY <1>9 DEF Submit, TypeOK
<1>10. CASE Crash \/ UNCHANGED vars
  <2>1. durable' = durable
    BY <1>10 DEF Crash, vars
  <2> QED BY <1>1, <2>1
<1> QED BY <1>3, <1>4, <1>5, <1>6, <1>8, <1>9, <1>10 DEF Next, poll_database

(* The column "checking" only grows, for everyone who reads the table.      *)
THEOREM OnlyForward == Spec => RowsForward
<1>1. IInv /\ [Next]_vars => [\A s \in Solutions : durable'[s] >= durable[s]]_vars
  BY Forward
<1> QED BY <1>1, Invariance, PTL DEF Spec, RowsForward
==============================================================================
