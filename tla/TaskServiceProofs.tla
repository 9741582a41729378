-------------------------- MODULE TaskServiceProofs --------------------------
(***************************************************************************)
(* Theorems about TaskService, for every set of users, requests and calls. *)
(***************************************************************************)
EXTENDS TaskService, TLAPS

\* The steps between the first and the last statement of a transaction, or of
\* an UPDATE that waits for a project, that holds the lock of the task's row.
Holding == {"unlink", "link", "fk"}

\* The steps at which the times of the write are known.
Dated == {"project", "row", "write"} \cup Holding

\* Which operation is at which step, and what it has read and dated by then.
PhaseInv ==
    \A r \in Req :
        /\ pc[r] \in {"project", "row", "unlink", "link", "reread"} => call[r].op \in FormOp
        /\ pc[r] \in {"write", "fk"} => call[r].op \in {"set_status", "archive", "unarchive"}
        /\ pc[r] = "get" => call[r].op \notin {"create", "delete"}
        /\ pc[r] = "stamp" => call[r].op # "delete"
        /\ pc[r] = "delete" => call[r].op = "delete"
        /\ pc[r] \in {"stamp"} \cup Dated /\ call[r].op # "create" => existing[r] # NoRow
        /\ pc[r] \in Dated <=> now[r] # NoTime
        /\ pc[r] \notin Holding => unlinked[r] = {}

\* Ids below nextId are taken, and a create works on one that has no row yet.
IdInv ==
    /\ \A t \in TaskId : tasks[t] # NoRow => t < nextId
    /\ \A r \in Req : call[r].op # "create" => id[r] = call[r].id
    /\ \A r \in Req : call[r].op = "create" /\ pc[r] \in {"unlink", "link"} =>
          id[r] \in TaskId /\ id[r] < nextId /\ tasks[id[r]] = NoRow

\* A row is locked by one request; the lock of a task's row belongs to the
\* request that writes it and keeps the row alive; names are locked per user.
LockOf(r) ==
    /\ \A t \in TaskId : TaskLock(t) \in locks[r] => id[r] = t /\ pc[r] \in Holding
    /\ pc[r] \in Holding => TaskLock(id[r]) \in locks[r]
    /\ pc[r] \in Holding /\ call[r].op # "create" => Visible(r)
    /\ \A p \in ProjectRow : ProjectLock(p) \in locks[r] => p[1] = call[r].user
    /\ \A n \in TagRow : TagLock(n) \in locks[r] => n[1] = call[r].user

LockInv ==
    /\ \A r, s \in Req : r # s => locks[r] \cap locks[s] = {}
    /\ \A r \in Req : LockOf(r)

Owned(row) ==
    row.project = NoProject \/ (row.project \in projects /\ row.project[1] = row.user)

Ordered(row) ==
    /\ row.created <= row.updated
    /\ IsArchived(row) => row.created <= row.archived /\ row.archived <= row.updated

\* A copy that was read is a row the user had, no newer than the write, and
\* the row under its id, if there is one, was created with it.
ReadOf(r) ==
    /\ now[r] <= clock
    /\ existing[r] # NoRow =>
          /\ call[r].op # "create"
          /\ id[r] < nextId
          /\ existing[r].user = call[r].user
          /\ Owned(existing[r])
          /\ Ordered(existing[r])
          /\ existing[r].updated <= clock
          /\ now[r] # NoTime => existing[r].updated <= now[r]
          /\ tasks[id[r]] # NoRow => tasks[id[r]].created = existing[r].created
          /\ ~ Inserting(id[r])

ReadInv == \A r \in Req : ReadOf(r)

IInv ==
    /\ TypeOK
    /\ PhaseInv
    /\ IdInv
    /\ LockInv
    /\ ReadInv
    /\ OwnerConsistent
    /\ TimestampsOrdered

------------------------------------------------------------------------------
(* Types *)

\* A request carries a call of the workload, which is well formed.
LEMMA CallType ==
    ASSUME TypeOK, NEW r \in Req
    PROVE  /\ call[r].op \in Op /\ call[r].user \in User /\ call[r].id \in 0 .. MaxTask
           /\ call[r].body \in Body /\ call[r].status \in Status
           /\ call[r].project \in Project \cup {NoProject} /\ call[r].tags \in Seq(Tag)
           /\ call[r].op = "create" <=> call[r].id = 0
<1>1. call[r] \in Calls
  BY DEF TypeOK
<1>2. call[r] \in Call /\ (call[r].op = "create" <=> call[r].id = 0)
  BY <1>1, CallsAssumption
<1> QED
  BY <1>2 DEF Call

\* The project a form names is nothing or a row of its user.
LEMMA ProjectOfType ==
    ASSUME TypeOK, NEW r \in Req
    PROVE  /\ ProjectOf(r) \in ProjectRow \cup {NoProject}
           /\ ProjectOf(r) # NoProject => ProjectOf(r)[1] = call[r].user
BY CallType DEF ProjectOf, ProjectRow

\* The row a request builds is a row.
LEMMA DraftType ==
    ASSUME TypeOK, PhaseInv, NEW r \in Req, pc[r] \in Dated
    PROVE  Draft(r) \in Row
<1>1. now[r] \in Time
  BY DEF TypeOK, PhaseInv, NoTime
<1>2. call[r].op \in FormOp \cup {"set_status", "archive", "unarchive"}
  BY CallType DEF PhaseInv, Dated, Holding, FormOp
<1>3. call[r].op # "create" => existing[r] \in Row
  BY DEF TypeOK, PhaseInv
<1>4. CASE call[r].op \in FormOp
  <2>1. FormRow(r) \in Row
    BY <1>1, <1>3, <1>4, CallType, ProjectOfType DEF FormRow, Row, FormOp
  <2> QED
    BY <2>1, <1>4 DEF Draft, FormOp
<1>5. CASE call[r].op = "set_status"
  <2>1. StatusRow(r) \in Row
    BY <1>1, <1>3, <1>5, CallType DEF StatusRow, Row
  <2> QED
    BY <2>1, <1>5 DEF Draft, FormOp
<1>6. CASE call[r].op = "archive"
  <2>1. ArchivedRow(r) \in Row
    BY <1>1, <1>3, <1>6 DEF ArchivedRow, Row
  <2> QED
    BY <2>1, <1>6 DEF Draft, FormOp
<1>7. CASE call[r].op = "unarchive"
  <2>1. UnarchivedRow(r) \in Row
    BY <1>1, <1>3, <1>7 DEF UnarchivedRow, Row
  <2> QED
    BY <2>1, <1>7 DEF Draft, FormOp
<1> QED
  BY <1>2, <1>4, <1>5, <1>6, <1>7

\* The row a request stores is a row: a new one, or a live one with new columns.
LEMMA StoredType ==
    ASSUME TypeOK, PhaseInv, NEW r \in Req, pc[r] \in Dated,
           call[r].op = "create" \/ Visible(r)
    PROVE  Stored(r) \in Row
<1>1. Draft(r) \in Row
  BY DraftType
<1>2. call[r].op # "create" => tasks[id[r]] \in Row
  BY DEF TypeOK, Visible
<1> QED
  BY <1>1, <1>2 DEF Stored, Updated, Row

\* A form's tags are all its user's tags rows.
LEMMA UpsertedType ==
    ASSUME NEW r \in Req
    PROVE  Upserted(r) \subseteq TagRow
BY DEF Upserted

\* Initially everything is well typed.
LEMMA InitType == Init => TypeOK
<1> SUFFICES ASSUME Init PROVE TypeOK
  OBVIOUS
<1>1. Len(Saved) \in 0 .. MaxTask /\ \A t \in 1 .. Len(Saved) : Saved[t] \in Row
  BY SavedAssumption, BoundAssumption
<1>2. tasks \in [TaskId -> Row \cup {NoRow}]
  BY <1>1 DEF Init, TaskId
<1>3. projects \subseteq ProjectRow
  BY <1>1 DEF Init, Row
<1>4. call \in [Req -> Calls] /\ id \in [Req -> 0 .. MaxTask]
  <2>1. \A c \in Calls : c.id \in 0 .. MaxTask
    BY CallsAssumption DEF Call
  <2> QED
    BY <2>1 DEF Init
<1>5. nextId \in 1 .. MaxTask + 1 /\ clock \in Time
  BY <1>1, BoundAssumption DEF Init, Time
<1> QED
  BY <1>2, <1>3, <1>4, <1>5 DEF Init, TypeOK, NoTime

\* What a request keeps is well typed once its call returned.
LEMMA FinishType ==
    ASSUME TypeOK, NEW r \in Req, NEW reply \in Statement \cup Reply, Finish(r, reply)
    PROVE  /\ pc' \in [Req -> {"new", "stamp"} \cup Statement \cup Reply]
           /\ call' \in [Req -> Calls]
           /\ id' \in [Req -> 0 .. MaxTask]
           /\ existing' \in [Req -> Row \cup {NoRow}]
           /\ now' \in [Req -> Time \cup {NoTime}]
           /\ unlinked' \in [Req -> SUBSET (TaskId \X TagRow)]
           /\ todo' \in [Req -> Seq(Tag)]
           /\ locks' \in [Req -> SUBSET Lock]
BY DEF TypeOK, Finish, Goto

\* A lock that is taken is a lock.
LEMMA TakeType ==
    ASSUME TypeOK, NEW r \in Req, NEW k \in Lock, Take(r, k)
    PROVE  locks' \in [Req -> SUBSET Lock]
<1>1. locks[r] \cup {k} \in SUBSET Lock
  BY DEF TypeOK
<1> QED
  BY <1>1 DEF Take, TypeOK

\* Every step of the service keeps its state well typed: TypeOK is inductive.
THEOREM TypeStep ==
    TypeOK /\ PhaseInv /\ IdInv /\ LockInv /\ [Next]_vars => TypeOK'
<1> SUFFICES ASSUME TypeOK, PhaseInv, IdInv, LockInv, [Next]_vars
             PROVE  TypeOK'
  OBVIOUS
<1> USE DEF dbVars
<1>1. ASSUME NEW r \in Req, Begin(r) PROVE TypeOK'
  <2>1. "invalid" \in Statement \cup Reply
    BY DEF Reply
  <2> QED
    BY <1>1, <2>1, FinishType DEF Begin, Goto, TypeOK, Statement
<1>2. ASSUME NEW r \in Req, Get(r) PROVE TypeOK'
  <2>1. CASE Visible(r)
    <3>1. Scan(tasks[id[r]]) \in Row
      <4>1. tasks[id[r]] \in Row
        BY <2>1 DEF Visible, TypeOK
      <4> QED
        BY <4>1 DEF Scan, Row
    <3> QED
      BY <1>2, <2>1, <3>1 DEF Get, Goto, TypeOK
  <2>2. CASE ~ Visible(r)
    BY <1>2, <2>2, FinishType DEF Get, TypeOK, Reply
  <2> QED
    BY <2>1, <2>2
<1>3. ASSUME NEW r \in Req, Stamp(r) PROVE TypeOK'
  BY <1>3, FinishType DEF Stamp, Goto, TypeOK, Statement, Reply
<1>4. ASSUME NEW r \in Req, ResolveProject(r) PROVE TypeOK'
  <2>1. ProjectOf(r) # NoProject => ProjectLock(ProjectOf(r)) \in Lock
    BY ProjectOfType DEF ProjectLock, Lock
  <2> QED
    BY <1>4, <2>1, TakeType DEF ResolveProject, Goto, TypeOK, Statement
<1>5. ASSUME NEW r \in Req, InsertRow(r) PROVE TypeOK'
  <2>1. nextId \in TaskId /\ nextId + 1 \in 1 .. MaxTask + 1 /\ nextId \in 0 .. MaxTask
    BY <1>5, BoundAssumption DEF InsertRow, TypeOK, TaskId
  <2>2. TaskLock(nextId) \in Lock
    BY <2>1 DEF TaskLock, Lock
  <2> QED
    BY <1>5, <2>1, <2>2 DEF InsertRow, Take, Goto, TypeOK, Statement
<1>6. ASSUME NEW r \in Req, UpdateRow(r) PROVE TypeOK'
  <2>1. Visible(r) => TaskLock(id[r]) \in Lock
    BY DEF Visible, TaskLock, Lock
  <2> QED
    BY <1>6, <2>1, TakeType, FinishType DEF UpdateRow, Goto, TypeOK, Statement, Reply
<1>7. ASSUME NEW r \in Req, ClearTags(r) PROVE TypeOK'
  BY <1>7, CallType DEF ClearTags, LinksOf, Goto, TypeOK, Statement
<1>8. ASSUME NEW r \in Req, LinkTag(r) PROVE TypeOK'
  <2>1. Head(todo[r]) \in Tag /\ Tail(todo[r]) \in Seq(Tag)
    BY <1>8 DEF LinkTag, TypeOK
  <2>2. TagLock(<<call[r].user, Head(todo[r])>>) \in Lock
    BY <2>1, CallType DEF TagLock, Lock, TagRow
  <2> QED
    BY <1>8, <2>1, <2>2 DEF LinkTag, Take, TypeOK
<1>9. ASSUME NEW r \in Req, Commit(r) PROVE TypeOK'
  <2>1. id[r] \in TaskId /\ Stored(r) \in Row
    BY <1>9, StoredType DEF Commit, IdInv, PhaseInv, LockInv, LockOf, Visible, Dated, Holding
  <2>2. tasks' \in [TaskId -> Row \cup {NoRow}]
    BY <1>9, <2>1 DEF Commit, TypeOK
  <2>3. links' \subseteq TaskId \X TagRow
    BY <1>9, <2>1, UpsertedType DEF Commit, TypeOK
  <2>4. tags' \subseteq TagRow /\ projects' \subseteq ProjectRow
    BY <1>9, UpsertedType, ProjectOfType DEF Commit, TypeOK
  <2>5. PICK answer \in {"reread", "error"} : Finish(r, answer)
    BY <1>9 DEF Commit
  <2> QED
    BY <1>9, <2>2, <2>3, <2>4, <2>5, FinishType DEF Commit, TypeOK, Statement, Reply
<1>10. ASSUME NEW r \in Req, Reread(r) PROVE TypeOK'
  BY <1>10, FinishType DEF Reread, TypeOK, Reply
<1>11. ASSUME NEW r \in Req, WriteRow(r) PROVE TypeOK'
  <2>1. CASE ~ Visible(r)
    BY <1>11, <2>1, FinishType DEF WriteRow, TypeOK, Reply
  <2>2. CASE Visible(r) /\ FkBlocked(r)
    <3>1. TaskLock(id[r]) \in Lock
      BY <2>2 DEF Visible, TaskLock, Lock
    <3> QED
      BY <1>11, <2>2, <3>1, TakeType DEF WriteRow, Goto, TypeOK, Statement
  <2>3. CASE Visible(r) /\ ~ FkBlocked(r)
    <3>1. Stored(r) \in Row
      BY <1>11, <2>3, StoredType DEF WriteRow, Dated
    <3>2. tasks' \in [TaskId -> Row \cup {NoRow}]
      BY <1>11, <2>3, <3>1 DEF WriteRow, TypeOK
    <3>3. PICK answer \in {"ok", "error"} : Finish(r, answer)
      BY <1>11, <2>3 DEF WriteRow
    <3> QED
      BY <1>11, <3>2, <3>3, FinishType DEF WriteRow, TypeOK, Reply
  <2> QED
    BY <2>1, <2>2, <2>3
<1>12. ASSUME NEW r \in Req, CheckFk(r) PROVE TypeOK'
  <2>1. Stored(r) \in Row
    BY <1>12, StoredType DEF CheckFk, Dated, Holding, LockInv, LockOf, PhaseInv
  <2>2. tasks' \in [TaskId -> Row \cup {NoRow}]
    BY <1>12, <2>1 DEF CheckFk, TypeOK
  <2>3. PICK answer \in {"ok", "error"} : Finish(r, answer)
    BY <1>12 DEF CheckFk
  <2> QED
    BY <1>12, <2>2, <2>3, FinishType DEF CheckFk, TypeOK, Reply
<1>13. ASSUME NEW r \in Req, DeleteTask(r) PROVE TypeOK'
  <2>1. tasks' \in [TaskId -> Row \cup {NoRow}] /\ links' \subseteq TaskId \X TagRow
    BY <1>13 DEF DeleteTask, TypeOK
  <2>2. PICK answer \in {"ok", "error", "not_found"} : Finish(r, answer)
    BY <1>13 DEF DeleteTask
  <2> QED
    BY <1>13, <2>1, <2>2, FinishType DEF DeleteTask, TypeOK, Reply
<1>14. ASSUME NEW r \in Req, Fail(r) \/ DeadlockAbort(r) PROVE TypeOK'
  <2>1. Finish(r, "error") /\ UNCHANGED <<tasks, links, tags, projects, nextId, clock>>
    BY <1>14 DEF Fail, DeadlockAbort
  <2> QED
    BY <2>1, FinishType DEF TypeOK, Reply
<1>15. CASE Tick
  BY <1>15, BoundAssumption DEF Tick, reqVars, TypeOK, Time
<1>16. CASE UNCHANGED vars
  BY <1>16 DEF vars, TypeOK
<1> QED
  BY <1>1, <1>2, <1>3, <1>4, <1>5, <1>6, <1>7, <1>8, <1>9, <1>10, <1>11, <1>12,
     <1>13, <1>14, <1>15, <1>16 DEF Next, Step, Quiesced

------------------------------------------------------------------------------
(* The inductive invariant *)

\* A step leaves every call as it was.
LEMMA CallStable == [Next]_vars => call' = call
BY DEF Next, vars, Step, Begin, Get, Stamp, ResolveProject, InsertRow, UpdateRow,
       ClearTags, LinkTag, Commit, Reread, WriteRow, CheckFk, DeleteTask, Fail,
       DeadlockAbort, Tick, Quiesced, Finish, reqVars

\* A call that returns, or commits a form and goes on to its reread, keeps PhaseInv.
LEMMA FinishPhase ==
    ASSUME TypeOK, PhaseInv, NEW r \in Req, NEW reply \in {"reread"} \cup Reply,
           Finish(r, reply), reply = "reread" => call[r].op \in FormOp
    PROVE  PhaseInv'
BY DEF TypeOK, PhaseInv, Finish, Goto, Reply, Dated, Holding

\* Every step keeps the steps of a request in the order of its operation, with
\* the copy read and the time taken by the step that uses them.
THEOREM PhaseStep ==
    TypeOK /\ PhaseInv /\ [Next]_vars => PhaseInv'
<1> SUFFICES ASSUME TypeOK, PhaseInv, [Next]_vars
             PROVE  PhaseInv'
  OBVIOUS
<1> USE DEF dbVars
<1>1. ASSUME NEW r \in Req, Begin(r) PROVE PhaseInv'
  <2>1. CASE Finish(r, "invalid")
    BY <2>1, FinishPhase DEF Reply
  <2>2. CASE ~ Finish(r, "invalid")
    <3>1. pc' = [pc EXCEPT ![r] = CASE call[r].op = "create" -> "stamp"
                                    [] call[r].op = "delete" -> "delete"
                                    [] OTHER -> "get"]
          /\ pc[r] = "new" /\ UNCHANGED <<call, existing, now, unlinked>>
      BY <1>1, <2>2 DEF Begin, Goto
    <3>2. CASE call[r].op = "create"
      BY <3>1, <3>2 DEF PhaseInv, TypeOK, Dated, Holding
    <3>3. CASE call[r].op = "delete"
      BY <3>1, <3>3 DEF PhaseInv, TypeOK, Dated, Holding
    <3>4. CASE call[r].op \notin {"create", "delete"}
      <4>1. pc' = [pc EXCEPT ![r] = "get"]
        BY <3>1, <3>4
      <4> QED
        BY <3>1, <3>4, <4>1 DEF PhaseInv, TypeOK, Dated, Holding
    <3> QED
      BY <3>2, <3>3, <3>4
  <2> QED
    BY <2>1, <2>2
<1>2. ASSUME NEW r \in Req, Get(r) PROVE PhaseInv'
  <2>1. CASE Visible(r)
    <3>1. tasks[id[r]] \in Row
      BY <2>1 DEF Visible, TypeOK
    <3>2. Scan(tasks[id[r]]) # NoRow
      BY <3>1, NullAssumption DEF Scan, Row
    <3> QED
      BY <1>2, <2>1, <3>2 DEF Get, Goto, PhaseInv, TypeOK, Dated, Holding
  <2>2. CASE ~ Visible(r)
    BY <1>2, <2>2, FinishPhase DEF Get, Reply
  <2> QED
    BY <2>1, <2>2
<1>3. ASSUME NEW r \in Req, Stamp(r) PROVE PhaseInv'
  <2>1. CASE NothingToDo(r)
    BY <1>3, <2>1, FinishPhase DEF Stamp, Reply
  <2>2. CASE ~ NothingToDo(r) /\ call[r].op \in FormOp
    BY <1>3, <2>2 DEF Stamp, Goto, PhaseInv, TypeOK, Dated, Holding, Time, NoTime
  <2>3. CASE ~ NothingToDo(r) /\ call[r].op \notin FormOp
    <3>1. call[r].op \in {"set_status", "archive", "unarchive"}
      BY <1>3, <2>3, CallType DEF Stamp, PhaseInv, Op
    <3> QED
      BY <1>3, <2>3, <3>1 DEF Stamp, Goto, PhaseInv, TypeOK, Dated, Holding, Time, NoTime, FormOp
  <2> QED
    BY <2>1, <2>2, <2>3
<1>4. ASSUME NEW r \in Req, ResolveProject(r) PROVE PhaseInv'
  BY <1>4 DEF ResolveProject, Goto, PhaseInv, TypeOK, Dated, Holding
<1>5. ASSUME NEW r \in Req, InsertRow(r) PROVE PhaseInv'
  BY <1>5 DEF InsertRow, Goto, PhaseInv, TypeOK, Dated, Holding
<1>6. ASSUME NEW r \in Req, UpdateRow(r) PROVE PhaseInv'
  <2>1. CASE Visible(r)
    BY <1>6, <2>1 DEF UpdateRow, Goto, PhaseInv, TypeOK, Dated, Holding
  <2>2. CASE ~ Visible(r)
    BY <1>6, <2>2, FinishPhase DEF UpdateRow, Reply
  <2> QED
    BY <2>1, <2>2
<1>7. ASSUME NEW r \in Req, ClearTags(r) PROVE PhaseInv'
  BY <1>7 DEF ClearTags, Goto, PhaseInv, TypeOK, Dated, Holding
<1>8. ASSUME NEW r \in Req, LinkTag(r) PROVE PhaseInv'
  BY <1>8 DEF LinkTag, PhaseInv
<1>9. ASSUME NEW r \in Req, Commit(r) PROVE PhaseInv'
  BY <1>9, FinishPhase DEF Commit, PhaseInv, Reply
<1>10. ASSUME NEW r \in Req, Reread(r) PROVE PhaseInv'
  BY <1>10, FinishPhase DEF Reread, Reply
<1>11. ASSUME NEW r \in Req, WriteRow(r) PROVE PhaseInv'
  <2>1. CASE \E reply \in Reply : Finish(r, reply)
    BY <2>1, FinishPhase DEF Reply
  <2>2. CASE Goto(r, "fk") /\ UNCHANGED <<call, existing, now, unlinked>>
    BY <1>11, <2>2 DEF WriteRow, Goto, PhaseInv, TypeOK, Dated, Holding
  <2> QED
    BY <1>11, <2>1, <2>2 DEF WriteRow, Reply
<1>12. ASSUME NEW r \in Req, CheckFk(r) PROVE PhaseInv'
  BY <1>12, FinishPhase DEF CheckFk, Reply
<1>13. ASSUME NEW r \in Req, DeleteTask(r) PROVE PhaseInv'
  BY <1>13, FinishPhase DEF DeleteTask, Reply
<1>14. ASSUME NEW r \in Req, Fail(r) \/ DeadlockAbort(r) PROVE PhaseInv'
  BY <1>14, FinishPhase DEF Fail, DeadlockAbort, Reply
<1>15. CASE Tick
  BY <1>15 DEF Tick, reqVars, PhaseInv
<1>16. CASE UNCHANGED vars
  BY <1>16 DEF vars, PhaseInv
<1> QED
  BY <1>1, <1>2, <1>3, <1>4, <1>5, <1>6, <1>7, <1>8, <1>9, <1>10, <1>11, <1>12,
     <1>13, <1>14, <1>15, <1>16 DEF Next, Step, Quiesced

\* Another request's task row stays where it is while that request holds it.
LEMMA HeldStaysVisible ==
    ASSUME TypeOK, LockInv, NEW r \in Req, NEW s \in Req \ {r}, NEW row,
           pc[s] \in Holding, call[s].op # "create",
           TaskLock(id[r]) \notin locks[s],
           tasks' = [tasks EXCEPT ![id[r]] = row], id' = id, call' = call
    PROVE  Visible(s)'
<1>1. Visible(s) /\ TaskLock(id[s]) \in locks[s]
  BY DEF LockInv, LockOf
<1>2. id[s] # id[r]
  BY <1>1
<1> QED
  BY <1>1, <1>2 DEF Visible, TypeOK

\* A call that returns gives its locks up.
LEMMA FinishLock ==
    ASSUME TypeOK, LockInv, NEW r \in Req, NEW reply \in {"reread"} \cup Reply,
           Finish(r, reply),
           \A s \in Req \ {r} : pc[s] \in Holding /\ call[s].op # "create" => Visible(s)'
    PROVE  LockInv'
BY DEF TypeOK, LockInv, LockOf, Finish, Goto, Reply, Holding

\* The same when no task row changes.
LEMMA FinishLockOnly ==
    ASSUME TypeOK, LockInv, NEW r \in Req, NEW reply \in {"reread"} \cup Reply,
           Finish(r, reply), tasks' = tasks
    PROVE  LockInv'
<1>1. \A s \in Req \ {r} : pc[s] \in Holding /\ call[s].op # "create" => Visible(s)'
  BY DEF LockInv, LockOf, Visible, Finish
<1> QED
  BY <1>1, FinishLock

\* A lock that is free is taken by one request only.
LEMMA TakeExclusive ==
    ASSUME TypeOK, LockInv, NEW r \in Req, NEW k, Free(r, k), Take(r, k)
    PROVE  \A x, y \in Req : x # y => locks'[x] \cap locks'[y] = {}
BY DEF TypeOK, LockInv, LockOf, Free, Take

\* Taking a lock changes nobody else's locks.
LEMMA TakeFrame ==
    ASSUME TypeOK, NEW r \in Req, NEW k, Take(r, k)
    PROVE  /\ locks'[r] = locks[r] \cup {k}
           /\ \A s \in Req \ {r} : locks'[s] = locks[s]
BY DEF TypeOK, Take

\* A lock on a project or a tag of the request's user keeps LockOf.
LEMMA TakeName ==
    ASSUME TypeOK, NEW r \in Req, NEW k, Take(r, k),
           \/ \E p \in ProjectRow : k = ProjectLock(p) /\ p[1] = call[r].user
           \/ \E n \in TagRow : k = TagLock(n) /\ n[1] = call[r].user,
           LockOf(r), pc'[r] \in Holding <=> pc[r] \in Holding,
           UNCHANGED <<call, id, tasks>>
    PROVE  LockOf(r)'
<1>1. locks'[r] = locks[r] \cup {k}
  BY TakeFrame
<1>2. \A t : TaskLock(t) # k
  BY DEF TaskLock, ProjectLock, TagLock
<1>3. \A p \in ProjectRow : ProjectLock(p) = k => p[1] = call[r].user
  BY DEF ProjectLock, TagLock
<1>4. \A n \in TagRow : TagLock(n) = k => n[1] = call[r].user
  BY DEF ProjectLock, TagLock
<1> QED
  BY <1>1, <1>2, <1>3, <1>4 DEF LockOf, Visible

\* A lock on the request's own task keeps LockOf.
LEMMA TakeTask ==
    ASSUME TypeOK, NEW r \in Req, NEW t \in TaskId, Take(r, TaskLock(t)),
           LockOf(r), pc[r] \notin Holding, pc'[r] \in Holding,
           id'[r] = t, call[r].op # "create" => Visible(r)',
           call' = call
    PROVE  LockOf(r)'
<1>1. locks'[r] = locks[r] \cup {TaskLock(t)}
  BY TakeFrame
<1>2. \A u \in TaskId : TaskLock(u) \in locks'[r] => u = t
  BY <1>1 DEF LockOf, TaskLock
<1>3. \A p : ProjectLock(p) # TaskLock(t) /\ TagLock(p) # TaskLock(t)
  BY DEF TaskLock, ProjectLock, TagLock
<1> QED
  BY <1>1, <1>2, <1>3 DEF LockOf

\* What a request holds is not affected by a step of another one.
LEMMA OtherLocks ==
    ASSUME NEW s \in Req, LockOf(s), call' = call, tasks' = tasks,
           id'[s] = id[s], pc'[s] = pc[s], locks'[s] = locks[s]
    PROVE  LockOf(s)'
BY DEF LockOf, Visible

\* Nobody holds the row of a task that is not inserted yet.
LEMMA NextIdFree ==
    ASSUME TypeOK, PhaseInv, IdInv, LockInv, NEW r \in Req, nextId <= MaxTask
    PROVE  TaskLock(nextId) \notin locks[r]
<1> SUFFICES ASSUME TaskLock(nextId) \in locks[r] PROVE FALSE
  OBVIOUS
<1>1. nextId \in TaskId /\ nextId \in Nat
  BY DEF TypeOK, TaskId
<1>2. id[r] = nextId /\ pc[r] \in Holding
  BY <1>1 DEF LockInv, LockOf
<1>3. CASE call[r].op = "create" /\ pc[r] \in {"unlink", "link"}
  BY <1>1, <1>2, <1>3 DEF IdInv
<1>4. CASE call[r].op # "create"
  BY <1>1, <1>2, <1>4 DEF LockInv, LockOf, Visible, IdInv
<1> QED
  BY <1>2, <1>3, <1>4 DEF Holding, PhaseInv

\* Every step keeps row locks exclusive, and the lock of a task's row with the
\* request that writes it.
THEOREM LockStep ==
    TypeOK /\ PhaseInv /\ IdInv /\ LockInv /\ [Next]_vars => LockInv'
<1> SUFFICES ASSUME TypeOK, PhaseInv, IdInv, LockInv, [Next]_vars
             PROVE  LockInv'
  OBVIOUS
<1> USE DEF dbVars
<1>1. ASSUME NEW r \in Req, Begin(r) PROVE LockInv'
  <2>1. CASE Finish(r, "invalid")
    BY <1>1, <2>1, FinishLockOnly DEF Begin, Reply
  <2>2. CASE ~ Finish(r, "invalid")
    <3>1. PICK step \in {"stamp", "delete", "get"} : Goto(r, step)
      BY <1>1, <2>2 DEF Begin
    <3> QED
      BY <1>1, <2>2, <3>1 DEF Begin, Goto, TypeOK, LockInv, LockOf, Visible, Holding
  <2> QED
    BY <2>1, <2>2
<1>2. ASSUME NEW r \in Req, Get(r) PROVE LockInv'
  <2>1. CASE Visible(r)
    BY <1>2, <2>1 DEF Get, Goto, TypeOK, LockInv, LockOf, Visible, Holding
  <2>2. CASE ~ Visible(r)
    BY <1>2, <2>2, FinishLockOnly DEF Get, Reply
  <2> QED
    BY <2>1, <2>2
<1>3. ASSUME NEW r \in Req, Stamp(r) PROVE LockInv'
  <2>1. CASE NothingToDo(r)
    BY <1>3, <2>1, FinishLockOnly DEF Stamp, Reply
  <2>2. CASE ~ NothingToDo(r)
    BY <1>3, <2>2 DEF Stamp, Goto, TypeOK, LockInv, LockOf, Visible, Holding
  <2> QED
    BY <2>1, <2>2
<1>4. ASSUME NEW r \in Req, ResolveProject(r) PROVE LockInv'
  <2>1. CASE ProjectOf(r) = NoProject
    BY <1>4, <2>1 DEF ResolveProject, Goto, TypeOK, LockInv, LockOf, Visible, Holding
  <2>2. CASE ProjectOf(r) # NoProject
    <3>1. \A x, y \in Req : x # y => locks'[x] \cap locks'[y] = {}
      BY <1>4, <2>2, TakeExclusive DEF ResolveProject
    <3>2. ProjectOf(r) \in ProjectRow /\ ProjectOf(r)[1] = call[r].user
      BY <2>2, ProjectOfType
    <3>3. LockOf(r)'
      BY <1>4, <2>2, <3>2, TakeName DEF ResolveProject, Goto, TypeOK, Holding, LockInv
    <3>4. \A s \in Req \ {r} : LockOf(s)'
      BY <1>4, <2>2, TakeFrame, OtherLocks DEF ResolveProject, Goto, TypeOK, LockInv
    <3> QED
      BY <3>1, <3>3, <3>4 DEF LockInv
  <2> QED
    BY <2>1, <2>2
<1>5. ASSUME NEW r \in Req, InsertRow(r) PROVE LockInv'
  <2>1. Free(r, TaskLock(nextId)) /\ nextId \in TaskId
    BY <1>5, NextIdFree DEF Free, InsertRow, TypeOK, TaskId
  <2>2. \A x, y \in Req : x # y => locks'[x] \cap locks'[y] = {}
    BY <1>5, <2>1, TakeExclusive DEF InsertRow
  <2>3. LockOf(r)'
    BY <1>5, <2>1, TakeTask DEF InsertRow, Goto, TypeOK, Holding, LockInv
  <2>4. \A s \in Req \ {r} : LockOf(s)'
    BY <1>5, TakeFrame, OtherLocks DEF InsertRow, Goto, TypeOK, LockInv
  <2> QED
    BY <2>2, <2>3, <2>4 DEF LockInv
<1>6. ASSUME NEW r \in Req, UpdateRow(r) PROVE LockInv'
  <2>1. CASE Visible(r)
    <3>1. \A x, y \in Req : x # y => locks'[x] \cap locks'[y] = {}
      BY <1>6, <2>1, TakeExclusive DEF UpdateRow
    <3>2. LockOf(r)'
      BY <1>6, <2>1, TakeTask DEF UpdateRow, Goto, TypeOK, Holding, LockInv, Visible
    <3>3. \A s \in Req \ {r} : LockOf(s)'
      BY <1>6, <2>1, TakeFrame, OtherLocks DEF UpdateRow, Goto, TypeOK, LockInv
    <3> QED
      BY <3>1, <3>2, <3>3 DEF LockInv
  <2>2. CASE ~ Visible(r)
    BY <1>6, <2>2, FinishLockOnly DEF UpdateRow, Reply
  <2> QED
    BY <2>1, <2>2
<1>7. ASSUME NEW r \in Req, ClearTags(r) PROVE LockInv'
  BY <1>7 DEF ClearTags, Goto, TypeOK, LockInv, LockOf, Visible, Holding
<1>8. ASSUME NEW r \in Req, LinkTag(r) PROVE LockInv'
  <2> DEFINE n == <<call[r].user, Head(todo[r])>>
  <2>1. \A x, y \in Req : x # y => locks'[x] \cap locks'[y] = {}
    BY <1>8, TakeExclusive DEF LinkTag
  <2>2. n \in TagRow /\ n[1] = call[r].user
    BY <1>8, CallType DEF LinkTag, TypeOK, TagRow
  <2>3. LockOf(r)'
    BY <1>8, <2>2, TakeName DEF LinkTag, LockInv
  <2>4. \A s \in Req \ {r} : LockOf(s)'
    BY <1>8, TakeFrame, OtherLocks DEF LinkTag, LockInv
  <2> QED
    BY <2>1, <2>3, <2>4 DEF LockInv
<1>9. ASSUME NEW r \in Req, Commit(r) PROVE LockInv'
  <2>1. PICK answer \in {"reread", "error"} : Finish(r, answer)
    BY <1>9 DEF Commit
  <2>2. \A s \in Req \ {r} : TaskLock(id[r]) \notin locks[s]
    BY <1>9 DEF Commit, LockInv, LockOf, Holding
  <2>3. \A s \in Req \ {r} : pc[s] \in Holding /\ call[s].op # "create" => Visible(s)'
    BY <1>9, <2>1, <2>2, HeldStaysVisible DEF Commit, Finish
  <2> QED
    BY <2>1, <2>3, FinishLock DEF Reply
<1>10. ASSUME NEW r \in Req, Reread(r) PROVE LockInv'
  BY <1>10, FinishLockOnly DEF Reread, Reply
<1>11. ASSUME NEW r \in Req, WriteRow(r) PROVE LockInv'
  <2>1. CASE ~ Visible(r)
    BY <1>11, <2>1, FinishLockOnly DEF WriteRow, Reply
  <2>2. CASE Visible(r) /\ FkBlocked(r)
    <3>1. \A x, y \in Req : x # y => locks'[x] \cap locks'[y] = {}
      BY <1>11, <2>2, TakeExclusive DEF WriteRow
    <3>2. LockOf(r)'
      BY <1>11, <2>2, TakeTask DEF WriteRow, Goto, TypeOK, Holding, LockInv, Visible
    <3>3. \A s \in Req \ {r} : LockOf(s)'
      BY <1>11, <2>2, TakeFrame, OtherLocks DEF WriteRow, Goto, TypeOK, LockInv
    <3> QED
      BY <3>1, <3>2, <3>3 DEF LockInv
  <2>3. CASE Visible(r) /\ ~ FkBlocked(r)
    <3>1. PICK answer \in {"ok", "error"} : Finish(r, answer)
      BY <1>11, <2>3 DEF WriteRow
    <3>2. \A s \in Req \ {r} : pc[s] \in Holding /\ call[s].op # "create" => Visible(s)'
      BY <1>11, <2>3, <3>1, HeldStaysVisible DEF WriteRow, Finish, Free
    <3> QED
      BY <3>1, <3>2, FinishLock DEF Reply
  <2> QED
    BY <2>1, <2>2, <2>3
<1>12. ASSUME NEW r \in Req, CheckFk(r) PROVE LockInv'
  <2>1. PICK answer \in {"ok", "error"} : Finish(r, answer)
    BY <1>12 DEF CheckFk
  <2>2. \A s \in Req \ {r} : TaskLock(id[r]) \notin locks[s]
    BY <1>12 DEF CheckFk, LockInv, LockOf, Holding
  <2>3. \A s \in Req \ {r} : pc[s] \in Holding /\ call[s].op # "create" => Visible(s)'
    BY <1>12, <2>1, <2>2, HeldStaysVisible DEF CheckFk, Finish
  <2> QED
    BY <2>1, <2>3, FinishLock DEF Reply
<1>13. ASSUME NEW r \in Req, DeleteTask(r) PROVE LockInv'
  <2>1. CASE ~ Visible(r)
    BY <1>13, <2>1, FinishLockOnly DEF DeleteTask, Reply
  <2>2. CASE Visible(r)
    <3>1. PICK answer \in {"ok", "error"} : Finish(r, answer)
      BY <1>13, <2>2 DEF DeleteTask
    <3>2. \A s \in Req \ {r} : pc[s] \in Holding /\ call[s].op # "create" => Visible(s)'
      BY <1>13, <2>2, <3>1, HeldStaysVisible DEF DeleteTask, Finish, Free
    <3> QED
      BY <3>1, <3>2, FinishLock DEF Reply
  <2> QED
    BY <2>1, <2>2
<1>14. ASSUME NEW r \in Req, Fail(r) \/ DeadlockAbort(r) PROVE LockInv'
  BY <1>14, FinishLockOnly DEF Fail, DeadlockAbort, Reply
<1>15. CASE Tick
  BY <1>15 DEF Tick, reqVars, LockInv, LockOf, Visible
<1>16. CASE UNCHANGED vars
  BY <1>16 DEF vars, LockInv, LockOf, Visible
<1> QED
  BY <1>1, <1>2, <1>3, <1>4, <1>5, <1>6, <1>7, <1>8, <1>9, <1>10, <1>11, <1>12,
     <1>13, <1>14, <1>15, <1>16 DEF Next, Step, Quiesced

\* The row a create locks is its own and stays absent until it commits.
LEMMA FreshStaysAbsent ==
    ASSUME TypeOK, PhaseInv, IdInv, LockInv, NEW r \in Req, NEW s \in Req \ {r}, NEW row,
           call[s].op = "create", pc[s] \in {"unlink", "link"},
           TaskLock(id[r]) \notin locks[s],
           tasks' = [tasks EXCEPT ![id[r]] = row]
    PROVE  tasks'[id[s]] = NoRow
<1>1. TaskLock(id[s]) \in locks[s] /\ id[s] \in TaskId /\ tasks[id[s]] = NoRow
  BY DEF LockInv, LockOf, Holding, IdInv
<1> QED
  BY <1>1 DEF TypeOK

\* IdInv after a step of r that ends or leaves its transaction at most.
LEMMA IdKept ==
    ASSUME TypeOK, IdInv, NEW r \in Req, call' = call, id' = id, nextId' = nextId, tasks' = tasks,
           \A s \in Req : pc'[s] \in {"unlink", "link"} /\ call[s].op = "create"
                              => pc[s] \in {"unlink", "link"}
    PROVE  IdInv'
BY DEF IdInv

\* Every step keeps stored ids below the sequence and a create on an id that has
\* no row yet: two creates never share one.
THEOREM IdStep ==
    TypeOK /\ PhaseInv /\ IdInv /\ LockInv /\ [Next]_vars => IdInv'
<1> SUFFICES ASSUME TypeOK, PhaseInv, IdInv, LockInv, [Next]_vars
             PROVE  IdInv'
  OBVIOUS
<1> USE DEF dbVars
<1>0. call' = call
  BY CallStable
<1>1. ASSUME NEW r \in Req, Begin(r) PROVE IdInv'
  <2>1. PICK step \in {"stamp", "delete", "get", "invalid"} : Goto(r, step)
    BY <1>1 DEF Begin, Finish
  <2>2. UNCHANGED <<id, nextId, tasks>>
    BY <1>1 DEF Begin, Finish
  <2> QED
    BY <1>0, <2>1, <2>2, IdKept DEF Goto, TypeOK
<1>2. ASSUME NEW r \in Req, Get(r) \/ Stamp(r) \/ Reread(r) PROVE IdInv'
  <2>1. PICK step \in {"stamp", "not_found", "ok", "project", "write"} : Goto(r, step)
    BY <1>2 DEF Get, Stamp, Reread, Finish
  <2>2. UNCHANGED <<id, nextId, tasks>>
    BY <1>2 DEF Get, Stamp, Reread, Finish
  <2> QED
    BY <1>0, <2>1, <2>2, IdKept DEF Goto, TypeOK
<1>3. ASSUME NEW r \in Req, ResolveProject(r) \/ ClearTags(r) \/ LinkTag(r) PROVE IdInv'
  BY <1>0, <1>3, IdKept DEF ResolveProject, ClearTags, LinkTag, Goto, TypeOK
<1>4. ASSUME NEW r \in Req, InsertRow(r) PROVE IdInv'
  <2>1. nextId \in TaskId /\ tasks[nextId] = NoRow /\ nextId \in Nat
    <3>1. nextId \in TaskId /\ nextId \in Nat
      BY <1>4 DEF InsertRow, TypeOK, TaskId
    <3> QED
      BY <3>1 DEF IdInv
  <2>2. \A t \in TaskId : t \in Nat
    BY BoundAssumption DEF TaskId
  <2>3. \A t \in TaskId : tasks'[t] # NoRow => t < nextId'
    <3>1. tasks' = tasks /\ nextId' = nextId + 1
      BY <1>4 DEF InsertRow
    <3>2. \A t \in TaskId : tasks[t] # NoRow => t < nextId
      BY DEF IdInv
    <3>3. \A t \in Nat : t < nextId => t < nextId + 1
      BY <2>1
    <3> QED
      BY <2>2, <3>1, <3>2, <3>3
  <2>4. \A s \in Req : call[s].op # "create" => id'[s] = call[s].id
    BY <1>4 DEF InsertRow, IdInv, TypeOK
  <2>5. ASSUME NEW s \in Req, call[s].op = "create", pc'[s] \in {"unlink", "link"}
        PROVE  id'[s] \in TaskId /\ id'[s] < nextId' /\ tasks'[id'[s]] = NoRow
    <3>1. CASE s = r
      BY <1>4, <2>1, <3>1 DEF InsertRow, TypeOK
    <3>2. CASE s # r
      BY <1>4, <2>1, <2>2, <2>5, <3>2 DEF InsertRow, Goto, IdInv, TypeOK
    <3> QED
      BY <3>1, <3>2
  <2> QED
    BY <1>0, <2>3, <2>4, <2>5 DEF IdInv
<1>5. ASSUME NEW r \in Req, UpdateRow(r) PROVE IdInv'
  BY <1>0, <1>5, IdKept DEF UpdateRow, Finish, Goto, TypeOK
<1>6. ASSUME NEW r \in Req, Commit(r) PROVE IdInv'
  <2>1. id' = id /\ nextId' = nextId /\ tasks' = [tasks EXCEPT ![id[r]] = Stored(r)]
    BY <1>6 DEF Commit, Finish
  <2>2. id[r] < nextId
    BY <1>6 DEF Commit, IdInv, LockInv, LockOf, Visible, Holding
  <2>3. \A s \in Req : pc'[s] \in {"unlink", "link"} => s # r /\ pc[s] = pc'[s]
    BY <1>6 DEF Commit, Finish, Goto, TypeOK
  <2>4. \A s \in Req \ {r} : TaskLock(id[r]) \notin locks[s]
    BY <1>6 DEF Commit, LockInv, LockOf, Holding
  <2> QED
    BY <1>0, <2>1, <2>2, <2>3, <2>4, FreshStaysAbsent DEF IdInv, TypeOK
<1>7. ASSUME NEW r \in Req, WriteRow(r) \/ CheckFk(r) \/ DeleteTask(r) PROVE IdInv'
  <2>1. \A s \in Req : pc'[s] \in {"unlink", "link"} => pc[s] = pc'[s]
    BY <1>7 DEF WriteRow, CheckFk, DeleteTask, Finish, Goto, TypeOK
  <2>2. id' = id /\ nextId' = nextId
    BY <1>7 DEF WriteRow, CheckFk, DeleteTask, Finish
  <2>3. CASE tasks' = tasks
    BY <1>0, <2>1, <2>2, <2>3, IdKept
  <2>4. CASE tasks' # tasks
    <3>1. PICK row : tasks' = [tasks EXCEPT ![id[r]] = row]
      BY <1>7, <2>4 DEF WriteRow, CheckFk, DeleteTask
    <3>2. Visible(r)
      BY <1>7, <2>4 DEF WriteRow, CheckFk, DeleteTask, LockInv, LockOf, Holding, PhaseInv
    <3> QED
      BY <1>0, <2>1, <2>2, <3>1, <3>2 DEF IdInv, TypeOK, Visible
  <2> QED
    BY <2>3, <2>4
<1>8. ASSUME NEW r \in Req, Fail(r) \/ DeadlockAbort(r) PROVE IdInv'
  BY <1>0, <1>8, IdKept DEF Fail, DeadlockAbort, Finish, Goto, TypeOK
<1>9. CASE Tick
  BY <1>9 DEF Tick, reqVars, IdInv
<1>10. CASE UNCHANGED vars
  BY <1>10 DEF vars, IdInv
<1> QED
  BY <1>1, <1>2, <1>3, <1>4, <1>5, <1>6, <1>7, <1>8, <1>9, <1>10 DEF Next, Step, Quiesced

------------------------------------------------------------------------------
(* What is stored *)

\* What a row that a request stores says: it is the user's, it is dated in
\* order and no later than now, and an update keeps the date of creation.
LEMMA StoredFacts ==
    ASSUME TypeOK, PhaseInv, ReadInv, NEW r \in Req, pc[r] \in Dated,
           call[r].op = "create" \/ Visible(r)
    PROVE  /\ Stored(r) \in Row
           /\ Stored(r).user = call[r].user
           /\ \/ Stored(r).project = NoProject
              \/ /\ Stored(r).project[1] = call[r].user
                 /\ Stored(r).project \in projects \/ Stored(r).project = ProjectOf(r)
           /\ call[r].op \notin FormOp => Owned(Stored(r))
           /\ Ordered(Stored(r))
           /\ Stored(r).updated <= clock
           /\ call[r].op # "create" => Stored(r).created = tasks[id[r]].created
<1>1. Stored(r) \in Row
  BY StoredType
<1>2. now[r] \in Time /\ now[r] <= clock /\ now[r] # NoTime
  BY DEF TypeOK, PhaseInv, ReadInv, ReadOf, NoTime
<1>3. \A t \in Time \cup {NoTime} : t \in Nat
  BY BoundAssumption DEF Time, NoTime
<1>4. CASE call[r].op = "create"
  <2>1. Stored(r) = FormRow(r)
    BY <1>4 DEF Stored, Draft, FormOp
  <2>2. Ordered(FormRow(r))
    BY <1>2, <1>3, <1>4 DEF Ordered, FormRow, IsArchived, NoTime
  <2> QED
    BY <1>1, <1>2, <1>4, <2>1, <2>2, ProjectOfType DEF FormRow, FormOp
<1>5. CASE call[r].op # "create"
  <2>1. /\ existing[r] \in Row
        /\ existing[r].user = call[r].user
        /\ Owned(existing[r])
        /\ Ordered(existing[r])
        /\ existing[r].updated <= now[r]
        /\ tasks[id[r]].created = existing[r].created
        /\ tasks[id[r]].user = call[r].user
    BY <1>2, <1>5 DEF PhaseInv, ReadInv, ReadOf, TypeOK, Visible
  <2>2. /\ existing[r].created \in Nat /\ existing[r].updated \in Nat
        /\ existing[r].archived \in Nat /\ now[r] \in Nat
    BY <1>2, <1>3, <2>1 DEF Row
  <2>3. Stored(r) = Updated(tasks[id[r]], Draft(r)) /\ Draft(r) \in Row
    BY <1>5, DraftType DEF Stored
  <2>4. /\ Stored(r).user = call[r].user
        /\ Stored(r).created = existing[r].created
        /\ Stored(r).updated = Draft(r).updated
        /\ Stored(r).archived = Draft(r).archived
        /\ Stored(r).project = Draft(r).project
    BY <2>1, <2>3 DEF Updated, Row
  <2>5. call[r].op \in FormOp \cup {"set_status", "archive", "unarchive"}
    BY CallType DEF PhaseInv, Dated, Holding, FormOp
  <2>6. CASE call[r].op \in FormOp
    <3>1. Draft(r) = FormRow(r)
      BY <2>6 DEF Draft, FormOp
    <3>2. /\ Draft(r).updated = now[r] /\ Draft(r).archived = existing[r].archived
          /\ Draft(r).project = ProjectOf(r)
      BY <1>5, <3>1 DEF FormRow
    <3>3. Ordered(Stored(r))
      BY <2>1, <2>2, <2>4, <3>2 DEF Ordered, IsArchived
    <3> QED
      BY <1>1, <1>2, <2>1, <2>4, <2>6, <3>2, <3>3, ProjectOfType
  <2>7. CASE call[r].op = "set_status"
    <3>1. Draft(r) = StatusRow(r)
      BY <2>7 DEF Draft, FormOp
    <3>2. /\ Draft(r).updated = now[r] /\ Draft(r).archived = existing[r].archived
          /\ Draft(r).project = existing[r].project
      BY <2>1, <3>1 DEF StatusRow, Row
    <3>3. Ordered(Stored(r)) /\ Owned(Stored(r))
      BY <2>1, <2>2, <2>4, <3>2 DEF Ordered, IsArchived, Owned
    <3> QED
      BY <1>1, <1>2, <2>1, <2>4, <3>2, <3>3 DEF Owned
  <2>8. CASE call[r].op = "archive"
    <3>1. Draft(r) = ArchivedRow(r)
      BY <2>8 DEF Draft, FormOp
    <3>2. /\ Draft(r).updated = now[r] /\ Draft(r).archived = now[r]
          /\ Draft(r).project = existing[r].project
      BY <2>1, <3>1 DEF ArchivedRow, Row
    <3>3. Ordered(Stored(r)) /\ Owned(Stored(r))
      BY <2>1, <2>2, <2>4, <3>2 DEF Ordered, IsArchived, Owned
    <3> QED
      BY <1>1, <1>2, <2>1, <2>4, <3>2, <3>3 DEF Owned
  <2>9. CASE call[r].op = "unarchive"
    <3>1. Draft(r) = UnarchivedRow(r)
      BY <2>9 DEF Draft, FormOp
    <3>2. /\ Draft(r).updated = now[r] /\ Draft(r).archived = NoTime
          /\ Draft(r).project = existing[r].project
      BY <2>1, <3>1 DEF UnarchivedRow, Row
    <3>3. Ordered(Stored(r)) /\ Owned(Stored(r))
      BY <2>1, <2>2, <2>4, <3>2 DEF Ordered, IsArchived, Owned
    <3> QED
      BY <1>1, <1>2, <2>1, <2>4, <3>2, <3>3 DEF Owned
  <2> QED
    BY <2>5, <2>6, <2>7, <2>8, <2>9
<1> QED
  BY <1>4, <1>5

\* A copy that was read stays what ReadOf says while the tables keep its
\* project and no other row took the place of the one it was read from.
LEMMA ReadKept ==
    ASSUME TypeOK, ReadInv, NEW s \in Req,
           existing'[s] = existing[s], now'[s] = now[s], call' = call, id'[s] = id[s],
           projects \subseteq projects', clock <= clock', nextId <= nextId',
           clock' \in Nat, nextId' \in Nat,
           existing[s] # NoRow => ~ Inserting(id[s])' /\
               (tasks'[id[s]] # NoRow => tasks'[id[s]].created = existing[s].created)
    PROVE  ReadOf(s)'
<1>1. now[s] \in Nat /\ clock \in Nat /\ nextId \in Nat /\ id[s] \in Nat
  BY BoundAssumption DEF TypeOK, Time, NoTime
<1>2. existing[s] # NoRow => existing[s].updated \in Nat
  BY BoundAssumption DEF TypeOK, Row, Time
<1>3. ReadOf(s)
  BY DEF ReadInv
<1>4. now'[s] <= clock'
  BY <1>1, <1>3 DEF ReadOf
<1>5. ASSUME existing[s] # NoRow
      PROVE  /\ Owned(existing[s])' /\ Ordered(existing[s])'
             /\ id'[s] < nextId' /\ existing'[s].updated <= clock'
  <2>1. Owned(existing[s])' /\ Ordered(existing[s])'
    BY <1>3, <1>5 DEF ReadOf, Owned, Ordered, IsArchived
  <2>2. id'[s] < nextId' /\ existing'[s].updated <= clock'
    BY <1>1, <1>2, <1>3, <1>5 DEF ReadOf
  <2> QED
    BY <2>1, <2>2
<1> QED
  BY <1>3, <1>4, <1>5 DEF ReadOf

\* A row is there after a step only if it was there before, with the same user
\* and date of creation, or if a create was about to store it.
LEMMA RowsKept ==
    ASSUME TypeOK, PhaseInv, IdInv, LockInv, ReadInv, [Next]_vars,
           NEW t \in TaskId, tasks'[t] # NoRow
    PROVE  \/ Inserting(t)
           \/ /\ tasks[t] # NoRow
              /\ tasks'[t].created = tasks[t].created
              /\ tasks'[t].user = tasks[t].user
<1>1. ASSUME NEW r \in Req, tasks' = [tasks EXCEPT ![id[r]] = Stored(r)],
             pc[r] \in Dated, call[r].op = "create" => pc[r] = "link",
             call[r].op # "create" => Visible(r)
      PROVE  \/ Inserting(t)
             \/ /\ tasks[t] # NoRow
                /\ tasks'[t].created = tasks[t].created
                /\ tasks'[t].user = tasks[t].user
  <2>1. CASE t # id[r]
    BY <1>1, <2>1 DEF TypeOK
  <2>2. CASE t = id[r] /\ call[r].op = "create"
    BY <1>1, <2>2 DEF Inserting
  <2>3. CASE t = id[r] /\ call[r].op # "create"
    <3>1. tasks'[t] = Stored(r) /\ tasks[t] # NoRow /\ tasks[t].user = call[r].user
      BY <1>1, <2>3 DEF TypeOK, Visible
    <3> QED
      BY <1>1, <2>3, <3>1, StoredFacts
  <2> QED
    BY <2>1, <2>2, <2>3
<1>2. CASE tasks' = tasks
  BY <1>2
<1>3. ASSUME NEW r \in Req, Commit(r)
      PROVE  \/ Inserting(t)
             \/ /\ tasks[t] # NoRow
                /\ tasks'[t].created = tasks[t].created
                /\ tasks'[t].user = tasks[t].user
  BY <1>1, <1>3 DEF Commit, Dated, Holding, LockInv, LockOf
<1>4. ASSUME NEW r \in Req, WriteRow(r) \/ CheckFk(r), tasks' # tasks
      PROVE  /\ tasks[t] # NoRow
             /\ tasks'[t].created = tasks[t].created
             /\ tasks'[t].user = tasks[t].user
  <2>1. Visible(r) /\ call[r].op # "create" /\ pc[r] \in Dated
    BY <1>4 DEF WriteRow, CheckFk, PhaseInv, LockInv, LockOf, Holding, Dated
  <2>2. tasks' = [tasks EXCEPT ![id[r]] = Stored(r)]
    BY <1>4 DEF WriteRow, CheckFk
  <2>3. CASE t # id[r]
    BY <2>2, <2>3 DEF TypeOK
  <2>4. CASE t = id[r]
    <3>1. tasks'[t] = Stored(r) /\ tasks[t] # NoRow /\ tasks[t].user = call[r].user
      BY <2>1, <2>2, <2>4 DEF TypeOK, Visible
    <3> QED
      BY <2>1, <2>4, <3>1, StoredFacts
  <2> QED
    BY <2>3, <2>4
<1>5. ASSUME NEW r \in Req, DeleteTask(r), tasks' # tasks
      PROVE  tasks[t] # NoRow /\ tasks'[t] = tasks[t]
  BY <1>5 DEF DeleteTask, TypeOK, Visible
<1> QED
  BY <1>2, <1>3, <1>4, <1>5
  DEF Next, vars, dbVars, Step, Begin, Get, Stamp, ResolveProject, InsertRow, UpdateRow,
      ClearTags, LinkTag, Reread, Fail, DeadlockAbort, Tick, Quiesced

\* Only InsertRow makes a task one that is about to be stored, under a new id.
LEMMA InsertingKept ==
    ASSUME TypeOK, PhaseInv, [Next]_vars, NEW t, Inserting(t)'
    PROVE  Inserting(t) \/ (t = nextId /\ nextId' = nextId + 1)
<1>0. call' = call
  BY CallStable
<1>1. PICK s \in Req : call[s].op = "create" /\ id'[s] = t /\ pc'[s] \in {"unlink", "link"}
  BY <1>0 DEF Inserting
<1>2. CASE pc[s] \in {"unlink", "link"} /\ id'[s] = id[s]
  BY <1>1, <1>2 DEF Inserting
<1>3. CASE InsertRow(s)
  BY <1>1, <1>3 DEF InsertRow, TypeOK
<1>4. (pc[s] \in {"unlink", "link"} /\ id'[s] = id[s]) \/ InsertRow(s)
  <2>1. CASE UNCHANGED vars
    BY <1>1, <2>1 DEF vars
  <2>2. CASE Tick \/ Quiesced
    BY <1>1, <2>2 DEF Tick, Quiesced, vars, reqVars
  <2>3. ASSUME NEW r \in Req, InsertRow(r), r # s
        PROVE  pc[s] \in {"unlink", "link"} /\ id'[s] = id[s]
    BY <1>1, <2>3 DEF InsertRow, Goto, TypeOK
  <2>4. ASSUME NEW r \in Req, Begin(r) \/ Get(r) \/ Stamp(r)
        PROVE  pc[s] \in {"unlink", "link"} /\ id'[s] = id[s]
    <3>1. PICK step \in {"stamp", "delete", "get", "invalid", "not_found", "ok", "project", "write"} :
             Goto(r, step)
      BY <2>4 DEF Begin, Get, Stamp, Finish
    <3>2. id' = id
      BY <2>4 DEF Begin, Get, Stamp, Finish
    <3> QED
      BY <1>1, <3>1, <3>2 DEF Goto, TypeOK
  <2>5. ASSUME NEW r \in Req, ResolveProject(r) \/ ClearTags(r) \/ LinkTag(r)
        PROVE  pc[s] \in {"unlink", "link"} /\ id'[s] = id[s]
    BY <1>1, <2>5 DEF ResolveProject, ClearTags, LinkTag, Goto, TypeOK
  <2>6. ASSUME NEW r \in Req, UpdateRow(r)
        PROVE  pc[s] \in {"unlink", "link"} /\ id'[s] = id[s]
    BY <1>1, <2>6 DEF UpdateRow, Finish, Goto, TypeOK
  <2>7. ASSUME NEW r \in Req,
               Commit(r) \/ Reread(r) \/ CheckFk(r) \/ DeleteTask(r) \/ Fail(r) \/ DeadlockAbort(r)
        PROVE  pc[s] \in {"unlink", "link"} /\ id'[s] = id[s]
    <3>1. PICK reply \in {"reread", "ok", "error", "not_found"} : Finish(r, reply)
      BY <2>7 DEF Commit, Reread, CheckFk, DeleteTask, Fail, DeadlockAbort
    <3> QED
      BY <1>1, <3>1 DEF Finish, Goto, TypeOK
  <2>8. ASSUME NEW r \in Req, WriteRow(r)
        PROVE  pc[s] \in {"unlink", "link"} /\ id'[s] = id[s]
    <3>1. id' = id /\ \E reply \in {"ok", "error", "not_found", "fk"} : Goto(r, reply)
      BY <2>8 DEF WriteRow, Finish
    <3> QED
      BY <1>1, <3>1 DEF Goto, TypeOK
  <2> QED
    BY <2>1, <2>2, <2>3, <2>4, <2>5, <2>6, <2>7, <2>8 DEF Next, Step
<1> QED
  BY <1>2, <1>3, <1>4

\* The tables of names and the counters only grow.
LEMMA Growing ==
    ASSUME TypeOK, [Next]_vars
    PROVE  /\ projects \subseteq projects' /\ tags \subseteq tags'
           /\ clock' \in Nat /\ clock <= clock' /\ nextId' \in Nat /\ nextId <= nextId'
<1>1. clock \in Nat /\ nextId \in Nat
  BY DEF TypeOK, Time
<1>2. \/ UNCHANGED <<clock, nextId>>
      \/ clock' = clock + 1 /\ nextId' = nextId
      \/ clock' = clock /\ nextId' = nextId + 1
  BY DEF Next, vars, dbVars, Step, Begin, Get, Stamp, ResolveProject, InsertRow, UpdateRow,
     ClearTags, LinkTag, Commit, Reread, WriteRow, CheckFk, DeleteTask, Fail, DeadlockAbort,
     Tick, Quiesced
<1>3. projects \subseteq projects' /\ tags \subseteq tags'
  BY DEF Next, vars, dbVars, Step, Begin, Get, Stamp, ResolveProject, InsertRow, UpdateRow,
     ClearTags, LinkTag, Commit, Reread, WriteRow, CheckFk, DeleteTask, Fail, DeadlockAbort,
     Tick, Quiesced
<1> QED
  BY <1>1, <1>2, <1>3

\* What a step can do to a request's copy and its time.
LEMMA CopySteps ==
    ASSUME TypeOK, [Next]_vars, NEW s \in Req
    PROVE  \/ existing'[s] = existing[s] /\ now'[s] = now[s] /\ id'[s] = id[s]
           \/ existing'[s] = NoRow /\ now'[s] = NoTime
           \/ Get(s) /\ Visible(s)
           \/ Stamp(s) /\ ~ NothingToDo(s)
           \/ InsertRow(s)
<1> DEFINE Goal == \/ existing'[s] = existing[s] /\ now'[s] = now[s] /\ id'[s] = id[s]
                   \/ existing'[s] = NoRow /\ now'[s] = NoTime
                   \/ Get(s) /\ Visible(s)
                   \/ Stamp(s) /\ ~ NothingToDo(s)
                   \/ InsertRow(s)
<1>1. ASSUME NEW r \in Req, NEW reply, Finish(r, reply) PROVE Goal
  BY <1>1 DEF Finish, TypeOK
<1>2. CASE UNCHANGED <<existing, now, id>>
  BY <1>2
<1>3. ASSUME NEW r \in Req, InsertRow(r) PROVE Goal
  BY <1>3 DEF InsertRow, TypeOK
<1>4. ASSUME NEW r \in Req, Get(r) PROVE Goal
  BY <1>1, <1>4 DEF Get, TypeOK
<1>5. ASSUME NEW r \in Req, Stamp(r) PROVE Goal
  BY <1>1, <1>5 DEF Stamp, TypeOK
<1>6. ASSUME NEW r \in Req, Begin(r) \/ UpdateRow(r) \/ WriteRow(r) PROVE Goal
  BY <1>1, <1>2, <1>6 DEF Begin, UpdateRow, WriteRow
<1>7. ASSUME NEW r \in Req,
             Commit(r) \/ Reread(r) \/ CheckFk(r) \/ DeleteTask(r) \/ Fail(r) \/ DeadlockAbort(r)
      PROVE  Goal
  BY <1>1, <1>7 DEF Commit, Reread, CheckFk, DeleteTask, Fail, DeadlockAbort
<1>8. ASSUME NEW r \in Req, ResolveProject(r) \/ ClearTags(r) \/ LinkTag(r) PROVE Goal
  BY <1>2, <1>8 DEF ResolveProject, ClearTags, LinkTag
<1>9. CASE Tick \/ Quiesced \/ UNCHANGED vars
  BY <1>2, <1>9 DEF Tick, Quiesced, vars, reqVars
<1> QED
  BY <1>3, <1>4, <1>5, <1>6, <1>7, <1>8, <1>9 DEF Next, Step

\* Every step keeps what is known of the copies requests hold: the row a copy was
\* read from is gone or still the same user's with the same date of creation.
THEOREM ReadStep ==
    IInv /\ [Next]_vars => ReadInv'
<1> SUFFICES ASSUME IInv, [Next]_vars, NEW s \in Req
             PROVE  ReadOf(s)'
  BY DEF ReadInv
<1>0. TypeOK /\ PhaseInv /\ IdInv /\ LockInv /\ ReadInv /\ OwnerConsistent /\ TimestampsOrdered
  BY DEF IInv
<1>1. call' = call
  BY CallStable
<1>2. TypeOK'
  BY <1>0, TypeStep
<1>3. clock' \in Nat /\ clock \in Nat /\ nextId' \in Nat
  BY <1>0, Growing DEF TypeOK, Time
<1>4. CASE existing'[s] = existing[s] /\ now'[s] = now[s] /\ id'[s] = id[s]
  <2>1. ASSUME existing[s] # NoRow
        PROVE  /\ ~ Inserting(id[s])'
               /\ tasks'[id[s]] # NoRow => tasks'[id[s]].created = existing[s].created
    <3>1. /\ ~ Inserting(id[s]) /\ id[s] < nextId
          /\ tasks[id[s]] # NoRow => tasks[id[s]].created = existing[s].created
      BY <1>0, <2>1 DEF ReadInv, ReadOf
    <3>2. id[s] \in TaskId /\ id[s] \in Nat /\ nextId \in Nat
      <4>1. call[s].op # "create" /\ call[s].id \in 0 .. MaxTask /\ call[s].id # 0 /\ id[s] = call[s].id
        <5>1. call[s].op # "create" /\ id[s] = call[s].id
          BY <1>0, <2>1 DEF ReadInv, ReadOf, IdInv
        <5> QED
          BY <1>0, <5>1, CallType
      <4> QED
        BY <1>0, <4>1, BoundAssumption DEF TaskId, TypeOK
    <3>3. ~ Inserting(id[s])'
      <4>1. PICK t : t = id[s]
        OBVIOUS
      <4>2. Inserting(t)' => Inserting(t) \/ t = nextId
        BY <1>0, InsertingKept
      <4>3. Inserting(id[s])' => Inserting(t)'
        BY <1>4, <4>1 DEF Inserting
      <4>4. Inserting(t) => Inserting(id[s])
        BY <4>1
      <4> QED
        BY <3>1, <3>2, <4>1, <4>2, <4>3, <4>4
    <3> QED
      BY <1>0, <3>1, <3>2, <3>3, RowsKept
  <2> QED
    BY <1>0, <1>1, <1>3, <1>4, <2>1, Growing, ReadKept
<1>5. CASE existing'[s] = NoRow /\ now'[s] = NoTime
  BY <1>3, <1>5 DEF ReadOf, NoTime
<1>6. CASE Get(s) /\ Visible(s)
  <2>1. /\ existing'[s] = Scan(tasks[id[s]]) /\ now' = now /\ id' = id /\ tasks' = tasks
        /\ projects' = projects /\ clock' = clock /\ nextId' = nextId
        /\ pc' = [pc EXCEPT ![s] = "stamp"]
    BY <1>0, <1>6 DEF Get, Goto, dbVars, TypeOK
  <2>2. /\ tasks[id[s]] \in Row /\ id[s] \in TaskId /\ tasks[id[s]] # NoRow
        /\ tasks[id[s]].user = call[s].user
    BY <1>0, <1>6 DEF Visible, TypeOK
  <2>3. pc[s] = "get" /\ call[s].op # "create" /\ now[s] = NoTime
    BY <1>0, <1>6 DEF Get, PhaseInv, Dated, Holding
  <2>4. /\ existing'[s].user = call[s].user
        /\ existing'[s].created = tasks[id[s]].created
        /\ existing'[s].updated = tasks[id[s]].updated
        /\ existing'[s].archived = tasks[id[s]].archived
    BY <2>1, <2>2 DEF Scan, Row
  <2>5. Owned(existing[s])'
    BY <2>1, <2>2 DEF Scan, Row, Owned
  <2>6. Ordered(existing[s])' /\ existing'[s].updated <= clock'
    BY <1>0, <2>1, <2>2, <2>4 DEF TimestampsOrdered, Ordered, IsArchived
  <2>7. ~ Inserting(id[s])'
    BY <1>0, <1>1, <2>1, <2>2, <2>3 DEF Inserting, IdInv, TypeOK
  <2>8. id[s] < nextId
    BY <1>0, <2>2 DEF IdInv
  <2>9. now'[s] <= clock' /\ now'[s] = NoTime
    BY <1>3, <2>1, <2>3 DEF NoTime
  <2> QED
    BY <1>1, <2>1, <2>3, <2>4, <2>5, <2>6, <2>7, <2>8, <2>9 DEF ReadOf
<1>7. CASE Stamp(s) /\ ~ NothingToDo(s)
  <2>1. /\ existing'[s] = existing[s] /\ now'[s] = clock /\ id' = id /\ tasks' = tasks
        /\ projects' = projects /\ clock' = clock /\ nextId' = nextId
        /\ \E step \in {"project", "write"} : pc' = [pc EXCEPT ![s] = step]
    BY <1>0, <1>7 DEF Stamp, Goto, dbVars, TypeOK
  <2>2. Inserting(id[s])' => Inserting(id[s])
    BY <1>0, <1>1, <2>1 DEF Inserting, TypeOK
  <2> QED
    BY <1>0, <1>1, <1>3, <2>1, <2>2 DEF ReadInv, ReadOf, Owned, Ordered, IsArchived
<1>8. CASE InsertRow(s)
  <2>1. existing'[s] = NoRow /\ now'[s] = now[s] /\ clock' = clock
    BY <1>0, <1>8 DEF InsertRow, ReadInv, ReadOf
  <2> QED
    BY <1>0, <2>1 DEF ReadInv, ReadOf
<1> QED
  BY <1>0, <1>4, <1>5, <1>6, <1>7, <1>8, CopySteps


\* The steps that write task rows: a row that r may write is stored, or one of
\* r's is deleted.
LEMMA WriteSteps ==
    ASSUME TypeOK, PhaseInv, LockInv, [Next]_vars
    PROVE  \/ UNCHANGED <<tasks, links, tags, projects>>
           \/ \E r \in Req : Commit(r)
           \/ \E r \in Req :
                 /\ call[r].op \notin FormOp /\ pc[r] \in Dated /\ Visible(r)
                 /\ Acts(r) /\ pc'[r] \in Reply
                 /\ tasks' = [tasks EXCEPT ![id[r]] = Stored(r)]
                 /\ UNCHANGED <<links, tags, projects, clock>>
           \/ \E r \in Req : DeleteTask(r) /\ Visible(r)
<1> DEFINE Write(r) ==
      /\ call[r].op \notin FormOp /\ pc[r] \in Dated /\ Visible(r)
      /\ Acts(r) /\ pc'[r] \in Reply
      /\ tasks' = [tasks EXCEPT ![id[r]] = Stored(r)]
      /\ UNCHANGED <<links, tags, projects, clock>>
<1>0. ASSUME NEW r \in Req, NEW answer \in {"ok", "error"}, Finish(r, answer)
      PROVE  pc'[r] = answer
  BY <1>0 DEF Finish, Goto, TypeOK
<1>1. ASSUME NEW r \in Req, WriteRow(r), tasks' # tasks PROVE Write(r)
  BY <1>0, <1>1 DEF WriteRow, PhaseInv, FormOp, Dated, Acts, Reply
<1>2. ASSUME NEW r \in Req, WriteRow(r) PROVE UNCHANGED <<links, tags, projects>>
  BY <1>2 DEF WriteRow
<1>3. ASSUME NEW r \in Req, CheckFk(r) PROVE Write(r)
  BY <1>0, <1>3 DEF CheckFk, PhaseInv, FormOp, Dated, Holding, LockInv, LockOf, Acts, Reply
<1>4. ASSUME NEW r \in Req, DeleteTask(r), ~ Visible(r)
      PROVE  UNCHANGED <<tasks, links, tags, projects>>
  BY <1>4 DEF DeleteTask
<1> QED
  BY <1>1, <1>2, <1>3, <1>4
  DEF Next, vars, dbVars, Step, Begin, Get, Stamp, ResolveProject, InsertRow, UpdateRow,
      ClearTags, LinkTag, Reread, Fail, DeadlockAbort, Tick, Quiesced

\* At its commit a request works on its own task, a live one or a new one.
LEMMA CommitFacts ==
    ASSUME TypeOK, PhaseInv, IdInv, LockInv, NEW r \in Req, Commit(r)
    PROVE  /\ pc[r] \in Dated /\ id[r] \in TaskId
           /\ call[r].op = "create" => tasks[id[r]] = NoRow
           /\ call[r].op # "create" => Visible(r)
BY DEF Commit, Dated, Holding, IdInv, LockInv, LockOf, Visible

\* Every step keeps tasks, their projects and their tags within one user.
THEOREM OwnerStep ==
    IInv /\ [Next]_vars => OwnerConsistent'
<1> SUFFICES ASSUME IInv, [Next]_vars
             PROVE  OwnerConsistent'
  OBVIOUS
<1>0. TypeOK /\ PhaseInv /\ IdInv /\ LockInv /\ ReadInv /\ OwnerConsistent
  BY DEF IInv
<1>1. CASE UNCHANGED <<tasks, links, tags, projects>>
  BY <1>0, <1>1 DEF OwnerConsistent
<1>2. ASSUME NEW r \in Req, Commit(r) PROVE OwnerConsistent'
  <2>1. /\ tasks' = [tasks EXCEPT ![id[r]] = Stored(r)]
        /\ links' = (links \ unlinked[r]) \cup ({id[r]} \X Upserted(r))
        /\ tags' = tags \cup Upserted(r)
        /\ projects' = projects \cup ({ProjectOf(r)} \ {NoProject})
    BY <1>2 DEF Commit
  <2>2. /\ Stored(r) \in Row
        /\ Stored(r).user = call[r].user
        /\ \/ Stored(r).project = NoProject
           \/ /\ Stored(r).project[1] = call[r].user
              /\ Stored(r).project \in projects \/ Stored(r).project = ProjectOf(r)
    BY <1>0, <1>2, CommitFacts, StoredFacts
  <2>3. id[r] \in TaskId /\ tasks'[id[r]] = Stored(r) /\ Stored(r) # NoRow
        /\ \A t \in TaskId \ {id[r]} : tasks'[t] = tasks[t]
    BY <1>0, <1>2, <2>1, <2>2, CommitFacts, NullAssumption DEF TypeOK
  <2>4. ASSUME NEW t \in TaskId, tasks'[t] # NoRow
        PROVE  \/ tasks'[t].project = NoProject
               \/ tasks'[t].project \in projects' /\ tasks'[t].project[1] = tasks'[t].user
    <3>1. CASE t = id[r]
      BY <2>1, <2>2, <2>3, <3>1
    <3>2. CASE t # id[r]
      BY <1>0, <2>1, <2>3, <2>4, <3>2 DEF OwnerConsistent
    <3> QED
      BY <3>1, <3>2
  <2>5. ASSUME NEW l \in links'
        PROVE  tasks'[l[1]] # NoRow /\ l[2] \in tags' /\ l[2][1] = tasks'[l[1]].user
    <3>1. CASE l \in links
      <4>1. /\ l[1] \in TaskId /\ tasks[l[1]] # NoRow /\ l[2] \in tags
            /\ l[2][1] = tasks[l[1]].user
        BY <1>0, <3>1 DEF OwnerConsistent, TypeOK
      <4>2. CASE l[1] = id[r]
        BY <1>0, <1>2, <2>1, <2>2, <2>3, <4>1, <4>2, CommitFacts DEF Visible
      <4>3. CASE l[1] # id[r]
        BY <2>1, <2>3, <4>1, <4>3
      <4> QED
        BY <4>2, <4>3
    <3>2. CASE l \in {id[r]} \X Upserted(r)
      <4>1. l[1] = id[r] /\ l[2] \in Upserted(r)
        BY <3>2
      <4>2. l[2][1] = call[r].user
        BY <1>0, <4>1 DEF Upserted, LockInv, LockOf
      <4> QED
        BY <2>1, <2>2, <2>3, <4>1, <4>2
    <3> QED
      BY <2>1, <2>5, <3>1, <3>2
  <2> QED
    BY <2>4, <2>5 DEF OwnerConsistent
<1>3. ASSUME NEW r \in Req, call[r].op \notin FormOp, pc[r] \in Dated, Visible(r),
             tasks' = [tasks EXCEPT ![id[r]] = Stored(r)],
             UNCHANGED <<links, tags, projects>>
      PROVE  OwnerConsistent'
  <2>1. Stored(r) \in Row /\ Stored(r).user = call[r].user /\ Owned(Stored(r))
    BY <1>0, <1>3, StoredFacts
  <2>2. /\ id[r] \in TaskId /\ tasks[id[r]] # NoRow /\ tasks[id[r]].user = call[r].user
        /\ tasks'[id[r]] = Stored(r) /\ Stored(r) # NoRow
        /\ \A t \in TaskId \ {id[r]} : tasks'[t] = tasks[t]
    BY <1>0, <1>3, <2>1, NullAssumption DEF Visible, TypeOK
  <2>3. \A t \in TaskId : tasks[t] # NoRow => tasks'[t] # NoRow /\ tasks'[t].user = tasks[t].user
    BY <2>1, <2>2
  <2>4. \A t \in TaskId : tasks'[t] # NoRow =>
           \/ tasks'[t].project = NoProject
           \/ tasks'[t].project \in projects' /\ tasks'[t].project[1] = tasks'[t].user
    BY <1>0, <1>3, <2>1, <2>2 DEF OwnerConsistent, Owned
  <2>5. \A l \in links' : l \in links /\ l[1] \in TaskId
    BY <1>0, <1>3 DEF TypeOK
  <2> QED
    BY <1>0, <1>3, <2>3, <2>4, <2>5 DEF OwnerConsistent
<1>4. ASSUME NEW r \in Req, DeleteTask(r), Visible(r) PROVE OwnerConsistent'
  <2>1. /\ \A t \in TaskId \ {id[r]} : tasks'[t] = tasks[t]
        /\ tasks'[id[r]] = NoRow /\ links' = links \ LinksOf(id[r])
        /\ UNCHANGED <<tags, projects>>
    BY <1>0, <1>4 DEF DeleteTask, Visible, TypeOK
  <2>2. \A l \in links' : l \in links /\ l[1] \in TaskId /\ l[1] # id[r]
    BY <1>0, <2>1 DEF LinksOf, TypeOK
  <2> QED
    BY <1>0, <2>1, <2>2 DEF OwnerConsistent
<1> QED
  BY <1>0, <1>1, <1>2, <1>3, <1>4, WriteSteps

\* Every step keeps the dates of the stored rows in order, although they were
\* taken before the write waited for its locks.
THEOREM TimeStep ==
    IInv /\ [Next]_vars => TimestampsOrdered'
<1> SUFFICES ASSUME IInv, [Next]_vars, NEW t \in TaskId, tasks'[t] # NoRow
             PROVE  Ordered(tasks'[t]) /\ tasks'[t].updated <= clock'
  BY DEF TimestampsOrdered, Ordered, IsArchived
<1>0. TypeOK /\ PhaseInv /\ IdInv /\ LockInv /\ ReadInv /\ TimestampsOrdered
  BY DEF IInv
<1>1. clock \in Nat /\ clock' \in Nat /\ clock <= clock'
  BY <1>0, Growing DEF TypeOK, Time
<1>2. CASE tasks'[t] = tasks[t]
  <2>1. tasks[t].updated \in Nat /\ tasks[t].updated <= clock /\ Ordered(tasks[t])
    BY <1>0, <1>2 DEF TypeOK, Row, Time, TimestampsOrdered, Ordered
  <2> QED
    BY <1>1, <1>2, <2>1
<1>3. ASSUME NEW r \in Req, tasks'[t] = Stored(r), pc[r] \in Dated,
             call[r].op = "create" \/ Visible(r)
      PROVE  Ordered(tasks'[t]) /\ tasks'[t].updated <= clock'
  <2>1. Stored(r) \in Row /\ Ordered(Stored(r)) /\ Stored(r).updated <= clock
    BY <1>0, <1>3, StoredFacts
  <2>2. Stored(r).updated \in Nat
    BY <2>1 DEF Row, Time
  <2> QED
    BY <1>1, <1>3, <2>1, <2>2
<1>4. ASSUME NEW r \in Req, Commit(r) PROVE tasks'[t] = tasks[t] \/ tasks'[t] = Stored(r)
  BY <1>0, <1>4 DEF Commit, TypeOK
<1>5. ASSUME NEW r \in Req, DeleteTask(r), Visible(r) PROVE tasks'[t] = tasks[t]
  BY <1>0, <1>5 DEF DeleteTask, TypeOK
<1> QED
  BY <1>0, <1>2, <1>3, <1>4, <1>5, WriteSteps, CommitFacts DEF TypeOK

------------------------------------------------------------------------------
(* The theorems *)

\* The saved rows satisfy the inductive invariant.
LEMMA InitInv == Init => IInv
<1> SUFFICES ASSUME Init PROVE IInv
  OBVIOUS
<1>1. TypeOK
  BY InitType
<1>2. PhaseInv
  BY DEF Init, PhaseInv, Dated, Holding
<1>3. LockInv
  BY DEF Init, LockInv, LockOf, Holding
<1>4. /\ Len(Saved) \in Nat /\ Len(Saved) <= MaxTask
      /\ \A t \in 1 .. Len(Saved) :
            /\ Saved[t] \in Row /\ Saved[t].created = 1 /\ Saved[t].updated = 1
            /\ Saved[t].archived \in {NoTime, 1}
            /\ Saved[t].project # NoProject => Saved[t].project[1] = Saved[t].user
  BY SavedAssumption
<1>5. \A t \in TaskId : tasks[t] # NoRow => t \in 1 .. Len(Saved) /\ tasks[t] = Saved[t]
  BY <1>4, BoundAssumption DEF Init, TaskId
<1>6. IdInv
  BY <1>4, <1>5 DEF Init, IdInv
<1>7. ReadInv
  BY DEF Init, ReadInv, ReadOf, NoTime
<1>8. OwnerConsistent
  BY <1>4, <1>5 DEF Init, OwnerConsistent
<1>9. TimestampsOrdered
  BY <1>4, <1>5 DEF Init, TimestampsOrdered, IsArchived, NoTime
<1> QED
  BY <1>1, <1>2, <1>3, <1>6, <1>7, <1>8, <1>9 DEF IInv

\* IInv is inductive: any step of any operation keeps all of its parts.
THEOREM Inductive == IInv /\ [Next]_vars => IInv'
<1> SUFFICES ASSUME IInv, [Next]_vars PROVE IInv'
  OBVIOUS
<1>1. TypeOK' /\ PhaseInv' /\ IdInv' /\ LockInv'
  BY TypeStep, PhaseStep, IdStep, LockStep DEF IInv
<1>2. ReadInv' /\ OwnerConsistent' /\ TimestampsOrdered'
  BY ReadStep, OwnerStep, TimeStep
<1> QED
  BY <1>1, <1>2 DEF IInv

\* Every behaviour of the service satisfies the inductive invariant throughout.
LEMMA Invariance == Spec => []IInv
BY InitInv, Inductive, PTL DEF Spec

\* The service is well typed, whatever the calls.
THEOREM TypeCorrect == Spec => []TypeOK
<1>1. IInv => TypeOK
  BY DEF IInv
<1> QED
  BY <1>1, Invariance, PTL

\* Tasks, projects, tags and links never cross from one user to another.
THEOREM OwnersStayApart == Spec => []OwnerConsistent
<1>1. IInv => OwnerConsistent
  BY DEF IInv
<1> QED
  BY <1>1, Invariance, PTL

\* No interleaving, stale copy or lock wait dates a task out of order.
THEOREM DatesStayOrdered == Spec => []TimestampsOrdered
<1>1. IInv => TimestampsOrdered
  BY DEF IInv
<1> QED
  BY <1>1, Invariance, PTL

\* A request waits only for requests of its own user.
LEMMA WaitsWithin == IInv => WaitsStayWithinUser
<1> SUFFICES ASSUME IInv, NEW r \in Req, NEW s \in Req, WaitsFor(r, s)
             PROVE  call[r].user = call[s].user
  BY DEF WaitsStayWithinUser
<1>0. TypeOK /\ PhaseInv /\ IdInv /\ LockInv /\ ReadInv
  BY DEF IInv
<1>1. PICK k \in Wanted(r) : k \in locks[s]
  BY DEF WaitsFor
<1>2. ASSUME NEW p \in ProjectRow, p[1] = call[r].user, k = ProjectLock(p)
      PROVE  call[r].user = call[s].user
  BY <1>0, <1>1, <1>2 DEF LockInv, LockOf
<1>3. ASSUME NEW n \in TagRow, n[1] = call[r].user, k = TagLock(n)
      PROVE  call[r].user = call[s].user
  BY <1>0, <1>1, <1>3 DEF LockInv, LockOf
<1>4. ASSUME Visible(r), k = TaskLock(id[r])
      PROVE  call[r].user = call[s].user
  <2>1. id[r] \in TaskId /\ tasks[id[r]] # NoRow /\ tasks[id[r]].user = call[r].user
    BY <1>4 DEF Visible
  <2>2. id[s] = id[r] /\ pc[s] \in Holding
    BY <1>0, <1>1, <1>4, <2>1 DEF LockInv, LockOf
  <2>3. call[s].op # "create"
    BY <1>0, <2>1, <2>2 DEF IdInv, PhaseInv, Holding
  <2> QED
    BY <1>0, <2>1, <2>2, <2>3 DEF LockInv, LockOf, Visible
<1>5. CASE pc[r] = "project" /\ ProjectOf(r) # NoProject
  <2>1. k = ProjectLock(ProjectOf(r))
    BY <1>1, <1>5 DEF Wanted
  <2> QED
    BY <1>0, <1>2, <1>5, <2>1, ProjectOfType
<1>6. CASE pc[r] = "row" /\ call[r].op = "update" /\ Visible(r)
  <2>1. k = TaskLock(id[r])
    BY <1>1, <1>6 DEF Wanted
  <2> QED
    BY <1>4, <1>6, <2>1
<1>7. CASE pc[r] = "link" /\ todo[r] # <<>>
  <2>1. k = TagLock(<<call[r].user, Head(todo[r])>>)
    BY <1>1, <1>7 DEF Wanted
  <2>2. Head(todo[r]) \in Tag
    BY <1>0, <1>7 DEF TypeOK
  <2> QED
    BY <1>0, <1>3, <2>1, <2>2, CallType DEF TagRow
<1>8. CASE pc[r] = "fk"
  <2>1. k = ProjectLock(Draft(r).project)
    BY <1>1, <1>8 DEF Wanted
  <2>2. Draft(r).project \in ProjectRow
    <3>1. <<"project", Draft(r).project>> \in Lock
      BY <1>0, <1>1, <2>1 DEF TypeOK, ProjectLock
    <3> QED
      BY <3>1 DEF Lock
  <2>3. /\ call[r].op \in {"set_status", "archive", "unarchive"}
        /\ existing[r] # NoRow
    BY <1>0, <1>8 DEF PhaseInv, Dated, Holding
  <2>4. existing[r] \in Row /\ Owned(existing[r]) /\ existing[r].user = call[r].user
    BY <1>0, <2>3 DEF ReadInv, ReadOf, TypeOK
  <2>5. Draft(r).project = existing[r].project
    <3>1. CASE call[r].op = "set_status"
      <4>1. Draft(r) = StatusRow(r)
        BY <3>1 DEF Draft, FormOp
      <4> QED
        BY <2>4, <4>1 DEF StatusRow, Row
    <3>2. CASE call[r].op = "archive"
      <4>1. Draft(r) = ArchivedRow(r)
        BY <3>2 DEF Draft, FormOp
      <4> QED
        BY <2>4, <4>1 DEF ArchivedRow, Row
    <3>3. CASE call[r].op = "unarchive"
      <4>1. Draft(r) = UnarchivedRow(r)
        BY <3>3 DEF Draft, FormOp
      <4> QED
        BY <2>4, <4>1 DEF UnarchivedRow, Row
    <3> QED
      BY <2>3, <3>1, <3>2, <3>3
  <2>6. Draft(r).project[1] = call[r].user
    BY <2>2, <2>4, <2>5, NullAssumption DEF Owned
  <2> QED
    BY <1>2, <2>1, <2>2, <2>6
<1>9. CASE pc[r] \in {"write", "delete"} /\ Visible(r)
  <2>1. k = TaskLock(id[r])
    BY <1>1, <1>9 DEF Wanted
  <2> QED
    BY <1>4, <1>9, <2>1
<1> QED
  BY <1>1, <1>5, <1>6, <1>7, <1>8, <1>9 DEF Wanted

\* No request waits for a lock held by another user's request.
THEOREM UsersNeverWaitForEachOther == Spec => []WaitsStayWithinUser
BY WaitsWithin, Invariance, PTL

\* What GoneStaysGone says of one step.
StaysGone ==
    \A t \in TaskId : t < nextId /\ tasks[t] = NoRow /\ ~ Inserting(t) => tasks'[t] = NoRow

\* No step of any operation brings a row back, or stores one under a refused id.
LEMMA GoneStep == IInv /\ [Next]_vars => [StaysGone]_vars
<1> SUFFICES ASSUME IInv, [Next]_vars, NEW t \in TaskId,
                    tasks[t] = NoRow, ~ Inserting(t), tasks'[t] # NoRow
             PROVE  FALSE
  BY DEF StaysGone
<1> QED
  BY RowsKept DEF IInv

\* A deleted task never comes back, and a refused id is never used.
THEOREM DeletedStaysDeleted == Spec => GoneStaysGone
BY GoneStep, Invariance, PTL DEF Spec, GoneStaysGone, StaysGone
==============================================================================
