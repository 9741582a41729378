---------------------------- MODULE TaskServerProofs ----------------------------
(***************************************************************************)
(* What TaskService guarantees holds through the end of its process too,   *)
(* wherever a shutdown or a crash strikes.  With one tab per user the      *)
(* service, in a process that may end at any moment, implements TaskBoard: *)
(* every operation is one step on the task as it is at that step.          *)
(***************************************************************************)
EXTENDS TaskServer, TaskEffectsProofs

ServerInv == EInv /\ ServerTypeOK

------------------------------------------------------------------------------
(* A step of the server is a step of the service, or cuts a request off *)

\* Most steps are main's own or a step of TaskService; only Cut ends requests
\* at places where none of the service's actions does.
LEMMA ServerSteps ==
    [ServerNext]_serverVars => [Next]_vars \/ \E r \in Req : Cut(r)
<1> SUFFICES ASSUME [ServerNext]_serverVars, ~ \E r \in Req : Cut(r)
             PROVE  [Next]_vars
  OBVIOUS
<1>1. CASE UNCHANGED vars
  BY <1>1
<1>2. ASSUME NEW r \in Req, Acting(r) PROVE Next
  BY <1>2 DEF Acting, Next
<1>3. ASSUME NEW r \in Req, Arrive(r) \/ Proceed(r) \/ ServeFail(r) \/ Detect(r) PROVE Acting(r)
  BY <1>3 DEF Arrive, Proceed, ServeFail, Detect, Acting, Step
<1>4. ASSUME NEW r \in Req, PoolClosed(r) PROVE Acting(r)
  <2>1. Fail(r)
    BY <1>4 DEF PoolClosed, Fail, dbVars
  <2> QED
    BY <2>1 DEF Acting
<1>5. ASSUME NEW r \in Req, Orphan(r) PROVE Acting(r)
  BY <1>5 DEF Orphan, Acting, Step
<1>6. CASE Pass
  BY <1>6 DEF Pass, Next
<1> QED
  BY <1>1, <1>2, <1>3, <1>4, <1>5, <1>6
  DEF ServerNext, serverVars, Boot, Shutdown, Exit, Crash, End, Ended

\* What the end of a request's call changes, wherever it strikes.
LEMMA CutFacts ==
    ASSUME NEW r \in Req, Cut(r)
    PROVE  /\ Finish(r, "error") /\ InFlight(r)
           /\ UNCHANGED <<tasks, links, tags, projects, nextId, clock, call, id>>
           /\ UNCHANGED <<server, connected>> /\ server = "exited"
BY DEF Cut, Finish, dbVars

\* A request that is cut off takes nothing with it: what the others hold, have
\* read and have still to write stays as it was.
LEMMA CutKeeps ==
    ASSUME EInv, NEW r \in Req, Cut(r)
    PROVE  EInv'
<1>0. TypeOK /\ PhaseInv /\ IdInv /\ LockInv /\ ReadInv /\ OwnerConsistent
      /\ TimestampsOrdered /\ TagInv
  BY DEF EInv, IInv
<1>1. /\ Finish(r, "error") /\ "error" \in Reply
      /\ UNCHANGED <<tasks, links, tags, projects, nextId, clock, call, id>>
  BY CutFacts DEF Reply
<1>2. /\ \A s \in Req \ {r} :
           /\ pc'[s] = pc[s] /\ existing'[s] = existing[s] /\ now'[s] = now[s]
           /\ unlinked'[s] = unlinked[s] /\ todo'[s] = todo[s] /\ locks'[s] = locks[s]
      /\ pc'[r] = "error" /\ existing'[r] = NoRow /\ now'[r] = NoTime /\ locks'[r] = {}
  BY <1>0, <1>1 DEF Finish, Goto, TypeOK
<1>3. TypeOK'
  BY <1>0, <1>1, FinishType DEF TypeOK
<1>4. PhaseInv' /\ LockInv'
  BY <1>0, <1>1, FinishPhase, FinishLockOnly
<1>5. \A s \in Req : pc'[s] \in {"unlink", "link"} => pc[s] \in {"unlink", "link"}
  BY <1>2
<1>6. IdInv'
  BY <1>0, <1>1, <1>5, IdKept
<1>7. ASSUME NEW s \in Req PROVE ReadOf(s)'
  <2>1. \A t : Inserting(t)' => Inserting(t)
    BY <1>1, <1>5 DEF Inserting
  <2>2. CASE s = r
    BY <1>0, <1>1, <1>2, <2>2 DEF ReadOf, TypeOK, Time, NoTime
  <2>3. CASE s # r
    BY <1>0, <1>1, <1>2, <2>1, <2>3 DEF ReadInv, ReadOf, Owned, Ordered, IsArchived
  <2> QED
    BY <2>2, <2>3
<1>8. OwnerConsistent' /\ TimestampsOrdered'
  BY <1>0, <1>1 DEF OwnerConsistent, TimestampsOrdered, IsArchived
<1>9. ASSUME NEW s \in Req PROVE LinkingOf(s)'
  <2>1. CASE s = r
    BY <1>0, <1>1, <2>1, FinishTags
  <2>2. CASE s # r
    BY <1>0, <1>1, <1>2, <2>2 DEF TagInv, LinkingOf, Upserted, OfUser, LinksOf
  <2> QED
    BY <2>1, <2>2
<1> QED
  BY <1>3, <1>4, <1>6, <1>7, <1>8, <1>9 DEF EInv, IInv, ReadInv, TagInv

------------------------------------------------------------------------------
(* The process *)

\* Only ResolveProject opens a transaction.
LEMMA Opening ==
    ASSUME TypeOK, NEW r \in Req, NEW s \in Req, Acting(r), InTransaction(s)'
    PROVE  InTransaction(s) \/ (s = r /\ ResolveProject(r))
<1> DEFINE Goal == InTransaction(s) \/ (s = r /\ ResolveProject(r))
<1>1. CASE s # r
  BY <1>1, OthersKept DEF InTransaction
<1> SUFFICES ASSUME s = r PROVE Goal
  BY <1>1
<1>2. \A step : Goto(r, step) => pc'[r] = step
  BY DEF Goto, TypeOK
<1>3. \A step \in {"reread"} \cup Reply : ~ Finish(r, step)
  BY <1>2 DEF Finish, Reply, InTransaction
<1>4. CASE Begin(r) \/ Get(r) \/ Stamp(r)
  BY <1>2, <1>3, <1>4 DEF Begin, Get, Stamp, InTransaction, Reply
<1>5. CASE ResolveProject(r) \/ InsertRow(r) \/ UpdateRow(r) \/ ClearTags(r) \/ LinkTag(r)
  BY <1>5 DEF InsertRow, UpdateRow, ClearTags, LinkTag, InTransaction
<1>6. CASE Commit(r) \/ Reread(r) \/ CheckFk(r) \/ DeleteTask(r) \/ Fail(r) \/ DeadlockAbort(r)
  BY <1>3, <1>6 DEF Commit, Reread, CheckFk, DeleteTask, Fail, DeadlockAbort, Reply
<1>7. CASE WriteRow(r)
  BY <1>2, <1>3, <1>7 DEF WriteRow, InTransaction, Reply
<1> QED
  BY <1>4, <1>5, <1>6, <1>7 DEF Acting, Step

\* A request that is not being served waits for nobody.
LEMMA NewIsNotDeadlocked ==
    ASSUME NEW r \in Req, pc[r] = "new"
    PROVE  ~ Deadlocked(r)
<1>1. Wanted(r) = {}
  BY DEF Wanted
<1> QED
  BY <1>1 DEF Deadlocked, WaitsFor

\* Every step of the server keeps ServerTypeOK: no request opens a transaction
\* once the pool is closed, and none is served before it is open.
LEMMA ServerStep ==
    ASSUME EInv, ServerTypeOK, [ServerNext]_serverVars, TypeOK'
    PROVE  ServerTypeOK'
<1>0. TypeOK
  BY DEF EInv, IInv
<1> DEFINE Kept == UNCHANGED <<server, connected>> /\ server # "starting"
<1>1. ASSUME Kept, \A s \in Req : InTransaction(s)' => InTransaction(s)
      PROVE  ServerTypeOK'
  BY <1>1 DEF ServerTypeOK
<1>2. ASSUME NEW r \in Req, Kept, Acting(r), server = "closed" => ~ ResolveProject(r) \/ r \in connected
      PROVE  ServerTypeOK'
  <2>1. \A s \in Req : InTransaction(s)' => InTransaction(s) \/ (s = r /\ ResolveProject(r))
    BY <1>0, <1>2, Opening
  <2> QED
    BY <1>2, <2>1 DEF ServerTypeOK
<1>3. CASE Boot
  BY <1>0, <1>3 DEF Boot, ServerTypeOK, Phase, vars, InTransaction
<1>4. CASE Shutdown
  <2>1. PICK asked \in SUBSET Waiting({"project", "write", "delete"}) :
           connected' = asked \cup {r \in Req : InTransaction(r) \/ pc[r] = "fk"}
    BY <1>4 DEF Shutdown
  <2>2. server' = "closed" /\ UNCHANGED vars
    BY <1>4 DEF Shutdown
  <2> QED
    BY <2>1, <2>2 DEF Waiting, ServerTypeOK, Phase, vars, InTransaction
<1>5. CASE Exit \/ Crash
  <2>1. PICK asked \in SUBSET Waiting({"write", "delete", "fk"}) : connected' = asked
    BY <1>5 DEF Exit, Crash, End
  <2>2. server' = "exited"
    BY <1>5 DEF Exit, Crash, End
  <2> QED
    BY <2>1, <2>2 DEF Waiting, ServerTypeOK, Phase
<1>6. ASSUME NEW r \in Req, Arrive(r) PROVE ServerTypeOK'
  BY <1>2, <1>6 DEF Arrive, Alive, Begin, ResolveProject, Acting
<1>7. ASSUME NEW r \in Req, Proceed(r) PROVE ServerTypeOK'
  <2>1. Acting(r) /\ Kept
    BY <1>7 DEF Proceed, HasConnection, Alive, Acting, Step
  <2>2. server = "closed" => ~ ResolveProject(r) \/ r \in connected
    BY <1>7 DEF Proceed, HasConnection, Stamp, ResolveProject
  <2> QED
    BY <1>2, <2>1, <2>2
<1>8. ASSUME NEW r \in Req, PoolClosed(r) \/ ServeFail(r) PROVE ServerTypeOK'
  <2>1. Fail(r) /\ Kept
    BY <1>8 DEF PoolClosed, ServeFail, Alive, Fail, dbVars
  <2>2. pc'[r] = "error"
    BY <1>0, <2>1 DEF Fail, Finish, Goto, TypeOK
  <2>3. ~ ResolveProject(r)
    BY <1>0, <2>2 DEF ResolveProject, Goto, TypeOK
  <2> QED
    BY <1>2, <2>1, <2>3 DEF Acting
<1>9. ASSUME NEW r \in Req, Orphan(r) PROVE ServerTypeOK'
  BY <1>2, <1>9 DEF Orphan, Acting, Step
<1>10. ASSUME NEW r \in Req, Cut(r) PROVE ServerTypeOK'
  <2>1. \A s \in Req : InTransaction(s)' => InTransaction(s)
    BY <1>0, <1>10, CutFacts DEF Finish, Goto, TypeOK, InTransaction
  <2> QED
    BY <1>1, <1>10, <2>1 DEF Cut
<1>11. ASSUME NEW r \in Req, Detect(r) PROVE ServerTypeOK'
  <2>1. server # "starting"
    BY <1>11, NewIsNotDeadlocked DEF Detect, DeadlockAbort, ServerTypeOK
  <2>2. pc'[r] = "error"
    BY <1>0, <1>11 DEF Detect, DeadlockAbort, Finish, Goto, TypeOK
  <2>3. ~ ResolveProject(r)
    BY <1>0, <2>2 DEF ResolveProject, Goto, TypeOK
  <2> QED
    BY <1>2, <1>11, <2>1, <2>3 DEF Detect, Acting
<1>12. CASE Pass
  BY <1>12 DEF Pass, Tick, reqVars, ServerTypeOK, InTransaction
<1>13. CASE Ended \/ UNCHANGED serverVars
  BY <1>13 DEF Ended, serverVars, vars, ServerTypeOK, InTransaction
<1> QED
  BY <1>3, <1>4, <1>5, <1>6, <1>7, <1>8, <1>9, <1>10, <1>11, <1>12, <1>13 DEF ServerNext

------------------------------------------------------------------------------
(* The theorems *)

\* ServerInv is inductive: no step of main, of a request or of its end breaks it.
THEOREM ServerInductive == ServerInv /\ [ServerNext]_serverVars => ServerInv'
<1> SUFFICES ASSUME ServerInv, [ServerNext]_serverVars PROVE ServerInv'
  OBVIOUS
<1>1. EInv'
  BY ServerSteps, CutKeeps, Inductive, TagStep DEF ServerInv, EInv
<1>2. ServerTypeOK'
  BY <1>1, ServerStep DEF ServerInv, EInv, IInv
<1> QED
  BY <1>1, <1>2 DEF ServerInv

\* ServerInv holds throughout every life of the process.
LEMMA ServerInvariance == ServerSpec => []ServerInv
<1>1. ServerInit => ServerInv
  <2> SUFFICES ASSUME ServerInit PROVE ServerInv
    OBVIOUS
  <2>1. EInv
    <3>1. TagInv
      BY DEF ServerInit, Init, TagInv, LinkingOf, Upserted
    <3> QED
      BY <3>1, InitInv DEF EInv, ServerInit
  <2>2. ServerTypeOK
    BY <2>1 DEF ServerInit, Init, EInv, IInv, ServerTypeOK, Phase
  <2> QED
    BY <2>1, <2>2 DEF ServerInv
<1> QED
  BY <1>1, ServerInductive, PTL DEF ServerSpec

\* Once the pool is closed every open transaction is on a connection that was
\* in use before, whatever is accepted, served or refused meanwhile.
THEOREM ServerTypeCorrect == ServerSpec => []ServerTypeOK
<1>1. ServerInv => ServerTypeOK
  BY DEF ServerInv
<1> QED
  BY <1>1, ServerInvariance, PTL

\* Wherever the process ends, tasks, projects and tags stay within their user,
\* dates in order, and waiting within a user.
THEOREM SafeThroughTheEnd ==
    ServerSpec => [](OwnerConsistent /\ TimestampsOrdered /\ WaitsStayWithinUser)
<1>1. ServerInv => OwnerConsistent /\ TimestampsOrdered /\ WaitsStayWithinUser
  BY WaitsWithin DEF ServerInv, EInv, IInv
<1> QED
  BY <1>1, ServerInvariance, PTL

\* What a request that is cut off had not committed changes nothing: neither a
\* deleted task, nor a mixture of tags, nor a name on its own, nor another
\* user's task comes out of a crash or a shutdown.
THEOREM EffectsThroughTheEnd ==
    ServerSpec => GoneStaysGone /\ TagsFromOneWrite /\ OtherUsersUntouched /\ NamesComeWithTask
<1>1. ASSUME EInv, NEW r \in Req, Cut(r)
      PROVE  StaysGone /\ OneWrite /\ Untouched /\ Together
  BY <1>1, CutFacts DEF StaysGone, OneWrite, Untouched, Together, LinksOf
<1>2. ServerInv /\ [ServerNext]_serverVars
         => [StaysGone]_vars /\ [OneWrite]_vars /\ [Untouched]_vars /\ [Together]_vars
  BY <1>1, ServerSteps, GoneStep, OneWriteStep, OwnerOnlyStep, TogetherStep DEF ServerInv, EInv
<1> QED
  BY <1>2, ServerInvariance, PTL
  DEF ServerSpec, GoneStaysGone, TagsFromOneWrite, OtherUsersUntouched, NamesComeWithTask,
      StaysGone, OneWrite, Untouched, ByOwner, Together

------------------------------------------------------------------------------
(* Users with one tab *)

\* Two requests that are being served are of two users.
Alone == \A r, s \in Req : r # s /\ InFlight(r) /\ InFlight(s) => call[r].user # call[s].user

\* The copy a request is to write from is still the row it was read from, and
\* the write has something to do.
CurrentCopy(r) ==
    /\ pc[r] \in {"stamp"} \cup Dated /\ call[r].op # "create" => tasks[id[r]] = existing[r]
    /\ pc[r] \in Dated => ~ NothingToDo(r)

TabInv == Alone /\ \A r \in Req : CurrentCopy(r)

BInv == ServerInv /\ TabInv

------------------------------------------------------------------------------
(* TabInv is inductive when a user has one tab *)

\* A row whose project its user has is read as it is stored.
LEMMA ScanIsRow ==
    ASSUME TypeOK, OwnerConsistent, NEW t \in TaskId, tasks[t] # NoRow
    PROVE  Scan(tasks[t]) = tasks[t]
<1>1. tasks[t] \in Row
  BY DEF TypeOK
<1>2. CASE tasks[t].project = NoProject
  <2>1. [tasks[t] EXCEPT !.project = NoProject] = tasks[t]
    BY <1>1, <1>2 DEF Row
  <2> QED
    BY <2>1 DEF Scan
<1>3. CASE tasks[t].project # NoProject
  BY <1>3 DEF OwnerConsistent, Scan
<1> QED
  BY <1>2, <1>3

\* A step of a request is one of a request that is being served, or begins it.
LEMMA ActingInFlight ==
    ASSUME NEW r \in Req, Acting(r)
    PROVE  InFlight(r) \/ Begin(r)
<1>1. ASSUME DeadlockAbort(r) PROVE InFlight(r)
  <2>1. Wanted(r) # {}
    BY <1>1 DEF DeadlockAbort, Deadlocked, WaitsFor
  <2> QED
    BY <2>1 DEF Wanted, InFlight, Reply
<1>2. ASSUME Step(r) PROVE InFlight(r)
  BY <1>2 DEF Step, Get, Stamp, ResolveProject, InsertRow, UpdateRow, ClearTags, LinkTag,
     Commit, Reread, WriteRow, CheckFk, DeleteTask, InFlight, Reply
<1>3. ASSUME Fail(r) PROVE InFlight(r)
  BY <1>3 DEF Fail, Statement, InFlight, Reply
<1> QED
  BY <1>1, <1>2, <1>3 DEF Acting

\* A request that begins changes no table.
LEMMA BeginFrame ==
    ASSUME NEW r \in Req, Begin(r)
    PROVE  UNCHANGED <<tasks, links, tags, projects, nextId, clock, id>>
BY DEF Begin, Finish, dbVars

\* A request does not touch the rows of other users.
LEMMA OthersRowsStay ==
    ASSUME EInv, NEW r \in Req, Acting(r), NEW t \in TaskId, tasks[t] # NoRow,
           tasks[t].user # call[r].user
    PROVE  tasks'[t] = tasks[t]
<1> SUFFICES ASSUME tasks'[t] # tasks[t] PROVE FALSE
  OBVIOUS
<1>0. TypeOK /\ [Next]_vars /\ ~ UNCHANGED vars
  BY DEF EInv, IInv, Acting, Next, vars
<1>1. PICK s \in Req : ByOwner(t, s)
  BY <1>0, OwnerOnlyStep DEF Untouched
<1>2. s = r
  BY <1>0, <1>1, OthersKept DEF ByOwner, Acts
<1> QED
  BY <1>1, <1>2 DEF ByOwner

\* One user's requests follow one another.
LEMMA AloneStep ==
    ASSUME OneTab, EInv, Alone, NEW r \in Req, Acting(r)
    PROVE  Alone'
<1>0. TypeOK /\ call' = call
  BY CallStable DEF EInv, IInv, Acting, Next
<1>1. \A s \in Req \ {r} : InFlight(s)' => InFlight(s)
  BY <1>0, OthersKept DEF InFlight
<1>2. CASE InFlight(r)
  BY <1>0, <1>1, <1>2 DEF Alone
<1>3. CASE Begin(r)
  <2>1. \A s \in Req : call[s].user = call[r].user => ~ InFlight(s)
    BY <1>3 DEF Begin
  <2> QED
    BY <1>0, <1>1, <2>1 DEF Alone
<1> QED
  BY <1>2, <1>3, ActingInFlight

\* A request's own step leaves it with a copy that is the row.
LEMMA OwnCopy ==
    ASSUME EInv, NEW r \in Req, CurrentCopy(r), Acting(r)
    PROVE  CurrentCopy(r)'
<1>0. TypeOK /\ PhaseInv /\ OwnerConsistent /\ call' = call
  BY CallStable DEF EInv, IInv, Acting, Next
<1> USE DEF dbVars
<1>1. \A step : Goto(r, step) => pc'[r] = step
  BY <1>0 DEF Goto, TypeOK
<1>2. ASSUME pc'[r] \notin {"stamp"} \cup Dated PROVE CurrentCopy(r)'
  BY <1>2 DEF CurrentCopy
<1>3. ASSUME NEW reply \in {"reread"} \cup Reply, Finish(r, reply) PROVE CurrentCopy(r)'
  BY <1>1, <1>2, <1>3 DEF Finish, Reply, Dated, Holding
<1>4. ASSUME UNCHANGED <<existing, tasks, id>>, pc[r] \in Dated
      PROVE  CurrentCopy(r)'
  BY <1>0, <1>4 DEF CurrentCopy, NothingToDo, IsArchived
<1>5. CASE Begin(r)
  <2>1. CASE Finish(r, "invalid")
    BY <1>3, <2>1 DEF Reply
  <2>2. CASE ~ Finish(r, "invalid") /\ call[r].op = "create"
    BY <1>0, <1>1, <1>5, <2>2 DEF Begin, CurrentCopy, Dated, Holding
  <2>3. CASE ~ Finish(r, "invalid") /\ call[r].op # "create"
    BY <1>1, <1>2, <1>5, <2>3 DEF Begin, Dated, Holding
  <2> QED
    BY <2>1, <2>2, <2>3
<1>6. CASE Get(r)
  <2>1. CASE Visible(r)
    <3>1. /\ existing'[r] = Scan(tasks[id[r]]) /\ pc'[r] = "stamp" /\ id' = id /\ tasks' = tasks
      BY <1>0, <1>1, <1>6, <2>1 DEF Get, TypeOK
    <3>2. Scan(tasks[id[r]]) = tasks[id[r]]
      BY <1>0, <2>1, ScanIsRow DEF Visible
    <3> QED
      BY <3>1, <3>2 DEF CurrentCopy, Dated, Holding
  <2>2. CASE ~ Visible(r)
    BY <1>3, <1>6, <2>2 DEF Get, Reply
  <2> QED
    BY <2>1, <2>2
<1>7. CASE Stamp(r)
  <2>1. CASE NothingToDo(r)
    BY <1>3, <1>7, <2>1 DEF Stamp, Reply
  <2>2. CASE ~ NothingToDo(r)
    <3>1. UNCHANGED <<existing, tasks, id>> /\ pc[r] = "stamp"
      BY <1>7, <2>2 DEF Stamp
    <3> QED
      BY <1>0, <2>2, <3>1 DEF CurrentCopy, NothingToDo, IsArchived
  <2> QED
    BY <2>1, <2>2
<1>8. CASE ResolveProject(r) \/ ClearTags(r) \/ LinkTag(r)
  BY <1>4, <1>8 DEF ResolveProject, ClearTags, LinkTag, Dated, Holding
<1>9. CASE InsertRow(r)
  BY <1>0, <1>9 DEF InsertRow, CurrentCopy, NothingToDo
<1>10. CASE UpdateRow(r)
  <2>1. CASE Visible(r)
    BY <1>4, <1>10, <2>1 DEF UpdateRow, Dated
  <2>2. CASE ~ Visible(r)
    BY <1>3, <1>10, <2>2 DEF UpdateRow, Reply
  <2> QED
    BY <2>1, <2>2
<1>11. CASE \/ Commit(r) \/ Reread(r) \/ CheckFk(r) \/ DeleteTask(r)
            \/ Fail(r) \/ DeadlockAbort(r)
  BY <1>3, <1>11 DEF Commit, Reread, CheckFk, DeleteTask, Fail, DeadlockAbort, Reply
<1>12. CASE WriteRow(r)
  <2>1. CASE \E reply \in Reply : Finish(r, reply)
    BY <1>3, <2>1
  <2>2. CASE UNCHANGED <<existing, tasks, id>>
    BY <1>4, <1>12, <2>2 DEF WriteRow, Dated
  <2> QED
    BY <1>12, <2>1, <2>2 DEF WriteRow, Reply
<1> QED
  BY <1>5, <1>6, <1>7, <1>8, <1>9, <1>10, <1>11, <1>12 DEF Acting, Step

\* A step of one request leaves the copies of the others what they are.
LEMMA OtherCopies ==
    ASSUME EInv, Alone, NEW r \in Req, NEW s \in Req \ {r}, CurrentCopy(s), Acting(r)
    PROVE  CurrentCopy(s)'
<1>0. TypeOK /\ PhaseInv /\ IdInv /\ ReadInv /\ call' = call
  BY CallStable DEF EInv, IInv, Acting, Next
<1>1. pc'[s] = pc[s] /\ id'[s] = id[s] /\ existing'[s] = existing[s]
  BY <1>0, OthersKept
<1>2. ASSUME pc[s] \in {"stamp"} \cup Dated, call[s].op # "create"
      PROVE  tasks'[id[s]] = tasks[id[s]]
  <2>1. existing[s] # NoRow /\ tasks[id[s]] = existing[s] /\ existing[s].user = call[s].user
    BY <1>0, <1>2 DEF PhaseInv, ReadInv, ReadOf, CurrentCopy
  <2>2. id[s] \in TaskId
    <3>1. id[s] = call[s].id /\ call[s].id \in 0 .. MaxTask /\ call[s].id # 0
      BY <1>0, <1>2, CallType DEF IdInv
    <3> QED
      BY <3>1, BoundAssumption DEF TaskId
  <2>3. InFlight(s)
    BY <1>2 DEF InFlight, Reply, Dated, Holding
  <2>4. CASE InFlight(r)
    BY <2>1, <2>2, <2>3, <2>4, OthersRowsStay DEF Alone
  <2>5. CASE Begin(r)
    BY <2>5, BeginFrame
  <2> QED
    BY <2>4, <2>5, ActingInFlight
<1> QED
  BY <1>0, <1>1, <1>2 DEF CurrentCopy, NothingToDo, IsArchived

\* A step of the server changes no request's place, or one request acts.
LEMMA ServerActs ==
    ASSUME [ServerNext]_serverVars
    PROVE  \/ \E r \in Req : Acting(r) \/ Cut(r)
           \/ UNCHANGED <<tasks, links, tags, projects, nextId, reqVars>>
BY ServerSteps DEF Next, Acting, Tick, Quiesced, vars, reqVars, dbVars

\* TabInv is kept by every step when a user has one tab.
LEMMA TabStep ==
    ASSUME OneTab, EInv, TabInv, [ServerNext]_serverVars
    PROVE  TabInv'
<1>0. TypeOK
  BY DEF EInv, IInv
<1>1. ASSUME NEW r \in Req, Acting(r) PROVE TabInv'
  BY <1>1, AloneStep, OwnCopy, OtherCopies DEF TabInv
<1>2. ASSUME NEW r \in Req, Cut(r) PROVE TabInv'
  <2>1. /\ UNCHANGED <<tasks, call, id>> /\ pc'[r] = "error"
        /\ \A s \in Req \ {r} : pc'[s] = pc[s] /\ existing'[s] = existing[s]
    BY <1>0, <1>2, CutFacts DEF Finish, Goto, TypeOK
  <2>2. \A s \in Req : InFlight(s)' => InFlight(s)
    BY <2>1 DEF InFlight, Reply
  <2>3. Alone'
    BY <2>1, <2>2 DEF TabInv, Alone
  <2>4. ASSUME NEW s \in Req PROVE CurrentCopy(s)'
    <3>1. CASE s = r
      BY <2>1, <3>1 DEF CurrentCopy, Dated, Holding
    <3>2. CASE s # r
      BY <2>1, <3>2 DEF TabInv, CurrentCopy, NothingToDo, IsArchived
    <3> QED
      BY <3>1, <3>2
  <2> QED
    BY <2>3, <2>4 DEF TabInv
<1>3. CASE UNCHANGED <<tasks, reqVars>>
  BY <1>3 DEF reqVars, TabInv, Alone, InFlight, CurrentCopy, NothingToDo, IsArchived
<1> QED
  BY <1>1, <1>2, <1>3, ServerActs

\* BInv holds throughout every life of the process when a user has one tab.
LEMMA TabInvariance == ASSUME OneTab PROVE ServerSpec => []BInv
<1>1. ServerInit => TabInv
  BY DEF ServerInit, Init, TabInv, Alone, InFlight, CurrentCopy, Dated, Holding
<1>2. ServerInv /\ TabInv /\ [ServerNext]_serverVars => TabInv'
  BY TabStep DEF ServerInv
<1>3. ServerInv /\ TabInv => BInv
  BY DEF BInv
<1> QED
  BY <1>1, <1>2, <1>3, ServerInvariance, PTL DEF ServerSpec

------------------------------------------------------------------------------
(* What the writes store *)

\* With one tab a form's write replaces what the form shows, dates it, and
\* keeps the rest of the row as it is.
LEMMA FormStored ==
    ASSUME BInv, NEW r \in Req, call[r].op = "update", pc[r] \in Dated, Visible(r)
    PROVE  /\ Stored(r) = [tasks[id[r]] EXCEPT !.body = call[r].body, !.status = call[r].status,
                                               !.project = ProjectOf(r), !.updated = now[r]]
           /\ now[r] \in Time /\ tasks[id[r]].updated <= now[r]
<1>0. TypeOK /\ PhaseInv /\ ReadInv /\ CurrentCopy(r)
  BY DEF BInv, ServerInv, EInv, IInv, TabInv
<1>1. tasks[id[r]] \in Row /\ existing[r] = tasks[id[r]] /\ existing[r] # NoRow
  BY <1>0 DEF CurrentCopy, PhaseInv, Visible, TypeOK
<1>2. now[r] \in Time /\ existing[r].updated <= now[r]
  BY <1>0, <1>1 DEF PhaseInv, ReadInv, ReadOf, TypeOK, NoTime
<1>3. Draft(r) = FormRow(r) /\ Draft(r) \in Row
  BY <1>0, DraftType DEF Draft, FormOp
<1>4. /\ Draft(r).user = tasks[id[r]].user /\ Draft(r).created = tasks[id[r]].created
      /\ Draft(r).archived = tasks[id[r]].archived
      /\ Draft(r).body = call[r].body /\ Draft(r).status = call[r].status
      /\ Draft(r).project = ProjectOf(r) /\ Draft(r).updated = now[r]
  BY <1>1, <1>3 DEF FormRow, Visible
<1>5. Stored(r) = Draft(r)
  <2>1. [Draft(r) EXCEPT !.user = tasks[id[r]].user, !.created = tasks[id[r]].created] = Draft(r)
    BY <1>1, <1>3, <1>4 DEF Row
  <2> QED
    BY <2>1 DEF Stored, Updated
<1>6. [tasks[id[r]] EXCEPT !.body = Draft(r).body, !.status = Draft(r).status,
                           !.project = Draft(r).project, !.updated = Draft(r).updated] = Draft(r)
  BY <1>1, <1>3, <1>4 DEF Row
<1> QED
  BY <1>1, <1>2, <1>4, <1>5, <1>6

\* A create stores what its form says, dated now.
LEMMA CreateStored ==
    ASSUME BInv, NEW r \in Req, call[r].op = "create", pc[r] \in Dated
    PROVE  /\ Stored(r) = [user |-> call[r].user, body |-> call[r].body,
                           status |-> call[r].status, project |-> ProjectOf(r),
                           created |-> now[r], updated |-> now[r], archived |-> NoTime]
           /\ now[r] \in Time
<1>1. TypeOK /\ PhaseInv
  BY DEF BInv, ServerInv, EInv, IInv
<1> QED
  BY <1>1 DEF Stored, Draft, FormRow, FormOp, PhaseInv, TypeOK, NoTime

\* With one tab the other writes change the status or the archiving of the row
\* as it is, and date it.
LEMMA ClickStored ==
    ASSUME BInv, NEW r \in Req, call[r].op \notin FormOp, pc[r] \in Dated, Visible(r)
    PROVE  /\ now[r] \in Time /\ tasks[id[r]].updated <= now[r]
           /\ \/ Stored(r) = [tasks[id[r]] EXCEPT !.status = call[r].status, !.updated = now[r]]
              \/ /\ tasks[id[r]].archived = NoTime
                 /\ Stored(r) = [tasks[id[r]] EXCEPT !.archived = now[r], !.updated = now[r]]
              \/ /\ tasks[id[r]].archived # NoTime
                 /\ Stored(r) = [tasks[id[r]] EXCEPT !.archived = NoTime, !.updated = now[r]]
<1>0. TypeOK /\ PhaseInv /\ ReadInv /\ CurrentCopy(r)
  BY DEF BInv, ServerInv, EInv, IInv, TabInv
<1>1. /\ call[r].op \in {"set_status", "archive", "unarchive"}
      /\ tasks[id[r]] \in Row /\ existing[r] = tasks[id[r]] /\ existing[r] # NoRow
  BY <1>0 DEF CurrentCopy, PhaseInv, Visible, TypeOK, Dated, Holding, FormOp
<1>2. now[r] \in Time /\ existing[r].updated <= now[r]
  BY <1>0, <1>1 DEF PhaseInv, ReadInv, ReadOf, TypeOK, NoTime
<1>3. Stored(r) = Updated(tasks[id[r]], Draft(r))
  BY <1>1 DEF Stored
<1>4. CASE call[r].op = "set_status"
  <2>1. Draft(r) = StatusRow(r)
    BY <1>4 DEF Draft, FormOp
  <2> QED
    BY <1>1, <1>2, <1>3, <2>1 DEF Updated, StatusRow, Row
<1>5. CASE call[r].op = "archive"
  <2>1. Draft(r) = ArchivedRow(r)
    BY <1>5 DEF Draft, FormOp
  <2>2. tasks[id[r]].archived = NoTime
    BY <1>0, <1>1, <1>5 DEF CurrentCopy, NothingToDo, IsArchived
  <2> QED
    BY <1>1, <1>2, <1>3, <2>1, <2>2 DEF Updated, ArchivedRow, Row
<1>6. CASE call[r].op = "unarchive"
  <2>1. Draft(r) = UnarchivedRow(r)
    BY <1>6 DEF Draft, FormOp
  <2>2. tasks[id[r]].archived # NoTime
    BY <1>0, <1>1, <1>6 DEF CurrentCopy, NothingToDo, IsArchived
  <2> QED
    BY <1>1, <1>2, <1>3, <2>1, <2>2 DEF Updated, UnarchivedRow, Row
<1> QED
  BY <1>1, <1>4, <1>5, <1>6

------------------------------------------------------------------------------
(* Forms are stored whole *)

\* What FormsAreStoredWhole says of one step.
StoredBy(t, r) ==
    /\ Acts(r)
    /\ id[r] = t
    /\ call[r].op \in FormOp
    /\ tasks'[t].body = call[r].body /\ tasks'[t].status = call[r].status
    /\ tasks'[t].project = ProjectOf(r)
    /\ LinksOf(t)' = {t} \X ({call[r].user} \X ToSet(call[r].tags))

StoredWhole ==
    \A t \in TaskId :
       tasks'[t] # NoRow /\ (tasks[t] = NoRow \/ tasks'[t].body # tasks[t].body) =>
          \E r \in Req : StoredBy(t, r)

\* A row appears, or gets another body, by the commit of a form.
LEMMA WholeStep ==
    ASSUME BInv, [Next]_vars
    PROVE  StoredWhole
<1> SUFFICES ASSUME NEW t \in TaskId, tasks'[t] # NoRow,
                    tasks[t] = NoRow \/ tasks'[t].body # tasks[t].body
             PROVE  \E r \in Req : StoredBy(t, r)
  BY DEF StoredWhole
<1>0. EInv /\ TypeOK /\ PhaseInv /\ IdInv /\ LockInv
  BY DEF BInv, ServerInv, EInv, IInv
<1>1. CASE tasks' = tasks
  BY <1>1
<1>2. ASSUME NEW r \in Req, Commit(r) PROVE StoredBy(t, r)
  <2>1. /\ pc[r] \in Dated /\ id[r] \in TaskId /\ call[r].op \in FormOp
        /\ call[r].op # "create" => Visible(r)
        /\ tasks' = [tasks EXCEPT ![id[r]] = Stored(r)]
    BY <1>0, <1>2, CommitFacts DEF Commit, PhaseInv
  <2>2. id[r] = t /\ tasks'[t] = Stored(r)
    BY <1>0, <2>1 DEF TypeOK
  <2>3. /\ Stored(r).body = call[r].body /\ Stored(r).status = call[r].status
        /\ Stored(r).project = ProjectOf(r)
    <3>1. CASE call[r].op = "create"
      BY <2>1, <3>1, CreateStored
    <3>2. CASE call[r].op = "update"
      <4>1. tasks[id[r]] \in Row
        BY <1>0, <2>1, <3>2 DEF Visible, TypeOK
      <4> QED
        BY <2>1, <3>2, <4>1, FormStored DEF Row
    <3> QED
      BY <2>1, <3>1, <3>2 DEF FormOp
  <2>4. Acts(r) /\ LinksOf(t)' = {t} \X ({call[r].user} \X ToSet(call[r].tags))
    BY <1>0, <1>2, <2>2, CommitLinks DEF OfUser, LinksOf, Commit, Finish
  <2> QED
    BY <2>1, <2>2, <2>3, <2>4 DEF StoredBy
<1>3. ASSUME NEW r \in Req, call[r].op \notin FormOp, pc[r] \in Dated, Visible(r),
             tasks' = [tasks EXCEPT ![id[r]] = Stored(r)]
      PROVE  FALSE
  <2>1. id[r] = t /\ tasks'[t] = Stored(r) /\ tasks[t] \in Row
    BY <1>0, <1>3 DEF TypeOK, Visible
  <2>2. Stored(r).body = tasks[t].body
    BY <1>3, <2>1, ClickStored DEF Row
  <2> QED
    BY <1>3, <2>1, <2>2 DEF Visible
<1>4. ASSUME NEW r \in Req, DeleteTask(r), Visible(r) PROVE FALSE
  BY <1>0, <1>4, DeleteFacts
<1> QED
  BY <1>0, <1>1, <1>2, <1>3, <1>4, WriteSteps

\* With one tab a task appears, or gets another body, in one step that gives it
\* everything its form says, wherever a statement fails or the process ends.
THEOREM FormsStoredWhole == ASSUME OneTab PROVE ServerSpec => FormsAreStoredWhole
<1>1. BInv /\ [ServerNext]_serverVars => [StoredWhole]_vars
  <2>1. ASSUME NEW r \in Req, Cut(r) PROVE StoredWhole
    BY <2>1, CutFacts DEF StoredWhole
  <2> QED
    BY <2>1, ServerSteps, WholeStep
<1> QED
  BY <1>1, TabInvariance, PTL
  DEF ServerSpec, FormsAreStoredWhole, StoredWhole, StoredBy

------------------------------------------------------------------------------
(* The ids and the tags of the board *)

Inside == {"unlink", "link"}

\* What the INSTANCE of TaskBoard puts for used and for tagsOf.
UsedIds == {t \in TaskId : t < nextId /\ ~ Inserting(t)}
BoardTags == [t \in TaskId |-> TagsOf(t)]

\* A create that is inside its transaction has an id of its own.
LEMMA OwnId ==
    ASSUME PhaseInv, IdInv, LockInv, NEW r \in Req, NEW s \in Req \ {r},
           call[r].op = "create", pc[r] \in Inside, pc[s] \in Inside
    PROVE  id[s] # id[r] /\ id[r] \in TaskId
<1>1. id[r] \in TaskId
  BY DEF IdInv, Inside
<1>2. TaskLock(id[r]) \in locks[r] /\ TaskLock(id[s]) \in locks[s]
  BY DEF LockInv, LockOf, Inside, Holding
<1> QED
  BY <1>1, <1>2 DEF LockInv

\* A request that leaves its transaction, or stays where it is, gives up at most
\* the id it was about to use.
LEMMA LeavingIds ==
    ASSUME TypeOK, PhaseInv, IdInv, LockInv, NEW r \in Req,
           call' = call, nextId' = nextId, id'[r] = id[r],
           \A s \in Req \ {r} : pc'[s] = pc[s] /\ id'[s] = id[s],
           call[r].op = "create" /\ pc'[r] \in Inside => pc[r] \in Inside
    PROVE  IF call[r].op = "create" /\ pc[r] \in Inside /\ pc'[r] \notin Inside
             THEN id[r] \in TaskId \ UsedIds /\ UsedIds' = UsedIds \cup {id[r]}
             ELSE UsedIds' = UsedIds
<1>1. CASE call[r].op = "create" /\ pc[r] \in Inside /\ pc'[r] \notin Inside
  <2>1. Inserting(id[r]) /\ id[r] \in TaskId /\ id[r] < nextId
    BY <1>1 DEF Inserting, Inside, IdInv
  <2>2. \A t : Inserting(t)' <=> Inserting(t) /\ t # id[r]
    <3>1. ASSUME NEW s \in Req \ {r}, pc[s] \in Inside PROVE id[s] # id[r]
      BY <1>1, <3>1, OwnId
    <3> QED
      BY <1>1, <3>1 DEF Inserting, Inside
  <2>3. UsedIds' = UsedIds \cup {id[r]}
    BY <2>1, <2>2 DEF UsedIds, TaskId
  <2> QED
    BY <1>1, <2>1, <2>3 DEF UsedIds
<1>2. CASE ~ (call[r].op = "create" /\ pc[r] \in Inside /\ pc'[r] \notin Inside)
  <2>1. \A t : Inserting(t)' <=> Inserting(t)
    BY <1>2 DEF Inserting, Inside
  <2>2. UsedIds' = UsedIds
    BY <2>1 DEF UsedIds, TaskId
  <2> QED
    BY <1>2, <2>2
<1> QED
  BY <1>1, <1>2

\* The sequence hands out an id that nobody has used; it is not used yet.
LEMMA InsertIds ==
    ASSUME TypeOK, PhaseInv, IdInv, LockInv, NEW r \in Req, InsertRow(r)
    PROVE  UsedIds' = UsedIds
<1>1. /\ pc[r] = "row" /\ call[r].op = "create" /\ call' = call
      /\ nextId \in Nat /\ nextId' = nextId + 1
      /\ id' = [id EXCEPT ![r] = nextId] /\ pc' = [pc EXCEPT ![r] = "unlink"]
  BY DEF InsertRow, Goto, TypeOK
<1>2. \A t : Inserting(t)' <=> Inserting(t) \/ t = nextId
  BY <1>1 DEF Inserting, TypeOK
<1>3. \A t \in TaskId : t < nextId + 1 /\ t # nextId <=> t < nextId
  BY <1>1, BoundAssumption DEF TaskId
<1> QED
  BY <1>1, <1>2, <1>3 DEF UsedIds, TaskId

\* Which ids a step of a request uses up.
LEMMA IdsUsed ==
    ASSUME TypeOK, PhaseInv, IdInv, LockInv, NEW r \in Req, Acting(r)
    PROVE  IF call[r].op = "create" /\ pc[r] \in Inside /\ pc'[r] \notin Inside
             THEN id[r] \in TaskId \ UsedIds /\ UsedIds' = UsedIds \cup {id[r]}
             ELSE UsedIds' = UsedIds
<1>0. call' = call
  BY CallStable DEF Acting, Next
<1>1. CASE InsertRow(r)
  BY <1>1, InsertIds DEF InsertRow, Inside
<1>2. CASE ~ InsertRow(r)
  <2>1. \A step : Goto(r, step) => pc'[r] = step
    BY DEF Goto, TypeOK
  <2>2. \A reply \in {"reread"} \cup Reply : Finish(r, reply) => pc'[r] \notin Inside
    BY <2>1 DEF Finish, Reply, Inside
  <2>3. nextId' = nextId /\ id'[r] = id[r]
    BY <1>2 DEF Acting, Step, Begin, Get, Stamp, ResolveProject, UpdateRow, ClearTags, LinkTag,
       Commit, Reread, WriteRow, CheckFk, DeleteTask, Fail, DeadlockAbort, Finish
  <2>4. ASSUME call[r].op = "create", pc'[r] \in Inside PROVE pc[r] \in Inside
    <3>1. CASE Begin(r) \/ Get(r) \/ Stamp(r) \/ ResolveProject(r)
      BY <2>1, <2>2, <2>4, <3>1 DEF Begin, Get, Stamp, ResolveProject, Inside, Reply
    <3>2. CASE UpdateRow(r)
      BY <2>4, <3>2 DEF UpdateRow
    <3>3. CASE ClearTags(r) \/ LinkTag(r)
      BY <3>3 DEF ClearTags, LinkTag, Inside
    <3>4. CASE \/ Commit(r) \/ Reread(r) \/ CheckFk(r) \/ DeleteTask(r)
               \/ Fail(r) \/ DeadlockAbort(r)
      BY <2>2, <2>4, <3>4 DEF Commit, Reread, CheckFk, DeleteTask, Fail, DeadlockAbort, Reply
    <3>5. CASE WriteRow(r)
      BY <2>1, <2>2, <2>4, <3>5 DEF WriteRow, Inside, Reply
    <3> QED
      BY <1>2, <3>1, <3>2, <3>3, <3>4, <3>5 DEF Acting, Step
  <2>5. \A s \in Req \ {r} : pc'[s] = pc[s] /\ id'[s] = id[s]
    BY OthersKept
  <2> QED
    BY <1>0, <2>3, <2>4, <2>5, LeavingIds
<1> QED
  BY <1>1, <1>2

\* A task whose links stay has the tags it had.
LEMMA TagsStay ==
    ASSUME NEW t, LinksOf(t)' = LinksOf(t)
    PROVE  TagsOf(t)' = TagsOf(t)
BY DEF LinksOf, TagsOf

\* A commit gives its task the tags of its form.
LEMMA CommitTags ==
    ASSUME EInv, NEW r \in Req, Commit(r)
    PROVE  /\ BoardTags' = [BoardTags EXCEPT ![id[r]] = OfUser(r, call[r].tags)]
           /\ OfUser(r, call[r].tags) \in SUBSET {n \in TagRow : n[1] = call[r].user}
<1>0. TypeOK /\ IdInv /\ LockInv /\ PhaseInv
  BY DEF EInv, IInv
<1>1. id' = id /\ call' = call
  BY DEF Commit, Finish
<1>2. OfUser(r, call[r].tags) \in SUBSET {n \in TagRow : n[1] = call[r].user}
  <2>1. ToSet(call[r].tags) \subseteq Tag
    BY <1>0, CallType DEF ToSet
  <2> QED
    BY <1>0, <2>1, CallType DEF OfUser, TagRow
<1>3. TagsOf(id[r])' = OfUser(r, call[r].tags)
  <2>1. \A n : <<id[r], n>> \in links' <=> n \in OfUser(r, call[r].tags)
    <3>1. LinksOf(id[r])' = {id[r]} \X OfUser(r, call[r].tags)
      BY CommitLinks
    <3>2. \A n : <<id[r], n>> \in LinksOf(id[r])' <=> <<id[r], n>> \in links'
      BY <1>1 DEF LinksOf
    <3> QED
      BY <3>1, <3>2
  <2> QED
    BY <1>1, <1>2, <2>1 DEF TagsOf
<1>4. \A t \in TaskId \ {id[r]} : TagsOf(t)' = TagsOf(t)
  BY CommitLinks, TagsStay
<1>5. id[r] \in TaskId
  BY <1>0, CommitFacts
<1>6. \A t \in TaskId : TagsOf(t)' = IF t = id[r] THEN OfUser(r, call[r].tags) ELSE TagsOf(t)
  <2>1. ASSUME NEW t \in TaskId, t = id[r] PROVE TagsOf(t)' = TagsOf(id[r])'
    BY <1>1, <2>1 DEF TagsOf
  <2> QED
    BY <1>3, <1>4, <2>1
<1> QED
  BY <1>2, <1>5, <1>6 DEF BoardTags

------------------------------------------------------------------------------
(* The service implements the board *)

\* The saved rows are a board.
LEMMA BoardInit == ServerInit => Board!Init
<1> SUFFICES ASSUME Init PROVE Board!Init
  BY DEF ServerInit
<1>1. TypeOK
  BY InitType
<1>2. tasks \in [TaskId -> Row \cup {NoRow}] /\ links = {} /\ \A t : ~ Inserting(t)
  BY <1>1 DEF TypeOK, Init, Inserting
<1>3. \A t \in TaskId : t < nextId <=> tasks[t] # NoRow
  <2>1. /\ Len(Saved) \in Nat /\ \A t \in 1 .. Len(Saved) : Saved[t] \in Row
        /\ nextId = Len(Saved) + 1
        /\ \A t \in TaskId : tasks[t] = IF t <= Len(Saved) THEN Saved[t] ELSE NoRow
    BY SavedAssumption DEF Init
  <2>2. \A t \in TaskId : t \in Nat /\ t >= 1
    BY BoundAssumption DEF TaskId
  <2> QED
    BY <2>1, <2>2, NullAssumption
<1>4. BoardTags = [t \in TaskId |-> {}]
  BY <1>2 DEF BoardTags, TagsOf
<1>5. UsedIds = {t \in TaskId : tasks[t] # NoRow}
  BY <1>2, <1>3 DEF UsedIds
<1> QED
  BY <1>2, <1>4, <1>5 DEF Board!Init, BoardTags, UsedIds, Row

\* The commit of a create is Create, under the id it drew from the sequence.
LEMMA CreateMaps ==
    ASSUME BInv, NEW r \in Req, Commit(r), call[r].op = "create",
           NEW t \in TaskId, t = id[r]
    PROVE  Board!Create(t)
<1>0. EInv /\ TypeOK /\ PhaseInv /\ IdInv /\ LockInv
  BY DEF BInv, ServerInv, EInv, IInv
<1>1. Acting(r) /\ pc[r] \in Inside /\ pc'[r] \notin Inside
  BY <1>0 DEF Acting, Step, Commit, Finish, Goto, TypeOK, Inside
<1>2. id[r] \notin UsedIds /\ UsedIds' = UsedIds \cup {id[r]}
  BY <1>0, <1>1, IdsUsed
<1>3. /\ BoardTags' = [BoardTags EXCEPT ![id[r]] = OfUser(r, call[r].tags)]
      /\ OfUser(r, call[r].tags) \in SUBSET {n \in TagRow : n[1] = call[r].user}
  BY <1>0, CommitTags
<1>4. /\ tasks' = [tasks EXCEPT ![id[r]] =
                     [user |-> call[r].user, body |-> call[r].body,
                      status |-> call[r].status, project |-> ProjectOf(r),
                      created |-> now[r], updated |-> now[r], archived |-> NoTime]]
      /\ now[r] \in Time
  BY <1>0, CommitFacts, CreateStored DEF Commit
<1>5. /\ call[r].user \in User /\ call[r].body \in Body /\ call[r].status \in Status
      /\ ProjectOf(r) \in {p \in ProjectRow : p[1] = call[r].user} \cup {NoProject}
  BY <1>0, CallType, ProjectOfType
<1>6. /\ ProjectOf(r) \in Board!OwnProject(call[r].user)
      /\ OfUser(r, call[r].tags) \in Board!OwnTags(call[r].user)
  BY <1>3, <1>5 DEF Board!OwnProject, Board!OwnTags
<1>7. \E u \in User, body \in Body, status \in Status, time \in Time :
      \E p \in Board!OwnProject(u), names \in Board!OwnTags(u) :
         /\ tasks' = [tasks EXCEPT ![t] =
               [user |-> u, body |-> body, status |-> status, project |-> p,
                created |-> time, updated |-> time, archived |-> NoTime]]
         /\ BoardTags' = [BoardTags EXCEPT ![t] = names]
  <2> USE <1>4, <1>5, <1>6
  <2> WITNESS call[r].user \in User, call[r].body \in Body, call[r].status \in Status,
              now[r] \in Time
  <2> WITNESS ProjectOf(r) \in Board!OwnProject(call[r].user),
              OfUser(r, call[r].tags) \in Board!OwnTags(call[r].user)
  <2> QED
    BY <1>3
<1> QED
  BY <1>2, <1>7 DEF Board!Create, UsedIds, BoardTags

\* The commit of an update is Edit.
LEMMA EditMaps ==
    ASSUME BInv, NEW r \in Req, Commit(r), call[r].op = "update",
           NEW t \in TaskId, t = id[r]
    PROVE  Board!Edit(t)
<1>0. EInv /\ TypeOK /\ PhaseInv /\ IdInv /\ LockInv
  BY DEF BInv, ServerInv, EInv, IInv
<1>1. Visible(r) /\ pc[r] \in Dated /\ Acting(r)
  BY <1>0, CommitFacts DEF Acting, Step
<1>2. UsedIds' = UsedIds
  BY <1>0, <1>1, IdsUsed
<1>3. /\ BoardTags' = [BoardTags EXCEPT ![id[r]] = OfUser(r, call[r].tags)]
      /\ OfUser(r, call[r].tags) \in SUBSET {n \in TagRow : n[1] = tasks[id[r]].user}
  BY <1>0, <1>1, CommitTags DEF Visible
<1>4. /\ tasks' = [tasks EXCEPT ![id[r]] =
                     [tasks[id[r]] EXCEPT !.body = call[r].body, !.status = call[r].status,
                                          !.project = ProjectOf(r), !.updated = now[r]]]
      /\ now[r] \in Time /\ tasks[id[r]].updated <= now[r]
  BY <1>1, FormStored DEF Commit
<1>5. /\ call[r].body \in Body /\ call[r].status \in Status
      /\ ProjectOf(r) \in {p \in ProjectRow : p[1] = tasks[id[r]].user} \cup {NoProject}
  BY <1>0, <1>1, CallType, ProjectOfType DEF Visible
<1>6. tasks[id[r]] # NoRow
  BY <1>1 DEF Visible
<1>7. /\ ProjectOf(r) \in Board!OwnProject(tasks[t].user) /\ now[r] \in Board!Later(t)
      /\ OfUser(r, call[r].tags) \in Board!OwnTags(tasks[t].user)
  BY <1>3, <1>4, <1>5 DEF Board!OwnProject, Board!OwnTags, Board!Later
<1>8. PICK body \in Body, status \in Status, time \in Board!Later(t),
           p \in Board!OwnProject(tasks[t].user), names \in Board!OwnTags(tasks[t].user) :
              /\ body = call[r].body /\ status = call[r].status /\ time = now[r]
              /\ p = ProjectOf(r) /\ names = OfUser(r, call[r].tags)
  BY <1>5, <1>7
<1>9. /\ tasks' = [tasks EXCEPT ![t].body = body, ![t].status = status,
                                ![t].project = p, ![t].updated = time]
      /\ BoardTags' = [BoardTags EXCEPT ![t] = names]
  BY <1>3, <1>4, <1>8
<1>10. \E bod \in Body, sta \in Status, tim \in Board!Later(t) :
       \E pro \in Board!OwnProject(tasks[t].user), nam \in Board!OwnTags(tasks[t].user) :
          /\ tasks' = [tasks EXCEPT ![t].body = bod, ![t].status = sta,
                                    ![t].project = pro, ![t].updated = tim]
          /\ BoardTags' = [BoardTags EXCEPT ![t] = nam]
  BY <1>9
<1> QED
  BY <1>2, <1>6, <1>10 DEF Board!Edit, Board!Live, UsedIds, BoardTags

\* A write without a form is SetStatus, Archive or Unarchive.
LEMMA ClickMaps ==
    ASSUME BInv, NEW r \in Req, call[r].op \notin FormOp, pc[r] \in Dated, Visible(r),
           tasks' = [tasks EXCEPT ![id[r]] = Stored(r)],
           UsedIds' = UsedIds, links' = links, NEW t \in TaskId, t = id[r]
    PROVE  Board!SetStatus(t) \/ Board!Archive(t) \/ Board!Unarchive(t)
<1>0. TypeOK
  BY DEF BInv, ServerInv, EInv, IInv
<1>1. BoardTags' = BoardTags
  BY DEF BoardTags, TagsOf
<1>2. now[r] \in Time /\ tasks[id[r]].updated <= now[r] /\ tasks[id[r]] # NoRow
  BY ClickStored DEF Visible
<1>3. call[r].status \in Status
  BY <1>0, CallType
<1>4. CASE Stored(r) = [tasks[id[r]] EXCEPT !.status = call[r].status, !.updated = now[r]]
  <2>1. \E status \in Status, time \in {x \in Time : tasks[t].updated <= x} :
           tasks' = [tasks EXCEPT ![t].status = status, ![t].updated = time]
    <3>1. now[r] \in {x \in Time : tasks[t].updated <= x}
      BY <1>2
    <3> WITNESS call[r].status \in Status, now[r] \in {x \in Time : tasks[t].updated <= x}
    <3> QED
      BY <1>4
  <2> QED
    BY <1>1, <1>2, <2>1 DEF Board!SetStatus, Board!Live, Board!Later, UsedIds, BoardTags
<1>5. CASE /\ tasks[id[r]].archived = NoTime
           /\ Stored(r) = [tasks[id[r]] EXCEPT !.archived = now[r], !.updated = now[r]]
  BY <1>1, <1>2, <1>5 DEF Board!Archive, Board!Live, Board!Later, UsedIds, BoardTags
<1>6. CASE /\ tasks[id[r]].archived # NoTime
           /\ Stored(r) = [tasks[id[r]] EXCEPT !.archived = NoTime, !.updated = now[r]]
  BY <1>1, <1>2, <1>6 DEF Board!Unarchive, Board!Live, Board!Later, UsedIds, BoardTags
<1> QED
  BY <1>4, <1>5, <1>6, ClickStored

\* The deletion of a task is Delete.
LEMMA DeleteMaps ==
    ASSUME BInv, NEW r \in Req, DeleteTask(r), Visible(r),
           NEW t \in TaskId, t = id[r]
    PROVE  Board!Delete(t)
<1>0. EInv /\ TypeOK /\ PhaseInv /\ IdInv /\ LockInv
  BY DEF BInv, ServerInv, EInv, IInv
<1>1. /\ tasks' = [tasks EXCEPT ![id[r]] = NoRow] /\ links' = links \ LinksOf(id[r])
      /\ id[r] \in TaskId /\ tasks[id[r]] # NoRow
  BY DEF DeleteTask, Visible
<1>2. UsedIds' = UsedIds
  <2>1. Acting(r) /\ call[r].op # "create"
    BY <1>0 DEF Acting, Step, DeleteTask, PhaseInv
  <2> QED
    BY <1>0, <2>1, IdsUsed
<1>3. BoardTags' = [BoardTags EXCEPT ![id[r]] = {}]
  <2>1. \A x \in TaskId : TagsOf(x)' = IF x = id[r] THEN {} ELSE TagsOf(x)
    BY <1>1 DEF TagsOf, LinksOf
  <2> QED
    BY <1>1, <2>1 DEF BoardTags
<1> QED
  BY <1>1, <1>2, <1>3 DEF Board!Delete, Board!Live, UsedIds, BoardTags

\* Whatever else a request does is a step the board does not see, or the end of
\* a create that stored nothing, which is Refuse.
LEMMA RefuseMaps ==
    ASSUME NEW r \in Req, UNCHANGED <<tasks, links>>,
           IF call[r].op = "create" /\ pc[r] \in Inside /\ pc'[r] \notin Inside
             THEN id[r] \in TaskId \ UsedIds /\ UsedIds' = UsedIds \cup {id[r]}
             ELSE UsedIds' = UsedIds
    PROVE  [Board!Next]_(Board!vars)
<1>1. BoardTags' = BoardTags
  BY DEF BoardTags, TagsOf
<1>2. CASE UsedIds' = UsedIds
  BY <1>1, <1>2 DEF Board!vars, UsedIds, BoardTags
<1>3. CASE id[r] \in TaskId \ UsedIds /\ UsedIds' = UsedIds \cup {id[r]}
  <2>1. PICK t \in TaskId : t = id[r]
    BY <1>3
  <2>2. Board!Refuse(t)
    BY <1>1, <1>3, <2>1 DEF Board!Refuse, UsedIds, BoardTags
  <2> QED
    BY <2>2 DEF Board!Next
<1> QED
  BY <1>2, <1>3

\* Every step of a request is a step of the board, or one it does not see.
LEMMA ActingMaps ==
    ASSUME BInv, NEW r \in Req, Acting(r)
    PROVE  [Board!Next]_(Board!vars)
<1>0. /\ EInv /\ TypeOK /\ PhaseInv /\ IdInv /\ LockInv
      /\ [Next]_vars
  BY DEF BInv, ServerInv, EInv, IInv, Acting, Next
<1>1. CASE UNCHANGED <<tasks, links, tags, projects>>
  BY <1>0, <1>1, IdsUsed, RefuseMaps
<1>2. ASSUME NEW s \in Req, Commit(s) PROVE [Board!Next]_(Board!vars)
  <2>1. call[s].op \in {"create", "update"} /\ \E t \in TaskId : t = id[s]
    BY <1>0, <1>2, CommitFacts DEF Commit, PhaseInv, FormOp
  <2>2. PICK t \in TaskId : t = id[s]
    BY <2>1
  <2>3. Board!Create(t) \/ Board!Edit(t)
    BY <1>2, <2>1, <2>2, CreateMaps, EditMaps
  <2> QED
    BY <2>3 DEF Board!Next
<1>3. ASSUME NEW s \in Req, call[s].op \notin FormOp, pc[s] \in Dated, Visible(s), Acts(s),
             tasks' = [tasks EXCEPT ![id[s]] = Stored(s)], links' = links
      PROVE  [Board!Next]_(Board!vars)
  <2>1. s = r
    BY <1>0, <1>3, OthersKept DEF Acts
  <2>2. UsedIds' = UsedIds
    BY <1>0, <1>3, <2>1, IdsUsed DEF FormOp
  <2>3. PICK t \in TaskId : t = id[s]
    BY <1>3 DEF Visible
  <2>4. Board!SetStatus(t) \/ Board!Archive(t) \/ Board!Unarchive(t)
    BY <1>3, <2>2, <2>3, ClickMaps
  <2> QED
    BY <2>4 DEF Board!Next
<1>4. ASSUME NEW s \in Req, DeleteTask(s), Visible(s) PROVE [Board!Next]_(Board!vars)
  <2>1. PICK t \in TaskId : t = id[s]
    BY <1>4 DEF Visible
  <2>2. Board!Delete(t)
    BY <1>4, <2>1, DeleteMaps
  <2> QED
    BY <2>2 DEF Board!Next
<1> QED
  BY <1>0, <1>1, <1>2, <1>3, <1>4, WriteSteps

\* Every step of the server is a step of the board, or one it does not see.
LEMMA BoardStep ==
    ASSUME BInv, [ServerNext]_serverVars
    PROVE  [Board!Next]_(Board!vars)
<1>0. TypeOK /\ PhaseInv /\ IdInv /\ LockInv
  BY DEF BInv, ServerInv, EInv, IInv
<1>1. ASSUME NEW r \in Req, Acting(r) PROVE [Board!Next]_(Board!vars)
  BY <1>1, ActingMaps
<1>2. ASSUME NEW r \in Req, Cut(r) PROVE [Board!Next]_(Board!vars)
  <2>1. /\ UNCHANGED <<tasks, links, nextId, call, id>>
        /\ pc'[r] \notin Inside /\ \A s \in Req \ {r} : pc'[s] = pc[s]
    BY <1>0, <1>2, CutFacts DEF Finish, Goto, TypeOK, Inside
  <2> QED
    BY <1>0, <2>1, LeavingIds, RefuseMaps
<1>3. CASE UNCHANGED <<tasks, links, tags, projects, nextId, reqVars>>
  BY <1>3 DEF Board!vars, TagsOf, Inserting, reqVars
<1> QED
  BY <1>1, <1>2, <1>3, ServerActs

\* With one tab per user the service implements TaskBoard, through failures,
\* deadlocks and the end of its process.
THEOREM OneTabImplementsBoard == ASSUME OneTab PROVE ServerSpec => OneTabIsAtomic
BY BoardInit, BoardStep, TabInvariance, PTL DEF ServerSpec, OneTabIsAtomic, Board!Spec
==============================================================================
