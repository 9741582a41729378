--------------------------- MODULE TaskEffectsProofs ---------------------------
(***************************************************************************)
(* What a write of TaskService may touch: the tags of a task come from one *)
(* form, names come with their task, and only the owner's requests act.    *)
(***************************************************************************)
EXTENDS TaskServiceProofs

\* The task_tags rows a form asks for, and those its loop has still to link.
OfUser(r, names) == {call[r].user} \X ToSet(names)

\* A transaction that links tags has deleted the links its task has, and what
\* it has upserted and has still to upsert are the tags of its form.
LinkingOf(r) ==
    /\ pc[r] # "link" => Upserted(r) = {}
    /\ pc[r] = "link" => /\ unlinked[r] = LinksOf(id[r])
                         /\ Upserted(r) \cup OfUser(r, todo[r]) = OfUser(r, call[r].tags)

TagInv == \A r \in Req : LinkingOf(r)

EInv == IInv /\ TagInv

Acting(r) == Begin(r) \/ Step(r) \/ Fail(r) \/ DeadlockAbort(r)

------------------------------------------------------------------------------
(* TagInv is inductive together with IInv *)

\* The elements of a sequence are its head and those of its tail.
LEMMA HeadAndTail ==
    ASSUME NEW S, NEW s \in Seq(S), s # <<>>
    PROVE  ToSet(s) = {Head(s)} \cup ToSet(Tail(s))
<1>1. /\ Len(s) \in Nat /\ Len(s) > 0 /\ s[1] = Head(s) /\ DOMAIN s = 1 .. Len(s)
      /\ Tail(s) \in Seq(S) /\ Len(Tail(s)) = Len(s) - 1
      /\ DOMAIN Tail(s) = 1 .. Len(s) - 1
  OBVIOUS
<1>2. \A i \in 1 .. Len(s) - 1 : Tail(s)[i] = s[i + 1] /\ i + 1 \in 1 .. Len(s)
  BY <1>1
<1>3. ASSUME NEW x \in ToSet(s), x # Head(s) PROVE x \in ToSet(Tail(s))
  <2>1. PICK i \in 1 .. Len(s) : x = s[i]
    BY <1>1, <1>3 DEF ToSet
  <2>2. i - 1 \in 1 .. Len(s) - 1 /\ (i - 1) + 1 = i
    BY <1>1, <1>3, <2>1
  <2>3. Tail(s)[i - 1] = x
    BY <1>2, <2>1, <2>2
  <2> QED
    BY <1>1, <2>2, <2>3 DEF ToSet
<1>4. ASSUME NEW x \in ToSet(Tail(s)) PROVE x \in ToSet(s)
  BY <1>1, <1>2, <1>4 DEF ToSet
<1>5. Head(s) \in ToSet(s)
  <2>1. 1 \in DOMAIN s
    BY <1>1
  <2> QED
    BY <1>1, <2>1 DEF ToSet
<1> QED
  BY <1>3, <1>4, <1>5

\* A call that returns holds no locks.
LEMMA FinishTags ==
    ASSUME TypeOK, NEW r \in Req, NEW reply \in {"reread"} \cup Reply, Finish(r, reply)
    PROVE  LinkingOf(r)'
BY DEF TypeOK, Finish, Goto, LinkingOf, Upserted, Reply

\* Outside its loop a transaction takes no lock of a tag.
LEMMA NoTagTaken ==
    ASSUME TypeOK, NEW r \in Req, LinkingOf(r), pc[r] # "link", pc'[r] # "link",
           \/ locks' = locks
           \/ \E p \in ProjectRow : Take(r, ProjectLock(p))
           \/ \E t \in TaskId : Take(r, TaskLock(t))
    PROVE  LinkingOf(r)'
<1>1. \A n, p : TagLock(n) # ProjectLock(p) /\ TagLock(n) # TaskLock(p)
  BY DEF TagLock, ProjectLock, TaskLock
<1>2. \A n \in TagRow : TagLock(n) \in locks'[r] => TagLock(n) \in locks[r]
  BY <1>1, TakeFrame
<1> QED
  BY <1>2 DEF LinkingOf, Upserted

\* A step of one request leaves what the others keep alone.
LEMMA OthersKept ==
    ASSUME TypeOK, NEW r \in Req, NEW s \in Req \ {r}, Acting(r)
    PROVE  /\ pc'[s] = pc[s] /\ id'[s] = id[s] /\ unlinked'[s] = unlinked[s]
           /\ todo'[s] = todo[s] /\ locks'[s] = locks[s]
           /\ existing'[s] = existing[s]
<1> DEFINE Kept == /\ pc'[s] = pc[s] /\ id'[s] = id[s] /\ unlinked'[s] = unlinked[s]
                   /\ todo'[s] = todo[s] /\ locks'[s] = locks[s]
                   /\ existing'[s] = existing[s]
<1>1. ASSUME NEW reply, Finish(r, reply) PROVE Kept
  BY <1>1 DEF Finish, Goto, TypeOK
<1>2. ASSUME NEW step, Goto(r, step) PROVE pc'[s] = pc[s]
  BY <1>2 DEF Goto, TypeOK
<1>3. ASSUME NEW k, Take(r, k) PROVE locks'[s] = locks[s]
  BY <1>3, TakeFrame
<1>4. CASE Begin(r) \/ Get(r) \/ Stamp(r) \/ Reread(r) \/ Fail(r) \/ DeadlockAbort(r)
  BY <1>1, <1>2, <1>4 DEF Begin, Get, Stamp, Reread, Fail, DeadlockAbort, TypeOK
<1>5. CASE ResolveProject(r)
  BY <1>2, <1>3, <1>5 DEF ResolveProject
<1>6. CASE InsertRow(r)
  BY <1>2, <1>3, <1>6 DEF InsertRow, TypeOK
<1>7. CASE UpdateRow(r)
  BY <1>1, <1>2, <1>3, <1>7 DEF UpdateRow
<1>8. CASE ClearTags(r)
  BY <1>2, <1>8 DEF ClearTags, TypeOK
<1>9. CASE LinkTag(r)
  BY <1>3, <1>9 DEF LinkTag, TypeOK
<1>10. CASE Commit(r) \/ CheckFk(r) \/ DeleteTask(r)
  BY <1>1, <1>10 DEF Commit, CheckFk, DeleteTask
<1>11. CASE WriteRow(r)
  BY <1>1, <1>2, <1>3, <1>11 DEF WriteRow
<1> QED
  BY <1>4, <1>5, <1>6, <1>7, <1>8, <1>9, <1>10, <1>11 DEF Acting, Step

\* Nobody but the request that holds a task's row changes the task's links.
LEMMA LinksStay ==
    ASSUME EInv, [Next]_vars, NEW s \in Req, pc[s] = "link", pc'[s] = "link"
    PROVE  LinksOf(id[s])' = LinksOf(id[s]) \/ id'[s] # id[s]
<1>0. TypeOK /\ PhaseInv /\ IdInv /\ LockInv /\ TagInv
  BY DEF EInv, IInv
<1>1. TaskLock(id[s]) \in locks[s]
  BY <1>0 DEF LockInv, LockOf, Holding
<1>2. CASE links' = links
  BY <1>2 DEF LinksOf
<1>3. ASSUME NEW r \in Req, Commit(r) PROVE LinksOf(id[s])' = LinksOf(id[s]) \/ id'[s] # id[s]
  <2>1. r # s
    BY <1>0, <1>3 DEF Commit, Finish, Goto, TypeOK
  <2>2. id[r] # id[s]
    BY <1>0, <1>1, <1>3, <2>1 DEF Commit, LockInv, LockOf, Holding
  <2>3. links' = (links \ LinksOf(id[r])) \cup ({id[r]} \X Upserted(r))
    BY <1>0, <1>3 DEF Commit, TagInv, LinkingOf
  <2> QED
    BY <1>0, <1>3, <2>2, <2>3 DEF LinksOf, Commit, Finish
<1>4. ASSUME NEW r \in Req, DeleteTask(r), Visible(r)
      PROVE  LinksOf(id[s])' = LinksOf(id[s]) \/ id'[s] # id[s]
  <2>1. r # s
    BY <1>4 DEF DeleteTask
  <2>2. id[r] # id[s]
    BY <1>1, <1>4, <2>1 DEF DeleteTask, Free
  <2> QED
    BY <1>4, <2>2 DEF LinksOf, DeleteTask, Finish
<1> QED
  BY <1>0, <1>2, <1>3, <1>4, WriteSteps

\* Every step of r keeps the links its own transaction has deleted and made.
LEMMA OwnTags ==
    ASSUME EInv, [Next]_vars, NEW r \in Req, Acting(r)
    PROVE  LinkingOf(r)'
<1>0. TypeOK /\ PhaseInv /\ IdInv /\ LockInv /\ LinkingOf(r) /\ call' = call
  BY CallStable DEF EInv, IInv, TagInv
<1>1. \A reply \in {"reread"} \cup Reply : Finish(r, reply) => LinkingOf(r)'
  BY <1>0, FinishTags
<1>2. \A step : Goto(r, step) => pc'[r] = step
  BY <1>0 DEF Goto, TypeOK
<1>3. CASE Begin(r)
  BY <1>0, <1>1, <1>2, <1>3, NoTagTaken DEF Begin, Reply
<1>4. CASE Get(r)
  BY <1>0, <1>1, <1>2, <1>4, NoTagTaken DEF Get, Reply
<1>5. CASE Stamp(r)
  BY <1>0, <1>1, <1>2, <1>5, NoTagTaken DEF Stamp, Reply
<1>6. CASE ResolveProject(r)
  BY <1>0, <1>2, <1>6, NoTagTaken, ProjectOfType DEF ResolveProject
<1>7. CASE InsertRow(r)
  <2>1. nextId \in TaskId
    BY <1>0, <1>7 DEF InsertRow, TypeOK, TaskId
  <2> QED
    BY <1>0, <1>2, <1>7, <2>1, NoTagTaken DEF InsertRow
<1>8. CASE UpdateRow(r)
  BY <1>0, <1>1, <1>2, <1>8, NoTagTaken DEF UpdateRow, Visible, Reply
<1>9. CASE ClearTags(r)
  <2>1. /\ pc'[r] = "link" /\ id' = id /\ links' = links /\ locks' = locks
        /\ unlinked'[r] = LinksOf(id[r]) /\ todo'[r] = call[r].tags
    BY <1>0, <1>2, <1>9 DEF ClearTags, TypeOK, dbVars
  <2>2. Upserted(r)' = {}
    BY <1>0, <1>9, <2>1 DEF ClearTags, LinkingOf, Upserted
  <2> QED
    BY <1>0, <2>1, <2>2 DEF LinkingOf, LinksOf, OfUser
<1>10. CASE LinkTag(r)
  <2> DEFINE n == <<call[r].user, Head(todo[r])>>
  <2>1. /\ pc[r] = "link" /\ pc' = pc /\ id' = id /\ links' = links /\ unlinked' = unlinked
        /\ todo[r] # <<>> /\ todo'[r] = Tail(todo[r]) /\ Take(r, TagLock(n))
    BY <1>0, <1>10 DEF LinkTag, TypeOK, dbVars
  <2>2. todo[r] \in Seq(Tag) /\ Head(todo[r]) \in Tag /\ n \in TagRow
    BY <1>0, <2>1, CallType DEF TypeOK, TagRow
  <2>3. Upserted(r)' = Upserted(r) \cup {n}
    <3>1. locks'[r] = locks[r] \cup {TagLock(n)}
      BY <1>0, <2>1, TakeFrame
    <3>2. \A m \in TagRow : TagLock(m) = TagLock(n) => m = n
      BY DEF TagLock
    <3> QED
      BY <2>2, <3>1, <3>2 DEF Upserted
  <2>4. OfUser(r, todo[r]) = {n} \cup OfUser(r, Tail(todo[r]))
    BY <2>1, <2>2, HeadAndTail DEF OfUser
  <2> QED
    BY <1>0, <2>1, <2>3, <2>4 DEF LinkingOf, LinksOf, OfUser
<1>11. CASE \/ Commit(r) \/ Reread(r) \/ CheckFk(r) \/ DeleteTask(r)
            \/ Fail(r) \/ DeadlockAbort(r)
  BY <1>1, <1>11 DEF Commit, Reread, CheckFk, DeleteTask, Fail, DeadlockAbort, Reply
<1>12. CASE WriteRow(r)
  BY <1>0, <1>1, <1>2, <1>12, NoTagTaken DEF WriteRow, Visible, Reply
<1> QED
  BY <1>3, <1>4, <1>5, <1>6, <1>7, <1>8, <1>9, <1>10, <1>11, <1>12 DEF Acting, Step

\* TagInv is kept by every step, of the request itself and of the others.
THEOREM TagStep == EInv /\ [Next]_vars => TagInv'
<1> SUFFICES ASSUME EInv, [Next]_vars, NEW s \in Req PROVE LinkingOf(s)'
  BY DEF TagInv
<1>0. TypeOK /\ LinkingOf(s) /\ call' = call
  BY CallStable DEF EInv, IInv, TagInv
<1>1. CASE Acting(s)
  BY <1>1, OwnTags
<1>2. ASSUME /\ pc'[s] = pc[s] /\ id'[s] = id[s] /\ unlinked'[s] = unlinked[s]
             /\ todo'[s] = todo[s] /\ locks'[s] = locks[s]
      PROVE  LinkingOf(s)'
  <2>1. Upserted(s)' = Upserted(s)
    BY <1>2 DEF Upserted
  <2>2. pc[s] = "link" => LinksOf(id[s])' = LinksOf(id[s])
    BY <1>2, LinksStay
  <2> QED
    BY <1>0, <1>2, <2>1, <2>2 DEF LinkingOf, LinksOf, OfUser
<1>3. ASSUME NEW r \in Req, r # s, Acting(r) PROVE LinkingOf(s)'
  BY <1>0, <1>2, <1>3, OthersKept
<1>4. CASE UNCHANGED reqVars
  BY <1>2, <1>4 DEF reqVars
<1> QED
  BY <1>1, <1>3, <1>4 DEF Next, Acting, Tick, Quiesced, vars, reqVars

\* EInv holds throughout every behaviour of the service.
LEMMA EffectsInvariance == Spec => []EInv
<1>1. Init => EInv
  <2> SUFFICES ASSUME Init PROVE TagInv
    BY InitInv DEF EInv
  <2> QED
    BY DEF Init, TagInv, LinkingOf, Upserted
<1>2. EInv /\ [Next]_vars => EInv'
  BY Inductive, TagStep DEF EInv
<1> QED
  BY <1>1, <1>2, PTL DEF Spec

------------------------------------------------------------------------------
(* The theorems *)

\* A commit gives its task the tags of its form and leaves the others theirs.
LEMMA CommitLinks ==
    ASSUME EInv, NEW r \in Req, Commit(r)
    PROVE  /\ LinksOf(id[r])' = {id[r]} \X OfUser(r, call[r].tags)
           /\ \A t \in TaskId \ {id[r]} : LinksOf(t)' = LinksOf(t)
           /\ Acts(r)
<1>0. TypeOK /\ LinkingOf(r) /\ id' = id
  BY DEF EInv, IInv, TagInv, Commit, Finish
<1>1. /\ pc[r] = "link" /\ todo[r] = <<>>
      /\ links' = (links \ unlinked[r]) \cup ({id[r]} \X Upserted(r))
  BY DEF Commit
<1>2. ToSet(<<>>) = {}
  BY DEF ToSet
<1>3. unlinked[r] = LinksOf(id[r]) /\ Upserted(r) = OfUser(r, call[r].tags)
  BY <1>0, <1>1, <1>2 DEF LinkingOf, OfUser
<1>4. Acts(r)
  BY <1>0 DEF Commit, Finish, Goto, Acts, TypeOK
<1> QED
  BY <1>0, <1>1, <1>3, <1>4 DEF LinksOf

\* A request that deletes its user's task leaves the other tasks alone.
LEMMA DeleteFacts ==
    ASSUME EInv, NEW r \in Req, DeleteTask(r), Visible(r)
    PROVE  /\ tasks'[id[r]] = NoRow /\ Acts(r)
           /\ \A t \in TaskId \ {id[r]} : tasks'[t] = tasks[t] /\ LinksOf(t)' = LinksOf(t)
           /\ UNCHANGED <<tags, projects>> /\ links' \subseteq links
<1>0. TypeOK
  BY DEF EInv, IInv
<1> QED
  BY <1>0 DEF DeleteTask, Visible, LinksOf, Finish, Goto, Acts, TypeOK

\* What TagsFromOneWrite says of one step.
OneWrite ==
    \A t \in TaskId : LinksOf(t)' # LinksOf(t) =>
       \/ tasks'[t] = NoRow
       \/ \E r \in Req :
             /\ Acts(r)
             /\ id[r] = t
             /\ LinksOf(t)' = {t} \X ({call[r].user} \X ToSet(call[r].tags))

\* A step changes the tags of a task by a commit, which replaces them all.
LEMMA OneWriteStep == EInv /\ [Next]_vars => [OneWrite]_vars
<1> SUFFICES ASSUME EInv, [Next]_vars, NEW t \in TaskId, LinksOf(t)' # LinksOf(t),
                    tasks'[t] # NoRow
             PROVE  \E r \in Req :
                       /\ Acts(r)
                       /\ id[r] = t
                       /\ LinksOf(t)' = {t} \X ({call[r].user} \X ToSet(call[r].tags))
  BY DEF OneWrite
<1>1. links' # links
  BY DEF LinksOf
<1>2. ~ \E r \in Req : DeleteTask(r) /\ Visible(r)
  BY DeleteFacts
<1>3. PICK r \in Req : Commit(r)
  BY <1>1, <1>2, WriteSteps DEF EInv, IInv
<1>4. id[r] = t
  BY <1>3, CommitLinks
<1>5. LinksOf(t)' = LinksOf(id[r])'
  BY <1>3, <1>4 DEF LinksOf, Commit, Finish
<1>6. Acts(r) /\ LinksOf(id[r])' = {id[r]} \X ({call[r].user} \X ToSet(call[r].tags))
  BY <1>3, CommitLinks DEF OfUser
<1> QED
  BY <1>4, <1>5, <1>6

\* The tags of a task are all those of one form: edits never mix them.
THEOREM TagsNeverMixed == Spec => TagsFromOneWrite
BY OneWriteStep, EffectsInvariance, PTL DEF Spec, TagsFromOneWrite, OneWrite

\* What OtherUsersUntouched says of one step.
ByOwner(t, r) ==
    /\ Acts(r)
    /\ id[r] = t
    /\ call[r].user = tasks[t].user
    /\ tasks'[t] # NoRow => tasks'[t].user = tasks[t].user

Untouched ==
    \A t \in TaskId :
       tasks[t] # NoRow /\ (tasks'[t] # tasks[t] \/ LinksOf(t)' # LinksOf(t)) =>
          \E r \in Req : ByOwner(t, r)

\* A step that changes a task or its tags is one of its owner.
LEMMA OwnerOnlyStep == EInv /\ [Next]_vars => [Untouched]_vars
<1> SUFFICES ASSUME EInv, [Next]_vars, NEW t \in TaskId, tasks[t] # NoRow,
                    tasks'[t] # tasks[t] \/ LinksOf(t)' # LinksOf(t)
             PROVE  \E r \in Req : ByOwner(t, r)
  BY DEF Untouched
<1>0. TypeOK /\ PhaseInv /\ IdInv /\ LockInv /\ ReadInv
  BY DEF EInv, IInv
<1>1. ~ UNCHANGED <<tasks, links, tags, projects>>
  BY DEF LinksOf
<1>2. ASSUME NEW r \in Req, Commit(r) PROVE ByOwner(t, r)
  <2>1. pc[r] \in Dated /\ tasks' = [tasks EXCEPT ![id[r]] = Stored(r)]
    BY <1>0, <1>2, CommitFacts DEF Commit
  <2>2. id[r] = t
    BY <1>0, <1>2, <2>1, CommitLinks DEF TypeOK
  <2>3. Visible(r)
    BY <1>0, <1>2, <2>2, CommitFacts
  <2>4. Stored(r).user = call[r].user /\ tasks'[t] = Stored(r)
    BY <1>0, <2>1, <2>2, <2>3, StoredFacts DEF TypeOK
  <2> QED
    BY <1>2, <2>2, <2>3, <2>4, CommitLinks DEF Visible, ByOwner
<1>3. ASSUME NEW r \in Req, pc[r] \in Dated, Visible(r), Acts(r),
             tasks' = [tasks EXCEPT ![id[r]] = Stored(r)], links' = links
      PROVE  ByOwner(t, r)
  <2>1. id[r] = t
    BY <1>0, <1>3 DEF TypeOK, LinksOf
  <2>2. Stored(r).user = call[r].user /\ tasks'[t] = Stored(r)
    BY <1>0, <1>3, <2>1, StoredFacts DEF TypeOK
  <2> QED
    BY <1>3, <2>1, <2>2 DEF Visible, ByOwner
<1>4. ASSUME NEW r \in Req, DeleteTask(r), Visible(r) PROVE ByOwner(t, r)
  BY <1>4, DeleteFacts DEF Visible, ByOwner
<1> QED
  BY <1>0, <1>1, <1>2, <1>3, <1>4, WriteSteps

\* Only requests of a task's owner change the task, its tags or its existence.
THEOREM OnlyOwnersWrite == Spec => OtherUsersUntouched
BY OwnerOnlyStep, EffectsInvariance, PTL DEF Spec, OtherUsersUntouched, Untouched, ByOwner

\* What NamesComeWithTask says of one step.
Together ==
    /\ \A p \in projects' \ projects :
          \E t \in TaskId : tasks'[t] # NoRow /\ tasks'[t].project = p
    /\ \A n \in tags' \ tags : \E l \in links' : l[2] = n

\* A step that stores a name is the commit of a task that has it.
LEMMA TogetherStep == EInv /\ [Next]_vars => [Together]_vars
<1> SUFFICES ASSUME EInv, [Next]_vars PROVE Together
  OBVIOUS
<1>0. TypeOK /\ PhaseInv /\ IdInv /\ LockInv /\ ReadInv
  BY DEF EInv, IInv
<1>1. CASE UNCHANGED <<tags, projects>>
  BY <1>1 DEF Together
<1>2. ASSUME NEW r \in Req, Commit(r) PROVE Together
  <2>1. /\ tasks' = [tasks EXCEPT ![id[r]] = Stored(r)]
        /\ links' = (links \ unlinked[r]) \cup ({id[r]} \X Upserted(r))
        /\ tags' = tags \cup Upserted(r)
        /\ projects' = projects \cup ({ProjectOf(r)} \ {NoProject})
        /\ call[r].op \in FormOp
    BY <1>0, <1>2 DEF Commit, PhaseInv
  <2>2. Stored(r).project = ProjectOf(r)
    <3>1. Draft(r) = FormRow(r)
      BY <2>1 DEF Draft, FormOp
    <3>2. /\ FormRow(r).project = ProjectOf(r)
          /\ Updated(tasks[id[r]], FormRow(r)).project = ProjectOf(r)
      BY DEF FormRow, Updated
    <3> QED
      BY <3>1, <3>2 DEF Stored
  <2>3. id[r] \in TaskId /\ Stored(r) \in Row
    BY <1>0, <1>2, CommitFacts, StoredType
  <2>4. tasks'[id[r]] = Stored(r) /\ Stored(r) # NoRow
    BY <1>0, <2>1, <2>3, NullAssumption DEF TypeOK
  <2>5. ASSUME NEW n \in tags' \ tags PROVE \E l \in links' : l[2] = n
    <3>1. <<id[r], n>> \in links'
      BY <2>1, <2>5
    <3> QED
      BY <3>1
  <2> QED
    BY <2>1, <2>2, <2>3, <2>4, <2>5 DEF Together
<1>3. ASSUME NEW r \in Req, DeleteTask(r), Visible(r) PROVE UNCHANGED <<tags, projects>>
  BY <1>3, DeleteFacts
<1> QED
  BY <1>0, <1>1, <1>2, <1>3, WriteSteps

\* No project and no tag is stored without a task whose form named it.
THEOREM NoNameAlone == Spec => NamesComeWithTask
BY TogetherStep, EffectsInvariance, PTL DEF Spec, NamesComeWithTask, Together
==============================================================================
