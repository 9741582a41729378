----------------------------- MODULE TaskService -----------------------------
(***************************************************************************)
(* The writing half of internal/app/tasks.go over the PostgreSQL store of  *)
(* internal/store: Create, Update, SetStatus, Archive, Unarchive, Delete.  *)
(*                                                                         *)
(* Every HTTP request runs its handler in a goroutine of its own.  A step  *)
(* of a request is one SQL statement (or the stretch of Go code between    *)
(* two of them), and the steps of different requests interleave.  The      *)
(* database is read committed, PostgreSQL's default, which BeginTx(ctx,    *)
(* nil) keeps: a statement sees the rows committed before it.  The writes  *)
(* of an open transaction are therefore kept with the request (its locks,  *)
(* its unlinked rows, the task row it will store) until Commit, and a      *)
(* rollback drops them.                                                    *)
(***************************************************************************)
EXTENDS Integers, FiniteSets, SequencesExt

CONSTANTS
    Req,        \* the requests; each one is served once
    User,
    Body,       \* what a form says: title, description, priority and due date
    BadBody,    \* the bodies domain.ValidateTaskInput rejects
    Project,    \* project names
    Tag,        \* tag names
    Calls,      \* the calls the requests may carry, the workload of an instance
    Saved,      \* the task rows stored before them, without tags
    NoRow,      \* no row under this id
    NoProject,  \* project_id IS NULL, or an empty project field in a form
    MaxTask,    \* bound: task ids are 1 .. MaxTask
    MaxTime,    \* bound: the clock reads 1 .. MaxTime
    OneTab      \* TRUE when a user has at most one request in flight

Status == {"todo", "in_progress", "done"}
TaskId == 1 .. MaxTask
Time == 1 .. MaxTime
NoTime == 0     \* archived_at IS NULL

\* Projects and tags are UNIQUE (user_id, name), so that pair names the row.
ProjectRow == User \X Project
TagRow == User \X Tag

Row == [user : User, body : Body, status : Status,
        project : ProjectRow \cup {NoProject},
        created : Time, updated : Time, archived : Time \cup {NoTime}]

FormOp == {"create", "update"}
Op == FormOp \cup {"set_status", "archive", "unarchive", "delete"}

Call == [op : Op, user : User, id : 0 .. MaxTask, body : Body, status : Status,
         project : Project \cup {NoProject}, tags : Seq(Tag)]

ASSUME BodyAssumption == BadBody \subseteq Body
ASSUME BoundAssumption == MaxTask \in Nat \ {0} /\ MaxTime \in Nat \ {0}
ASSUME NullAssumption == NoRow \notin Row /\ NoProject \notin ProjectRow \cup Project
ASSUME CallsAssumption == \A c \in Calls : c \in Call /\ (c.op = "create" <=> c.id = 0)
ASSUME SavedAssumption ==
    /\ Saved \in Seq(Row) /\ Len(Saved) <= MaxTask
    /\ \A t \in 1 .. Len(Saved) :
          /\ Saved[t].created = 1 /\ Saved[t].updated = 1 /\ Saved[t].archived \in {NoTime, 1}
          /\ Saved[t].project # NoProject => Saved[t].project[1] = Saved[t].user
ASSUME OneTabAssumption == OneTab \in BOOLEAN

VARIABLES
    tasks,      \* the committed rows of table tasks
    links,      \* the committed rows of table task_tags
    tags,       \* the committed rows of table tags
    projects,   \* the committed rows of table projects
    nextId,     \* the sequence behind tasks.id
    clock,      \* time.Now()
    pc,         \* the step a request is at, or the answer it gave
    call,       \* the call a request carries
    id,         \* the task it works on: the one in the URL, or the one it inserted
    existing,   \* the row it read, a copy in its memory
    now,        \* the time it took
    unlinked,   \* the task_tags rows its transaction has deleted
    todo,       \* the tags its transaction has still to link
    locks       \* the row locks it holds

dbVars == <<tasks, links, tags, projects>>
reqVars == <<pc, call, id, existing, now, unlinked, todo, locks>>
vars == <<tasks, links, tags, projects, nextId, clock,
          pc, call, id, existing, now, unlinked, todo, locks>>

TaskLock(t) == <<"task", t>>

\* Mutant of ProjectLock: the constraint is UNIQUE (name).
ProjectLockOfAnyUser(p) == <<"project", <<CHOOSE u \in User : TRUE, p[2]>>>>

ProjectLock(p) == <<"project", p>>
TagLock(n) == <<"tag", n>>
Lock == ({"task"} \X TaskId) \cup ({"project"} \X ProjectRow) \cup ({"tag"} \X TagRow)

Reply == {"ok", "not_found", "invalid", "error"}
Statement == {"get", "project", "row", "unlink", "link", "reread", "write", "fk", "delete"}

TypeOK ==
    /\ tasks \in [TaskId -> Row \cup {NoRow}]
    /\ links \subseteq TaskId \X TagRow
    /\ tags \subseteq TagRow
    /\ projects \subseteq ProjectRow
    /\ nextId \in 1 .. MaxTask + 1
    /\ clock \in Time
    /\ pc \in [Req -> {"new", "stamp"} \cup Statement \cup Reply]
    /\ call \in [Req -> Calls]
    /\ id \in [Req -> 0 .. MaxTask]
    /\ existing \in [Req -> Row \cup {NoRow}]
    /\ now \in [Req -> Time \cup {NoTime}]
    /\ unlinked \in [Req -> SUBSET (TaskId \X TagRow)]
    /\ todo \in [Req -> Seq(Tag)]
    /\ locks \in [Req -> SUBSET Lock]

Init ==
    /\ tasks = [t \in TaskId |-> IF t <= Len(Saved) THEN Saved[t] ELSE NoRow]
    /\ links = {}
    /\ tags = {}
    /\ projects = {Saved[t].project : t \in 1 .. Len(Saved)} \ {NoProject}
    /\ nextId = Len(Saved) + 1
    /\ clock = 1
    /\ pc = [r \in Req |-> "new"]
    /\ call \in [Req -> Calls]
    /\ id = [r \in Req |-> call[r].id]
    /\ existing = [r \in Req |-> NoRow]
    /\ now = [r \in Req |-> NoTime]
    /\ unlinked = [r \in Req |-> {}]
    /\ todo = [r \in Req |-> <<>>]
    /\ locks = [r \in Req |-> {}]

------------------------------------------------------------------------------
(* What the statements read *)

LinksOf(t) == {l \in links : l[1] = t}

\* Mutant of Visible: the WHERE clauses name the id only.
VisibleToAnyone(r) == id[r] \in TaskId /\ tasks[id[r]] # NoRow

\* WHERE id = $1 AND user_id = $2
Visible(r) == id[r] \in TaskId /\ tasks[id[r]] # NoRow /\ tasks[id[r]].user = call[r].user

\* LEFT JOIN projects p ON p.id = t.project_id AND p.user_id = t.user_id
Scan(row) ==
    IF row.project \in projects /\ row.project[1] = row.user
      THEN row
      ELSE [row EXCEPT !.project = NoProject]

\* Mutant of ProjectOf: an empty name is upserted like any other.
ProjectOfEmptyName(r) == <<call[r].user, call[r].project>>

\* The row a form's project name resolves to.
ProjectOf(r) ==
    IF call[r].project = NoProject THEN NoProject ELSE <<call[r].user, call[r].project>>

\* The tags rows r's transaction has upserted.
Upserted(r) == {n \in TagRow : TagLock(n) \in locks[r]}

------------------------------------------------------------------------------
(* The row a request stores *)

\* Mutant of FormRow: Update does not carry ArchivedAt over.
FormRowForgetsArchive(r) ==
    [user |-> call[r].user, body |-> call[r].body, status |-> call[r].status,
     project |-> ProjectOf(r), updated |-> now[r],
     created |-> IF call[r].op = "create" THEN now[r] ELSE existing[r].created,
     archived |-> NoTime]

FormRow(r) ==
    [user |-> call[r].user, body |-> call[r].body, status |-> call[r].status,
     project |-> ProjectOf(r), updated |-> now[r],
     created |-> IF call[r].op = "create" THEN now[r] ELSE existing[r].created,
     archived |-> IF call[r].op = "create" THEN NoTime ELSE existing[r].archived]

\* Mutant of ArchivedRow: Archive does not set UpdatedAt.
ArchivedRowNotDated(r) == [existing[r] EXCEPT !.archived = now[r]]

StatusRow(r) == [existing[r] EXCEPT !.status = call[r].status, !.updated = now[r]]
ArchivedRow(r) == [existing[r] EXCEPT !.archived = now[r], !.updated = now[r]]
UnarchivedRow(r) == [existing[r] EXCEPT !.archived = NoTime, !.updated = now[r]]

Draft(r) ==
    CASE call[r].op \in FormOp -> FormRow(r)
      [] call[r].op = "set_status" -> StatusRow(r)
      [] call[r].op = "archive" -> ArchivedRow(r)
      [] call[r].op = "unarchive" -> UnarchivedRow(r)

\* UPDATE tasks SET every column but user_id and created_at
Updated(row, draft) == [draft EXCEPT !.user = row.user, !.created = row.created]

Stored(r) ==
    IF call[r].op = "create" THEN Draft(r) ELSE Updated(tasks[id[r]], Draft(r))

------------------------------------------------------------------------------
(* Row locks *)

Free(r, k) == \A s \in Req \ {r} : k \notin locks[s]

\* An UPDATE that changes project_id takes a KEY SHARE lock on the projects
\* row, which the FOR UPDATE lock of an upsert in an open transaction blocks.
FkBlocked(r) ==
    LET p == Draft(r).project
    IN  /\ p # NoProject
        /\ p # tasks[id[r]].project
        /\ ~ Free(r, ProjectLock(p))

\* The locks the next statement of r has to have.
Wanted(r) ==
    CASE pc[r] = "project" /\ ProjectOf(r) # NoProject -> {ProjectLock(ProjectOf(r))}
      [] pc[r] = "row" /\ call[r].op = "update" /\ Visible(r) -> {TaskLock(id[r])}
      [] pc[r] = "link" /\ todo[r] # <<>> -> {TagLock(<<call[r].user, Head(todo[r])>>)}
      [] pc[r] = "fk" -> {ProjectLock(Draft(r).project)}
      [] pc[r] \in {"write", "delete"} /\ Visible(r) -> {TaskLock(id[r])}
      [] OTHER -> {}

WaitsFor(r, s) == r # s /\ Wanted(r) \cap locks[s] # {}

\* r is on a cycle of waiting requests: each of them waits for one of them
\* and is waited for by one of them.
Deadlocked(r) ==
    \E S \in SUBSET Req :
        /\ r \in S
        /\ \A x \in S : (\E y \in S : WaitsFor(x, y)) /\ (\E y \in S : WaitsFor(y, x))

------------------------------------------------------------------------------
(* Steps *)

Goto(r, step) == pc' = [pc EXCEPT ![r] = step]
Take(r, k) == locks' = [locks EXCEPT ![r] = @ \cup {k}]

\* Mutant of Finish: WithinTransaction neither commits nor rolls back.
FinishHoldingLocks(r, reply) ==
    /\ Goto(r, reply)
    /\ existing' = [existing EXCEPT ![r] = NoRow]
    /\ now' = [now EXCEPT ![r] = NoTime]
    /\ unlinked' = [unlinked EXCEPT ![r] = {}]
    /\ todo' = [todo EXCEPT ![r] = <<>>]
    /\ UNCHANGED <<call, id, locks>>

\* The call returns: a transaction that is still open ends, its locks go.
Finish(r, reply) ==
    /\ Goto(r, reply)
    /\ existing' = [existing EXCEPT ![r] = NoRow]
    /\ now' = [now EXCEPT ![r] = NoTime]
    /\ unlinked' = [unlinked EXCEPT ![r] = {}]
    /\ todo' = [todo EXCEPT ![r] = <<>>]
    /\ locks' = [locks EXCEPT ![r] = {}]
    /\ UNCHANGED <<call, id>>

InFlight(r) == pc[r] \notin {"new"} \cup Reply

\* The request reaches the service.
Begin(r) ==
    /\ pc[r] = "new"
    /\ OneTab => \A s \in Req : call[s].user = call[r].user => ~ InFlight(s)
    /\ IF call[r].op \in FormOp /\ call[r].body \in BadBody
         THEN Finish(r, "invalid")
         ELSE /\ Goto(r, CASE call[r].op = "create" -> "stamp"
                           [] call[r].op = "delete" -> "delete"
                           [] OTHER -> "get")
              /\ UNCHANGED <<call, id, existing, now, unlinked, todo, locks>>
    /\ UNCHANGED <<dbVars, nextId, clock>>

\* Tasks.Get outside any transaction.
Get(r) ==
    /\ pc[r] = "get"
    /\ IF Visible(r)
         THEN /\ existing' = [existing EXCEPT ![r] = Scan(tasks[id[r]])]
              /\ Goto(r, "stamp")
              /\ UNCHANGED <<call, id, now, unlinked, todo, locks>>
         ELSE Finish(r, "not_found")
    /\ UNCHANGED <<dbVars, nextId, clock>>

IsArchived(row) == row.archived # NoTime

\* Archiving an archived task, or unarchiving one that is not, writes nothing.
NothingToDo(r) ==
    \/ call[r].op = "archive" /\ IsArchived(existing[r])
    \/ call[r].op = "unarchive" /\ ~ IsArchived(existing[r])

\* now := time.Now(), from the copy read to the first statement of the write.
Stamp(r) ==
    /\ pc[r] = "stamp"
    /\ IF NothingToDo(r)
         THEN Finish(r, "ok")
         ELSE /\ now' = [now EXCEPT ![r] = clock]
              /\ Goto(r, IF call[r].op \in FormOp THEN "project" ELSE "write")
              /\ UNCHANGED <<call, id, existing, unlinked, todo, locks>>
    /\ UNCHANGED <<dbVars, nextId, clock>>

\* Mutant of ResolveProject: the upsert runs on s.Queries, outside the transaction.
ResolveProjectAtOnce(r) ==
    /\ pc[r] = "project"
    /\ projects' = projects \cup ({ProjectOf(r)} \ {NoProject})
    /\ Goto(r, "row")
    /\ UNCHANGED <<tasks, links, tags, nextId, clock,
                   call, id, existing, now, unlinked, todo, locks>>

\* BeginTx, then the upsert of the project, which locks its row until the end
\* of the transaction.
ResolveProject(r) ==
    /\ pc[r] = "project"
    /\ IF ProjectOf(r) = NoProject
         THEN UNCHANGED locks
         ELSE /\ Free(r, ProjectLock(ProjectOf(r)))
              /\ Take(r, ProjectLock(ProjectOf(r)))
    /\ Goto(r, "row")
    /\ UNCHANGED <<dbVars, nextId, clock, call, id, existing, now, unlinked, todo>>

\* INSERT INTO tasks ... RETURNING id.  The sequence is not rolled back.
InsertRow(r) ==
    /\ pc[r] = "row"
    /\ call[r].op = "create"
    /\ nextId <= MaxTask
    /\ id' = [id EXCEPT ![r] = nextId]
    /\ nextId' = nextId + 1
    /\ Take(r, TaskLock(nextId))
    /\ Goto(r, "unlink")
    /\ UNCHANGED <<dbVars, clock, call, existing, now, unlinked, todo>>

\* UPDATE tasks inside the transaction; no row updated rolls it back.
UpdateRow(r) ==
    /\ pc[r] = "row"
    /\ call[r].op = "update"
    /\ IF Visible(r)
         THEN /\ Free(r, TaskLock(id[r]))
              /\ Take(r, TaskLock(id[r]))
              /\ Goto(r, "unlink")
              /\ UNCHANGED <<call, id, existing, now, unlinked, todo>>
         ELSE Finish(r, "not_found")
    /\ UNCHANGED <<dbVars, nextId, clock>>

\* Mutant of ClearTags: the new tags are added to the old ones.
ClearNoTags(r) ==
    /\ pc[r] = "unlink"
    /\ todo' = [todo EXCEPT ![r] = call[r].tags]
    /\ Goto(r, "link")
    /\ UNCHANGED <<dbVars, nextId, clock, call, id, existing, now, unlinked, locks>>

\* Mutant of ClearTags: DELETE FROM task_tags without its WHERE clause.
ClearAllTags(r) ==
    /\ pc[r] = "unlink"
    /\ unlinked' = [unlinked EXCEPT ![r] = links]
    /\ todo' = [todo EXCEPT ![r] = call[r].tags]
    /\ Goto(r, "link")
    /\ UNCHANGED <<dbVars, nextId, clock, call, id, existing, now, locks>>

\* ReplaceTaskTags, DELETE FROM task_tags WHERE task_id = $1
ClearTags(r) ==
    /\ pc[r] = "unlink"
    /\ unlinked' = [unlinked EXCEPT ![r] = LinksOf(id[r])]
    /\ todo' = [todo EXCEPT ![r] = call[r].tags]
    /\ Goto(r, "link")
    /\ UNCHANGED <<dbVars, nextId, clock, call, id, existing, now, locks>>

\* upsertTag, which locks the tags row until the end of the transaction, and
\* INSERT INTO task_tags.
LinkTag(r) ==
    /\ pc[r] = "link"
    /\ todo[r] # <<>>
    /\ LET k == TagLock(<<call[r].user, Head(todo[r])>>)
       IN  Free(r, k) /\ Take(r, k)
    /\ todo' = [todo EXCEPT ![r] = Tail(@)]
    /\ UNCHANGED <<dbVars, nextId, clock, pc, call, id, existing, now, unlinked>>

\* tx.Commit.  Its answer may be lost after the commit took effect.
Commit(r) ==
    /\ pc[r] = "link"
    /\ todo[r] = <<>>
    /\ tasks' = [tasks EXCEPT ![id[r]] = Stored(r)]
    /\ links' = (links \ unlinked[r]) \cup ({id[r]} \X Upserted(r))
    /\ tags' = tags \cup Upserted(r)
    /\ projects' = projects \cup ({ProjectOf(r)} \ {NoProject})
    /\ \E answer \in {"reread", "error"} : Finish(r, answer)
    /\ UNCHANGED <<nextId, clock>>

\* Create and Update return what Tasks.Get reads after the commit.
Reread(r) ==
    /\ pc[r] = "reread"
    /\ Finish(r, IF Visible(r) THEN "ok" ELSE "not_found")
    /\ UNCHANGED <<dbVars, nextId, clock>>

\* Mutant of WriteRow: an upsert, which inserts the row it does not find.
UpsertRow(r) ==
    /\ pc[r] = "write"
    /\ Free(r, TaskLock(id[r]))
    /\ tasks' = [tasks EXCEPT ![id[r]] = Draft(r)]
    /\ Finish(r, "ok")
    /\ UNCHANGED <<links, tags, projects, nextId, clock>>

\* The statement of its own that SetStatus, Archive and Unarchive end with.
\* Its answer may be lost.
WriteRow(r) ==
    /\ pc[r] = "write"
    /\ IF ~ Visible(r)
         THEN Finish(r, "not_found") /\ UNCHANGED tasks
         ELSE /\ Free(r, TaskLock(id[r]))
              /\ IF FkBlocked(r)
                   THEN /\ Take(r, TaskLock(id[r]))
                        /\ Goto(r, "fk")
                        /\ UNCHANGED <<tasks, call, id, existing, now, unlinked, todo>>
                   ELSE /\ tasks' = [tasks EXCEPT ![id[r]] = Stored(r)]
                        /\ \E answer \in {"ok", "error"} : Finish(r, answer)
    /\ UNCHANGED <<links, tags, projects, nextId, clock>>

\* The same statement once the projects row it refers to is released.
CheckFk(r) ==
    /\ pc[r] = "fk"
    /\ Free(r, ProjectLock(Draft(r).project))
    /\ tasks' = [tasks EXCEPT ![id[r]] = Stored(r)]
    /\ \E answer \in {"ok", "error"} : Finish(r, answer)
    /\ UNCHANGED <<links, tags, projects, nextId, clock>>

\* DELETE FROM tasks, whose foreign keys cascade to task_tags.
DeleteTask(r) ==
    /\ pc[r] = "delete"
    /\ IF ~ Visible(r)
         THEN Finish(r, "not_found") /\ UNCHANGED <<tasks, links>>
         ELSE /\ Free(r, TaskLock(id[r]))
              /\ tasks' = [tasks EXCEPT ![id[r]] = NoRow]
              /\ links' = links \ LinksOf(id[r])
              /\ \E answer \in {"ok", "error"} : Finish(r, answer)
    /\ UNCHANGED <<tags, projects, nextId, clock>>

\* A statement fails: the connection, the context or the database gave up.
Fail(r) ==
    /\ pc[r] \in Statement
    /\ Finish(r, "error")
    /\ UNCHANGED <<dbVars, nextId, clock>>

\* PostgreSQL ends a deadlock by failing the statement of one of its members.
DeadlockAbort(r) ==
    /\ Deadlocked(r)
    /\ Finish(r, "error")
    /\ UNCHANGED <<dbVars, nextId, clock>>

Tick ==
    /\ clock < MaxTime
    /\ clock' = clock + 1
    /\ UNCHANGED <<dbVars, nextId, reqVars>>

\* Every request is answered: nothing is left to do.
Quiesced ==
    /\ \A r \in Req : pc[r] \in Reply
    /\ UNCHANGED vars

\* The steps a request takes by itself once it is being served.
Step(r) ==
    \/ Get(r) \/ Stamp(r) \/ ResolveProject(r)
    \/ InsertRow(r) \/ UpdateRow(r) \/ ClearTags(r) \/ LinkTag(r)
    \/ Commit(r) \/ Reread(r) \/ WriteRow(r) \/ CheckFk(r) \/ DeleteTask(r)

Next ==
    \/ \E r \in Req : Begin(r) \/ Step(r) \/ Fail(r) \/ DeadlockAbort(r)
    \/ Tick
    \/ Quiesced

Spec == Init /\ [][Next]_vars

------------------------------------------------------------------------------
(* Properties *)

\* What a row refers to exists and belongs to the row's user: a task's project,
\* the task and the tag of every link.  The foreign keys only check that the
\* rows exist; that they are the same user's rests on the queries' WHERE
\* clauses and on ReplaceTaskTags running after an insert or update of the task.
OwnerConsistent ==
    /\ \A t \in TaskId : tasks[t] # NoRow =>
          \/ tasks[t].project = NoProject
          \/ tasks[t].project \in projects /\ tasks[t].project[1] = tasks[t].user
    /\ \A l \in links :
          /\ tasks[l[1]] # NoRow
          /\ l[2] \in tags
          /\ l[2][1] = tasks[l[1]].user

\* A task was created before it was updated, archived between the two, and all
\* of it in the past, although every write carries times taken before the
\* write waited for its locks, and a copy of the row read earlier still.
TimestampsOrdered ==
    \A t \in TaskId : tasks[t] # NoRow =>
        /\ tasks[t].created <= tasks[t].updated
        /\ tasks[t].updated <= clock
        /\ IsArchived(tasks[t]) =>
              tasks[t].created <= tasks[t].archived /\ tasks[t].archived <= tasks[t].updated

\* Users never wait for each other: names are unique per user and every
\* statement is scoped to its user, so no user's requests queue behind, or
\* deadlock with, another's.
WaitsStayWithinUser ==
    \A r, s \in Req : WaitsFor(r, s) => call[r].user = call[s].user

Acts(r) == pc'[r] # pc[r]

\* Whatever changes a task's tags replaces all of them by those of one form:
\* two edits of a task that interleave never leave it with a mixture.
TagsFromOneWrite ==
    [][\A t \in TaskId : LinksOf(t)' # LinksOf(t) =>
          \/ tasks'[t] = NoRow
          \/ \E r \in Req :
                /\ Acts(r)
                /\ id[r] = t
                /\ LinksOf(t)' = {t} \X ({call[r].user} \X ToSet(call[r].tags))]_vars

\* What a form says is stored as a whole: a task appears, or gets another body,
\* in one step that gives it the status, the project and the tags of the same
\* form, wherever a failure, a deadlock or the end of the process strikes.
FormsAreStoredWhole ==
    [][\A t \in TaskId :
          tasks'[t] # NoRow /\ (tasks[t] = NoRow \/ tasks'[t].body # tasks[t].body) =>
              \E r \in Req :
                 /\ Acts(r)
                 /\ id[r] = t
                 /\ call[r].op \in FormOp
                 /\ tasks'[t].body = call[r].body /\ tasks'[t].status = call[r].status
                 /\ tasks'[t].project = ProjectOf(r)
                 /\ LinksOf(t)' = {t} \X ({call[r].user} \X ToSet(call[r].tags))]_vars

Inserting(t) ==
    \E r \in Req : call[r].op = "create" /\ id[r] = t /\ pc[r] \in {"unlink", "link"}

\* A deleted task never comes back, whatever edits of it were under way when
\* it was deleted, and the id of a create that was rolled back is never used.
GoneStaysGone ==
    [][\A t \in TaskId :
          t < nextId /\ tasks[t] = NoRow /\ ~ Inserting(t) => tasks'[t] = NoRow]_vars

\* A project or a tag appears only together with the task whose form named it:
\* an edit that fails, or finds its task gone, leaves no name behind.
NamesComeWithTask ==
    [][/\ \A p \in projects' \ projects :
             \E t \in TaskId : tasks'[t] # NoRow /\ tasks'[t].project = p
       /\ \A n \in tags' \ tags : \E l \in links' : l[2] = n]_vars

\* A row is changed or deleted, and its tags are changed, only by a request of
\* the user it belongs to, and stays that user's.
OtherUsersUntouched ==
    [][\A t \in TaskId :
          tasks[t] # NoRow /\ (tasks'[t] # tasks[t] \/ LinksOf(t)' # LinksOf(t)) =>
              \E r \in Req :
                 /\ Acts(r)
                 /\ id[r] = t
                 /\ call[r].user = tasks[t].user
                 /\ tasks'[t] # NoRow => tasks'[t].user = tasks[t].user]_vars

\* Every request that is being served is answered, although requests that link
\* the same tags in opposite orders, or store a project they read before it was
\* locked, can wait for each other in a circle, and although the process may end
\* under them: each is served once, so from some time on none is left.
EveryRequestAnswered == <>[](\A r \in Req : ~ InFlight(r))

\* README.md:47: "Users can create, edit, delete, and mark tasks as done."  What
\* a user marked stays so until a request asks for another status.
StatusAsRequested ==
    [][\A t \in TaskId :
          tasks[t] # NoRow /\ tasks'[t] # NoRow /\ tasks'[t].status # tasks[t].status =>
              \E r \in Req :
                 /\ Acts(r)
                 /\ id[r] = t
                 /\ call[r].op \in {"update", "set_status"}
                 /\ call[r].status = tasks'[t].status]_vars

\* internal/web/util.go:221 answers an error with "Something went wrong. Please
\* try again.": a create that is answered so has stored nothing.
FailedCreateStoresNothing ==
    \A r \in Req :
        pc[r] = "error" /\ call[r].op = "create" /\ id[r] # 0 => tasks[id[r]] = NoRow

------------------------------------------------------------------------------
(* The service implements TaskBoard when no user has two requests in flight. *)

\* The names in the rows of a task's links.
TagsOf(t) == {n \in TagRow : <<t, n>> \in links}

Board == INSTANCE TaskBoard WITH
    tagsOf <- [t \in TaskId |-> TagsOf(t)],
    used <- {t \in TaskId : t < nextId /\ ~ Inserting(t)}

\* With one tab per user each operation takes effect in one step, on the task
\* as it is at that step: nothing an earlier request of the user wrote is lost,
\* whatever the other users do, wherever a statement fails.
OneTabIsAtomic == Board!Spec
==============================================================================
