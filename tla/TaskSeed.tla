------------------------------ MODULE TaskSeed ------------------------------
(***************************************************************************)
(* cmd/seed, run by hand against the database of a live application: it    *)
(* wipes the tasks, projects and tags of one user in one transaction,      *)
(* upserts its own projects and tags one by one, and inserts its tasks in  *)
(* a second transaction, by the ids of the rows it has upserted.           *)
(*                                                                         *)
(* As in TaskService a step is one SQL statement, read committed, and what *)
(* an open transaction has written stays with it until its commit.  Only a *)
(* wipe gives a name another row: a row of projects or tags is named by    *)
(* its user, its name and the wipes committed before it.                   *)
(***************************************************************************)
EXTENDS SeedDates, FiniteSets, SequencesExt

CONSTANTS
    Seeder,     \* the runs of cmd/seed
    Req,        \* the requests of the user, each served once
    User,
    Seeded,     \* the user named by -email
    Project,    \* project names
    Tag,        \* tag names
    BaseNames,  \* the project names, then the tag names a run upserts
    Count,      \* the tasks a run inserts, -tasks
    Drawn,      \* the projects and tags a task of a run may be drawn with
    Flags,      \* what -wipe may be for each of the runs
    Calls,      \* what the requests may ask for
    Saved,      \* the tasks stored before, a function from their ids
    NoRow,      \* no row
    NoProject   \* project_id IS NULL, or an empty project field in a form

Proc == Seeder \cup Req
Name == Project \cup Tag
TaskId == DOMAIN Saved \cup (Seeder \X (1 .. Count)) \cup (Req \X {1})
NameRow == User \X Name \X (0 .. Cardinality(Seeder))

\* A row of table tasks, with its rows of table task_tags.
Row == [user : User, project : NameRow \cup {NoProject}, tags : SUBSET NameRow]

Call == [op : {"create", "edit", "archive"}, task : TaskId,
         project : Project \cup {NoProject}, tags : SUBSET Tag]

ASSUME ProcAssumption == IsFiniteSet(Seeder) /\ Seeder \cap Req = {} /\ Project \cap Tag = {}
ASSUME RunAssumption == Seeded \in User /\ Count \in Nat \ {0} /\ Flags \subseteq [Seeder -> BOOLEAN]
ASSUME NamesAssumption ==
    /\ BaseNames \in Seq(Name)
    /\ \A i, j \in DOMAIN BaseNames :
          i < j => BaseNames[i] # BaseNames[j] /\ (BaseNames[j] \in Project => BaseNames[i] \in Project)
\* Rows stored before refer to names of their own user; BIGSERIAL gives new rows
\* new ids.
ASSUME SavedAssumption ==
    /\ \A t \in DOMAIN Saved :
          /\ Saved[t] \in Row
          /\ ({Saved[t].project} \ {NoProject}) \cup Saved[t].tags \subseteq {Saved[t].user} \X Name \X {0}
    /\ DOMAIN Saved \cap (NameRow \cup (Seeder \X (1 .. Count)) \cup (Req \X {1})) = {}
ASSUME DrawnAssumption ==
    Drawn \subseteq [project : (Project \cap ToSet(BaseNames)) \cup {NoProject},
                    tags : {T \in SUBSET (Tag \cap ToSet(BaseNames)) : Cardinality(T) <= 3}]
ASSUME CallsAssumption ==
    /\ Calls \subseteq [Req -> Call]
    /\ \A c \in Calls, r \in Req : c[r].op = "create" <=> c[r].task = <<r, 1>>
ASSUME NullAssumption == NoRow \notin Row /\ NoProject \notin NameRow \cup Project \cup TaskId

VARIABLES
    tasks,      \* the committed rows of tables tasks and task_tags
    names,      \* the committed rows of tables projects and tags
    wipes,      \* the wipes committed
    pc,         \* the statement a run or a request is at, or how it ended
    wipe,       \* the -wipe flag of a run
    call,       \* what a request asks for
    copy,       \* the project an archive has read with its task
    scan,       \* the rows a statement of a wipe has found and not locked yet
    doomed,     \* the rows the transaction of a wipe has deleted
    known,      \* the rows of projects and tags whose ids a run has
    drafts,     \* the tasks its transaction has inserted
    todo,       \* the tags still to link to the last of them, or by a form
    locks,      \* row locks: a key and "X", or "S" for FOR KEY SHARE
    before,     \* history: the user's rows when the wipe of a run began
    alone       \* history: only the run has written since then

dbVars == <<tasks, names, wipes>>
vars == <<tasks, names, wipes, pc, wipe, call, copy, scan, doomed, known, drafts, todo,
          locks, before, alone>>

\* The statements of a wipe: three DELETEs, and what the foreign keys of the
\* rows deleted do, ON DELETE SET NULL and CASCADE.
Stage == {"tasks", "projects", "set_null", "tags", "cascade"}
\* Mutant of Following: the tags are not deleted.
FollowingWithoutTags == [tasks |-> "projects", projects |-> "set_null", set_null |-> "cascade"]

Following ==
    [tasks |-> "projects", projects |-> "set_null", set_null |-> "tags", tags |-> "cascade"]
Ended == {"done", "failed"}

Init ==
    /\ tasks = [t \in TaskId |-> IF t \in DOMAIN Saved THEN Saved[t] ELSE NoRow]
    /\ names = (UNION {{Saved[t].project} \cup Saved[t].tags : t \in DOMAIN Saved}) \ {NoProject}
    /\ wipes = 0
    /\ pc = [x \in Proc |-> "new"]
    /\ wipe \in Flags
    /\ call \in Calls
    /\ copy = [r \in Req |-> NoProject]
    /\ scan = [s \in Seeder |-> {}]
    /\ doomed = [s \in Seeder |-> {}]
    /\ known = [s \in Seeder |-> {}]
    /\ drafts = [s \in Seeder |-> <<>>]
    /\ todo = [x \in Proc |-> {}]
    /\ locks = [x \in Proc |-> {}]
    /\ before = [s \in Seeder |-> {}]
    /\ alone = [s \in Seeder |-> FALSE]

------------------------------------------------------------------------------
(* Rows and the locks the next statement needs *)

\* Mutant of Live: the statements do not name the user.
LiveOfAnyUser(t) == tasks[t] # NoRow

Live(t) == tasks[t] # NoRow /\ tasks[t].user = Seeded
NamesIn(S) == {n \in names : n[1] = Seeded /\ n[2] \in S}

\* The row of a name: the one that is there, or a new one.
RowOf(name) ==
    IF NamesIn({name}) # {} THEN CHOOSE n \in NamesIn({name}) : TRUE ELSE <<Seeded, name, wipes>>

\* Names are UNIQUE (user_id, name): an insert of a name waits for its row.
TaskKey(t) == <<"task", t>>
LinksKey(t) == <<"links", t>>
NameKey(name) == <<"name", name>>

\* The rows a statement of a wipe finds.
Found(s, stage) ==
    CASE stage = "tasks" -> {t \in TaskId : Live(t)}
      [] stage = "projects" -> NamesIn(Project)
      [] stage = "set_null" -> {t \in TaskId : Live(t) /\ t \notin doomed[s] /\ tasks[t].project \in doomed[s]}
      [] stage = "tags" -> NamesIn(Tag)
      [] stage = "cascade" -> {t \in TaskId : Live(t) /\ t \notin doomed[s] /\ tasks[t].tags \cap doomed[s] # {}}

KeyOf(stage, row) ==
    CASE stage \in {"tasks", "set_null"} -> TaskKey(row)
      [] stage \in {"projects", "tags"} -> NameKey(row[2])
      [] stage = "cascade" -> LinksKey(row)

NextName(s) == BaseNames[Cardinality(known[s]) + 1]
Draft(s) == drafts[s][Len(drafts[s])]

\* The locks of which the next statement of x has to get one, with its mode:
\* "X" to delete or upsert, "S" for a foreign key; upsertTags of cmd/seed changes
\* no key column, so it only waits for an "X".
Needs(x) ==
    CASE pc[x] \in Stage -> {<<KeyOf(pc[x], row), "X">> : row \in scan[x]}
      [] pc[x] = "names" -> {<<NameKey(NextName(x)), IF NextName(x) \in Project THEN "X" ELSE "S">>}
      [] pc[x] = "insert" -> {<<NameKey(n[2]), "S">> : n \in {Draft(x).project} \cap names}
      [] pc[x] = "attach" -> {<<NameKey(n[2]), "S">> : n \in todo[x] \cap names}
      [] pc[x] = "project" -> {<<NameKey(p), "X">> : p \in {call[x].project} \ {NoProject}}
      [] pc[x] \in {"row", "write"} -> {<<TaskKey(call[x].task), "X">>}
      [] pc[x] = "unlink" -> {<<LinksKey(call[x].task), "X">>}
      [] pc[x] = "link" -> {<<NameKey(n), "X">> : n \in todo[x]}
      [] pc[x] = "fk" -> {<<NameKey(n[2]), "S">> : n \in {copy[x]} \cap names}
      [] OTHER -> {}

Blocks(y, lock) == <<lock[1], "X">> \in locks[y] \/ (lock[2] = "X" /\ <<lock[1], "S">> \in locks[y])
Free(x, lock) == \A y \in Proc \ {x} : ~ Blocks(y, lock)
WaitsFor(x, y) ==
    /\ x # y
    /\ \A lock \in Needs(x) : ~ Free(x, lock)
    /\ \E lock \in Needs(x) : Blocks(y, lock)

\* Mutant of Deadlocked: a circle is only noticed among runs of the seeder.
DeadlockedAmongRuns(x) ==
    \E S \in SUBSET Seeder :
        /\ x \in S
        /\ \A y \in S : (\E z \in S : WaitsFor(y, z)) /\ (\E z \in S : WaitsFor(z, y))

\* PostgreSQL looks for circles of waiting sessions.
Deadlocked(x) ==
    \E S \in SUBSET Proc :
        /\ x \in S
        /\ \A y \in S : (\E z \in S : WaitsFor(y, z)) /\ (\E z \in S : WaitsFor(z, y))

------------------------------------------------------------------------------
(* Steps *)

Goto(x, step) == pc' = [pc EXCEPT ![x] = step]
Take(x, lock) == locks' = [locks EXCEPT ![x] = @ \cup {lock}]

\* Mutant of End: a run that fails leaves its transaction open.
EndHolding(x, how) ==
    /\ Goto(x, how)
    /\ UNCHANGED locks
    /\ todo' = [todo EXCEPT ![x] = {}]
    /\ UNCHANGED <<wipe, call, copy, scan, doomed, known, drafts, before>>

\* A run exits or a request is answered; an open transaction ends.
End(x, how) ==
    /\ Goto(x, how)
    /\ locks' = [locks EXCEPT ![x] = {}]
    /\ todo' = [todo EXCEPT ![x] = {}]
    /\ IF x \in Seeder
         THEN /\ scan' = [scan EXCEPT ![x] = {}]
              /\ doomed' = [doomed EXCEPT ![x] = {}]
              /\ known' = [known EXCEPT ![x] = {}]
              /\ drafts' = [drafts EXCEPT ![x] = <<>>]
              /\ UNCHANGED copy
         ELSE copy' = [copy EXCEPT ![x] = NoProject] /\ UNCHANGED <<scan, doomed, known, drafts>>
    /\ UNCHANGED <<wipe, call, before>>

\* Mutant of AfterNames: the loop stops one name early.
AfterNamesButOne(k) == IF k < Len(BaseNames) - 1 THEN "names" ELSE "draw"

\* The statement that follows once k names are upserted.
AfterNames(k) == IF k < Len(BaseNames) THEN "names" ELSE "draw"

\* A statement of the wipe starts with the rows it finds then.
Scan(s, stage) ==
    /\ Goto(s, stage)
    /\ scan' = [scan EXCEPT ![s] = Found(s, stage)]

\* upsertUser has stored the user; a wipe comes next unless -wipe=false.
Start(s) ==
    /\ pc[s] = "new"
    /\ IF wipe[s]
         THEN /\ Scan(s, "tasks")
              /\ before' = [before EXCEPT ![s] = Found(s, "tasks") \cup NamesIn(Name)]
         ELSE Goto(s, AfterNames(0)) /\ UNCHANGED <<scan, before>>
    /\ UNCHANGED <<dbVars, wipe, call, copy, doomed, known, drafts, todo, locks>>

\* It waits for each row, looks at it again, and deletes it or what refers to it.
LockRow(s) ==
    /\ pc[s] \in Stage
    /\ \E row \in scan[s] :
          LET lock == <<KeyOf(pc[s], row), "X">>
          IN  /\ Free(s, lock)
              /\ scan' = [scan EXCEPT ![s] = @ \ {row}]
              /\ IF row \in Found(s, pc[s])
                   THEN /\ Take(s, lock)
                        /\ doomed' = IF pc[s] \in {"set_null", "cascade"}
                                       THEN doomed
                                       ELSE [doomed EXCEPT ![s] = @ \cup {row}]
                   ELSE UNCHANGED <<locks, doomed>>
    /\ UNCHANGED <<dbVars, pc, wipe, call, copy, known, drafts, todo, before>>

NextStatement(s) ==
    /\ pc[s] \in Stage \ {"cascade"}
    /\ scan[s] = {}
    /\ Scan(s, Following[pc[s]])
    /\ UNCHANGED <<dbVars, wipe, call, copy, doomed, known, drafts, todo, locks, before>>

\* tx.Commit of wipeUserData
CommitWipe(s) ==
    /\ pc[s] = "cascade"
    /\ scan[s] = {}
    /\ tasks' = [t \in TaskId |->
          CASE t \in doomed[s] -> NoRow
            [] tasks[t] = NoRow -> NoRow
            [] OTHER -> [tasks[t] EXCEPT !.project = IF @ \in doomed[s] THEN NoProject ELSE @,
                                         !.tags = @ \ doomed[s]]]
    /\ names' = names \ doomed[s]
    /\ wipes' = wipes + 1
    /\ Goto(s, AfterNames(0))
    /\ doomed' = [doomed EXCEPT ![s] = {}]
    /\ locks' = [locks EXCEPT ![s] = {}]
    /\ UNCHANGED <<wipe, call, copy, scan, known, drafts, todo, before>>

\* upsertProjects and upsertTags, each name a statement that commits by itself
UpsertName(s) ==
    /\ pc[s] = "names"
    /\ \A lock \in Needs(s) : Free(s, lock)
    /\ names' = names \cup {RowOf(NextName(s))}
    /\ known' = [known EXCEPT ![s] = @ \cup {RowOf(NextName(s))}]
    /\ Goto(s, AfterNames(Cardinality(known[s]) + 1))
    /\ UNCHANGED <<tasks, wipes, wipe, call, copy, scan, doomed, drafts, todo, locks, before>>

\* The loop of seedTasks: what the next task is like is drawn at random.
Draw(s) ==
    /\ pc[s] = "draw"
    /\ Len(drafts[s]) < Count
    /\ \E d \in Drawn :
          LET project == {n \in known[s] : n[2] = d.project}
              linked == {n \in known[s] : n[2] \in d.tags}
          IN  /\ drafts' = [drafts EXCEPT ![s] = Append(@,
                    [user |-> Seeded, tags |-> linked,
                     project |-> IF project = {} THEN NoProject ELSE CHOOSE n \in project : TRUE])]
              /\ todo' = [todo EXCEPT ![s] = linked]
    /\ Goto(s, "insert")
    /\ UNCHANGED <<dbVars, wipe, call, copy, scan, doomed, known, locks, before>>

AfterLinks(left) == IF left = {} THEN "draw" ELSE "attach"

\* Mutant of Refer: the column has no foreign key.
ReferUnchecked(s, n) ==
    /\ IF pc[s] = "insert"
         THEN Goto(s, AfterLinks(todo[s])) /\ UNCHANGED todo
         ELSE Goto(s, AfterLinks(todo[s] \ {n})) /\ todo' = [todo EXCEPT ![s] = @ \ {n}]
    /\ UNCHANGED <<wipe, call, copy, scan, doomed, known, drafts, locks, before>>

\* INSERT INTO tasks or task_tags: the foreign key needs row n to be there still.
Refer(s, n) ==
    IF n \notin names
      THEN End(s, "failed")
      ELSE LET lock == <<NameKey(n[2]), "S">>
           IN  /\ Free(s, lock)
               /\ Take(s, lock)
               /\ IF pc[s] = "insert"
                    THEN Goto(s, AfterLinks(todo[s])) /\ UNCHANGED todo
                    ELSE Goto(s, AfterLinks(todo[s] \ {n})) /\ todo' = [todo EXCEPT ![s] = @ \ {n}]
               /\ UNCHANGED <<wipe, call, copy, scan, doomed, known, drafts, before>>

\* Mutant of InsertTask: the statement is not part of the transaction.
InsertTaskAtOnce(s) ==
    /\ pc[s] = "insert"
    /\ Draft(s).project = NoProject
    /\ Goto(s, AfterLinks(todo[s]))
    /\ tasks' = [tasks EXCEPT ![<<s, Len(drafts[s])>>] = [Draft(s) EXCEPT !.tags = {}]]
    /\ UNCHANGED <<names, wipes, wipe, call, copy, scan, doomed, known, drafts, todo, locks, before>>

InsertTask(s) ==
    /\ pc[s] = "insert"
    /\ IF Draft(s).project = NoProject
         THEN /\ Goto(s, AfterLinks(todo[s]))
              /\ UNCHANGED <<wipe, call, copy, scan, doomed, known, drafts, todo, locks, before>>
         ELSE Refer(s, Draft(s).project)
    /\ UNCHANGED dbVars

AttachTag(s) ==
    /\ pc[s] = "attach"
    /\ \E n \in todo[s] : Refer(s, n)
    /\ UNCHANGED dbVars

\* tx.Commit of seedTasks
CommitTasks(s) ==
    /\ pc[s] = "draw"
    /\ Len(drafts[s]) = Count
    /\ tasks' = [t \in TaskId |-> IF t \in {s} \X (1 .. Count) THEN drafts[s][t[2]] ELSE tasks[t]]
    /\ End(s, "done")
    /\ UNCHANGED <<names, wipes>>

------------------------------------------------------------------------------
(* The application meanwhile: the forms and the Archive button of the user *)

RequestOnly == UNCHANGED <<wipe, call, scan, doomed, known, drafts, before>>

Submit(r) ==
    /\ pc[r] = "new"
    /\ Goto(r, IF call[r].op = "archive" THEN "get" ELSE "project")
    /\ RequestOnly
    /\ UNCHANGED <<dbVars, copy, todo, locks>>

UpsertProject(r) ==
    /\ pc[r] = "project"
    /\ \A lock \in Needs(r) : Free(r, lock)
    /\ locks' = [locks EXCEPT ![r] = @ \cup Needs(r)]
    /\ Goto(r, IF call[r].op = "create" THEN "unlink" ELSE "row")
    /\ RequestOnly
    /\ UNCHANGED <<dbVars, copy, todo>>

UpdateRow(r) ==
    /\ pc[r] = "row"
    /\ IF ~ Live(call[r].task)
         THEN End(r, "failed")
         ELSE /\ \A lock \in Needs(r) : Free(r, lock)
              /\ locks' = [locks EXCEPT ![r] = @ \cup Needs(r)]
              /\ Goto(r, "unlink")
              /\ RequestOnly
              /\ UNCHANGED <<copy, todo>>
    /\ UNCHANGED dbVars

ClearTags(r) ==
    /\ pc[r] = "unlink"
    /\ \A lock \in Needs(r) : Free(r, lock)
    /\ locks' = [locks EXCEPT ![r] = @ \cup Needs(r)]
    /\ todo' = [todo EXCEPT ![r] = call[r].tags]
    /\ Goto(r, "link")
    /\ RequestOnly
    /\ UNCHANGED <<dbVars, copy>>

LinkTag(r) ==
    /\ pc[r] = "link"
    /\ \E n \in todo[r] :
          /\ Free(r, <<NameKey(n), "X">>)
          /\ Take(r, <<NameKey(n), "X">>)
          /\ todo' = [todo EXCEPT ![r] = @ \ {n}]
    /\ RequestOnly
    /\ UNCHANGED <<dbVars, pc, copy>>

CommitForm(r) ==
    /\ pc[r] = "link"
    /\ todo[r] = {}
    /\ LET linked == {RowOf(n) : n \in call[r].tags}
           own == {RowOf(p) : p \in {call[r].project} \ {NoProject}}
       IN  /\ tasks' = [tasks EXCEPT ![call[r].task] =
                 [user |-> Seeded, tags |-> linked,
                  project |-> IF own = {} THEN NoProject ELSE RowOf(call[r].project)]]
           /\ names' = names \cup linked \cup own
    /\ End(r, "done")
    /\ UNCHANGED wipes

\* TaskService.Archive reads the task, outside any transaction ...
Get(r) ==
    /\ pc[r] = "get"
    /\ IF ~ Live(call[r].task)
         THEN End(r, "failed")
         ELSE /\ copy' = [copy EXCEPT ![r] = tasks[call[r].task].project]
              /\ Goto(r, "write")
              /\ RequestOnly
              /\ UNCHANGED <<todo, locks>>
    /\ UNCHANGED dbVars

\* ... and writes the whole row back; a project it did not have needs to exist.
WriteRow(r) ==
    /\ pc[r] = "write"
    /\ IF ~ Live(call[r].task)
         THEN End(r, "failed")
         ELSE /\ \A lock \in Needs(r) : Free(r, lock)
              /\ IF copy[r] \in {NoProject, tasks[call[r].task].project}
                   THEN End(r, "done")
                   ELSE /\ locks' = [locks EXCEPT ![r] = @ \cup Needs(r)]
                        /\ Goto(r, "fk")
                        /\ RequestOnly
                        /\ UNCHANGED <<copy, todo>>
    /\ IF pc'[r] = "done"
         THEN tasks' = [tasks EXCEPT ![call[r].task].project = copy[r]]
         ELSE UNCHANGED tasks
    /\ UNCHANGED <<names, wipes>>

\* Mutant of CheckFk: the project is not looked for.
CheckNothing(r) ==
    /\ pc[r] = "fk"
    /\ tasks' = [tasks EXCEPT ![call[r].task].project = copy[r]]
    /\ End(r, "done")
    /\ UNCHANGED <<names, wipes>>

\* Its foreign key: the project may be deleted since, or be locked by a wipe.
CheckFk(r) ==
    /\ pc[r] = "fk"
    /\ IF copy[r] \notin names
         THEN End(r, "failed") /\ UNCHANGED tasks
         ELSE /\ \A lock \in Needs(r) : Free(r, lock)
              /\ tasks' = [tasks EXCEPT ![call[r].task].project = copy[r]]
              /\ End(r, "done")
    /\ UNCHANGED <<names, wipes>>

------------------------------------------------------------------------------

\* A statement fails, or the run is killed.
Fail(x) ==
    /\ pc[x] \notin {"new"} \cup Ended
    /\ End(x, "failed")
    /\ UNCHANGED dbVars

\* PostgreSQL ends a deadlock by failing the statement of one of its members.
DeadlockAbort(x) ==
    /\ Deadlocked(x)
    /\ End(x, "failed")
    /\ UNCHANGED dbVars

SeedStep(s) ==
    \/ Start(s) \/ LockRow(s) \/ NextStatement(s) \/ CommitWipe(s)
    \/ UpsertName(s) \/ Draw(s) \/ InsertTask(s) \/ AttachTag(s) \/ CommitTasks(s)

RequestStep(r) ==
    \/ UpsertProject(r) \/ UpdateRow(r) \/ ClearTags(r) \/ LinkTag(r) \/ CommitForm(r)
    \/ Get(r) \/ WriteRow(r) \/ CheckFk(r)

\* What x does is seen by the runs whose wipe has begun.
Watch(x) ==
    alone' = [s \in Seeder |->
        IF s = x THEN alone[s] \/ (wipe[s] /\ pc[s] = "new")
                 ELSE alone[s] /\ dbVars' = dbVars]

Done ==
    /\ \A x \in Proc : pc[x] \in Ended
    /\ UNCHANGED vars

Next ==
    \/ \E s \in Seeder : SeedStep(s) /\ Watch(s)
    \/ \E r \in Req : (Submit(r) \/ RequestStep(r)) /\ Watch(r)
    \/ \E x \in Proc : (Fail(x) \/ DeadlockAbort(x)) /\ Watch(x)
    \/ Done

Spec == Init /\ [][Next]_vars

\* A run goes on, so does a request once it is being served, and a deadlock is
\* found.
FairSpec ==
    /\ Spec
    /\ \A s \in Seeder : WF_vars(SeedStep(s) /\ Watch(s))
    /\ \A r \in Req : WF_vars(RequestStep(r) /\ Watch(r))
    /\ WF_vars(\E x \in Proc : DeadlockAbort(x) /\ Watch(x))

------------------------------------------------------------------------------
(* Properties *)

\* What a task refers to is there, and is its user's, although runs keep the ids
\* of rows they have upserted before a wipe, and forms name them.
TypeOK ==
    /\ \A t \in TaskId : tasks[t] # NoRow =>
          /\ tasks[t] \in Row
          /\ ({tasks[t].project} \ {NoProject}) \cup tasks[t].tags \subseteq {n \in names : n[1] = tasks[t].user}
    /\ \A m, n \in names : m[1] = n[1] /\ m[2] = n[2] => m = n
    /\ wipes \in 0 .. Cardinality(Seeder)
    /\ \A s \in Seeder : doomed[s] \subseteq TaskId \cup names /\ Len(drafts[s]) <= Count
    /\ \A x, y \in Proc : \A lock \in locks[x] : x # y => ~ Blocks(y, lock)

\* README.md:31: "Existing tasks/projects/tags for that user are wiped before
\* seeding."  Whatever requests and other runs do, no task, project or tag that
\* was there when the wipe began is left when the run goes on to seed.
WipedBeforeSeeding ==
    \A s \in Seeder : wipe[s] /\ pc[s] \in {"names", "draw", "insert", "attach", "done"} =>
        \A row \in before[s] : row \notin names /\ (row \in TaskId => tasks[row] = NoRow)

\* A run that nobody disturbs ends with its tasks and its names and nothing
\* else, whatever an earlier run that failed, or the user, has left behind.
SeedIsExact ==
    \A s \in Seeder : pc[s] = "done" /\ alone[s] =>
        /\ {t \in TaskId : Live(t)} = {s} \X (1 .. Count)
        /\ {n[2] : n \in NamesIn(Name)} = ToSet(BaseNames)

\* The tasks of a run appear together or not at all.
SeededTogether ==
    [][\A s \in Seeder :
          (\E k \in 1 .. Count : tasks[<<s, k>>] = NoRow /\ tasks'[<<s, k>>] # NoRow) =>
              \A k \in 1 .. Count : tasks'[<<s, k>>] # NoRow]_vars

\* A run takes away, or changes, only the user's rows, and these in one step at
\* the end of its wipe: one that fails before, or only appends (README.md:36),
\* leaves every task as it was.
OnlyAWipeDeletes ==
    [][LET wiped == \E s \in Seeder : pc[s] = "cascade" /\ pc'[s] \in {"names", "draw"}
       IN  /\ \A t \in TaskId : tasks[t] # NoRow /\ tasks'[t] # tasks[t] =>
                 \/ wiped /\ tasks[t].user = Seeded
                 \/ \E r \in Req : pc'[r] # pc[r] /\ call[r].task = t
           /\ \A n \in names \ names' : wiped /\ n[1] = Seeded]_vars

\* The times of the tasks a run has inserted, whichever it drew, are in order.
TasksDatedInOrder == \A s \in Seeder : Len(drafts[s]) > 0 => SeededDatesOrdered

\* Every run ends, and every request that is served, although they may wait for
\* each other in circles: a wipe that holds a task waits for its project, a form
\* that has upserted that project waits for the task; two wipes hold different
\* rows of one statement.
EveryRunEnds == <>[](\A x \in Proc : pc[x] \in {"new"} \cup Ended)
==============================================================================
