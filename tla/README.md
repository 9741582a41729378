# gotaro in TLA+

gotaro (`src/`) is a task tracker: one Go web server over PostgreSQL. Users
register, log in, and keep tasks with a status, a priority, a due date, a
project and tags; the server renders lists, forms and a CSV export. This
directory models the parts of it in which an order of events can go wrong,
checks them with TLC on small instances, and proves nearly all of their safety
properties with TLAPS for every instance.

    tlc -workers 2 -config ts_safety.cfg MCTaskService.tla
    tlapm TaskServiceProofs.tla

(and `TaskEffectsProofs`, `TaskServerProofs`, `SessionsProofs`, `TaskTableProofs`,
`TaskExportProofs`, `TaskFormProofs`, `TaskSeedProofs`; each extends the proofs it
rests on).

`PROJECT.json` lists the runs, the mutants that show each property can fail,
the source lines behind every definition, the hazards and the theorems.

## 1. The system

Every HTTP request runs in a goroutine of its own (`net/http`), passes the
middleware of `internal/web/server.go`, and calls a service of `internal/app`,
which talks to the repositories of `internal/store` either through the pool
(each statement commits by itself) or inside `Postgres.WithinTransaction`.
Nothing is kept in the server between two requests: all shared state is in the
database, and in the browsers' cookies and pages. `BeginTx(ctx, nil)` leaves the
isolation at PostgreSQL's default, read committed.

| component | state | operations | what is hard | what makes it correct |
|---|---|---|---|---|
| task service: writes (`app/tasks.go`, `store/tasks.go`, `store/project.go`) | `tasks`, `task_tags`, `tags`, `projects`, the id sequence; row locks of open transactions | Create, Update, SetStatus, Archive, Unarchive, Delete | read, then write in another statement; transactions of several statements; waits and deadlocks; lost answers; a reread after the commit | rows, names and links stay with their user; a form's tags replace all; dates stay in order; nothing deleted comes back; a failure leaves nothing; every request is answered |
| CSV export (`ListAllMatching`, `getTasksExportCSV`) | `OFFSET`, the rows read so far | a loop of page, tags, page, tags | writes between the pages | complete and without repetition; tags belong to their rows; it ends |
| list page, cards, badges (`renderTaskList`, `paginationLinks`, `StatsForUser`, `IsOverdue`) | the URL of a tab | render, Next, Previous, Export link | the same rule written in SQL and Go; a URL passed from page to page; a clock that passes midnight | a walk shows each task once; cards count what the tabs list; links lead where they say |
| authentication and sessions (`app/auth.go`, `store/users.go`, `store/sessions.go`, middleware) | `users`, `sessions`; cookies; CSRF tokens in open pages | Register, Login, Logout, Session; sessionMiddleware, requireAuth, csrf | tabs share a cookie and keep old pages; two registrations of one email; ignored errors | a form acts for the account it was shown to; account and first session appear together; sessions need the password |
| task forms (`taskToFormView`, `taskWriteFromForm`) | the fields of an open form | open, send, the page after a failure | a form is old when it is sent; its row and tags are read by two statements; a date is shown as a day | saving changes what was typed and nothing else |
| activity chart (`DailyActivity`, `activity_chart.go`) | none | two counts per UTC day | two statements, the server's clock | columns and cards count the same tasks |
| domain rules (`internal/domain`) | none | ValidateTaskInput, ValidateCredentials, ParseTagList, status and priority names, IsArchived, IsOverdue | boundaries | parsing and printing agree |
| HTTP server and shutdown (`ListenAndServe`, `cmd/app`) | requests in flight, the pool, sessions of PostgreSQL | serve, Shutdown, exit, crash | main returns while requests run; a statement outlives the process that sent it | a form is stored whole or not at all; every request is answered or cut off |
| demo data seeder (`cmd/seed`) | the same tables | wipe, upsert names, insert tasks | runs against a live application and other runs; several transactions | a wipe is complete, tasks come together, links stay whole, deadlocks end |
| schema and migrations (`internal/migrate`) | goose's version table | Up | | keys and cascades as the queries assume |
| templates and presentation | none | layout, colours, wording | | |

`PROJECT.json` says for each which modules model it.

## 2. The modules

    TaskService ----INSTANCE---> TaskBoard        (refinement: OneTabIsAtomic)
      |  extended by MCTaskService (ts_safety, ts_lost_update, ts_retry)
      |  extended by TaskServer <- MCTaskServer (ts_live, ts_atomic)
      |  extended by TaskServiceProofs <- TaskEffectsProofs <- TaskServerProofs
    TaskQuery <- TaskTable <- TaskExport <- MCTaskExport (te_*.cfg)
                           <- TaskBrowse <- TaskForm <- MCTaskBrowse (tb_*.cfg)
                           <- TaskTableProofs <- TaskExportProofs, TaskFormProofs
    Sessions  <- MCSessions (se_*.cfg), SessionsProofs
    SeedDates <- TaskSeed <- MCTaskSeed (sd_seed.cfg), TaskSeedProofs

A `...Proofs` module extends the module it is about; `TaskServerProofs` is about
`TaskServer`, the refinement of `TaskBoard` included.

### TaskService

A step of a request is one SQL statement, or the Go code between two of them.

| state | in the program |
|---|---|
| `tasks`, `links`, `tags`, `projects`, `nextId` | the committed rows of the four tables, and the `BIGSERIAL` of `tasks.id` |
| `pc`, `call` | where a handler is, and the form or button it serves |
| `id`, `existing`, `now` | its local variables: the id, the `*domain.Task` it read, `time.Now()` |
| `unlinked`, `todo`, `locks` | its open transaction: the `task_tags` rows it deleted, the tags its loop has still to upsert, the row locks it holds |

| operation | steps |
|---|---|
| Create | `Begin`, `Stamp`, `ResolveProject`, `InsertRow`, `ClearTags`, `LinkTag`*, `Commit`, `Reread` |
| Update | `Begin`, `Get`, `Stamp`, `ResolveProject`, `UpdateRow`, `ClearTags`, `LinkTag`*, `Commit`, `Reread` |
| SetStatus, Archive, Unarchive | `Begin`, `Get` (which may find nothing to do), `Stamp`, `WriteRow`, perhaps `CheckFk` |
| Delete | `Begin`, `DeleteTask` |
| any | `Fail` (a statement fails), `DeadlockAbort` |

An open transaction's writes are visible to nobody else, so they stay with the
request until `Commit`, and `Finish` drops them with the locks: that is the
rollback. Row locks are explicit, because they are what orders concurrent
edits: a statement that needs a locked row is not enabled (`Free`). A plain
`UPDATE` that stores a project whose row an open edit has upserted waits for
it in the foreign key check while it already holds the task's row (`FkBlocked`,
`CheckFk`). This gives two deadlocks: two forms that link the same tags in
opposite orders, and that foreign key wait in a circle with an edit of the same
task. PostgreSQL fails one member (`DeadlockAbort`). The answer to a commit and
to a single-statement write may be lost after it took effect.

`TaskBoard` is what the service promises a user with one tab: each operation
is one step on the task as it is at that moment, and touches nothing else.

### TaskServer

`TaskServer` runs `TaskService` inside the process that serves it. `server` is
where `main` is: starting, serving, the pool closed, exited. A signal makes
`ListenAndServe` return at once (its `Shutdown` goes on in a goroutine nobody
waits for), so the deferred `db.Close` runs next: a request that owns a
connection (an open transaction, a statement under way: `connected`) goes on
with it, any other statement fails with "database is closed" (`PoolClosed`). Then
main returns, at any moment, or the process was killed before (`Crash`): each
request in flight is `Cut`, its transaction rolled back and its locks freed when
PostgreSQL notices. A single statement it had already been given, and which
waited for a lock, may still complete: `Orphan`. The safety of `TaskService` is
checked without this module; what a user with one tab is promised
(`OneTabIsAtomic`), that a form is stored whole, and that every request ends are
checked with it.

### TaskQuery, TaskTable

`TaskQuery` is `TaskRepository.List` as operators: `Matches` (WHERE),
`Precedes` (ORDER BY column, `NULLS LAST`, id), `PageOf` (LIMIT, OFFSET), and the
export's reading of a URL. The order of rows is stated by `Orderings`, all the
sequences that respect ORDER BY, so that a missing tie-break would show as a
choice of the database. `TaskTable` is the table these readers see: a write of
`TaskService` is one step there, since it becomes visible at its commit, and
brings row and tags together. What the instances choose is typed: `Forms` says what
a form may ask for (`TaskInput`; a due date is a midnight, as `parseDatePtr` makes
it), `Saved` what was stored before (`SavedInput`, any time of day), `Urls` what a
URL may say (`Parameters`, where `Bad` stands for text that does not parse).

### TaskExport

One export: `Start` parses the URL (400 for anything it cannot parse),
`ReadRows` and `ReadTags` are the two statements of each page, `Fail` answers
400, `Change` is any other request's commit. `stayed` and `disturbed` are history
variables: the tasks that matched all the time, and whether a write moved a task
into, out of or within the part that was read.

### TaskBrowse

One tab on `/tasks`: `ReadRows`, `ReadStats`, `TakeDays`, `ReadCreated`,
`ReadCompleted` and `Render` are the four statements, the time the chart takes and
the moment the badges are computed; `GoNext`, `GoPrevious` and `Open` follow links,
`Change` and `Tick` are the rest of the world. A failing statement ends the page,
except that the chart is left out when one of its own fails. Instants are half
days, so that a due date may be midnight (what the form stores) or noon (what the
seeder stores). `Home` is `/tasks` without parameters. `seen`, `flagged`, `walkDay`,
`walking`, `quiet` and `readDay` are history.

`taskExportPath` copies the parameter `view` of older links, which the list does not
look at and the export does: `/tasks?view=completed` lists the open tasks above an
Export link that exports the completed ones. No link of the program has such a
`view`, so `ExportLinkSelectsListed` is stated for a `view` that is the tab's own or
open.

### TaskForm

The same tab opens a form from the list: `OpenEdit`, `GetRow`, `GetTags` (two
statements, so a page may show the row of one write and the tags of a later one),
or `OpenNew`. `FieldsOf` is what the page shows of a row, `TaskWrite` what
`taskWriteFromForm` makes of the answer: tags normalized, the due date's day back
to its midnight. `Send` changes some fields. `Accept` is what Update does before its
transaction: the form is valid, and the task is read for the `archived_at` that will
be written back (`existing`); any write of another request may come before the
commit. The answer is then `Save`, or `SaveUnseen` (stored, but the reread failed),
or at any step `Refuse` (a field that does not parse or is not valid, a task that is
gone, or any failure). A new task's refused form keeps what was typed, an edit's
shows the stored task again. `typed`, `fresh` and `current` are history: what the
user changed, and whether nobody has written since the page, and since Update, read
the row. `Content` is what may stand in a form, text that is refused included, and
`Typings` what a user may change of it.

### TaskSeed, SeedDates

`cmd/seed` against the live database, other runs of itself and a request of the
user. A `DELETE` of the wipe is a snapshot (`Start`, `NextStatement`), a wait and a
second look per row (`LockRow`), and what the foreign keys of the deleted rows do
(stages `set_null` and `cascade`); nothing is visible before `CommitWipe`. The
names are upserted one statement at a time (`UpsertName`), each committed by
itself; the tasks are inserted in one transaction by the ids of those rows
(`Draw`, `InsertTask`, `AttachTag`, `CommitTasks`), which a second run's wipe may
have deleted: then the foreign key fails the run. Requests are a create, an edit
and an archive, as in `TaskService` but without dates and statuses. A row of
`projects` or `tags` is named by its user, its name and the number of wipes before
it, so a name that comes back after a wipe is another row. `SeedDates` is the
arithmetic of the times a task is drawn with.

### Sessions

`users` maps an email to its password, `sessions` a token to its email; the
CSRF token, a fresh UUID made with the session, is identified with it. A token is
named by the tab whose request made it and the number of forms that tab had left
(`Token`), so that it is new without a counter; `None` is a page without one. Each tab
has the page it shows (`page`, with its token) and at most one form in flight;
tabs of a browser share `cookie`. `Middleware` is sessionMiddleware,
requireAuth, csrf and the validation of credentials in their order; Register is
`InsertUser`, `InsertFirstSession`, `CommitRegister`; Login is `Lookup`,
`InsertSession`; `Logout` deletes, or fails and answers the same. `Act` stands
for every task form: it changes the work of the account in the request's
context. Two inserts of one email wait for each other at the unique index.

## 3. The runs

Each property has a mutant: a change to one definition, of the kind a slip in
the code would be, that makes the run fail.

| run | checks | bounds | states |
|---|---|---|---|
| `ts_safety` | types; ownership of rows, names and links; waits stay within a user; created <= archived <= updated <= now; tags of one form; deleted stays deleted; names come with their task; only the owner's requests change a row | 3 requests of 13 calls, 2 users with a task each, 2 projects, 2 tags, ids up to 5, 2 instants | 807 000 |
| `ts_live` | every request is answered or cut off | 3 requests, the 4 calls that can deadlock in both ways, a shutdown or a crash at any point | 372 000 |
| `ts_atomic` | with one request in flight per user the service implements `TaskBoard`, and a form is stored whole, wherever the process ends | 3 requests, 2 users, 2 instants, a shutdown or a crash at any point | 393 000 |
| `te_export` | the rows read are the first of the list; complete unless disturbed; tags no older than rows; it ends | pages of 2, 3 tasks and 1 more, 2 writes, 5 URLs | 133 000 |
| `tb_browse` | a quiet walk shows each task once; cards, chart, badges and the export link agree with the list; saving a form changes what was typed; a date given in a form is found by its day | pages of 2, 3 tasks and 1 more, 2 writes, 6 URLs, 5 ways to fill in a form, a chart of 2 days, the half days before and after one midnight | 2 365 000 |
| `se_tabs` | forms act for the account shown; sessions end by their own page; registration is atomic; sessions need the password; forms are answered | 2 tabs of one browser, 2 forms each, 2 emails, 7 calls | 499 000 |
| `sd_seed` | links stay whole; a wipe is complete before the run goes on; an undisturbed run leaves exactly its own; tasks of a run come together; only a wipe deletes, and only its user's; every run and request ends; order of the seeded dates | 2 runs (the first wipes, the second may), 1 request of 5 calls, 2 users with a task each, a list of 1 project and 1 tag, 2 tasks a run | 415 000 |

Five runs are expected to fail: they state what a text of the repository says
and the code does not do (section 6).

Why the bounds are enough. The races of the task service are between two
requests on one task, a third one for the circle of the foreign key wait and
for a name that both others share; each request is served once, so three
requests are three overlapping or consecutive operations. Two users are enough
for a property that says "another user". Two tags give opposite orders, two
projects a move. Pages of two rows with up to four tasks give a full last page,
a partial one, and a task that crosses a page's border in either direction; more
rows add pages of the same kind. Two half days hold one midnight with an instant
on both sides, and saved rows are dated before, inside and outside the chart's two
days. Two writes are a stale form and a save, or two changes between two
statements. Two tabs are what it takes to change a cookie under a page, and two
forms each to log out and in, or to register twice. Two runs of the seeder are a
wipe under another run's ids or names; two tasks each are what "together" needs,
and one project with one tag is a link of each kind that can be lost. An edit that
keeps its task in the project of the base list is what a wipe can wait for in a
circle (it holds the task and wants the project, the edit the other way round):
`EveryRunEnds` fails when only circles of two wipes are noticed, which is its mutant.
The archive of a task that the second run has inserted is what meets the foreign key
check (`CheckFk`): the first run's wipe, which began before, may take the project away
between its two statements.

Symmetry (permutations of the requests) is used in safety runs only.

No run turns deadlock checking off. In `TaskService`, `TaskExport` and `Sessions`
a state in which everything is answered has the step `Quiesced` (`Ended` in
`TaskServer`, `Done` in `TaskSeed`); anything else that stops is an error. As `Fail` is nearly always possible, the liveness
properties, which do not rely on it, are the real test that nothing hangs.

### Fairness

- `TaskServer!ServerFairness`: a request that is being served takes its steps (its
  goroutine runs and PostgreSQL executes its statements), fails on the closed pool,
  or is cut off once the process is gone; a deadlock is found (PostgreSQL's
  `deadlock_timeout`). Nothing forces a request to arrive, a statement to fail, a
  signal or a crash to come, or time to pass. Weak fairness per request is enough:
  each of the finitely many requests takes a lock at most once, so a lock somebody
  waits for is free for good in the end. As requests never become unanswered again,
  "each is answered" is stated as `<>[]` of "none is in flight".
- `TaskSeed!FairSpec`: runs go on, a request goes on once it is served, a deadlock
  is found. Nothing has to fail; a run that is killed frees its locks, as PostgreSQL
  ends its session.
- `TaskExport!FairSpec`: the export's goroutine runs. It ends because the writes
  are bounded; an export of a list that grows by a page for every page that is
  read would not.
- `Sessions!FairSpec`: a form that the server has received is served. Nobody has
  to submit, open a page or receive an answer.

## 4. What is proved

For all sets of users, requests, tabs, tasks, names and calls, all page sizes, URLs
and forms, and all bounds:

| module | theorem | says |
|---|---|---|
| `TaskServiceProofs` | `TypeCorrect` | `Spec => []TypeOK` |
| | `OwnersStayApart` | `Spec => []OwnerConsistent` |
| | `DatesStayOrdered` | `Spec => []TimestampsOrdered` |
| | `UsersNeverWaitForEachOther` | `Spec => []WaitsStayWithinUser` |
| | `DeletedStaysDeleted` | `Spec => GoneStaysGone`, an action property |
| `TaskEffectsProofs` | `TagsNeverMixed` | `Spec => TagsFromOneWrite`, an action property |
| | `OnlyOwnersWrite` | `Spec => OtherUsersUntouched`, an action property |
| | `NoNameAlone` | `Spec => NamesComeWithTask`, an action property |
| `TaskServerProofs` | `ServerTypeCorrect` | `ServerSpec => []ServerTypeOK` |
| | `SafeThroughTheEnd`, `EffectsThroughTheEnd` | the invariants and action properties above under `ServerSpec`: wherever the process ends |
| | `FormsStoredWhole` | `ServerSpec => FormsAreStoredWhole`, with one tab per user |
| | `OneTabImplementsBoard` | `ServerSpec => OneTabIsAtomic`: the refinement of `TaskBoard`, with one tab per user |
| `SessionsProofs` | `SessionsTypeCorrect` | `Spec => []TypeOK` |
| | `FormsActForTheirPage` | `Spec => FormActsForUserShown`, an action property |
| | `SessionsEndByOwnPage` | `Spec => SessionEndsByItsOwnPage`, an action property |
| | `AccountsComeWithFirstSession` | `Spec => AccountsComeWithSession`, an action property |
| | `SessionsAreByPassword` | `Spec => SessionsNeedPassword`, an action property |
| `TaskExportProofs` | `ExportTypeCorrect` | `Spec => []TypeOK` |
| | `ExportReadsInOrder` | `Spec => []ReadsFirstRows` |
| | `UndisturbedExportComplete` | `Spec => []UndisturbedIsComplete` |
| | `ExportTagsNotOlder` | `Spec => []TagsNotOlder` |
| `TaskFormProofs` | `BrowseTypeCorrect` | `FormSpec => []TypeOK` |
| | `WalkIsComplete` | `FormSpec => []WalkShowsEachTaskOnce` |
| | `CardsCountTheList` | `FormSpec => []CardsAgreeWithList` |
| | `CardCountsTheBadges` | `FormSpec => []CardMatchesBadges` |
| | `ChartCountsTheCards` | `FormSpec => []ChartAddsUpToCards`, for a chart of any number of days |
| | `ExportLinkIsFaithful` | `FormSpec => []ExportLinkSelectsListed` |
| | `FormsDateByDay` | `FormSpec => []DueDayIsFound` |
| | `SavesWhatWasTyped` | `FormSpec => SaveChangesWhatWasTyped`, an action property |
| `TaskSeedProofs` | `SeedTypeCorrect` | `Spec => []TypeOK`: links stay whole and locks apart, next to wipes |
| | `SeedsTogether` | `Spec => SeededTogether`, an action property |
| | `OnlyWipesDelete` | `Spec => OnlyAWipeDeletes`, an action property |
| | `WipesBeforeSeeding` | `Spec => []WipedBeforeSeeding` |
| | `SeedsExactly` | `Spec => []SeedIsExact` |
| | `TasksAreDatedInOrder` | `Spec => []TasksDatedInOrder`, from the seeder's arithmetic alone (`SeededDatesInOrder`) |

They rest on the named assumptions of the modules (and on nothing else), which TLC
evaluates for every instance. Those of `TaskService`: rejected bodies are bodies;
the bounds are positive; the NULLs are no rows; a call is a create exactly when it
carries no id; the rows stored at the start are dated in order and refer to their
own user's project. Those of the readers: forms, stored tasks and URLs have their
types; a form's due date is a midnight; no stored row of the list page is dated after
the start of the clock (`SavedBefore`: a write takes its time before it commits, and
`TasksAreDatedInOrder` says the same of the seeder's rows); pages have a row at least, and the pages
the export asks for are the largest the store returns (`StoreCap = ExportPage`); a typing
of a form gives a form; normalizing a tag's name twice changes nothing more. Those
of `Sessions`: every tab is a browser's; what marks the absence of a user, a
session or a token is none. Those of `TaskSeed`: there are finitely many runs; the
base list has no name twice; tasks stored before have names of their own user, and
new tasks get new ids, the id of a create its own. The clock never goes back (`Tick`).

### The task service

None of the theorems follows from its own statement alone. The inductive invariant is

    IInv == TypeOK /\ PhaseInv /\ IdInv /\ LockInv /\ ReadInv
            /\ OwnerConsistent /\ TimestampsOrdered

and each part is there for a step that needs it:

- `PhaseInv`: which operation is at which step and what it has read and dated by
  then. Without it `Commit` could be the commit of a delete.
- `IdInv`: ids at or above `nextId` hold no row, and a create in its transaction
  works on an id that is taken and empty. This is what makes an insert not
  overwrite and what `GoneStaysGone` says, read one step ahead.
- `LockInv`: a locked row has one owner; a request between its UPDATE and its
  commit holds the lock of its task's row *and therefore the row still exists
  and is its user's*. `ReplaceTaskTags` links tags by task id alone; that the
  task is the user's at `Commit` follows from here only.
- `ReadInv`: a copy that was read belongs to the caller, is ordered, is no newer
  than the time of the write, and was created with the row under its id. A
  stale copy written back keeps dates in order and owners apart because of it.
- `OwnerConsistent` and `TimestampsOrdered` feed `ReadInv` at `Get`.

The proof has a theorem per part (`TypeStep`, `PhaseStep`, `LockStep`, `IdStep`,
`ReadStep`, `OwnerStep`, `TimeStep`), each with a case per action;
`StoredFacts` and `CommitFacts` say once what `Stored` and `Commit` write;
`Inductive` puts them together and `Invariance` takes it to `Spec => []IInv`.

What a write leaves in `task_tags` needs one more part, because the model's
transaction, like the program's, deletes all links in one statement and inserts
the new ones in a loop:

    TagInv == \A r \in Req : LinkingOf(r)      EInv == IInv /\ TagInv

`LinkingOf` says that in the loop the deleted links are still exactly the links
the task has, which holds because `LockInv` keeps every other writer of that task
waiting (`LinksStay`), and that the names upserted and the names still to do are
together the names of the form (`OwnTags`). At `Commit`, when nothing is left to
do, that is `TagsFromOneWrite`. `OtherUsersUntouched` and `NamesComeWithTask`
follow from `EInv` with a case per step that writes rows (`WriteSteps`).

### The end of the process

`TaskServer` adds two kinds of step: main's own, which leave every request as it
is, and `Cut`, which ends requests where no action of the service does. `CutKeeps`
says what a cut leaves alone, and `ServerInv == EInv /\ ServerTypeOK` is
inductive. With one tab per user

    BInv == ServerInv /\ TabInv          TabInv == Alone /\ \A r \in Req : CurrentCopy(r)

nobody else writes the task a request works on, so the copy it read is the row
(`CurrentCopy`). Under the refinement mapping (the board's ids are those below
`nextId` that no open transaction has drawn, its tags those of the committed
links) `Commit` and the single-statement writes are then the board's operations on
the task as it is, and every other step, `Cut` included, is a stutter.

### Sessions

`SInv` says why a form acts for the account on its page: what the middleware let
through carries the token of its page (`RequestsMatchPage`), a page's token is of
the user it shows as long as the session exists (`PagesKeepTheirUser`), and a
token is never given to another session again (`FreshTokens`, from the tabs' count
of forms). `RegistersAlone` (one uncommitted insert per email, the unique index)
and `StoresOwnSession` give the properties of Register and Login.

### Lists

`TaskTableProofs` has what the export and the list page share. `OrderIsTotal`:
ORDER BY with its id tells any two rows apart, NULLs and both directions included,
so a statement has one answer (`OrderingFacts`). `FirstIn(table, names, q, read)`
says that the ids read are those of the first rows of the list of q: in order,
selected, and before every row that was not read. `ReadIsPrefix` turns this into
"they are the first `Len(read)` rows of whatever the next statement sorts", and
`NextPage` shows that the page at that OFFSET continues them, and is not full only
at the end of the list.

`ExportInv` keeps `FirstIn` for the export until a write disturbs it (`InOrder`),
which is where `disturbed` has to name the writes exactly: any other write leaves
what was read the first rows of the new list, too. A task that matched all the
time (`StayedMatch`) is therefore among the rows read when the last page is there
(`LastIsLast`). Tags are those of
their row's write or of a later one at any time (`TagsCurrent`), so tags read after
rows are no older (`TagsKnown`).

### The list page and the forms

    BrowseInv == StateOK /\ ListInv /\ AllDated(tasks, now) /\ Chart /\ Fresh /\ Existing
    ListInv   == Sorted /\ Walk /\ Page /\ Cards /\ Badges

`StateOK` is types and where the tab is; `ListInv` says that what a page shows is
about one state of the table until somebody writes. `Walk`: the rows seen and the
rows shown are the first of the list, and the offset is their number; it goes from
page to page because a link changes nothing but the offset (`LinkKeeps`). `Page`:
the length of a page follows from the length of the list, `Cards`: the counts are
those of the table, `Badges`: they are the overdue rows of the page, and those
flagged before are the overdue rows seen; the days at which rows, counts and badges
were computed are ordered (`readDay <= Day(now)`), so equal ends mean one day.
`ListIsCounted` then compares WHERE with FILTER. `AllDated`: only forms set the due
date of a task after the first write, and no row is dated after now. `Fresh`: until somebody writes, the form holds, field
by field, its task as far as the user has not typed over it; the tags join it one
statement later. `Existing`: until somebody writes, what Update has read is what is
stored; after that its save may undo an archive (section 7).

`Chart`: once a line of the chart is read, and until somebody writes, its column of a
day is the number of rows of that day, and no row is dated after the last day. That
part is what makes the sum right: the chart takes its days after the rows are read,
so a midnight before it only moves the window on, and one after it brings no row that
was not there. What is left is that columns add up to the rows of their days. `Total`
is a fold over the set of days in an order nobody knows, so `SumIs` proves that any
partial sums (`PartialSums`: taking away any one column takes away its value) end in
it, by a set of days of least size at which they differ (`Least`); `ColumnsAddUp`
gives it the partial sums "rows dated on one of these days", and `LineAddsUp` adds
the rows before the first day.

### The seeder next to the application

    SeedInv == VarTypes /\ Whole /\ Unique /\ Exclusive /\ WipesCounted /\ NewIds
               /\ (\A s \in Seeder : RunOK(s)) /\ (\A r \in Req : ReqOK(r))

The tables are the first half: a task refers to names that are there and are its
user's (`Whole`), a user has a name once. The second half is what each process
relies on while others write, and it is the row locks that keep it (`Exclusive`):
a row in `doomed` is still there, the user's, and locked (`DoomedLocked`); the names
an open transaction has linked are there and share-locked, except those its next
statements have to check (`DraftsWhole`); a form past its UPDATE finds its task
(`TaskHeld`). A run's names are those of the base list up to its counter
(`NamesKnown`), which is why the loop's index stays in bounds.

The proof separates what a step does for itself from what it does to the others.
`StepKeeps`: it changes only its own process's variables, and gets only free locks.
`StepTables` (`Tables`): whatever the step, rows go only at the end of a wipe, are
the user's and were locked by it; a new name has the number of the wipes before it;
a new task has an id that was to come; a task keeps its user. From these two alone
`OtherRuns` and `OtherRequests` follow for everybody else, so that a step needs a
case of its own only for its own process (`OwnRun`, `OwnRequest`). `SeededTogether`
and `OnlyAWipeDeletes` are read off `Tables`.

    WipeInv == Numbered /\ \A s \in Seeder : WipeReaches(s) /\ Undisturbed(s)

`WipeReaches` follows each row that was there when the wipe began: still to be found
by a statement, found, deleted, or gone. `BeforeStays` is the heart of it: what is
gone cannot come back, a task because its id is not to come, a name because a row
made after a wipe has a higher number. `Undisturbed` compares the tables with what
the run itself has done, for as long as nobody else writes.

## 5. What is only model-checked

- Liveness (`EveryRequestAnswered`, `ExportAnswered`, `EveryFormAnswered`,
  `EveryRunEnds`): temporal reasoning from fairness needs ENABLED, which the
  prover does not handle.
- The violated properties of section 6 are refuted, not proved.

## 6. What the failing runs show

- `ts_lost_update` (`StatusAsRequested`): Archive reads the row, another tab's
  Done commits, Archive writes the old status back. Neither is told.
- `ts_retry` (`FailedCreateStoresNothing`): Create commits, its reread (or the
  answer to its commit) fails, the user reads "Please try again." above the
  form, and a second submit stores the task twice.
- `te_misses` (`EveryMatchingTask`): the export reads page 1, a task of that page
  is marked done, the OFFSET of page 2 skips a task that matched all the time.
- `se_logout` (`LoggedOutIsOut`): the DELETE of a logout fails; its error is
  dropped, the cookie cleared, and the session stays valid until it expires.
- `tb_previous` (`PreviousGoesBack`): the Previous link of the second page keeps
  `offset=25`, because a zero offset is never written over the one that was
  copied from the URL.

## 7. Abstractions

- A title, description, priority and due date are one `Body` in `TaskService`; a
  search term is a member of a row's words in `TaskQuery` (the ILIKE pattern,
  with `_` and `\` unescaped, is not modelled); parameters that do not parse are
  `Bad`. Password and email rules are `BadPassword`.
- The tags `Get` reads with a row are not part of the copy: no write uses them.
- An insert that fails before it returns its id leaves a gap in the sequence
  that the model does not show; one that fails later does.
- Rows stored before a run have no tags, and are rows the service wrote. The
  seeder's rows keep a weaker order of dates (`TasksDatedInOrder`): one made
  within the last day may be dated as updated before it was created.
- A cookie's Max-Age is not modelled: an expired cookie that is sent names an
  expired session, which the server treats like none.
- The list page's statement for tags is that of the export and is not repeated
  in `TaskBrowse`; its suggestion lists change no state.
- The clocks of the database and of the server agree; a write of `TaskTable` is
  dated by some time up to its commit (when a request takes its time, between which
  of its statements, is in `TaskService`).
- What other requests write in `TaskTable` is one step on the row as it is: copies
  that are stale when written back are the subject of `TaskService`, and of `TaskForm`
  for the tab's own form. There an archive that another tab commits between the two
  statements of Update is undone, as a status is in `ts_lost_update`; so
  `SaveChangesWhatWasTyped` has the archive stay only where nobody wrote in between.
- In `TaskForm` a form's tags are a set: their order only matters for locks, which
  are in `TaskService`. Trimming a title, a project or a description is not shown.
- `TaskSeed` locks all links of a task with one key, and draws the tasks of a run
  from a set of kinds (`Drawn`). A run that fails has its session ended at once.
- In `TaskServer` PostgreSQL's work for a dead client is a single statement: the
  transaction around an unfinished form is always rolled back, as its COMMIT was
  not sent. A COMMIT that was under way is one that took effect before the end.

## 8. Not modelled, and the plan

1. A second browser of the same account, and a session that expires under a
   page, as further instances of `Sessions`; the seeder's new password for a user
   who is logged in.
2. The lengths and the email syntax that `domain/validation.go` measures.

Left out for good: HTML, SVG, colours and wording (no state); goose's migrations,
bcrypt and UUIDs (libraries); the size of the connection pool.
