----------------------------- MODULE TaskTable -----------------------------
(***************************************************************************)
(* The tasks of one user as readers of the list see them: every statement  *)
(* sees the rows committed before it, and a commit of TaskService changes  *)
(* the row and the tags of one task together.                              *)
(***************************************************************************)
EXTENDS TaskQuery

CONSTANTS
    Project, Word, Name,    \* of projects, of titles and descriptions, of tags
    Forms,      \* what forms may say about a task
    Saved,      \* the forms of the tasks stored before, with the times of their rows
    MaxTask,    \* bound: task ids are 1 .. MaxTask
    MaxWrites   \* bound: the writes committed while somebody reads

TaskId == 1 .. MaxTask

Stamp == Int

\* domain.TaskWrite
TaskInput == [status : 0 .. Done, priority : Int, due : Stamp \cup {NoDue},
              project : Project, words : SUBSET Word, names : SUBSET Name]

SavedInput == [status : 0 .. Done, priority : Int, due : Stamp \cup {NoDue},
          project : Project, words : SUBSET Word, names : SUBSET Name,
          created : Stamp, updated : Stamp]

\* A row, and the write that made it
Row == [id : TaskId, created : Stamp, updated : Stamp, archived : BOOLEAN, wrote : 0 .. MaxWrites,
        status : 0 .. Done, priority : Int, due : Stamp \cup {NoDue},
        project : Project, words : SUBSET Word]

ASSUME TableAssumption == MaxTask \in Nat /\ MaxWrites \in Nat /\ Len(Saved) <= MaxTask
\* Forms name a day, whose midnight is stored; the seeder dates tasks at noon.
ASSUME FormsAssumption ==
    /\ Forms \subseteq TaskInput
    /\ \A form \in Forms : form.due # NoDue => form.due = Midnight(form.due \div 2)
ASSUME SavedAssumption == Saved \in Seq(SavedInput)
ASSUME NullAssumption == NoDue \notin Stamp /\ NoFilter \notin Stamp /\ NoRow \notin Row

\* The parameters of a list's URL
Parameters ==
    [scope : Scopes, view : Scopes, status : (0 .. Done) \cup {NoFilter, Bad},
     priority : Int \cup {NoFilter, Bad}, tag : Name \cup {NoFilter}, project : Project \cup {NoFilter},
     dueFrom : Int \cup {NoFilter, Bad}, dueTo : Int \cup {NoFilter, Bad},
     search : Word \cup {NoFilter}, sort : Columns \cup {Bad}, dir : {"asc", "desc", Bad}, offset : Nat]

VARIABLES
    tasks,      \* the committed rows of table tasks
    tags,       \* the names of a task's tags, and the write that set them
    nextId,     \* the sequence behind tasks.id
    writes      \* the writes so far

tableVars == <<tasks, tags, nextId, writes>>

\* The row that write w stores for task t from a form, made and dated as given.
RowOf(t, form, made, archived, w, at) ==
    [id |-> t, created |-> made, updated |-> at, archived |-> archived, wrote |-> w,
     status |-> form.status, priority |-> form.priority, due |-> form.due,
     project |-> form.project, words |-> form.words]

TagsOf(form, w) == [names |-> form.names, wrote |-> w]
NoTags(w) == [names |-> {}, wrote |-> w]

TableInit ==
    /\ tasks = [t \in TaskId |-> IF t <= Len(Saved)
          THEN RowOf(t, Saved[t], Saved[t].created, FALSE, 0, Saved[t].updated)
          ELSE NoRow]
    /\ tags = [t \in TaskId |-> IF t <= Len(Saved) THEN TagsOf(Saved[t], 0) ELSE NoTags(0)]
    /\ nextId = Len(Saved) + 1
    /\ writes = 0

TableOK ==
    /\ tasks \in [TaskId -> Row \cup {NoRow}]
    /\ tags \in [TaskId -> [names : SUBSET Name, wrote : 0 .. MaxWrites]]
    /\ \A t \in TaskId : tasks[t] # NoRow => tasks[t].id = t /\ t < nextId
    /\ nextId \in 1 .. MaxTask + 1
    /\ writes \in 0 .. MaxWrites

\* A request commits row and tags of task t.
Write(t, row, tagged) ==
    /\ writes < MaxWrites
    /\ writes' = writes + 1
    /\ tasks' = [tasks EXCEPT ![t] = row]
    /\ tags' = [tags EXCEPT ![t] = tagged]

\* Create and the writes below are dated by the time they take, at.
Create(form, at) ==
    /\ nextId <= MaxTask
    /\ Write(nextId, RowOf(nextId, form, at, FALSE, writes + 1, at), TagsOf(form, writes + 1))
    /\ nextId' = nextId + 1

Live(t) == tasks[t] # NoRow

\* The UPDATE leaves created_at; archived_at is the one its request has read.
Edited(t, form, archived, at) == RowOf(t, form, tasks[t].created, archived, writes + 1, at)

\* Mutant of Edit: Update does not replace the tags.
EditRowOnly(t, form, archived, at) ==
    /\ Live(t)
    /\ Write(t, Edited(t, form, archived, at), tags[t])
    /\ UNCHANGED nextId

Edit(t, form, archived, at) ==
    /\ Live(t)
    /\ Write(t, Edited(t, form, archived, at), TagsOf(form, writes + 1))
    /\ UNCHANGED nextId

SetStatus(t, status, at) ==
    /\ Live(t)
    /\ Write(t, [tasks[t] EXCEPT !.status = status, !.updated = at], tags[t])
    /\ UNCHANGED nextId

\* Archive and Unarchive
SetArchived(t, at) ==
    /\ Live(t)
    /\ Write(t, [tasks[t] EXCEPT !.archived = ~ @, !.updated = at], tags[t])
    /\ UNCHANGED nextId

Delete(t) ==
    /\ Live(t)
    /\ Write(t, NoRow, NoTags(writes + 1))
    /\ UNCHANGED nextId

AnyWrite(at) ==
    \/ \E form \in Forms : Create(form, at) \/ \E t \in TaskId : Edit(t, form, tasks[t].archived, at)
    \/ \E t \in TaskId : \/ \E status \in 0 .. Done : SetStatus(t, status, at)
                         \/ SetArchived(t, at) \/ Delete(t)
==============================================================================
