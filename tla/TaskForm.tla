------------------------------ MODULE TaskForm ------------------------------
(***************************************************************************)
(* The forms of a task, opened from the list of TaskBrowse in the same     *)
(* tab: GET /tasks/new and /tasks/{id}/edit, POST /tasks and /tasks/{id}.  *)
(* A page shows a row as text, taskToFormView; the answer is parsed by     *)
(* taskWriteFromForm and stored whole, whatever was written in between.    *)
(***************************************************************************)
EXTENDS TaskBrowse

CONSTANTS
    RawTag,     \* what may stand between the commas of the tags field
    Normal,     \* NormalizeTagName, a function from RawTag
    Blank,      \* an empty name
    Blanks,     \* the fields of the page for a new task
    Typings     \* what a user changes: functions from some fields of a form

Field == {"status", "priority", "day", "project", "words", "names"}

\* What may stand in a form; Bad is text the web layer or the rules refuse.
Content ==
    [status : (0 .. Done) \cup {Bad}, priority : Int \cup {Bad}, day : Int \cup {NoDue, Bad},
     project : Project, words : (SUBSET Word) \cup {Bad}, names : SUBSET RawTag]

\* A form in which something was changed
Over(changes, form) ==
    [f \in DOMAIN changes \cup DOMAIN form |-> IF f \in DOMAIN changes THEN changes[f] ELSE form[f]]

ASSUME TypingsAssumption ==
    /\ Blanks \in Content
    /\ \A c \in Typings : DOMAIN c \subseteq Field /\ Over(c, Blanks) \in Content
\* A name is not empty, and normalizing it again changes nothing.
ASSUME NormalAssumption ==
    /\ Normal \in [RawTag -> Name \cup {Blank, Bad}]
    /\ Name \subseteq RawTag \ {Blank}
    /\ \A n \in Name : Normal[n] = n

VARIABLES
    step,       \* "none", or what the form waits for or shows
    target,     \* the task of the form, 0 for a new one
    fields,     \* what the form holds
    typed,      \* history: what the user changed
    existing,   \* what Update has read of the task: whether it is archived
    fresh,      \* history: no write since the page read the row
    current     \* history: no write since Update read it

formVars == <<step, target, fields, typed, existing, fresh, current>>

NoFields == [f \in Field |-> NoRow]
NoTyping == [f \in {} |-> NoRow]

FormInit ==
    /\ Init
    /\ step = "none"
    /\ target = 0
    /\ fields = NoFields
    /\ typed = NoTyping
    /\ existing = FALSE
    /\ fresh = FALSE /\ current = FALSE

------------------------------------------------------------------------------
(* A page of a form *)

\* taskToFormView, with the tags to come: a due date is shown as its day.
FieldsOf(row) ==
    [status |-> row.status, priority |-> row.priority, project |-> row.project, words |-> row.words,
     day |-> IF row.due = NoDue THEN NoDue ELSE Day(row.due), names |-> {}]

LeaveList ==
    /\ pc = "shown"
    /\ pc' = "away"
    /\ url' = Home /\ rows' = <<>> /\ stats' = NoCards /\ chart' = NoChart /\ badges' = {}
    /\ NoWalk /\ quiet' = FALSE /\ readDay' = 0
    /\ UNCHANGED <<tableVars, now>>

Forget == existing' = FALSE /\ current' = FALSE

Show(kind, t, content) ==
    /\ step' = kind
    /\ target' = t
    /\ fields' = content
    /\ typed' = NoTyping
    /\ Forget

OpenNew ==
    /\ LeaveList
    /\ Show("filling", 0, Blanks)
    /\ fresh' = FALSE

OpenEdit ==
    /\ \E i \in DOMAIN rows : Show("row", rows[i].id, NoFields)
    /\ LeaveList
    /\ fresh' = FALSE

Close ==
    /\ Show("none", 0, NoFields)
    /\ fresh' = FALSE

NotFound ==
    /\ Close
    /\ pc' = "error"
    /\ UNCHANGED <<tableVars, now, url, rows, stats, chart, badges, walkVars, quiet, readDay>>

\* TaskRepository.Get up to its row
GetRow ==
    /\ step = "row"
    /\ Live(target)
    /\ Show("tags", target, FieldsOf(tasks[target]))
    /\ fresh' = TRUE
    /\ UNCHANGED <<tableVars, now, tabVars, quiet>>

\* Mutant of GetTags: the page is shown without the tags.
GetNoTags ==
    /\ step = "tags"
    /\ Show("filling", target, fields)
    /\ UNCHANGED <<tableVars, now, tabVars, quiet, fresh>>

\* Its tags, a second statement
GetTags ==
    /\ step = "tags"
    /\ Show("filling", target, [fields EXCEPT !.names = tags[target].names])
    /\ UNCHANGED <<tableVars, now, tabVars, quiet, fresh>>

\* The task is gone, or a statement of Get fails: 404.
GetFails ==
    /\ step \in {"row", "tags"}
    /\ NotFound

\* The user changes some fields and sends the form.
Send(c) ==
    /\ step = "filling"
    /\ step' = "sent"
    /\ typed' = Over(c, typed)
    /\ fields' = Over(c, fields)
    /\ UNCHANGED <<tableVars, now, tabVars, quiet, target, existing, fresh, current>>

\* The user goes back to the list.
Abandon ==
    /\ step = "filling"
    /\ Open(Home)
    /\ Close

------------------------------------------------------------------------------
(* The answer to a form *)

\* Normalized, without empty names and repetitions
ParseTagList(raw) == {Normal[n] : n \in raw} \ {Blank}

\* taskWriteFromForm and ValidateTaskInput
Refused ==
    \/ Bad \in {fields.status, fields.priority, fields.day, fields.words}
    \/ Bad \in ParseTagList(fields.names)

\* Mutant of DueDate: the day is read in another time zone.
DueDateElsewhere == IF fields.day = NoDue THEN NoDue ELSE Midnight(fields.day) + 1

\* parseDatePtr
DueDate == IF fields.day = NoDue THEN NoDue ELSE Midnight(fields.day)

TaskWrite ==
    [status |-> fields.status, priority |-> fields.priority, project |-> fields.project,
     words |-> fields.words, names |-> ParseTagList(fields.names), due |-> DueDate]

\* The page of a refused form: a new task's keeps what was typed, an edit's
\* shows the task as it is stored now.
Again ==
    /\ IF target = 0
         THEN step' = "filling" /\ Forget /\ UNCHANGED <<target, fields, typed, fresh>>
         ELSE Show("row", target, NoFields) /\ fresh' = FALSE
    /\ UNCHANGED <<now, tabVars, quiet>>

\* The form is refused, the task is gone, or a statement fails.
Refuse ==
    /\ step \in {"sent", "storing"}
    /\ Again
    /\ UNCHANGED tableVars

\* Update reads its task by a statement of its own, before its transaction, in
\* which it may wait; Create has nothing to read.
Accept ==
    /\ step = "sent"
    /\ ~ Refused
    /\ target # 0 => Live(target)
    /\ step' = "storing"
    /\ existing' = IF target = 0 THEN FALSE ELSE tasks[target].archived
    /\ current' = (target # 0)
    /\ UNCHANGED <<tableVars, now, tabVars, quiet, target, fields, typed, fresh>>

\* The commit of either: what Update has read of the task is written back.
Store ==
    \E at \in 1 .. now :
        IF target = 0 THEN Create(TaskWrite, at) ELSE Edit(target, TaskWrite, existing, at)

\* A stored form is answered with a redirect to the list ...
Save ==
    /\ step = "storing"
    /\ Store
    /\ Close
    /\ pc' = "rows" /\ walkDay' = Day(now) /\ walking' = TRUE
    /\ UNCHANGED <<now, url, rows, stats, chart, badges, seen, flagged, quiet, readDay>>

\* ... or, when the reread after its commit fails, like one that failed.
SaveUnseen ==
    /\ step = "storing"
    /\ Store
    /\ Again

------------------------------------------------------------------------------

FormStep ==
    \/ OpenNew \/ OpenEdit
    \/ GetRow \/ GetTags \/ GetFails
    \/ \E c \in Typings : Send(c)
    \/ Abandon
    \/ Refuse \/ Accept \/ Save \/ SaveUnseen

\* The tab shows the list or a form.
ListStep ==
    /\ step = "none"
    /\ \/ ReadRows \/ ReadStats \/ TakeDays \/ ReadCreated \/ ReadCompleted \/ Render \/ Fail
       \/ \E u \in Urls : Open(u)
       \/ GoNext \/ GoPrevious
    /\ UNCHANGED formVars

FormNext ==
    \/ ListStep
    \/ FormStep
    \/ Change /\ fresh' = FALSE /\ current' = FALSE /\ UNCHANGED <<step, target, fields, typed, existing>>
    \/ Tick /\ UNCHANGED formVars

FormSpec == FormInit /\ [][FormNext]_<<vars, formVars>>

------------------------------------------------------------------------------
(* Properties *)

\* Saving a form changes what the user typed and nothing else of a task nobody
\* else wrote: showing a row and parsing what is shown back loses nothing but the
\* time of day of a due date.  created_at stays, and so does an archive, or its
\* undoing, that another tab has committed since the form was opened, unless it
\* came between the two statements of Update that read the row and write it.
SaveChangesWhatWasTyped ==
    [][step = "storing" /\ step' # "storing" /\ target # 0 /\ writes' # writes =>
          LET old == tasks[target]
              new == tasks'[target]
          IN  /\ new.created = old.created
              /\ current => new.archived = old.archived
              /\ fresh =>
                    /\ \A f \in {"status", "priority", "project", "words"} \ DOMAIN typed : new[f] = old[f]
                    /\ "names" \notin DOMAIN typed => tags'[target].names = tags[target].names
                    /\ "day" \notin DOMAIN typed =>
                          \/ old.due = NoDue /\ new.due = NoDue
                          \/ old.due # NoDue /\ new.due # NoDue /\ Day(new.due) = Day(old.due)
      ]_<<vars, formVars>>

\* The filters "Due from" and "Due to" set to one day list the tasks due on that
\* day and no others, if a form has dated them: a due date that was stored with a
\* time of day, as the seeder's are, falls behind the end of its own day.
DueDayIsFound ==
    \A t \in TaskId, day \in 0 .. Day(Tomorrow) + 1 :
        tasks[t] # NoRow /\ tasks[t].wrote > 0 =>
            LET scope == IF tasks[t].archived THEN "archived"
                         ELSE IF tasks[t].status = Done THEN "completed" ELSE "open"
            IN  Matches([Home EXCEPT !.scope = scope, !.dueFrom = day, !.dueTo = day], tasks[t], tags[t].names)
                  <=> (tasks[t].due # NoDue /\ Day(tasks[t].due) = day)
==============================================================================
