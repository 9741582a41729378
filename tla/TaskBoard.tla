------------------------------ MODULE TaskBoard ------------------------------
(***************************************************************************)
(* What the task service promises a user who works in one tab: every       *)
(* operation is one step on the task as it is at that moment, and it        *)
(* touches nothing else.  No locks, no copies, no transactions.             *)
(***************************************************************************)
EXTENDS Integers

CONSTANTS TaskId, User, Body, Status, ProjectRow, TagRow, Time, NoTime, NoRow, NoProject

VARIABLES
    tasks,      \* the row under each id
    tagsOf,     \* the tags of each task
    used        \* the ids a task has had or has been refused

vars == <<tasks, tagsOf, used>>

Init ==
    /\ tasks \in [TaskId -> [user : User, body : Body, status : Status,
                             project : ProjectRow \cup {NoProject},
                             created : Time, updated : Time,
                             archived : Time \cup {NoTime}] \cup {NoRow}]
    /\ tagsOf = [t \in TaskId |-> {}]
    /\ used = {t \in TaskId : tasks[t] # NoRow}

OwnProject(u) == {p \in ProjectRow : p[1] = u} \cup {NoProject}
OwnTags(u) == SUBSET {n \in TagRow : n[1] = u}

\* A task appears under an id that was never used.
Create(t) ==
    /\ t \notin used
    /\ used' = used \cup {t}
    /\ \E u \in User, body \in Body, status \in Status, time \in Time :
       \E p \in OwnProject(u), names \in OwnTags(u) :
          /\ tasks' = [tasks EXCEPT ![t] =
                [user |-> u, body |-> body, status |-> status, project |-> p,
                 created |-> time, updated |-> time, archived |-> NoTime]]
          /\ tagsOf' = [tagsOf EXCEPT ![t] = names]

\* An id is drawn for a task that is not stored.
Refuse(t) ==
    /\ t \notin used
    /\ used' = used \cup {t}
    /\ UNCHANGED <<tasks, tagsOf>>

Live(t) == tasks[t] # NoRow

\* A change is dated no earlier than the one before it.
Later(t) == {time \in Time : tasks[t].updated <= time}

\* The form replaces what it shows and leaves alone what it does not.
Edit(t) ==
    /\ Live(t)
    /\ \E body \in Body, status \in Status, time \in Later(t) :
       \E p \in OwnProject(tasks[t].user), names \in OwnTags(tasks[t].user) :
          /\ tasks' = [tasks EXCEPT ![t].body = body, ![t].status = status,
                                    ![t].project = p, ![t].updated = time]
          /\ tagsOf' = [tagsOf EXCEPT ![t] = names]
    /\ UNCHANGED used

SetStatus(t) ==
    /\ Live(t)
    /\ \E status \in Status, time \in Later(t) :
          tasks' = [tasks EXCEPT ![t].status = status, ![t].updated = time]
    /\ UNCHANGED <<tagsOf, used>>

Archive(t) ==
    /\ Live(t)
    /\ tasks[t].archived = NoTime
    /\ \E time \in Later(t) :
          tasks' = [tasks EXCEPT ![t].archived = time, ![t].updated = time]
    /\ UNCHANGED <<tagsOf, used>>

Unarchive(t) ==
    /\ Live(t)
    /\ tasks[t].archived # NoTime
    /\ \E time \in Later(t) :
          tasks' = [tasks EXCEPT ![t].archived = NoTime, ![t].updated = time]
    /\ UNCHANGED <<tagsOf, used>>

Delete(t) ==
    /\ Live(t)
    /\ tasks' = [tasks EXCEPT ![t] = NoRow]
    /\ tagsOf' = [tagsOf EXCEPT ![t] = {}]
    /\ UNCHANGED used

Next ==
    \E t \in TaskId :
        \/ Create(t) \/ Refuse(t)
        \/ Edit(t) \/ SetStatus(t) \/ Archive(t) \/ Unarchive(t) \/ Delete(t)

Spec == Init /\ [][Next]_vars
==============================================================================
