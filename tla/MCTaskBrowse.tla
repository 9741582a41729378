---------------------------- MODULE MCTaskBrowse ----------------------------
(***************************************************************************)
(* Instances of TaskBrowse and TaskForm for TLC.                           *)
(***************************************************************************)
EXTENDS TaskForm

CONSTANTS home, work, a, A, w

Form == [status |-> 0, priority |-> 0, due |-> NoDue,
         project |-> home, words |-> {w}, names |-> {a}]

\* The three tabs, a filter next to one that is dropped, an unknown sort, and a bookmark of a page that may lie beyond the end.
BrowseUrls ==
    {Home,
     [Home EXCEPT !.scope = "completed", !.view = "completed"],
     [Home EXCEPT !.scope = "archived", !.sort = "status"],
     [Home EXCEPT !.sort = "due_date", !.dir = "asc", !.tag = a, !.status = Bad],
     [Home EXCEPT !.sort = Bad],
     [Home EXCEPT !.offset = 3]}

BrowseForms == {[Form EXCEPT !.due = 0, !.names = {}]}

Made(form, made, at) == form @@ [created |-> made, updated |-> at]

\* Two open tasks, which fill a page, one of them due at noon of the first day,
\* and one that is done; the chart's first day is today or yesterday.
ThreeSaved ==
    <<Made([Form EXCEPT !.due = 1], -3, -1), Made([Form EXCEPT !.status = Done], -2, -1),
      Made([Form EXCEPT !.due = 2], -1, -1)>>

\* A title is needed; nothing is changed, or a field at a time, or a day is given
\* with the title of a new task.
NewForm == [status |-> 0, priority |-> 0, day |-> NoDue, project |-> work, words |-> Bad, names |-> {}]
SomeTypings ==
    {NoTyping, [f \in {"words"} |-> Bad], [f \in {"status"} |-> Done], [f \in {"names"} |-> {a, A, Blank}],
     [f \in {"words", "day"} |-> IF f = "day" THEN 1 ELSE {w}]}

RawTags == {a, A, Blank}
LowerCase == [n \in RawTags |-> IF n = Blank THEN Blank ELSE a]

DefaultUrl == {Home}
==============================================================================
