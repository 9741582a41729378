---------------------------- MODULE MCTaskExport ----------------------------
(***************************************************************************)
(* Instances of TaskExport for TLC.                                        *)
(***************************************************************************)
EXTENDS TaskExport

CONSTANTS home, a, w

Url == [scope |-> "open", view |-> "open", status |-> NoFilter, priority |-> NoFilter, tag |-> NoFilter,
        project |-> NoFilter, dueFrom |-> NoFilter, dueTo |-> NoFilter, search |-> NoFilter,
        sort |-> "created_at", dir |-> "desc", offset |-> 0]

Form == [status |-> 0, priority |-> 0, due |-> NoDue,
         project |-> home, words |-> {w}, names |-> {a}]

\* The default list, two filters with the sort orders that have ties and NULLs,
\* the archive, and a parameter that cannot be parsed.
ExportUrls ==
    {Url,
     [Url EXCEPT !.tag = a, !.sort = "due_date", !.dir = "asc"],
     [Url EXCEPT !.search = w, !.project = home, !.dueFrom = 1, !.dueTo = 2, !.sort = "priority"],
     [Url EXCEPT !.view = "archived", !.sort = "status", !.dir = "asc"],
     [Url EXCEPT !.status = Bad]}

ExportForms ==
    {[Form EXCEPT !.due = 2, !.priority = 1],
     [Form EXCEPT !.due = 4, !.names = {}]}

\* A row of table tasks made from a form, never updated since.
Made(form, at) == form @@ [created |-> at, updated |-> at]

\* Three tasks: two of the same instant, one without a due date.
ThreeSaved == <<Made([Form EXCEPT !.due = 3], 1), Made(Form, 1), Made([Form EXCEPT !.due = 2], 2)>>

EarlierOrNow == {1, 2}

DefaultUrl == {Url}
==============================================================================
