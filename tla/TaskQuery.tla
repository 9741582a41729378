----------------------------- MODULE TaskQuery -----------------------------
(***************************************************************************)
(* What TaskRepository.List selects, and in which order: the query that    *)
(* the list and the CSV export build from the same URL parameters.         *)
(***************************************************************************)
EXTENDS Integers, FiniteSets, Sequences

CONSTANTS
    NoFilter,   \* a filter that is left empty
    Bad,        \* a parameter the web layer cannot parse
    NoDue,      \* due_date IS NULL
    NoRow       \* no row under this id

Scopes == {"open", "completed", "archived"}
Columns == {"created_at", "due_date", "priority", "status"}

\* domain.Status: todo, in progress, done.
Done == 2

\* A due date is stored with a time of day, a filter names a day: instants are
\* half days, and a day's first one is the midnight parseDatePtr returns.
Midnight(day) == 2 * day

\* Any parameter the export cannot parse ends it with 400, bad request.
BadRequest(url) ==
    Bad \in {url.status, url.priority, url.dueFrom, url.dueTo, url.sort, url.dir}

\* Mutant of ExportQuery: the scope of newer links is not looked at.
ExportQueryByView(url) == [url EXCEPT !.scope = url.view]

\* The export's query; the scope of an older link is in its view.
ExportQuery(url) == [url EXCEPT !.scope = IF @ = "open" THEN url.view ELSE @]

\* WHERE, for a row and the names of its tags
Matches(q, row, names) ==
    /\ row # NoRow
    /\ row.archived = (q.scope = "archived")
    /\ q.scope = "completed" => row.status = Done
    /\ q.scope = "open" /\ q.status = NoFilter => row.status # Done
    /\ q.status # NoFilter => row.status = q.status
    /\ q.priority # NoFilter => row.priority = q.priority
    /\ q.tag # NoFilter => q.tag \in names
    /\ q.project # NoFilter => row.project = q.project
    /\ q.dueFrom # NoFilter => row.due # NoDue /\ row.due >= Midnight(q.dueFrom)
    /\ q.dueTo # NoFilter => row.due # NoDue /\ row.due <= Midnight(q.dueTo)
    /\ q.search # NoFilter => q.search \in row.words

Key(q, row) ==
    CASE q.sort = "created_at" -> row.created
      [] q.sort = "due_date" -> row.due
      [] q.sort = "priority" -> row.priority
      [] q.sort = "status" -> row.status

\* NULLS LAST, whichever the direction
KeyBefore(q, x, y) ==
    IF NoDue \in {Key(q, x), Key(q, y)}
      THEN Key(q, x) # NoDue /\ Key(q, y) = NoDue
      ELSE IF q.dir = "asc" THEN Key(q, x) < Key(q, y) ELSE Key(q, x) > Key(q, y)

\* Mutant of Precedes: ORDER BY names the sort column only.
PrecedesByKey(q, x, y) == KeyBefore(q, x, y)

\* ORDER BY column dir, id dir
Precedes(q, x, y) ==
    \/ KeyBefore(q, x, y)
    \/ /\ Key(q, x) = Key(q, y)
       /\ IF q.dir = "asc" THEN x.id < y.id ELSE x.id > y.id

\* The sequences of all the rows of S that respect ORDER BY; which of them a
\* statement returns is the database's choice.
Orderings(q, S) ==
    {o \in [1 .. Cardinality(S) -> S] :
        \A i, j \in DOMAIN o : i < j => o[i] # o[j] /\ ~ Precedes(q, o[j], o[i])}

\* Mutant of PageOf: no LIMIT.
PageToEnd(o, offset, limit) == SubSeq(o, offset + 1, Len(o))

\* LIMIT limit OFFSET offset
PageOf(o, offset, limit) ==
    SubSeq(o, offset + 1, IF offset + limit < Len(o) THEN offset + limit ELSE Len(o))
==============================================================================
