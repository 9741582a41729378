----------------------------- MODULE TaskExport -----------------------------
(***************************************************************************)
(* GET /tasks/export.csv: ListAllMatching of internal/app/tasks.go reads   *)
(* the matching tasks page by page, by OFFSET, and the tags of each page   *)
(* in a second statement, while the user's other requests go on writing.   *)
(***************************************************************************)
EXTENDS TaskTable, SequencesExt

CONSTANTS
    Urls,       \* the URLs an export may be asked for
    Stamps,     \* bound: the times the writes of the others may take
    ExportPage, \* the page size of ListAllMatching, 500 in the code
    StoreCap,   \* the largest page of taskStoreQuery and of TaskRepository.List, 500
    ListCap     \* the largest page of List, 100

ASSUME PageAssumption == ExportPage \in Nat \ {0} /\ ListCap \in Nat \ {0} /\ StoreCap = ExportPage
ASSUME StampsAssumption == Stamps \subseteq Stamp
ASSUME UrlsAssumption == Urls \subseteq Parameters

VARIABLES
    pc,         \* the step the export is at, or its answer
    url,        \* the URL it was asked for
    offset,     \* the OFFSET of the page it reads next
    batch,      \* the rows of the page whose tags it has still to read
    all,        \* the rows read so far, with the write that set their tags
    stayed,     \* history: the tasks that have matched ever since the start
    disturbed   \* history: a write moved a task into, out of or within what was read

readVars == <<pc, url, offset, batch, all>>
vars == <<tasks, tags, nextId, writes, pc, url, offset, batch, all, stayed, disturbed>>

Init ==
    /\ TableInit
    /\ pc = "new"
    /\ url \in Urls
    /\ offset = 0
    /\ batch = <<>>
    /\ all = <<>>
    /\ stayed = {}
    /\ disturbed = FALSE

------------------------------------------------------------------------------
(* The export *)

Query == ExportQuery(url)
MatchesNow(t) == Matches(Query, tasks[t], tags[t].names)
Selected == {tasks[t] : t \in {x \in TaskId : MatchesNow(x)}}

\* Mutant of PageLimit: the export goes through List, with List's cap.
ListPageLimit == IF ExportPage > ListCap THEN ListCap ELSE ExportPage

PageLimit == IF ExportPage > StoreCap THEN StoreCap ELSE ExportPage

Start ==
    /\ pc = "new"
    /\ pc' = IF BadRequest(url) THEN "bad_request" ELSE "rows"
    /\ stayed' = IF BadRequest(url) THEN {} ELSE {t \in TaskId : MatchesNow(t)}
    /\ UNCHANGED <<tableVars, url, offset, batch, all, disturbed>>

\* Mutant of ReadRows: an empty page is read again.
ReadRowsAgain ==
    /\ pc = "rows"
    /\ \E o \in Orderings(Query, Selected) : batch' = PageOf(o, offset, PageLimit)
    /\ pc' = IF batch' = <<>> THEN "rows" ELSE "tags"
    /\ UNCHANGED <<tableVars, url, offset, all, stayed, disturbed>>

\* TaskRepository.List up to its rows; an empty page has no tags to read.
ReadRows ==
    /\ pc = "rows"
    /\ \E o \in Orderings(Query, Selected) : batch' = PageOf(o, offset, PageLimit)
    /\ pc' = IF batch' = <<>> THEN "done" ELSE "tags"
    /\ UNCHANGED <<tableVars, url, offset, all, stayed, disturbed>>

WithTags == [i \in 1 .. Len(batch) |-> [row |-> batch[i], tagged |-> tags[batch[i].id].wrote]]

\* loadTagsForTasks; a page that is not full is the last one.
ReadTags ==
    /\ pc = "tags"
    /\ all' = all \o WithTags
    /\ batch' = <<>>
    /\ IF Len(batch) < ExportPage
         THEN pc' = "done" /\ UNCHANGED offset
         ELSE pc' = "rows" /\ offset' = offset + ExportPage
    /\ UNCHANGED <<tableVars, url, stayed, disturbed>>

\* Whatever fails, the answer is 400, bad request.
Fail ==
    /\ pc \in {"rows", "tags"}
    /\ pc' = "bad_request"
    /\ UNCHANGED <<tableVars, url, offset, batch, all, stayed, disturbed>>

------------------------------------------------------------------------------
(* The user's other requests *)

\* The ids of the rows read, those of the current page included.
Read == {e.row.id : e \in ToSet(all)} \cup {r.id : r \in ToSet(batch)}

\* The row sorts among those that have been read.
Reached(row) ==
    row.id \in Read \/ \E s \in Read : tasks[s] # NoRow /\ Precedes(Query, row, tasks[s])

\* The list shows row and old at the same place, or neither.
SamePlace(old, oldNames, row, names) ==
    /\ Matches(Query, old, oldNames) <=> Matches(Query, row, names)
    /\ Matches(Query, row, names) => Key(Query, old) = Key(Query, row)

Disturbs(t, row, names) ==
    /\ pc \in {"rows", "tags"}
    /\ ~ SamePlace(tasks[t], tags[t].names, row, names)
    /\ \/ MatchesNow(t) /\ Reached(tasks[t])
       \/ Matches(Query, row, names) /\ Reached(row)

\* Another request of the user commits.
Change ==
    /\ \E at \in Stamps : AnyWrite(at)
    /\ stayed' = {t \in stayed : Matches(Query, tasks'[t], tags'[t].names)}
    /\ disturbed' = (disturbed \/ \E t \in TaskId : Disturbs(t, tasks'[t], tags'[t].names))
    /\ UNCHANGED readVars

Answered == pc \in {"done", "bad_request"}

Quiesced == Answered /\ UNCHANGED vars

Export == Start \/ ReadRows \/ ReadTags

Next ==
    \/ Export \/ Fail
    \/ Change
    \/ Quiesced

Spec == Init /\ [][Next]_vars

\* The handler's goroutine keeps running; nobody has to write.
FairSpec == Spec /\ WF_vars(Export)

------------------------------------------------------------------------------
(* Properties *)

TypeOK ==
    /\ TableOK
    /\ pc \in {"new", "rows", "tags", "done", "bad_request"}
    /\ url \in Urls
    /\ offset \in Nat
    /\ batch \in Seq(Row) /\ Len(batch) <= ExportPage
    /\ all \in Seq([row : Row, tagged : 0 .. MaxWrites])
    /\ stayed \subseteq TaskId
    /\ disturbed \in BOOLEAN

\* The rows read are the first ones of the list in its order, each once: the
\* OFFSET of every statement takes up exactly where the one before ended, as
\* long as no write moved a task into, out of or within the part that was read.
ReadsFirstRows ==
    pc \in {"rows", "tags"} /\ ~ disturbed =>
        LET read == [i \in 1 .. Len(all) |-> all[i].row.id] \o [i \in 1 .. Len(batch) |-> batch[i].id]
        IN  /\ \A i, j \in DOMAIN read : i < j => Precedes(Query, tasks[read[i]], tasks[read[j]])
            /\ \A i \in DOMAIN read : MatchesNow(read[i])
            /\ \A t \in TaskId : MatchesNow(t) /\ t \notin Read =>
                  \A s \in Read : Precedes(Query, tasks[s], tasks[t])

\* Such an export holds every task that matched all the time.
UndisturbedIsComplete ==
    pc = "done" /\ ~ disturbed => stayed \subseteq Read

\* The tags of an exported row are those of the same write or a later one: the
\* second statement never pairs a new row with tags it no longer had.
TagsNotOlder == \A e \in ToSet(all) : e.tagged >= e.row.wrote

\* The export ends although tasks are created while it pages through them.
ExportAnswered == pc = "rows" ~> Answered

\* internal/app/tasks.go:95: "ListAllMatching returns every task matching the
\* list filters": the tasks that matched from its start to its end are there.
EveryMatchingTask == pc = "done" => stayed \subseteq Read
==============================================================================
