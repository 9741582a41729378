----------------------------- MODULE TaskBrowse -----------------------------
(***************************************************************************)
(* GET /tasks: one tab that turns the pages of the list while the user's   *)
(* other requests write.  renderTaskList of internal/web/server.go reads   *)
(* the rows, the counts of the cards and the two lines of the activity     *)
(* chart in four statements, and takes times of its own for the chart and  *)
(* the badges; the links of a page carry its URL on.                       *)
(***************************************************************************)
EXTENDS TaskTable, SequencesExt

CONSTANTS
    Urls,       \* the URLs of the tabs, the filter form and the bookmarks
    ListPage,   \* the rows of a page, 25 in the code
    Days,       \* the days of the chart, 14 in the code
    NoChart,    \* no chart
    Tomorrow    \* bound: the clock, in half days, goes from noon of day 0 to this

\* The URL /tasks
Home ==
    [scope |-> "open", view |-> "open", status |-> NoFilter, priority |-> NoFilter, tag |-> NoFilter,
     project |-> NoFilter, dueFrom |-> NoFilter, dueTo |-> NoFilter, search |-> NoFilter,
     sort |-> "created_at", dir |-> "desc", offset |-> 0]

ASSUME ListAssumption ==
    /\ ListPage \in Nat \ {0} /\ Days \in Nat \ {0} /\ Tomorrow \in Nat \ {0}
    /\ Urls \subseteq Parameters /\ Home \in Urls
\* Rows are dated by the times their writes took, or not after the seeder's run.
ASSUME SavedBefore == \A i \in DOMAIN Saved : Saved[i].created <= 1 /\ Saved[i].updated <= 1

VARIABLES
    now,        \* the clock, in half days
    pc,         \* what the tab waits for or shows
    url,        \* its URL
    rows,       \* the rows of the page
    stats,      \* the counts of the cards
    chart,      \* the day the chart ends and its two lines
    badges,     \* the rows that are flagged overdue
    seen,       \* history: the ids shown on the walk's earlier pages
    flagged,    \* history: those of them that were flagged overdue
    walkDay,    \* history: the day the walk began
    walking,    \* history: only Next since the first page, and no write
    quiet,      \* history: no write since the rows were read
    readDay     \* history: the day they were read

walkVars == <<seen, flagged, walkDay, walking>>
tabVars == <<pc, url, rows, stats, chart, badges, walkVars, readDay>>
vars == <<tasks, tags, nextId, writes, now, pc, url, rows, stats, chart, badges,
          seen, flagged, walkDay, walking, quiet, readDay>>

Day(instant) == instant \div 2

NoCards == [open |-> 0, completed |-> 0, archived |-> 0, total |-> 0, overdue |-> 0]

Init ==
    /\ TableInit
    /\ now = 1
    /\ pc = "away"
    /\ url = Home
    /\ rows = <<>>
    /\ stats = NoCards
    /\ chart = NoChart
    /\ badges = {}
    /\ seen = <<>> /\ flagged = {} /\ walkDay = 0
    /\ walking = FALSE
    /\ quiet = FALSE
    /\ readDay = 0

------------------------------------------------------------------------------
(* A page *)

Parsed(parameter) == IF parameter = Bad THEN NoFilter ELSE parameter

\* The list drops the filters it cannot parse, and does not look at view.
ListQuery ==
    [url EXCEPT !.status = Parsed(@), !.priority = Parsed(@),
                !.dueFrom = Parsed(@), !.dueTo = Parsed(@)]

MatchesNow(t) == Matches(ListQuery, tasks[t], tags[t].names)
Selected == {tasks[t] : t \in {x \in TaskId : MatchesNow(x)}}

\* The rows of the page; an unknown sort is answered with 400.
ReadRows ==
    /\ pc = "rows"
    /\ IF Bad \in {url.sort, url.dir}
         THEN pc' = "error" /\ UNCHANGED <<rows, quiet, readDay>>
         ELSE /\ \E o \in Orderings(ListQuery, Selected) : rows' = PageOf(o, url.offset, ListPage)
              /\ pc' = "stats"
              /\ quiet' = TRUE
              /\ readDay' = Day(now)
    /\ UNCHANGED <<tableVars, now, url, stats, chart, badges, walkVars>>

Stored == {tasks[t] : t \in {x \in TaskId : tasks[x] # NoRow}}

\* Mutant of OpenCard: archived tasks are counted.
OpenCardWithArchive == {r \in Stored : r.status # Done}

\* WHERE archived_at IS NULL AND status <> done
OpenCard == {r \in Stored : ~ r.archived /\ r.status # Done}

\* Mutant of OverdueCard: instants are compared, not days.
OverdueCardByInstant == {r \in OpenCard : r.due # NoDue /\ r.due < now}

\* The same, with (due_date AT TIME ZONE 'UTC')::date before today's.
OverdueCard == {r \in OpenCard : r.due # NoDue /\ Day(r.due) < Day(now)}

\* StatsForUser, one statement
ReadStats ==
    /\ pc = "stats"
    /\ stats' = [open |-> Cardinality(OpenCard), overdue |-> Cardinality(OverdueCard),
                 completed |-> Cardinality({r \in Stored : r.status = Done}),
                 archived |-> Cardinality({r \in Stored : r.archived}),
                 total |-> Cardinality(Stored)]
    /\ pc' = "today"
    /\ UNCHANGED <<tableVars, now, url, rows, chart, badges, walkVars, quiet, readDay>>

\* DailyActivity takes its days from a time of its own, before its statements.
TakeDays ==
    /\ pc = "today"
    /\ chart' = [end |-> Day(now), created |-> <<>>, completed |-> <<>>]
    /\ pc' = "created"
    /\ UNCHANGED <<tableVars, now, url, rows, stats, badges, walkVars, quiet, readDay>>

\* Mutant of Window: the chart ends yesterday.
WindowToYesterday(end) == (end - Days) .. (end - 1)

\* The days of a chart, the days through its last
Window(end) == (end - (Days - 1)) .. end

\* GROUP BY the day of created_at, and 0 for the days without a group
ReadCreated ==
    /\ pc = "created"
    /\ chart' = [chart EXCEPT !.created =
          [d \in Window(chart.end) |-> Cardinality({r \in Stored : Day(r.created) = d})]]
    /\ pc' = "completed"
    /\ UNCHANGED <<tableVars, now, url, rows, stats, badges, walkVars, quiet, readDay>>

\* The same of the tasks that are done, by updated_at
ReadCompleted ==
    /\ pc = "completed"
    /\ chart' = [chart EXCEPT !.completed =
          [d \in Window(chart.end) |-> Cardinality({r \in Stored : r.status = Done /\ Day(r.updated) = d})]]
    /\ pc' = "render"
    /\ UNCHANGED <<tableVars, now, url, rows, stats, badges, walkVars, quiet, readDay>>

\* Task.IsOverdue
IsOverdue(row) ==
    ~ (row.status = Done \/ row.archived) /\ row.due # NoDue /\ Day(row.due) < Day(now)

\* taskRows, with a time of its own
Render ==
    /\ pc = "render"
    /\ badges' = {r.id : r \in {x \in ToSet(rows) : IsOverdue(x)}}
    /\ pc' = "shown"
    /\ UNCHANGED <<tableVars, now, url, rows, stats, chart, walkVars, quiet, readDay>>

\* A statement fails; the page goes without its chart, but not without rows or
\* counts.
Fail ==
    /\ \/ pc \in {"rows", "stats"} /\ pc' = "error" /\ UNCHANGED chart
       \/ pc \in {"created", "completed"} /\ pc' = "render" /\ chart' = NoChart
    /\ UNCHANGED <<tableVars, now, url, rows, stats, badges, walkVars, quiet, readDay>>

------------------------------------------------------------------------------
(* Its links *)

HasPrev == url.offset > 0

\* Mutant of HasNext: a page that is full counts as the last one.
HasNextNever == Len(rows) > ListPage

HasNext == Len(rows) = ListPage

\* build: the parameters of the URL, and offset set when it is positive
LinkTo(offset) == IF offset > 0 THEN [url EXCEPT !.offset = offset] ELSE url

PrevLink == LinkTo(IF url.offset > ListPage THEN url.offset - ListPage ELSE 0)
NextLink == LinkTo(url.offset + ListPage)

\* taskExportPath
ExportLink == [url EXCEPT !.offset = 0]

NoWalk == seen' = <<>> /\ flagged' = {} /\ walking' = FALSE /\ UNCHANGED walkDay

Load(u) ==
    /\ url' = u
    /\ pc' = "rows"
    /\ rows' = <<>> /\ stats' = NoCards /\ chart' = NoChart /\ badges' = {} /\ quiet' = FALSE
    /\ readDay' = 0
    /\ UNCHANGED <<tableVars, now>>

\* A tab of the page, the filter form, a bookmark or the answer to a form.
Open(u) ==
    /\ pc \in {"away", "shown", "error"}
    /\ Load(u)
    /\ seen' = <<>> /\ flagged' = {} /\ walkDay' = Day(now)
    /\ walking' = (u.offset = 0)

GoNext ==
    /\ pc = "shown"
    /\ HasNext
    /\ Load(NextLink)
    /\ IF walking
         THEN seen' = seen \o [i \in DOMAIN rows |-> rows[i].id] /\ flagged' = flagged \cup badges
         ELSE UNCHANGED <<seen, flagged>>
    /\ UNCHANGED <<walkDay, walking>>

GoPrevious ==
    /\ pc = "shown"
    /\ HasPrev
    /\ Load(PrevLink)
    /\ NoWalk

------------------------------------------------------------------------------
(* The rest of the world *)

\* Another request of the user commits, dated by the time it took at its start.
Change ==
    /\ \E at \in 1 .. now : AnyWrite(at)
    /\ NoWalk /\ quiet' = FALSE
    /\ UNCHANGED <<now, pc, url, rows, stats, chart, badges, readDay>>

Tick ==
    /\ now < Tomorrow
    /\ now' = now + 1
    /\ UNCHANGED <<tableVars, tabVars, quiet>>

Next ==
    \/ ReadRows \/ ReadStats \/ TakeDays \/ ReadCreated \/ ReadCompleted \/ Render \/ Fail
    \/ \E u \in Urls : Open(u)
    \/ GoNext \/ GoPrevious
    \/ Change \/ Tick

Spec == Init /\ [][Next]_vars

------------------------------------------------------------------------------
(* Properties *)

TypeOK ==
    /\ TableOK
    /\ now \in 1 .. Tomorrow
    /\ pc \in {"away", "rows", "stats", "today", "created", "completed", "render", "shown", "error"}
    /\ [url EXCEPT !.offset = 0] \in {[u EXCEPT !.offset = 0] : u \in Urls}
    /\ url.offset \in Nat
    /\ rows \in Seq(Row) /\ Len(rows) <= ListPage
    /\ badges \subseteq TaskId
    /\ seen \in Seq(TaskId) /\ flagged \subseteq ToSet(seen)
    /\ walkDay \in 0 .. Day(Tomorrow)
    /\ walking \in BOOLEAN /\ quiet \in BOOLEAN

\* A user who turns the pages of a list nobody writes to sees each of its tasks
\* once, in its order, and the last page is the one without a Next link, also
\* when the tasks fill their pages exactly.
WalkShowsEachTaskOnce ==
    pc = "shown" /\ walking =>
        LET shown == seen \o [i \in DOMAIN rows |-> rows[i].id]
        IN  /\ \A i, j \in DOMAIN shown : i < j => Precedes(ListQuery, tasks[shown[i]], tasks[shown[j]])
            /\ \A i \in DOMAIN shown : MatchesNow(shown[i])
            /\ ~ HasNext => \A t \in TaskId : MatchesNow(t) => t \in ToSet(shown)

\* No write and no midnight since the rows were read
Calm == quiet /\ readDay = Day(now)

Unfiltered ==
    NoFilter = ListQuery.status /\ NoFilter = ListQuery.priority /\ NoFilter = url.tag
    /\ NoFilter = url.project /\ NoFilter = ListQuery.dueFrom /\ NoFilter = ListQuery.dueTo
    /\ NoFilter = url.search

\* What the cards say of the length of the list of a tab.  The Completed card
\* counts archived tasks too, so that list is what the other cards leave over.
ListLength ==
    CASE url.scope = "open" -> stats.open
      [] url.scope = "archived" -> stats.archived
      [] url.scope = "completed" -> stats.total - stats.open - stats.archived

\* The cards count the tasks that the tabs list, if nobody writes between the two
\* statements of a page: the WHERE of the list and the FILTERs of the counts are
\* two texts for the same rules.
CardsAgreeWithList ==
    pc = "shown" /\ quiet /\ Unfiltered =>
        \/ Len(rows) = ListPage /\ ListLength >= url.offset + ListPage
        \/ Len(rows) < ListPage /\ ListLength = url.offset + Len(rows)
        \/ rows = <<>> /\ ListLength <= url.offset

\* internal/store/tasks.go:144: the counts match the "domain overdue rule in UTC".
\* The Overdue card is the number of badges on the pages of the open list, if no
\* midnight passes while they are turned.
CardMatchesBadges ==
    pc = "shown" /\ walking /\ Calm /\ walkDay = Day(now) /\ Unfiltered /\ url.scope = "open"
    /\ ~ HasNext =>
        stats.overdue = Cardinality(flagged \cup badges)

Total(line) == MapThenSumSet(LAMBDA d : line[d], DOMAIN line)

\* The chart and the cards count the same tasks: what the columns leave over are
\* the tasks made, or last changed, before its first day, also when a midnight
\* passes between its own time and its two statements.
ChartAddsUpToCards ==
    pc = "shown" /\ quiet /\ chart # NoChart =>
        LET before(day) == day < chart.end - (Days - 1)
        IN  /\ Total(chart.created) + Cardinality({r \in Stored : before(Day(r.created))}) = stats.total
            /\ Total(chart.completed)
                  + Cardinality({r \in Stored : r.status = Done /\ before(Day(r.updated))}) = stats.completed

\* The Export link of a page selects the tasks the page's list selects, although
\* the two handlers read the URL each in its own way: taskExportPath keeps view,
\* which the list does not look at, so this needs a URL whose view is not another
\* tab's, as it is in all the links of the program.
ExportLinkSelectsListed ==
    pc = "shown" /\ ~ BadRequest(ExportLink) /\ url.view \in {"open", url.scope} =>
        \A t \in TaskId : MatchesNow(t) <=> Matches(ExportQuery(ExportLink), tasks[t], tags[t].names)

\* internal/web/templates/tasks_list.html:471 names the link "Previous": it leads
\* to an earlier page.
PreviousGoesBack == pc = "shown" /\ HasPrev => PrevLink.offset < url.offset
==============================================================================
