--------------------------- MODULE TaskFormProofs ---------------------------
(***************************************************************************)
(* Theorems about the list and the forms of TaskBrowse and TaskForm.  What *)
(* a page shows belongs to one state of the table until somebody writes:   *)
(* the walk's pages are the first rows of the list (Walk), the cards count *)
(* its rows (Page, Cards), the badges are those of the day (Badges), the   *)
(* chart's columns count the rows of their days (Chart).                   *)
(***************************************************************************)
EXTENDS TaskForm, TaskTableProofs, WellFoundedInduction

WithStats == {"today", "created", "completed", "render", "shown"}
WithRows == WithStats \cup {"stats"}

------------------------------------------------------------------------------
(* Facts about a table, as constant operators *)

ListIn(table, named, q) == {t \in TaskId : Matches(q, table[t], named[t].names)}

\* All tasks of the list are among those read.
AllIn(table, named, q, read) ==
    \A t \in ListIn(table, named, q) : \E i \in 1 .. Len(read) : read[i] = t

\* The length of a page by LIMIT and OFFSET
PageLength(table, named, q, offset, length) ==
    LET n == Cardinality({table[t] : t \in ListIn(table, named, q)})
    IN  length = IF offset + ListPage <= n THEN ListPage ELSE IF offset <= n THEN n - offset ELSE 0

Current(table, page) == \A i \in 1 .. Len(page) : table[page[i].id] = page[i]

StoredIn(table) == {table[t] : t \in {x \in TaskId : table[x] # NoRow}}

OverdueIn(table, day) ==
    {t \in TaskId : /\ table[t] # NoRow /\ ~ table[t].archived /\ table[t].status # Done
                    /\ table[t].due # NoDue /\ Day(table[t].due) < day}

CountsOf(table, counts) ==
    /\ counts.open = Cardinality({r \in StoredIn(table) : ~ r.archived /\ r.status # Done})
    /\ counts.archived = Cardinality({r \in StoredIn(table) : r.archived})
    /\ counts.completed = Cardinality({r \in StoredIn(table) : r.status = Done})
    /\ counts.total = Cardinality(StoredIn(table))

\* The lines of a chart
MadeLine(table, end) ==
    [d \in Window(end) |-> Cardinality({r \in StoredIn(table) : Day(r.created) = d})]
DoneLine(table, end) ==
    [d \in Window(end) |-> Cardinality({r \in StoredIn(table) : r.status = Done /\ Day(r.updated) = d})]

\* Those of the ids that are overdue
OverdueOf(table, day, ids) == {t \in OverdueIn(table, day) : \E i \in 1 .. Len(ids) : ids[i] = t}

------------------------------------------------------------------------------
(* The inductive invariant *)

UrlOK == url \in Parameters /\ \E u \in Urls : url = [u EXCEPT !.offset = url.offset]

HistoryOK ==
    /\ readDay \in Int
    /\ walkDay <= Day(now)
    /\ pc = "shown" => badges \subseteq ToSet(Ids(rows))

\* A tab that is away from the list, at a form or just opened, shows nothing.
Away ==
    /\ step # "none" => pc = "away"
    /\ pc = "away" => url = Home /\ rows = <<>> /\ seen = <<>> /\ flagged = {} /\ ~ walking /\ ~ quiet

Sorted == pc \in WithRows => url.sort # Bad /\ url.dir # Bad

Walk ==
    /\ walking /\ pc \in {"rows"} \cup WithRows =>
          Len(seen) = url.offset /\ FirstIn(tasks, tags, ListQuery, seen)
    /\ walking /\ pc \in WithRows =>
          /\ quiet /\ walkDay <= readDay
          /\ FirstIn(tasks, tags, ListQuery, seen \o Ids(rows))
          /\ Len(rows) < ListPage => AllIn(tasks, tags, ListQuery, seen \o Ids(rows))

Page ==
    quiet /\ pc \in WithRows =>
        /\ readDay <= Day(now)
        /\ PageLength(tasks, tags, ListQuery, url.offset, Len(rows))
        /\ Current(tasks, rows)

Cards ==
    quiet /\ pc \in WithStats =>
        /\ CountsOf(tasks, stats)
        /\ readDay = Day(now) => stats.overdue = Cardinality(OverdueIn(tasks, Day(now)))

Badges ==
    /\ pc = "shown" /\ quiet /\ readDay = Day(now) => badges = OverdueOf(tasks, Day(now), Ids(rows))
    /\ walking /\ walkDay = Day(now) => flagged = OverdueOf(tasks, Day(now), seen)

ListInv == Sorted /\ Walk /\ Page /\ Cards /\ Badges

\* Only forms and their answers date tasks after the first write, at midnight.
DatedByDay(row) ==
    row # NoRow /\ row.wrote > 0 /\ row.due # NoDue => row.due = Midnight(row.due \div 2)

\* No row is dated after the time at.
Dated(row, at) == DatedByDay(row) /\ (row # NoRow => row.created <= at /\ row.updated <= at)
AllDated(table, at) == \A t \in TaskId : Dated(table[t], at)

FormOK ==
    /\ step \in {"none", "row", "tags", "filling", "sent", "storing"}
    /\ target \in 0 .. MaxTask
    /\ existing \in BOOLEAN
    /\ step \in {"row", "tags"} => target # 0
    /\ step \in {"tags", "filling", "sent", "storing"} => fields \in Content
    /\ step = "tags" => DOMAIN typed = {}
    /\ step = "storing" => ~ Refused

\* While nobody writes, the chart's lines count the rows that the cards count, and
\* none of them is dated after its last day.
Chart ==
    pc \in {"created", "completed"} \/ (pc \in {"render", "shown"} /\ chart # NoChart) =>
        /\ chart.end \in Int
        /\ chart = [end |-> chart.end, created |-> chart.created, completed |-> chart.completed]
        /\ quiet =>
              /\ \A r \in StoredIn(tasks) : Day(r.created) <= chart.end /\ Day(r.updated) <= chart.end
              /\ pc # "created" => chart.created = MadeLine(tasks, chart.end)
              /\ pc \in {"render", "shown"} => chart.completed = DoneLine(tasks, chart.end)

\* What the form holds of its task, as long as nobody writes.
Kept(row, names) ==
    /\ \A f \in {"status", "priority", "project", "words"} \ DOMAIN typed : fields[f] = row[f]
    /\ "day" \notin DOMAIN typed => fields.day = IF row.due = NoDue THEN NoDue ELSE Day(row.due)
    /\ step # "tags" /\ "names" \notin DOMAIN typed => fields.names = names

Fresh ==
    fresh /\ target # 0 /\ step \in {"tags", "filling", "sent", "storing"} =>
        tasks[target] # NoRow /\ Kept(tasks[target], tags[target].names)

\* What Update has read of its task is true as long as nobody writes.
Existing == step = "storing" /\ current => target # 0 /\ existing = tasks[target].archived

StateOK == TypeOK /\ TableInv /\ UrlOK /\ HistoryOK /\ Away /\ FormOK

BrowseInv == StateOK /\ ListInv /\ AllDated(tasks, now) /\ Chart /\ Fresh /\ Existing

------------------------------------------------------------------------------
(* Days *)

LEMMA DayFacts ==
    /\ \A d \in Int : Day(d) \in Int /\ Day(Midnight(d)) = d /\ Midnight(d) \in Int
    /\ \A d \in Int : Midnight(d) = Midnight(Midnight(d) \div 2)
    /\ \A d, e \in Int : d <= e => Day(d) <= Day(e)
    /\ \A d \in Nat : Day(d) \in Nat
<1>1. \A d \in Int : d \div 2 \in Int /\ (2 * d) \div 2 = d /\ 2 * d \in Int
  OBVIOUS
<1>2. \A d, e \in Int : d <= e => d \div 2 <= e \div 2
  OBVIOUS
<1>3. \A d \in Nat : d \div 2 \in Nat
  OBVIOUS
<1>4. QED
  BY <1>1, <1>2, <1>3 DEF Day, Midnight

------------------------------------------------------------------------------
(* Queries *)

\* The query of the list for a URL
QueryOf(u) ==
    [u EXCEPT !.status = Parsed(@), !.priority = Parsed(@),
              !.dueFrom = Parsed(@), !.dueTo = Parsed(@)]

\* Queries that agree on all but the offset select the same rows in the same order.
SameList(q, r) ==
    /\ q.scope = r.scope /\ q.status = r.status /\ q.priority = r.priority /\ q.tag = r.tag
    /\ q.project = r.project /\ q.dueFrom = r.dueFrom /\ q.dueTo = r.dueTo /\ q.search = r.search
    /\ q.sort = r.sort /\ q.dir = r.dir

LEMMA SameListFacts ==
    ASSUME NEW q, NEW r, SameList(q, r)
    PROVE  /\ \A row, names : Matches(q, row, names) <=> Matches(r, row, names)
           /\ \A x, y : Precedes(q, x, y) <=> Precedes(r, x, y)
<1>1. ASSUME NEW row, NEW names PROVE Matches(q, row, names) <=> Matches(r, row, names)
  BY DEF SameList, Matches
<1>2. \A x : Key(q, x) = Key(r, x)
  BY DEF SameList, Key
<1>3. \A x, y : KeyBefore(q, x, y) <=> KeyBefore(r, x, y)
  BY <1>2 DEF SameList, KeyBefore
<1>4. \A x, y : Precedes(q, x, y) <=> Precedes(r, x, y)
  BY <1>2, <1>3 DEF SameList, Precedes
<1>5. QED
  BY <1>1, <1>4

LEMMA SameFirst ==
    ASSUME NEW q, NEW r, SameList(q, r), NEW table, NEW named, NEW read, FirstIn(table, named, q, read)
    PROVE  FirstIn(table, named, r, read)
BY SameListFacts DEF FirstIn

LEMMA QueryFields ==
    ASSUME NEW u \in Parameters, NEW q, q = QueryOf(u)
    PROVE  /\ q.scope = u.scope /\ q.tag = u.tag /\ q.project = u.project /\ q.search = u.search
           /\ q.sort = u.sort /\ q.dir = u.dir
           /\ q.status = Parsed(u.status) /\ q.priority = Parsed(u.priority)
           /\ q.dueFrom = Parsed(u.dueFrom) /\ q.dueTo = Parsed(u.dueTo)
BY DEF QueryOf, Parameters

LEMMA ListQueryIs == ListQuery = QueryOf(url)
BY DEF ListQuery, QueryOf

\* A link keeps all of its page's URL but the offset.
LEMMA LinkKeeps ==
    ASSUME UrlOK, NEW k \in Nat, NEW v, v = LinkTo(k)
    PROVE  /\ v \in Parameters
           /\ \E u \in Urls : v = [u EXCEPT !.offset = v.offset]
           /\ SameList(QueryOf(url), QueryOf(v))
           /\ k > 0 => v.offset = k
<1>1. CASE ~ (k > 0)
  <2>1. v = url
    BY <1>1 DEF LinkTo
  <2>2. QED
    BY <1>1, <2>1 DEF UrlOK, SameList
<1>2. CASE k > 0
  <2>1. v = [url EXCEPT !.offset = k]
    BY <1>2 DEF LinkTo
  <2>2. v \in Parameters /\ v.offset = k
    BY <2>1 DEF UrlOK, Parameters
  <2>3. PICK u \in Urls : url = [u EXCEPT !.offset = url.offset]
    BY DEF UrlOK
  <2>4. u \in Parameters
    BY ListAssumption
  <2>5. v = [u EXCEPT !.offset = k]
    BY <2>1, <2>3, <2>4
  <2>6. SameList(QueryOf(url), QueryOf(v))
    <3>1. v.scope = url.scope /\ v.status = url.status /\ v.priority = url.priority /\ v.tag = url.tag
          /\ v.project = url.project /\ v.dueFrom = url.dueFrom /\ v.dueTo = url.dueTo
          /\ v.search = url.search /\ v.sort = url.sort /\ v.dir = url.dir
      BY <2>1 DEF UrlOK, Parameters
    <3>2. QED
      BY <2>2, <3>1, QueryFields DEF UrlOK, SameList
  <2>7. QED
    BY <2>2, <2>5, <2>6
<1>3. QED
  BY <1>1, <1>2

LEMMA UrlType ==
    ASSUME NEW v \in Parameters, \E u \in Urls : v = [u EXCEPT !.offset = v.offset]
    PROVE  v.offset \in Nat /\ [v EXCEPT !.offset = 0] \in {[u EXCEPT !.offset = 0] : u \in Urls}
<1>1. PICK u \in Urls : v = [u EXCEPT !.offset = v.offset]
  OBVIOUS
<1>2. u \in Parameters
  BY ListAssumption
<1>3. [v EXCEPT !.offset = 0] = [u EXCEPT !.offset = 0]
  BY <1>1, <1>2 DEF Parameters
<1>4. QED
  BY <1>3 DEF Parameters

LEMMA OwnUrl ==
    ASSUME NEW u \in Urls
    PROVE  u \in Parameters /\ \E v \in Urls : u = [v EXCEPT !.offset = u.offset]
<1>1. u \in Parameters
  BY ListAssumption
<1>2. u = [u EXCEPT !.offset = u.offset]
  BY <1>1 DEF Parameters
<1>3. QED
  BY <1>1, <1>2

\* A page is read of a URL whose list has an order.
LEMMA ListSorts ==
    ASSUME UrlOK, url.sort # Bad, url.dir # Bad
    PROVE  Sorts(ListQuery)
<1>1. url.sort \in Columns /\ url.dir \in {"asc", "desc"}
  BY DEF UrlOK, Parameters
<1>2. QED
  BY <1>1, QueryFields, ListQueryIs DEF UrlOK, Sorts
------------------------------------------------------------------------------
(* State: the steps of the list *)

LEMMA SeenGrows ==
    ASSUME StateOK
    PROVE  /\ Ids(rows) \in Seq(TaskId) /\ Len(Ids(rows)) = Len(rows)
           /\ \A i \in 1 .. Len(rows) : Ids(rows)[i] = rows[i].id /\ rows[i].id \in TaskId
           /\ [i \in DOMAIN rows |-> rows[i].id] = Ids(rows)
           /\ seen \o Ids(rows) \in Seq(TaskId)
           /\ Len(seen \o Ids(rows)) = Len(seen) + Len(rows)
           /\ \A i \in 1 .. Len(seen) + Len(rows) :
                 (seen \o Ids(rows))[i] = IF i <= Len(seen) THEN seen[i] ELSE rows[i - Len(seen)].id
           /\ \A t : (\E i \in 1 .. Len(seen \o Ids(rows)) : (seen \o Ids(rows))[i] = t) <=>
                 \/ \E i \in 1 .. Len(seen) : seen[i] = t
                 \/ \E i \in 1 .. Len(Ids(rows)) : Ids(rows)[i] = t
<1>1. rows \in Seq(Row) /\ seen \in Seq(TaskId)
  BY DEF StateOK, TypeOK
<1>2. ASSUME NEW i \in 1 .. Len(rows) PROVE rows[i].id \in TaskId
  <2>1. rows[i] \in Row
    BY <1>1, ElementOfSeq
  <2>2. QED
    BY <2>1 DEF Row
<1>3. Len(rows) \in Nat /\ Len(seen) \in Nat /\ DOMAIN rows = 1 .. Len(rows)
  BY <1>1, LenProperties
<1>4. /\ Ids(rows) \in Seq(TaskId) /\ Len(Ids(rows)) = Len(rows)
      /\ \A i \in 1 .. Len(rows) : Ids(rows)[i] = rows[i].id
  BY <1>2, <1>3 DEF Ids
<1>5. [i \in DOMAIN rows |-> rows[i].id] = Ids(rows)
  BY <1>3 DEF Ids
<1>6. PICK ids \in Seq(TaskId) : ids = Ids(rows)
  BY <1>4
<1>7. /\ seen \o ids \in Seq(TaskId)
      /\ Len(seen \o ids) = Len(seen) + Len(ids)
      /\ \A i \in 1 .. Len(seen) + Len(ids) :
            (seen \o ids)[i] = IF i <= Len(seen) THEN seen[i] ELSE ids[i - Len(seen)]
  BY <1>1, ConcatProperties
<1>8. /\ seen \o Ids(rows) \in Seq(TaskId)
      /\ Len(seen \o Ids(rows)) = Len(seen) + Len(rows)
      /\ \A i \in 1 .. Len(seen) + Len(rows) :
            (seen \o Ids(rows))[i] = IF i <= Len(seen) THEN seen[i] ELSE Ids(rows)[i - Len(seen)]
  BY <1>4, <1>6, <1>7
<1>9. \A i \in 1 .. Len(seen) + Len(rows) : ~ (i <= Len(seen)) => i - Len(seen) \in 1 .. Len(rows)
  BY <1>3
<1>10. \A i \in 1 .. Len(seen) : i \in 1 .. Len(seen) + Len(rows)
  BY <1>3
<1>11. \A i \in 1 .. Len(rows) : /\ Len(seen) + i \in 1 .. Len(seen) + Len(rows)
                                  /\ ~ (Len(seen) + i <= Len(seen)) /\ (Len(seen) + i) - Len(seen) = i
  BY <1>3
<1>12. ASSUME NEW t, \E i \in 1 .. Len(rows) : Ids(rows)[i] = t
       PROVE  \E i \in 1 .. Len(seen \o Ids(rows)) : (seen \o Ids(rows))[i] = t
  <2>1. PICK i \in 1 .. Len(rows) : Ids(rows)[i] = t
    BY <1>12
  <2>2. (seen \o Ids(rows))[Len(seen) + i] = t
    BY <1>8, <1>11, <2>1
  <2>3. QED
    BY <1>8, <1>11, <2>2
<1>13. ASSUME NEW t, \E i \in 1 .. Len(seen) : seen[i] = t
       PROVE  \E i \in 1 .. Len(seen \o Ids(rows)) : (seen \o Ids(rows))[i] = t
  <2>1. PICK i \in 1 .. Len(seen) : seen[i] = t
    BY <1>13
  <2>2. i <= Len(seen)
    BY <1>3
  <2>3. (seen \o Ids(rows))[i] = t
    BY <1>8, <1>10, <2>1, <2>2
  <2>4. QED
    BY <1>8, <1>10, <2>3
<1>14. ASSUME NEW t, \E i \in 1 .. Len(seen \o Ids(rows)) : (seen \o Ids(rows))[i] = t
       PROVE  \/ \E i \in 1 .. Len(seen) : seen[i] = t
              \/ \E i \in 1 .. Len(Ids(rows)) : Ids(rows)[i] = t
  <2>1. PICK i \in 1 .. Len(seen) + Len(rows) : (seen \o Ids(rows))[i] = t
    BY <1>8, <1>14
  <2>2. CASE i <= Len(seen)
    <3>1. i \in 1 .. Len(seen)
      BY <1>3, <2>2
    <3>2. seen[i] = t
      BY <1>8, <2>1, <2>2
    <3>3. QED
      BY <3>1, <3>2
  <2>3. CASE ~ (i <= Len(seen))
    <3>1. Ids(rows)[i - Len(seen)] = t
      BY <1>8, <2>1, <2>3
    <3>2. QED
      BY <1>4, <1>9, <2>3, <3>1
  <2>4. QED
    BY <2>2, <2>3
<1>15. QED
  BY <1>2, <1>4, <1>5, <1>8, <1>9, <1>12, <1>13, <1>14

\* A step of renderTaskList
LEMMA ReaderState ==
    ASSUME StateOK, UNCHANGED <<tableVars, now, url, walkVars, formVars>>,
           step = "none", pc' \in WithRows \cup {"error"},
           rows' \in Seq(Row), Len(rows') <= ListPage, badges' \subseteq TaskId,
           quiet' \in BOOLEAN, readDay' \in Int,
           pc' = "shown" => badges' \subseteq ToSet(Ids(rows'))
    PROVE  StateOK'
<1>1. TableInv'
  BY TableStays DEF StateOK
<1>2. TypeOK'
  BY <1>1 DEF StateOK, TypeOK, TableInv, walkVars, WithRows, WithStats
<1>3. UrlOK' /\ HistoryOK' /\ FormOK'
  BY DEF StateOK, UrlOK, HistoryOK, FormOK, formVars, walkVars, Ids
<1>4. Away'
  BY DEF StateOK, Away, formVars, WithRows, WithStats
<1>5. QED
  BY <1>1, <1>2, <1>3, <1>4 DEF StateOK

LEMMA PageIsTyped ==
    ASSUME StateOK, Sorts(ListQuery), NEW page,
           \E o \in Orderings(ListQuery, Selected) : page = PageOf(o, url.offset, ListPage)
    PROVE  /\ page \in Seq(Row) /\ Len(page) <= ListPage
           /\ \E o \in Orderings(ListQuery, ListedRows(ListQuery)) : page = PageOf(o, url.offset, ListPage)
<1>1. Selected = ListedRows(ListQuery)
  BY DEF Selected, ListedRows, Listed, MatchesNow
<1>2. PICK o \in Orderings(ListQuery, ListedRows(ListQuery)) : page = PageOf(o, url.offset, ListPage)
  BY <1>1
<1>3. TableOK /\ url.offset \in Nat
  BY DEF StateOK, TypeOK
<1>4. page \in Seq(ListedRows(ListQuery)) /\ Len(page) <= ListPage
  BY <1>2, <1>3, ListAssumption, PageRows
<1>5. page \in Seq(Row)
  <2>1. ListedRows(ListQuery) \subseteq Row
    BY <1>3, ListedAreRows
  <2>2. \A i \in 1 .. Len(page) : page[i] \in Row
    BY <1>4, <2>1, ElementOfSeq
  <2>3. QED
    BY <1>4, <2>2
<1>6. QED
  BY <1>2, <1>4, <1>5

LEMMA ReadRowsState ==
    ASSUME StateOK, ReadRows, step = "none", UNCHANGED formVars
    PROVE  StateOK'
<1>1. UNCHANGED <<tableVars, now, url, walkVars>> /\ badges' = badges
  BY DEF ReadRows
<1>2. rows \in Seq(Row) /\ Len(rows) <= ListPage /\ badges \subseteq TaskId /\ quiet \in BOOLEAN /\ readDay \in Int
  BY DEF StateOK, TypeOK, HistoryOK
<1>3. CASE Bad \in {url.sort, url.dir}
  BY <1>1, <1>2, <1>3, ReaderState DEF ReadRows, WithRows
<1>4. CASE Bad \notin {url.sort, url.dir}
  <2>1. pc' = "stats" /\ quiet' = TRUE /\ readDay' = Day(now)
    BY <1>4 DEF ReadRows
  <2>2. Sorts(ListQuery)
    BY <1>4, ListSorts DEF StateOK
  <2>3. rows' \in Seq(Row) /\ Len(rows') <= ListPage
    BY <1>4, <2>2, PageIsTyped DEF ReadRows
  <2>4. Day(now) \in Int
    BY DayFacts DEF StateOK, TypeOK
  <2>5. QED
    BY <1>1, <1>2, <2>1, <2>3, <2>4, ReaderState DEF WithRows, WithStats
<1>5. QED
  BY <1>3, <1>4

LEMMA OtherReadsState ==
    ASSUME StateOK, step = "none", UNCHANGED formVars,
           ReadStats \/ TakeDays \/ ReadCreated \/ ReadCompleted \/ Fail
    PROVE  StateOK'
<1>1. rows \in Seq(Row) /\ Len(rows) <= ListPage /\ badges \subseteq TaskId /\ quiet \in BOOLEAN /\ readDay \in Int
  BY DEF StateOK, TypeOK, HistoryOK
<1>2. /\ UNCHANGED <<tableVars, now, url, walkVars, rows, badges, quiet, readDay>>
      /\ pc' \in WithRows \cup {"error"} /\ pc' # "shown"
  BY DEF ReadStats, TakeDays, ReadCreated, ReadCompleted, Fail, WithRows, WithStats
<1>3. QED
  BY <1>1, <1>2, ReaderState

LEMMA RenderState ==
    ASSUME StateOK, step = "none", UNCHANGED formVars, Render
    PROVE  StateOK'
<1>1. rows \in Seq(Row) /\ Len(rows) <= ListPage /\ badges \subseteq TaskId /\ quiet \in BOOLEAN /\ readDay \in Int
  BY DEF StateOK, TypeOK, HistoryOK
<1>2. \A r \in ToSet(rows) : r.id \in TaskId
  <2> SUFFICES ASSUME NEW i \in 1 .. Len(rows) PROVE rows[i].id \in TaskId
    BY <1>1 DEF ToSet
  <2>1. rows[i] \in Row
    BY <1>1, ElementOfSeq
  <2>2. QED
    BY <2>1 DEF Row
<1>3. badges' \subseteq TaskId
  BY <1>2 DEF Render
<1>4. UNCHANGED <<tableVars, now, url, walkVars, rows, quiet, readDay>> /\ pc' = "shown"
  BY DEF Render
<1>5. badges' \subseteq ToSet(Ids(rows))
  <2>1. Len(rows) \in Nat /\ DOMAIN rows = 1 .. Len(rows)
    BY <1>1, LenProperties
  <2>2. \A r \in ToSet(rows) : \E i \in 1 .. Len(rows) : rows[i] = r
    BY <2>1 DEF ToSet
  <2>3. /\ Ids(rows) \in Seq(TaskId) /\ Len(Ids(rows)) = Len(rows)
        /\ \A i \in 1 .. Len(rows) : Ids(rows)[i] = rows[i].id
    BY SeenGrows
  <2>4. \A r \in ToSet(rows) : r.id \in ToSet(Ids(rows))
    BY <2>2, <2>3, LenProperties DEF ToSet
  <2>5. QED
    BY <2>4 DEF Render
<1>6. QED
  BY <1>1, <1>3, <1>4, <1>5, ReaderState DEF WithRows, WithStats

\* A link is followed.
LEMMA LoadState ==
    ASSUME StateOK, NEW v \in Parameters, \E u \in Urls : v = [u EXCEPT !.offset = v.offset], Load(v),
           seen' \in Seq(TaskId), flagged' \subseteq ToSet(seen'),
           walkDay' \in {walkDay, Day(now)}, walking' \in BOOLEAN, step' = "none", FormOK'
    PROVE  StateOK'
<1>1. TableInv'
  BY TableStays DEF StateOK, Load
<1>2. walkDay' \in 0 .. Day(Tomorrow) /\ walkDay' <= Day(now)
  <2>1. /\ walkDay \in 0 .. Day(Tomorrow) /\ walkDay <= Day(now) /\ now \in 1 .. Tomorrow
        /\ Tomorrow \in Nat
    BY ListAssumption DEF StateOK, TypeOK, HistoryOK
  <2>2. Day(now) \in Nat /\ Day(now) <= Day(Tomorrow) /\ Day(Tomorrow) \in Nat
    BY <2>1, DayFacts
  <2>3. QED
    BY <2>1, <2>2
<1>3. TypeOK'
  <2>1. url' = v /\ pc' = "rows" /\ rows' = <<>> /\ badges' = {} /\ quiet' = FALSE /\ now' = now
    BY DEF Load
  <2>2. url'.offset \in Nat /\ [url' EXCEPT !.offset = 0] \in {[u EXCEPT !.offset = 0] : u \in Urls}
    BY <2>1, UrlType
  <2>3. rows' \in Seq(Row) /\ Len(rows') <= ListPage
    BY <2>1, ListAssumption
  <2>4. QED
    BY <1>1, <1>2, <2>1, <2>2, <2>3 DEF StateOK, TypeOK, TableInv
<1>4. UrlOK' /\ HistoryOK' /\ Away'
  BY <1>2 DEF Load, UrlOK, HistoryOK, Away
<1>5. QED
  BY <1>1, <1>3, <1>4 DEF StateOK

LEMMA OpenState ==
    ASSUME StateOK, NEW u \in Urls, Open(u), step' = "none", FormOK'
    PROVE  StateOK'
<1>1. u \in Parameters /\ \E v \in Urls : u = [v EXCEPT !.offset = u.offset]
  BY OwnUrl
<1>2. /\ Load(u) /\ seen' \in Seq(TaskId) /\ flagged' \subseteq ToSet(seen')
      /\ walkDay' = Day(now) /\ walking' \in BOOLEAN
  BY DEF Open
<1>3. QED
  BY <1>1, <1>2, LoadState

LEMMA TurnState ==
    ASSUME StateOK, step = "none", UNCHANGED formVars, GoNext \/ GoPrevious
    PROVE  StateOK'
<1>1. FormOK' /\ step' = "none"
  BY DEF StateOK, FormOK, formVars
<1>2. url.offset \in Nat /\ ListPage \in Nat \ {0} /\ UrlOK
  BY ListAssumption DEF StateOK, TypeOK
<1>3. CASE GoNext
  <2>1. PICK v : v = NextLink
    OBVIOUS
  <2>2. v \in Parameters /\ \E u \in Urls : v = [u EXCEPT !.offset = v.offset]
    BY <1>2, <2>1, LinkKeeps DEF NextLink
  <2>3. Load(v) /\ UNCHANGED <<walkDay, walking>>
    BY <1>3, <2>1 DEF GoNext
  <2>4. seen' \in Seq(TaskId) /\ flagged' \subseteq ToSet(seen')
    <3>1. CASE walking
      <4>1. seen' = seen \o Ids(rows) /\ flagged' = flagged \cup badges
        BY <1>3, <3>1, SeenGrows DEF GoNext
      <4>2. flagged \subseteq ToSet(seen) /\ badges \subseteq ToSet(Ids(rows))
        BY <1>3 DEF GoNext, StateOK, TypeOK, HistoryOK
      <4>3. \A t \in ToSet(seen) : \E i \in 1 .. Len(seen) : seen[i] = t
        BY LenProperties DEF StateOK, TypeOK, ToSet
      <4>4. \A t \in ToSet(Ids(rows)) : \E i \in 1 .. Len(Ids(rows)) : Ids(rows)[i] = t
        BY SeenGrows, LenProperties DEF ToSet
      <4>5. \A t \in flagged' : \E i \in 1 .. Len(seen') : seen'[i] = t
        BY <4>1, <4>2, <4>3, <4>4, SeenGrows
      <4>6. seen' \in Seq(TaskId)
        BY <4>1, SeenGrows
      <4>7. QED
        BY <4>5, <4>6, LenProperties DEF ToSet
    <3>2. CASE ~ walking
      BY <1>3, <3>2 DEF GoNext, StateOK, TypeOK
    <3>3. QED
      BY <3>1, <3>2
  <2>5. QED
    BY <1>1, <2>2, <2>3, <2>4, LoadState DEF StateOK, TypeOK
<1>4. CASE GoPrevious
  <2> DEFINE k == IF url.offset > ListPage THEN url.offset - ListPage ELSE 0
  <2>1. k \in Nat
    BY <1>2
  <2> HIDE DEF k
  <2>2. PICK v : v = LinkTo(k)
    OBVIOUS
  <2>3. v \in Parameters /\ \E u \in Urls : v = [u EXCEPT !.offset = v.offset]
    BY <1>2, <2>1, <2>2, LinkKeeps
  <2>4. Load(v) /\ NoWalk
    BY <1>4, <2>2 DEF GoPrevious, PrevLink, k
  <2>5. seen' \in Seq(TaskId) /\ flagged' \subseteq ToSet(seen') /\ walkDay' = walkDay /\ walking' = FALSE
    BY <2>4 DEF NoWalk
  <2>6. QED
    BY <1>1, <2>3, <2>4, <2>5, LoadState
<1>5. QED
  BY <1>3, <1>4
------------------------------------------------------------------------------
(* State: the forms and the writes *)

\* Nothing but the form changes.
LEMMA FormState ==
    ASSUME StateOK, UNCHANGED <<tableVars, now, tabVars, quiet>>, step # "none" => pc = "away",
           step' # "none" => pc = "away", FormOK'
    PROVE  StateOK'
<1>1. TableInv'
  BY TableStays DEF StateOK
<1>2. TypeOK'
  BY <1>1 DEF StateOK, TypeOK, TableInv, tabVars, walkVars
<1>3. UrlOK' /\ HistoryOK' /\ Away'
  BY DEF StateOK, UrlOK, HistoryOK, Away, tabVars, walkVars, Ids
<1>4. QED
  BY <1>1, <1>2, <1>3 DEF StateOK

LEMMA LeaveState ==
    ASSUME StateOK, LeaveList, FormOK'
    PROVE  StateOK'
<1>1. TableInv'
  BY TableStays DEF StateOK, LeaveList
<1>2. /\ url' = Home /\ pc' = "away" /\ rows' = <<>> /\ seen' = <<>> /\ flagged' = {} /\ badges' = {}
      /\ walking' = FALSE /\ quiet' = FALSE /\ readDay' = 0 /\ walkDay' = walkDay /\ now' = now
  BY DEF LeaveList, NoWalk
<1>3. Home \in Parameters /\ \E u \in Urls : Home = [u EXCEPT !.offset = Home.offset]
  BY OwnUrl, ListAssumption
<1>4. Home.offset \in Nat /\ [Home EXCEPT !.offset = 0] \in {[u EXCEPT !.offset = 0] : u \in Urls}
  BY <1>3, UrlType
<1> HIDE DEF Home
<1>5. TypeOK'
  <2>1. rows' \in Seq(Row) /\ Len(rows') <= ListPage /\ seen' \in Seq(TaskId)
    BY <1>2, ListAssumption
  <2>2. QED
    BY <1>1, <1>2, <1>4, <2>1 DEF StateOK, TypeOK, TableInv
<1>6. UrlOK' /\ HistoryOK' /\ Away'
  BY <1>2, <1>3 DEF StateOK, UrlOK, HistoryOK, Away
<1>7. QED
  BY <1>1, <1>5, <1>6 DEF StateOK

LEMMA ContentFields ==
    ASSUME NEW c \in Content
    PROVE  /\ c.status \in (0 .. Done) \cup {Bad} /\ c.priority \in Int \cup {Bad}
           /\ c.day \in Int \cup {NoDue, Bad} /\ c.project \in Project
           /\ c.words \in (SUBSET Word) \cup {Bad} /\ c.names \in SUBSET RawTag
           /\ DOMAIN c = Field
BY DEF Content, Field

\* What the user changed, over what was there
LEMMA TypedIsContent ==
    ASSUME NEW c \in Typings, NEW old \in Content
    PROVE  /\ Over(c, old) \in Content
           /\ \A f \in Field \ DOMAIN c : Over(c, old)[f] = old[f]
<1>1. DOMAIN c \subseteq Field /\ Over(c, Blanks) \in Content /\ Blanks \in Content
  BY TypingsAssumption
<1>2. DOMAIN old = Field /\ DOMAIN Blanks = Field
  BY <1>1, ContentFields
<1>3. Over(c, old) = [f \in Field |-> IF f \in DOMAIN c THEN c[f] ELSE old[f]]
  BY <1>1, <1>2 DEF Over
<1>4. Over(c, Blanks) = [f \in Field |-> IF f \in DOMAIN c THEN c[f] ELSE Blanks[f]]
  BY <1>1, <1>2 DEF Over
<1> DEFINE b == Over(c, Blanks)
           new == Over(c, old)
<1>5. \A f \in Field : new[f] = b[f] \/ new[f] = old[f]
  BY <1>3, <1>4
<1>6. DOMAIN new = Field /\ new = [f \in Field |-> new[f]]
  BY <1>3
<1>7. b \in Content
  BY <1>1
<1> HIDE DEF b, new
<1>8. /\ new["status"] \in (0 .. Done) \cup {Bad} /\ new["priority"] \in Int \cup {Bad}
      /\ new["day"] \in Int \cup {NoDue, Bad} /\ new["project"] \in Project
      /\ new["words"] \in (SUBSET Word) \cup {Bad} /\ new["names"] \in SUBSET RawTag
  BY <1>5, <1>7, ContentFields DEF Field
<1>9. new \in Content
  BY <1>6, <1>8 DEF Content, Field
<1>10. \A f \in Field \ DOMAIN c : new[f] = old[f]
  BY <1>3 DEF new
<1>11. QED
  BY <1>9, <1>10 DEF new

LEMMA NoTarget == 0 \in 0 .. MaxTask
BY TableAssumption

LEMMA OpenFormState ==
    ASSUME StateOK, step = "none", OpenNew \/ OpenEdit
    PROVE  StateOK'
<1>1. LeaveList
  BY DEF OpenNew, OpenEdit
<1>2. FormOK'
  <2>1. CASE OpenNew
    BY <2>1, TypingsAssumption, NoTarget DEF OpenNew, Show, Forget, FormOK
  <2>2. CASE OpenEdit
    <3>1. PICK i \in DOMAIN rows : Show("row", rows[i].id, NoFields)
      BY <2>2 DEF OpenEdit
    <3>2. i \in 1 .. Len(rows)
      BY LenProperties DEF StateOK, TypeOK
    <3>3. rows[i].id \in TaskId
      BY <3>2, SeenGrows
    <3>4. rows[i].id \in 0 .. MaxTask /\ rows[i].id # 0
      BY <3>3, TableAssumption DEF TaskId
    <3>5. QED
      BY <3>1, <3>4 DEF Show, Forget, FormOK
  <2>3. QED
    BY <2>1, <2>2
<1>3. QED
  BY <1>1, <1>2, LeaveState

LEMMA ShownFields ==
    ASSUME NEW row \in Row
    PROVE  FieldsOf(row) \in Content
<1>1. /\ row.status \in 0 .. Done /\ row.priority \in Int /\ row.project \in Project
      /\ row.words \in SUBSET Word /\ row.due \in Int \cup {NoDue}
  BY DEF Row, Stamp
<1>2. (IF row.due = NoDue THEN NoDue ELSE Day(row.due)) \in Int \cup {NoDue}
  BY <1>1, DayFacts
<1>3. QED
  BY <1>1, <1>2 DEF FieldsOf, Content

LEMMA GetState ==
    ASSUME StateOK, GetRow \/ GetTags
    PROVE  StateOK'
<1>1. /\ UNCHANGED <<tableVars, now, tabVars, quiet>> /\ pc = "away" /\ step' \in {"tags", "filling"}
      /\ target' = target /\ target \in TaskId /\ DOMAIN typed' = {} /\ existing' = FALSE
  <2>1. step \in {"row", "tags"}
    BY DEF GetRow, GetTags
  <2>2. target \in TaskId /\ pc = "away"
    BY <2>1, TableAssumption DEF StateOK, FormOK, TaskId, Away
  <2>3. QED
    BY <2>2 DEF GetRow, GetTags, Show, Forget, NoTyping
<1>2. fields' \in Content
  <2>1. CASE GetRow
    <3>1. tasks[target] \in Row
      BY <1>1, <2>1 DEF GetRow, Live, StateOK, TypeOK, TableOK
    <3>2. QED
      BY <2>1, <3>1, ShownFields DEF GetRow, Show
  <2>2. CASE GetTags
    <3>1. fields \in Content
      BY <2>2 DEF GetTags, StateOK, FormOK
    <3>2. tags[target].names \in SUBSET RawTag
      BY <1>1, NormalAssumption DEF StateOK, TypeOK, TableOK
    <3>3. QED
      BY <2>2, <3>1, <3>2 DEF GetTags, Show, Content
  <2>3. QED
    BY <2>1, <2>2
<1>3. FormOK'
  <2>1. target' \in 0 .. MaxTask /\ target' # 0
    BY <1>1 DEF StateOK, FormOK, TaskId
  <2>2. QED
    BY <1>1, <1>2, <2>1 DEF FormOK
<1>4. QED
  BY <1>1, <1>3, FormState

LEMMA GetFailsState ==
    ASSUME StateOK, GetFails
    PROVE  StateOK'
<1>1. /\ UNCHANGED <<tableVars, now, url, rows, stats, chart, badges, walkVars, quiet, readDay>>
      /\ pc' = "error" /\ step' = "none" /\ target' = 0 /\ existing' = FALSE
  BY DEF GetFails, NotFound, Close, Show, Forget
<1>2. TableInv'
  BY <1>1, TableStays DEF StateOK
<1>3. TypeOK'
  BY <1>1, <1>2 DEF StateOK, TypeOK, TableInv, walkVars
<1>4. UrlOK' /\ HistoryOK' /\ Away' /\ FormOK'
  BY <1>1, NoTarget DEF StateOK, UrlOK, HistoryOK, Away, FormOK, walkVars
<1>5. QED
  BY <1>2, <1>3, <1>4 DEF StateOK

LEMMA SendState ==
    ASSUME StateOK, NEW c \in Typings, Send(c)
    PROVE  StateOK'
<1>1. fields \in Content /\ step = "filling"
  BY DEF Send, StateOK, FormOK
<1>2. fields' \in Content
  BY <1>1, TypedIsContent DEF Send
<1>3. FormOK'
  BY <1>2 DEF Send, FormOK, StateOK
<1>4. QED
  BY <1>1, <1>3, FormState DEF Send, StateOK, Away

LEMMA AbandonState ==
    ASSUME StateOK, Abandon
    PROVE  StateOK'
<1>1. step' = "none" /\ target' = 0 /\ existing' = FALSE /\ Open(Home)
  BY DEF Abandon, Close, Show, Forget
<1>2. FormOK'
  BY <1>1, NoTarget DEF FormOK
<1>3. PICK u \in Urls : u = Home
  BY ListAssumption
<1>4. Open(u)
  BY <1>1, <1>3
<1>5. QED
  BY <1>1, <1>2, <1>4, OpenState

LEMMA AgainOK ==
    ASSUME StateOK, step \in {"sent", "storing"}, Again
    PROVE  FormOK' /\ pc = "away" /\ UNCHANGED <<now, tabVars, quiet>>
<1>1. fields \in Content /\ target \in 0 .. MaxTask /\ pc = "away"
  BY DEF StateOK, FormOK, Away
<1>2. CASE target = 0
  BY <1>1, <1>2 DEF Again, Forget, FormOK
<1>3. CASE target # 0
  BY <1>1, <1>3 DEF Again, Show, Forget, FormOK
<1>4. QED
  BY <1>1, <1>2, <1>3 DEF Again

\* The write that an accepted form asks for
LEMMA AcceptedInput ==
    ASSUME StateOK, step = "storing"
    PROVE  /\ TaskWrite \in TaskInput
           /\ TaskWrite.status = fields.status /\ TaskWrite.priority = fields.priority
           /\ TaskWrite.project = fields.project /\ TaskWrite.words = fields.words
           /\ TaskWrite.names = ParseTagList(fields.names) /\ TaskWrite.due = DueDate
           /\ fields.day \in Int \cup {NoDue}
           /\ DueDate # NoDue => DueDate = Midnight(DueDate \div 2)
<1>1. /\ fields.status \in 0 .. Done /\ fields.priority \in Int /\ fields.day \in Int \cup {NoDue}
      /\ fields.project \in Project /\ fields.words \in SUBSET Word /\ fields.names \in SUBSET RawTag
  <2>1. fields \in Content
    BY DEF StateOK, FormOK
  <2>2. fields.status # Bad /\ fields.priority # Bad /\ fields.day # Bad /\ fields.words # Bad
    BY DEF StateOK, FormOK, Refused
  <2>3. QED
    BY <2>1, <2>2, ContentFields
<1>2. ParseTagList(fields.names) \in SUBSET Name
  <2>1. \A n \in fields.names : Normal[n] \in Name \cup {Blank, Bad}
    BY <1>1, NormalAssumption
  <2>2. QED
    BY <2>1 DEF ParseTagList, StateOK, FormOK, Refused
<1>3. DueDate \in Int \cup {NoDue} /\ (DueDate # NoDue => DueDate = Midnight(DueDate \div 2))
  <2>1. CASE fields.day = NoDue
    BY <2>1 DEF DueDate
  <2>2. CASE fields.day # NoDue
    <3>1. fields.day \in Int /\ DueDate = Midnight(fields.day)
      BY <1>1, <2>2 DEF DueDate
    <3>2. QED
      BY <3>1, DayFacts
  <2>3. QED
    BY <2>1, <2>2
<1>4. /\ TaskWrite.status = fields.status /\ TaskWrite.priority = fields.priority
      /\ TaskWrite.project = fields.project /\ TaskWrite.words = fields.words
      /\ TaskWrite.names = ParseTagList(fields.names) /\ TaskWrite.due = DueDate
  BY DEF TaskWrite
<1>5. TaskWrite \in TaskInput
  BY <1>1, <1>2, <1>3 DEF TaskWrite, TaskInput, Stamp
<1>6. QED
  BY <1>1, <1>3, <1>4, <1>5

LEMMA StoreCommits ==
    ASSUME StateOK, step = "storing", Store
    PROVE  TableInv' /\ \E u \in TaskId : Commit(u)
<1>1. PICK form \in TaskInput, at \in Stamp :
           form = TaskWrite /\ IF target = 0 THEN Create(form, at) ELSE Edit(target, form, existing, at)
  <2>1. TaskWrite \in TaskInput
    BY AcceptedInput
  <2>2. 1 .. now \subseteq Stamp
    BY DEF Stamp
  <2>3. QED
    BY <2>1, <2>2 DEF Store
<1>2. CASE target = 0
  <2>1. Create(form, at)
    BY <1>1, <1>2
  <2>2. QED
    BY <2>1, CreateCommits DEF StateOK
<1>3. CASE target # 0
  <2>1. Edit(target, form, existing, at) /\ target \in TaskId /\ existing \in BOOLEAN
    BY <1>1, <1>3, TableAssumption DEF StateOK, FormOK, TaskId
  <2>2. PICK t \in TaskId, archived \in BOOLEAN : t = target /\ archived = existing
    BY <2>1
  <2>3. Edit(t, form, archived, at)
    BY <2>1, <2>2
  <2>4. QED
    BY <2>3, EditCommits DEF StateOK
<1>4. QED
  BY <1>2, <1>3

LEMMA SaveState ==
    ASSUME StateOK, Save
    PROVE  StateOK'
<1>1. TableInv'
  BY StoreCommits DEF Save
<1>2. /\ UNCHANGED <<now, url, rows, badges, seen, flagged, quiet, readDay>>
      /\ pc' = "rows" /\ walkDay' = Day(now) /\ walking' = TRUE
      /\ step' = "none" /\ target' = 0 /\ existing' = FALSE
  BY DEF Save, Close, Show, Forget
<1>3. walkDay' \in 0 .. Day(Tomorrow) /\ walkDay' <= Day(now)
  <2>1. now \in 1 .. Tomorrow /\ Tomorrow \in Nat
    BY ListAssumption DEF StateOK, TypeOK
  <2>2. Day(now) \in Nat /\ Day(now) <= Day(Tomorrow) /\ Day(Tomorrow) \in Nat
    BY <2>1, DayFacts
  <2>3. QED
    BY <1>2, <2>1, <2>2
<1>4. TypeOK'
  BY <1>1, <1>2, <1>3 DEF StateOK, TypeOK, TableInv
<1>5. UrlOK' /\ HistoryOK' /\ Away'
  BY <1>2, <1>3 DEF StateOK, UrlOK, HistoryOK, Away
<1>6. FormOK'
  BY <1>2, NoTarget DEF FormOK
<1>7. QED
  BY <1>1, <1>4, <1>5, <1>6 DEF StateOK

LEMMA AcceptState ==
    ASSUME StateOK, Accept
    PROVE  StateOK'
<1>1. fields \in Content /\ target \in 0 .. MaxTask /\ pc = "away"
  BY DEF Accept, StateOK, FormOK, Away
<1>2. existing' \in BOOLEAN
  <2>1. CASE target = 0
    BY <2>1 DEF Accept
  <2>2. CASE target # 0
    <3>1. target \in TaskId /\ Live(target)
      BY <1>1, <2>2, TableAssumption DEF Accept, TaskId
    <3>2. tasks[target] \in Row
      BY <3>1 DEF Live, StateOK, TypeOK, TableOK
    <3>3. QED
      BY <2>2, <3>2 DEF Accept, Row
  <2>3. QED
    BY <2>1, <2>2
<1>3. ~ Refused'
  BY DEF Accept, Refused, ParseTagList
<1>4. FormOK'
  BY <1>1, <1>2, <1>3 DEF Accept, FormOK
<1>5. QED
  BY <1>1, <1>4, FormState DEF Accept

LEMMA AnsweredState ==
    ASSUME StateOK, Refuse \/ SaveUnseen
    PROVE  StateOK'
<1>1. step \in {"sent", "storing"} /\ Again
  BY DEF Refuse, SaveUnseen
<1>2. FormOK' /\ pc = "away" /\ UNCHANGED <<now, tabVars, quiet>>
  BY <1>1, AgainOK
<1>3. TableInv'
  <2>1. CASE Refuse
    BY <2>1, TableStays DEF Refuse, StateOK
  <2>2. CASE SaveUnseen
    BY <2>2, StoreCommits DEF SaveUnseen
  <2>3. QED
    BY <2>1, <2>2
<1>4. TypeOK'
  BY <1>2, <1>3 DEF StateOK, TypeOK, TableInv, tabVars, walkVars
<1>5. UrlOK' /\ HistoryOK' /\ Away'
  BY <1>2 DEF StateOK, UrlOK, HistoryOK, Away, tabVars, walkVars, Ids
<1>6. QED
  BY <1>2, <1>3, <1>4, <1>5 DEF StateOK

LEMMA ChangeState ==
    ASSUME StateOK, Change, UNCHANGED <<step, target, fields, typed, existing>>
    PROVE  StateOK' /\ \E u \in TaskId : Commit(u)
<1>1. 1 .. now \subseteq Stamp
  BY DEF Stamp
<1>2. PICK at \in Stamp : AnyWrite(at)
  BY <1>1 DEF Change
<1>3. TableInv' /\ \E u \in TaskId : Commit(u)
  BY <1>2, AnyWriteCommits DEF StateOK
<1>4. /\ UNCHANGED <<now, pc, url, rows, badges, readDay, walkDay>> /\ quiet' = FALSE
      /\ seen' = <<>> /\ flagged' = {} /\ walking' = FALSE
  BY DEF Change, NoWalk
<1>5. TypeOK'
  <2>1. seen' \in Seq(TaskId) /\ flagged' \subseteq ToSet(seen')
    BY <1>4
  <2>2. UNCHANGED <<now, pc, url, rows, badges, walkDay>> /\ walking' = FALSE /\ quiet' = FALSE
    BY <1>4
  <2>3. QED
    BY <1>3, <2>1, <2>2 DEF StateOK, TypeOK, TableInv
<1>6. UrlOK' /\ HistoryOK' /\ Away' /\ FormOK'
  BY <1>4 DEF StateOK, UrlOK, HistoryOK, Away, FormOK, Refused, ParseTagList, Ids
<1>7. QED
  BY <1>3, <1>5, <1>6 DEF StateOK

LEMMA TickState ==
    ASSUME StateOK, Tick, UNCHANGED formVars
    PROVE  StateOK' /\ Day(now) <= Day(now')
<1>1. /\ UNCHANGED <<tableVars, tabVars, quiet, formVars>> /\ now' = now + 1 /\ now' \in 1 .. Tomorrow
      /\ now \in Int /\ now' \in Int /\ now <= now'
  BY ListAssumption DEF Tick, StateOK, TypeOK
<1>2. Day(now) <= Day(now') /\ Day(now) \in Int /\ Day(now') \in Int
  BY <1>1, DayFacts
<1>3. TableInv'
  BY <1>1, TableStays DEF StateOK
<1>4. TypeOK'
  BY <1>1, <1>3 DEF StateOK, TypeOK, TableInv, tabVars, walkVars
<1>5. HistoryOK'
  <2>1. walkDay \in Int /\ walkDay' = walkDay
    BY <1>1, DayFacts DEF StateOK, TypeOK, tabVars, walkVars
  <2>2. walkDay' <= Day(now')
    BY <1>2, <2>1 DEF StateOK, HistoryOK
  <2>3. QED
    BY <1>1, <2>2 DEF StateOK, HistoryOK, tabVars, Ids
<1>6. UrlOK' /\ Away' /\ FormOK'
  BY <1>1 DEF StateOK, UrlOK, Away, FormOK, Refused, ParseTagList, tabVars, walkVars, formVars
<1>7. QED
  BY <1>2, <1>3, <1>4, <1>5, <1>6 DEF StateOK

LEMMA UnchangedState ==
    ASSUME StateOK, UNCHANGED <<vars, formVars>>
    PROVE  StateOK'
<1>1. TableInv'
  BY TableStays DEF StateOK, vars, tableVars
<1>2. TypeOK'
  BY <1>1 DEF StateOK, TypeOK, TableInv, vars
<1>3. UrlOK' /\ HistoryOK' /\ Away' /\ FormOK'
  BY DEF StateOK, UrlOK, HistoryOK, Away, FormOK, Refused, ParseTagList, vars, formVars, Ids
<1>4. QED
  BY <1>1, <1>2, <1>3 DEF StateOK

LEMMA StateStarts == FormInit => StateOK
<1> SUFFICES ASSUME FormInit PROVE StateOK
  OBVIOUS
<1>1. TableInv
  BY TableStarts DEF FormInit, Init
<1>2. Home \in Parameters /\ \E u \in Urls : Home = [u EXCEPT !.offset = Home.offset]
  BY OwnUrl, ListAssumption
<1>3. Home.offset \in Nat /\ [Home EXCEPT !.offset = 0] \in {[u EXCEPT !.offset = 0] : u \in Urls}
  BY <1>2, UrlType
<1>4. /\ now = 1 /\ pc = "away" /\ url = Home /\ rows = <<>> /\ badges = {} /\ seen = <<>> /\ flagged = {}
      /\ walkDay = 0 /\ walking = FALSE /\ quiet = FALSE /\ readDay = 0
      /\ step = "none" /\ target = 0 /\ existing = FALSE
  BY DEF FormInit, Init
<1> HIDE DEF Home
<1>5. Day(1) \in Nat /\ 0 \in 0 .. Day(Tomorrow) /\ 1 \in 1 .. Tomorrow
  <2>1. Day(1) \in Nat /\ Day(Tomorrow) \in Nat
    BY DayFacts, ListAssumption
  <2>2. QED
    BY <2>1, ListAssumption
<1>6. TypeOK
  <2>1. /\ rows \in Seq(Row) /\ Len(rows) <= ListPage
        /\ seen \in Seq(TaskId) /\ flagged \subseteq ToSet(seen)
    BY <1>4, ListAssumption
  <2>2. url.offset \in Nat /\ [url EXCEPT !.offset = 0] \in {[u EXCEPT !.offset = 0] : u \in Urls}
    BY <1>3, <1>4
  <2>3. /\ now \in 1 .. Tomorrow /\ walkDay \in 0 .. Day(Tomorrow) /\ pc = "away" /\ badges \subseteq TaskId
        /\ walking \in BOOLEAN /\ quiet \in BOOLEAN
    BY <1>4, <1>5
  <2>4. QED
    BY <1>1, <2>1, <2>2, <2>3 DEF TypeOK, TableInv
<1>7. UrlOK /\ HistoryOK /\ Away
  BY <1>2, <1>4, <1>5 DEF UrlOK, HistoryOK, Away
<1>8. FormOK
  BY <1>4, NoTarget DEF FormOK
<1>9. QED
  BY <1>1, <1>6, <1>7, <1>8 DEF StateOK

LEMMA StateStep == StateOK /\ [FormNext]_<<vars, formVars>> => StateOK'
<1> SUFFICES ASSUME StateOK, [FormNext]_<<vars, formVars>> PROVE StateOK'
  OBVIOUS
<1>1. CASE ListStep
  <2>1. step = "none" /\ UNCHANGED formVars
    BY <1>1 DEF ListStep
  <2>2. CASE ReadRows
    BY <2>1, <2>2, ReadRowsState
  <2>3. CASE ReadStats \/ TakeDays \/ ReadCreated \/ ReadCompleted \/ Fail
    BY <2>1, <2>3, OtherReadsState
  <2>4. CASE Render
    BY <2>1, <2>4, RenderState
  <2>5. ASSUME NEW u \in Urls, Open(u) PROVE StateOK'
    BY <2>1, <2>5, OpenState DEF StateOK, FormOK, Refused, ParseTagList, formVars
  <2>6. CASE GoNext \/ GoPrevious
    BY <2>1, <2>6, TurnState
  <2>7. QED
    BY <1>1, <2>2, <2>3, <2>4, <2>5, <2>6 DEF ListStep
<1>2. CASE FormStep
  <2>1. CASE OpenNew \/ OpenEdit
    <3>1. step = "none"
      BY <2>1 DEF OpenNew, OpenEdit, LeaveList, StateOK, Away
    <3>2. QED
      BY <2>1, <3>1, OpenFormState
  <2>2. CASE GetRow \/ GetTags
    BY <2>2, GetState
  <2>3. CASE GetFails
    BY <2>3, GetFailsState
  <2>4. ASSUME NEW c \in Typings, Send(c) PROVE StateOK'
    BY <2>4, SendState
  <2>5. CASE Abandon
    BY <2>5, AbandonState
  <2>6. CASE Save
    BY <2>6, SaveState
  <2>7. CASE Refuse \/ SaveUnseen
    BY <2>7, AnsweredState
  <2>8. CASE Accept
    BY <2>8, AcceptState
  <2>9. QED
    BY <1>2, <2>1, <2>2, <2>3, <2>4, <2>5, <2>6, <2>7, <2>8 DEF FormStep
<1>3. CASE Change /\ fresh' = FALSE /\ current' = FALSE /\ UNCHANGED <<step, target, fields, typed, existing>>
  BY <1>3, ChangeState
<1>4. CASE Tick /\ UNCHANGED formVars
  BY <1>4, TickState
<1>5. CASE UNCHANGED <<vars, formVars>>
  BY <1>5, UnchangedState
<1>6. QED
  BY <1>1, <1>2, <1>3, <1>4, <1>5 DEF FormNext

\* Which steps write to the table
LEMMA TableSteps ==
    ASSUME [FormNext]_<<vars, formVars>>
    PROVE  \/ UNCHANGED tableVars
           \/ Change /\ fresh' = FALSE /\ current' = FALSE /\ UNCHANGED <<step, target, fields, typed, existing>>
           \/ step = "storing" /\ Store /\ (Save \/ SaveUnseen)
<1>1. CASE ListStep
  BY <1>1 DEF ListStep, ReadRows, ReadStats, TakeDays, ReadCreated, ReadCompleted, Render, Fail, Open, GoNext,
              GoPrevious, Load
<1>2. CASE FormStep
  BY <1>2 DEF FormStep, OpenNew, OpenEdit, LeaveList, GetRow, GetTags, GetFails, NotFound, Send, Abandon,
              Open, Load, Refuse, Accept, Save, SaveUnseen
<1>3. CASE Tick /\ UNCHANGED formVars
  BY <1>3 DEF Tick
<1>4. CASE UNCHANGED <<vars, formVars>>
  BY <1>4 DEF vars, tableVars
<1>5. QED
  BY <1>1, <1>2, <1>3, <1>4 DEF FormNext

------------------------------------------------------------------------------
(* Dates *)

LEMMA WriteDates ==
    ASSUME TableOK, NEW until, AllDated(tasks, until),
           NEW t \in TaskId, NEW row, NEW tagged, Write(t, row, tagged), Dated(row, until)
    PROVE  AllDated(tasks', until)
<1>1. \A x \in TaskId : tasks'[x] = IF x = t THEN row ELSE tasks[x]
  BY DEF Write, TableOK
<1>2. QED
  BY <1>1 DEF AllDated

\* A form dates its task at midnight; the other writes leave due date and write.
LEMMA FormDates ==
    ASSUME NEW form, form.due # NoDue => form.due = Midnight(form.due \div 2),
           NEW at, NEW until, at <= until, NEW made, made <= until, NEW t, NEW archived, NEW w
    PROVE  Dated(RowOf(t, form, made, archived, w, at), until)
BY DEF RowOf, Dated, DatedByDay

LEMMA CreateDates ==
    ASSUME TableOK, NEW form, NEW at \in Stamp, NEW until, at <= until, AllDated(tasks, until), Create(form, at),
           form.due # NoDue => form.due = Midnight(form.due \div 2)
    PROVE  AllDated(tasks', until)
<1>1. nextId \in TaskId
  BY TableAssumption DEF TableOK, TaskId, Create
<1>2. PICK t \in TaskId : t = nextId
  BY <1>1
<1>3. PICK w : w = writes + 1
  OBVIOUS
<1>4. Write(t, RowOf(t, form, at, FALSE, w, at), TagsOf(form, w))
  BY <1>2, <1>3 DEF Create
<1>5. QED
  BY <1>4, WriteDates, FormDates

LEMMA EditDates ==
    ASSUME TableOK, NEW t \in TaskId, NEW form, NEW archived \in BOOLEAN, NEW at \in Stamp, NEW until, at <= until,
           AllDated(tasks, until), Edit(t, form, archived, at),
           form.due # NoDue => form.due = Midnight(form.due \div 2)
    PROVE  AllDated(tasks', until)
<1>1. PICK w, made : w = writes + 1 /\ made = tasks[t].created
  OBVIOUS
<1>2. Write(t, RowOf(t, form, made, archived, w, at), TagsOf(form, w)) /\ tasks[t] # NoRow
  BY <1>1 DEF Edit, Edited, Live
<1>3. made <= until
  BY <1>1, <1>2 DEF AllDated, Dated
<1>4. QED
  BY <1>2, <1>3, WriteDates, FormDates

LEMMA RowDates ==
    ASSUME TableOK, NEW at \in Stamp, NEW until, at <= until, AllDated(tasks, until), NEW t \in TaskId, Live(t), NEW row \in Row,
           row.due = tasks[t].due, row.wrote = tasks[t].wrote,
           row.created = tasks[t].created, row.updated = at, Write(t, row, tags[t])
    PROVE  AllDated(tasks', until)
<1>1. Dated(row, until)
  BY DEF AllDated, Dated, DatedByDay, Live, Stamp
<1>2. PICK tagged : tagged = tags[t]
  OBVIOUS
<1>3. Write(t, row, tagged)
  BY <1>2
<1>4. QED
  BY <1>1, <1>3, WriteDates

LEMMA AnyDates ==
    ASSUME TableOK, NEW at \in Stamp, NEW until, at <= until, AllDated(tasks, until), AnyWrite(at)
    PROVE  AllDated(tasks', until)
<1>1. ASSUME NEW form \in Forms, Create(form, at) PROVE AllDated(tasks', until)
  BY <1>1, FormsAssumption, CreateDates
<1>2. ASSUME NEW form \in Forms, NEW t \in TaskId, Edit(t, form, tasks[t].archived, at) PROVE AllDated(tasks', until)
  <2>1. tasks[t].archived \in BOOLEAN
    BY <1>2 DEF Edit, Live, TableOK, Row
  <2>2. QED
    BY <1>2, <2>1, FormsAssumption, EditDates
<1>3. ASSUME NEW t \in TaskId, NEW status \in 0 .. Done, SetStatus(t, status, at) PROVE AllDated(tasks', until)
  <2> DEFINE row == [tasks[t] EXCEPT !.status = status, !.updated = at]
  <2>1. Live(t) /\ tasks[t] \in Row /\ Write(t, row, tags[t])
    BY <1>3 DEF SetStatus, Live, TableOK
  <2>2. /\ row \in Row /\ row.due = tasks[t].due /\ row.wrote = tasks[t].wrote
        /\ row.created = tasks[t].created /\ row.updated = at
    BY <2>1 DEF Row
  <2> HIDE DEF row
  <2>3. QED
    BY <2>1, <2>2, RowDates
<1>4. ASSUME NEW t \in TaskId, SetArchived(t, at) PROVE AllDated(tasks', until)
  <2> DEFINE row == [tasks[t] EXCEPT !.archived = ~ @, !.updated = at]
  <2>1. Live(t) /\ tasks[t] \in Row /\ Write(t, row, tags[t])
    BY <1>4 DEF SetArchived, Live, TableOK
  <2>2. /\ row \in Row /\ row.due = tasks[t].due /\ row.wrote = tasks[t].wrote
        /\ row.created = tasks[t].created /\ row.updated = at
    BY <2>1 DEF Row
  <2> HIDE DEF row
  <2>3. QED
    BY <2>1, <2>2, RowDates
<1>5. ASSUME NEW t \in TaskId, Delete(t) PROVE AllDated(tasks', until)
  <2>1. PICK tagged : Write(t, NoRow, tagged)
    BY <1>5 DEF Delete
  <2>2. Dated(NoRow, until)
    BY DEF Dated, DatedByDay
  <2>3. QED
    BY <2>1, <2>2, WriteDates
<1>6. QED
  BY <1>1, <1>2, <1>3, <1>4, <1>5 DEF AnyWrite

LEMMA DatesStart == FormInit => AllDated(tasks, now)
<1> SUFFICES ASSUME FormInit, NEW t \in TaskId PROVE Dated(tasks[t], now)
  BY DEF AllDated
<1>1. TableInit /\ now = 1
  BY DEF FormInit, Init
<1>2. CASE t <= Len(Saved)
  <2>1. t \in 1 .. Len(Saved) /\ DOMAIN Saved = 1 .. Len(Saved)
    BY <1>2, SavedAssumption, LenProperties DEF TaskId
  <2>2. Saved[t].created <= 1 /\ Saved[t].updated <= 1
    BY <2>1, SavedBefore
  <2>3. tasks[t].wrote = 0 /\ tasks[t].created = Saved[t].created /\ tasks[t].updated = Saved[t].updated
    BY <1>1, <1>2 DEF TableInit, RowOf
  <2>4. QED
    BY <1>1, <2>2, <2>3 DEF Dated, DatedByDay
<1>3. CASE ~ (t <= Len(Saved))
  BY <1>1, <1>3 DEF TableInit, Dated, DatedByDay
<1>4. QED
  BY <1>2, <1>3

LEMMA TimePasses ==
    ASSUME StateOK, [FormNext]_<<vars, formVars>>
    PROVE  now' \in Int /\ now <= now'
<1>1. now \in Int
  BY DEF StateOK, TypeOK
<1>2. now' = now \/ now' = now + 1
  <2>1. CASE ListStep
    BY <2>1 DEF ListStep, ReadRows, ReadStats, TakeDays, ReadCreated, ReadCompleted, Render, Fail, Open, GoNext,
                GoPrevious, Load
  <2>2. CASE FormStep
    BY <2>2 DEF FormStep, OpenNew, OpenEdit, LeaveList, GetRow, GetTags, GetFails, NotFound, Send, Abandon,
                Open, Load, Refuse, Accept, Save, SaveUnseen, Again
  <2>3. CASE Change \/ Tick \/ UNCHANGED <<vars, formVars>>
    BY <2>3 DEF Change, Tick, vars
  <2>4. QED
    BY <2>1, <2>2, <2>3 DEF FormNext
<1>3. QED
  BY <1>1, <1>2

LEMMA DatesStep ==
    StateOK /\ AllDated(tasks, now) /\ [FormNext]_<<vars, formVars>> => AllDated(tasks', now')
<1> SUFFICES ASSUME StateOK, AllDated(tasks, now), [FormNext]_<<vars, formVars>> PROVE AllDated(tasks', now')
  OBVIOUS
<1>1. TableOK
  BY DEF StateOK, TypeOK
<1>2. \A at \in 1 .. now : at \in Stamp /\ at <= now
  BY DEF Stamp, StateOK, TypeOK
<1>3. CASE UNCHANGED tableVars
  <2>1. now' \in Int /\ now <= now'
    BY ListAssumption, TimePasses
  <2>2. \A x \in TaskId : tasks[x] # NoRow => tasks[x].created \in Int /\ tasks[x].updated \in Int
    BY <1>1 DEF TableOK, Row, Stamp
  <2>3. \A x \in TaskId : Dated(tasks[x], now')
    <3>1. now \in Int
      BY DEF StateOK, TypeOK
    <3>2. QED
      BY <2>1, <2>2, <3>1 DEF AllDated, Dated
  <2>4. QED
    BY <1>3, <2>3 DEF AllDated, tableVars
<1>4. CASE Change
  <2>1. PICK at \in Stamp, until \in {now} : at <= until /\ AnyWrite(at) /\ now' = until
    BY <1>2, <1>4 DEF Change
  <2>2. AllDated(tasks', until)
    BY <1>1, <2>1, AnyDates
  <2>3. QED
    BY <2>1, <2>2
<1>5. CASE step = "storing" /\ Store /\ (Save \/ SaveUnseen)
  <2>1. PICK form : form = TaskWrite
    OBVIOUS
  <2>2. form.due # NoDue => form.due = Midnight(form.due \div 2)
    BY <1>5, <2>1, AcceptedInput
  <2>3. PICK at \in Stamp, until \in {now} :
             /\ at <= until /\ now' = until
             /\ IF target = 0 THEN Create(form, at) ELSE Edit(target, form, existing, at)
    BY <1>2, <1>5, <2>1 DEF Store, Save, SaveUnseen, Again
  <2>4. AllDated(tasks', until)
    <3>1. CASE target = 0
      <4>1. Create(form, at)
        BY <2>3, <3>1
      <4>2. QED
        BY <1>1, <2>2, <2>3, <4>1, CreateDates
    <3>2. CASE target # 0
      <4>1. target \in TaskId /\ existing \in BOOLEAN
        BY <3>2, TableAssumption DEF StateOK, FormOK, TaskId
      <4>2. PICK t \in TaskId, archived \in BOOLEAN : t = target /\ archived = existing
        BY <4>1
      <4>3. Edit(t, form, archived, at)
        BY <2>3, <3>2, <4>2
      <4>4. QED
        BY <1>1, <2>2, <2>3, <4>3, EditDates
    <3>3. QED
      BY <3>1, <3>2
  <2>5. QED
    BY <2>3, <2>4
<1>6. QED
  BY <1>3, <1>4, <1>5, TableSteps

------------------------------------------------------------------------------
(* What a form holds *)

LEMMA FreshStep == StateOK /\ Fresh /\ [FormNext]_<<vars, formVars>> => Fresh'
<1> SUFFICES ASSUME StateOK, Fresh, [FormNext]_<<vars, formVars>> PROVE Fresh'
  OBVIOUS
<1>1. CASE UNCHANGED formVars /\ UNCHANGED tableVars
  BY <1>1 DEF Fresh, Kept, formVars, tableVars
<1>2. CASE step' \in {"none", "row"} \/ target' = 0 \/ fresh' = FALSE
  BY <1>2 DEF Fresh
<1>3. CASE GetRow
  <2>1. /\ UNCHANGED tableVars /\ target' = target /\ step' = "tags" /\ typed' = NoTyping
        /\ fields' = FieldsOf(tasks[target]) /\ tasks[target] # NoRow
    BY <1>3 DEF GetRow, Show, Live
  <2>2. DOMAIN typed' = {}
    BY <2>1 DEF NoTyping
  <2>3. /\ \A f \in {"status", "priority", "project", "words"} : fields'[f] = tasks[target][f]
        /\ fields'.day = IF tasks[target].due = NoDue THEN NoDue ELSE Day(tasks[target].due)
    <3>1. /\ fields'.status = tasks[target].status /\ fields'.priority = tasks[target].priority
          /\ fields'.project = tasks[target].project /\ fields'.words = tasks[target].words
      BY <2>1 DEF FieldsOf
    <3>2. QED
      BY <2>1, <3>1 DEF FieldsOf
  <2>4. QED
    BY <2>1, <2>2, <2>3 DEF Fresh, Kept, tableVars
<1>4. CASE GetTags
  <2>1. /\ UNCHANGED tableVars /\ target' = target /\ step' = "filling" /\ step = "tags" /\ typed' = NoTyping
        /\ fields' = [fields EXCEPT !.names = tags[target].names] /\ fresh' = fresh
    BY <1>4 DEF GetTags, Show
  <2>2. DOMAIN typed' = {}
    BY <2>1 DEF NoTyping
  <2>3. fields \in Content /\ DOMAIN fields = Field
    BY <2>1, ContentFields DEF StateOK, FormOK
  <2>4. fields'.names = tags[target].names /\ \A f \in Field \ {"names"} : fields'[f] = fields[f]
    BY <2>1, <2>3 DEF Field
  <2>5. CASE fresh /\ target # 0
    <3>1. tasks[target] # NoRow /\ Kept(tasks[target], tags[target].names)
      BY <2>1, <2>5 DEF Fresh
    <3>2. /\ \A f \in {"status", "priority", "project", "words"} : fields'[f] = tasks[target][f]
          /\ fields'.day = IF tasks[target].due = NoDue THEN NoDue ELSE Day(tasks[target].due)
      <4>1. DOMAIN typed = {}
        BY <2>1 DEF StateOK, FormOK
      <4>2. QED
        BY <2>4, <3>1, <4>1 DEF Kept, Field
    <3>3. QED
      BY <2>1, <2>2, <2>4, <3>1, <3>2 DEF Fresh, Kept, tableVars
  <2>6. QED
    BY <2>1, <2>5 DEF Fresh
<1>5. ASSUME NEW c \in Typings, Send(c) PROVE Fresh'
  <2>1. /\ UNCHANGED tableVars /\ target' = target /\ step = "filling" /\ step' = "sent"
        /\ typed' = Over(c, typed) /\ fields' = Over(c, fields) /\ fresh' = fresh
    BY <1>5 DEF Send
  <2>2. DOMAIN typed' = DOMAIN c \cup DOMAIN typed
    BY <2>1 DEF Over
  <2>3. fields \in Content
    BY <2>1 DEF StateOK, FormOK
  <2>4. \A f \in Field \ DOMAIN typed' : fields'[f] = fields[f] /\ f \notin DOMAIN typed
    BY <2>1, <2>2, <2>3, TypedIsContent
  <2>5. CASE fresh /\ target # 0
    <3>1. tasks[target] # NoRow /\ Kept(tasks[target], tags[target].names)
      BY <2>1, <2>5 DEF Fresh
    <3>2. \A f \in {"status", "priority", "project", "words"} \ DOMAIN typed' : fields'[f] = tasks[target][f]
      BY <2>4, <3>1 DEF Kept, Field
    <3>3. "day" \notin DOMAIN typed' =>
             fields'.day = IF tasks[target].due = NoDue THEN NoDue ELSE Day(tasks[target].due)
      BY <2>4, <3>1 DEF Kept, Field
    <3>4. "names" \notin DOMAIN typed' => fields'.names = tags[target].names
      BY <2>1, <2>4, <3>1 DEF Kept, Field
    <3>5. QED
      BY <2>1, <3>1, <3>2, <3>3, <3>4 DEF Fresh, Kept, tableVars
  <2>6. QED
    BY <2>1, <2>5 DEF Fresh
<1>6. CASE ListStep
  <2>1. UNCHANGED formVars
    BY <1>6 DEF ListStep
  <2>2. UNCHANGED tableVars
    BY <1>6 DEF ListStep, ReadRows, ReadStats, TakeDays, ReadCreated, ReadCompleted, Render, Fail, Open,
                GoNext, GoPrevious, Load
  <2>3. QED
    BY <1>1, <2>1, <2>2
<1>7. CASE FormStep
  <2>1. CASE OpenNew \/ OpenEdit \/ GetFails \/ Abandon \/ Save
    BY <1>2, <2>1 DEF OpenNew, OpenEdit, GetFails, NotFound, Abandon, Save, Close, Show
  <2>2. CASE Refuse \/ SaveUnseen
    <3>1. Again
      BY <2>2 DEF Refuse, SaveUnseen
    <3>2. QED
      BY <1>2, <3>1 DEF Again, Show
  <2>3. CASE Accept
    <3>1. /\ UNCHANGED <<tasks, tags, target, fields, typed, fresh>>
          /\ step = "sent" /\ step' = "storing"
      BY <2>3 DEF Accept, tableVars
    <3>2. QED
      BY <3>1 DEF Fresh, Kept
  <2>4. QED
    BY <1>3, <1>4, <1>5, <1>7, <2>1, <2>2, <2>3 DEF FormStep
<1>8. CASE Change /\ fresh' = FALSE
  BY <1>2, <1>8
<1>9. CASE Tick /\ UNCHANGED formVars
  BY <1>1, <1>9 DEF Tick
<1>10. CASE UNCHANGED <<vars, formVars>>
  BY <1>1, <1>10 DEF vars, formVars, tableVars
<1>11. QED
  BY <1>6, <1>7, <1>8, <1>9, <1>10 DEF FormNext

LEMMA ExistingStep == StateOK /\ Existing /\ [FormNext]_<<vars, formVars>> => Existing'
<1> SUFFICES ASSUME StateOK, Existing, [FormNext]_<<vars, formVars>>,
                    step' = "storing", current'
             PROVE  target' # 0 /\ existing' = tasks'[target'].archived
  BY DEF Existing
<1>1. CASE Accept
  <2>1. target # 0
    BY <1>1 DEF Accept
  <2>2. target' = target /\ tasks' = tasks /\ existing' = tasks[target].archived
    BY <1>1, <2>1 DEF Accept, tableVars
  <2>3. QED
    BY <2>1, <2>2
<1>2. CASE UNCHANGED formVars /\ UNCHANGED tableVars
  BY <1>2 DEF Existing, formVars, tableVars
<1>3. CASE ListStep
  <2>1. UNCHANGED formVars /\ UNCHANGED tableVars
    BY <1>3 DEF ListStep, ReadRows, ReadStats, TakeDays, ReadCreated, ReadCompleted, Render, Fail, Open,
                GoNext, GoPrevious, Load
  <2>2. QED
    BY <1>2, <2>1
<1>4. CASE FormStep /\ ~ Accept
  BY <1>4 DEF FormStep, OpenNew, OpenEdit, GetRow, GetTags, GetFails, NotFound, Send, Abandon, Refuse, Save,
              SaveUnseen, Again, Close, Show, Forget
<1>5. CASE Tick /\ UNCHANGED formVars
  BY <1>2, <1>5 DEF Tick
<1>6. CASE UNCHANGED <<vars, formVars>>
  BY <1>2, <1>6 DEF vars, formVars, tableVars
<1>7. QED
  BY <1>1, <1>3, <1>4, <1>5, <1>6 DEF FormNext

------------------------------------------------------------------------------
(* The list: what a page shows belongs to one state of the table *)

LEMMA NotQuiet ==
    ASSUME ~ walking', ~ quiet', Sorted'
    PROVE  ListInv'
BY DEF ListInv, Walk, Page, Cards, Badges

\* Nothing is told of a page that is not told of the one before.
LEMMA ListFrame ==
    ASSUME ListInv,
           UNCHANGED <<tasks, tags, now, url, rows, stats, badges, seen, flagged, walkDay, walking, quiet, readDay>>,
           pc' = "rows" => pc = "rows", pc' \in WithRows => pc \in WithRows,
           pc' \in WithStats => pc \in WithStats, pc' = "shown" => pc = "shown"
    PROVE  ListInv'
<1>1. ListQuery' = ListQuery
  BY DEF ListQuery
<1>2. Sorted'
  BY DEF ListInv, Sorted
<1>3. Walk'
  BY <1>1 DEF ListInv, Walk, WithRows, Ids
<1>4. Page'
  BY <1>1 DEF ListInv, Page
<1>5. Cards'
  BY DEF ListInv, Cards
<1>6. Badges'
  BY DEF ListInv, Badges, Ids
<1>7. QED
  BY <1>2, <1>3, <1>4, <1>5, <1>6 DEF ListInv

\* The rows of a page are to be read.
LEMMA NewPage ==
    ASSUME pc' = "rows", ~ quiet',
           walking' => Len(seen') = url'.offset /\ FirstIn(tasks', tags', ListQuery', seen'),
           walking' /\ walkDay' = Day(now') => flagged' = OverdueOf(tasks', Day(now'), seen')
    PROVE  ListInv'
<1>1. Sorted' /\ Page' /\ Cards'
  BY DEF Sorted, Page, Cards, WithRows, WithStats
<1>2. Walk'
  BY DEF Walk, WithRows, WithStats
<1>3. Badges'
  BY DEF Badges
<1>4. QED
  BY <1>1, <1>2, <1>3 DEF ListInv

LEMMA NothingSeen ==
    ASSUME NEW table, NEW named, NEW q, NEW day
    PROVE  FirstIn(table, named, q, <<>>) /\ OverdueOf(table, day, <<>>) = {} /\ Len(<<>>) = 0
<1>1. 1 .. Len(<<>>) = {} /\ Len(<<>>) = 0
  OBVIOUS
<1>2. FirstIn(table, named, q, <<>>)
  BY <1>1 DEF FirstIn
<1>3. OverdueOf(table, day, <<>>) = {}
  BY <1>1 DEF OverdueOf
<1>4. QED
  BY <1>1, <1>2, <1>3

LEMMA OpenList ==
    ASSUME NEW u \in Urls, Open(u)
    PROVE  ListInv'
<1>1. /\ pc' = "rows" /\ quiet' = FALSE /\ url' = u /\ seen' = <<>> /\ flagged' = {}
      /\ walking' = (u.offset = 0)
  BY DEF Open, Load
<1>2. walking' => Len(seen') = url'.offset /\ FirstIn(tasks', tags', ListQuery', seen')
  BY <1>1, NothingSeen
<1>3. flagged' = OverdueOf(tasks', Day(now'), seen')
  BY <1>1, NothingSeen
<1>4. QED
  BY <1>1, <1>2, <1>3, NewPage

LEMMA SaveList ==
    ASSUME StateOK, Save
    PROVE  ListInv'
<1>1. url = Home /\ seen = <<>> /\ flagged = {} /\ ~ quiet
  BY DEF StateOK, Away, Save
<1>2. pc' = "rows" /\ ~ quiet' /\ url' = Home /\ seen' = <<>> /\ flagged' = {}
  BY <1>1 DEF Save
<1>3. Len(seen') = url'.offset /\ FirstIn(tasks', tags', ListQuery', seen')
  BY <1>2, NothingSeen DEF Home
<1>4. flagged' = OverdueOf(tasks', Day(now'), seen')
  BY <1>2, NothingSeen
<1>5. QED
  BY <1>2, <1>3, <1>4, NewPage

LEMMA OverdueGrows ==
    ASSUME StateOK, NEW day
    PROVE  OverdueOf(tasks, day, seen \o Ids(rows)) = OverdueOf(tasks, day, seen) \cup OverdueOf(tasks, day, Ids(rows))
BY SeenGrows DEF OverdueOf

LEMMA NextList ==
    ASSUME StateOK, ListInv, GoNext
    PROVE  ListInv'
<1>1. PICK v : v = NextLink
  OBVIOUS
<1>2. /\ pc = "shown" /\ pc' = "rows" /\ ~ quiet' /\ url' = v /\ Len(rows) = ListPage
      /\ walking' = walking /\ walkDay' = walkDay /\ now' = now /\ tasks' = tasks /\ tags' = tags
  BY <1>1 DEF GoNext, Load, HasNext, tableVars
<1>3. CASE ~ walking
  BY <1>2, <1>3, NewPage
<1>4. CASE walking
  <2>1. seen' = seen \o Ids(rows) /\ flagged' = flagged \cup badges
    BY <1>4, SeenGrows DEF GoNext
  <2>2. /\ Len(seen) = url.offset /\ quiet /\ walkDay <= readDay
        /\ FirstIn(tasks, tags, ListQuery, seen \o Ids(rows))
    BY <1>2, <1>4 DEF ListInv, Walk, WithRows, WithStats
  <2>3. v.offset = url.offset + ListPage /\ SameList(QueryOf(url), QueryOf(v))
    <3>1. url.offset \in Nat /\ ListPage \in Nat \ {0} /\ UrlOK
      BY ListAssumption DEF StateOK, TypeOK
    <3>2. url.offset + ListPage \in Nat /\ url.offset + ListPage > 0
      BY <3>1
    <3>3. QED
      BY <1>1, <3>1, <3>2, LinkKeeps DEF NextLink
  <2>4. Len(seen') = url'.offset
    BY <1>2, <2>1, <2>2, <2>3, SeenGrows
  <2>5. FirstIn(tasks', tags', ListQuery', seen')
    <3>1. ListQuery = QueryOf(url) /\ ListQuery' = QueryOf(v)
      BY <1>2, ListQueryIs DEF ListQuery, QueryOf
    <3>2. FirstIn(tasks, tags, QueryOf(v), seen \o Ids(rows))
      BY <2>2, <2>3, <3>1, SameFirst
    <3>3. QED
      BY <1>2, <2>1, <3>1, <3>2
  <2>6. ASSUME walkDay = Day(now) PROVE flagged' = OverdueOf(tasks, Day(now), seen')
    <3>1. readDay = Day(now)
      <4>1. readDay <= Day(now) /\ walkDay <= readDay
        BY <1>2, <2>2 DEF ListInv, Page, WithRows, WithStats
      <4>2. readDay \in Int /\ Day(now) \in Int
        BY DayFacts DEF StateOK, HistoryOK, TypeOK
      <4>3. QED
        BY <2>6, <4>1, <4>2
    <3>2. badges = OverdueOf(tasks, Day(now), Ids(rows)) /\ flagged = OverdueOf(tasks, Day(now), seen)
      BY <1>2, <1>4, <2>2, <2>6, <3>1 DEF ListInv, Badges
    <3>3. QED
      BY <2>1, <3>2, OverdueGrows
  <2>7. QED
    BY <1>2, <2>4, <2>5, <2>6, NewPage
<1>5. QED
  BY <1>3, <1>4

LEMMA PageIsCurrent ==
    ASSUME TableOK, NEW q, Sorts(q), NEW o \in Orderings(q, ListedRows(q)),
           NEW m \in Nat, NEW page, page = PageOf(o, m, ListPage)
    PROVE  PageLength(tasks, tags, q, m, Len(page)) /\ Current(tasks, page)
<1>1. /\ Cardinality(ListedRows(q)) \in Nat /\ Len(o) = Cardinality(ListedRows(q))
      /\ \A i \in 1 .. Len(o) : o[i] \in ListedRows(q)
  BY OrderingFacts
<1>2. \A r \in ListedRows(q) : tasks[r.id] = r
  BY ListedAreRows
<1>3. PICK n \in Nat : n = Cardinality(ListedRows(q))
  BY <1>1
<1>4. PICK last : last = IF m + ListPage < n THEN m + ListPage ELSE n
  OBVIOUS
<1>5. last \in Int /\ m + 1 \in Int /\ last <= n /\ ListPage \in Nat \ {0}
  BY <1>4, ListAssumption
<1>6. page = SubSeq(o, m + 1, last)
  BY <1>1, <1>3, <1>4 DEF PageOf
<1>7. \A i \in (m + 1) .. last : i \in 1 .. n
  BY <1>5
<1>8. \A i \in (m + 1) .. last : o[i] \in ListedRows(q)
  BY <1>1, <1>3, <1>7
<1>9. /\ page \in Seq(ListedRows(q))
      /\ Len(page) = IF m + 1 <= last THEN last - (m + 1) + 1 ELSE 0
  BY <1>5, <1>6, <1>8, SubSeqProperties
<1>10. Len(page) = IF m + ListPage <= n THEN ListPage ELSE IF m <= n THEN n - m ELSE 0
  <2>1. PICK k : k = Len(page)
    OBVIOUS
  <2>2. k = IF m + 1 <= last THEN last - (m + 1) + 1 ELSE 0
    BY <1>9, <2>1
  <2>3. k = IF m + ListPage <= n THEN ListPage ELSE IF m <= n THEN n - m ELSE 0
    BY <1>4, <1>5, <2>2
  <2>4. QED
    BY <2>1, <2>3
<1>11. PageLength(tasks, tags, q, m, Len(page))
  <2>1. {tasks[t] : t \in ListIn(tasks, tags, q)} = ListedRows(q)
    BY DEF ListIn, ListedRows, Listed
  <2>2. QED
    BY <1>3, <1>10, <2>1 DEF PageLength
<1>12. Current(tasks, page)
  <2>1. \A i \in 1 .. Len(page) : page[i] \in ListedRows(q)
    <3>1. PICK S : S = ListedRows(q)
      OBVIOUS
    <3>2. page \in Seq(S)
      BY <1>9, <3>1
    <3>3. \A i \in 1 .. Len(page) : page[i] \in S
      BY <3>2, ElementOfSeq
    <3>4. QED
      BY <3>1, <3>3
  <2>2. QED
    BY <1>2, <2>1 DEF Current
<1>13. QED
  BY <1>11, <1>12

LEMMA RowsList ==
    ASSUME StateOK, ListInv, ReadRows
    PROVE  ListInv'
<1>1. /\ pc = "rows" /\ UNCHANGED <<tasks, tags, now, url, stats, badges, seen, flagged, walkDay, walking>>
      /\ ListQuery' = ListQuery
  BY DEF ReadRows, tableVars, walkVars, ListQuery
<1>2. CASE Bad \in {url.sort, url.dir}
  <2>1. pc' = "error" /\ UNCHANGED <<rows, quiet, readDay>>
    BY <1>2 DEF ReadRows
  <2>2. QED
    BY <1>1, <2>1, ListFrame DEF WithRows, WithStats
<1>3. CASE Bad \notin {url.sort, url.dir}
  <2>1. /\ pc' = "stats" /\ quiet' = TRUE /\ readDay' = Day(now)
        /\ \E o \in Orderings(ListQuery, Selected) : rows' = PageOf(o, url.offset, ListPage)
    BY <1>3 DEF ReadRows
  <2>2. PICK q, page : q = ListQuery /\ page = rows'
    OBVIOUS
  <2>3. Sorts(q) /\ TableOK /\ url.offset \in Nat /\ seen \in Seq(TaskId) /\ ListPage \in Nat \ {0}
    BY <1>3, <2>2, ListSorts, ListAssumption DEF StateOK, TypeOK
  <2>4. PICK o \in Orderings(q, ListedRows(q)) : page = PageOf(o, url.offset, ListPage)
    BY <1>3, <2>1, <2>2, ListSorts, PageIsTyped DEF StateOK
  <2>5. Sorted'
    BY <1>1, <1>3 DEF Sorted
  <2>6. Page'
    <3>1. PageLength(tasks, tags, q, url.offset, Len(page)) /\ Current(tasks, page)
      BY <2>3, <2>4, PageIsCurrent
    <3>2. readDay' <= Day(now')
      BY <1>1, <2>1, DayFacts DEF StateOK, TypeOK
    <3>3. QED
      BY <1>1, <2>2, <3>1, <3>2 DEF Page
  <2>7. Walk'
    <3>1. CASE walking
      <4>1. Len(seen) = url.offset /\ FirstIn(tasks, tags, q, seen)
        BY <1>1, <2>2, <3>1 DEF ListInv, Walk
      <4>2. FirstOf(q, seen)
        BY <4>1, FirstOfIsIn
      <4>3. /\ FirstOf(q, seen \o Ids(page))
            /\ Len(page) < ListPage =>
                  \A t \in Listed(q) : \E i \in 1 .. Len(seen \o Ids(page)) : (seen \o Ids(page))[i] = t
        BY <2>3, <2>4, <4>1, <4>2, NextPage
      <4>4. FirstIn(tasks, tags, q, seen \o Ids(page))
        <5>1. PICK read : read = seen \o Ids(page)
          OBVIOUS
        <5>2. QED
          BY <4>3, <5>1, FirstOfIsIn
      <4>5. Len(page) < ListPage => AllIn(tasks, tags, q, seen \o Ids(page))
        BY <4>3 DEF AllIn, ListIn, Listed
      <4>6. walkDay <= Day(now)
        BY DEF StateOK, HistoryOK
      <4>7. Ids(rows)' = Ids(page)
        BY <2>2 DEF Ids
      <4>8. QED
        BY <1>1, <2>1, <2>2, <3>1, <4>1, <4>4, <4>5, <4>6, <4>7 DEF Walk
    <3>2. CASE ~ walking
      BY <1>1, <3>2 DEF Walk
    <3>3. QED
      BY <3>1, <3>2
  <2>8. Cards' /\ Badges'
    BY <1>1, <2>1 DEF ListInv, Cards, Badges, WithStats
  <2>9. QED
    BY <2>5, <2>6, <2>7, <2>8 DEF ListInv
<1>4. QED
  BY <1>2, <1>3

\* The card counts the tasks that are overdue.
LEMMA OverdueCounted ==
    ASSUME TableOK
    PROVE  Cardinality(OverdueCard) = Cardinality(OverdueIn(tasks, Day(now)))
<1> DEFINE S == OverdueIn(tasks, Day(now))
           f == [t \in S |-> tasks[t]]
<1>1. IsFiniteSet(S)
  <2>1. IsFiniteSet(TaskId)
    BY TableAssumption, FS_Interval DEF TaskId
  <2>2. S \in SUBSET TaskId
    BY DEF OverdueIn
  <2>3. QED
    BY <2>1, <2>2, FS_Subset
<1>2. \A t \in S : t \in TaskId /\ tasks[t] # NoRow /\ tasks[t] \in OverdueCard /\ tasks[t].id = t
  BY DEF OverdueIn, OverdueCard, OpenCard, Stored, TableOK
<1>3. \A r \in OverdueCard : \E t \in S : tasks[t] = r
  BY DEF OverdueIn, OverdueCard, OpenCard, Stored
<1> HIDE DEF S
<1>4. f \in [S -> OverdueCard] /\ \A t \in S : f[t] = tasks[t]
  BY <1>2
<1>5. \A t, x \in S : f[t] = f[x] => t = x
  BY <1>2, <1>4
<1>6. \A r \in OverdueCard : \E t \in S : f[t] = r
  BY <1>3, <1>4
<1> HIDE DEF f
<1>7. f \in Bijection(S, OverdueCard)
  BY <1>4, <1>5, <1>6 DEF Bijection, Injection, Surjection, IsInjective
<1>8. ExistsBijection(S, OverdueCard)
  BY <1>7 DEF ExistsBijection
<1>9. QED
  BY <1>1, <1>8, FS_Bijection DEF S

LEMMA StatsList ==
    ASSUME StateOK, ListInv, ReadStats
    PROVE  ListInv'
<1>1. /\ pc = "stats" /\ pc' = "today" /\ ListQuery' = ListQuery
      /\ UNCHANGED <<tasks, tags, now, url, rows, badges, seen, flagged, walkDay, walking, quiet, readDay>>
  BY DEF ReadStats, tableVars, walkVars, ListQuery
<1>2. Sorted' /\ Walk' /\ Page' /\ Badges'
  <2>1. Sorted'
    BY <1>1 DEF ListInv, Sorted, WithRows, WithStats
  <2>2. Walk'
    BY <1>1 DEF ListInv, Walk, WithRows, WithStats, Ids
  <2>3. Page'
    BY <1>1 DEF ListInv, Page, WithRows, WithStats
  <2>4. Badges'
    BY <1>1 DEF ListInv, Badges
  <2>5. QED
    BY <2>1, <2>2, <2>3, <2>4
<1>3. Cards'
  <2>1. Stored = StoredIn(tasks)
    BY DEF Stored, StoredIn
  <2>2. /\ stats'.open = Cardinality(OpenCard) /\ stats'.overdue = Cardinality(OverdueCard)
        /\ stats'.archived = Cardinality({r \in Stored : r.archived})
        /\ stats'.completed = Cardinality({r \in Stored : r.status = Done})
        /\ stats'.total = Cardinality(Stored)
    BY DEF ReadStats
  <2>3. CountsOf(tasks, stats')
    BY <2>1, <2>2 DEF CountsOf, OpenCard
  <2>4. stats'.overdue = Cardinality(OverdueIn(tasks, Day(now)))
    BY <2>2, OverdueCounted DEF StateOK, TypeOK
  <2>5. QED
    BY <1>1, <2>3, <2>4 DEF Cards
<1>4. QED
  BY <1>2, <1>3 DEF ListInv

\* taskRows flags the rows that are overdue.
LEMMA BadgesShown ==
    ASSUME StateOK, Current(tasks, rows), NEW flags,
           flags = {r.id : r \in {x \in ToSet(rows) : IsOverdue(x)}}
    PROVE  flags = OverdueOf(tasks, Day(now), Ids(rows))
<1>1. rows \in Seq(Row) /\ DOMAIN rows = 1 .. Len(rows)
  BY LenProperties DEF StateOK, TypeOK
<1>2. /\ Len(Ids(rows)) = Len(rows)
      /\ \A i \in 1 .. Len(rows) : Ids(rows)[i] = rows[i].id /\ rows[i].id \in TaskId
  BY SeenGrows
<1>3. \A i \in 1 .. Len(rows) : tasks[rows[i].id] = rows[i] /\ rows[i] # NoRow
  BY <1>1, ElementOfSeq, NullAssumption DEF Current
<1>4. \A i \in 1 .. Len(rows) : IsOverdue(rows[i]) <=> rows[i].id \in OverdueIn(tasks, Day(now))
  BY <1>2, <1>3 DEF IsOverdue, OverdueIn
<1>5. \A t : t \in flags <=> \E i \in 1 .. Len(rows) : IsOverdue(rows[i]) /\ rows[i].id = t
  <2>1. \A x : x \in ToSet(rows) <=> \E i \in 1 .. Len(rows) : rows[i] = x
    BY <1>1 DEF ToSet
  <2>2. QED
    BY <2>1
<1>6. \A t : t \in OverdueOf(tasks, Day(now), Ids(rows)) <=>
               \E i \in 1 .. Len(rows) : rows[i].id \in OverdueIn(tasks, Day(now)) /\ rows[i].id = t
  BY <1>2 DEF OverdueOf
<1>7. QED
  BY <1>4, <1>5, <1>6

LEMMA RenderList ==
    ASSUME StateOK, ListInv, Render
    PROVE  ListInv'
<1>1. /\ pc = "render" /\ pc' = "shown" /\ ListQuery' = ListQuery
      /\ UNCHANGED <<tasks, tags, now, url, rows, stats, seen, flagged, walkDay, walking, quiet, readDay>>
  BY DEF Render, tableVars, walkVars, ListQuery
<1>2. Sorted' /\ Walk' /\ Page' /\ Cards'
  <2>1. Sorted'
    BY <1>1 DEF ListInv, Sorted, WithRows, WithStats
  <2>2. Walk'
    BY <1>1 DEF ListInv, Walk, WithRows, WithStats, Ids
  <2>3. Page'
    BY <1>1 DEF ListInv, Page, WithRows, WithStats
  <2>4. Cards'
    BY <1>1 DEF ListInv, Cards, WithStats
  <2>5. QED
    BY <2>1, <2>2, <2>3, <2>4
<1>3. Badges'
  <2>1. quiet => badges' = OverdueOf(tasks, Day(now), Ids(rows))
    <3>1. quiet => Current(tasks, rows)
      BY <1>1 DEF ListInv, Page, WithRows, WithStats
    <3>2. PICK flags : flags = badges'
      OBVIOUS
    <3>3. flags = {r.id : r \in {x \in ToSet(rows) : IsOverdue(x)}}
      BY <3>2 DEF Render
    <3>4. QED
      BY <3>1, <3>2, <3>3, BadgesShown
  <2>2. QED
    BY <1>1, <2>1 DEF ListInv, Badges, Ids
<1>4. QED
  BY <1>2, <1>3 DEF ListInv

LEMMA TickList ==
    ASSUME StateOK, ListInv, Tick, UNCHANGED formVars
    PROVE  ListInv'
<1>1. /\ UNCHANGED <<tasks, tags, pc, url, rows, stats, badges, seen, flagged, walkDay, walking, quiet, readDay>>
      /\ ListQuery' = ListQuery
  BY DEF Tick, tableVars, tabVars, walkVars, ListQuery
<1>2. PICK d, e \in Int : d = Day(now) /\ e = Day(now') /\ d <= e
  <2>1. now \in Int /\ now' \in Int
    BY ListAssumption DEF StateOK, TypeOK, Tick
  <2>2. QED
    BY <2>1, DayFacts, TickState
<1>3. readDay \in Int /\ walkDay \in Int /\ walkDay <= d
  <2>1. Day(Tomorrow) \in Int
    BY DayFacts, ListAssumption
  <2>2. QED
    BY <1>2, <2>1 DEF StateOK, HistoryOK, TypeOK
<1>4. walkDay = e => d = e
  BY <1>2, <1>3
<1>5. readDay <= d => readDay <= e /\ (readDay = e => d = e)
  BY <1>2, <1>3
<1>6. Sorted' /\ Walk'
  <2>1. Sorted'
    BY <1>1 DEF ListInv, Sorted
  <2>2. Walk'
    BY <1>1 DEF ListInv, Walk, Ids
  <2>3. QED
    BY <2>1, <2>2
<1>7. Page'
  BY <1>1, <1>2, <1>5 DEF ListInv, Page
<1>8. quiet /\ pc \in WithRows => readDay <= d
  BY <1>2 DEF ListInv, Page
<1>9. Cards'
  BY <1>1, <1>2, <1>5, <1>8 DEF ListInv, Cards, WithRows
<1>10. Badges'
  BY <1>1, <1>2, <1>4, <1>5, <1>8 DEF ListInv, Badges, WithRows, WithStats, Ids
<1>11. QED
  BY <1>6, <1>7, <1>9, <1>10 DEF ListInv

LEMMA ListStarts == FormInit => ListInv
<1> SUFFICES ASSUME FormInit PROVE ListInv
  OBVIOUS
<1>1. pc = "away" /\ ~ walking /\ ~ quiet
  BY DEF FormInit, Init
<1>2. QED
  BY <1>1 DEF ListInv, Sorted, Walk, Page, Cards, Badges, WithRows, WithStats

LEMMA ListStepInv == StateOK /\ ListInv /\ [FormNext]_<<vars, formVars>> => ListInv'
<1> SUFFICES ASSUME StateOK, ListInv, [FormNext]_<<vars, formVars>> PROVE ListInv'
  OBVIOUS
<1>1. CASE ListStep
  <2>1. CASE ReadRows
    BY <2>1, RowsList
  <2>2. CASE ReadStats
    BY <2>2, StatsList
  <2>3. CASE TakeDays \/ ReadCreated \/ ReadCompleted \/ Fail
    <3>1. UNCHANGED <<tasks, tags, now, url, rows, stats, badges, seen, flagged, walkDay, walking, quiet, readDay>>
      BY <2>3 DEF TakeDays, ReadCreated, ReadCompleted, Fail, tableVars, walkVars
    <3>2. /\ pc' = "error" \/ (pc \in WithStats /\ pc' \in WithStats /\ pc' # "shown")
      BY <2>3 DEF TakeDays, ReadCreated, ReadCompleted, Fail, WithStats
    <3>3. QED
      BY <3>1, <3>2, ListFrame DEF WithRows, WithStats
  <2>4. CASE Render
    BY <2>4, RenderList
  <2>5. ASSUME NEW u \in Urls, Open(u) PROVE ListInv'
    BY <2>5, OpenList
  <2>6. CASE GoNext
    BY <2>6, NextList
  <2>7. CASE GoPrevious
    <3>1. pc' = "rows" /\ quiet' = FALSE /\ walking' = FALSE
      BY <2>7 DEF GoPrevious, Load, NoWalk
    <3>2. QED
      BY <3>1, NewPage
  <2>8. QED
    BY <1>1, <2>1, <2>2, <2>3, <2>4, <2>5, <2>6, <2>7 DEF ListStep
<1>2. CASE FormStep
  <2>1. CASE OpenNew \/ OpenEdit
    <3>1. pc' = "away" /\ quiet' = FALSE /\ walking' = FALSE
      BY <2>1 DEF OpenNew, OpenEdit, LeaveList, NoWalk
    <3>2. Sorted'
      BY <3>1 DEF Sorted, WithRows, WithStats
    <3>3. QED
      BY <3>1, <3>2, NotQuiet
  <2>2. CASE GetRow \/ GetTags \/ GetFails \/ (\E c \in Typings : Send(c)) \/ Refuse \/ Accept \/ SaveUnseen
    <3>1. pc = "away" /\ ~ walking /\ ~ quiet
      BY <2>2 DEF GetRow, GetTags, GetFails, Send, Refuse, Accept, SaveUnseen, StateOK, Away
    <3>2. UNCHANGED <<walking, quiet>> /\ pc' \in {pc, "error"}
      BY <2>2 DEF GetRow, GetTags, GetFails, NotFound, Send, Refuse, Accept, SaveUnseen, Again, tabVars, walkVars
    <3>3. Sorted'
      BY <3>1, <3>2 DEF Sorted, WithRows, WithStats
    <3>4. QED
      BY <3>1, <3>2, <3>3, NotQuiet
  <2>3. CASE Abandon
    <3>1. PICK u \in Urls : u = Home
      BY ListAssumption
    <3>2. Open(u)
      BY <2>3, <3>1 DEF Abandon
    <3>3. QED
      BY <3>2, OpenList
  <2>4. CASE Save
    BY <2>4, SaveList
  <2>5. QED
    BY <1>2, <2>1, <2>2, <2>3, <2>4 DEF FormStep
<1>3. CASE Change
  <2>1. quiet' = FALSE /\ walking' = FALSE /\ UNCHANGED <<pc, url>>
    BY <1>3 DEF Change, NoWalk
  <2>2. Sorted'
    BY <2>1 DEF ListInv, Sorted
  <2>3. QED
    BY <2>1, <2>2, NotQuiet
<1>4. CASE Tick /\ UNCHANGED formVars
  BY <1>4, TickList
<1>5. CASE UNCHANGED <<vars, formVars>>
  BY <1>5, ListFrame DEF vars
<1>6. QED
  BY <1>1, <1>2, <1>3, <1>4, <1>5 DEF FormNext

------------------------------------------------------------------------------
(* The chart *)

\* Every set of numbers has a least one.
LEMMA Least ==
    ASSUME NEW T, T \subseteq Nat, T # {}
    PROVE  \E n \in T : \A m \in T : n <= m
<1>1. PICK R : R = OpToRel(<, Nat)
  BY Zenon
<1>2. IsWellFoundedOn(R, Nat)
  BY <1>1, NatLessThanWellFounded, Zenon
<1>3. PICK n \in T : \A m \in T : <<m, n>> \notin R
  BY <1>2, WFMin
<1>4. n \in Nat /\ \A m \in Nat : m < n => <<m, n>> \in R
  BY <1>1 DEF OpToRel
<1>5. ASSUME NEW m \in T PROVE n <= m
  <2>1. m \in Nat /\ ~ m < n
    BY <1>3, <1>4
  <2>2. QED
    BY <1>4, <2>1
<1>6. QED
  BY <1>5

\* What a line adds up to over each set of its columns
PartialSums(line, part) ==
    /\ part[{}] = 0
    /\ \A s \in SUBSET DOMAIN line : \A x \in s : part[s] = line[x] + part[s \ {x}]

\* What adds up over the subsets of a line's columns is its sum over all of them.
LEMMA SumIs ==
    ASSUME NEW line, NEW W, W = DOMAIN line, IsFiniteSet(W),
           NEW part, part \in [SUBSET W -> Int], PartialSums(line, part)
    PROVE  Total(line) = part[W]
<1> DEFINE one(s) == CHOOSE x \in s : TRUE
           Sums(f) == f = [s \in SUBSET W |-> IF s = {} THEN 0 ELSE line[one(s)] + f[s \ {one(s)}]]
           sum == CHOOSE f : Sums(f)
<1>1. \A s \in SUBSET W : s # {} => one(s) \in s /\ s \ {one(s)} \in SUBSET W
  OBVIOUS
<1>2. Total(line) = sum[W]
  BY DEF Total, MapThenSumSet, MapThenFoldSet
<1> HIDE DEF one
<1>3. Sums(part)
  <2>0. part[{}] = 0 /\ \A s \in SUBSET W : \A x \in s : part[s] = line[x] + part[s \ {x}]
    BY DEF PartialSums
  <2>1. \A s \in SUBSET W : part[s] = IF s = {} THEN 0 ELSE line[one(s)] + part[s \ {one(s)}]
    BY <1>1, <2>0
  <2>2. QED
    BY <2>1
<1>4. Sums(sum)
  <2> HIDE DEF Sums
  <2>1. QED
    BY <1>3
<1> HIDE DEF sum
<1>5. \A s \in SUBSET W : sum[s] = IF s = {} THEN 0 ELSE line[one(s)] + sum[s \ {one(s)}]
  BY <1>4
<1>6. \A s \in SUBSET W : sum[s] = part[s]
  <2> DEFINE wrong == {n \in Nat : \E s \in SUBSET W : Cardinality(s) = n /\ sum[s] # part[s]}
  <2>1. ASSUME wrong # {} PROVE FALSE
    <3>1. PICK n \in wrong : \A m \in wrong : n <= m
      <4>1. wrong \subseteq Nat
        OBVIOUS
      <4> HIDE DEF wrong
      <4>2. QED
        BY <2>1, <4>1, Least
    <3>2. PICK s \in SUBSET W : Cardinality(s) = n /\ sum[s] # part[s] /\ n \in Nat
      BY <3>1
    <3>3. s # {}
      BY <1>5, <3>2 DEF PartialSums
    <3>4. PICK x \in s : x = one(s)
      BY <1>1, <3>3
    <3>5. PICK t \in SUBSET W : t = s \ {x}
      OBVIOUS
    <3>6. Cardinality(t) = n - 1 /\ n - 1 \in Nat
      <4>1. IsFiniteSet(s)
        BY <3>2, FS_Subset
      <4>2. IsFiniteSet(t) /\ Cardinality(t) = Cardinality(s) - 1
        BY <4>1, <3>4, <3>5, FS_RemoveElement
      <4>3. Cardinality(t) \in Nat
        BY <4>2, FS_CardinalityType
      <4>4. QED
        BY <3>2, <4>2, <4>3
    <3>7. sum[t] = part[t]
      <4>1. n - 1 \notin wrong
        BY <3>1, <3>2, <3>6
      <4>2. QED
        BY <3>6, <4>1
    <3>8. sum[s] = part[s]
      <4>1. sum[s] = line[x] + sum[t]
        BY <1>5, <3>3, <3>4, <3>5
      <4>2. part[s] = line[x] + part[t]
        BY <3>4, <3>5 DEF PartialSums
      <4>3. QED
        BY <3>7, <4>1, <4>2
    <3>9. QED
      BY <3>2, <3>8
  <2>2. ASSUME NEW s \in SUBSET W PROVE  Cardinality(s) \in Nat
    BY FS_Subset, FS_CardinalityType
  <2>3. QED
    BY <2>1, <2>2
<1>7. QED
  BY <1>2, <1>6

\* A line that counts the members of a set by their day adds up to the members
\* of its days.
LEMMA ColumnsAddUp ==
    ASSUME NEW R, IsFiniteSet(R), NEW day \in [R -> Int], NEW W, IsFiniteSet(W), NEW line,
           line = [d \in W |-> Cardinality({r \in R : day[r] = d})]
    PROVE  Total(line) = Cardinality({r \in R : day[r] \in W})
<1> DEFINE of(s) == {r \in R : day[r] \in s}
           part == [s \in SUBSET W |-> Cardinality(of(s))]
<1>1. \A s : IsFiniteSet(of(s)) /\ Cardinality(of(s)) \in Nat
  BY FS_Subset, FS_CardinalityType
<1>2. part \in [SUBSET W -> Int]
  BY <1>1
<1>3. part[{}] = 0
  <2>1. of({}) = {}
    OBVIOUS
  <2>2. QED
    BY <2>1, FS_EmptySet
<1>4. ASSUME NEW s \in SUBSET W, NEW x \in s PROVE part[s] = line[x] + part[s \ {x}]
  <2>1. PICK A \in SUBSET R, B \in SUBSET R : A = {r \in R : day[r] = x} /\ B = of(s \ {x})
    OBVIOUS
  <2>2. IsFiniteSet(A) /\ IsFiniteSet(B)
    BY FS_Subset
  <2>3. A \cap B = {} /\ A \cup B = of(s)
    BY <2>1
  <2>4. Cardinality(A \cup B) = Cardinality(A) + Cardinality(B) - Cardinality(A \cap B)
    BY <2>2, FS_Union
  <2>5. Cardinality(A) \in Nat /\ Cardinality(B) \in Nat /\ Cardinality({}) = 0
    BY <2>2, FS_CardinalityType, FS_EmptySet
  <2>6. Cardinality(of(s)) = Cardinality(A) + Cardinality(B)
    <3>1. Cardinality(A \cap B) = 0
      BY <2>3, <2>5
    <3>2. Cardinality(of(s)) = Cardinality(A \cup B)
      BY <2>3
    <3> HIDE DEF of
    <3>3. QED
      BY <2>4, <2>5, <3>1, <3>2
  <2>7. line[x] = Cardinality(A) /\ part[s] = Cardinality(of(s)) /\ part[s \ {x}] = Cardinality(B)
    BY <2>1
  <2>8. QED
    BY <2>6, <2>7
<1>5. DOMAIN line = W /\ part[W] = Cardinality(of(W))
  OBVIOUS
<1> HIDE DEF part
<1>6. Total(line) = part[W]
  <2>1. \A s \in SUBSET W : \A x \in s : part[s] = line[x] + part[s \ {x}]
    BY <1>4
  <2>2. PartialSums(line, part)
    BY <1>3, <1>5, <2>1 DEF PartialSums
  <2>3. QED
    BY <1>2, <1>5, <2>2, SumIs
<1>7. QED
  BY <1>5, <1>6

\* What the columns leave over are the members before the first day, when none
\* is dated after the last one.
LEMMA LineAddsUp ==
    ASSUME NEW R, IsFiniteSet(R), NEW day \in [R -> Int], NEW end \in Int, Days \in Nat,
           \A r \in R : day[r] <= end,
           NEW line, line = [d \in Window(end) |-> Cardinality({r \in R : day[r] = d})]
    PROVE  Total(line) + Cardinality({r \in R : day[r] < end - (Days - 1)}) = Cardinality(R)
<1>1. PICK A \in SUBSET R, B \in SUBSET R :
           A = {r \in R : day[r] \in Window(end)} /\ B = {r \in R : day[r] < end - (Days - 1)}
  OBVIOUS
<1>2. IsFiniteSet(Window(end))
  BY FS_Interval DEF Window
<1>3. Total(line) = Cardinality(A)
  BY <1>1, <1>2, ColumnsAddUp
<1>4. A \cup B = R /\ A \cap B = {}
  BY <1>1 DEF Window
<1>5. IsFiniteSet(A) /\ IsFiniteSet(B)
  BY FS_Subset
<1>6. Cardinality(R) = Cardinality(A) + Cardinality(B) - Cardinality({})
  BY <1>4, <1>5, FS_Union
<1>7. Cardinality({}) = 0 /\ Cardinality(A) \in Nat /\ Cardinality(B) \in Nat
  BY <1>5, FS_EmptySet, FS_CardinalityType
<1>8. QED
  BY <1>1, <1>3, <1>6, <1>7

LEMMA StoredRows ==
    ASSUME TableOK
    PROVE  /\ Stored = StoredIn(tasks) /\ IsFiniteSet(Stored)
           /\ \A r \in Stored : \E t \in TaskId : tasks[t] = r /\ r # NoRow /\ r \in Row
<1> DEFINE live == {t \in TaskId : tasks[t] # NoRow}
           f == [t \in live |-> tasks[t]]
<1>1. Stored = {tasks[t] : t \in live} /\ Stored = StoredIn(tasks)
  BY DEF Stored, StoredIn
<1>2. IsFiniteSet(live)
  <2>1. IsFiniteSet(TaskId) /\ live \in SUBSET TaskId
    BY TableAssumption, FS_Interval DEF TaskId
  <2>2. QED
    BY <2>1, FS_Subset
<1>3. f \in Surjection(live, Stored)
  BY <1>1 DEF Surjection
<1>4. IsFiniteSet(Stored)
  BY <1>2, <1>3, FS_Surjection
<1>5. QED
  BY <1>1, <1>4 DEF TableOK

LEMMA ReadChart ==
    ASSUME StateOK, AllDated(tasks, now), Chart, TakeDays \/ ReadCreated \/ ReadCompleted
    PROVE  Chart'
<1>1. UNCHANGED <<tasks, quiet>> /\ TableOK /\ now \in Int
  BY DEF TakeDays, ReadCreated, ReadCompleted, tableVars, StateOK, TypeOK
<1>2. Stored = StoredIn(tasks)
  BY <1>1, StoredRows
<1>3. CASE TakeDays
  <2>1. /\ pc' = "created" /\ chart' = [end |-> Day(now), created |-> <<>>, completed |-> <<>>]
    BY <1>3 DEF TakeDays
  <2>2. chart'.end = Day(now) /\ chart'.created = <<>> /\ chart'.completed = <<>> /\ Day(now) \in Int
    BY <1>1, <2>1, DayFacts
  <2>3. \A r \in StoredIn(tasks) : Day(r.created) <= Day(now) /\ Day(r.updated) <= Day(now)
    <3> SUFFICES ASSUME NEW r \in StoredIn(tasks)
                 PROVE  Day(r.created) <= Day(now) /\ Day(r.updated) <= Day(now)
      OBVIOUS
    <3>1. PICK t \in TaskId : tasks[t] = r /\ r # NoRow /\ r \in Row
      BY <1>1, StoredRows
    <3>2. r.created \in Int /\ r.updated \in Int /\ r.created <= now /\ r.updated <= now
      BY <3>1 DEF AllDated, Dated, Row, Stamp
    <3>3. QED
      BY <1>1, <3>2, DayFacts
  <2>4. QED
    BY <1>1, <2>1, <2>2, <2>3 DEF Chart
<1>4. CASE ReadCreated
  <2>1. PICK line : line = MadeLine(tasks, chart.end)
    OBVIOUS
  <2>2. pc = "created" /\ pc' = "completed" /\ chart' = [chart EXCEPT !.created = line]
    BY <1>2, <1>4, <2>1 DEF ReadCreated, MadeLine
  <2>3. chart = [end |-> chart.end, created |-> chart.created, completed |-> chart.completed] /\ chart.end \in Int
    BY <2>2 DEF Chart
  <2>4. chart'.end = chart.end /\ chart'.created = line
        /\ chart' = [end |-> chart'.end, created |-> chart'.created, completed |-> chart'.completed]
    BY <2>2, <2>3
  <2>5. quiet => \A r \in StoredIn(tasks) : Day(r.created) <= chart.end /\ Day(r.updated) <= chart.end
    BY <2>2 DEF Chart
  <2>6. QED
    BY <1>1, <2>1, <2>2, <2>3, <2>4, <2>5 DEF Chart
<1>5. CASE ReadCompleted
  <2>1. PICK line : line = DoneLine(tasks, chart.end)
    OBVIOUS
  <2>2. pc = "completed" /\ pc' = "render" /\ chart' = [chart EXCEPT !.completed = line]
    BY <1>2, <1>5, <2>1 DEF ReadCompleted, DoneLine
  <2>3. chart = [end |-> chart.end, created |-> chart.created, completed |-> chart.completed] /\ chart.end \in Int
    BY <2>2 DEF Chart
  <2>4. chart'.end = chart.end /\ chart'.created = chart.created /\ chart'.completed = line
        /\ chart' = [end |-> chart'.end, created |-> chart'.created, completed |-> chart'.completed]
    BY <2>2, <2>3
  <2>5. quiet => /\ \A r \in StoredIn(tasks) : Day(r.created) <= chart.end /\ Day(r.updated) <= chart.end
                 /\ chart.created = MadeLine(tasks, chart.end)
    BY <2>2 DEF Chart
  <2>6. QED
    BY <1>1, <2>1, <2>2, <2>3, <2>4, <2>5 DEF Chart
<1>6. QED
  BY <1>3, <1>4, <1>5

LEMMA ChartStep ==
    StateOK /\ AllDated(tasks, now) /\ Chart /\ [FormNext]_<<vars, formVars>> => Chart'
<1> SUFFICES ASSUME StateOK, AllDated(tasks, now), Chart, [FormNext]_<<vars, formVars>> PROVE Chart'
  OBVIOUS
<1>1. ASSUME pc' \notin {"created", "completed", "render", "shown"} PROVE Chart'
  BY <1>1 DEF Chart
<1>2. CASE ListStep
  <2>1. CASE ReadRows \/ ReadStats \/ GoNext \/ GoPrevious \/ \E u \in Urls : Open(u)
    <3>1. pc' \in {"error", "stats", "today", "rows"}
      BY <2>1 DEF ReadRows, ReadStats, GoNext, GoPrevious, Open, Load
    <3>2. QED
      BY <1>1, <3>1
  <2>2. CASE TakeDays \/ ReadCreated \/ ReadCompleted
    BY <2>2, ReadChart
  <2>3. CASE Fail
    BY <2>3 DEF Fail, Chart
  <2>4. CASE Render
    BY <2>4 DEF Render, Chart, tableVars
  <2>5. QED
    BY <1>2, <2>1, <2>2, <2>3, <2>4 DEF ListStep
<1>3. CASE FormStep
  <2>1. CASE OpenNew \/ OpenEdit \/ Abandon \/ Save
    <3>1. pc' \in {"away", "rows"}
      BY <2>1 DEF OpenNew, OpenEdit, LeaveList, Abandon, Open, Load, Save
    <3>2. QED
      BY <1>1, <3>1
  <2>2. CASE GetRow \/ GetTags \/ GetFails \/ (\E c \in Typings : Send(c)) \/ Refuse \/ Accept \/ SaveUnseen
    <3>1. pc = "away"
      BY <2>2 DEF GetRow, GetTags, GetFails, Send, Refuse, Accept, SaveUnseen, StateOK, Away
    <3>2. pc' \in {pc, "error"}
      BY <2>2 DEF GetRow, GetTags, GetFails, NotFound, Send, Refuse, Accept, SaveUnseen, Again, tabVars
    <3>3. QED
      BY <1>1, <3>1, <3>2
  <2>3. QED
    BY <1>3, <2>1, <2>2 DEF FormStep
<1>4. CASE Change
  BY <1>4 DEF Change, Chart
<1>5. CASE Tick \/ UNCHANGED <<vars, formVars>>
  BY <1>5 DEF Tick, vars, tableVars, tabVars, Chart
<1>6. QED
  BY <1>2, <1>3, <1>4, <1>5 DEF FormNext

------------------------------------------------------------------------------
(* Theorems *)

LEMMA BrowseInvariant == FormSpec => []BrowseInv
<1>1. FormInit => BrowseInv
  <2>1. FormInit => Fresh /\ Existing /\ Chart
    BY DEF FormInit, Init, Fresh, Existing, Chart
  <2>2. QED
    BY <2>1, StateStarts, ListStarts, DatesStart DEF BrowseInv
<1>2. BrowseInv /\ [FormNext]_<<vars, formVars>> => BrowseInv'
  BY StateStep, ListStepInv, DatesStep, ChartStep, FreshStep, ExistingStep DEF BrowseInv
<1>3. QED
  BY <1>1, <1>2, PTL DEF FormSpec

\* Whatever a tab is shown and its user sends, and whatever others write
\* meanwhile, what renderTaskList holds has its type: a page has at most its
\* number of rows, and its URL is one of the program's with another offset.
THEOREM BrowseTypeCorrect == FormSpec => []TypeOK
<1>1. BrowseInv => TypeOK
  BY DEF BrowseInv, StateOK
<1>2. QED
  BY <1>1, BrowseInvariant, PTL

\* The links of renderTaskList turn the pages of a list nobody writes to so that
\* each of its tasks is shown once, in the list's order, whatever the size of a
\* page, the sort column and the filters.
THEOREM WalkIsComplete == FormSpec => []WalkShowsEachTaskOnce
<1>1. BrowseInv => WalkShowsEachTaskOnce
  <2> SUFFICES ASSUME BrowseInv, pc = "shown", walking
               PROVE  LET shown == seen \o [i \in DOMAIN rows |-> rows[i].id]
                      IN  /\ \A i, j \in DOMAIN shown : i < j =>
                                Precedes(ListQuery, tasks[shown[i]], tasks[shown[j]])
                          /\ \A i \in DOMAIN shown : MatchesNow(shown[i])
                          /\ ~ HasNext => \A t \in TaskId : MatchesNow(t) => t \in ToSet(shown)
    BY DEF WalkShowsEachTaskOnce
  <2> DEFINE shown == seen \o Ids(rows)
  <2>1. StateOK /\ Walk
    BY DEF BrowseInv, ListInv
  <2>2. /\ shown \in Seq(TaskId) /\ DOMAIN shown = 1 .. Len(shown)
        /\ [i \in DOMAIN rows |-> rows[i].id] = Ids(rows)
    BY <2>1, SeenGrows, LenProperties
  <2>3. /\ FirstIn(tasks, tags, ListQuery, shown)
        /\ Len(rows) < ListPage => AllIn(tasks, tags, ListQuery, shown)
    BY <2>1 DEF Walk, WithRows, WithStats
  <2> HIDE DEF shown
  <2>4. \A i, j \in DOMAIN shown : i < j => Precedes(ListQuery, tasks[shown[i]], tasks[shown[j]])
    BY <2>2, <2>3 DEF FirstIn
  <2>5. \A i \in DOMAIN shown : MatchesNow(shown[i])
    BY <2>2, <2>3 DEF FirstIn, MatchesNow
  <2>6. ASSUME ~ HasNext, NEW t \in TaskId, MatchesNow(t) PROVE t \in ToSet(shown)
    <3>1. Len(rows) < ListPage
      <4>1. Len(rows) \in Nat /\ ListPage \in Nat /\ Len(rows) <= ListPage
        BY <2>1, ListAssumption, LenProperties DEF StateOK, TypeOK
      <4>2. QED
        BY <2>6, <4>1 DEF HasNext
    <3>2. \E i \in 1 .. Len(shown) : shown[i] = t
      BY <2>3, <2>6, <3>1 DEF AllIn, ListIn, MatchesNow
    <3>3. QED
      BY <2>2, <3>2 DEF ToSet
  <2>7. QED
    BY <2>2, <2>4, <2>5, <2>6 DEF shown
<1>2. QED
  BY <1>1, BrowseInvariant, PTL

\* The URL of a page without filters and what its list selects
LEMMA UnfilteredSelects ==
    ASSUME StateOK, Unfiltered, NEW t \in TaskId
    PROVE  Matches(ListQuery, tasks[t], tags[t].names) <=>
             /\ tasks[t] # NoRow
             /\ tasks[t].archived = (url.scope = "archived")
             /\ url.scope = "completed" => tasks[t].status = Done
             /\ url.scope = "open" => tasks[t].status # Done
<1>1. PICK q : q = ListQuery
  OBVIOUS
<1>2. /\ q.scope = url.scope /\ q.tag = NoFilter /\ q.project = NoFilter /\ q.search = NoFilter
      /\ q.status = NoFilter /\ q.priority = NoFilter /\ q.dueFrom = NoFilter /\ q.dueTo = NoFilter
  BY <1>1, QueryFields, ListQueryIs DEF Unfiltered, StateOK, UrlOK
<1>3. QED
  BY <1>1, <1>2 DEF Matches

\* The list of a tab has as many rows as the cards say.
LEMMA ListIsCounted ==
    ASSUME StateOK, Unfiltered, CountsOf(tasks, stats)
    PROVE  /\ Cardinality({tasks[t] : t \in ListIn(tasks, tags, ListQuery)}) = ListLength
           /\ ListLength \in Nat
<1> DEFINE S == StoredIn(tasks)
           O == {r \in S : ~ r.archived /\ r.status # Done}
           A == {r \in S : r.archived}
           L == {tasks[t] : t \in ListIn(tasks, tags, ListQuery)}
<1>1. IsFiniteSet(S)
  BY StoredRows DEF StateOK, TypeOK
<1>2. \A r \in S : \E t \in TaskId : tasks[t] = r /\ r # NoRow /\ r \in Row
  BY StoredRows DEF StateOK, TypeOK
<1>3. \A r \in S : r.archived \in BOOLEAN /\ r.status \in 0 .. Done
  BY <1>2 DEF Row
<1>4. \A r : r \in L <=>
        r \in S /\ r.archived = (url.scope = "archived")
                /\ (url.scope = "completed" => r.status = Done) /\ (url.scope = "open" => r.status # Done)
  BY UnfilteredSelects DEF ListIn, StoredIn
<1>5. url.scope \in {"open", "completed", "archived"}
  BY DEF StateOK, UrlOK, Parameters, Scopes
<1>6. stats.open = Cardinality(O) /\ stats.archived = Cardinality(A) /\ stats.total = Cardinality(S)
  BY DEF CountsOf
<1>7. O \in SUBSET S /\ A \in SUBSET S /\ O \cap A = {}
  OBVIOUS
<1> HIDE DEF S, L
<1>8. /\ IsFiniteSet(O) /\ IsFiniteSet(A)
      /\ Cardinality(O) \in Nat /\ Cardinality(A) \in Nat /\ Cardinality(S) \in Nat
  <2>1. IsFiniteSet(O) /\ IsFiniteSet(A)
    BY <1>1, <1>7, FS_Subset
  <2>2. QED
    BY <1>1, <2>1, FS_CardinalityType
<1>9. CASE url.scope = "open"
  <2>1. L = O
    BY <1>3, <1>4, <1>9
  <2>2. QED
    BY <1>6, <1>8, <1>9, <2>1 DEF ListLength, L
<1>10. CASE url.scope = "archived"
  <2>1. L = A
    BY <1>3, <1>4, <1>10
  <2>2. QED
    BY <1>6, <1>8, <1>10, <2>1 DEF ListLength, L
<1>11. CASE url.scope = "completed"
  <2>1. L = (S \ O) \ A
    BY <1>3, <1>4, <1>11
  <2>2. S \cap O = O /\ (S \ O) \cap A = A
    BY <1>7
  <2> HIDE DEF O, A
  <2>3. IsFiniteSet(S \ O) /\ Cardinality(S \ O) = Cardinality(S) - Cardinality(O)
    BY <1>1, <2>2, FS_Difference
  <2>4. IsFiniteSet(L) /\ Cardinality(L) = Cardinality(S \ O) - Cardinality(A)
    BY <2>1, <2>2, <2>3, FS_Difference
  <2>5. Cardinality(L) = stats.total - stats.open - stats.archived
    BY <1>6, <1>8, <2>3, <2>4
  <2>6. Cardinality(L) \in Nat
    BY <2>4, FS_CardinalityType
  <2>7. QED
    BY <1>11, <2>5, <2>6 DEF ListLength, L
<1>12. QED
  BY <1>5, <1>9, <1>10, <1>11

\* The WHERE of the list and the FILTERs of StatsForUser's counts select the same
\* tasks, and stay in step while nobody writes between the two statements.
THEOREM CardsCountTheList == FormSpec => []CardsAgreeWithList
<1>1. BrowseInv => CardsAgreeWithList
  <2> SUFFICES ASSUME BrowseInv, pc = "shown", quiet, Unfiltered
               PROVE  \/ Len(rows) = ListPage /\ ListLength >= url.offset + ListPage
                      \/ Len(rows) < ListPage /\ ListLength = url.offset + Len(rows)
                      \/ rows = <<>> /\ ListLength <= url.offset
    BY DEF CardsAgreeWithList
  <2>1. StateOK /\ CountsOf(tasks, stats) /\ PageLength(tasks, tags, ListQuery, url.offset, Len(rows))
    BY DEF BrowseInv, ListInv, Cards, Page, WithRows, WithStats
  <2>2. PICK n \in Nat : n = ListLength /\ n = Cardinality({tasks[t] : t \in ListIn(tasks, tags, ListQuery)})
    BY <2>1, ListIsCounted
  <2>3. PICK m \in Nat, k \in Nat : m = url.offset /\ k = Len(rows)
    BY <2>1, LenProperties DEF StateOK, TypeOK
  <2>4. k = IF m + ListPage <= n THEN ListPage ELSE IF m <= n THEN n - m ELSE 0
    BY <2>1, <2>2, <2>3 DEF PageLength
  <2>5. k = 0 => rows = <<>>
    BY <2>1, <2>3, EmptySeq DEF StateOK, TypeOK
  <2>6. \/ k = ListPage /\ n >= m + ListPage
        \/ k < ListPage /\ n = m + k
        \/ k = 0 /\ n <= m
    BY <2>4, ListAssumption
  <2>7. QED
    BY <2>2, <2>3, <2>5, <2>6
<1>2. QED
  BY <1>1, BrowseInvariant, PTL

\* Task.IsOverdue, asked of each row of each page of the open list, and the
\* FILTER of StatsForUser, asked of all rows at once, agree on a day.
THEOREM CardCountsTheBadges == FormSpec => []CardMatchesBadges
<1>1. BrowseInv => CardMatchesBadges
  <2> SUFFICES ASSUME BrowseInv, pc = "shown", walking, quiet, readDay = Day(now), walkDay = Day(now),
                      Unfiltered, url.scope = "open", ~ HasNext
               PROVE  stats.overdue = Cardinality(flagged \cup badges)
    BY DEF CardMatchesBadges, Calm
  <2>1. StateOK /\ stats.overdue = Cardinality(OverdueIn(tasks, Day(now)))
    BY DEF BrowseInv, ListInv, Cards, WithStats
  <2>2. badges = OverdueOf(tasks, Day(now), Ids(rows)) /\ flagged = OverdueOf(tasks, Day(now), seen)
    BY DEF BrowseInv, ListInv, Badges
  <2>3. AllIn(tasks, tags, ListQuery, seen \o Ids(rows))
    <3>1. Len(rows) < ListPage
      <4>1. Len(rows) \in Nat /\ ListPage \in Nat /\ Len(rows) <= ListPage
        BY <2>1, ListAssumption, LenProperties DEF StateOK, TypeOK
      <4>2. QED
        BY <4>1 DEF HasNext
    <3>2. QED
      BY <3>1 DEF BrowseInv, ListInv, Walk, WithRows, WithStats
  <2>4. \A t \in OverdueIn(tasks, Day(now)) : Matches(ListQuery, tasks[t], tags[t].names)
    <3> SUFFICES ASSUME NEW t \in OverdueIn(tasks, Day(now))
                 PROVE  Matches(ListQuery, tasks[t], tags[t].names)
      OBVIOUS
    <3>1. t \in TaskId /\ tasks[t] # NoRow /\ ~ tasks[t].archived /\ tasks[t].status # Done
      BY DEF OverdueIn
    <3>2. tasks[t].archived \in BOOLEAN
      BY <2>1, <3>1 DEF StateOK, TypeOK, TableOK, Row
    <3>3. QED
      BY <2>1, <3>1, <3>2, UnfilteredSelects
  <2>5. OverdueIn(tasks, Day(now)) = OverdueOf(tasks, Day(now), seen \o Ids(rows))
    <3>1. \A t \in OverdueIn(tasks, Day(now)) :
             \E i \in 1 .. Len(seen \o Ids(rows)) : (seen \o Ids(rows))[i] = t
      BY <2>3, <2>4 DEF AllIn, ListIn, OverdueIn
    <3>2. QED
      BY <3>1 DEF OverdueOf
  <2>6. QED
    BY <2>1, <2>2, <2>5, OverdueGrows
<1>2. QED
  BY <1>1, BrowseInvariant, PTL

\* The two lines of DailyActivity count by day the tasks that StatsForUser counts:
\* none is counted twice or left out, whatever the number of days and whenever
\* midnight passes, because no task is dated after the chart's last day.
THEOREM ChartCountsTheCards == FormSpec => []ChartAddsUpToCards
<1>1. BrowseInv => ChartAddsUpToCards
  <2> DEFINE first == chart.end - (Days - 1)
  <2> SUFFICES ASSUME BrowseInv, pc = "shown", quiet, chart # NoChart
               PROVE  /\ Total(chart.created) + Cardinality({r \in Stored : Day(r.created) < first}) = stats.total
                      /\ Total(chart.completed)
                            + Cardinality({r \in Stored : r.status = Done /\ Day(r.updated) < first})
                            = stats.completed
    BY DEF ChartAddsUpToCards
  <2>1. TableOK /\ CountsOf(tasks, stats) /\ Days \in Nat
    BY ListAssumption DEF BrowseInv, StateOK, TypeOK, ListInv, Cards, WithStats
  <2>2. PICK end \in Int : end = chart.end
    BY DEF BrowseInv, Chart
  <2>3. /\ \A r \in Stored : Day(r.created) <= end /\ Day(r.updated) <= end
        /\ chart.created = MadeLine(tasks, end) /\ chart.completed = DoneLine(tasks, end)
    BY <2>1, <2>2, StoredRows DEF BrowseInv, Chart
  <2>4. \A r \in Stored : Day(r.created) \in Int /\ Day(r.updated) \in Int
    <3>1. \A r \in Stored : r.created \in Int /\ r.updated \in Int
      BY <2>1, StoredRows DEF Row, Stamp
    <3>2. QED
      BY <3>1, DayFacts
  <2>5. PICK done \in SUBSET Stored : done = {r \in Stored : r.status = Done}
    OBVIOUS
  <2>6. IsFiniteSet(Stored) /\ IsFiniteSet(done)
    BY <2>1, <2>5, StoredRows, FS_Subset
  <2>7. stats.total = Cardinality(Stored) /\ stats.completed = Cardinality(done)
    BY <2>1, <2>5, StoredRows DEF CountsOf
  <2>8. Total(chart.created) + Cardinality({r \in Stored : Day(r.created) < first}) = stats.total
    <3>1. PICK day : day = [r \in Stored |-> Day(r.created)]
      OBVIOUS
    <3>2. /\ day \in [Stored -> Int] /\ \A r \in Stored : day[r] = Day(r.created) /\ day[r] <= end
      BY <2>3, <2>4, <3>1
    <3>3. chart.created = [d \in Window(end) |-> Cardinality({r \in Stored : day[r] = d})]
      BY <2>1, <2>3, <3>2, StoredRows DEF MadeLine
    <3>4. {r \in Stored : Day(r.created) < first} = {r \in Stored : day[r] < end - (Days - 1)}
      BY <2>2, <3>2
    <3>5. QED
      BY <2>1, <2>6, <2>7, <3>2, <3>3, <3>4, LineAddsUp
  <2>9. Total(chart.completed) + Cardinality({r \in Stored : r.status = Done /\ Day(r.updated) < first})
          = stats.completed
    <3>1. PICK day : day = [r \in done |-> Day(r.updated)]
      OBVIOUS
    <3>2. /\ day \in [done -> Int] /\ \A r \in done : day[r] = Day(r.updated) /\ day[r] <= end
      BY <2>3, <2>4, <3>1
    <3>3. chart.completed = [d \in Window(end) |-> Cardinality({r \in done : day[r] = d})]
      <4>1. \A d : {r \in StoredIn(tasks) : r.status = Done /\ Day(r.updated) = d} = {r \in done : day[r] = d}
        BY <2>1, <2>5, <3>2, StoredRows
      <4>2. QED
        BY <2>3, <4>1 DEF DoneLine
    <3>4. {r \in Stored : r.status = Done /\ Day(r.updated) < first} = {r \in done : day[r] < end - (Days - 1)}
      BY <2>2, <2>5, <3>2
    <3>5. QED
      BY <2>1, <2>6, <2>7, <3>2, <3>3, <3>4, LineAddsUp
  <2>10. QED
    BY <2>8, <2>9
<1>2. QED
  BY <1>1, BrowseInvariant, PTL

\* taskExportPath carries to the export what renderTaskList reads of the URL: the
\* two handlers parse it apart, but build queries that select the same tasks.
THEOREM ExportLinkIsFaithful == FormSpec => []ExportLinkSelectsListed
<1>1. BrowseInv => ExportLinkSelectsListed
  <2> SUFFICES ASSUME BrowseInv, ~ BadRequest(ExportLink), url.view \in {"open", url.scope}, NEW t \in TaskId
               PROVE  MatchesNow(t) <=> Matches(ExportQuery(ExportLink), tasks[t], tags[t].names)
    BY DEF ExportLinkSelectsListed
  <2>1. url \in Parameters
    BY DEF BrowseInv, StateOK, UrlOK
  <2>2. PICK e : e = ExportQuery(ExportLink)
    OBVIOUS
  <2>3. /\ Bad \notin {url.status, url.priority, url.dueFrom, url.dueTo}
        /\ ExportLink.scope = url.scope /\ ExportLink.view = url.view
    BY <2>1 DEF BadRequest, ExportLink, Parameters
  <2>4. /\ e.tag = url.tag /\ e.project = url.project /\ e.search = url.search
        /\ e.sort = url.sort /\ e.dir = url.dir
        /\ e.status = url.status /\ e.priority = url.priority
        /\ e.dueFrom = url.dueFrom /\ e.dueTo = url.dueTo
        /\ e.scope = IF url.scope = "open" THEN url.view ELSE url.scope
    BY <2>1, <2>2 DEF ExportQuery, ExportLink, Parameters
  <2>5. SameList(QueryOf(url), e)
    BY <2>1, <2>3, <2>4, QueryFields DEF SameList, Parsed
  <2>6. QED
    BY <2>2, <2>5, SameListFacts, ListQueryIs DEF MatchesNow
<1>2. QED
  BY <1>1, BrowseInvariant, PTL

\* parseDatePtr dates tasks and the two due filters at the same midnight, so the
\* list of one day is exact for every task that a form has dated.
THEOREM FormsDateByDay == FormSpec => []DueDayIsFound
<1>1. BrowseInv => DueDayIsFound
  <2> SUFFICES ASSUME BrowseInv, NEW t \in TaskId, NEW day \in 0 .. Day(Tomorrow) + 1,
                      tasks[t] # NoRow, tasks[t].wrote > 0, NEW scope,
                      scope = IF tasks[t].archived THEN "archived"
                              ELSE IF tasks[t].status = Done THEN "completed" ELSE "open"
               PROVE  Matches([Home EXCEPT !.scope = scope, !.dueFrom = day, !.dueTo = day],
                              tasks[t], tags[t].names)
                        <=> (tasks[t].due # NoDue /\ Day(tasks[t].due) = day)
    BY DEF DueDayIsFound
  <2>1. PICK row : row = tasks[t]
    OBVIOUS
  <2>2. row \in Row /\ DatedByDay(row) /\ row.wrote > 0
    BY <2>1 DEF BrowseInv, StateOK, TypeOK, TableOK, AllDated, Dated
  <2>3. row.archived \in BOOLEAN /\ row.status \in 0 .. Done /\ row.due \in Int \cup {NoDue} /\ row # NoRow
    BY <2>1, <2>2 DEF Row, Stamp
  <2>4. day \in Int /\ day # NoFilter /\ NoDue \notin Int
    <3>1. Day(Tomorrow) \in Nat
      BY DayFacts, ListAssumption
    <3>2. QED
      BY <3>1, NullAssumption DEF Stamp
  <2>5. PICK q : q = [Home EXCEPT !.scope = scope, !.dueFrom = day, !.dueTo = day]
    OBVIOUS
  <2>6. /\ q.scope = scope /\ q.dueFrom = day /\ q.dueTo = day /\ q.status = NoFilter /\ q.priority = NoFilter
        /\ q.tag = NoFilter /\ q.project = NoFilter /\ q.search = NoFilter
    BY <2>5 DEF Home
  <2>7. PICK names : names = tags[t].names
    OBVIOUS
  <2>8. Matches(q, row, names) <=>
          row.due # NoDue /\ row.due >= Midnight(day) /\ row.due <= Midnight(day)
    BY <2>1, <2>3, <2>4, <2>6 DEF Matches
  <2>9. row.due # NoDue => (Day(row.due) = day <=> row.due = Midnight(day))
    <3>1. row.due # NoDue => row.due = Midnight(row.due \div 2)
      BY <2>2, <2>3 DEF DatedByDay
    <3>2. QED
      BY <2>3, <2>4, <3>1, DayFacts DEF Day
  <2>10. row.due # NoDue => (row.due >= Midnight(day) /\ row.due <= Midnight(day) <=> row.due = Midnight(day))
    <3>1. PICK m \in Int, due \in Int \cup {NoDue} : m = Midnight(day) /\ due = row.due
      BY <2>3, <2>4, DayFacts
    <3>2. due # NoDue => (due >= m /\ due <= m <=> due = m)
      OBVIOUS
    <3>3. QED
      BY <3>1, <3>2
  <2>11. QED
    BY <2>1, <2>5, <2>7, <2>8, <2>9, <2>10
<1>2. QED
  BY <1>1, BrowseInvariant, PTL

\* An edit that taskToFormView has shown and taskWriteFromForm has parsed back
\* replaces what its user typed; the UPDATE stores the whole form, so this needs
\* that nobody wrote since the page read the row.  It also stores archived_at as
\* Update has read it before, which needs that nobody wrote since then.
THEOREM SavesWhatWasTyped == FormSpec => SaveChangesWhatWasTyped
<1> DEFINE Saves == step = "storing" /\ step' # "storing" /\ target # 0 /\ writes' # writes =>
          LET old == tasks[target]
              new == tasks'[target]
          IN  /\ new.created = old.created
              /\ current => new.archived = old.archived
              /\ fresh =>
                    /\ \A f \in {"status", "priority", "project", "words"} \ DOMAIN typed : new[f] = old[f]
                    /\ "names" \notin DOMAIN typed => tags'[target].names = tags[target].names
                    /\ "day" \notin DOMAIN typed =>
                          \/ old.due = NoDue /\ new.due = NoDue
                          \/ old.due # NoDue /\ new.due # NoDue /\ Day(new.due) = Day(old.due)
<1>1. BrowseInv /\ [FormNext]_<<vars, formVars>> => [Saves]_<<vars, formVars>>
  <2> SUFFICES ASSUME BrowseInv, [FormNext]_<<vars, formVars>>,
                      step = "storing", step' # "storing", target # 0, writes' # writes,
                      NEW old, NEW new, old = tasks[target], new = tasks'[target]
               PROVE  /\ new.created = old.created
                      /\ current => new.archived = old.archived
                      /\ fresh =>
                            /\ \A f \in {"status", "priority", "project", "words"} \ DOMAIN typed : new[f] = old[f]
                            /\ "names" \notin DOMAIN typed => tags'[target].names = tags[target].names
                            /\ "day" \notin DOMAIN typed =>
                                  \/ old.due = NoDue /\ new.due = NoDue
                                  \/ old.due # NoDue /\ new.due # NoDue /\ Day(new.due) = Day(old.due)
    OBVIOUS
  <2>1. StateOK /\ Store
    <3>1. ~ UNCHANGED tableVars /\ ~ UNCHANGED <<step, target, fields, typed, existing>>
      BY DEF tableVars
    <3>2. QED
      BY <3>1, TableSteps DEF BrowseInv
  <2>2. PICK t \in TaskId : t = target
    BY <2>1, TableAssumption DEF StateOK, FormOK, TaskId
  <2>3. PICK form : form = TaskWrite
    OBVIOUS
  <2>4. PICK at : Edit(t, form, existing, at)
    BY <2>1, <2>2, <2>3 DEF Store
  <2>5. /\ old \in Row /\ old # NoRow
        /\ tags[t].names \subseteq Name
        /\ new = Edited(t, form, existing, at) /\ tags'[t] = TagsOf(form, writes + 1)
    BY <2>1, <2>2, <2>4 DEF StateOK, TypeOK, TableOK, Edit, Live, Write
  <2>6. /\ new.archived = existing /\ new.created = old.created
        /\ new.status = form.status /\ new.priority = form.priority /\ new.project = form.project
        /\ new.words = form.words /\ new.due = form.due /\ tags'[t].names = form.names
    BY <2>2, <2>5 DEF Edited, RowOf, TagsOf
  <2>7. /\ form.status = fields.status /\ form.priority = fields.priority
        /\ form.project = fields.project /\ form.words = fields.words
        /\ form.names = ParseTagList(fields.names) /\ form.due = DueDate
        /\ fields.day \in Int \cup {NoDue}
    BY <2>1, <2>3, AcceptedInput
  <2>8. ASSUME fresh
        PROVE  /\ \A f \in {"status", "priority", "project", "words"} \ DOMAIN typed : new[f] = old[f]
               /\ "names" \notin DOMAIN typed => tags'[target].names = tags[target].names
               /\ "day" \notin DOMAIN typed =>
                     \/ old.due = NoDue /\ new.due = NoDue
                     \/ old.due # NoDue /\ new.due # NoDue /\ Day(new.due) = Day(old.due)
    <3>1. Kept(old, tags[t].names)
      BY <2>2, <2>8 DEF BrowseInv, Fresh
    <3>2. \A f \in {"status", "priority", "project", "words"} \ DOMAIN typed : new[f] = old[f]
      <4>1. \A f \in {"status", "priority", "project", "words"} : new[f] = fields[f]
        BY <2>6, <2>7
      <4>2. QED
        BY <3>1, <4>1 DEF Kept
    <3>3. ASSUME "names" \notin DOMAIN typed PROVE tags'[target].names = tags[target].names
      <4>1. fields.names = tags[t].names
        BY <3>1, <3>3 DEF Kept
      <4>2. ParseTagList(tags[t].names) = tags[t].names
        BY <2>5, NormalAssumption DEF ParseTagList
      <4>3. QED
        BY <2>2, <2>6, <2>7, <4>1, <4>2
    <3>4. ASSUME "day" \notin DOMAIN typed
          PROVE  \/ old.due = NoDue /\ new.due = NoDue
                 \/ old.due # NoDue /\ new.due # NoDue /\ Day(new.due) = Day(old.due)
      <4>1. fields.day = IF old.due = NoDue THEN NoDue ELSE Day(old.due)
        BY <3>1, <3>4 DEF Kept
      <4>2. old.due \in Int \cup {NoDue} /\ NoDue \notin Int
        BY <2>5, NullAssumption DEF Row, Stamp
      <4>3. new.due = IF fields.day = NoDue THEN NoDue ELSE Midnight(fields.day)
        BY <2>6, <2>7 DEF DueDate
      <4>4. CASE old.due = NoDue
        BY <4>1, <4>3, <4>4
      <4>5. CASE old.due # NoDue
        <5>1. PICK d \in Int : d = Day(old.due)
          BY <4>2, <4>5, DayFacts
        <5>2. new.due = Midnight(d)
          BY <4>1, <4>2, <4>3, <4>5, <5>1
        <5>3. QED
          BY <4>2, <4>5, <5>1, <5>2, DayFacts
      <4>6. QED
        BY <4>4, <4>5
    <3>5. QED
      BY <3>2, <3>3, <3>4
  <2>9. current => new.archived = old.archived
    BY <2>6 DEF BrowseInv, Existing
  <2>10. QED
    BY <2>6, <2>8, <2>9
<1>2. SaveChangesWhatWasTyped <=> [][Saves]_<<vars, formVars>>
  BY PTL DEF SaveChangesWhatWasTyped
<1> HIDE DEF Saves
<1>3. QED
  BY <1>1, <1>2, BrowseInvariant, PTL DEF FormSpec
==============================================================================
