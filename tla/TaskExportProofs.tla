-------------------------- MODULE TaskExportProofs --------------------------
(***************************************************************************)
(* Theorems about TaskExport.  While no write has moved a task into, out   *)
(* of or within what was read, the rows read are the first ones of the     *)
(* list as it is now (InOrder); a write that Disturbs does not see leaves  *)
(* them that, and the next page continues them.                            *)
(***************************************************************************)
EXTENDS TaskExport, TaskTableProofs

AllIds == [i \in 1 .. Len(all) |-> all[i].row.id]
ReadIds == AllIds \o Ids(batch)

GoodUrl == pc \in {"rows", "tags"} => ~ BadRequest(url)

TagsKnown ==
    /\ \A i \in 1 .. Len(batch) : batch[i].wrote <= tags[batch[i].id].wrote
    /\ TagsNotOlder

StayedMatch == \A t \in stayed : MatchesNow(t)

\* A statement's OFFSET is the number of rows read before it.
AtOffset ==
    /\ pc = "new" => all = <<>> /\ batch = <<>> /\ offset = 0
    /\ pc = "rows" => batch = <<>>
    /\ pc \in {"rows", "tags"} => offset = Len(all)

InOrder == pc \in {"rows", "tags"} /\ ~ disturbed => FirstOf(Query, ReadIds)

LastIsLast == pc = "tags" /\ ~ disturbed /\ Len(batch) < ExportPage => stayed \subseteq Read

ExportInv ==
    /\ TypeOK /\ TableInv
    /\ GoodUrl /\ TagsKnown /\ StayedMatch /\ AtOffset
    /\ InOrder /\ LastIsLast /\ UndisturbedIsComplete

------------------------------------------------------------------------------
(* The rows read *)

LEMMA ReadFacts ==
    ASSUME TypeOK
    PROVE  /\ AllIds \in Seq(TaskId) /\ Len(AllIds) = Len(all)
           /\ \A i \in 1 .. Len(all) : AllIds[i] = all[i].row.id
           /\ Ids(batch) \in Seq(TaskId) /\ Len(Ids(batch)) = Len(batch)
           /\ \A i \in 1 .. Len(batch) : Ids(batch)[i] = batch[i].id
           /\ ReadIds \in Seq(TaskId)
           /\ \A s : s \in Read <=> \E i \in 1 .. Len(ReadIds) : ReadIds[i] = s
<1>1. all \in Seq([row : Row, tagged : 0 .. MaxWrites]) /\ batch \in Seq(Row)
  BY DEF TypeOK
<1>2. ASSUME NEW i \in 1 .. Len(all) PROVE all[i].row.id \in TaskId
  <2>1. all[i] \in [row : Row, tagged : 0 .. MaxWrites]
    BY <1>1, ElementOfSeq
  <2>2. all[i].row \in Row
    BY <2>1
  <2>3. QED
    BY <2>2 DEF Row
<1>3. ASSUME NEW i \in 1 .. Len(batch) PROVE batch[i].id \in TaskId
  <2>1. batch[i] \in Row
    BY <1>1, ElementOfSeq
  <2>2. QED
    BY <2>1 DEF Row
<1>4. /\ AllIds \in Seq(TaskId) /\ Len(AllIds) = Len(all)
      /\ \A i \in 1 .. Len(all) : AllIds[i] = all[i].row.id
  BY <1>1, <1>2 DEF AllIds
<1>5. /\ Ids(batch) \in Seq(TaskId) /\ Len(Ids(batch)) = Len(batch)
      /\ \A i \in 1 .. Len(batch) : Ids(batch)[i] = batch[i].id
  BY <1>1, <1>3 DEF Ids
<1>6. /\ ReadIds \in Seq(TaskId)
      /\ Len(ReadIds) = Len(all) + Len(batch)
      /\ \A i \in 1 .. Len(all) + Len(batch) :
            ReadIds[i] = IF i <= Len(all) THEN AllIds[i] ELSE Ids(batch)[i - Len(all)]
  <2>1. PICK ids \in Seq(TaskId) : ids = Ids(batch)
    BY <1>5
  <2>2. PICK first \in Seq(TaskId) : first = AllIds
    BY <1>4
  <2>3. /\ first \o ids \in Seq(TaskId)
        /\ Len(first \o ids) = Len(first) + Len(ids)
        /\ \A i \in 1 .. Len(first) + Len(ids) :
              (first \o ids)[i] = IF i <= Len(first) THEN first[i] ELSE ids[i - Len(first)]
    BY ConcatProperties
  <2>4. QED
    BY <1>4, <1>5, <2>1, <2>2, <2>3 DEF ReadIds
<1>7. Len(all) \in Nat /\ Len(batch) \in Nat /\ DOMAIN all = 1 .. Len(all) /\ DOMAIN batch = 1 .. Len(batch)
  BY <1>1, LenProperties
<1>8. \A s : s \in Read <=> \/ \E i \in 1 .. Len(all) : all[i].row.id = s
                            \/ \E i \in 1 .. Len(batch) : batch[i].id = s
  BY <1>7 DEF Read, ToSet
<1>9. ASSUME NEW s, s \in Read PROVE \E i \in 1 .. Len(ReadIds) : ReadIds[i] = s
  <2>1. CASE \E i \in 1 .. Len(all) : all[i].row.id = s
    <3>1. PICK i \in 1 .. Len(all) : all[i].row.id = s
      BY <2>1
    <3>2. i \in 1 .. Len(ReadIds) /\ ReadIds[i] = s
      BY <1>4, <1>6, <1>7, <3>1
    <3>3. QED
      BY <3>2
  <2>2. CASE \E i \in 1 .. Len(batch) : batch[i].id = s
    <3>1. PICK i \in 1 .. Len(batch) : batch[i].id = s
      BY <2>2
    <3>2. Len(all) + i \in 1 .. Len(ReadIds) /\ ~ (Len(all) + i <= Len(all)) /\ (Len(all) + i) - Len(all) = i
      BY <1>6, <1>7
    <3>3. ReadIds[Len(all) + i] = s
      BY <1>5, <1>6, <3>1, <3>2
    <3>4. QED
      BY <3>2, <3>3
  <2>3. QED
    BY <1>8, <1>9, <2>1, <2>2
<1>10. ASSUME NEW i \in 1 .. Len(ReadIds) PROVE ReadIds[i] \in Read
  <2>1. CASE i <= Len(all)
    <3>1. i \in 1 .. Len(all) /\ ReadIds[i] = all[i].row.id
      BY <1>4, <1>6, <1>7, <2>1
    <3>2. QED
      BY <1>8, <3>1
  <2>2. CASE ~ (i <= Len(all))
    <3>1. i - Len(all) \in 1 .. Len(batch) /\ ReadIds[i] = batch[i - Len(all)].id
      BY <1>5, <1>6, <1>7, <2>2
    <3>2. QED
      BY <1>8, <3>1
  <2>3. QED
    BY <2>1, <2>2
<1>11. QED
  BY <1>4, <1>5, <1>6, <1>9, <1>10

\* An unfinished export is of a URL whose list has an order.
LEMMA QuerySorts ==
    ASSUME TypeOK, ~ BadRequest(url)
    PROVE  Sorts(Query)
<1>1. url \in Parameters
  BY UrlsAssumption DEF TypeOK
<1>2. url.sort # Bad /\ url.dir # Bad
  BY DEF BadRequest
<1>3. url.sort \in Columns /\ url.dir \in {"asc", "desc"}
  BY <1>1, <1>2 DEF Parameters
<1>4. Query.sort = url.sort /\ Query.dir = url.dir
  BY <1>1 DEF Query, ExportQuery, Parameters
<1>5. QED
  BY <1>3, <1>4 DEF Sorts

LEMMA SelectedIsListed == Selected = ListedRows(Query)
BY DEF Selected, ListedRows, Listed, MatchesNow

\* A write that does not disturb the export leaves what was read in front.
LEMMA UndisturbedWrite ==
    ASSUME TypeOK, TableInv, TableOK', NEW u \in TaskId, Commit(u),
           pc \in {"rows", "tags"}, ~ BadRequest(url), FirstOf(Query, ReadIds),
           ~ Disturbs(u, tasks'[u], tags'[u].names)
    PROVE  FirstIn(tasks', tags', Query, ReadIds)
<1> DEFINE q == Query
           read == ReadIds
           row == tasks'[u]
           names == tags'[u].names
           n == Len(read)
<1>1. Sorts(q)
  BY QuerySorts
<1>2. FirstIn(tasks, tags, q, read)
  BY FirstOfIsIn
<1>3. \A t \in TaskId : t # u => tasks'[t] = tasks[t] /\ tags'[t] = tags[t]
  BY DEF Commit
<1>4. \A t \in TaskId : /\ tasks[t] # NoRow => tasks[t] \in Row /\ tasks[t].id = t
                        /\ tasks'[t] # NoRow => tasks'[t] \in Row /\ tasks'[t].id = t
  BY DEF TableInv, TableOK
<1>5. \A i \in 1 .. n : read[i] \in Read
  BY ReadFacts
<1>6. \A i \in 1 .. n : read[i] \in TaskId /\ Matches(q, tasks[read[i]], tags[read[i]].names)
                        /\ tasks[read[i]] # NoRow
  BY <1>2 DEF FirstIn, Matches
<1> HIDE DEF q, read, n
<1>7. CASE SamePlace(tasks[u], tags[u].names, row, names)
  <2>1. \A t \in TaskId : Matches(q, tasks'[t], tags'[t].names) <=> Matches(q, tasks[t], tags[t].names)
    BY <1>3, <1>7 DEF SamePlace, q
  <2>2. \A t \in TaskId : Matches(q, tasks[t], tags[t].names) =>
           Key(q, tasks'[t]) = Key(q, tasks[t]) /\ tasks'[t].id = tasks[t].id
    <3>1. Matches(q, tasks[u], tags[u].names) => Key(q, row) = Key(q, tasks[u])
      BY <1>7 DEF SamePlace, q
    <3>2. Matches(q, tasks[u], tags[u].names) => tasks[u] # NoRow /\ row # NoRow
      BY <2>1 DEF Matches
    <3>3. QED
      BY <1>3, <1>4, <3>1, <3>2
  <2>3. \A s, t \in TaskId :
           Matches(q, tasks[s], tags[s].names) /\ Matches(q, tasks[t], tags[t].names) =>
              (Precedes(q, tasks'[s], tasks'[t]) <=> Precedes(q, tasks[s], tasks[t]))
    BY <2>2 DEF Precedes, KeyBefore
  <2>4. QED
    BY <1>2, <1>6, <2>1, <2>3 DEF FirstIn, n, q, read
<1>8. CASE ~ SamePlace(tasks[u], tags[u].names, row, names)
  <2>1. /\ ~ (MatchesNow(u) /\ Reached(tasks[u]))
        /\ ~ (Matches(q, row, names) /\ Reached(row))
    BY <1>8 DEF Disturbs, q
  <2>2. \A i \in 1 .. n : read[i] # u
    <3> SUFFICES ASSUME NEW i \in 1 .. n, read[i] = u PROVE FALSE
      OBVIOUS
    <3>1. MatchesNow(u) /\ tasks[u].id = u /\ u \in Read
      BY <1>4, <1>5, <1>6 DEF MatchesNow, q
    <3>2. QED
      BY <2>1, <3>1 DEF Reached
  <2>3. \A i \in 1 .. n : tasks'[read[i]] = tasks[read[i]] /\ tags'[read[i]] = tags[read[i]]
    BY <1>3, <1>6, <2>2
  <2>4. ASSUME Matches(q, row, names), NEW i \in 1 .. n
        PROVE  Precedes(q, tasks[read[i]], row)
    <3>1. ~ Precedes(q, row, tasks[read[i]])
      BY <1>5, <1>6, <2>1, <2>4 DEF Reached, q
    <3>2. row \in Row /\ row.id = u
      BY <1>4, <2>4 DEF Matches
    <3>3. tasks[read[i]] \in Row /\ tasks[read[i]].id = read[i] /\ read[i] # u
      BY <1>4, <1>6, <2>2
    <3>4. QED
      BY <1>1, <3>1, <3>2, <3>3, OrderIsTotal
  <2>5. \A i, j \in 1 .. n : i < j => Precedes(q, tasks'[read[i]], tasks'[read[j]])
    BY <1>2, <2>3 DEF FirstIn, n
  <2>6. \A i \in 1 .. n : read[i] \in TaskId /\ Matches(q, tasks'[read[i]], tags'[read[i]].names)
    BY <1>6, <2>3
  <2>7. ASSUME NEW t \in TaskId, Matches(q, tasks'[t], tags'[t].names),
               \A i \in 1 .. n : read[i] # t, NEW i \in 1 .. n
        PROVE  Precedes(q, tasks'[read[i]], tasks'[t])
    <3>1. CASE t = u
      BY <2>3, <2>4, <2>7, <3>1
    <3>2. CASE t # u
      BY <1>2, <1>3, <2>3, <2>7, <3>2 DEF FirstIn, n
    <3>3. QED
      BY <3>1, <3>2
  <2>8. QED
    BY <2>5, <2>6, <2>7 DEF FirstIn, n, q, read
<1>9. QED
  BY <1>7, <1>8
------------------------------------------------------------------------------
(* The steps *)

LEMMA ReadIsIds == TypeOK => \A s : s \in Read <=> \E i \in 1 .. Len(ReadIds) : ReadIds[i] = s
BY ReadFacts

LEMMA FirstOfAfter ==
    ASSUME Query' = Query, ReadIds' = ReadIds, FirstIn(tasks', tags', Query, ReadIds)
    PROVE  FirstOf(Query, ReadIds)'
BY DEF FirstOf, FirstIn, Listed

LEMMA ExportStarts == Init => ExportInv
<1> SUFFICES ASSUME Init PROVE ExportInv
  OBVIOUS
<1> USE DEF Init
<1>1. TableInv
  BY TableStarts
<1>2. TypeOK
  <2> DEFINE Entry == [row : Row, tagged : 0 .. MaxWrites]
  <2>1. batch \in Seq(Row) /\ Len(batch) = 0
    OBVIOUS
  <2> HIDE DEF Entry
  <2>2. all \in Seq(Entry)
    OBVIOUS
  <2>3. Len(batch) <= ExportPage
    BY <2>1, PageAssumption
  <2>4. /\ pc \in {"new", "rows", "tags", "done", "bad_request"} /\ url \in Urls /\ offset \in Nat
        /\ stayed \subseteq TaskId /\ disturbed \in BOOLEAN
    OBVIOUS
  <2> HIDE DEF Init
  <2>5. QED
    BY <1>1, <2>1, <2>2, <2>3, <2>4 DEF TypeOK, TableInv, Entry
<1>3. Len(all) = 0 /\ Len(batch) = 0 /\ ToSet(all) = {}
  BY DEF ToSet
<1>4. GoodUrl /\ TagsKnown /\ StayedMatch /\ AtOffset
  BY <1>3 DEF GoodUrl, TagsKnown, TagsNotOlder, StayedMatch, AtOffset
<1>5. InOrder /\ LastIsLast /\ UndisturbedIsComplete
  BY DEF InOrder, LastIsLast, UndisturbedIsComplete
<1>6. QED
  BY <1>1, <1>2, <1>4, <1>5 DEF ExportInv

LEMMA StartStep ==
    ASSUME ExportInv, Start
    PROVE  ExportInv'
<1> USE DEF ExportInv, Start
<1>1. TableInv'
  BY TableStays
<1>2. TypeOK'
  BY <1>1 DEF TypeOK, TableInv
<1>3. all = <<>> /\ batch = <<>> /\ offset = 0
  BY DEF AtOffset
<1>4. GoodUrl'
  BY DEF GoodUrl
<1>5. TagsKnown'
  BY DEF TagsKnown, TagsNotOlder, tableVars
<1>6. StayedMatch'
  BY DEF StayedMatch, MatchesNow, Query, tableVars
<1>7. AtOffset'
  BY <1>3 DEF AtOffset
<1>8. InOrder'
  <2>1. ReadIds = <<>>
    BY <1>3 DEF ReadIds, AllIds, Ids
  <2>2. ReadIds' = <<>>
    BY <1>3 DEF ReadIds, AllIds, Ids
  <2>3. Query' = Query
    BY DEF Query
  <2>4. FirstIn(tasks', tags', Query, ReadIds)
    BY <2>1 DEF FirstIn
  <2>5. FirstOf(Query, ReadIds)'
    BY <2>1, <2>2, <2>3, <2>4, FirstOfAfter
  <2>6. QED
    BY <2>5 DEF InOrder
<1>9. LastIsLast' /\ UndisturbedIsComplete'
  BY DEF LastIsLast, UndisturbedIsComplete
<1>10. QED
  BY <1>1, <1>2, <1>4, <1>5, <1>6, <1>7, <1>8, <1>9

LEMMA ReadRowsStep ==
    ASSUME ExportInv, ReadRows
    PROVE  ExportInv'
<1> USE DEF ExportInv, ReadRows
<1>1. TableInv'
  BY TableStays
<1>2. PICK o \in Orderings(Query, ListedRows(Query)) : batch' = PageOf(o, offset, PageLimit)
  BY SelectedIsListed
<1>3. PageLimit = ExportPage /\ ExportPage \in Nat \ {0}
  BY PageAssumption DEF PageLimit
<1>4. Sorts(Query) /\ TableOK /\ offset \in Nat
  BY QuerySorts DEF GoodUrl, TypeOK
<1>5. batch' \in Seq(ListedRows(Query)) /\ Len(batch') <= ExportPage
  BY <1>2, <1>3, <1>4, PageRows
<1>6. \A i \in 1 .. Len(batch') :
         batch'[i] \in Row /\ batch'[i].id \in TaskId /\ tasks[batch'[i].id] = batch'[i]
  <2> SUFFICES ASSUME NEW i \in 1 .. Len(batch')
               PROVE  batch'[i] \in Row /\ batch'[i].id \in TaskId /\ tasks[batch'[i].id] = batch'[i]
    OBVIOUS
  <2>1. batch'[i] \in ListedRows(Query)
    BY <1>5, ElementOfSeq
  <2>2. QED
    BY <1>4, <2>1, ListedAreRows
<1>7. batch' \in Seq(Row)
  BY <1>5, <1>6
<1>8. TypeOK'
  BY <1>1, <1>5, <1>7 DEF TypeOK, TableInv
<1>9. TagsKnown'
  <2>1. \A i \in 1 .. Len(batch') : batch'[i].wrote <= tags[batch'[i].id].wrote
    <3> SUFFICES ASSUME NEW i \in 1 .. Len(batch')
                 PROVE  batch'[i].wrote <= tags[batch'[i].id].wrote
      OBVIOUS
    <3>1. tasks[batch'[i].id] # NoRow
      BY <1>6, NullAssumption
    <3>2. QED
      BY <1>6, <3>1 DEF TableInv, TagsCurrent
  <2>2. QED
    BY <2>1 DEF TagsKnown, TagsNotOlder, tableVars
<1>10. GoodUrl' /\ StayedMatch' /\ AtOffset'
  BY DEF GoodUrl, StayedMatch, MatchesNow, Query, AtOffset, tableVars
\* Undisturbed, the page continues what was read.
<1>11. ASSUME ~ disturbed
       PROVE  /\ FirstOf(Query, ReadIds)'
              /\ Len(batch') < ExportPage => stayed' \subseteq Read'
  <2>1. AllIds \in Seq(TaskId) /\ Len(AllIds) = offset
    BY ReadFacts DEF AtOffset
  <2>2. ReadIds = AllIds
    <3>1. Ids(batch) = <<>>
      BY DEF AtOffset, Ids
    <3>2. QED
      BY <2>1, <3>1 DEF ReadIds
  <2>3. FirstOf(Query, AllIds)
    BY <1>11, <2>2 DEF InOrder
  <2> DEFINE page == batch'
             both == AllIds \o Ids(page)
  <2>4. page = PageOf(o, Len(AllIds), ExportPage)
    BY <1>2, <1>3, <2>1
  <2> HIDE DEF page
  <2>5. /\ FirstOf(Query, both)
        /\ Len(page) < ExportPage =>
              \A t \in Listed(Query) : \E i \in 1 .. Len(both) : both[i] = t
    BY <1>2, <1>3, <1>4, <2>1, <2>3, <2>4, NextPage
  <2>6. ReadIds' = both
    BY DEF ReadIds, AllIds, page
  <2> HIDE DEF both
  <2>7. FirstIn(tasks, tags, Query, both)
    BY <2>5, FirstOfIsIn
  <2>8. FirstOf(Query, ReadIds)'
    <3>1. Query' = Query
      BY DEF Query
    <3>2. FirstIn(tasks', tags', Query, both)
      BY <2>7 DEF tableVars
    <3>3. QED
      BY <2>6, <3>1, <3>2 DEF FirstOf, FirstIn, Listed
  <2>9. ASSUME Len(page) < ExportPage, NEW t \in stayed' PROVE t \in Read'
    <3>1. t \in Listed(Query)
      BY <2>9 DEF StayedMatch, MatchesNow, Listed, TypeOK
    <3>2. \E i \in 1 .. Len(both) : both[i] = t
      BY <2>5, <2>9, <3>1
    <3>3. (\A s : s \in Read <=> \E i \in 1 .. Len(ReadIds) : ReadIds[i] = s)'
      BY <1>8, ReadIsIds, PTL
    <3>4. QED
      BY <2>6, <3>2, <3>3
  <2>10. QED
    BY <2>8, <2>9 DEF page
<1>12. InOrder' /\ LastIsLast'
  BY <1>11 DEF InOrder, LastIsLast
<1>13. UndisturbedIsComplete'
  <2>1. batch' = <<>> => Len(batch') < ExportPage
    BY <1>3
  <2>2. QED
    BY <1>11, <2>1 DEF UndisturbedIsComplete
<1>14. QED
  BY <1>1, <1>8, <1>9, <1>10, <1>12, <1>13

LEMMA ReadTagsStep ==
    ASSUME ExportInv, ReadTags
    PROVE  ExportInv'
<1> USE DEF ExportInv
<1>0. /\ pc = "tags" /\ batch' = <<>>
      /\ IF Len(batch) < ExportPage
           THEN pc' = "done" /\ UNCHANGED offset
           ELSE pc' = "rows" /\ offset' = offset + ExportPage
      /\ UNCHANGED <<tableVars, url, stayed, disturbed>>
  BY DEF ReadTags
<1> USE <1>0
<1> DEFINE Entry == [row : Row, tagged : 0 .. MaxWrites]
<1>1. TableInv'
  BY TableStays
<1>2. /\ all \in Seq(Entry) /\ batch \in Seq(Row) /\ Len(batch) <= ExportPage
      /\ offset = Len(all) /\ ExportPage \in Nat \ {0}
  BY PageAssumption DEF TypeOK, AtOffset
<1>3. ASSUME NEW i \in 1 .. Len(batch)
      PROVE  WithTags[i] \in Entry /\ WithTags[i].row = batch[i]
             /\ WithTags[i].tagged = tags[batch[i].id].wrote
  <2>1. batch[i] \in Row
    BY <1>2, ElementOfSeq
  <2>2. batch[i].id \in TaskId
    BY <2>1 DEF Row
  <2>3. tags[batch[i].id].wrote \in 0 .. MaxWrites
    BY <2>2 DEF TypeOK, TableOK
  <2>4. QED
    BY <2>1, <2>3 DEF WithTags
<1> HIDE DEF Entry
<1>4. WithTags \in Seq(Entry) /\ Len(WithTags) = Len(batch)
  BY <1>2, <1>3 DEF WithTags
<1>5. PICK more \in Seq(Entry) : more = WithTags
  BY <1>4
<1>6. /\ all' \in Seq(Entry)
      /\ Len(all') = Len(all) + Len(batch)
      /\ \A i \in 1 .. Len(all) + Len(batch) :
            all'[i] = IF i <= Len(all) THEN all[i] ELSE WithTags[i - Len(all)]
  <2>1. /\ all \o more \in Seq(Entry)
        /\ Len(all \o more) = Len(all) + Len(more)
        /\ \A i \in 1 .. Len(all) + Len(more) :
              (all \o more)[i] = IF i <= Len(all) THEN all[i] ELSE more[i - Len(all)]
    BY <1>2, ConcatProperties
  <2>2. QED
    BY <1>4, <1>5, <2>1 DEF ReadTags
<1>7. Len(all) \in Nat /\ Len(batch) \in Nat /\ batch' = <<>> /\ Len(batch') = 0
  BY <1>2
<1>8. TypeOK'
  <2>1. offset' \in Nat /\ pc' \in {"rows", "done"}
    BY <1>2 DEF TypeOK
  <2>2. batch' \in Seq(Row)
    BY <1>7
  <2>3. QED
    BY <1>1, <1>2, <1>6, <1>7, <2>1, <2>2 DEF TypeOK, TableInv, Entry
\* An entry of all' is one of all or of this page.
<1>9. \A i \in 1 .. Len(all') :
         \/ i \in 1 .. Len(all) /\ all'[i] = all[i]
         \/ /\ i - Len(all) \in 1 .. Len(batch) /\ ~ (i <= Len(all))
            /\ all'[i] = WithTags[i - Len(all)]
  BY <1>6, <1>7
<1>10. TagsKnown'
  <2>1. ASSUME NEW i \in 1 .. Len(all') PROVE all'[i].tagged >= all'[i].row.wrote
    <3>1. CASE i \in 1 .. Len(all) /\ all'[i] = all[i]
      <4>1. all[i] \in ToSet(all)
        BY <1>2, <3>1 DEF ToSet
      <4>2. QED
        BY <3>1, <4>1 DEF TagsKnown, TagsNotOlder
    <3>2. ASSUME NEW j \in 1 .. Len(batch), all'[i] = WithTags[j]
          PROVE  all'[i].tagged >= all'[i].row.wrote
      <4>1. batch[j].wrote <= tags[batch[j].id].wrote
        BY DEF TagsKnown
      <4>2. all'[i].row = batch[j] /\ all'[i].tagged = tags[batch[j].id].wrote
        BY <1>3, <3>2
      <4>3. QED
        BY <4>1, <4>2
    <3>3. QED
      BY <1>9, <3>1, <3>2
  <2>2. TagsNotOlder'
    BY <1>6, <2>1 DEF TagsNotOlder, ToSet
  <2>3. QED
    BY <1>7, <2>2 DEF TagsKnown
<1>11. GoodUrl' /\ StayedMatch'
  BY DEF GoodUrl, StayedMatch, MatchesNow, Query, tableVars
<1>12. AtOffset'
  <2>1. pc' = "rows" => offset' = Len(all')
    <3>1. Len(all') = Len(all) + Len(batch) /\ offset = Len(all) /\ Len(batch) <= ExportPage
      BY <1>2, <1>6
    <3>2. pc' = "rows" => ~ (Len(batch) < ExportPage) /\ offset' = offset + ExportPage
      OBVIOUS
    <3>3. \A k, e \in Nat : k <= e /\ ~ (k < e) => k = e
      OBVIOUS
    <3>4. pc' = "rows" => Len(batch) = ExportPage
      BY <1>2, <1>7, <3>1, <3>2, <3>3
    <3>5. QED
      BY <3>1, <3>2, <3>4
  <2>2. QED
    BY <1>7, <2>1 DEF AtOffset
<1>13. ReadIds' = ReadIds
  <2>1. /\ AllIds \in Seq(TaskId) /\ Len(AllIds) = Len(all)
        /\ \A i \in 1 .. Len(all) : AllIds[i] = all[i].row.id
        /\ Ids(batch) \in Seq(TaskId) /\ Len(Ids(batch)) = Len(batch)
        /\ \A i \in 1 .. Len(batch) : Ids(batch)[i] = batch[i].id
    BY ReadFacts
  <2>2. PICK first \in Seq(TaskId), ids \in Seq(TaskId) : first = AllIds /\ ids = Ids(batch)
    BY <2>1
  <2>3. /\ ReadIds \in Seq(TaskId)
        /\ Len(ReadIds) = Len(all) + Len(batch)
        /\ \A i \in 1 .. Len(all) + Len(batch) :
              ReadIds[i] = IF i <= Len(all) THEN AllIds[i] ELSE Ids(batch)[i - Len(all)]
    <3>1. /\ first \o ids \in Seq(TaskId)
          /\ Len(first \o ids) = Len(first) + Len(ids)
          /\ \A i \in 1 .. Len(first) + Len(ids) :
                (first \o ids)[i] = IF i <= Len(first) THEN first[i] ELSE ids[i - Len(first)]
      BY ConcatProperties
    <3>2. QED
      BY <2>1, <2>2, <3>1 DEF ReadIds
  <2>4. ASSUME NEW i \in 1 .. Len(all') PROVE all'[i].row.id = ReadIds[i]
    <3>1. CASE i \in 1 .. Len(all) /\ all'[i] = all[i]
      BY <1>6, <1>7, <2>1, <2>3, <3>1
    <3>2. CASE i - Len(all) \in 1 .. Len(batch) /\ ~ (i <= Len(all)) /\ all'[i] = WithTags[i - Len(all)]
      <4>1. all'[i].row.id = batch[i - Len(all)].id
        BY <1>3, <3>2
      <4>2. ReadIds[i] = Ids(batch)[i - Len(all)]
        BY <1>6, <2>3, <3>2
      <4>3. QED
        BY <2>1, <3>2, <4>1, <4>2
    <3>3. QED
      BY <1>9, <3>1, <3>2
  <2>5. AllIds' = [i \in 1 .. Len(all') |-> ReadIds[i]]
    BY <2>4 DEF AllIds
  <2>6. AllIds' = ReadIds
    <3> DEFINE n == Len(all')
               again == [i \in 1 .. n |-> ReadIds[i]]
    <3>1. n = Len(ReadIds) /\ n \in Nat
      BY <1>6, <1>7, <2>3
    <3> HIDE DEF n
    <3>2. \A i \in 1 .. n : ReadIds[i] \in TaskId
      BY <2>3, <3>1, ElementOfSeq
    <3>3. again \in Seq(TaskId) /\ Len(again) = n /\ \A i \in 1 .. n : again[i] = ReadIds[i]
      BY <3>1, <3>2
    <3> HIDE DEF again
    <3>4. again = ReadIds
      BY <2>3, <3>1, <3>3, SeqEqual
    <3>5. QED
      BY <2>5, <3>4 DEF again, n
  <2>7. ReadIds' = AllIds' \o Ids(batch')
    BY DEF ReadIds, Ids
  <2>8. Ids(batch') = <<>>
    BY <1>7 DEF Ids
  <2>9. QED
    BY <2>3, <2>6, <2>7, <2>8, ConcatEmptySeq
<1>14. InOrder'
  <2>1. CASE pc' = "rows" /\ ~ disturbed'
    <3>1. FirstOf(Query, ReadIds)
      BY <2>1 DEF InOrder
    <3>2. Query' = Query
      BY DEF Query
    <3>3. FirstIn(tasks', tags', Query, ReadIds)
      BY <3>1, FirstOfIsIn DEF tableVars
    <3>4. QED
      BY <1>13, <3>2, <3>3, FirstOfAfter DEF InOrder
  <2>2. QED
    BY <2>1 DEF InOrder
<1>15. UndisturbedIsComplete'
  <2>1. \A s : s \in Read <=> \E i \in 1 .. Len(ReadIds) : ReadIds[i] = s
    BY ReadIsIds
  <2>2. (\A s : s \in Read <=> \E i \in 1 .. Len(ReadIds) : ReadIds[i] = s)'
    BY <1>8, ReadIsIds, PTL
  <2>3. \A s : s \in Read' <=> s \in Read
    BY <1>13, <2>1, <2>2
  <2>4. pc' = "done" /\ ~ disturbed' => stayed \subseteq Read
    BY DEF LastIsLast
  <2>5. QED
    BY <2>3, <2>4 DEF UndisturbedIsComplete
<1>16. LastIsLast'
  BY DEF LastIsLast
<1>17. QED
  BY <1>1, <1>8, <1>10, <1>11, <1>12, <1>14, <1>15, <1>16

LEMMA FailStep ==
    ASSUME ExportInv, Fail
    PROVE  ExportInv'
<1> USE DEF ExportInv, Fail
<1>1. TableInv'
  BY TableStays
<1>2. TypeOK'
  BY <1>1 DEF TypeOK, TableInv
<1>3. GoodUrl' /\ TagsKnown' /\ StayedMatch' /\ AtOffset'
  BY DEF GoodUrl, TagsKnown, TagsNotOlder, StayedMatch, MatchesNow, Query, AtOffset, tableVars
<1>4. InOrder' /\ LastIsLast' /\ UndisturbedIsComplete'
  BY DEF InOrder, LastIsLast, UndisturbedIsComplete
<1>5. QED
  BY <1>1, <1>2, <1>3, <1>4

\* The write of another request: what it does to the table, then to the histories.
LEMMA ChangeStep ==
    ASSUME ExportInv, Change
    PROVE  ExportInv'
<1> USE DEF ExportInv
<1>1. PICK u \in TaskId : TableInv' /\ Commit(u)
  BY AnyWriteCommits, StampsAssumption DEF Change
<1>2. /\ pc' = pc /\ url' = url /\ offset' = offset /\ batch' = batch /\ all' = all
      /\ stayed' = {t \in stayed : Matches(Query, tasks'[t], tags'[t].names)}
      /\ disturbed' = (disturbed \/ \E t \in TaskId : Disturbs(t, tasks'[t], tags'[t].names))
  BY DEF Change, readVars
<1>3. Query' = Query /\ AllIds' = AllIds /\ ReadIds' = ReadIds /\ Read' = Read
  BY <1>2 DEF Query, AllIds, ReadIds, Ids, Read
<1>4. stayed' \subseteq stayed /\ (~ disturbed' => ~ disturbed)
  BY <1>2
<1>5. TypeOK'
  <2>1. disturbed' \in BOOLEAN
    BY <1>2
  <2>2. QED
    BY <1>1, <1>2, <1>4, <2>1 DEF TypeOK, TableInv
<1>6. GoodUrl' /\ AtOffset'
  BY <1>2 DEF GoodUrl, AtOffset
<1>7. TagsKnown'
  <2>1. \A t \in TaskId : tags[t].wrote <= tags'[t].wrote
    <3>1. \A t \in TaskId : tags[t].wrote <= writes /\ tags[t].wrote \in Int /\ writes \in Int
      BY TableAssumption DEF TableInv, TableOK
    <3>2. tags'[u].wrote \in {tags[u].wrote, writes + 1} /\ \A t \in TaskId \ {u} : tags'[t] = tags[t]
      BY <1>1 DEF Commit
    <3>3. QED
      BY <3>1, <3>2
  <2>2. ASSUME NEW i \in 1 .. Len(batch) PROVE batch[i].wrote <= tags'[batch[i].id].wrote
    <3>1. batch[i] \in Row
      BY ElementOfSeq DEF TypeOK
    <3>2. batch[i].id \in TaskId /\ batch[i].wrote \in Int
      BY <3>1 DEF Row
    <3>3. tags[batch[i].id].wrote \in Int /\ tags'[batch[i].id].wrote \in Int
      BY <1>1, <3>2 DEF TableInv, TableOK
    <3>4. QED
      BY <2>1, <3>2, <3>3 DEF TagsKnown
  <2>3. QED
    BY <1>2, <2>2 DEF TagsKnown, TagsNotOlder
<1>8. StayedMatch'
  BY <1>2, <1>3 DEF StayedMatch, MatchesNow
<1>9. InOrder'
  <2> SUFFICES ASSUME pc \in {"rows", "tags"}, ~ disturbed' PROVE FirstOf(Query, ReadIds)'
    BY <1>2 DEF InOrder
  <2>1. ~ Disturbs(u, tasks'[u], tags'[u].names)
    BY <1>2
  <2>2. FirstOf(Query, ReadIds) /\ ~ BadRequest(url)
    BY <1>4 DEF InOrder, GoodUrl
  <2>3. FirstIn(tasks', tags', Query, ReadIds)
    BY <1>1, <2>1, <2>2, UndisturbedWrite DEF TableInv
  <2>4. QED
    BY <1>3, <2>3, FirstOfAfter
<1>10. LastIsLast' /\ UndisturbedIsComplete'
  BY <1>2, <1>3, <1>4 DEF LastIsLast, UndisturbedIsComplete
<1>11. QED
  BY <1>1, <1>5, <1>6, <1>7, <1>8, <1>9, <1>10

LEMMA ExportUnchanged ==
    ASSUME ExportInv, UNCHANGED vars
    PROVE  ExportInv'
<1> USE DEF ExportInv, vars
<1>1. TableInv'
  BY TableStays DEF tableVars
<1>2. TypeOK'
  BY <1>1 DEF TypeOK, TableInv
<1>3. GoodUrl' /\ TagsKnown' /\ StayedMatch' /\ AtOffset'
  BY DEF GoodUrl, TagsKnown, TagsNotOlder, StayedMatch, MatchesNow, Query, AtOffset
<1>4. Query' = Query /\ ReadIds' = ReadIds /\ Read' = Read
  BY DEF Query, ReadIds, AllIds, Ids, Read
<1>5. InOrder'
  <2>1. CASE pc \in {"rows", "tags"} /\ ~ disturbed
    <3>1. FirstIn(tasks', tags', Query, ReadIds)
      BY <2>1, FirstOfIsIn DEF InOrder
    <3>2. QED
      BY <1>4, <3>1, FirstOfAfter DEF InOrder
  <2>2. QED
    BY <2>1 DEF InOrder
<1>6. LastIsLast' /\ UndisturbedIsComplete'
  BY <1>4 DEF LastIsLast, UndisturbedIsComplete
<1>7. QED
  BY <1>1, <1>2, <1>3, <1>5, <1>6

LEMMA ExportStep == ExportInv /\ [Next]_vars => ExportInv'
BY StartStep, ReadRowsStep, ReadTagsStep, FailStep, ChangeStep, ExportUnchanged
   DEF Next, Export, Quiesced

LEMMA ExportInvariant == Spec => []ExportInv
BY ExportStarts, ExportStep, PTL DEF Spec

------------------------------------------------------------------------------
(* The theorems *)

\* What an export holds has its type whatever the others write meanwhile: a
\* page has no more rows than ListAllMatching asks for (app/tasks.go).
THEOREM ExportTypeCorrect == Spec => []TypeOK
<1>1. ExportInv => TypeOK
  BY DEF ExportInv
<1>2. QED
  BY <1>1, ExportInvariant, PTL

\* ListAllMatching's OFFSETs take up where the statements before ended: the
\* rows read are the first of the list, in its order, each once, as long as no
\* write moved a task into, out of or within what was read.
THEOREM ExportReadsInOrder == Spec => []ReadsFirstRows
<1>1. ASSUME ExportInv PROVE ReadsFirstRows
  <2> SUFFICES ASSUME pc \in {"rows", "tags"}, ~ disturbed
               PROVE  /\ \A i, j \in DOMAIN ReadIds : i < j =>
                            Precedes(Query, tasks[ReadIds[i]], tasks[ReadIds[j]])
                      /\ \A i \in DOMAIN ReadIds : MatchesNow(ReadIds[i])
                      /\ \A t \in TaskId : MatchesNow(t) /\ t \notin Read =>
                            \A s \in Read : Precedes(Query, tasks[s], tasks[t])
    BY DEF ReadsFirstRows, ReadIds, AllIds, Ids
  <2>1. FirstIn(tasks, tags, Query, ReadIds)
    BY <1>1, FirstOfIsIn DEF ExportInv, InOrder
  <2>2. /\ ReadIds \in Seq(TaskId)
        /\ \A s : s \in Read <=> \E i \in 1 .. Len(ReadIds) : ReadIds[i] = s
    BY <1>1, ReadFacts DEF ExportInv
  <2>3. DOMAIN ReadIds = 1 .. Len(ReadIds)
    BY <2>2, LenProperties
  <2>4. ASSUME NEW t \in TaskId, MatchesNow(t), t \notin Read, NEW s \in Read
        PROVE  Precedes(Query, tasks[s], tasks[t])
    BY <2>1, <2>2, <2>4 DEF FirstIn, MatchesNow
  <2>5. QED
    BY <2>1, <2>3, <2>4 DEF FirstIn, MatchesNow
<1>2. ExportInv => ReadsFirstRows
  BY <1>1
<1>3. QED
  BY <1>2, ExportInvariant, PTL

\* An export whose list no write rearranged holds every task that matched all
\* the time: no page of ListAllMatching skips one.
THEOREM UndisturbedExportComplete == Spec => []UndisturbedIsComplete
<1>1. ExportInv => UndisturbedIsComplete
  BY DEF ExportInv
<1>2. QED
  BY <1>1, ExportInvariant, PTL

\* The second statement of a page, loadTagsForTasks, never finds tags that are
\* older than the row it finds them for, whatever was written between the two.
THEOREM ExportTagsNotOlder == Spec => []TagsNotOlder
<1>1. ExportInv => TagsNotOlder
  BY DEF ExportInv, TagsKnown
<1>2. QED
  BY <1>1, ExportInvariant, PTL
==============================================================================
