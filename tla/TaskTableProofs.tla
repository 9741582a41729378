-------------------------- MODULE TaskTableProofs --------------------------
(***************************************************************************)
(* Lemmas about the table of tasks and its lists: what a write changes,    *)
(* that ORDER BY leaves no ties, and that a page by OFFSET takes up where  *)
(* the rows read before it end.                                            *)
(***************************************************************************)
EXTENDS TaskTable, FiniteSetTheorems, SequenceTheorems, TLAPS

\* The tags of a task are those of the write of its row or of a later one.
TagsCurrent == \A t \in TaskId : tasks[t] # NoRow => tasks[t].wrote <= tags[t].wrote

TableInv == TableOK /\ TagsCurrent /\ \A t \in TaskId : tags[t].wrote <= writes

------------------------------------------------------------------------------
(* Writes *)

LEMMA SavedRow ==
    ASSUME NEW t \in TaskId, t <= Len(Saved)
    PROVE  /\ RowOf(t, Saved[t], Saved[t].created, FALSE, 0, Saved[t].updated) \in Row
           /\ TagsOf(Saved[t], 0) \in [names : SUBSET Name, wrote : 0 .. MaxWrites]
<1>1. t \in 1 .. Len(Saved)
  BY TableAssumption DEF TaskId
<1>2. Saved[t] \in SavedInput
  BY <1>1, SavedAssumption, ElementOfSeq
<1> DEFINE saved == Saved[t]
<1>3. /\ saved.status \in 0 .. Done /\ saved.priority \in Int /\ saved.due \in Stamp \cup {NoDue}
      /\ saved.project \in Project /\ saved.words \in SUBSET Word /\ saved.names \in SUBSET Name
      /\ saved.created \in Stamp /\ saved.updated \in Stamp
  BY <1>2 DEF SavedInput
<1>4. 0 \in 0 .. MaxWrites
  BY TableAssumption
<1> HIDE DEF saved
<1>5. /\ RowOf(t, saved, saved.created, FALSE, 0, saved.updated) \in Row
      /\ TagsOf(saved, 0) \in [names : SUBSET Name, wrote : 0 .. MaxWrites]
  BY <1>3, <1>4 DEF RowOf, TagsOf, Row
<1>6. QED
  BY <1>5 DEF saved

LEMMA TableStarts == TableInit => TableInv
<1> SUFFICES ASSUME TableInit PROVE TableInv
  OBVIOUS
<1>1. Len(Saved) \in Nat
  BY SavedAssumption
<1>2. ASSUME NEW t \in TaskId
      PROVE  /\ tasks[t] \in Row \cup {NoRow}
             /\ tags[t] \in [names : SUBSET Name, wrote : 0 .. MaxWrites]
             /\ tags[t].wrote = 0
             /\ tasks[t] # NoRow => tasks[t].id = t /\ t < nextId /\ tasks[t].wrote = 0
  <2>1. CASE t <= Len(Saved)
    BY <1>1, <2>1, SavedRow, TableAssumption DEF TableInit, RowOf, TagsOf, TaskId
  <2>2. CASE ~ (t <= Len(Saved))
    BY <2>2, TableAssumption DEF TableInit, NoTags
  <2>3. QED
    BY <2>1, <2>2
<1>3. DOMAIN tasks = TaskId /\ DOMAIN tags = TaskId
  BY DEF TableInit
<1>4. nextId \in 1 .. MaxTask + 1 /\ writes = 0
  BY <1>1, TableAssumption DEF TableInit
<1>5. tasks \in [TaskId -> Row \cup {NoRow}]
      /\ tags \in [TaskId -> [names : SUBSET Name, wrote : 0 .. MaxWrites]]
  BY <1>2 DEF TableInit
<1>6. QED
  BY <1>2, <1>4, <1>5, TableAssumption DEF TableInv, TableOK, TagsCurrent

LEMMA TableStays == TableInv /\ UNCHANGED tableVars => TableInv'
BY DEF TableInv, TableOK, TagsCurrent, tableVars

\* What a commit does to the table.
Commit(u) ==
    /\ writes' = writes + 1
    /\ \A t \in TaskId \ {u} : tasks'[t] = tasks[t] /\ tags'[t] = tags[t]
    /\ tags'[u].wrote \in {tags[u].wrote, writes + 1}
    /\ tasks'[u] # NoRow => tasks'[u].id = u

LEMMA WriteCommits ==
    ASSUME TableInv, NEW u \in TaskId, NEW row \in Row \cup {NoRow},
           NEW tagged \in [names : SUBSET Name, wrote : 0 .. MaxWrites],
           Write(u, row, tagged),
           tagged.wrote \in {tags[u].wrote, writes + 1},
           row # NoRow => row.id = u /\ row.wrote <= tagged.wrote /\ u < nextId',
           nextId' \in 1 .. MaxTask + 1, nextId <= nextId'
    PROVE  TableInv' /\ Commit(u)
<1> USE DEF TableInv, TableOK
<1>1. /\ tasks' \in [TaskId -> Row \cup {NoRow}]
      /\ tags' \in [TaskId -> [names : SUBSET Name, wrote : 0 .. MaxWrites]]
      /\ tasks'[u] = row /\ tags'[u] = tagged
      /\ \A t \in TaskId \ {u} : tasks'[t] = tasks[t] /\ tags'[t] = tags[t]
  BY DEF Write
<1>2. writes' = writes + 1 /\ writes \in Nat /\ writes' \in 0 .. MaxWrites
  BY TableAssumption DEF Write
<1>3. Commit(u)
  BY <1>1, <1>2 DEF Commit
<1>4. \A t \in TaskId : tags'[t].wrote <= writes'
  <2>1. \A t \in TaskId : tags[t].wrote \in Int /\ tags[t].wrote <= writes
    BY TableAssumption
  <2>2. QED
    BY <1>1, <1>2, <2>1
<1>5. \A t \in TaskId : tasks'[t] # NoRow => tasks'[t].wrote <= tags'[t].wrote
  BY <1>1 DEF TagsCurrent
<1>6. \A t \in TaskId : tasks'[t] # NoRow => tasks'[t].id = t /\ t < nextId'
  BY <1>1, TableAssumption DEF TaskId
<1>7. QED
  BY <1>1, <1>2, <1>3, <1>4, <1>5, <1>6 DEF TagsCurrent

LEMMA CreateCommits ==
    ASSUME TableInv, NEW form \in TaskInput, NEW at \in Stamp, Create(form, at)
    PROVE  \E u \in TaskId : TableInv' /\ Commit(u)
<1> USE DEF TableInv, TableOK
<1>1. nextId \in TaskId /\ nextId' = nextId + 1 /\ writes \in Nat /\ writes + 1 \in 0 .. MaxWrites
  BY TableAssumption DEF Create, Write, TaskId
<1> DEFINE row == RowOf(nextId, form, at, FALSE, writes + 1, at)
           tagged == TagsOf(form, writes + 1)
<1>2. row \in Row /\ row.id = nextId /\ row.wrote = writes + 1
  BY <1>1 DEF RowOf, Row, TaskInput
<1>3. tagged \in [names : SUBSET Name, wrote : 0 .. MaxWrites] /\ tagged.wrote = writes + 1
  BY <1>1 DEF TagsOf, TaskInput
<1>4. Write(nextId, row, tagged)
  BY DEF Create
<1>5. nextId' \in 1 .. MaxTask + 1 /\ nextId <= nextId' /\ nextId < nextId'
  BY <1>1, TableAssumption DEF TaskId
<1> HIDE DEF row, tagged
<1>6. QED
  BY <1>1, <1>2, <1>3, <1>4, <1>5, WriteCommits

LEMMA EditCommits ==
    ASSUME TableInv, NEW t \in TaskId, NEW form \in TaskInput, NEW archived \in BOOLEAN, NEW at \in Stamp,
           Edit(t, form, archived, at)
    PROVE  TableInv' /\ Commit(t)
<1> USE DEF TableInv, TableOK
<1>1. writes \in Nat /\ writes + 1 \in 0 .. MaxWrites /\ nextId' = nextId
  BY TableAssumption DEF Edit, Write
<1>2. tasks[t] \in Row /\ t < nextId
  BY DEF Edit, Live
<1> DEFINE row == Edited(t, form, archived, at)
           tagged == TagsOf(form, writes + 1)
<1>3. row \in Row /\ row.id = t /\ row.wrote = writes + 1
  BY <1>1, <1>2 DEF Edited, RowOf, Row, TaskInput
<1>4. tagged \in [names : SUBSET Name, wrote : 0 .. MaxWrites] /\ tagged.wrote = writes + 1
  BY <1>1 DEF TagsOf, TaskInput
<1>5. Write(t, row, tagged)
  BY DEF Edit
<1>6. nextId <= nextId'
  BY <1>1, TableAssumption
<1> HIDE DEF row, tagged
<1>7. QED
  BY <1>1, <1>2, <1>3, <1>4, <1>5, <1>6, WriteCommits

\* A change of the row that leaves its id, its tags and its write.
LEMMA RowCommits ==
    ASSUME TableInv, NEW t \in TaskId, NEW row \in Row, Live(t),
           row.id = tasks[t].id, row.wrote = tasks[t].wrote,
           Write(t, row, tags[t]), UNCHANGED nextId
    PROVE  TableInv' /\ Commit(t)
<1>1. tags[t] \in [names : SUBSET Name, wrote : 0 .. MaxWrites]
  BY DEF TableInv, TableOK
<1>2. row.id = t /\ row.wrote <= tags[t].wrote /\ t < nextId'
  BY DEF TableInv, TableOK, TagsCurrent, Live
<1>3. nextId' \in 1 .. MaxTask + 1 /\ nextId <= nextId'
  BY TableAssumption DEF TableInv, TableOK
<1>4. QED
  BY <1>1, <1>2, <1>3, WriteCommits

LEMMA AnyWriteCommits ==
    ASSUME TableInv, NEW at \in Stamp, AnyWrite(at)
    PROVE  \E u \in TaskId : TableInv' /\ Commit(u)
<1>1. ASSUME NEW form \in Forms, Create(form, at)
      PROVE  \E u \in TaskId : TableInv' /\ Commit(u)
  BY <1>1, CreateCommits, FormsAssumption
<1>2. ASSUME NEW t \in TaskId, Live(t) PROVE tasks[t] \in Row
  BY <1>2 DEF TableInv, TableOK, Live
<1>3. ASSUME NEW form \in Forms, NEW t \in TaskId, Edit(t, form, tasks[t].archived, at)
      PROVE  \E u \in TaskId : TableInv' /\ Commit(u)
  <2>1. tasks[t].archived \in BOOLEAN
    BY <1>2, <1>3 DEF Edit, Row
  <2>2. QED
    BY <1>3, <2>1, EditCommits, FormsAssumption
<1>4. ASSUME NEW t \in TaskId, NEW status \in 0 .. Done, SetStatus(t, status, at)
      PROVE  \E u \in TaskId : TableInv' /\ Commit(u)
  <2> DEFINE row == [tasks[t] EXCEPT !.status = status, !.updated = at]
  <2>1. Live(t) /\ tasks[t] \in Row
    BY <1>2, <1>4 DEF SetStatus
  <2>2. row \in Row /\ row.id = tasks[t].id /\ row.wrote = tasks[t].wrote
    BY <2>1 DEF Row
  <2>3. Write(t, row, tags[t]) /\ UNCHANGED nextId
    BY <1>4 DEF SetStatus
  <2> HIDE DEF row
  <2>4. QED
    BY <2>1, <2>2, <2>3, RowCommits
<1>5. ASSUME NEW t \in TaskId, SetArchived(t, at)
      PROVE  \E u \in TaskId : TableInv' /\ Commit(u)
  <2> DEFINE row == [tasks[t] EXCEPT !.archived = ~ @, !.updated = at]
  <2>1. Live(t) /\ tasks[t] \in Row
    BY <1>2, <1>5 DEF SetArchived
  <2>2. row \in Row /\ row.id = tasks[t].id /\ row.wrote = tasks[t].wrote
    BY <2>1 DEF Row
  <2>3. Write(t, row, tags[t]) /\ UNCHANGED nextId
    BY <1>5 DEF SetArchived
  <2> HIDE DEF row
  <2>4. QED
    BY <2>1, <2>2, <2>3, RowCommits
<1>6. ASSUME NEW t \in TaskId, Delete(t)
      PROVE  \E u \in TaskId : TableInv' /\ Commit(u)
  <2>1. writes + 1 \in 0 .. MaxWrites
    BY <1>6, TableAssumption DEF Delete, Write, TableInv, TableOK
  <2>2. /\ NoTags(writes + 1) \in [names : SUBSET Name, wrote : 0 .. MaxWrites]
        /\ NoTags(writes + 1).wrote = writes + 1
    BY <2>1 DEF NoTags
  <2>3. nextId' \in 1 .. MaxTask + 1 /\ nextId <= nextId'
    BY <1>6, TableAssumption DEF Delete, TableInv, TableOK
  <2>4. QED
    BY <1>6, <2>2, <2>3, WriteCommits DEF Delete
<1>7. QED
  BY <1>1, <1>3, <1>4, <1>5, <1>6 DEF AnyWrite

------------------------------------------------------------------------------
(* ORDER BY *)

Sorts(q) == q.sort \in Columns /\ q.dir \in {"asc", "desc"}

LEMMA KeyType ==
    ASSUME NEW q, Sorts(q), NEW x \in Row
    PROVE  Key(q, x) \in Int \cup {NoDue}
<1>1. x.created \in Int /\ x.due \in Int \cup {NoDue} /\ x.priority \in Int /\ x.status \in Int
  BY DEF Row, Stamp, Done
<1>2. QED
  BY <1>1 DEF Sorts, Columns, Key

\* ORDER BY tells any two rows apart, by their ids if by nothing else.
LEMMA OrderIsTotal ==
    ASSUME NEW q, Sorts(q), NEW x \in Row, NEW y \in Row, x.id # y.id
    PROVE  Precedes(q, x, y) <=> ~ Precedes(q, y, x)
<1>1. Key(q, x) \in Int \cup {NoDue} /\ Key(q, y) \in Int \cup {NoDue}
  BY KeyType
<1>2. x.id \in Int /\ y.id \in Int
  BY DEF Row, TaskId
<1>3. NoDue \notin Int
  BY NullAssumption DEF Stamp
<1> DEFINE kx == Key(q, x)
           ky == Key(q, y)
<1>4. CASE kx = NoDue \/ ky = NoDue
  BY <1>1, <1>2, <1>3, <1>4 DEF Precedes, KeyBefore
<1>5. CASE kx \in Int /\ ky \in Int
  <2> HIDE DEF kx, ky
  <2>1. CASE q.dir = "asc"
    <3>1. Precedes(q, x, y) <=> kx < ky \/ (kx = ky /\ x.id < y.id)
      BY <1>3, <1>5, <2>1 DEF Precedes, KeyBefore, kx, ky
    <3>2. Precedes(q, y, x) <=> ky < kx \/ (ky = kx /\ y.id < x.id)
      BY <1>3, <1>5, <2>1 DEF Precedes, KeyBefore, kx, ky
    <3>3. QED
      BY <1>2, <1>5, <3>1, <3>2
  <2>2. CASE q.dir # "asc"
    <3>1. Precedes(q, x, y) <=> kx > ky \/ (kx = ky /\ x.id > y.id)
      BY <1>3, <1>5, <2>2 DEF Precedes, KeyBefore, kx, ky
    <3>2. Precedes(q, y, x) <=> ky > kx \/ (ky = kx /\ y.id > x.id)
      BY <1>3, <1>5, <2>2 DEF Precedes, KeyBefore, kx, ky
    <3>3. QED
      BY <1>2, <1>5, <3>1, <3>2
  <2>3. QED
    BY <2>1, <2>2
<1>6. QED
  BY <1>1, <1>4, <1>5

LEMMA NotBeforeItself ==
    ASSUME NEW q, Sorts(q), NEW x \in Row
    PROVE  ~ Precedes(q, x, x)
<1>1. Key(q, x) \in Int \cup {NoDue}
  BY KeyType
<1>2. x.id \in Int
  BY DEF Row, TaskId
<1>3. ~ KeyBefore(q, x, x)
  BY <1>1, NullAssumption DEF KeyBefore, Stamp
<1>4. QED
  BY <1>2, <1>3 DEF Precedes

------------------------------------------------------------------------------
(* Pages *)

Listed(q) == {t \in TaskId : Matches(q, tasks[t], tags[t].names)}
ListedRows(q) == {tasks[t] : t \in Listed(q)}

LEMMA ListedAreRows ==
    ASSUME TableOK, NEW q
    PROVE  /\ \A t \in Listed(q) : t \in TaskId /\ tasks[t] \in Row /\ tasks[t].id = t
           /\ ListedRows(q) \subseteq Row
           /\ \A r \in ListedRows(q) : r.id \in Listed(q) /\ tasks[r.id] = r
           /\ IsFiniteSet(ListedRows(q))
<1>1. \A t \in Listed(q) : t \in TaskId /\ tasks[t] \in Row /\ tasks[t].id = t
  BY DEF Listed, Matches, TableOK
<1>2. \A r \in ListedRows(q) : r \in Row /\ r.id \in Listed(q) /\ tasks[r.id] = r
  BY <1>1 DEF ListedRows
<1>3. IsFiniteSet(Listed(q))
  <2>1. IsFiniteSet(TaskId)
    BY FS_Interval, TableAssumption DEF TaskId
  <2>2. QED
    BY <2>1, FS_Subset DEF Listed
<1>4. IsFiniteSet(ListedRows(q))
  <2> DEFINE f == [t \in Listed(q) |-> tasks[t]]
  <2>1. f \in Surjection(Listed(q), ListedRows(q))
    BY DEF Surjection, ListedRows
  <2>2. QED
    BY <1>3, <2>1, FS_Surjection
<1>5. QED
  BY <1>1, <1>2, <1>4

\* A statement returns every row it selects once, in order.
LEMMA OrderingFacts ==
    ASSUME TableOK, NEW q, Sorts(q), NEW o \in Orderings(q, ListedRows(q))
    PROVE  /\ Cardinality(ListedRows(q)) \in Nat
           /\ DOMAIN o = 1 .. Cardinality(ListedRows(q))
           /\ Len(o) = Cardinality(ListedRows(q))
           /\ \A i \in DOMAIN o : o[i] \in ListedRows(q)
           /\ \A i, j \in DOMAIN o : i < j => Precedes(q, o[i], o[j]) /\ o[i].id # o[j].id
           /\ \A t \in Listed(q) : \E i \in DOMAIN o : o[i] = tasks[t]
<1> DEFINE S == ListedRows(q)
           n == Cardinality(S)
<1>1. IsFiniteSet(S) /\ S \subseteq Row /\ \A r \in S : tasks[r.id] = r
  BY ListedAreRows
<1>2. n \in Nat
  BY <1>1, FS_CardinalityType
<1>3. o \in [1 .. n -> S] /\ \A i, j \in 1 .. n : i < j => o[i] # o[j] /\ ~ Precedes(q, o[j], o[i])
  BY DEF Orderings
<1>4. Len(o) = n /\ DOMAIN o = 1 .. n
  BY <1>2, <1>3
<1>5. \A i, j \in 1 .. n : i < j => Precedes(q, o[i], o[j]) /\ o[i].id # o[j].id
  <2> SUFFICES ASSUME NEW i \in 1 .. n, NEW j \in 1 .. n, i < j
               PROVE  Precedes(q, o[i], o[j]) /\ o[i].id # o[j].id
    OBVIOUS
  <2>1. o[i] \in S /\ o[j] \in S /\ o[i] # o[j] /\ ~ Precedes(q, o[j], o[i])
    BY <1>3
  <2>2. o[i].id # o[j].id
    BY <1>1, <2>1
  <2>3. QED
    BY <1>1, <2>1, <2>2, OrderIsTotal
<1>6. \A r \in S : \E i \in 1 .. n : o[i] = r
  <2>1. o \in Injection(1 .. n, S)
    <3>1. \A i, j \in 1 .. n : o[i] = o[j] => i = j
      BY <1>2, <1>3
    <3>2. QED
      BY <1>3, <3>1 DEF Injection, IsInjective
  <2>2. IsFiniteSet(1 .. n) /\ Cardinality(1 .. n) = n
    BY <1>2, FS_Interval
  <2>3. o \in Surjection(1 .. n, S)
    BY <1>1, <2>1, <2>2, FS_Injection
  <2>4. QED
    BY <2>3 DEF Surjection
<1>7. \A t \in Listed(q) : tasks[t] \in S
  BY DEF ListedRows
<1>8. QED
  BY <1>2, <1>3, <1>4, <1>5, <1>6, <1>7

\* A page has rows of the list, as many as LIMIT allows.
LEMMA PageRows ==
    ASSUME TableOK, NEW q, Sorts(q), NEW o \in Orderings(q, ListedRows(q)),
           NEW m \in Nat, NEW limit \in Nat \ {0}, NEW page, page = PageOf(o, m, limit)
    PROVE  page \in Seq(ListedRows(q)) /\ Len(page) <= limit
<1> DEFINE n == Len(o)
           last == IF m + limit < n THEN m + limit ELSE n
<1>1. n \in Nat /\ \A i \in 1 .. n : o[i] \in ListedRows(q)
  BY OrderingFacts
<1>2. page = SubSeq(o, m + 1, last)
  BY DEF PageOf
<1> HIDE DEF n
<1>3. last \in Int /\ m + 1 \in Int /\ \A i \in (m + 1) .. last : o[i] \in ListedRows(q)
  BY <1>1
<1>4. last <= m + limit
  BY <1>1
<1> HIDE DEF last
<1>5. /\ page \in Seq(ListedRows(q))
      /\ Len(page) = IF m + 1 <= last THEN last - (m + 1) + 1 ELSE 0
  BY <1>2, <1>3, SubSeqProperties
<1>6. QED
  BY <1>3, <1>4, <1>5

\* The ids read are those of the first rows of the list, in its order: all the
\* rows that are not among them come after them.
FirstOf(q, read) ==
    /\ \A i, j \in 1 .. Len(read) : i < j => Precedes(q, tasks[read[i]], tasks[read[j]])
    /\ \A i \in 1 .. Len(read) : read[i] \in Listed(q)
    /\ \A t \in Listed(q) : (\A i \in 1 .. Len(read) : read[i] # t) =>
          \A i \in 1 .. Len(read) : Precedes(q, tasks[read[i]], tasks[t])

\* FirstOf of a given table
FirstIn(rows, named, q, read) ==
    /\ \A i, j \in 1 .. Len(read) : i < j => Precedes(q, rows[read[i]], rows[read[j]])
    /\ \A i \in 1 .. Len(read) : read[i] \in TaskId /\ Matches(q, rows[read[i]], named[read[i]].names)
    /\ \A t \in TaskId :
          Matches(q, rows[t], named[t].names) /\ (\A i \in 1 .. Len(read) : read[i] # t) =>
             \A i \in 1 .. Len(read) : Precedes(q, rows[read[i]], rows[t])

LEMMA FirstOfIsIn ==
    ASSUME NEW q, NEW read
    PROVE  FirstOf(q, read) <=> FirstIn(tasks, tags, q, read)
BY DEF FirstOf, FirstIn, Listed

\* Whichever order of equals a statement returns, the rows read before are its
\* first ones: as many as were read.
LEMMA ReadIsPrefix ==
    ASSUME TableOK, NEW q, Sorts(q), NEW o \in Orderings(q, ListedRows(q)),
           NEW read \in Seq(TaskId), FirstOf(q, read)
    PROVE  /\ Len(read) <= Len(o)
           /\ \A i \in 1 .. Len(o) :
                 (\E j \in 1 .. Len(read) : read[j] = o[i].id) <=> i <= Len(read)
<1> DEFINE m == Len(read)
           n == Len(o)
           D == {i \in 1 .. n : \E j \in 1 .. m : read[j] = o[i].id}
<1>1. m \in Nat
  OBVIOUS
<1>2. /\ n \in Nat /\ DOMAIN o = 1 .. n
      /\ \A i \in 1 .. n : o[i] \in ListedRows(q)
      /\ \A i, j \in 1 .. n : i < j => Precedes(q, o[i], o[j]) /\ o[i].id # o[j].id
      /\ \A t \in Listed(q) : \E i \in 1 .. n : o[i] = tasks[t]
  BY OrderingFacts
<1>3. \A i \in 1 .. n : o[i] \in Row /\ o[i].id \in Listed(q) /\ tasks[o[i].id] = o[i]
  BY <1>2, ListedAreRows
<1>4. \A t \in Listed(q) : tasks[t] \in Row /\ tasks[t].id = t
  BY ListedAreRows
<1> HIDE DEF m, n
<1>5. \A i, j \in 1 .. m : read[i] = read[j] => i = j
  <2> SUFFICES ASSUME NEW i \in 1 .. m, NEW j \in 1 .. m, i < j PROVE read[i] # read[j]
    BY <1>1
  <2>1. Precedes(q, tasks[read[i]], tasks[read[j]]) /\ tasks[read[i]] \in Row
    BY <1>4 DEF FirstOf, m
  <2>2. QED
    BY <2>1, NotBeforeItself
<1>6. Cardinality(D) = m
  <2>1. \A j \in 1 .. m : \E i \in D : read[j] = o[i].id
    <3> SUFFICES ASSUME NEW j \in 1 .. m PROVE \E i \in D : read[j] = o[i].id
      OBVIOUS
    <3>1. read[j] \in Listed(q)
      BY DEF FirstOf, m
    <3>2. PICK i \in 1 .. n : o[i] = tasks[read[j]]
      BY <1>2, <3>1
    <3>3. read[j] = o[i].id
      BY <1>4, <3>1, <3>2
    <3>4. QED
      BY <3>3
  <2> DEFINE f == [j \in 1 .. m |-> CHOOSE i \in D : read[j] = o[i].id]
  <2>2. \A j \in 1 .. m : f[j] \in D /\ read[j] = o[f[j]].id
    BY <2>1
  <2>3. f \in [1 .. m -> D]
    BY <2>2
  <2> HIDE DEF f
  <2>4. \A i, j \in 1 .. m : f[i] = f[j] => i = j
    BY <1>5, <2>2
  <2>5. \A i \in D : \E j \in 1 .. m : f[j] = i
    <3> SUFFICES ASSUME NEW i \in D PROVE \E j \in 1 .. m : f[j] = i
      OBVIOUS
    <3>1. PICK j \in 1 .. m : read[j] = o[i].id
      OBVIOUS
    <3>2. o[f[j]].id = o[i].id /\ f[j] \in 1 .. n /\ i \in 1 .. n
      BY <2>2, <3>1
    <3>3. f[j] = i
      BY <1>2, <3>2
    <3>4. QED
      BY <3>3
  <2>6. f \in Bijection(1 .. m, D)
    BY <2>3, <2>4, <2>5 DEF Bijection, Injection, Surjection, IsInjective
  <2>7. ExistsBijection(1 .. m, D)
    BY <2>6 DEF ExistsBijection
  <2>8. QED
    BY <1>1, <2>7, FS_CountingElements
<1>7. ASSUME NEW i \in D, NEW j \in 1 .. n, j < i PROVE j \in D
  <2> SUFFICES ASSUME j \notin D PROVE FALSE
    OBVIOUS
  <2>1. PICK l \in 1 .. m : read[l] = o[i].id
    OBVIOUS
  <2>2. \A k \in 1 .. m : read[k] # o[j].id
    OBVIOUS
  <2>3. i \in 1 .. n
    OBVIOUS
  <2>4. Precedes(q, tasks[read[l]], tasks[o[j].id])
    BY <1>3, <2>2 DEF FirstOf, m
  <2>5. Precedes(q, o[i], o[j])
    BY <1>3, <2>1, <2>3, <2>4
  <2>6. Precedes(q, o[j], o[i]) /\ o[j].id # o[i].id
    BY <1>2, <1>7, <2>3
  <2>7. QED
    BY <1>3, <2>3, <2>5, <2>6, OrderIsTotal
<1>8. IsFiniteSet(D)
  BY <1>2, FS_Interval, FS_Subset
<1>9. ASSUME NEW i \in D PROVE i \in 1 .. m
  <2>1. i \in 1 .. n
    OBVIOUS
  <2>2. 1 .. i \subseteq D
    <3> SUFFICES ASSUME NEW j \in 1 .. i PROVE j \in D
      OBVIOUS
    <3>1. j \in 1 .. n /\ (j = i \/ j < i)
      BY <1>2, <2>1
    <3>2. QED
      BY <1>7, <3>1
  <2>3. Cardinality(1 .. i) = i
    BY <1>2, <2>1, FS_Interval
  <2> HIDE DEF D
  <2>4. Cardinality(1 .. i) <= Cardinality(D)
    BY <1>8, <2>2, FS_Subset
  <2>5. QED
    BY <1>1, <1>2, <1>6, <2>1, <2>3, <2>4
<1>10. D = 1 .. m
  <2>1. IsFiniteSet(1 .. m) /\ Cardinality(1 .. m) = m
    BY <1>1, FS_Interval
  <2>2. D \subseteq 1 .. m
    BY <1>9
  <2> HIDE DEF D
  <2>3. QED
    BY <1>6, <2>1, <2>2, FS_Subset
<1>11. m <= n
  <2>1. m # 0 => m \in D
    BY <1>1, <1>10
  <2>2. m # 0 => m \in 1 .. n
    BY <2>1
  <2>3. QED
    BY <1>1, <1>2, <2>2
<1>12. \A i \in 1 .. n : (\E j \in 1 .. m : read[j] = o[i].id) <=> i <= m
  <2>1. \A i \in 1 .. n : i \in D <=> i <= m
    BY <1>1, <1>2, <1>10
  <2>2. \A i \in 1 .. n : i \in D <=> \E j \in 1 .. m : read[j] = o[i].id
    OBVIOUS
  <2>3. QED
    BY <2>1, <2>2
<1>13. QED
  BY <1>11, <1>12 DEF m, n

Ids(page) == [i \in 1 .. Len(page) |-> page[i].id]

\* The page at the OFFSET of what was read continues it, and is not full only if
\* it is the last one.
LEMMA NextPage ==
    ASSUME TableOK, NEW q, Sorts(q), NEW o \in Orderings(q, ListedRows(q)),
           NEW read \in Seq(TaskId), FirstOf(q, read), NEW limit \in Nat \ {0},
           NEW page, page = PageOf(o, Len(read), limit)
    PROVE  /\ page \in Seq(Row) /\ Len(page) <= limit
           /\ Ids(page) \in Seq(TaskId)
           /\ \A i \in 1 .. Len(page) : tasks[page[i].id] = page[i]
           /\ FirstOf(q, read \o Ids(page))
           /\ Len(page) < limit =>
                 \A t \in Listed(q) :
                    \E i \in 1 .. Len(read \o Ids(page)) : (read \o Ids(page))[i] = t
<1> DEFINE m == Len(read)
           n == Len(o)
           k == Len(page)
           both == read \o Ids(page)
<1>1. /\ n \in Nat /\ DOMAIN o = 1 .. n
      /\ \A i \in 1 .. n : o[i] \in ListedRows(q)
      /\ \A i, j \in 1 .. n : i < j => Precedes(q, o[i], o[j]) /\ o[i].id # o[j].id
      /\ \A t \in Listed(q) : \E i \in 1 .. n : o[i] = tasks[t]
  BY OrderingFacts
<1>2. \A i \in 1 .. n : o[i] \in Row /\ o[i].id \in Listed(q) /\ tasks[o[i].id] = o[i]
  BY <1>1, ListedAreRows
<1>3. \A t \in Listed(q) : t \in TaskId /\ tasks[t] \in Row /\ tasks[t].id = t
  BY ListedAreRows
<1>4. m \in Nat /\ m <= n
  BY ReadIsPrefix
<1>5. \A i \in 1 .. n : (\E j \in 1 .. m : read[j] = o[i].id) <=> i <= m
  BY ReadIsPrefix
<1>6. /\ page \in Seq(Row)
      /\ k = IF m + limit < n THEN limit ELSE n - m
      /\ \A i \in 1 .. k : page[i] = o[m + i]
  <2>1. o \in [1 .. n -> Row]
    <3>1. o \in [1 .. n -> ListedRows(q)]
      BY OrderingFacts DEF Orderings
    <3>2. ListedRows(q) \subseteq Row
      BY ListedAreRows
    <3>3. QED
      BY <3>1, <3>2
  <2> HIDE DEF m, n
  <2> DEFINE last == IF m + limit < n THEN m + limit ELSE n
  <2>2. last \in Int /\ m + 1 \in Int /\ \A i \in (m + 1) .. last : o[i] \in Row
    BY <1>1, <1>4, <2>1
  <2>3. page = SubSeq(o, m + 1, last)
    BY DEF PageOf, m, n
  <2> HIDE DEF last
  <2>4. /\ page \in Seq(Row)
        /\ Len(page) = IF m + 1 <= last THEN last - (m + 1) + 1 ELSE 0
        /\ \A i \in 1 .. last - (m + 1) + 1 : page[i] = o[m + 1 + i - 1]
    BY <2>2, <2>3, SubSeqProperties
  <2>5. Len(page) = last - m
    BY <1>1, <1>4, <2>4 DEF last
  <2>6. \A i \in 1 .. last - m : page[i] = o[m + i]
    BY <1>4, <2>2, <2>4
  <2>7. QED
    BY <1>1, <1>4, <2>4, <2>5, <2>6 DEF last
<1>7. k \in Nat /\ m + k <= n /\ k <= limit /\ (k < limit => m + k = n)
  <2> HIDE DEF m, n, k
  <2>1. QED
    BY <1>1, <1>4, <1>6
<1>8. Ids(page) \in Seq(TaskId) /\ Len(Ids(page)) = k /\ \A i \in 1 .. k : Ids(page)[i] = o[m + i].id
  <2>1. \A i \in 1 .. k : page[i].id \in TaskId
    <3> SUFFICES ASSUME NEW i \in 1 .. k PROVE page[i].id \in TaskId
      OBVIOUS
    <3>1. page[i] \in Row
      BY <1>6, ElementOfSeq
    <3>2. QED
      BY <3>1 DEF Row
  <2>2. Ids(page) \in Seq(TaskId)
    BY <1>7, <2>1 DEF Ids
  <2>3. Len(Ids(page)) = k
    BY <1>7 DEF Ids
  <2>4. QED
    BY <1>6, <2>2, <2>3 DEF Ids
<1>9. /\ Len(both) = m + k
      /\ \A i \in 1 .. m : both[i] = read[i]
      /\ \A i \in (m + 1) .. (m + k) : both[i] = o[i].id
  <2>1. /\ Len(both) = m + k
        /\ \A i \in 1 .. m + k : both[i] = IF i <= m THEN read[i] ELSE Ids(page)[i - m]
    <3>1. /\ Len(both) = Len(read) + Len(Ids(page))
          /\ \A i \in 1 .. Len(read) + Len(Ids(page)) :
                both[i] = IF i <= Len(read) THEN read[i] ELSE Ids(page)[i - Len(read)]
      <4>1. PICK ids \in Seq(TaskId) : ids = Ids(page)
        BY <1>8
      <4>2. /\ Len(read \o ids) = Len(read) + Len(ids)
            /\ \A i \in 1 .. Len(read) + Len(ids) :
                  (read \o ids)[i] = IF i <= Len(read) THEN read[i] ELSE ids[i - Len(read)]
        BY ConcatProperties
      <4>3. QED
        BY <4>1, <4>2
    <3>2. Len(Ids(page)) = k /\ Len(read) = m
      BY <1>8
    <3> HIDE DEF m, k, both
    <3>3. QED
      BY <3>1, <3>2
  <2>2. \A i \in (m + 1) .. (m + k) : i - m \in 1 .. k /\ m + (i - m) = i
    BY <1>4, <1>7
  <2>3. QED
    BY <1>4, <1>7, <1>8, <2>1, <2>2
<1>10. \A i \in 1 .. k : tasks[page[i].id] = page[i]
  <2> HIDE DEF m, n, k
  <2>1. \A i \in 1 .. k : page[i] = o[m + i] /\ m + i \in 1 .. n
    BY <1>1, <1>4, <1>6, <1>7
  <2>2. QED
    BY <1>2, <2>1
<1> HIDE DEF m, n, k, both
<1>11. \A i \in (m + 1) .. n : \A j \in 1 .. m : /\ read[j] # o[i].id
                                                  /\ Precedes(q, tasks[read[j]], o[i])
  <2> SUFFICES ASSUME NEW i \in (m + 1) .. n, NEW j \in 1 .. m
               PROVE  read[j] # o[i].id /\ Precedes(q, tasks[read[j]], o[i])
    OBVIOUS
  <2>1. i \in 1 .. n /\ ~ (i <= m)
    BY <1>1, <1>4
  <2>2. \A l \in 1 .. m : read[l] # o[i].id
    BY <1>5, <2>1
  <2>3. Precedes(q, tasks[read[j]], tasks[o[i].id])
    BY <1>2, <2>1, <2>2 DEF FirstOf, m
  <2>4. QED
    BY <1>2, <2>1, <2>2, <2>3
<1>12. \A i, j \in 1 .. m + k : i < j => Precedes(q, tasks[both[i]], tasks[both[j]])
  <2> SUFFICES ASSUME NEW i \in 1 .. m + k, NEW j \in 1 .. m + k, i < j
               PROVE  Precedes(q, tasks[both[i]], tasks[both[j]])
    OBVIOUS
  <2>1. CASE j <= m
    <3>1. i \in 1 .. m /\ j \in 1 .. m
      BY <1>4, <1>7, <2>1
    <3>2. QED
      BY <1>9, <3>1 DEF FirstOf, m
  <2>2. CASE i <= m /\ ~ (j <= m)
    <3>1. i \in 1 .. m /\ j \in (m + 1) .. (m + k) /\ j \in (m + 1) .. n /\ j \in 1 .. n
      BY <1>1, <1>4, <1>7, <2>2
    <3>2. QED
      BY <1>2, <1>9, <1>11, <3>1
  <2>3. CASE ~ (i <= m)
    <3>1. i \in (m + 1) .. (m + k) /\ j \in (m + 1) .. (m + k) /\ i \in 1 .. n /\ j \in 1 .. n
      BY <1>1, <1>4, <1>7, <2>3
    <3>2. QED
      BY <1>1, <1>2, <1>9, <3>1
  <2>4. QED
    BY <2>1, <2>2, <2>3
<1>13. \A i \in 1 .. m + k : both[i] \in Listed(q)
  <2> SUFFICES ASSUME NEW i \in 1 .. m + k PROVE both[i] \in Listed(q)
    OBVIOUS
  <2>1. CASE i <= m
    BY <1>4, <1>9, <2>1 DEF FirstOf, m
  <2>2. CASE ~ (i <= m)
    <3>1. i \in (m + 1) .. (m + k) /\ i \in 1 .. n
      BY <1>1, <1>4, <1>7, <2>2
    <3>2. QED
      BY <1>2, <1>9, <3>1
  <2>3. QED
    BY <2>1, <2>2
\* A row of the list that is on neither is behind both.
<1>14. ASSUME NEW t \in Listed(q), \A i \in 1 .. m + k : both[i] # t
       PROVE  \E l \in (m + k + 1) .. n : o[l] = tasks[t]
  <2>1. PICK l \in 1 .. n : o[l] = tasks[t]
    BY <1>1
  <2>2. o[l].id = t
    BY <1>3, <2>1
  <2>3. ~ (l <= m)
    <3> SUFFICES ASSUME l <= m PROVE FALSE
      OBVIOUS
    <3>1. PICK j \in 1 .. m : read[j] = t
      BY <1>5, <2>2
    <3>2. both[j] = t /\ j \in 1 .. m + k
      BY <1>4, <1>7, <1>9, <3>1
    <3>3. QED
      BY <1>14, <3>2
  <2>4. ~ (l <= m + k)
    <3> SUFFICES ASSUME l <= m + k PROVE FALSE
      OBVIOUS
    <3>1. l \in (m + 1) .. (m + k) /\ l \in 1 .. m + k
      BY <1>1, <1>4, <1>7, <2>3
    <3>2. QED
      BY <1>9, <1>14, <2>2, <3>1
  <2>5. l \in (m + k + 1) .. n
    BY <1>1, <1>4, <1>7, <2>4
  <2>6. QED
    BY <2>1, <2>5
<1>15. ASSUME NEW t \in Listed(q), \A i \in 1 .. m + k : both[i] # t, NEW i \in 1 .. m + k
       PROVE  Precedes(q, tasks[both[i]], tasks[t])
  <2>1. PICK l \in (m + k + 1) .. n : o[l] = tasks[t]
    BY <1>14, <1>15
  <2>2. l \in 1 .. n /\ l \in (m + 1) .. n
    BY <1>1, <1>4, <1>7
  <2>3. CASE i <= m
    <3>1. i \in 1 .. m
      BY <1>4, <1>7, <2>3
    <3>2. QED
      BY <1>9, <1>11, <2>1, <2>2, <3>1
  <2>4. CASE ~ (i <= m)
    <3>1. i \in (m + 1) .. (m + k) /\ i \in 1 .. n /\ i < l
      BY <1>1, <1>4, <1>7, <2>4
    <3>2. QED
      BY <1>1, <1>2, <1>9, <2>1, <2>2, <3>1
  <2>5. QED
    BY <2>3, <2>4
<1>16. FirstOf(q, both)
  BY <1>9, <1>12, <1>13, <1>15 DEF FirstOf
<1>17. k < limit => \A t \in Listed(q) : \E i \in 1 .. Len(both) : both[i] = t
  <2> SUFFICES ASSUME k < limit, NEW t \in Listed(q), \A i \in 1 .. m + k : both[i] # t
               PROVE  FALSE
    BY <1>9
  <2>1. PICK l \in (m + k + 1) .. n : o[l] = tasks[t]
    BY <1>14
  <2>2. QED
    BY <1>1, <1>4, <1>7, <2>1
<1>18. QED
  BY <1>6, <1>7, <1>8, <1>10, <1>16, <1>17 DEF k, both
==============================================================================
