--------------------------- MODULE TaskSeedProofs ---------------------------
(***************************************************************************)
(* Theorems about TaskSeed.  The inductive invariant SeedInv says of the   *)
(* tables what TypeOK says, and of each run and each request what it holds *)
(* on to: the row locks, which rule each other out, keep a row that a wipe *)
(* has deleted, a name that an open transaction refers to and a task that  *)
(* a form is about to write as they were found.  WipeInv follows the rows  *)
(* that were there when a wipe began, until they are gone.                 *)
(***************************************************************************)
EXTENDS TaskSeed, FiniteSetTheorems, TLAPS

Mode == {"X", "S"}
Key == ({"task", "links"} \X TaskId) \cup ({"name"} \X Name)
SeedPlace == {"new", "names", "draw", "insert", "attach"} \cup Stage \cup Ended
ReqPlace == {"new", "get", "project", "row", "unlink", "link", "write", "fk"} \cup Ended

\* The rows of projects and tags that a task refers to.
Refs(row) == ({row.project} \ {NoProject}) \cup row.tags

TableTypes == tasks \in [TaskId -> Row \cup {NoRow}] /\ names \subseteq NameRow /\ wipes \in Nat
ProcTypes ==
    /\ pc \in [Proc -> SeedPlace \cup ReqPlace]
    /\ \A s \in Seeder : pc[s] \in SeedPlace
    /\ \A r \in Req : pc[r] \in ReqPlace
    /\ wipe \in Flags
    /\ call \in Calls
    /\ copy \in [Req -> NameRow \cup {NoProject}]
    /\ scan \in [Seeder -> SUBSET (TaskId \cup NameRow)]
    /\ doomed \in [Seeder -> SUBSET (TaskId \cup NameRow)]
    /\ known \in [Seeder -> SUBSET NameRow]
    /\ drafts \in [Seeder -> Seq(Row)]
    /\ todo \in [Proc -> SUBSET (NameRow \cup Tag)]
    /\ \A s \in Seeder : todo[s] \subseteq NameRow
    /\ locks \in [Proc -> SUBSET (Key \X Mode)]
    /\ before \in [Seeder -> SUBSET (TaskId \cup NameRow)]
VarTypes == TableTypes /\ ProcTypes

\* A task refers to rows of its user that are there, a user has a name once.
Whole ==
    \A t \in TaskId : tasks[t] # NoRow => Refs(tasks[t]) \subseteq {n \in names : n[1] = tasks[t].user}
Unique == \A m, n \in names : m[1] = n[1] /\ m[2] = n[2] => m = n

\* An exclusive lock excludes the other locks of its key.
Exclusive ==
    \A x, y \in Proc : x # y => \A k \in Key :
        <<k, "X">> \in locks[x] => <<k, "X">> \notin locks[y] /\ <<k, "S">> \notin locks[y]

\* Each wipe still to come has its number.
Unwiped == {s \in Seeder : pc[s] \in {"new"} \cup Stage}
WipesCounted == wipes + Cardinality(Unwiped) <= Cardinality(Seeder)

\* The tasks that runs and requests have yet to insert are not there.
ToCome(t) ==
    \/ \E r \in Req : call[r].op = "create" /\ t = <<r, 1>> /\ pc[r] # "done"
    \/ \E s \in Seeder : t \in {s} \X (1 .. Count) /\ pc[s] # "done"
NewIds == \A t \in TaskId : ToCome(t) => tasks[t] = NoRow

\* What a wipe has deleted is the user's and is locked.
OfUser(t) == tasks[t] # NoRow => tasks[t].user = Seeded
DoomedLocked(s) ==
    /\ doomed[s] # {} => pc[s] \in Stage
    /\ \A t \in doomed[s] \cap TaskId : OfUser(t) /\ <<TaskKey(t), "X">> \in locks[s]
    /\ \A n \in doomed[s] \cap NameRow :
          n \in names /\ n[1] = Seeded /\ <<NameKey(n[2]), "X">> \in locks[s]

\* A run knows a row of the user for each name it has upserted.
NamesKnown(s) ==
    /\ IsFiniteSet(known[s]) /\ Cardinality(known[s]) <= Len(BaseNames)
    /\ \A n \in known[s] : n[1] = Seeded
    /\ {n[2] : n \in known[s]} = {BaseNames[i] : i \in 1 .. Cardinality(known[s])}
    /\ pc[s] \in {"new"} \cup Stage \cup Ended => known[s] = {}
    /\ pc[s] = "names" => Cardinality(known[s]) < Len(BaseNames)
    /\ pc[s] \in {"draw", "insert", "attach"} => Cardinality(known[s]) = Len(BaseNames)

\* What the tasks of an open transaction refer to is there and is locked, but
\* for what the last of them still has to be checked for.
Unchecked(s, i, n) == i = Len(drafts[s]) /\ (pc[s] = "insert" \/ n \in todo[s])
DraftsWhole(s) ==
    /\ Len(drafts[s]) <= Count
    /\ pc[s] \notin {"draw", "insert", "attach"} => drafts[s] = <<>>
    /\ pc[s] \in {"insert", "attach"} => drafts[s] # <<>>
    /\ pc[s] = "insert" => todo[s] = Draft(s).tags
    /\ pc[s] = "attach" => todo[s] \subseteq Draft(s).tags
    /\ pc[s] \notin {"insert", "attach"} => todo[s] = {}
    /\ \A i \in DOMAIN drafts[s] :
          /\ drafts[s][i].user = Seeded
          /\ \A n \in Refs(drafts[s][i]) :
                /\ n[1] = Seeded
                /\ Unchecked(s, i, n) \/ (n \in names /\ <<NameKey(n[2]), "S">> \in locks[s])

\* A form or Archive that has locked its task finds it there until it ends.
TaskHeld(r) ==
    \/ pc[r] = "fk"
    \/ pc[r] \in {"unlink", "link"} /\ call[r].op # "create"
    => Live(call[r].task) /\ <<TaskKey(call[r].task), "X">> \in locks[r]
CopyOwn(r) == copy[r] # NoProject => copy[r][1] = Seeded

RunOK(s) == DoomedLocked(s) /\ NamesKnown(s) /\ DraftsWhole(s)
ReqOK(r) == TaskHeld(r) /\ CopyOwn(r) /\ todo[r] \subseteq Tag

SeedInv ==
    /\ VarTypes /\ Whole /\ Unique /\ Exclusive /\ WipesCounted /\ NewIds
    /\ \A s \in Seeder : RunOK(s)
    /\ \A r \in Req : ReqOK(r)

\* The rows that were there when a wipe began: what it has still to come to, what
\* it has found, what it has deleted, and what is gone.
Gone(row) == row \notin names /\ (row \in TaskId => tasks[row] = NoRow)
StillToFind(s, row) ==
    \/ row \in TaskId /\ pc[s] = "tasks" /\ row \in scan[s]
    \/ row \in NameRow /\ row[2] \in Project /\ (pc[s] = "tasks" \/ (pc[s] = "projects" /\ row \in scan[s]))
    \/ row \in NameRow /\ row[2] \in Tag
          /\ (pc[s] \in {"tasks", "projects", "set_null"} \/ (pc[s] = "tags" /\ row \in scan[s]))
WipeReaches(s) ==
    /\ pc[s] = "new" => before[s] = {}
    /\ before[s] # {} => wipe[s]
    /\ \A t \in before[s] \cap TaskId : OfUser(t) /\ ~ ToCome(t)
    /\ \A n \in before[s] \cap NameRow :
          n[1] = Seeded /\ n[3] <= wipes /\ (n \notin names => n[3] < wipes)
    /\ pc[s] \in Stage => \A row \in before[s] : row \in doomed[s] \/ Gone(row) \/ StillToFind(s, row)
    /\ pc[s] \in {"names", "draw", "insert", "attach", "done"} => \A row \in before[s] : Gone(row)

\* What a run that nobody has disturbed finds.
Undisturbed(s) ==
    alone[s] =>
        /\ wipe[s] /\ pc[s] # "new"
        /\ pc[s] \in Stage => {t \in TaskId : Live(t)} \cup NamesIn(Name) = before[s]
        /\ pc[s] \in {"names", "draw", "insert", "attach"} =>
              {t \in TaskId : Live(t)} = {} /\ NamesIn(Name) = known[s]
        /\ pc[s] = "done" =>
              /\ {t \in TaskId : Live(t)} = {s} \X (1 .. Count)
              /\ {n[2] : n \in NamesIn(Name)} = ToSet(BaseNames)

\* The number of a row is that of a wipe committed or of the next one.
Numbered == \A n \in names : n[3] <= wipes
WipeInv == Numbered /\ \A s \in Seeder : WipeReaches(s) /\ Undisturbed(s)
------------------------------------------------------------------------------
(* What follows from the types alone *)

\* No id of a task is a row of projects or tags, and the new ids are new.
LEMMA IdsApart ==
    /\ TaskId \cap NameRow = {}
    /\ \A r \in Req : <<r, 1>> \in TaskId /\ <<r, 1>> \notin DOMAIN Saved
    /\ \A s \in Seeder : \A k \in 1 .. Count : <<s, k>> \in TaskId /\ <<s, k>> \notin DOMAIN Saved
    /\ \A r \in Req, s \in Seeder : <<r, 1>> \notin {s} \X (1 .. Count)
<1>1. \A p \in (Seeder \X (1 .. Count)) \cup (Req \X {1}) : p \notin NameRow
  BY DEF NameRow
<1> QED
  BY <1>1, SavedAssumption, ProcAssumption DEF TaskId

LEMMA CallTypes ==
    ASSUME VarTypes, NEW r \in Req
    PROVE  /\ call[r].op \in {"create", "edit", "archive"}
           /\ call[r].task \in TaskId
           /\ call[r].project \in Project \cup {NoProject}
           /\ call[r].tags \subseteq Tag
           /\ call[r].op = "create" <=> call[r].task = <<r, 1>>
<1>1. call[r] \in Call /\ (call[r].op = "create" <=> call[r].task = <<r, 1>>)
  BY CallsAssumption DEF VarTypes, ProcTypes
<1> QED
  BY <1>1 DEF Call

LEMMA RowTypes ==
    ASSUME VarTypes, NEW t \in TaskId, tasks[t] # NoRow
    PROVE  /\ tasks[t] \in Row /\ tasks[t].user \in User
           /\ tasks[t].project \in NameRow \cup {NoProject}
           /\ tasks[t].tags \subseteq NameRow /\ Refs(tasks[t]) \subseteq NameRow
<1>1. tasks[t] \in Row
  BY DEF VarTypes, TableTypes
<1> QED
  BY <1>1 DEF Row, Refs

LEMMA NameRowParts ==
    ASSUME NEW n \in NameRow
    PROVE  /\ n = <<n[1], n[2], n[3]>> /\ n[1] \in User /\ n[2] \in Name
           /\ n[3] \in 0 .. Cardinality(Seeder) /\ NameKey(n[2]) \in Key
BY DEF NameRow, NameKey, Key

LEMMA SeederCount == IsFiniteSet(Seeder) /\ Cardinality(Seeder) \in Nat
BY ProcAssumption, FS_CardinalityType

\* A name has the row that RowOf gives it, and that row is the user's.
LEMMA RowOfName ==
    ASSUME VarTypes, Unique, NEW name \in Name, wipes <= Cardinality(Seeder)
    PROVE  /\ RowOf(name) \in NameRow /\ RowOf(name)[1] = Seeded /\ RowOf(name)[2] = name
           /\ \A n \in names : n[1] = Seeded /\ n[2] = name => n = RowOf(name)
           /\ RowOf(name) \notin names =>
                /\ RowOf(name) = <<Seeded, name, wipes>>
                /\ \A n \in names : n[1] = Seeded => n[2] # name
<1>1. CASE NamesIn({name}) = {}
  <2>1. RowOf(name) = <<Seeded, name, wipes>>
    BY <1>1 DEF RowOf
  <2>2. \A n \in names : n[1] = Seeded => n[2] # name
    BY <1>1 DEF NamesIn
  <2>3. <<Seeded, name, wipes>> \in NameRow
    BY RunAssumption, SeederCount DEF NameRow, VarTypes, TableTypes
  <2> QED
    BY <2>1, <2>2, <2>3
<1>2. CASE NamesIn({name}) # {}
  <2>1. RowOf(name) \in NamesIn({name})
    BY <1>2 DEF RowOf
  <2>2. RowOf(name) \in names /\ RowOf(name)[1] = Seeded /\ RowOf(name)[2] = name
    BY <2>1 DEF NamesIn
  <2> QED
    BY <2>2 DEF VarTypes, TableTypes, Unique
<1> QED
  BY <1>1, <1>2

------------------------------------------------------------------------------
(* What a step of x does: to the others, to the locks and to the tables *)

Step(x) ==
    \/ x \in Seeder /\ SeedStep(x)
    \/ x \in Req /\ (Submit(x) \/ RequestStep(x))
    \/ Fail(x) \/ DeadlockAbort(x)

\* The others are where they were and hold what they held.
OthersKept(x) ==
    /\ wipe' = wipe /\ call' = call
    /\ \A y \in Proc \ {x} : pc'[y] = pc[y] /\ todo'[y] = todo[y] /\ locks'[y] = locks[y]
    /\ \A s \in Seeder \ {x} :
          /\ scan'[s] = scan[s] /\ doomed'[s] = doomed[s] /\ known'[s] = known[s]
          /\ drafts'[s] = drafts[s] /\ before'[s] = before[s]
    /\ \A r \in Req \ {x} : copy'[r] = copy[r]

\* A lock that x gets was free.
Locking(x) == \A lock \in locks'[x] : lock \in locks[x] \/ Free(x, lock)

LEMMA EndKeeps ==
    ASSUME ProcTypes, NEW x \in Proc, NEW how \in Ended, End(x, how)
    PROVE  ProcTypes' /\ OthersKept(x) /\ Locking(x)
<1>1. CASE x \in Seeder
  <2>1. how \in SeedPlace /\ x \notin Req
    BY <1>1, ProcAssumption DEF SeedPlace
  <2>2. <<>> \in Seq(Row)
    OBVIOUS
  <2>3. /\ pc' = [pc EXCEPT ![x] = how] /\ locks' = [locks EXCEPT ![x] = {}]
        /\ todo' = [todo EXCEPT ![x] = {}] /\ scan' = [scan EXCEPT ![x] = {}]
        /\ doomed' = [doomed EXCEPT ![x] = {}] /\ known' = [known EXCEPT ![x] = {}]
        /\ drafts' = [drafts EXCEPT ![x] = <<>>] /\ UNCHANGED <<wipe, call, copy, before>>
    BY <1>1 DEF End, Goto
  <2>4. ProcTypes'
    BY <1>1, <2>1, <2>2, <2>3 DEF ProcTypes, Proc
  <2>5. OthersKept(x) /\ Locking(x)
    BY <1>1, <2>1, <2>3 DEF ProcTypes, OthersKept, Locking, Proc
  <2> QED
    BY <2>4, <2>5
<1>2. CASE x \in Req
  <2>1. how \in ReqPlace /\ x \notin Seeder
    BY <1>2, ProcAssumption DEF ReqPlace
  <2> QED
    BY <1>2, <2>1 DEF ProcTypes, End, Goto, OthersKept, Locking, Proc
<1> QED
  BY <1>1, <1>2 DEF Proc

LEMMA FoundTypes ==
    ASSUME VarTypes, NEW s \in Seeder, NEW stage \in Stage
    PROVE  /\ Found(s, stage) \subseteq TaskId \cup NameRow
           /\ \A row \in Found(s, stage) : KeyOf(stage, row) \in Key
<1>1. \A n \in names : n \in NameRow /\ n[2] \in Name
  BY NameRowParts DEF VarTypes, TableTypes
<1>2. CASE stage \in {"tasks", "set_null", "cascade"}
  <2>1. Found(s, stage) \subseteq TaskId
    BY <1>2 DEF Found
  <2>2. \A row \in TaskId : KeyOf(stage, row) \in Key
    BY <1>2 DEF KeyOf, Key, TaskKey, LinksKey
  <2> QED
    BY <2>1, <2>2
<1>3. CASE stage \in {"projects", "tags"}
  <2>1. Found(s, stage) \subseteq names
    BY <1>3 DEF Found, NamesIn
  <2>2. \A row \in names : KeyOf(stage, row) \in Key
    BY <1>1, <1>3 DEF KeyOf, Key, NameKey
  <2> QED
    BY <1>1, <2>1, <2>2
<1> QED
  BY <1>2, <1>3 DEF Stage

LEMMA AfterNamesTypes == \A k \in Nat : AfterNames(k) \in {"names", "draw"} \cap SeedPlace
BY DEF AfterNames, SeedPlace

LEMMA StartKeeps ==
    ASSUME SeedInv, NEW s \in Seeder, Start(s)
    PROVE  ProcTypes' /\ OthersKept(s) /\ Locking(s)
<1> USE DEF SeedInv, VarTypes, Proc
<1>1. "tasks" \in Stage /\ "tasks" \in SeedPlace
  BY DEF Stage, SeedPlace
<1>2. Found(s, "tasks") \subseteq TaskId \cup NameRow /\ NamesIn(Name) \subseteq NameRow
  BY <1>1, FoundTypes DEF NamesIn, TableTypes
<1>3. s \notin Req /\ AfterNames(0) \in SeedPlace
  BY ProcAssumption, AfterNamesTypes
<1>4. CASE wipe[s]
  <2>1. /\ pc' = [pc EXCEPT ![s] = "tasks"]
        /\ scan' = [scan EXCEPT ![s] = Found(s, "tasks")]
        /\ before' = [before EXCEPT ![s] = Found(s, "tasks") \cup NamesIn(Name)]
        /\ UNCHANGED <<wipe, call, copy, doomed, known, drafts, todo, locks>>
    BY <1>4 DEF Start, Scan, Goto
  <2>2. ProcTypes'
    BY <1>1, <1>2, <1>3, <2>1 DEF ProcTypes
  <2>3. OthersKept(s) /\ Locking(s)
    BY <1>3, <2>1 DEF OthersKept, Locking, ProcTypes
  <2> QED
    BY <2>2, <2>3
<1>5. CASE ~ wipe[s]
  BY <1>3, <1>5 DEF Start, Goto, ProcTypes, OthersKept, Locking
<1> QED
  BY <1>4, <1>5

LEMMA LockRowKeeps ==
    ASSUME SeedInv, NEW s \in Seeder, LockRow(s)
    PROVE  ProcTypes' /\ OthersKept(s) /\ Locking(s)
<1> USE DEF SeedInv, VarTypes, Proc
<1>1. PICK row \in scan[s] :
        LET lock == <<KeyOf(pc[s], row), "X">>
        IN  /\ Free(s, lock)
            /\ scan' = [scan EXCEPT ![s] = @ \ {row}]
            /\ IF row \in Found(s, pc[s])
                 THEN /\ Take(s, lock)
                      /\ doomed' = IF pc[s] \in {"set_null", "cascade"}
                                     THEN doomed
                                     ELSE [doomed EXCEPT ![s] = @ \cup {row}]
                 ELSE UNCHANGED <<locks, doomed>>
  BY DEF LockRow
<1>2. pc[s] \in Stage /\ UNCHANGED <<pc, wipe, call, copy, known, drafts, todo, before>>
  BY DEF LockRow
<1>3. scan[s] \subseteq TaskId \cup NameRow /\ row \in TaskId \cup NameRow
  BY DEF ProcTypes
<1>4. CASE row \in Found(s, pc[s])
  <2>1. <<KeyOf(pc[s], row), "X">> \in Key \X Mode
    BY <1>2, <1>4, FoundTypes DEF Mode
  <2>2. locks' = [locks EXCEPT ![s] = @ \cup {<<KeyOf(pc[s], row), "X">>}]
    BY <1>1, <1>4 DEF Take
  <2>3. doomed' = doomed \/ doomed' = [doomed EXCEPT ![s] = @ \cup {row}]
    BY <1>1, <1>4
  <2>4. scan' = [scan EXCEPT ![s] = @ \ {row}] /\ Free(s, <<KeyOf(pc[s], row), "X">>)
    BY <1>1
  <2>5. ProcTypes'
    <3>1. scan' \in [Seeder -> SUBSET (TaskId \cup NameRow)]
      BY <2>4 DEF ProcTypes
    <3>2. doomed' \in [Seeder -> SUBSET (TaskId \cup NameRow)]
      <4>1. doomed[s] \cup {row} \in SUBSET (TaskId \cup NameRow)
        BY <1>3 DEF ProcTypes
      <4> QED
        BY <2>3, <4>1 DEF ProcTypes
    <3>3. locks' \in [Proc -> SUBSET (Key \X Mode)]
      BY <2>1, <2>2 DEF ProcTypes
    <3> QED
      BY <1>2, <3>1, <3>2, <3>3 DEF ProcTypes
  <2>6. OthersKept(s)
    BY <1>2, <2>2, <2>3, <2>4 DEF OthersKept, ProcTypes
  <2>7. Locking(s)
    BY <2>2, <2>4 DEF Locking, ProcTypes
  <2> QED
    BY <2>5, <2>6, <2>7
<1>5. CASE row \notin Found(s, pc[s])
  BY <1>1, <1>2, <1>3, <1>5 DEF ProcTypes, OthersKept, Locking
<1> QED
  BY <1>4, <1>5

LEMMA NextStatementKeeps ==
    ASSUME SeedInv, NEW s \in Seeder, NextStatement(s)
    PROVE  ProcTypes' /\ OthersKept(s) /\ Locking(s)
<1> USE DEF SeedInv, VarTypes, Proc
<1>1. Following[pc[s]] \in Stage
  BY DEF NextStatement, Stage, Following
<1>2. Found(s, Following[pc[s]]) \subseteq TaskId \cup NameRow
  BY <1>1, FoundTypes
<1>3. s \notin Req /\ Following[pc[s]] \in SeedPlace
  BY <1>1, ProcAssumption DEF SeedPlace
<1> QED
  BY <1>1, <1>2, <1>3 DEF NextStatement, Scan, Goto, ProcTypes, OthersKept, Locking

LEMMA CommitWipeKeeps ==
    ASSUME SeedInv, NEW s \in Seeder, CommitWipe(s)
    PROVE  ProcTypes' /\ OthersKept(s) /\ Locking(s)
<1>1. s \notin Req /\ AfterNames(0) \in SeedPlace
  BY ProcAssumption, AfterNamesTypes
<1> QED
  BY <1>1 DEF SeedInv, VarTypes, Proc, CommitWipe, Goto, ProcTypes, OthersKept, Locking

LEMMA NextNameTypes ==
    ASSUME SeedInv, NEW s \in Seeder, pc[s] = "names"
    PROVE  /\ Cardinality(known[s]) \in Nat /\ Cardinality(known[s]) + 1 \in 1 .. Len(BaseNames)
           /\ NextName(s) \in Name
<1>1. NamesKnown(s)
  BY DEF SeedInv, RunOK
<1>2. Cardinality(known[s]) \in Nat /\ Cardinality(known[s]) < Len(BaseNames)
  BY <1>1, FS_CardinalityType DEF NamesKnown
<1>3. Len(BaseNames) \in Nat /\ \A i \in 1 .. Len(BaseNames) : BaseNames[i] \in Name
  BY NamesAssumption
<1>4. Cardinality(known[s]) + 1 \in 1 .. Len(BaseNames)
  BY <1>2, <1>3
<1> QED
  BY <1>2, <1>3, <1>4 DEF NextName

LEMMA WipesBounded == ASSUME SeedInv PROVE wipes <= Cardinality(Seeder)
<1>1. IsFiniteSet(Unwiped)
  BY SeederCount, FS_Subset DEF Unwiped
<1> QED
  BY <1>1, SeederCount, FS_CardinalityType DEF SeedInv, WipesCounted, VarTypes, TableTypes

LEMMA UpsertNameKeeps ==
    ASSUME SeedInv, NEW s \in Seeder, UpsertName(s)
    PROVE  ProcTypes' /\ OthersKept(s) /\ Locking(s)
<1>1. pc[s] = "names" /\ s \notin Req
  BY ProcAssumption DEF UpsertName
<1>2. Cardinality(known[s]) \in Nat /\ NextName(s) \in Name
  BY <1>1, NextNameTypes
<1>3. RowOf(NextName(s)) \in NameRow
  BY <1>2, WipesBounded, RowOfName DEF SeedInv
<1>4. AfterNames(Cardinality(known[s]) + 1) \in SeedPlace
  BY <1>2, AfterNamesTypes
<1> QED
  BY <1>1, <1>3, <1>4 DEF SeedInv, VarTypes, Proc, UpsertName, Goto, ProcTypes, OthersKept, Locking

LEMMA DrawKeeps ==
    ASSUME SeedInv, NEW s \in Seeder, Draw(s)
    PROVE  ProcTypes' /\ OthersKept(s) /\ Locking(s)
<1>1. s \notin Req /\ "insert" \in SeedPlace
  BY ProcAssumption DEF SeedPlace
<1>2. PICK d \in Drawn :
        LET project == {n \in known[s] : n[2] = d.project}
            linked == {n \in known[s] : n[2] \in d.tags}
        IN  /\ drafts' = [drafts EXCEPT ![s] = Append(@,
                  [user |-> Seeded, tags |-> linked,
                   project |-> IF project = {} THEN NoProject ELSE CHOOSE n \in project : TRUE])]
            /\ todo' = [todo EXCEPT ![s] = linked]
  BY DEF Draw
<1> DEFINE project == {n \in known[s] : n[2] = d.project}
           linked == {n \in known[s] : n[2] \in d.tags}
           draft == [user |-> Seeded, tags |-> linked,
                     project |-> IF project = {} THEN NoProject ELSE CHOOSE n \in project : TRUE]
<1>3. known[s] \subseteq NameRow /\ drafts[s] \in Seq(Row)
  BY DEF SeedInv, VarTypes, ProcTypes
<1>4. linked \in SUBSET NameRow /\ draft \in Row
  BY <1>3, RunAssumption DEF Row
<1>5. drafts' = [drafts EXCEPT ![s] = Append(drafts[s], draft)] /\ todo' = [todo EXCEPT ![s] = linked]
  BY <1>2
<1> HIDE DEF draft, linked
<1>6. Append(drafts[s], draft) \in Seq(Row)
  BY <1>3, <1>4
<1> QED
  BY <1>1, <1>4, <1>5, <1>6 DEF SeedInv, VarTypes, Proc, Draw, Goto, ProcTypes, OthersKept, Locking

\* A step that only gets a row lock for a foreign key, and goes on.
LEMMA ReferKeeps ==
    ASSUME SeedInv, NEW s \in Seeder, NEW n \in NameRow, Refer(s, n)
    PROVE  ProcTypes' /\ OthersKept(s) /\ Locking(s)
<1>1. CASE n \notin names
  BY <1>1, EndKeeps DEF Refer, SeedInv, VarTypes, Ended, Proc
<1>2. CASE n \in names
  <2>1. /\ Free(s, <<NameKey(n[2]), "S">>) /\ Take(s, <<NameKey(n[2]), "S">>)
        /\ UNCHANGED <<wipe, call, copy, scan, doomed, known, drafts, before>>
    BY <1>2 DEF Refer
  <2>2. \E left \in SUBSET todo[s] : Goto(s, AfterLinks(left)) /\ todo' = [todo EXCEPT ![s] = left]
    <3>1. CASE pc[s] = "insert"
      <4>1. todo' = [todo EXCEPT ![s] = todo[s]]
        BY <1>2, <3>1 DEF Refer, SeedInv, VarTypes, ProcTypes, Proc
      <4> QED
        BY <1>2, <3>1, <4>1 DEF Refer
    <3>2. CASE pc[s] # "insert"
      BY <1>2, <3>2 DEF Refer
    <3> QED
      BY <3>1, <3>2
  <2>3. PICK left \in SUBSET todo[s] : Goto(s, AfterLinks(left)) /\ todo' = [todo EXCEPT ![s] = left]
    BY <2>2
  <2>4. <<NameKey(n[2]), "S">> \in Key \X Mode
    BY NameRowParts DEF Mode
  <2>5. AfterLinks(left) \in SeedPlace /\ s \notin Req
    BY ProcAssumption DEF AfterLinks, SeedPlace
  <2> QED
    BY <2>1, <2>3, <2>4, <2>5 DEF SeedInv, VarTypes, Proc, Goto, Take, ProcTypes, OthersKept, Locking
<1> QED
  BY <1>1, <1>2

LEMMA DraftTypes ==
    ASSUME SeedInv, NEW s \in Seeder, pc[s] \in {"insert", "attach"}
    PROVE  /\ Len(drafts[s]) \in DOMAIN drafts[s] /\ Draft(s) = drafts[s][Len(drafts[s])]
           /\ Draft(s) \in Row /\ Draft(s).project \in NameRow \cup {NoProject} /\ Draft(s).tags \subseteq NameRow
<1>1. drafts[s] \in Seq(Row) /\ drafts[s] # <<>>
  BY DEF SeedInv, VarTypes, ProcTypes, RunOK, DraftsWhole
<1>2. Len(drafts[s]) \in DOMAIN drafts[s] /\ drafts[s][Len(drafts[s])] \in Row
  BY <1>1
<1> QED
  BY <1>2 DEF Draft, Row

LEMMA InsertTaskKeeps ==
    ASSUME SeedInv, NEW s \in Seeder, InsertTask(s)
    PROVE  ProcTypes' /\ OthersKept(s) /\ Locking(s)
<1>1. CASE Draft(s).project = NoProject
  <2>1. AfterLinks(todo[s]) \in SeedPlace /\ s \notin Req
    BY ProcAssumption DEF AfterLinks, SeedPlace
  <2> QED
    BY <1>1, <2>1 DEF InsertTask, SeedInv, VarTypes, Proc, Goto, ProcTypes, OthersKept, Locking
<1>2. CASE Draft(s).project # NoProject
  BY <1>2, DraftTypes, ReferKeeps DEF InsertTask
<1> QED
  BY <1>1, <1>2

LEMMA AttachTagKeeps ==
    ASSUME SeedInv, NEW s \in Seeder, AttachTag(s)
    PROVE  ProcTypes' /\ OthersKept(s) /\ Locking(s)
<1>1. PICK n \in todo[s] : Refer(s, n)
  BY DEF AttachTag
<1>2. n \in NameRow
  BY DEF SeedInv, VarTypes, ProcTypes
<1> QED
  BY <1>1, <1>2, ReferKeeps

LEMMA CommitTasksKeeps ==
    ASSUME SeedInv, NEW s \in Seeder, CommitTasks(s)
    PROVE  ProcTypes' /\ OthersKept(s) /\ Locking(s)
BY EndKeeps DEF CommitTasks, SeedInv, VarTypes, Ended, Proc

\* The locks a request gets are locks of the keys there are.
LEMMA NeedsTypes ==
    ASSUME SeedInv, NEW r \in Req, pc[r] \in {"project", "row", "write", "unlink", "link", "fk"}
    PROVE  Needs(r) \subseteq Key \X Mode
<1>1. /\ call[r].task \in TaskId /\ call[r].project \in Project \cup {NoProject} /\ call[r].tags \subseteq Tag
  BY CallTypes DEF SeedInv
<1>2. pc[r] \notin Stage
  BY DEF Stage
<1>3. CASE pc[r] = "project"
  BY <1>1, <1>2, <1>3 DEF Needs, NameKey, Key, Mode, Name
<1>4. CASE pc[r] \in {"row", "write", "unlink"}
  BY <1>1, <1>2, <1>4 DEF Needs, TaskKey, LinksKey, Key, Mode
<1>5. CASE pc[r] = "link"
  <2>1. Needs(r) = {<<NameKey(n), "X">> : n \in todo[r]}
    BY <1>2, <1>5 DEF Needs
  <2>2. todo[r] \subseteq Tag
    BY <1>5 DEF SeedInv, ReqOK, Proc
  <2> QED
    BY <2>1, <2>2 DEF NameKey, Key, Mode, Name
<1>6. CASE pc[r] = "fk"
  <2>1. Needs(r) = {<<NameKey(n[2]), "S">> : n \in {copy[r]} \cap names}
    BY <1>2, <1>6 DEF Needs
  <2>2. \A n \in names : NameKey(n[2]) \in Key
    BY NameRowParts DEF SeedInv, VarTypes, TableTypes
  <2> QED
    BY <2>1, <2>2 DEF Mode
<1> QED
  BY <1>3, <1>4, <1>5, <1>6

LEMMA SubmitKeeps ==
    ASSUME SeedInv, NEW r \in Req, Submit(r)
    PROVE  ProcTypes' /\ OthersKept(r) /\ Locking(r)
<1>1. \E step \in ReqPlace : pc' = [pc EXCEPT ![r] = step]
  BY DEF Submit, Goto, ReqPlace
<1>2. UNCHANGED <<wipe, call, scan, doomed, known, drafts, before, copy, todo, locks>> /\ r \notin Seeder
  BY ProcAssumption DEF Submit, RequestOnly
<1> QED
  BY <1>1, <1>2 DEF SeedInv, VarTypes, Proc, ProcTypes, OthersKept, Locking

\* A statement of a request that gets all the locks it needs.
LEMMA LockAllKeeps ==
    ASSUME SeedInv, NEW r \in Req, NEW step \in ReqPlace, NEW left \in SUBSET Tag,
           pc[r] \in {"project", "row", "write", "unlink", "link", "fk"},
           \A lock \in Needs(r) : Free(r, lock), locks' = [locks EXCEPT ![r] = @ \cup Needs(r)],
           Goto(r, step), RequestOnly, UNCHANGED copy,
           todo' = todo \/ todo' = [todo EXCEPT ![r] = left]
    PROVE  ProcTypes' /\ OthersKept(r) /\ Locking(r)
<1>1. Needs(r) \subseteq Key \X Mode /\ r \notin Seeder
  BY NeedsTypes, ProcAssumption
<1>2. ProcTypes'
  BY <1>1 DEF SeedInv, VarTypes, Proc, ProcTypes, Goto, RequestOnly
<1>3. OthersKept(r) /\ Locking(r)
  BY <1>1 DEF SeedInv, VarTypes, Proc, ProcTypes, Goto, RequestOnly, OthersKept, Locking
<1> QED
  BY <1>2, <1>3

LEMMA UpsertProjectKeeps ==
    ASSUME SeedInv, NEW r \in Req, UpsertProject(r)
    PROVE  ProcTypes' /\ OthersKept(r) /\ Locking(r)
<1> DEFINE step == IF call[r].op = "create" THEN "unlink" ELSE "row"
<1>1. step \in ReqPlace /\ {} \in SUBSET Tag
  BY DEF ReqPlace
<1> QED
  BY <1>1, LockAllKeeps DEF UpsertProject

LEMMA UpdateRowKeeps ==
    ASSUME SeedInv, NEW r \in Req, UpdateRow(r)
    PROVE  ProcTypes' /\ OthersKept(r) /\ Locking(r)
<1>1. "unlink" \in ReqPlace /\ {} \in SUBSET Tag
  BY DEF ReqPlace
<1>2. CASE Live(call[r].task)
  BY <1>1, <1>2, LockAllKeeps DEF UpdateRow
<1>3. CASE ~ Live(call[r].task)
  BY <1>3, EndKeeps DEF UpdateRow, SeedInv, VarTypes, Ended, Proc
<1> QED
  BY <1>2, <1>3

LEMMA ClearTagsKeeps ==
    ASSUME SeedInv, NEW r \in Req, ClearTags(r)
    PROVE  ProcTypes' /\ OthersKept(r) /\ Locking(r)
<1>1. "link" \in ReqPlace /\ call[r].tags \in SUBSET Tag
  BY CallTypes DEF ReqPlace, SeedInv
<1> QED
  BY <1>1, LockAllKeeps DEF ClearTags

LEMMA LinkTagKeeps ==
    ASSUME SeedInv, NEW r \in Req, LinkTag(r)
    PROVE  ProcTypes' /\ OthersKept(r) /\ Locking(r)
<1>1. PICK n \in todo[r] :
        Free(r, <<NameKey(n), "X">>) /\ Take(r, <<NameKey(n), "X">>) /\ todo' = [todo EXCEPT ![r] = @ \ {n}]
  BY DEF LinkTag
<1>2. n \in Tag /\ r \notin Seeder
  BY ProcAssumption DEF LinkTag, SeedInv, ReqOK, Proc
<1>3. <<NameKey(n), "X">> \in Key \X Mode
  BY <1>2 DEF NameKey, Key, Mode, Name
<1>4. UNCHANGED <<wipe, call, scan, doomed, known, drafts, before, pc, copy>>
  BY DEF LinkTag, RequestOnly
<1> QED
  BY <1>1, <1>2, <1>3, <1>4 DEF SeedInv, VarTypes, Proc, ProcTypes, OthersKept, Locking, Take

LEMMA CommitFormKeeps ==
    ASSUME SeedInv, NEW r \in Req, CommitForm(r)
    PROVE  ProcTypes' /\ OthersKept(r) /\ Locking(r)
BY EndKeeps DEF CommitForm, SeedInv, VarTypes, Ended, Proc

LEMMA GetKeeps ==
    ASSUME SeedInv, NEW r \in Req, Get(r)
    PROVE  ProcTypes' /\ OthersKept(r) /\ Locking(r)
<1>1. CASE Live(call[r].task)
  <2>1. tasks[call[r].task].project \in NameRow \cup {NoProject}
    BY <1>1, CallTypes, RowTypes DEF Live, SeedInv
  <2>2. "write" \in ReqPlace /\ r \notin Seeder
    BY ProcAssumption DEF ReqPlace
  <2>3. /\ copy' = [copy EXCEPT ![r] = tasks[call[r].task].project] /\ pc' = [pc EXCEPT ![r] = "write"]
        /\ UNCHANGED <<wipe, call, scan, doomed, known, drafts, before, todo, locks>>
    BY <1>1 DEF Get, Goto, RequestOnly
  <2> QED
    BY <2>1, <2>2, <2>3 DEF SeedInv, VarTypes, Proc, ProcTypes, OthersKept, Locking
<1>2. CASE ~ Live(call[r].task)
  BY <1>2, EndKeeps DEF Get, SeedInv, VarTypes, Ended, Proc
<1> QED
  BY <1>1, <1>2

LEMMA WriteRowKeeps ==
    ASSUME SeedInv, NEW r \in Req, WriteRow(r)
    PROVE  ProcTypes' /\ OthersKept(r) /\ Locking(r)
<1>1. "fk" \in ReqPlace /\ {} \in SUBSET Tag
  BY DEF ReqPlace
<1>2. CASE End(r, "failed") \/ End(r, "done")
  BY <1>2, EndKeeps DEF SeedInv, VarTypes, Ended, Proc
<1>3. CASE ~ (End(r, "failed") \/ End(r, "done"))
  BY <1>1, <1>3, LockAllKeeps DEF WriteRow
<1> QED
  BY <1>2, <1>3

LEMMA CheckFkKeeps ==
    ASSUME SeedInv, NEW r \in Req, CheckFk(r)
    PROVE  ProcTypes' /\ OthersKept(r) /\ Locking(r)
BY EndKeeps DEF CheckFk, SeedInv, VarTypes, Ended, Proc

LEMMA StepKeeps ==
    ASSUME SeedInv, NEW x \in Proc, Step(x)
    PROVE  ProcTypes' /\ OthersKept(x) /\ Locking(x)
<1>1. CASE x \in Seeder /\ SeedStep(x)
  BY <1>1, StartKeeps, LockRowKeeps, NextStatementKeeps, CommitWipeKeeps, UpsertNameKeeps, DrawKeeps,
     InsertTaskKeeps, AttachTagKeeps, CommitTasksKeeps DEF SeedStep
<1>2. CASE x \in Req /\ (Submit(x) \/ RequestStep(x))
  BY <1>2, SubmitKeeps, UpsertProjectKeeps, UpdateRowKeeps, ClearTagsKeeps, LinkTagKeeps, CommitFormKeeps,
     GetKeeps, WriteRowKeeps, CheckFkKeeps DEF RequestStep
<1>3. CASE Fail(x) \/ DeadlockAbort(x)
  BY <1>3, EndKeeps DEF Fail, DeadlockAbort, SeedInv, VarTypes, Ended
<1> QED
  BY <1>1, <1>2, <1>3 DEF Step

\* What a step of x may do to the tables.  Only the end of a wipe takes rows away,
\* the user's and locked by x; a new name has the number of the wipes before it; a
\* new task has the id it was to get; a task stays its user's.
Wiping(x) == x \in Seeder /\ pc[x] = "cascade" /\ pc'[x] \in {"names", "draw"} /\ wipes' = wipes + 1
Inserting(x, t) ==
    \/ x \in Req /\ call[x].op = "create" /\ t = <<x, 1>>
    \/ x \in Seeder /\ t \in {x} \X (1 .. Count) /\ \A k \in 1 .. Count : tasks'[<<x, k>>] # NoRow

Tables(x) ==
    /\ wipes' = wipes \/ Wiping(x)
    /\ \A n \in names \ names' : Wiping(x) /\ n[1] = Seeded /\ <<NameKey(n[2]), "X">> \in locks[x]
    /\ \A n \in names' \ names : n[1] = Seeded /\ n[3] = wipes /\ ~ Wiping(x)
    /\ \A t \in TaskId :
          /\ tasks[t] # NoRow /\ tasks'[t] = NoRow =>
                Wiping(x) /\ tasks[t].user = Seeded /\ <<TaskKey(t), "X">> \in locks[x]
          /\ tasks[t] = NoRow /\ tasks'[t] # NoRow =>
                Inserting(x, t) /\ pc[x] # "done" /\ pc'[x] = "done" /\ tasks'[t].user = Seeded
          /\ tasks[t] # NoRow /\ tasks'[t] # NoRow => tasks'[t].user = tasks[t].user
          /\ tasks[t] # NoRow /\ tasks'[t] # tasks[t] =>
                \/ Wiping(x) /\ tasks[t].user = Seeded
                \/ x \in Req /\ pc'[x] # pc[x] /\ call[x].task = t

Stored == TableTypes' /\ Whole' /\ Unique'

LEMMA TablesSame ==
    ASSUME SeedInv, NEW x \in Proc, UNCHANGED dbVars
    PROVE  Tables(x) /\ Stored
BY DEF SeedInv, VarTypes, dbVars, Tables, Stored, TableTypes, Whole, Unique

LEMMA CommitWipeTables ==
    ASSUME SeedInv, NEW s \in Seeder, CommitWipe(s)
    PROVE  Tables(s) /\ Stored
<1>1. /\ tasks' = [t \in TaskId |->
              CASE t \in doomed[s] -> NoRow
                [] tasks[t] = NoRow -> NoRow
                [] OTHER -> [tasks[t] EXCEPT !.project = IF @ \in doomed[s] THEN NoProject ELSE @,
                                             !.tags = @ \ doomed[s]]]
      /\ names' = names \ doomed[s] /\ wipes' = wipes + 1
  BY DEF CommitWipe
<1>2. Wiping(s)
  <2>1. pc' = [pc EXCEPT ![s] = AfterNames(0)] /\ pc[s] = "cascade" /\ AfterNames(0) \in {"names", "draw"}
    BY AfterNamesTypes DEF CommitWipe, Goto
  <2> QED
    BY <1>1, <2>1 DEF Wiping, SeedInv, VarTypes, ProcTypes, Proc
<1>3. DoomedLocked(s) /\ TableTypes /\ Whole /\ Unique
  BY DEF SeedInv, VarTypes, RunOK
<1>4. \A n \in names \cap doomed[s] : n[1] = Seeded /\ <<NameKey(n[2]), "X">> \in locks[s]
  BY <1>3 DEF DoomedLocked, TableTypes
<1>5. ASSUME NEW t \in TaskId, tasks[t] # NoRow, t \notin doomed[s]
      PROVE  /\ tasks'[t] \in Row /\ tasks'[t].user = tasks[t].user
             /\ Refs(tasks'[t]) = Refs(tasks[t]) \ doomed[s]
             /\ tasks'[t] # tasks[t] => tasks[t].user = Seeded
  <2>1. /\ tasks[t] \in Row /\ tasks[t].user \in User /\ tasks[t].project \in NameRow \cup {NoProject}
        /\ tasks[t].tags \subseteq NameRow
    BY <1>5, RowTypes DEF SeedInv
  <2>2. tasks'[t] = [user |-> tasks[t].user,
                     project |-> IF tasks[t].project \in doomed[s] THEN NoProject ELSE tasks[t].project,
                     tags |-> tasks[t].tags \ doomed[s]]
    BY <1>1, <1>5, <2>1 DEF Row
  <2>3. tasks'[t] \in Row /\ tasks'[t].user = tasks[t].user
    BY <2>1, <2>2 DEF Row
  <2>4. NoProject \notin doomed[s]
    <3>1. doomed[s] \subseteq TaskId \cup NameRow /\ NoProject \notin NameRow \cup TaskId
      BY NullAssumption DEF SeedInv, VarTypes, ProcTypes
    <3> QED
      BY <3>1
  <2>5. Refs(tasks'[t]) = Refs(tasks[t]) \ doomed[s]
    BY <2>1, <2>2, <2>4 DEF Refs
  <2>6. ASSUME tasks[t].user # Seeded
        PROVE  tasks'[t] = tasks[t]
    <3>1. Refs(tasks[t]) \cap doomed[s] = {}
      BY <1>3, <1>4, <1>5, <2>6 DEF Whole
    <3>2. tasks[t].project \notin doomed[s] /\ tasks[t].tags \ doomed[s] = tasks[t].tags
      BY <2>4, <3>1 DEF Refs
    <3> QED
      BY <2>1, <2>2, <3>2 DEF Row
  <2> QED
    BY <2>3, <2>5, <2>6
<1>6. \A t \in TaskId : (t \in doomed[s] \/ tasks[t] = NoRow) => tasks'[t] = NoRow
  BY <1>1
<1>7. \A t \in TaskId \cap doomed[s] : OfUser(t) /\ <<TaskKey(t), "X">> \in locks[s]
  BY <1>3 DEF DoomedLocked
<1>8. NoRow \notin Row
  BY NullAssumption
<1>9. Tables(s)
  <2>1. ASSUME NEW t \in TaskId, tasks[t] # NoRow, tasks'[t] # tasks[t]
        PROVE  /\ tasks[t].user = Seeded
               /\ tasks'[t] = NoRow => <<TaskKey(t), "X">> \in locks[s]
               /\ tasks'[t] # NoRow => tasks'[t].user = tasks[t].user
    BY <1>5, <1>6, <1>7, <1>8, <2>1 DEF OfUser
  <2>2. \A n \in names \ names' : n[1] = Seeded /\ <<NameKey(n[2]), "X">> \in locks[s]
    BY <1>1, <1>4
  <2>3. names' \ names = {}
    BY <1>1
  <2>4. \A t \in TaskId : tasks[t] = NoRow => tasks'[t] = NoRow
    BY <1>6
  <2> QED
    BY <1>2, <2>1, <2>2, <2>3, <2>4 DEF Tables
<1>10. Stored
  <2>1. TableTypes'
    <3>1. \A t \in TaskId : tasks'[t] \in Row \cup {NoRow}
      BY <1>5, <1>6
    <3> DEFINE left(t) == CASE t \in doomed[s] -> NoRow
                            [] tasks[t] = NoRow -> NoRow
                            [] OTHER -> [tasks[t] EXCEPT
                                  !.project = IF @ \in doomed[s] THEN NoProject ELSE @,
                                  !.tags = @ \ doomed[s]]
    <3>2. tasks' = [t \in TaskId |-> left(t)]
      BY <1>1
    <3> HIDE DEF left
    <3>3. tasks' \in [TaskId -> Row \cup {NoRow}]
      <4>1. \A t \in TaskId : left(t) \in Row \cup {NoRow}
        BY <3>1, <3>2
      <4> QED
        BY <3>2, <4>1
    <3>4. names' = names \ doomed[s] /\ wipes' = wipes + 1
      BY <1>1
    <3>5. names \subseteq NameRow /\ wipes \in Nat
      BY <1>3 DEF TableTypes
    <3>6. names' \subseteq NameRow /\ wipes' \in Nat
      BY <3>4, <3>5
    <3> QED
      BY <3>3, <3>6 DEF TableTypes
  <2>2. Unique'
    BY <1>1, <1>3 DEF Unique
  <2>3. Whole'
    <3> SUFFICES ASSUME NEW t \in TaskId, tasks'[t] # NoRow
                 PROVE  Refs(tasks'[t]) \subseteq {n \in names' : n[1] = tasks'[t].user}
      BY DEF Whole
    <3>1. tasks[t] # NoRow /\ t \notin doomed[s]
      BY <1>6
    <3>2. Refs(tasks[t]) \subseteq {n \in names : n[1] = tasks[t].user}
      BY <1>3, <3>1 DEF Whole
    <3> QED
      BY <1>1, <1>5, <3>1, <3>2
  <2> QED
    BY <2>1, <2>2, <2>3 DEF Stored
<1> QED
  BY <1>9, <1>10

LEMMA UpsertNameTables ==
    ASSUME SeedInv, NEW s \in Seeder, UpsertName(s)
    PROVE  Tables(s) /\ Stored
<1>1. pc[s] = "names" /\ names' = names \cup {RowOf(NextName(s))} /\ UNCHANGED <<tasks, wipes>>
  BY DEF UpsertName
<1>2. NextName(s) \in Name
  BY <1>1, NextNameTypes
<1> DEFINE new == RowOf(NextName(s))
<1>3. /\ new \in NameRow /\ new[1] = Seeded /\ new[2] = NextName(s)
      /\ \A n \in names : n[1] = Seeded /\ n[2] = NextName(s) => n = new
      /\ new \notin names => new = <<Seeded, NextName(s), wipes>>
  BY <1>2, WipesBounded, RowOfName DEF SeedInv
<1> HIDE DEF new
<1>4. names' = names \cup {new}
  BY <1>1 DEF new
<1>5. Tables(s)
  <2>1. ~ Wiping(s)
    BY <1>1 DEF Wiping
  <2>2. new \notin names => new[3] = wipes
    BY <1>3
  <2> QED
    BY <1>1, <1>3, <1>4, <2>1, <2>2 DEF Tables
<1>6. Stored
  BY <1>1, <1>3, <1>4 DEF Stored, SeedInv, VarTypes, TableTypes, Whole, Unique
<1> QED
  BY <1>5, <1>6

LEMMA CommitTasksTables ==
    ASSUME SeedInv, NEW s \in Seeder, CommitTasks(s)
    PROVE  Tables(s) /\ Stored
<1>1. /\ pc[s] = "draw" /\ Len(drafts[s]) = Count /\ UNCHANGED <<names, wipes>>
      /\ tasks' = [t \in TaskId |-> IF t \in {s} \X (1 .. Count) THEN drafts[s][t[2]] ELSE tasks[t]]
      /\ pc' = [pc EXCEPT ![s] = "done"]
  BY DEF CommitTasks, End, Goto
<1>2. pc'[s] = "done" /\ ~ Wiping(s)
  BY <1>1 DEF SeedInv, VarTypes, ProcTypes, Proc, Wiping
<1>3. \A t \in TaskId : t \notin {s} \X (1 .. Count) => tasks'[t] = tasks[t]
  BY <1>1
<1>4. ASSUME NEW k \in 1 .. Count
      PROVE  /\ <<s, k>> \in TaskId /\ tasks[<<s, k>>] = NoRow /\ tasks'[<<s, k>>] = drafts[s][k]
             /\ drafts[s][k] \in Row /\ drafts[s][k].user = Seeded
             /\ Refs(drafts[s][k]) \subseteq {n \in names : n[1] = Seeded}
  <2>1. drafts[s] \in Seq(Row) /\ DraftsWhole(s) /\ NewIds
    BY DEF SeedInv, VarTypes, ProcTypes, RunOK
  <2>2. k \in DOMAIN drafts[s] /\ drafts[s][k] \in Row
    BY <1>1, <2>1
  <2>3. <<s, k>> \in TaskId
    BY IdsApart
  <2>4. ToCome(<<s, k>>)
    BY <1>1 DEF ToCome
  <2>5. tasks[<<s, k>>] = NoRow
    BY <2>1, <2>3, <2>4 DEF NewIds
  <2>6. tasks'[<<s, k>>] = drafts[s][k]
    BY <1>1, <2>3
  <2>7. todo[s] = {} /\ pc[s] # "insert"
    BY <1>1, <2>1 DEF DraftsWhole
  <2>8. drafts[s][k].user = Seeded /\ \A n \in Refs(drafts[s][k]) : n[1] = Seeded /\ n \in names
    BY <2>1, <2>2, <2>7 DEF DraftsWhole, Unchecked
  <2> QED
    BY <2>2, <2>3, <2>5, <2>6, <2>8
<1>5. NoRow \notin Row
  BY NullAssumption
<1>6. Tables(s)
  <2>1. \A k \in 1 .. Count : tasks'[<<s, k>>] # NoRow
    BY <1>4, <1>5
  <2>2. ASSUME NEW t \in TaskId, tasks'[t] # tasks[t]
        PROVE  tasks[t] = NoRow /\ Inserting(s, t) /\ tasks'[t].user = Seeded
    <3>1. PICK k \in 1 .. Count : t = <<s, k>>
      BY <1>3, <2>2
    <3> QED
      BY <1>4, <2>1, <3>1 DEF Inserting
  <2> QED
    BY <1>1, <1>2, <2>2 DEF Tables
<1>7. Stored
  <2>1. \A t \in TaskId : tasks'[t] = tasks[t] \/ \E k \in 1 .. Count : t = <<s, k>> /\ tasks'[t] = drafts[s][k]
    BY <1>3, <1>4
  <2>2. tasks' = [t \in TaskId |-> tasks'[t]]
    BY <1>1
  <2>3. \A t \in TaskId : tasks'[t] \in Row \cup {NoRow}
    BY <1>4, <2>1 DEF SeedInv, VarTypes, TableTypes
  <2>4. tasks' \in [TaskId -> Row \cup {NoRow}]
    BY <2>2, <2>3
  <2>5. Whole'
    BY <1>1, <1>4, <2>1 DEF Whole, SeedInv
  <2> QED
    BY <1>1, <2>4, <2>5 DEF Stored, SeedInv, VarTypes, TableTypes, Unique
<1> QED
  BY <1>6, <1>7

\* One task of the user, there or new, gets another row with what it refers to.
LEMMA OneTaskTables ==
    ASSUME SeedInv, NEW r \in Req, NEW row \in Row, row.user = Seeded,
           NEW new \in SUBSET NameRow, names' = names \cup new, wipes' = wipes,
           \A n \in new : n[1] = Seeded /\ (n \notin names => n[3] = wipes),
           \A m, n \in names \cup new : m[1] = n[1] /\ m[2] = n[2] => m = n,
           tasks' = [tasks EXCEPT ![call[r].task] = row],
           Refs(row) \subseteq {n \in names \cup new : n[1] = Seeded},
           call[r].op = "create" \/ Live(call[r].task),
           pc[r] \notin Ended, pc'[r] = "done"
    PROVE  Tables(r) /\ Stored
<1> DEFINE t == call[r].task
<1>1. t \in TaskId /\ (call[r].op = "create" <=> t = <<r, 1>>)
  BY CallTypes DEF SeedInv
<1>2. tasks'[t] = row /\ \A u \in TaskId \ {t} : tasks'[u] = tasks[u]
  BY <1>1 DEF SeedInv, VarTypes, TableTypes
<1>3. ~ Wiping(r) /\ NoRow \notin Row
  BY ProcAssumption, NullAssumption DEF Wiping
<1>4. tasks[t] # NoRow => tasks[t].user = Seeded
  <2>1. CASE call[r].op = "create"
    <3>1. ToCome(t)
      BY <1>1, <2>1 DEF ToCome, Ended
    <3> QED
      BY <1>1, <3>1 DEF SeedInv, NewIds
  <2>2. CASE Live(t)
    BY <2>2 DEF Live
  <2> QED
    BY <2>1, <2>2
<1>5. tasks[t] = NoRow => Inserting(r, t)
  BY <1>1 DEF Live, Inserting
<1> HIDE DEF t
<1>6. Tables(r)
  <2>1. pc[r] # "done" /\ pc'[r] # pc[r] /\ t = call[r].task
    BY DEF Ended, t
  <2> QED
    BY <1>2, <1>3, <1>4, <1>5, <2>1 DEF Tables
<1>7. Stored
  <2>1. Whole'
    BY <1>2 DEF Whole, SeedInv
  <2>2. Unique'
    BY DEF Unique
  <2>3. TableTypes'
    BY DEF SeedInv, VarTypes, TableTypes
  <2> QED
    BY <2>1, <2>2, <2>3 DEF Stored
<1> QED
  BY <1>6, <1>7

LEMMA CommitFormTables ==
    ASSUME SeedInv, NEW r \in Req, CommitForm(r)
    PROVE  Tables(r) /\ Stored
<1> DEFINE linked == {RowOf(n) : n \in call[r].tags}
           own == {RowOf(p) : p \in {call[r].project} \ {NoProject}}
           row == [user |-> Seeded, tags |-> linked,
                   project |-> IF own = {} THEN NoProject ELSE RowOf(call[r].project)]
<1>1. /\ pc[r] = "link" /\ pc' = [pc EXCEPT ![r] = "done"] /\ wipes' = wipes
      /\ tasks' = [tasks EXCEPT ![call[r].task] = row]
      /\ names' = names \cup (linked \cup own)
  BY DEF CommitForm, End, Goto
<1>2. call[r].tags \subseteq Name /\ call[r].project \in Name \cup {NoProject}
  BY CallTypes DEF SeedInv, Name
<1>3. ASSUME NEW name \in Name
      PROVE  /\ RowOf(name) \in NameRow /\ RowOf(name)[1] = Seeded /\ RowOf(name)[2] = name
             /\ RowOf(name) \notin names => RowOf(name)[3] = wipes
             /\ \A n \in names : n[1] = Seeded /\ n[2] = name => n = RowOf(name)
  BY WipesBounded, RowOfName DEF SeedInv
<1>4. \A n \in linked \cup own : n[2] \in Name /\ n = RowOf(n[2])
  BY <1>2, <1>3
<1>5. own = {} \/ (RowOf(call[r].project) \in own /\ call[r].project \in Name)
  BY <1>2
<1>6. own = {} <=> call[r].project = NoProject
  OBVIOUS
<1>7. linked \in SUBSET NameRow /\ own \in SUBSET NameRow
  BY <1>2, <1>3
<1>8. row \in Row /\ row.user = Seeded /\ Refs(row) \subseteq linked \cup own
  BY <1>5, <1>7, RunAssumption DEF Row, Refs
<1> DEFINE new == linked \cup own
<1>9. new \in SUBSET NameRow /\ names' = names \cup new /\ Refs(row) \subseteq new
      /\ (\A n \in new : n[2] \in Name /\ n = RowOf(n[2]))
  BY <1>1, <1>4, <1>7, <1>8
<1>10. tasks' = [tasks EXCEPT ![call[r].task] = row]
  BY <1>1
<1>11. call[r].op = "create" \/ Live(call[r].task)
  BY <1>1 DEF SeedInv, ReqOK, TaskHeld
<1>12. pc[r] \notin Ended /\ pc'[r] = "done"
  BY <1>1 DEF SeedInv, VarTypes, ProcTypes, Proc, Ended
<1> HIDE DEF new, row
<1>13. \A n \in new : n[1] = Seeded /\ (n \notin names => n[3] = wipes)
  BY <1>3, <1>9
<1>14. \A m, n \in names \cup new : m[1] = n[1] /\ m[2] = n[2] => m = n
  BY <1>3, <1>9, <1>13 DEF SeedInv, Unique
<1> QED
  BY <1>1, <1>8, <1>9, <1>10, <1>11, <1>12, <1>13, <1>14, OneTaskTables

\* Archive writes back the project it has read, or one that is there.
LEMMA WriteBackTables ==
    ASSUME SeedInv, NEW r \in Req, UNCHANGED <<names, wipes>>, Live(call[r].task),
           tasks' = [tasks EXCEPT ![call[r].task].project = copy[r]],
           copy[r] \in {NoProject, tasks[call[r].task].project} \cup names,
           pc[r] \notin Ended, pc'[r] = "done"
    PROVE  Tables(r) /\ Stored
<1> DEFINE t == call[r].task
           row == [tasks[t] EXCEPT !.project = copy[r]]
<1>1. t \in TaskId /\ tasks[t] # NoRow /\ tasks[t].user = Seeded
  BY CallTypes DEF SeedInv, Live
<1>2. /\ tasks[t] \in Row /\ copy[r] \in NameRow \cup {NoProject} /\ tasks[t].tags \subseteq NameRow
      /\ Refs(tasks[t]) \subseteq {n \in names : n[1] = Seeded}
  BY <1>1, RowTypes DEF SeedInv, VarTypes, ProcTypes, Whole
<1>3. row = [user |-> Seeded, project |-> copy[r], tags |-> tasks[t].tags]
  BY <1>1, <1>2 DEF Row
<1>4. row \in Row /\ row.user = Seeded
  BY <1>2, <1>3, RunAssumption DEF Row
<1>5. copy[r] # NoProject => copy[r] \in names /\ copy[r][1] = Seeded
  BY <1>2 DEF Refs, SeedInv, ReqOK, CopyOwn
<1>6. Refs(row) \subseteq {n \in names \cup {} : n[1] = Seeded}
  BY <1>2, <1>3, <1>5 DEF Refs
<1>7. tasks' = [tasks EXCEPT ![call[r].task] = row]
  OBVIOUS
<1>8. Live(call[r].task)
  OBVIOUS
<1> HIDE DEF row
<1>9. \A m, n \in names \cup {} : m[1] = n[1] /\ m[2] = n[2] => m = n
  BY DEF SeedInv, Unique
<1>10. {} \in SUBSET NameRow /\ names' = names \cup {} /\ wipes' = wipes
  OBVIOUS
<1> QED
  BY <1>4, <1>6, <1>7, <1>8, <1>9, <1>10, OneTaskTables

LEMMA WriteRowTables ==
    ASSUME SeedInv, NEW r \in Req, WriteRow(r)
    PROVE  Tables(r) /\ Stored
<1>1. pc[r] = "write" /\ UNCHANGED <<names, wipes>>
  BY DEF WriteRow
<1>2. CASE pc'[r] = "done"
  <2>1. Live(call[r].task) /\ copy[r] \in {NoProject, tasks[call[r].task].project}
    BY <1>2 DEF WriteRow, End, Goto, SeedInv, VarTypes, ProcTypes, Proc
  <2>2. tasks' = [tasks EXCEPT ![call[r].task].project = copy[r]]
    BY <1>2 DEF WriteRow
  <2> QED
    BY <1>1, <1>2, <2>1, <2>2, WriteBackTables DEF Ended
<1>3. CASE pc'[r] # "done"
  BY <1>1, <1>3, TablesSame DEF WriteRow, Proc, dbVars
<1> QED
  BY <1>2, <1>3

LEMMA CheckFkTables ==
    ASSUME SeedInv, NEW r \in Req, CheckFk(r)
    PROVE  Tables(r) /\ Stored
<1>1. pc[r] = "fk" /\ UNCHANGED <<names, wipes>>
  BY DEF CheckFk
<1>2. CASE copy[r] \in names
  <2>1. Live(call[r].task)
    BY <1>1 DEF SeedInv, ReqOK, TaskHeld
  <2>2. tasks' = [tasks EXCEPT ![call[r].task].project = copy[r]] /\ pc' = [pc EXCEPT ![r] = "done"]
    BY <1>2 DEF CheckFk, End, Goto
  <2>3. pc'[r] = "done"
    BY <2>2 DEF SeedInv, VarTypes, ProcTypes, Proc
  <2> QED
    BY <1>1, <1>2, <2>1, <2>2, <2>3, WriteBackTables DEF Ended
<1>3. CASE copy[r] \notin names
  BY <1>1, <1>3, TablesSame DEF CheckFk, Proc, dbVars
<1> QED
  BY <1>2, <1>3

LEMMA StepTables ==
    ASSUME SeedInv, NEW x \in Proc, Step(x)
    PROVE  Tables(x) /\ Stored
<1>1. CASE CommitWipe(x) /\ x \in Seeder
  BY <1>1, CommitWipeTables
<1>2. CASE UpsertName(x) /\ x \in Seeder
  BY <1>2, UpsertNameTables
<1>3. CASE CommitTasks(x) /\ x \in Seeder
  BY <1>3, CommitTasksTables
<1>4. CASE CommitForm(x) /\ x \in Req
  BY <1>4, CommitFormTables
<1>5. CASE WriteRow(x) /\ x \in Req
  BY <1>5, WriteRowTables
<1>6. CASE CheckFk(x) /\ x \in Req
  BY <1>6, CheckFkTables
<1>7. CASE UNCHANGED dbVars
  BY <1>7, TablesSame
<1>8. \/ Start(x) \/ LockRow(x) \/ NextStatement(x) \/ Draw(x) \/ InsertTask(x) \/ AttachTag(x)
      \/ Submit(x) \/ UpsertProject(x) \/ UpdateRow(x) \/ ClearTags(x) \/ LinkTag(x) \/ Get(x)
      \/ Fail(x) \/ DeadlockAbort(x)
      => UNCHANGED dbVars
  BY DEF Start, LockRow, NextStatement, Draw, InsertTask, AttachTag, Submit, UpsertProject, UpdateRow,
         ClearTags, LinkTag, Get, Fail, DeadlockAbort
<1> QED
  BY <1>1, <1>2, <1>3, <1>4, <1>5, <1>6, <1>7, <1>8 DEF Step, SeedStep, RequestStep

------------------------------------------------------------------------------
(* The parts of the invariant that are about everyone *)

LEMMA StepExclusive ==
    ASSUME SeedInv, NEW x \in Proc, Step(x)
    PROVE  Exclusive'
<1>1. ProcTypes /\ ProcTypes' /\ OthersKept(x) /\ Locking(x) /\ Exclusive
  BY StepKeeps DEF SeedInv, VarTypes
<1>2. ASSUME NEW y \in Proc \ {x}, NEW k \in Key,
             <<k, "X">> \in locks'[x] /\ (<<k, "X">> \in locks'[y] \/ <<k, "S">> \in locks'[y])
      PROVE  FALSE
  <2>1. <<k, "X">> \in locks[y] \/ <<k, "S">> \in locks[y]
    BY <1>1, <1>2 DEF OthersKept
  <2>2. CASE <<k, "X">> \in locks[x]
    BY <1>1, <2>1, <2>2 DEF Exclusive
  <2>3. CASE Free(x, <<k, "X">>)
    BY <2>1, <2>3 DEF Free, Blocks
  <2> QED
    BY <1>1, <1>2, <2>2, <2>3 DEF Locking
<1>3. ASSUME NEW y \in Proc \ {x}, NEW k \in Key,
             <<k, "X">> \in locks'[y] /\ (<<k, "X">> \in locks'[x] \/ <<k, "S">> \in locks'[x])
      PROVE  FALSE
  <2>1. <<k, "X">> \in locks[y]
    BY <1>1, <1>3 DEF OthersKept
  <2>2. CASE <<k, "X">> \in locks[x] \/ <<k, "S">> \in locks[x]
    BY <1>1, <2>1, <2>2 DEF Exclusive
  <2>3. CASE Free(x, <<k, "X">>) \/ Free(x, <<k, "S">>)
    BY <2>1, <2>3 DEF Free, Blocks
  <2> QED
    BY <1>1, <1>3, <2>2, <2>3 DEF Locking
<1>4. ASSUME NEW y \in Proc \ {x}, NEW z \in Proc \ {x}, y # z, NEW k \in Key, <<k, "X">> \in locks'[y]
      PROVE  <<k, "X">> \notin locks'[z] /\ <<k, "S">> \notin locks'[z]
  BY <1>1, <1>4 DEF OthersKept, Exclusive
<1> QED
  BY <1>2, <1>3, <1>4 DEF Exclusive

\* Of a pair of locks of two processes on a key, neither is exclusive.
LEMMA LockedAlone ==
    ASSUME SeedInv, NEW x \in Proc, NEW y \in Proc, NEW k \in Key, <<k, "X">> \in locks[x],
           <<k, "X">> \in locks[y] \/ <<k, "S">> \in locks[y]
    PROVE  x = y
BY DEF SeedInv, Exclusive

LEMMA StepCounts ==
    ASSUME SeedInv, NEW x \in Proc, Step(x)
    PROVE  WipesCounted'
<1>1. ProcTypes /\ OthersKept(x) /\ Tables(x) /\ wipes \in Nat
  BY StepKeeps, StepTables DEF SeedInv, VarTypes, TableTypes
<1>2. IsFiniteSet(Unwiped) /\ Cardinality(Unwiped) \in Nat /\ Unwiped \subseteq Seeder
  BY SeederCount, FS_Subset, FS_CardinalityType DEF Unwiped
<1>3. wipes + Cardinality(Unwiped) <= Cardinality(Seeder)
  BY DEF SeedInv, WipesCounted
<1>4. Unwiped' \subseteq Unwiped
  <2>1. ASSUME NEW s \in Seeder, pc[s] \notin {"new"} \cup Stage
        PROVE  pc'[s] \notin {"new"} \cup Stage
    <3>1. CASE s # x
      BY <1>1, <2>1, <3>1 DEF OthersKept, Proc
    <3>2. CASE s = x /\ pc'[x] \in {"names", "draw", "insert", "attach", "failed", "done"}
      BY <3>2 DEF Stage
    <3>3. CASE s = x
      <4>1. s \notin Req
        BY ProcAssumption
      <4>2. pc' = pc \/ \E step \in {"names", "draw", "insert", "attach", "failed", "done"} :
                           pc' = [pc EXCEPT ![s] = step]
        BY <2>1, <3>3, <4>1, AfterNamesTypes
           DEF Step, SeedStep, Start, LockRow, NextStatement, CommitWipe, UpsertName, Draw, InsertTask,
               AttachTag, CommitTasks, Refer, Fail, DeadlockAbort, End, Goto, AfterLinks, AfterNames
      <4> QED
        BY <1>1, <2>1, <3>2, <3>3, <4>2 DEF ProcTypes, Proc
    <3> QED
      BY <3>1, <3>3
  <2> QED
    BY <2>1 DEF Unwiped
<1>5. IsFiniteSet(Unwiped') /\ Cardinality(Unwiped') \in Nat /\ Cardinality(Unwiped') <= Cardinality(Unwiped)
  BY <1>2, <1>4, FS_Subset, FS_CardinalityType
<1>6. CASE wipes' = wipes
  BY <1>1, <1>2, <1>3, <1>5, <1>6, SeederCount DEF WipesCounted
<1>7. CASE Wiping(x)
  <2>1. x \in Unwiped /\ x \notin Unwiped'
    BY <1>7 DEF Wiping, Unwiped, Stage
  <2>2. Cardinality(Unwiped') < Cardinality(Unwiped)
    <3>1. Unwiped' \subseteq Unwiped \ {x} /\ IsFiniteSet(Unwiped \ {x})
      BY <1>2, <1>4, <2>1, FS_RemoveElement
    <3>2. Cardinality(Unwiped \ {x}) = Cardinality(Unwiped) - 1
      BY <1>2, <2>1, FS_RemoveElement
    <3>3. Cardinality(Unwiped') <= Cardinality(Unwiped \ {x})
      BY <3>1, FS_Subset
    <3> QED
      BY <1>2, <1>5, <3>2, <3>3
  <2>3. wipes' = wipes + 1
    BY <1>7 DEF Wiping
  <2> QED
    BY <1>1, <1>2, <1>3, <1>5, <2>2, <2>3, SeederCount DEF WipesCounted
<1> QED
  BY <1>1, <1>6, <1>7 DEF Tables

\* An id that is to come after a step was to come before it.
LEMMA StepToCome ==
    ASSUME SeedInv, NEW x \in Proc, Step(x), NEW t \in TaskId, ToCome(t)'
    PROVE  ToCome(t) /\ tasks'[t] = NoRow
<1>1. ProcTypes /\ OthersKept(x) /\ Tables(x)
  BY StepKeeps, StepTables DEF SeedInv, VarTypes
<1>2. pc[x] # "done"
  BY DEF Step, SeedStep, Submit, RequestStep, Start, LockRow, NextStatement, CommitWipe, UpsertName, Draw,
         InsertTask, AttachTag, CommitTasks, UpsertProject, UpdateRow, ClearTags, LinkTag, CommitForm, Get,
         WriteRow, CheckFk, Fail, DeadlockAbort, Ended, Stage, Deadlocked, WaitsFor, Needs
<1>3. \A y \in Proc : pc'[y] # "done" => pc[y] # "done"
  BY <1>1, <1>2 DEF OthersKept
<1>4. ToCome(t)
  BY <1>1, <1>3 DEF ToCome, OthersKept, Proc
<1>5. tasks[t] = NoRow
  BY <1>4 DEF SeedInv, NewIds
<1>6. ASSUME tasks'[t] # NoRow
      PROVE  FALSE
  <2>1. Inserting(x, t) /\ pc'[x] = "done"
    BY <1>1, <1>5, <1>6 DEF Tables
  <2>2. call' = call
    BY <1>1 DEF OthersKept
  <2>3. CASE \E r \in Req : call[r].op = "create" /\ t = <<r, 1>> /\ pc'[r] # "done"
    BY <2>1, <2>3, IdsApart DEF Inserting
  <2>4. CASE \E s \in Seeder : t \in {s} \X (1 .. Count) /\ pc'[s] # "done"
    BY <2>1, <2>4, IdsApart DEF Inserting
  <2> QED
    BY <2>2, <2>3, <2>4 DEF ToCome
<1> QED
  BY <1>4, <1>6

------------------------------------------------------------------------------
(* What the others hold on to, a step of x leaves *)

LEMMA KeyTypes ==
    /\ \A t \in TaskId : TaskKey(t) \in Key
    /\ \A n \in NameRow : NameKey(n[2]) \in Key
BY NameRowParts DEF Key, TaskKey

LEMMA OtherRuns ==
    ASSUME SeedInv, NEW x \in Proc, Step(x), NEW s \in Seeder \ {x}
    PROVE  RunOK(s)'
<1>1. /\ pc'[s] = pc[s] /\ todo'[s] = todo[s] /\ locks'[s] = locks[s] /\ doomed'[s] = doomed[s]
      /\ known'[s] = known[s] /\ drafts'[s] = drafts[s]
  BY StepKeeps DEF OthersKept, Proc
<1>2. Tables(x) /\ RunOK(s) /\ names \subseteq NameRow /\ doomed[s] \subseteq TaskId \cup NameRow
  BY StepTables DEF SeedInv, VarTypes, TableTypes, ProcTypes
<1>3. ASSUME NEW n \in names,
             <<NameKey(n[2]), "X">> \in locks[s] \/ <<NameKey(n[2]), "S">> \in locks[s]
      PROVE  n \in names'
  <2>1. NameKey(n[2]) \in Key /\ s \in Proc
    BY <1>2, KeyTypes DEF Proc
  <2>2. <<NameKey(n[2]), "X">> \notin locks[x]
    BY <1>3, <2>1, LockedAlone
  <2> QED
    BY <1>2, <2>2 DEF Tables
<1>4. DoomedLocked(s)'
  <2>1. ASSUME NEW t \in doomed[s] \cap TaskId
        PROVE  OfUser(t)' /\ <<TaskKey(t), "X">> \in locks[s]
    BY <1>2 DEF RunOK, DoomedLocked, OfUser, Tables
  <2>2. ASSUME NEW n \in doomed[s] \cap NameRow
        PROVE  n \in names' /\ n[1] = Seeded /\ <<NameKey(n[2]), "X">> \in locks[s]
    BY <1>2, <1>3 DEF RunOK, DoomedLocked
  <2> QED
    BY <1>1, <1>2, <2>1, <2>2 DEF RunOK, DoomedLocked
<1>5. NamesKnown(s)'
  BY <1>1, <1>2 DEF RunOK, NamesKnown
<1>6. DraftsWhole(s)'
  <2>1. Draft(s)' = Draft(s) /\ \A i, n : Unchecked(s, i, n)' = Unchecked(s, i, n)
    BY <1>1 DEF Draft, Unchecked
  <2>2. ASSUME NEW i \in DOMAIN drafts[s], NEW n \in Refs(drafts[s][i])
        PROVE  /\ n[1] = Seeded
               /\ Unchecked(s, i, n) \/ (n \in names' /\ <<NameKey(n[2]), "S">> \in locks[s])
    BY <1>2, <1>3 DEF RunOK, DraftsWhole
  <2> QED
    BY <1>1, <1>2, <2>1, <2>2 DEF RunOK, DraftsWhole
<1> QED
  BY <1>4, <1>5, <1>6 DEF RunOK

LEMMA OtherRequests ==
    ASSUME SeedInv, NEW x \in Proc, Step(x), NEW r \in Req \ {x}
    PROVE  ReqOK(r)'
<1>1. pc'[r] = pc[r] /\ todo'[r] = todo[r] /\ locks'[r] = locks[r] /\ copy'[r] = copy[r] /\ call' = call
  BY StepKeeps DEF OthersKept, Proc
<1>2. Tables(x) /\ ReqOK(r) /\ call[r].task \in TaskId
  BY StepTables, CallTypes DEF SeedInv
<1>3. ASSUME Live(call[r].task), <<TaskKey(call[r].task), "X">> \in locks[r]
      PROVE  Live(call[r].task)'
  <2>1. TaskKey(call[r].task) \in Key /\ r \in Proc
    BY <1>2, KeyTypes DEF Proc
  <2>2. <<TaskKey(call[r].task), "X">> \notin locks[x]
    BY <1>3, <2>1, LockedAlone
  <2>3. tasks'[call[r].task] # NoRow
    BY <1>2, <1>3, <2>2 DEF Tables, Live
  <2>4. tasks'[call[r].task].user = Seeded
    BY <1>2, <1>3, <2>3 DEF Tables, Live
  <2> QED
    BY <1>1, <2>3, <2>4 DEF Live
<1>4. TaskHeld(r)'
  BY <1>1, <1>2, <1>3 DEF ReqOK, TaskHeld
<1> QED
  BY <1>1, <1>2, <1>4 DEF ReqOK, CopyOwn

------------------------------------------------------------------------------
(* What x holds on to after its own step *)

LEMMA RunEnds ==
    ASSUME SeedInv, NEW s \in Seeder, NEW how \in Ended, End(s, how)
    PROVE  RunOK(s)'
<1>1. /\ pc'[s] = how /\ todo'[s] = {} /\ doomed'[s] = {} /\ known'[s] = {} /\ drafts'[s] = <<>>
  BY DEF SeedInv, VarTypes, ProcTypes, Proc, End, Goto
<1>2. pc'[s] \notin Stage \cup {"names", "draw", "insert", "attach"}
  BY <1>1 DEF Ended, Stage
<1>3. DoomedLocked(s)'
  BY <1>1 DEF DoomedLocked
<1>4. NamesKnown(s)'
  <2>1. IsFiniteSet(known'[s]) /\ Cardinality(known'[s]) = 0 /\ Len(BaseNames) >= 0
    BY <1>1, FS_EmptySet, NamesAssumption
  <2> QED
    BY <1>1, <1>2, <2>1 DEF NamesKnown
<1>5. DraftsWhole(s)'
  <2>1. Len(<<>>) = 0 /\ DOMAIN <<>> = {} /\ 0 <= Count
    BY RunAssumption
  <2> QED
    BY <1>1, <1>2, <2>1 DEF DraftsWhole
<1> QED
  BY <1>3, <1>4, <1>5 DEF RunOK

LEMMA RequestEnds ==
    ASSUME SeedInv, NEW r \in Req, NEW how \in Ended, End(r, how)
    PROVE  ReqOK(r)'
<1>1. pc'[r] = how /\ todo'[r] = {} /\ copy'[r] = NoProject
  BY ProcAssumption DEF SeedInv, VarTypes, ProcTypes, Proc, End, Goto
<1> QED
  BY <1>1 DEF ReqOK, TaskHeld, CopyOwn, Ended

\* A run that has not known a name yet.
LEMMA NothingKnown ==
    ASSUME NEW K, K = {}
    PROVE  /\ IsFiniteSet(K) /\ Cardinality(K) = 0
           /\ {n[2] : n \in K} = {BaseNames[i] : i \in 1 .. Cardinality(K)}
BY FS_EmptySet

\* The loop over the names is entered, or passed, with as many as the counter says.
LEMMA NamesGoOn ==
    ASSUME NEW k \in Nat, k <= Len(BaseNames)
    PROVE  \/ AfterNames(k) = "names" /\ k < Len(BaseNames)
           \/ AfterNames(k) = "draw" /\ k = Len(BaseNames)
BY NamesAssumption DEF AfterNames

LEMMA StartRun ==
    ASSUME SeedInv, NEW s \in Seeder, Start(s)
    PROVE  RunOK(s)'
<1>1. /\ pc[s] = "new" /\ UNCHANGED <<names, doomed, known, drafts, todo, locks>>
      /\ pc' = [pc EXCEPT ![s] = "tasks"] \/ pc' = [pc EXCEPT ![s] = AfterNames(0)]
  BY DEF Start, Scan, Goto, dbVars
<1>2. pc'[s] = "tasks" \/ pc'[s] = AfterNames(0)
  BY <1>1 DEF SeedInv, VarTypes, ProcTypes, Proc
<1>3. /\ RunOK(s) /\ doomed[s] = {} /\ known[s] = {} /\ drafts[s] = <<>>
  BY <1>1 DEF SeedInv, RunOK, DoomedLocked, NamesKnown, DraftsWhole, Stage
<1>4. PICK k \in Nat : k = 0 /\ k <= Len(BaseNames)
  BY NamesAssumption
<1>5. DoomedLocked(s)'
  BY <1>1, <1>3 DEF DoomedLocked
<1>6. NamesKnown(s)'
  BY <1>1, <1>2, <1>3, <1>4, NothingKnown, NamesGoOn DEF NamesKnown, RunOK, Stage, Ended
<1>7. DraftsWhole(s)'
  <2>1. Len(<<>>) = 0 /\ DOMAIN <<>> = {} /\ 0 <= Count
    BY RunAssumption
  <2>2. pc'[s] \notin {"insert", "attach"}
    BY <1>2, AfterNamesTypes
  <2>3. todo'[s] = {}
    BY <1>1, <1>3 DEF RunOK, DraftsWhole
  <2> QED
    BY <1>1, <1>3, <2>1, <2>2, <2>3 DEF DraftsWhole
<1> QED
  BY <1>5, <1>6, <1>7 DEF RunOK

LEMMA LockRowRun ==
    ASSUME SeedInv, NEW s \in Seeder, LockRow(s)
    PROVE  RunOK(s)'
<1>1. pc[s] \in Stage /\ UNCHANGED <<tasks, names, pc, known, drafts, todo>>
  BY DEF LockRow, dbVars
<1>2. RunOK(s)
  BY DEF SeedInv
<1>3. PICK row \in scan[s] :
        IF row \in Found(s, pc[s])
          THEN /\ Take(s, <<KeyOf(pc[s], row), "X">>)
               /\ doomed' = IF pc[s] \in {"set_null", "cascade"}
                              THEN doomed
                              ELSE [doomed EXCEPT ![s] = @ \cup {row}]
          ELSE UNCHANGED <<locks, doomed>>
  BY DEF LockRow
<1>4. CASE UNCHANGED <<locks, doomed>>
  BY <1>1, <1>2, <1>4 DEF RunOK, DoomedLocked, NamesKnown, DraftsWhole, OfUser, Unchecked, Draft
<1>5. CASE /\ row \in Found(s, pc[s]) /\ Take(s, <<KeyOf(pc[s], row), "X">>)
           /\ doomed' = IF pc[s] \in {"set_null", "cascade"}
                          THEN doomed
                          ELSE [doomed EXCEPT ![s] = @ \cup {row}]
  <2>1. locks'[s] = locks[s] \cup {<<KeyOf(pc[s], row), "X">>}
    BY <1>5 DEF Take, SeedInv, VarTypes, ProcTypes, Proc
  <2>2. doomed'[s] = doomed[s] \/ (doomed'[s] = doomed[s] \cup {row} /\ pc[s] \in {"tasks", "projects", "tags"})
    BY <1>1, <1>5 DEF SeedInv, VarTypes, ProcTypes, Stage
  <2>3. CASE pc[s] = "tasks"
    <3>1. row \in TaskId /\ Live(row) /\ row \notin NameRow /\ KeyOf(pc[s], row) = TaskKey(row)
      BY <1>5, <2>3, IdsApart DEF Found, KeyOf
    <3>2. DoomedLocked(s)'
      BY <1>1, <1>2, <2>1, <2>2, <3>1 DEF RunOK, DoomedLocked, OfUser, Live
    <3> QED
      BY <1>1, <1>2, <2>1, <3>2 DEF RunOK, NamesKnown, DraftsWhole, Unchecked, Draft
  <2>4. CASE pc[s] \in {"projects", "tags"}
    <3>1. row \in names /\ row[1] = Seeded /\ KeyOf(pc[s], row) = NameKey(row[2])
      BY <1>5, <2>4 DEF Found, KeyOf, NamesIn
    <3>2. row \notin TaskId
      BY <3>1, IdsApart DEF SeedInv, VarTypes, TableTypes
    <3>3. DoomedLocked(s)'
      BY <1>1, <1>2, <2>1, <2>2, <3>1, <3>2 DEF RunOK, DoomedLocked, OfUser
    <3> QED
      BY <1>1, <1>2, <2>1, <3>3 DEF RunOK, NamesKnown, DraftsWhole, Unchecked, Draft
  <2>5. CASE pc[s] \in {"set_null", "cascade"}
    <3>1. DoomedLocked(s)'
      BY <1>1, <1>2, <2>1, <2>2, <2>5 DEF RunOK, DoomedLocked, OfUser
    <3> QED
      BY <1>1, <1>2, <2>1, <3>1 DEF RunOK, NamesKnown, DraftsWhole, Unchecked, Draft
  <2> QED
    BY <1>1, <2>3, <2>4, <2>5 DEF Stage
<1> QED
  BY <1>3, <1>4, <1>5

LEMMA NextStatementRun ==
    ASSUME SeedInv, NEW s \in Seeder, NextStatement(s)
    PROVE  RunOK(s)'
<1>1. /\ pc[s] \in Stage /\ Following[pc[s]] \in Stage
      /\ pc' = [pc EXCEPT ![s] = Following[pc[s]]]
      /\ UNCHANGED <<tasks, names, doomed, known, drafts, todo, locks>>
  BY DEF NextStatement, Scan, Goto, Stage, Following, dbVars
<1>2. pc'[s] \in Stage
  BY <1>1 DEF SeedInv, VarTypes, ProcTypes, Proc
<1>3. RunOK(s)
  BY DEF SeedInv
<1>4. DoomedLocked(s)'
  BY <1>1, <1>2, <1>3 DEF RunOK, DoomedLocked, OfUser
<1>5. pc[s] \notin {"names", "draw", "insert", "attach"} /\ pc'[s] \notin {"names", "draw", "insert", "attach"}
  BY <1>1, <1>2 DEF Stage
<1>6. NamesKnown(s)'
  BY <1>1, <1>2, <1>3, <1>5 DEF RunOK, NamesKnown
<1>7. DraftsWhole(s)'
  BY <1>1, <1>2, <1>3, <1>5 DEF RunOK, DraftsWhole, Unchecked, Draft
<1> QED
  BY <1>4, <1>6, <1>7 DEF RunOK

LEMMA CommitWipeRun ==
    ASSUME SeedInv, NEW s \in Seeder, CommitWipe(s)
    PROVE  RunOK(s)'
<1>1. /\ pc[s] = "cascade" /\ pc' = [pc EXCEPT ![s] = AfterNames(0)] /\ doomed' = [doomed EXCEPT ![s] = {}]
      /\ UNCHANGED <<known, drafts, todo>>
  BY DEF CommitWipe, Goto
<1>2. pc'[s] = AfterNames(0) /\ doomed'[s] = {}
  BY <1>1 DEF SeedInv, VarTypes, ProcTypes, Proc
<1>3. known[s] = {} /\ drafts[s] = <<>> /\ todo[s] = {}
  BY <1>1 DEF SeedInv, RunOK, NamesKnown, DraftsWhole, Stage
<1>4. PICK k \in Nat : k = 0 /\ k <= Len(BaseNames)
  BY NamesAssumption
<1>5. DoomedLocked(s)'
  BY <1>2 DEF DoomedLocked
<1>6. NamesKnown(s)'
  BY <1>1, <1>2, <1>3, <1>4, NothingKnown, NamesGoOn DEF NamesKnown, Stage, Ended
<1>7. DraftsWhole(s)'
  <2>1. Len(<<>>) = 0 /\ DOMAIN <<>> = {} /\ 0 <= Count
    BY RunAssumption
  <2>2. pc'[s] \notin {"insert", "attach"}
    BY <1>2, AfterNamesTypes
  <2> QED
    BY <1>1, <1>3, <2>1, <2>2 DEF DraftsWhole
<1> QED
  BY <1>5, <1>6, <1>7 DEF RunOK

LEMMA UpsertNameRun ==
    ASSUME SeedInv, NEW s \in Seeder, UpsertName(s)
    PROVE  RunOK(s)'
<1> DEFINE k == Cardinality(known[s])
           new == RowOf(NextName(s))
<1>1. /\ pc[s] = "names" /\ UNCHANGED <<doomed, drafts, todo>>
      /\ known' = [known EXCEPT ![s] = @ \cup {new}]
      /\ pc' = [pc EXCEPT ![s] = AfterNames(k + 1)]
  BY DEF UpsertName, Goto
<1>2. known'[s] = known[s] \cup {new} /\ pc'[s] = AfterNames(k + 1)
  BY <1>1 DEF SeedInv, VarTypes, ProcTypes, Proc
<1>3. /\ k \in Nat /\ k + 1 \in 1 .. Len(BaseNames) /\ NextName(s) \in Name
  BY <1>1, NextNameTypes
<1>4. new[1] = Seeded /\ new[2] = BaseNames[k + 1]
  BY <1>3, WipesBounded, RowOfName DEF SeedInv, NextName
<1>5. /\ IsFiniteSet(known[s]) /\ (\A n \in known[s] : n[1] = Seeded)
      /\ {n[2] : n \in known[s]} = {BaseNames[i] : i \in 1 .. k}
      /\ doomed[s] = {} /\ drafts[s] = <<>> /\ todo[s] = {}
  BY <1>1 DEF SeedInv, RunOK, NamesKnown, DoomedLocked, DraftsWhole, Stage
<1> HIDE DEF k, new
<1>6. new \notin known[s]
  <2>1. SUFFICES ASSUME new \in known[s]
                 PROVE  FALSE
    OBVIOUS
  <2>2. new[2] \in {BaseNames[i] : i \in 1 .. k}
    BY <1>5, <2>1
  <2>3. PICK i \in 1 .. k : BaseNames[k + 1] = BaseNames[i]
    BY <1>4, <2>2
  <2>4. i \in DOMAIN BaseNames /\ k + 1 \in DOMAIN BaseNames /\ i < k + 1
    BY <1>3, NamesAssumption
  <2> QED
    BY <2>3, <2>4, NamesAssumption
<1>7. IsFiniteSet(known'[s]) /\ Cardinality(known'[s]) = k + 1
  BY <1>2, <1>5, <1>6, FS_AddElement DEF k
<1>8. {n[2] : n \in known'[s]} = {BaseNames[i] : i \in 1 .. (k + 1)}
  <2>1. 1 .. (k + 1) = (1 .. k) \cup {k + 1}
    BY <1>3
  <2>2. {n[2] : n \in known'[s]} = {n[2] : n \in known[s]} \cup {new[2]}
    BY <1>2
  <2>3. {BaseNames[i] : i \in (1 .. k) \cup {k + 1}} = {BaseNames[i] : i \in 1 .. k} \cup {BaseNames[k + 1]}
    OBVIOUS
  <2> QED
    BY <1>4, <1>5, <2>1, <2>2, <2>3
<1>9. k + 1 \in Nat /\ k + 1 <= Len(BaseNames)
  BY <1>3
<1>10. \/ pc'[s] = "names" /\ k + 1 < Len(BaseNames)
       \/ pc'[s] = "draw" /\ k + 1 = Len(BaseNames)
  BY <1>2, <1>9, NamesGoOn
<1>11. NamesKnown(s)'
  BY <1>2, <1>4, <1>5, <1>7, <1>8, <1>9, <1>10 DEF NamesKnown, Stage, Ended
<1>12. DoomedLocked(s)'
  BY <1>1, <1>5 DEF DoomedLocked
<1>13. DraftsWhole(s)'
  <2>1. Len(<<>>) = 0 /\ DOMAIN <<>> = {} /\ 0 <= Count
    BY RunAssumption
  <2> QED
    BY <1>1, <1>5, <1>10, <2>1 DEF DraftsWhole
<1> QED
  BY <1>11, <1>12, <1>13 DEF RunOK

LEMMA DrawRun ==
    ASSUME SeedInv, NEW s \in Seeder, Draw(s)
    PROVE  RunOK(s)'
<1>1. PICK d \in Drawn :
        LET project == {n \in known[s] : n[2] = d.project}
            linked == {n \in known[s] : n[2] \in d.tags}
        IN  /\ drafts' = [drafts EXCEPT ![s] = Append(@,
                  [user |-> Seeded, tags |-> linked,
                   project |-> IF project = {} THEN NoProject ELSE CHOOSE n \in project : TRUE])]
            /\ todo' = [todo EXCEPT ![s] = linked]
  BY DEF Draw
<1> DEFINE project == {n \in known[s] : n[2] = d.project}
           linked == {n \in known[s] : n[2] \in d.tags}
           draft == [user |-> Seeded, tags |-> linked,
                     project |-> IF project = {} THEN NoProject ELSE CHOOSE n \in project : TRUE]
<1>2. /\ pc[s] = "draw" /\ Len(drafts[s]) < Count /\ pc' = [pc EXCEPT ![s] = "insert"]
      /\ UNCHANGED <<names, doomed, known, locks>>
  BY DEF Draw, Goto, dbVars
<1>3. /\ drafts[s] \in Seq(Row) /\ RunOK(s) /\ doomed[s] = {} /\ todo[s] = {}
  BY <1>2 DEF SeedInv, VarTypes, ProcTypes, RunOK, DoomedLocked, DraftsWhole, Stage
<1>4. pc'[s] = "insert" /\ drafts'[s] = Append(drafts[s], draft) /\ todo'[s] = linked
  BY <1>1, <1>2 DEF SeedInv, VarTypes, ProcTypes, Proc
<1>5. draft.user = Seeded /\ draft.tags = linked
  OBVIOUS
<1>6. \A n \in Refs(draft) : n[1] = Seeded
  <2>1. Refs(draft) \subseteq known[s]
    BY DEF Refs
  <2> QED
    BY <1>3, <2>1 DEF RunOK, NamesKnown
<1> HIDE DEF draft, linked
<1>7. PICK last \in Nat : last = Len(drafts[s]) + 1
  BY <1>3
<1>8. /\ Len(drafts'[s]) = last /\ DOMAIN drafts'[s] = 1 .. last /\ drafts'[s][last] = draft
      /\ \A i \in DOMAIN drafts[s] : i # last /\ drafts'[s][i] = drafts[s][i]
      /\ 1 .. last = DOMAIN drafts[s] \cup {last} /\ last <= Count
  BY <1>2, <1>3, <1>4, <1>7, RunAssumption
<1>9. DraftsWhole(s)'
  <2>1. drafts'[s] # <<>> /\ Draft(s)' = draft
    BY <1>4, <1>8 DEF Draft
  <2>2. ASSUME NEW i \in DOMAIN drafts[s]
        PROVE  /\ drafts'[s][i].user = Seeded
               /\ \A n \in Refs(drafts'[s][i]) :
                     n[1] = Seeded /\ n \in names' /\ <<NameKey(n[2]), "S">> \in locks'[s]
    BY <1>2, <1>3, <1>8 DEF RunOK, DraftsWhole, Unchecked
  <2>3. \A n : Unchecked(s, last, n)'
    BY <1>4, <1>8 DEF Unchecked
  <2>4. \A i \in DOMAIN drafts'[s] :
          /\ drafts'[s][i].user = Seeded
          /\ \A n \in Refs(drafts'[s][i]) :
                /\ n[1] = Seeded
                /\ Unchecked(s, i, n)' \/ (n \in names' /\ <<NameKey(n[2]), "S">> \in locks'[s])
    BY <1>5, <1>6, <1>8, <2>2, <2>3
  <2> QED
    BY <1>4, <1>5, <1>8, <2>1, <2>4 DEF DraftsWhole
<1>10. NamesKnown(s)'
  BY <1>2, <1>3, <1>4 DEF RunOK, NamesKnown, Stage, Ended
<1>11. DoomedLocked(s)'
  BY <1>2, <1>3 DEF DoomedLocked
<1> QED
  BY <1>9, <1>10, <1>11 DEF RunOK

\* The last draft is checked for some of what it refers to, held from now on.
LEMMA CheckedRun ==
    ASSUME SeedInv, NEW s \in Seeder, pc[s] \in {"insert", "attach"},
           UNCHANGED <<names, doomed, known, drafts>>,
           NEW held \in SUBSET NameRow, locks[s] \subseteq locks'[s],
           \A n \in held : n \in names /\ <<NameKey(n[2]), "S">> \in locks'[s],
           pc'[s] = AfterLinks(todo'[s]), todo'[s] \subseteq Draft(s).tags,
           \A n \in Refs(Draft(s)) : Unchecked(s, Len(drafts[s]), n) => n \in held \cup todo'[s]
    PROVE  RunOK(s)'
<1>1. /\ RunOK(s) /\ doomed[s] = {}
  BY DEF SeedInv, RunOK, DoomedLocked, Stage
<1>2. \/ pc'[s] = "draw" /\ todo'[s] = {}
      \/ pc'[s] = "attach" /\ todo'[s] # {}
  BY DEF AfterLinks
<1>3. DoomedLocked(s)'
  BY <1>1 DEF DoomedLocked
<1>4. NamesKnown(s)'
  BY <1>1, <1>2 DEF RunOK, NamesKnown, Stage, Ended
<1>5. DraftsWhole(s)'
  <2>1. drafts[s] # <<>> /\ Len(drafts[s]) <= Count /\ Draft(s)' = Draft(s)
    BY <1>1 DEF RunOK, DraftsWhole, Draft
  <2>2. ASSUME NEW i \in DOMAIN drafts[s], NEW n \in Refs(drafts[s][i])
        PROVE  /\ n[1] = Seeded
               /\ Unchecked(s, i, n)' \/ (n \in names /\ <<NameKey(n[2]), "S">> \in locks'[s])
    <3>1. n[1] = Seeded
      BY <1>1 DEF RunOK, DraftsWhole
    <3>2. CASE Unchecked(s, i, n)
      <4>1. i = Len(drafts[s]) /\ n \in Refs(Draft(s))
        BY <3>2 DEF Unchecked, Draft
      <4>2. n \in held \cup todo'[s]
        BY <3>2, <4>1
      <4> QED
        BY <3>1, <4>1, <4>2 DEF Unchecked
    <3>3. CASE ~ Unchecked(s, i, n)
      BY <1>1, <3>1, <3>3 DEF RunOK, DraftsWhole
    <3> QED
      BY <3>2, <3>3
  <2>3. \A i \in DOMAIN drafts[s] : drafts[s][i].user = Seeded
    BY <1>1 DEF RunOK, DraftsWhole
  <2> QED
    BY <1>2, <2>1, <2>2, <2>3 DEF DraftsWhole
<1> QED
  BY <1>3, <1>4, <1>5 DEF RunOK

LEMMA ReferRun ==
    ASSUME SeedInv, NEW s \in Seeder, NEW n0 \in NameRow, Refer(s, n0), UNCHANGED dbVars,
           \/ pc[s] = "insert" /\ n0 = Draft(s).project
           \/ pc[s] = "attach" /\ n0 \in todo[s]
    PROVE  RunOK(s)'
<1>1. CASE n0 \notin names
  BY <1>1, RunEnds DEF Refer, Ended
<1>2. CASE n0 \in names
  <2>1. /\ Take(s, <<NameKey(n0[2]), "S">>) /\ UNCHANGED <<names, doomed, known, drafts>>
    BY <1>2 DEF Refer, dbVars
  <2>2. locks'[s] = locks[s] \cup {<<NameKey(n0[2]), "S">>}
    BY <2>1 DEF Take, SeedInv, VarTypes, ProcTypes, Proc
  <2>3. DraftsWhole(s) /\ s \in Proc
    BY DEF SeedInv, RunOK, Proc
  <2>4. CASE pc[s] = "insert"
    <3>1. /\ pc' = [pc EXCEPT ![s] = AfterLinks(todo[s])] /\ todo' = todo
      BY <1>2, <2>4 DEF Refer, Goto
    <3>2. pc'[s] = AfterLinks(todo'[s]) /\ todo'[s] = Draft(s).tags
      BY <2>3, <2>4, <3>1 DEF SeedInv, VarTypes, ProcTypes, DraftsWhole
    <3>3. PICK held \in SUBSET NameRow : held = {n0}
      OBVIOUS
    <3>4. \A n \in Refs(Draft(s)) : Unchecked(s, Len(drafts[s]), n) => n \in held \cup todo'[s]
      BY <2>4, <3>2, <3>3 DEF Refs
    <3>5. \A n \in held : n \in names /\ <<NameKey(n[2]), "S">> \in locks'[s]
      BY <1>2, <2>2, <3>3
    <3>6. locks[s] \subseteq locks'[s] /\ todo'[s] \subseteq Draft(s).tags
      BY <2>2, <3>2
    <3> QED
      BY <2>1, <2>4, <3>2, <3>4, <3>5, <3>6, CheckedRun
  <2>5. CASE pc[s] = "attach"
    <3>1. /\ pc' = [pc EXCEPT ![s] = AfterLinks(todo[s] \ {n0})] /\ todo' = [todo EXCEPT ![s] = @ \ {n0}]
      BY <1>2, <2>5 DEF Refer, Goto
    <3>2. todo'[s] = todo[s] \ {n0} /\ pc'[s] = AfterLinks(todo'[s])
      BY <2>3, <3>1 DEF SeedInv, VarTypes, ProcTypes
    <3>3. todo'[s] \subseteq Draft(s).tags
      BY <2>3, <2>5, <3>2 DEF DraftsWhole
    <3>4. \A n \in Refs(Draft(s)) : Unchecked(s, Len(drafts[s]), n) => n \in {n0} \cup todo'[s]
      BY <2>5, <3>2 DEF Unchecked
    <3> QED
      BY <1>2, <2>1, <2>2, <2>5, <3>2, <3>3, <3>4, CheckedRun
  <2> QED
    BY <2>4, <2>5
<1> QED
  BY <1>1, <1>2

LEMMA InsertTaskRun ==
    ASSUME SeedInv, NEW s \in Seeder, InsertTask(s)
    PROVE  RunOK(s)'
<1>1. pc[s] = "insert" /\ UNCHANGED dbVars
  BY DEF InsertTask
<1>2. CASE Draft(s).project = NoProject
  <2>1. /\ pc' = [pc EXCEPT ![s] = AfterLinks(todo[s])]
        /\ UNCHANGED <<names, doomed, known, drafts, todo, locks>>
    BY <1>2 DEF InsertTask, Goto, dbVars
  <2>2. pc'[s] = AfterLinks(todo'[s]) /\ todo'[s] = Draft(s).tags
    BY <1>1, <2>1 DEF SeedInv, VarTypes, ProcTypes, RunOK, DraftsWhole, Proc
  <2>3. PICK held \in SUBSET NameRow : held = {}
    OBVIOUS
  <2>4. \A n \in Refs(Draft(s)) : Unchecked(s, Len(drafts[s]), n) => n \in held \cup todo'[s]
    BY <1>2, <2>2 DEF Refs
  <2>5. locks[s] \subseteq locks'[s] /\ todo'[s] \subseteq Draft(s).tags
    BY <2>1, <2>2
  <2>6. \A n \in held : n \in names /\ <<NameKey(n[2]), "S">> \in locks'[s]
    BY <2>3
  <2> QED
    BY <1>1, <2>1, <2>2, <2>4, <2>5, <2>6, CheckedRun
<1>3. CASE Draft(s).project # NoProject
  BY <1>1, <1>3, DraftTypes, ReferRun DEF InsertTask
<1> QED
  BY <1>2, <1>3

LEMMA AttachTagRun ==
    ASSUME SeedInv, NEW s \in Seeder, AttachTag(s)
    PROVE  RunOK(s)'
<1>1. PICK n \in todo[s] : Refer(s, n)
  BY DEF AttachTag
<1>2. n \in NameRow /\ pc[s] = "attach" /\ UNCHANGED dbVars
  BY DEF AttachTag, SeedInv, VarTypes, ProcTypes
<1> QED
  BY <1>1, <1>2, ReferRun

LEMMA OwnRun ==
    ASSUME SeedInv, NEW s \in Seeder, Step(s)
    PROVE  RunOK(s)'
<1>1. CASE SeedStep(s)
  BY <1>1, StartRun, LockRowRun, NextStatementRun, CommitWipeRun, UpsertNameRun, DrawRun, InsertTaskRun,
     AttachTagRun, RunEnds DEF SeedStep, CommitTasks, Ended
<1>2. CASE Fail(s) \/ DeadlockAbort(s)
  BY <1>2, RunEnds DEF Fail, DeadlockAbort, Ended
<1>3. s \notin Req
  BY ProcAssumption
<1> QED
  BY <1>1, <1>2, <1>3 DEF Step

\* So it is with requests.
LEMMA OwnRequest ==
    ASSUME SeedInv, NEW r \in Req, Step(r)
    PROVE  ReqOK(r)'
<1>1. ReqOK(r) /\ r \in Proc /\ r \notin Seeder /\ call[r].tags \subseteq Tag
  BY CallTypes, ProcAssumption DEF SeedInv, Proc
<1> USE DEF SeedInv, VarTypes, ProcTypes
<1>2. CASE \E how \in Ended : End(r, how)
  BY <1>2, RequestEnds
<1>3. CASE Submit(r)
  BY <1>1, <1>3 DEF Submit, Goto, RequestOnly, ReqOK, TaskHeld, CopyOwn
<1>4. CASE UpsertProject(r)
  BY <1>1, <1>4 DEF UpsertProject, Goto, RequestOnly, ReqOK, TaskHeld, CopyOwn
<1>5. CASE UpdateRow(r) /\ Live(call[r].task)
  <2>1. /\ locks' = [locks EXCEPT ![r] = @ \cup Needs(r)] /\ pc' = [pc EXCEPT ![r] = "unlink"]
        /\ UNCHANGED <<tasks, call, copy, todo>> /\ pc[r] = "row"
    BY <1>5 DEF UpdateRow, Goto, RequestOnly, dbVars
  <2>2. <<TaskKey(call[r].task), "X">> \in Needs(r)
    BY <2>1 DEF Needs, Stage
  <2> QED
    BY <1>1, <1>5, <2>1, <2>2 DEF ReqOK, TaskHeld, CopyOwn, Live
<1>6. CASE ClearTags(r)
  BY <1>1, <1>6 DEF ClearTags, Goto, RequestOnly, ReqOK, TaskHeld, CopyOwn, Live, dbVars
<1>7. CASE LinkTag(r)
  BY <1>1, <1>7 DEF LinkTag, Take, RequestOnly, ReqOK, TaskHeld, CopyOwn, Live, dbVars
<1>8. CASE Get(r) /\ Live(call[r].task)
  <2>1. /\ copy' = [copy EXCEPT ![r] = tasks[call[r].task].project] /\ pc' = [pc EXCEPT ![r] = "write"]
        /\ todo' = todo
    BY <1>8 DEF Get, Goto, RequestOnly
  <2>2. tasks[call[r].task].project # NoProject => tasks[call[r].task].project[1] = Seeded
    BY <1>8, CallTypes DEF Live, Whole, Refs
  <2> QED
    BY <1>1, <2>1, <2>2 DEF ReqOK, TaskHeld, CopyOwn
<1>9. CASE WriteRow(r) /\ ~ End(r, "failed") /\ ~ End(r, "done")
  <2>1. /\ locks' = [locks EXCEPT ![r] = @ \cup Needs(r)] /\ pc' = [pc EXCEPT ![r] = "fk"]
        /\ UNCHANGED <<call, copy, todo>> /\ pc[r] = "write" /\ Live(call[r].task)
    BY <1>9 DEF WriteRow, Goto, RequestOnly
  <2>2. <<TaskKey(call[r].task), "X">> \in Needs(r)
    BY <2>1 DEF Needs, Stage
  <2>3. pc'[r] # "done" /\ tasks' = tasks
    BY <1>1, <1>9, <2>1 DEF WriteRow
  <2> QED
    BY <1>1, <2>1, <2>2, <2>3 DEF ReqOK, TaskHeld, CopyOwn, Live
<1>10. "failed" \in Ended /\ "done" \in Ended
  BY DEF Ended
<1> QED
  BY <1>1, <1>2, <1>3, <1>4, <1>5, <1>6, <1>7, <1>8, <1>9, <1>10
     DEF Step, RequestStep, UpdateRow, CommitForm, Get, CheckFk, Fail, DeadlockAbort

------------------------------------------------------------------------------
(* The invariant *)

\* The names at the start are those that the tasks stored before refer to.
LEMMA InitNames ==
    ASSUME Init
    PROVE  /\ \A n \in names : \E t \in DOMAIN Saved : n \in Refs(Saved[t])
           /\ \A t \in DOMAIN Saved : Refs(Saved[t]) \subseteq names
<1> DEFINE used(t) == {Saved[t].project} \cup Saved[t].tags
           all == UNION {used(t) : t \in DOMAIN Saved}
<1>1. names = all \ {NoProject}
  BY DEF Init
<1>2. ASSUME NEW n \in names
      PROVE  \E t \in DOMAIN Saved : n \in Refs(Saved[t])
  <2>1. n \in all /\ n # NoProject
    <3> HIDE DEF all
    <3> QED
      BY <1>1
  <2>2. PICK t \in DOMAIN Saved : n \in used(t)
    BY <2>1
  <2> QED
    BY <2>1, <2>2 DEF Refs
<1>3. ASSUME NEW t \in DOMAIN Saved
      PROVE  Refs(Saved[t]) \subseteq names
  <2>1. used(t) \subseteq all
    OBVIOUS
  <2>2. Saved[t].tags \subseteq NameRow /\ NoProject \notin NameRow
    BY SavedAssumption, NullAssumption DEF Row
  <2>3. Refs(Saved[t]) \subseteq used(t) \ {NoProject}
    BY <2>2 DEF Refs
  <2> HIDE DEF all, used
  <2> QED
    BY <1>1, <2>1, <2>3
<1> QED
  BY <1>2, <1>3

LEMMA InitTables == Init => TableTypes /\ Whole /\ Unique /\ NewIds
<1> SUFFICES ASSUME Init
             PROVE  TableTypes /\ Whole /\ Unique /\ NewIds
  OBVIOUS
<1>1. /\ tasks = [t \in TaskId |-> IF t \in DOMAIN Saved THEN Saved[t] ELSE NoRow]
      /\ wipes = 0
  BY DEF Init
<1>2. ASSUME NEW t \in DOMAIN Saved
      PROVE  /\ Saved[t] \in Row /\ Saved[t].user \in User
             /\ Saved[t].tags \subseteq NameRow
             /\ Saved[t].project \in NameRow \cup {NoProject}
             /\ Refs(Saved[t]) \subseteq {Saved[t].user} \X Name \X {0}
  BY SavedAssumption DEF Row, Refs
<1>3. NoProject \notin NameRow
  BY NullAssumption
<1>4. \A n \in names : \E t \in DOMAIN Saved : n \in Refs(Saved[t])
  BY InitNames
<1>5. \A t \in DOMAIN Saved : Refs(Saved[t]) \subseteq names
  BY InitNames
<1>6. names \subseteq NameRow
  <2>1. \A t \in DOMAIN Saved : Refs(Saved[t]) \subseteq NameRow
    BY <1>2 DEF Refs
  <2> QED
    BY <1>4, <2>1
<1>7. TableTypes
  BY <1>1, <1>2, <1>6 DEF TableTypes, TaskId
<1>8. Whole
  <2>1. \A t \in DOMAIN Saved : \A n \in Refs(Saved[t]) : n[1] = Saved[t].user
    BY <1>2
  <2> QED
    BY <1>1, <1>5, <2>1 DEF Whole
<1>9. Unique
  <2>1. \A n \in names : n = <<n[1], n[2], 0>>
    BY <1>2, <1>4
  <2> QED
    BY <2>1 DEF Unique
<1>10. NewIds
  BY <1>1, IdsApart DEF NewIds, ToCome
<1> QED
  BY <1>7, <1>8, <1>9, <1>10

LEMMA InitInv == Init => SeedInv
<1> SUFFICES ASSUME Init
             PROVE  SeedInv
  OBVIOUS
<1>1. TableTypes /\ Whole /\ Unique /\ NewIds
  BY InitTables
<1>2. /\ pc = [x \in Proc |-> "new"] /\ locks = [x \in Proc |-> {}] /\ todo = [x \in Proc |-> {}]
      /\ doomed = [s \in Seeder |-> {}] /\ known = [s \in Seeder |-> {}] /\ drafts = [s \in Seeder |-> <<>>]
      /\ copy = [r \in Req |-> NoProject] /\ wipes = 0
  BY DEF Init
<1>3. ProcTypes
  <2>1. "new" \in SeedPlace /\ "new" \in ReqPlace /\ <<>> \in Seq(Row)
    BY DEF SeedPlace, ReqPlace
  <2> QED
    BY <2>1 DEF Init, ProcTypes, Proc
<1>4. Exclusive
  BY <1>2 DEF Exclusive
<1>5. WipesCounted
  <2>1. Unwiped = Seeder
    BY <1>2 DEF Unwiped, Proc
  <2> QED
    BY <1>2, <2>1, SeederCount DEF WipesCounted
<1>6. ASSUME NEW s \in Seeder
      PROVE  RunOK(s)
  <2>1. pc[s] = "new" /\ doomed[s] = {} /\ known[s] = {} /\ drafts[s] = <<>> /\ todo[s] = {}
    BY <1>2 DEF Proc
  <2>2. Len(<<>>) = 0 /\ DOMAIN <<>> = {} /\ 0 <= Count /\ 0 <= Len(BaseNames)
    BY RunAssumption, NamesAssumption
  <2>3. NamesKnown(s)
    BY <2>1, <2>2, NothingKnown DEF NamesKnown
  <2> QED
    BY <2>1, <2>2, <2>3 DEF RunOK, DoomedLocked, DraftsWhole
<1>7. \A r \in Req : ReqOK(r)
  BY <1>2 DEF ReqOK, TaskHeld, CopyOwn, Proc
<1> QED
  BY <1>1, <1>3, <1>4, <1>5, <1>6, <1>7 DEF SeedInv, VarTypes

LEMMA StepInv ==
    ASSUME SeedInv, NEW x \in Proc, Step(x)
    PROVE  SeedInv'
<1>1. VarTypes' /\ Whole' /\ Unique'
  BY StepKeeps, StepTables DEF Stored, VarTypes
<1>2. NewIds'
  BY StepToCome DEF NewIds
<1>3. \A s \in Seeder : RunOK(s)'
  BY OwnRun, OtherRuns
<1>4. \A r \in Req : ReqOK(r)'
  BY OwnRequest, OtherRequests
<1> QED
  BY <1>1, <1>2, <1>3, <1>4, StepExclusive, StepCounts DEF SeedInv

LEMMA NextIsSteps ==
    ASSUME [Next]_vars
    PROVE  (\E x \in Proc : Step(x) /\ Watch(x)) \/ UNCHANGED vars
<1>1. ASSUME NEW s \in Seeder, SeedStep(s) /\ Watch(s)
      PROVE  \E x \in Proc : Step(x) /\ Watch(x)
  BY <1>1 DEF Step, Proc
<1>2. ASSUME NEW r \in Req, (Submit(r) \/ RequestStep(r)) /\ Watch(r)
      PROVE  \E x \in Proc : Step(x) /\ Watch(x)
  BY <1>2 DEF Step, Proc
<1>3. ASSUME NEW x \in Proc, (Fail(x) \/ DeadlockAbort(x)) /\ Watch(x)
      PROVE  \E y \in Proc : Step(y) /\ Watch(y)
  BY <1>3 DEF Step
<1> QED
  BY <1>1, <1>2, <1>3 DEF Next, Done

LEMMA SameInv == ASSUME SeedInv, UNCHANGED vars PROVE SeedInv'
<1> USE DEF vars, dbVars
<1>1. VarTypes' /\ Whole' /\ Unique' /\ Exclusive'
  BY DEF SeedInv, VarTypes, TableTypes, ProcTypes, Whole, Unique, Exclusive
<1>2. WipesCounted' /\ NewIds'
  BY DEF SeedInv, WipesCounted, Unwiped, NewIds, ToCome
<1>3. \A s \in Seeder : RunOK(s)'
  BY DEF SeedInv, RunOK, DoomedLocked, OfUser, NamesKnown, DraftsWhole, Unchecked, Draft
<1>4. \A r \in Req : ReqOK(r)'
  BY DEF SeedInv, ReqOK, TaskHeld, CopyOwn, Live
<1> QED
  BY <1>1, <1>2, <1>3, <1>4 DEF SeedInv

\* The invariant holds in every state of the runs and of the application.
THEOREM SeedInvariant == Spec => []SeedInv
<1>1. SeedInv /\ [Next]_vars => SeedInv'
  BY NextIsSteps, StepInv, SameInv
<1> QED
  BY <1>1, InitInv, PTL DEF Spec

\* A task refers to rows that are there and are its user's, a user has each name
\* once, every lock can be held with all the others.
THEOREM SeedTypeCorrect == Spec => []TypeOK
<1>1. SeedInv => TypeOK
  <2> SUFFICES ASSUME SeedInv
               PROVE  TypeOK
    OBVIOUS
  <2>1. \A t \in TaskId : tasks[t] # NoRow =>
          /\ tasks[t] \in Row
          /\ ({tasks[t].project} \ {NoProject}) \cup tasks[t].tags \subseteq {n \in names : n[1] = tasks[t].user}
    BY DEF SeedInv, VarTypes, TableTypes, Whole, Refs
  <2>2. \A m, n \in names : m[1] = n[1] /\ m[2] = n[2] => m = n
    BY DEF SeedInv, Unique
  <2>3. wipes \in 0 .. Cardinality(Seeder)
    BY WipesBounded, SeederCount DEF SeedInv, VarTypes, TableTypes
  <2>4. \A s \in Seeder : doomed[s] \subseteq TaskId \cup names /\ Len(drafts[s]) <= Count
    BY DEF SeedInv, VarTypes, ProcTypes, RunOK, DoomedLocked, DraftsWhole
  <2>5. ASSUME NEW x \in Proc, NEW y \in Proc, NEW lock \in locks[x], x # y
        PROVE  ~ Blocks(y, lock)
    <3>1. PICK k \in Key, m \in Mode : lock = <<k, m>>
      BY DEF SeedInv, VarTypes, ProcTypes
    <3>2. CASE m = "X"
      BY <2>5, <3>1, <3>2 DEF SeedInv, Exclusive, Blocks
    <3>3. CASE m = "S"
      BY <2>5, <3>1, <3>3 DEF SeedInv, Exclusive, Blocks
    <3> QED
      BY <3>2, <3>3 DEF Mode
  <2> QED
    BY <2>1, <2>2, <2>3, <2>4, <2>5 DEF TypeOK
<1> QED
  BY <1>1, SeedInvariant, PTL

\* Only the commit of a run inserts one of its tasks, and it inserts all of them.
THEOREM SeedsTogether == Spec => SeededTogether
<1> DEFINE Together ==
      \A s \in Seeder :
          (\E k \in 1 .. Count : tasks[<<s, k>>] = NoRow /\ tasks'[<<s, k>>] # NoRow) =>
              \A k \in 1 .. Count : tasks'[<<s, k>>] # NoRow
<1>1. ASSUME SeedInv, NEW x \in Proc, Step(x)
      PROVE  Together
  <2> SUFFICES ASSUME NEW s \in Seeder, NEW k \in 1 .. Count,
                      tasks[<<s, k>>] = NoRow, tasks'[<<s, k>>] # NoRow
               PROVE  \A i \in 1 .. Count : tasks'[<<s, i>>] # NoRow
    OBVIOUS
  <2>1. <<s, k>> \in TaskId /\ Tables(x)
    BY <1>1, IdsApart, StepTables
  <2>2. Inserting(x, <<s, k>>)
    BY <2>1 DEF Tables
  <2>3. x = s
    BY <2>2, IdsApart DEF Inserting
  <2> QED
    BY <2>2, <2>3, ProcAssumption DEF Inserting
<1>2. SeedInv /\ [Next]_vars => [Together]_vars
  BY <1>1, NextIsSteps
<1> QED
  BY <1>2, SeedInvariant, PTL DEF Spec, SeededTogether

\* What was there before a run is left as it is until its wipe is committed, and
\* then only rows of the user go or change.
THEOREM OnlyWipesDelete == Spec => OnlyAWipeDeletes
<1> DEFINE wiped == \E s \in Seeder : pc[s] = "cascade" /\ pc'[s] \in {"names", "draw"}
           Kept ==
             /\ \A t \in TaskId : tasks[t] # NoRow /\ tasks'[t] # tasks[t] =>
                   \/ wiped /\ tasks[t].user = Seeded
                   \/ \E r \in Req : pc'[r] # pc[r] /\ call[r].task = t
             /\ \A n \in names \ names' : wiped /\ n[1] = Seeded
<1>1. ASSUME SeedInv, NEW x \in Proc, Step(x)
      PROVE  Kept
  BY <1>1, StepTables DEF Tables, Wiping
<1>2. SeedInv /\ [Next]_vars => [Kept]_vars
  BY <1>1, NextIsSteps
<1> QED
  BY <1>2, SeedInvariant, PTL DEF Spec, OnlyAWipeDeletes

------------------------------------------------------------------------------
(* What a wipe reaches *)

LEMMA StepNumbered ==
    ASSUME SeedInv, Numbered, NEW x \in Proc, Step(x)
    PROVE  Numbered' /\ wipes \in Nat /\ wipes' \in Nat /\ wipes <= wipes'
<1>1. Tables(x) /\ wipes \in Nat /\ \A n \in names : n[3] \in Nat
  BY StepTables, NameRowParts, SeederCount DEF SeedInv, VarTypes, TableTypes
<1>2. wipes' \in Nat /\ wipes <= wipes'
  BY <1>1 DEF Tables, Wiping
<1>3. ASSUME NEW n \in names'
      PROVE  n[3] <= wipes'
  <2>1. n[3] \in Nat /\ n[3] <= wipes
    BY <1>1, <1>3 DEF Tables, Numbered
  <2> QED
    BY <1>1, <1>2, <2>1
<1> QED
  BY <1>1, <1>2, <1>3 DEF Numbered

\* A row that was there when the wipe began never comes back, whoever steps.
LEMMA BeforeStays ==
    ASSUME SeedInv, Numbered, NEW x \in Proc, Step(x), NEW s \in Seeder, WipeReaches(s), NEW row \in before[s]
    PROVE  /\ row \in TaskId => OfUser(row)' /\ ~ ToCome(row)'
           /\ row \in NameRow => row[1] = Seeded /\ row[3] <= wipes' /\ (row \notin names' => row[3] < wipes')
           /\ Gone(row) => Gone(row)'
<1>1. Tables(x) /\ row \in TaskId \cup NameRow /\ names \subseteq NameRow
  BY StepTables DEF SeedInv, VarTypes, TableTypes, ProcTypes
<1>2. names' \subseteq NameRow /\ TaskId \cap NameRow = {}
  BY StepTables, IdsApart DEF Stored, TableTypes
<1>3. wipes \in Nat /\ wipes' \in Nat /\ wipes <= wipes'
  BY StepNumbered
<1>4. CASE row \in TaskId
  <2>1. OfUser(row) /\ ~ ToCome(row)
    BY <1>4 DEF WipeReaches
  <2>2. ~ ToCome(row)'
    BY <1>4, <2>1, StepToCome
  <2>3. tasks[row] = NoRow => tasks'[row] = NoRow
    BY <1>1, <1>4, <2>1 DEF Tables, Inserting, ToCome
  <2>4. OfUser(row)'
    BY <1>1, <1>4, <2>1 DEF Tables, OfUser
  <2> QED
    BY <1>2, <1>4, <2>2, <2>3, <2>4 DEF Gone
<1>5. CASE row \in NameRow
  <2>1. row[1] = Seeded /\ row[3] <= wipes /\ (row \notin names => row[3] < wipes) /\ row[3] \in Nat
    BY <1>5, NameRowParts, SeederCount DEF WipeReaches
  <2>2. row \in names \ names' => wipes' = wipes + 1
    BY <1>1 DEF Tables, Wiping
  <2>3. row \notin names => row \notin names'
    BY <1>1, <1>3, <2>1 DEF Tables
  <2>4. row[3] <= wipes' /\ (row \notin names' => row[3] < wipes')
    BY <1>3, <2>1, <2>2, <2>3
  <2> QED
    BY <1>2, <1>5, <2>1, <2>3, <2>4 DEF Gone
<1> QED
  BY <1>1, <1>4, <1>5

\* So it is enough to follow the rows that the statements have yet to find.
LEMMA ReachesOn ==
    ASSUME SeedInv, Numbered, NEW x \in Proc, Step(x), NEW s \in Seeder, WipeReaches(s),
           before'[s] = before[s], pc'[s] = "new" => pc[s] = "new",
           pc'[s] \in Stage => \A row \in before[s] :
               row \in doomed'[s] \/ Gone(row)' \/ StillToFind(s, row)',
           pc'[s] \in {"names", "draw", "insert", "attach", "done"} => \A row \in before[s] : Gone(row)'
    PROVE  WipeReaches(s)'
<1>1. wipe' = wipe
  BY StepKeeps DEF OthersKept
<1>2. \A t \in before[s] \cap TaskId : OfUser(t)' /\ ~ ToCome(t)'
  BY BeforeStays
<1>3. \A n \in before[s] \cap NameRow :
         n[1] = Seeded /\ n[3] <= wipes' /\ (n \notin names' => n[3] < wipes')
  BY BeforeStays
<1> QED
  BY <1>1, <1>2, <1>3 DEF WipeReaches

LEMMA OtherReaches ==
    ASSUME SeedInv, Numbered, NEW x \in Proc, Step(x), NEW s \in Seeder \ {x}, WipeReaches(s)
    PROVE  WipeReaches(s)'
<1>1. pc'[s] = pc[s] /\ doomed'[s] = doomed[s] /\ scan'[s] = scan[s] /\ before'[s] = before[s]
  BY StepKeeps DEF OthersKept, Proc
<1>2. \A row \in before[s] : Gone(row) => Gone(row)'
  BY BeforeStays
<1>3. \A row \in before[s] : StillToFind(s, row)' <=> StillToFind(s, row)
  BY <1>1 DEF StillToFind
<1> QED
  BY <1>1, <1>2, <1>3, ReachesOn DEF WipeReaches

LEMMA StartReaches ==
    ASSUME SeedInv, Numbered, NEW s \in Seeder, Start(s), WipeReaches(s)
    PROVE  WipeReaches(s)'
<1>1. pc[s] = "new" /\ before[s] = {} /\ s \in Proc /\ Step(s) /\ UNCHANGED <<tasks, names, wipes, wipe>>
  BY DEF Start, WipeReaches, Proc, Step, SeedStep, dbVars
<1>2. CASE wipe[s]
  <2>1. /\ pc'[s] = "tasks" /\ scan'[s] = Found(s, "tasks")
        /\ before'[s] = Found(s, "tasks") \cup NamesIn(Name)
    BY <1>2 DEF Start, Scan, Goto, SeedInv, VarTypes, ProcTypes, Proc
  <2>2. Found(s, "tasks") = {t \in TaskId : Live(t)}
    BY DEF Found
  <2>3. NamesIn(Name) \subseteq names /\ names \subseteq NameRow /\ TaskId \cap NameRow = {}
    BY IdsApart DEF NamesIn, SeedInv, VarTypes, TableTypes
  <2>4. ASSUME NEW t \in before'[s] \cap TaskId
        PROVE  OfUser(t)' /\ ~ ToCome(t)'
    <3>1. Live(t)
      BY <2>1, <2>2, <2>3
    <3>2. ~ ToCome(t)
      BY <3>1 DEF SeedInv, NewIds, Live
    <3>3. ~ ToCome(t)'
      BY <1>1, <3>2, StepToCome
    <3> QED
      BY <1>1, <3>1, <3>3 DEF OfUser, Live
  <2>5. \A n \in before'[s] \cap NameRow : n[1] = Seeded /\ n[3] <= wipes' /\ n \in names'
    BY <1>1, <2>1, <2>2, <2>3 DEF NamesIn, Numbered
  <2>6. \A row \in before'[s] : StillToFind(s, row)'
    BY <2>1, <2>2, <2>3 DEF StillToFind, NamesIn, Name
  <2> QED
    BY <1>1, <1>2, <2>1, <2>4, <2>5, <2>6 DEF WipeReaches, Stage
<1>3. CASE ~ wipe[s]
  <2>1. pc'[s] = AfterNames(0) /\ before'[s] = before[s]
    BY <1>3 DEF Start, Goto, SeedInv, VarTypes, ProcTypes, Proc
  <2>2. pc'[s] # "new"
    BY <2>1, AfterNamesTypes
  <2> QED
    BY <1>1, <2>1, <2>2, ReachesOn
<1> QED
  BY <1>2, <1>3

LEMMA LockRowReaches ==
    ASSUME SeedInv, Numbered, NEW s \in Seeder, LockRow(s), WipeReaches(s)
    PROVE  WipeReaches(s)'
<1>1. pc[s] \in Stage /\ s \in Proc /\ Step(s) /\ UNCHANGED <<tasks, names, pc, before>>
  BY DEF LockRow, Proc, Step, SeedStep, dbVars
<1>2. PICK found \in scan[s] :
        /\ scan' = [scan EXCEPT ![s] = @ \ {found}]
        /\ IF found \in Found(s, pc[s])
             THEN doomed' = IF pc[s] \in {"set_null", "cascade"}
                              THEN doomed
                              ELSE [doomed EXCEPT ![s] = @ \cup {found}]
             ELSE UNCHANGED <<locks, doomed>>
  BY DEF LockRow
<1>3. /\ scan'[s] = scan[s] \ {found} /\ doomed[s] \subseteq doomed'[s]
      /\ found \in Found(s, pc[s]) /\ pc[s] \notin {"set_null", "cascade"} => found \in doomed'[s]
  BY <1>2 DEF SeedInv, VarTypes, ProcTypes
<1>4. TaskId \cap NameRow = {} /\ names \subseteq NameRow
  BY IdsApart DEF SeedInv, VarTypes, TableTypes
<1>5. ASSUME NEW row \in before[s]
      PROVE  row \in doomed'[s] \/ Gone(row)' \/ StillToFind(s, row)'
  <2>1. Gone(row)' <=> Gone(row)
    BY <1>1 DEF Gone
  <2>2. CASE row \in doomed[s] \/ Gone(row)
    BY <1>3, <2>1, <2>2
  <2>3. CASE StillToFind(s, row) /\ row # found
    BY <1>1, <1>3, <2>3 DEF StillToFind
  <2>4. CASE StillToFind(s, row) /\ row = found /\ found \in Found(s, pc[s])
    <3>1. CASE pc[s] \in {"set_null", "cascade"}
      BY <1>1, <2>4, <3>1 DEF StillToFind
    <3> QED
      BY <1>3, <2>4, <3>1
  <2>5. CASE StillToFind(s, row) /\ row = found /\ found \notin Found(s, pc[s])
    <3>1. CASE row \in TaskId /\ pc[s] = "tasks"
      <4>1. ~ Live(row) /\ OfUser(row)
        BY <2>5, <3>1 DEF Found, WipeReaches
      <4> QED
        BY <1>4, <2>1, <3>1, <4>1 DEF Gone, Live, OfUser
    <3>2. CASE row \in NameRow /\ row[2] \in Project /\ pc[s] = "projects"
      <4>1. row \notin NamesIn(Project) /\ row[1] = Seeded
        BY <2>5, <3>2 DEF Found, WipeReaches
      <4> QED
        BY <1>4, <2>1, <3>2, <4>1 DEF Gone, NamesIn
    <3>3. CASE row \in NameRow /\ row[2] \in Tag /\ pc[s] = "tags"
      <4>1. row \notin NamesIn(Tag) /\ row[1] = Seeded
        BY <2>5, <3>3 DEF Found, WipeReaches
      <4> QED
        BY <1>4, <2>1, <3>3, <4>1 DEF Gone, NamesIn
    <3>4. CASE row \in NameRow /\ (\/ row[2] \in Project /\ pc[s] = "tasks"
                                   \/ row[2] \in Tag /\ pc[s] \in {"tasks", "projects", "set_null"})
      BY <1>1, <3>4 DEF StillToFind
    <3> QED
      BY <2>5, <3>1, <3>2, <3>3, <3>4 DEF StillToFind
  <2> QED
    BY <1>1, <2>2, <2>3, <2>4, <2>5 DEF WipeReaches
<1>6. pc'[s] \notin {"new", "names", "draw", "insert", "attach", "done"}
  BY <1>1 DEF Stage
<1> QED
  BY <1>1, <1>5, <1>6, ReachesOn

LEMMA NextStatementReaches ==
    ASSUME SeedInv, Numbered, NEW s \in Seeder, NextStatement(s), WipeReaches(s)
    PROVE  WipeReaches(s)'
<1>1. /\ pc[s] \in Stage \ {"cascade"} /\ scan[s] = {} /\ s \in Proc /\ Step(s)
      /\ UNCHANGED <<tasks, names, doomed, before>>
  BY DEF NextStatement, Proc, Step, SeedStep, dbVars
<1>2. pc'[s] = Following[pc[s]] /\ scan'[s] = Found(s, Following[pc[s]])
  BY DEF NextStatement, Scan, Goto, SeedInv, VarTypes, ProcTypes, Proc
<1>3. TaskId \cap NameRow = {}
  BY IdsApart
<1>4. ASSUME NEW row \in before[s]
      PROVE  row \in doomed'[s] \/ Gone(row)' \/ StillToFind(s, row)'
  <2>1. Gone(row)' <=> Gone(row)
    BY <1>1 DEF Gone
  <2>2. CASE row \in doomed[s] \/ Gone(row)
    BY <1>1, <2>1, <2>2
  <2>3. CASE StillToFind(s, row) /\ ~ Gone(row)
    <3>1. row \in NameRow
      BY <1>1, <2>3 DEF StillToFind
    <3>2. row \in names /\ row[1] = Seeded
      BY <1>3, <2>3, <3>1 DEF Gone, WipeReaches
    <3>3. CASE pc[s] = "tasks" /\ row[2] \in Project
      BY <1>2, <3>1, <3>2, <3>3 DEF StillToFind, Following, Found, NamesIn
    <3>4. CASE pc[s] \in {"tasks", "projects"} /\ row[2] \in Tag
      BY <1>2, <3>1, <3>4 DEF StillToFind, Following
    <3>5. CASE pc[s] = "set_null" /\ row[2] \in Tag
      BY <1>2, <3>1, <3>2, <3>5 DEF StillToFind, Following, Found, NamesIn
    <3> QED
      BY <1>1, <1>3, <2>3, <3>1, <3>3, <3>4, <3>5 DEF StillToFind
  <2> QED
    BY <1>1, <2>2, <2>3 DEF WipeReaches
<1>5. pc'[s] \notin {"new", "names", "draw", "insert", "attach", "done"}
  BY <1>1, <1>2 DEF Stage, Following
<1> QED
  BY <1>1, <1>4, <1>5, ReachesOn

\* When the wipe is committed, all that was there when it began is gone.
LEMMA CommitWipeReaches ==
    ASSUME SeedInv, Numbered, NEW s \in Seeder, CommitWipe(s), WipeReaches(s)
    PROVE  WipeReaches(s)' /\ \A row \in before[s] : row \in doomed[s] \/ Gone(row)
<1>1. /\ pc[s] = "cascade" /\ scan[s] = {} /\ s \in Proc /\ Step(s) /\ before' = before
      /\ names' = names \ doomed[s] /\ pc' = [pc EXCEPT ![s] = AfterNames(0)]
  BY DEF CommitWipe, Goto, Proc, Step, SeedStep
<1>2. \A t \in TaskId \cap doomed[s] : tasks'[t] = NoRow
  BY DEF CommitWipe
<1>3. \A row \in before[s] : row \in doomed[s] \/ Gone(row)
  BY <1>1 DEF WipeReaches, StillToFind, Stage
<1>4. \A row \in before[s] : Gone(row)'
  BY <1>1, <1>2, <1>3, BeforeStays DEF Gone
<1>5. pc'[s] = AfterNames(0)
  BY <1>1 DEF SeedInv, VarTypes, ProcTypes
<1>6. pc'[s] \in {"names", "draw"}
  BY <1>5, AfterNamesTypes
<1> QED
  BY <1>1, <1>3, <1>4, <1>6, ReachesOn DEF Stage

LEMMA OwnReaches ==
    ASSUME SeedInv, Numbered, NEW s \in Seeder, Step(s), WipeReaches(s)
    PROVE  WipeReaches(s)'
<1>1. s \in Proc /\ s \notin Req
  BY ProcAssumption DEF Proc
<1>2. CASE End(s, "failed")
  <2>1. before'[s] = before[s] /\ pc'[s] = "failed"
    BY <1>1, <1>2 DEF End, Goto, SeedInv, VarTypes, ProcTypes
  <2> QED
    BY <1>1, <2>1, ReachesOn DEF Stage
<1>3. CASE /\ ~ End(s, "failed")
           /\ UpsertName(s) \/ Draw(s) \/ InsertTask(s) \/ AttachTag(s) \/ CommitTasks(s)
  <2>1. pc[s] \in {"names", "draw", "insert", "attach"} /\ before' = before
    BY <1>3 DEF UpsertName, Draw, InsertTask, AttachTag, CommitTasks, Refer, End
  <2>2. \A row \in before[s] : Gone(row)'
    BY <1>1, <2>1, BeforeStays DEF WipeReaches
  <2>3. pc'[s] # "new"
    <3>1. pc' = pc \/ \E step \in {"names", "draw", "insert", "attach", "failed", "done"} :
                         pc' = [pc EXCEPT ![s] = step]
      BY <1>3, AfterNamesTypes
         DEF UpsertName, Draw, InsertTask, AttachTag, CommitTasks, Refer, End, Goto, AfterLinks, AfterNames
    <3> QED
      BY <1>1, <2>1, <3>1 DEF SeedInv, VarTypes, ProcTypes
  <2> QED
    BY <1>1, <2>1, <2>2, <2>3, ReachesOn
<1> QED
  BY <1>1, <1>2, <1>3, StartReaches, LockRowReaches, NextStatementReaches, CommitWipeReaches
     DEF Step, SeedStep, Fail, DeadlockAbort

------------------------------------------------------------------------------
(* A run that nobody disturbs *)

SeededTasks == {t \in TaskId : Live(t)}

LEMMA SameTables ==
    ASSUME UNCHANGED dbVars
    PROVE  SeededTasks' = SeededTasks /\ NamesIn(Name)' = NamesIn(Name)
BY DEF dbVars, SeededTasks, Live, NamesIn

LEMMA OtherUndisturbed ==
    ASSUME SeedInv, NEW x \in Proc, Step(x), Watch(x), NEW s \in Seeder \ {x}, Undisturbed(s)
    PROVE  Undisturbed(s)'
<1>1. wipe' = wipe /\ pc'[s] = pc[s] /\ known'[s] = known[s] /\ before'[s] = before[s]
  BY StepKeeps DEF OthersKept, Proc
<1>2. alone'[s] => alone[s] /\ UNCHANGED dbVars
  BY DEF Watch, dbVars
<1>3. ASSUME alone'[s]
      PROVE  Undisturbed(s)'
  <2>1. SeededTasks' = SeededTasks /\ NamesIn(Name)' = NamesIn(Name)
    BY <1>2, <1>3, SameTables
  <2> QED
    BY <1>1, <1>2, <1>3, <2>1 DEF Undisturbed, SeededTasks
<1> QED
  BY <1>3 DEF Undisturbed

\* The tables stay, and so does what is said of them in the two halves of a run.
LEMMA StaysUndisturbed ==
    ASSUME SeedInv, NEW s \in Seeder, Step(s), Watch(s), Undisturbed(s), pc[s] # "new", UNCHANGED dbVars,
           \/ pc'[s] \in Stage /\ pc[s] \in Stage /\ before'[s] = before[s]
           \/ /\ pc'[s] \in {"names", "draw", "insert", "attach"}
              /\ pc[s] \in {"names", "draw", "insert", "attach"}
              /\ known'[s] = known[s]
           \/ pc'[s] = "failed"
    PROVE  Undisturbed(s)'
<1>1. wipe' = wipe
  BY StepKeeps DEF OthersKept, Proc
<1>2. alone'[s] => alone[s]
  BY DEF Watch
<1>3. SeededTasks' = SeededTasks /\ NamesIn(Name)' = NamesIn(Name)
  BY SameTables
<1> QED
  BY <1>1, <1>2, <1>3 DEF Undisturbed, SeededTasks, Stage

LEMMA StartUndisturbed ==
    ASSUME SeedInv, NEW s \in Seeder, Start(s), Watch(s), Undisturbed(s)
    PROVE  Undisturbed(s)'
<1>1. pc[s] = "new" /\ wipe' = wipe /\ UNCHANGED dbVars
  BY DEF Start
<1>2. alone'[s] => wipe[s]
  BY <1>1 DEF Watch, Undisturbed
<1>3. CASE wipe[s]
  <2>1. pc'[s] = "tasks" /\ before'[s] = Found(s, "tasks") \cup NamesIn(Name)
    BY <1>3 DEF Start, Scan, Goto, SeedInv, VarTypes, ProcTypes, Proc
  <2>2. before'[s] = SeededTasks \cup NamesIn(Name)
    BY <2>1 DEF Found, SeededTasks
  <2>3. SeededTasks' = SeededTasks /\ NamesIn(Name)' = NamesIn(Name)
    BY <1>1, SameTables
  <2> QED
    BY <1>1, <1>3, <2>1, <2>2, <2>3 DEF Undisturbed, SeededTasks
<1> QED
  BY <1>2, <1>3 DEF Undisturbed

LEMMA CommitWipeUndisturbed ==
    ASSUME SeedInv, Numbered, NEW s \in Seeder, WipeReaches(s), CommitWipe(s), Watch(s), Undisturbed(s)
    PROVE  Undisturbed(s)'
<1>1. /\ pc[s] = "cascade" /\ wipe' = wipe /\ known' = known /\ names' = names \ doomed[s]
      /\ pc' = [pc EXCEPT ![s] = AfterNames(0)] /\ Tables(s) /\ known[s] = {}
  BY CommitWipeTables DEF CommitWipe, Goto, SeedInv, RunOK, NamesKnown, Stage
<1>2. pc'[s] \in {"names", "draw"}
  <2>1. pc'[s] = AfterNames(0)
    BY <1>1 DEF SeedInv, VarTypes, ProcTypes, Proc
  <2> QED
    BY <2>1, AfterNamesTypes
<1>3. SUFFICES ASSUME alone'[s]
               PROVE  /\ wipe[s] /\ SeededTasks' = {} /\ NamesIn(Name)' = {}
  BY <1>1, <1>2 DEF Undisturbed, SeededTasks, Stage
<1>4. wipe[s] /\ SeededTasks \cup NamesIn(Name) = before[s]
  BY <1>1, <1>3 DEF Watch, Undisturbed, SeededTasks, Stage
<1>5. \A row \in before[s] : row \in doomed[s] \/ Gone(row)
  BY CommitWipeReaches
<1>6. ASSUME NEW t \in SeededTasks'
      PROVE  FALSE
  <2>1. t \in TaskId /\ tasks'[t] # NoRow /\ tasks'[t].user = Seeded
    BY <1>6 DEF SeededTasks, Live
  <2>2. t \notin doomed[s] /\ tasks[t] # NoRow
    BY <2>1 DEF CommitWipe
  <2>3. t \in SeededTasks
    BY <1>1, <2>1, <2>2 DEF Tables, SeededTasks, Live
  <2> QED
    BY <1>4, <1>5, <2>1, <2>2, <2>3 DEF Gone
<1>7. ASSUME NEW n \in NamesIn(Name)'
      PROVE  FALSE
  <2>1. n \in names /\ n \notin doomed[s] /\ n \in NamesIn(Name)
    BY <1>1, <1>7 DEF NamesIn
  <2> QED
    BY <1>4, <1>5, <2>1 DEF Gone
<1> QED
  BY <1>4, <1>6, <1>7

LEMMA UpsertNameUndisturbed ==
    ASSUME SeedInv, NEW s \in Seeder, UpsertName(s), Watch(s), Undisturbed(s)
    PROVE  Undisturbed(s)'
<1> DEFINE new == RowOf(NextName(s))
<1>1. /\ pc[s] = "names" /\ wipe' = wipe /\ tasks' = tasks /\ names' = names \cup {new}
      /\ known' = [known EXCEPT ![s] = @ \cup {new}]
      /\ pc' = [pc EXCEPT ![s] = AfterNames(Cardinality(known[s]) + 1)]
  BY DEF UpsertName, Goto
<1>2. known'[s] = known[s] \cup {new} /\ pc'[s] = AfterNames(Cardinality(known[s]) + 1)
  BY <1>1 DEF SeedInv, VarTypes, ProcTypes, Proc
<1>3. NextName(s) \in Name /\ Cardinality(known[s]) + 1 \in Nat
  BY <1>1, NextNameTypes
<1>4. new[1] = Seeded /\ new[2] \in Name
  BY <1>3, WipesBounded, RowOfName DEF SeedInv
<1>5. pc'[s] \in {"names", "draw"}
  BY <1>2, <1>3, AfterNamesTypes
<1> HIDE DEF new
<1>6. SeededTasks' = SeededTasks /\ NamesIn(Name)' = NamesIn(Name) \cup {new}
  BY <1>1, <1>4 DEF SeededTasks, Live, NamesIn
<1>7. alone'[s] => alone[s]
  BY <1>1 DEF Watch
<1> QED
  BY <1>1, <1>2, <1>5, <1>6, <1>7 DEF Undisturbed, SeededTasks, Stage

LEMMA CommitTasksUndisturbed ==
    ASSUME SeedInv, NEW s \in Seeder, CommitTasks(s), Watch(s), Undisturbed(s)
    PROVE  Undisturbed(s)'
<1>1. /\ pc[s] = "draw" /\ wipe' = wipe /\ names' = names /\ pc' = [pc EXCEPT ![s] = "done"]
      /\ Len(drafts[s]) = Count
      /\ tasks' = [t \in TaskId |-> IF t \in {s} \X (1 .. Count) THEN drafts[s][t[2]] ELSE tasks[t]]
  BY DEF CommitTasks, End, Goto
<1>2. pc'[s] = "done"
  BY <1>1 DEF SeedInv, VarTypes, ProcTypes, Proc
<1>3. SUFFICES ASSUME alone'[s]
               PROVE  /\ wipe[s] /\ SeededTasks' = {s} \X (1 .. Count)
                      /\ {n[2] : n \in NamesIn(Name)'} = ToSet(BaseNames)
  BY <1>1, <1>2 DEF Undisturbed, SeededTasks, Stage
<1>4. wipe[s] /\ SeededTasks = {} /\ NamesIn(Name) = known[s]
  BY <1>1, <1>3 DEF Watch, Undisturbed, SeededTasks
<1>5. SeededTasks' = {s} \X (1 .. Count)
  <2>1. ASSUME NEW k \in 1 .. Count
        PROVE  <<s, k>> \in SeededTasks'
    <3>1. drafts[s] \in Seq(Row) /\ DraftsWhole(s)
      BY DEF SeedInv, VarTypes, ProcTypes, RunOK
    <3>2. k \in DOMAIN drafts[s] /\ drafts[s][k] \in Row
      BY <1>1, <3>1
    <3>3. drafts[s][k].user = Seeded /\ drafts[s][k] # NoRow
      BY <3>1, <3>2, NullAssumption DEF DraftsWhole
    <3>4. <<s, k>> \in TaskId
      BY IdsApart
    <3>5. tasks'[<<s, k>>] = drafts[s][k]
      BY <1>1, <3>4
    <3> QED
      BY <3>3, <3>4, <3>5 DEF SeededTasks, Live
  <2>2. ASSUME NEW t \in SeededTasks', t \notin {s} \X (1 .. Count)
        PROVE  FALSE
    <3>1. t \in TaskId /\ tasks'[t] = tasks[t]
      BY <1>1, <2>2 DEF SeededTasks
    <3>2. t \in SeededTasks
      BY <2>2, <3>1 DEF SeededTasks, Live
    <3> QED
      BY <1>4, <3>2
  <2> QED
    BY <2>1, <2>2
<1>6. NamesIn(Name)' = known[s]
  BY <1>1, <1>4 DEF NamesIn
<1>7. {n[2] : n \in known[s]} = ToSet(BaseNames)
  <2>1. {n[2] : n \in known[s]} = {BaseNames[i] : i \in 1 .. Len(BaseNames)}
    BY <1>1 DEF SeedInv, RunOK, NamesKnown
  <2>2. DOMAIN BaseNames = 1 .. Len(BaseNames)
    BY NamesAssumption
  <2> QED
    BY <2>1, <2>2 DEF ToSet
<1> QED
  BY <1>4, <1>5, <1>6, <1>7

LEMMA OwnUndisturbed ==
    ASSUME SeedInv, Numbered, NEW s \in Seeder, WipeReaches(s), Step(s), Watch(s), Undisturbed(s)
    PROVE  Undisturbed(s)'
<1>1. s \in Proc /\ s \notin Req
  BY ProcAssumption DEF Proc
<1>2. CASE End(s, "failed") /\ pc[s] = "new"
  <2>1. pc'[s] = "failed" /\ wipe' = wipe
    BY <1>1, <1>2 DEF End, Goto, SeedInv, VarTypes, ProcTypes
  <2>2. alone'[s] => wipe[s]
    BY <1>2 DEF Watch, Undisturbed
  <2> QED
    BY <2>1, <2>2 DEF Undisturbed, Stage
<1>3. CASE End(s, "failed") /\ pc[s] # "new" /\ UNCHANGED dbVars
  <2>1. pc'[s] = "failed"
    BY <1>1, <1>3 DEF End, Goto, SeedInv, VarTypes, ProcTypes
  <2> QED
    BY <1>3, <2>1, StaysUndisturbed
<1>4. CASE LockRow(s) \/ NextStatement(s)
  <2>1. pc[s] \in Stage /\ before' = before /\ UNCHANGED dbVars
    BY <1>4 DEF LockRow, NextStatement
  <2>2. pc'[s] \in Stage
    BY <1>1, <1>4 DEF LockRow, NextStatement, Scan, Goto, Following, Stage, SeedInv, VarTypes, ProcTypes
  <2> QED
    BY <2>1, <2>2, StaysUndisturbed DEF Stage
<1>5. CASE ~ End(s, "failed") /\ (Draw(s) \/ InsertTask(s) \/ AttachTag(s))
  <2>1. pc[s] \in {"draw", "insert", "attach"} /\ known' = known /\ UNCHANGED dbVars
    BY <1>5 DEF Draw, InsertTask, AttachTag, Refer
  <2>2. \E step \in {"draw", "insert", "attach"} : pc' = [pc EXCEPT ![s] = step]
    BY <1>5 DEF Draw, InsertTask, AttachTag, Refer, Goto, AfterLinks
  <2>3. pc'[s] \in {"draw", "insert", "attach"}
    BY <1>1, <2>2 DEF SeedInv, VarTypes, ProcTypes
  <2> QED
    BY <2>1, <2>3, StaysUndisturbed
<1>6. InsertTask(s) \/ AttachTag(s) \/ Fail(s) \/ DeadlockAbort(s) => UNCHANGED dbVars
  BY DEF InsertTask, AttachTag, Fail, DeadlockAbort
<1>7. CASE End(s, "failed") /\ (InsertTask(s) \/ AttachTag(s) \/ Fail(s) \/ DeadlockAbort(s))
  BY <1>2, <1>3, <1>6, <1>7
<1>8. CASE End(s, "failed") /\ Draw(s)
  BY <1>2, <1>3, <1>8 DEF Draw
<1> QED
  BY <1>1, <1>4, <1>5, <1>7, <1>8, StartUndisturbed, CommitWipeUndisturbed, UpsertNameUndisturbed,
     CommitTasksUndisturbed DEF Step, SeedStep, Fail, DeadlockAbort

\* What has been proved step by step, as an invariant.
THEOREM WipeInvariant == Spec => []WipeInv
<1>1. Init => WipeInv
  <2> SUFFICES ASSUME Init
               PROVE  WipeInv
    OBVIOUS
  <2>1. SeedInv /\ wipes = 0
    BY InitInv DEF Init
  <2>2. Numbered
    <3>1. \A t \in DOMAIN Saved : Refs(Saved[t]) \subseteq {Saved[t].user} \X Name \X {0}
      BY SavedAssumption DEF Refs
    <3>2. \A n \in names : \E t \in DOMAIN Saved : n \in Refs(Saved[t])
      BY InitNames
    <3> QED
      BY <2>1, <3>1, <3>2 DEF Numbered
  <2>3. ASSUME NEW s \in Seeder
        PROVE  WipeReaches(s) /\ Undisturbed(s)
    <3>1. pc[s] = "new" /\ before[s] = {} /\ alone[s] = FALSE
      BY DEF Init, Proc
    <3> QED
      BY <3>1 DEF WipeReaches, Undisturbed, Stage
  <2> QED
    BY <2>2, <2>3 DEF WipeInv
<1>2. ASSUME SeedInv, WipeInv, NEW x \in Proc, Step(x), Watch(x)
      PROVE  WipeInv'
  <2>1. Numbered'
    BY <1>2, StepNumbered DEF WipeInv
  <2>2. \A s \in Seeder : WipeReaches(s)'
    BY <1>2, OtherReaches, OwnReaches DEF WipeInv
  <2>3. \A s \in Seeder : Undisturbed(s)'
    BY <1>2, OtherUndisturbed, OwnUndisturbed DEF WipeInv
  <2> QED
    BY <2>1, <2>2, <2>3 DEF WipeInv
<1>3. ASSUME WipeInv, UNCHANGED vars
      PROVE  WipeInv'
  BY <1>3 DEF WipeInv, vars, dbVars, Numbered, WipeReaches, Undisturbed, OfUser, ToCome, Gone, StillToFind,
              Live, NamesIn
<1>4. SeedInv /\ WipeInv /\ [Next]_vars => WipeInv'
  BY <1>2, <1>3, NextIsSteps
<1> QED
  BY <1>1, <1>4, SeedInvariant, PTL DEF Spec

\* When a run goes on to seed, no task, project or tag that was there when its
\* wipe began is left, whatever the application and other runs did meanwhile.
THEOREM WipesBeforeSeeding == Spec => []WipedBeforeSeeding
<1>1. WipeInv => WipedBeforeSeeding
  BY DEF WipeInv, WipeReaches, WipedBeforeSeeding, Gone
<1> QED
  BY <1>1, WipeInvariant, PTL

\* A run that nobody disturbs ends with its own tasks and names and no others.
THEOREM SeedsExactly == Spec => []SeedIsExact
<1>1. WipeInv => SeedIsExact
  BY DEF WipeInv, Undisturbed, SeedIsExact
<1> QED
  BY <1>1, WipeInvariant, PTL

------------------------------------------------------------------------------
(* The order of the times of a seeded task *)

\* However far back tasks are made and however long they take, the seeder dates
\* nothing after its own start, archives no task before its update, and dates an
\* update before the making of its task only among the most recent ones.
LEMMA SeededDatesInOrder == SeededDatesOrdered
<1> SUFFICES ASSUME NEW age \in 0 .. Ages - 1, NEW growth \in 1 .. Growth,
                    NEW recent \in 0 .. Recent - 1, NEW shelf \in 1 .. Shelf
             PROVE  LET created == CreatedAt(age)
                        updated == UpdatedAt(created, growth, recent)
                        archived == ArchivedAt(updated, shelf)
                    IN  /\ created <= 0 /\ updated <= archived /\ archived <= 0
                        /\ created <= updated \/ (0 - Recent < created /\ 0 - Recent < updated)
  BY DEF SeededDatesOrdered
<1> DEFINE created == CreatedAt(age)
           updated == UpdatedAt(created, growth, recent)
           archived == ArchivedAt(updated, shelf)
<1>1. /\ age \in Int /\ growth \in Int /\ recent \in Int /\ shelf \in Int
      /\ 0 <= age /\ 0 < growth /\ 0 <= recent /\ recent < Recent /\ 0 < shelf
      /\ Recent \in Int
  BY DatesAssumption
<1>2. created \in Int /\ created <= 0
  BY <1>1 DEF CreatedAt
<1>3. /\ updated \in Int /\ updated <= 0
      /\ created <= updated \/ (0 - Recent < created /\ 0 - Recent < updated)
  <2>1. CASE created + growth > 0
    <3>1. updated = 0 - recent
      BY <2>1 DEF UpdatedAt
    <3>2. CASE created <= updated
      BY <1>1, <3>1, <3>2
    <3>3. CASE updated < created
      BY <1>1, <1>2, <3>1, <3>3
    <3> QED
      BY <1>1, <1>2, <3>1, <3>2, <3>3
  <2>2. CASE ~ (created + growth > 0)
    <3>1. updated = created + growth
      BY <2>2 DEF UpdatedAt
    <3> QED
      BY <1>1, <1>2, <2>2, <3>1
  <2> QED
    BY <2>1, <2>2
<1>4. updated <= archived /\ archived <= 0
  BY <1>1, <1>3 DEF ArchivedAt
<1> QED
  BY <1>2, <1>3, <1>4

\* So are the tasks that a run inserts, in every behaviour of the runs and of the
\* application next to them.
THEOREM TasksAreDatedInOrder == Spec => []TasksDatedInOrder
<1>1. TasksDatedInOrder
  BY SeededDatesInOrder DEF TasksDatedInOrder
<1> QED
  BY <1>1, PTL
=============================================================================
