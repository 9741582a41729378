----------------------------- MODULE SeedDates -----------------------------
(***************************************************************************)
(* The times seedTasks of cmd/seed draws for a task, in hours counted from *)
(* the start of the run, which is 0.                                       *)
(***************************************************************************)
EXTENDS Integers

CONSTANTS
    Ages,       \* a task is made less than so long ago, 120 days in the code
    Growth,     \* and updated up to so long after that, 96 hours
    Recent,     \* or, if that is still to come, less than so long ago, 24 hours
    Shelf       \* and archived up to so long after that, 72 hours

ASSUME DatesAssumption ==
    /\ Ages \in Nat \ {0} /\ Growth \in Nat \ {0} /\ Recent \in Nat \ {0} /\ Shelf \in Nat \ {0}

CreatedAt(age) == 0 - age

UpdatedAt(created, growth, recent) ==
    IF created + growth > 0 THEN 0 - recent ELSE created + growth

\* Mutant of ArchivedAt: the time is not kept back to the start of the run.
ArchivedAtAnyTime(updated, shelf) == updated + shelf

ArchivedAt(updated, shelf) == IF updated + shelf > 0 THEN 0 ELSE updated + shelf

\* Nothing is dated after the run or archived before its update, and only a task
\* made within the last day may count as updated before it was made.
SeededDatesOrdered ==
    \A age \in 0 .. Ages - 1, growth \in 1 .. Growth, recent \in 0 .. Recent - 1, shelf \in 1 .. Shelf :
        LET created == CreatedAt(age)
            updated == UpdatedAt(created, growth, recent)
            archived == ArchivedAt(updated, shelf)
        IN  /\ created <= 0 /\ updated <= archived /\ archived <= 0
            /\ created <= updated \/ (0 - Recent < created /\ 0 - Recent < updated)
=============================================================================
