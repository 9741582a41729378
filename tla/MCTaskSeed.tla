----------------------------- MODULE MCTaskSeed -----------------------------
(***************************************************************************)
(* An instance of TaskSeed for TLC.                                        *)
(***************************************************************************)
EXTENDS TaskSeed

CONSTANTS s1, s2, r1, u, v, home, mine, a, first, other

\* The seeded user's task is in a project of the base list and one of another
\* user has the same names.
TwoSaved ==
    [t \in {first, other} |->
        [user |-> IF t = first THEN u ELSE v,
         project |-> <<IF t = first THEN u ELSE v, home, 0>>,
         tags |-> {<<IF t = first THEN u ELSE v, a, 0>>}]]

HomeAndA == <<home, a>>

CallOf(op, t, p, names_) == [op |-> op, task |-> t, project |-> p, tags |-> names_]

\* A task with a project and a tag, or with neither.
AllOrNothing == {[project |-> home, tags |-> {a}], [project |-> NoProject, tags |-> {}]}

\* The first run wipes, the second may only append.
FirstWipes == {[s \in Seeder |-> s = s1 \/ both] : both \in BOOLEAN}

\* A new task, an edit that moves the user's task to a project of its own, one
\* that keeps it in the project of the base list, which a wipe deletes after the
\* task (so the two can wait for each other), and the Archive button of the user's
\* task or of one the second run has inserted, whose project the wipe of the first
\* may take away after the button has read it.
OneRequest ==
    {[r \in Req |-> c] : c \in
        {CallOf("create", <<r1, 1>>, home, {a}), CallOf("edit", first, mine, {a}),
         CallOf("edit", first, home, {a}), CallOf("archive", first, NoProject, {}),
         CallOf("archive", <<s2, 1>>, NoProject, {})}}
==============================================================================
