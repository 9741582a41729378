---------------------------- MODULE MCTaskService ----------------------------
(***************************************************************************)
(* Instances of TaskService for TLC: the workloads of the runs.            *)
(***************************************************************************)
EXTENDS TaskService, TLC

CONSTANTS r1, r2, r3, r4, u1, u2, good, better, bad, home, work, a, b

\* Forms submitted for a new task and for task t.
CreateCall(u, body, p, names) ==
    [op |-> "create", user |-> u, id |-> 0, body |-> body, status |-> "todo",
     project |-> p, tags |-> names]

EditCall(u, t, body, s, p, names) ==
    [op |-> "update", user |-> u, id |-> t, body |-> body, status |-> s,
     project |-> p, tags |-> names]

\* A button of the list; only set_status reads a status.
ButtonCall(op, u, t) ==
    [op |-> op, user |-> u, id |-> t, body |-> good, status |-> "done",
     project |-> NoProject, tags |-> <<>>]

SavedTask(u, p, archived) ==
    [user |-> u, body |-> good, status |-> "todo", project |-> <<u, p>>,
     created |-> 1, updated |-> 1, archived |-> archived]

Empty == <<>>

\* Two users, a task each, everything done to them.
SafetyCalls ==
    {CreateCall(u1, good, home, <<a>>), CreateCall(u2, good, home, <<a>>),
     CreateCall(u1, bad, NoProject, <<>>),
     EditCall(u1, 1, better, "in_progress", work, <<b>>), EditCall(u1, 1, good, "todo", home, <<a>>),
     EditCall(u2, 1, better, "done", work, <<b>>),
     EditCall(u2, 2, better, "done", NoProject, <<b>>),
     ButtonCall("archive", u1, 1), ButtonCall("unarchive", u2, 2),
     ButtonCall("set_status", u1, 1), ButtonCall("set_status", u2, 1),
     ButtonCall("delete", u1, 1), ButtonCall("delete", u2, 1)}

\* Ways to wait in a circle: tags linked in opposite orders, and an archive that
\* stores the project it read before one edit moved the task away from it,
\* while another edit moves it back.
CircleCalls ==
    {CreateCall(u1, good, home, <<a, b>>), ButtonCall("archive", u1, 1),
     EditCall(u1, 1, good, "todo", work, <<b, a>>),
     EditCall(u1, 1, good, "todo", home, <<>>)}

OneSaved == <<SavedTask(u1, home, NoTime)>>

\* A user's requests one after the other, another user's at the same time.
TabCalls ==
    {CreateCall(u1, good, home, <<a>>),
     EditCall(u1, 1, better, "in_progress", work, <<b>>),
     ButtonCall("set_status", u1, 1), ButtonCall("archive", u1, 1),
     ButtonCall("unarchive", u1, 1), ButtonCall("delete", u1, 1),
     CreateCall(u2, good, home, <<a>>), EditCall(u2, 1, good, "todo", work, <<b>>)}

TwoSaved == <<SavedTask(u1, home, NoTime), SavedTask(u2, home, 1)>>

\* The Done button of one tab and the Archive button of another.
DoneAndArchive == {ButtonCall("set_status", u1, 1), ButtonCall("archive", u1, 1)}

\* A new task, submitted again after the answer to the first attempt.
NewTask == {CreateCall(u1, good, home, <<a>>)}

Symmetry == Permutations(Req)
==============================================================================
