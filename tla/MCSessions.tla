----------------------------- MODULE MCSessions -----------------------------
(***************************************************************************)
(* Instances of Sessions for TLC.                                          *)
(***************************************************************************)
EXTENDS Sessions

CONSTANTS t1, t2, b1, ann, bob, right, wrong, short

\* Two tabs of one browser.
OneBrowser == [t \in Tab |-> b1]

\* Ann has an account, Bob has none.
AnnOnly == [e \in Email |-> IF e = ann THEN right ELSE NoUser]

CallOf(op, e, p) == [op |-> op, email |-> e, password |-> p]

\* Two registrations of one email, logins that succeed and fail, the buttons of a page.
TabCalls ==
    {CallOf("register", bob, right), CallOf("register", bob, wrong), CallOf("register", bob, short),
     CallOf("login", ann, right), CallOf("login", bob, right),
     CallOf("act", ann, right), CallOf("logout", ann, right)}
==============================================================================
