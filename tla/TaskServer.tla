----------------------------- MODULE TaskServer -----------------------------
(***************************************************************************)
(* One life of the process that serves TaskService: cmd/app starts it, a   *)
(* signal or a crash ends it.  ListenAndServe returns as soon as Shutdown  *)
(* is called, not when it is done, so main goes on to close the pool and   *)
(* to exit while requests are being served.  What they had open is then    *)
(* rolled back by PostgreSQL; a statement it has already been given, and   *)
(* that waits for a lock, may still take effect after the process is gone. *)
(***************************************************************************)
EXTENDS TaskService

VARIABLES
    server,     \* where main is
    connected   \* the requests that still have a connection, once the pool is closed

serverVars == <<vars, server, connected>>

Phase == {"starting", "serving", "closed", "exited"}

ServerInit == Init /\ server = "starting" /\ connected = {}

------------------------------------------------------------------------------
(* main *)

\* Open, Ping, migrate.Up and Listen, in this order; any of them may fail,
\* which ends the process, as a signal does that comes before NotifyContext.
Boot ==
    /\ server = "starting"
    /\ server' \in {"serving", "exited"}
    /\ UNCHANGED <<vars, connected>>

InTransaction(r) == pc[r] \in {"row", "unlink", "link"}

\* The requests with a statement that PostgreSQL has been given and keeps
\* waiting for a lock; one that need not wait is complete, or not yet sent.
Waiting(steps) == {r \in Req : pc[r] \in steps /\ \E s \in Req : WaitsFor(r, s)}

\* SIGINT or SIGTERM: Shutdown is called, ListenAndServe returns nil, and the
\* deferred db.Close does not wait for the connections in use.  Later signals
\* are swallowed.
Shutdown ==
    /\ server = "serving"
    /\ server' = "closed"
    /\ \E asked \in SUBSET Waiting({"project", "write", "delete"}) :
          connected' = asked \cup {r \in Req : InTransaction(r) \/ pc[r] = "fk"}
    /\ UNCHANGED vars

\* The process ends, where main returns or anywhere.  PostgreSQL goes on with
\* some of the statements of their own that wait.
End ==
    /\ server' = "exited"
    /\ \E asked \in SUBSET Waiting({"write", "delete", "fk"}) :
          /\ server = "closed" => asked \subseteq connected
          /\ connected' = asked
    /\ UNCHANGED vars

Exit == server = "closed" /\ End
Crash == server = "serving" /\ End

------------------------------------------------------------------------------
(* The requests meanwhile *)

Alive == server \in {"serving", "closed"}

\* Shutdown closes the listener; what was accepted before is still served.
Arrive(r) == Alive /\ Begin(r) /\ UNCHANGED <<server, connected>>

\* Mutant of HasConnection: the pool hands out connections after its Close.
HasConnectionAlways(r) == Alive

\* Whether r has, or the pool gives it, a connection for its next step.
HasConnection(r) ==
    \/ server = "serving"
    \/ server = "closed" /\ r \in connected /\ pc[r] \notin {"get", "reread"}

Proceed(r) ==
    /\ \/ HasConnection(r) /\ Step(r)
       \/ Alive /\ Stamp(r)
    /\ UNCHANGED <<server, connected>>

\* sql: database is closed
PoolClosed(r) ==
    /\ server = "closed"
    /\ pc[r] \in Statement
    /\ ~ HasConnection(r)
    /\ Finish(r, "error")
    /\ UNCHANGED <<dbVars, nextId, clock, server, connected>>

ServeFail(r) == Alive /\ Fail(r) /\ UNCHANGED <<server, connected>>

\* PostgreSQL completes a statement whose client is gone.
Orphan(r) ==
    /\ server = "exited"
    /\ r \in connected
    /\ WriteRow(r) \/ CheckFk(r) \/ DeleteTask(r)
    /\ pc'[r] \in {"fk", "error"}
    /\ UNCHANGED <<server, connected>>

\* Mutant of Cut: what an open transaction has written so far stays.
CutHalfway(r) ==
    /\ server = "exited"
    /\ InFlight(r)
    /\ tasks' = IF pc[r] = "unlink" THEN [tasks EXCEPT ![id[r]] = Stored(r)] ELSE tasks
    /\ Finish(r, "error")
    /\ UNCHANGED <<links, tags, projects, nextId, clock, server, connected>>

\* The browser sees its connection closed, PostgreSQL ends the session behind
\* it: an open transaction is rolled back, a statement that was not sent lost.
Cut(r) ==
    /\ server = "exited"
    /\ InFlight(r)
    /\ Finish(r, "error")
    /\ UNCHANGED <<dbVars, nextId, clock, server, connected>>

Detect(r) == DeadlockAbort(r) /\ UNCHANGED <<server, connected>>
Pass == Tick /\ UNCHANGED <<server, connected>>

\* The process is gone, or every request is answered.
Ended ==
    /\ \A r \in Req : pc[r] \in Reply \cup (IF server = "exited" THEN {"new"} ELSE {})
    /\ UNCHANGED serverVars

ServerNext ==
    \/ Boot \/ Shutdown \/ Exit \/ Crash
    \/ \E r \in Req : \/ Arrive(r) \/ Proceed(r) \/ PoolClosed(r) \/ ServeFail(r)
                      \/ Orphan(r) \/ Cut(r) \/ Detect(r)
    \/ Pass
    \/ Ended

ServerSpec == ServerInit /\ [][ServerNext]_serverVars

\* Requests being served go on, PostgreSQL finds deadlocks and closed
\* connections.  No signal has to come, no crash, no request.
ServerFairness ==
    /\ \A r \in Req : WF_serverVars(Proceed(r) \/ PoolClosed(r) \/ Cut(r))
    /\ WF_serverVars(\E r \in Req : Detect(r))

FairServerSpec == ServerSpec /\ ServerFairness

------------------------------------------------------------------------------
(* Properties *)

\* Types; and once the pool is closed every open transaction is on a connection
\* that was in use before, whatever requests are still let in or at work.
ServerTypeOK ==
    /\ TypeOK
    /\ server \in Phase
    /\ connected \subseteq Req
    /\ server = "starting" => \A r \in Req : pc[r] = "new"
    /\ server = "closed" => {r \in Req : InTransaction(r)} \subseteq connected
==============================================================================
