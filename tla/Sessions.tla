------------------------------ MODULE Sessions ------------------------------
(***************************************************************************)
(* Accounts and sessions: internal/app/auth.go, the users and sessions    *)
(* tables, and the middleware of internal/web/server.go (session,          *)
(* requireAuth, csrf) that every form passes.  The tabs of a browser share *)
(* its cookie; a tab keeps the page it was shown, with the CSRF token in   *)
(* its forms, while the other tabs log in and out.  A step of a request is *)
(* one SQL statement with the Go code after it; the answer is a step of    *)
(* its own.                                                                *)
(***************************************************************************)
EXTENDS Integers

CONSTANTS
    Browser, Tab,
    BrowserOf,      \* the browser a tab is in
    Email, Password,
    BadPassword,    \* the passwords domain.ValidatePassword rejects
    Calls,          \* the forms that may be submitted, the workload of an instance
    NoUser,         \* no account under this email
    NoSession,      \* no session under this token
    None,           \* no cookie, no session, an empty csrf_token
    Accounts,       \* the accounts that exist at the start
    MaxSubmit       \* bound: the forms a tab submits

GuestOp == {"register", "login"}
UserOp == {"act", "logout"}
Call == [op : GuestOp \cup UserOp, email : Email, password : Password]

ASSUME BrowserAssumption == BrowserOf \in [Tab -> Browser]
ASSUME CallsAssumption == Calls \subseteq Call /\ Calls # {}
ASSUME PasswordAssumption == BadPassword \subseteq Password
ASSUME AccountAssumption == Accounts \in [Email -> Password \cup {NoUser}]
ASSUME SubmitAssumption == MaxSubmit \in Nat

\* A token is a fresh UUID.  A request makes one at most: it is named after the
\* tab and the forms the tab has still to submit.  The CSRF token of a session is
\* a UUID too; it stands for the session here, as it belongs to no other.
Token == Tab \X (0 .. MaxSubmit - 1)

Session == [email : Email, expired : BOOLEAN]

ASSUME NullAssumption == NoUser \notin Password /\ NoSession \notin Session /\ None \notin Token

VARIABLES
    users,      \* the accounts, each with its password
    sessions,   \* the rows of table sessions
    work,       \* what each account's tasks say; a write changes it
    cookie,     \* the session cookie of each browser
    page,       \* what a tab shows: the session it was rendered for
    pc,         \* the step a tab's request is at
    call,       \* the form submitted
    sent,       \* the cookie sent with it
    sess,       \* the session the middleware put into the request's context
    made,       \* the session the request creates
    reply,      \* its answer
    left        \* the forms a tab has still to submit

dbVars == <<users, sessions, work>>
reqVars == <<pc, call, sent, sess, made, reply>>
vars == <<users, sessions, work, cookie, page, pc, call, sent, sess, made, reply, left>>

\* What the request's context holds of a session.
Identity == [token : Token, email : Email]
Nobody == [token |-> None, email |-> NoUser]

Page == [kind : {"blank", "guest", "user"}, csrf : Token \cup {None}, user : Email \cup {NoUser}]
Blank == [kind |-> "blank", csrf |-> None, user |-> NoUser]
Guest == [kind |-> "guest", csrf |-> None, user |-> NoUser]
UserPage(k) == [kind |-> "user", csrf |-> k, user |-> sessions[k].email]

Reply == {"none", "login_page", "forbidden", "refused", "served", "logged_in", "logged_out"}

TypeOK ==
    /\ users \in [Email -> Password \cup {NoUser}]
    /\ sessions \in [Token -> Session \cup {NoSession}]
    /\ work \in [Email -> {0, 1}]
    /\ cookie \in [Browser -> Token \cup {None}]
    /\ page \in [Tab -> Page]
    /\ pc \in [Tab -> {"idle", "session", "user", "new_session", "commit", "lookup", "insert",
                       "act", "logout", "answer"}]
    /\ call \in [Tab -> Calls]
    /\ sent \in [Tab -> Token \cup {None}]
    /\ sess \in [Tab -> Identity \cup {Nobody}]
    /\ made \in [Tab -> Token \cup {None}]
    /\ reply \in [Tab -> Reply]
    /\ left \in [Tab -> 0 .. MaxSubmit]

NoCall == CHOOSE c \in Calls : TRUE

Init ==
    /\ users = Accounts
    /\ sessions = [k \in Token |-> NoSession]
    /\ work = [e \in Email |-> 0]
    /\ cookie = [b \in Browser |-> None]
    /\ page = [t \in Tab |-> Blank]
    /\ pc = [t \in Tab |-> "idle"]
    /\ call = [t \in Tab |-> NoCall]
    /\ sent = [t \in Tab |-> None]
    /\ sess = [t \in Tab |-> Nobody]
    /\ made = [t \in Tab |-> None]
    /\ reply = [t \in Tab |-> "none"]
    /\ left = [t \in Tab |-> MaxSubmit]

------------------------------------------------------------------------------
(* The browser *)

\* WHERE s.token = $1 AND s.expires_at > $2
Valid(k) == k # None /\ sessions[k] # NoSession /\ ~ sessions[k].expired

CookieOf(t) == cookie[BrowserOf[t]]

\* A GET: the page is rendered for the cookie's session, and is the login or
\* the register page without one.  A failing query counts as no session.
Open(t) ==
    /\ pc[t] = "idle"
    /\ \E shown \in {Guest} \cup {UserPage(k) : k \in {x \in {CookieOf(t)} : Valid(x)}} :
          page' = [page EXCEPT ![t] = shown]
    /\ UNCHANGED <<dbVars, cookie, reqVars, left>>

\* The forms of the page: credentials of one's choice, or a task or logout button.
Submit(t, c) ==
    /\ pc[t] = "idle"
    /\ left[t] > 0
    /\ page[t].kind # "blank"
    /\ IF page[t].kind = "guest" THEN c.op \in GuestOp ELSE c.op \in UserOp
    /\ call' = [call EXCEPT ![t] = c]
    /\ sent' = [sent EXCEPT ![t] = CookieOf(t)]
    /\ pc' = [pc EXCEPT ![t] = "session"]
    /\ left' = [left EXCEPT ![t] = @ - 1]
    /\ UNCHANGED <<dbVars, cookie, page, sess, made, reply>>

\* The answer arrives, with a new cookie or an empty one.  Credentials that are
\* refused are asked for again; any other answer leads to another page.
Deliver(t) ==
    /\ pc[t] = "answer"
    /\ cookie' = CASE reply[t] = "logged_in" -> [cookie EXCEPT ![BrowserOf[t]] = made[t]]
                   [] reply[t] = "logged_out" -> [cookie EXCEPT ![BrowserOf[t]] = None]
                   [] OTHER -> cookie
    /\ page' = [page EXCEPT ![t] = IF reply[t] = "refused" THEN Guest ELSE Blank]
    /\ pc' = [pc EXCEPT ![t] = "idle"]
    /\ sess' = [sess EXCEPT ![t] = Nobody]
    /\ made' = [made EXCEPT ![t] = None]
    /\ reply' = [reply EXCEPT ![t] = "none"]
    /\ UNCHANGED <<dbVars, call, sent, left>>

\* Thirty days pass.
Expire(k) ==
    /\ Valid(k)
    /\ sessions' = [sessions EXCEPT ![k].expired = TRUE]
    /\ UNCHANGED <<users, work, cookie, page, reqVars, left>>

------------------------------------------------------------------------------
(* The server *)

\* Mutant of IdentityOf: the session is loaded without its user.
IdentityWithoutUser(k) ==
    IF k = None THEN Nobody ELSE [token |-> k, email |-> NoUser]

IdentityOf(k) ==
    IF k = None THEN Nobody ELSE [token |-> k, email |-> sessions[k].email]

Goto(t, step) == pc' = [pc EXCEPT ![t] = step]

\* The call returns; a transaction that is still open is rolled back.
Answer(t, r) ==
    /\ Goto(t, "answer")
    /\ reply' = [reply EXCEPT ![t] = r]
    /\ call' = [call EXCEPT ![t] = NoCall]
    /\ sent' = [sent EXCEPT ![t] = None]
    /\ sess' = IF r = "logged_out" THEN sess ELSE [sess EXCEPT ![t] = Nobody]
    /\ made' = IF r = "logged_in" THEN made ELSE [made EXCEPT ![t] = None]

\* The request goes on with its next statement.
GoOn(t, step) == Goto(t, step) /\ UNCHANGED <<call, sent, reply>>

\* What the session query finds; a failing query counts as no session.
Found(t) == {None} \cup {k \in {sent[t]} : Valid(k)}

\* The handler of a form that the middleware let pass.
Handle(t, k) ==
    /\ sess' = [sess EXCEPT ![t] = IdentityOf(k)]
    /\ GoOn(t, CASE call[t].op = "register" -> "user"
                 [] call[t].op = "login" -> "lookup"
                 [] OTHER -> call[t].op)
    /\ UNCHANGED made

\* Mutant of Middleware: csrf lets every form pass.
MiddlewareNoCsrf(t) ==
    /\ pc[t] = "session"
    /\ \E k \in Found(t) :
          IF k = None /\ call[t].op \in UserOp THEN Answer(t, "login_page") ELSE Handle(t, k)
    /\ UNCHANGED <<dbVars, cookie, page, left>>

\* sessionMiddleware, then requireAuth for a user's forms, then csrf, which only
\* asks requests that have a session, then the validation of the credentials.
Middleware(t) ==
    /\ pc[t] = "session"
    /\ \E k \in Found(t) :
          \/ /\ k = None /\ call[t].op \in UserOp
             /\ Answer(t, "login_page")
          \/ /\ k # None /\ page[t].csrf # k
             /\ Answer(t, "forbidden")
          \/ /\ k = None /\ call[t].op \in GuestOp /\ call[t].password \in BadPassword
             /\ Answer(t, "refused")
          \/ /\ k = None /\ call[t].op \in GuestOp /\ call[t].password \notin BadPassword
             /\ Handle(t, k)
          \/ /\ k # None /\ page[t].csrf = k
             /\ Handle(t, k)
    /\ UNCHANGED <<dbVars, cookie, page, left>>

\* An open transaction of another request has inserted the email: the unique
\* index makes an insert wait for its end.
EmailLocked(t) ==
    \E s \in Tab \ {t} : pc[s] \in {"new_session", "commit"} /\ call[s].email = call[t].email

\* Mutant of InsertUser: ON CONFLICT (email) DO NOTHING.
InsertUserOrNone(t) ==
    /\ pc[t] = "user"
    /\ ~ EmailLocked(t)
    /\ GoOn(t, "new_session")
    /\ UNCHANGED <<dbVars, cookie, page, sess, made, left>>

\* Mutant of InsertUser: a duplicate email is tried again.
InsertUserRetries(t) ==
    /\ pc[t] = "user"
    /\ ~ EmailLocked(t)
    /\ users[call[t].email] = NoUser
    /\ GoOn(t, "new_session")
    /\ UNCHANGED <<dbVars, cookie, page, sess, made, left>>

\* INSERT INTO users, the first statement of Register's transaction.
InsertUser(t) ==
    /\ pc[t] = "user"
    /\ ~ EmailLocked(t)
    /\ IF users[call[t].email] = NoUser
         THEN GoOn(t, "new_session") /\ UNCHANGED <<sess, made>>
         ELSE Answer(t, "refused")
    /\ UNCHANGED <<dbVars, cookie, page, left>>

NewToken(t) == made' = [made EXCEPT ![t] = <<t, left[t]>>]

\* newSession and INSERT INTO sessions, the second one.
InsertFirstSession(t) ==
    /\ pc[t] = "new_session"
    /\ NewToken(t)
    /\ GoOn(t, "commit")
    /\ UNCHANGED <<dbVars, cookie, page, sess, left>>

StoreSession(t) ==
    sessions' = [sessions EXCEPT ![made[t]] = [email |-> call[t].email, expired |-> FALSE]]

\* Mutant of CommitRegister: the session is not part of the transaction.
CommitUserOnly(t) ==
    /\ pc[t] = "commit"
    /\ users' = [users EXCEPT ![call[t].email] = call[t].password]
    /\ Answer(t, "refused")
    /\ UNCHANGED <<sessions, work, cookie, page, left>>

\* The commit, whose answer may be lost.
CommitRegister(t) ==
    /\ pc[t] = "commit"
    /\ users' = [users EXCEPT ![call[t].email] = call[t].password]
    /\ StoreSession(t)
    /\ \E r \in {"logged_in", "refused"} : Answer(t, r)
    /\ UNCHANGED <<work, cookie, page, left>>

\* GetByEmail, then the comparison with the password's hash.
Lookup(t) ==
    /\ pc[t] = "lookup"
    /\ IF users[call[t].email] = call[t].password
         THEN NewToken(t) /\ GoOn(t, "insert") /\ UNCHANGED sess
         ELSE Answer(t, "refused")
    /\ UNCHANGED <<dbVars, cookie, page, left>>

\* The INSERT that Login ends with.
InsertSession(t) ==
    /\ pc[t] = "insert"
    /\ StoreSession(t)
    /\ \E r \in {"logged_in", "refused"} : Answer(t, r)
    /\ UNCHANGED <<users, work, cookie, page, left>>

\* A handler of tasks does what the form says for the user of its session.
Act(t) ==
    /\ pc[t] = "act"
    /\ work' = [work EXCEPT ![sess[t].email] = 1 - @]
    /\ Answer(t, "served")
    /\ UNCHANGED <<users, sessions, cookie, page, left>>

\* Mutant of Logout: all the user's sessions end.
LogoutEverywhere(t) ==
    /\ pc[t] = "logout"
    /\ sessions' = [k \in Token |->
          IF sessions[k] # NoSession /\ sessions[k].email = sess[t].email
            THEN NoSession ELSE sessions[k]]
    /\ Answer(t, "logged_out")
    /\ UNCHANGED <<users, work, cookie, page, left>>

\* DELETE FROM sessions; postLogout does not look at the error.
Logout(t) ==
    /\ pc[t] = "logout"
    /\ \/ sessions' = [sessions EXCEPT ![sess[t].token] = NoSession]
       \/ UNCHANGED sessions
    /\ Answer(t, "logged_out")
    /\ UNCHANGED <<users, work, cookie, page, left>>

\* A statement fails and the transaction is rolled back.
Fail(t) ==
    /\ pc[t] \in {"user", "new_session", "commit", "lookup", "insert", "act"}
    /\ Answer(t, IF pc[t] = "act" THEN "served" ELSE "refused")
    /\ UNCHANGED <<dbVars, cookie, page, left>>

Serve(t) ==
    \/ Middleware(t) \/ InsertUser(t) \/ InsertFirstSession(t) \/ CommitRegister(t)
    \/ Lookup(t) \/ InsertSession(t) \/ Act(t) \/ Logout(t)

\* Nothing is left to submit.
Quiesced == (\A t \in Tab : left[t] = 0 /\ pc[t] = "idle") /\ UNCHANGED vars

Next ==
    \/ \E t \in Tab : \/ Open(t) \/ Deliver(t) \/ Serve(t) \/ Fail(t)
                      \/ \E c \in Calls : Submit(t, c)
    \/ \E k \in Token : Expire(k)
    \/ Quiesced

Spec == Init /\ [][Next]_vars

\* A handler's goroutine keeps running; nobody has to submit or open anything,
\* no statement has to fail and no answer has to arrive.
FairSpec == Spec /\ \A t \in Tab : WF_vars(Serve(t))

------------------------------------------------------------------------------
(* Properties *)

\* Work is done in the name of the account whose page the form was on, although
\* another tab may have logged out and in again as someone else since it was
\* shown: the browser's cookie alone would make it that someone's work.
FormActsForUserShown ==
    [][\A e \in Email : work'[e] # work[e] =>
          \E t \in Tab : pc[t] = "act" /\ pc'[t] # "act" /\ page[t].user = e]_vars

\* A session ends only by the logout button of a page that was rendered for it.
SessionEndsByItsOwnPage ==
    [][\A k \in Token : sessions[k] # NoSession /\ sessions'[k] = NoSession =>
          \E t \in Tab : pc[t] = "logout" /\ pc'[t] # "logout" /\ page[t].csrf = k]_vars

\* An account appears together with its first session and keeps its password,
\* whoever registers the same email at the same time and whatever fails.
AccountsComeWithSession ==
    [][\A e \in Email : users'[e] # users[e] =>
          /\ users[e] = NoUser
          /\ \E k \in Token : sessions[k] = NoSession /\ sessions'[k] # NoSession
                              /\ sessions'[k].email = e]_vars

\* A session is created only for an account and by a request that gave its
\* password, the loser of two registrations included.
SessionsNeedPassword ==
    [][\A k \in Token : sessions[k] = NoSession /\ sessions'[k] # NoSession =>
          \E t \in Tab :
             /\ made[t] = k
             /\ call[t].email = sessions'[k].email
             /\ call[t].password = (IF users[call[t].email] # NoUser THEN users ELSE users')[call[t].email]]_vars

\* A submitted form is answered: registrations of the same email wait for each
\* other's transaction, but not for ever.
EveryFormAnswered == \A t \in Tab : pc[t] = "session" ~> pc[t] = "answer"

\* internal/web/util.go:160 tells the user "You have been logged out.": then the
\* session is gone.
LoggedOutIsOut ==
    \A t \in Tab : reply[t] = "logged_out" => sessions[sess[t].token] = NoSession
==============================================================================
