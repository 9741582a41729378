--------------------------- MODULE SessionsProofs ---------------------------
(***************************************************************************)
(* Theorems about Sessions.  The safety properties follow from one         *)
(* inductive invariant: a token is stored once at most (FreshTokens), the  *)
(* session of a page is the one the page names as long as it exists        *)
(* (PagesKeepTheirUser), a request past the middleware carries the session *)
(* of its page (RequestsMatchPage), and a registration that is past its    *)
(* first statement has its email for itself (RegistersAlone).              *)
(***************************************************************************)
EXTENDS Sessions, TLAPS

\* The request of a tab may still store the session it makes.
Pending(t) == pc[t] \in {"session", "user", "new_session", "commit", "lookup", "insert"}

\* A token that no request has stored.
Unused(k) == k[2] < left[k[1]] \/ (k[2] = left[k[1]] /\ Pending(k[1]))

\* An unused token is not in the table and on no page.
FreshTokens ==
    \A k \in Token : Unused(k) =>
        /\ sessions[k] = NoSession
        /\ \A t \in Tab : page[t].csrf # k

\* A page of a user names the user of its session; other pages name nobody.
PagesKeepTheirUser ==
    \A t \in Tab :
        IF page[t].kind = "user"
          THEN /\ page[t].csrf \in Token
               /\ sessions[page[t].csrf] # NoSession =>
                     sessions[page[t].csrf].email = page[t].user
          ELSE page[t].csrf = None

\* A request of a user's form has passed the CSRF check of its own page.
RequestsMatchPage ==
    \A t \in Tab :
        pc[t] \in {"act", "logout"} =>
            /\ page[t].kind = "user"
            /\ sess[t] = [token |-> page[t].csrf, email |-> page[t].user]

\* A registration past its INSERT has its email for itself.
Registering(t) == pc[t] \in {"new_session", "commit"}

RegistersAlone ==
    \A t \in Tab : Registering(t) =>
        /\ users[call[t].email] = NoUser
        /\ \A s \in Tab \ {t} : Registering(s) => call[s].email # call[t].email

\* The session about to be stored has the token of this request, and a login
\* has seen the password.
StoresOwnSession ==
    \A t \in Tab :
        /\ pc[t] \in {"commit", "insert"} => made[t] = <<t, left[t]>>
        /\ pc[t] = "insert" => users[call[t].email] = call[t].password

\* A tab with a request in flight has submitted a form.
LeftBelowMax == \A t \in Tab : Pending(t) => left[t] < MaxSubmit

SInv ==
    /\ TypeOK
    /\ FreshTokens
    /\ PagesKeepTheirUser
    /\ RequestsMatchPage
    /\ RegistersAlone
    /\ StoresOwnSession
    /\ LeftBelowMax
------------------------------------------------------------------------------
(* Types *)

LEMMA InitTypeOK == Init => TypeOK
<1>1. NoCall \in Calls
  BY CallsAssumption DEF NoCall
<1>2. QED
  BY <1>1, AccountAssumption, SubmitAssumption
     DEF Init, TypeOK, Blank, Page, Nobody, Reply

\* The session of a valid token is a row of the table.
LEMMA ValidIsStored ==
    ASSUME TypeOK, NEW k \in Token \cup {None}, Valid(k)
    PROVE  k \in Token /\ sessions[k] \in Session /\ sessions[k].email \in Email
BY DEF TypeOK, Valid, Session

\* Answer keeps the types, whatever the answer.
LEMMA AnswerTypes ==
    ASSUME TypeOK, NEW t \in Tab, NEW r \in Reply, Answer(t, r)
    PROVE  /\ pc' \in [Tab -> {"idle", "session", "user", "new_session", "commit", "lookup",
                               "insert", "act", "logout", "answer"}]
           /\ call' \in [Tab -> Calls]
           /\ sent' \in [Tab -> Token \cup {None}]
           /\ sess' \in [Tab -> Identity \cup {Nobody}]
           /\ made' \in [Tab -> Token \cup {None}]
           /\ reply' \in [Tab -> Reply]
<1>1. NoCall \in Calls
  BY CallsAssumption DEF NoCall
<1>2. QED
  BY <1>1 DEF Answer, Goto, TypeOK

LEMMA TypeStep == SInv /\ [Next]_vars => TypeOK'
<1> SUFFICES ASSUME SInv, [Next]_vars PROVE TypeOK'
  OBVIOUS
<1> USE DEF SInv
<1>1. CASE UNCHANGED vars
  BY <1>1 DEF vars, TypeOK
<1>2. ASSUME NEW t \in Tab, Open(t) PROVE TypeOK'
  <2> PICK shown \in {Guest} \cup {UserPage(k) : k \in {x \in {CookieOf(t)} : Valid(x)}} :
        page' = [page EXCEPT ![t] = shown]
    BY <1>2 DEF Open
  <2>1. CookieOf(t) \in Token \cup {None}
    BY BrowserAssumption DEF CookieOf, TypeOK
  <2>2. shown \in Page
    <3>1. CASE shown = Guest
      BY <3>1 DEF Guest, Page
    <3>2. CASE Valid(CookieOf(t)) /\ shown = UserPage(CookieOf(t))
      BY <3>2, <2>1, ValidIsStored DEF UserPage, Page
    <3>3. QED
      BY <3>1, <3>2
  <2>3. QED
    BY <1>2, <2>2 DEF Open, dbVars, reqVars, TypeOK
<1>3. ASSUME NEW t \in Tab, NEW c \in Calls, Submit(t, c) PROVE TypeOK'
  <2>1. CookieOf(t) \in Token \cup {None}
    BY BrowserAssumption DEF CookieOf, TypeOK
  <2>2. left' \in [Tab -> 0 .. MaxSubmit]
    BY <1>3, SubmitAssumption DEF Submit, TypeOK
  <2>3. QED
    BY <1>3, <2>1, <2>2 DEF Submit, dbVars, TypeOK
<1>4. ASSUME NEW t \in Tab, Deliver(t) PROVE TypeOK'
  <2>1. cookie' \in [Browser -> Token \cup {None}]
    BY <1>4, BrowserAssumption DEF Deliver, TypeOK
  <2>2. Guest \in Page /\ Blank \in Page
    BY DEF Guest, Blank, Page
  <2>3. QED
    BY <1>4, <2>1, <2>2 DEF Deliver, dbVars, TypeOK, Reply
<1>5. ASSUME NEW k \in Token, Expire(k) PROVE TypeOK'
  <2>1. sessions'[k] \in Session
    BY <1>5, ValidIsStored DEF Expire, TypeOK, Session
  <2>2. QED
    BY <1>5, <2>1 DEF Expire, reqVars, TypeOK
<1>6. ASSUME NEW t \in Tab, Middleware(t) PROVE TypeOK'
  <2> PICK k \in Found(t) :
        \/ \E r \in {"login_page", "forbidden", "refused"} : Answer(t, r)
        \/ (k # None => page[t].csrf = k) /\ Handle(t, k)
    BY <1>6 DEF Middleware
  <2>1. k = None \/ (k \in Token /\ sessions[k].email \in Email)
    BY ValidIsStored DEF Found, TypeOK
  <2>2. CASE \E r \in {"login_page", "forbidden", "refused"} : Answer(t, r)
    BY <1>6, <2>2, AnswerTypes DEF Middleware, dbVars, TypeOK, Reply
  <2>3. CASE Handle(t, k)
    <3>1. IdentityOf(k) \in Identity \cup {Nobody}
      BY <2>1 DEF IdentityOf, Identity
    <3>2. call[t].op \in GuestOp \cup UserOp
      BY CallsAssumption DEF TypeOK, Call
    <3>3. QED
      BY <1>6, <2>3, <3>1, <3>2
         DEF Middleware, Handle, GoOn, Goto, dbVars, TypeOK, GuestOp, UserOp
  <2>4. QED
    BY <2>2, <2>3
<1>7. ASSUME NEW t \in Tab, InsertUser(t) PROVE TypeOK'
  <2>1. CASE Answer(t, "refused")
    BY <1>7, <2>1, AnswerTypes DEF InsertUser, dbVars, TypeOK, Reply
  <2>2. CASE GoOn(t, "new_session") /\ UNCHANGED <<sess, made>>
    BY <1>7, <2>2 DEF InsertUser, GoOn, Goto, dbVars, TypeOK
  <2>3. QED
    BY <1>7, <2>1, <2>2 DEF InsertUser
<1>8. ASSUME NEW t \in Tab, Pending(t) PROVE <<t, left[t]>> \in Token
  BY <1>8, SubmitAssumption DEF LeftBelowMax, Token, TypeOK
<1>9. ASSUME NEW t \in Tab, InsertFirstSession(t) PROVE TypeOK'
  BY <1>8, <1>9 DEF InsertFirstSession, Pending, NewToken, GoOn, Goto, dbVars, TypeOK
<1>10. ASSUME NEW t \in Tab, StoreSession(t), pc[t] \in {"commit", "insert"}
       PROVE  sessions' \in [Token -> Session \cup {NoSession}]
  <2>1. call[t].email \in Email
    BY CallsAssumption DEF TypeOK, Call
  <2>2. [email |-> call[t].email, expired |-> FALSE] \in Session
    BY <2>1 DEF Session
  <2>3. QED
    BY <1>10, <2>2 DEF StoreSession, TypeOK
<1>11. ASSUME NEW t \in Tab, CommitRegister(t) PROVE TypeOK'
  <2>1. users' \in [Email -> Password \cup {NoUser}]
    BY <1>11, CallsAssumption DEF CommitRegister, TypeOK, Call
  <2>2. QED
    BY <1>10, <1>11, <2>1, AnswerTypes DEF CommitRegister, TypeOK, Reply
<1>12. ASSUME NEW t \in Tab, Lookup(t) PROVE TypeOK'
  <2>1. CASE Answer(t, "refused")
    BY <1>12, <2>1, AnswerTypes DEF Lookup, dbVars, TypeOK, Reply
  <2>2. CASE NewToken(t) /\ GoOn(t, "insert") /\ UNCHANGED sess
    BY <1>8, <1>12, <2>2 DEF Lookup, Pending, NewToken, GoOn, Goto, dbVars, TypeOK
  <2>3. QED
    BY <1>12, <2>1, <2>2 DEF Lookup
<1>13. ASSUME NEW t \in Tab, InsertSession(t) PROVE TypeOK'
  BY <1>10, <1>13, AnswerTypes DEF InsertSession, TypeOK, Reply
<1>14. ASSUME NEW t \in Tab, Act(t) PROVE TypeOK'
  <2>1. work' = [work EXCEPT ![sess[t].email] = 1 - work[sess[t].email]]
    BY <1>14 DEF Act
  <2>2. work' \in [Email -> {0, 1}]
    <3>1. \A e \in Email : work[e] \in {0, 1} /\ 1 - work[e] \in {0, 1}
      BY DEF TypeOK
    <3>2. QED
      BY <2>1, <3>1 DEF TypeOK
  <2>3. QED
    BY <1>14, <2>2, AnswerTypes DEF Act, TypeOK, Reply
<1>15. ASSUME NEW t \in Tab, Logout(t) PROVE TypeOK'
  <2>1. sessions' \in [Token -> Session \cup {NoSession}]
    BY <1>15 DEF Logout, TypeOK
  <2>2. QED
    BY <1>15, <2>1, AnswerTypes DEF Logout, TypeOK, Reply
<1>16. ASSUME NEW t \in Tab, Fail(t) PROVE TypeOK'
  BY <1>16, AnswerTypes DEF Fail, dbVars, TypeOK, Reply
<1>17. QED
  BY <1>1, <1>2, <1>3, <1>4, <1>5, <1>6, <1>7, <1>9, <1>11, <1>12, <1>13, <1>14, <1>15, <1>16
     DEF Next, Serve, Quiesced
------------------------------------------------------------------------------
(* What one step of a request does *)

\* The other tabs are not touched.
Apart(t) ==
    \A s \in Tab \ {t} :
        /\ pc'[s] = pc[s] /\ call'[s] = call[s] /\ page'[s] = page[s]
        /\ sess'[s] = sess[s] /\ made'[s] = made[s] /\ left'[s] = left[s]

\* What the step does to the tables.
Stores(t) ==
    /\ pc[t] \in {"commit", "insert"}
    /\ pc'[t] = "answer"
    /\ StoreSession(t)

Deletes(t) ==
    /\ pc[t] = "logout"
    /\ pc'[t] = "answer"
    /\ sessions' = [sessions EXCEPT ![sess[t].token] = NoSession]

Registers(t) ==
    /\ pc[t] = "commit"
    /\ Stores(t)
    /\ users' = [users EXCEPT ![call[t].email] = call[t].password]

LogsIn(t) == pc[t] = "insert" /\ Stores(t) /\ UNCHANGED users

Tables(t) ==
    \/ UNCHANGED <<users, sessions>>
    \/ Registers(t)
    \/ LogsIn(t)
    \/ Deletes(t) /\ UNCHANGED users

\* What the request knows at its next statement.
Passed(t) ==
    pc'[t] \in {"act", "logout"} =>
        /\ page[t].kind = "user"
        /\ sess'[t] = [token |-> page[t].csrf, email |-> page[t].user]

Locks(t) ==
    pc'[t] \in {"new_session", "commit"} =>
        /\ users' = users
        /\ Registering(t) \/ (pc[t] = "user" /\ users[call[t].email] = NoUser /\ ~ EmailLocked(t))

Makes(t) ==
    pc'[t] \in {"commit", "insert"} =>
        /\ users' = users
        /\ made'[t] = <<t, left[t]>>
        /\ pc'[t] = "insert" => users[call[t].email] = call[t].password

Proceeds(t) ==
    /\ pc[t] \notin {"idle", "answer"}
    /\ pc'[t] # "idle"
    /\ pc'[t] \in {"session", "user", "new_session", "commit", "lookup", "insert"} => Pending(t)
    /\ pc'[t] # "answer" => call'[t] = call[t]

\* One statement of a request.
Statement(t) ==
    /\ UNCHANGED <<cookie, page, left>>
    /\ Apart(t) /\ Tables(t) /\ Passed(t) /\ Locks(t) /\ Makes(t) /\ Proceeds(t)

LEMMA AnswerIsLast ==
    ASSUME TypeOK, NEW t \in Tab, NEW r \in Reply, Answer(t, r), UNCHANGED <<page, left>>,
           pc[t] \notin {"idle", "answer"}
    PROVE  pc'[t] = "answer" /\ Apart(t) /\ Passed(t) /\ Locks(t) /\ Makes(t) /\ Proceeds(t)
<1>1. pc'[t] = "answer"
  BY DEF Answer, Goto, TypeOK
<1>2. Apart(t)
  BY DEF Answer, Goto, TypeOK, Apart
<1>3. QED
  BY <1>1, <1>2 DEF Passed, Locks, Makes, Proceeds

LEMMA GoOnFacts ==
    ASSUME TypeOK, NEW t \in Tab, NEW step, GoOn(t, step), UNCHANGED <<page, left>>,
           \A s \in Tab \ {t} : sess'[s] = sess[s] /\ made'[s] = made[s]
    PROVE  pc'[t] = step /\ Apart(t) /\ call' = call
BY DEF GoOn, Goto, TypeOK, Apart

LEMMA RequestSteps ==
    ASSUME SInv, NEW t \in Tab, Serve(t) \/ Fail(t)
    PROVE  Statement(t)
<1> USE DEF SInv
<1>1. CASE Middleware(t)
  <2>1. UNCHANGED <<dbVars, cookie, page, left>> /\ pc[t] = "session"
    BY <1>1 DEF Middleware
  <2>2. Tables(t) /\ UNCHANGED <<cookie, page, left>>
    BY <2>1 DEF Tables, dbVars
  <2>3. CASE \E r \in Reply : Answer(t, r)
    BY <2>1, <2>2, <2>3, AnswerIsLast DEF Statement
  <2>4. ASSUME NEW k \in Found(t), Handle(t, k), \/ k = None /\ call[t].op \in GuestOp
                                                 \/ k # None /\ page[t].csrf = k
        PROVE  Statement(t)
    <3>1. \A s \in Tab \ {t} : sess'[s] = sess[s] /\ made'[s] = made[s]
      BY <2>4 DEF Handle, TypeOK
    <3>2. PICK step : /\ GoOn(t, step)
                      /\ step = CASE call[t].op = "register" -> "user"
                                  [] call[t].op = "login" -> "lookup"
                                  [] OTHER -> call[t].op
      BY <2>4 DEF Handle
    <3>3. pc'[t] = step /\ Apart(t) /\ call' = call
      BY <2>1, <3>1, <3>2, GoOnFacts
    <3>4. call[t].op \in GuestOp \cup UserOp
      BY CallsAssumption DEF TypeOK, Call
    <3>5. step \in {"user", "lookup", "act", "logout"}
      BY <3>2, <3>4 DEF GuestOp, UserOp
    <3>6. call[t].op \in GuestOp => step \in {"user", "lookup"}
      BY <3>2 DEF GuestOp
    <3>7. Passed(t)
      <4>1. CASE k = None
        BY <2>4, <3>3, <3>6, <4>1 DEF Passed
      <4>2. CASE k # None
        <5>1. Valid(k)
          BY <4>2 DEF Found
        <5>2. page[t].csrf = k /\ k # None
          BY <2>4, <4>2
        <5>3. page[t].kind = "user" /\ sessions[k].email = page[t].user
          BY <5>1, <5>2 DEF PagesKeepTheirUser, Valid
        <5>4. sess'[t] = [token |-> k, email |-> sessions[k].email]
          BY <2>4, <5>2 DEF Handle, IdentityOf, TypeOK
        <5>5. QED
          BY <5>2, <5>3, <5>4 DEF Passed
      <4>3. QED
        BY <4>1, <4>2
    <3>8. Proceeds(t) /\ Locks(t) /\ Makes(t)
      BY <2>1, <3>3, <3>5 DEF Proceeds, Locks, Makes, Pending
    <3>9. QED
      BY <2>2, <3>3, <3>7, <3>8 DEF Statement
  <2>5. QED
    BY <1>1, <2>3, <2>4 DEF Middleware, Reply
<1>2. CASE InsertUser(t)
  <2>1. UNCHANGED <<dbVars, cookie, page, left>> /\ pc[t] = "user"
    BY <1>2 DEF InsertUser
  <2>2. Tables(t) /\ UNCHANGED <<cookie, page, left>>
    BY <2>1 DEF Tables, dbVars
  <2>3. CASE Answer(t, "refused")
    BY <2>1, <2>2, <2>3, AnswerIsLast DEF Statement, Reply
  <2>4. CASE GoOn(t, "new_session") /\ UNCHANGED <<sess, made>> /\ users[call[t].email] = NoUser
    <3>1. pc'[t] = "new_session" /\ Apart(t) /\ call' = call
      BY <2>1, <2>4, GoOnFacts
    <3>2. QED
      BY <1>2, <2>1, <2>2, <2>4, <3>1
         DEF InsertUser, Statement, Passed, Locks, Makes, Proceeds, Pending, dbVars
  <2>5. QED
    BY <1>2, <2>3, <2>4 DEF InsertUser
<1>3. CASE InsertFirstSession(t)
  <2>1. UNCHANGED <<dbVars, cookie, page, left>> /\ pc[t] = "new_session"
    BY <1>3 DEF InsertFirstSession
  <2>2. made'[t] = <<t, left[t]>> /\ \A s \in Tab \ {t} : sess'[s] = sess[s] /\ made'[s] = made[s]
    BY <1>3 DEF InsertFirstSession, NewToken, TypeOK
  <2>3. pc'[t] = "commit" /\ Apart(t) /\ call' = call
    BY <1>3, <2>1, <2>2, GoOnFacts DEF InsertFirstSession
  <2>4. QED
    BY <2>1, <2>2, <2>3
       DEF Statement, Tables, Passed, Locks, Makes, Proceeds, Pending, Registering, dbVars
<1>4. CASE CommitRegister(t)
  <2>1. UNCHANGED <<cookie, page, left>> /\ pc[t] = "commit"
    BY <1>4 DEF CommitRegister
  <2>2. pc'[t] = "answer" /\ Apart(t) /\ Passed(t) /\ Locks(t) /\ Makes(t) /\ Proceeds(t)
    BY <1>4, <2>1, AnswerIsLast DEF CommitRegister, Reply
  <2>3. QED
    BY <1>4, <2>1, <2>2 DEF CommitRegister, Statement, Tables, Stores, Registers
<1>5. CASE Lookup(t)
  <2>1. UNCHANGED <<dbVars, cookie, page, left>> /\ pc[t] = "lookup"
    BY <1>5 DEF Lookup
  <2>2. Tables(t) /\ UNCHANGED <<cookie, page, left>>
    BY <2>1 DEF Tables, dbVars
  <2>3. CASE Answer(t, "refused")
    BY <2>1, <2>2, <2>3, AnswerIsLast DEF Statement, Reply
  <2>4. CASE /\ NewToken(t) /\ GoOn(t, "insert") /\ UNCHANGED sess
             /\ users[call[t].email] = call[t].password
    <3>1. made'[t] = <<t, left[t]>> /\ \A s \in Tab \ {t} : sess'[s] = sess[s] /\ made'[s] = made[s]
      BY <2>4 DEF NewToken, TypeOK
    <3>2. pc'[t] = "insert" /\ Apart(t) /\ call' = call
      BY <2>1, <2>4, <3>1, GoOnFacts
    <3>3. QED
      BY <2>1, <2>2, <2>4, <3>1, <3>2
         DEF Statement, Passed, Locks, Makes, Proceeds, Pending, dbVars
  <2>5. QED
    BY <1>5, <2>3, <2>4 DEF Lookup
<1>6. CASE InsertSession(t)
  <2>1. UNCHANGED <<users, cookie, page, left>> /\ pc[t] = "insert"
    BY <1>6 DEF InsertSession
  <2>2. pc'[t] = "answer" /\ Apart(t) /\ Passed(t) /\ Locks(t) /\ Makes(t) /\ Proceeds(t)
    BY <1>6, <2>1, AnswerIsLast DEF InsertSession, Reply
  <2>3. QED
    BY <1>6, <2>1, <2>2 DEF InsertSession, Statement, Tables, Stores, LogsIn
<1>7. CASE Act(t)
  <2>1. UNCHANGED <<users, sessions, cookie, page, left>> /\ pc[t] = "act"
    BY <1>7 DEF Act
  <2>2. pc'[t] = "answer" /\ Apart(t) /\ Passed(t) /\ Locks(t) /\ Makes(t) /\ Proceeds(t)
    BY <1>7, <2>1, AnswerIsLast DEF Act, Reply
  <2>3. QED
    BY <2>1, <2>2 DEF Statement, Tables
<1>8. CASE Logout(t)
  <2>1. UNCHANGED <<users, cookie, page, left>> /\ pc[t] = "logout"
    BY <1>8 DEF Logout
  <2>2. pc'[t] = "answer" /\ Apart(t) /\ Passed(t) /\ Locks(t) /\ Makes(t) /\ Proceeds(t)
    BY <1>8, <2>1, AnswerIsLast DEF Logout, Reply
  <2>3. QED
    BY <1>8, <2>1, <2>2 DEF Logout, Statement, Tables, Deletes
<1>9. CASE Fail(t)
  <2>1. UNCHANGED <<dbVars, cookie, page, left>> /\ pc[t] \notin {"idle", "answer"}
    BY <1>9 DEF Fail
  <2>2. Apart(t) /\ Passed(t) /\ Locks(t) /\ Makes(t) /\ Proceeds(t)
    BY <1>9, <2>1, AnswerIsLast DEF Fail, Reply
  <2>3. QED
    BY <2>1, <2>2 DEF Statement, Tables, dbVars
<1>10. QED
  BY <1>1, <1>2, <1>3, <1>4, <1>5, <1>6, <1>7, <1>8, <1>9 DEF Serve
------------------------------------------------------------------------------
(* The invariant *)

LEMMA InitSInv == Init => SInv
<1> SUFFICES ASSUME Init PROVE SInv
  OBVIOUS
<1>1. TypeOK
  BY InitTypeOK
<1>2. \A t \in Tab : pc[t] = "idle" /\ page[t] = Blank
  BY DEF Init
<1>3. \A k \in Token : sessions[k] = NoSession
  BY DEF Init
<1>4. FreshTokens /\ PagesKeepTheirUser
  BY <1>2, <1>3, NullAssumption DEF FreshTokens, PagesKeepTheirUser, Blank
<1>5. RequestsMatchPage /\ RegistersAlone /\ StoresOwnSession /\ LeftBelowMax
  BY <1>2 DEF RequestsMatchPage, RegistersAlone, StoresOwnSession, LeftBelowMax,
              Registering, Pending
<1>6. QED
  BY <1>1, <1>4, <1>5 DEF SInv

\* The steps of a browser and of time.
BrowserStep(t) ==
    \/ Open(t)
    \/ Deliver(t)
    \/ \E c \in Calls : Submit(t, c)

LEMMA StepKinds ==
    ASSUME SInv, [Next]_vars
    PROVE  \/ UNCHANGED vars
           \/ \E k \in Token : Expire(k)
           \/ \E t \in Tab : BrowserStep(t) \/ Statement(t)
BY RequestSteps DEF Next, BrowserStep, Quiesced

\* A step of a browser leaves the tables alone, and shows only valid sessions.
LEMMA BrowserSteps ==
    ASSUME SInv, NEW t \in Tab, BrowserStep(t)
    PROVE  /\ UNCHANGED <<users, sessions, work>>
           /\ Apart(t)
           /\ \A s \in Tab : pc'[s] \in {"idle", "session"} \/ pc'[s] = pc[s]
           /\ pc'[t] \in {"idle", "session"}
           /\ Pending(t)' => left[t] > 0 /\ left'[t] = left[t] - 1 /\ page' = page
           /\ ~ Pending(t)' => left'[t] = left[t]
           /\ \/ page'[t] \in {page[t], Guest, Blank}
              \/ \E k \in Token : Valid(k) /\ page'[t] = UserPage(k)
<1> USE DEF SInv
<1>1. CASE Open(t)
  <2>1. UNCHANGED <<users, sessions, work, pc, call, sess, made, left>> /\ pc[t] = "idle"
    BY <1>1 DEF Open, dbVars, reqVars
  <2>2. PICK shown \in {Guest} \cup {UserPage(k) : k \in {x \in {CookieOf(t)} : Valid(x)}} :
          page' = [page EXCEPT ![t] = shown]
    BY <1>1 DEF Open
  <2>3. CookieOf(t) \in Token \cup {None}
    BY BrowserAssumption DEF CookieOf, TypeOK
  <2>4. shown = Guest \/ \E k \in Token : Valid(k) /\ shown = UserPage(k)
    BY <2>2, <2>3 DEF Valid
  <2>5. QED
    BY <2>1, <2>2, <2>4 DEF Apart, Pending, TypeOK
<1>2. CASE Deliver(t)
  BY <1>2 DEF Deliver, dbVars, Apart, Pending, TypeOK
<1>3. ASSUME NEW c \in Calls, Submit(t, c)
      PROVE  /\ UNCHANGED <<users, sessions, work, page, sess, made>>
             /\ Apart(t)
             /\ pc'[t] = "session"
             /\ left[t] > 0 /\ left'[t] = left[t] - 1
  BY <1>3 DEF Submit, dbVars, Apart, TypeOK
<1>4. QED
  BY <1>1, <1>2, <1>3 DEF BrowserStep, Apart, Pending

\* A token that is unused after a step was unused before it.
LEMMA UnusedBefore ==
    ASSUME SInv, [Next]_vars, NEW k \in Token, Unused(k)'
    PROVE  Unused(k)
<1> USE DEF SInv
<1>1. k[1] \in Tab /\ k[2] \in 0 .. MaxSubmit - 1
  BY DEF Token
<1>2. \A s \in Tab : left[s] \in 0 .. MaxSubmit
  BY DEF TypeOK
<1>3. CASE UNCHANGED vars
  BY <1>3 DEF vars, Unused, Pending
<1>4. CASE \E x \in Token : Expire(x)
  BY <1>4 DEF Expire, reqVars, Unused, Pending
<1>5. ASSUME NEW t \in Tab, BrowserStep(t) PROVE Unused(k)
  <2>1. CASE k[1] = t
    BY <1>1, <1>2, <1>5, <2>1, SubmitAssumption, BrowserSteps DEF Unused
  <2>2. CASE k[1] # t
    BY <1>1, <1>5, <2>2, BrowserSteps DEF Unused, Pending, Apart
  <2>3. QED
    BY <2>1, <2>2
<1>6. ASSUME NEW t \in Tab, Statement(t) PROVE Unused(k)
  BY <1>1, <1>6 DEF Statement, Proceeds, Apart, Unused, Pending
<1>7. QED
  BY <1>3, <1>4, <1>5, <1>6, StepKinds

\* The token a request stores was unused, and is used from then on.
LEMMA StoresUnused ==
    ASSUME SInv, NEW t \in Tab, Statement(t), Stores(t)
    PROVE  \E k \in Token :
              /\ k = made[t] /\ k = <<t, left[t]>>
              /\ Unused(k) /\ ~ Unused(k)'
              /\ sessions[k] = NoSession
              /\ sessions' = [sessions EXCEPT ![k] = [email |-> call[t].email, expired |-> FALSE]]
<1> USE DEF SInv
<1>1. Pending(t)
  BY DEF Stores, Pending
<1>2. left[t] \in 0 .. MaxSubmit - 1
  BY <1>1, SubmitAssumption DEF LeftBelowMax, TypeOK
<1>3. PICK k \in Token : k = <<t, left[t]>>
  BY <1>2 DEF Token
<1>4. k = made[t]
  BY <1>3 DEF Stores, StoresOwnSession
<1>5. Unused(k)
  BY <1>1, <1>3 DEF Unused
<1>6. ~ Unused(k)'
  BY <1>2, <1>3, SubmitAssumption DEF Unused, Pending, Stores, Statement
<1>7. QED
  BY <1>3, <1>4, <1>5, <1>6 DEF FreshTokens, Stores, StoreSession

LEMMA FreshStep == SInv /\ [Next]_vars => FreshTokens'
<1> SUFFICES ASSUME SInv, [Next]_vars, NEW k \in Token, Unused(k)'
             PROVE  /\ sessions'[k] = NoSession
                    /\ \A s \in Tab : page'[s].csrf # k
  BY DEF FreshTokens
<1> USE DEF SInv
<1>1. Unused(k)
  BY UnusedBefore
<1>2. sessions[k] = NoSession /\ \A s \in Tab : page[s].csrf # k
  BY <1>1 DEF FreshTokens
<1>3. CASE UNCHANGED vars
  BY <1>2, <1>3 DEF vars
<1>4. CASE \E x \in Token : Expire(x)
  BY <1>2, <1>4 DEF Expire, Valid, reqVars, TypeOK
<1>5. ASSUME NEW t \in Tab, BrowserStep(t)
      PROVE  /\ sessions'[k] = NoSession
             /\ \A s \in Tab : page'[s].csrf # k
  <2>1. sessions' = sessions /\ Apart(t)
    BY <1>5, BrowserSteps
  <2>2. page'[t].csrf # k
    <3>1. \/ page'[t] \in {page[t], Guest, Blank}
          \/ \E x \in Token : Valid(x) /\ page'[t] = UserPage(x)
      BY <1>5, BrowserSteps
    <3>2. Guest.csrf # k /\ Blank.csrf # k
      BY NullAssumption DEF Guest, Blank
    <3>3. \A x \in Token : Valid(x) => x # k /\ UserPage(x).csrf = x
      BY <1>2 DEF Valid, UserPage
    <3>4. QED
      BY <1>2, <3>1, <3>2, <3>3
  <2>3. QED
    BY <1>2, <2>1, <2>2 DEF Apart
<1>6. ASSUME NEW t \in Tab, Statement(t)
      PROVE  /\ sessions'[k] = NoSession
             /\ \A s \in Tab : page'[s].csrf # k
  <2>1. page' = page
    BY <1>6 DEF Statement
  <2>2. CASE sessions' = sessions
    BY <1>2, <2>1, <2>2
  <2>3. CASE Stores(t)
    BY <1>2, <1>6, <2>1, <2>3, StoresUnused DEF TypeOK
  <2>4. CASE Deletes(t)
    BY <1>2, <2>1, <2>4 DEF Deletes, TypeOK
  <2>5. QED
    BY <1>6, <2>2, <2>3, <2>4 DEF Statement, Tables, Registers, LogsIn
<1>7. QED
  BY <1>3, <1>4, <1>5, <1>6, StepKinds

\* A session that is not new has the email it had.
LEMMA SessionsKeepEmail ==
    ASSUME SInv, [Next]_vars, NEW k \in Token, ~ Unused(k), sessions'[k] # NoSession
    PROVE  sessions[k] # NoSession /\ sessions'[k].email = sessions[k].email
<1> USE DEF SInv
<1>1. CASE UNCHANGED vars
  BY <1>1 DEF vars
<1>2. CASE \E x \in Token : Expire(x)
  BY <1>2 DEF Expire, Valid, TypeOK, Session
<1>3. ASSUME NEW t \in Tab, BrowserStep(t) PROVE sessions' = sessions
  BY <1>3, BrowserSteps
<1>4. ASSUME NEW t \in Tab, Statement(t)
      PROVE  sessions[k] # NoSession /\ sessions'[k].email = sessions[k].email
  <2>1. CASE sessions' = sessions
    BY <2>1
  <2>2. CASE Stores(t)
    BY <1>4, <2>2, StoresUnused DEF TypeOK
  <2>3. CASE Deletes(t)
    BY <2>3 DEF Deletes, TypeOK
  <2>4. QED
    BY <1>4, <2>1, <2>2, <2>3 DEF Statement, Tables, Registers, LogsIn
<1>5. QED
  BY <1>1, <1>2, <1>3, <1>4, StepKinds

LEMMA PagesStep == SInv /\ [Next]_vars => PagesKeepTheirUser'
<1> SUFFICES ASSUME SInv, [Next]_vars, NEW s \in Tab
             PROVE  IF page'[s].kind = "user"
                      THEN /\ page'[s].csrf \in Token
                           /\ sessions'[page'[s].csrf] # NoSession =>
                                 sessions'[page'[s].csrf].email = page'[s].user
                      ELSE page'[s].csrf = None
  BY DEF PagesKeepTheirUser
<1> USE DEF SInv
<1>1. ASSUME page'[s] = page[s]
      PROVE  IF page'[s].kind = "user"
               THEN /\ page'[s].csrf \in Token
                    /\ sessions'[page'[s].csrf] # NoSession =>
                          sessions'[page'[s].csrf].email = page'[s].user
               ELSE page'[s].csrf = None
  <2>1. CASE page[s].kind = "user"
    <3>1. PICK k \in Token : k = page[s].csrf
      BY <2>1 DEF PagesKeepTheirUser
    <3>2. ~ Unused(k)
      BY <3>1 DEF FreshTokens
    <3>3. QED
      BY <1>1, <2>1, <3>1, <3>2, SessionsKeepEmail DEF PagesKeepTheirUser
  <2>2. QED
    BY <1>1, <2>1 DEF PagesKeepTheirUser
<1>2. CASE page'[s] = Guest \/ page'[s] = Blank
  BY <1>2 DEF Guest, Blank
<1>3. ASSUME NEW k \in Token, page'[s] = UserPage(k), sessions' = sessions
      PROVE  /\ page'[s].csrf \in Token
             /\ page'[s].kind = "user"
             /\ sessions'[page'[s].csrf].email = page'[s].user
  BY <1>3 DEF UserPage
<1>4. \/ page'[s] = page[s]
      \/ page'[s] = Guest \/ page'[s] = Blank
      \/ sessions' = sessions /\ \E k \in Token : page'[s] = UserPage(k)
  <2>1. CASE UNCHANGED vars
    BY <2>1 DEF vars
  <2>2. CASE \E x \in Token : Expire(x)
    BY <2>2 DEF Expire
  <2>3. ASSUME NEW t \in Tab, BrowserStep(t)
        PROVE  \/ page'[s] = page[s]
               \/ page'[s] = Guest \/ page'[s] = Blank
               \/ sessions' = sessions /\ \E k \in Token : page'[s] = UserPage(k)
    BY <2>3, BrowserSteps DEF Apart
  <2>4. ASSUME NEW t \in Tab, Statement(t) PROVE page'[s] = page[s]
    BY <2>4 DEF Statement
  <2>5. QED
    BY <2>1, <2>2, <2>3, <2>4, StepKinds
<1>5. QED
  BY <1>1, <1>2, <1>3, <1>4

LEMMA MatchStep == SInv /\ [Next]_vars => RequestsMatchPage'
<1> SUFFICES ASSUME SInv, [Next]_vars, NEW s \in Tab, pc'[s] \in {"act", "logout"}
             PROVE  /\ page'[s].kind = "user"
                    /\ sess'[s] = [token |-> page'[s].csrf, email |-> page'[s].user]
  BY DEF RequestsMatchPage
<1> USE DEF SInv
<1>1. ASSUME pc'[s] = pc[s], page'[s] = page[s], sess'[s] = sess[s]
      PROVE  /\ page'[s].kind = "user"
             /\ sess'[s] = [token |-> page'[s].csrf, email |-> page'[s].user]
  BY <1>1 DEF RequestsMatchPage
<1>2. ASSUME NEW t \in Tab, BrowserStep(t) PROVE s # t /\ Apart(t)
  BY <1>2, BrowserSteps
<1>3. ASSUME NEW t \in Tab, Statement(t), s = t
      PROVE  /\ page'[s].kind = "user"
             /\ sess'[s] = [token |-> page'[s].csrf, email |-> page'[s].user]
  BY <1>3 DEF Statement, Passed
<1>4. ASSUME NEW t \in Tab, Statement(t), s # t PROVE Apart(t)
  BY <1>4 DEF Statement
<1>5. QED
  BY <1>1, <1>2, <1>3, <1>4, StepKinds DEF vars, Expire, reqVars, Apart

\* The accounts change only by a registration.
LEMMA UsersStep ==
    ASSUME SInv, [Next]_vars
    PROVE  users' = users \/ \E t \in Tab : Statement(t) /\ Registers(t)
BY StepKinds, BrowserSteps DEF vars, Expire, Statement, Tables, LogsIn

LEMMA AloneStep == SInv /\ [Next]_vars => RegistersAlone'
<1> SUFFICES ASSUME SInv, [Next]_vars
             PROVE  \A t \in Tab : Registering(t)' =>
                       /\ users'[call'[t].email] = NoUser
                       /\ \A s \in Tab \ {t} : Registering(s)' => call'[s].email # call'[t].email
  BY DEF RegistersAlone
<1> USE DEF SInv
<1> DEFINE Goal == \A t \in Tab : Registering(t)' =>
                       /\ users'[call'[t].email] = NoUser
                       /\ \A s \in Tab \ {t} : Registering(s)' => call'[s].email # call'[t].email
<1>1. CASE UNCHANGED vars
  BY <1>1 DEF vars, RegistersAlone, Registering
<1>2. CASE \E x \in Token : Expire(x)
  BY <1>2 DEF Expire, reqVars, RegistersAlone, Registering
<1>3. ASSUME NEW b \in Tab, BrowserStep(b) PROVE Goal
  <2>1. users' = users /\ Apart(b) /\ ~ Registering(b)'
    BY <1>3, BrowserSteps DEF Registering
  <2>2. QED
    BY <2>1 DEF Apart, RegistersAlone, Registering
<1>4. ASSUME NEW b \in Tab, Statement(b) PROVE Goal
  <2>1. CASE Registering(b)'
    <3>1. users' = users /\ call'[b] = call[b] /\ Apart(b)
      BY <1>4, <2>1 DEF Statement, Locks, Proceeds, Registering
    <3>2. CASE Registering(b)
      BY <3>1, <3>2 DEF Apart, RegistersAlone, Registering
    <3>3. CASE pc[b] = "user" /\ users[call[b].email] = NoUser /\ ~ EmailLocked(b)
      <4>1. \A s \in Tab \ {b} : Registering(s) => call[s].email # call[b].email
        BY <3>3 DEF EmailLocked, Registering
      <4>2. QED
        BY <3>1, <3>3, <4>1 DEF Apart, RegistersAlone, Registering
    <3>4. QED
      BY <1>4, <2>1, <3>2, <3>3 DEF Statement, Locks, Registering
  <2>2. CASE ~ Registering(b)' /\ users' = users
    BY <1>4, <2>2 DEF Statement, Apart, RegistersAlone, Registering
  <2>3. CASE ~ Registering(b)' /\ Registers(b)
    <3>1. Registering(b)
      BY <2>3 DEF Registers, Registering
    <3>2. \A s \in Tab \ {b} : Registering(s)' =>
             /\ Registering(s)
             /\ call'[s] = call[s]
             /\ call[s].email # call[b].email
      BY <1>4, <3>1 DEF Statement, Apart, RegistersAlone, Registering
    <3>3. \A s \in Tab \ {b} : Registering(s)' => users'[call'[s].email] = users[call[s].email]
      <4>1. \A s \in Tab : call[s].email \in Email
        BY CallsAssumption DEF TypeOK, Call
      <4>2. QED
        BY <2>3, <3>2, <4>1 DEF Registers, TypeOK
    <3>4. QED
      BY <1>4, <2>3, <3>2, <3>3 DEF RegistersAlone
  <2>4. QED
    BY <1>4, <2>1, <2>2, <2>3 DEF Statement, Tables, Registers, LogsIn
<1>5. QED
  BY <1>1, <1>2, <1>3, <1>4, StepKinds

\* An account, once there, keeps its password.
LEMMA AccountsKept ==
    ASSUME SInv, [Next]_vars, NEW e \in Email, users[e] # NoUser
    PROVE  users'[e] = users[e]
<1> USE DEF SInv
<1>1. ASSUME NEW t \in Tab, Registers(t) PROVE users'[e] = users[e]
  <2>1. users[call[t].email] = NoUser
    BY <1>1 DEF Registers, RegistersAlone, Registering
  <2>2. QED
    BY <1>1, <2>1 DEF Registers, TypeOK
<1>2. QED
  BY <1>1, UsersStep

LEMMA StoreOwnStep == SInv /\ [Next]_vars => StoresOwnSession'
<1> SUFFICES ASSUME SInv, [Next]_vars, NEW s \in Tab
             PROVE  /\ pc'[s] \in {"commit", "insert"} => made'[s] = <<s, left'[s]>>
                    /\ pc'[s] = "insert" => users'[call'[s].email] = call'[s].password
  BY DEF StoresOwnSession
<1> USE DEF SInv
<1>1. call[s].email \in Email /\ call[s].password # NoUser
  BY CallsAssumption, NullAssumption DEF TypeOK, Call
<1>2. pc[s] = "insert" => users'[call[s].email] = call[s].password
  BY <1>1, AccountsKept DEF StoresOwnSession
<1>3. CASE pc'[s] = pc[s] /\ made'[s] = made[s] /\ left'[s] = left[s] /\ call'[s] = call[s]
  BY <1>2, <1>3 DEF StoresOwnSession
<1>4. ASSUME NEW t \in Tab, BrowserStep(t), s = t PROVE pc'[s] \in {"idle", "session"}
  BY <1>4, BrowserSteps
<1>5. ASSUME NEW t \in Tab, BrowserStep(t), s # t PROVE Apart(t)
  BY <1>5, BrowserSteps
<1>6. ASSUME NEW t \in Tab, Statement(t), s = t
      PROVE  /\ pc'[s] \in {"commit", "insert"} => made'[s] = <<s, left'[s]>>
             /\ pc'[s] = "insert" => users'[call'[s].email] = call'[s].password
  BY <1>6 DEF Statement, Makes, Proceeds
<1>7. ASSUME NEW t \in Tab, Statement(t), s # t PROVE Apart(t)
  BY <1>7 DEF Statement
<1>8. QED
  BY <1>3, <1>4, <1>5, <1>6, <1>7, StepKinds DEF vars, Expire, reqVars, Apart

LEMMA LeftStep == SInv /\ [Next]_vars => LeftBelowMax'
<1> SUFFICES ASSUME SInv, [Next]_vars, NEW s \in Tab, Pending(s)'
             PROVE  left'[s] < MaxSubmit
  BY DEF LeftBelowMax
<1> USE DEF SInv
<1>1. left[s] \in 0 .. MaxSubmit
  BY DEF TypeOK
<1>2. CASE pc'[s] = pc[s] /\ left'[s] = left[s]
  BY <1>2 DEF LeftBelowMax, Pending
<1>3. ASSUME NEW t \in Tab, BrowserStep(t), s = t PROVE left'[s] < MaxSubmit
  BY <1>1, <1>3, SubmitAssumption, BrowserSteps
<1>4. ASSUME NEW t \in Tab, BrowserStep(t), s # t PROVE Apart(t)
  BY <1>4, BrowserSteps
<1>5. ASSUME NEW t \in Tab, Statement(t), s = t PROVE left'[s] < MaxSubmit
  BY <1>5 DEF Statement, Proceeds, Pending, LeftBelowMax
<1>6. ASSUME NEW t \in Tab, Statement(t), s # t PROVE Apart(t)
  BY <1>6 DEF Statement
<1>7. QED
  BY <1>2, <1>3, <1>4, <1>5, <1>6, StepKinds DEF vars, Expire, reqVars, Apart

LEMMA SInvInductive == SInv /\ [Next]_vars => SInv'
BY TypeStep, FreshStep, PagesStep, MatchStep, AloneStep, StoreOwnStep, LeftStep DEF SInv

LEMMA SInvInvariance == Spec => []SInv
<1>1. Init => SInv
  BY InitSInv
<1>2. SInv /\ [Next]_vars => SInv'
  BY SInvInductive
<1>3. QED
  BY <1>1, <1>2, PTL DEF Spec

------------------------------------------------------------------------------
(* Theorems *)

\* The tables, the cookies, the pages and the requests stay well-formed.
THEOREM SessionsTypeCorrect == Spec => []TypeOK
BY SInvInvariance, PTL DEF SInv

\* The step is one of a form of account e's page.
ForUserShown ==
    \A e \in Email : work'[e] # work[e] =>
        \E t \in Tab : pc[t] = "act" /\ pc'[t] # "act" /\ page[t].user = e

LEMMA ForUserShownStep == SInv /\ [Next]_vars => [ForUserShown]_vars
<1> SUFFICES ASSUME SInv, Next, NEW e \in Email, work'[e] # work[e]
             PROVE  \E t \in Tab : pc[t] = "act" /\ pc'[t] # "act" /\ page[t].user = e
  BY DEF ForUserShown, vars
<1> USE DEF SInv
<1>1. work' # work
  OBVIOUS
<1>2. PICK t \in Tab : Act(t)
  BY <1>1 DEF Next, Open, Deliver, Serve, Fail, Submit, Expire, Quiesced, vars, dbVars,
              Middleware, InsertUser, InsertFirstSession, CommitRegister, Lookup,
              InsertSession, Logout
<1>3. pc[t] = "act" /\ work' = [work EXCEPT ![sess[t].email] = 1 - @]
  BY <1>2 DEF Act
<1>4. pc'[t] = "answer"
  BY <1>2 DEF Act, Answer, Goto, TypeOK
<1>5. sess[t].email = page[t].user
  <2>1. sess[t] = [token |-> page[t].csrf, email |-> page[t].user]
    BY <1>3 DEF RequestsMatchPage
  <2>2. QED
    BY <2>1
<1>6. e = sess[t].email
  <2>1. work \in [Email -> {0, 1}]
    BY DEF TypeOK
  <2>2. QED
    BY <1>3, <2>1
<1>7. QED
  BY <1>3, <1>4, <1>5, <1>6

\* A form does its work for the account its page was rendered for, whatever the
\* cookie of the browser has become: csrf compares the page's token with the one
\* of the session that sessionMiddleware has loaded.
THEOREM FormsActForTheirPage == Spec => FormActsForUserShown
<1>1. SInv /\ [Next]_vars => [ForUserShown]_vars
  BY ForUserShownStep
<1>2. QED
  BY <1>1, SInvInvariance, PTL DEF Spec, FormActsForUserShown, ForUserShown

EndsByOwnPage ==
    \A k \in Token : sessions[k] # NoSession /\ sessions'[k] = NoSession =>
        \E t \in Tab : pc[t] = "logout" /\ pc'[t] # "logout" /\ page[t].csrf = k

\* The stored sessions change by a statement of a request, or expire.
LEMMA SessionsChange ==
    ASSUME SInv, [Next]_vars
    PROVE  \/ sessions' = sessions
           \/ \E k \in Token : Expire(k)
           \/ \E t \in Tab : Statement(t) /\ (Registers(t) \/ LogsIn(t) \/ Deletes(t))
BY StepKinds, BrowserSteps DEF vars, Statement, Tables

LEMMA EndsByOwnPageStep == SInv /\ [Next]_vars => [EndsByOwnPage]_vars
<1> SUFFICES ASSUME SInv, [Next]_vars, NEW k \in Token,
                    sessions[k] # NoSession, sessions'[k] = NoSession
             PROVE  \E t \in Tab : pc[t] = "logout" /\ pc'[t] # "logout" /\ page[t].csrf = k
  BY DEF EndsByOwnPage
<1> USE DEF SInv
<1>1. ASSUME NEW x \in Token, Expire(x) PROVE FALSE
  <2>1. sessions'[k] \in Session
    BY <1>1 DEF Expire, TypeOK, Session
  <2>2. QED
    BY <2>1, NullAssumption
<1>2. ASSUME NEW t \in Tab, Statement(t), Stores(t) PROVE FALSE
  <2>1. [email |-> call[t].email, expired |-> FALSE] \in Session
    BY CallsAssumption DEF TypeOK, Call, Session
  <2>2. QED
    BY <1>2, <2>1, StoresUnused, NullAssumption DEF TypeOK
<1>3. ASSUME NEW t \in Tab, Deletes(t)
      PROVE  pc[t] = "logout" /\ pc'[t] # "logout" /\ page[t].csrf = k
  BY <1>3 DEF Deletes, RequestsMatchPage, TypeOK
<1>4. QED
  BY <1>1, <1>2, <1>3, SessionsChange DEF Registers, LogsIn

\* A session ends by the logout button of a page that was rendered for it: no
\* other form, nor another session of the account, deletes its row.
THEOREM SessionsEndByOwnPage == Spec => SessionEndsByItsOwnPage
<1>1. SInv /\ [Next]_vars => [EndsByOwnPage]_vars
  BY EndsByOwnPageStep
<1>2. QED
  BY <1>1, SInvInvariance, PTL DEF Spec, SessionEndsByItsOwnPage, EndsByOwnPage

WithSession ==
    \A e \in Email : users'[e] # users[e] =>
        /\ users[e] = NoUser
        /\ \E k \in Token : sessions[k] = NoSession /\ sessions'[k] # NoSession
                            /\ sessions'[k].email = e

LEMMA WithSessionStep == SInv /\ [Next]_vars => [WithSession]_vars
<1> SUFFICES ASSUME SInv, [Next]_vars, NEW e \in Email, users'[e] # users[e]
             PROVE  /\ users[e] = NoUser
                    /\ \E k \in Token : sessions[k] = NoSession /\ sessions'[k] # NoSession
                                        /\ sessions'[k].email = e
  BY DEF WithSession
<1> USE DEF SInv
<1>1. PICK t \in Tab : Statement(t) /\ Registers(t)
  BY UsersStep
<1>2. e = call[t].email
  BY <1>1 DEF Registers, TypeOK
<1>3. PICK k \in Token :
        /\ sessions[k] = NoSession
        /\ sessions' = [sessions EXCEPT ![k] = [email |-> call[t].email, expired |-> FALSE]]
  BY <1>1, StoresUnused DEF Registers
<1>4. [email |-> call[t].email, expired |-> FALSE] \in Session
  BY CallsAssumption DEF TypeOK, Call, Session
<1>5. sessions'[k] = [email |-> call[t].email, expired |-> FALSE]
  BY <1>3 DEF TypeOK
<1>6. sessions'[k] # NoSession /\ sessions'[k].email = e
  <2>1. sessions'[k] # NoSession
    BY <1>4, <1>5, NullAssumption
  <2>2. QED
    BY <1>2, <1>5, <2>1
<1>7. users[e] = NoUser
  BY AccountsKept
<1>8. QED
  BY <1>3, <1>6, <1>7

\* An account is created together with its first session, once, and keeps its
\* password: Register's transaction stores both or neither, and the unique index
\* lets one of two registrations of an email through.
THEOREM AccountsComeWithFirstSession == Spec => AccountsComeWithSession
<1>1. SInv /\ [Next]_vars => [WithSession]_vars
  BY WithSessionStep
<1>2. QED
  BY <1>1, SInvInvariance, PTL DEF Spec, AccountsComeWithSession, WithSession

ByPassword ==
    \A k \in Token : sessions[k] = NoSession /\ sessions'[k] # NoSession =>
        \E t \in Tab :
            /\ made[t] = k
            /\ call[t].email = sessions'[k].email
            /\ call[t].password =
                  (IF users[call[t].email] # NoUser THEN users ELSE users')[call[t].email]

LEMMA ByPasswordStep == SInv /\ [Next]_vars => [ByPassword]_vars
<1> SUFFICES ASSUME SInv, [Next]_vars, NEW k \in Token,
                    sessions[k] = NoSession, sessions'[k] # NoSession
             PROVE  \E t \in Tab :
                       /\ made[t] = k
                       /\ call[t].email = sessions'[k].email
                       /\ call[t].password =
                             (IF users[call[t].email] # NoUser THEN users
                                ELSE users')[call[t].email]
  BY DEF ByPassword
<1> USE DEF SInv
<1>1. \A x \in Token : ~ Expire(x)
  BY DEF Expire, Valid, TypeOK
<1>2. \A t \in Tab : ~ Deletes(t)
  BY DEF Deletes, TypeOK
<1>3. PICK t \in Tab : Statement(t) /\ Stores(t) /\ (Registers(t) \/ LogsIn(t))
  BY <1>1, <1>2, SessionsChange DEF Registers, LogsIn
<1>4. made[t] = k /\ sessions'[k].email = call[t].email
  BY <1>3, StoresUnused DEF TypeOK
<1>5. call[t].email \in Email /\ call[t].password # NoUser
  BY CallsAssumption, NullAssumption DEF TypeOK, Call
<1>6. CASE pc[t] = "insert"
  BY <1>4, <1>5, <1>6 DEF StoresOwnSession
<1>7. CASE pc[t] = "commit"
  <2>1. users[call[t].email] = NoUser
    BY <1>7 DEF RegistersAlone, Registering
  <2>2. users' = [users EXCEPT ![call[t].email] = call[t].password]
    BY <1>3, <1>7 DEF Registers, LogsIn
  <2>3. QED
    BY <1>4, <1>5, <2>1, <2>2 DEF TypeOK
<1>8. QED
  BY <1>3, <1>6, <1>7 DEF Stores

\* A session is stored for an account by a request that gave the account's
\* password: at its login, or by the registration that creates it.
THEOREM SessionsAreByPassword == Spec => SessionsNeedPassword
<1>1. SInv /\ [Next]_vars => [ByPassword]_vars
  BY ByPasswordStep
<1>2. QED
  BY <1>1, SInvInvariance, PTL DEF Spec, SessionsNeedPassword, ByPassword
==============================================================================
