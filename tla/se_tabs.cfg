\* Two tabs of one browser.
SPECIFICATION FairSpec
CONSTANTS
    t1 = t1
    t2 = t2
    b1 = b1
    ann = ann
    bob = bob
    right = right
    wrong = wrong
    short = short
    Browser = {b1}
    Tab = {t1, t2}
    BrowserOf <- OneBrowser
    Email = {ann, bob}
    Password = {right, wrong, short}
    BadPassword = {short}
    Calls <- TabCalls
    NoUser = NoUser
    NoSession = NoSession
    None = None
    Accounts <- AnnOnly
    MaxSubmit = 2
INVARIANT
    TypeOK
PROPERTIES
    FormActsForUserShown
    SessionEndsByItsOwnPage
    AccountsComeWithSession
    SessionsNeedPassword
    EveryFormAnswered
