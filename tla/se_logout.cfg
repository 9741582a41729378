\* A logout whose DELETE fails.
SPECIFICATION Spec
CONSTANTS
    t1 = t1
    t2 = t2
    b1 = b1
    ann = ann
    bob = bob
    right = right
    wrong = wrong
    short = short
    Browser = {b1}
    Tab = {t1, t2}
    BrowserOf <- OneBrowser
    Email = {ann, bob}
    Password = {right, wrong, short}
    BadPassword = {short}
    Calls <- TabCalls
    NoUser = NoUser
    NoSession = NoSession
    None = None
    Accounts <- AnnOnly
    MaxSubmit = 2
INVARIANT
    LoggedOutIsOut
