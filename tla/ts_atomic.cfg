\* Requests of a user that follow one another are atomic steps on the task, also
\* when the process that serves them is shut down or crashes.
SPECIFICATION ServerSpec
CONSTANTS
    r1 = r1
    r2 = r2
    r3 = r3
    r4 = r4
    u1 = u1
    u2 = u2
    good = good
    better = better
    bad = bad
    home = home
    work = work
    a = a
    b = b
    Req = {r1, r2, r3}
    User = {u1, u2}
    Body = {good, better, bad}
    BadBody = {bad}
    Project = {home, work}
    Tag = {a, b}
    Calls <- TabCalls
    Saved <- OneSaved
    NoRow = NoRow
    NoProject = NoProject
    MaxTask = 4
    MaxTime = 2
    OneTab = TRUE
SYMMETRY Symmetry
INVARIANT
    ServerTypeOK
PROPERTIES
    FormsAreStoredWhole
    OneTabIsAtomic
