\* A new task submitted twice.
SPECIFICATION Spec
CONSTANTS
    r1 = r1
    r2 = r2
    r3 = r3
    r4 = r4
    u1 = u1
    u2 = u2
    good = good
    better = better
    bad = bad
    home = home
    work = work
    a = a
    b = b
    Req = {r1, r2}
    User = {u1, u2}
    Body = {good, better, bad}
    BadBody = {bad}
    Project = {home, work}
    Tag = {a, b}
    Calls <- NewTask
    Saved <- Empty
    NoRow = NoRow
    NoProject = NoProject
    MaxTask = 2
    MaxTime = 1
    OneTab = FALSE
INVARIANT
    FailedCreateStoresNothing
