\* Three requests of two users, every operation, two instants, all interleavings.
SPECIFICATION Spec
CONSTANTS
    r1 = r1
    r2 = r2
    r3 = r3
    r4 = r4
    u1 = u1
    u2 = u2
    good = good
    better = better
    bad = bad
    home = home
    work = work
    a = a
    b = b
    Req = {r1, r2, r3}
    User = {u1, u2}
    Body = {good, better, bad}
    BadBody = {bad}
    Project = {home, work}
    Tag = {a, b}
    Calls <- SafetyCalls
    Saved <- TwoSaved
    NoRow = NoRow
    NoProject = NoProject
    MaxTask = 5
    MaxTime = 2
    OneTab = FALSE
SYMMETRY Symmetry
INVARIANTS
    TypeOK
    OwnerConsistent
    WaitsStayWithinUser
    TimestampsOrdered
PROPERTIES
    TagsFromOneWrite
    GoneStaysGone
    NamesComeWithTask
    OtherUsersUntouched
