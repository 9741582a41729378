\* Two runs of the seeder and a request of the user, all interleavings.
SPECIFICATION FairSpec
CONSTANTS
    s1 = s1
    s2 = s2
    r1 = r1
    u = u
    v = v
    home = home
    mine = mine
    a = a
    first = first
    other = other
    Seeder = {s1, s2}
    Req = {r1}
    User = {u, v}
    Seeded = u
    Project = {home, mine}
    Tag = {a}
    BaseNames <- HomeAndA
    Count = 2
    Drawn <- AllOrNothing
    Flags <- FirstWipes
    Calls <- OneRequest
    Saved <- TwoSaved
    Ages = 8
    Growth = 5
    Recent = 3
    Shelf = 4
    NoRow = NoRow
    NoProject = NoProject
INVARIANTS
    TypeOK
    WipedBeforeSeeding
    SeedIsExact
    TasksDatedInOrder
PROPERTIES
    SeededTogether
    OnlyAWipeDeletes
    EveryRunEnds
