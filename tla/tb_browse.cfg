\* A tab of the list, two writes at any point, a clock that passes midnight.
SPECIFICATION FormSpec
CONSTANTS
    home = home
    work = work
    a = a
    A = A
    w = w
    NoFilter = NoFilter
    Bad = Bad
    NoDue = NoDue
    NoRow = NoRow
    Project = {home, work}
    Word = {w}
    Name = {a}
    Urls <- BrowseUrls
    Forms <- BrowseForms
    Saved <- ThreeSaved
    ListPage = 2
    Days = 2
    NoChart = NoChart
    RawTag <- RawTags
    Normal <- LowerCase
    Blank = Blank
    Blanks <- NewForm
    Typings <- SomeTypings
    MaxTask = 4
    MaxWrites = 2
    Tomorrow = 2
INVARIANTS
    TypeOK
    WalkShowsEachTaskOnce
    CardsAgreeWithList
    CardMatchesBadges
    ExportLinkSelectsListed
    ChartAddsUpToCards
    DueDayIsFound
PROPERTY
    SaveChangesWhatWasTyped
