\* An export over three or four tasks, two writes at any point.
SPECIFICATION FairSpec
CONSTANTS
    home = home
    a = a
    w = w
    NoFilter = NoFilter
    Bad = Bad
    NoDue = NoDue
    NoRow = NoRow
    Project = {home}
    Word = {w}
    Name = {a}
    Urls <- ExportUrls
    Forms <- ExportForms
    Saved <- ThreeSaved
    Stamps <- EarlierOrNow
    ExportPage = 2
    StoreCap = 2
    ListCap = 1
    MaxTask = 4
    MaxWrites = 2
INVARIANTS
    TypeOK
    ReadsFirstRows
    UndisturbedIsComplete
    TagsNotOlder
PROPERTIES
    ExportAnswered
