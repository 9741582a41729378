\* A task leaves the list between two pages of the default export.
SPECIFICATION Spec
CONSTANTS
    home = home
    a = a
    w = w
    NoFilter = NoFilter
    Bad = Bad
    NoDue = NoDue
    NoRow = NoRow
    Project = {home}
    Word = {w}
    Name = {a}
    Urls <- DefaultUrl
    Forms <- ExportForms
    Saved <- ThreeSaved
    Stamps <- EarlierOrNow
    ExportPage = 2
    StoreCap = 2
    ListCap = 1
    MaxTask = 4
    MaxWrites = 1
INVARIANT
    EveryMatchingTask
