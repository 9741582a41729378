\* The Previous link of the second page.
SPECIFICATION FormSpec
CONSTANTS
    home = home
    work = work
    a = a
    A = A
    w = w
    NoFilter = NoFilter
    Bad = Bad
    NoDue = NoDue
    NoRow = NoRow
    Project = {home, work}
    Word = {w}
    Name = {a}
    Urls <- DefaultUrl
    Forms <- BrowseForms
    Saved <- ThreeSaved
    ListPage = 2
    Days = 2
    NoChart = NoChart
    RawTag <- RawTags
    Normal <- LowerCase
    Blank = Blank
    Blanks <- NewForm
    Typings <- SomeTypings
    MaxTask = 4
    MaxWrites = 0
    Tomorrow = 1
INVARIANT
    PreviousGoesBack
