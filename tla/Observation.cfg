\* A file of three pages and one of two; an edit, a transaction and a kill.
CONSTANTS
    PageLines = 2
    SearchLines = 3
    Context = 1
    SmallLine = 4
    SmallFiles = 3
    Revisions <- MCRevisions
    Lines <- MCLines
    Matched <- MCMatched
    Located <- MCLocated
    Listings = {x, y}
    MaxEdits = 1
    Requests <- MCRequests
    MaxOps = 3
    MaxEffects = 1
    MaxKills = 1
SYMMETRY MCSymmetry
CHECK_DEADLOCK FALSE
SPECIFICATION ObservationSpec
INVARIANT LedgerIsWhole
INVARIANT ReplayIsCurrent
INVARIANT RecallIsHonest
INVARIANT LinesAreExact
