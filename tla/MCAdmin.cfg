SPECIFICATION AdminSpec
CONSTANTS
    c1 = c1
    c2 = c2
    Clients = {c1, c2}
    x = x
    y = y
    Ids = {x, y}
    Routes = {"refresh", "retry"}
    CompletedLimit = 2
    PreparedLimit = 1
    Retention = 1
    LastTime = 2
    MaxGeneration = 2
    MaxEffects = 2
    RowIds = {1, 2, 3}
    Limit = 1
    MaxMoment = 2
    MaxOffset = 4
SYMMETRY NameSymmetry
INVARIANTS JournalInv PagesMissNothing
PROPERTIES SuccessIsOnRecord
CHECK_DEADLOCK FALSE
