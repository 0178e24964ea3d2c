SPECIFICATION Spec
CONSTANTS
    d1 = d1
    d2 = d2
    policyA = policyA
    policyB = policyB
    keyA = keyA
    keyB = keyB
    envelope = envelope
    p1 = p1
    p2 = p2
    Docs = {d1, d2}
    DocPolicy <- MCDocPolicy
    DocKey <- MCDocKey
    DocPath <- MCDocPath
    ConfigPath = config
    Empty = empty
    None = none
    Trades = {t1}
    Procs = {p1, p2}
    MaxVersion = 2
    MaxTime = 1
    MaxBindings = 2
    MaxGeneration = 2
    MaxCommands = 5
SYMMETRY MCSymmetry
INVARIANTS CleanupSparesOthers
CHECK_DEADLOCK FALSE
