SPECIFICATION Spec
CONSTANTS
    Outboxes = {o1}
    TargetCount = 1
    Required <- FirstRequired
    MaxAttempts = 2
    InitialBackoff = 1
    MaximumBackoff = 1
    AttemptDeadline = 1
    MaxTime = 2
    MaxRevision = 6
    MaxRetries = 0
    Workers = {w1, w2}
    Owners = {p, q}
    NoOwner = NoOwner
    Authorities = {A, B}
    Outcomes <- Answers
SYMMETRY Symmetry
INVARIANTS OutboxTypeOK AttemptsGoOutOnce EvidenceIsObserved ServedUnderItsAuthority TablesAgree
PROPERTIES OutboxLifecycle
