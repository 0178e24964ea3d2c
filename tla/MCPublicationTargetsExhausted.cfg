SPECIFICATION Spec
CONSTANTS
    Outboxes = {o1}
    TargetCount = 1
    Required <- FirstRequired
    MaxAttempts = 1
    InitialBackoff = 1
    MaximumBackoff = 1
    AttemptDeadline = 1
    MaxTime = 3
    MaxRevision = 6
    MaxRetries = 0
    Workers = {w1}
    Owners = {p}
    NoOwner = NoOwner
    Authorities = {A}
    Outcomes <- Answers
INVARIANTS ObservedOutcomesAppend
