SPECIFICATION Spec
CONSTANTS
    Outboxes = {o1}
    TargetCount = 2
    Required <- BothRequired
    MaxAttempts = 2
    InitialBackoff = 1
    MaximumBackoff = 1
    AttemptDeadline = 1
    MaxTime = 3
    MaxRevision = 10
    MaxRetries = 1
    Workers = {w1}
    Owners = {p}
    NoOwner = NoOwner
    Authorities = {A}
    Outcomes <- AnyAnswer
INVARIANTS CompleteIsDelivered
PROPERTIES KeepsThePromise
