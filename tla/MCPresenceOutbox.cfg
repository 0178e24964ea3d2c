SPECIFICATION Spec
CONSTANTS
    Sections <- Changes
    TargetCount = 2
    Required <- FirstRequired
    MaxAttempts = 2
    InitialBackoff = 1
    MaximumBackoff = 1
    AttemptDeadline = 1
    MaxGeneration = 2
    MaxCrashes = 2
    MaxRefreshes = 2
    Outcomes <- Answers
INVARIANTS PresenceInv OnlyDesiredGoesOut
PROPERTIES KeepsPresencePromise PresenceSettles
