SPECIFICATION Spec
CONSTANTS
    Sections <- Changes
    TargetCount = 1
    Required <- FirstRequired
    MaxAttempts = 1
    InitialBackoff = 1
    MaximumBackoff = 1
    AttemptDeadline = 1
    MaxGeneration = 2
    MaxCrashes = 0
    MaxRefreshes = 0
    Outcomes <- Answers
PROPERTIES DesiredIsRendered
