SPECIFICATION EvidenceSpec
CONSTANTS
    Events <- MCEvents
    AuthoredAt <- MCAuthoredAt
    Defect <- MCDefect
    Overlap = 1
    Lookback = 3
    Deadline = 4
    MaximumEvents = 2
    PageEvents = 2
    LastTime = 4
    SourceCount = 2
    Replayed <- MCReplayed
    Replies <- MCReplies
    Answers <- MCAnswers
    MaximumFacts = 3
    MaximumBytes = 4
    Moments = {1, 2}
    Finishes = {2, 3}
INVARIANTS EvidenceInv RequiredSourcesDecide
PROPERTIES QueriesStrandNothing CheckpointsOnlyAdvance
