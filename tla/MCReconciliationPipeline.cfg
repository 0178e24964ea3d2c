SPECIFICATION MCPipelineSpec
CONSTANTS
    Trades = {t1}
    MaxGeneration = 2
    MaxTime = 5
    ShortTime = 3
    Owners = {o1}
    NoOwner = none
    Policies <- AllPolicies
    Sources = {s1, s2}
    Spare = s2
    MaxEvent = 2
    Overlap = 1
    Deadline = 1
    PublicationCapacity = 1
INVARIANTS PipelineInv ReportsRestOnTheirGeneration ReportsFormAChain
PROPERTIES ImplementsQueue
