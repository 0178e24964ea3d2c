SPECIFICATION PipelineSpec
CONSTANTS
    Trades = {t1}
    MaxGeneration = 1
    MaxTime = 4
    ShortTime = 4
    Owners = {o1}
    NoOwner = none
    Policies <- AllPolicies
    Sources = {s1, s2}
    Spare = s2
    MaxEvent = 1
    Overlap = 1
    Deadline = 1
    PublicationCapacity = 1
INVARIANT TimeoutsRemainRecordable
