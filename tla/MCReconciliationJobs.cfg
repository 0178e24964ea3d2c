SPECIFICATION MCSpec
CONSTANTS
    Trades = {t1, t2}
    Spare = t2
    ShortTime = 2
    MaxGeneration = 2
    MaxTime = 4
    Owners = {o1, o2}
    NoOwner = none
    Policies <- OnePolicy
SYMMETRY OwnerPerms
INVARIANTS TypeOK NewestIsActive LeaseFencing JobsAreSound
PROPERTIES JobLifecycle ClaimsWaitTheirTurn
