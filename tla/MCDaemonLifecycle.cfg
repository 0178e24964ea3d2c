SPECIFICATION MCSpec
CONSTANTS
    Tasks <- Spawned
    Requests = {r1}
    Signals = {terminate}
INVARIANTS DaemonInv ReadinessIsCurrent
PROPERTIES StoppingRefusesMutations ReadinessFollows StopsWhenTold
