SPECIFICATION FairSpec
CONSTANTS
    Writer = {w1, w2}
    NoWriter = NoWriter
    a1 = a1
    a2 = a2
    d1 = d1
    Artifact = {a1, a2}
    AddressOf <- OneAddress
    NoDecisions = NoDecisions
    Decisions = {NoDecisions, d1}
    Snapshots <- DisjointSnapshots
    UserLocks <- SomeEdits
    MaxId = 2
PROPERTIES
    CommitMatchesLock
    EveryRequestReturns
