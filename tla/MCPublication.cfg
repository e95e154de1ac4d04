SPECIFICATION Spec
CONSTANTS
    Writer = {w1, w2}
    NoWriter = NoWriter
    a1 = a1
    a2 = a2
    d1 = d1
    Artifact = {a1, a2}
    AddressOf <- OwnAddresses
    NoDecisions = NoDecisions
    Decisions = {NoDecisions, d1}
    Snapshots <- TwoSnapshots
    UserLocks <- NoUser
    MaxId = 3
SYMMETRY WriterSymmetry
INVARIANTS
    TypeOK
    CurrentComplete
    UncommittedFilesSafe
    GeneratorSurvives
    MutualExclusion
PROPERTIES
    CommittedIdsIncrease
    ImplementsStore
