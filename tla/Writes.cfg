SPECIFICATION FairSpec
CONSTANTS
    u1 = u1
    u2 = u2
    None = None
    User = {u1, u2}
    Nobody = u2
    Write <- Writes
    Request = {r1, r2}
    r1 = r1
    r2 = r2
    kMaxPendingWrites = 2
    MaxMain = 1
    MaxWorker = 1
INVARIANTS
    TypeOK
    AssertionsHold
    OwnToken
    VerdictsTold
    PipelineIsPrefix
    AcknowledgedStays
PROPERTIES
    KeepsPromise
    WritesSettle
