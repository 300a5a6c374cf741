SPECIFICATION Spec
CONSTANTS
    list = list
    document = document
    Target = {list, document}
    Key <- Keys
    Matches <- ListAndDocument
    max_concurrent_limbo_resolutions = 1
    MaxTargets = 2
    MaxEnqueued = 2
INVARIANTS
    TypeOK
    StopsWatched
    RefsOfViews
    WaitsOnlyWhenFull
    LimboTracked
    NoLeak
