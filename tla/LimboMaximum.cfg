SPECIFICATION Spec
CONSTANTS
    list = list
    document = document
    Target = {list}
    Key <- ThreeKeys
    Matches <- ListAndDocument
    max_concurrent_limbo_resolutions = 2
    MaxTargets = 3
    MaxEnqueued = 2
INVARIANT AtMostMax
