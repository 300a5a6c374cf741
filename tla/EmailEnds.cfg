SPECIFICATION FairSpec
CONSTANTS
    u1 = u1
    u2 = u2
    d1 = d1
    d2 = d2
    m1 = m1
    m2 = m2
    None = None
    Uid = {u1}
    Device = {d1, d2}
    Address = {m1, m2}
    Typed <- MixedText
    MaxWrites <- OnlyD1
    MaxMain = 1
    MaxEvents = 1
PROPERTY
    StaleSessionEnds
