SPECIFICATION FairSpec
CONSTANTS
    u1 = u1
    u2 = u2
    Uid = {u1, u2}
    Object = {o1, o2}
    Name = {n1, n2}
    None = None
    MaxTasks = 2
    MaxWrites <- OnlyU1
INVARIANTS
    TypeOK
    NamesAgree
PROPERTY
    NamesSettle
