SPECIFICATION Spec
CONSTANTS
    u1 = u1
    u2 = u2
    d1 = d1
    d2 = d2
    m1 = m1
    m2 = m2
    None = None
    Uid = {u1, u2}
    Device = {d1}
    Address = {m1, m2}
    Typed <- PlainText
    MaxWrites <- Two
    MaxMain = 2
    MaxEvents = 1
SYMMETRY Symmetry
INVARIANTS
    TypeOK
    Agreement
