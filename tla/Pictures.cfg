SPECIFICATION Spec
CONSTANTS
    u1 = u1
    u2 = u2
    None = None
    Junk = Junk
    Uid = {u1, u2}
    Slot = {s1, s2}
    MaxPicks <- TwoAndOne
INVARIANTS
    TypeOK
    OwnPictures
    PicturesAgree
SYMMETRY SlotSymmetry
CONSTRAINT NotAllCrossed
