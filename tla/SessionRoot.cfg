SPECIFICATION Spec
CONSTANTS
    u1 = u1
    u2 = u2
    Uid = {u1, u2}
    NoUser = NoUser
    Unset = Unset
    Slot = {s1, s2}
    MaxChanges <- NoChange
    MaxMain = 2
SYMMETRY Symmetry
INVARIANTS
    TypeOK
    RootFollowsUser
    PasswordOnlyVerified
    EndIsAnnounced
    SignedInSeesHome
