SPECIFICATION FairSpec
CONSTANTS
    Note <- Notes
    MaxBlocks = 3
INVARIANTS
    TypeOK
    RowsHaveNotes
    ListAgrees
PROPERTIES
    ListCatchesUp
