SPECIFICATION Spec
CONSTANTS
    ByteBits = 3
    Width = {1, 2, 4}
    MaxBits = 8
INVARIANTS
    TypeOK
    StoredAsGiven
    ReadsTheElements
