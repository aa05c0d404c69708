SPECIFICATION FairSpec
CONSTANTS
    x = x  x1 = x1  y = y  m = m  t = t  d = d
    MaxLen = 1
    Unit <- MCInputs
    Kind <- MCInputKind
    Mapped <- MCInputs
    Behind <- Packed
    File <- MCContact
    MaxLoads = 1
PROPERTY
    ReadsTheUnit
CHECK_DEADLOCK FALSE
