SPECIFICATION FairSpec
CONSTANTS
    x = x  x1 = x1  y = y  m = m  t = t  d = d
    MaxLen = 3
    Unit <- MCUnit
    Kind <- MCKind
    Behind <- Apart
    Mapped <- MCMapped
    File <- MCFile
    MaxLoads = 2
INVARIANTS
    IInv

    
    
CHECK_DEADLOCK FALSE
