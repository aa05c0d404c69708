SPECIFICATION Spec
CONSTANTS
    o1 = o1  o2 = o2  phantom = phantom  g1 = g1  g2 = g2  v1 = v1  v2 = v2
    Object <- MCObject
    Present <- MCPresent
    GAddr <- MCGAddr
    Value <- MCValue
    NoValue = novalue
    NoObject = noobject
    Listener = listener
    Setters = {s1}
    PageSize = 1
    StartMod = 2
    MaxLinks = 3
    Overlap = FALSE
SYMMETRY Symmetric
INVARIANTS
    IInv
    AnswersAgree
PROPERTY
    ImplementsLinkRelation
CHECK_DEADLOCK FALSE
