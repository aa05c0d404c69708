SPECIFICATION Spec
CONSTANTS
    MaxId = 2
    Empty = Empty  full = full  written = written  Broken = Broken  Absent = Absent
    Content <- MCContent
    Template <- MCTemplate
    RxThread = RxThread  Listener = Listener  App = App
    Walker = {RxThread, App}
    Faults = TRUE
INVARIANTS
    IInv
    UndisturbedWalkIsSafe
PROPERTIES
    UndisturbedWalkSeesAll
    ImplementsDeviceStore
