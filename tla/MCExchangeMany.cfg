SPECIFICATION Spec
CONSTANTS
    p1 = p1  p2 = p2  p3 = p3  a1 = a1  a2 = a2
    i1 = i1  i2 = i2  v1 = v1  v2 = v2
    one = one  two = two  three = three  far1 = far1  far2 = far2  far3 = far3
    everyone = everyone  group = group  nobody = nobody  norequest = norequest
    noitem = noitem  novalue = novalue  noaddress = noaddress
    Node = {p1, p2, p3}
    App = {a1, a2}
    Device <- MCDevice
    AppNode <- TwoClients
    Home <- MCHome
    Host <- HostOne
    Requests <- ManyRequests
    NoRequest = norequest
    Nobody = nobody
    Item = {i1, i2}
    Value <- MCValue
    FirstValue = v1
    NoItem = noitem
    NoValue = novalue
    Present <- MCPresent
    Joined <- MCJoined
    Enabled <- MCEnabled
    Address <- MCAddress
    Broadcast = everyone
    Group = group
    NoAddress = noaddress
    FirstAddress <- MCFirstAddress
    Hears <- Bus
    Listening = {p2, p3}
    Losing = FALSE
    Late = FALSE
    MaxCalls = 2
INVARIANTS
    IInv
    PerformedOnce
PROPERTY
    CollectedAll
CHECK_DEADLOCK FALSE
