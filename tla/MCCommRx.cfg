SPECIFICATION Spec
CONSTANTS
    Readers <- ApiAndListener
    Peekers <- Peeker1
    Requests <- AllRequests
    Contents <- ReplyAndOther
    Nobody = nobody
    DontCare = dontcare
    dontcare = dontcare
    api = api
    listener = listener
    peeker = peeker
    dev = dev
    host = host
    TickMod = 16
    ResponseTime = 1
    LifeTime = 1
    MaxFrames = 2
    StartTick = 13
    MaxTicks = 3
INVARIANTS IInv QueueInOrder HandedOverOnce ReplyAfterRequest
PROPERTIES ClearedByAge PeekerNeverSteals
CHECK_DEADLOCK FALSE
