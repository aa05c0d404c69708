SPECIFICATION FairSpec
CONSTANTS
    Readers <- Api
    Peekers <- NoPeeker
    Requests <- LiveRequests
    Contents <- ReplyAndOther
    Nobody = nobody
    DontCare = dontcare
    dontcare = dontcare
    api = api
    listener = listener
    peeker = peeker
    dev = dev
    host = host
    TickMod = 4
    ResponseTime = 1
    LifeTime = 2
    MaxFrames = 1
    StartTick = 2
    MaxTicks = 0
PROPERTIES ReaderReturns QuitReleasesReaders RxThreadJoined
CHECK_DEADLOCK FALSE
