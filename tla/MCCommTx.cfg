SPECIFICATION FairSpec
CONSTANTS
  c1 = c1
  c2 = c2
  Callers <- CallersDef
  TxThread = TxThread
  Nobody = Nobody
  MaxFrames = 2
INVARIANTS
  IInv
  ExactlyOnceInOrder
  WakeupPending
PROPERTIES
  ImplementsSendService
  SyncCallReturns
  EveryFrameAttempted
  UninitCompletes
CHECK_DEADLOCK FALSE
