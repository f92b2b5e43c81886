SPECIFICATION FairSpec
CONSTANTS
  IdleTimeout = 3
  ReconnectionTime = 2
  Ticks = 2
  MaxTicks = 3
  MaxSends = 2
  MaxBack = 2
  MaxForward = 2
  MaxSettings = 1
  MaxOpenFailures = 1
INVARIANTS
  TypeOK
  AttemptsApart
PROPERTIES
  IdleCloseJustified
  ErrorIsRetried
  IdleIsClosed
  NoSpin
