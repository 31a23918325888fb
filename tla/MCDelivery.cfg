CONSTANTS
  NumMessages = 3
  MaxLen = 2
  BatchSize = 2
  ReplayCount = 3
SPECIFICATION FairSpec
INVARIANTS
  TypeOK
  NothingLost
  ConfirmedIsOver
  OldBeforeNew
  InOrder
PROPERTY
  EveryOneFinished
