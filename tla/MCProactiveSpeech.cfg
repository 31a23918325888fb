CONSTANTS
  NumRoutines = 1
  OnStartup <- MCOnStartup
  Due <- MCDue
  Steps <- MCSteps
  MaxStaleness = 0
  MaxTime = 3
  NumMessages = 3
  MaxLen = 1
  BatchSize = 2
  ReplayCount = 3
SPECIFICATION FairSpec
INVARIANT HeardInTurn
PROPERTIES
  DeliverySpec
  DoneIsSaid
