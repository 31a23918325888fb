CONSTANTS
  NumRoutines = 3
  OnStartup <- MCOnStartup
  Due <- MCDue
  Steps <- MCSteps
  MaxStaleness = 1
  MaxTime = 5
SPECIFICATION FairSpec
INVARIANTS
  TypeOK
  EachInTurn
  DoneMeansDone
PROPERTIES
  SettledIsFinal
  EveryOneSettled
