CONSTANTS
  Publishers = {"main", "run"}
  Handlers = {1, 2, 3, 4}
  Events <- MCEvents
  NumPlugins = 4
  Names = {"base", "calendar", "music", "agenda", "httpx"}
  Name <- MCName
  AgentName <- MCAgentName
  Requires <- MCRequires
  Packages = {"httpx"}
  Hooks <- MCHooks
  Fault <- MCFault
  HousekeepingTicks = 2
  RoutinesTicks = 1
SPECIFICATION FairSpec
INVARIANTS
  TypeOK
  OnlyTheLiving
  DependenciesFirst
  StoppedMeansStopped
PROPERTIES
  HealthTellsOfTheLoop
  StopsInTheEnd
