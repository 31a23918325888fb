CONSTANTS
  git = git
  gitPlugin = gitPlugin
  notes = notes
  NoAgent = NoAgent
  Requests = {r1, r2}
  Natives <- MCNatives
  PluginAgents <- MCPluginAgents
  Names <- MCNames
  AgentName <- MCAgentName
  Actions <- MCActions
  Capabilities <- MCCapabilities
  Asks <- MCAsks
  Steps <- MCStepsAll
  MaxSteps = 3
  MaxPlans = 1
  MaxIntentAttempts = 2
  HasRedis = TRUE
SPECIFICATION Spec
SYMMETRY Symmetric
INVARIANTS
  ConfirmedBeforeRun
  RunsFollowThePlan
  StopsAtFirstFailure
  SuccessMeansAllRan
  EndsToldOnce
PROPERTIES
  OverMeansOver
  LedgerSpec
