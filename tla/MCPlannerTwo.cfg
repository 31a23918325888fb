CONSTANTS
  git = git
  gitPlugin = gitPlugin
  notes = notes
  NoAgent = NoAgent
  Requests = {r1, r2}
  Natives <- MCNatives
  PluginAgents <- MCPluginSameName
  Names <- MCNames
  AgentName <- MCAgentName
  Actions <- MCActions
  Capabilities <- MCCapabilities
  Asks <- MCAsks
  Steps <- MCStepsPush
  MaxSteps = 1
  MaxPlans = 2
  MaxIntentAttempts = 2
  HasRedis = TRUE
SPECIFICATION FairSpec
INVARIANTS
  IInv
  ApprovalsRunOnce
PROPERTY
  Answered
