CONSTANTS
  NumMessages = 4
  MaxLen = 2
  BatchSize = 2
  ReplayCount = 4
SPECIFICATION Spec
INVARIANT
  ConsumerSurvives
