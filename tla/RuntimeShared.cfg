CONSTANTS
  t1 = t1
  t2 = t2
  s1 = s1
  a1 = a1
  n1 = n1
  n2 = n2
  n3 = n3
  ghost = ghost
  NoNode = NoNode
  Entry = n1
  Triggers <- TwoTriggers
  Sweeps <- Nobody
  Apis <- OneApi
  Nodes <- LoopNodes
  Unknown <- Ghosts
  Out <- LoopOut
  First <- LoopFirst
  OnError <- LoopOnError
  Outcomes <- LoopOutcomes
  MaxSteps = 3
  TokenCap = 1
  MaxTokens = 0
  MayCancel = TRUE
  MaxCrashes = 0
  AloneTrigger = t1
  AloneSweep = s1
  AloneNodes <- ChainNodes
  AloneUnknown <- NoGhosts
  AloneOut <- ChainOut
  AloneFirst <- ChainFirst
  AloneOnError <- ChainOnError
  AloneOutcomes <- ChainOutcomes
  AloneRank <- ChainRank
  AloneMaxSteps = 4
  AloneTokenCap = 2
  AloneMaxTokens = 2
  AloneMaxCrashes = 1
SPECIFICATION AllSpec
CHECK_DEADLOCK FALSE
INVARIANTS
  OwnStep
  AloneKeepsCount
PROPERTIES
  EndsAreFinal
  Progress
  AloneFollowsLifecycle
