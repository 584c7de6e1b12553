CONSTANTS
  Ids <- ThreeIds
  NodeLists <- TriggerLoopPlain
  Adjacencies <- FullAdjacencies
  Requests = {q1, q2}
  MenuNodes = {n1, n2, n3}
  MenuEnds = {n3}
  MenuEntry = n1
  Missing = Missing
  Flows = {f1, f2}
  Numbers = {num}
  Slots = {f1}
  File = File
  Mirror = Mirror
  Updaters = {u1}
  Asked = {"complete", "stream", "tool"}
  Configured <- TwoProviders
  AiPolicies <- TwoPolicies
  People = {n1, n2}
  Founder = n1
  Customs = {f1}
  ApiKeys = {f2}
  Handlers = {num}
  Given = {"owner", "administrator"}
  Mapped = {"viewer"}
  Offers <- TwoOffers
  Questions = {{}, {"injection"}}
  Guardrails <- OneGuardrail
  None = None
  MaxHops = 3
  MaxRetries = 1
  MaxTurns = 1
  MaxAttempts = 2
  MaxRoutings = 5
  MaxCalling = 3
  MaxIndexing = 4
  MaxRewrites = 2
  MaxModelCalls = 3
  MaxPolicies = 1
  MaxNodes = 4
  MaxMoves = 2
SPECIFICATION AllSpec
SYMMETRY Symmetry
CHECK_DEADLOCK FALSE
INVARIANT PublishedHasNoBareCycle
