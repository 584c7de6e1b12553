CONSTANTS
  NoWorker = NoWorker
  Listeners = {l1, l2}
  Workers = {w1, w2}
  Target <- ShortTarget
  MINUTE = 2
  Horizon = 4
  MaxCalls = 5
  MaxClocks = 2
  Agents = {ag1}
  Fields = {fld1}
  Statuses = {"closed", "reopened"}
  People = {"ann"}
  Spans <- ThreeSpans
  Templates <- ThreeRosters
  Tabs = {ag1}
  Presences = {"available", "away"}
  Available = {"available"}
  Day = 2
  Shift <- NightShift
  Break <- LastHour
  Criteria <- TwoCriteria
  Marks = {0, 100}
  PassingScores = {40, 80}
  Nobody = Nobody
  MaxVersion = 2
  MaxDeaths = 1
  MaxPlans = 2
  MaxLeaves = 1
  MaxStops = 1
  MaxWrites = 2
  MaxLost = 1
  MaxEvaluations = 1
  MaxDisputes = 2
SPECIFICATION AllSpec
SYMMETRY Symmetry
INVARIANT BreachAnnouncedOnce
CHECK_DEADLOCK FALSE
