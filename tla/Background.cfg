CONSTANTS
  Senders = {w1}
  Sweeps = {k1}
  Rows = {d1}
  Jobs = {j1, j2}
  Operators = {q1, q2}
  Requests = {q1, q2}
  Bodies = {b1}
  Limit = 2
  NoRow = NoRow
  Evaluations = {q1, q2}
  Tickets = {t1}
  Ids = {b1}
  Drills = {q1, q2}
  Names = {k1}
  Setups = {"good", "bad"}
  Bad = {"bad"}
  Configs = {"plain", "tuned", "names"}
  Content = {"names"}
  Grace = 0
  Nil = Nil
  MaxAttempts = 2
  MaxFailures = 2
  MaxCrashes = 1
  MaxRowEdits = 1
  MaxAsked = 4
  MaxStops = 1
  MaxEvents = 2
  MaxRows = 2
  MaxDeaths = 1
  MaxDrills = 2
  MaxPages = 2
  MaxBeats = 1
  MaxEdits = 3
SPECIFICATION AllSpec
CHECK_DEADLOCK FALSE
INVARIANTS
  BudgetHolds
  OncePerKey
  DiscardMeansNever
  BackupsHold
  LinksAreProven
PROPERTIES
  HeldKeysAreFreed
  
  CascadesEnd
