CONSTANTS
  NoOne = NoOne
  NoText = NoText
  NoGraph = NoGraph
  NoKeys = NoKeys
  Builders = {b1, b2}
  Graphs = {good, bad}
  Publishable = {good}
  MaxSaves = 2
  MaxRequests = 5
  Operators = {o1, o2}
  Users = {ann, bob}
  Texts = {plain, flow}
  Flowing = {flow}
  Passing = {plain, good}
  FourEyes = TRUE
  PageSize = 2
  MaxVersions = 3
  Roles = {o1, o2}
  Codes = {code}
  SystemRoles = {}
  AccessTtl = 3
  RefreshTtl = 1
  MinMark = 1
  MaxFailed = 2
  LockBase = 1
  Logins = {login1}
  States = {st1}
  Uris = {u1, u2}
  Tiers <- TwoTiers
  SeatsOf <- TwoAndThree
  Overrides <- SomeLimits
  MaxTime = 3
  MaxSessions = 3
  MaxCalls = 3
  MaxGrants = 1
  MaxRotations = 1
  MaxChanges = 2
  MaxSeats = 4
  MaxAsked = 3
SPECIFICATION AllSpec
SYMMETRY Symmetry
INVARIANTS
  PublishedGraphIsFrozen
  SecondPerson
  
  AccountsAreGuarded
  
  PlansBind
CHECK_DEADLOCK FALSE
