SPECIFICATION Spec
CONSTANTS
  Spaces = {"home", "work"}
  FirstSpace = "home"
  Machines = {"m", "n"}
  MaxAgents = 2
  MaxActs = 3
  Sessions = {1, 2}
  MaxAgentIds = 3
  MaxGatewayTasks = 4
  MaxEvents = 2
  Lines <- LinesDef
  Queries <- QueriesDef
  AddressBits = 3
  MaxLines = 3
  Order <- OrderDef
  Hosts = {"x", "y"}
  Contents = {{}, {"x"}, {"x", "y"}}
  FirstContent = {"x"}
  Holders = {1}
  RetryDelay = 1
  MaxIndexWrites = 1
  MaxIndexFaults = 1
  MaxIndexTime = 2
  Entries <- EntriesDef
  NamesOf <- NamesDef
  AddressesOf <- AddressesDef
  Forms <- FormsDef
  OwnIds = {"r1", "r2"}
  NumberedIds <- NumberedDef
  ClientRequests <- RequestsDef
  NoName = "none"
  FirstRules <- FirstRulesDef
  Pages = {"p1"}
  MaxRuleEdits = 2
  Artifacts = {"amd64", "arm64"}
  CacheLimit = 1
  MaxWrites = 3
  MaxTasks = 2
  SlowWorker = FALSE
  Keys = {"k1", "k2"}
  Requests = {"r1", "r2"}
  CacheRoom = 1
  ManualReuse = 1
  FetchReuse = 2
  BackgroundReuse = 3
  MaxCooldown = 2
  MaxFailures = 2
  Overtaken = FALSE
  Nobody = "none"
  MaxTime = 3
  Subs = {"s1", "s2"}
  Interval <- IntervalDef
  SourceKinds = {"plain", "loose", "dialing", "bad"}
  Chained = {2}
  MaxEditions = 2
  MaxChanges = 1
  MaxDays = 1
  MaxDeliveries = 2
  RuleIds = {"r1", "r2"}
  RuleNames = {"a:b", "a_b", "c"}
  OldFile <- OldFileDef
  RuleUrls = {"u"}
  RuleTexts = {"x", "bad"}
  BadTexts = {"bad"}
  SelectedRules = {"r2"}
  Editors = {"e1", "e2"}
  FirstLibraries <- FirstLibrariesDef
  MaxLibraryEdits = 2
PROPERTY BindingsAreRespected
INVARIANT MatchingIsRight
PROPERTY UpgradesAreProven
PROPERTY FetchesAreShared
CONSTRAINT NextTaskFirst
CHECK_DEADLOCK FALSE
