SPECIFICATION Spec
CONSTANTS
  Cidrs = {"a", "b"}
  Vendors = {"routeros", "ikuai"}
  Selections <- SelectionsDef
  MaxReleases = 2
  MaxFaults = 1
  MaxForeign = 1
  Nets = {"a", "p"}
  PolicyNets = {"p"}
  RemoteVersions = {{"a"}, {"p"}}
  LocalVersions = {{}, {"a"}}
  MaxSettings = 2
  MaxHandEdits = 1
  Addresses = {"x", "y"}
  MaxSourceReleases = 2
  MaxDrafts = 1
  MaxUpsets = 2
  Lists = {"a"}
  MaxProfileEdits = 2
  MaxDeviceTrouble = 1
  MaxDeviceReleases = 1
  TakenBackLate = TRUE
  Target = {1, 2}
  TableRows <- RowsDef
  NatRules <- RulesDef
  DevicePolicies <- PoliciesDef
  ClientSources = {1, 2}
  GatewayAddress = 4
  MaxTableRows = 3
PROPERTY PublicationIsSafe
INVARIANT ForwardingIsJudgedRight
INVARIANT DnsRulesAreKept
PROPERTY DnsControlsAreSafe
PROPERTY AutomationIsCareful
CHECK_DEADLOCK FALSE
