SPECIFICATION MCSpec
CONSTANTS
  NetworkAsks = 3
  VolumeTries = 3
  MountIds = {"a", "b"}
  MountAsks = 3
  PortalPaths = {"p", "q"}
  PortalAsks = 4
  DeviceIds = {"eth0"}
  ConnectionIds = {"a", "b"}
  VpnIds = {"v", "w"}
  SearchTerms <- TypedTerms
  LongerThan <- LongerTerms
  SearchIds = {"x", "y"}
  MatchesFor <- MatchesOf
  SearchKeys = 4
  ExtensionIds = {"a", "b", "c"}
  OutdatedIds = {"c"}
  ExtensionFaults = 1
  LoginTries = 6
  LoginFailures = 2
INVARIANTS
  AgentsAnswer
  MenusFollow
PROPERTIES
  ExtensionsKeepOrder
CHECK_DEADLOCK FALSE
