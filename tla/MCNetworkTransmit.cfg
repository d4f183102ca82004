SPECIFICATION NetworkSpec
CONSTANTS
  MaxHz = 1000
  Panels <- MCPanels
  HamlibQueue = 3
  HamlibLines = 1
  HamlibCommands <- MCCommands
  RadioIds = {1, 2}
  CatRadios <- MCCatRadios
  MaxRequests = 2
  MaxAttempts = 0
  MaxUpdates = 2
  MaxMessages = 2
  MaxRf = 30
  Reach = 2
  SomeRigs <- MCRigs
  SomeRadios <- MCRadios
  SomeProfiles <- MCProfiles
  SomeRf = {11}
  TunedRf = {11, 12}
  SomeOffsets = {0}
  MaxChanges = 1
  LeaseClients = {"c1", "c2"}
  Nobody = "nobody"
  LeaseRigs = {"r1", "r2"}
  RequestedTtls = {0, 2, 9}
  MinTtl = 1
  MaxTtl = 3
  LeaseEnd = 5
  Servers <- MCServers
  SourceOf <- MCSourceOf
  Filtered = {"node"}
  Logins = {"c1", "c2"}
  BadLogin = "junk"
  Bands = {"20m", "40m"}
  NoBand = "unknown"
  MinimumReconnect = 15
  MaximumReconnect = 40
  MaxFailures = 3
  MaxPending = 2
  MaxInFlight = 2
  Parts = {"settings"}
  SpotCalls = {"a", "b"}
  SpotBands = {"20m"}
  Unplaced = "none"
  Retentions = {0, 1}
  MaximumSpots = 2
  Stamps = {0, 2, 9}
  LastTime = 3
  MostSetBacks = 1
INVARIANTS RxWriteLeavesTx
