SPECIFICATION StationSpec
CONSTANTS
  MaxU64 = 5
  MaxKeyDown = 2
  MaxLeadOrHang = 1
  MaxMessageLimit = 2
  MaxLatenessLimit = 1
  MaxTune = 2
  HealthPoll = 5
  Calls <- MCCalls
  NoCall = "none"
  RawCalls <- MCRawCalls
  NormalizeCall <- MCNormalizeCall
  Messages <- MCMessages
  NoMessage = "empty"
  RawMessages <- MCRawMessages
  NormalizeMessage <- MCNormalizeMessage
  KeyDeadline = 2
  TuneDeadline = 2
  EngineConfig <- MCEngineConfig
  Speeds <- MCSpeeds
  Encode <- MCEncode
  RadioIds = {"20m", "40m"}
  SomeRadios <- MCSomeRadios
  SomeDevices <- MCSomeDevices
  MaxSlip = 1
  MaxQueue = 1
  Profiles = {"home", "away"}
  Home = "home"
  SdrDevices = {"sdr"}
  NoDevice = "none"
  Inputs = {"default", "mic"}
  Outputs = {"default", "phones"}
  Servers = {0, 1}
  SomeBenches <- MCSomeBenches
  BackendBuilt = {TRUE, FALSE}
  MostEdits = 4
  MostFailures = 1
  Pages = {"sound", "display", "keying", "source", "cluster", "diagnostics"}
INVARIANTS
  AcceptanceIsMeasured
  ProfilesInv
  StationInv
  OutputIsAuthorized
PROPERTIES
  OutputEnds
