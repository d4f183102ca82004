SPECIFICATION ServicesSpec
CONSTANTS
  MaxU64 = 9
  MaxKeyDown = 2
  MaxLeadOrHang = 3
  MaxMessageLimit = 6
  MaxLatenessLimit = 2
  MaxTune = 4
  HealthPoll = 2
  SomeConfigs <- MCSomeConfigs
  SomePlans <- MCSomePlans
  Calls <- MCCalls
  NoCall = "none"
  RawCalls <- MCRawCalls
  NormalizeCall <- MCNormalizeCall
  Messages <- MCMessages
  NoMessage = "empty"
  RawMessages <- MCRawMessages
  NormalizeMessage <- MCNormalizeMessage
  MaxTime = 4
  KeyDeadline = 1
  TuneDeadline = 2
  SomeEngineConfigs <- MCSomeEngineConfigs
  EnginePlans <- MCEnginePlans
  EngineDevices <- MCEngineDevices
  StartTimes <- MCStartTimes
  EngineSlip = 2
  DatabaseVersions = 2
  UpdaterAttempts = 2
  UpdaterRedirects = 1
  CurrentRelease = 1
  NewestRelease = 2
  CheckerTries = 2
  Endpoints = {"loop", "lan"}
  MostSubscribers = 2
  MostInFlight = 1
  BlockChunks = 2
  MostChunks = 3
  Loopback = {"loop"}
  Peers = {"here", "there"}
  LocalPeers = {"here"}
  PeerRules = {{}, {"here", "there"}}
  MostClients = 2
  MostRequests = 2
  MostIds = 2
  MostSettings = 3
  MostSamples = 4
  MostAudioBlocks = 2
  MostSegments = 3
  Centers = {1, 2}
  IqRates = {1, 2}
  AudioRates = {1, 2}
  SoundRate = 1
  BlockSizes = {1, 2}
  ReplayBlock = 2
  MostFramesInFlight = 2
  MostBuffersInFlight = 2
  MostFrames = 5
  MostQueued = 3
  Parts = {"scheduler", "guard", "worker", "updater", "checker", "observers", "capture", "outputs"}
INVARIANTS
  NoCumulativeDrift
  ScheduleInv
  GuardInv
  EngineInv
  DownloadsInv
  ObserversInv
  CaptureInv
  OutputsInv
PROPERTIES
  PttEventuallyReleased
  TransmitsOnlyConfirmed
  EndsReleased
  UpdaterSettles
  GapsAreAccounted
