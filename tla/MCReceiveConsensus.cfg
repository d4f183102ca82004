SPECIFICATION ReceiveSpec
CONSTANTS
  Freqs = {1, 2, 3}
  Reach = 1
  Tunable = {1, 3}
  QueueDepth = 1
  DrainReads = 2
  PipeDepth = 2
  MaxChunks = 3
  Capacity = 3
  Blocks = {b1, b2, b3}
  NoBlock = NoBlock
  CaptureThread = capture
  Consumers = {dsp}
  Inputs = {i1, i2}
  Receivers = {r1}
  None = None
  Centers = {20, 23}
  Half = 4
  DecoderHalf = 1
  Margin = 2
  HeldMargin = 1
  MaxSessions = 3
  MaxWaiting = 1
  LaneTracks = {1, 2}
  MostLanes = 1
  Grace = 0
  ManualGrace = 1
  UnseenLimit = 1
  WindowRows = 2
  StrideRows = 1
  LaneInputs <- MCLaneInputs
  MaxRuns = 4
  MaxWindows = 2
  Tolerance = 1
  Confirmations = 2
  Retained = 3
  MostCharacters = 4
  Sent <- MCSent
  Spacing = 4
  Sounding = 2
  Jitter = 1
  Span = 12
  Stride = 2
  Confidences = {"high"}
  MaxReadings = 8
  MaxLanes = 1
  Producers <- MCProducers
  MostPending = 2
  MaxRequests = 3
  MaxSubmitted = 4
  MaximumTracks = 2
  TrackCapacity = 2
  MinimumObservations = 1
  IdentityTolerance = 1
  TrackingTolerance = 3
  Separation = 2
  ColorTolerance = 1
  ReanchorLimit = 2
  MatchHold = 0
  UnverifiedRetention = 0
  EmptyRetention = 1
  DecodedRetention = 1
  ParkedRetention = 2
  ColorRetention = 3
  RefinementAge = 1
  EnterSamples = 1
  ExitSamples = 1
  VerdictEvaluations = 1
  Corroborations = 2
  IdentifiedMultiplier = 2
  MostText = 3
  Frames <- MCFrames
  Readings <- MCReadings
  Selections = {2}
  Shifts <- MCShifts
  Beginnings <- MCBeginnings
  MostIds = 3
  MostSteps = 3
  LastTick = 3
  Parts = {"consensus"}
CHECK_DEADLOCK FALSE
INVARIANTS NothingTwice
