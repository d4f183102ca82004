SPECIFICATION SdrSpec
CONSTANTS
  Freqs = {1, 2, 3}
  Reach = 1
  Tunable = {1, 3}
  QueueDepth = 1
  DrainReads = 2
  PipeDepth = 2
  MaxChunks = 3
CHECK_DEADLOCK FALSE
PROPERTY HolesNoticed
