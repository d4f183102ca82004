SPECIFICATION RingSpec
CONSTANTS
  Capacity = 3
  Blocks = {b1, b2}
  NoBlock = NoBlock
  CaptureThread = capture
  Consumers = {dsp, capture}
PROPERTIES TailAdvancesByOne
