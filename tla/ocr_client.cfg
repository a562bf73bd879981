\* An OCR call of one or two chunks and a vision call compete for two tokens
\* while the service changes once.
SPECIFICATION FairSpec
CONSTANTS
  a = a
  v = v
  OCRCalls = {a}
  VisionCalls = {v}
  Concurrency = 2
  OCREngines <- Serving
  VisionEngines <- Vision
  Unknown = 0
  MaxChanges = 1
INVARIANTS TypeOK TokensAreHeld SteadyKeys SwitchIsRefused
PROPERTY CallEnds
CHECK_DEADLOCK FALSE
