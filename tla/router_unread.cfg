\* One run of a document with an OCR tier and no other.
SPECIFICATION Spec
CONSTANTS
  Pages = {1, 2}
  Reads <- AllReads
  Tiers <- OnlyOCR
  OCRThreshold = 3
  VisionThreshold = 2
  VisionMaxPages = 1
  MaxRuns = 1
  MaxClears = 0
INVARIANT UnreadIsRedone
CHECK_DEADLOCK FALSE
