\* Two runs over one cache.
SPECIFICATION Spec
CONSTANTS
  Pages = {1, 2}
  Reads <- AllReads
  Tiers <- AllTiers
  OCRThreshold = 3
  VisionThreshold = 2
  VisionMaxPages = 1
  MaxRuns = 2
  MaxClears = 1
INVARIANTS HolesAreMarked HealthyRunIsWhole ScoreIsOfText VisionBudget AgreementKeepsOCR PaidOnce
PROPERTIES VisionNeverBlanks ImplementsEscalation
CHECK_DEADLOCK FALSE
