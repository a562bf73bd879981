\* The process starts beside an OCR service of two workers that load, fall
\* back and die, and answers two requests for one document.
SPECIFICATION MCSpec
CONSTANTS
  garbled = garbled
  nan = nan
  Environments <- Envs
  Garbled <- garbled
  NaN <- nan
  Fine = 10
  OCRWorkers = {1, 2}
  Deployments <- Images
  SleepTime = 2
  CallTime = 1
  Requests = {1, 2}
  Names = {"text", "other"}
INVARIANTS ServiceTypeOK GivesUpInTime ConfiguredIsUsed ReportIsTrue  SameWord
PROPERTY StartSettles
