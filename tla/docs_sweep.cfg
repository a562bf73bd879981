\* One job, re-uploads, DELETE and the sweep under the fairness of FairSpec, with
\* removals that fail and one crash in the middle of a pass.
SPECIFICATION FairSpec
CONSTANTS
  j1 = j1
  Jobs = {j1}
  NoJob = NoJob
  Formats = {"text", "scanned", "native"}
  Retention = TRUE
  Shared = FALSE
  DiskFails = TRUE
  MaxCrashes = 1
PROPERTY
  AbandonedIsSwept
