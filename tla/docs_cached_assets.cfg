\* Two jobs of the same bytes, no fault of the disk and no restart: one takes its
\* pages from the cache and replaces what the other has stored.
SPECIFICATION Spec
CONSTANTS
  j1 = j1
  j2 = j2
  Jobs = {j1, j2}
  NoJob = NoJob
  Formats = {"native"}
  Retention = FALSE
  Shared = FALSE
  DiskFails = FALSE
  MaxCrashes = 0
PROPERTY
  CacheHitKeepsAssets
