\* Three jobs and one crash, no sweep, while the bytes of the asset come
\* and go as another document's: a job finds what others left that crashed, failed,
\* met an outage or raced a DELETE.
SPECIFICATION Spec
CONSTANTS
  j1 = j1
  j2 = j2
  j3 = j3
  Jobs = {j1, j2, j3}
  NoJob = NoJob
  Formats = {"scanned", "native"}
  Retention = FALSE
  Shared = TRUE
  DiskFails = TRUE
  MaxCrashes = 1
SYMMETRY Symmetry
INVARIANTS
  TypeOK
  DoneMeansServed
  QuietDeleteIsComplete
  DoneKeepsAsset
