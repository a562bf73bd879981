\* Three jobs: one stores an outage, one is killed between its two writes, and
\* the third finds nothing to redo.
SPECIFICATION Spec
CONSTANTS
  j1 = j1
  j2 = j2
  j3 = j3
  Jobs = {j1, j2, j3}
  NoJob = NoJob
  Formats = {"scanned"}
  Retention = FALSE
  Shared = FALSE
  DiskFails = TRUE
  MaxCrashes = 1
SYMMETRY Symmetry
INVARIANT
  MarkdownIsView
